--------------------------- MODULE SpecFunctions ---------------------------
(***************************************************************************)
(* The functions a run specification goes through, each next to a          *)
(* reference that says what it is for: decode_spec and encode (json.cpp)   *)
(* with the jsonb column between them, expand_sweep, validate_relative_    *)
(* path and retry_delay (model.cpp), workload_environment                  *)
(* (environment.cpp) and the GPU request of a Pod                          *)
(* (kubernetes_resources.cpp).  A behaviour picks one input and computes.  *)
(***************************************************************************)
EXTENDS Integers, Sequences, FiniteSets, FiniteSetsExt, SequencesExt, Functions

CONSTANTS
  RunLimit,   \* most runs of a sweep (1000)
  ByteLimit,  \* most bytes of its specifications, as estimated (16 MiB)
  ParameterBytes, \* counted for a parameter besides its name and text (32)
  Parameter,  \* limits of validate: most parameters, bytes of a name and of a text
  Bases,      \* bases of a sweep: estimated bytes, and parameters the grid leaves
  Dimensions, \* dimensions of a grid: bytes of the key, number of values,
              \* and bytes of the largest text among them
  MaxPath,    \* bound: characters of a path
  GpuCounts,  \* bound: GPUs a container asks for
  MaxDelay    \* bound: base_seconds and max_seconds

ASSUME FunctionsAssumption ==
  /\ {RunLimit, ByteLimit} \subseteq Nat \ {0} /\ ParameterBytes \in Nat
  /\ Parameter \in [count : Nat, name : Nat, text : Nat]
  /\ Bases \subseteq [bytes : Nat, parameters : Nat]
  /\ Dimensions \subseteq [key : Nat, values : Nat, largest : Nat]
  /\ GpuCounts \subseteq Nat
  /\ MaxPath \in Nat /\ MaxDelay \in Nat

VARIABLES input, result
functionVars == <<input, result>>

Rejected == [ok |-> FALSE]

-----------------------------------------------------------------------------
(* decode_spec, encode and the column runs.spec.  A body names some of the *)
(* fields; each of the sections resources, retry and top is represented by *)
(* one integer, and parameters by one value.  A value of a JSON document   *)
(* is an integer or a float: [int, mag], its magnitude being one of "low", *)
(* "wide" (a float printed with an exponent, below 2^63), "over" (2^63 to  *)
(* 2^64) and "huge".                                                       *)
Magnitude == {"low", "wide", "over", "huge"}
Number == [int : BOOLEAN, mag : Magnitude]

Default == [gpu_count |-> 0, max_attempts |-> 3, priority |-> 0]
InRange == [gpu_count |-> 0..64, max_attempts |-> 1..10, priority |-> 0..9]
Section == DOMAIN Default

SpecBodies ==
  [fields : UNION {[S -> {0, 1, 3, 11}] : S \in SUBSET Section},
   parameter : Number]

(* decode_scalar; nlohmann reads an integer of 2^64 or more as a float. *)
DecodeScalar(n) ==
  IF n.int /\ n.mag = "over" THEN Rejected
  ELSE [ok |-> TRUE, value |-> [n EXCEPT !.int = @ /\ n.mag # "huge"]]

(* decode_spec with validate. *)
Decode(body) ==
  LET f == [k \in Section |-> IF k \in DOMAIN body.fields THEN body.fields[k]
                              ELSE Default[k]]
      p == DecodeScalar(body.parameter)
  IN IF p.ok /\ \A k \in Section : f[k] \in InRange[k]
       THEN [ok |-> TRUE, spec |-> [fields |-> f, parameter |-> p.value]]
       ELSE Rejected

(* encode(RunSpec): gpu_count is left out when it is zero. *)
Encode(spec) ==
  [spec EXCEPT !.fields =
     [k \in {k \in Section : k = "gpu_count" => spec.fields[k] # 0} |-> spec.fields[k]]]

(* What comes out of a jsonb column: numbers are written without exponent, *)
(* so that a float that had one is read as an integer.                     *)
Jsonb(body) ==
  [body EXCEPT !.parameter.int = @ \/ body.parameter.mag # "low"]

(* submit: the row is read back, by pg::run, before the transaction        *)
(* commits; rerun stores what it read of an old run.                       *)
SubmitSpec(body) ==
  LET asked == Decode(body)
  IN IF ~asked.ok THEN Rejected
     ELSE LET read == Decode(Jsonb(Encode(asked.spec)))
          IN IF ~read.ok THEN Rejected
             ELSE [ok |-> TRUE, asked |-> asked.spec, read |-> read.spec,
                   again |-> Decode(Jsonb(Encode(read.spec)))]

(* A specification that was accepted can be read for ever after, also      *)
(* through a rerun, and means what was asked for: same defaults, same GPU  *)
(* count although zero is not stored, same parameter up to the number type *)
(* jsonb forgets (json.cpp:47-72, 73-117).                                 *)
SpecKept ==
  result.kind = "spec" /\ result.out.ok =>
    /\ result.out.read.fields = result.out.asked.fields
    /\ result.out.read.parameter.mag = result.out.asked.parameter.mag
    /\ result.out.again = [ok |-> TRUE, spec |-> result.out.read]

-----------------------------------------------------------------------------
(* expand_sweep, of a base that decode_spec has validated.  A grid is the  *)
(* sequence of its dimensions in the order of their keys; a run is the     *)
(* sequence of the values chosen.                                          *)
Sweeps == [base : Bases, grid : BoundedSeq(Dimensions, 3)]

Widths(grid) == [d \in 1..Len(grid) |-> grid[d].values]

CountTo(widths) ==
  FoldLeft(LAMBDA acc, n : IF n = 0 \/ n > RunLimit \div acc.count
                             THEN [acc EXCEPT !.ok = FALSE]
                             ELSE [acc EXCEPT !.count = @ * n],
           [ok |-> TRUE, count |-> 1], widths)

(* The bytes of one run, with the largest text of every dimension. *)
Estimate(sweep) ==
  FoldLeft(LAMBDA bytes, d : bytes + d.key + d.largest + ParameterBytes,
           sweep.base.bytes, sweep.grid)

(* validate of every run: only the parameters differ from the base, and    *)
(* every value is in one of them.                                          *)
RunsValid(sweep) ==
  \A d \in DOMAIN sweep.grid :
    /\ sweep.grid[d].key <= Parameter.name /\ sweep.grid[d].largest <= Parameter.text
    /\ sweep.base.parameters + Len(sweep.grid) <= Parameter.count

Extend(runs, n) ==
  FlattenSeq([i \in 1..Len(runs) |-> [v \in 1..n |-> Append(runs[i], v)]])

\* Mutant: the bytes are checked for one run.
ExpandSweepUncounted(sweep) ==
  LET widths == Widths(sweep.grid)
      counted == CountTo(widths)
  IN IF /\ \A d \in DOMAIN sweep.grid : sweep.grid[d].key > 0
        /\ counted.ok /\ Estimate(sweep) <= ByteLimit /\ RunsValid(sweep)
       THEN [ok |-> TRUE, runs |-> FoldLeft(Extend, << <<>> >>, widths)]
       ELSE Rejected

ExpandSweep(sweep) ==
  LET widths == Widths(sweep.grid)
      counted == CountTo(widths)
  IN IF /\ \A d \in DOMAIN sweep.grid : sweep.grid[d].key > 0
        /\ counted.ok /\ Estimate(sweep) <= ByteLimit \div counted.count
        /\ RunsValid(sweep)
       THEN [ok |-> TRUE, runs |-> FoldLeft(Extend, << <<>> >>, widths)]
       ELSE Rejected

Product(widths) == FoldLeft(LAMBDA acc, n : acc * n, 1, widths)

(* A sweep is accepted exactly when it has between one and RunLimit runs   *)
(* that together keep the ByteLimit, both checked by division before       *)
(* anything is multiplied (model.cpp:156, 176), and every value can be a   *)
(* parameter of a run ("a limit of 1000 runs and an estimated 16 MiB of    *)
(* expanded specifications", docs/WORKLOADS.md:61-62); its runs are all    *)
(* combinations, the last dimension varying fastest.                       *)
SweepExpanded ==
  result.kind = "sweep" =>
    LET grid == result.in.grid
        widths == Widths(grid)
        later(d) == Product(SubSeq(widths, d + 1, Len(grid)))
    IN /\ result.out.ok <=>
            /\ Product(widths) \in 1..RunLimit
            /\ Product(widths) * Estimate(result.in) <= ByteLimit
            /\ \A d \in 1..Len(grid) : grid[d].key > 0
            /\ RunsValid(result.in)
       /\ result.out.ok =>
            result.out.runs =
              [i \in 1..Product(widths) |->
                [d \in 1..Len(grid) |-> (((i - 1) \div later(d)) % widths[d]) + 1]]

-----------------------------------------------------------------------------
(* validate_relative_path, as the loop over find and substr. *)
Letters == {"a", ".", "/"}
PathsIn == BoundedSeq(Letters, MaxPath)

FindSlash(p, begin) ==
  LET hits == {i \in (begin + 1)..Len(p) : p[i] = "/"}
  IN IF hits = {} THEN Len(p) + 1 ELSE Min(hits)

PartOk(part) == part \notin {<<>>, <<".">>, <<".", ".">>}

(* begin is the number of characters consumed. *)
PathLoop(p) ==
  LET f[begin \in 0..(Len(p) + 1)] ==
        IF begin > Len(p) THEN TRUE
        ELSE LET end == FindSlash(p, begin)
             IN /\ PartOk(SubSeq(p, begin + 1, end - 1))
                /\ end > Len(p) \/ f[end]
  IN f[0]

ValidateRelativePath(p) == p # <<>> /\ p[1] # "/" /\ PathLoop(p)

(* No accepted path has an empty, "." or ".." component, whatever slashes  *)
(* it starts or ends with, and no other path is refused (model.cpp:126).   *)
PathsSafe ==
  result.kind = "path" =>
    LET p == result.in
        cut(i) == i = 0 \/ i = Len(p) + 1 \/ p[i] = "/"
    IN result.out <=>
         \A i, j \in 0..(Len(p) + 1) :
           i < j /\ cut(i) /\ cut(j) /\ (\A k \in (i + 1)..(j - 1) : ~cut(k))
             => PartOk(SubSeq(p, i + 1, j - 1))

-----------------------------------------------------------------------------
(* workload_environment.  A value is the place it comes from. *)
Nvidia == {"NVIDIA_VISIBLE_DEVICES", "NVIDIA_DRIVER_CAPABILITIES"}
Inheritable == Nvidia \cup {"PATH", "CUDA_VISIBLE_DEVICES"}
SpecNames == Inheritable \cup {"HOME", "OTHER"}
Environments ==
  [inherited : SUBSET (Inheritable \cup {"SECRET"}), spec : SUBSET SpecNames,
   gpus : {0, 1}]

WorkloadEnvironment(e) ==
  LET base == ({"PATH", "LANG"} \cup (e.inherited \cap Inheritable) \cup e.spec) \ Nvidia
      granted == IF e.gpus = 0 THEN {"NVIDIA_VISIBLE_DEVICES"}
                 ELSE e.inherited \cap Nvidia
  IN [n \in base \cup granted \cup {"HOME"} |->
        IF n = "HOME" THEN "runner"
        ELSE IF n \in Nvidia THEN IF e.gpus = 0 THEN "void" ELSE "inherited"
        ELSE IF n \in e.spec THEN "spec"
        ELSE IF n \in e.inherited THEN "inherited" ELSE "runner"]

(* The devices a container runtime exposes to a workload are those of its  *)
(* allocation and never of its specification, and none for a CPU run;      *)
(* nothing but the listed names is inherited (environment.cpp:37-45).  A   *)
(* specification may set CUDA_VISIBLE_DEVICES, which chooses among these.  *)
AllocationWins ==
  result.kind = "environment" =>
    LET out == result.out
    IN /\ \A n \in Nvidia \cap DOMAIN out : out[n] # "spec"
       /\ result.in.gpus = 0 => /\ out["NVIDIA_VISIBLE_DEVICES"] = "void"
                                /\ "NVIDIA_DRIVER_CAPABILITIES" \notin DOMAIN out
       /\ \A n \in DOMAIN out : out[n] = "inherited" => n \in Inheritable
       /\ out["HOME"] = "runner"

-----------------------------------------------------------------------------
(* pod_gpu_request.  Containers are the counts they request; an init       *)
(* container also says whether it is restartable.                          *)
Pods ==
  [containers : BoundedSeq(GpuCounts, 2), overhead : {0, 1},
   inits : BoundedSeq([count : GpuCounts, always : BOOLEAN], 3)]

InitPeak(acc, c) ==
  IF c.always
    THEN [sidecars |-> acc.sidecars + c.count,
          peak |-> Max({acc.peak, acc.sidecars + c.count})]
    ELSE [acc EXCEPT !.peak = Max({@, acc.sidecars + c.count})]

PodGpuRequest(pod) ==
  LET init == FoldLeft(InitPeak, [sidecars |-> 0, peak |-> 0], pod.inits)
      application == FoldLeft(LAMBDA acc, n : acc + n, 0, pod.containers)
  IN Max({application + init.sidecars, init.peak}) + pod.overhead

(* The request is the most GPUs the Pod holds at any point of its life:    *)
(* init containers run one after the other, next to the restartable ones   *)
(* started before, and then the containers run next to all of these        *)
(* (kubernetes_resources.cpp:51-58).                                       *)
RequestIsPeak ==
  result.kind = "pod" =>
    LET pod == result.in
        alwaysBefore(i) == {j \in 1..(i - 1) : pod.inits[j].always}
        count(S) == MapThenSumSet(LAMBDA j : pod.inits[j].count, S)
        during(i) == count(alwaysBefore(i)) + pod.inits[i].count
        after == count(alwaysBefore(Len(pod.inits) + 1))
                   + MapThenSumSet(LAMBDA j : pod.containers[j], DOMAIN pod.containers)
    IN result.out = pod.overhead
                      + Max({after} \cup {during(i) : i \in DOMAIN pod.inits})

-----------------------------------------------------------------------------
(* retry_delay *)
Delays == [base : 0..MaxDelay, max : 0..MaxDelay, generation : 0..10]

\* 1 << k
Shifted[k \in 0..30] == IF k = 0 THEN 1 ELSE 2 * Shifted[k - 1]

RetryDelay(d) ==
  LET g == Max({1, Min({31, d.generation})})
  IN Min({Max({1, d.max}), Max({1, d.base}) * Shifted[g - 1]})

(* The first retry waits base_seconds, each later one twice as long, never *)
(* longer than max_seconds and never less than a second (model.cpp:145).   *)
DelayDoubles ==
  result.kind = "delay" =>
    LET d == result.in
        cap == Max({1, d.max})
        before == RetryDelay([d EXCEPT !.generation = @ - 1])
    IN result.out = IF d.generation <= 1 THEN Min({cap, Max({1, d.base})})
                    ELSE Min({cap, 2 * before})

-----------------------------------------------------------------------------
FunctionsInit ==
  /\ \/ \E b \in SpecBodies : input = [kind |-> "spec", in |-> b]
     \/ \E s \in Sweeps : input = [kind |-> "sweep", in |-> s]
     \/ \E p \in PathsIn : input = [kind |-> "path", in |-> p]
     \/ \E e \in Environments : input = [kind |-> "environment", in |-> e]
     \/ \E p \in Pods : input = [kind |-> "pod", in |-> p]
     \/ \E d \in Delays : input = [kind |-> "delay", in |-> d]
  /\ result = [kind |-> "none"]

Compute(kind, F(_)) ==
  /\ result.kind = "none" /\ input.kind = kind
  /\ result' = [kind |-> kind, in |-> input.in, out |-> F(input.in)]
  /\ UNCHANGED input

FunctionsNext ==
  \/ Compute("spec", SubmitSpec)
  \/ Compute("sweep", ExpandSweep)
  \/ Compute("path", ValidateRelativePath)
  \/ Compute("environment", WorkloadEnvironment)
  \/ Compute("pod", PodGpuRequest)
  \/ Compute("delay", RetryDelay)

FunctionsSpec == FunctionsInit /\ [][FunctionsNext]_functionVars

(* Every function computes what its reference says (json.cpp, model.cpp,   *)
(* environment.cpp, kubernetes_resources.cpp).                             *)
FunctionsMeetReferences ==
  /\ SpecKept /\ SweepExpanded /\ PathsSafe
  /\ AllocationWins /\ RequestIsPeak /\ DelayDoubles

=============================================================================
