--------------------------- MODULE FunctionProofs ---------------------------
(***************************************************************************)
(* The functions a run specification goes through compute what their       *)
(* references say, for every limit, every grid, path and Pod.              *)
(***************************************************************************)
EXTENDS SpecFunctions, DataLemmas, SequenceTheorems

-----------------------------------------------------------------------------
(* decode_spec, encode and the jsonb column *)

FieldsOK(f) == f \in [Section -> Nat] /\ \A k \in Section : f[k] \in InRange[k]

\* What encode writes of an accepted specification is read as the same fields.
LEMMA FieldsReadBack ==
  ASSUME NEW f, f \in [Section -> Nat], NEW g,
         g = [k \in {k \in Section : k = "gpu_count" => f[k] # 0} |-> f[k]]
  PROVE  [k \in Section |-> IF k \in DOMAIN g THEN g[k] ELSE Default[k]] = f
  <1>1. ASSUME NEW k \in Section
        PROVE  (IF k \in DOMAIN g THEN g[k] ELSE Default[k]) = f[k]
    <2>1. CASE k = "gpu_count" /\ f[k] = 0
      <3>1. k \notin DOMAIN g /\ Default[k] = 0
        BY <2>1 DEF Default
      <3> QED BY <2>1, <3>1
    <2>2. CASE ~(k = "gpu_count" /\ f[k] = 0)
      <3>1. k \in DOMAIN g /\ g[k] = f[k]
        BY <2>2
      <3> QED BY <3>1
    <2> QED BY <2>1, <2>2
  <1> QED BY <1>1

\* The sections of a specification that carry a number.
LEMMA Sections == Section = {"gpu_count", "max_attempts", "priority"}
  BY DEF Section, Default

\* decode_spec of a body with these fields and this parameter.
LEMMA Decoded ==
  ASSUME NEW b, NEW f, NEW p,
         f = [k \in Section |-> IF k \in DOMAIN b.fields THEN b.fields[k] ELSE Default[k]],
         p = DecodeScalar(b.parameter)
  PROVE  /\ p.ok /\ (\A k \in Section : f[k] \in InRange[k])
              => Decode(b) = [ok |-> TRUE, spec |-> [fields |-> f, parameter |-> p.value]]
         /\ ~(p.ok /\ (\A k \in Section : f[k] \in InRange[k])) => Decode(b) = Rejected
  BY DEF Decode

\* What a jsonb column makes of a number.
Stored(n) == [n EXCEPT !.int = @ \/ n.mag # "low"]

\* A number that was read from the column once is read the same ever after.
LEMMA ScalarReadBack ==
  ASSUME NEW n \in Number, DecodeScalar(n).ok,
         NEW v, v = DecodeScalar(n).value
  PROVE  /\ v \in Number /\ v.mag = n.mag
         /\ \A w : DecodeScalar(Stored(v)).ok /\ w = DecodeScalar(Stored(v)).value =>
              /\ w \in Number /\ w.mag = n.mag
              /\ DecodeScalar(Stored(w)) = [ok |-> TRUE, value |-> w]
  <1>1. ASSUME NEW m \in Number
        PROVE  /\ Stored(m) \in Number /\ Stored(m).mag = m.mag
               /\ Stored(m).int = (m.int \/ m.mag # "low")
    BY DEF Number, Stored
  <1>2. ASSUME NEW m \in Number, DecodeScalar(m).ok
        PROVE  /\ ~(m.int /\ m.mag = "over")
               /\ DecodeScalar(m).value \in Number
               /\ DecodeScalar(m).value.mag = m.mag
               /\ DecodeScalar(m).value.int = (m.int /\ m.mag # "huge")
    BY <1>2 DEF Number, DecodeScalar, Rejected
  <1>3. v \in Number /\ v.mag = n.mag
    BY <1>2
  <1>4. ASSUME DecodeScalar(Stored(v)).ok, NEW w, w = DecodeScalar(Stored(v)).value
        PROVE  /\ w \in Number /\ w.mag = n.mag
               /\ DecodeScalar(Stored(w)) = [ok |-> TRUE, value |-> w]
    <2>1. /\ ~(Stored(v).int /\ v.mag = "over")
          /\ w \in Number /\ w.mag = v.mag
          /\ w.int = ((v.int \/ v.mag # "low") /\ v.mag # "huge")
      <3> DEFINE t == Stored(v)
      <3>1. t \in Number /\ t.mag = v.mag /\ t.int = (v.int \/ v.mag # "low")
        BY <1>1, <1>3
      <3>2. DecodeScalar(t).ok /\ w = DecodeScalar(t).value
        BY <1>4
      <3> HIDE DEF t
      <3>3. /\ ~(t.int /\ t.mag = "over")
            /\ w \in Number /\ w.mag = t.mag
            /\ w.int = (t.int /\ t.mag # "huge")
        BY <1>2, <3>1, <3>2
      <3>4. w.mag = v.mag /\ ~(t.int /\ v.mag = "over")
        BY <3>1, <3>3
      <3>5. w.int = ((v.int \/ v.mag # "low") /\ v.mag # "huge")
        BY <3>1, <3>3, Zenon
      <3> QED BY <3>3, <3>4, <3>5 DEF t
    <2> DEFINE s == Stored(w)
    <2>2. s \in Number /\ s.mag = w.mag /\ s.int = (w.int \/ w.mag # "low")
      BY <1>1, <2>1
    <2>3. ~(s.int /\ s.mag = "over")
      <3>1. Stored(v).int = (v.int \/ v.mag # "low")
        BY <1>1, <1>3
      <3> QED BY <1>3, <2>1, <2>2, <3>1 DEF Number
    <2>4. [s EXCEPT !.int = @ /\ s.mag # "huge"] = w
      BY <2>1, <2>2 DEF Number
    <2> HIDE DEF s
    <2>5. DecodeScalar(s) = [ok |-> TRUE, value |-> [s EXCEPT !.int = @ /\ s.mag # "huge"]]
      BY <2>3 DEF DecodeScalar
    <2> QED BY <1>3, <2>1, <2>4, <2>5 DEF s
  <1> QED BY <1>3, <1>4

\* encode, the column and decode_spec, for an accepted specification.
LEMMA SpecReadBack ==
  ASSUME NEW f \in [Section -> Nat], NEW v \in Number,
         \A k \in Section : f[k] \in InRange[k],
         NEW spec, spec = [fields |-> f, parameter |-> v]
  PROVE  IF DecodeScalar(Stored(v)).ok
         THEN Decode(Jsonb(Encode(spec)))
                = [ok |-> TRUE,
                   spec |-> [fields |-> f, parameter |-> DecodeScalar(Stored(v)).value]]
         ELSE Decode(Jsonb(Encode(spec))) = Rejected
  <1> DEFINE g == [k \in {k \in Section : k = "gpu_count" => f[k] # 0} |-> f[k]]
             b == [fields |-> g, parameter |-> Stored(v)]
  <1>1. Encode(spec) = [fields |-> g, parameter |-> v]
    BY DEF Encode
  <1>2. Jsonb(Encode(spec)) = b
    BY <1>1 DEF Jsonb, Stored
  <1> DEFINE p == DecodeScalar(Stored(v))
  <1>3. f = [k \in Section |-> IF k \in DOMAIN b.fields THEN b.fields[k] ELSE Default[k]]
    BY FieldsReadBack
  <1>4. p = DecodeScalar(b.parameter)
    OBVIOUS
  <1> HIDE DEF b, p
  <1>5. /\ p.ok => Decode(b) = [ok |-> TRUE, spec |-> [fields |-> f, parameter |-> p.value]]
        /\ ~p.ok => Decode(b) = Rejected
    BY <1>3, <1>4, Decoded
  <1> QED BY <1>2, <1>5 DEF p

\* submit: what was accepted is kept.
LEMMA SpecIsKept ==
  ASSUME NEW body \in SpecBodies, NEW out, out = SubmitSpec(body), out.ok
  PROVE  /\ out.read.fields = out.asked.fields
         /\ out.read.parameter.mag = out.asked.parameter.mag
         /\ out.again = [ok |-> TRUE, spec |-> out.read]
  <1> DEFINE f == [k \in Section |-> IF k \in DOMAIN body.fields THEN body.fields[k]
                                     ELSE Default[k]]
             p == DecodeScalar(body.parameter)
             asked == Decode(body)
             read == Decode(Jsonb(Encode(asked.spec)))
  <1>1. asked.ok /\ read.ok
        /\ out = [ok |-> TRUE, asked |-> asked.spec, read |-> read.spec,
                  again |-> Decode(Jsonb(Encode(read.spec)))]
    BY DEF SubmitSpec, Rejected
  <1>2. /\ p.ok /\ \A k \in Section : f[k] \in InRange[k]
        /\ asked.spec = [fields |-> f, parameter |-> p.value]
    BY <1>1, Decoded DEF Rejected
  <1>3. f \in [Section -> Nat]
    <2>1. ASSUME NEW k \in Section PROVE f[k] \in Nat
      BY <1>2, Sections DEF InRange
    <2> QED BY <2>1
  <1>4. body.parameter \in Number
    BY DEF SpecBodies
  <1>5. p.value \in Number /\ p.value.mag = body.parameter.mag
    BY <1>2, <1>4, ScalarReadBack
  <1> DEFINE v == p.value
             w == DecodeScalar(Stored(v)).value
             old == [fields |-> f, parameter |-> v]
             new == [fields |-> f, parameter |-> w]
  <1>6. DecodeScalar(Stored(v)).ok /\ read.spec = new
    <2>1. asked.spec = old
      BY <1>2
    <2> HIDE DEF f, p, v
    <2> QED BY <1>1, <1>2, <1>3, <1>5, <2>1, SpecReadBack DEF Rejected, v
  <1>7. /\ w \in Number /\ w.mag = v.mag
        /\ DecodeScalar(Stored(w)) = [ok |-> TRUE, value |-> w]
    BY <1>2, <1>4, <1>5, <1>6, ScalarReadBack
  <1>8. Decode(Jsonb(Encode(new))) = [ok |-> TRUE, spec |-> new]
    <2>1. DecodeScalar(Stored(w)).ok /\ DecodeScalar(Stored(w)).value = w
      BY <1>7
    <2>2. \A k \in Section : f[k] \in InRange[k]
      BY <1>2
    <2> HIDE DEF f, p, v, w
    <2> QED BY <1>3, <1>7, <2>1, <2>2, SpecReadBack
  <1> HIDE DEF f, p, asked, read, v, w
  <1> QED BY <1>1, <1>2, <1>6, <1>7, <1>8 DEF v

-----------------------------------------------------------------------------
(* workload_environment *)

\* The allocation decides what GPUs a workload sees.
LEMMA EnvironmentHeld ==
  ASSUME NEW e \in Environments, NEW out, out = WorkloadEnvironment(e)
  PROVE  /\ \A n \in Nvidia \cap DOMAIN out : out[n] # "spec"
         /\ e.gpus = 0 => /\ out["NVIDIA_VISIBLE_DEVICES"] = "void"
                          /\ "NVIDIA_DRIVER_CAPABILITIES" \notin DOMAIN out
         /\ \A n \in DOMAIN out : out[n] = "inherited" => n \in Inheritable
         /\ out["HOME"] = "runner"
  <1> DEFINE base == ({"PATH", "LANG"} \cup (e.inherited \cap Inheritable) \cup e.spec)
                       \ Nvidia
             shown == IF e.gpus = 0 THEN {"NVIDIA_VISIBLE_DEVICES"}
                      ELSE e.inherited \cap Nvidia
             names == base \cup shown \cup {"HOME"}
             value(n) == IF n = "HOME" THEN "runner"
                         ELSE IF n \in Nvidia THEN IF e.gpus = 0 THEN "void" ELSE "inherited"
                         ELSE IF n \in e.spec THEN "spec"
                         ELSE IF n \in e.inherited THEN "inherited" ELSE "runner"
  <1>1. DOMAIN out = names /\ \A n \in names : out[n] = value(n)
    BY DEF WorkloadEnvironment
  <1>2. "HOME" \notin Nvidia
    BY DEF Nvidia
  <1>3. \A n \in names \cap Nvidia :
          out[n] = IF e.gpus = 0 THEN "void" ELSE "inherited"
    BY <1>1, <1>2
  <1>4. out["HOME"] = "runner"
    BY <1>1
  <1>5. \A n \in names \ (Nvidia \cup {"HOME"}) : out[n] = "inherited" => n \in e.inherited
    BY <1>1
  <1>6. base \cap Nvidia = {} /\ base \cap e.inherited \subseteq Inheritable \cup SpecNames
    BY DEF Environments, Inheritable, SpecNames
  <1>7. ASSUME e.gpus = 0
        PROVE  /\ out["NVIDIA_VISIBLE_DEVICES"] = "void"
               /\ "NVIDIA_DRIVER_CAPABILITIES" \notin DOMAIN out
    <2>1. "NVIDIA_VISIBLE_DEVICES" \in names \cap Nvidia
      BY <1>7 DEF Nvidia
    <2>2. "NVIDIA_DRIVER_CAPABILITIES" \notin names
      <3>1. /\ "NVIDIA_DRIVER_CAPABILITIES" \in Nvidia
            /\ "NVIDIA_DRIVER_CAPABILITIES" # "NVIDIA_VISIBLE_DEVICES"
            /\ "NVIDIA_DRIVER_CAPABILITIES" # "HOME"
        BY DEF Nvidia
      <3> QED BY <1>6, <1>7, <3>1
    <2> HIDE DEF names
    <2> QED BY <1>1, <1>3, <1>7, <2>1, <2>2
  <1>8. ASSUME NEW n \in DOMAIN out, out[n] = "inherited" PROVE n \in Inheritable
    <2>1. n # "HOME"
      BY <1>4, <1>8
    <2>2. CASE n \in Nvidia
      BY <2>2 DEF Inheritable
    <2>3. CASE n \notin Nvidia
      <3>1. n \in base /\ n \in e.inherited /\ value(n) = "inherited"
        <4>1. n \notin shown
          BY <2>3 DEF Nvidia
        <4> QED BY <1>1, <1>5, <1>8, <2>1, <2>3, <4>1
      <3>2. n \notin e.spec
        BY <2>1, <2>3, <3>1
      <3>3. n \in {"PATH", "LANG"} \/ n \in Inheritable
        BY <3>1, <3>2
      <3>4. e.inherited \subseteq Inheritable \cup {"SECRET"}
        BY DEF Environments
      <3>5. n # "LANG" /\ "PATH" \in Inheritable
        BY <3>1, <3>4 DEF Inheritable, Nvidia
      <3> QED BY <3>3, <3>5
    <2> QED BY <2>2, <2>3
  <1> HIDE DEF names
  <1>9. \A n \in Nvidia \cap DOMAIN out : out[n] # "spec"
    BY <1>1, <1>3
  <1> QED BY <1>4, <1>7, <1>8, <1>9

-----------------------------------------------------------------------------
(* retry_delay *)

\* 1 << k is the k-th power of two.
LEMMA ShiftedDoubles ==
  /\ \A k \in 0..30 : Shifted[k] \in Nat
  /\ Shifted[0] = 1 /\ \A k \in 1..30 : Shifted[k] = 2 * Shifted[k - 1]
  <1> DEFINE Unrolled(g) == [k \in 0..30 |-> IF k = 0 THEN 1 ELSE 2 * g[k - 1]]
             Eq(g) == g = Unrolled(g)
             Ok(m) == \E g \in [0..30 -> Nat] : \A k \in 0..m : g[k] = Unrolled(g)[k]
             T == {m \in 0..30 : Ok(m)}
  <1>1. 0 \in T
    <2> DEFINE g == [k \in 0..30 |-> 1]
    <2>1. g \in [0..30 -> Nat] /\ \A k \in 0..0 : g[k] = Unrolled(g)[k]
      OBVIOUS
    <2> HIDE DEF g, Unrolled
    <2>2. Ok(0)
      BY <2>1
    <2> QED BY <2>2
  <1>2. ASSUME NEW m \in 1..30, m - 1 \in T PROVE m \in T
    <2>1. PICK g \in [0..30 -> Nat] : \A k \in 0..(m - 1) : g[k] = Unrolled(g)[k]
      BY <1>2
    <2> DEFINE h == Unrolled(g)
    <2>2. h \in [0..30 -> Nat]
      <3>1. \A k \in 0..30 : k # 0 => g[k - 1] \in Nat
        OBVIOUS
      <3> QED BY <3>1
    <2>3. ASSUME NEW k \in 0..m PROVE h[k] = Unrolled(h)[k]
      <3>0. k \in 0..30
        OBVIOUS
      <3>1. CASE k = 0
        BY <3>1
      <3>2. CASE k # 0
        <4>1. k - 1 \in 0..(m - 1) /\ k - 1 \in 0..30
          BY <3>2
        <4>2. g[k - 1] = h[k - 1]
          <5> HIDE DEF Unrolled
          <5> QED BY <2>1, <4>1
        <4>3. h[k] = 2 * g[k - 1]
          BY <3>0, <3>2
        <4>4. Unrolled(h)[k] = 2 * h[k - 1]
          <5> HIDE DEF h
          <5> QED BY <3>0, <3>2
        <4> HIDE DEF h, Unrolled
        <4> QED BY <4>2, <4>3, <4>4
      <3> QED BY <3>1, <3>2
    <2> HIDE DEF h, Unrolled
    <2>4. Ok(m)
      BY <2>2, <2>3
    <2> HIDE DEF Ok
    <2> QED BY <2>4
  <1>3. Ok(30)
    <2>1. \A m \in 0..30 : m \in T
      <3> HIDE DEF T
      <3> QED BY <1>1, <1>2, InductUpTo
    <2> HIDE DEF Ok
    <2> QED BY <2>1
  <1>4. PICK g \in [0..30 -> Nat] : \A k \in 0..30 : g[k] = Unrolled(g)[k]
    BY <1>3
  <1>5. Eq(g)
    BY <1>4
  <1>6. Eq(Shifted)
    <2>1. Shifted = CHOOSE h : Eq(h)
      BY DEF Shifted
    <2> HIDE DEF Eq
    <2> QED BY <1>5, <2>1
  <1>7. Shifted[0] = 1 /\ \A k \in 1..30 : Shifted[k] = 2 * Shifted[k - 1]
    BY <1>6
  <1> DEFINE U == {k \in 0..30 : Shifted[k] \in Nat}
  <1>8. \A k \in 0..30 : k \in U
    <2>1. 0 \in U
      BY <1>7
    <2>2. ASSUME NEW k \in 1..30, k - 1 \in U PROVE k \in U
      BY <1>7, <2>2
    <2> HIDE DEF U
    <2> QED BY <2>1, <2>2, InductUpTo
  <1> QED BY <1>7, <1>8

\* The larger of two numbers.
LEMMA MaxOfTwo ==
  ASSUME NEW x \in Nat, NEW y \in Nat
  PROVE  Max({x, y}) = IF x <= y THEN y ELSE x
  <1>1. {x, y} \in SUBSET (0..(x + y))
    OBVIOUS
  <1>2. Max({x, y}) \in {x, y} /\ \A z \in {x, y} : z <= Max({x, y})
    BY <1>1, MaxOf
  <1> QED BY <1>2

\* The smaller of two numbers.
LEMMA MinOfTwo ==
  ASSUME NEW x \in Nat, NEW y \in Nat
  PROVE  Min({x, y}) = IF x <= y THEN x ELSE y
  <1>1. Min({x, y}) \in {x, y} /\ \A z \in {x, y} : Min({x, y}) <= z
    BY MinOf
  <1> QED BY <1>1

\* The delay of a generation, clamped.
LEMMA DelayOf ==
  ASSUME NEW d, d.base \in Nat, d.max \in Nat, d.generation \in 0..31,
         NEW cap, cap = Max({1, d.max}), NEW b, b = Max({1, d.base}),
         NEW g, g = IF d.generation = 0 THEN 1 ELSE d.generation
  PROVE  /\ cap \in Nat \ {0} /\ b \in Nat \ {0} /\ b * Shifted[g - 1] \in Nat
         /\ RetryDelay(d) = IF cap <= b * Shifted[g - 1] THEN cap ELSE b * Shifted[g - 1]
  <1>1. cap \in Nat \ {0} /\ b \in Nat \ {0}
    BY MaxOfTwo
  <1>2. Max({1, Min({31, d.generation})}) = g
    <2>1. Min({31, d.generation}) = d.generation
      BY MinOfTwo
    <2>2. Max({1, d.generation}) = g
      BY MaxOfTwo
    <2> QED BY <2>1, <2>2
  <1>3. g - 1 \in 0..30
    OBVIOUS
  <1>4. Shifted[g - 1] \in Nat
    BY <1>3, ShiftedDoubles
  <1>5. b * Shifted[g - 1] \in Nat
    BY <1>1, <1>4
  <1>6. RetryDelay(d) = Min({cap, b * Shifted[g - 1]})
    BY <1>2 DEF RetryDelay
  <1> QED BY <1>1, <1>5, <1>6, MinOfTwo

\* The delay of each try is twice that of the one before, up to the maximum.
LEMMA DelayIsDoubled ==
  ASSUME NEW d \in Delays, FunctionsAssumption
  PROVE  RetryDelay(d) =
           IF d.generation <= 1 THEN Min({Max({1, d.max}), Max({1, d.base})})
           ELSE Min({Max({1, d.max}),
                     2 * RetryDelay([d EXCEPT !.generation = @ - 1])})
  <1> DEFINE cap == Max({1, d.max})
             b == Max({1, d.base})
             g == IF d.generation = 0 THEN 1 ELSE d.generation
             e == [d EXCEPT !.generation = @ - 1]
  <1>1. d.base \in Nat /\ d.max \in Nat /\ d.generation \in 0..10
    BY DEF Delays, FunctionsAssumption
  <1>2. d.generation \in 0..31
    BY <1>1
  <1> HIDE DEF cap, b, g
  <1>3. /\ cap \in Nat \ {0} /\ b \in Nat \ {0} /\ b * Shifted[g - 1] \in Nat
        /\ RetryDelay(d) = IF cap <= b * Shifted[g - 1] THEN cap ELSE b * Shifted[g - 1]
    BY <1>1, <1>2, DelayOf DEF cap, b, g
  <1>4. CASE d.generation <= 1
    <2>1. g - 1 = 0
      BY <1>1, <1>4 DEF g
    <2>2. b * Shifted[g - 1] = b
      BY <1>3, <2>1, ShiftedDoubles
    <2>3. RetryDelay(d) = Min({cap, b})
      BY <1>3, <2>2, MinOfTwo
    <2> QED BY <1>4, <2>3 DEF cap, b
  <1>5. CASE ~(d.generation <= 1)
    <2>1. g = d.generation /\ g \in Nat /\ g - 1 \in 1..30
      BY <1>1, <1>5 DEF g
    <2>2. e.base = d.base /\ e.max = d.max /\ e.generation = g - 1
      BY <1>1, <2>1 DEF Delays
    <2> DEFINE before == RetryDelay(e)
               x == b * Shifted[g - 2]
    <2> HIDE DEF e
    <2>3. x \in Nat /\ before = IF cap <= x THEN cap ELSE x
      <3>1. e.generation \in 0..31 /\ e.generation # 0 /\ e.generation - 1 = g - 2
        BY <2>1, <2>2
      <3>2. e.base \in Nat /\ e.max \in Nat
        BY <1>1, <2>2
      <3>3. cap = Max({1, e.max}) /\ b = Max({1, e.base})
        BY <2>2 DEF cap, b
      <3>4. e.generation = IF e.generation = 0 THEN 1 ELSE e.generation
        BY <3>1
      <3>5. /\ b * Shifted[e.generation - 1] \in Nat
            /\ RetryDelay(e) = IF cap <= b * Shifted[e.generation - 1] THEN cap
                               ELSE b * Shifted[e.generation - 1]
        <4> DEFINE h == e.generation
        <4>1. h = e.generation
          OBVIOUS
        <4> HIDE DEF h
        <4> QED BY <3>1, <3>2, <3>3, <3>4, DelayOf
      <3> QED BY <3>1, <3>5
    <2>4. b * Shifted[g - 1] = 2 * x
      <3>0. (g - 1) - 1 = g - 2
        BY <2>1
      <3>1. Shifted[g - 1] = 2 * Shifted[(g - 1) - 1]
        BY <2>1, ShiftedDoubles
      <3>2. Shifted[g - 2] \in Nat
        <4>1. g - 2 \in 0..30
          BY <2>1
        <4> QED BY <4>1, ShiftedDoubles
      <3> QED BY <1>3, <3>0, <3>1, <3>2
    <2> HIDE DEF before, x
    <2>5. before \in Nat /\ 2 * before \in Nat
      BY <1>3, <2>3
    <2>6. Min({cap, 2 * before}) = IF cap <= 2 * before THEN cap ELSE 2 * before
      BY <1>3, <2>5, MinOfTwo
    <2>7. RetryDelay(d) = Min({cap, 2 * before})
      BY <1>3, <2>3, <2>4, <2>6
    <2> QED BY <1>5, <2>7 DEF before, cap, e
  <1> QED BY <1>4, <1>5

-----------------------------------------------------------------------------
(* validate_relative_path *)

\* Where a component may begin or end: at a slash or at an end of the path.
Cut(p, i) == i = 0 \/ i = Len(p) + 1 \/ p[i] = "/"

Between(p, i, j) ==
  i < j /\ Cut(p, i) /\ Cut(p, j) /\ \A k \in (i + 1)..(j - 1) : ~Cut(p, k)

\* The components from character n on.
PartsOk(p, n) ==
  \A i, j \in 0..(Len(p) + 1) :
    n <= i /\ Between(p, i, j) => PartOk(SubSeq(p, i + 1, j - 1))

\* What the loop is to say at n.
LoopOk(p, n) ==
  \/ n > Len(p)
  \/ /\ PartOk(SubSeq(p, n + 1, FindSlash(p, n) - 1))
     /\ PartsOk(p, FindSlash(p, n))

\* find: the next slash, or the end.
LEMMA SlashIsNext ==
  ASSUME NEW p \in Seq(Letters), NEW n \in 0..Len(p)
  PROVE  /\ FindSlash(p, n) \in (n + 1)..(Len(p) + 1)
         /\ Cut(p, FindSlash(p, n))
         /\ \A k \in (n + 1)..(FindSlash(p, n) - 1) : ~Cut(p, k)
  <1> DEFINE hits == {i \in (n + 1)..Len(p) : p[i] = "/"}
             len == Len(p)
  <1>0. len \in Nat
    BY LenProperties
  <1>1. CASE hits = {}
    <2>1. FindSlash(p, n) = len + 1
      BY <1>1 DEF FindSlash
    <2>2. \A k \in (n + 1)..len : k # 0 /\ k # len + 1 /\ p[k] # "/"
      BY <1>0, <1>1
    <2>3. (len + 1) - 1 = len /\ len + 1 \in (n + 1)..(len + 1)
      BY <1>0
    <2> QED BY <2>1, <2>2, <2>3 DEF Cut
  <1>2. CASE hits # {}
    <2> DEFINE m == Min(hits)
    <2>1. hits \in SUBSET Nat
      BY <1>0
    <2>2. m \in hits /\ \A y \in hits : m <= y
      BY <1>2, <2>1, MinOf
    <2>3. FindSlash(p, n) = m
      BY <1>2 DEF FindSlash
    <2> HIDE DEF m
    <2>4. m \in (n + 1)..(len + 1) /\ p[m] = "/"
      BY <1>0, <2>2
    <2>5. ASSUME NEW k \in (n + 1)..(m - 1) PROVE ~Cut(p, k)
      <3>1. k \in (n + 1)..len /\ k < m /\ k # 0 /\ k # len + 1
        BY <1>0, <2>4
      <3>2. p[k] # "/"
        BY <2>2, <3>1
      <3> QED BY <3>1, <3>2 DEF Cut
    <2> QED BY <2>3, <2>4, <2>5 DEF Cut
  <1> QED BY <1>1, <1>2

\* At a cut, the loop is about all components from there on.
LEMMA LoopAtCut ==
  ASSUME NEW p \in Seq(Letters), NEW n \in 0..(Len(p) + 1), Cut(p, n)
  PROVE  LoopOk(p, n) <=> PartsOk(p, n)
  <1> DEFINE len == Len(p)
             m == FindSlash(p, n)
  <1>0. len \in Nat
    BY LenProperties
  <1>1. CASE n > len
    <2>1. ASSUME NEW i \in 0..(len + 1), NEW j \in 0..(len + 1), n <= i, Between(p, i, j)
          PROVE  FALSE
      BY <1>0, <1>1, <2>1 DEF Between
    <2>2. PartsOk(p, n)
      BY <2>1 DEF PartsOk
    <2> QED BY <1>1, <2>2 DEF LoopOk
  <1>2. CASE ~(n > len)
    <2>1. n \in 0..len
      BY <1>0, <1>2
    <2>2. /\ m \in (n + 1)..(len + 1) /\ Cut(p, m)
          /\ \A k \in (n + 1)..(m - 1) : ~Cut(p, k)
      BY <2>1, SlashIsNext
    <2>3. LoopOk(p, n) <=> PartOk(SubSeq(p, n + 1, m - 1)) /\ PartsOk(p, m)
      BY <1>2 DEF LoopOk
    <2> HIDE DEF m
    <2>4. ASSUME PartsOk(p, n)
          PROVE  PartOk(SubSeq(p, n + 1, m - 1)) /\ PartsOk(p, m)
      <3>1. Between(p, n, m) /\ n <= n /\ m \in 0..(len + 1)
        BY <1>0, <2>1, <2>2 DEF Between
      <3>2. PartOk(SubSeq(p, n + 1, m - 1))
        BY <2>4, <3>1 DEF PartsOk
      <3>3. \A i \in 0..(len + 1) : m <= i => n <= i
        BY <1>0, <2>1, <2>2
      <3>4. PartsOk(p, m)
        BY <2>4, <3>3 DEF PartsOk
      <3> QED BY <3>2, <3>4
    <2>5. ASSUME PartOk(SubSeq(p, n + 1, m - 1)), PartsOk(p, m)
          PROVE  PartsOk(p, n)
      <3>1. ASSUME NEW i \in 0..(len + 1), NEW j \in 0..(len + 1), n <= i, Between(p, i, j)
            PROVE  PartOk(SubSeq(p, i + 1, j - 1))
        <4>1. CASE m <= i
          BY <2>5, <3>1, <4>1 DEF PartsOk
        <4>2. CASE ~(m <= i)
          <5>1. i = n
            <6>1. i \notin (n + 1)..(m - 1)
              BY <2>2, <3>1 DEF Between
            <6> QED BY <1>0, <2>1, <2>2, <3>1, <4>2, <6>1
          <5>2. ~(m < j)
            <6>1. m \notin (i + 1)..(j - 1)
              BY <2>2, <3>1 DEF Between
            <6> QED BY <1>0, <2>1, <2>2, <5>1, <6>1
          <5>3. ~(j < m)
            <6>1. j \notin (n + 1)..(m - 1)
              BY <2>2, <3>1 DEF Between
            <6> QED BY <1>0, <2>1, <2>2, <3>1, <5>1, <6>1 DEF Between
          <5>4. j = m
            BY <1>0, <2>2, <5>2, <5>3
          <5> QED BY <2>5, <5>1, <5>4
        <4> QED BY <4>1, <4>2
      <3> QED BY <3>1 DEF PartsOk
    <2> QED BY <2>3, <2>4, <2>5
  <1> QED BY <1>1, <1>2

\* What the loop says is what it is to say.
LEMMA LoopSays ==
  ASSUME NEW p \in Seq(Letters)
  PROVE  PathLoop(p) <=> LoopOk(p, 0)
  <1> DEFINE len == Len(p)
             Body(g, n) == IF n > len THEN TRUE
                           ELSE LET end == FindSlash(p, n)
                                IN /\ PartOk(SubSeq(p, n + 1, end - 1))
                                   /\ end > len \/ g[end]
             Eq(g) == g = [n \in 0..(len + 1) |-> Body(g, n)]
             f == CHOOSE g : Eq(g)
             h == [n \in 0..(len + 1) |-> LoopOk(p, n)]
  <1>0. len \in Nat
    BY LenProperties
  <1>1. PathLoop(p) = f[0]
    BY DEF PathLoop
  <1>2. ASSUME NEW n \in 0..(len + 1)
        PROVE  h[n] <=> Body(h, n)
    <2> DEFINE end == FindSlash(p, n)
    <2>0. h[n] <=> LoopOk(p, n)
      OBVIOUS
    <2>1. CASE n > len
      BY <2>0, <2>1 DEF LoopOk
    <2>2. CASE ~(n > len)
      <3>1. n \in 0..len
        BY <1>0, <2>2
      <3>2. end \in (n + 1)..(len + 1) /\ Cut(p, end)
        BY <3>1, SlashIsNext
      <3>3. end \in 0..(len + 1)
        BY <1>0, <3>2
      <3>4. LoopOk(p, end) <=> PartsOk(p, end)
        BY <3>2, <3>3, LoopAtCut
      <3>5. h[end] <=> LoopOk(p, end)
        BY <3>3
      <3>6. end > len => LoopOk(p, end)
        BY DEF LoopOk
      <3>7. LoopOk(p, n) <=> PartOk(SubSeq(p, n + 1, end - 1)) /\ PartsOk(p, end)
        BY <2>2 DEF LoopOk
      <3>8. Body(h, n) <=> PartOk(SubSeq(p, n + 1, end - 1)) /\ (end > len \/ h[end])
        BY <2>2
      <3> HIDE DEF h, end, Body
      <3> QED BY <2>0, <3>4, <3>5, <3>6, <3>7, <3>8
    <2> QED BY <2>1, <2>2
  <1>3. Eq(h)
    <2>1. ASSUME NEW n \in 0..(len + 1) PROVE h[n] = Body(h, n)
      <3>1. h[n] \in BOOLEAN
        BY DEF LoopOk
      <3>2. Body(h, n) \in BOOLEAN
        OBVIOUS
      <3> HIDE DEF h, Body
      <3> QED BY <1>2, <3>1, <3>2
    <2>2. h = [n \in 0..(len + 1) |-> h[n]]
      OBVIOUS
    <2> HIDE DEF h, Body
    <2> QED BY <2>1, <2>2
  <1>4. Eq(f)
    <2> HIDE DEF Eq
    <2> QED BY <1>3
  <1>5. \A n \in 0..(len + 1) : f[n] <=> Body(f, n)
    <2> HIDE DEF f, Body
    <2> QED BY <1>4, Zenon
  <1> HIDE DEF f, h
  <1> DEFINE T == {k \in 0..(len + 1) : \A n \in ((len + 1) - k)..(len + 1) : f[n] <=> h[n]}
  <1>6. 0 \in T
    <2>1. ASSUME NEW n \in ((len + 1) - 0)..(len + 1) PROVE f[n] <=> h[n]
      <3>1. n \in 0..(len + 1) /\ n > len
        BY <1>0
      <3>2. Body(f, n) /\ Body(h, n)
        BY <3>1
      <3> HIDE DEF Body
      <3> QED BY <1>2, <1>5, <3>1, <3>2
    <2>2. 0 \in 0..(len + 1)
      BY <1>0
    <2> QED BY <2>1, <2>2
  <1>7. ASSUME NEW k \in 1..(len + 1), k - 1 \in T PROVE k \in T
    <2> DEFINE n == (len + 1) - k
               end == FindSlash(p, n)
    <2>1. n \in 0..(len + 1) /\ n \in 0..len
      BY <1>0
    <2>2. end \in (n + 1)..(len + 1)
      BY <2>1, SlashIsNext
    <2>3. \A m \in (n + 1)..(len + 1) : f[m] <=> h[m]
      <3>1. (len + 1) - (k - 1) = n + 1
        BY <1>0
      <3> QED BY <1>7, <3>1
    <2>4. Body(f, n) <=> Body(h, n)
      <3>1. f[end] <=> h[end]
        BY <2>2, <2>3
      <3> HIDE DEF n
      <3> QED BY <3>1
    <2>5. f[n] <=> h[n]
      <3> HIDE DEF Body, n
      <3> QED BY <1>2, <1>5, <2>1, <2>4
    <2>6. \A m \in n..(len + 1) : m = n \/ m \in (n + 1)..(len + 1)
      BY <1>0, <2>1
    <2> HIDE DEF end
    <2>7. \A m \in n..(len + 1) : f[m] <=> h[m]
      <3> HIDE DEF n
      <3> QED BY <2>3, <2>5, <2>6, Zenon
    <2>8. k \in 0..(len + 1)
      OBVIOUS
    <2> QED BY <2>7, <2>8
  <1>8. f[0] <=> h[0]
    <2>1. len + 1 \in Nat /\ (len + 1) - (len + 1) = 0 /\ len + 1 \in 0..(len + 1)
      BY <1>0
    <2>2. \A k \in 0..(len + 1) : k \in T
      <3> HIDE DEF T
      <3> QED BY <1>6, <1>7, <2>1, InductUpTo
    <2>3. \A n \in 0..(len + 1) : f[n] <=> h[n]
      BY <2>1, <2>2
    <2>4. 0 \in 0..(len + 1)
      BY <1>0
    <2> QED BY <2>3, <2>4
  <1>9. h[0] <=> LoopOk(p, 0)
    BY <1>0 DEF h
  <1> QED BY <1>1, <1>8, <1>9

\* The paths accepted are those whose components are all in order.
LEMMA PathIsSafe ==
  ASSUME NEW p \in Seq(Letters)
  PROVE  ValidateRelativePath(p) <=> PartsOk(p, 0)
  <1> DEFINE len == Len(p)
  <1>0. len \in Nat
    BY LenProperties
  <1>1. PathLoop(p) <=> PartsOk(p, 0)
    <2>1. 0 \in 0..(len + 1) /\ Cut(p, 0)
      BY <1>0 DEF Cut
    <2> QED BY <2>1, LoopAtCut, LoopSays
  <1>2. ASSUME p = <<>> \/ p[1] = "/", PartsOk(p, 0) PROVE FALSE
    <2>1. 1 \in 0..(len + 1) /\ 0 \in 0..(len + 1)
      BY <1>0
    <2>2. Cut(p, 1)
      <3>1. CASE p = <<>>
        <4>1. Len(p) = 0
          BY <3>1
        <4> QED BY <4>1 DEF Cut
      <3>2. CASE p[1] = "/"
        BY <3>2 DEF Cut
      <3> QED BY <1>2, <3>1, <3>2
    <2>3. Between(p, 0, 1)
      BY <2>2 DEF Between, Cut
    <2>4. PartOk(SubSeq(p, 0 + 1, 1 - 1))
      BY <1>2, <2>1, <2>3 DEF PartsOk
    <2>5. SubSeq(p, 0 + 1, 1 - 1) = <<>>
      BY SMT
    <2> QED BY <2>4, <2>5 DEF PartOk
  <1> QED BY <1>1, <1>2 DEF ValidateRelativePath

-----------------------------------------------------------------------------
(* pod_gpu_request *)

InitContainers == [count : Nat, always : BOOLEAN]

\* The GPUs of the init containers, and of the containers, in a set.
CountsOf(q, S) == MapThenSumSet(LAMBDA j : q[j].count, S)
TotalOf(q, S) == MapThenSumSet(LAMBDA j : q[j], S)

\* Such a sum is one of SumsOver.
LEMMA CountSum ==
  ASSUME NEW q \in Seq(InitContainers), NEW S \in SUBSET (1..Len(q))
  PROVE  \E g \in [SUBSET S -> Nat] :
           SumsOver(g, S, [j \in S |-> q[j].count]) /\ CountsOf(q, S) = g[S]
  <1> DEFINE c == [j \in S |-> q[j].count]
             Eq(g) == g = [s \in SUBSET S |->
                             IF s = {} THEN 0
                             ELSE q[CHOOSE x \in s : TRUE].count + g[s \ {CHOOSE x \in s : TRUE}]]
             f == CHOOSE g : Eq(g)
  <1>1. CountsOf(q, S) = f[S]
    BY DEF CountsOf, MapThenSumSet, MapThenFoldSet
  <1>2. IsFiniteSet(S) /\ c \in [S -> Nat] /\ \A j \in S : c[j] = q[j].count
    <2>1. Len(q) \in Nat /\ \A j \in 1..Len(q) : q[j] \in InitContainers
      BY LenProperties, ElementOfSeq
    <2>2. IsFiniteSet(1..Len(q))
      BY <2>1, FS_Interval
    <2>3. IsFiniteSet(S)
      BY <2>2, FS_Subset
    <2> QED BY <2>1, <2>3 DEF InitContainers
  <1> HIDE DEF c
  <1>3. PICK g \in [SUBSET S -> Nat] : SumsOver(g, S, c)
    BY <1>2, SumExists
  <1>4. \A s \in SUBSET S : s # {} => One(s) \in S /\ c[One(s)] = q[One(s)].count
    BY <1>2, OneIn
  <1>5. Eq(g)
    BY <1>3, <1>4 DEF SumsOver, One
  <1>6. Eq(f)
    <2> HIDE DEF Eq
    <2> QED BY <1>5
  <1> HIDE DEF f
  <1>7. SumsOver(f, S, c) /\ f = [s \in SUBSET S |-> f[s]]
    BY <1>4, <1>6 DEF SumsOver, One
  <1>8. f \in [SUBSET S -> Nat]
    BY <1>2, <1>7, SumType
  <1> QED BY <1>1, <1>7, <1>8 DEF c

\* CountsOf, one container at a time.
LEMMA CountSumSteps ==
  ASSUME NEW q \in Seq(InitContainers), NEW S \in SUBSET (1..Len(q))
  PROVE  /\ CountsOf(q, S) \in Nat
         /\ S = {} => CountsOf(q, S) = 0
         /\ \A x \in S : CountsOf(q, S) = q[x].count + CountsOf(q, S \ {x})
  <1>0. /\ IsFiniteSet(S) /\ \A j \in S : q[j].count \in Nat
    <2>1. Len(q) \in Nat /\ \A j \in 1..Len(q) : q[j] \in InitContainers
      BY LenProperties, ElementOfSeq
    <2>2. IsFiniteSet(1..Len(q))
      BY <2>1, FS_Interval
    <2>3. IsFiniteSet(S)
      BY <2>2, FS_Subset
    <2> QED BY <2>1, <2>3 DEF InitContainers
  <1> DEFINE c == [j \in S |-> q[j].count]
  <1>1. PICK g \in [SUBSET S -> Nat] : SumsOver(g, S, c) /\ CountsOf(q, S) = g[S]
    BY CountSum
  <1>2. c \in [S -> Nat] /\ \A j \in S : c[j] = q[j].count
    BY <1>0
  <1> HIDE DEF c
  <1>3. CountsOf(q, S) \in Nat
    BY <1>1
  <1>4. S = {} => CountsOf(q, S) = 0
    BY <1>1 DEF SumsOver
  <1>5. ASSUME NEW x \in S
        PROVE  CountsOf(q, S) = q[x].count + CountsOf(q, S \ {x})
    <2> DEFINE R == S \ {x}
               d == [j \in R |-> q[j].count]
    <2>1. R \in SUBSET (1..Len(q))
      OBVIOUS
    <2>2. PICK h \in [SUBSET R -> Nat] : SumsOver(h, R, d) /\ CountsOf(q, R) = h[R]
      BY <2>1, CountSum
    <2>3. \A j \in R : c[j] = d[j]
      BY <1>2
    <2> HIDE DEF d
    <2>4. DropsOne(g, S, c, h, R, d, x)
      BY <1>1, <2>2, <2>3 DEF DropsOne
    <2> HIDE DEF R
    <2>5. IsFiniteSet(S) /\ c \in [S -> Nat]
      BY <1>0, <1>2
    <2>6. AddsUp(g[S], c[x], h[R])
      BY <2>4, <2>5, SumWithout
    <2> QED BY <1>1, <1>2, <2>2, <2>6 DEF R, AddsUp
  <1> QED BY <1>3, <1>4, <1>5

\* The same for the containers.
LEMMA TotalSum ==
  ASSUME NEW q \in Seq(Nat), NEW S \in SUBSET (1..Len(q))
  PROVE  \E g \in [SUBSET S -> Nat] :
           SumsOver(g, S, [j \in S |-> q[j]]) /\ TotalOf(q, S) = g[S]
  <1> DEFINE c == [j \in S |-> q[j]]
             Eq(g) == g = [s \in SUBSET S |->
                             IF s = {} THEN 0
                             ELSE q[CHOOSE x \in s : TRUE] + g[s \ {CHOOSE x \in s : TRUE}]]
             f == CHOOSE g : Eq(g)
  <1>1. TotalOf(q, S) = f[S]
    BY DEF TotalOf, MapThenSumSet, MapThenFoldSet
  <1>2. IsFiniteSet(S) /\ c \in [S -> Nat] /\ \A j \in S : c[j] = q[j]
    <2>1. Len(q) \in Nat /\ \A j \in 1..Len(q) : q[j] \in Nat
      BY LenProperties, ElementOfSeq
    <2>2. IsFiniteSet(1..Len(q))
      BY <2>1, FS_Interval
    <2>3. IsFiniteSet(S)
      BY <2>2, FS_Subset
    <2> QED BY <2>1, <2>3
  <1> HIDE DEF c
  <1>3. PICK g \in [SUBSET S -> Nat] : SumsOver(g, S, c)
    BY <1>2, SumExists
  <1>4. \A s \in SUBSET S : s # {} => One(s) \in S /\ c[One(s)] = q[One(s)]
    BY <1>2, OneIn
  <1>5. Eq(g)
    BY <1>3, <1>4 DEF SumsOver, One
  <1>6. Eq(f)
    <2> HIDE DEF Eq
    <2> QED BY <1>5
  <1> HIDE DEF f
  <1>7. SumsOver(f, S, c) /\ f = [s \in SUBSET S |-> f[s]]
    BY <1>4, <1>6 DEF SumsOver, One
  <1>8. f \in [SUBSET S -> Nat]
    BY <1>2, <1>7, SumType
  <1> QED BY <1>1, <1>7, <1>8 DEF c

\* TotalOf, one container at a time.
LEMMA TotalSumSteps ==
  ASSUME NEW q \in Seq(Nat), NEW S \in SUBSET (1..Len(q))
  PROVE  /\ TotalOf(q, S) \in Nat
         /\ S = {} => TotalOf(q, S) = 0
         /\ \A x \in S : TotalOf(q, S) = q[x] + TotalOf(q, S \ {x})
  <1>0. /\ IsFiniteSet(S) /\ \A j \in S : q[j] \in Nat
    <2>1. Len(q) \in Nat /\ \A j \in 1..Len(q) : q[j] \in Nat
      BY LenProperties, ElementOfSeq
    <2>2. IsFiniteSet(1..Len(q))
      BY <2>1, FS_Interval
    <2>3. IsFiniteSet(S)
      BY <2>2, FS_Subset
    <2> QED BY <2>1, <2>3
  <1> DEFINE c == [j \in S |-> q[j]]
  <1>1. PICK g \in [SUBSET S -> Nat] : SumsOver(g, S, c) /\ TotalOf(q, S) = g[S]
    BY TotalSum
  <1>2. c \in [S -> Nat] /\ \A j \in S : c[j] = q[j]
    BY <1>0
  <1> HIDE DEF c
  <1>3. TotalOf(q, S) \in Nat
    BY <1>1
  <1>4. S = {} => TotalOf(q, S) = 0
    BY <1>1 DEF SumsOver
  <1>5. ASSUME NEW x \in S
        PROVE  TotalOf(q, S) = q[x] + TotalOf(q, S \ {x})
    <2> DEFINE R == S \ {x}
               d == [j \in R |-> q[j]]
    <2>1. R \in SUBSET (1..Len(q))
      OBVIOUS
    <2>2. PICK h \in [SUBSET R -> Nat] : SumsOver(h, R, d) /\ TotalOf(q, R) = h[R]
      BY <2>1, TotalSum
    <2>3. \A j \in R : c[j] = d[j]
      BY <1>2
    <2> HIDE DEF d
    <2>4. DropsOne(g, S, c, h, R, d, x)
      BY <1>1, <2>2, <2>3 DEF DropsOne
    <2> HIDE DEF R
    <2>5. IsFiniteSet(S) /\ c \in [S -> Nat]
      BY <1>0, <1>2
    <2>6. AddsUp(g[S], c[x], h[R])
      BY <2>4, <2>5, SumWithout
    <2> QED BY <1>1, <1>2, <2>2, <2>6 DEF R, AddsUp
  <1> QED BY <1>3, <1>4, <1>5

Peaks == [sidecars : Nat, peak : Nat]

\* What one init container does to the peak so far.
LEMMA InitPeakType ==
  ASSUME NEW v \in Peaks, NEW c \in InitContainers
  PROVE  /\ InitPeak(v, c) \in Peaks
         /\ InitPeak(v, c).sidecars = IF c.always THEN v.sidecars + c.count ELSE v.sidecars
         /\ InitPeak(v, c).peak = IF v.peak <= v.sidecars + c.count
                                  THEN v.sidecars + c.count ELSE v.peak
  <1>1. v.peak \in Nat /\ v.sidecars \in Nat /\ c.count \in Nat /\ v.sidecars + c.count \in Nat
    BY DEF Peaks, InitContainers
  <1>2. Max({v.peak, v.sidecars + c.count}) =
          IF v.peak <= v.sidecars + c.count THEN v.sidecars + c.count ELSE v.peak
    BY <1>1, MaxOfTwo
  <1> DEFINE m == Max({v.peak, v.sidecars + c.count})
  <1>3. InitPeak(v, c) = IF c.always THEN [sidecars |-> v.sidecars + c.count, peak |-> m]
                         ELSE [sidecars |-> v.sidecars, peak |-> m]
    BY DEF InitPeak, Peaks
  <1> HIDE DEF m
  <1>4. m \in Nat
    BY <1>1, <1>2 DEF m
  <1> QED BY <1>1, <1>2, <1>3, <1>4 DEF Peaks, m

\* What the loop over the init containers computes, one after the other.
LEMMA PeakSteps ==
  ASSUME NEW q \in Seq(InitContainers)
  PROVE  \E h \in [0..Len(q) -> Peaks] :
           /\ h[0] = [sidecars |-> 0, peak |-> 0]
           /\ h[Len(q)] = FoldLeft(InitPeak, [sidecars |-> 0, peak |-> 0], q)
           /\ \A k \in 1..Len(q) : h[k] = InitPeak(h[k - 1], q[k])
  <1> DEFINE n == Len(q)
             V == Peaks
             base == [sidecars |-> 0, peak |-> 0]
             Step(v, k) == InitPeak(v, q[k])
             Eq(g) == g = [s \in SUBSET DOMAIN q |->
                             IF s = {} THEN base
                             ELSE Step(g[s \ {Max(s)}], Max(s))]
             f == CHOOSE g : Eq(g)
             step == [k \in 1..n |-> [v \in V |-> Step(v, k)]]
  <1>1. FoldLeft(InitPeak, [sidecars |-> 0, peak |-> 0], q) = f[DOMAIN q]
    BY DEF FoldLeft, MapThenFoldSet
  <1>2. n \in Nat /\ DOMAIN q = 1..n /\ base \in V
        /\ \A k \in 1..n, v \in V : Step(v, k) \in V
    <2>1. n \in Nat /\ DOMAIN q = 1..n /\ \A k \in 1..n : q[k] \in InitContainers
      BY LenProperties, ElementOfSeq
    <2>2. base \in V
      BY DEF Peaks
    <2>3. \A k \in 1..n, v \in V : Step(v, k) \in V
      BY <2>1, InitPeakType
    <2> QED BY <2>1, <2>2, <2>3
  <1> HIDE DEF n, V, base, Step
  <1>3. step \in [1..n -> [V -> V]] /\ \A v \in V, k \in 1..n : step[k][v] = Step(v, k)
    BY <1>2
  <1> HIDE DEF step
  <1>4. \A s \in SUBSET (1..n) : s # {} => Max(s) \in 1..n /\ s \ {Max(s)} \in SUBSET (1..n)
    BY <1>2, Largest
  <1>5. PICK g \in [SUBSET (1..n) -> V] : IsFold(g, n, base, step)
    BY <1>2, <1>3, FoldExists
  <1>6. ASSUME NEW s \in SUBSET (1..n), s # {}
        PROVE  g[s] = Step(g[s \ {Max(s)}], Max(s))
    <2>1. Max(s) \in 1..n /\ g[s \ {Max(s)}] \in V
      BY <1>4, <1>6
    <2>2. g[s] = step[Max(s)][g[s \ {Max(s)}]]
      BY <1>5, <1>6 DEF IsFold
    <2> QED BY <1>3, <2>1, <2>2
  <1>7. g[{}] = base
    BY <1>5 DEF IsFold
  <1>8. Eq(g)
    BY <1>2, <1>6, <1>7
  <1>9. Eq(f)
    BY <1>8
  <1> HIDE DEF f
  <1>10. \A s \in SUBSET (1..n) :
           f[s] = IF s = {} THEN base ELSE Step(f[s \ {Max(s)}], Max(s))
    BY <1>2, <1>9
  <1> HIDE DEF Eq
  <1>11. IsFoldOn(f, n, V, base, step)
    BY <1>3, <1>4, <1>10 DEF IsFoldOn
  <1>12. PICK h \in [0..n -> V] : IsChain(h, n, base, step, f[1..n])
    BY <1>2, <1>3, <1>11, FoldChain
  <1>13. ASSUME NEW k \in 1..n PROVE h[k] = Step(h[k - 1], k)
    <2>1. h[k - 1] \in V /\ h[k] = step[k][h[k - 1]]
      <3>1. k - 1 \in 0..n
        BY <1>2
      <3> QED BY <1>12, <3>1 DEF IsChain
    <2> QED BY <1>3, <2>1
  <1>14. h[0] = base /\ h[n] = f[DOMAIN q]
    BY <1>2, <1>12 DEF IsChain
  <1> QED BY <1>1, <1>13, <1>14 DEF n, V, base, Step

\* And the one over the containers.
LEMMA TotalSteps ==
  ASSUME NEW q \in Seq(Nat)
  PROVE  \E h \in [0..Len(q) -> Nat] :
           /\ h[0] = 0 /\ h[Len(q)] = FoldLeft(LAMBDA acc, m : acc + m, 0, q)
           /\ \A k \in 1..Len(q) : h[k] = h[k - 1] + q[k]
  <1> DEFINE n == Len(q)
             V == Nat
             base == 0
             Step(v, k) == v + q[k]
             Eq(g) == g = [s \in SUBSET DOMAIN q |->
                             IF s = {} THEN base
                             ELSE Step(g[s \ {Max(s)}], Max(s))]
             f == CHOOSE g : Eq(g)
             step == [k \in 1..n |-> [v \in V |-> Step(v, k)]]
  <1>1. FoldLeft(LAMBDA acc, m : acc + m, 0, q) = f[DOMAIN q]
    BY DEF FoldLeft, MapThenFoldSet
  <1>2. n \in Nat /\ DOMAIN q = 1..n /\ base \in V
        /\ \A k \in 1..n, v \in V : Step(v, k) \in V
    <2>1. n \in Nat /\ DOMAIN q = 1..n /\ \A k \in 1..n : q[k] \in Nat
      BY LenProperties, ElementOfSeq
    <2>2. base \in V
      OBVIOUS
    <2>3. \A k \in 1..n, v \in V : Step(v, k) \in V
      BY <2>1
    <2> QED BY <2>1, <2>2, <2>3
  <1> HIDE DEF n, V, base, Step
  <1>3. step \in [1..n -> [V -> V]] /\ \A v \in V, k \in 1..n : step[k][v] = Step(v, k)
    BY <1>2
  <1> HIDE DEF step
  <1>4. \A s \in SUBSET (1..n) : s # {} => Max(s) \in 1..n /\ s \ {Max(s)} \in SUBSET (1..n)
    BY <1>2, Largest
  <1>5. PICK g \in [SUBSET (1..n) -> V] : IsFold(g, n, base, step)
    BY <1>2, <1>3, FoldExists
  <1>6. ASSUME NEW s \in SUBSET (1..n), s # {}
        PROVE  g[s] = Step(g[s \ {Max(s)}], Max(s))
    <2>1. Max(s) \in 1..n /\ g[s \ {Max(s)}] \in V
      BY <1>4, <1>6
    <2>2. g[s] = step[Max(s)][g[s \ {Max(s)}]]
      BY <1>5, <1>6 DEF IsFold
    <2> QED BY <1>3, <2>1, <2>2
  <1>7. g[{}] = base
    BY <1>5 DEF IsFold
  <1>8. Eq(g)
    BY <1>2, <1>6, <1>7
  <1>9. Eq(f)
    BY <1>8
  <1> HIDE DEF f
  <1>10. \A s \in SUBSET (1..n) :
           f[s] = IF s = {} THEN base ELSE Step(f[s \ {Max(s)}], Max(s))
    BY <1>2, <1>9
  <1> HIDE DEF Eq
  <1>11. IsFoldOn(f, n, V, base, step)
    BY <1>3, <1>4, <1>10 DEF IsFoldOn
  <1>12. PICK h \in [0..n -> V] : IsChain(h, n, base, step, f[1..n])
    BY <1>2, <1>3, <1>11, FoldChain
  <1>13. ASSUME NEW k \in 1..n PROVE h[k] = Step(h[k - 1], k)
    <2>1. h[k - 1] \in V /\ h[k] = step[k][h[k - 1]]
      <3>1. k - 1 \in 0..n
        BY <1>2
      <3> QED BY <1>12, <3>1 DEF IsChain
    <2> QED BY <1>3, <2>1
  <1>14. h[0] = base /\ h[n] = f[DOMAIN q]
    BY <1>2, <1>12 DEF IsChain
  <1> QED BY <1>1, <1>13, <1>14 DEF n, V, base, Step

\* The init containers up to k that stay, and what runs while i starts.
Staying(q, k) == {j \in 1..k : q[j].always}
During(q, i) == CountsOf(q, Staying(q, i - 1)) + q[i].count

\* What sidecars hold after k init containers, and what each needs while it starts.
LEMMA DuringType ==
  ASSUME NEW q \in Seq(InitContainers), NEW k \in 0..Len(q)
  PROVE  /\ CountsOf(q, Staying(q, k)) \in Nat
         /\ \A i \in 1..k : During(q, i) \in Nat
         /\ k # 0 => CountsOf(q, Staying(q, k)) =
                       IF q[k].always THEN CountsOf(q, Staying(q, k - 1)) + q[k].count
                       ELSE CountsOf(q, Staying(q, k - 1))
  <1>0. Len(q) \in Nat /\ \A i \in 1..Len(q) : q[i].count \in Nat
    <2>1. Len(q) \in Nat /\ \A i \in 1..Len(q) : q[i] \in InitContainers
      BY LenProperties, ElementOfSeq
    <2> QED BY <2>1 DEF InitContainers
  <1>1. ASSUME NEW i \in 0..Len(q)
        PROVE  Staying(q, i) \in SUBSET (1..Len(q)) /\ CountsOf(q, Staying(q, i)) \in Nat
    <2>1. Staying(q, i) \in SUBSET (1..Len(q))
      BY <1>0 DEF Staying
    <2> QED BY <2>1, CountSumSteps
  <1>2. ASSUME NEW i \in 1..k PROVE During(q, i) \in Nat
    <2>1. i - 1 \in 0..Len(q) /\ i \in 1..Len(q)
      BY <1>0
    <2>2. CountsOf(q, Staying(q, i - 1)) \in Nat
      BY <1>1, <2>1
    <2> QED BY <1>0, <2>1, <2>2 DEF During
  <1>3. ASSUME k # 0
        PROVE  CountsOf(q, Staying(q, k)) =
                 IF q[k].always THEN CountsOf(q, Staying(q, k - 1)) + q[k].count
                 ELSE CountsOf(q, Staying(q, k - 1))
    <2>1. k \in 1..k /\ k - 1 \in 0..Len(q) /\ k \in 1..Len(q)
      BY <1>0, <1>3
    <2>2. CASE q[k].always
      <3>1. k \in Staying(q, k) /\ Staying(q, k) \ {k} = Staying(q, k - 1)
        BY <1>0, <1>3, <2>1, <2>2 DEF Staying
      <3> DEFINE S == Staying(q, k)
      <3>2. S \in SUBSET (1..Len(q)) /\ k \in S /\ S \ {k} = Staying(q, k - 1)
        BY <1>1, <3>1
      <3> HIDE DEF S
      <3>3. CountsOf(q, S) = q[k].count + CountsOf(q, S \ {k})
        BY <3>2, CountSumSteps
      <3>4. q[k].count \in Nat /\ CountsOf(q, Staying(q, k - 1)) \in Nat
        BY <1>0, <1>1, <2>1
      <3>5. CountsOf(q, S) = q[k].count + CountsOf(q, Staying(q, k - 1))
        BY <3>2, <3>3
      <3>6. CountsOf(q, S) = CountsOf(q, Staying(q, k - 1)) + q[k].count
        BY <3>4, <3>5
      <3> QED BY <2>2, <3>6 DEF S
    <2>3. CASE ~q[k].always
      <3>1. Staying(q, k) = Staying(q, k - 1)
        BY <1>0, <1>3, <2>1, <2>3 DEF Staying
      <3> QED BY <2>3, <3>1
    <2> QED BY <2>2, <2>3
  <1> QED BY <1>1, <1>2, <1>3

\* The loop over the init containers keeps the most that ran at once.
LEMMA PeakFound ==
  ASSUME NEW q \in Seq(InitContainers), NEW r,
         r = FoldLeft(InitPeak, [sidecars |-> 0, peak |-> 0], q)
  PROVE  /\ r \in Peaks /\ r.sidecars = CountsOf(q, Staying(q, Len(q)))
         /\ \A i \in 1..Len(q) : During(q, i) <= r.peak
         /\ r.peak = 0 \/ \E i \in 1..Len(q) : r.peak = During(q, i)
  <1> DEFINE n == Len(q)
             Ok(v, k) == /\ v.sidecars = CountsOf(q, Staying(q, k))
                         /\ \A i \in 1..k : During(q, i) <= v.peak
                         /\ v.peak = 0 \/ \E i \in 1..k : v.peak = During(q, i)
  <1>0. n \in Nat /\ \A k \in 1..n : q[k] \in InitContainers
    BY LenProperties, ElementOfSeq
  <1>1. PICK h \in [0..n -> Peaks] :
          /\ h[0] = [sidecars |-> 0, peak |-> 0] /\ h[n] = r
          /\ \A k \in 1..n : h[k] = InitPeak(h[k - 1], q[k])
    BY PeakSteps
  <1> DEFINE T == {k \in 0..n : Ok(h[k], k)}
  <1>2. 0 \in T
    <2>1. Staying(q, 0) = {} /\ {} \in SUBSET (1..n)
      BY DEF Staying
    <2>2. CountsOf(q, {}) = 0
      BY <2>1, CountSumSteps
    <2>3. h[0].sidecars = 0 /\ h[0].peak = 0 /\ 0 \in 0..n
      BY <1>0, <1>1
    <2>4. h[0].sidecars = CountsOf(q, Staying(q, 0))
      BY <2>1, <2>2, <2>3
    <2>5. \A i \in 1..0 : During(q, i) <= h[0].peak
      OBVIOUS
    <2>6. Ok(h[0], 0)
      BY <2>3, <2>4, <2>5
    <2> HIDE DEF Ok
    <2> QED BY <2>3, <2>6
  <1>3. ASSUME NEW k \in 1..n, k - 1 \in T PROVE k \in T
    <2> DEFINE v == h[k - 1]
               w == h[k]
               c == q[k]
    <2>1. k - 1 \in 0..n /\ k \in 0..n /\ v \in Peaks /\ w \in Peaks /\ c \in InitContainers
      BY <1>0
    <2>2. Ok(v, k - 1) /\ w = InitPeak(v, c)
      BY <1>1, <1>3
    <2>3. /\ w.sidecars = IF c.always THEN v.sidecars + c.count ELSE v.sidecars
          /\ w.peak = IF v.peak <= v.sidecars + c.count
                      THEN v.sidecars + c.count ELSE v.peak
      <3> HIDE DEF v, w, c, Ok
      <3> QED BY <2>1, <2>2, InitPeakType
    <2>4. v.peak \in Nat /\ v.sidecars \in Nat /\ c.count \in Nat
      BY <2>1 DEF Peaks, InitContainers
    <2> HIDE DEF v, w
    <2>5. During(q, k) = v.sidecars + c.count /\ During(q, k) \in Nat
      BY <2>2, <2>4 DEF During
    <2>6. w.sidecars = CountsOf(q, Staying(q, k))
      <3>1. k # 0
        BY <1>0
      <3> QED BY <2>1, <2>2, <2>3, <3>1, DuringType
    <2>7. \A i \in 1..k : During(q, i) <= w.peak
      <3>1. ASSUME NEW i \in 1..k PROVE During(q, i) <= w.peak
        <4>1. CASE i = k
          BY <2>3, <2>4, <2>5, <4>1
        <4>2. CASE i # k
          <5>1. i \in 1..(k - 1)
            BY <1>0, <4>2
          <5>2. During(q, i) \in Nat /\ During(q, i) <= v.peak
            BY <2>1, <2>2, <5>1, DuringType
          <5> QED BY <2>3, <2>4, <5>2
        <4> QED BY <4>1, <4>2
      <3> QED BY <3>1
    <2>8. w.peak = 0 \/ \E i \in 1..k : w.peak = During(q, i)
      <3>1. CASE v.peak <= v.sidecars + c.count
        <4>1. w.peak = During(q, k) /\ k \in 1..k
          BY <1>0, <2>3, <2>5, <3>1
        <4> QED BY <4>1
      <3>2. CASE ~(v.peak <= v.sidecars + c.count)
        <4>1. w.peak = v.peak
          BY <2>3, <3>2
        <4>2. \A i \in 1..(k - 1) : i \in 1..k
          BY <1>0
        <4> QED BY <2>2, <4>1, <4>2
      <3> QED BY <3>1, <3>2
    <2>9. Ok(w, k)
      BY <2>6, <2>7, <2>8
    <2> HIDE DEF Ok
    <2> QED BY <2>1, <2>9 DEF w
  <1>4. Ok(r, n)
    <2>1. \A k \in 0..n : k \in T
      <3> HIDE DEF T, n
      <3> QED BY <1>0, <1>2, <1>3, InductUpTo
    <2>2. n \in 0..n
      BY <1>0
    <2> HIDE DEF Ok
    <2> QED BY <1>1, <2>1, <2>2
  <1>5. r \in Peaks
    <2>1. n \in 0..n
      BY <1>0
    <2> QED BY <1>1, <2>1
  <1> QED BY <1>4, <1>5

\* The loop over the containers adds them up.
LEMMA TotalFound ==
  ASSUME NEW q \in Seq(Nat)
  PROVE  /\ FoldLeft(LAMBDA acc, m : acc + m, 0, q) = TotalOf(q, DOMAIN q)
         /\ TotalOf(q, DOMAIN q) \in Nat
  <1> DEFINE n == Len(q)
             fold == FoldLeft(LAMBDA acc, m : acc + m, 0, q)
  <1>0. n \in Nat /\ DOMAIN q = 1..n /\ \A k \in 1..n : q[k] \in Nat
    BY LenProperties, ElementOfSeq
  <1>1. PICK h \in [0..n -> Nat] :
          h[0] = 0 /\ h[n] = fold /\ \A k \in 1..n : h[k] = h[k - 1] + q[k]
    BY TotalSteps
  <1> HIDE DEF fold
  <1> DEFINE T == {k \in 0..n : h[k] = TotalOf(q, 1..k)}
  <1>2. 0 \in T
    <2>1. 1..0 = {} /\ {} \in SUBSET (1..n) /\ 0 \in 0..n
      BY <1>0
    <2>2. TotalOf(q, {}) = 0
      BY <2>1, TotalSumSteps
    <2> QED BY <1>1, <2>1, <2>2
  <1>3. ASSUME NEW k \in 1..n, k - 1 \in T PROVE k \in T
    <2> DEFINE S == 1..k
    <2>1. S \in SUBSET (1..n) /\ k \in S /\ S \ {k} = 1..(k - 1) /\ k \in 0..n
      BY <1>0
    <2>2. k - 1 \in 0..n /\ h[k - 1] = TotalOf(q, 1..(k - 1)) /\ h[k - 1] \in Nat /\ q[k] \in Nat
      BY <1>0, <1>3
    <2> HIDE DEF S
    <2>3. TotalOf(q, S) = q[k] + TotalOf(q, S \ {k})
      BY <2>1, TotalSumSteps
    <2>4. TotalOf(q, S) = q[k] + h[k - 1]
      BY <2>1, <2>2, <2>3
    <2>5. h[k] = h[k - 1] + q[k]
      BY <1>1
    <2>6. h[k] = TotalOf(q, S)
      BY <2>2, <2>4, <2>5
    <2> QED BY <2>1, <2>6 DEF S
  <1>4. \A k \in 0..n : k \in T
    <2> HIDE DEF T, n
    <2> QED BY <1>0, <1>2, <1>3, InductUpTo
  <1>5. n \in 0..n
    BY <1>0
  <1>6. h[n] = TotalOf(q, 1..n) /\ h[n] \in Nat
    BY <1>4, <1>5
  <1> QED BY <1>0, <1>1, <1>6 DEF fold

\* The maximum of a set that has one.
LEMMA MaxIs ==
  ASSUME NEW s \in SUBSET Nat, NEW x \in s, \A y \in s : y <= x
  PROVE  Max(s) = x
  <1>1. Max(s) \in s /\ \A y \in s : Max(s) >= y
    BY DEF Max
  <1>2. Max(s) \in Nat /\ x \in Nat /\ Max(s) >= x /\ Max(s) <= x
    BY <1>1
  <1> QED BY <1>2

\* pod_gpu_request: what a Pod asks for is the most it holds at any point.
LEMMA RequestFound ==
  ASSUME NEW pod, pod.containers \in Seq(Nat), pod.inits \in Seq(InitContainers),
         pod.overhead \in Nat
  PROVE  PodGpuRequest(pod) =
           pod.overhead
             + Max({CountsOf(pod.inits, Staying(pod.inits, Len(pod.inits)))
                      + TotalOf(pod.containers, DOMAIN pod.containers)}
                   \cup {During(pod.inits, i) : i \in DOMAIN pod.inits})
  <1> DEFINE q == pod.inits
             r == FoldLeft(InitPeak, [sidecars |-> 0, peak |-> 0], q)
             total == TotalOf(pod.containers, DOMAIN pod.containers)
             application == FoldLeft(LAMBDA acc, m : acc + m, 0, pod.containers)
             after == CountsOf(q, Staying(q, Len(q))) + total
             during == {During(q, i) : i \in DOMAIN q}
  <1>1. PodGpuRequest(pod) = Max({application + r.sidecars, r.peak}) + pod.overhead
    BY DEF PodGpuRequest
  <1>2. application = total /\ total \in Nat
    BY TotalFound
  <1> HIDE DEF application, total
  <1>3. /\ r \in Peaks /\ r.sidecars = CountsOf(q, Staying(q, Len(q)))
        /\ \A i \in 1..Len(q) : During(q, i) <= r.peak
        /\ r.peak = 0 \/ \E i \in 1..Len(q) : r.peak = During(q, i)
    BY PeakFound
  <1>4. Len(q) \in Nat /\ DOMAIN q = 1..Len(q)
    BY LenProperties
  <1>5. \A i \in 1..Len(q) : During(q, i) \in Nat
    <2>1. Len(q) \in 0..Len(q)
      BY <1>4
    <2> QED BY <2>1, DuringType
  <1> HIDE DEF r, q
  <1>6. r.peak \in Nat /\ r.sidecars \in Nat /\ after = application + r.sidecars /\ after \in Nat
    BY <1>2, <1>3 DEF Peaks
  <1>7. during \in SUBSET Nat /\ \A y \in during : y <= r.peak
    BY <1>3, <1>4, <1>5
  <1>8. r.peak = 0 \/ r.peak \in during
    BY <1>3, <1>4
  <1> HIDE DEF after, during
  <1> DEFINE m == IF after <= r.peak THEN r.peak ELSE after
             s == {after} \cup during
  <1>9. Max({after, r.peak}) = m /\ m \in Nat
    BY <1>6, MaxOfTwo
  <1>10. s \in SUBSET Nat /\ m \in s /\ \A y \in s : y <= m
    <2>1. after \in s /\ during \subseteq s
      OBVIOUS
    <2>2. m \in s
      <3>1. CASE after <= r.peak
        <4>1. CASE r.peak = 0
          BY <1>6, <2>1, <3>1, <4>1
        <4>2. CASE r.peak \in during
          BY <2>1, <3>1, <4>2
        <4> QED BY <1>8, <4>1, <4>2
      <3>2. CASE ~(after <= r.peak)
        BY <2>1, <3>2
      <3> QED BY <3>1, <3>2
    <2>3. \A y \in during : y \in Nat /\ y <= m
      <3>1. r.peak <= m
        BY <1>6
      <3> HIDE DEF m
      <3> QED BY <1>6, <1>7, <1>9, <3>1
    <2>4. after <= m
      BY <1>6
    <2> HIDE DEF m
    <2> QED BY <1>6, <1>7, <2>2, <2>3, <2>4
  <1> HIDE DEF m, s
  <1>11. Max(s) = m
    BY <1>10, MaxIs
  <1>12. PodGpuRequest(pod) = Max({after, r.peak}) + pod.overhead
    BY <1>1, <1>6
  <1>13. PodGpuRequest(pod) = pod.overhead + Max(s)
    BY <1>9, <1>11, <1>12
  <1> QED BY <1>13 DEF q, total, after, during, s

-----------------------------------------------------------------------------
(* expand_sweep *)

Sizes == Nat \ {0}
Counts == [ok : BOOLEAN, count : 1..RunLimit]
RunLists == Seq(Seq(Nat))

\* A count is only multiplied when the limit is kept.
LEMMA CountType ==
  ASSUME NEW v \in Counts, NEW m \in Nat
  PROVE  (IF m = 0 \/ m > RunLimit \div v.count THEN [v EXCEPT !.ok = FALSE]
          ELSE [v EXCEPT !.count = @ * m]) \in Counts
  <1>1. v.ok \in BOOLEAN /\ v.count \in 1..RunLimit /\ RunLimit \in Nat
    BY FunctionsAssumption DEF Counts
  <1>2. CASE m = 0 \/ m > RunLimit \div v.count
    BY <1>2 DEF Counts
  <1>3. CASE ~(m = 0 \/ m > RunLimit \div v.count)
    <2>1. v.count * m \in 1..RunLimit
      BY <1>1, <1>3
    <2> QED BY <1>3, <2>1 DEF Counts
  <1> QED BY <1>2, <1>3

\* The loop that checks the number of runs by division.
LEMMA CountSteps ==
  ASSUME NEW q \in Seq(Nat)
  PROVE  \E h \in [0..Len(q) -> Counts] :
           /\ h[0] = [ok |-> TRUE, count |-> 1] /\ h[Len(q)] = CountTo(q)
           /\ \A k \in 1..Len(q) : h[k] = IF q[k] = 0 \/ q[k] > RunLimit \div h[k - 1].count
                                          THEN [h[k - 1] EXCEPT !.ok = FALSE]
                                          ELSE [h[k - 1] EXCEPT !.count = @ * q[k]]
  <1> DEFINE n == Len(q)
             V == Counts
             base == [ok |-> TRUE, count |-> 1]
             Step(v, k) == IF q[k] = 0 \/ q[k] > RunLimit \div v.count
                           THEN [v EXCEPT !.ok = FALSE]
                           ELSE [v EXCEPT !.count = @ * q[k]]
             Eq(g) == g = [s \in SUBSET DOMAIN q |->
                             IF s = {} THEN base
                             ELSE Step(g[s \ {Max(s)}], Max(s))]
             f == CHOOSE g : Eq(g)
             step == [k \in 1..n |-> [v \in V |-> Step(v, k)]]
  <1>1. CountTo(q) = f[DOMAIN q]
    BY DEF CountTo, FoldLeft, MapThenFoldSet
  <1>2. n \in Nat /\ DOMAIN q = 1..n /\ base \in V
        /\ \A k \in 1..n, v \in V : Step(v, k) \in V
    <2>1. n \in Nat /\ DOMAIN q = 1..n /\ \A k \in 1..n : q[k] \in Nat
      BY LenProperties, ElementOfSeq
    <2>2. base \in V
      BY FunctionsAssumption DEF Counts
    <2>3. \A k \in 1..n, v \in V : Step(v, k) \in V
      BY <2>1, CountType
    <2> QED BY <2>1, <2>2, <2>3
  <1> HIDE DEF n, V, base, Step
  <1>3. step \in [1..n -> [V -> V]] /\ \A v \in V, k \in 1..n : step[k][v] = Step(v, k)
    BY <1>2
  <1> HIDE DEF step
  <1>4. \A s \in SUBSET (1..n) : s # {} => Max(s) \in 1..n /\ s \ {Max(s)} \in SUBSET (1..n)
    BY <1>2, Largest
  <1>5. PICK g \in [SUBSET (1..n) -> V] : IsFold(g, n, base, step)
    BY <1>2, <1>3, FoldExists
  <1>6. ASSUME NEW s \in SUBSET (1..n), s # {}
        PROVE  g[s] = Step(g[s \ {Max(s)}], Max(s))
    <2>1. Max(s) \in 1..n /\ g[s \ {Max(s)}] \in V
      BY <1>4, <1>6
    <2>2. g[s] = step[Max(s)][g[s \ {Max(s)}]]
      BY <1>5, <1>6 DEF IsFold
    <2> QED BY <1>3, <2>1, <2>2
  <1>7. g[{}] = base
    BY <1>5 DEF IsFold
  <1>8. Eq(g)
    BY <1>2, <1>6, <1>7
  <1>9. Eq(f)
    BY <1>8
  <1> HIDE DEF f
  <1>10. \A s \in SUBSET (1..n) :
           f[s] = IF s = {} THEN base ELSE Step(f[s \ {Max(s)}], Max(s))
    BY <1>2, <1>9
  <1> HIDE DEF Eq
  <1>11. IsFoldOn(f, n, V, base, step)
    BY <1>3, <1>4, <1>10 DEF IsFoldOn
  <1>12. PICK h \in [0..n -> V] : IsChain(h, n, base, step, f[1..n])
    BY <1>2, <1>3, <1>11, FoldChain
  <1>13. ASSUME NEW k \in 1..n PROVE h[k] = Step(h[k - 1], k)
    <2>1. h[k - 1] \in V /\ h[k] = step[k][h[k - 1]]
      <3>1. k - 1 \in 0..n
        BY <1>2
      <3> QED BY <1>12, <3>1 DEF IsChain
    <2> QED BY <1>3, <2>1
  <1>14. h[0] = base /\ h[n] = f[DOMAIN q]
    BY <1>2, <1>12 DEF IsChain
  <1> QED BY <1>1, <1>13, <1>14 DEF n, V, base, Step

\* The product of a grid's sizes, one factor after the other.
LEMMA ProductSteps ==
  ASSUME NEW q \in Seq(Nat)
  PROVE  \E h \in [0..Len(q) -> Nat] :
           /\ h[0] = 1 /\ h[Len(q)] = Product(q)
           /\ \A k \in 1..Len(q) : h[k] = h[k - 1] * q[k]
  <1> DEFINE n == Len(q)
             V == Nat
             base == 1
             Step(v, k) == v * q[k]
             Eq(g) == g = [s \in SUBSET DOMAIN q |->
                             IF s = {} THEN base
                             ELSE Step(g[s \ {Max(s)}], Max(s))]
             f == CHOOSE g : Eq(g)
             step == [k \in 1..n |-> [v \in V |-> Step(v, k)]]
  <1>1. Product(q) = f[DOMAIN q]
    BY DEF Product, FoldLeft, MapThenFoldSet
  <1>2. n \in Nat /\ DOMAIN q = 1..n /\ base \in V
        /\ \A k \in 1..n, v \in V : Step(v, k) \in V
    <2>1. n \in Nat /\ DOMAIN q = 1..n /\ \A k \in 1..n : q[k] \in Nat
      BY LenProperties, ElementOfSeq
    <2>2. base \in V
      OBVIOUS
    <2>3. \A k \in 1..n, v \in V : Step(v, k) \in V
      BY <2>1
    <2> QED BY <2>1, <2>2, <2>3
  <1> HIDE DEF n, V, base, Step
  <1>3. step \in [1..n -> [V -> V]] /\ \A v \in V, k \in 1..n : step[k][v] = Step(v, k)
    BY <1>2
  <1> HIDE DEF step
  <1>4. \A s \in SUBSET (1..n) : s # {} => Max(s) \in 1..n /\ s \ {Max(s)} \in SUBSET (1..n)
    BY <1>2, Largest
  <1>5. PICK g \in [SUBSET (1..n) -> V] : IsFold(g, n, base, step)
    BY <1>2, <1>3, FoldExists
  <1>6. ASSUME NEW s \in SUBSET (1..n), s # {}
        PROVE  g[s] = Step(g[s \ {Max(s)}], Max(s))
    <2>1. Max(s) \in 1..n /\ g[s \ {Max(s)}] \in V
      BY <1>4, <1>6
    <2>2. g[s] = step[Max(s)][g[s \ {Max(s)}]]
      BY <1>5, <1>6 DEF IsFold
    <2> QED BY <1>3, <2>1, <2>2
  <1>7. g[{}] = base
    BY <1>5 DEF IsFold
  <1>8. Eq(g)
    BY <1>2, <1>6, <1>7
  <1>9. Eq(f)
    BY <1>8
  <1> HIDE DEF f
  <1>10. \A s \in SUBSET (1..n) :
           f[s] = IF s = {} THEN base ELSE Step(f[s \ {Max(s)}], Max(s))
    BY <1>2, <1>9
  <1> HIDE DEF Eq
  <1>11. IsFoldOn(f, n, V, base, step)
    BY <1>3, <1>4, <1>10 DEF IsFoldOn
  <1>12. PICK h \in [0..n -> V] : IsChain(h, n, base, step, f[1..n])
    BY <1>2, <1>3, <1>11, FoldChain
  <1>13. ASSUME NEW k \in 1..n PROVE h[k] = Step(h[k - 1], k)
    <2>1. h[k - 1] \in V /\ h[k] = step[k][h[k - 1]]
      <3>1. k - 1 \in 0..n
        BY <1>2
      <3> QED BY <1>12, <3>1 DEF IsChain
    <2> QED BY <1>3, <2>1
  <1>14. h[0] = base /\ h[n] = f[DOMAIN q]
    BY <1>2, <1>12 DEF IsChain
  <1> QED BY <1>1, <1>13, <1>14 DEF n, V, base, Step

\* A product beyond the limit is found by the division in front of it.
LEMMA OverLimit ==
  ASSUME NEW limit \in Nat \ {0}, NEW x \in Nat, NEW m \in Nat
  PROVE  /\ x > limit /\ m >= 1 => x * m > limit
         /\ x \in 1..limit /\ m > limit \div x => x * m > limit
  <1>1. ASSUME x > limit, m >= 1 PROVE x * m > limit
    <2>1. x * m >= x
      BY <1>1
    <2>2. x * m \in Nat
      OBVIOUS
    <2> QED BY <1>1, <2>1, <2>2
  <1>2. ASSUME x \in 1..limit, m > limit \div x PROVE x * m > limit
    <2> DEFINE d == limit \div x
    <2>1. d \in Nat /\ limit < x * (d + 1)
      BY <1>2
    <2> HIDE DEF d
    <2>2. m >= d + 1
      BY <1>2, <2>1 DEF d
    <2>3. x * m >= x * (d + 1) /\ x * m \in Nat /\ x * (d + 1) \in Nat
      BY <1>2, <2>1, <2>2
    <2> QED BY <2>1, <2>3
  <1> QED BY <1>1, <1>2

\* Sequences of bounded length are sequences.
LEMMA BoundedSeqs ==
  ASSUME NEW S, NEW T, S \subseteq T, NEW n \in Nat, NEW q \in BoundedSeq(S, n)
  PROVE  q \in Seq(T)
  <1>1. PICK m \in 0..n : q \in [1..m -> S]
    BY DEF BoundedSeq, SeqOf
  <1>2. m \in Nat /\ q \in [1..m -> T]
    BY <1>1
  <1> QED BY <1>2

\* A grid is a sequence of dimensions, and its widths one of numbers.
LEMMA SweepGrid ==
  ASSUME NEW sweep \in Sweeps
  PROVE  /\ sweep.grid \in Seq([key : Nat, values : Nat, largest : Nat])
         /\ Widths(sweep.grid) \in Seq(Nat) /\ Len(Widths(sweep.grid)) = Len(sweep.grid)
  <1>1. sweep.grid \in Seq([key : Nat, values : Nat, largest : Nat])
    <2>1. sweep.grid \in BoundedSeq(Dimensions, 3) /\ 3 \in Nat
      BY DEF Sweeps
    <2>2. Dimensions \subseteq [key : Nat, values : Nat, largest : Nat]
      BY FunctionsAssumption
    <2> QED BY <2>1, <2>2, BoundedSeqs
  <1>2. PICK grid \in Seq([key : Nat, values : Nat, largest : Nat]) : grid = sweep.grid
    BY <1>1
  <1>3. Len(grid) \in Nat /\ \A d \in 1..Len(grid) : grid[d].values \in Nat
    <2>1. \A d \in 1..Len(grid) : grid[d] \in [key : Nat, values : Nat, largest : Nat]
      BY ElementOfSeq
    <2> QED BY <2>1, LenProperties
  <1>4. PICK w : w = Widths(grid)
    OBVIOUS
  <1>5. w \in [1..Len(grid) -> Nat]
    BY <1>3, <1>4 DEF Widths
  <1>6. w \in Seq(Nat) /\ Len(w) = Len(grid)
    <2>1. PICK n \in Nat : n = Len(grid)
      BY <1>3
    <2>2. w \in [1..n -> Nat]
      BY <1>5, <2>1
    <2>3. w \in Seq(Nat) /\ Len(w) = n
      BY <2>2
    <2> QED BY <2>1, <2>3
  <1> QED BY <1>2, <1>4, <1>6

\* The estimate of a run's bytes is a number.
LEMMA EstimateCounts ==
  ASSUME NEW sweep \in Sweeps
  PROVE  Estimate(sweep) \in Nat
  <1> DEFINE q == sweep.grid
             n == Len(q)
             V == Nat
             base == sweep.base.bytes
             Step(v, k) == v + q[k].key + q[k].largest + ParameterBytes
             Eq(g) == g = [s \in SUBSET DOMAIN q |->
                             IF s = {} THEN base
                             ELSE Step(g[s \ {Max(s)}], Max(s))]
             f == CHOOSE g : Eq(g)
             step == [k \in 1..n |-> [v \in V |-> Step(v, k)]]
  <1>0. q \in Seq([key : Nat, values : Nat, largest : Nat])
    BY SweepGrid
  <1>1. Estimate(sweep) = f[DOMAIN q]
    BY DEF Estimate, FoldLeft, MapThenFoldSet
  <1>2. n \in Nat /\ DOMAIN q = 1..n /\ base \in V
        /\ \A k \in 1..n, v \in V : Step(v, k) \in V
    <2>1. /\ n \in Nat /\ DOMAIN q = 1..n /\ ParameterBytes \in Nat
          /\ \A k \in 1..n : q[k].key \in Nat /\ q[k].largest \in Nat
      <3>1. ParameterBytes \in Nat
        BY FunctionsAssumption
      <3>2. PICK grid \in Seq([key : Nat, values : Nat, largest : Nat]) : grid = q
        BY <1>0
      <3>3. \A k \in 1..Len(grid) : grid[k] \in [key : Nat, values : Nat, largest : Nat]
        BY ElementOfSeq
      <3>4. Len(grid) \in Nat /\ DOMAIN grid = 1..Len(grid)
        BY LenProperties
      <3>5. \A k \in 1..Len(grid) : grid[k].key \in Nat /\ grid[k].largest \in Nat
        BY <3>3
      <3> QED BY <3>1, <3>2, <3>4, <3>5
    <2>2. base \in V
      BY FunctionsAssumption DEF Sweeps
    <2>3. \A k \in 1..n, v \in V : Step(v, k) \in V
      BY <2>1
    <2> QED BY <2>1, <2>2, <2>3
  <1> HIDE DEF q, n, V, base, Step
  <1>3. step \in [1..n -> [V -> V]] /\ \A v \in V, k \in 1..n : step[k][v] = Step(v, k)
    BY <1>2
  <1> HIDE DEF step
  <1>4. \A s \in SUBSET (1..n) : s # {} => Max(s) \in 1..n /\ s \ {Max(s)} \in SUBSET (1..n)
    BY <1>2, Largest
  <1>5. PICK g \in [SUBSET (1..n) -> V] : IsFold(g, n, base, step)
    BY <1>2, <1>3, FoldExists
  <1>6. ASSUME NEW s \in SUBSET (1..n), s # {}
        PROVE  g[s] = Step(g[s \ {Max(s)}], Max(s))
    <2>1. Max(s) \in 1..n /\ g[s \ {Max(s)}] \in V
      BY <1>4, <1>6
    <2>2. g[s] = step[Max(s)][g[s \ {Max(s)}]]
      BY <1>5, <1>6 DEF IsFold
    <2> QED BY <1>3, <2>1, <2>2
  <1>7. g[{}] = base
    BY <1>5 DEF IsFold
  <1>8. Eq(g)
    BY <1>2, <1>6, <1>7
  <1>9. Eq(f)
    BY <1>8
  <1> HIDE DEF f
  <1>10. \A s \in SUBSET (1..n) :
           f[s] = IF s = {} THEN base ELSE Step(f[s \ {Max(s)}], Max(s))
    BY <1>2, <1>9
  <1> HIDE DEF Eq
  <1>11. IsFoldOn(f, n, V, base, step)
    BY <1>3, <1>4, <1>10 DEF IsFoldOn
  <1>12. PICK h \in [0..n -> V] : IsChain(h, n, base, step, f[1..n])
    BY <1>2, <1>3, <1>11, FoldChain
  <1>13. h[n] = f[DOMAIN q] /\ h[n] \in V
    BY <1>2, <1>12 DEF IsChain
  <1> QED BY <1>1, <1>13 DEF V

\* The bytes of all runs are bounded by the division as by the product.
LEMMA BytesFit ==
  ASSUME NEW x \in Nat \ {0}, NEW e \in Nat, NEW limit \in Nat
  PROVE  e <= limit \div x <=> x * e <= limit
  <1> DEFINE d == limit \div x
  <1>1. d \in Nat /\ x * d <= limit /\ limit < x * (d + 1)
    OBVIOUS
  <1> HIDE DEF d
  <1>2. ASSUME e <= d PROVE x * e <= limit
    <2>1. x * e <= x * d /\ x * e \in Nat /\ x * d \in Nat
      BY <1>1, <1>2
    <2> QED BY <1>1, <2>1
  <1>3. ASSUME ~(e <= d) PROVE ~(x * e <= limit)
    <2>1. e >= d + 1
      BY <1>1, <1>3
    <2>2. x * e >= x * (d + 1) /\ x * e \in Nat /\ x * (d + 1) \in Nat
      BY <1>1, <2>1
    <2> QED BY <1>1, <2>2
  <1> QED BY <1>2, <1>3 DEF d

\* A count is found exactly of a grid that has between one and RunLimit runs.
LEMMA CountFound ==
  ASSUME NEW q \in Seq(Nat)
  PROVE  /\ Product(q) \in Nat /\ (CountTo(q).ok <=> Product(q) \in 1..RunLimit)
         /\ CountTo(q).ok => CountTo(q).count = Product(q)
  <1> DEFINE n == Len(q)
  <1>0. n \in Nat /\ RunLimit \in Nat \ {0} /\ \A k \in 1..n : q[k] \in Nat
    BY LenProperties, ElementOfSeq, FunctionsAssumption
  <1>1. PICK c \in [0..n -> Counts] :
          /\ c[0] = [ok |-> TRUE, count |-> 1] /\ c[n] = CountTo(q)
          /\ \A k \in 1..n :
               c[k] = IF q[k] = 0 \/ q[k] > RunLimit \div c[k - 1].count
                      THEN [c[k - 1] EXCEPT !.ok = FALSE]
                      ELSE [c[k - 1] EXCEPT !.count = @ * q[k]]
    BY CountSteps
  <1>2. PICK p \in [0..n -> Nat] :
          p[0] = 1 /\ p[n] = Product(q) /\ \A k \in 1..n : p[k] = p[k - 1] * q[k]
    BY ProductSteps
  <1> DEFINE Ok(k) == /\ c[k].ok => c[k].count = p[k]
                      /\ ~c[k].ok => p[k] = 0 \/ p[k] > RunLimit
             T == {k \in 0..n : Ok(k)}
  <1>3. 0 \in T
    BY <1>0, <1>1, <1>2
  <1>4. ASSUME NEW k \in 1..n, k - 1 \in T PROVE k \in T
    <2> DEFINE v == c[k - 1]
               w == c[k]
               x == p[k - 1]
               m == q[k]
    <2>1. /\ k - 1 \in 0..n /\ k \in 0..n /\ v \in Counts /\ w \in Counts
          /\ x \in Nat /\ m \in Nat
      <3>1. k - 1 \in 0..n /\ k \in 0..n
        BY <1>0
      <3> QED BY <1>0, <3>1
    <2>2. /\ w = IF m = 0 \/ m > RunLimit \div v.count THEN [v EXCEPT !.ok = FALSE]
                 ELSE [v EXCEPT !.count = @ * m]
          /\ p[k] = x * m
      BY <1>1, <1>2
    <2>3. /\ v.ok => v.count = x
          /\ ~v.ok => x = 0 \/ x > RunLimit
      BY <1>4
    <2> HIDE DEF v, w, x, m
    <2>4. v.count \in 1..RunLimit /\ v.ok \in BOOLEAN
      BY <2>1 DEF Counts
    <2>5. CASE ~v.ok
      <3>1. ~w.ok
        BY <2>1, <2>2, <2>5 DEF Counts
      <3>2. p[k] = 0 \/ p[k] > RunLimit
        <4>1. x * m = 0 \/ x * m > RunLimit
          <5>1. CASE x = 0 \/ m = 0
            BY <2>1, <5>1
          <5>2. CASE x > RunLimit /\ m >= 1
            BY <1>0, <2>1, <5>2, OverLimit
          <5> QED BY <2>1, <2>3, <2>5, <5>1, <5>2
        <4> QED BY <2>2, <4>1
      <3> QED BY <2>1, <3>1, <3>2 DEF w
    <2>6. CASE v.ok /\ (m = 0 \/ m > RunLimit \div v.count)
      <3>1. ~w.ok
        BY <2>1, <2>2, <2>6 DEF Counts
      <3>2. x * m = 0 \/ x * m > RunLimit
        <4>1. v.count = x /\ x \in 1..RunLimit
          BY <2>3, <2>4, <2>6
        <4>2. CASE m = 0
          BY <2>1, <4>2
        <4>3. CASE m # 0
          <5>1. x * m > RunLimit
            BY <1>0, <2>1, <2>6, <4>1, <4>3, OverLimit
          <5> QED BY <5>1
        <4> QED BY <4>2, <4>3
      <3>3. p[k] = 0 \/ p[k] > RunLimit
        BY <2>2, <3>2
      <3> QED BY <2>1, <3>1, <3>3 DEF w
    <2>7. CASE v.ok /\ ~(m = 0 \/ m > RunLimit \div v.count)
      <3>1. w.ok /\ w.count = v.count * m
        BY <2>1, <2>2, <2>7 DEF Counts
      <3>2. w.count = p[k]
        BY <2>2, <2>3, <2>7, <3>1
      <3> QED BY <2>1, <3>1, <3>2 DEF w
    <2> QED BY <2>5, <2>6, <2>7
  <1>5. Ok(n)
    <2>1. \A k \in 0..n : k \in T
      <3> HIDE DEF T, n
      <3> QED BY <1>0, <1>3, <1>4, InductUpTo
    <2>2. n \in 0..n
      BY <1>0
    <2> HIDE DEF Ok
    <2> QED BY <2>1, <2>2
  <1>6. c[n].count \in 1..RunLimit /\ p[n] \in Nat
    <2>1. n \in 0..n
      BY <1>0
    <2> QED BY <1>1, <1>2, <2>1 DEF Counts
  <1>7. (c[n].ok <=> p[n] \in 1..RunLimit) /\ (c[n].ok => c[n].count = p[n])
    BY <1>0, <1>5, <1>6
  <1> QED BY <1>1, <1>2, <1>6, <1>7

\* The empty product.
LEMMA ProductEmpty == Product(<<>>) = 1
  <1> DEFINE q == <<>>
  <1>1. q \in Seq(Nat) /\ Len(q) = 0
    OBVIOUS
  <1> HIDE DEF q
  <1>2. PICK p \in [0..Len(q) -> Nat] :
          p[0] = 1 /\ p[Len(q)] = Product(q) /\ \A k \in 1..Len(q) : p[k] = p[k - 1] * q[k]
    BY <1>1, ProductSteps
  <1>3. Product(q) = 1
    BY <1>1, <1>2
  <1> QED BY <1>3 DEF q

\* One more factor.
LEMMA ProductMore ==
  ASSUME NEW q \in Seq(Nat), NEW s \in Seq(Nat), Len(s) = Len(q) + 1,
         \A k \in 1..Len(q) : s[k] = q[k]
  PROVE  Product(s) = Product(q) * s[Len(s)]
  <1> DEFINE n == Len(q)
  <1>0. n \in Nat /\ Len(s) = n + 1 /\ n + 1 \in Nat /\ (n + 1) - 1 = n
    BY LenProperties
  <1>1. PICK p \in [0..n -> Nat] :
          p[0] = 1 /\ p[n] = Product(q) /\ \A k \in 1..n : p[k] = p[k - 1] * q[k]
    BY ProductSteps
  <1>2. PICK r \in [0..Len(s) -> Nat] :
          r[0] = 1 /\ r[Len(s)] = Product(s) /\ \A k \in 1..Len(s) : r[k] = r[k - 1] * s[k]
    BY ProductSteps
  <1> DEFINE T == {k \in 0..n : r[k] = p[k]}
  <1>3. 0 \in T
    BY <1>0, <1>1, <1>2
  <1>4. ASSUME NEW k \in 1..n, k - 1 \in T PROVE k \in T
    <2>1. k \in 0..n /\ k \in 1..Len(s) /\ r[k - 1] = p[k - 1] /\ s[k] = q[k]
      BY <1>0, <1>4
    <2>2. r[k] = r[k - 1] * s[k] /\ p[k] = p[k - 1] * q[k]
      BY <1>1, <1>2, <2>1
    <2>3. r[k] = p[k]
      BY <2>1, <2>2
    <2> QED BY <2>1, <2>3
  <1>5. r[n] = p[n]
    <2>1. \A k \in 0..n : k \in T
      <3> HIDE DEF T, n
      <3> QED BY <1>0, <1>3, <1>4, InductUpTo
    <2>2. n \in 0..n
      BY <1>0
    <2> QED BY <2>1, <2>2
  <1>6. Len(s) \in 1..Len(s) /\ Len(s) - 1 = n
    BY <1>0
  <1>7. r[Len(s)] = r[n] * s[Len(s)]
    BY <1>2, <1>6
  <1> QED BY <1>1, <1>2, <1>5, <1>7

\* How many runs the dimensions d + 1 to k make.
Later(q, d, k) == Product(SubSeq(q, d + 1, k))

\* The product of the dimensions behind d, one dimension at a time.
LEMMA LaterMore ==
  ASSUME NEW q \in Seq(Nat), NEW k \in 0..Len(q), NEW d \in 0..k
  PROVE  /\ Later(q, d, k) \in Nat /\ Later(q, k, k) = 1
         /\ d < k => Later(q, d, k) = Later(q, d, k - 1) * q[k]
  <1>0. Len(q) \in Nat /\ \A i \in 1..Len(q) : q[i] \in Nat
    BY LenProperties, ElementOfSeq
  <1>1. ASSUME NEW a \in 1..(Len(q) + 1), NEW b \in 0..Len(q), a <= b + 1
        PROVE  /\ SubSeq(q, a, b) \in Seq(Nat) /\ Len(SubSeq(q, a, b)) = (b - a) + 1
               /\ \A i \in 1..((b - a) + 1) : SubSeq(q, a, b)[i] = q[a + i - 1]
    <2>1. a \in Int /\ b \in Int /\ \A i \in a..b : q[i] \in Nat
      BY <1>0
    <2> DEFINE s == SubSeq(q, a, b)
    <2>2. /\ s \in Seq(Nat) /\ Len(s) = IF a <= b THEN b - a + 1 ELSE 0
          /\ \A i \in 1..b - a + 1 : s[i] = q[a + i - 1]
      BY <2>1, SubSeqProperties
    <2> HIDE DEF s
    <2>3. Len(s) = (b - a) + 1
      BY <1>0, <1>1, <2>2
    <2> QED BY <2>2, <2>3 DEF s
  <1>2. Later(q, d, k) \in Nat
    <2>1. d + 1 \in 1..(Len(q) + 1) /\ d + 1 <= k + 1
      BY <1>0
    <2>2. SubSeq(q, d + 1, k) \in Seq(Nat)
      BY <1>1, <2>1
    <2> QED BY <2>2, CountFound DEF Later
  <1>3. Later(q, k, k) = 1
    <2>1. SubSeq(q, k + 1, k) = <<>>
      BY <1>0
    <2> QED BY <2>1, ProductEmpty DEF Later
  <1>4. ASSUME d < k PROVE Later(q, d, k) = Later(q, d, k - 1) * q[k]
    <2> DEFINE s == SubSeq(q, d + 1, k)
               t == SubSeq(q, d + 1, k - 1)
    <2>1. d + 1 \in 1..(Len(q) + 1) /\ d + 1 <= k + 1 /\ d + 1 <= (k - 1) + 1 /\ k - 1 \in 0..Len(q)
      BY <1>0, <1>4
    <2>2. /\ s \in Seq(Nat) /\ Len(s) = (k - (d + 1)) + 1
          /\ \A i \in 1..((k - (d + 1)) + 1) : s[i] = q[(d + 1) + i - 1]
      BY <1>1, <2>1
    <2>3. /\ t \in Seq(Nat) /\ Len(t) = ((k - 1) - (d + 1)) + 1
          /\ \A i \in 1..(((k - 1) - (d + 1)) + 1) : t[i] = q[(d + 1) + i - 1]
      BY <1>1, <2>1
    <2> HIDE DEF s, t
    <2>4. Len(s) = k - d /\ Len(t) = (k - d) - 1 /\ Len(s) = Len(t) + 1
      BY <1>0, <1>4, <2>2, <2>3
    <2>5. \A i \in 1..Len(t) : s[i] = t[i]
      <3>1. ASSUME NEW i \in 1..Len(t) PROVE s[i] = t[i]
        <4>1. i \in 1..((k - (d + 1)) + 1) /\ i \in 1..(((k - 1) - (d + 1)) + 1)
          BY <1>0, <1>4, <2>4
        <4> QED BY <2>2, <2>3, <4>1
      <3> QED BY <3>1
    <2>6. s[Len(s)] = q[k]
      <3>1. Len(s) \in 1..((k - (d + 1)) + 1) /\ (d + 1) + Len(s) - 1 = k
        BY <1>0, <1>4, <2>4
      <3> QED BY <2>2, <3>1
    <2>7. Product(s) = Product(t) * s[Len(s)]
      BY <2>2, <2>3, <2>4, <2>5, ProductMore
    <2> QED BY <2>6, <2>7 DEF Later, s, t
  <1> QED BY <1>2, <1>3, <1>4

\* Where the x-th of runs of equal length n lies, and division twice.
LEMMA Blocks ==
  ASSUME NEW n \in Nat \ {0}
  PROVE  /\ \A x \in Nat : x \div n \in Nat /\ x % n \in 0..(n - 1) /\ x = n * (x \div n) + (x % n)
         /\ \A i \in Nat, r \in 0..(n - 1) : (i * n + r) \div n = i /\ (i * n + r) % n = r
         /\ \A x \in Nat, m \in Nat : x < m * n => x \div n < m
  <1>1. ASSUME NEW x \in Nat
        PROVE  x \div n \in Nat /\ x % n \in 0..(n - 1) /\ x = n * (x \div n) + (x % n)
    OBVIOUS
  <1>2. ASSUME NEW i \in Nat, NEW r \in 0..(n - 1)
        PROVE  (i * n + r) \div n = i /\ (i * n + r) % n = r
    OBVIOUS
  <1>3. ASSUME NEW x \in Nat, NEW m \in Nat, x < m * n PROVE x \div n < m
    <2> DEFINE d == x \div n
    <2>1. d \in Nat /\ n * d <= x
      BY <1>1
    <2> HIDE DEF d
    <2>2. ASSUME d >= m PROVE FALSE
      <3>1. n * d >= n * m /\ n * m = m * n /\ n * d \in Nat /\ n * m \in Nat
        BY <2>1, <2>2
      <3> QED BY <1>3, <2>1, <3>1
    <2> QED BY <2>1, <2>2 DEF d
  <1> QED BY <1>1, <1>2, <1>3

\* Division by one number and then another.
LEMMA DivTwice ==
  ASSUME NEW x \in Nat, NEW b \in Nat \ {0}, NEW c \in Nat \ {0}
  PROVE  (x \div b) \div c = x \div (c * b) /\ c * b \in Nat \ {0}
  OBVIOUS

\* The x-th of the runs extended by a dimension of n values.
Extended(runs, n, x) == Append(runs[((x - 1) \div n) + 1], ((x - 1) % n) + 1)

\* Extend lists every run with every value, the values of a run next to each other.
LEMMA ExtendIs ==
  ASSUME NEW runs \in RunLists, NEW n \in Sizes
  PROVE  /\ Extend(runs, n) = [x \in 1..(Len(runs) * n) |-> Extended(runs, n, x)]
         /\ Extend(runs, n) \in RunLists /\ Len(Extend(runs, n)) = Len(runs) * n
  <1> DEFINE m == Len(runs)
             s == [i \in 1..m |-> [v \in 1..n |-> Append(runs[i], v)]]
             G(i) == [x \in 1..(i * n) |-> Extended(runs, n, x)]
             Eq(g) == g = [i \in 1..m |-> IF i = 1 THEN s[i] ELSE g[i - 1] \o s[i]]
             f == CHOOSE g : Eq(g)
             h == [i \in 1..m |-> G(i)]
  <1>0. m \in Nat /\ n \in Nat \ {0} /\ \A i \in 1..m : runs[i] \in Seq(Nat)
    BY LenProperties, ElementOfSeq DEF RunLists, Sizes
  <1>1. Extend(runs, n) = IF m = 0 THEN s ELSE f[m]
    <2>1. Extend(runs, n) = FlattenSeq(s)
      BY DEF Extend
    <2>2. Len(s) = m
      BY <1>0
    <2>3. FlattenSeq(s) = IF Len(s) = 0 THEN s
                          ELSE (CHOOSE g : g = [i \in 1..Len(s) |->
                                                  IF i = 1 THEN s[i] ELSE g[i - 1] \o s[i]])[Len(s)]
      <3> HIDE DEF s
      <3> QED BY DEF FlattenSeq
    <2> HIDE DEF s
    <2> QED BY <2>1, <2>2, <2>3
  <1>2. ASSUME NEW i \in 0..m
        PROVE  /\ i * n \in Nat /\ G(i) \in RunLists /\ Len(G(i)) = i * n
               /\ \A x \in 1..(i * n) : Extended(runs, n, x) \in Seq(Nat)
    <2>1. i \in Nat /\ i * n \in Nat
      BY <1>0
    <2>2. ASSUME NEW x \in 1..(i * n) PROVE Extended(runs, n, x) \in Seq(Nat)
      <3>1. x - 1 \in Nat /\ x - 1 < i * n
        BY <2>1
      <3> DEFINE y == x - 1
      <3>2. (x - 1) \div n \in Nat /\ (x - 1) \div n < i /\ (x - 1) % n \in Nat
        <4>1. y \in Nat /\ y < i * n
          BY <3>1
        <4> HIDE DEF y
        <4>2. y \div n \in Nat /\ y % n \in 0..(n - 1)
          BY <1>0, <4>1, Blocks
        <4>3. y \div n < i
          BY <1>0, <2>1, <4>1, Blocks
        <4> QED BY <1>0, <4>2, <4>3 DEF y
      <3>3. ((x - 1) \div n) + 1 \in 1..m /\ ((x - 1) % n) + 1 \in Nat
        BY <1>0, <3>2
      <3>4. runs[((x - 1) \div n) + 1] \in Seq(Nat)
        BY <1>0, <3>3
      <3> QED BY <3>3, <3>4, AppendProperties DEF Extended
    <2> QED BY <2>1, <2>2 DEF RunLists
  <1>3. ASSUME NEW i \in 1..m, NEW v \in 1..n
        PROVE  /\ (i - 1) * n + v \in 1..(i * n) /\ (i - 1) * n \in Nat
               /\ Extended(runs, n, (i - 1) * n + v) = Append(runs[i], v)
    <2>1. i - 1 \in Nat /\ v - 1 \in 0..(n - 1) /\ ((i - 1) * n + v) - 1 = (i - 1) * n + (v - 1)
      BY <1>0
    <2>2. ((i - 1) * n + (v - 1)) \div n = i - 1 /\ ((i - 1) * n + (v - 1)) % n = v - 1
      BY <1>0, <2>1, Blocks
    <2>3. (i - 1) + 1 = i /\ (v - 1) + 1 = v /\ (i - 1) * n \in Nat /\ i * n = (i - 1) * n + n
      BY <1>0
    <2>4. (i - 1) * n + v \in 1..(i * n)
      <3> DEFINE k == (i - 1) * n
      <3>1. k \in Nat /\ i * n = k + n
        BY <2>3
      <3> HIDE DEF k
      <3>2. k + v \in 1..(k + n)
        BY <1>0, <3>1
      <3> QED BY <3>1, <3>2 DEF k
    <2> QED BY <2>1, <2>2, <2>3, <2>4 DEF Extended
  <1>4. ASSUME NEW i \in 1..m
        PROVE  s[i] \in RunLists /\ Len(s[i]) = n /\ \A v \in 1..n : s[i][v] = Append(runs[i], v)
    <2>1. s[i] = [v \in 1..n |-> Append(runs[i], v)]
      OBVIOUS
    <2>2. \A v \in 1..n : Append(runs[i], v) \in Seq(Nat)
      BY <1>0, AppendProperties
    <2> QED BY <1>0, <2>1, <2>2 DEF RunLists
  <1> HIDE DEF s
  <1>5. ASSUME NEW i \in 1..m PROVE G(i) = IF i = 1 THEN s[i] ELSE G(i - 1) \o s[i]
    <2> DEFINE k == (i - 1) * n
               a == G(i - 1)
               b == a \o s[i]
    <2>1. i \in 0..m /\ i - 1 \in 0..m /\ k \in Nat /\ i * n = k + n /\ k + n \in Nat
      BY <1>0
    <2>2. a \in RunLists /\ Len(a) = k
      BY <1>2, <2>1
    <2>3. \A x \in 1..k : a[x] = Extended(runs, n, x)
      OBVIOUS
    <2>4. \A v \in 1..n : s[i][v] = Extended(runs, n, k + v)
      BY <1>3, <1>4
    <2>5. G(i) = [x \in 1..(k + n) |-> Extended(runs, n, x)]
      BY <2>1
    <2> HIDE DEF k, a, G
    <2>6. b = [x \in 1..(k + n) |-> Extended(runs, n, x)]
      <3>1. b \in RunLists /\ Len(b) = k + n
            /\ \A x \in 1..(k + n) : b[x] = IF x <= k THEN a[x] ELSE s[i][x - k]
        <4> DEFINE t == s[i]
        <4>1. a \in Seq(Seq(Nat)) /\ t \in Seq(Seq(Nat)) /\ Len(t) = n
          BY <1>4, <2>2 DEF RunLists
        <4> HIDE DEF t
        <4>2. /\ a \o t \in Seq(Seq(Nat)) /\ Len(a \o t) = Len(a) + Len(t)
              /\ \A x \in 1..(Len(a) + Len(t)) :
                   (a \o t)[x] = IF x <= Len(a) THEN a[x] ELSE t[x - Len(a)]
          BY <4>1, ConcatProperties
        <4> QED BY <2>2, <4>1, <4>2 DEF RunLists, t
      <3>2. ASSUME NEW x \in 1..(k + n) PROVE b[x] = Extended(runs, n, x)
        <4>1. CASE x <= k
          <5>1. x \in 1..k
            BY <2>1, <4>1
          <5> QED BY <2>3, <3>1, <4>1, <5>1
        <4>2. CASE ~(x <= k)
          <5>1. x - k \in 1..n /\ k + (x - k) = x
            BY <1>0, <2>1, <4>2
          <5>2. s[i][x - k] = Extended(runs, n, k + (x - k))
            BY <2>4, <5>1
          <5> QED BY <3>1, <4>2, <5>1, <5>2
        <4> QED BY <4>1, <4>2
      <3> HIDE DEF b
      <3>3. b = [x \in 1..(k + n) |-> b[x]]
        <4>1. b = [x \in 1..Len(b) |-> b[x]]
          BY <3>1 DEF RunLists
        <4> QED BY <3>1, <4>1
      <3> QED BY <3>2, <3>3
    <2>7. CASE i = 1
      <3>1. k = 0
        BY <1>0, <2>7 DEF k
      <3>2. \A v \in 1..n : s[i][v] = Extended(runs, n, v)
        <4>1. \A v \in 1..n : k + v = v
          BY <1>0, <3>1
        <4> QED BY <2>4, <4>1
      <3>3. s[i] = [x \in 1..n |-> s[i][x]]
        <4>1. s[i] = [x \in 1..Len(s[i]) |-> s[i][x]]
          BY <1>4 DEF RunLists
        <4> QED BY <1>4, <4>1
      <3>4. k + n = n
        BY <1>0, <3>1
      <3> QED BY <2>5, <2>7, <3>2, <3>3, <3>4
    <2>8. CASE i # 1
      BY <2>5, <2>6, <2>8 DEF a
    <2> QED BY <2>7, <2>8
  <1>6. Extend(runs, n) = G(m)
    <2>1. CASE m = 0
      <3>1. s = [x \in 1..(0 * n) |-> Extended(runs, n, x)]
        <4>1. 1..(0 * n) = {} /\ 1..m = {}
          BY <1>0, <2>1
        <4> QED BY <4>1 DEF s
      <3> QED BY <1>1, <2>1, <3>1
    <2>2. CASE m # 0
      <3>1. Eq(h)
        <4>1. \A i \in 1..m : h[i] = G(i)
          OBVIOUS
        <4>2. \A i \in 1..m : i # 1 => i - 1 \in 1..m
          BY <1>0
        <4>3. h = [i \in 1..m |-> h[i]]
          OBVIOUS
        <4> HIDE DEF h, G
        <4>4. \A i \in 1..m : h[i] = IF i = 1 THEN s[i] ELSE h[i - 1] \o s[i]
          BY <1>5, <4>1, <4>2
        <4> QED BY <4>3, <4>4
      <3>2. Eq(f)
        <4> HIDE DEF Eq
        <4> QED BY <3>1
      <3> HIDE DEF f, h
      <3>3. \A i \in 1..m : f[i] = IF i = 1 THEN s[i] ELSE f[i - 1] \o s[i]
        BY <3>2
      <3> HIDE DEF Eq, G
      <3> DEFINE T == {i \in 0..m : i # 0 => f[i] = G(i)}
      <3>4. 0 \in T
        BY <1>0
      <3>5. ASSUME NEW i \in 1..m, i - 1 \in T PROVE i \in T
        <4>1. i \in 0..m /\ (i = 1 \/ i - 1 # 0)
          BY <1>0
        <4>2. i # 1 => f[i - 1] = G(i - 1)
          BY <3>5, <4>1
        <4>3. f[i] = G(i)
          BY <1>5, <3>3, <4>2
        <4> QED BY <4>1, <4>3
      <3>6. m \in T
        <4>1. \A i \in 0..m : i \in T
          <5> HIDE DEF T, m
          <5> QED BY <1>0, <3>4, <3>5, InductUpTo
        <4>2. m \in 0..m
          BY <1>0
        <4> QED BY <4>1, <4>2
      <3> QED BY <1>1, <2>2, <3>6
    <2> QED BY <2>1, <2>2
  <1>7. G(m) \in RunLists /\ Len(G(m)) = m * n
    <2>1. m \in 0..m
      BY <1>0
    <2> HIDE DEF G
    <2> QED BY <1>2, <2>1
  <1> QED BY <1>6, <1>7

\* Extend makes lists of runs.
LEMMA ExtendType ==
  ASSUME NEW runs \in RunLists, NEW n \in Sizes
  PROVE  Extend(runs, n) \in RunLists
  BY ExtendIs

\* The loop that extends the runs by one dimension after the other.
LEMMA RunsSteps ==
  ASSUME NEW q \in Seq(Sizes)
  PROVE  \E h \in [0..Len(q) -> RunLists] :
           /\ h[0] = << <<>> >> /\ h[Len(q)] = FoldLeft(Extend, << <<>> >>, q)
           /\ \A k \in 1..Len(q) : h[k] = Extend(h[k - 1], q[k])
  <1> DEFINE n == Len(q)
             V == RunLists
             base == << <<>> >>
             Step(v, k) == Extend(v, q[k])
             Eq(g) == g = [s \in SUBSET DOMAIN q |->
                             IF s = {} THEN base
                             ELSE Step(g[s \ {Max(s)}], Max(s))]
             f == CHOOSE g : Eq(g)
             step == [k \in 1..n |-> [v \in V |-> Step(v, k)]]
  <1>1. FoldLeft(Extend, << <<>> >>, q) = f[DOMAIN q]
    BY DEF FoldLeft, MapThenFoldSet
  <1>2. n \in Nat /\ DOMAIN q = 1..n /\ base \in V
        /\ \A k \in 1..n, v \in V : Step(v, k) \in V
    <2>1. n \in Nat /\ DOMAIN q = 1..n /\ \A k \in 1..n : q[k] \in Sizes
      BY LenProperties, ElementOfSeq
    <2>2. base \in V
      BY DEF RunLists
    <2>3. \A k \in 1..n, v \in V : Step(v, k) \in V
      BY <2>1, ExtendType
    <2> QED BY <2>1, <2>2, <2>3
  <1> HIDE DEF n, V, base, Step
  <1>3. step \in [1..n -> [V -> V]] /\ \A v \in V, k \in 1..n : step[k][v] = Step(v, k)
    BY <1>2
  <1> HIDE DEF step
  <1>4. \A s \in SUBSET (1..n) : s # {} => Max(s) \in 1..n /\ s \ {Max(s)} \in SUBSET (1..n)
    BY <1>2, Largest
  <1>5. PICK g \in [SUBSET (1..n) -> V] : IsFold(g, n, base, step)
    BY <1>2, <1>3, FoldExists
  <1>6. ASSUME NEW s \in SUBSET (1..n), s # {}
        PROVE  g[s] = Step(g[s \ {Max(s)}], Max(s))
    <2>1. Max(s) \in 1..n /\ g[s \ {Max(s)}] \in V
      BY <1>4, <1>6
    <2>2. g[s] = step[Max(s)][g[s \ {Max(s)}]]
      BY <1>5, <1>6 DEF IsFold
    <2> QED BY <1>3, <2>1, <2>2
  <1>7. g[{}] = base
    BY <1>5 DEF IsFold
  <1>8. Eq(g)
    BY <1>2, <1>6, <1>7
  <1>9. Eq(f)
    BY <1>8
  <1> HIDE DEF f
  <1>10. \A s \in SUBSET (1..n) :
           f[s] = IF s = {} THEN base ELSE Step(f[s \ {Max(s)}], Max(s))
    BY <1>2, <1>9
  <1> HIDE DEF Eq
  <1>11. IsFoldOn(f, n, V, base, step)
    BY <1>3, <1>4, <1>10 DEF IsFoldOn
  <1>12. PICK h \in [0..n -> V] : IsChain(h, n, base, step, f[1..n])
    BY <1>2, <1>3, <1>11, FoldChain
  <1>13. ASSUME NEW k \in 1..n PROVE h[k] = Step(h[k - 1], k)
    <2>1. h[k - 1] \in V /\ h[k] = step[k][h[k - 1]]
      <3>1. k - 1 \in 0..n
        BY <1>2
      <3> QED BY <1>12, <3>1 DEF IsChain
    <2> QED BY <1>3, <2>1
  <1>14. h[0] = base /\ h[n] = f[DOMAIN q]
    BY <1>2, <1>12 DEF IsChain
  <1> QED BY <1>1, <1>13, <1>14 DEF n, V, base, Step

\* A grid with an empty dimension has no runs.
LEMMA FactorsCount ==
  ASSUME NEW q \in Seq(Nat), Product(q) # 0
  PROVE  \A i \in 1..Len(q) : q[i] # 0
  <1> DEFINE n == Len(q)
  <1>0. n \in Nat /\ \A k \in 1..n : q[k] \in Nat
    BY LenProperties, ElementOfSeq
  <1>1. PICK p \in [0..n -> Nat] :
          p[0] = 1 /\ p[n] = Product(q) /\ \A k \in 1..n : p[k] = p[k - 1] * q[k]
    BY ProductSteps
  <1> DEFINE T == {k \in 0..n : \A i \in 1..k : q[i] = 0 => p[k] = 0}
  <1>2. 0 \in T
    BY <1>0
  <1>3. ASSUME NEW k \in 1..n, k - 1 \in T PROVE k \in T
    <2>1. k \in 0..n /\ k - 1 \in 0..n /\ p[k] = p[k - 1] * q[k] /\ p[k - 1] \in Nat /\ q[k] \in Nat
      <3>1. k \in 0..n /\ k - 1 \in 0..n
        BY <1>0
      <3> QED BY <1>0, <1>1, <3>1
    <2>2. ASSUME NEW i \in 1..k, q[i] = 0 PROVE p[k] = 0
      <3>1. CASE i = k
        BY <2>1, <2>2, <3>1
      <3>2. CASE i # k
        <4>1. i \in 1..(k - 1)
          BY <1>0, <3>2
        <4>2. p[k - 1] = 0
          BY <1>3, <2>2, <4>1
        <4> QED BY <2>1, <4>2
      <3> QED BY <3>1, <3>2
    <2> QED BY <2>1, <2>2
  <1>4. \A k \in 0..n : k \in T
    <2> HIDE DEF T, n
    <2> QED BY <1>0, <1>2, <1>3, InductUpTo
  <1>5. n \in 0..n
    BY <1>0
  <1> QED BY <1>1, <1>4, <1>5

\* The runs of the first k dimensions.
RunsOf(q, k) ==
  [i \in 1..Later(q, 0, k) |->
     [d \in 1..k |-> (((i - 1) \div Later(q, d, k)) % q[d]) + 1]]

\* Dimensions without values make no runs, others at least one.
LEMMA LaterPositive ==
  ASSUME NEW q \in Seq(Sizes), NEW k \in 0..Len(q)
  PROVE  \A d \in 0..k : Later(q, d, k) \in Sizes
  <1>0. Len(q) \in Nat /\ \A i \in 1..Len(q) : q[i] \in Nat \ {0}
    BY LenProperties, ElementOfSeq DEF Sizes
  <1>1. q \in Seq(Nat)
    BY DEF Sizes
  <1> SUFFICES ASSUME NEW d \in 0..Len(q)
               PROVE  \A b \in 0..Len(q) : d <= b => Later(q, d, b) \in Sizes
    BY <1>0
  <1> DEFINE T == {b \in 0..Len(q) : d <= b => Later(q, d, b) \in Sizes}
  <1>2. 0 \in T
    <2>1. Later(q, 0, 0) = 1 /\ 0 \in 0..Len(q)
      BY <1>0, <1>1, LaterMore
    <2>2. d <= 0 => d = 0
      BY <1>0
    <2> QED BY <2>1, <2>2 DEF Sizes
  <1>3. ASSUME NEW b \in 1..Len(q), b - 1 \in T PROVE b \in T
    <2>1. b \in 0..Len(q) /\ b - 1 \in 0..Len(q) /\ q[b] \in Nat \ {0}
      BY <1>0
    <2>2. CASE d = b
      <3>1. Later(q, b, b) = 1
        BY <1>1, <2>1, LaterMore
      <3> QED BY <2>1, <2>2, <3>1 DEF Sizes
    <2>3. CASE d < b
      <3>1. d \in 0..b /\ d <= b - 1
        BY <1>0, <2>3
      <3>2. Later(q, d, b) = Later(q, d, b - 1) * q[b]
        BY <1>1, <2>1, <2>3, <3>1, LaterMore
      <3>3. Later(q, d, b - 1) \in Nat \ {0}
        BY <1>3, <3>1 DEF Sizes
      <3>4. Later(q, d, b) \in Nat \ {0}
        BY <2>1, <3>2, <3>3
      <3> QED BY <2>1, <3>4 DEF Sizes
    <2>4. CASE b < d
      BY <1>0, <2>1, <2>4
    <2> QED BY <1>0, <2>1, <2>2, <2>3, <2>4
  <1>4. \A b \in 0..Len(q) : b \in T
    <2> HIDE DEF T
    <2> QED BY <1>0, <1>2, <1>3, InductUpTo
  <1> QED BY <1>4

\* One more dimension.
LEMMA RunsMore ==
  ASSUME NEW q \in Seq(Sizes), NEW k \in 1..Len(q), RunsOf(q, k - 1) \in RunLists
  PROVE  Extend(RunsOf(q, k - 1), q[k]) = RunsOf(q, k)
  <1> DEFINE n == q[k]
             old == RunsOf(q, k - 1)
             m == Later(q, 0, k - 1)
  <1>0. Len(q) \in Nat /\ \A i \in 1..Len(q) : q[i] \in Nat \ {0}
    BY LenProperties, ElementOfSeq DEF Sizes
  <1>1. q \in Seq(Nat) /\ k - 1 \in 0..Len(q) /\ k \in 0..Len(q) /\ n \in Nat \ {0}
    BY <1>0 DEF Sizes
  <1>2. m \in Nat \ {0} /\ Later(q, 0, k) = m * n
    <2>1. m \in Nat \ {0}
      <3>1. 0 \in 0..(k - 1)
        OBVIOUS
      <3> QED BY <1>1, <3>1, LaterPositive DEF Sizes
    <2>2. 0 \in 0..k /\ 0 < k
      OBVIOUS
    <2> QED BY <1>1, <2>1, <2>2, LaterMore
  <1>3. Len(old) = m
    BY <1>2 DEF RunsOf
  <1>4. Extend(old, n) = [x \in 1..(m * n) |-> Extended(old, n, x)]
    <2> HIDE DEF old, n, m
    <2> QED BY <1>1, <1>3, ExtendIs DEF old, Sizes
  <1>5. ASSUME NEW x \in 1..(m * n)
        PROVE  Extended(old, n, x) = [d \in 1..k |-> (((x - 1) \div Later(q, d, k)) % q[d]) + 1]
    <2> DEFINE y == x - 1
               z == y \div n
               run == [d \in 1..(k - 1) |-> ((z \div Later(q, d, k - 1)) % q[d]) + 1]
               new == [d \in 1..k |-> ((y \div Later(q, d, k)) % q[d]) + 1]
    <2>1. y \in Nat /\ y < m * n
      BY <1>1, <1>2
    <2> HIDE DEF y
    <2>2. z \in Nat /\ z < m /\ y % n \in 0..(n - 1)
      BY <1>1, <1>2, <2>1, Blocks
    <2> HIDE DEF z
    <2>3. old[z + 1] = run
      <3>1. z + 1 \in 1..m /\ (z + 1) - 1 = z
        BY <1>2, <2>2
      <3> HIDE DEF m
      <3> QED BY <3>1 DEF RunsOf, m
    <2>4. run \in Seq(Nat) /\ Len(run) = k - 1
      <3>1. ASSUME NEW d \in 1..(k - 1)
            PROVE  ((z \div Later(q, d, k - 1)) % q[d]) + 1 \in Nat
        <4> DEFINE l == Later(q, d, k - 1)
                   w == z \div l
        <4>1. d \in 0..(k - 1) /\ d \in 1..Len(q)
          BY <1>0
        <4>2. l \in Nat \ {0} /\ q[d] \in Nat \ {0}
          BY <1>0, <1>1, <4>1, LaterPositive DEF Sizes
        <4> HIDE DEF l
        <4>3. w \in Nat
          BY <2>2, <4>2, Blocks
        <4> HIDE DEF w
        <4>4. w % q[d] \in 0..(q[d] - 1)
          BY <4>2, <4>3, Blocks
        <4>5. (w % q[d]) + 1 \in Nat
          BY <4>2, <4>4
        <4> QED BY <4>5 DEF w, l
      <3>2. k - 1 \in Nat
        OBVIOUS
      <3> QED BY <3>1, <3>2
    <2>5. ASSUME NEW d \in 1..(k - 1) PROVE run[d] = new[d]
      <3> DEFINE l == Later(q, d, k - 1)
      <3>1. d \in 0..(k - 1) /\ d \in 0..k /\ d < k /\ d \in 1..k
        OBVIOUS
      <3>2. l \in Nat \ {0} /\ Later(q, d, k) = l * n
        BY <1>1, <3>1, LaterPositive, LaterMore DEF Sizes
      <3> HIDE DEF l
      <3>3. z \div l = y \div (l * n)
        BY <1>1, <2>1, <3>2, DivTwice DEF z
      <3>4. run[d] = ((z \div l) % q[d]) + 1
        BY DEF l
      <3>5. new[d] = ((y \div (l * n)) % q[d]) + 1
        BY <3>1, <3>2
      <3> HIDE DEF run, new
      <3> QED BY <3>3, <3>4, <3>5
    <2>6. new[k] = (y % n) + 1
      <3>1. Later(q, k, k) = 1 /\ y \div 1 = y
        BY <1>1, <2>1, LaterMore
      <3>2. k \in 1..k
        OBVIOUS
      <3> QED BY <3>1, <3>2
    <2>7. Append(run, (y % n) + 1) = new
      <3> DEFINE a == Append(run, (y % n) + 1)
      <3>1. (y % n) + 1 \in Nat
        BY <1>1, <2>2
      <3> HIDE DEF run
      <3>2. /\ a \in Seq(Nat) /\ Len(a) = k
            /\ \A d \in 1..(k - 1) : a[d] = run[d]
            /\ a[k] = (y % n) + 1
        <4>1. (k - 1) + 1 = k
          OBVIOUS
        <4> QED BY <2>4, <3>1, <4>1, AppendProperties
      <3> HIDE DEF a, new
      <3>3. \A d \in 1..k : a[d] = new[d]
        <4>1. \A d \in 1..k : d = k \/ d \in 1..(k - 1)
          OBVIOUS
        <4> QED BY <2>5, <2>6, <3>2, <4>1
      <3>4. a = [d \in 1..k |-> a[d]]
        <4>1. a = [d \in 1..Len(a) |-> a[d]]
          BY <3>2
        <4> QED BY <3>2, <4>1
      <3>5. new = [d \in 1..k |-> new[d]]
        BY DEF new
      <3>6. a = new
        BY <3>3, <3>4, <3>5, Zenon
      <3> QED BY <3>6 DEF a
    <2>8. Extended(old, n, x) = Append(run, (y % n) + 1)
      <3> HIDE DEF run, old
      <3> QED BY <2>3 DEF Extended, y, z
    <2> QED BY <2>7, <2>8 DEF y
  <1> HIDE DEF n, m, old
  <1>6. [x \in 1..(m * n) |-> Extended(old, n, x)] = RunsOf(q, k)
    BY <1>2, <1>5 DEF RunsOf
  <1> QED BY <1>4, <1>6 DEF old, n

\* The runs of a grid.
LEMMA RunsFound ==
  ASSUME NEW q \in Seq(Sizes)
  PROVE  FoldLeft(Extend, << <<>> >>, q) = RunsOf(q, Len(q))
  <1> DEFINE n == Len(q)
  <1>0. n \in Nat /\ \A k \in 1..n : q[k] \in Sizes
    BY LenProperties, ElementOfSeq
  <1>1. PICK h \in [0..n -> RunLists] :
          /\ h[0] = << <<>> >> /\ h[n] = FoldLeft(Extend, << <<>> >>, q)
          /\ \A k \in 1..n : h[k] = Extend(h[k - 1], q[k])
    BY RunsSteps
  <1> DEFINE T == {k \in 0..n : h[k] = RunsOf(q, k)}
  <1>2. 0 \in T
    <2>1. q \in Seq(Nat) /\ 0 \in 0..n
      BY <1>0 DEF Sizes
    <2>2. Later(q, 0, 0) = 1
      BY <2>1, LaterMore
    <2>3. RunsOf(q, 0) = << <<>> >>
      BY <2>2 DEF RunsOf
    <2> QED BY <1>1, <2>1, <2>3
  <1>3. ASSUME NEW k \in 1..n, k - 1 \in T PROVE k \in T
    <2>1. k \in 0..n /\ k - 1 \in 0..n /\ h[k - 1] \in RunLists /\ h[k - 1] = RunsOf(q, k - 1)
      BY <1>0, <1>3
    <2>2. Extend(RunsOf(q, k - 1), q[k]) = RunsOf(q, k)
      BY <2>1, RunsMore
    <2> QED BY <1>1, <2>1, <2>2
  <1>4. \A k \in 0..n : k \in T
    <2> HIDE DEF T, n
    <2> QED BY <1>0, <1>2, <1>3, InductUpTo
  <1>5. n \in 0..n
    BY <1>0
  <1> QED BY <1>1, <1>4, <1>5

\* When a sweep should be accepted, and the runs it should have.
SweepKeeps(sweep, q) ==
  /\ Product(q) \in 1..RunLimit /\ Product(q) * Estimate(sweep) <= ByteLimit
  /\ \A d \in 1..Len(sweep.grid) : sweep.grid[d].key > 0
  /\ RunsValid(sweep)

Combinations(q) ==
  [i \in 1..Product(q) |->
     [d \in 1..Len(q) |->
        (((i - 1) \div Product(SubSeq(q, d + 1, Len(q)))) % q[d]) + 1]]

\* expand_sweep: what a sweep is refused for, and the runs of an accepted one.
LEMMA SweepIsExpanded ==
  ASSUME NEW sweep \in Sweeps, NEW q, q = Widths(sweep.grid)
  PROVE  /\ ExpandSweep(sweep).ok <=> SweepKeeps(sweep, q)
         /\ ExpandSweep(sweep).ok => ExpandSweep(sweep).runs = Combinations(q)
  <1>0. /\ q \in Seq(Nat) /\ DOMAIN sweep.grid = 1..Len(sweep.grid)
        /\ Len(q) \in Nat /\ DOMAIN q = 1..Len(q) /\ \A i \in 1..Len(q) : q[i] \in Nat
    BY SweepGrid, LenProperties, ElementOfSeq
  <1>1. ExpandSweep(sweep).ok <=> SweepKeeps(sweep, q)
    <2>1. /\ CountTo(q).ok <=> Product(q) \in 1..RunLimit
          /\ CountTo(q).ok => CountTo(q).count = Product(q)
      BY <1>0, CountFound
    <2>2. Product(q) \in 1..RunLimit =>
            (Estimate(sweep) <= ByteLimit \div Product(q)
               <=> Product(q) * Estimate(sweep) <= ByteLimit)
      <3>1. Product(q) \in Nat /\ Estimate(sweep) \in Nat /\ ByteLimit \in Nat
        BY <1>0, CountFound, EstimateCounts, FunctionsAssumption
      <3> QED BY <3>1, BytesFit
    <2>3. ExpandSweep(sweep).ok <=>
            /\ \A d \in 1..Len(sweep.grid) : sweep.grid[d].key > 0
            /\ CountTo(q).ok /\ Estimate(sweep) <= ByteLimit \div CountTo(q).count
            /\ RunsValid(sweep)
      BY <1>0 DEF ExpandSweep, Rejected
    <2> QED BY <2>1, <2>2, <2>3 DEF SweepKeeps
  <1>2. ASSUME ExpandSweep(sweep).ok
        PROVE  ExpandSweep(sweep).runs = Combinations(q)
    <2>1. ExpandSweep(sweep).runs = FoldLeft(Extend, << <<>> >>, q)
      BY <1>2 DEF ExpandSweep, Rejected
    <2>2. q \in Seq(Sizes)
      <3>1. \A i \in 1..Len(q) : q[i] # 0
        BY <1>0, <1>1, <1>2, FactorsCount DEF SweepKeeps
      <3>2. q \in Seq(Nat) /\ \A i \in 1..Len(q) : q[i] \in Sizes
        BY <1>0, <3>1 DEF Sizes
      <3> QED BY <1>0, <3>2
    <2>3. Later(q, 0, Len(q)) = Product(q)
      <3> DEFINE l == Len(q)
      <3>1. SubSeq(q, 1, l) = q /\ 0 + 1 = 1
        BY <1>0
      <3>2. SubSeq(q, 0 + 1, l) = q
        BY <3>1
      <3> HIDE DEF l
      <3>3. Later(q, 0, l) = Product(q)
        BY <3>2 DEF Later
      <3> QED BY <3>3 DEF l
    <2>4. FoldLeft(Extend, << <<>> >>, q) = RunsOf(q, Len(q))
      BY <2>2, RunsFound
    <2> QED BY <2>1, <2>3, <2>4 DEF RunsOf, Later, Combinations
  <1> QED BY <1>1, <1>2

-----------------------------------------------------------------------------
(* All of them *)

InputOK ==
  \/ input.kind = "spec" /\ input.in \in SpecBodies
  \/ input.kind = "sweep" /\ input.in \in Sweeps
  \/ input.kind = "path" /\ input.in \in PathsIn
  \/ input.kind = "environment" /\ input.in \in Environments
  \/ input.kind = "pod" /\ input.in \in Pods
  \/ input.kind = "delay" /\ input.in \in Delays

ResultOK ==
  \/ result.kind = "none"
  \/ result.kind = "spec" /\ result.in \in SpecBodies /\ result.out = SubmitSpec(result.in)
  \/ result.kind = "sweep" /\ result.in \in Sweeps /\ result.out = ExpandSweep(result.in)
  \/ /\ result.kind = "path" /\ result.in \in PathsIn
     /\ result.out = ValidateRelativePath(result.in)
  \/ /\ result.kind = "environment" /\ result.in \in Environments
     /\ result.out = WorkloadEnvironment(result.in)
  \/ result.kind = "pod" /\ result.in \in Pods /\ result.out = PodGpuRequest(result.in)
  \/ result.kind = "delay" /\ result.in \in Delays /\ result.out = RetryDelay(result.in)

\* Specifications against their reference.
LEMMA SpecMeets == ASSUME ResultOK PROVE SpecKept
  <1> SUFFICES ASSUME result.kind = "spec", result.out.ok
               PROVE  /\ result.out.read.fields = result.out.asked.fields
                      /\ result.out.read.parameter.mag = result.out.asked.parameter.mag
                      /\ result.out.again = [ok |-> TRUE, spec |-> result.out.read]
    BY DEF SpecKept
  <1>1. result.in \in SpecBodies /\ result.out = SubmitSpec(result.in)
    BY DEF ResultOK
  <1> QED BY <1>1, SpecIsKept

\* Sweeps against their reference.
LEMMA SweepMeets == ASSUME ResultOK PROVE SweepExpanded
  <1> SUFFICES ASSUME result.kind = "sweep" PROVE SweepExpanded
    BY DEF SweepExpanded
  <1>1. PICK sweep \in Sweeps : sweep = result.in /\ result.out = ExpandSweep(sweep)
    BY DEF ResultOK
  <1>2. PICK q : q = Widths(sweep.grid) /\ Len(q) = Len(sweep.grid)
    BY SweepGrid
  <1>3. /\ ExpandSweep(sweep).ok <=> SweepKeeps(sweep, q)
        /\ ExpandSweep(sweep).ok => ExpandSweep(sweep).runs = Combinations(q)
    BY <1>2, SweepIsExpanded
  <1>4. /\ result.out.ok <=> SweepKeeps(sweep, q)
        /\ result.out.ok => result.out.runs = Combinations(q)
    BY <1>1, <1>3
  <1> QED BY <1>1, <1>2, <1>4, Zenon DEF SweepExpanded, SweepKeeps, Combinations

\* Paths against their reference.
LEMMA PathMeets == ASSUME ResultOK PROVE PathsSafe
  <1> SUFFICES ASSUME result.kind = "path" PROVE PathsSafe
    BY DEF PathsSafe
  <1>1. result.in \in PathsIn /\ result.out = ValidateRelativePath(result.in)
    BY DEF ResultOK
  <1>2. result.in \in Seq(Letters)
    <2>1. MaxPath \in Nat
      BY FunctionsAssumption
    <2> QED BY <1>1, <2>1, BoundedSeqs DEF PathsIn
  <1> DEFINE p == result.in
  <1>3. ValidateRelativePath(p) <=> PartsOk(p, 0)
    BY <1>2, PathIsSafe
  <1>4. PartsOk(p, 0) <=>
          \A i, j \in 0..(Len(p) + 1) :
            i < j /\ Cut(p, i) /\ Cut(p, j) /\ (\A k \in (i + 1)..(j - 1) : ~Cut(p, k))
              => PartOk(SubSeq(p, i + 1, j - 1))
    <2>1. \A i \in 0..(Len(p) + 1) : 0 <= i
      OBVIOUS
    <2> HIDE DEF p
    <2> QED BY <2>1 DEF PartsOk, Between
  <1> QED BY <1>1, <1>3, <1>4 DEF PathsSafe, Cut

\* Environments against their reference.
LEMMA EnvironmentMeets == ASSUME ResultOK PROVE AllocationWins
  <1> SUFFICES ASSUME result.kind = "environment" PROVE AllocationWins
    BY DEF AllocationWins
  <1>1. result.in \in Environments /\ result.out = WorkloadEnvironment(result.in)
    BY DEF ResultOK
  <1> QED BY <1>1, EnvironmentHeld DEF AllocationWins

\* GPU requests of Pods against their reference.
LEMMA PodMeets == ASSUME ResultOK PROVE RequestIsPeak
  <1> SUFFICES ASSUME result.kind = "pod" PROVE RequestIsPeak
    BY DEF RequestIsPeak
  <1> DEFINE pod == result.in
             q == pod.inits
  <1>1. pod \in Pods /\ result.out = PodGpuRequest(pod)
    BY DEF ResultOK
  <1>2. /\ pod.containers \in Seq(Nat) /\ q \in Seq(InitContainers) /\ pod.overhead \in Nat
    <2>1. GpuCounts \subseteq Nat /\ 2 \in Nat /\ 3 \in Nat
      BY FunctionsAssumption
    <2>2. [count : GpuCounts, always : BOOLEAN] \subseteq InitContainers
      BY <2>1 DEF InitContainers
    <2>3. /\ pod.containers \in BoundedSeq(GpuCounts, 2) /\ pod.overhead \in {0, 1}
          /\ q \in BoundedSeq([count : GpuCounts, always : BOOLEAN], 3)
      BY <1>1 DEF Pods
    <2>4. pod.containers \in Seq(Nat)
      BY <2>1, <2>3, BoundedSeqs
    <2> HIDE DEF q
    <2>5. q \in Seq(InitContainers)
      BY <2>1, <2>2, <2>3, BoundedSeqs
    <2> QED BY <2>3, <2>4, <2>5
  <1>3. Len(q) \in Nat /\ DOMAIN q = 1..Len(q) /\ (Len(q) + 1) - 1 = Len(q)
    BY <1>2, LenProperties
  <1>4. result.out =
          pod.overhead
            + Max({CountsOf(q, Staying(q, Len(q))) + TotalOf(pod.containers, DOMAIN pod.containers)}
                    \cup {During(q, i) : i \in DOMAIN q})
    BY <1>1, <1>2, RequestFound
  <1>5. Staying(q, Len(q)) = {j \in 1..((Len(q) + 1) - 1) : q[j].always}
    BY <1>3 DEF Staying
  <1>6. result.out =
          pod.overhead
            + Max({CountsOf(q, {j \in 1..((Len(q) + 1) - 1) : q[j].always})
                     + TotalOf(pod.containers, DOMAIN pod.containers)}
                    \cup {During(q, i) : i \in DOMAIN q})
    <2> HIDE DEF pod, q
    <2> QED BY <1>4, <1>5
  <1> QED BY <1>6 DEF RequestIsPeak, CountsOf, TotalOf, During, Staying

\* Retry delays against their reference.
LEMMA DelayMeets == ASSUME ResultOK PROVE DelayDoubles
  <1> SUFFICES ASSUME result.kind = "delay" PROVE DelayDoubles
    BY DEF DelayDoubles
  <1>1. result.in \in Delays /\ result.out = RetryDelay(result.in)
    BY DEF ResultOK
  <1> QED BY <1>1, FunctionsAssumption, DelayIsDoubled DEF DelayDoubles

\* For every limit, every set of sizes and counts and every length of paths,
\* each function of a run specification computes what its reference says: a
\* specification is read back as it was accepted, a sweep is refused exactly
\* when it is empty or too large and else makes all combinations in order,
\* exactly the paths without an empty, "." or ".." component are accepted, the
\* allocation decides which GPUs a workload sees, a Pod asks for the most GPUs
\* it ever holds, and the delay of a retry doubles up to its cap (json.cpp,
\* model.cpp, environment.cpp, kubernetes_resources.cpp).
THEOREM FunctionsAreRight == FunctionsSpec => []FunctionsMeetReferences
  <1> DEFINE IInv == InputOK /\ ResultOK
  <1>1. FunctionsInit => IInv
    BY DEF FunctionsInit, InputOK, ResultOK
  <1>2. IInv /\ [FunctionsNext]_functionVars => IInv'
    <2> SUFFICES ASSUME InputOK, ResultOK, [FunctionsNext]_functionVars PROVE IInv'
      OBVIOUS
    <2>1. CASE Compute("spec", SubmitSpec)
      BY <2>1 DEF Compute, InputOK, ResultOK
    <2>2. CASE Compute("sweep", ExpandSweep)
      BY <2>2 DEF Compute, InputOK, ResultOK
    <2>3. CASE Compute("path", ValidateRelativePath)
      BY <2>3 DEF Compute, InputOK, ResultOK
    <2>4. CASE Compute("environment", WorkloadEnvironment)
      BY <2>4 DEF Compute, InputOK, ResultOK
    <2>5. CASE Compute("pod", PodGpuRequest)
      BY <2>5 DEF Compute, InputOK, ResultOK
    <2>6. CASE Compute("delay", RetryDelay)
      BY <2>6 DEF Compute, InputOK, ResultOK
    <2>7. CASE UNCHANGED functionVars
      BY <2>7 DEF functionVars, InputOK, ResultOK
    <2> QED BY <2>1, <2>2, <2>3, <2>4, <2>5, <2>6, <2>7 DEF FunctionsNext
  <1>3. IInv => FunctionsMeetReferences
    BY SpecMeets, SweepMeets, PathMeets, EnvironmentMeets, PodMeets, DelayMeets
       DEF FunctionsMeetReferences
  <1> QED BY <1>1, <1>2, <1>3, PTL DEF FunctionsSpec
=============================================================================
