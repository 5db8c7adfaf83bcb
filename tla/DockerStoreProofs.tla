-------------------------- MODULE DockerStoreProofs --------------------------
(***************************************************************************)
(* The store of a Docker deployment implements AttemptStore for any number *)
(* of workers, agents and devices: what workers.cpp and gpus.cpp decide    *)
(* only restricts when attempts are placed and cleaned up.                 *)
(***************************************************************************)
EXTENDS DockerStore, AttemptStoreProofs, DataLemmas

\* Each call of an agent is a transaction of the store or leaves its rows
\* alone.
LEMMA AgentImplements ==
  ASSUME DockerAssumption, NEW g \in Agents, Agent(g)
  PROVE  [Next]_storeVars
  <1> DEFINE w == WorkerOf(g)
  <1>1. w \in Workers
    BY DEF DockerAssumption, WorkerOf
  <1>2. CASE RegisterWorker(g)
    BY <1>2 DEF RegisterWorker
  <1>3. CASE WorkerHeartbeat(g)
    BY <1>3 DEF WorkerHeartbeat
  <1>4. ASSUME NEW n, NEW ready, NEW found, NEW eligible,
               ReportGpuInventory(g, n, ready, found, eligible)
        PROVE  [Next]_storeVars
    BY <1>4 DEF ReportGpuInventory
  <1>5. ASSUME NEW r \in Runs, NEW a \in AttemptIds, Assign(g, r, a)
        PROVE  [Next]_storeVars
    <2>1. Place(r, a, w)
      BY <1>5 DEF Assign
    <2> QED BY <1>1, <2>1 DEF Next
  <1>6. ASSUME NEW a \in AttemptIds, ReportRuntime(g, a)
        PROVE  [Next]_storeVars
    BY <1>6 DEF ReportRuntime
  <1>7. ASSUME NEW a \in AttemptIds, ReportStopped(g, a)
        PROVE  [Next]_storeVars
    <2>1. CleanupDone(a)
      BY <1>7 DEF ReportStopped, CleanupDone
    <2> QED BY <2>1 DEF Next
  <1> QED BY <1>2, <1>3, <1>4, <1>5, <1>6, <1>7 DEF Agent

\* The Docker store implements the attempt store: registrations, inventory
\* and draining change none of its rows, assign only places queued runs and
\* runtime_report only confirms the cleanup of attempts that are over.
THEOREM DockerImplementsStore == DockerSpec => ImplementsAttemptStore
  <1> USE DockerAssumption
  <1>1. DockerInit => Init
    BY DEF DockerInit
  <1>2. [DockerNext]_vars => [Next]_storeVars
    <2> SUFFICES ASSUME [DockerNext]_vars
                 PROVE  [Next]_storeVars
      OBVIOUS
    <2>1. ASSUME NEW w \in Workers, NEW drained \in BOOLEAN, DrainWorker(w, drained)
          PROVE  [Next]_storeVars
      BY <2>1 DEF DrainWorker
    <2>2. ASSUME NEW w \in Workers, WorkerLapses(w) \/ InventoryLapses(w)
          PROVE  [Next]_storeVars
      BY <2>2 DEF WorkerLapses, InventoryLapses
    <2>3. CASE Unplaced
      BY <2>3 DEF Unplaced, Next
    <2>4. CASE UNCHANGED vars
      BY <2>4 DEF vars, storeVars
    <2> QED BY <2>1, <2>2, <2>3, <2>4, AgentImplements DEF DockerNext
  <1> QED BY <1>1, <1>2, PTL DEF DockerSpec, ImplementsAttemptStore, Spec

\* Hence a run of a Docker deployment never has two executing attempts, and
\* its attempts are tried again only as its retry policy says.
THEOREM DockerConsistent == DockerSpec => []StoreInv
  BY DockerImplementsStore, StoreConsistent, PTL DEF ImplementsAttemptStore

\* And what the coordinator has told is kept, whatever agents, workers and
\* GPUs do: one claimant, accepted completions, final decisions and leases, an
\* honest log, and the lifecycle clients are told about (ownership.cpp,
\* recovery.cpp, control.cpp).
THEOREM DockerKeepsHistory ==
  DockerSpec => /\ [](SingleClaimant /\ AcceptedIsRecorded /\ EventsTellStatus)
                /\ OutcomeIsFinal /\ ExpiredLeaseIsFinal
                /\ ImplementsLifecycle
  BY DockerImplementsStore, OneClaimant, AcceptedStays, EventsTell, DecisionsAreFinal,
     ExpiredStays, StoreRefinesLifecycle, PTL DEF ImplementsAttemptStore

-----------------------------------------------------------------------------
(* Devices *)

AllocationOK == allocation \in [AttemptIds -> [uuids : SUBSET Devices, released : BOOLEAN]]

\* assign reserves free devices only, so nobody else holds them.
LEMMA AssignExclusive ==
  ASSUME AllocationOK, GpuExclusive, NEW g \in Agents, NEW r \in Runs,
         NEW a \in AttemptIds, Assign(g, r, a)
  PROVE  AllocationOK' /\ GpuExclusive'
  <1> DEFINE chosen == FirstOf(FreeGpus(WorkerOf(g)), run[r].spec.gpu_count)
  <1>1. chosen \subseteq Devices /\ \A d \in chosen, b \in AttemptIds : ~Holds(b, d)
    BY DEF FirstOf, FreeGpus
  <1>2. allocation' = [allocation EXCEPT ![a] = [uuids |-> chosen, released |-> FALSE]]
    BY DEF Assign
  <1> HIDE DEF chosen
  <1>3. AllocationOK'
    BY <1>1, <1>2 DEF AllocationOK
  <1>4. /\ allocation'[a] = [uuids |-> chosen, released |-> FALSE]
        /\ \A b \in AttemptIds \ {a} : allocation'[b] = allocation[b]
    BY <1>2 DEF AllocationOK
  <1>5. GpuExclusive'
    BY <1>1, <1>4 DEF GpuExclusive, Holds
  <1> QED BY <1>3, <1>5

\* runtime_report(stopped) releases and never reserves.
LEMMA StoppedExclusive ==
  ASSUME AllocationOK, GpuExclusive, NEW g \in Agents, NEW a \in AttemptIds,
         ReportStopped(g, a)
  PROVE  AllocationOK' /\ GpuExclusive'
  <1>1. allocation' = [allocation EXCEPT ![a].released = TRUE]
    BY DEF ReportStopped
  <1>2. AllocationOK'
    BY <1>1 DEF AllocationOK
  <1>3. /\ allocation'[a].released = TRUE
        /\ \A b \in AttemptIds \ {a} : allocation'[b] = allocation[b]
    BY <1>1 DEF AllocationOK
  <1>4. \A b \in AttemptIds, d \in Devices : Holds(b, d)' => Holds(b, d)
    BY <1>3 DEF Holds
  <1> QED BY <1>2, <1>4 DEF GpuExclusive

\* No GPU is ever reserved for two attempts, for any number of workers,
\* agents, attempts and devices: free_gpus alone already guarantees what the
\* unique index gpu_exclusive_allocation enforces.
THEOREM GpusExclusive == DockerSpec => []GpuExclusive
  <1>1. DockerInit => AllocationOK /\ GpuExclusive
    BY DEF DockerInit, AllocationOK, GpuExclusive, Holds
  <1>2. AllocationOK /\ GpuExclusive /\ [DockerNext]_vars => AllocationOK' /\ GpuExclusive'
    <2> SUFFICES ASSUME AllocationOK, GpuExclusive, [DockerNext]_vars
                 PROVE  AllocationOK' /\ GpuExclusive'
      OBVIOUS
    <2>1. CASE UNCHANGED allocation
      BY <2>1 DEF AllocationOK, GpuExclusive, Holds
    <2>2. ASSUME NEW g \in Agents, Agent(g), allocation' # allocation
          PROVE  AllocationOK' /\ GpuExclusive'
      <3>1. ASSUME NEW n, NEW ready, NEW found, NEW eligible,
                   ReportGpuInventory(g, n, ready, found, eligible)
            PROVE  FALSE
        BY <2>2, <3>1 DEF ReportGpuInventory
      <3>2. ~RegisterWorker(g) /\ ~WorkerHeartbeat(g)
        BY <2>2 DEF RegisterWorker, WorkerHeartbeat
      <3>3. \A a \in AttemptIds : ~ReportRuntime(g, a)
        BY <2>2 DEF ReportRuntime
      <3> QED BY <2>2, <3>1, <3>2, <3>3, AssignExclusive, StoppedExclusive DEF Agent
    <2>3. ASSUME NEW w \in Workers, NEW drained \in BOOLEAN, DrainWorker(w, drained)
          PROVE  UNCHANGED allocation
      BY <2>3 DEF DrainWorker
    <2>4. ASSUME NEW w \in Workers, WorkerLapses(w) \/ InventoryLapses(w)
          PROVE  UNCHANGED allocation
      BY <2>4 DEF WorkerLapses, InventoryLapses
    <2>5. UNCHANGED dockerVars \/ UNCHANGED vars => UNCHANGED allocation
      BY DEF dockerVars, vars
    <2> QED BY <2>1, <2>2, <2>3, <2>4, <2>5 DEF DockerNext
  <1> QED BY <1>1, <1>2, PTL DEF DockerSpec
-----------------------------------------------------------------------------
(* Types *)

WorkerRow == [session : Agents \cup {None}, available : BOOLEAN,
              drained : BOOLEAN, capacity : Nat,
              engine_id : {AgentConfig[g].engine : g \in Agents} \cup {None},
              capable : BOOLEAN, ready : BOOLEAN, fresh : BOOLEAN,
              sequence : 0..MaxInventories]

DeviceRow == [owner : Workers \cup {None}, present : BOOLEAN, eligible : BOOLEAN]

\* The transactions on a worker's own row keep its columns in their types.
LEMMA WorkerRowMoves ==
  ASSUME DockerAssumption, NEW w \in Workers, worker \in [Workers -> WorkerRow],
         NEW row \in WorkerRow, worker' = [worker EXCEPT ![w] = row],
         UNCHANGED <<device, allocation, runtime>>, DockerTypeOK
  PROVE  DockerTypeOK'
  BY DEF DockerTypeOK, WorkerRow

\* One column of a row is replaced by a value of its type.
LEMMA ColumnMoves ==
  ASSUME NEW row \in WorkerRow, NEW b \in BOOLEAN
  PROVE  /\ [row EXCEPT !.available = b] \in WorkerRow
         /\ [row EXCEPT !.drained = b] \in WorkerRow
         /\ [row EXCEPT !.fresh = b] \in WorkerRow
  <1>1. [row EXCEPT !.available = b] \in WorkerRow
    BY DEF WorkerRow
  <1>2. [row EXCEPT !.drained = b] \in WorkerRow
    BY DEF WorkerRow
  <1>3. [row EXCEPT !.fresh = b] \in WorkerRow
    BY DEF WorkerRow
  <1> QED BY <1>1, <1>2, <1>3

\* register_worker writes a whole row; heartbeats, draining, inventory and the
\* passing of time change one to three of its columns.
LEMMA WorkerTypes ==
  ASSUME DockerAssumption, DockerTypeOK, NEW g \in Agents,
         RegisterWorker(g) \/ WorkerHeartbeat(g)
  PROVE  DockerTypeOK'
  <1> DEFINE w == WorkerOf(g)
             fresh == [session |-> g, available |-> TRUE, drained |-> worker[w].drained,
                       capacity |-> AgentConfig[g].capacity, engine_id |-> EngineId(g),
                       capable |-> AgentConfig[g].capable, ready |-> FALSE,
                       fresh |-> FALSE, sequence |-> 0]
  <1>1. w \in Workers /\ worker \in [Workers -> WorkerRow]
    BY DEF DockerAssumption, WorkerOf, DockerTypeOK, WorkerRow
  <1>2. CASE RegisterWorker(g)
    <2>1. EngineId(g) \in {AgentConfig[h].engine : h \in Agents} \cup {None}
      BY DEF EngineId
    <2>2. worker[w].drained \in BOOLEAN
      BY <1>1 DEF WorkerRow
    <2>3. fresh \in WorkerRow
      BY <2>1, <2>2 DEF DockerAssumption, WorkerRow
    <2>4. worker' = [worker EXCEPT ![w] = fresh] /\ UNCHANGED <<device, allocation, runtime>>
      BY <1>2 DEF RegisterWorker
    <2> QED BY <1>1, <2>3, <2>4, WorkerRowMoves
  <1>3. CASE WorkerHeartbeat(g)
    <2>1. [worker[w] EXCEPT !.available = TRUE] \in WorkerRow
      <3>1. worker[w] \in WorkerRow
        BY <1>1
      <3> QED BY <3>1, ColumnMoves
    <2>2. /\ worker' = [worker EXCEPT ![w] = [worker[w] EXCEPT !.available = TRUE]]
          /\ UNCHANGED <<device, allocation, runtime>>
      BY <1>3 DEF WorkerHeartbeat
    <2> QED BY <1>1, <2>1, <2>2, WorkerRowMoves
  <1> QED BY <1>2, <1>3

LEMMA WorkerColumnTypes ==
  ASSUME DockerAssumption, DockerTypeOK, NEW w \in Workers, NEW drained \in BOOLEAN,
         DrainWorker(w, drained) \/ WorkerLapses(w) \/ InventoryLapses(w)
  PROVE  DockerTypeOK'
  <1>1. worker \in [Workers -> WorkerRow]
    BY DEF DockerTypeOK, WorkerRow
  <1>2. /\ [worker[w] EXCEPT !.drained = drained] \in WorkerRow
        /\ [worker[w] EXCEPT !.available = FALSE] \in WorkerRow
        /\ [worker[w] EXCEPT !.fresh = FALSE] \in WorkerRow
    <2>1. worker[w] \in WorkerRow
      BY <1>1
    <2> QED BY <2>1, ColumnMoves
  <1>3. PICK row \in WorkerRow : /\ worker' = [worker EXCEPT ![w] = row]
                                 /\ UNCHANGED <<device, allocation, runtime>>
    BY <1>2 DEF DrainWorker, WorkerLapses, InventoryLapses
  <1> QED BY <1>1, <1>3, WorkerRowMoves

\* report_gpu_inventory: devices found get the worker as their owner, the
\* others keep theirs.
LEMMA InventoryTypes ==
  ASSUME DockerAssumption, DockerTypeOK, NEW g \in Agents,
         NEW n \in 1..MaxInventories, NEW ready \in BOOLEAN,
         NEW found \in SUBSET Devices, NEW eligible \in SUBSET found,
         ReportGpuInventory(g, n, ready, found, eligible)
  PROVE  DockerTypeOK'
  <1> DEFINE w == WorkerOf(g)
             row == [worker[w] EXCEPT !.sequence = n, !.ready = ready,
                                      !.fresh = ready \/ @]
             Seen(d) == [owner |-> w, present |-> TRUE, eligible |-> d \in eligible]
             Unseen(d) == [device[d] EXCEPT !.present = @ /\ device[d].owner # w]
             Look(d) == IF d \in found THEN Seen(d) ELSE Unseen(d)
  <1>1. /\ w \in Workers
        /\ worker \in [Workers -> WorkerRow]
        /\ device \in [Devices -> DeviceRow]
    BY DEF DockerAssumption, WorkerOf, DockerTypeOK, WorkerRow, DeviceRow
  <1>2. row \in WorkerRow
    <2>1. n \in 0..MaxInventories
      BY DEF DockerAssumption
    <2>2. (ready \/ worker[w].fresh) \in BOOLEAN
      OBVIOUS
    <2>3. \A old \in WorkerRow, b \in BOOLEAN :
            [old EXCEPT !.sequence = n, !.ready = ready, !.fresh = b] \in WorkerRow
      BY <2>1 DEF WorkerRow
    <2>4. row = [worker[w] EXCEPT !.sequence = n, !.ready = ready,
                                  !.fresh = ready \/ worker[w].fresh]
      OBVIOUS
    <2> QED BY <1>1, <2>2, <2>3, <2>4
  <1>3. worker' \in [Workers -> WorkerRow]
    <2>1. worker' = [worker EXCEPT ![w] = row]
      BY DEF ReportGpuInventory
    <2> QED BY <1>1, <1>2, <2>1
  <1>4. \A d \in Devices : Look(d) \in DeviceRow
    <2> SUFFICES ASSUME NEW d \in Devices
                 PROVE  Seen(d) \in DeviceRow /\ Unseen(d) \in DeviceRow
      OBVIOUS
    <2>1. Seen(d) \in DeviceRow
      BY <1>1 DEF DeviceRow
    <2>2. (device[d].present /\ device[d].owner # w) \in BOOLEAN
      OBVIOUS
    <2> QED BY <1>1, <2>1, <2>2 DEF DeviceRow
  <1>5. device' = device \/ device' = [d \in Devices |-> Look(d)]
    BY DEF ReportGpuInventory
  <1> HIDE DEF Look
  <1>6. device' \in [Devices -> DeviceRow]
    BY <1>1, <1>4, <1>5
  <1>7. UNCHANGED <<allocation, runtime>>
    BY DEF ReportGpuInventory
  <1> QED BY <1>3, <1>6, <1>7 DEF DockerTypeOK, WorkerRow, DeviceRow

\* The rows of workers, devices and allocations keep the shape of their
\* tables under every call of an agent or an operator.
THEOREM DockerTypeCorrect == DockerSpec => []DockerTypeOK
  <1> USE DockerAssumption
  <1>1. DockerInit => DockerTypeOK
    BY DEF DockerInit, DockerTypeOK, NoWorker, NoDevice, DockerAssumption
  <1>2. DockerTypeOK /\ [DockerNext]_vars => DockerTypeOK'
    <2> SUFFICES ASSUME DockerTypeOK, [DockerNext]_vars
                 PROVE  DockerTypeOK'
      OBVIOUS
    <2>1. CASE UNCHANGED dockerVars
      BY <2>1 DEF DockerTypeOK, dockerVars
    <2>2. UNCHANGED vars => UNCHANGED dockerVars
      BY DEF dockerVars, vars
    <2>3. ASSUME NEW g \in Agents, NEW r \in Runs, NEW a \in AttemptIds, Assign(g, r, a)
          PROVE  DockerTypeOK'
      <3>1. FirstOf(FreeGpus(WorkerOf(g)), run[r].spec.gpu_count) \subseteq Devices
        BY DEF FirstOf, FreeGpus
      <3>2. UNCHANGED <<worker, device, runtime>>
        BY <2>3 DEF Assign
      <3>3. allocation' \in [AttemptIds -> [uuids : SUBSET Devices, released : BOOLEAN]]
        BY <2>3, <3>1 DEF Assign, DockerTypeOK
      <3> QED BY <3>2, <3>3 DEF DockerTypeOK
    <2>4. ASSUME NEW g \in Agents, NEW a \in AttemptIds,
                 ReportRuntime(g, a) \/ ReportStopped(g, a)
          PROVE  DockerTypeOK'
      <3>1. CASE ReportRuntime(g, a)
        BY <3>1 DEF ReportRuntime, DockerTypeOK
      <3>2. CASE ReportStopped(g, a)
        BY <3>2 DEF ReportStopped, DockerTypeOK
      <3> QED BY <2>4, <3>1, <3>2
    <2>5. ASSUME NEW g \in Agents, Agent(g)
          PROVE  DockerTypeOK'
      BY <2>3, <2>4, <2>5, WorkerTypes, InventoryTypes DEF Agent
    <2> QED BY <2>1, <2>2, <2>5, WorkerColumnTypes DEF DockerNext
  <1> QED BY <1>1, <1>2, PTL DEF DockerSpec

-----------------------------------------------------------------------------
(* What assign takes of the free devices                                   *)

\* The first n elements of a set with at least n are n in number: how many
\* elements lie below one numbers the elements from 0 to the size of the set
\* less 1, each number occurring once.
LEMMA FirstOfCount ==
  ASSUME NEW S \in SUBSET Nat, IsFiniteSet(S), NEW n \in Nat, n <= Cardinality(S)
  PROVE  Cardinality(FirstOf(S, n)) = n
  <1> DEFINE Below(x) == {y \in S : y < x}
             C == Cardinality(S)
             rank == [x \in S |-> Cardinality(Below(x))]
             T == FirstOf(S, n)
             f == [x \in T |-> rank[x]]
  <1>0. C \in Nat
    BY FS_CardinalityType
  <1>1. ASSUME NEW x \in S
        PROVE  /\ IsFiniteSet(Below(x)) /\ Cardinality(Below(x)) \in Nat
               /\ Cardinality(Below(x)) < C
    <2> DEFINE B == Below(x)
    <2>1. B \in SUBSET S /\ x \notin B
      <3>1. x \in Nat
        OBVIOUS
      <3> QED BY <3>1
    <2> HIDE DEF B
    <2>2. S # B
      BY <2>1
    <2>3. IsFiniteSet(B) /\ Cardinality(B) <= Cardinality(S)
          /\ (Cardinality(S) = Cardinality(B) => S = B)
      BY <2>1, FS_Subset
    <2>4. Cardinality(B) \in Nat
      BY <2>3, FS_CardinalityType
    <2> QED BY <1>0, <2>2, <2>3, <2>4 DEF B
  <1>2. ASSUME NEW x \in S, NEW y \in S, x < y
        PROVE  Cardinality(Below(x)) < Cardinality(Below(y))
    <2>1. Below(x) \in SUBSET Below(y) /\ x \in Below(y) /\ x \notin Below(x)
      <3>1. x \in Nat /\ y \in Nat /\ S \subseteq Nat
        OBVIOUS
      <3>2. \A z \in S : z < x => z < y
        BY <1>2, <3>1
      <3>3. Below(x) \in SUBSET Below(y)
        BY <3>2
      <3>4. x \in Below(y)
        BY <1>2
      <3>5. x \notin Below(x)
        BY <3>1
      <3> QED BY <3>3, <3>4, <3>5
    <2>2. IsFiniteSet(Below(y)) /\ Cardinality(Below(x)) \in Nat /\ Cardinality(Below(y)) \in Nat
      BY <1>1
    <2> HIDE DEF Below
    <2>3. Cardinality(Below(x)) <= Cardinality(Below(y))
          /\ Cardinality(Below(y)) # Cardinality(Below(x))
      BY <2>1, <2>2, FS_Subset
    <2> QED BY <2>2, <2>3
  <1>3. T = {x \in S : Cardinality(Below(x)) < n}
    BY DEF FirstOf
  <1> HIDE DEF Below, C, T
  <1>4. rank \in [S -> 0..(C - 1)]
    <2>1. \A x \in S : Cardinality(Below(x)) \in 0..(C - 1)
      BY <1>0, <1>1
    <2> QED BY <2>1
  <1>5. \A x \in S : rank[x] = Cardinality(Below(x))
    OBVIOUS
  <1> HIDE DEF rank
  <1>6. \A x, y \in S : rank[x] = rank[y] => x = y
    <2> SUFFICES ASSUME NEW x \in S, NEW y \in S, rank[x] = rank[y], x # y
                 PROVE  FALSE
      OBVIOUS
    <2>1. x \in Nat /\ y \in Nat
      OBVIOUS
    <2>2. x < y \/ y < x
      BY <2>1
    <2>3. rank[x] \in 0..(C - 1) /\ rank[y] \in 0..(C - 1)
      BY <1>4
    <2>4. rank[x] < rank[y] \/ rank[y] < rank[x]
      BY <1>2, <1>5, <2>2
    <2> QED BY <1>0, <2>3, <2>4
  <1>7. rank \in Injection(S, 0..(C - 1))
    BY <1>4, <1>6 DEF Injection, IsInjective
  <1>8. IsFiniteSet(0..(C - 1)) /\ Cardinality(0..(C - 1)) = C
    BY <1>0, FS_Interval
  <1>9. rank \in Surjection(S, 0..(C - 1))
    BY <1>7, <1>8, FS_Injection DEF C
  <1>10. T \in SUBSET S /\ IsFiniteSet(T) /\ \A x \in S : x \in T <=> rank[x] < n
    <2>1. T \in SUBSET S /\ \A x \in S : x \in T <=> rank[x] < n
      BY <1>3, <1>5
    <2> QED BY <2>1, FS_Subset
  <1>11. f \in [T -> 0..(n - 1)] /\ \A x \in T : f[x] = rank[x]
    <2>1. \A x \in T : rank[x] \in 0..(n - 1)
      BY <1>0, <1>4, <1>10
    <2> QED BY <2>1
  <1> HIDE DEF f
  <1>12. f \in Injection(T, 0..(n - 1))
    BY <1>6, <1>10, <1>11 DEF Injection, IsInjective
  <1>13. \A k \in 0..(n - 1) : \E x \in T : f[x] = k
    <2> SUFFICES ASSUME NEW k \in 0..(n - 1) PROVE \E x \in T : f[x] = k
      OBVIOUS
    <2>1. k \in 0..(C - 1) /\ k < n
      BY <1>0 DEF C
    <2>2. PICK x \in S : rank[x] = k
      BY <1>9, <2>1 DEF Surjection
    <2> QED BY <1>10, <1>11, <2>1, <2>2
  <1>14. f \in Bijection(T, 0..(n - 1))
    BY <1>11, <1>12, <1>13 DEF Bijection, Surjection
  <1>15. ExistsBijection(T, 0..(n - 1))
    BY <1>14 DEF ExistsBijection
  <1>16. Cardinality(0..(n - 1)) = Cardinality(T)
    BY <1>10, <1>15, FS_Bijection
  <1>17. Cardinality(0..(n - 1)) = n
    BY FS_Interval
  <1> QED BY <1>16, <1>17 DEF T

-----------------------------------------------------------------------------
(* Devices are held from assignment to cleanup                             *)

\* A placed attempt names a worker, and holds what its run asked for.
Placed(a) == Exists(a) => attempt[a].worker \in Workers

Held(a) ==
  Exists(a) =>
    /\ Cardinality(allocation[a].uuids) = RunOf(a).spec.gpu_count
    /\ \A d \in allocation[a].uuids : device[d].owner = attempt[a].worker
    /\ allocation[a].released <=> attempt[a].cleanup = "DONE"

HeldInv == \A a \in AttemptIds : Placed(a) /\ Held(a)

LEMMA HeldIsProperty == (\A a \in AttemptIds : Held(a)) <=> GpuHeldUntilCleanup
  BY DEF Held, GpuHeldUntilCleanup

\* No device changes hands.
OwnersStay == \A d \in Devices : device[d].owner # None => device'[d].owner = device[d].owner

\* The run of an attempt asks for the same as before: its specification is
\* written once.
LEMMA SpecStays ==
  ASSUME StoreAssumption, TypeOK, StoreInv, [Next]_storeVars, NEW a \in AttemptIds,
         Exists(a)
  PROVE  /\ attempt[a].run \in Runs
         /\ run'[attempt[a].run].spec = run[attempt[a].run].spec
  <1>1. attempt[a].run \in Runs /\ run[attempt[a].run].status # Absent
    BY DEF StoreInv, RowsLinked, RunOf
  <1>2. RunMoves(attempt[a].run)
    BY <1>1, RunsMove
  <1> QED BY <1>1, <1>2 DEF RunMoves, RunKept, RunSubmitted, RunAssigned, RunMoved

\* An attempt that stays where it is, its devices with it, keeps them.
LEMMA HeldKept ==
  ASSUME StoreAssumption, TypeOK, StoreInv, [Next]_storeVars, AllocationOK,
         NEW a \in AttemptIds, Placed(a), Held(a), PlaceKept(a),
         allocation'[a] = allocation[a], OwnersStay
  PROVE  Placed(a)' /\ Held(a)'
  <1>1. CASE Exists(a)
    <2>1. /\ attempt'[a].run = attempt[a].run
          /\ attempt'[a].worker = attempt[a].worker
          /\ attempt'[a].cleanup = attempt[a].cleanup
      BY DEF PlaceKept, SameColumns
    <2>2. run'[attempt[a].run].spec = run[attempt[a].run].spec
      BY <1>1, SpecStays
    <2>3. RunOf(a)' = run'[attempt[a].run]
      BY <2>1 DEF RunOf
    <2>4. RunOf(a)'.spec.gpu_count = RunOf(a).spec.gpu_count
      BY <2>2, <2>3 DEF RunOf
    <2>5. attempt[a].worker # None /\ allocation[a].uuids \subseteq Devices
      BY <1>1 DEF Placed, StoreAssumption, AllocationOK
    <2>6. \A d \in allocation[a].uuids : device'[d].owner = attempt'[a].worker
      BY <1>1, <2>1, <2>5 DEF Held, OwnersStay
    <2>7. Placed(a)'
      BY <1>1, <2>1 DEF Placed
    <2> QED BY <1>1, <2>1, <2>4, <2>6, <2>7 DEF Held
  <1>2. CASE ~Exists(a)
    BY <1>2 DEF PlaceKept, Placed, Held, Exists
  <1> QED BY <1>1, <1>2

\* assign: the devices are of the worker, and as many as asked for.
LEMMA AssignHolds ==
  ASSUME StoreAssumption, DockerAssumption, TypeOK, StoreInv, [Next]_storeVars,
         AllocationOK, HeldInv, NEW g \in Agents, NEW r \in Runs, NEW a \in AttemptIds,
         Assign(g, r, a), run[r].spec \in Specs
  PROVE  HeldInv'
  <1> DEFINE w == WorkerOf(g)
             n == run[r].spec.gpu_count
             chosen == FirstOf(FreeGpus(w), n)
             row == [NoAttempt EXCEPT !.status = "STARTING", !.run = r,
                       !.generation = run[r].generation + 1, !.worker = w,
                       !.launch = "valid"]
  <1>0. w \in Workers
    BY DEF DockerAssumption, WorkerOf
  <1>1. Cardinality(chosen) = n
    <2>1. n \in Nat
      BY DEF DockerAssumption
    <2>2. FreeGpus(w) \in SUBSET Devices /\ Devices \subseteq Nat /\ IsFiniteSet(Devices)
      BY DEF FreeGpus, DockerAssumption
    <2>3. FreeGpus(w) \in SUBSET Nat /\ IsFiniteSet(FreeGpus(w))
      BY <2>2, FS_Subset
    <2>4. n <= Cardinality(FreeGpus(w))
      <3>1. n <= Cardinality(IF GpuAvailable(w) THEN FreeGpus(w) ELSE {})
        BY DEF Assign, Fits
      <3>2. Cardinality({}) = 0 /\ Cardinality(FreeGpus(w)) \in Nat
        BY <2>3, FS_EmptySet, FS_CardinalityType
      <3>3. CASE GpuAvailable(w)
        BY <3>1, <3>3
      <3>4. CASE ~GpuAvailable(w)
        <4>1. n <= 0
          BY <3>1, <3>2, <3>4
        <4> QED BY <2>1, <3>2, <4>1
      <3> QED BY <3>3, <3>4
    <2> HIDE DEF n, w
    <2> QED BY <2>1, <2>3, <2>4, FirstOfCount
  <1>2. chosen \subseteq FreeGpus(w) /\ \A d \in chosen : device[d].owner = w
    BY DEF FirstOf, FreeGpus
  <1>3. /\ attempt'[a] = row
        /\ \A b \in AttemptIds \ {a} : attempt'[b] = attempt[b]
    BY DEF Assign, Place, TypeOK
  <1>4. row.run = r /\ row.worker = w /\ row.cleanup = "PENDING"
    BY DEF NoAttempt
  <1>5. /\ allocation'[a] = [uuids |-> chosen, released |-> FALSE]
        /\ \A b \in AttemptIds \ {a} : allocation'[b] = allocation[b]
    BY DEF Assign, AllocationOK
  <1>6. UNCHANGED device
    BY DEF Assign
  <1>7. run'[r].spec = run[r].spec
    BY DEF Assign, Place, TypeOK, RunRow
  <1> HIDE DEF row, chosen, w, n
  <1>8. RunOf(a)'.spec.gpu_count = n
    <2>1. RunOf(a)' = run'[r]
      BY <1>3, <1>4 DEF RunOf
    <2> QED BY <1>7, <2>1 DEF n
  <1>9. Placed(a)' /\ Held(a)'
    BY <1>0, <1>1, <1>2, <1>3, <1>4, <1>5, <1>6, <1>8 DEF Placed, Held
  <1>10. ASSUME NEW b \in AttemptIds \ {a}
         PROVE  Placed(b)' /\ Held(b)'
    <2>1. PlaceKept(b) /\ allocation'[b] = allocation[b]
      BY <1>3, <1>5 DEF PlaceKept, SameColumns
    <2>2. OwnersStay
      BY <1>6 DEF OwnersStay
    <2>3. Placed(b) /\ Held(b)
      BY DEF HeldInv
    <2> QED BY <2>1, <2>2, <2>3, HeldKept
  <1> QED BY <1>9, <1>10 DEF HeldInv

\* runtime_report(stopped): released with the same transaction that confirms
\* the cleanup.
LEMMA StoppedHolds ==
  ASSUME StoreAssumption, TypeOK, StoreInv, [Next]_storeVars,
         AllocationOK, HeldInv, NEW g \in Agents, NEW a \in AttemptIds,
         ReportStopped(g, a)
  PROVE  HeldInv'
  <1>1. /\ attempt'[a] = [attempt[a] EXCEPT !.cleanup = "DONE"]
        /\ \A b \in AttemptIds \ {a} : attempt'[b] = attempt[b]
    BY DEF ReportStopped, TypeOK
  <1>2. /\ allocation'[a].released = TRUE /\ allocation'[a].uuids = allocation[a].uuids
        /\ \A b \in AttemptIds \ {a} : allocation'[b] = allocation[b]
    BY DEF ReportStopped, AllocationOK
  <1>3. UNCHANGED <<run, device>> /\ Exists(a)
    BY DEF ReportStopped
  <1>4. /\ attempt'[a].run = attempt[a].run /\ attempt'[a].worker = attempt[a].worker
        /\ attempt'[a].cleanup = "DONE"
    <2>1. attempt[a] \in AttemptRow
      BY DEF TypeOK
    <2> QED BY <1>1, <2>1 DEF AttemptRow
  <1>5. RunOf(a)' = RunOf(a)
    BY <1>3, <1>4 DEF RunOf
  <1>6. Placed(a)' /\ Held(a)'
    BY <1>2, <1>3, <1>4, <1>5 DEF HeldInv, Placed, Held
  <1>7. ASSUME NEW b \in AttemptIds \ {a}
        PROVE  Placed(b)' /\ Held(b)'
    <2>1. PlaceKept(b) /\ allocation'[b] = allocation[b]
      BY <1>1, <1>2 DEF PlaceKept, SameColumns
    <2>2. OwnersStay
      BY <1>3 DEF OwnersStay
    <2>3. Placed(b) /\ Held(b)
      BY DEF HeldInv
    <2> QED BY <2>1, <2>2, <2>3, HeldKept
  <1> QED BY <1>6, <1>7 DEF HeldInv

\* report_gpu_inventory leaves every device with its owner: a report that
\* names another worker's device is refused.
LEMMA InventoryOwners ==
  ASSUME DockerTypeOK, NEW g, NEW n, NEW ready, NEW found, NEW eligible,
         ReportGpuInventory(g, n, ready, found, eligible)
  PROVE  OwnersStay
  <1> DEFINE w == WorkerOf(g)
  <1>1. CASE UNCHANGED device
    BY <1>1 DEF OwnersStay
  <1>2. CASE device' # device
    <2> SUFFICES ASSUME NEW d \in Devices, device[d].owner # None
                 PROVE  device'[d].owner = device[d].owner
      BY DEF OwnersStay
    <2>1. device'[d] = IF d \in found
                       THEN [owner |-> w, present |-> TRUE, eligible |-> d \in eligible]
                       ELSE [device[d] EXCEPT !.present = @ /\ device[d].owner # w]
      BY <1>2 DEF ReportGpuInventory
    <2>2. device[d] \in DeviceRow
      BY DEF DockerTypeOK, DeviceRow
    <2>3. CASE d \in found
      <3>1. device[d].owner = w
        BY <2>3 DEF ReportGpuInventory
      <3> QED BY <2>1, <2>3, <3>1
    <2>4. CASE d \notin found
      BY <2>1, <2>2, <2>4 DEF DeviceRow
    <2> QED BY <2>3, <2>4
  <1> QED BY <1>1, <1>2

LEMMA HeldStep ==
  ASSUME StoreAssumption, DockerAssumption, DockerTypeOK, TypeOK, StoreInv,
         [Next]_storeVars, HeldInv, [DockerNext]_vars
  PROVE  HeldInv'
  <1>0. AllocationOK
    BY DEF DockerTypeOK, AllocationOK
  <1>1. CASE (\A a \in AttemptIds : PlaceKept(a)) /\ UNCHANGED allocation /\ OwnersStay
    BY <1>0, <1>1, HeldKept DEF HeldInv
  <1>2. UNCHANGED attempt => \A a \in AttemptIds : PlaceKept(a)
    BY DEF PlaceKept, SameColumns
  <1>3. UNCHANGED device => OwnersStay
    BY DEF OwnersStay
  <1>4. ASSUME NEW g \in Agents, Agent(g)
        PROVE  HeldInv'
    <2>1. CASE RegisterWorker(g) \/ WorkerHeartbeat(g)
      <3>1. UNCHANGED <<attempt, allocation, device>>
        BY <2>1 DEF RegisterWorker, WorkerHeartbeat, storeVars
      <3> QED BY <1>1, <1>2, <1>3, <3>1
    <2>2. ASSUME NEW n, NEW ready, NEW found, NEW eligible,
                 ReportGpuInventory(g, n, ready, found, eligible)
          PROVE  HeldInv'
      <3>1. UNCHANGED <<attempt, allocation>>
        BY <2>2 DEF ReportGpuInventory, storeVars
      <3> QED BY <1>1, <1>2, <2>2, <3>1, InventoryOwners
    <2>3. ASSUME NEW r \in Runs, NEW a \in AttemptIds, Assign(g, r, a)
          PROVE  HeldInv'
      <3>1. run[r].spec \in Specs
        <4>1. run[r].status = "QUEUED"
          BY <2>3 DEF Assign, Place
        <4> QED BY <4>1 DEF StoreInv, RetryBudget, Absent
      <3> QED BY <1>0, <2>3, <3>1, AssignHolds
    <2>4. ASSUME NEW a \in AttemptIds, ReportRuntime(g, a)
          PROVE  HeldInv'
      <3>1. UNCHANGED <<attempt, allocation, device>>
        BY <2>4 DEF ReportRuntime, storeVars
      <3> QED BY <1>1, <1>2, <1>3, <3>1
    <2>5. ASSUME NEW a \in AttemptIds, ReportStopped(g, a)
          PROVE  HeldInv'
      BY <1>0, <2>5, StoppedHolds
    <2> QED BY <1>4, <2>1, <2>2, <2>3, <2>4, <2>5 DEF Agent
  <1>5. ASSUME NEW w \in Workers, NEW drained \in BOOLEAN,
               DrainWorker(w, drained) \/ WorkerLapses(w) \/ InventoryLapses(w)
        PROVE  HeldInv'
    <2>1. UNCHANGED <<attempt, allocation, device>>
      BY <1>5 DEF DrainWorker, WorkerLapses, InventoryLapses, storeVars
    <2> QED BY <1>1, <1>2, <1>3, <2>1
  <1>6. CASE Unplaced /\ UNCHANGED dockerVars
    <2>1. \A a \in AttemptIds : PlaceKept(a)
      BY <1>6, SettledKeepsPlace DEF Unplaced, Settled
    <2>2. UNCHANGED <<allocation, device>>
      BY <1>6 DEF dockerVars
    <2> QED BY <1>1, <1>3, <2>1, <2>2
  <1>7. CASE UNCHANGED vars
    <2>1. UNCHANGED <<attempt, allocation, device>>
      BY <1>7 DEF vars
    <2> QED BY <1>1, <1>2, <1>3, <2>1
  <1> QED BY <1>4, <1>5, <1>6, <1>7 DEF DockerNext

\* An attempt holds as many devices of its worker as its run asked for, from
\* assign to the report that confirms its cleanup, and none is released
\* earlier or kept longer (assign, runtime_report, report_gpu_inventory).
THEOREM GpusHeld == DockerSpec => []GpuHeldUntilCleanup
  <1> USE DockerAssumption, StoreAssumption
  <1>1. DockerInit => HeldInv
    <2>1. NoAttempt.status = Absent
      BY Zenon DEF NoAttempt
    <2> QED BY <2>1 DEF DockerInit, Init, HeldInv, Placed, Held, Exists
  <1>2. DockerSpec => []TypeOK /\ [][Next]_storeVars
    BY DockerImplementsStore, TypeCorrect, PTL DEF ImplementsAttemptStore, Spec
  <1>3. DockerTypeOK /\ TypeOK /\ StoreInv /\ [Next]_storeVars /\ HeldInv
          /\ [DockerNext]_vars => HeldInv'
    BY HeldStep
  <1>4. HeldInv => GpuHeldUntilCleanup
    BY HeldIsProperty DEF HeldInv
  <1> QED BY <1>1, <1>2, <1>3, <1>4, DockerTypeCorrect, DockerConsistent, PTL DEF DockerSpec

-----------------------------------------------------------------------------
(* Capacity                                                                *)

\* t is the sum of what the runs of the attempts in S ask for.
IsReserved(S, cost, t) ==
  \E g \in [SUBSET S -> Nat] : SumsOver(g, S, cost) /\ t = g[S]

Costs(S) == [a \in S |-> RunOf(a).spec.cpu]

CostsOK(S) == IsFiniteSet(S) /\ \A a \in S : RunOf(a).spec.cpu \in Nat

\* Reserved is that sum, before a step and after it.
LEMMA ReservedNow ==
  ASSUME NEW w, CostsOK(Pending(w))
  PROVE  IsReserved(Pending(w), Costs(Pending(w)), Reserved(w))
  <1> DEFINE S == Pending(w)
             c == Costs(S)
             Eq(g) == g = [s \in SUBSET S |->
                             IF s = {} THEN 0
                             ELSE RunOf(CHOOSE x \in s : TRUE).spec.cpu
                                    + g[s \ {CHOOSE x \in s : TRUE}]]
             f == CHOOSE g : Eq(g)
  <1>1. Reserved(w) = f[S]
    BY DEF Reserved, MapThenSumSet, MapThenFoldSet
  <1>2. IsFiniteSet(S) /\ c \in [S -> Nat] /\ \A a \in S : c[a] = RunOf(a).spec.cpu
    BY DEF CostsOK, Costs
  <1> HIDE DEF c
  <1>3. PICK g \in [SUBSET S -> Nat] : SumsOver(g, S, c)
    BY <1>2, SumExists
  <1>4. \A s \in SUBSET S : s # {} => One(s) \in S /\ c[One(s)] = RunOf(One(s)).spec.cpu
    BY <1>2, OneIn
  <1>5. Eq(g)
    BY SMTT(20), <1>3, <1>4 DEF SumsOver, One
  <1>6. Eq(f)
    <2> HIDE DEF Eq
    <2> QED BY <1>5
  <1> HIDE DEF f
  <1>7. SumsOver(f, S, c) /\ f = [s \in SUBSET S |-> f[s]]
    BY <1>4, <1>6 DEF SumsOver, One
  <1> HIDE DEF S
  <1>8. f \in [SUBSET S -> Nat]
    BY <1>2, <1>7, SumType
  <1> QED BY <1>1, <1>7, <1>8 DEF IsReserved, S, c

LEMMA ReservedNext ==
  ASSUME NEW w, CostsOK(Pending(w))'
  PROVE  IsReserved(Pending(w)', Costs(Pending(w))', Reserved(w)')
  <1> DEFINE S == Pending(w)'
             c == Costs(Pending(w))'
             Eq(g) == g = [s \in SUBSET S |->
                             IF s = {} THEN 0
                             ELSE RunOf(CHOOSE x \in s : TRUE)'.spec.cpu
                                    + g[s \ {CHOOSE x \in s : TRUE}]]
             f == CHOOSE g : Eq(g)
  <1>1. Reserved(w)' = f[S]
    BY DEF Reserved, MapThenSumSet, MapThenFoldSet
  <1>2. IsFiniteSet(S) /\ c \in [S -> Nat] /\ \A a \in S : c[a] = RunOf(a)'.spec.cpu
    BY DEF CostsOK, Costs
  <1> HIDE DEF c
  <1>3. PICK g \in [SUBSET S -> Nat] : SumsOver(g, S, c)
    BY <1>2, SumExists
  <1>4. \A s \in SUBSET S : s # {} => One(s) \in S /\ c[One(s)] = RunOf(One(s))'.spec.cpu
    BY <1>2, OneIn
  <1>5. Eq(g)
    BY SMTT(20), <1>3, <1>4 DEF SumsOver, One
  <1>6. Eq(f)
    <2> HIDE DEF Eq
    <2> QED BY <1>5
  <1> HIDE DEF f
  <1>7. SumsOver(f, S, c) /\ f = [s \in SUBSET S |-> f[s]]
    BY <1>4, <1>6 DEF SumsOver, One
  <1> HIDE DEF S
  <1>8. f \in [SUBSET S -> Nat]
    BY <1>2, <1>7, SumType
  <1> QED BY <1>1, <1>7, <1>8 DEF IsReserved, S, c

\* An attempt that awaits cleanup has done so before, in the same place.
StaysPending(a) ==
  Exists(a)' /\ attempt'[a].cleanup = "PENDING" =>
    /\ Exists(a) /\ attempt[a].cleanup = "PENDING"
    /\ attempt'[a].worker = attempt[a].worker
    /\ attempt'[a].run = attempt[a].run

LEMMA PlaceKeptStays ==
  ASSUME NEW a, PlaceKept(a)
  PROVE  StaysPending(a)
  BY DEF PlaceKept, SameColumns, StaysPending, Exists

\* The run of an attempt asks for as much as before.
LEMMA CostStays ==
  ASSUME StoreAssumption, TypeOK, StoreInv, [Next]_storeVars, NEW a \in AttemptIds,
         Exists(a), attempt'[a].run = attempt[a].run
  PROVE  RunOf(a)'.spec.cpu = RunOf(a).spec.cpu
  <1>1. run'[attempt[a].run].spec = run[attempt[a].run].spec
    BY SpecStays
  <1> QED BY <1>1 DEF RunOf

\* An attempt asks for a natural number of CPUs.
LEMMA CostIsNat ==
  ASSUME StoreAssumption, DockerAssumption, TypeOK, StoreInv,
         NEW a \in AttemptIds, Exists(a)
  PROVE  RunOf(a).spec.cpu \in Nat
  <1>1. attempt[a].run \in Runs /\ run[attempt[a].run].status # Absent
    BY DEF StoreInv, RowsLinked, RunOf
  <1>2. run[attempt[a].run].spec \in Specs
    BY <1>1 DEF StoreInv, RetryBudget
  <1> QED BY <1>2 DEF RunOf, DockerAssumption

LEMMA PendingCosts ==
  ASSUME StoreAssumption, DockerAssumption, TypeOK, StoreInv, NEW w,
         IsFiniteSet(Pending(w))
  PROVE  CostsOK(Pending(w))
  <1>1. \A a \in Pending(w) : a \in AttemptIds /\ Exists(a)
    BY DEF Pending
  <1> QED BY <1>1, CostIsNat DEF CostsOK

\* Where nothing was placed, no more is reserved.
LEMMA NoMoreReserved ==
  ASSUME StoreAssumption, DockerAssumption, TypeOK, StoreInv, [Next]_storeVars,
         NEW w, IsFiniteSet(Pending(w)),
         \A a \in AttemptIds : attempt'[a].worker = w => StaysPending(a)
  PROVE  /\ IsFiniteSet(Pending(w)')
         /\ Reserved(w) \in Nat /\ Reserved(w)' \in Nat
         /\ Reserved(w)' <= Reserved(w)
  <1> DEFINE S == Pending(w)
             T == Pending(w)'
             c == Costs(Pending(w))
             d == Costs(Pending(w))'
  <1>1. T \subseteq S
    BY DEF Pending, StaysPending, Exists
  <1>2. ASSUME NEW a \in T
        PROVE  /\ RunOf(a)'.spec.cpu = RunOf(a).spec.cpu
               /\ RunOf(a).spec.cpu \in Nat
    <2>1. a \in AttemptIds /\ Exists(a)
      BY <1>1 DEF Pending
    <2>2. attempt'[a].run = attempt[a].run
      BY DEF Pending, StaysPending
    <2> QED BY <2>1, <2>2, CostStays, CostIsNat
  <1>3. IsFiniteSet(S) /\ IsFiniteSet(T)
    BY <1>1, FS_Subset
  <1>4. CostsOK(Pending(w)) /\ CostsOK(Pending(w))'
    BY <1>2, <1>3, PendingCosts DEF CostsOK
  <1>5. /\ IsReserved(S, c, Reserved(w))
        /\ IsReserved(T, d, Reserved(w)')
    BY <1>4, ReservedNow, ReservedNext
  <1>6. c \in [S -> Nat] /\ \A a \in T : d[a] = c[a]
    BY <1>1, <1>2, <1>4 DEF CostsOK, Costs
  <1> HIDE DEF S, T, c, d
  <1>7. PICK g \in [SUBSET S -> Nat] : SumsOver(g, S, c) /\ Reserved(w) = g[S]
    BY <1>5 DEF IsReserved
  <1>8. PICK h \in [SUBSET T -> Nat] : SumsOver(h, T, d) /\ Reserved(w)' = h[T]
    BY <1>5 DEF IsReserved
  <1>9. g[T] = h[T]
    <2>1. \A a \in T : c[a] = d[a]
      BY <1>6
    <2>2. \A s \in SUBSET T : g[s] = h[s]
      BY <1>1, <1>3, <1>7, <1>8, <2>1, SumSame
    <2> QED BY <2>2
  <1>10. g[T] <= g[S]
    BY <1>1, <1>3, <1>6, <1>7, SumFewer
  <1> QED BY <1>1, <1>3, <1>7, <1>8, <1>9, <1>10 DEF T

\* assign adds what its run asks for, which fitted.
LEMMA AssignFits ==
  ASSUME StoreAssumption, DockerAssumption, TypeOK, StoreInv, [Next]_storeVars,
         NEW g \in Agents, NEW r \in Runs, NEW a \in AttemptIds, Assign(g, r, a),
         IsFiniteSet(Pending(WorkerOf(g)))
  PROVE  /\ IsFiniteSet(Pending(WorkerOf(g))')
         /\ Reserved(WorkerOf(g))' <= worker'[WorkerOf(g)].capacity
  <1> DEFINE w == WorkerOf(g)
             S == Pending(w)
             T == Pending(w)'
             c == Costs(Pending(w))
             d == Costs(Pending(w))'
             n == run[r].spec.cpu
             row == [NoAttempt EXCEPT !.status = "STARTING", !.run = r,
                       !.generation = run[r].generation + 1, !.worker = w,
                       !.launch = "valid"]
  <1>1. /\ attempt'[a] = row /\ row.run = r /\ row.worker = w /\ row.cleanup = "PENDING"
        /\ row.status # Absent
        /\ \A b \in AttemptIds \ {a} : attempt'[b] = attempt[b]
        /\ ~Exists(a)
    BY DEF Assign, Place, Fresh, TypeOK, NoAttempt, Absent
  <1>2. run'[r].spec = run[r].spec /\ run[r].spec \in Specs
    <2>1. run'[r].spec = run[r].spec
      BY DEF Assign, Place, TypeOK, RunRow
    <2>2. run[r].status = "QUEUED"
      BY DEF Assign, Place
    <2> QED BY <2>1, <2>2 DEF StoreInv, RetryBudget, Absent
  <1> HIDE DEF row
  <1>3. T = S \cup {a} /\ a \notin S
    <2>1. S = {b \in AttemptIds : /\ Exists(b) /\ attempt[b].worker = w
                                  /\ attempt[b].cleanup = "PENDING"}
      BY DEF Pending
    <2>2. T = {b \in AttemptIds : /\ attempt'[b].status # Absent
                                  /\ attempt'[b].worker = w
                                  /\ attempt'[b].cleanup = "PENDING"}
      BY DEF Pending, Exists, WorkerOf
    <2> HIDE DEF S, T, w, c, d, n
    <2>3. a \notin S
      BY <1>1, <2>1
    <2>4. a \in T
      BY <1>1, <2>2
    <2>5. \A b \in AttemptIds \ {a} : b \in S <=> b \in T
      BY <1>1, <2>1, <2>2 DEF Exists
    <2>6. S \subseteq AttemptIds /\ T \subseteq AttemptIds
      BY <2>1, <2>2
    <2> QED BY <2>3, <2>4, <2>5, <2>6
  <1>4. n \in Nat /\ RunOf(a)'.spec.cpu = n
    BY <1>1, <1>2 DEF DockerAssumption, RunOf
  <1>5. ASSUME NEW b \in S
        PROVE  /\ RunOf(b)'.spec.cpu = RunOf(b).spec.cpu
               /\ RunOf(b).spec.cpu \in Nat
    <2>1. b \in AttemptIds /\ Exists(b)
      BY DEF Pending
    <2>2. attempt'[b].run = attempt[b].run
      <3>1. b \in AttemptIds \ {a}
        BY <1>3, <2>1
      <3> QED BY <1>1, <3>1
    <2> QED BY <2>1, <2>2, CostStays, CostIsNat
  <1>6. IsFiniteSet(S) /\ IsFiniteSet(T)
    BY <1>3, FS_AddElement
  <1>7. CostsOK(Pending(w)) /\ CostsOK(Pending(w))'
    <2>1. \A b \in T : RunOf(b)'.spec.cpu \in Nat
      BY <1>3, <1>4, <1>5
    <2> QED BY <1>6, <2>1, PendingCosts DEF CostsOK
  <1>8. /\ IsReserved(S, c, Reserved(w))
        /\ IsReserved(T, d, Reserved(w)')
    BY <1>7, ReservedNow, ReservedNext
  <1>9. d \in [T -> Nat] /\ d[a] = n /\ \A b \in S : d[b] = c[b]
    BY <1>3, <1>4, <1>5, <1>7 DEF CostsOK, Costs
  <1>10. n + Reserved(w) <= worker[w].capacity /\ worker' = worker
    BY DEF Assign, Fits
  <1> HIDE DEF S, T, c, d, n, w
  <1>11. PICK f \in [SUBSET S -> Nat] : SumsOver(f, S, c) /\ Reserved(w) = f[S]
    BY <1>8 DEF IsReserved
  <1>12. PICK h \in [SUBSET T -> Nat] : SumsOver(h, T, d) /\ Reserved(w)' = h[T]
    BY <1>8 DEF IsReserved
  <1>13. h[T] = n + h[S]
    <2>1. AnyFirst(h, T, d)
      BY <1>6, <1>9, <1>12, SumAny
    <2>2. T \ {a} = S /\ T \in SUBSET T /\ a \in T
      BY <1>3
    <2>3. h[T] = d[a] + h[T \ {a}]
      BY <2>1, <2>2 DEF AnyFirst
    <2> QED BY <1>9, <2>2, <2>3
  <1>14. h[S] = f[S]
    <2>1. S \subseteq T
      BY <1>3
    <2>2. \A s \in SUBSET S : h[s] = f[s]
      BY <1>6, <1>9, <1>11, <1>12, <2>1, SumSame
    <2> QED BY <2>2
  <1>15. Reserved(w)' <= worker'[w].capacity
    BY <1>10, <1>11, <1>12, <1>13, <1>14
  <1> QED BY <1>6, <1>15 DEF T, w

\* Only finitely many attempts await cleanup on a worker.
PendingFinite == \A w \in Workers : IsFiniteSet(Pending(w))

Oversubscribes(w) ==
  Reserved(w)' > Reserved(w) /\ ~(Reserved(w)' <= worker'[w].capacity)

LEMMA CapacityStep ==
  ASSUME StoreAssumption, DockerAssumption, TypeOK, StoreInv, [Next]_storeVars,
         PendingFinite, [DockerNext]_vars
  PROVE  PendingFinite' /\ \A w \in Workers : ~Oversubscribes(w)
  <1>1. ASSUME NEW w \in Workers,
               \A a \in AttemptIds : attempt'[a].worker = w => StaysPending(a)
        PROVE  IsFiniteSet(Pending(w)') /\ ~Oversubscribes(w)
    <2>1. /\ IsFiniteSet(Pending(w)')
          /\ Reserved(w) \in Nat /\ Reserved(w)' \in Nat
          /\ Reserved(w)' <= Reserved(w)
      BY <1>1, NoMoreReserved DEF PendingFinite
    <2> QED BY <2>1 DEF Oversubscribes
  <1>2. CASE \A a \in AttemptIds : StaysPending(a)
    BY <1>1, <1>2 DEF PendingFinite
  <1>3. UNCHANGED attempt => \A a \in AttemptIds : StaysPending(a)
    BY DEF StaysPending, Exists
  <1>4. ASSUME NEW g \in Agents, NEW r \in Runs, NEW a \in AttemptIds, Assign(g, r, a)
        PROVE  PendingFinite' /\ \A w \in Workers : ~Oversubscribes(w)
    <2>1. WorkerOf(g) \in Workers
      BY DEF DockerAssumption, WorkerOf
    <2>2. /\ IsFiniteSet(Pending(WorkerOf(g))')
          /\ ~Oversubscribes(WorkerOf(g))
      BY <1>4, <2>1, AssignFits DEF PendingFinite, Oversubscribes
    <2>3. ASSUME NEW w \in Workers, w # WorkerOf(g)
          PROVE  IsFiniteSet(Pending(w)') /\ ~Oversubscribes(w)
      <3>1. /\ attempt'[a].worker = WorkerOf(g)
            /\ \A b \in AttemptIds \ {a} : attempt'[b] = attempt[b]
        BY <1>4 DEF Assign, Place, TypeOK, NoAttempt
      <3>2. \A b \in AttemptIds : attempt'[b].worker = w => StaysPending(b)
        BY <2>3, <3>1 DEF StaysPending, Exists
      <3> QED BY <1>1, <3>2
    <2> QED BY <2>2, <2>3 DEF PendingFinite
  <1>5. ASSUME NEW g \in Agents, NEW a \in AttemptIds, ReportStopped(g, a)
        PROVE  \A b \in AttemptIds : StaysPending(b)
    <2>1. attempt'[a] = [attempt[a] EXCEPT !.cleanup = "DONE"]
          /\ \A b \in AttemptIds \ {a} : attempt'[b] = attempt[b]
      BY <1>5 DEF ReportStopped, TypeOK
    <2>2. attempt'[a].cleanup = "DONE"
      <3>1. attempt[a] \in AttemptRow
        BY DEF TypeOK
      <3> QED BY <2>1, <3>1 DEF AttemptRow
    <2> QED BY <2>1, <2>2 DEF StaysPending, Exists
  <1>6. ASSUME NEW g \in Agents, Agent(g),
               \A r \in Runs, a \in AttemptIds : ~Assign(g, r, a)
        PROVE  \A b \in AttemptIds : StaysPending(b)
    <2>1. RegisterWorker(g) \/ WorkerHeartbeat(g) => UNCHANGED attempt
      BY DEF RegisterWorker, WorkerHeartbeat, storeVars
    <2>2. ASSUME NEW n, NEW ready, NEW found, NEW eligible,
                 ReportGpuInventory(g, n, ready, found, eligible)
          PROVE  UNCHANGED attempt
      BY <2>2 DEF ReportGpuInventory, storeVars
    <2>3. ASSUME NEW a \in AttemptIds, ReportRuntime(g, a)
          PROVE  UNCHANGED attempt
      BY <2>3 DEF ReportRuntime, storeVars
    <2> QED BY <1>3, <1>5, <1>6, <2>1, <2>2, <2>3 DEF Agent
  <1>7. ASSUME NEW w \in Workers, NEW drained \in BOOLEAN,
               DrainWorker(w, drained) \/ WorkerLapses(w) \/ InventoryLapses(w)
        PROVE  UNCHANGED attempt
    BY <1>7 DEF DrainWorker, WorkerLapses, InventoryLapses, storeVars
  <1>8. Unplaced => \A a \in AttemptIds : StaysPending(a)
    <2> SUFFICES ASSUME Unplaced PROVE \A a \in AttemptIds : StaysPending(a)
      OBVIOUS
    <2>1. \A a \in AttemptIds : PlaceKept(a)
      BY SettledKeepsPlace DEF Unplaced, Settled
    <2> QED BY <2>1, PlaceKeptStays
  <1>9. UNCHANGED vars => UNCHANGED attempt
    BY DEF vars
  <1> QED BY <1>2, <1>3, <1>4, <1>6, <1>7, <1>8, <1>9 DEF DockerNext

\* A reservation is only added where the registered capacity covers it
\* together with everything not yet cleaned up (assign, workers.cpp), for any
\* number of agents that call at once and whatever they registered before.
THEOREM CapacityKept == DockerSpec => NeverOversubscribed
  <1> USE DockerAssumption, StoreAssumption
  <1>1. DockerInit => PendingFinite
    <2> SUFFICES ASSUME DockerInit, NEW w \in Workers PROVE IsFiniteSet(Pending(w))
      BY DEF PendingFinite
    <2>1. NoAttempt.status = Absent
      BY Zenon DEF NoAttempt
    <2>2. Pending(w) = {}
      BY <2>1 DEF DockerInit, Init, Pending, Exists
    <2> QED BY <2>2, FS_EmptySet
  <1>2. DockerSpec => []TypeOK /\ [][Next]_storeVars
    BY DockerImplementsStore, TypeCorrect, PTL DEF ImplementsAttemptStore, Spec
  <1>3. TypeOK /\ StoreInv /\ [Next]_storeVars /\ PendingFinite /\ [DockerNext]_vars =>
          /\ PendingFinite'
          /\ [\A w \in Workers :
                Reserved(w)' > Reserved(w) => Reserved(w)' <= worker'[w].capacity]_vars
    BY CapacityStep DEF Oversubscribes
  <1> QED BY <1>1, <1>2, <1>3, DockerConsistent, PTL DEF DockerSpec, NeverOversubscribed

-----------------------------------------------------------------------------
(* Engines                                                                 *)

\* Every agent supports GPUs, so that it registers with the id of its engine.
AllCapable ==
  \A g \in Agents : AgentConfig[g].capable /\ AgentConfig[g].engine # None

\* The recorded engine is that of the agent in charge.
EngineRecorded ==
  \A w \in Workers :
    worker[w].session # None => worker[w].engine_id = AgentConfig[worker[w].session].engine

PinnedStep(w) ==
  /\ Pending(w) # {}
  /\ worker[w].session # None
  => AgentConfig[worker'[w].session].engine = AgentConfig[worker[w].session].engine

\* Only a registration changes who is in charge of a worker.
LEMMA SameSession ==
  ASSUME EngineRecorded,
         \A w \in Workers : /\ worker'[w].session = worker[w].session
                            /\ worker'[w].engine_id = worker[w].engine_id
  PROVE  EngineRecorded' /\ \A w \in Workers : PinnedStep(w)
  BY DEF EngineRecorded, PinnedStep

LEMMA ColumnsKeepSession ==
  ASSUME NEW row \in WorkerRow, NEW b, NEW c, NEW n
  PROVE  /\ [row EXCEPT !.available = b].session = row.session
         /\ [row EXCEPT !.available = b].engine_id = row.engine_id
         /\ [row EXCEPT !.drained = b].session = row.session
         /\ [row EXCEPT !.drained = b].engine_id = row.engine_id
         /\ [row EXCEPT !.fresh = b].session = row.session
         /\ [row EXCEPT !.fresh = b].engine_id = row.engine_id
         /\ [row EXCEPT !.sequence = n, !.ready = c, !.fresh = b].session = row.session
         /\ [row EXCEPT !.sequence = n, !.ready = c, !.fresh = b].engine_id = row.engine_id
  BY DEF WorkerRow

LEMMA RegisterPinned ==
  ASSUME DockerAssumption, AllCapable, DockerTypeOK, EngineRecorded,
         NEW g \in Agents, RegisterWorker(g)
  PROVE  EngineRecorded' /\ \A w \in Workers : PinnedStep(w)
  <1> DEFINE w == WorkerOf(g)
             row == [session |-> g, available |-> TRUE, drained |-> worker[w].drained,
                     capacity |-> AgentConfig[g].capacity, engine_id |-> EngineId(g),
                     capable |-> AgentConfig[g].capable, ready |-> FALSE,
                     fresh |-> FALSE, sequence |-> 0]
  <1>1. w \in Workers /\ worker \in [Workers -> WorkerRow]
    BY DEF DockerAssumption, WorkerOf, DockerTypeOK, WorkerRow
  <1>2. worker' = [worker EXCEPT ![w] = row]
    BY DEF RegisterWorker
  <1>3. row.session = g /\ row.engine_id = AgentConfig[g].engine
    BY DEF AllCapable, EngineId
  <1>4. \/ worker[w].engine_id = None
        \/ worker[w].engine_id = AgentConfig[g].engine
        \/ Pending(w) = {}
    BY DEF RegisterWorker, AllCapable, EngineId
  <1> HIDE DEF w, row
  <1>5. worker'[w] = row /\ \A v \in Workers \ {w} : worker'[v] = worker[v]
    BY <1>1, <1>2
  <1>6. EngineRecorded'
    BY <1>3, <1>5 DEF EngineRecorded
  <1>7. PinnedStep(w)
    <2> SUFFICES ASSUME Pending(w) # {}, worker[w].session # None
                 PROVE  AgentConfig[g].engine = AgentConfig[worker[w].session].engine
      BY <1>3, <1>5 DEF PinnedStep
    <2>1. worker[w].session \in Agents
      BY <1>1 DEF WorkerRow
    <2>2. worker[w].engine_id = AgentConfig[worker[w].session].engine
      BY <1>1 DEF EngineRecorded
    <2> QED BY <1>4, <2>1, <2>2 DEF AllCapable
  <1>8. \A v \in Workers \ {w} : PinnedStep(v)
    BY <1>5 DEF PinnedStep
  <1> QED BY <1>6, <1>7, <1>8

LEMMA EngineStep ==
  ASSUME DockerAssumption, AllCapable, DockerTypeOK, EngineRecorded, [DockerNext]_vars
  PROVE  EngineRecorded' /\ \A w \in Workers : PinnedStep(w)
  <1> DEFINE Goal == EngineRecorded' /\ \A w \in Workers : PinnedStep(w)
  <1>0. worker \in [Workers -> WorkerRow]
    BY DEF DockerTypeOK, WorkerRow
  <1>1. ASSUME UNCHANGED worker PROVE Goal
    BY <1>1, SameSession
  <1>2. ASSUME NEW w \in Workers, NEW row,
               row.session = worker[w].session, row.engine_id = worker[w].engine_id,
               worker' = [worker EXCEPT ![w] = row]
        PROVE  Goal
    <2>1. worker'[w] = row /\ \A v \in Workers \ {w} : worker'[v] = worker[v]
      BY <1>0, <1>2
    <2> QED BY <1>2, <2>1, SameSession
  <1> HIDE DEF Goal
  <1>3. ASSUME NEW g \in Agents, Agent(g) PROVE Goal
    <2> DEFINE w == WorkerOf(g)
               beat == [worker[w] EXCEPT !.available = TRUE]
    <2>0. w \in Workers /\ worker[w] \in WorkerRow
      BY <1>0 DEF DockerAssumption, WorkerOf
    <2>1. ASSUME RegisterWorker(g) PROVE Goal
      BY <2>1, RegisterPinned DEF Goal
    <2>2. ASSUME WorkerHeartbeat(g) PROVE Goal
      <3>1. worker' = [worker EXCEPT ![w] = beat]
        BY <2>2 DEF WorkerHeartbeat
      <3>2. beat.session = worker[w].session /\ beat.engine_id = worker[w].engine_id
        BY <2>0, ColumnsKeepSession
      <3> HIDE DEF beat, w
      <3> QED BY <1>2, <2>0, <3>1, <3>2
    <2>3. ASSUME NEW n, NEW ready, NEW found, NEW eligible,
                 ReportGpuInventory(g, n, ready, found, eligible)
          PROVE  Goal
      <3> DEFINE seen == [worker[w] EXCEPT !.sequence = n, !.ready = ready,
                                           !.fresh = ready \/ worker[w].fresh]
      <3>1. worker' = [worker EXCEPT ![w] = seen]
        BY <2>3 DEF ReportGpuInventory
      <3>2. seen.session = worker[w].session /\ seen.engine_id = worker[w].engine_id
        BY <2>0 DEF WorkerRow
      <3> HIDE DEF seen, w
      <3> QED BY <1>2, <2>0, <3>1, <3>2
    <2>4. ASSUME NEW r \in Runs, NEW a \in AttemptIds, Assign(g, r, a) PROVE Goal
      BY <1>1, <2>4 DEF Assign
    <2>5. ASSUME NEW a \in AttemptIds, ReportRuntime(g, a) \/ ReportStopped(g, a)
          PROVE  Goal
      BY <1>1, <2>5 DEF ReportRuntime, ReportStopped
    <2> QED BY <1>3, <2>1, <2>2, <2>3, <2>4, <2>5 DEF Agent
  <1>4. ASSUME NEW w \in Workers, NEW drained \in BOOLEAN,
               DrainWorker(w, drained) \/ WorkerLapses(w) \/ InventoryLapses(w)
        PROVE  Goal
    <2>1. worker[w] \in WorkerRow
      BY <1>0
    <2> DEFINE drain == [worker[w] EXCEPT !.drained = drained]
               lapse == [worker[w] EXCEPT !.available = FALSE]
               stale == [worker[w] EXCEPT !.fresh = FALSE]
    <2>2. \E row \in {drain, lapse, stale} : worker' = [worker EXCEPT ![w] = row]
      BY <1>4 DEF DrainWorker, WorkerLapses, InventoryLapses
    <2>3. \A row \in {drain, lapse, stale} :
            row.session = worker[w].session /\ row.engine_id = worker[w].engine_id
      <3>1. drain.session = worker[w].session /\ drain.engine_id = worker[w].engine_id
        BY <2>1, ColumnsKeepSession
      <3>2. lapse.session = worker[w].session /\ lapse.engine_id = worker[w].engine_id
        BY <2>1, ColumnsKeepSession
      <3>3. stale.session = worker[w].session /\ stale.engine_id = worker[w].engine_id
        BY <2>1, ColumnsKeepSession
      <3> HIDE DEF drain, lapse, stale
      <3> QED BY <3>1, <3>2, <3>3
    <2> HIDE DEF drain, lapse, stale
    <2> QED BY <1>2, <2>2, <2>3
  <1>5. UNCHANGED dockerVars \/ UNCHANGED vars => UNCHANGED worker
    BY DEF dockerVars, vars
  <1> QED BY <1>1, <1>3, <1>4, <1>5 DEF DockerNext, Goal

\* While attempts await cleanup on a worker, its agent is only replaced by one
\* on the same Docker engine (register_worker), provided that every agent
\* supports GPUs: without, the recorded engine is empty and compares with
\* nothing.
THEOREM EngineKept ==
  ASSUME AllCapable
  PROVE  DockerSpec => EnginePinned
  <1> USE DockerAssumption
  <1>1. DockerInit => EngineRecorded
    BY DEF DockerInit, NoWorker, EngineRecorded
  <1>2. DockerTypeOK /\ EngineRecorded /\ [DockerNext]_vars =>
          /\ EngineRecorded'
          /\ [\A w \in Workers :
                /\ Pending(w) # {}
                /\ worker[w].session # None
                => AgentConfig[worker'[w].session].engine
                     = AgentConfig[worker[w].session].engine]_vars
    BY EngineStep DEF PinnedStep
  <1> QED BY <1>1, <1>2, DockerTypeCorrect, PTL DEF DockerSpec, EnginePinned
=============================================================================
