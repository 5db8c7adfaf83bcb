----------------------------- MODULE DockerStore -----------------------------
(***************************************************************************)
(* The store of a Docker deployment: AttemptStore, with its nondeterminate *)
(* placement replaced by what src/postgres/{workers,gpus}.cpp decide from  *)
(* the rows of workers, gpu_devices and attempt_gpus.  Each transaction    *)
(* here locks the worker's row first, so those of one worker are serial.   *)
(*                                                                         *)
(* An agent is one process of runyard-agent: it acts for a fixed worker    *)
(* with one random session, and an older process of the same worker may    *)
(* still be running, its calls arriving at any time.  One resource stands  *)
(* for both CPU and memory, which the code treats alike.                   *)
(***************************************************************************)
EXTENDS AttemptStore, FiniteSetsExt

CONSTANTS
  Agents,         \* agent processes
  AgentConfig,    \* AgentConfig[g]: worker, engine, capable and capacity of g
  Devices,        \* GPU UUIDs: numbers, in the order of the text
  MaxInventories, \* bound: inventory reports per session
  Attended        \* bound: attempts whose runner calls the store

ASSUME DockerAssumption ==
  /\ \A g \in Agents : /\ AgentConfig[g].worker \in Workers
                       /\ AgentConfig[g].capable \in BOOLEAN
                       /\ AgentConfig[g].capacity \in Nat \ {0}
  /\ Kubernetes \notin Workers
  /\ None \notin Agents
  /\ Devices \subseteq Nat /\ IsFiniteSet(Devices)
  /\ MaxInventories \in Nat /\ Attended \subseteq AttemptIds
  /\ \A s \in Specs : s.cpu \in Nat \ {0} /\ s.gpu_count \in Nat

VARIABLES
  worker,     \* worker[w]: the row of workers
  device,     \* device[d]: the row of gpu_devices
  allocation, \* allocation[a]: the rows of attempt_gpus for attempt a
  runtime     \* runtime[a]: attempts.runtime_id is set

dockerVars == <<worker, device, allocation, runtime>>
vars == <<run, attempt, events, granted, accepted, monitor,
          worker, device, allocation, runtime>>

-----------------------------------------------------------------------------
NoWorker == [session |-> None, available |-> FALSE, drained |-> FALSE,
             capacity |-> 0, engine_id |-> None, capable |-> FALSE,
             ready |-> FALSE, fresh |-> FALSE, sequence |-> 0]

NoDevice == [owner |-> None, present |-> FALSE, eligible |-> FALSE]

DockerInit ==
  /\ Init
  /\ worker = [w \in Workers |-> NoWorker]
  /\ device = [d \in Devices |-> NoDevice]
  /\ allocation = [a \in AttemptIds |-> [uuids |-> {}, released |-> FALSE]]
  /\ runtime = [a \in AttemptIds |-> FALSE]

WorkerOf(g) == AgentConfig[g].worker

\* require_worker: only the session registered last may act for the worker.
RequireWorker(g) == worker[WorkerOf(g)].session = g

\* Attempts whose runtime on w has not been confirmed gone.
Pending(w) ==
  {a \in AttemptIds : Exists(a) /\ attempt[a].worker = w /\ attempt[a].cleanup = "PENDING"}

Reserved(w) == MapThenSumSet(LAMBDA a : RunOf(a).spec.cpu, Pending(w))

\* An agent without GPU support registers with an empty engine id.
EngineId(g) == IF AgentConfig[g].capable THEN AgentConfig[g].engine ELSE None

\* Mutant: the engine id is not compared.
RegisterWorkerAnywhere(g) ==
  LET w == WorkerOf(g)
  IN /\ worker' = [worker EXCEPT ![w] =
          [session |-> g, available |-> TRUE, drained |-> @.drained,
           capacity |-> AgentConfig[g].capacity, engine_id |-> EngineId(g),
           capable |-> AgentConfig[g].capable, ready |-> FALSE,
           fresh |-> FALSE, sequence |-> 0]]
     /\ UNCHANGED <<storeVars, device, allocation, runtime>>

\* register_worker: refused only if the engine id recorded before is not
\* empty, differs, and attempts of the worker await cleanup.
RegisterWorker(g) ==
  LET w == WorkerOf(g)
      old == worker[w].engine_id
  IN /\ \/ old = None
        \/ old = EngineId(g)
        \/ Pending(w) = {}
     /\ worker' = [worker EXCEPT ![w] =
          [session |-> g, available |-> TRUE, drained |-> @.drained,
           capacity |-> AgentConfig[g].capacity, engine_id |-> EngineId(g),
           capable |-> AgentConfig[g].capable, ready |-> FALSE,
           fresh |-> FALSE, sequence |-> 0]]
     /\ UNCHANGED <<storeVars, device, allocation, runtime>>

WorkerHeartbeat(g) ==
  /\ RequireWorker(g)
  /\ worker' = [worker EXCEPT ![WorkerOf(g)].available = TRUE]
  /\ UNCHANGED <<storeVars, device, allocation, runtime>>

DrainWorker(w, drained) ==
  /\ worker[w].session # None
  /\ worker' = [worker EXCEPT ![w].drained = drained]
  /\ UNCHANGED <<storeVars, device, allocation, runtime>>

\* report_gpu_inventory with the devices found and, of these, the eligible
\* ones.  Failed discovery changes readiness only; a UUID of another worker
\* rolls the whole report back.
ReportGpuInventory(g, sequence, ready, found, eligible) ==
  LET w == WorkerOf(g)
      Seen(d) == [owner |-> w, present |-> TRUE, eligible |-> d \in eligible]
      Unseen(d) == [device[d] EXCEPT
                      !.present = @ /\ device[d].owner # w]
  IN /\ RequireWorker(g)
     /\ worker[w].capable
     /\ sequence > worker[w].sequence
     /\ \A d \in found : device[d].owner \in {None, w}
     /\ device' = IF ready
                  THEN [d \in Devices |-> IF d \in found THEN Seen(d) ELSE Unseen(d)]
                  ELSE device
     /\ worker' = [worker EXCEPT ![w].sequence = sequence, ![w].ready = ready,
                                 ![w].fresh = ready \/ @]
     /\ UNCHANGED <<storeVars, allocation, runtime>>

-----------------------------------------------------------------------------
(* Assignment *)

GpuAvailable(w) == worker[w].capable /\ worker[w].ready /\ worker[w].fresh

Holds(a, d) == d \in allocation[a].uuids /\ ~allocation[a].released

\* Mutant: allocations of attempts that are over do not count.
FreeGpusOfEnded(w) ==
  {d \in Devices : /\ device[d].owner = w
                   /\ device[d].present
                   /\ device[d].eligible
                   /\ ~\E a \in AttemptIds :
                         Holds(a, d) /\ Executing(attempt[a].status)}

\* free_gpus: present, eligible and under no unreleased allocation.
FreeGpus(w) ==
  {d \in Devices : /\ device[d].owner = w
                   /\ device[d].present
                   /\ device[d].eligible
                   /\ ~\E a \in AttemptIds : Holds(a, d)}

\* Assignments on w that no agent has acknowledged with a runtime id.
Unacknowledged(w) ==
  {a \in AttemptIds : /\ Exists(a)
                      /\ attempt[a].worker = w
                      /\ RunOf(a).active = a
                      /\ attempt[a].status = "STARTING"
                      /\ ~runtime[a]
                      /\ attempt[a].launch = "valid"}

\* The ones assign gives to the agent once more, before any new work.
Replayable(w) ==
  {a \in Unacknowledged(w) : RunOf(a).spec.gpu_count = 0 \/ GpuAvailable(w)}

\* Mutant: only what executes counts, not what awaits cleanup.
FitsBesideExecuting(r, w) ==
  LET s == run[r].spec
      devices == IF GpuAvailable(w) THEN FreeGpus(w) ELSE {}
      executing == {a \in Pending(w) : Executing(attempt[a].status)}
  IN /\ run[r].status = "QUEUED"
     /\ run[r].available
     /\ s.gpu_count <= Cardinality(devices)
     /\ s.cpu + MapThenSumSet(LAMBDA a : RunOf(a).spec.cpu, executing)
          <= worker[w].capacity

\* Runs that fit what is left of the worker.
Fits(r, w) ==
  LET s == run[r].spec
      devices == IF GpuAvailable(w) THEN FreeGpus(w) ELSE {}
  IN /\ run[r].status = "QUEUED"
     /\ run[r].available
     /\ s.gpu_count <= Cardinality(devices)
     /\ s.cpu + Reserved(w) <= worker[w].capacity

\* assign, new work.  The query orders by priority but SKIPs LOCKED rows, and
\* any queued run may be locked at that moment by a concurrent cancel or
\* assign, so each fitting run may be the one.  Its devices are the first by
\* UUID.
Assign(g, r, a) ==
  LET w == WorkerOf(g)
  IN /\ RequireWorker(g)
     /\ worker[w].available
     /\ Replayable(w) = {}
     /\ ~worker[w].drained
     /\ Fits(r, w)
     /\ Place(r, a, w)
     /\ allocation' = [allocation EXCEPT ![a] =
          [uuids |-> FirstOf(FreeGpus(w), run[r].spec.gpu_count),
           released |-> FALSE]]
     /\ UNCHANGED <<worker, device, runtime>>

\* runtime_report, not stopped: the container exists.
ReportRuntime(g, a) ==
  /\ RequireWorker(g)
  /\ Exists(a)
  /\ attempt[a].worker = WorkerOf(g)
  /\ runtime' = [runtime EXCEPT ![a] = TRUE]
  /\ UNCHANGED <<storeVars, worker, device, allocation>>

\* Mutants: cleanup of an active attempt is accepted; the devices stay
\* reserved when it is confirmed.
ReportStoppedEarly(g, a) ==
  /\ RequireWorker(g)
  /\ Exists(a)
  /\ attempt[a].worker = WorkerOf(g)
  /\ attempt' = [attempt EXCEPT ![a].cleanup = "DONE"]
  /\ allocation' = [allocation EXCEPT ![a].released = TRUE]
  /\ UNCHANGED <<run, events, granted, accepted, monitor, worker, device, runtime>>

ReportStoppedKeepingGpus(g, a) ==
  /\ RequireWorker(g)
  /\ Exists(a)
  /\ attempt[a].worker = WorkerOf(g)
  /\ ~Executing(attempt[a].status)
  /\ attempt' = [attempt EXCEPT ![a].cleanup = "DONE"]
  /\ UNCHANGED <<run, events, granted, accepted, monitor, worker, device,
                 allocation, runtime>>

\* runtime_report, stopped: the container is gone; refused for an attempt
\* that is still active.
ReportStopped(g, a) ==
  /\ RequireWorker(g)
  /\ Exists(a)
  /\ attempt[a].worker = WorkerOf(g)
  /\ ~Executing(attempt[a].status)
  /\ attempt' = [attempt EXCEPT ![a].cleanup = "DONE"]
  /\ allocation' = [allocation EXCEPT ![a].released = TRUE]
  /\ UNCHANGED <<run, events, granted, accepted, monitor, worker, device, runtime>>

\* The worker misses its heartbeats; its inventory grows 30 seconds old.
WorkerLapses(w) ==
  /\ worker[w].available
  /\ worker' = [worker EXCEPT ![w].available = FALSE]
  /\ UNCHANGED <<storeVars, device, allocation, runtime>>

InventoryLapses(w) ==
  /\ worker[w].fresh
  /\ worker' = [worker EXCEPT ![w].fresh = FALSE]
  /\ UNCHANGED <<storeVars, device, allocation, runtime>>

-----------------------------------------------------------------------------
Agent(g) ==
  \/ RegisterWorker(g)
  \/ WorkerHeartbeat(g)
  \/ \E n \in 1..MaxInventories, ready \in BOOLEAN, found \in SUBSET Devices :
       \E eligible \in SUBSET found :
         /\ ready \/ found = {}
         /\ ReportGpuInventory(g, n, ready, found, eligible)
  \/ \E r \in Runs, a \in AttemptIds : Assign(g, r, a)
  \/ \E a \in AttemptIds : ReportRuntime(g, a) \/ ReportStopped(g, a)

\* The transactions of AttemptStore that do not touch a worker.
Unplaced ==
  \/ \E r \in Runs, s \in Specs : Submit(r, s)
  \/ \E parent, r \in Runs : Rerun(parent, r)
  \/ \E a \in Attended, i \in Instances : Runner(a, i)
  \/ \E r \in Runs : Cancel(r)
  \/ \E m \in Servers : Recover(m) \/ RecoverAbort(m)
  \/ Time

DockerNext ==
  \/ \E g \in Agents : Agent(g)
  \/ \E w \in Workers, drained \in BOOLEAN : DrainWorker(w, drained)
  \/ \E w \in Workers : WorkerLapses(w) \/ InventoryLapses(w)
  \/ Unplaced /\ UNCHANGED dockerVars

DockerSpec == DockerInit /\ [][DockerNext]_vars

-----------------------------------------------------------------------------
(* Properties *)

\* The worker, device and allocation rows have the shape of their tables.
DockerTypeOK ==
  /\ worker \in [Workers -> [session : Agents \cup {None}, available : BOOLEAN,
                             drained : BOOLEAN, capacity : Nat,
                             engine_id : {AgentConfig[g].engine : g \in Agents} \cup {None},
                             capable : BOOLEAN, ready : BOOLEAN, fresh : BOOLEAN,
                             sequence : 0..MaxInventories]]
  /\ device \in [Devices -> [owner : Workers \cup {None}, present : BOOLEAN,
                             eligible : BOOLEAN]]
  /\ allocation \in [AttemptIds -> [uuids : SUBSET Devices, released : BOOLEAN]]
  /\ runtime \in [AttemptIds -> BOOLEAN]

\* No GPU is reserved for two attempts, however cancellations, retries,
\* restarts of agents and inventory changes interleave: the unique index
\* gpu_exclusive_allocation never has to reject an assignment.
GpuExclusive ==
  \A a, b \in AttemptIds : \A d \in Devices : Holds(a, d) /\ Holds(b, d) => a = b

\* An attempt holds as many devices of its own worker as its run asked for,
\* from assignment until its cleanup is confirmed, and none afterwards.
GpuHeldUntilCleanup ==
  \A a \in AttemptIds :
    Exists(a) =>
      /\ Cardinality(allocation[a].uuids) = RunOf(a).spec.gpu_count
      /\ \A d \in allocation[a].uuids : device[d].owner = attempt[a].worker
      /\ allocation[a].released <=> attempt[a].cleanup = "DONE"

\* A reservation is only added to a worker whose registered capacity covers
\* it together with everything not yet cleaned up (a worker may register a
\* smaller capacity later, which takes nothing away from running attempts).
NeverOversubscribed ==
  [][\A w \in Workers :
       Reserved(w)' > Reserved(w) => Reserved(w)' <= worker'[w].capacity]_vars

\* The Docker store is an AttemptStore: it adds when and where attempts are
\* placed and who may confirm their cleanup, and changes nothing else.
ImplementsAttemptStore == Spec

\* "A worker cannot change Docker engines while it has pending cleanup"
\* (docs/GPU.md): the agent in charge of a worker with unresolved attempts
\* is never replaced by one on another engine.
EnginePinned ==
  [][\A w \in Workers :
       /\ Pending(w) # {}
       /\ worker[w].session # None
       => AgentConfig[worker'[w].session].engine
            = AgentConfig[worker[w].session].engine]_vars

\* "An unacknowledged assignment is returned again before new work is
\* assigned" (docs/ARCHITECTURE.md): no attempt is created on a worker that
\* still has an unacknowledged one.
ReplayBeforeNewWork ==
  [][\A a \in AttemptIds :
       ~Exists(a) /\ Exists(a)' => Unacknowledged(attempt'[a].worker) = {}]_vars
=============================================================================
