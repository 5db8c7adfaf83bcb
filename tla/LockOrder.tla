----------------------------- MODULE LockOrder -----------------------------
(***************************************************************************)
(* The locks PostgreSQL takes for the store's transactions.  The other     *)
(* modules take a transaction for one step; here it is the sequence of row *)
(* and advisory locks it asks for, each kept until the transaction ends,   *)
(* and what is checked is who can wait for whom in a circle: the rules     *)
(* stand only in comments (ownership.cpp:10, gpus.cpp:126), and the bulk   *)
(* requeue of recover() has none.  A run has one attempt here, placed on   *)
(* one worker, and a GPU is seen by one worker.                            *)
(***************************************************************************)
EXTENDS Integers, Sequences, FiniteSets, SequencesExt

CONSTANTS
  Sessions,    \* database sessions, each with one transaction at a time
  LockWorkers, \* rows of workers
  LockRuns,    \* rows of runs, each with its row of attempts
  PlacedOn,    \* run -> worker of its attempt
  GpusOf       \* worker -> number of its devices

ASSUME LockAssumption ==
  /\ IsFiniteSet(LockRuns)
  /\ PlacedOn \in [LockRuns -> LockWorkers]
  /\ GpusOf \in [LockWorkers -> Nat]

VARIABLES
  wants,       \* session -> the locks its transaction has still to take
  holds,       \* session -> the rows it has locked
  bulk         \* the sessions whose transaction is recover()'s requeue

lockVars == <<wants, holds, bulk>>

-----------------------------------------------------------------------------
(* A request is for one row, which is waited for, or for any row of a set  *)
(* that is free (FOR UPDATE SKIP LOCKED).                                  *)
Lock(table, key) == [skip |-> FALSE, rows |-> {<<table, key>>}]
AnyRun == [skip |-> TRUE, rows |-> {<<"runs", r>> : r \in LockRuns}]

\* Mutant: the attempt's row is locked before its run's.
AttemptThenRun(r) == <<Lock("attempts", r), Lock("runs", r)>>

(* pg::lock_attempt: every call of the runner, recovery, the Kubernetes    *)
(* records.                                                                *)
LockAttempt(r) == <<Lock("runs", r), Lock("attempts", r)>>

(* cancel locks the run and then updates its attempts. *)
CancelLocks(r) == <<Lock("runs", r), Lock("attempts", r)>>

(* pg::require_worker *)
WorkerLocks(w) == <<Lock("workers", w)>>

DeviceLocks(w, n) == [i \in 1..n |-> Lock("gpu_devices", <<w, i>>)]

(* report_gpu_inventory: the worker, then all its devices. *)
InventoryLocks(w) == WorkerLocks(w) \o DeviceLocks(w, GpusOf[w])

(* register_worker *)
RegisterLocks(w) == <<Lock("advisory", w)>> \o WorkerLocks(w)

(* assign and reserve_gpus: the worker, a queued run, devices by UUID. *)
AssignLocks(w, n) == WorkerLocks(w) \o <<AnyRun>> \o DeviceLocks(w, n)

(* runtime_report; rows of attempt_gpus are only touched under the lock of *)
(* their attempt.                                                          *)
RuntimeReportLocks(r) == WorkerLocks(PlacedOn[r]) \o LockAttempt(r)

(* recover(): one UPDATE without ORDER BY locks the runs that are due in   *)
(* whatever order it meets them; their events come under the same locks.   *)
RequeueLocks(runs) == [i \in 1..Len(runs) |-> Lock("runs", runs[i])]

(* admit_kubernetes *)
AdmitLocks == <<Lock("advisory", "admission"), AnyRun>>

(* rerun: the key of the request, then the foreign key of parent_run_id    *)
(* locks the old run.  submit and submit_sweep stop after the key.         *)
RerunLocks(r) == <<Lock("advisory", "key"), Lock("runs", r)>>

(* All but the requeue. *)
Transactions ==
  (UNION {{LockAttempt(r), CancelLocks(r), RuntimeReportLocks(r), RerunLocks(r)} :
            r \in LockRuns})
  \cup (UNION {{InventoryLocks(w), RegisterLocks(w)} : w \in LockWorkers})
  \cup (UNION {{AssignLocks(w, n) : n \in 0..GpusOf[w]} : w \in LockWorkers})
  \cup {AdmitLocks}

-----------------------------------------------------------------------------
LocksInit ==
  /\ wants = [s \in Sessions |-> <<>>]
  /\ holds = [s \in Sessions |-> {}]
  /\ bulk = {}

BeginTransaction(s) ==
  /\ wants[s] = <<>> /\ holds[s] = {}
  /\ \E t \in Transactions : wants' = [wants EXCEPT ![s] = t]
  /\ bulk' = bulk \ {s}
  /\ UNCHANGED holds

(* Any of the runs may be due, in any order. *)
BeginRequeue(s) ==
  /\ wants[s] = <<>> /\ holds[s] = {}
  /\ \E runs \in SetToAllKPermutations(LockRuns) \ {<<>>} :
       wants' = [wants EXCEPT ![s] = RequeueLocks(runs)]
  /\ bulk' = bulk \cup {s}
  /\ UNCHANGED holds

FreeRows(s) == {row \in Head(wants[s]).rows :
                  \A o \in Sessions \ {s} : row \notin holds[o]}

TakeLock(s) ==
  /\ wants[s] # <<>>
  /\ \E row \in FreeRows(s) : holds' = [holds EXCEPT ![s] = @ \cup {row}]
  /\ wants' = [wants EXCEPT ![s] = Tail(@)]
  /\ UNCHANGED bulk

(* Commit, an exception (PostgreSQL ends one of a circle that way), a lost *)
(* connection, or no row that is not locked.                               *)
EndTransaction(s) ==
  /\ holds[s] # {} \/ wants[s] # <<>>
  /\ holds' = [holds EXCEPT ![s] = {}]
  /\ wants' = [wants EXCEPT ![s] = <<>>]
  /\ bulk' = bulk \ {s}

LocksNext ==
  \E s \in Sessions : \/ BeginTransaction(s) \/ BeginRequeue(s)
                      \/ TakeLock(s) \/ EndTransaction(s)

LocksSpec == LocksInit /\ [][LocksNext]_lockVars

-----------------------------------------------------------------------------
WaitsFor(s, o) ==
  /\ wants[s] # <<>> /\ ~Head(wants[s]).skip
  /\ s # o /\ Head(wants[s]).rows \cap holds[o] # {}

\* Everyone in the circle waits for someone in it.
Circular(circle) ==
  circle # {} /\ \A s \in circle : \E o \in circle : WaitsFor(s, o)

(* Worker calls, runner calls, cancellation, the expiry of attempts and    *)
(* admission never wait for each other in a circle, nor does one requeue   *)
(* of recover() with them: only two requeues that run at once and meet the *)
(* due runs in different orders can (recovery.cpp:22), and PostgreSQL ends *)
(* one of those.  So no call of a client or a worker is ever the one it    *)
(* aborts (the order of locks in workers.cpp:51-99, ownership.cpp:10-17,   *)
(* gpus.cpp:126-131).                                                      *)
NoCircularWait ==
  \A circle \in SUBSET Sessions :
    Circular(circle) => Circular(circle \cap bulk)

=============================================================================
