-------------------------- MODULE KubernetesControl --------------------------
(***************************************************************************)
(* A Kubernetes deployment: AttemptStore with the dispatch thread of each  *)
(* server (application/kubernetes.cpp), the advisory lock that makes one   *)
(* of them the leader (postgres/leadership.cpp) and the Jobs and Pods that *)
(* the controller creates, observes and deletes (execution/kubernetes.cpp).*)
(*                                                                         *)
(* tick() is split wherever something else may happen: it lists attempts,  *)
(* lists Jobs, and then alternates between calls to the cluster and        *)
(* transactions, deciding from the lists.  Calls to the cluster fail, and  *)
(* a create request whose caller gave up may be executed later.            *)
(***************************************************************************)
EXTENDS AttemptStore

CONSTANTS
  MaxActive,   \* RUNYARD_MAX_ACTIVE_JOBS
  AdmitBatch,  \* admissions per tick (4)
  Late         \* attempts whose create request may be executed after its timeout

ASSUME KubernetesAssumption ==
  /\ Workers = {Kubernetes}
  /\ MaxActive \in Nat \ {0}
  /\ AdmitBatch \in Nat \ {0}
  /\ None \notin AttemptIds
  /\ None \notin Servers

VARIABLES
  runtime,   \* runtime[a]: attempts.runtime_id is set
  tick,      \* tick[m]: where server m's dispatch thread is
  ready,     \* ready[m]: Leadership::ready_
  link,      \* link[m]: the connection of Leadership
  holder,    \* the server whose session holds the advisory lock
  job,       \* job[a]: the Job runyard-a
  pod,       \* pod[a]: a Pod labelled with a exists
  inflight   \* inflight[a]: a create request the caller no longer waits for

clusterVars == <<job, pod, inflight>>
leaderVars == <<ready, link, holder>>
kubernetesVars == <<runtime, tick, ready, link, holder, job, pod, inflight>>
vars == <<run, attempt, events, granted, accepted, monitor,
          runtime, tick, ready, link, holder, job, pod, inflight>>

-----------------------------------------------------------------------------
\* The local variables of tick(): what to do with each attempt on the list,
\* unknown Jobs, the attempt at hand, and the admissions so far.
Idle == [pc |-> "idle", plan |-> << >>, orphans |-> {}, current |-> None,
         admitted |-> 0]

KubernetesInit ==
  /\ Init
  /\ runtime = [a \in AttemptIds |-> FALSE]
  /\ tick = [m \in Servers |-> Idle]
  /\ ready = [m \in Servers |-> FALSE]
  /\ link = [m \in Servers |-> "none"]
  /\ holder = None
  /\ job = [a \in AttemptIds |-> "absent"]
  /\ pod = [a \in AttemptIds |-> FALSE]
  /\ inflight = [a \in AttemptIds |-> FALSE]

-----------------------------------------------------------------------------
(* Leadership::refresh, called by the monitor thread before each recover() *)

BetweenCalls(m) == monitor[m].pc = "requeue"

\* Mutant: ready_ survives a new connection, and the lock is not taken again.
RefreshKeepingReady(m) ==
  /\ BetweenCalls(m)
  /\ ~(link[m] = "open" /\ ready[m])
  /\ link' = [link EXCEPT ![m] = "open"]
  /\ ready' = [ready EXCEPT ![m] = @ \/ holder = None]
  /\ holder' = IF holder = None /\ ~ready[m] THEN m ELSE holder
  /\ UNCHANGED <<storeVars, runtime, tick, clusterVars>>

\* A new connection if there is none, and an attempt to take the lock.  (A
\* leader whose session is intact only pings.)
Refresh(m) ==
  /\ BetweenCalls(m)
  /\ ~(link[m] = "open" /\ ready[m])
  /\ link' = [link EXCEPT ![m] = "open"]
  /\ ready' = [ready EXCEPT ![m] = holder = None]
  /\ holder' = IF holder = None THEN m ELSE holder
  /\ UNCHANGED <<storeVars, runtime, tick, clusterVars>>

\* The query on a broken connection fails.
RefreshFails(m) ==
  /\ BetweenCalls(m)
  /\ link[m] = "broken"
  /\ link' = [link EXCEPT ![m] = "none"]
  /\ ready' = [ready EXCEPT ![m] = FALSE]
  /\ UNCHANGED <<storeVars, runtime, tick, holder, clusterVars>>

\* The database ends the session and with it the lock; the server learns of
\* it from the next refresh.
LinkBreaks(m) ==
  /\ link[m] = "open"
  /\ link' = [link EXCEPT ![m] = "broken"]
  /\ holder' = IF holder = m THEN None ELSE holder
  /\ UNCHANGED <<storeVars, runtime, tick, ready, clusterVars>>

\* The process dies and is started again.
Crash(m) ==
  /\ monitor' = [monitor EXCEPT ![m] = [pc |-> "requeue", todo |-> {}]]
  /\ tick' = [tick EXCEPT ![m] = Idle]
  /\ ready' = [ready EXCEPT ![m] = FALSE]
  /\ link' = [link EXCEPT ![m] = "none"]
  /\ holder' = IF holder = m THEN None ELSE holder
  /\ UNCHANGED <<run, attempt, events, granted, accepted, runtime, clusterVars>>

-----------------------------------------------------------------------------
(* The cluster (external) and the backend's calls                          *)

\* The Job controller starts the Pod; the Pod ends and the Job is finished.
PodStarts(a) ==
  /\ job[a] = "active"
  /\ ~pod[a]
  /\ pod' = [pod EXCEPT ![a] = TRUE]
  /\ UNCHANGED <<storeVars, runtime, tick, leaderVars, job, inflight>>

JobFinishes(a) ==
  /\ job[a] = "active"
  /\ job' = [job EXCEPT ![a] = "finished"]
  /\ UNCHANGED <<storeVars, runtime, tick, leaderVars, pod, inflight>>

\* Somebody else deletes the Job, its Pod staying behind for a while.
JobLost(a) ==
  /\ job[a] \in {"active", "finished"}
  /\ job' = [job EXCEPT ![a] = "absent"]
  /\ UNCHANGED <<storeVars, runtime, tick, leaderVars, pod, inflight>>

\* A Pod that nothing keeps terminates, and the Job being deleted goes with it.
Collected(a) ==
  /\ \/ job[a] = "deleting"
     \/ job[a] = "absent" /\ pod[a]
  /\ job' = [job EXCEPT ![a] = "absent"]
  /\ pod' = [pod EXCEPT ![a] = FALSE]
  /\ UNCHANGED <<storeVars, runtime, tick, leaderVars, inflight>>

\* The request nobody waits for is executed, or dropped.
LateCreate(a) ==
  /\ inflight[a]
  /\ inflight' = [inflight EXCEPT ![a] = FALSE]
  /\ job' \in {job, [job EXCEPT ![a] = IF @ = "absent" THEN "active" ELSE @]}
  /\ UNCHANGED <<storeVars, runtime, tick, leaderVars, pod>>

\* ensure: the Job is found or created.
Ensure(a) ==
  /\ job' = [job EXCEPT ![a] = IF @ = "absent" THEN "active" ELSE @]
  /\ UNCHANGED <<pod, inflight>>

\* ensure throws: the request or its answer was lost, or the request is
\* still under way.
EnsureFails(a) ==
  \/ UNCHANGED clusterVars
  \/ Ensure(a)
  \/ /\ a \in Late
     /\ job[a] = "absent"
     /\ inflight' = [inflight EXCEPT ![a] = TRUE]
     /\ UNCHANGED <<job, pod>>

\* Mutant: the Pods are not looked at.
RemoveIgnoringPods(a) ==
  /\ job' = [job EXCEPT ![a] = "absent"]
  /\ UNCHANGED <<pod, inflight>>

\* remove returns: Job and Pods were seen gone.  Deletion is in the
\* foreground, so this may have taken place during the call.
Remove(a) ==
  /\ job[a] = "absent" => ~pod[a]
  /\ job' = [job EXCEPT ![a] = "absent"]
  /\ pod' = [pod EXCEPT ![a] = FALSE]
  /\ UNCHANGED inflight

\* remove throws: the cluster was not reached, or something is still there.
RemoveFails(a) ==
  /\ \/ UNCHANGED job
     \/ /\ job[a] # "absent"
        /\ job' = [job EXCEPT ![a] = "deleting"]
  /\ UNCHANGED <<pod, inflight>>

\* has_stopped.
HasStopped(a) == job[a] \in {"absent", "finished"}

-----------------------------------------------------------------------------
(* KubernetesController::tick *)

Pending(w) ==
  {a \in AttemptIds : Exists(a) /\ attempt[a].worker = w /\ attempt[a].cleanup = "PENDING"}

\* Mutant: only attempts that a runner has claimed are watched.
PlanForClaimed(a) ==
  CASE ~Executing(attempt[a].status) -> "remove"
    [] attempt[a].status \in {"RUNNING", "FINALIZING"} -> "watch"
    [] OTHER -> "launch"

\* What tick() is going to do with an attempt, from the row it has read.
PlanFor(a) ==
  CASE ~Executing(attempt[a].status) -> "remove"
    [] Executing(attempt[a].status) /\ ~runtime[a] -> "launch"
    [] OTHER -> "watch"

Set(m, local) == tick' = [tick EXCEPT ![m] = local]

\* kubernetes_attempts: one read, from which the rest of the tick decides.
TickRead(m) ==
  /\ tick[m].pc = "idle"
  /\ ready[m]
  /\ Set(m, [Idle EXCEPT !.pc = "inventory",
                         !.plan = [a \in Pending(Kubernetes) |-> PlanFor(a)]])
  /\ UNCHANGED <<storeVars, runtime, leaderVars, clusterVars>>

\* Mutants: unknown Jobs are left alone; an attempt without a recorded
\* runtime accounts for no Job.
OrphansKept(m) == {}

OrphansByRuntime(m) ==
  {a \in AttemptIds : job[a] # "absent"}
    \ {a \in DOMAIN tick[m].plan : tick[m].plan[a] # "launch"}

\* The Jobs no attempt on the list accounts for.
Orphans(m) == {a \in AttemptIds : job[a] # "absent"} \ DOMAIN tick[m].plan

TickInventory(m) ==
  /\ tick[m].pc = "inventory"
  /\ Set(m, [tick[m] EXCEPT !.orphans = Orphans(m),
               !.pc = IF Orphans(m) = {} THEN "attempts" ELSE "orphans"])
  /\ UNCHANGED <<storeVars, runtime, leaderVars, clusterVars>>

\* An exception here is not caught inside tick(): it ends the tick.
TickOrphan(m, a) ==
  LET rest == tick[m].orphans \ {a}
  IN /\ tick[m].pc = "orphans"
     /\ a \in tick[m].orphans
     /\ \/ /\ Remove(a)
           /\ Set(m, [tick[m] EXCEPT !.orphans = rest,
                        !.pc = IF rest = {} THEN "attempts" ELSE "orphans"])
        \/ /\ RemoveFails(a)
           /\ Set(m, Idle)
     /\ UNCHANGED <<storeVars, runtime, leaderVars>>

Without(m, a) ==
  [b \in DOMAIN tick[m].plan \ {a} |-> tick[m].plan[b]]

\* The call to the cluster for the next attempt on the list.  An exception
\* is caught and the next attempt's turn comes.
TickAttempt(m, a) ==
  LET plan == tick[m].plan
  IN /\ tick[m].pc = "attempts"
     /\ a \in DOMAIN plan
     /\ \A b \in DOMAIN plan : a <= b
     /\ \/ /\ \/ plan[a] = "remove" /\ Remove(a)
              \/ plan[a] = "launch" /\ Ensure(a)
              \/ plan[a] = "watch" /\ HasStopped(a) /\ UNCHANGED clusterVars
           /\ Set(m, [tick[m] EXCEPT !.pc = "commit", !.current = a])
        \/ /\ \/ plan[a] = "remove" /\ RemoveFails(a)
              \/ plan[a] = "launch" /\ EnsureFails(a)
              \/ plan[a] = "watch" /\ UNCHANGED clusterVars
           /\ Set(m, [tick[m] EXCEPT !.plan = Without(m, a)])
     /\ UNCHANGED <<storeVars, runtime, leaderVars>>

\* Mutant: what the tick saw is recorded without another look at the rows.
TickCommitUnseen(m) ==
  LET a == tick[m].current
  IN /\ tick[m].pc = "commit"
     /\ attempt' = [attempt EXCEPT ![a].status = "FAILED",
                                   ![a].reason = "RUNTIME_STOPPED"]
     /\ Set(m, [tick[m] EXCEPT !.pc = "attempts", !.current = None,
                               !.plan = Without(m, a)])
     /\ UNCHANGED <<run, events, granted, accepted, monitor, runtime,
                    leaderVars, clusterVars>>

\* The transaction that records what the call found: kubernetes_runtime
\* (removed, or with the Job's uid) or kubernetes_stopped, which leaves an
\* attempt alone that is no longer active.
TickCommit(m) ==
  LET a == tick[m].current
      what == tick[m].plan[a]
  IN /\ tick[m].pc = "commit"
     /\ \/ what = "remove" /\ CleanupDone(a) /\ UNCHANGED runtime
        \/ /\ what = "launch"
           /\ runtime' = [runtime EXCEPT ![a] = TRUE]
           /\ UNCHANGED storeVars
        \/ what = "watch" /\ RuntimeStopped(a) /\ UNCHANGED runtime
        \/ /\ what = "watch"
           /\ ~(RunOf(a).active = a /\ Executing(attempt[a].status))
           /\ UNCHANGED <<storeVars, runtime>>
     /\ Set(m, [tick[m] EXCEPT !.pc = "attempts", !.current = None,
                               !.plan = Without(m, a)])
     /\ UNCHANGED <<leaderVars, clusterVars>>

\* Mutant: only attempts that execute are counted.
RoomForExecuting ==
  Cardinality({a \in Pending(Kubernetes) : Executing(attempt[a].status)}) < MaxActive

\* The count of admit_kubernetes, serialized by its advisory lock.
Room == Cardinality(Pending(Kubernetes)) < MaxActive

\* admit_kubernetes; SKIP LOCKED makes any queued run the possible choice.
TickAdmit(m, r, a) ==
  /\ tick[m].pc = "attempts"
  /\ DOMAIN tick[m].plan = {}
  /\ tick[m].admitted < AdmitBatch
  /\ Room
  /\ Place(r, a, Kubernetes)
  /\ Set(m, [tick[m] EXCEPT !.pc = "launch", !.current = a, !.admitted = @ + 1])
  /\ UNCHANGED <<runtime, leaderVars, clusterVars>>

\* launch of an admitted attempt; an exception ends the tick.
TickLaunch(m) ==
  LET a == tick[m].current
  IN /\ tick[m].pc = "launch"
     /\ \/ Ensure(a) /\ Set(m, [tick[m] EXCEPT !.pc = "launched"])
        \/ EnsureFails(a) /\ Set(m, Idle)
     /\ UNCHANGED <<storeVars, runtime, leaderVars>>

TickLaunched(m) ==
  /\ tick[m].pc = "launched"
  /\ runtime' = [runtime EXCEPT ![tick[m].current] = TRUE]
  /\ Set(m, [tick[m] EXCEPT !.pc = "attempts", !.current = None])
  /\ UNCHANGED <<storeVars, leaderVars, clusterVars>>

\* Enough admissions, or the last one found nothing (a queued run may be
\* locked by somebody else at that moment).
TickEnd(m) ==
  /\ tick[m].pc = "attempts"
  /\ DOMAIN tick[m].plan = {}
  /\ Set(m, Idle)
  /\ UNCHANGED <<storeVars, runtime, leaderVars, clusterVars>>

\* A transaction fails, or the list of Jobs cannot be read.  For an attempt
\* of the list the exception is caught, otherwise it ends the tick.
TickFails(m) ==
  /\ \/ tick[m].pc \in {"inventory", "launched"} /\ Set(m, Idle)
     \/ /\ tick[m].pc = "commit"
        /\ Set(m, [tick[m] EXCEPT !.pc = "attempts", !.current = None,
                                  !.plan = Without(m, tick[m].current)])
  /\ UNCHANGED <<storeVars, runtime, leaderVars, clusterVars>>

Tick(m) ==
  \/ TickRead(m)
  \/ TickInventory(m)
  \/ \E a \in AttemptIds : TickOrphan(m, a) \/ TickAttempt(m, a)
  \/ TickCommit(m)
  \/ \E r \in Runs, a \in AttemptIds : TickAdmit(m, r, a)
  \/ TickLaunch(m)
  \/ TickLaunched(m)
  \/ TickEnd(m)
  \/ TickFails(m)

-----------------------------------------------------------------------------
Leader(m) ==
  \/ Refresh(m)
  \/ RefreshFails(m)
  \/ LinkBreaks(m)
  \/ Crash(m)

Cluster(a) ==
  \/ PodStarts(a)
  \/ JobFinishes(a)
  \/ JobLost(a)
  \/ Collected(a)
  \/ LateCreate(a)

\* The transactions of AttemptStore that neither place nor clean up.
\* recover() is only called by a server that leads.
Unplaced ==
  \/ \E r \in Runs, s \in Specs : Submit(r, s)
  \/ \E parent, r \in Runs : Rerun(parent, r)
  \/ \E a \in AttemptIds, i \in Instances : Runner(a, i)
  \/ \E r \in Runs : Cancel(r)
  \/ \E m \in Servers : (ready[m] \/ ~BetweenCalls(m)) /\ (Recover(m) \/ RecoverAbort(m))
  \/ Time

KubernetesNext ==
  \/ \E m \in Servers : Tick(m) \/ Leader(m)
  \/ \E a \in AttemptIds : Cluster(a)
  \/ Unplaced /\ UNCHANGED kubernetesVars

KubernetesSpec == KubernetesInit /\ [][KubernetesNext]_vars

\* The dispatch thread and the refresh of leadership go on, crashes and
\* outages come again and again but no step is cut short for ever, and a Pod
\* that is told to stop does so.
KubernetesFairness ==
  /\ \A m \in Servers :
       /\ WF_vars(Tick(m))
       /\ SF_vars(Refresh(m))
       /\ SF_vars(TickRead(m))
       /\ SF_vars(TickInventory(m))
       /\ SF_vars(TickCommit(m))
       /\ \A a \in AttemptIds :
            /\ SF_vars(TickOrphan(m, a) /\ tick'[m].pc # "idle")
            /\ SF_vars(TickAttempt(m, a) /\ tick'[m].pc = "commit")
  /\ \A a \in AttemptIds : WF_vars(Collected(a)) /\ WF_vars(LateCreate(a))

FairKubernetesSpec == KubernetesSpec /\ KubernetesFairness

-----------------------------------------------------------------------------
(* Properties *)

\* What a tick may have on its list.
Plans == UNION {[S -> {"remove", "launch", "watch"}] : S \in SUBSET AttemptIds}

TickState == [pc : {"idle", "inventory", "orphans", "attempts", "commit",
                    "launch", "launched"},
              plan : Plans, orphans : SUBSET AttemptIds,
              current : AttemptIds \cup {None}, admitted : 0..AdmitBatch]

\* The dispatch threads, the lock and the cluster have the states tick(),
\* refresh() and the Jobs API give them, and a tick that is about to record
\* or launch something knows for which attempt.
KubernetesTypeOK ==
  /\ runtime \in [AttemptIds -> BOOLEAN]
  /\ tick \in [Servers -> TickState]
  /\ \A m \in Servers :
       /\ tick[m].pc \in {"launch", "launched"} => tick[m].current \in AttemptIds
       /\ tick[m].pc = "commit" => tick[m].current \in DOMAIN tick[m].plan
  /\ ready \in [Servers -> BOOLEAN]
  /\ link \in [Servers -> {"none", "open", "broken"}]
  /\ holder \in Servers \cup {None}
  /\ job \in [AttemptIds -> {"absent", "active", "finished", "deleting"}]
  /\ pod \in [AttemptIds -> BOOLEAN]
  /\ inflight \in [AttemptIds -> BOOLEAN]

\* RUNYARD_MAX_ACTIVE_JOBS bounds the attempts whose Jobs may exist, ended
\* ones included, also while two servers believe they lead.
AdmissionBounded == Cardinality(Pending(Kubernetes)) <= MaxActive

\* With one server, whatever crashes and fails, cleanup is confirmed only
\* when neither Job nor Pod exists, and none appears later: the tick that
\* launches from an old list is never overtaken by the one that cleans up.
\* (A create request that outlives its caller is the subject of EndedIsGone.)
CleanupMeansGone ==
  \A a \in AttemptIds : attempt[a].cleanup = "DONE" => job[a] = "absent" /\ ~pod[a]

\* With one server, no tick deletes the Job of an attempt that may execute:
\* a Job not on the list is never one launched since the list was read.
LiveJobKept ==
  [][\A m \in Servers, a \in AttemptIds :
       /\ tick'[m] # tick[m]
       /\ Executing(attempt[a].status)
       /\ job[a] \in {"active", "finished"}
       => job'[a] = job[a]]_vars

\* Two servers believe they lead only while the session of one of them is
\* gone: with its session intact a leader holds the lock, however often
\* sessions end, servers crash and others try in between.
LeaderHoldsLock ==
  \A m \in Servers : ready[m] /\ link[m] = "open" => holder = m

\* The attempts of a Kubernetes deployment are those of AttemptStore: the
\* controller decides when to place, observe and clean up, and no more.
ImplementsAttemptStore == Spec

\* "A second process can answer liveness checks but cannot become ready or
\* dispatch" (docs/FAILURES.md): two servers are never inside tick() at once.
OneDispatcher ==
  \A m, n \in Servers :
    tick[m].pc # "idle" /\ tick[n].pc # "idle" => m = n

\* What an ended attempt left in the cluster goes away for good and its
\* cleanup is confirmed, also when a create request is executed after that.
EndedIsGone ==
  \A a \in AttemptIds :
    Exists(a) /\ ~Executing(attempt[a].status) ~>
      [](attempt[a].cleanup = "DONE" /\ job[a] = "absent" /\ ~pod[a])

\* An attempt is not left executing while its Job stays finished or missing,
\* even if its runner never said a word.
LostJobNoticed ==
  \A a \in AttemptIds :
    runtime[a] /\ HasStopped(a) ~> ~Executing(attempt[a].status) \/ ~HasStopped(a)
=============================================================================
