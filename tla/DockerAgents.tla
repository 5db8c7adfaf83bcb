----------------------------- MODULE DockerAgents -----------------------------
(***************************************************************************)
(* The processes of runyard-agent that act for one worker, the containers  *)
(* of its Docker engine, and as much of the store as answers them          *)
(* (src/src/agent, src/src/execution/docker.cpp, AgentRpc of               *)
(* src/src/grpc/services.cpp over src/src/postgres/workers.cpp; what those *)
(* transactions do to runs and devices is DockerStore).  Every attempt     *)
(* needs the worker's one GPU.  An agent runs its loop in steps, any of    *)
(* which may fail or lose its answer; it may end anywhere and be started   *)
(* again, in one instance perhaps before the old process has ended.        *)
(***************************************************************************)
EXTENDS Naturals, FiniteSets

CONSTANTS
  Jobs,       \* attempts the store may assign to the worker
  Strays,     \* containers of attempts this database has never heard of: there
              \* may be one on the GPU
  AgentCount, \* agent processes 1..AgentCount, started in this order
  MaxFaults   \* bound: failed steps and lost answers

ASSUME AgentConstants ==
  /\ Jobs \intersect Strays = {} /\ "none" \notin Jobs \union Strays
  /\ \A s, t \in Strays : s = t
  /\ AgentCount \in Nat \ {0} /\ MaxFaults \in Nat

VARIABLES
  overlap, \* whether an agent is started while the one before still runs
  row,     \* row[a]: the attempt as the store has it
  wrk,     \* the worker's session and whether its GPU inventory is ready
  agent,   \* agent[g]: where process g is
  box,     \* box[a]: the container runyard-a
  runs,    \* runs[a]: how often a runner was started for the attempt
  faults

agentVars == <<overlap, row, wrk, agent, box, runs, faults>>

Procs == 1 .. AgentCount
Names == Jobs \union Strays
NoBox == [state |-> "none", claimed |-> FALSE]
NotStarted == [pc |-> "off", todo |-> {}, work |-> "none", found |-> "none",
               reconciled |-> FALSE]

AgentsInit ==
  /\ overlap \in BOOLEAN
  /\ row = [a \in Names |-> [status |-> IF a \in Jobs THEN "QUEUED" ELSE "unknown",
                             cleanup |-> "PENDING", runtime |-> FALSE]]
  /\ wrk = [session |-> 0, ready |-> FALSE]
  /\ agent = [g \in Procs |-> NotStarted]
  /\ box = [a \in Names |-> IF a \in Jobs THEN NoBox
                            ELSE [state |-> "running", claimed |-> TRUE]]
  /\ runs = [a \in Names |-> 0]
  /\ faults = 0

Alive(g) == agent[g].pc \notin {"off", "dead"}
Active(a) == row[a].status \in {"STARTING", "RUNNING"}

(***************************************************************************)
(* The store, to runners and to the clock.                                 *)
(***************************************************************************)

\* The lease, a deadline or a cancellation ends the attempt.
AttemptOver(a) ==
  /\ Active(a)
  /\ row' = [row EXCEPT ![a].status = "ENDED"]
  /\ UNCHANGED <<overlap, wrk, agent, box, runs, faults>>

\* The runner of a started container claims its attempt, or is refused and
\* exits: another instance claimed it or the attempt is over.
RunnerClaims(a) ==
  /\ box[a].state = "running" /\ ~box[a].claimed
  /\ IF row[a].status = "STARTING"
     THEN /\ box' = [box EXCEPT ![a].claimed = TRUE]
          /\ row' = [row EXCEPT ![a].status = "RUNNING"]
     ELSE /\ box' = [box EXCEPT ![a].state = "exited"]
          /\ UNCHANGED row
  /\ UNCHANGED <<overlap, wrk, agent, runs, faults>>

ContainerExits(a) ==
  /\ box[a].state = "running" /\ box[a].claimed
  /\ box' = [box EXCEPT ![a].state = "exited"]
  /\ UNCHANGED <<overlap, row, wrk, agent, runs, faults>>

(***************************************************************************)
(* The life of a process: registration, and its end for whatever reason.   *)
(***************************************************************************)

\* register_worker: the session of the new process replaces the old one, and
\* no GPU is offered until it has reported.
StartAgent(g) ==
  /\ agent[g].pc = "off"
  /\ \A h \in 1 .. g - 1 : agent[h].pc = "dead" \/ (overlap /\ Alive(h))
  /\ agent' = [agent EXCEPT ![g].pc = "inventory"]
  /\ wrk' = [session |-> g, ready |-> FALSE]
  /\ UNCHANGED <<overlap, row, box, runs, faults>>

\* The last process is the one that stays.
AgentDies(g) ==
  /\ Alive(g) /\ g < AgentCount
  /\ agent' = [agent EXCEPT ![g] = [NotStarted EXCEPT !.pc = "dead"]]
  /\ UNCHANGED <<overlap, row, wrk, box, runs, faults>>

\* The heartbeat thread has been told that the session is stale: the loop ends
\* before its next iteration.
HeartbeatStale(g) ==
  /\ agent[g].pc = "inventory" /\ wrk.session # g
  /\ agent' = [agent EXCEPT ![g] = [NotStarted EXCEPT !.pc = "dead"]]
  /\ UNCHANGED <<overlap, row, wrk, box, runs, faults>>

\* report_gpus: nothing is reported before the first reconciliation.
ReportGpus(g) ==
  /\ Alive(g) /\ agent[g].reconciled /\ wrk.session = g /\ ~wrk.ready
  /\ wrk' = [wrk EXCEPT !.ready = TRUE]
  /\ UNCHANGED <<overlap, row, agent, box, runs, faults>>

(***************************************************************************)
(* The loop of run_agent.  An answer that arrives takes the process on, to *)
(* its next step; a stale session ends it; a failure takes it back to the  *)
(* top, and the server may have done what was asked.                       *)
(***************************************************************************)

Step(g, pc) == agent[g].pc = pc
ToTop(g) == [pc |-> "inventory", todo |-> {}, work |-> "none", found |-> "none",
             reconciled |-> agent[g].reconciled]
Goes(g, then) ==
  \/ agent' = [agent EXCEPT ![g] = then] /\ UNCHANGED faults
  \/ /\ faults < MaxFaults /\ faults' = faults + 1
     /\ agent' = [agent EXCEPT ![g] = ToTop(g)]
StaleSession(g) ==
  /\ agent' = [agent EXCEPT ![g] = [NotStarted EXCEPT !.pc = "dead"]]
  /\ UNCHANGED faults
Current(g) == wrk.session = g

\* A request that changes nothing may fail before it is served.
StepFails(g) ==
  /\ Alive(g) /\ ~Step(g, "inventory") /\ faults < MaxFaults
  /\ agent' = [agent EXCEPT ![g] = ToTop(g)]
  /\ faults' = faults + 1
  /\ UNCHANGED <<overlap, row, wrk, box, runs>>

ListContainers(g) ==
  /\ Step(g, "inventory")
  /\ agent' = [agent EXCEPT ![g].pc = "reconcile",
                            ![g].todo = {a \in Names : box[a].state # "none"}]
  /\ UNCHANGED <<overlap, row, wrk, box, runs, faults>>

\* Mutant: only containers of unknown attempts are stopped.
OnlyUnknown(observed) == {a \in observed : row[a].status = "unknown"}

\* reconcile: what the store does not know, or has ended, is to be stopped.
StopAttempts(observed) == {a \in observed : ~Active(a)}
Reconcile(g) ==
  /\ Step(g, "reconcile")
  /\ IF Current(g)
     THEN Goes(g, [agent[g] EXCEPT !.pc = "stop",
                                   !.todo = StopAttempts(agent[g].todo)])
     ELSE StaleSession(g)
  /\ UNCHANGED <<overlap, row, wrk, box, runs>>

\* DockerBackend::remove of one of the attempts to stop.
StopOne(g, a) ==
  /\ Step(g, "stop") /\ a \in agent[g].todo
  /\ box' = [box EXCEPT ![a] = NoBox]
  /\ Goes(g, [agent[g] EXCEPT !.todo = @ \ {a}])
  /\ UNCHANGED <<overlap, row, wrk, runs>>

StopsDone(g) ==
  /\ Step(g, "stop") /\ agent[g].todo = {}
  /\ agent' = [agent EXCEPT ![g].pc = "poll", ![g].reconciled = TRUE]
  /\ UNCHANGED <<overlap, row, wrk, box, runs, faults>>

\* Poll is two transactions: the attempts to clean up, ...
CleanupList == {a \in Jobs : row[a].status = "ENDED" /\ row[a].cleanup = "PENDING"}
PollServer(g) ==
  /\ Step(g, "poll")
  /\ IF Current(g)
     THEN Goes(g, [agent[g] EXCEPT !.pc = "assign", !.todo = CleanupList])
     ELSE StaleSession(g)
  /\ UNCHANGED <<overlap, row, wrk, box, runs>>

\* ... and the launch to repeat, or a new one while the GPU is reserved for no
\* attempt.
Replays == {a \in Jobs : row[a].status = "STARTING" /\ ~row[a].runtime}

\* Mutant: an attempt that is over no longer holds the GPU.
ReservingActive == {a \in Jobs : Active(a)}

Reserving == {a \in Jobs : row[a].cleanup = "PENDING" /\ row[a].status # "QUEUED"}
Assignable ==
  IF ~wrk.ready THEN {}
  ELSE IF Replays # {} THEN Replays
  ELSE IF Reserving # {} THEN {}
  ELSE {a \in Jobs : row[a].status = "QUEUED"}
Assign(g, a) ==
  /\ Step(g, "assign")
  /\ a \in IF Assignable = {} \/ ~Current(g) THEN {"none"} ELSE Assignable
  /\ IF Current(g)
     THEN /\ row' = IF a = "none" THEN row
                    ELSE [row EXCEPT ![a].status = "STARTING"]
          /\ Goes(g, [agent[g] EXCEPT !.pc = "clean", !.work = a])
     ELSE StaleSession(g) /\ UNCHANGED row
  /\ UNCHANGED <<overlap, wrk, box, runs>>

CleanOne(g, a) ==
  /\ Step(g, "clean") /\ a \in agent[g].todo
  /\ box' = [box EXCEPT ![a] = NoBox]
  /\ Goes(g, [agent[g] EXCEPT !.pc = "confirm", !.found = a])
  /\ UNCHANGED <<overlap, row, wrk, runs>>

\* report(id, "", true): the cleanup is over and the GPU released.
ConfirmClean(g) ==
  LET a == agent[g].found
  IN /\ Step(g, "confirm")
     /\ IF Current(g)
        THEN /\ row' = [row EXCEPT ![a].cleanup = "DONE"]
             /\ Goes(g, [agent[g] EXCEPT !.pc = "clean", !.todo = @ \ {a},
                                         !.found = "none"])
        ELSE StaleSession(g) /\ UNCHANGED row
     /\ UNCHANGED <<overlap, wrk, box, runs>>

CleansDone(g) ==
  /\ Step(g, "clean") /\ agent[g].todo = {}
  /\ agent' = [agent EXCEPT ![g] = IF agent[g].work = "none" THEN ToTop(g)
                                   ELSE [agent[g] EXCEPT !.pc = "inspect"]]
  /\ UNCHANGED <<overlap, row, wrk, box, runs, faults>>

\* DockerBackend::ensure: look for the container; pull the image, which takes
\* its time, and create it unless it is there; look again and start it.
Inspect(g) ==
  /\ Step(g, "inspect")
  /\ agent' = [agent EXCEPT ![g].pc = IF box[agent[g].work].state = "none"
                                      THEN "create" ELSE "start",
                            ![g].found = box[agent[g].work].state]
  /\ UNCHANGED <<overlap, row, wrk, box, runs, faults>>

CreateContainer(g) ==
  LET a == agent[g].work
  IN /\ Step(g, "create")
     /\ box' = IF box[a].state = "none"
               THEN [box EXCEPT ![a] = [NoBox EXCEPT !.state = "created"]]
               ELSE box
     /\ Goes(g, [agent[g] EXCEPT !.pc = "inspect"])
     /\ UNCHANGED <<overlap, row, wrk, runs>>

\* A container seen as created is started; one that has exited never is.  The
\* request may find it gone (404, an error) or already started (304).
Startable(seen) == seen = "created"
StartContainer(g) ==
  LET a == agent[g].work
      starts == Startable(agent[g].found) /\ box[a].state \in {"created", "exited"}
  IN /\ Step(g, "start")
     /\ box' = IF starts THEN [box EXCEPT ![a] = [state |-> "running",
                                                  claimed |-> FALSE]] ELSE box
     /\ runs' = IF starts THEN [runs EXCEPT ![a] = @ + 1] ELSE runs
     /\ Goes(g, IF Startable(agent[g].found) /\ box[a].state = "none"
                THEN ToTop(g) ELSE [agent[g] EXCEPT !.pc = "report"])
     /\ UNCHANGED <<overlap, row, wrk>>

\* report(id, runtime, false).
ReportLaunched(g) ==
  /\ Step(g, "report")
  /\ IF Current(g)
     THEN /\ row' = [row EXCEPT ![agent[g].work].runtime = TRUE]
          /\ Goes(g, ToTop(g))
     ELSE StaleSession(g) /\ UNCHANGED row
  /\ UNCHANGED <<overlap, wrk, box, runs>>

LoopStep(g) ==
  \/ ListContainers(g) \/ Reconcile(g)
  \/ \E a \in Names : StopOne(g, a)
  \/ StopsDone(g) \/ PollServer(g)
  \/ \E a \in Jobs \union {"none"} : Assign(g, a)
  \/ \E a \in Jobs : CleanOne(g, a)
  \/ ConfirmClean(g) \/ CleansDone(g)
  \/ Inspect(g) \/ CreateContainer(g) \/ StartContainer(g) \/ ReportLaunched(g)

AgentsNext ==
  \/ \E a \in Jobs : AttemptOver(a)
  \/ \E a \in Names : RunnerClaims(a) \/ ContainerExits(a)
  \/ \E g \in Procs : \/ StartAgent(g) \/ AgentDies(g) \/ HeartbeatStale(g)
                      \/ ReportGpus(g) \/ StepFails(g) \/ LoopStep(g)

AgentsSpec == AgentsInit /\ [][AgentsNext]_agentVars

(***************************************************************************)
(* Properties.                                                             *)
(***************************************************************************)

Running == {a \in Names : box[a].state = "running"}

\* A worker's GPU never serves two runners that own their attempts, also while
\* a replaced agent still launches from an old reply.
OneOwnerOnGpu == Cardinality({a \in Running : box[a].claimed}) <= 1

\* While no two agents of the worker run at once, no container at all is left
\* beside the one whose attempt holds the GPU.
OneContainerOnGpu == ~overlap => Cardinality(Running) <= 1

\* No runner is started twice for an attempt ("An exited runner must never be
\* restarted under the same attempt identity").
LaunchedOnce == ~overlap => \A a \in Jobs : runs[a] <= 1

\* The GPU of an attempt that has ended is given back in the end, and a
\* container launched too late is found and removed.
CleanupHappens ==
  \A a \in Jobs : row[a].status = "ENDED"
                    ~> (row[a].cleanup = "DONE" /\ box[a].state = "none")

\* One GPU serves one attempt, and an attempt is run once, however agents are
\* restarted and replaced and whatever they remember of old replies.
GpuServesOne == OneOwnerOnGpu /\ OneContainerOnGpu /\ LaunchedOnce

=============================================================================
