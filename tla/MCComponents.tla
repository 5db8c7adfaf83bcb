----------------------------- MODULE MCComponents -----------------------------
(***************************************************************************)
(* Instances of the components around the store.  They share no variable:  *)
(* a behaviour is one of a single component, the subject, and the others   *)
(* stay as they start.                                                     *)
(***************************************************************************)
EXTENDS RunnerLease, TelemetryReporter, MetricReader, DockerAgents, Submissions,
        ServerThreads, CursorReads, SpecFunctions, LockOrder,
        ArtifactPublication, TLC

CONSTANTS Subjects, a1, a2, s1, c1, c2, c3, w1, w2, r1, r2

VARIABLE subject

On(component) == subject = component

\* c3 is larger than the quota.
SizesTo3 == c1 :> 1 @@ c2 :> 2 @@ c3 :> 3

ProcessCrash == {<<"filesystem", "process">>, <<"s3", "process">>, <<"s3", "host">>}
HostCrash == {<<"filesystem", "host">>}

\* Run r1 is on a worker with two GPUs, r2 on one without.
Placement == r1 :> w1 @@ r2 :> w2
GpuNumbers == w1 :> 2 @@ w2 :> 0

\* Plain dimensions, an empty one, one without a name, one with a name or a
\* text beyond the limit, and one at the limit.
ParameterLimits == [count |-> 3, name |-> 2, text |-> 4]
SweepBases == {[bytes |-> 2, parameters |-> 1], [bytes |-> 12, parameters |-> 0]}
GridDimensions ==
  {[key |-> 1, values |-> n, largest |-> 1] : n \in 1..3}
    \cup {[key |-> k, values |-> 2, largest |-> 1] : k \in {0, 3}}
    \cup {[key |-> 1, values |-> 0, largest |-> 0], [key |-> 1, values |-> 2, largest |-> 5],
          [key |-> 2, values |-> 2, largest |-> 4]}

\* A component that is not the subject has one initial state.
Init ==
  /\ subject \in Subjects
  /\ LeaseInit /\ ReporterInit /\ ReaderInit /\ ThreadsInit /\ LocksInit
  /\ AgentsInit /\ (overlap => On("agents"))
  /\ ReadsInit /\ (On("reads") \/ reader.mode = "events")
  /\ ArtifactInit /\ (On("artifacts") \/ disk.storage = "filesystem")
  /\ SubmissionsInit /\ (On("submissions") \/ \A c, d \in Clients : req[c] = req[d]
                                               /\ req[c].kind = "rerun")
  /\ IF On("functions") THEN FunctionsInit
     ELSE input = [kind |-> "none"] /\ result = [kind |-> "none"]

\* Nothing but one component changes.
Rest(component) ==
  /\ UNCHANGED subject
  /\ component # "lease" => UNCHANGED leaseVars
  /\ component # "reporter" => UNCHANGED reporterVars
  /\ component # "reader" => UNCHANGED readerVars
  /\ component # "agents" => UNCHANGED agentVars
  /\ component # "submissions" => UNCHANGED submitVars
  /\ component # "threads" => UNCHANGED threadVars
  /\ component # "reads" => UNCHANGED readVars
  /\ component # "functions" => UNCHANGED functionVars
  /\ component # "locks" => UNCHANGED lockVars
  /\ component # "artifacts" => UNCHANGED artifactVars

Next ==
  \/ On("lease") /\ LeaseNext /\ Rest("lease")
  \/ On("reporter") /\ ReporterNext /\ Rest("reporter")
  \/ On("reader") /\ ReaderNext /\ Rest("reader")
  \/ On("agents") /\ AgentsNext /\ Rest("agents")
  \/ On("submissions") /\ SubmissionsNext /\ Rest("submissions")
  \/ On("threads") /\ ThreadsNext /\ Rest("threads")
  \/ On("reads") /\ ReadsNext /\ Rest("reads")
  \/ On("functions") /\ FunctionsNext /\ Rest("functions")
  \/ On("locks") /\ LocksNext /\ Rest("locks")
  \/ On("artifacts") /\ ArtifactNext /\ Rest("artifacts")

vars == <<subject, leaseVars, reporterVars, readerVars, agentVars, submitVars,
          threadVars, readVars, functionVars, lockVars, artifactVars>>

SafetySpec == Init /\ [][Next]_vars

\* Both threads of the runner are scheduled and time goes on; the server and
\* the child may do nothing at all.
LeaseFairness ==
  /\ WF_leaseVars(On("lease") /\ RunnerStep)
  /\ WF_leaseVars(On("lease") /\ HeartbeatStep)
  /\ WF_leaseVars(On("lease") /\ Tick)

\* Both threads of the reporter are scheduled, and a report that is tried for
\* ever is answered now and then.
ReporterFairness ==
  /\ WF_reporterVars(On("reporter") /\ SenderStep)
  /\ SF_reporterVars(On("reporter") /\ Report)
  /\ SF_reporterVars(On("reporter") /\ Acknowledged)
  /\ SF_reporterVars(On("reporter") /\ Refused)
  /\ WF_reporterVars(On("reporter") /\ (FlushWaits \/ FlushEnds))

\* An agent keeps taking steps, a dead one is started again, and the store ends
\* every attempt sooner or later.
AgentsFairness ==
  /\ \A g \in Procs : /\ WF_agentVars(On("agents") /\ LoopStep(g))
                      /\ WF_agentVars(On("agents") /\ StartAgent(g))
                      /\ WF_agentVars(On("agents") /\ HeartbeatStale(g))
                      /\ WF_agentVars(On("agents") /\ ReportGpus(g))
  /\ \A a \in Jobs : WF_agentVars(On("agents") /\ AttemptOver(a))

\* Threads are scheduled, and the five seconds of wait_for are counted from its
\* start: being woken for a connection that another thread takes first does not
\* put the deadline off.
ThreadsFairness ==
  /\ \A r \in Requests : WF_threadVars(On("threads") /\ NotifyReady(r))
  /\ \A w \in Workers : WF_threadVars(On("threads") /\ (Look(w) \/ AnswerRequest(w)))
  /\ \A t \in Threads : /\ WF_threadVars(On("threads") /\ PoolStep(t))
                        /\ SF_threadVars(On("threads") /\ PoolTimeout(t))
  /\ WF_threadVars(On("threads") /\ (NotifyStopped \/ Join))

\* A reader goes on; a page that keeps polling sees the run's end.
ReadsFairness ==
  /\ WF_readVars(On("reads") /\ ReaderStep)
  /\ SF_readVars(On("reads") /\ ViewRefresh)

FairSpec ==
  /\ SafetySpec /\ LeaseFairness /\ ReporterFairness /\ AgentsFairness
  /\ ThreadsFairness /\ ReadsFairness

\* Every runner ends, in the behaviours that are about a runner (run_attempt
\* and the destructors it runs on every way out).
RunnerEndsHere == On("lease") => RunnerEnds
=============================================================================
