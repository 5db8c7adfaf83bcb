---------------------------- MODULE AttemptStore ----------------------------
(***************************************************************************)
(* The core of the coordinator: the PostgreSQL rows of runs, attempts and  *)
(* events, and the transactions of src/postgres/{runs,ownership,recovery,  *)
(* control,telemetry,kubernetes,workers}.cpp that change them.             *)
(*                                                                         *)
(* Every transaction takes the run's row lock before the attempt's and     *)
(* holds both to commit, so each is one atomic action.  The two places     *)
(* where the code reads in one transaction and acts in a later one are     *)
(* kept apart: recover() scans for candidates and then locks each of them, *)
(* and any other transaction may commit in between.                        *)
(*                                                                         *)
(* Time is not a number here.  A timestamp column is "unset" (NULL),       *)
(* "valid" (still ahead of clock_timestamp()) or "expired", and a deadline *)
(* may pass in any state; the timed argument about the runner's lease is a *)
(* different question and needs a clock.  A call that throws commits       *)
(* nothing, hence changes nothing and is no action of its own.             *)
(***************************************************************************)
EXTENDS RunModel, Sequences, FiniteSets

CONSTANTS
  Runs,         \* run ids: numbers, in the order of runs.created_at
  AttemptIds,   \* attempt ids: numbers, in the order of attempts.created_at
  Instances,    \* runner identities: random instance_id and node_name of a process
  Workers,      \* values of attempts.worker_id
  Kubernetes,   \* the one worker_id that means a Kubernetes Job ("@kubernetes")
  Specs,        \* run specifications (here their retry policy matters)
  Servers,      \* processes running the monitor thread
  Outcomes,     \* <<exit code, reason>> pairs runners complete with
  MaxSequence,  \* bound: telemetry records one attempt sends
  ScanLimit,    \* recover()'s LIMIT (100)
  None          \* NULL

\* What run_attempt reports: code 0 only without a reason to stop the child.
RunnerOutcomes == {<<0, "">>, <<1, "">>, <<1, "TIMEOUT">>,
                   <<1, "STOP_REQUESTED">>, <<1, "LEASE_LOST">>}

ASSUME StoreAssumption ==
  /\ Runs \subseteq Nat
  /\ AttemptIds \subseteq Nat
  /\ None \notin Nat
  /\ None \notin Instances \cup Workers
  /\ Outcomes \subseteq RunnerOutcomes
  /\ MaxSequence \in Nat
  /\ ScanLimit \in Nat \ {0}
  /\ \A s \in Specs : /\ s.max_attempts \in Nat \ {0}
                      /\ s.retry_exit \in BOOLEAN
                      /\ s.retry_timeout \in BOOLEAN

VARIABLES
  run,       \* run[r]: the row of runs
  attempt,   \* attempt[a]: the row of attempts
  events,    \* events[r]: the kinds of the run's events, by sequence
  granted,   \* granted[a]: the instances StartAttempt answered with "go"
  accepted,  \* <<a, i, exit code>> for each completion answered with OK
  monitor    \* monitor[m]: where server m's recover() is

storeVars == <<run, attempt, events, granted, accepted, monitor>>

-----------------------------------------------------------------------------
(* Rows *)

Timestamp == {"unset", "valid", "expired"}

AttemptStatus == {"STARTING", "RUNNING", "FINALIZING",
                  "SUCCEEDED", "FAILED", "CANCELLED"}

\* attempts.reason: the runner's reasons, recovery's, and cancel's.
Reason == {"", "EXIT_ERROR", "TIMEOUT", "STOP_REQUESTED", "LEASE_LOST",
           "LAUNCH_TIMEOUT", "FINALIZATION_TIMEOUT", "LEASE_EXPIRED",
           "RUNTIME_STOPPED", "USER_CANCELLED"}

\* events.kind, and the run status each of them reports.
EventKind == {"submitted", "assigned", "started", "finalizing", "completed",
              "failed", "retry_scheduled", "requeued", "cancelled"}

StatusOf(kind) ==
  CASE kind \in {"submitted", "requeued"} -> "QUEUED"
    [] kind = "assigned" -> "STARTING"
    [] kind = "started" -> "RUNNING"
    [] kind = "finalizing" -> "FINALIZING"
    [] kind = "completed" -> "SUCCEEDED"
    [] kind = "failed" -> "FAILED"
    [] kind = "retry_scheduled" -> "RETRY_WAIT"
    [] kind = "cancelled" -> "CANCELLED"

\* Success and any other code (a stopped child's 0 is sent as 143).
ExitCode == {0, 1}

NoRun == [status |-> Absent, spec |-> None, generation |-> 0,
          active |-> None, available |-> TRUE]

NoAttempt == [status |-> Absent, run |-> None, generation |-> 0,
              worker |-> None, instance |-> None, launch |-> "unset",
              lease |-> "unset", execution |-> "unset",
              finalization |-> "unset", ack |-> 0, reason |-> "",
              exit_code |-> None, cleanup |-> "PENDING"]

Init ==
  /\ run = [r \in Runs |-> NoRun]
  /\ attempt = [a \in AttemptIds |-> NoAttempt]
  /\ events = [r \in Runs |-> << >>]
  /\ granted = [a \in AttemptIds |-> {}]
  /\ accepted = {}
  /\ monitor = [m \in Servers |-> [pc |-> "requeue", todo |-> {}]]

Exists(a) == attempt[a].status # Absent

\* The run of an attempt, as lock_attempt joins it.
RunOf(a) == run[attempt[a].run]

\* pg::event: the sequence number is allocated under the run's row lock.
Event(r, kind) == events' = [events EXCEPT ![r] = Append(@, kind)]

-----------------------------------------------------------------------------
(* Submission and assignment *)

\* The insertion common to submit, rerun and each run of submit_sweep.
Submit(r, s) ==
  /\ run[r].status = Absent
  /\ \A q \in Runs : q < r => run[q].status # Absent
  /\ run' = [run EXCEPT ![r] = [NoRun EXCEPT !.status = "QUEUED", !.spec = s]]
  /\ Event(r, "submitted")
  /\ UNCHANGED <<attempt, granted, accepted, monitor>>

\* rerun: a new run with the specification of a terminal one.
Rerun(parent, r) ==
  /\ Terminal(run[parent].status)
  /\ Submit(r, run[parent].spec)

\* Ids are handed out in the order of creation.
Fresh(a) == ~Exists(a) /\ \A b \in AttemptIds : b < a => Exists(b)

\* The part of assign and admit_kubernetes that creates an attempt.  Which
\* run and which worker is decided by capacity, elsewhere.
Place(r, a, w) ==
  LET generation == run[r].generation + 1
  IN /\ run[r].status = "QUEUED"
     /\ run[r].available
     /\ Fresh(a)
     /\ attempt' = [attempt EXCEPT ![a] =
          [NoAttempt EXCEPT !.status = "STARTING", !.run = r,
                            !.generation = generation, !.worker = w,
                            !.launch = "valid"]]
     /\ run' = [run EXCEPT ![r].status = "STARTING", ![r].active = a,
                           ![r].generation = generation]
     /\ Event(r, "assigned")
     /\ UNCHANGED <<granted, accepted, monitor>>

-----------------------------------------------------------------------------
(* Calls of a runner.  Its capability is signed over the attempt id and    *)
(* the attempt's generation, so the generation argument is the attempt's.  *)

LeaseValid(a) == attempt[a].lease = "valid"

\* deadline_valid of lock_attempt: a NULL deadline does not expire.
DeadlineValid(a) ==
  IF attempt[a].status = "FINALIZING"
  THEN attempt[a].finalization # "expired"
  ELSE attempt[a].execution # "expired"

\* The attempt is the one its run currently stands for.
Current(a) ==
  /\ Exists(a)
  /\ RunOf(a).active = a
  /\ RunOf(a).generation = attempt[a].generation

\* Mutant: the lease is not looked at.
OwnedWithoutLease(a, i) ==
  /\ Current(a)
  /\ attempt[a].instance = i
  /\ DeadlineValid(a)
  /\ RunOf(a).status \in {"RUNNING", "FINALIZING"}

\* pg::owned: every report of a runner passes this check or is refused.
Owned(a, i) ==
  /\ Current(a)
  /\ attempt[a].instance = i
  /\ LeaseValid(a)
  /\ DeadlineValid(a)
  /\ RunOf(a).status \in {"RUNNING", "FINALIZING"}

\* start, first claim.
Claim(a, i) ==
  /\ Current(a)
  /\ attempt[a].instance = None
  /\ RunOf(a).status = "STARTING"
  /\ attempt[a].launch = "valid"
  /\ attempt' = [attempt EXCEPT ![a].instance = i, ![a].status = "RUNNING",
                                ![a].lease = "valid", ![a].execution = "valid"]
  /\ run' = [run EXCEPT ![attempt[a].run].status = "RUNNING"]
  /\ Event(attempt[a].run, "started")
  /\ granted' = [granted EXCEPT ![a] = @ \cup {i}]
  /\ UNCHANGED <<accepted, monitor>>

\* Mutant: any instance may repeat the claim.
ClaimAgainByAnyone(a, i) ==
  /\ Current(a)
  /\ Executing(RunOf(a).status)
  /\ LeaseValid(a)
  /\ DeadlineValid(a)
  /\ granted' = [granted EXCEPT ![a] = @ \cup {i}]
  /\ UNCHANGED <<run, attempt, events, accepted, monitor>>

\* start, repeated by the same instance after a lost reply: the same answer,
\* and no new lease.
ClaimAgain(a, i) ==
  /\ Current(a)
  /\ Executing(RunOf(a).status)
  /\ attempt[a].instance = i
  /\ LeaseValid(a)
  /\ DeadlineValid(a)
  /\ granted' = [granted EXCEPT ![a] = @ \cup {i}]
  /\ UNCHANGED <<run, attempt, events, accepted, monitor>>

Heartbeat(a, i) ==
  /\ Owned(a, i)
  /\ attempt' = [attempt EXCEPT ![a].lease = "valid"]
  /\ UNCHANGED <<run, events, granted, accepted, monitor>>

\* begin_finalization; repeated in FINALIZING it commits nothing.
BeginFinalization(a, i) ==
  /\ Owned(a, i)
  /\ RunOf(a).status = "RUNNING"
  /\ attempt' = [attempt EXCEPT ![a].status = "FINALIZING",
                                ![a].finalization = "valid"]
  /\ run' = [run EXCEPT ![attempt[a].run].status = "FINALIZING"]
  /\ Event(attempt[a].run, "finalizing")
  /\ UNCHANGED <<granted, accepted, monitor>>

\* Mutant: records are counted without skipping those already stored.
ReportCounting(a, i, first, last) ==
  /\ Owned(a, i)
  /\ attempt' = [attempt EXCEPT ![a].ack = IF first <= @ + 1 THEN @ + 1 ELSE @]
  /\ UNCHANGED <<run, events, granted, accepted, monitor>>

\* report: records first..last; those already stored are skipped and a gap
\* ends the batch, so the acknowledged prefix stays contiguous.
Report(a, i, first, last) ==
  /\ Owned(a, i)
  /\ attempt' = [attempt EXCEPT ![a].ack =
       IF first <= @ + 1 /\ @ < last THEN last ELSE @]
  /\ UNCHANGED <<run, events, granted, accepted, monitor>>

-----------------------------------------------------------------------------
(* Outcomes *)

\* pg::fail: end the attempt and either schedule a retry or fail the run.
Fail(a, failure, reason, exit_code) ==
  LET r == attempt[a].run
      retry == ShouldRetry(run[r].spec, attempt[a].generation, failure)
  IN /\ attempt' = [attempt EXCEPT ![a].status = "FAILED",
                                   ![a].reason = reason,
                                   ![a].exit_code = exit_code]
     /\ run' = [run EXCEPT
          ![r].status = IF retry THEN "RETRY_WAIT" ELSE "FAILED",
          ![r].available = FALSE]
     /\ Event(r, IF retry THEN "retry_scheduled" ELSE "failed")

\* Mutant: every stop by the runner counts as an infrastructure failure.
FailureOfAnyStop(reason) ==
  IF reason = "" THEN "exit_error" ELSE "infrastructure"

FailureOf(reason) ==
  CASE reason = "TIMEOUT" -> "timeout"
    [] reason \in {"STOP_REQUESTED", "LEASE_LOST"} -> "infrastructure"
    [] OTHER -> "exit_error"

\* finish: the decision itself.
Finish(a, i, exit_code, reason, final_sequence) ==
  /\ Owned(a, i)
  /\ attempt[a].ack = final_sequence
  /\ exit_code = 0 => RunOf(a).status = "FINALIZING"
  /\ IF exit_code = 0
     THEN /\ attempt' = [attempt EXCEPT ![a].status = "SUCCEEDED",
                                        ![a].reason = reason,
                                        ![a].exit_code = 0]
          /\ run' = [run EXCEPT ![attempt[a].run].status = "SUCCEEDED"]
          /\ Event(attempt[a].run, "completed")
     ELSE Fail(a, FailureOf(reason), IF reason = "" THEN "EXIT_ERROR" ELSE reason,
               exit_code)
  /\ accepted' = accepted \cup {<<a, i, exit_code>>}
  /\ UNCHANGED <<granted, monitor>>

\* Mutant: any recorded outcome is taken for the one reported.
FinishAgainWithAnyCode(a, i, exit_code) ==
  /\ Exists(a)
  /\ RunOf(a).active = a
  /\ attempt[a].instance = i
  /\ attempt[a].status \in {"SUCCEEDED", "FAILED"}
  /\ accepted' = accepted \cup {<<a, i, exit_code>>}
  /\ UNCHANGED <<run, attempt, events, granted, monitor>>

\* finish, repeated after a lost reply: answered OK if this very outcome is
\* recorded and the run has not moved on to another attempt.
FinishAgain(a, i, exit_code) ==
  /\ Exists(a)
  /\ RunOf(a).active = a
  /\ attempt[a].instance = i
  /\ attempt[a].exit_code = exit_code
  /\ attempt[a].status \in {"SUCCEEDED", "FAILED"}
  /\ accepted' = accepted \cup {<<a, i, exit_code>>}
  /\ UNCHANGED <<run, attempt, events, granted, monitor>>

\* cancel: fences the run at once, whatever its attempt is doing.
Cancel(r) ==
  /\ run[r].status # Absent
  /\ ~Terminal(run[r].status)
  /\ attempt' = [a \in AttemptIds |->
       IF attempt[a].run = r /\ Executing(attempt[a].status)
       THEN [attempt[a] EXCEPT !.status = "CANCELLED",
                               !.reason = "USER_CANCELLED",
                               !.lease = "expired"]
       ELSE attempt[a]]
  /\ run' = [run EXCEPT ![r].status = "CANCELLED"]
  /\ Event(r, "cancelled")
  /\ UNCHANGED <<granted, accepted, monitor>>

\* kubernetes_stopped: the Job was seen terminal or missing.
RuntimeStopped(a) ==
  /\ Exists(a)
  /\ attempt[a].worker = Kubernetes
  /\ RunOf(a).active = a
  /\ Executing(attempt[a].status)
  /\ IF RunOf(a).status = "RUNNING" /\ ~DeadlineValid(a)
     THEN Fail(a, "timeout", "TIMEOUT", None)
     ELSE Fail(a, "infrastructure", "RUNTIME_STOPPED", None)
  /\ UNCHANGED <<granted, accepted, monitor>>

\* runtime_report(stopped) and kubernetes_runtime(removed): the runtime is
\* confirmed gone and what the attempt reserved is free again.
CleanupDone(a) ==
  /\ Exists(a)
  /\ ~Executing(attempt[a].status)
  /\ attempt' = [attempt EXCEPT ![a].cleanup = "DONE"]
  /\ UNCHANGED <<run, events, granted, accepted, monitor>>

-----------------------------------------------------------------------------
(* recover(), one call per turn of a server's monitor thread *)

\* Mutant: the bulk update reports one event, not one per run.
RecoverRequeueOneEvent(m) ==
  LET due == {r \in Runs : run[r].status = "RETRY_WAIT" /\ run[r].available}
  IN /\ monitor[m].pc = "requeue"
     /\ run' = [r \in Runs |->
          IF r \in due THEN [run[r] EXCEPT !.status = "QUEUED"] ELSE run[r]]
     /\ events' = [r \in Runs |->
          IF r \in due /\ \A q \in due : r <= q
          THEN Append(events[r], "requeued") ELSE events[r]]
     /\ monitor' = [monitor EXCEPT ![m].pc = "scan"]
     /\ UNCHANGED <<attempt, granted, accepted>>

\* First transaction: every retry whose delay has elapsed.
RecoverRequeue(m) ==
  LET due == {r \in Runs : run[r].status = "RETRY_WAIT" /\ run[r].available}
  IN /\ monitor[m].pc = "requeue"
     /\ run' = [r \in Runs |->
          IF r \in due THEN [run[r] EXCEPT !.status = "QUEUED"] ELSE run[r]]
     /\ events' = [r \in Runs |->
          IF r \in due THEN Append(events[r], "requeued") ELSE events[r]]
     /\ monitor' = [monitor EXCEPT ![m].pc = "scan"]
     /\ UNCHANGED <<attempt, granted, accepted>>

\* The scan's WHERE clause.
Overdue(a) ==
  \/ attempt[a].status = "STARTING" /\ attempt[a].launch = "expired"
  \/ attempt[a].status \in {"RUNNING", "FINALIZING"} /\ attempt[a].lease = "expired"
  \/ attempt[a].status = "RUNNING" /\ attempt[a].execution = "expired"
  \/ attempt[a].status = "FINALIZING" /\ attempt[a].finalization = "expired"

\* ORDER BY created_at LIMIT n.
FirstOf(S, n) == {a \in S : Cardinality({b \in S : b < a}) < n}

\* Second transaction, read only: candidates are remembered without a lock.
RecoverScan(m) ==
  /\ monitor[m].pc = "scan"
  /\ LET found == FirstOf({a \in AttemptIds : Overdue(a)}, ScanLimit)
     IN monitor' = [monitor EXCEPT
          ![m] = [pc |-> IF found = {} THEN "requeue" ELSE "candidates",
                  todo |-> found]]
  /\ UNCHANGED <<run, attempt, events, granted, accepted>>

\* Mutants: a candidate is failed for what the scan saw, without looking
\* again; a missed finalization deadline is found but not acted upon.
VerdictOfScan(a) == <<"infrastructure", "LEASE_EXPIRED">>

VerdictUnlessFinalizing(a) ==
  LET s == RunOf(a).status
  IN CASE \/ RunOf(a).active # a
          \/ Terminal(s)
          \/ attempt[a].status = "FAILED" -> None
       [] OTHER ->
          CASE s = "STARTING" /\ attempt[a].launch = "expired" ->
                 <<"infrastructure", "LAUNCH_TIMEOUT">>
            [] s = "RUNNING" /\ ~DeadlineValid(a) -> <<"timeout", "TIMEOUT">>
            [] /\ s \in {"RUNNING", "FINALIZING"}
               /\ DeadlineValid(a)
               /\ ~LeaseValid(a) -> <<"infrastructure", "LEASE_EXPIRED">>
            [] OTHER -> None

\* What recover() finds when it looks at the candidate again under the
\* locks: None, or the class and the reason of the failure to record.  The
\* attempt may be over, or its lease may have been renewed since the scan;
\* an expired deadline is reported before an expired lease.
Verdict(a) ==
  LET s == RunOf(a).status
  IN CASE \/ RunOf(a).active # a
          \/ Terminal(s)
          \/ attempt[a].status = "FAILED" -> None
       [] OTHER ->
          CASE s = "STARTING" /\ attempt[a].launch = "expired" ->
                 <<"infrastructure", "LAUNCH_TIMEOUT">>
            [] s = "RUNNING" /\ ~DeadlineValid(a) ->
                 <<"timeout", "TIMEOUT">>
            [] s = "FINALIZING" /\ ~DeadlineValid(a) ->
                 <<"infrastructure", "FINALIZATION_TIMEOUT">>
            [] /\ s \in {"RUNNING", "FINALIZING"}
               /\ DeadlineValid(a)
               /\ ~LeaseValid(a) ->
                 <<"infrastructure", "LEASE_EXPIRED">>
            [] OTHER -> None

\* One transaction per candidate, oldest first.
RecoverCandidate(m, a) ==
  LET rest == monitor[m].todo \ {a}
  IN /\ monitor[m].pc = "candidates"
     /\ a \in monitor[m].todo
     /\ \A b \in monitor[m].todo : a <= b
     /\ \/ Verdict(a) = None /\ UNCHANGED <<run, attempt, events>>
        \/ /\ Verdict(a) # None
           /\ Fail(a, Verdict(a)[1], Verdict(a)[2], None)
     /\ monitor' = [monitor EXCEPT
          ![m] = [pc |-> IF rest = {} THEN "requeue" ELSE "candidates",
                  todo |-> rest]]
     /\ UNCHANGED <<granted, accepted>>

\* A failed transaction ends the call; a crash and restart does the same.
RecoverAbort(m) ==
  /\ monitor[m].pc # "requeue"
  /\ monitor' = [monitor EXCEPT ![m] = [pc |-> "requeue", todo |-> {}]]
  /\ UNCHANGED <<run, attempt, events, granted, accepted>>

-----------------------------------------------------------------------------
(* The passing of time *)

\* The deadlines some transaction still reads, by status.
Watched(status) ==
  CASE status = "STARTING" -> {"launch"}
    [] status = "RUNNING" -> {"lease", "execution"}
    [] status = "FINALIZING" -> {"lease", "finalization"}
    [] OTHER -> {}

Expire(a, deadline) ==
  /\ deadline \in Watched(attempt[a].status)
  /\ attempt[a][deadline] = "valid"
  /\ attempt' = [attempt EXCEPT ![a][deadline] = "expired"]
  /\ UNCHANGED <<run, events, granted, accepted, monitor>>

DelayElapses(r) ==
  /\ run[r].status = "RETRY_WAIT"
  /\ ~run[r].available
  /\ run' = [run EXCEPT ![r].available = TRUE]
  /\ UNCHANGED <<attempt, events, granted, accepted, monitor>>

Time ==
  \/ \E a \in AttemptIds, d \in {"launch", "lease", "execution", "finalization"} :
       Expire(a, d)
  \/ \E r \in Runs : DelayElapses(r)

Runner(a, i) ==
  \/ Claim(a, i)
  \/ ClaimAgain(a, i)
  \/ Heartbeat(a, i)
  \/ BeginFinalization(a, i)
  \/ \E first, last \in 1..MaxSequence : Report(a, i, first, last)
  \/ \E o \in Outcomes, n \in 0..MaxSequence : Finish(a, i, o[1], o[2], n)
  \/ \E e \in ExitCode : FinishAgain(a, i, e)

Recover(m) ==
  \/ RecoverRequeue(m)
  \/ RecoverScan(m)
  \/ \E a \in AttemptIds : RecoverCandidate(m, a)

Next ==
  \/ \E r \in Runs, s \in Specs : Submit(r, s)
  \/ \E parent, r \in Runs : Rerun(parent, r)
  \/ \E r \in Runs, a \in AttemptIds, w \in Workers : Place(r, a, w)
  \/ \E a \in AttemptIds, i \in Instances : Runner(a, i)
  \/ \E r \in Runs : Cancel(r)
  \/ \E a \in AttemptIds : RuntimeStopped(a)
  \/ \E a \in AttemptIds : CleanupDone(a)
  \/ \E m \in Servers : Recover(m) \/ RecoverAbort(m)
  \/ Time

Spec == Init /\ [][Next]_storeVars

\* The scheduling the code provides: deadlines that nothing renews do pass
\* (a lease need not: its runner may keep renewing it), the monitor thread
\* calls recover() in a loop, and somebody keeps asking for work.  A call of
\* recover() may be cut short time and again, but not for ever.
Fairness ==
  /\ \A a \in AttemptIds :
       \A d \in {"launch", "execution", "finalization"} :
         WF_storeVars(Expire(a, d))
  /\ \A r \in Runs : WF_storeVars(DelayElapses(r))
  /\ \A m \in Servers :
       /\ WF_storeVars(RecoverRequeue(m))
       /\ SF_storeVars(RecoverScan(m))
       /\ SF_storeVars(\E a \in AttemptIds : RecoverCandidate(m, a))
  /\ \A r \in Runs :
       WF_storeVars(\E a \in AttemptIds, w \in Workers : Place(r, a, w))

FairSpec == Spec /\ Fairness

-----------------------------------------------------------------------------
(* Properties *)

RunRow == [status : RunStatus \cup {Absent}, spec : Specs \cup {None},
           generation : Nat, active : AttemptIds \cup {None},
           available : BOOLEAN]

AttemptRow == [status : AttemptStatus \cup {Absent}, run : Runs \cup {None},
               generation : Nat, worker : Workers \cup {None},
               instance : Instances \cup {None}, launch : Timestamp,
               lease : Timestamp, execution : Timestamp,
               finalization : Timestamp, ack : 0..MaxSequence,
               reason : Reason, exit_code : ExitCode \cup {None},
               cleanup : {"PENDING", "DONE"}]

\* Every row has the shape of its table and recover() remembers attempt ids.
TypeOK ==
  /\ run \in [Runs -> RunRow]
  /\ attempt \in [AttemptIds -> AttemptRow]
  /\ events \in [Runs -> Seq(EventKind)]
  /\ granted \in [AttemptIds -> SUBSET Instances]
  /\ accepted \subseteq AttemptIds \X Instances \X ExitCode
  /\ monitor \in [Servers -> [pc : {"requeue", "scan", "candidates"},
                              todo : SUBSET AttemptIds]]

\* The status is stored twice, in runs and in attempts, and each transaction
\* reads the copy it likes: an attempt executes exactly when its run does,
\* with the same status, and is then the run's active attempt.  Hence a run
\* never has two executing attempts, and recover()'s scan, which looks only
\* at attempts, never meets one it would skip for ever.
AttemptRunAgree ==
  /\ \A a \in AttemptIds :
       Executing(attempt[a].status) =>
         /\ Current(a)
         /\ RunOf(a).status = attempt[a].status
  /\ \A r \in Runs :
       Executing(run[r].status) =>
         \E a \in AttemptIds : /\ run[r].active = a
                               /\ attempt[a].run = r
                               /\ attempt[a].status = run[r].status

\* The failure class a recorded reason stands for.
ClassOf(reason) ==
  CASE reason = "TIMEOUT" -> "timeout"
    [] reason = "EXIT_ERROR" -> "exit_error"
    [] OTHER -> "infrastructure"

\* A run is only tried again after an attempt that failed in a way its retry
\* policy covers: every superseded attempt is FAILED for such a reason.
RetriesJustified ==
  \A a \in AttemptIds :
    Exists(a) /\ attempt[a].generation < RunOf(a).generation =>
      /\ attempt[a].status = "FAILED"
      /\ ShouldRetry(RunOf(a).spec, attempt[a].generation, ClassOf(attempt[a].reason))

\* What makes the above inductive.  An attempt points to a run whose
\* generation has reached it, and an id not handed out has an empty row.
RowsLinked ==
  \A a \in AttemptIds :
    IF Exists(a)
    THEN /\ attempt[a].run \in Runs
         /\ RunOf(a).status # Absent
         /\ attempt[a].generation \in 1..RunOf(a).generation
    ELSE attempt[a] = NoAttempt

\* recover() remembers attempts, and no attempt is ever deleted.
CandidatesExist ==
  \A m \in Servers : \A a \in monitor[m].todo : Exists(a)

\* active_attempt is the attempt of the latest generation.
ActiveIsLatest ==
  \A r \in Runs :
    IF run[r].generation = 0
    THEN run[r].active = None
    ELSE /\ run[r].active \in AttemptIds
         /\ Exists(run[r].active)
         /\ attempt[run[r].active].run = r
         /\ attempt[run[r].active].generation = run[r].generation

\* Two attempts of a run have different generations.
GenerationsDistinct ==
  \A a, b \in AttemptIds :
    /\ Exists(a) /\ Exists(b)
    /\ attempt[a].run = attempt[b].run
    /\ attempt[a].generation = attempt[b].generation
    => a = b

\* A run that may be assigned has a try left: it never ran, or its latest
\* attempt failed and the policy covers that failure.
RetryBudget ==
  \A r \in Runs :
    run[r].status # Absent =>
      /\ run[r].spec \in Specs
      /\ run[r].generation <= run[r].spec.max_attempts
      /\ run[r].status \in {"QUEUED", "RETRY_WAIT"} /\ run[r].generation # 0 =>
           /\ attempt[run[r].active].status = "FAILED"
           /\ ShouldRetry(run[r].spec, run[r].generation,
                          ClassOf(attempt[run[r].active].reason))

\* The inductive invariant: the rows of runs and attempts always tell one
\* consistent story about who owns a run and why it was tried again.
StoreInv ==
  /\ RowsLinked
  /\ CandidatesExist
  /\ ActiveIsLatest
  /\ GenerationsDistinct
  /\ AttemptRunAgree
  /\ RetryBudget
  /\ RetriesJustified

\* The event log a client follows with a cursor tells the run's whole story:
\* each event is a legal transition from the one before it, and the last one
\* is the status in the runs row.
EventsTellStatus ==
  \A r \in Runs :
    LET log == events[r]
    IN /\ run[r].status # Absent <=> log # << >>
       /\ log # << >> => StatusOf(log[Len(log)]) = run[r].status
       /\ \A k \in 1..(Len(log) - 1) :
            TransitionAllowed(StatusOf(log[k]), StatusOf(log[k + 1]))

\* "If two runners start, only the one that claims ownership runs the child"
\* (docs/ARCHITECTURE.md): StartAttempt never says "go" to two instances.
SingleClaimant ==
  \A a \in AttemptIds : granted[a] \subseteq {attempt[a].instance}

\* A completion answered with OK is the recorded outcome, also when the
\* answer was given to a repeated call after the run had moved on.
AcceptedIsRecorded ==
  \A c \in accepted :
    LET row == attempt[c[1]]
    IN /\ row.instance = c[2]
       /\ row.exit_code = c[3]
       /\ row.status = IF c[3] = 0 THEN "SUCCEEDED" ELSE "FAILED"

\* "The first committed decision wins": once a run is terminal its row and
\* its log are frozen, and an attempt that ended keeps outcome and reason.
OutcomeIsFinal ==
  [][/\ \A r \in Runs :
          Terminal(run[r].status) => run'[r] = run[r] /\ events'[r] = events[r]
     /\ \A a \in AttemptIds :
          Exists(a) /\ ~Executing(attempt[a].status) =>
            /\ attempt'[a].status = attempt[a].status
            /\ attempt'[a].exit_code = attempt[a].exit_code
            /\ attempt'[a].reason = attempt[a].reason
            /\ attempt'[a].ack = attempt[a].ack]_storeVars

\* "Expired leases cannot be renewed" (docs/ARCHITECTURE.md): after expiry
\* the attempt can only fail or be cancelled, and accepts no more telemetry.
ExpiredLeaseIsFinal ==
  [][\A a \in AttemptIds :
       attempt[a].lease = "expired" =>
         /\ attempt'[a].lease = "expired"
         /\ attempt'[a].status \in {attempt[a].status, "FAILED", "CANCELLED"}
         /\ attempt'[a].ack = attempt[a].ack]_storeVars

\* The store implements the lifecycle clients are told about.
Lifecycle == INSTANCE RunLifecycle WITH
  status <- [r \in Runs |-> run[r].status],
  tries <- [r \in Runs |-> run[r].generation],
  allowance <- [r \in Runs |-> IF run[r].status = Absent THEN 0
                               ELSE run[r].spec.max_attempts]

\* Every behaviour of the store is one of the abstract run lifecycle: only
\* transitions of transition_allowed, and no more tries than max_attempts.
ImplementsLifecycle == Lifecycle!Spec

\* Whatever the runners do, an attempt that missed a deadline is ended by
\* recovery, although the scan is limited and a call may be cut short.
OverdueIsEnded ==
  \A a \in AttemptIds : Overdue(a) ~> ~Executing(attempt[a].status)

\* Every run that is submitted ends: runners that die, hang or renew their
\* lease for ever are stopped by a deadline, and the last try of a run is the
\* end of it.  Only a run with tries left that is QUEUED when the bound on
\* attempts is used up may wait.
EveryRunEnds ==
  \A r \in Runs :
    run[r].status = "QUEUED"
      ~> \/ Terminal(run[r].status)
         \/ /\ run[r].status = "QUEUED" /\ \A a \in AttemptIds : Exists(a)
            /\ run[r].generation < run[r].spec.max_attempts
=============================================================================
