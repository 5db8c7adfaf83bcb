------------------------ MODULE AttemptStoreProofs ------------------------
(***************************************************************************)
(* Proofs about AttemptStore, for every set of runs, attempts, instances   *)
(* and servers and every retry policy: first what holds in every state,    *)
(* then what the store promises over time.                                 *)
(***************************************************************************)
EXTENDS AttemptStore, SequenceTheorems, TLAPS

-----------------------------------------------------------------------------
(* Rows: what each UPDATE leaves in the row it writes.                     *)

\* An UPDATE of a run's status and availability leaves a row of runs.
LEMMA RunRowMoves ==
  ASSUME NEW row \in RunRow, NEW s \in RunStatus, NEW v \in BOOLEAN
  PROVE  /\ [row EXCEPT !.status = s] \in RunRow
         /\ [row EXCEPT !.status = s, !.available = v] \in RunRow
         /\ [row EXCEPT !.available = v] \in RunRow
  BY DEF RunRow

\* The INSERT of assign leaves a row of attempts.
LEMMA AttemptRowPlaced ==
  ASSUME NEW r \in Runs, NEW n \in Nat, NEW w \in Workers, StoreAssumption
  PROVE  /\ NoAttempt \in AttemptRow
         /\ [NoAttempt EXCEPT !.status = "STARTING", !.run = r, !.generation = n,
                              !.worker = w, !.launch = "valid"] \in AttemptRow
  <1>1. 0 \in Nat /\ 0 \in 0..MaxSequence
    BY DEF StoreAssumption
  <1>2. NoAttempt \in AttemptRow
    BY <1>1 DEF AttemptRow, NoAttempt, Timestamp, Reason
  <1>3. ASSUME NEW old \in AttemptRow
        PROVE  [old EXCEPT !.status = "STARTING", !.run = r, !.generation = n,
                           !.worker = w, !.launch = "valid"] \in AttemptRow
    BY DEF AttemptRow, AttemptStatus, Timestamp
  <1> QED BY <1>2, <1>3

\* The first claim writes instance, status and the two timestamps.
LEMMA RowClaimed ==
  ASSUME NEW row \in AttemptRow, NEW i \in Instances, NEW s \in AttemptStatus,
         NEW t \in Timestamp
  PROVE  [row EXCEPT !.instance = i, !.status = s, !.lease = t, !.execution = t]
           \in AttemptRow
  BY DEF AttemptRow

\* A heartbeat renews the lease.
LEMMA RowRenewed ==
  ASSUME NEW row \in AttemptRow, NEW t \in Timestamp
  PROVE  [row EXCEPT !.lease = t] \in AttemptRow
  BY DEF AttemptRow

\* begin_finalization sets the status and its deadline.
LEMMA RowFinalizing ==
  ASSUME NEW row \in AttemptRow, NEW s \in AttemptStatus, NEW t \in Timestamp
  PROVE  [row EXCEPT !.status = s, !.finalization = t] \in AttemptRow
  BY DEF AttemptRow

\* A telemetry report moves the acknowledged sequence.
LEMMA RowReported ==
  ASSUME NEW row \in AttemptRow, NEW n \in 0..MaxSequence
  PROVE  [row EXCEPT !.ack = n] \in AttemptRow
  BY DEF AttemptRow

\* finish and fail record status, reason and exit code.
LEMMA RowFailed ==
  ASSUME NEW row \in AttemptRow, NEW s \in AttemptStatus, NEW reason \in Reason,
         NEW e \in ExitCode \cup {None}
  PROVE  [row EXCEPT !.status = s, !.reason = reason, !.exit_code = e] \in AttemptRow
  BY DEF AttemptRow

\* cancel ends the attempt and its lease.
LEMMA RowCancelled ==
  ASSUME NEW row \in AttemptRow, NEW s \in AttemptStatus, NEW reason \in Reason,
         NEW t \in Timestamp
  PROVE  [row EXCEPT !.status = s, !.reason = reason, !.lease = t] \in AttemptRow
  BY DEF AttemptRow

\* Confirmed cleanup.
LEMMA RowCleaned ==
  ASSUME NEW row \in AttemptRow, NEW c \in {"PENDING", "DONE"}
  PROVE  [row EXCEPT !.cleanup = c] \in AttemptRow
  BY DEF AttemptRow

\* A deadline that passes leaves a row of attempts.
LEMMA AttemptRowExpires ==
  ASSUME NEW row \in AttemptRow,
         NEW d \in {"launch", "lease", "execution", "finalization"}
  PROVE  [row EXCEPT ![d] = "expired"] \in AttemptRow
  <1>1. CASE d = "launch" BY <1>1 DEF AttemptRow, Timestamp
  <1>2. CASE d = "lease" BY <1>2 DEF AttemptRow, Timestamp
  <1>3. CASE d = "execution" BY <1>3 DEF AttemptRow, Timestamp
  <1>4. CASE d = "finalization" BY <1>4 DEF AttemptRow, Timestamp
  <1> QED BY <1>1, <1>2, <1>3, <1>4

-----------------------------------------------------------------------------
(* Type correctness.  It needs RowsLinked: fail and the other updates of a *)
(* run by way of its attempt hit a row only if attempts.run_id is set.     *)

\* The tables of the store, without the variables that only observe it.
TablesOK ==
  /\ run \in [Runs -> RunRow]
  /\ attempt \in [AttemptIds -> AttemptRow]
  /\ events \in [Runs -> Seq(EventKind)]

\* pg::event appends a kind of event to the log of one run.
LEMMA EventType ==
  ASSUME TypeOK, NEW r \in Runs, NEW kind \in EventKind, Event(r, kind)
  PROVE  events' \in [Runs -> Seq(EventKind)]
  BY DEF TypeOK, Event

\* A run status written together with an attempt row leaves typed tables.
LEMMA TablesMove ==
  ASSUME TypeOK, NEW a \in AttemptIds, NEW r \in Runs, NEW row \in AttemptRow,
         NEW s \in RunStatus, NEW kind \in EventKind,
         attempt' = [attempt EXCEPT ![a] = row],
         run' = [run EXCEPT ![r].status = s],
         Event(r, kind)
  PROVE  TablesOK'
  <1>1. [run[r] EXCEPT !.status = s] \in RunRow
    BY RunRowMoves DEF TypeOK
  <1>2. run' \in [Runs -> RunRow]
    BY <1>1 DEF TypeOK
  <1>3. attempt' \in [AttemptIds -> AttemptRow]
    BY DEF TypeOK
  <1> QED BY <1>2, <1>3, EventType DEF TablesOK

\* pg::fail leaves typed tables.
LEMMA FailType ==
  ASSUME TypeOK, NEW a \in AttemptIds, attempt[a].run \in Runs,
         NEW failure, NEW reason \in Reason, NEW e \in ExitCode \cup {None},
         Fail(a, failure, reason, e)
  PROVE  TablesOK'
  <1> DEFINE r == attempt[a].run
             retry == ShouldRetry(run[r].spec, attempt[a].generation, failure)
             s == IF retry THEN "RETRY_WAIT" ELSE "FAILED"
             kind == IF retry THEN "retry_scheduled" ELSE "failed"
  <1>1. s \in RunStatus /\ kind \in EventKind /\ FALSE \in BOOLEAN
    BY DEF RunStatus, EventKind
  <1>2. /\ attempt' = [attempt EXCEPT ![a].status = "FAILED", ![a].reason = reason,
                                      ![a].exit_code = e]
        /\ run' = [run EXCEPT ![r].status = s, ![r].available = FALSE]
        /\ Event(r, kind)
    BY DEF Fail
  <1>3. [run[r] EXCEPT !.status = s, !.available = FALSE] \in RunRow
    <2> HIDE DEF s
    <2> QED BY <1>1, RunRowMoves DEF TypeOK
  <1>4. [attempt[a] EXCEPT !.status = "FAILED", !.reason = reason, !.exit_code = e]
          \in AttemptRow
    <2>1. attempt[a] \in AttemptRow /\ "FAILED" \in AttemptStatus
      BY DEF TypeOK, AttemptStatus
    <2> QED BY <2>1, RowFailed
  <1> HIDE DEF s, kind, retry
  <1>5. run' \in [Runs -> RunRow]
    BY <1>2, <1>3 DEF TypeOK
  <1>6. attempt' \in [AttemptIds -> AttemptRow]
    BY <1>2, <1>4 DEF TypeOK
  <1>7. events' \in [Runs -> Seq(EventKind)]
    <2> HIDE DEF r
    <2> QED BY <1>1, <1>2, EventType DEF r
  <1> QED BY <1>5, <1>6, <1>7 DEF TablesOK

\* An UPDATE of one row of attempts that touches no run leaves typed tables.
LEMMA RowWritten ==
  ASSUME TypeOK, NEW a \in AttemptIds, NEW row \in AttemptRow,
         attempt' = [attempt EXCEPT ![a] = row], UNCHANGED <<run, events>>
  PROVE  TablesOK'
  BY DEF TypeOK, TablesOK

\* What a runner reports can be stored.
LEMMA OutcomeType ==
  ASSUME NEW o \in RunnerOutcomes
  PROVE  /\ o[1] \in ExitCode
         /\ o[2] \in Reason
         /\ (IF o[2] = "" THEN "EXIT_ERROR" ELSE o[2]) \in Reason
  <1>1. CASE o = <<0, "">> BY <1>1 DEF ExitCode, Reason
  <1>2. CASE o = <<1, "">> BY <1>2 DEF ExitCode, Reason
  <1>3. CASE o = <<1, "TIMEOUT">> BY <1>3 DEF ExitCode, Reason
  <1>4. CASE o = <<1, "STOP_REQUESTED">> BY <1>4 DEF ExitCode, Reason
  <1>5. CASE o = <<1, "LEASE_LOST">> BY <1>5 DEF ExitCode, Reason
  <1> QED BY <1>1, <1>2, <1>3, <1>4, <1>5 DEF RunnerOutcomes

\* Each call of a runner leaves every variable typed.
LEMMA RunnerType ==
  ASSUME StoreAssumption, TypeOK, RowsLinked,
         NEW a \in AttemptIds, NEW i \in Instances, Runner(a, i)
  PROVE  TypeOK'
  <1> DEFINE r == attempt[a].run
             Rest == /\ granted' \in [AttemptIds -> SUBSET Instances]
                     /\ accepted' \subseteq AttemptIds \X Instances \X ExitCode
                     /\ UNCHANGED monitor
  <1>0. SUFFICES TablesOK' /\ Rest
    BY DEF TypeOK, TablesOK
  <1>A. Current(a) => r \in Runs
    BY DEF Current, RowsLinked
  <1>B. attempt[a] \in AttemptRow
    BY DEF TypeOK
  <1>C. /\ {"RUNNING", "FINALIZING", "SUCCEEDED"} \subseteq AttemptStatus
        /\ {"RUNNING", "FINALIZING", "SUCCEEDED"} \subseteq RunStatus
        /\ {"started", "finalizing", "completed"} \subseteq EventKind
        /\ "valid" \in Timestamp
    BY DEF AttemptStatus, RunStatus, EventKind, Timestamp
  <1>1. CASE Claim(a, i)
    <2> DEFINE row == [attempt[a] EXCEPT !.instance = i, !.status = "RUNNING",
                                         !.lease = "valid", !.execution = "valid"]
    <2>1. row \in AttemptRow
      BY <1>B, <1>C, RowClaimed
    <2>2. /\ attempt' = [attempt EXCEPT ![a] = row]
          /\ run' = [run EXCEPT ![r].status = "RUNNING"]
          /\ Event(r, "started")
          /\ r \in Runs
      BY <1>1, <1>A DEF Claim, TypeOK
    <2>3. TablesOK'
      <3> HIDE DEF row, r
      <3> QED BY <1>C, <2>1, <2>2, TablesMove
    <2> QED BY <1>1, <2>3 DEF Claim, TypeOK
  <1>2. CASE ClaimAgain(a, i)
    BY <1>2 DEF ClaimAgain, TypeOK, TablesOK
  <1>3. CASE Heartbeat(a, i)
    <2> DEFINE row == [attempt[a] EXCEPT !.lease = "valid"]
    <2>1. row \in AttemptRow
      BY <1>B, <1>C, RowRenewed
    <2>2. attempt' = [attempt EXCEPT ![a] = row] /\ UNCHANGED <<run, events>>
      BY <1>3 DEF Heartbeat, TypeOK
    <2>3. TablesOK'
      <3> HIDE DEF row
      <3> QED BY <2>1, <2>2, RowWritten
    <2> QED BY <1>3, <2>3 DEF Heartbeat, TypeOK
  <1>4. CASE BeginFinalization(a, i)
    <2> DEFINE row == [attempt[a] EXCEPT !.status = "FINALIZING",
                                         !.finalization = "valid"]
    <2>1. row \in AttemptRow
      BY <1>B, <1>C, RowFinalizing
    <2>2. /\ attempt' = [attempt EXCEPT ![a] = row]
          /\ run' = [run EXCEPT ![r].status = "FINALIZING"]
          /\ Event(r, "finalizing")
          /\ r \in Runs
      BY <1>4, <1>A DEF BeginFinalization, Owned, TypeOK
    <2>3. TablesOK'
      <3> HIDE DEF row, r
      <3> QED BY <1>C, <2>1, <2>2, TablesMove
    <2> QED BY <1>4, <2>3 DEF BeginFinalization, TypeOK
  <1>5. ASSUME NEW first \in 1..MaxSequence, NEW last \in 1..MaxSequence,
               Report(a, i, first, last)
        PROVE  TablesOK' /\ Rest
    <2> DEFINE old == attempt[a].ack
               n == IF first <= old + 1 /\ old < last THEN last ELSE old
               row == [attempt[a] EXCEPT !.ack = n]
    <2>1. old \in 0..MaxSequence
      BY <1>B DEF AttemptRow
    <2>2. n \in 0..MaxSequence
      BY <2>1, StoreAssumption DEF StoreAssumption
    <2>3. attempt' = [attempt EXCEPT ![a] = row] /\ UNCHANGED <<run, events>>
      BY <1>5 DEF Report, TypeOK
    <2>4. row \in AttemptRow
      <3> HIDE DEF n
      <3> QED BY <1>B, <2>2, RowReported
    <2>5. TablesOK'
      <3> HIDE DEF row
      <3> QED BY <2>3, <2>4, RowWritten
    <2> QED BY <1>5, <2>5 DEF Report, TypeOK
  <1>6. ASSUME NEW o \in Outcomes, NEW n \in 0..MaxSequence,
               Finish(a, i, o[1], o[2], n)
        PROVE  TablesOK' /\ Rest
    <2> DEFINE e == o[1]
               reason == o[2]
               recorded == IF reason = "" THEN "EXIT_ERROR" ELSE reason
    <2>1. e \in ExitCode /\ reason \in Reason /\ recorded \in Reason
      BY StoreAssumption, OutcomeType DEF StoreAssumption
    <2>2. r \in Runs
      BY <1>6, <1>A DEF Finish, Owned
    <2>3. Finish(a, i, e, reason, n)
      BY <1>6
    <2> HIDE DEF e, reason
    <2>4. ASSUME e = 0
          PROVE  TablesOK'
      <3> DEFINE row == [attempt[a] EXCEPT !.status = "SUCCEEDED", !.reason = reason,
                                           !.exit_code = 0]
      <3>1. row \in AttemptRow
        <4>1. 0 \in ExitCode \cup {None}
          BY DEF ExitCode
        <4> QED BY <4>1, <1>B, <1>C, <2>1, RowFailed
      <3>2. /\ attempt' = [attempt EXCEPT ![a] = row]
            /\ run' = [run EXCEPT ![r].status = "SUCCEEDED"]
            /\ Event(r, "completed")
        BY <2>3, <2>4 DEF Finish, TypeOK
      <3> HIDE DEF row, r
      <3> QED BY <1>C, <2>2, <3>1, <3>2, TablesMove
    <2>5. ASSUME e # 0
          PROVE  TablesOK'
      <3>1. Fail(a, FailureOf(reason), recorded, e)
        BY <2>3, <2>5, Zenon DEF Finish
      <3> HIDE DEF recorded
      <3> QED BY <2>1, <2>2, <3>1, FailType
    <2>6. Rest
      <3>1. /\ granted' = granted /\ monitor' = monitor
            /\ accepted' = accepted \cup {<<a, i, e>>}
        BY <2>3 DEF Finish
      <3>2. <<a, i, e>> \in AttemptIds \X Instances \X ExitCode
        BY <2>1
      <3> QED BY <3>1, <3>2 DEF TypeOK
    <2> QED BY <2>4, <2>5, <2>6
  <1>7. ASSUME NEW e \in ExitCode, FinishAgain(a, i, e)
        PROVE  TablesOK' /\ Rest
    BY <1>7 DEF FinishAgain, TypeOK, TablesOK
  <1> QED BY <1>1, <1>2, <1>3, <1>4, <1>5, <1>6, <1>7 DEF Runner

\* A verdict is a failure class with the reason that stands for it, and is
\* given only to the active attempt of a run that executes.
LEMMA VerdictType ==
  ASSUME NEW a \in AttemptIds, Verdict(a) # None
  PROVE  /\ Verdict(a)[1] \in Failure
         /\ Verdict(a)[2] \in Reason
         /\ ClassOf(Verdict(a)[2]) = Verdict(a)[1]
         /\ RunOf(a).active = a
         /\ Executing(RunOf(a).status)
  <1> DEFINE v == Verdict(a)
             s == RunOf(a).status
  <1>1. \/ v = <<"infrastructure", "LAUNCH_TIMEOUT">> /\ s = "STARTING"
        \/ v = <<"timeout", "TIMEOUT">> /\ s = "RUNNING"
        \/ v = <<"infrastructure", "FINALIZATION_TIMEOUT">> /\ s = "FINALIZING"
        \/ v = <<"infrastructure", "LEASE_EXPIRED">> /\ s \in {"RUNNING", "FINALIZING"}
    BY DEF Verdict
  <1>2. RunOf(a).active = a
    BY DEF Verdict
  <1>3. Executing(s)
    BY <1>1 DEF Executing
  <1> HIDE DEF v
  <1>4. v[1] \in Failure /\ v[2] \in Reason /\ ClassOf(v[2]) = v[1]
    <2>1. CASE v = <<"infrastructure", "LAUNCH_TIMEOUT">>
      BY <2>1 DEF Failure, Reason, ClassOf
    <2>2. CASE v = <<"timeout", "TIMEOUT">>
      BY <2>2 DEF Failure, Reason, ClassOf
    <2>3. CASE v = <<"infrastructure", "FINALIZATION_TIMEOUT">>
      BY <2>3 DEF Failure, Reason, ClassOf
    <2>4. CASE v = <<"infrastructure", "LEASE_EXPIRED">>
      BY <2>4 DEF Failure, Reason, ClassOf
    <2> QED BY <1>1, <2>1, <2>2, <2>3, <2>4
  <1> QED BY <1>2, <1>3, <1>4 DEF v

\* recover() leaves every variable typed.
LEMMA RecoverType ==
  ASSUME StoreAssumption, TypeOK, RowsLinked, CandidatesExist,
         NEW m \in Servers, Recover(m) \/ RecoverAbort(m)
  PROVE  TypeOK'
  <1>1. CASE RecoverRequeue(m)
    <2>1. ASSUME NEW r \in Runs
          PROVE  [run[r] EXCEPT !.status = "QUEUED"] \in RunRow
      <3>1. run[r] \in RunRow /\ "QUEUED" \in RunStatus /\ TRUE \in BOOLEAN
        BY DEF TypeOK, RunStatus
      <3> QED BY <3>1, RunRowMoves
    <2>2. run' \in [Runs -> RunRow]
      BY <1>1, <2>1 DEF RecoverRequeue, TypeOK
    <2>3. ASSUME NEW r \in Runs
          PROVE  Append(events[r], "requeued") \in Seq(EventKind)
      BY DEF TypeOK, EventKind
    <2>4. events' \in [Runs -> Seq(EventKind)]
      BY <1>1, <2>3 DEF RecoverRequeue, TypeOK
    <2> QED BY <1>1, <2>2, <2>4 DEF RecoverRequeue, TypeOK
  <1>2. CASE RecoverScan(m)
    BY <1>2 DEF RecoverScan, FirstOf, TypeOK
  <1>3. ASSUME NEW a \in AttemptIds, RecoverCandidate(m, a)
        PROVE  TypeOK'
    <2>1. monitor' \in [Servers -> [pc : {"requeue", "scan", "candidates"},
                                    todo : SUBSET AttemptIds]]
      BY <1>3 DEF RecoverCandidate, TypeOK
    <2>2. UNCHANGED <<granted, accepted>>
      BY <1>3 DEF RecoverCandidate
    <2>3. TablesOK'
      <3>1. CASE Verdict(a) = None
        BY <1>3, <3>1 DEF RecoverCandidate, TypeOK, TablesOK
      <3>2. CASE Verdict(a) # None
        <4>1. Fail(a, Verdict(a)[1], Verdict(a)[2], None)
          BY <1>3, <3>2 DEF RecoverCandidate
        <4>2. attempt[a].run \in Runs
          BY <1>3 DEF RecoverCandidate, CandidatesExist, RowsLinked
        <4> QED BY <3>2, <4>1, <4>2, VerdictType, FailType
      <3> QED BY <3>1, <3>2
    <2> QED BY <2>1, <2>2, <2>3 DEF TypeOK, TablesOK
  <1>4. CASE RecoverAbort(m)
    BY <1>4 DEF RecoverAbort, TypeOK
  <1> QED BY <1>1, <1>2, <1>3, <1>4 DEF Recover

\* The INSERT of submit leaves typed tables.
LEMMA SubmitType ==
  ASSUME TypeOK, NEW r \in Runs, NEW s \in Specs, Submit(r, s)
  PROVE  TypeOK'
  <1> DEFINE row == [NoRun EXCEPT !.status = "QUEUED", !.spec = s]
  <1>1. row \in RunRow
    <2>1. NoRun \in RunRow
      <3>1. 0 \in Nat
        OBVIOUS
      <3> QED BY <3>1 DEF RunRow, NoRun
    <2>2. ASSUME NEW old \in RunRow
          PROVE  [old EXCEPT !.status = "QUEUED", !.spec = s] \in RunRow
      BY DEF RunRow, RunStatus
    <2> QED BY <2>1, <2>2
  <1>2. run' = [run EXCEPT ![r] = row] /\ Event(r, "submitted")
        /\ UNCHANGED <<attempt, granted, accepted, monitor>>
    BY DEF Submit
  <1> HIDE DEF row
  <1>3. run' \in [Runs -> RunRow]
    BY <1>1, <1>2 DEF TypeOK
  <1>4. events' \in [Runs -> Seq(EventKind)]
    BY <1>2, EventType DEF EventKind
  <1> QED BY <1>2, <1>3, <1>4 DEF TypeOK

\* The INSERT of assign and its UPDATE of the run leave typed tables.
LEMMA PlaceType ==
  ASSUME StoreAssumption, TypeOK, NEW r \in Runs, NEW a \in AttemptIds,
         NEW w \in Workers, Place(r, a, w)
  PROVE  TypeOK'
  <1> DEFINE n == run[r].generation + 1
             row == [NoAttempt EXCEPT !.status = "STARTING", !.run = r,
                        !.generation = n, !.worker = w, !.launch = "valid"]
             old == run[r]
             new == [old EXCEPT !.status = "STARTING", !.active = a,
                        !.generation = n]
  <1>1. old \in RunRow
    BY DEF TypeOK
  <1>2. n \in Nat
    BY <1>1 DEF RunRow
  <1>3. row \in AttemptRow
    <2> HIDE DEF n
    <2> QED BY <1>2, AttemptRowPlaced
  <1>4. new \in RunRow
    <2> HIDE DEF old, n
    <2>1. ASSUME NEW any \in RunRow, NEW k \in Nat
          PROVE  [any EXCEPT !.status = "STARTING", !.active = a,
                             !.generation = k] \in RunRow
      BY DEF RunRow, RunStatus
    <2> QED BY <1>1, <1>2, <2>1
  <1>5. /\ attempt' = [attempt EXCEPT ![a] = row]
        /\ run' = [run EXCEPT ![r] = new]
        /\ Event(r, "assigned")
        /\ UNCHANGED <<granted, accepted, monitor>>
    BY DEF Place, TypeOK
  <1> HIDE DEF row, new, n, old
  <1>6. run' \in [Runs -> RunRow] /\ attempt' \in [AttemptIds -> AttemptRow]
    BY <1>3, <1>4, <1>5 DEF TypeOK
  <1>7. events' \in [Runs -> Seq(EventKind)]
    BY <1>5, EventType DEF EventKind
  <1> QED BY <1>5, <1>6, <1>7 DEF TypeOK

\* cancel leaves typed tables.
LEMMA CancelType ==
  ASSUME TypeOK, NEW r \in Runs, Cancel(r)
  PROVE  TypeOK'
  <1>1. ASSUME NEW a \in AttemptIds
        PROVE  [attempt[a] EXCEPT !.status = "CANCELLED", !.reason = "USER_CANCELLED",
                                  !.lease = "expired"] \in AttemptRow
    <2>1. /\ attempt[a] \in AttemptRow
          /\ "CANCELLED" \in AttemptStatus
          /\ "USER_CANCELLED" \in Reason
          /\ "expired" \in Timestamp
      BY DEF TypeOK, AttemptStatus, Reason, Timestamp
    <2> QED BY <2>1, RowCancelled
  <1>2. attempt' \in [AttemptIds -> AttemptRow]
    BY <1>1 DEF Cancel, TypeOK
  <1>3. [run[r] EXCEPT !.status = "CANCELLED"] \in RunRow
    <2>1. run[r] \in RunRow /\ "CANCELLED" \in RunStatus /\ TRUE \in BOOLEAN
      BY DEF TypeOK, RunStatus
    <2> QED BY <2>1, RunRowMoves
  <1>4. run' \in [Runs -> RunRow]
    BY <1>3 DEF Cancel, TypeOK
  <1>5. events' \in [Runs -> Seq(EventKind)]
    BY EventType DEF Cancel, EventKind
  <1> QED BY <1>2, <1>4, <1>5 DEF Cancel, TypeOK

\* A Job seen terminal leaves typed tables.
LEMMA RuntimeStoppedType ==
  ASSUME TypeOK, RowsLinked, NEW a \in AttemptIds, RuntimeStopped(a)
  PROVE  TypeOK'
  <1>1. attempt[a].run \in Runs
    BY DEF RuntimeStopped, RowsLinked
  <1>2. \/ Fail(a, "timeout", "TIMEOUT", None)
        \/ Fail(a, "infrastructure", "RUNTIME_STOPPED", None)
    BY DEF RuntimeStopped
  <1>3. {"TIMEOUT", "RUNTIME_STOPPED"} \subseteq Reason
    BY DEF Reason
  <1>4. TablesOK'
    BY <1>1, <1>2, <1>3, FailType
  <1> QED BY <1>4 DEF RuntimeStopped, TypeOK, TablesOK

\* Confirmed cleanup leaves typed tables.
LEMMA CleanupDoneType ==
  ASSUME TypeOK, NEW a \in AttemptIds, CleanupDone(a)
  PROVE  TypeOK'
  <1>1. [attempt[a] EXCEPT !.cleanup = "DONE"] \in AttemptRow
    BY RowCleaned DEF TypeOK
  <1>2. attempt' \in [AttemptIds -> AttemptRow]
    BY <1>1 DEF CleanupDone, TypeOK
  <1> QED BY <1>2 DEF CleanupDone, TypeOK

\* The passing of time leaves typed tables.
LEMMA TimeType ==
  ASSUME TypeOK, Time
  PROVE  TypeOK'
  <1>1. ASSUME NEW a \in AttemptIds,
               NEW d \in {"launch", "lease", "execution", "finalization"},
               Expire(a, d)
        PROVE  TypeOK'
    <2>1. [attempt[a] EXCEPT ![d] = "expired"] \in AttemptRow
      BY AttemptRowExpires DEF TypeOK
    <2>2. attempt' \in [AttemptIds -> AttemptRow]
      BY <1>1, <2>1 DEF Expire, TypeOK
    <2> QED BY <1>1, <2>2 DEF Expire, TypeOK
  <1>2. ASSUME NEW r \in Runs, DelayElapses(r)
        PROVE  TypeOK'
    <2>1. [run[r] EXCEPT !.available = TRUE] \in RunRow
      BY RunRowMoves DEF TypeOK, RunStatus
    <2>2. run' \in [Runs -> RunRow]
      BY <1>2, <2>1 DEF DelayElapses, TypeOK
    <2> QED BY <1>2, <2>2 DEF DelayElapses, TypeOK
  <1> QED BY <1>1, <1>2 DEF Time

\* Every transaction of the store leaves typed tables.
LEMMA TypeStep ==
  ASSUME StoreAssumption, TypeOK, StoreInv, [Next]_storeVars
  PROVE  TypeOK'
  <1> USE DEF StoreInv
  <1>1. ASSUME NEW r \in Runs, NEW s \in Specs, Submit(r, s)
        PROVE  TypeOK'
    BY <1>1, SubmitType
  <1>2. ASSUME NEW parent \in Runs, NEW r \in Runs, Rerun(parent, r)
        PROVE  TypeOK'
    <2>1. run[parent].spec \in Specs
      BY <1>2 DEF Rerun, Terminal, RetryBudget, Absent
    <2> QED BY <1>2, <2>1, SubmitType DEF Rerun
  <1>3. ASSUME NEW r \in Runs, NEW a \in AttemptIds, NEW w \in Workers, Place(r, a, w)
        PROVE  TypeOK'
    BY <1>3, PlaceType
  <1>4. ASSUME NEW a \in AttemptIds, NEW i \in Instances, Runner(a, i)
        PROVE  TypeOK'
    BY <1>4, RunnerType
  <1>5. ASSUME NEW r \in Runs, Cancel(r)
        PROVE  TypeOK'
    BY <1>5, CancelType
  <1>6. ASSUME NEW a \in AttemptIds, RuntimeStopped(a) \/ CleanupDone(a)
        PROVE  TypeOK'
    BY <1>6, RuntimeStoppedType, CleanupDoneType
  <1>7. ASSUME NEW m \in Servers, Recover(m) \/ RecoverAbort(m)
        PROVE  TypeOK'
    BY <1>7, RecoverType
  <1>8. CASE Time
    BY <1>8, TimeType
  <1>9. CASE UNCHANGED storeVars
    BY <1>9 DEF storeVars, TypeOK
  <1> QED BY <1>1, <1>2, <1>3, <1>4, <1>5, <1>6, <1>7, <1>8, <1>9 DEF Next

\* The empty tables are typed.
LEMMA TypeInit ==
  ASSUME StoreAssumption, Init
  PROVE  TypeOK
  <1>1. 0 \in Nat /\ 0 \in 0..MaxSequence
    BY DEF StoreAssumption
  <1>2. NoRun \in RunRow
    BY <1>1 DEF RunRow, NoRun
  <1>3. NoAttempt \in AttemptRow
    BY <1>1 DEF AttemptRow, NoAttempt, Timestamp, Reason
  <1>4. << >> \in Seq(EventKind)
    OBVIOUS
  <1> QED BY <1>2, <1>3, <1>4 DEF Init, TypeOK

-----------------------------------------------------------------------------
(* The store invariant.  Of the twenty transactions few differ in what the *)
(* invariant sees: an attempt keeps the columns it speaks of, or the       *)
(* executing attempt of a run and the run move together, or runs without   *)
(* an executing attempt move, or a row is inserted.                        *)

\* StoreInv without what recover() remembers.
Tables ==
  /\ RowsLinked
  /\ ActiveIsLatest
  /\ GenerationsDistinct
  /\ AttemptRunAgree
  /\ RetryBudget
  /\ RetriesJustified

\* The columns of attempt a that Tables speaks of keep their values.
SameAttempt(a) ==
  /\ attempt'[a].status = attempt[a].status
  /\ attempt'[a].run = attempt[a].run
  /\ attempt'[a].generation = attempt[a].generation
  /\ attempt'[a].reason = attempt[a].reason
  /\ attempt[a].status = Absent => attempt'[a] = attempt[a]

\* Everything but the status of run r that Tables speaks of is kept.
SameClaim(r) ==
  /\ run'[r].spec = run[r].spec
  /\ run'[r].generation = run[r].generation
  /\ run'[r].active = run[r].active

\* Runs that wait may be requeued or cancelled while nothing else moves.
LEMMA WaitingRunsMove ==
  ASSUME TypeOK, TypeOK', Tables,
         \A a \in AttemptIds : SameAttempt(a),
         \A r \in Runs :
           /\ SameClaim(r)
           /\ \/ run'[r].status = run[r].status
              \/ /\ run[r].status \in {"QUEUED", "RETRY_WAIT"}
                 /\ run'[r].status \in {"QUEUED", "CANCELLED"}
  PROVE  Tables'
  <1> USE DEF SameAttempt, SameClaim
  <1>1. \A a \in AttemptIds : Exists(a)' <=> Exists(a)
    BY DEF Exists
  <1>2. RowsLinked'
    BY <1>1 DEF Tables, RowsLinked, RunOf, Exists, Absent
  <1>3. ActiveIsLatest'
    BY <1>1 DEF Tables, ActiveIsLatest
  <1>4. GenerationsDistinct'
    BY <1>1 DEF Tables, GenerationsDistinct
  <1>5. AttemptRunAgree'
    BY <1>1 DEF Tables, AttemptRunAgree, Current, RunOf, Executing, RowsLinked
  <1>6. RetryBudget'
    BY <1>1 DEF Tables, RetryBudget, ActiveIsLatest, Absent
  <1>7. RetriesJustified'
    BY <1>1 DEF Tables, RetriesJustified, RowsLinked, RunOf
  <1> QED BY <1>2, <1>3, <1>4, <1>5, <1>6, <1>7 DEF Tables

\* How the statuses of an executing attempt and its run may move together:
\* on to a later phase, to the same end, or to a failure that is retried.
Together(a, s, t, reason) ==
  LET r == attempt[a].run
  IN \/ s = t /\ Executing(t)
     \/ s = t /\ Terminal(t)
     \/ /\ s = "FAILED"
        /\ t = "RETRY_WAIT"
        /\ ShouldRetry(run[r].spec, run[r].generation, ClassOf(reason))

\* An executing attempt and its run move together.
LEMMA ExecutingPairMoves ==
  ASSUME TypeOK, TypeOK', Tables,
         NEW a \in AttemptIds, Executing(attempt[a].status),
         NEW r \in Runs, r = attempt[a].run,
         \A b \in AttemptIds \ {a} : SameAttempt(b),
         attempt'[a].run = attempt[a].run,
         attempt'[a].generation = attempt[a].generation,
         \A q \in Runs : SameClaim(q),
         \A q \in Runs \ {r} : run'[q].status = run[q].status,
         Together(a, attempt'[a].status, run'[r].status, attempt'[a].reason)
  PROVE  Tables'
  <1> USE DEF SameAttempt, SameClaim
  <1>1. /\ Exists(a) /\ Exists(a)'
        /\ run[r].status # Absent /\ run'[r].status # Absent
    BY DEF Exists, Executing, Absent, Together, Terminal, Tables, RowsLinked, RunOf
  <1>2. \A b \in AttemptIds : Exists(b)' <=> Exists(b)
    BY <1>1 DEF Exists
  <1>3. /\ run[r].active = a
        /\ run[r].generation = attempt[a].generation
        /\ run[r].status = attempt[a].status
    BY DEF Tables, AttemptRunAgree, Current, RunOf
  <1>4. \A b \in AttemptIds : Executing(attempt[b].status) /\ attempt[b].run = r => b = a
    BY <1>3 DEF Tables, AttemptRunAgree, Current, RunOf
  <1>5. RowsLinked'
    BY <1>1, <1>2 DEF Tables, RowsLinked, RunOf, Exists
  <1>6. ActiveIsLatest'
    BY <1>1, <1>2 DEF Tables, ActiveIsLatest
  <1>7. GenerationsDistinct'
    BY <1>1, <1>2 DEF Tables, GenerationsDistinct
  <1>8. AttemptRunAgree'
    <2>1. ASSUME NEW b \in AttemptIds, Executing(attempt'[b].status)
          PROVE  Current(b)' /\ RunOf(b)'.status = attempt'[b].status
      <3>1. CASE b = a
        BY <1>1, <1>3, <2>1, <3>1 DEF Together, Current, RunOf, Executing, Terminal
      <3>2. CASE b # a
        <4>1. Executing(attempt[b].status) /\ attempt[b].run # r
          BY <1>4, <2>1, <3>2
        <4>2. Current(b) /\ RunOf(b).status = attempt[b].status
          BY <4>1 DEF Tables, AttemptRunAgree
        <4>3. attempt[b].run \in Runs
          BY <4>2 DEF Current, Tables, RowsLinked
        <4> QED BY <1>2, <3>2, <4>1, <4>2, <4>3 DEF Current, RunOf
      <3> QED BY <3>1, <3>2
    <2>2. ASSUME NEW q \in Runs, Executing(run'[q].status)
          PROVE  \E b \in AttemptIds : /\ run'[q].active = b
                                       /\ attempt'[b].run = q
                                       /\ attempt'[b].status = run'[q].status
      <3>1. CASE q = r
        BY <1>3, <2>2, <3>1 DEF Together, Executing, Terminal
      <3>2. CASE q # r
        BY <2>2, <3>2 DEF Tables, AttemptRunAgree
      <3> QED BY <3>1, <3>2
    <2> QED BY <2>1, <2>2 DEF AttemptRunAgree
  <1>9. RetryBudget'
    <2> SUFFICES ASSUME NEW q \in Runs, run'[q].status # Absent
                 PROVE  /\ run'[q].spec \in Specs
                        /\ run'[q].generation <= run'[q].spec.max_attempts
                        /\ run'[q].status \in {"QUEUED", "RETRY_WAIT"} /\ run'[q].generation # 0 =>
                             /\ attempt'[run'[q].active].status = "FAILED"
                             /\ ShouldRetry(run'[q].spec, run'[q].generation,
                                            ClassOf(attempt'[run'[q].active].reason))
      BY DEF RetryBudget
    <2>1. CASE q = r
      BY <1>1, <1>3, <2>1 DEF Tables, RetryBudget, Together, Executing, Terminal
    <2>2. CASE q # r
      <3>1. run[q].status # Absent
        BY <2>2
      <3>2. ASSUME run[q].generation # 0
            PROVE  run[q].active \in AttemptIds \ {a}
        BY <2>2, <3>2 DEF Tables, ActiveIsLatest
      <3> QED BY <2>2, <3>1, <3>2 DEF Tables, RetryBudget
    <2> QED BY <2>1, <2>2
  <1>10. RetriesJustified'
    <2> SUFFICES ASSUME NEW b \in AttemptIds, Exists(b),
                        attempt'[b].generation < run'[attempt'[b].run].generation
                 PROVE  /\ attempt'[b].status = "FAILED"
                        /\ ShouldRetry(run'[attempt'[b].run].spec, attempt'[b].generation,
                                       ClassOf(attempt'[b].reason))
      BY <1>2 DEF RetriesJustified, RunOf
    <2>1. attempt[b].run \in Runs
      BY DEF Tables, RowsLinked
    <2>2. attempt'[b].run = attempt[b].run /\ attempt'[b].generation = attempt[b].generation
      OBVIOUS
    <2>3. b # a
      <3> SUFFICES ASSUME b = a PROVE FALSE
        OBVIOUS
      <3>1. run[r].generation \in Nat
        BY DEF TypeOK, RunRow
      <3> QED BY <1>3, <2>1, <2>2, <3>1
    <2>4. attempt[b].status = "FAILED"
          /\ ShouldRetry(run[attempt[b].run].spec, attempt[b].generation,
                         ClassOf(attempt[b].reason))
      BY <2>1, <2>2 DEF Tables, RetriesJustified, RunOf
    <2> QED BY <2>1, <2>2, <2>3, <2>4
  <1> QED BY <1>5, <1>6, <1>7, <1>8, <1>9, <1>10 DEF Tables

\* The INSERT of a run keeps the tables consistent.
LEMMA SubmitTables ==
  ASSUME StoreAssumption, TypeOK, Tables, NEW r \in Runs, NEW s \in Specs, Submit(r, s)
  PROVE  Tables'
  <1>1. /\ attempt' = attempt
        /\ run'[r].status = "QUEUED" /\ run'[r].spec = s
        /\ run'[r].generation = 0 /\ run'[r].active = None
        /\ \A q \in Runs \ {r} : run'[q] = run[q]
        /\ run[r].status = Absent
    BY DEF Submit, NoRun, TypeOK
  <1>2. \A a \in AttemptIds : Exists(a) => attempt[a].run \in Runs \ {r}
    BY <1>1 DEF Tables, RowsLinked, RunOf
  <1>3. \A a \in AttemptIds : Exists(a)' <=> Exists(a)
    BY <1>1 DEF Exists
  <1>4. RowsLinked'
    BY <1>1, <1>2, <1>3 DEF Tables, RowsLinked, RunOf
  <1>5. ActiveIsLatest'
    BY <1>1, <1>2 DEF Tables, ActiveIsLatest, Exists
  <1>6. GenerationsDistinct'
    BY <1>1, <1>3 DEF Tables, GenerationsDistinct
  <1>7. AttemptRunAgree'
    <2>1. ASSUME NEW a \in AttemptIds, Executing(attempt[a].status)
          PROVE  Current(a)' /\ RunOf(a)'.status = attempt[a].status
      <3>1. Current(a) /\ RunOf(a).status = attempt[a].status
        BY <2>1 DEF Tables, AttemptRunAgree
      <3>2. attempt[a].run \in Runs \ {r}
        BY <1>2, <3>1 DEF Current
      <3> QED BY <1>1, <1>3, <3>1, <3>2 DEF Current, RunOf
    <2>2. ASSUME NEW q \in Runs, Executing(run'[q].status)
          PROVE  q # r
      BY <1>1, <2>2 DEF Executing
    <2> QED BY <1>1, <2>1, <2>2 DEF Tables, AttemptRunAgree
  <1>8. RetryBudget'
    BY <1>1 DEF Tables, RetryBudget, StoreAssumption
  <1>9. RetriesJustified'
    BY <1>1, <1>2, <1>3 DEF Tables, RetriesJustified, RunOf
  <1> QED BY <1>4, <1>5, <1>6, <1>7, <1>8, <1>9 DEF Tables

\* The INSERT of an attempt keeps the tables consistent: the run has no
\* executing attempt, and if it had attempts before, the latest of them
\* failed in a way the policy covers.
LEMMA PlaceTables ==
  ASSUME StoreAssumption, TypeOK, TypeOK', Tables, NEW r \in Runs, NEW a \in AttemptIds,
         NEW w \in Workers, Place(r, a, w)
  PROVE  Tables'
  <1> DEFINE n == run[r].generation
  <1>1. /\ run'[r].status = "STARTING" /\ run'[r].spec = run[r].spec
        /\ run'[r].generation = n + 1 /\ run'[r].active = a
        /\ \A q \in Runs \ {r} : run'[q] = run[q]
    BY DEF Place, TypeOK, RunRow
  <1>2. /\ attempt'[a].status = "STARTING" /\ attempt'[a].run = r
        /\ attempt'[a].generation = n + 1
        /\ \A b \in AttemptIds \ {a} : attempt'[b] = attempt[b]
    BY DEF Place, NoAttempt, TypeOK
  <1>3. run[r].status = "QUEUED" /\ ~Exists(a) /\ n \in Nat
    BY DEF Place, Fresh, TypeOK, RunRow
  <1> HIDE DEF n
  <1>4. Exists(a)' /\ \A b \in AttemptIds \ {a} : Exists(b)' <=> Exists(b)
    BY <1>2 DEF Exists, Absent
  <1>5. \A b \in AttemptIds : Exists(b) =>
          /\ attempt[b].run \in Runs
          /\ attempt[b].generation \in 1..run[attempt[b].run].generation
    BY DEF Tables, RowsLinked, RunOf
  <1>6. RowsLinked'
    <2> SUFFICES ASSUME NEW b \in AttemptIds
                 PROVE  IF Exists(b)'
                        THEN /\ attempt'[b].run \in Runs
                             /\ run'[attempt'[b].run].status # Absent
                             /\ attempt'[b].generation \in 1..run'[attempt'[b].run].generation
                        ELSE attempt'[b] = NoAttempt
      BY DEF RowsLinked, RunOf
    <2>1. CASE b = a
      BY <1>1, <1>2, <1>3, <1>4, <2>1 DEF Absent
    <2>2. CASE b # a /\ Exists(b)
      <3>1. attempt'[b] = attempt[b] /\ Exists(b)'
        BY <1>2, <1>4, <2>2
      <3>2. run[attempt[b].run].status # Absent
        BY <2>2 DEF Tables, RowsLinked, RunOf
      <3>3. CASE attempt[b].run = r
        BY <1>1, <1>3, <1>5, <2>2, <3>1, <3>3 DEF Absent, n
      <3>4. CASE attempt[b].run # r
        BY <1>1, <1>5, <2>2, <3>1, <3>2, <3>4
      <3> QED BY <3>3, <3>4
    <2>3. CASE b # a /\ ~Exists(b)
      BY <1>2, <1>4, <2>3 DEF Tables, RowsLinked
    <2> QED BY <2>1, <2>2, <2>3
  <1>7. ActiveIsLatest'
    <2> SUFFICES ASSUME NEW q \in Runs
                 PROVE  IF run'[q].generation = 0
                        THEN run'[q].active = None
                        ELSE /\ run'[q].active \in AttemptIds
                             /\ attempt'[run'[q].active].status # Absent
                             /\ attempt'[run'[q].active].run = q
                             /\ attempt'[run'[q].active].generation = run'[q].generation
      BY DEF ActiveIsLatest, Exists
    <2>1. CASE q = r
      BY <1>1, <1>2, <1>3, <2>1 DEF Absent
    <2>2. CASE q # r
      <3>1. run'[q] = run[q]
        BY <1>1, <2>2
      <3>2. CASE run[q].generation = 0
        BY <3>1, <3>2 DEF Tables, ActiveIsLatest
      <3>3. CASE run[q].generation # 0
        <4>1. /\ run[q].active \in AttemptIds
              /\ Exists(run[q].active)
              /\ attempt[run[q].active].run = q
              /\ attempt[run[q].active].generation = run[q].generation
          BY <3>3 DEF Tables, ActiveIsLatest
        <4>2. attempt'[run[q].active] = attempt[run[q].active]
          BY <1>2, <1>3, <4>1
        <4> QED BY <3>1, <3>3, <4>1, <4>2 DEF Exists
      <3> QED BY <3>2, <3>3
    <2> QED BY <2>1, <2>2
  <1>8. GenerationsDistinct'
    BY <1>2, <1>3, <1>4, <1>5 DEF Tables, GenerationsDistinct, n
  <1>9. AttemptRunAgree'
    <2>1. ASSUME NEW b \in AttemptIds, Executing(attempt'[b].status)
          PROVE  Current(b)' /\ RunOf(b)'.status = attempt'[b].status
      <3>1. CASE b = a
        BY <1>1, <1>2, <1>4, <3>1 DEF Current, RunOf
      <3>2. CASE b # a
        <4>1. Executing(attempt[b].status) /\ attempt'[b] = attempt[b]
          BY <1>2, <2>1, <3>2
        <4>2. Current(b) /\ RunOf(b).status = attempt[b].status
          BY <4>1 DEF Tables, AttemptRunAgree
        <4>3. attempt[b].run \in Runs \ {r} /\ Exists(b)
          BY <1>3, <1>5, <4>1, <4>2 DEF Current, RunOf, Executing
        <4> QED BY <1>1, <1>4, <3>2, <4>1, <4>2, <4>3 DEF Current, RunOf
      <3> QED BY <3>1, <3>2
    <2>2. ASSUME NEW q \in Runs, Executing(run'[q].status)
          PROVE  \E b \in AttemptIds : /\ run'[q].active = b
                                       /\ attempt'[b].run = q
                                       /\ attempt'[b].status = run'[q].status
      <3>1. CASE q = r
        BY <1>1, <1>2, <3>1
      <3>2. CASE q # r
        <4>1. PICK b \in AttemptIds : /\ run[q].active = b
                                      /\ attempt[b].run = q
                                      /\ attempt[b].status = run[q].status
          BY <1>1, <2>2, <3>2 DEF Tables, AttemptRunAgree
        <4>2. b # a
          BY <1>1, <1>3, <2>2, <3>2, <4>1 DEF Exists, Executing, Absent
        <4> QED BY <1>1, <1>2, <3>2, <4>1, <4>2
      <3> QED BY <3>1, <3>2
    <2> QED BY <2>1, <2>2 DEF AttemptRunAgree
  <1>10. /\ run[r].spec \in Specs
         /\ n + 1 <= run[r].spec.max_attempts
    <2>1. run[r].spec \in Specs /\ run[r].spec.max_attempts \in Nat \ {0}
      BY <1>3 DEF Tables, RetryBudget, StoreAssumption, Absent
    <2>2. CASE n = 0
      BY <2>1, <2>2
    <2>3. CASE n # 0
      BY <1>3, <2>1, <2>3 DEF Tables, RetryBudget, ShouldRetry, n, Absent
    <2> QED BY <2>1, <2>2, <2>3
  <1>11. RetryBudget'
    <2> SUFFICES ASSUME NEW q \in Runs, run'[q].status # Absent
                 PROVE  /\ run'[q].spec \in Specs
                        /\ run'[q].generation <= run'[q].spec.max_attempts
                        /\ run'[q].status \in {"QUEUED", "RETRY_WAIT"} /\ run'[q].generation # 0 =>
                             /\ attempt'[run'[q].active].status = "FAILED"
                             /\ ShouldRetry(run'[q].spec, run'[q].generation,
                                            ClassOf(attempt'[run'[q].active].reason))
      BY DEF RetryBudget
    <2>1. CASE q = r
      BY <1>1, <1>10, <2>1
    <2>2. CASE q # r
      <3>1. run'[q] = run[q]
        BY <1>1, <2>2
      <3>2. ASSUME run[q].generation # 0
            PROVE  run[q].active \in AttemptIds \ {a}
        BY <1>3, <3>2 DEF Tables, ActiveIsLatest
      <3> QED BY <1>2, <3>1, <3>2 DEF Tables, RetryBudget
    <2> QED BY <2>1, <2>2
  <1>12. RetriesJustified'
    <2> SUFFICES ASSUME NEW b \in AttemptIds, Exists(b)',
                        attempt'[b].generation < run'[attempt'[b].run].generation
                 PROVE  /\ attempt'[b].status = "FAILED"
                        /\ ShouldRetry(run'[attempt'[b].run].spec, attempt'[b].generation,
                                       ClassOf(attempt'[b].reason))
      BY DEF RetriesJustified, RunOf
    <2>1. b # a
      <3> SUFFICES ASSUME b = a PROVE FALSE
        OBVIOUS
      <3> QED BY <1>1, <1>2, <1>3
    <2>2. Exists(b) /\ attempt'[b] = attempt[b] /\ attempt[b].run \in Runs
          /\ attempt[b].generation \in 1..run[attempt[b].run].generation
      BY <1>2, <1>4, <1>5, <2>1
    <2>3. CASE attempt[b].run # r
      BY <1>1, <2>2, <2>3 DEF Tables, RetriesJustified, RunOf
    <2>4. CASE attempt[b].run = r /\ attempt[b].generation < n
      BY <1>1, <2>2, <2>4 DEF Tables, RetriesJustified, RunOf, n
    <2>5. CASE attempt[b].run = r /\ attempt[b].generation = n
      <3>1. n # 0
        BY <1>3, <2>2, <2>5 DEF n
      <3>2. b = run[r].active
        <4>1. /\ run[r].active \in AttemptIds
              /\ Exists(run[r].active)
              /\ attempt[run[r].active].run = r
              /\ attempt[run[r].active].generation = n
          BY <3>1 DEF Tables, ActiveIsLatest, n
        <4> QED BY <2>2, <2>5, <4>1 DEF Tables, GenerationsDistinct
      <3> QED BY <1>1, <1>3, <2>2, <2>5, <3>1, <3>2 DEF Tables, RetryBudget, n, Absent
    <2> QED BY <1>3, <2>2, <2>3, <2>4, <2>5 DEF n
  <1> QED BY <1>6, <1>7, <1>8, <1>9, <1>11, <1>12 DEF Tables

\* The active attempt of a run that executes is executing too.
LEMMA ActiveExecutes ==
  ASSUME Tables, NEW a \in AttemptIds, Exists(a), RunOf(a).active = a,
         Executing(RunOf(a).status)
  PROVE  /\ attempt[a].run \in Runs
         /\ attempt[a].status = RunOf(a).status
         /\ Executing(attempt[a].status)
  <1>1. attempt[a].run \in Runs
    BY DEF Tables, RowsLinked
  <1> QED BY <1>1 DEF Tables, AttemptRunAgree, RunOf

\* An UPDATE of the status of one run.
LEMMA StatusMoves ==
  ASSUME TypeOK, NEW r \in Runs, NEW s, run' = [run EXCEPT ![r].status = s]
  PROVE  /\ run'[r].status = s
         /\ \A q \in Runs : SameClaim(q)
         /\ \A q \in Runs \ {r} : run'[q].status = run[q].status
  <1>1. /\ run'[r] = [run[r] EXCEPT !.status = s]
        /\ \A q \in Runs \ {r} : run'[q] = run[q]
    BY DEF TypeOK
  <1>2. run[r] \in RunRow
    BY DEF TypeOK
  <1>3. run'[r].status = s /\ SameClaim(r)
    BY <1>1, <1>2 DEF RunRow, SameClaim
  <1>4. \A q \in Runs \ {r} : SameClaim(q) /\ run'[q].status = run[q].status
    BY <1>1 DEF SameClaim
  <1> QED BY <1>3, <1>4

\* An UPDATE of columns of one attempt that Tables does not speak of.
LEMMA QuietUpdate ==
  ASSUME TypeOK, TypeOK', Tables, run' = run, NEW a \in AttemptIds, SameAttempt(a),
         \A b \in AttemptIds \ {a} : attempt'[b] = attempt[b]
  PROVE  Tables'
  <1>1. \A b \in AttemptIds : SameAttempt(b)
    BY DEF SameAttempt
  <1>2. \A r \in Runs : SameClaim(r) /\ run'[r].status = run[r].status
    BY DEF SameClaim
  <1> QED BY <1>1, <1>2, WaitingRunsMove

\* pg::fail, for the reason its failure class stands for.
LEMMA FailTables ==
  ASSUME TypeOK, TypeOK', Tables, NEW a \in AttemptIds, Executing(attempt[a].status),
         attempt[a].run \in Runs, NEW failure, NEW reason, NEW e,
         ClassOf(reason) = failure, Fail(a, failure, reason, e)
  PROVE  Tables'
  <1> DEFINE r == attempt[a].run
             retry == ShouldRetry(run[r].spec, attempt[a].generation, failure)
  <1>1. /\ attempt'[a].status = "FAILED" /\ attempt'[a].reason = reason
        /\ attempt'[a].run = attempt[a].run
        /\ attempt'[a].generation = attempt[a].generation
        /\ \A b \in AttemptIds \ {a} : attempt'[b] = attempt[b]
    BY DEF Fail, TypeOK, AttemptRow
  <1>2. /\ run'[r].status = IF retry THEN "RETRY_WAIT" ELSE "FAILED"
        /\ \A q \in Runs : SameClaim(q)
        /\ \A q \in Runs \ {r} : run'[q].status = run[q].status
    BY DEF Fail, TypeOK, RunRow, SameClaim
  <1>3. \A b \in AttemptIds \ {a} : SameAttempt(b)
    BY <1>1 DEF SameAttempt
  <1>4. attempt[a].generation = run[r].generation
    BY DEF Tables, AttemptRunAgree, Current, RunOf
  <1>5. Together(a, attempt'[a].status, run'[r].status, attempt'[a].reason)
    <2>1. CASE retry
      BY <1>1, <1>2, <1>4, <2>1 DEF Together
    <2>2. CASE ~retry
      BY <1>1, <1>2, <2>2 DEF Together, Terminal
    <2> QED BY <2>1, <2>2
  <1>6. PICK q \in Runs : q = r
    OBVIOUS
  <1> QED BY <1>1, <1>2, <1>3, <1>5, <1>6, ExecutingPairMoves

\* The class under which finish fails an attempt is that of the reason it records.
LEMMA RecordedClass ==
  ASSUME NEW o \in RunnerOutcomes
  PROVE  ClassOf(IF o[2] = "" THEN "EXIT_ERROR" ELSE o[2]) = FailureOf(o[2])
  <1>1. CASE o = <<0, "">> BY <1>1 DEF ClassOf, FailureOf
  <1>2. CASE o = <<1, "">> BY <1>2 DEF ClassOf, FailureOf
  <1>3. CASE o = <<1, "TIMEOUT">> BY <1>3 DEF ClassOf, FailureOf
  <1>4. CASE o = <<1, "STOP_REQUESTED">> BY <1>4 DEF ClassOf, FailureOf
  <1>5. CASE o = <<1, "LEASE_LOST">> BY <1>5 DEF ClassOf, FailureOf
  <1> QED BY <1>1, <1>2, <1>3, <1>4, <1>5 DEF RunnerOutcomes

\* Each call of a runner keeps the tables consistent.
LEMMA RunnerTables ==
  ASSUME StoreAssumption, TypeOK, TypeOK', Tables,
         NEW a \in AttemptIds, NEW i \in Instances, Runner(a, i)
  PROVE  Tables'
  <1> DEFINE r == attempt[a].run
  <1>A. Owned(a, i) => r \in Runs /\ Executing(attempt[a].status)
    BY ActiveExecutes DEF Owned, Current, Executing
  <1>1. CASE Claim(a, i)
    <2>1. r \in Runs /\ Executing(attempt[a].status)
      BY <1>1, ActiveExecutes DEF Claim, Current, Executing
    <2>2. /\ attempt'[a].status = "RUNNING"
          /\ attempt'[a].run = attempt[a].run
          /\ attempt'[a].generation = attempt[a].generation
          /\ \A b \in AttemptIds \ {a} : SameAttempt(b)
      BY <1>1 DEF Claim, TypeOK, AttemptRow, SameAttempt
    <2>3. /\ run'[r].status = "RUNNING"
          /\ \A q \in Runs : SameClaim(q)
          /\ \A q \in Runs \ {r} : run'[q].status = run[q].status
      <3>1. run' = [run EXCEPT ![r].status = "RUNNING"]
        BY <1>1 DEF Claim
      <3> QED BY <2>1, <3>1, StatusMoves
    <2>4. Together(a, attempt'[a].status, run'[r].status, attempt'[a].reason)
      BY <2>2, <2>3 DEF Together, Executing
    <2> QED BY <2>1, <2>2, <2>3, <2>4, ExecutingPairMoves
  <1>2. CASE ClaimAgain(a, i)
    BY <1>2, QuietUpdate DEF ClaimAgain, SameAttempt
  <1>3. CASE Heartbeat(a, i)
    <2>1. Exists(a)
      BY <1>3 DEF Heartbeat, Owned, Current
    <2>2. SameAttempt(a) /\ \A b \in AttemptIds \ {a} : attempt'[b] = attempt[b]
      BY <1>3, <2>1 DEF Heartbeat, TypeOK, AttemptRow, SameAttempt, Exists
    <2> QED BY <1>3, <2>2, QuietUpdate DEF Heartbeat
  <1>4. CASE BeginFinalization(a, i)
    <2>1. r \in Runs /\ Executing(attempt[a].status)
      BY <1>4, <1>A DEF BeginFinalization
    <2>2. /\ attempt'[a].status = "FINALIZING"
          /\ attempt'[a].run = attempt[a].run
          /\ attempt'[a].generation = attempt[a].generation
          /\ \A b \in AttemptIds \ {a} : SameAttempt(b)
      BY <1>4 DEF BeginFinalization, TypeOK, AttemptRow, SameAttempt
    <2>3. /\ run'[r].status = "FINALIZING"
          /\ \A q \in Runs : SameClaim(q)
          /\ \A q \in Runs \ {r} : run'[q].status = run[q].status
      <3>1. run' = [run EXCEPT ![r].status = "FINALIZING"]
        BY <1>4 DEF BeginFinalization
      <3> QED BY <2>1, <3>1, StatusMoves
    <2>4. Together(a, attempt'[a].status, run'[r].status, attempt'[a].reason)
      BY <2>2, <2>3 DEF Together, Executing
    <2> QED BY <2>1, <2>2, <2>3, <2>4, ExecutingPairMoves
  <1>5. ASSUME NEW first \in 1..MaxSequence, NEW last \in 1..MaxSequence,
               Report(a, i, first, last)
        PROVE  Tables'
    <2>1. Exists(a)
      BY <1>5 DEF Report, Owned, Current
    <2>2. SameAttempt(a) /\ \A b \in AttemptIds \ {a} : attempt'[b] = attempt[b]
      BY <1>5, <2>1 DEF Report, TypeOK, AttemptRow, SameAttempt, Exists
    <2> QED BY <1>5, <2>2, QuietUpdate DEF Report
  <1>6. ASSUME NEW o \in Outcomes, NEW n \in 0..MaxSequence,
               Finish(a, i, o[1], o[2], n)
        PROVE  Tables'
    <2> DEFINE e == o[1]
               reason == o[2]
               recorded == IF reason = "" THEN "EXIT_ERROR" ELSE reason
    <2>1. r \in Runs /\ Executing(attempt[a].status)
      BY <1>6, <1>A DEF Finish
    <2>2. Finish(a, i, e, reason, n)
      BY <1>6
    <2>3. ClassOf(recorded) = FailureOf(reason)
      BY StoreAssumption, RecordedClass DEF StoreAssumption
    <2> HIDE DEF e, reason
    <2>4. CASE e = 0
      <3>1. /\ attempt' = [attempt EXCEPT ![a].status = "SUCCEEDED",
                                          ![a].reason = reason, ![a].exit_code = 0]
            /\ run' = [run EXCEPT ![r].status = "SUCCEEDED"]
        BY <2>2, <2>4 DEF Finish
      <3>2. /\ attempt'[a].status = "SUCCEEDED"
            /\ attempt'[a].run = attempt[a].run
            /\ attempt'[a].generation = attempt[a].generation
            /\ \A b \in AttemptIds \ {a} : SameAttempt(b)
        BY <3>1 DEF TypeOK, AttemptRow, SameAttempt
      <3>3. /\ run'[r].status = "SUCCEEDED"
            /\ \A q \in Runs : SameClaim(q)
            /\ \A q \in Runs \ {r} : run'[q].status = run[q].status
        BY <2>1, <3>1, StatusMoves
      <3>4. Together(a, attempt'[a].status, run'[r].status, attempt'[a].reason)
        BY <3>2, <3>3 DEF Together, Terminal
      <3> QED BY <2>1, <3>2, <3>3, <3>4, ExecutingPairMoves
    <2>5. CASE e # 0
      <3>1. Fail(a, FailureOf(reason), recorded, e)
        BY <2>2, <2>5, Zenon DEF Finish
      <3> HIDE DEF recorded
      <3> QED BY <2>1, <2>3, <3>1, FailTables
    <2> QED BY <2>4, <2>5
  <1>7. ASSUME NEW e \in ExitCode, FinishAgain(a, i, e)
        PROVE  Tables'
    BY <1>7, QuietUpdate DEF FinishAgain, SameAttempt
  <1> QED BY <1>1, <1>2, <1>3, <1>4, <1>5, <1>6, <1>7 DEF Runner

\* cancel keeps the tables consistent, whether or not the run executes.
LEMMA CancelTables ==
  ASSUME TypeOK, TypeOK', Tables, NEW r \in Runs, Cancel(r)
  PROVE  Tables'
  <1>1. /\ run'[r].status = "CANCELLED"
        /\ \A q \in Runs : SameClaim(q)
        /\ \A q \in Runs \ {r} : run'[q].status = run[q].status
    BY StatusMoves DEF Cancel
  <1>2. ASSUME NEW b \in AttemptIds, ~(attempt[b].run = r /\ Executing(attempt[b].status))
        PROVE  SameAttempt(b)
    BY <1>2 DEF Cancel, SameAttempt
  <1>3. CASE Executing(run[r].status)
    <2>1. PICK a \in AttemptIds : /\ run[r].active = a
                                  /\ attempt[a].run = r
                                  /\ attempt[a].status = run[r].status
      BY <1>3 DEF Tables, AttemptRunAgree
    <2>2. /\ attempt'[a].status = "CANCELLED"
          /\ attempt'[a].run = attempt[a].run
          /\ attempt'[a].generation = attempt[a].generation
      BY <1>3, <2>1 DEF Cancel, TypeOK, AttemptRow
    <2>3. ASSUME NEW b \in AttemptIds \ {a}
          PROVE  ~(attempt[b].run = r /\ Executing(attempt[b].status))
      BY <2>1 DEF Tables, AttemptRunAgree, Current, RunOf
    <2>4. Together(a, attempt'[a].status, run'[r].status, attempt'[a].reason)
      BY <1>1, <2>2 DEF Together, Terminal
    <2> QED BY <1>1, <1>2, <1>3, <2>1, <2>2, <2>3, <2>4, ExecutingPairMoves
  <1>4. CASE ~Executing(run[r].status)
    <2>1. run[r].status \in {"QUEUED", "RETRY_WAIT"}
      BY <1>4 DEF Cancel, TypeOK, RunRow, RunStatus, Executing, Terminal
    <2>2. ASSUME NEW b \in AttemptIds
          PROVE  ~(attempt[b].run = r /\ Executing(attempt[b].status))
      BY <1>4 DEF Tables, AttemptRunAgree, RunOf
    <2> QED BY <1>1, <1>2, <2>1, <2>2, WaitingRunsMove
  <1> QED BY <1>3, <1>4

\* A Job seen terminal keeps the tables consistent.
LEMMA RuntimeStoppedTables ==
  ASSUME TypeOK, TypeOK', Tables, NEW a \in AttemptIds, RuntimeStopped(a)
  PROVE  Tables'
  <1>1. attempt[a].run \in Runs /\ Executing(attempt[a].status)
    BY DEF RuntimeStopped, Tables, RowsLinked
  <1>2. \/ Fail(a, "timeout", "TIMEOUT", None)
        \/ Fail(a, "infrastructure", "RUNTIME_STOPPED", None)
    BY DEF RuntimeStopped
  <1>3. ClassOf("TIMEOUT") = "timeout" /\ ClassOf("RUNTIME_STOPPED") = "infrastructure"
    BY DEF ClassOf
  <1> QED BY <1>1, <1>2, <1>3, FailTables

\* Confirmed cleanup keeps the tables consistent.
LEMMA CleanupDoneTables ==
  ASSUME TypeOK, TypeOK', Tables, NEW a \in AttemptIds, CleanupDone(a)
  PROVE  Tables'
  <1>1. SameAttempt(a) /\ \A b \in AttemptIds \ {a} : attempt'[b] = attempt[b]
    BY DEF CleanupDone, TypeOK, AttemptRow, SameAttempt, Exists
  <1> QED BY <1>1, QuietUpdate DEF CleanupDone

\* recover() keeps the tables consistent.
LEMMA RecoverTables ==
  ASSUME TypeOK, TypeOK', Tables, CandidatesExist,
         NEW m \in Servers, Recover(m) \/ RecoverAbort(m)
  PROVE  Tables'
  <1> DEFINE Idle == attempt' = attempt /\ run' = run
  <1>1. Idle => Tables'
    <2>1. Idle => /\ \A b \in AttemptIds : SameAttempt(b)
                  /\ \A r \in Runs : SameClaim(r) /\ run'[r].status = run[r].status
      BY DEF SameAttempt, SameClaim
    <2> QED BY <2>1, WaitingRunsMove
  <1>2. CASE RecoverRequeue(m)
    <2>1. \A b \in AttemptIds : SameAttempt(b)
      BY <1>2 DEF RecoverRequeue, SameAttempt
    <2>2. ASSUME NEW r \in Runs
          PROVE  /\ SameClaim(r)
                 /\ \/ run'[r].status = run[r].status
                    \/ /\ run[r].status \in {"QUEUED", "RETRY_WAIT"}
                       /\ run'[r].status \in {"QUEUED", "CANCELLED"}
      BY <1>2 DEF RecoverRequeue, SameClaim, TypeOK, RunRow
    <2> QED BY <2>1, <2>2, WaitingRunsMove
  <1>3. CASE RecoverScan(m)
    BY <1>1, <1>3 DEF RecoverScan
  <1>4. ASSUME NEW a \in AttemptIds, RecoverCandidate(m, a)
        PROVE  Tables'
    <2>1. CASE Verdict(a) = None
      BY <1>1, <1>4, <2>1 DEF RecoverCandidate
    <2>2. CASE Verdict(a) # None
      <3>1. Exists(a)
        BY <1>4 DEF RecoverCandidate, CandidatesExist
      <3>2. attempt[a].run \in Runs /\ Executing(attempt[a].status)
        BY <2>2, <3>1, VerdictType, ActiveExecutes
      <3>3. Fail(a, Verdict(a)[1], Verdict(a)[2], None)
        BY <1>4, <2>2 DEF RecoverCandidate
      <3> QED BY <2>2, <3>2, <3>3, VerdictType, FailTables
    <2> QED BY <2>1, <2>2
  <1>5. CASE RecoverAbort(m)
    BY <1>1, <1>5 DEF RecoverAbort
  <1> QED BY <1>2, <1>3, <1>4, <1>5 DEF Recover

\* The passing of time keeps the tables consistent.
LEMMA TimeTables ==
  ASSUME TypeOK, TypeOK', Tables, Time
  PROVE  Tables'
  <1>1. ASSUME NEW a \in AttemptIds,
               NEW d \in {"launch", "lease", "execution", "finalization"},
               Expire(a, d)
        PROVE  Tables'
    <2>1. attempt[a].status # Absent
      BY <1>1 DEF Expire, Watched, Absent
    <2>2. SameAttempt(a) /\ \A b \in AttemptIds \ {a} : attempt'[b] = attempt[b]
      BY <1>1, <2>1 DEF Expire, TypeOK, AttemptRow, SameAttempt
    <2> QED BY <1>1, <2>2, QuietUpdate DEF Expire
  <1>2. ASSUME NEW r \in Runs, DelayElapses(r)
        PROVE  Tables'
    <2>1. \A b \in AttemptIds : SameAttempt(b)
      BY <1>2 DEF DelayElapses, SameAttempt
    <2>2. \A q \in Runs : SameClaim(q) /\ run'[q].status = run[q].status
      BY <1>2 DEF DelayElapses, SameClaim, TypeOK, RunRow
    <2> QED BY <2>1, <2>2, WaitingRunsMove
  <1> QED BY <1>1, <1>2 DEF Time

\* Every transaction keeps the tables consistent.
LEMMA TablesStep ==
  ASSUME StoreAssumption, TypeOK, TypeOK', StoreInv, [Next]_storeVars
  PROVE  Tables'
  <1>0. Tables /\ CandidatesExist
    BY DEF StoreInv, Tables
  <1>1. ASSUME NEW r \in Runs, NEW s \in Specs, Submit(r, s)
        PROVE  Tables'
    BY <1>0, <1>1, SubmitTables
  <1>2. ASSUME NEW parent \in Runs, NEW r \in Runs, Rerun(parent, r)
        PROVE  Tables'
    <2>1. run[parent].spec \in Specs
      BY <1>0, <1>2 DEF Rerun, Terminal, Tables, RetryBudget, Absent
    <2> QED BY <1>0, <1>2, <2>1, SubmitTables DEF Rerun
  <1>3. ASSUME NEW r \in Runs, NEW a \in AttemptIds, NEW w \in Workers, Place(r, a, w)
        PROVE  Tables'
    BY <1>0, <1>3, PlaceTables
  <1>4. ASSUME NEW a \in AttemptIds, NEW i \in Instances, Runner(a, i)
        PROVE  Tables'
    BY <1>0, <1>4, RunnerTables
  <1>5. ASSUME NEW r \in Runs, Cancel(r)
        PROVE  Tables'
    BY <1>0, <1>5, CancelTables
  <1>6. ASSUME NEW a \in AttemptIds, RuntimeStopped(a) \/ CleanupDone(a)
        PROVE  Tables'
    BY <1>0, <1>6, RuntimeStoppedTables, CleanupDoneTables
  <1>7. ASSUME NEW m \in Servers, Recover(m) \/ RecoverAbort(m)
        PROVE  Tables'
    BY <1>0, <1>7, RecoverTables
  <1>8. CASE Time
    BY <1>0, <1>8, TimeTables
  <1>9. CASE UNCHANGED storeVars
    <2>1. /\ \A b \in AttemptIds : SameAttempt(b)
          /\ \A r \in Runs : SameClaim(r) /\ run'[r].status = run[r].status
      BY <1>9 DEF storeVars, SameAttempt, SameClaim
    <2> QED BY <1>0, <2>1, WaitingRunsMove
  <1> QED BY <1>1, <1>2, <1>3, <1>4, <1>5, <1>6, <1>7, <1>8, <1>9 DEF Next

\* No transaction deletes an attempt.
LEMMA AttemptsStay ==
  ASSUME TypeOK, [Next]_storeVars, NEW a \in AttemptIds, Exists(a)
  PROVE  Exists(a)'
  <1> SUFFICES attempt'[a].status # Absent
    BY DEF Exists
  <1> USE DEF Absent
  <1>F. ASSUME NEW b \in AttemptIds, NEW failure, NEW reason, NEW e,
               Fail(b, failure, reason, e)
        PROVE  attempt'[a].status # Absent
    BY <1>F DEF Fail, TypeOK, AttemptRow, Exists
  <1>1. ASSUME NEW r \in Runs, NEW s, Submit(r, s)
        PROVE  attempt'[a].status # Absent
    BY <1>1 DEF Submit, Exists
  <1>2. ASSUME NEW r \in Runs, NEW b \in AttemptIds, NEW w \in Workers, Place(r, b, w)
        PROVE  attempt'[a].status # Absent
    BY <1>2 DEF Place, Fresh, Exists, TypeOK
  <1>3. ASSUME NEW b \in AttemptIds, NEW i \in Instances, Runner(b, i)
        PROVE  attempt'[a].status # Absent
    <2>1. CASE Claim(b, i)
      BY <2>1 DEF Claim, TypeOK, AttemptRow, Exists
    <2>2. CASE ClaimAgain(b, i)
      BY <2>2 DEF ClaimAgain, Exists
    <2>3. CASE Heartbeat(b, i)
      BY <2>3 DEF Heartbeat, TypeOK, AttemptRow, Exists
    <2>4. CASE BeginFinalization(b, i)
      BY <2>4 DEF BeginFinalization, TypeOK, AttemptRow, Exists
    <2>5. ASSUME NEW first \in 1..MaxSequence, NEW last \in 1..MaxSequence,
                 Report(b, i, first, last)
          PROVE  attempt'[a].status # Absent
      BY <2>5 DEF Report, TypeOK, AttemptRow, Exists
    <2>6. ASSUME NEW o \in Outcomes, NEW n \in 0..MaxSequence,
                 Finish(b, i, o[1], o[2], n)
          PROVE  attempt'[a].status # Absent
      <3>1. CASE o[1] = 0
        <4>1. attempt' = [attempt EXCEPT ![b].status = "SUCCEEDED", ![b].reason = o[2],
                                         ![b].exit_code = 0]
          BY <2>6, <3>1, Zenon DEF Finish
        <4> QED BY <4>1 DEF TypeOK, AttemptRow, Exists
      <3>2. CASE o[1] # 0
        BY <1>F, <2>6, <3>2, Zenon DEF Finish
      <3> QED BY <3>1, <3>2
    <2>7. ASSUME NEW e \in ExitCode, FinishAgain(b, i, e)
          PROVE  attempt'[a].status # Absent
      BY <2>7 DEF FinishAgain, Exists
    <2> QED BY <1>3, <2>1, <2>2, <2>3, <2>4, <2>5, <2>6, <2>7 DEF Runner
  <1>4. ASSUME NEW r \in Runs, Cancel(r)
        PROVE  attempt'[a].status # Absent
    <2>1. \/ attempt'[a] = attempt[a]
          \/ attempt'[a] = [attempt[a] EXCEPT !.status = "CANCELLED",
                                              !.reason = "USER_CANCELLED",
                                              !.lease = "expired"]
      BY <1>4 DEF Cancel
    <2> QED BY <2>1 DEF TypeOK, AttemptRow, Exists, Absent
  <1>5. ASSUME NEW b \in AttemptIds, RuntimeStopped(b)
        PROVE  attempt'[a].status # Absent
    BY <1>F, <1>5, Zenon DEF RuntimeStopped
  <1>6. ASSUME NEW b \in AttemptIds, CleanupDone(b)
        PROVE  attempt'[a].status # Absent
    BY <1>6 DEF CleanupDone, TypeOK, AttemptRow, Exists
  <1>7. ASSUME NEW m \in Servers, Recover(m) \/ RecoverAbort(m)
        PROVE  attempt'[a].status # Absent
    <2>1. CASE RecoverRequeue(m) \/ RecoverScan(m) \/ RecoverAbort(m)
      BY <2>1 DEF RecoverRequeue, RecoverScan, RecoverAbort, Exists
    <2>2. ASSUME NEW b \in AttemptIds, RecoverCandidate(m, b)
          PROVE  attempt'[a].status # Absent
      <3>1. CASE Verdict(b) = None
        BY <2>2, <3>1 DEF RecoverCandidate, Exists
      <3>2. CASE Verdict(b) # None
        BY <1>F, <2>2, <3>2, Zenon DEF RecoverCandidate
      <3> QED BY <3>1, <3>2
    <2> QED BY <1>7, <2>1, <2>2 DEF Recover
  <1>8. ASSUME NEW b \in AttemptIds,
               NEW d \in {"launch", "lease", "execution", "finalization"}, Expire(b, d)
        PROVE  attempt'[a].status # Absent
    BY <1>8 DEF Expire, TypeOK, AttemptRow, Exists
  <1>9. ASSUME NEW r \in Runs, DelayElapses(r)
        PROVE  attempt'[a].status # Absent
    BY <1>9 DEF DelayElapses, Exists
  <1>10. CASE UNCHANGED storeVars
    BY <1>10 DEF storeVars, Exists
  <1> QED BY <1>1, <1>2, <1>3, <1>4, <1>5, <1>6, <1>7, <1>8, <1>9, <1>10
          DEF Next, Rerun, Time

\* Only the monitor thread changes what recover() remembers.
LEMMA OnlyMonitorRemembers ==
  ASSUME [Next]_storeVars, monitor' # monitor
  PROVE  \E k \in Servers : Recover(k) \/ RecoverAbort(k)
  <1>1. ASSUME NEW r, NEW s, Submit(r, s) PROVE FALSE
    BY <1>1 DEF Submit
  <1>2. ASSUME NEW r, NEW a, NEW w, Place(r, a, w) PROVE FALSE
    BY <1>2 DEF Place
  <1>3. ASSUME NEW a, NEW i, Runner(a, i) PROVE FALSE
    <2>1. ASSUME NEW e, NEW reason, NEW n, Finish(a, i, e, reason, n) PROVE FALSE
      BY <2>1 DEF Finish
    <2>2. ASSUME NEW first, NEW last, Report(a, i, first, last) PROVE FALSE
      BY <2>2 DEF Report
    <2> QED BY <1>3, <2>1, <2>2 DEF Runner, Claim, ClaimAgain, Heartbeat,
               BeginFinalization, FinishAgain
  <1>4. ASSUME NEW r, Cancel(r) PROVE FALSE
    BY <1>4 DEF Cancel
  <1>5. ASSUME NEW a, RuntimeStopped(a) \/ CleanupDone(a) PROVE FALSE
    BY <1>5 DEF RuntimeStopped, CleanupDone
  <1>6. ~Time
    BY DEF Time, Expire, DelayElapses
  <1>7. ~UNCHANGED storeVars
    BY DEF storeVars
  <1> QED BY <1>1, <1>2, <1>3, <1>4, <1>5, <1>6, <1>7 DEF Next, Rerun

\* recover() goes on to remember attempts.
LEMMA CandidatesStep ==
  ASSUME TypeOK, CandidatesExist, [Next]_storeVars
  PROVE  CandidatesExist'
  <1>1. ASSUME NEW m \in Servers, NEW a \in monitor'[m].todo
        PROVE  a \in AttemptIds /\ Exists(a)
    <2>1. CASE a \in monitor[m].todo
      BY <2>1 DEF CandidatesExist, TypeOK
    <2>2. CASE a \notin monitor[m].todo
      <3>1. PICK k \in Servers : Recover(k) \/ RecoverAbort(k)
        BY <1>1, <2>2, OnlyMonitorRemembers
      <3>2. RecoverRequeue(k) => monitor'[m].todo = monitor[m].todo
        BY DEF RecoverRequeue, TypeOK
      <3>3. RecoverAbort(k) => monitor'[m].todo \subseteq monitor[m].todo
        BY DEF RecoverAbort, TypeOK
      <3>4. ASSUME NEW b \in AttemptIds, RecoverCandidate(k, b)
            PROVE  monitor'[m].todo \subseteq monitor[m].todo
        BY <3>4 DEF RecoverCandidate, TypeOK
      <3>5. RecoverScan(k)
        BY <1>1, <2>2, <3>1, <3>2, <3>3, <3>4 DEF Recover
      <3>6. k = m
        BY <1>1, <2>2, <3>5 DEF RecoverScan, TypeOK
      <3>7. a \in AttemptIds /\ Overdue(a)
        BY <1>1, <3>5, <3>6 DEF RecoverScan, FirstOf, TypeOK
      <3> QED BY <3>7 DEF Overdue, Exists, Absent
    <2> QED BY <2>1, <2>2
  <1> QED BY <1>1, AttemptsStay DEF CandidatesExist

\* The empty tables are consistent.
LEMMA StoreInit ==
  ASSUME StoreAssumption, Init
  PROVE  StoreInv
  <1> USE DEF Init, NoRun, NoAttempt
  <1>1. \A a \in AttemptIds : ~Exists(a) /\ ~Executing(attempt[a].status)
    BY DEF Exists, Executing, Absent
  <1>2. RowsLinked /\ CandidatesExist /\ GenerationsDistinct /\ RetriesJustified
    BY <1>1 DEF RowsLinked, CandidatesExist, GenerationsDistinct, RetriesJustified
  <1>3. ActiveIsLatest /\ RetryBudget
    BY DEF ActiveIsLatest, RetryBudget
  <1>4. AttemptRunAgree
    BY <1>1 DEF AttemptRunAgree, Executing, Absent
  <1> QED BY <1>2, <1>3, <1>4 DEF StoreInv

\* The inductive step.
LEMMA StoreStep ==
  ASSUME StoreAssumption, TypeOK, StoreInv, [Next]_storeVars
  PROVE  TypeOK' /\ StoreInv'
  <1>1. TypeOK'
    BY TypeStep
  <1>2. Tables' /\ CandidatesExist'
    BY <1>1, TablesStep, CandidatesStep DEF StoreInv
  <1> QED BY <1>1, <1>2 DEF StoreInv, Tables

\* In every reachable state each row has the shape of its table.
THEOREM TypeCorrect == Spec => []TypeOK
  <1>1. Init => TypeOK /\ StoreInv
    BY StoreAssumption, TypeInit, StoreInit
  <1>2. TypeOK /\ StoreInv /\ [Next]_storeVars => TypeOK' /\ StoreInv'
    BY StoreAssumption, StoreStep
  <1> QED BY <1>1, <1>2, PTL DEF Spec

\* In every reachable state the rows of runs and attempts are consistent,
\* whatever the number of runs, attempts, runners and servers.
THEOREM StoreConsistent == Spec => []StoreInv
  <1>1. Init => TypeOK /\ StoreInv
    BY StoreAssumption, TypeInit, StoreInit
  <1>2. TypeOK /\ StoreInv /\ [Next]_storeVars => TypeOK' /\ StoreInv'
    BY StoreAssumption, StoreStep
  <1> QED BY <1>1, <1>2, PTL DEF Spec

\* A run and its executing attempt always agree, and a run never has two
\* executing attempts.
THEOREM AgreementHolds == Spec => []AttemptRunAgree
  <1>1. StoreInv => AttemptRunAgree
    BY DEF StoreInv
  <1> QED BY <1>1, StoreConsistent, PTL
-----------------------------------------------------------------------------
(* Where an attempt is: its run, its worker and whether its cleanup was    *)
(* confirmed.  Only placing an attempt and confirming its cleanup change   *)
(* these columns.                                                          *)

SameColumns(a, row) ==
  /\ row.run = attempt[a].run
  /\ row.worker = attempt[a].worker
  /\ row.cleanup = attempt[a].cleanup

\* Nothing was inserted and attempt a is where it was.
PlaceKept(a) ==
  /\ attempt'[a].status # Absent => attempt[a].status # Absent
  /\ SameColumns(a, attempt'[a])

\* The transactions that neither place attempts nor clean up after them.
Settled ==
  \/ \E r \in Runs, s \in Specs : Submit(r, s)
  \/ \E parent, r \in Runs : Rerun(parent, r)
  \/ \E a \in AttemptIds, i \in Instances : Runner(a, i)
  \/ \E r \in Runs : Cancel(r)
  \/ \E m \in Servers : Recover(m) \/ RecoverAbort(m)
  \/ Time

\* A transaction that writes other columns of one existing row.
LEMMA RowKeepsPlace ==
  ASSUME TypeOK, NEW a \in AttemptIds, Exists(a),
         NEW row, attempt' = [attempt EXCEPT ![a] = row], SameColumns(a, row)
  PROVE  \A b \in AttemptIds : PlaceKept(b)
  <1>1. attempt'[a] = row /\ \A b \in AttemptIds \ {a} : attempt'[b] = attempt[b]
    BY DEF TypeOK
  <1>2. PlaceKept(a)
    BY <1>1 DEF PlaceKept, Exists
  <1>3. \A b \in AttemptIds \ {a} : PlaceKept(b)
    BY <1>1 DEF PlaceKept, SameColumns
  <1> QED BY <1>2, <1>3

\* pg::fail leaves the attempt where it is.
LEMMA FailKeepsPlace ==
  ASSUME TypeOK, NEW a \in AttemptIds, Exists(a), NEW failure, NEW reason, NEW e,
         Fail(a, failure, reason, e)
  PROVE  \A b \in AttemptIds : PlaceKept(b)
  <1> DEFINE row == [attempt[a] EXCEPT !.status = "FAILED", !.reason = reason,
                                       !.exit_code = e]
  <1>1. attempt' = [attempt EXCEPT ![a] = row]
    BY DEF Fail, TypeOK
  <1>2. SameColumns(a, row)
    BY DEF TypeOK, AttemptRow, SameColumns
  <1> HIDE DEF row
  <1> QED BY <1>1, <1>2, RowKeepsPlace

\* So does every call of a runner.
LEMMA RunnerKeepsPlace ==
  ASSUME TypeOK, NEW a \in AttemptIds, NEW i \in Instances, Runner(a, i)
  PROVE  \A b \in AttemptIds : PlaceKept(b)
  <1>0. attempt[a] \in AttemptRow
    BY DEF TypeOK
  <1>1. CASE UNCHANGED attempt
    BY <1>1 DEF PlaceKept, SameColumns
  <1>2. CASE Claim(a, i)
    <2> DEFINE row == [attempt[a] EXCEPT !.instance = i, !.status = "RUNNING",
                                         !.lease = "valid", !.execution = "valid"]
    <2>1. attempt' = [attempt EXCEPT ![a] = row] /\ Exists(a)
      BY <1>2 DEF Claim, Current, TypeOK
    <2>2. SameColumns(a, row)
      BY <1>0 DEF AttemptRow, SameColumns
    <2> HIDE DEF row
    <2> QED BY <2>1, <2>2, RowKeepsPlace
  <1>3. CASE Heartbeat(a, i)
    <2> DEFINE row == [attempt[a] EXCEPT !.lease = "valid"]
    <2>1. attempt' = [attempt EXCEPT ![a] = row] /\ Exists(a)
      BY <1>3 DEF Heartbeat, Owned, Current, TypeOK
    <2>2. SameColumns(a, row)
      BY <1>0 DEF AttemptRow, SameColumns
    <2> HIDE DEF row
    <2> QED BY <2>1, <2>2, RowKeepsPlace
  <1>4. CASE BeginFinalization(a, i)
    <2> DEFINE row == [attempt[a] EXCEPT !.status = "FINALIZING",
                                         !.finalization = "valid"]
    <2>1. attempt' = [attempt EXCEPT ![a] = row] /\ Exists(a)
      BY <1>4 DEF BeginFinalization, Owned, Current, TypeOK
    <2>2. SameColumns(a, row)
      BY <1>0 DEF AttemptRow, SameColumns
    <2> HIDE DEF row
    <2> QED BY <2>1, <2>2, RowKeepsPlace
  <1>5. ASSUME NEW first \in 1..MaxSequence, NEW last \in 1..MaxSequence,
               Report(a, i, first, last)
        PROVE  \A b \in AttemptIds : PlaceKept(b)
    <2>1. PICK n : attempt' = [attempt EXCEPT ![a].ack = n]
      BY <1>5 DEF Report, TypeOK
    <2> DEFINE row == [attempt[a] EXCEPT !.ack = n]
    <2>2. attempt' = [attempt EXCEPT ![a] = row] /\ Exists(a)
      BY <1>5, <2>1 DEF Report, Owned, Current, TypeOK
    <2>3. SameColumns(a, row)
      BY <1>0 DEF AttemptRow, SameColumns
    <2> HIDE DEF row
    <2> QED BY <2>2, <2>3, RowKeepsPlace
  <1>6. ASSUME NEW e, NEW reason, NEW n, Finish(a, i, e, reason, n)
        PROVE  \A b \in AttemptIds : PlaceKept(b)
    <2>1. Exists(a)
      BY <1>6, Zenon DEF Finish, Owned, Current
    <2>2. CASE e = 0
      <3> DEFINE row == [attempt[a] EXCEPT !.status = "SUCCEEDED", !.reason = reason,
                                           !.exit_code = 0]
      <3>1. attempt' = [attempt EXCEPT ![a] = row]
        BY <1>6, <2>2 DEF Finish, TypeOK
      <3>2. SameColumns(a, row)
        BY <1>0 DEF AttemptRow, SameColumns
      <3> HIDE DEF row
      <3> QED BY <2>1, <3>1, <3>2, RowKeepsPlace
    <2>3. CASE e # 0
      <3> DEFINE f == FailureOf(reason)
                 why == IF reason = "" THEN "EXIT_ERROR" ELSE reason
      <3>1. Fail(a, f, why, e)
        BY <1>6, <2>3, Zenon DEF Finish
      <3> HIDE DEF f, why
      <3> QED BY <2>1, <3>1, FailKeepsPlace
    <2> QED BY <2>2, <2>3
  <1>7. ClaimAgain(a, i) \/ (\E e \in ExitCode : FinishAgain(a, i, e)) => UNCHANGED attempt
    BY DEF ClaimAgain, FinishAgain
  <1> QED BY <1>1, <1>2, <1>3, <1>4, <1>5, <1>6, <1>7 DEF Runner

\* Submissions, runners, cancellation, recovery and time leave an attempt
\* where it is.
LEMMA SettledKeepsPlace ==
  ASSUME TypeOK, StoreInv, Settled
  PROVE  \A b \in AttemptIds : PlaceKept(b)
  <1>1. CASE UNCHANGED attempt
    BY <1>1 DEF PlaceKept, SameColumns
  <1>2. ASSUME NEW r \in Runs, Cancel(r)
        PROVE  \A b \in AttemptIds : PlaceKept(b)
    <2> SUFFICES ASSUME NEW b \in AttemptIds PROVE PlaceKept(b)
      OBVIOUS
    <2>0. attempt'[b] = IF attempt[b].run = r /\ Executing(attempt[b].status)
                        THEN [attempt[b] EXCEPT !.status = "CANCELLED",
                                !.reason = "USER_CANCELLED", !.lease = "expired"]
                        ELSE attempt[b]
      BY <1>2, Zenon DEF Cancel
    <2>1. attempt[b] \in AttemptRow
      BY DEF TypeOK
    <2>2. CASE attempt[b].run = r /\ Executing(attempt[b].status)
      <3>1. attempt[b].status # Absent
        BY <2>2 DEF Executing, Absent
      <3>2. attempt'[b] = [attempt[b] EXCEPT !.status = "CANCELLED",
                             !.reason = "USER_CANCELLED", !.lease = "expired"]
        BY <2>0, <2>2
      <3> QED BY <2>1, <3>1, <3>2 DEF PlaceKept, SameColumns, AttemptRow
    <2>3. CASE ~(attempt[b].run = r /\ Executing(attempt[b].status))
      <3>1. attempt'[b] = attempt[b]
        BY <2>0, <2>3
      <3> QED BY <3>1 DEF PlaceKept, SameColumns
    <2> QED BY <2>2, <2>3
  <1>3. ASSUME NEW m \in Servers, NEW a \in AttemptIds, RecoverCandidate(m, a)
        PROVE  \A b \in AttemptIds : PlaceKept(b)
    <2>1. Exists(a)
      BY <1>3 DEF RecoverCandidate, StoreInv, CandidatesExist
    <2>2. UNCHANGED attempt \/ Fail(a, Verdict(a)[1], Verdict(a)[2], None)
      BY <1>3 DEF RecoverCandidate
    <2> QED BY <1>1, <2>1, <2>2, FailKeepsPlace
  <1>4. ASSUME NEW a \in AttemptIds,
               NEW d \in {"launch", "lease", "execution", "finalization"},
               Expire(a, d)
        PROVE  \A b \in AttemptIds : PlaceKept(b)
    <2> DEFINE row == [attempt[a] EXCEPT ![d] = "expired"]
    <2>0. attempt[a] \in AttemptRow
      BY DEF TypeOK
    <2>1. Exists(a)
      BY <1>4 DEF Expire, Watched, Exists, Absent
    <2>2. attempt' = [attempt EXCEPT ![a] = row]
      BY <1>4 DEF Expire, TypeOK
    <2>3. SameColumns(a, row)
      BY <2>0 DEF AttemptRow, SameColumns
    <2> HIDE DEF row
    <2> QED BY <2>1, <2>2, <2>3, RowKeepsPlace
  <1>5. ASSUME NEW m \in Servers,
               RecoverRequeue(m) \/ RecoverScan(m) \/ RecoverAbort(m)
        PROVE  UNCHANGED attempt
    BY <1>5 DEF RecoverRequeue, RecoverScan, RecoverAbort
  <1>6. ASSUME NEW r \in Runs, DelayElapses(r) \/ (\E s : Submit(r, s))
        PROVE  UNCHANGED attempt
    BY <1>6, Zenon DEF DelayElapses, Submit
  <1>7. ASSUME NEW parent \in Runs, NEW r \in Runs, Rerun(parent, r)
        PROVE  UNCHANGED attempt
    BY <1>7 DEF Rerun, Submit
  <1> QED BY <1>1, <1>2, <1>3, <1>4, <1>5, <1>6, <1>7, RunnerKeepsPlace
         DEF Settled, Recover, Time

-----------------------------------------------------------------------------
(***************************************************************************)
(* What the store promises over time: who was told to run the child, which *)
(* completions were answered with OK, what is final once decided, and that *)
(* every transaction is a move of the abstract run lifecycle.              *)
(*                                                                         *)
(* The argument has two halves.  AttemptMoves and RunsMove say, action by  *)
(* action, what a transaction may do to one row of attempts and to one row *)
(* of runs together with its log; every theorem then follows from these    *)
(* two lists of moves, without looking at the transactions again.          *)
(***************************************************************************)

(* The moves of a row of attempts *)

\* Nothing the history speaks of has changed (other columns may have).
RowKept(a) ==
  /\ attempt'[a].status = attempt[a].status
  /\ attempt'[a].instance = attempt[a].instance
  /\ attempt'[a].exit_code = attempt[a].exit_code
  /\ attempt'[a].reason = attempt[a].reason
  /\ attempt'[a].ack = attempt[a].ack
  /\ attempt'[a].lease = attempt[a].lease

\* The INSERT of assign.
RowInserted(a) ==
  /\ ~Exists(a)
  /\ attempt'[a].status = "STARTING"
  /\ attempt'[a].instance = None
  /\ attempt'[a].lease = "unset"

\* The first claim.
RowTaken(a) ==
  /\ attempt[a].status = "STARTING"
  /\ attempt[a].instance = None
  /\ attempt'[a].status = "RUNNING"

\* A report of the owner, or the lease running out.
RowWorked(a) ==
  /\ attempt[a].status \in {"RUNNING", "FINALIZING"}
  /\ attempt[a].lease = "valid"
  /\ attempt'[a].status \in {attempt[a].status, "FINALIZING"}
  /\ attempt'[a].instance = attempt[a].instance

\* The outcome: success needs a valid lease and records code 0, failure
\* another code or none.
RowEnded(a) ==
  /\ Executing(attempt[a].status)
  /\ attempt'[a].status \in {"SUCCEEDED", "FAILED", "CANCELLED"}
  /\ attempt'[a].instance = attempt[a].instance
  /\ attempt'[a].ack = attempt[a].ack
  /\ attempt'[a].lease \in {attempt[a].lease, "expired"}
  /\ attempt'[a].status = "SUCCEEDED" =>
       attempt[a].lease = "valid" /\ attempt'[a].exit_code = 0
  /\ attempt'[a].status = "FAILED" => attempt'[a].exit_code # 0

RowMoves(a) ==
  RowKept(a) \/ RowInserted(a) \/ RowTaken(a) \/ RowWorked(a) \/ RowEnded(a)

\* A row nobody wrote.
LEMMA UntouchedRow ==
  ASSUME NEW a, attempt'[a] = attempt[a]
  PROVE  RowMoves(a)
  BY DEF RowMoves, RowKept

\* pg::fail ends the attempt with a code other than 0.
LEMMA FailEndsRow ==
  ASSUME TypeOK, NEW a \in AttemptIds, NEW b \in AttemptIds,
         Executing(attempt[b].status), NEW failure, NEW reason, NEW e, e # 0,
         Fail(b, failure, reason, e)
  PROVE  RowMoves(a)
  <1>1. CASE a = b
    <2>1. attempt[a] \in AttemptRow
      BY DEF TypeOK
    <2>2. attempt'[a] = [attempt[a] EXCEPT !.status = "FAILED", !.reason = reason,
                                           !.exit_code = e]
      BY <1>1 DEF Fail, TypeOK
    <2>3. RowEnded(a)
      BY <1>1, <2>1, <2>2 DEF RowEnded, AttemptRow
    <2> QED BY <2>3 DEF RowMoves
  <1>2. CASE a # b
    BY <1>2, UntouchedRow DEF Fail, TypeOK
  <1> QED BY <1>1, <1>2

\* What the calls of a runner do to a row.
LEMMA RunnerMovesRow ==
  ASSUME StoreAssumption, TypeOK, Tables, NEW a \in AttemptIds,
         NEW b \in AttemptIds, NEW i \in Instances, Runner(b, i)
  PROVE  RowMoves(a)
  <1>0. attempt[a] \in AttemptRow
    BY DEF TypeOK
  <1>A. Owned(b, i) => /\ attempt[b].status \in {"RUNNING", "FINALIZING"}
                       /\ attempt[b].lease = "valid"
    BY ActiveExecutes DEF Owned, Current, Executing, LeaseValid
  <1>2. CASE Claim(b, i)
    <2>1. attempt[b].status = "STARTING"
      BY <1>2, ActiveExecutes DEF Claim, Current, Executing
    <2>2. CASE a = b
      <3>1. attempt'[a] = [attempt[a] EXCEPT !.instance = i, !.status = "RUNNING",
                                             !.lease = "valid", !.execution = "valid"]
        BY <1>2, <2>2 DEF Claim, TypeOK
      <3>2. RowTaken(a)
        <4>1. attempt'[a].status = "RUNNING"
          BY <1>0, <3>1 DEF AttemptRow
        <4> QED BY <1>2, <2>1, <2>2, <4>1 DEF Claim, RowTaken
      <3> QED BY <3>2 DEF RowMoves
    <2>3. CASE a # b
      BY <1>2, <2>3, UntouchedRow DEF Claim, TypeOK
    <2> QED BY <2>2, <2>3
  <1>3. CASE ClaimAgain(b, i)
    BY <1>3, UntouchedRow DEF ClaimAgain
  <1>4. CASE Heartbeat(b, i)
    <2>1. CASE a = b
      <3>1. attempt'[a] = [attempt[a] EXCEPT !.lease = "valid"]
        BY <1>4, <2>1 DEF Heartbeat, TypeOK
      <3>2. attempt[a].lease = "valid"
        BY <1>4, <1>A, <2>1 DEF Heartbeat
      <3>3. RowKept(a)
        BY <1>0, <3>1, <3>2 DEF RowKept, AttemptRow
      <3> QED BY <3>3 DEF RowMoves
    <2>2. CASE a # b
      BY <1>4, <2>2, UntouchedRow DEF Heartbeat, TypeOK
    <2> QED BY <2>1, <2>2
  <1>5. CASE BeginFinalization(b, i)
    <2>1. CASE a = b
      <3>1. attempt'[a] = [attempt[a] EXCEPT !.status = "FINALIZING",
                                             !.finalization = "valid"]
        BY <1>5, <2>1 DEF BeginFinalization, TypeOK
      <3>2. /\ attempt[a].lease = "valid"
            /\ attempt[a].status \in {"RUNNING", "FINALIZING"}
        BY <1>5, <1>A, <2>1 DEF BeginFinalization
      <3>3. RowWorked(a)
        BY <1>0, <3>1, <3>2 DEF RowWorked, AttemptRow
      <3> QED BY <3>3 DEF RowMoves
    <2>2. CASE a # b
      BY <1>5, <2>2, UntouchedRow DEF BeginFinalization, TypeOK
    <2> QED BY <2>1, <2>2
  <1>6. ASSUME NEW first \in 1..MaxSequence, NEW last \in 1..MaxSequence,
               Report(b, i, first, last)
        PROVE  RowMoves(a)
    <2>1. CASE a = b
      <3>1. PICK n : attempt'[a] = [attempt[a] EXCEPT !.ack = n]
        BY <1>6, <2>1 DEF Report, TypeOK
      <3>2. /\ attempt[a].lease = "valid"
            /\ attempt[a].status \in {"RUNNING", "FINALIZING"}
        BY <1>6, <1>A, <2>1 DEF Report
      <3>3. RowWorked(a)
        BY <1>0, <3>1, <3>2 DEF RowWorked, AttemptRow
      <3> QED BY <3>3 DEF RowMoves
    <2>2. CASE a # b
      BY <1>6, <2>2, UntouchedRow DEF Report, TypeOK
    <2> QED BY <2>1, <2>2
  <1>7. ASSUME NEW o \in Outcomes, NEW n \in 0..MaxSequence,
               Finish(b, i, o[1], o[2], n)
        PROVE  RowMoves(a)
    <2> DEFINE e == o[1]
               reason == o[2]
    <2>1. Finish(b, i, e, reason, n)
      BY <1>7
    <2> HIDE DEF e, reason
    <2>2. Owned(b, i)
      BY <2>1 DEF Finish
    <2>3. CASE e = 0
      <3>1. attempt' = [attempt EXCEPT ![b].status = "SUCCEEDED",
                                       ![b].reason = reason, ![b].exit_code = 0]
        BY <2>1, <2>3 DEF Finish
      <3>2. CASE a = b
        <4>1. attempt'[a] = [attempt[a] EXCEPT !.status = "SUCCEEDED",
                                               !.reason = reason, !.exit_code = 0]
          BY <3>1, <3>2 DEF TypeOK
        <4>2. RowEnded(a)
          BY <1>0, <1>A, <2>2, <3>2, <4>1 DEF RowEnded, AttemptRow, Executing
        <4> QED BY <4>2 DEF RowMoves
      <3>3. CASE a # b
        BY <3>1, <3>3, UntouchedRow DEF TypeOK
      <3> QED BY <3>2, <3>3
    <2>4. CASE e # 0
      <3>1. PICK failure, recorded : Fail(b, failure, recorded, e)
        BY <2>1, <2>4, Zenon DEF Finish
      <3>2. Executing(attempt[b].status)
        BY <1>A, <2>2 DEF Executing
      <3> QED BY <2>4, <3>1, <3>2, FailEndsRow
    <2> QED BY <2>3, <2>4
  <1>8. ASSUME NEW e \in ExitCode, FinishAgain(b, i, e)
        PROVE  RowMoves(a)
    BY <1>8, UntouchedRow DEF FinishAgain
  <1> QED BY <1>2, <1>3, <1>4, <1>5, <1>6, <1>7, <1>8 DEF Runner

\* What a transaction may do to a row of attempts.
LEMMA AttemptMoves ==
  ASSUME StoreAssumption, TypeOK, StoreInv, [Next]_storeVars, NEW a \in AttemptIds
  PROVE  RowMoves(a)
  <1>0. Tables /\ CandidatesExist /\ attempt[a] \in AttemptRow
    BY DEF StoreInv, Tables, TypeOK
  <1>A. None # 0
    BY DEF StoreAssumption
  <1>1. ASSUME NEW r, NEW s, Submit(r, s) PROVE RowMoves(a)
    BY <1>1, UntouchedRow DEF Submit
  <1>2. ASSUME NEW r \in Runs, NEW b \in AttemptIds, NEW w \in Workers, Place(r, b, w)
        PROVE  RowMoves(a)
    <2>1. CASE a = b
      <3>1. /\ attempt'[a].status = "STARTING"
            /\ attempt'[a].instance = None
            /\ attempt'[a].lease = "unset"
        BY <1>2, <2>1 DEF Place, TypeOK, NoAttempt
      <3> QED BY <1>2, <2>1, <3>1 DEF RowMoves, RowInserted, Place, Fresh
    <2>2. CASE a # b
      BY <1>2, <2>2, UntouchedRow DEF Place, TypeOK
    <2> QED BY <2>1, <2>2
  <1>3. ASSUME NEW b \in AttemptIds, NEW i \in Instances, Runner(b, i)
        PROVE  RowMoves(a)
    BY <1>0, <1>3, RunnerMovesRow
  <1>4. ASSUME NEW r \in Runs, Cancel(r) PROVE RowMoves(a)
    <2>1. CASE attempt[a].run = r /\ Executing(attempt[a].status)
      <3>1. attempt'[a] = [attempt[a] EXCEPT !.status = "CANCELLED",
                                             !.reason = "USER_CANCELLED",
                                             !.lease = "expired"]
        BY <1>4, <2>1 DEF Cancel
      <3>2. RowEnded(a)
        BY <1>0, <2>1, <3>1 DEF RowEnded, AttemptRow
      <3> QED BY <3>2 DEF RowMoves
    <2>2. CASE ~(attempt[a].run = r /\ Executing(attempt[a].status))
      BY <1>4, <2>2, UntouchedRow DEF Cancel
    <2> QED BY <2>1, <2>2
  <1>5. ASSUME NEW b \in AttemptIds, RuntimeStopped(b) PROVE RowMoves(a)
    <2>1. PICK failure, reason : Fail(b, failure, reason, None)
      BY <1>5, Zenon DEF RuntimeStopped
    <2> QED BY <1>5, <1>A, <2>1, FailEndsRow DEF RuntimeStopped
  <1>6. ASSUME NEW b \in AttemptIds, CleanupDone(b) PROVE RowMoves(a)
    <2>1. CASE a = b
      <3>1. attempt'[a] = [attempt[a] EXCEPT !.cleanup = "DONE"]
        BY <1>6, <2>1 DEF CleanupDone, TypeOK
      <3>2. RowKept(a)
        BY <1>0, <3>1 DEF RowKept, AttemptRow
      <3> QED BY <3>2 DEF RowMoves
    <2>2. CASE a # b
      BY <1>6, <2>2, UntouchedRow DEF CleanupDone, TypeOK
    <2> QED BY <2>1, <2>2
  <1>7. ASSUME NEW m \in Servers, Recover(m) \/ RecoverAbort(m) PROVE RowMoves(a)
    <2>1. CASE RecoverRequeue(m) \/ RecoverScan(m) \/ RecoverAbort(m)
      BY <2>1, UntouchedRow DEF RecoverRequeue, RecoverScan, RecoverAbort
    <2>2. ASSUME NEW b \in AttemptIds, RecoverCandidate(m, b) PROVE RowMoves(a)
      <3>1. CASE Verdict(b) = None
        BY <2>2, <3>1, UntouchedRow DEF RecoverCandidate
      <3>2. CASE Verdict(b) # None
        <4>1. Exists(b)
          BY <1>0, <2>2 DEF RecoverCandidate, CandidatesExist
        <4>2. Executing(attempt[b].status)
          BY <1>0, <3>2, <4>1, VerdictType, ActiveExecutes
        <4>3. PICK failure, reason : Fail(b, failure, reason, None)
          BY <2>2, <3>2, Zenon DEF RecoverCandidate
        <4> QED BY <1>A, <4>2, <4>3, FailEndsRow
      <3> QED BY <3>1, <3>2
    <2> QED BY <1>7, <2>1, <2>2 DEF Recover
  <1>8. ASSUME NEW b \in AttemptIds,
               NEW d \in {"launch", "lease", "execution", "finalization"}, Expire(b, d)
        PROVE  RowMoves(a)
    <2>1. CASE a = b
      <3>1. attempt'[a] = [attempt[a] EXCEPT ![d] = "expired"]
        BY <1>8, <2>1 DEF Expire, TypeOK
      <3>2. CASE d = "lease"
        <4>1. RowWorked(a)
          BY <1>0, <1>8, <2>1, <3>1, <3>2 DEF RowWorked, AttemptRow, Expire, Watched
        <4> QED BY <4>1 DEF RowMoves
      <3>3. CASE d # "lease"
        <4>1. RowKept(a)
          BY <1>0, <3>1, <3>3 DEF RowKept, AttemptRow
        <4> QED BY <4>1 DEF RowMoves
      <3> QED BY <3>2, <3>3
    <2>2. CASE a # b
      BY <1>8, <2>2, UntouchedRow DEF Expire, TypeOK
    <2> QED BY <2>1, <2>2
  <1>9. ASSUME NEW r \in Runs, DelayElapses(r) PROVE RowMoves(a)
    BY <1>9, UntouchedRow DEF DelayElapses
  <1>10. CASE UNCHANGED storeVars
    BY <1>10, UntouchedRow DEF storeVars
  <1> QED BY <1>1, <1>2, <1>3, <1>4, <1>5, <1>6, <1>7, <1>8, <1>9, <1>10
          DEF Next, Rerun, Time

-----------------------------------------------------------------------------
(* Claims and completions *)

\* An attempt nobody has claimed has no instance and no lease, and the code
\* recorded with an outcome is 0 exactly for success.
RowsTellOutcome ==
  \A a \in AttemptIds :
    /\ attempt[a].status \in {Absent, "STARTING"} =>
         attempt[a].instance = None /\ attempt[a].lease = "unset"
    /\ attempt[a].status = "SUCCEEDED" => attempt[a].exit_code = 0
    /\ attempt[a].status = "FAILED" => attempt[a].exit_code # 0

\* The inductive invariant of the history.
HistoryInv == RowsTellOutcome /\ SingleClaimant /\ AcceptedIsRecorded

\* StartAttempt answers "go" to the instance the row names after it.
LEMMA GrantMoves ==
  ASSUME TypeOK, [Next]_storeVars, NEW a \in AttemptIds
  PROVE  \/ granted'[a] = granted[a]
         \/ \E i : granted'[a] = granted[a] \cup {i} /\ attempt'[a].instance = i
  <1> DEFINE Goal == \/ granted'[a] = granted[a]
                     \/ \E i : granted'[a] = granted[a] \cup {i}
                               /\ attempt'[a].instance = i
  <1>1. ASSUME granted' = granted PROVE Goal
    BY <1>1
  <1>2. ASSUME NEW b \in AttemptIds, NEW i \in Instances, Claim(b, i) PROVE Goal
    <2>1. CASE a = b
      <3>1. attempt[a] \in AttemptRow
        BY DEF TypeOK
      <3>2. attempt'[a] = [attempt[a] EXCEPT !.instance = i, !.status = "RUNNING",
                                             !.lease = "valid", !.execution = "valid"]
        BY <1>2, <2>1 DEF Claim, TypeOK
      <3>3. attempt'[a].instance = i
        BY <3>1, <3>2 DEF AttemptRow
      <3>4. granted'[a] = granted[a] \cup {i}
        BY <1>2, <2>1 DEF Claim, TypeOK
      <3> QED BY <3>3, <3>4
    <2>2. CASE a # b
      BY <1>2, <2>2 DEF Claim, TypeOK
    <2> QED BY <2>1, <2>2
  <1>3. ASSUME NEW b \in AttemptIds, NEW i \in Instances, ClaimAgain(b, i) PROVE Goal
    <2>1. CASE a = b
      <3>1. attempt'[a].instance = i /\ granted'[a] = granted[a] \cup {i}
        BY <1>3, <2>1 DEF ClaimAgain, TypeOK
      <3> QED BY <3>1
    <2>2. CASE a # b
      BY <1>3, <2>2 DEF ClaimAgain, TypeOK
    <2> QED BY <2>1, <2>2
  <1> HIDE DEF Goal
  <1>4. ASSUME NEW b \in AttemptIds, NEW i \in Instances, Runner(b, i) PROVE Goal
    <2>1. ASSUME NEW e, NEW reason, NEW n, Finish(b, i, e, reason, n) PROVE Goal
      BY <1>1, <2>1 DEF Finish
    <2>2. ASSUME NEW first, NEW last, Report(b, i, first, last) PROVE Goal
      BY <1>1, <2>2 DEF Report
    <2>3. CASE Heartbeat(b, i) \/ BeginFinalization(b, i)
      BY <1>1, <2>3 DEF Heartbeat, BeginFinalization
    <2>4. ASSUME NEW e, FinishAgain(b, i, e) PROVE Goal
      BY <1>1, <2>4 DEF FinishAgain
    <2> QED BY <1>2, <1>3, <1>4, <2>1, <2>2, <2>3, <2>4 DEF Runner
  <1>5. ASSUME NEW r, NEW s, Submit(r, s) PROVE Goal
    BY <1>1, <1>5 DEF Submit
  <1>6. ASSUME NEW r, NEW b, NEW w, Place(r, b, w) PROVE Goal
    BY <1>1, <1>6 DEF Place
  <1>7. ASSUME NEW r, Cancel(r) PROVE Goal
    BY <1>1, <1>7 DEF Cancel
  <1>8. ASSUME NEW b, RuntimeStopped(b) \/ CleanupDone(b) PROVE Goal
    BY <1>1, <1>8 DEF RuntimeStopped, CleanupDone
  <1>9. ASSUME NEW m, Recover(m) \/ RecoverAbort(m) PROVE Goal
    BY <1>1, <1>9 DEF Recover, RecoverRequeue, RecoverScan, RecoverCandidate, RecoverAbort
  <1>10. ASSUME Time PROVE Goal
    BY <1>1, <1>10 DEF Time, Expire, DelayElapses
  <1>11. ASSUME UNCHANGED storeVars PROVE Goal
    BY <1>1, <1>11 DEF storeVars
  <1>12. Goal
    BY <1>4, <1>5, <1>6, <1>7, <1>8, <1>9, <1>10, <1>11 DEF Next, Rerun
  <1> QED BY <1>12 DEF Goal

\* A completion answered with OK is what the row records after it.
LEMMA AcceptMoves ==
  ASSUME StoreAssumption, TypeOK, RowsTellOutcome, [Next]_storeVars
  PROVE  \/ accepted' = accepted
         \/ \E a \in AttemptIds, i \in Instances, e \in ExitCode :
              /\ accepted' = accepted \cup {<<a, i, e>>}
              /\ attempt'[a].instance = i
              /\ attempt'[a].exit_code = e
              /\ attempt'[a].status = IF e = 0 THEN "SUCCEEDED" ELSE "FAILED"
  <1> DEFINE Recorded(a, i, e) ==
               /\ accepted' = accepted \cup {<<a, i, e>>}
               /\ attempt'[a].instance = i
               /\ attempt'[a].exit_code = e
               /\ attempt'[a].status = IF e = 0 THEN "SUCCEEDED" ELSE "FAILED"
             Goal == \/ accepted' = accepted
                     \/ \E a \in AttemptIds, i \in Instances, e \in ExitCode :
                          Recorded(a, i, e)
  <1>1. ASSUME NEW a \in AttemptIds, NEW i \in Instances, NEW o \in Outcomes, NEW n,
               Finish(a, i, o[1], o[2], n)
        PROVE  Goal
    <2> DEFINE e == o[1]
               reason == o[2]
    <2>1. Finish(a, i, e, reason, n)
      BY <1>1
    <2>2. e \in ExitCode
      BY OutcomeType DEF StoreAssumption
    <2> HIDE DEF e, reason
    <2>3. attempt[a] \in AttemptRow /\ attempt[a].instance = i
      BY <2>1 DEF TypeOK, Finish, Owned
    <2>4. accepted' = accepted \cup {<<a, i, e>>}
      BY <2>1 DEF Finish
    <2>5. \E s, t : /\ s = IF e = 0 THEN "SUCCEEDED" ELSE "FAILED"
                    /\ attempt' = [attempt EXCEPT ![a].status = s, ![a].reason = t,
                                                  ![a].exit_code = e]
      <3>1. CASE e = 0
        BY <2>1, <3>1 DEF Finish
      <3>2. CASE e # 0
        <4>1. PICK failure, t : Fail(a, failure, t, e)
          BY <2>1, <3>2, Zenon DEF Finish
        <4> QED BY <3>2, <4>1 DEF Fail
      <3> QED BY <3>1, <3>2
    <2>6. PICK s, t : /\ s = IF e = 0 THEN "SUCCEEDED" ELSE "FAILED"
                      /\ attempt' = [attempt EXCEPT ![a].status = s, ![a].reason = t,
                                                    ![a].exit_code = e]
      BY <2>5
    <2>7. attempt'[a] = [attempt[a] EXCEPT !.status = s, !.reason = t, !.exit_code = e]
      BY <2>6 DEF TypeOK
    <2>8. /\ attempt'[a].instance = i
          /\ attempt'[a].exit_code = e
          /\ attempt'[a].status = s
      BY <2>3, <2>7 DEF AttemptRow
    <2>9. Recorded(a, i, e)
      BY <2>4, <2>6, <2>8
    <2> HIDE DEF Recorded
    <2> QED BY <2>2, <2>9
  <1>2. ASSUME NEW a \in AttemptIds, NEW i \in Instances, NEW e \in ExitCode,
               FinishAgain(a, i, e)
        PROVE  Goal
    <2>1. Recorded(a, i, e)
      BY <1>2 DEF FinishAgain, RowsTellOutcome
    <2> HIDE DEF Recorded
    <2> QED BY <2>1
  <1> HIDE DEF Goal
  <1>3. ASSUME accepted' = accepted PROVE Goal
    BY <1>3 DEF Goal
  <1>4. ASSUME NEW b \in AttemptIds, NEW i \in Instances, Runner(b, i) PROVE Goal
    <2>1. CASE Claim(b, i) \/ ClaimAgain(b, i) \/ Heartbeat(b, i) \/ BeginFinalization(b, i)
      BY <1>3, <2>1 DEF Claim, ClaimAgain, Heartbeat, BeginFinalization
    <2>2. ASSUME NEW first, NEW last, Report(b, i, first, last) PROVE Goal
      BY <1>3, <2>2 DEF Report
    <2> QED BY <1>1, <1>2, <1>4, <2>1, <2>2 DEF Runner
  <1>5. ASSUME NEW r, NEW s, Submit(r, s) PROVE Goal
    BY <1>3, <1>5 DEF Submit
  <1>6. ASSUME NEW r, NEW b, NEW w, Place(r, b, w) PROVE Goal
    BY <1>3, <1>6 DEF Place
  <1>7. ASSUME NEW r, Cancel(r) PROVE Goal
    BY <1>3, <1>7 DEF Cancel
  <1>8. ASSUME NEW b, RuntimeStopped(b) \/ CleanupDone(b) PROVE Goal
    BY <1>3, <1>8 DEF RuntimeStopped, CleanupDone
  <1>9. ASSUME NEW m, Recover(m) \/ RecoverAbort(m) PROVE Goal
    BY <1>3, <1>9 DEF Recover, RecoverRequeue, RecoverScan, RecoverCandidate, RecoverAbort
  <1>10. ASSUME Time PROVE Goal
    BY <1>3, <1>10 DEF Time, Expire, DelayElapses
  <1>11. ASSUME UNCHANGED storeVars PROVE Goal
    BY <1>3, <1>11 DEF storeVars
  <1>12. Goal
    BY <1>4, <1>5, <1>6, <1>7, <1>8, <1>9, <1>10, <1>11 DEF Next, Rerun
  <1> QED BY <1>12 DEF Goal

\* Nothing was claimed or completed at the start.
LEMMA HistoryInit ==
  ASSUME Init
  PROVE  HistoryInv
  <1>1. RowsTellOutcome
    BY DEF Init, NoAttempt, RowsTellOutcome, Absent
  <1>2. SingleClaimant /\ AcceptedIsRecorded
    BY DEF Init, SingleClaimant, AcceptedIsRecorded
  <1> QED BY <1>1, <1>2 DEF HistoryInv

\* The inductive step.
LEMMA HistoryStep ==
  ASSUME StoreAssumption, TypeOK, StoreInv, HistoryInv, [Next]_storeVars
  PROVE  HistoryInv'
  <1> USE DEF RowMoves, RowKept, RowInserted, RowTaken, RowWorked, RowEnded
  <1>0. None # 0 /\ None \notin Instances
    BY DEF StoreAssumption
  <1>1. RowsTellOutcome'
    <2> SUFFICES ASSUME NEW a \in AttemptIds
                 PROVE  /\ attempt'[a].status \in {Absent, "STARTING"} =>
                             attempt'[a].instance = None /\ attempt'[a].lease = "unset"
                        /\ attempt'[a].status = "SUCCEEDED" => attempt'[a].exit_code = 0
                        /\ attempt'[a].status = "FAILED" => attempt'[a].exit_code # 0
      BY DEF RowsTellOutcome
    <2>1. RowMoves(a)
      BY AttemptMoves
    <2> QED BY <2>1 DEF HistoryInv, RowsTellOutcome, Absent
  <1>2. SingleClaimant'
    <2> SUFFICES ASSUME NEW a \in AttemptIds
                 PROVE  granted'[a] \subseteq {attempt'[a].instance}
      BY DEF SingleClaimant
    <2>1. granted[a] \subseteq {attempt[a].instance} /\ granted[a] \subseteq Instances
      BY DEF HistoryInv, SingleClaimant, TypeOK
    <2>2. \/ attempt'[a].instance = attempt[a].instance
          \/ attempt[a].instance = None
      <3>1. RowMoves(a)
        BY AttemptMoves
      <3>2. ~Exists(a) => attempt[a].instance = None
        BY DEF HistoryInv, RowsTellOutcome, Exists
      <3> QED BY <3>1, <3>2
    <2>3. granted[a] \subseteq {attempt'[a].instance}
      BY <1>0, <2>1, <2>2
    <2> QED BY <2>3, GrantMoves
  <1>3. AcceptedIsRecorded'
    <2> SUFFICES ASSUME NEW c \in accepted'
                 PROVE  /\ attempt'[c[1]].instance = c[2]
                        /\ attempt'[c[1]].exit_code = c[3]
                        /\ attempt'[c[1]].status = IF c[3] = 0 THEN "SUCCEEDED" ELSE "FAILED"
      BY DEF AcceptedIsRecorded
    <2>1. CASE c \in accepted
      <3>1. PICK a \in AttemptIds : a = c[1]
        BY <2>1 DEF TypeOK
      <3>2. /\ attempt[a].instance = c[2]
            /\ attempt[a].exit_code = c[3]
            /\ attempt[a].status = IF c[3] = 0 THEN "SUCCEEDED" ELSE "FAILED"
        BY <2>1, <3>1 DEF HistoryInv, AcceptedIsRecorded
      <3>3. RowKept(a)
        <4>1. attempt[a].status \in {"SUCCEEDED", "FAILED"}
          BY <3>2
        <4>2. RowMoves(a)
          BY AttemptMoves
        <4> QED BY <4>1, <4>2 DEF Executing, Exists, Absent
      <3> QED BY <3>1, <3>2, <3>3
    <2>2. CASE c \notin accepted
      <3>1. PICK a \in AttemptIds, i \in Instances, e \in ExitCode :
              /\ accepted' = accepted \cup {<<a, i, e>>}
              /\ attempt'[a].instance = i
              /\ attempt'[a].exit_code = e
              /\ attempt'[a].status = IF e = 0 THEN "SUCCEEDED" ELSE "FAILED"
        BY <2>2, AcceptMoves DEF HistoryInv
      <3>2. c = <<a, i, e>>
        BY <2>2, <3>1
      <3> QED BY <3>1, <3>2
    <2> QED BY <2>1, <2>2
  <1> QED BY <1>1, <1>2, <1>3 DEF HistoryInv

\* In every reachable state the history is the one the rows record.
THEOREM HistoryHolds == Spec => []HistoryInv
  <1>1. Init => HistoryInv
    BY HistoryInit
  <1>2. TypeOK /\ StoreInv /\ HistoryInv /\ [Next]_storeVars => HistoryInv'
    BY StoreAssumption, HistoryStep
  <1> QED BY <1>1, <1>2, TypeCorrect, StoreConsistent, PTL DEF Spec

\* StartAttempt never says "go" to two instances, however often a claim is
\* repeated and whatever recovery, cancel and retries do in between.
THEOREM OneClaimant == Spec => []SingleClaimant
  <1>1. HistoryInv => SingleClaimant
    BY DEF HistoryInv
  <1> QED BY <1>1, HistoryHolds, PTL

\* A completion answered with OK stays the recorded outcome for good.
THEOREM AcceptedStays == Spec => []AcceptedIsRecorded
  <1>1. HistoryInv => AcceptedIsRecorded
    BY DEF HistoryInv
  <1> QED BY <1>1, HistoryHolds, PTL

\* An attempt that has ended keeps its outcome, its reason and its telemetry.
LEMMA EndedRowsStay ==
  ASSUME StoreAssumption, TypeOK, StoreInv, [Next]_storeVars,
         NEW a \in AttemptIds, Exists(a), ~Executing(attempt[a].status)
  PROVE  RowKept(a)
  <1>1. RowMoves(a)
    BY AttemptMoves
  <1> QED BY <1>1 DEF RowMoves, RowInserted, RowTaken, RowWorked, RowEnded, Executing

\* A lease that has run out is never renewed: the attempt can only fail or
\* be cancelled and accepts no more telemetry, whoever calls and in any order.
THEOREM ExpiredStays == Spec => ExpiredLeaseIsFinal
  <1> DEFINE Final(a) == attempt[a].lease = "expired" =>
               /\ attempt'[a].lease = "expired"
               /\ attempt'[a].status \in {attempt[a].status, "FAILED", "CANCELLED"}
               /\ attempt'[a].ack = attempt[a].ack
  <1>1. ASSUME TypeOK, StoreInv, HistoryInv, [Next]_storeVars, NEW a \in AttemptIds
        PROVE  Final(a)
    <2>1. RowMoves(a)
      BY <1>1, StoreAssumption, AttemptMoves
    <2>2. attempt[a].status \in {Absent, "STARTING"} => attempt[a].lease = "unset"
      BY <1>1 DEF HistoryInv, RowsTellOutcome
    <2> QED BY <2>1, <2>2 DEF RowMoves, RowKept, RowInserted, RowTaken, RowWorked,
                              RowEnded, Exists
  <1>2. TypeOK /\ StoreInv /\ HistoryInv /\ [Next]_storeVars
          => [\A a \in AttemptIds : Final(a)]_storeVars
    BY <1>1
  <1> QED BY <1>2, TypeCorrect, StoreConsistent, HistoryHolds, PTL
          DEF Spec, ExpiredLeaseIsFinal

-----------------------------------------------------------------------------
(* The moves of a row of runs and its log *)

\* At most the delay of a retry has elapsed.
RunKept(r) ==
  /\ events'[r] = events[r]
  /\ \/ run'[r] = run[r]
     \/ /\ run[r].status = "RETRY_WAIT"
        /\ run'[r].status = run[r].status
        /\ run'[r].generation = run[r].generation
        /\ run'[r].spec = run[r].spec

\* submit, rerun and submit_sweep.
RunSubmitted(r) ==
  /\ run[r].status = Absent
  /\ run'[r].status = "QUEUED"
  /\ run'[r].generation = 0
  /\ run'[r].spec \in Specs
  /\ events'[r] = Append(events[r], "submitted")

\* assign: the only move that uses up a try.
RunAssigned(r) ==
  /\ run[r].status = "QUEUED"
  /\ run'[r].status = "STARTING"
  /\ run[r].generation < run[r].spec.max_attempts
  /\ run'[r].generation = run[r].generation + 1
  /\ run'[r].spec = run[r].spec
  /\ events'[r] = Append(events[r], "assigned")

\* Every other status change: legal, reported, and to RETRY_WAIT only with a
\* try left.
RunMoved(r) ==
  /\ TransitionAllowed(run[r].status, run'[r].status)
  /\ run'[r].status # "STARTING"
  /\ run'[r].status = "RETRY_WAIT" => run[r].generation < run[r].spec.max_attempts
  /\ run'[r].generation = run[r].generation
  /\ run'[r].spec = run[r].spec
  /\ \E kind \in EventKind : /\ StatusOf(kind) = run'[r].status
                             /\ events'[r] = Append(events[r], kind)

RunMoves(r) == RunKept(r) \/ RunSubmitted(r) \/ RunAssigned(r) \/ RunMoved(r)

\* A run nobody wrote.
LEMMA UntouchedRun ==
  ASSUME NEW r, run'[r] = run[r], events'[r] = events[r]
  PROVE  RunMoves(r)
  BY DEF RunMoves, RunKept

\* The status each event reports.
LEMMA ReportedStatus ==
  /\ StatusOf("submitted") = "QUEUED" /\ StatusOf("requeued") = "QUEUED"
  /\ StatusOf("assigned") = "STARTING" /\ StatusOf("started") = "RUNNING"
  /\ StatusOf("finalizing") = "FINALIZING" /\ StatusOf("completed") = "SUCCEEDED"
  /\ StatusOf("failed") = "FAILED" /\ StatusOf("retry_scheduled") = "RETRY_WAIT"
  /\ StatusOf("cancelled") = "CANCELLED"
  BY DEF StatusOf

\* A status and its event written together, along transition_allowed.
LEMMA StatusMovesRun ==
  ASSUME TypeOK, NEW r \in Runs, NEW q \in Runs, NEW s, NEW kind \in EventKind,
         run' = [run EXCEPT ![q].status = s], Event(q, kind), StatusOf(kind) = s,
         TransitionAllowed(run[q].status, s), s \notin {"STARTING", "RETRY_WAIT"}
  PROVE  RunMoves(r)
  <1>1. CASE r = q
    <2>1. run[r] \in RunRow
      BY DEF TypeOK
    <2>2. run'[r] = [run[r] EXCEPT !.status = s]
      BY <1>1 DEF TypeOK
    <2>3. /\ run'[r].status = s
          /\ run'[r].generation = run[r].generation
          /\ run'[r].spec = run[r].spec
      BY <2>1, <2>2 DEF RunRow
    <2>4. events'[r] = Append(events[r], kind)
      BY <1>1 DEF Event, TypeOK
    <2> QED BY <1>1, <2>3, <2>4 DEF RunMoves, RunMoved
  <1>2. CASE r # q
    BY <1>2, UntouchedRun DEF TypeOK, Event
  <1> QED BY <1>1, <1>2

\* pg::fail moves the run of the attempt to RETRY_WAIT or FAILED.
LEMMA FailMovesRun ==
  ASSUME TypeOK, Tables, NEW r \in Runs, NEW b \in AttemptIds,
         Executing(attempt[b].status), NEW failure, NEW reason, NEW e,
         Fail(b, failure, reason, e)
  PROVE  RunMoves(r)
  <1> DEFINE q == attempt[b].run
             retry == ShouldRetry(run[q].spec, attempt[b].generation, failure)
             s == IF retry THEN "RETRY_WAIT" ELSE "FAILED"
             kind == IF retry THEN "retry_scheduled" ELSE "failed"
  <1>1. /\ q \in Runs
        /\ Executing(run[q].status)
        /\ attempt[b].generation = run[q].generation
    <2>1. Exists(b)
      BY DEF Exists, Executing, Absent
    <2> QED BY <2>1 DEF Tables, RowsLinked, AttemptRunAgree, Current, RunOf
  <1>2. run' = [run EXCEPT ![q].status = s, ![q].available = FALSE] /\ Event(q, kind)
    BY DEF Fail
  <1>3. retry => run[q].generation < run[q].spec.max_attempts
    BY <1>1 DEF ShouldRetry
  <1>4. /\ s \in {"RETRY_WAIT", "FAILED"} /\ kind \in EventKind /\ StatusOf(kind) = s
        /\ s = "RETRY_WAIT" => retry
    BY ReportedStatus DEF EventKind
  <1>5. TransitionAllowed(run[q].status, s)
    BY <1>1, <1>4 DEF TransitionAllowed, Executing, Terminal, RunStatus
  <1> HIDE DEF q, s, kind, retry
  <1>6. CASE r = q
    <2>1. run[r] \in RunRow
      BY DEF TypeOK
    <2>2. run'[r] = [run[r] EXCEPT !.status = s, !.available = FALSE]
      BY <1>2, <1>6 DEF TypeOK
    <2>3. /\ run'[r].status = s
          /\ run'[r].generation = run[r].generation
          /\ run'[r].spec = run[r].spec
      BY <2>1, <2>2 DEF RunRow
    <2>4. events'[r] = Append(events[r], kind)
      BY <1>2, <1>6 DEF Event, TypeOK
    <2>5. RunMoved(r)
      BY <1>3, <1>4, <1>5, <1>6, <2>3, <2>4 DEF RunMoved
    <2> QED BY <2>5 DEF RunMoves
  <1>7. CASE r # q
    BY <1>1, <1>2, <1>7, UntouchedRun DEF TypeOK, Event
  <1> QED BY <1>6, <1>7

\* What the calls of a runner do to a run.
LEMMA RunnerMovesRun ==
  ASSUME StoreAssumption, TypeOK, Tables, NEW r \in Runs,
         NEW b \in AttemptIds, NEW i \in Instances, Runner(b, i)
  PROVE  RunMoves(r)
  <1> DEFINE q == attempt[b].run
  <1>A. Owned(b, i) => q \in Runs /\ Executing(attempt[b].status)
    BY ActiveExecutes DEF Owned, Current, Executing
  <1> USE DEF TransitionAllowed, Terminal, RunStatus, EventKind
  <1>1. CASE Claim(b, i)
    <2>1. q \in Runs /\ run[q].status = "STARTING"
      BY <1>1, ActiveExecutes DEF Claim, Current, Executing, RunOf
    <2>2. run' = [run EXCEPT ![q].status = "RUNNING"] /\ Event(q, "started")
      BY <1>1 DEF Claim
    <2> QED BY <2>1, <2>2, StatusMovesRun, ReportedStatus
  <1>2. CASE ClaimAgain(b, i)
    BY <1>2, UntouchedRun DEF ClaimAgain
  <1>3. CASE Heartbeat(b, i)
    BY <1>3, UntouchedRun DEF Heartbeat
  <1>4. CASE BeginFinalization(b, i)
    <2>1. q \in Runs /\ run[q].status = "RUNNING"
      BY <1>4, <1>A DEF BeginFinalization, RunOf
    <2>2. run' = [run EXCEPT ![q].status = "FINALIZING"] /\ Event(q, "finalizing")
      BY <1>4 DEF BeginFinalization
    <2> QED BY <2>1, <2>2, StatusMovesRun, ReportedStatus
  <1>5. ASSUME NEW first, NEW last, Report(b, i, first, last)
        PROVE  RunMoves(r)
    BY <1>5, UntouchedRun DEF Report
  <1>6. ASSUME NEW o \in Outcomes, NEW n, Finish(b, i, o[1], o[2], n)
        PROVE  RunMoves(r)
    <2> DEFINE e == o[1]
               reason == o[2]
    <2>1. Finish(b, i, e, reason, n)
      BY <1>6
    <2> HIDE DEF e, reason
    <2>2. q \in Runs /\ Executing(attempt[b].status)
      BY <1>A, <2>1 DEF Finish
    <2>3. CASE e = 0
      <3>1. run[q].status = "FINALIZING"
        BY <2>1, <2>3 DEF Finish, RunOf
      <3>2. run' = [run EXCEPT ![q].status = "SUCCEEDED"] /\ Event(q, "completed")
        BY <2>1, <2>3 DEF Finish
      <3> QED BY <2>2, <3>1, <3>2, StatusMovesRun, ReportedStatus
    <2>4. CASE e # 0
      <3>1. PICK failure, recorded : Fail(b, failure, recorded, e)
        BY <2>1, <2>4, Zenon DEF Finish
      <3> QED BY <2>2, <3>1, FailMovesRun
    <2> QED BY <2>3, <2>4
  <1>7. ASSUME NEW e, FinishAgain(b, i, e)
        PROVE  RunMoves(r)
    BY <1>7, UntouchedRun DEF FinishAgain
  <1> QED BY <1>1, <1>2, <1>3, <1>4, <1>5, <1>6, <1>7 DEF Runner

\* What a transaction may do to a run and its log.
LEMMA RunsMove ==
  ASSUME StoreAssumption, TypeOK, StoreInv, [Next]_storeVars, NEW r \in Runs
  PROVE  RunMoves(r)
  <1>0. Tables /\ CandidatesExist
    BY DEF StoreInv, Tables
  <1>1. ASSUME NEW q \in Runs, NEW s \in Specs, Submit(q, s) PROVE RunMoves(r)
    <2>1. CASE r = q
      <3>1. /\ run'[r].status = "QUEUED"
            /\ run'[r].generation = 0
            /\ run'[r].spec = s
        BY <1>1, <2>1 DEF Submit, TypeOK, NoRun
      <3>2. events'[r] = Append(events[r], "submitted")
        BY <1>1, <2>1 DEF Submit, Event, TypeOK
      <3> QED BY <1>1, <2>1, <3>1, <3>2 DEF RunMoves, RunSubmitted, Submit
    <2>2. CASE r # q
      BY <1>1, <2>2, UntouchedRun DEF Submit, Event, TypeOK
    <2> QED BY <2>1, <2>2
  <1>2. ASSUME NEW parent \in Runs, NEW q \in Runs, Rerun(parent, q) PROVE RunMoves(r)
    <2>1. run[parent].spec \in Specs
      BY <1>0, <1>2 DEF Rerun, Terminal, Tables, RetryBudget, Absent
    <2> QED BY <1>1, <1>2, <2>1 DEF Rerun
  <1>3. ASSUME NEW q \in Runs, NEW a \in AttemptIds, NEW w \in Workers, Place(q, a, w)
        PROVE  RunMoves(r)
    <2>1. CASE r = q
      <3>1. run[r] \in RunRow /\ run[r].status = "QUEUED"
        BY <1>3, <2>1 DEF Place, TypeOK
      <3>2. run'[r] = [run[r] EXCEPT !.status = "STARTING", !.active = a,
                                     !.generation = run[r].generation + 1]
        BY <1>3, <2>1 DEF Place, TypeOK
      <3>3. /\ run'[r].status = "STARTING"
            /\ run'[r].generation = run[r].generation + 1
            /\ run'[r].spec = run[r].spec
        BY <3>1, <3>2 DEF RunRow
      <3>4. events'[r] = Append(events[r], "assigned")
        BY <1>3, <2>1 DEF Place, Event, TypeOK
      <3>5. run[r].generation < run[r].spec.max_attempts
        <4>1. run[r].spec \in Specs /\ run[r].spec.max_attempts \in Nat \ {0}
          BY <1>0, <3>1 DEF Tables, RetryBudget, StoreAssumption, Absent
        <4>2. CASE run[r].generation = 0
          BY <4>1, <4>2
        <4>3. CASE run[r].generation # 0
          BY <1>0, <3>1, <4>3 DEF Tables, RetryBudget, ShouldRetry, Absent
        <4> QED BY <4>2, <4>3
      <3>6. RunAssigned(r)
        BY <3>1, <3>3, <3>4, <3>5 DEF RunAssigned
      <3> QED BY <3>6 DEF RunMoves
    <2>2. CASE r # q
      BY <1>3, <2>2, UntouchedRun DEF Place, Event, TypeOK
    <2> QED BY <2>1, <2>2
  <1>4. ASSUME NEW b \in AttemptIds, NEW i \in Instances, Runner(b, i)
        PROVE  RunMoves(r)
    BY <1>0, <1>4, RunnerMovesRun
  <1>5. ASSUME NEW q \in Runs, Cancel(q) PROVE RunMoves(r)
    <2>1. TransitionAllowed(run[q].status, "CANCELLED")
      BY <1>5 DEF Cancel, TransitionAllowed, TypeOK, RunRow
    <2>2. run' = [run EXCEPT ![q].status = "CANCELLED"] /\ Event(q, "cancelled")
      BY <1>5 DEF Cancel
    <2>3. "cancelled" \in EventKind
      BY DEF EventKind
    <2> QED BY <2>1, <2>2, <2>3, StatusMovesRun, ReportedStatus
  <1>6. ASSUME NEW b \in AttemptIds, RuntimeStopped(b) PROVE RunMoves(r)
    <2>1. PICK failure, reason : Fail(b, failure, reason, None)
      BY <1>6, Zenon DEF RuntimeStopped
    <2> QED BY <1>0, <1>6, <2>1, FailMovesRun DEF RuntimeStopped
  <1>7. ASSUME NEW b, CleanupDone(b) PROVE RunMoves(r)
    BY <1>7, UntouchedRun DEF CleanupDone
  <1>8. ASSUME NEW m \in Servers, Recover(m) \/ RecoverAbort(m) PROVE RunMoves(r)
    <2>1. CASE RecoverScan(m) \/ RecoverAbort(m)
      BY <2>1, UntouchedRun DEF RecoverScan, RecoverAbort
    <2>2. CASE RecoverRequeue(m)
      <3>1. CASE run[r].status = "RETRY_WAIT" /\ run[r].available
        <4>1. run[r] \in RunRow
          BY DEF TypeOK
        <4>2. /\ run'[r] = [run[r] EXCEPT !.status = "QUEUED"]
              /\ events'[r] = Append(events[r], "requeued")
          BY <2>2, <3>1 DEF RecoverRequeue
        <4>3. /\ run'[r].status = "QUEUED"
              /\ run'[r].generation = run[r].generation
              /\ run'[r].spec = run[r].spec
          BY <4>1, <4>2 DEF RunRow
        <4>4. TransitionAllowed("RETRY_WAIT", "QUEUED") /\ "requeued" \in EventKind
          BY DEF TransitionAllowed, Terminal, RunStatus, EventKind
        <4>5. RunMoved(r)
          BY <3>1, <4>2, <4>3, <4>4, ReportedStatus DEF RunMoved
        <4> QED BY <4>5 DEF RunMoves
      <3>2. CASE ~(run[r].status = "RETRY_WAIT" /\ run[r].available)
        BY <2>2, <3>2, UntouchedRun DEF RecoverRequeue
      <3> QED BY <3>1, <3>2
    <2>3. ASSUME NEW b \in AttemptIds, RecoverCandidate(m, b) PROVE RunMoves(r)
      <3>1. CASE Verdict(b) = None
        BY <2>3, <3>1, UntouchedRun DEF RecoverCandidate
      <3>2. CASE Verdict(b) # None
        <4>1. Exists(b)
          BY <1>0, <2>3 DEF RecoverCandidate, CandidatesExist
        <4>2. Executing(attempt[b].status)
          BY <1>0, <3>2, <4>1, VerdictType, ActiveExecutes
        <4>3. PICK failure, reason : Fail(b, failure, reason, None)
          BY <2>3, <3>2, Zenon DEF RecoverCandidate
        <4> QED BY <1>0, <4>2, <4>3, FailMovesRun
      <3> QED BY <3>1, <3>2
    <2> QED BY <1>8, <2>1, <2>2, <2>3 DEF Recover
  <1>9. ASSUME NEW b, NEW d, Expire(b, d) PROVE RunMoves(r)
    BY <1>9, UntouchedRun DEF Expire
  <1>10. ASSUME NEW q \in Runs, DelayElapses(q) PROVE RunMoves(r)
    <2>1. CASE r = q
      <3>1. run[r] \in RunRow
        BY DEF TypeOK
      <3>2. run'[r] = [run[r] EXCEPT !.available = TRUE]
        BY <1>10, <2>1 DEF DelayElapses, TypeOK
      <3>3. /\ run'[r].status = run[r].status
            /\ run'[r].generation = run[r].generation
            /\ run'[r].spec = run[r].spec
        BY <3>1, <3>2 DEF RunRow
      <3> QED BY <1>10, <2>1, <3>3 DEF RunMoves, RunKept, DelayElapses
    <2>2. CASE r # q
      BY <1>10, <2>2, UntouchedRun DEF DelayElapses, TypeOK
    <2> QED BY <2>1, <2>2
  <1>11. CASE UNCHANGED storeVars
    BY <1>11, UntouchedRun DEF storeVars
  <1> QED BY <1>1, <1>2, <1>3, <1>4, <1>5, <1>6, <1>7, <1>8, <1>9, <1>10, <1>11
          DEF Next, Time

\* "The first committed decision wins": a terminal run is frozen with its
\* log, and an ended attempt keeps outcome, code, reason and telemetry.
THEOREM DecisionsAreFinal == Spec => OutcomeIsFinal
  <1> DEFINE RunFinal(r) == Terminal(run[r].status) =>
               run'[r] = run[r] /\ events'[r] = events[r]
             AttemptFinal(a) == Exists(a) /\ ~Executing(attempt[a].status) =>
               /\ attempt'[a].status = attempt[a].status
               /\ attempt'[a].exit_code = attempt[a].exit_code
               /\ attempt'[a].reason = attempt[a].reason
               /\ attempt'[a].ack = attempt[a].ack
  <1>1. ASSUME TypeOK, StoreInv, [Next]_storeVars, NEW r \in Runs
        PROVE  RunFinal(r)
    <2>1. RunMoves(r)
      BY <1>1, StoreAssumption, RunsMove
    <2> QED BY <2>1 DEF RunMoves, RunKept, RunSubmitted, RunAssigned, RunMoved,
                        TransitionAllowed, Terminal, Absent
  <1>2. ASSUME TypeOK, StoreInv, [Next]_storeVars, NEW a \in AttemptIds
        PROVE  AttemptFinal(a)
    BY <1>2, StoreAssumption, EndedRowsStay DEF RowKept
  <1>3. TypeOK /\ StoreInv /\ [Next]_storeVars
          => [/\ \A r \in Runs : RunFinal(r)
              /\ \A a \in AttemptIds : AttemptFinal(a)]_storeVars
    BY <1>1, <1>2
  <1> QED BY <1>3, TypeCorrect, StoreConsistent, PTL DEF Spec, OutcomeIsFinal

-----------------------------------------------------------------------------
(* The event log *)

\* A log that tells a status, continued by an event that reports a legal
\* move from it, tells the new status.
LEMMA LogContinues ==
  ASSUME NEW log \in Seq(EventKind), NEW kind \in EventKind,
         \A k \in 1..(Len(log) - 1) :
           TransitionAllowed(StatusOf(log[k]), StatusOf(log[k + 1])),
         log # << >> => TransitionAllowed(StatusOf(log[Len(log)]), StatusOf(kind))
  PROVE  LET longer == Append(log, kind)
         IN /\ longer # << >>
            /\ longer[Len(longer)] = kind
            /\ \A k \in 1..(Len(longer) - 1) :
                 TransitionAllowed(StatusOf(longer[k]), StatusOf(longer[k + 1]))
  <1> DEFINE longer == Append(log, kind)
  <1>1. /\ longer \in Seq(EventKind)
        /\ Len(log) \in Nat
        /\ Len(longer) = Len(log) + 1
        /\ longer[Len(log) + 1] = kind
        /\ \A k \in 1..Len(log) : longer[k] = log[k]
    BY AppendProperties, LenProperties
  <1>2. longer # << >>
    BY <1>1
  <1> HIDE DEF longer
  <1>3. ASSUME NEW k \in 1..Len(log)
        PROVE  TransitionAllowed(StatusOf(longer[k]), StatusOf(longer[k + 1]))
    <2>1. CASE k = Len(log)
      BY <1>1, <2>1
    <2>2. CASE k # Len(log)
      <3>1. k \in 1..(Len(log) - 1) /\ k + 1 \in 1..Len(log)
        BY <1>1, <2>2
      <3> QED BY <1>1, <3>1
    <2> QED BY <2>1, <2>2
  <1>4. Len(longer) - 1 = Len(log)
    BY <1>1
  <1> QED BY <1>1, <1>2, <1>3, <1>4 DEF longer

\* The log a client follows always tells the run's whole story.
THEOREM EventsTell == Spec => []EventsTellStatus
  <1> DEFINE Tells(r) ==
        /\ run[r].status # Absent <=> events[r] # << >>
        /\ events[r] # << >> => StatusOf(events[r][Len(events[r])]) = run[r].status
        /\ \A k \in 1..(Len(events[r]) - 1) :
             TransitionAllowed(StatusOf(events[r][k]), StatusOf(events[r][k + 1]))
  <1>1. Init => EventsTellStatus
    BY DEF Init, EventsTellStatus, NoRun
  <1>2. ASSUME TypeOK, StoreInv, EventsTellStatus, [Next]_storeVars, NEW r \in Runs
        PROVE  Tells(r)'
    <2>0. Tells(r) /\ events[r] \in Seq(EventKind)
      BY <1>2 DEF EventsTellStatus, TypeOK
    <2>1. RunMoves(r)
      BY <1>2, StoreAssumption, RunsMove
    <2>2. CASE RunKept(r)
      BY <2>0, <2>2 DEF RunKept
    <2>3. CASE ~RunKept(r)
      <3>1. PICK kind \in EventKind : /\ StatusOf(kind) = run'[r].status
                                      /\ events'[r] = Append(events[r], kind)
        <4>1. "submitted" \in EventKind /\ "assigned" \in EventKind
          BY DEF EventKind
        <4> QED BY <2>1, <2>3, <4>1, ReportedStatus
                DEF RunMoves, RunSubmitted, RunAssigned, RunMoved
      <3>2. /\ run[r].status # Absent => TransitionAllowed(run[r].status, run'[r].status)
            /\ run'[r].status # Absent
        BY <2>1, <2>3 DEF RunMoves, RunSubmitted, RunAssigned, RunMoved,
                          TransitionAllowed, Terminal, RunStatus, Absent
      <3>3. events[r] # << >> => TransitionAllowed(StatusOf(events[r][Len(events[r])]),
                                                   StatusOf(kind))
        BY <2>0, <3>1, <3>2
      <3>4. /\ events'[r] # << >>
            /\ events'[r][Len(events'[r])] = kind
            /\ \A k \in 1..(Len(events'[r]) - 1) :
                 TransitionAllowed(StatusOf(events'[r][k]), StatusOf(events'[r][k + 1]))
        BY <2>0, <3>1, <3>3, LogContinues
      <3> QED BY <3>1, <3>2, <3>4
    <2> QED BY <2>2, <2>3
  <1>3. TypeOK /\ StoreInv /\ EventsTellStatus /\ [Next]_storeVars => EventsTellStatus'
    BY <1>2 DEF EventsTellStatus
  <1> QED BY <1>1, <1>3, TypeCorrect, StoreConsistent, PTL DEF Spec

-----------------------------------------------------------------------------
(* Refinement of the run lifecycle *)

\* The store implements the abstract lifecycle: each transaction moves every
\* run along transition_allowed, and a try is used only if one is left.
THEOREM StoreRefinesLifecycle == Spec => ImplementsLifecycle
  <1>1. Init => Lifecycle!Init
    BY DEF Init, NoRun, Lifecycle!Init, Lifecycle!Absent, Absent
  <1>2. ASSUME TypeOK, StoreInv, [Next]_storeVars, NEW r \in Runs
        PROVE  Lifecycle!Submit(r) \/ Lifecycle!Assign(r) \/ Lifecycle!Move(r)
               \/ Lifecycle!Stay(r)
    <2>1. RunMoves(r)
      BY <1>2, StoreAssumption, RunsMove
    <2>2. CASE RunKept(r)
      <3>1. Lifecycle!Stay(r)
        BY <2>2 DEF RunKept, Lifecycle!Stay
      <3> QED BY <3>1
    <2>3. CASE RunSubmitted(r)
      <3>1. run'[r].spec.max_attempts \in Nat \ {0}
        BY <2>3, StoreAssumption DEF RunSubmitted, StoreAssumption
      <3>2. Lifecycle!Submit(r)
        BY <2>3, <3>1 DEF RunSubmitted, Lifecycle!Submit, Lifecycle!Absent, Absent
      <3> QED BY <3>2
    <2>4. CASE RunAssigned(r)
      <3>1. Lifecycle!Assign(r)
        BY <2>4 DEF RunAssigned, Lifecycle!Assign, Absent
      <3> QED BY <3>1
    <2>5. CASE RunMoved(r)
      <3>1. run[r].status # Absent /\ run'[r].status # Absent
        BY <2>5 DEF RunMoved, TransitionAllowed, RunStatus, Absent
      <3>2. Lifecycle!Move(r)
        BY <2>5, <3>1 DEF RunMoved, Lifecycle!Move, TransitionAllowed, Terminal, RunStatus,
           Lifecycle!TransitionAllowed, Lifecycle!Terminal, Lifecycle!RunStatus
      <3> QED BY <3>2
    <2> QED BY <2>1, <2>2, <2>3, <2>4, <2>5 DEF RunMoves
  <1>3. TypeOK /\ StoreInv /\ [Next]_storeVars => [Lifecycle!Next]_Lifecycle!vars
    BY <1>2 DEF Lifecycle!Next
  <1> QED BY <1>1, <1>3, TypeCorrect, StoreConsistent, PTL
          DEF Spec, ImplementsLifecycle, Lifecycle!Spec
=============================================================================
