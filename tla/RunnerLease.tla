----------------------------- MODULE RunnerLease -----------------------------
(***************************************************************************)
(* One runner and the lease of its attempt, in numeric time.               *)
(*                                                                         *)
(* run_attempt (src/src/runner/engine.cpp) starts the attempt, launches    *)
(* the experiment as a process group, watches it in a loop and reports how *)
(* it ended; the thread of LeaseGuard renews the lease meanwhile.  The     *)
(* server knows the lease by its own clock (ownership.cpp).  Both clocks   *)
(* are taken to run at one rate: now is the time of either.  Requests may  *)
(* fail, time out before or after they were executed, and be executed when *)
(* the runner no longer waits for them.                                    *)
(***************************************************************************)
EXTENDS Naturals

CONSTANTS
  Lease,          \* lease_seconds
  Margin,         \* the 2 seconds LeaseGuard subtracts from every lease
  Grace,          \* termination_seconds, between SIGTERM and SIGKILL
  HeartbeatEvery, \* heartbeat_seconds
  RpcTimeout,     \* the deadline of a heartbeat
  CallTimeout,    \* the deadline of the calls of the main thread
  Slack,          \* longest time the main thread takes between two steps
  TimeoutSeconds, \* timeout_seconds of the specification
  Finalization,   \* finalization_seconds
  Tries,          \* tries of retry_transfer
  Horizon         \* bound: where the clock of the model ends

\* ServerConfig::load refuses a lease that does not exceed the sum; an
\* iteration (20 ms of sleep, bounded reads) is far shorter than the margin.
ASSUME LeaseTiming ==
  /\ {Lease, Margin, Grace, HeartbeatEvery, RpcTimeout, CallTimeout, Slack,
      TimeoutSeconds, Finalization, Tries, Horizon} \subseteq Nat
  /\ Lease > HeartbeatEvery + Grace + Margin
  /\ 2 * Slack <= Margin

VARIABLES
  now,    \* seconds
  srv,    \* the rows of the attempt: status, lease, deadline, outcome
  rn,     \* the main thread of the runner: seen is when it last did something
  call,   \* its RPC, if it waits for one: sent, or the answer
  hb,     \* the thread of LeaseGuard: at is when it wakes or `before`
  guard,  \* until_ and revoked_, which both threads use
  proc,   \* the experiment: its first process, the rest of its group
  late    \* a heartbeat that timed out may still be executed

leaseVars == <<now, srv, rn, call, hb, guard, proc, late>>

Rpcs == {"start", "heartbeat", "finalize", "complete"}
Phases == {"start", "launch", "watch", "exited", "finalize",
           "collect", "complete", "done"}
Answers == {"ok", "stale"}
Reasons == {"none", "STOP_REQUESTED", "LEASE_LOST", "TIMEOUT"}
Codes == {0, 1, 143}  \* 1 is any other status, such as that of a SIGKILL

\* The rows of the attempt; outcome holds what the runner has completed with.
Rows == [status: {"STARTING", "RUNNING", "FINALIZING", "ENDED"},
         lease: Nat, deadline: Nat,
         outcome: SUBSET [code: Codes, reason: Reasons]]

Runners == [phase: Phases, sent: Nat, tries: Nat, reason: Reasons, seen: Nat,
            killAt: Nat]
Heartbeats == [state: {"wait", "sent"} \union Answers, at: Nat, missed: BOOLEAN]
Guards == [until: Nat, revoked: BOOLEAN]
Processes == [leader: {"none", "alive", "zombie", "reaped"}, kids: BOOLEAN,
              code: Codes]

\* The shape of the state.
LeaseTypeOK ==
  /\ now \in Nat
  /\ srv \in Rows
  /\ rn \in Runners
  /\ call \in {"sent"} \union Answers
  /\ hb \in Heartbeats
  /\ guard \in Guards
  /\ proc \in Processes
  /\ late \in BOOLEAN

NoHeartbeat == [state |-> "wait", at |-> 0, missed |-> FALSE]
NoGuard == [until |-> 0, revoked |-> FALSE]

LeaseInit ==
  /\ now = 0
  /\ srv = [status |-> "STARTING", lease |-> 0, deadline |-> 0,
            outcome |-> {}]
  /\ rn = [phase |-> "start", sent |-> now, tries |-> 0, reason |-> "none",
           seen |-> 0, killAt |-> 0]
  /\ call = "sent"
  /\ hb = NoHeartbeat
  /\ guard = NoGuard
  /\ proc = [leader |-> "none", kids |-> FALSE, code |-> 0]
  /\ late = FALSE

(***************************************************************************)
(* The server: what each request does to the rows and what it answers.     *)
(***************************************************************************)

Executing == srv.status \in {"RUNNING", "FINALIZING"}

\* pg::owned: nothing is accepted once the lease or the deadline is over.
OwnedRow == Executing /\ now < srv.lease /\ now < srv.deadline

ServeStart ==
  IF srv.status = "STARTING"
  THEN <<"ok", [srv EXCEPT !.status = "RUNNING", !.lease = now + Lease,
                           !.deadline = now + TimeoutSeconds]>>
  ELSE <<IF OwnedRow THEN "ok" ELSE "stale", srv>>

ServeHeartbeat ==
  IF OwnedRow THEN <<"ok", [srv EXCEPT !.lease = now + Lease]>>
              ELSE <<"stale", srv>>

ServeFinalize ==
  IF OwnedRow /\ srv.status = "RUNNING"
  THEN <<"ok", [srv EXCEPT !.status = "FINALIZING",
                           !.deadline = now + Finalization]>>
  ELSE <<IF OwnedRow THEN "ok" ELSE "stale", srv>>

\* Mutant: the exit status is reported as it is, also of a child that was stopped.
ReportedPlainly == [code |-> proc.code, reason |-> rn.reason]

\* The outcome run_attempt reports: a child that was told to stop did not
\* succeed, whatever its exit status.
Reported ==
  [code |-> IF rn.reason # "none" /\ proc.code = 0 THEN 143 ELSE proc.code,
   reason |-> rn.reason]

ServeComplete ==
  IF /\ srv.outcome = {} /\ OwnedRow
     /\ Reported.code = 0 => srv.status = "FINALIZING"
  THEN <<"ok", [srv EXCEPT !.status = "ENDED", !.outcome = {Reported}]>>
  ELSE <<IF \E o \in srv.outcome : o.code = Reported.code
         THEN "ok" ELSE "stale", srv>>

Serve(r) == CASE r = "start" -> ServeStart
              [] r = "heartbeat" -> ServeHeartbeat
              [] r = "finalize" -> ServeFinalize
              [] r = "complete" -> ServeComplete

\* recover() ends an attempt whose lease or deadline is over.
ServerRecovers ==
  /\ Executing
  /\ srv.lease <= now \/ srv.deadline <= now
  /\ srv' = [srv EXCEPT !.status = "ENDED"]
  /\ UNCHANGED <<now, rn, call, hb, guard, proc, late>>

\* cancel() ends it at any time.
ServerCancels ==
  /\ srv.status # "ENDED"
  /\ srv' = [srv EXCEPT !.status = "ENDED"]
  /\ UNCHANGED <<now, rn, call, hb, guard, proc, late>>

\* A heartbeat is executed although the runner no longer waits for it.
ServeLate ==
  /\ late
  /\ srv' = Serve("heartbeat")[2]
  /\ late' = FALSE
  /\ UNCHANGED <<now, rn, call, hb, guard, proc>>

(***************************************************************************)
(* The main thread and its RPCs (retry_transfer around check_rpc).         *)
(***************************************************************************)

\* Mutant: the destructor leaves the process group alone.
RunnerExitsDetached ==
  /\ rn' = [rn EXCEPT !.phase = "done", !.seen = 0, !.killAt = 0, !.tries = 0]
  /\ hb' = NoHeartbeat
  /\ guard' = NoGuard
  /\ UNCHANGED <<now, srv, proc, late>>

\* run_attempt returns or throws: ~PosixProcess kills the group if it has not
\* been reaped, ~LeaseGuard joins its thread.  The wait of the join, at most
\* the deadline of a heartbeat under way, is part of this one step.
RunnerExits ==
  /\ rn' = [rn EXCEPT !.phase = "done", !.seen = 0, !.killAt = 0, !.tries = 0]
  /\ proc' = IF proc.leader \in {"alive", "zombie"}
             THEN [proc EXCEPT !.leader = "reaped", !.kids = FALSE] ELSE proc
  /\ hb' = NoHeartbeat
  /\ guard' = NoGuard
  /\ UNCHANGED <<now, srv, late>>

\* The phases in which the main thread waits for the server.
Calling == rn.phase \in {"start", "finalize", "collect", "complete"}

\* The main thread goes on to the next phase and sends its request, if any.
Enter(phase) ==
  rn' = [rn EXCEPT !.phase = phase, !.seen = now, !.killAt = 0, !.tries = 0]

CallServe ==
  /\ rn.phase \in {"start", "finalize", "complete"} /\ call = "sent"
  /\ call' = Serve(rn.phase)[1]
  /\ srv' = Serve(rn.phase)[2]
  /\ UNCHANGED <<now, rn, hb, guard, proc, late>>

\* The request or its reply is lost, or the deadline of the call passes:
\* retry_transfer tries again, three times in all.
CallLost ==
  /\ rn.phase \in {"start", "finalize", "complete"}
  /\ call' = "sent"
  /\ \/ /\ rn.tries + 1 < Tries
        /\ rn' = [rn EXCEPT !.tries = @ + 1, !.seen = now]
        /\ UNCHANGED <<now, srv, hb, guard, proc, late>>
     \/ rn.tries + 1 >= Tries /\ RunnerExits

\* Any other error ends run_attempt.
CallRefused ==
  /\ call = "stale"
  /\ call' = "sent"
  /\ RunnerExits

\* Mutant: the lease counts from the answer, not from before the call.
UntilFromReply(granted) == now + Lease - Margin

\* The lease counts from before the call that granted it.
Until(granted) == granted + Lease - Margin

\* Start was answered: LeaseGuard is created and its thread begins to wait.
Started ==
  /\ rn.phase = "start" /\ call = "ok"
  /\ call' = "sent"
  /\ Enter("launch")
  /\ guard' = [guard EXCEPT !.until = Until(rn.sent)]
  /\ hb' = [hb EXCEPT !.at = now + HeartbeatEvery]
  /\ UNCHANGED <<now, srv, proc, late>>

NearExpiry(grace) == now + grace >= guard.until

\* The lease must leave time to stop the child, or it is not launched; the
\* command may also fail to start.
Launch ==
  /\ rn.phase = "launch"
  /\ \/ /\ ~NearExpiry(Grace)
        /\ Enter("watch")
        /\ \E kids \in BOOLEAN :
             proc' = [proc EXCEPT !.leader = "alive", !.kids = kids]
        /\ UNCHANGED <<now, srv, hb, guard, late>>
     \/ RunnerExits
  /\ UNCHANGED call

\* Why the loop stops the child, in the order in which it asks.
StopReason(interrupted) ==
  IF interrupted THEN "STOP_REQUESTED"
  ELSE IF guard.revoked \/ NearExpiry(Grace) THEN "LEASE_LOST"
  ELSE IF now >= rn.sent + TimeoutSeconds THEN "TIMEOUT" ELSE "none"

\* One iteration: decide (a SIGTERM or SIGINT may have reached the runner),
\* stop() sends SIGTERM and sets the time of the
\* SIGKILL, poll() sends it when due and reaps the first process, and with
\* it kills what is left of its group.
Watch ==
  /\ rn.phase = "watch"
  /\ \E reason \in IF rn.reason = "none" THEN {StopReason(i) : i \in BOOLEAN}
                                     ELSE {rn.reason} :
     LET killAt == IF rn.reason = "none" THEN now + Grace ELSE rn.killAt
         kill   == reason # "none" /\ now >= killAt
         killed == IF kill /\ proc.leader = "alive"
                   THEN [leader |-> "zombie", kids |-> FALSE, code |-> 1]
                   ELSE [proc EXCEPT !.kids = @ /\ ~kill]
     IN \E reap \in BOOLEAN :
          /\ proc.leader = "zombie" => reap
          /\ reap => killed.leader = "zombie"
          /\ proc' = IF reap THEN [killed EXCEPT !.leader = "reaped",
                                                 !.kids = FALSE]
                             ELSE killed
          /\ rn' = [rn EXCEPT !.reason = reason, !.seen = now,
                      !.killAt = IF reason = "none" \/ reap THEN 0 ELSE killAt,
                      !.phase = IF reap THEN "exited" ELSE @]
  /\ UNCHANGED <<now, srv, call, hb, guard, late>>

\* An exception leaves the loop.
WatchThrows ==
  /\ rn.phase = "watch"
  /\ RunnerExits
  /\ UNCHANGED call

\* Nothing is reported under a lease that was lost.
Exited ==
  /\ rn.phase = "exited"
  /\ \/ (guard.revoked \/ NearExpiry(0)) /\ RunnerExits
     \/ /\ ~guard.revoked /\ ~NearExpiry(0)
        /\ Enter("finalize")
        /\ UNCHANGED <<now, srv, hb, guard, proc, late>>
  /\ UNCHANGED call

Finalizing ==
  /\ rn.phase = "finalize" /\ call = "ok"
  /\ call' = "sent"
  /\ Enter("collect")
  /\ UNCHANGED <<now, srv, hb, guard, proc, late>>

\* Telemetry is flushed and the artifacts uploaded; any of it may throw.
Collect ==
  /\ rn.phase = "collect"
  /\ \/ Enter("complete") /\ UNCHANGED <<now, srv, hb, guard, proc, late>>
     \/ RunnerExits
  /\ UNCHANGED call

Completed ==
  /\ rn.phase = "complete" /\ call = "ok"
  /\ call' = "sent"
  /\ RunnerExits

\* The experiment ends by itself, or on SIGTERM; its group may live on.
ChildExits ==
  /\ proc.leader = "alive"
  /\ \E code \in {0, 1, 143}, kids \in BOOLEAN :
       /\ code = 143 => rn.reason # "none"
       /\ kids => proc.kids
       /\ proc' = [leader |-> "zombie", kids |-> kids, code |-> code]
  /\ UNCHANGED <<now, srv, rn, call, hb, guard, late>>

(***************************************************************************)
(* The thread of LeaseGuard.                                               *)
(***************************************************************************)

Guarding == rn.phase \notin {"start", "done"}

HeartbeatSend ==
  /\ Guarding
  /\ hb.state = "wait" /\ now >= hb.at
  /\ hb' = [hb EXCEPT !.state = "sent", !.at = now]
  /\ UNCHANGED <<now, srv, rn, call, guard, proc, late>>

HeartbeatServe ==
  /\ hb.state = "sent"
  /\ hb' = [hb EXCEPT !.state = Serve("heartbeat")[1]]
  /\ srv' = Serve("heartbeat")[2]
  /\ UNCHANGED <<now, rn, call, guard, proc, late>>

\* The call fails or times out, executed or not: nothing changes.
HeartbeatLost ==
  /\ Guarding
  /\ hb.state # "wait"
  /\ hb' = [state |-> "wait", at |-> now + HeartbeatEvery, missed |-> TRUE]
  /\ \/ UNCHANGED late
     \/ hb.state = "sent" /\ late' = TRUE
  /\ UNCHANGED <<now, srv, rn, call, guard, proc>>

\* The new lease counts from before the call; a refusal revokes the lease.
HeartbeatDone ==
  /\ Guarding
  /\ hb.state \in Answers
  /\ guard' = IF hb.state = "ok" THEN [guard EXCEPT !.until = Until(hb.at)]
                                 ELSE [guard EXCEPT !.revoked = TRUE]
  /\ hb' = [hb EXCEPT !.state = "wait", !.at = now + HeartbeatEvery]
  /\ UNCHANGED <<now, srv, rn, call, proc, late>>

\* Time passes, but not past the end of an iteration of the watch loop, the
\* deadline of a call or the wake-up of the thread.  The clock of the model
\* stops with the runner: what is left then does not depend on the time.
Tick ==
  /\ now < Horizon /\ rn.phase # "done"
  /\ now < rn.seen + (IF Calling THEN CallTimeout ELSE Slack)
  /\ Guarding => now < hb.at + (IF hb.state = "wait" THEN 0 ELSE RpcTimeout)
  /\ now' = now + 1
  /\ UNCHANGED <<srv, rn, call, hb, guard, proc, late>>

RunnerStep == CallServe \/ CallLost \/ CallRefused
              \/ Started \/ Launch \/ Watch \/ WatchThrows
              \/ Exited \/ Finalizing \/ Collect \/ Completed
HeartbeatStep ==
  HeartbeatSend \/ HeartbeatServe \/ HeartbeatLost \/ HeartbeatDone
ServerStep ==
  ServerRecovers \/ ServerCancels \/ ServeLate

LeaseNext == RunnerStep \/ HeartbeatStep \/ ServerStep \/ ChildExits \/ Tick

LeaseSpec == LeaseInit /\ [][LeaseNext]_leaseVars

(***************************************************************************)
(* Properties.                                                             *)
(***************************************************************************)

ProcessAlive == proc.leader = "alive" \/ proc.kids

\* While a process of the experiment lives, the lease the server recorded
\* has not expired, so nobody has retried the attempt for its expiry: the
\* two second margin and near_expiry() do what they are for, also when
\* heartbeats are late, lost or answered after they timed out.
ChildDeadBeforeExpiry == ProcessAlive => now < srv.lease

\* An attempt is recorded as succeeded only if its child exited with 0 and
\* nothing had told it to stop, and what is recorded is how it ended.
OutcomeTold ==
  \A o \in srv.outcome :
    /\ ~ProcessAlive
    /\ o.reason = rn.reason
    /\ o.code = 0 <=> proc.code = 0 /\ rn.reason = "none"

\* Once a heartbeat has been answered, the runner comes to give up its lease
\* only if one was refused or not answered in time: answers as slow as the
\* deadline of the call allows keep it, with the configured intervals.
LossHasCause ==
  rn.phase = "watch" /\ rn.reason = "none" /\ StopReason(FALSE) = "LEASE_LOST" =>
    guard.revoked \/ hb.missed \/ guard.until = Until(rn.sent)

\* Every runner ends and leaves no process behind, whatever the server and
\* the child do: timeouts, grace period and bounded retries see to it.
RunnerEnds == <>[](rn.phase = "done" /\ ~ProcessAlive)

\* The end of an attempt is accounted for: how the child ended is what is
\* recorded, and a lease is not given up without a cause.
LeaseAccounted == OutcomeTold /\ LossHasCause

=============================================================================
