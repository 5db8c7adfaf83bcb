------------------------------ MODULE RunModel ------------------------------
(***************************************************************************)
(* The domain functions of src/domain/model.cpp that decide how a run may  *)
(* move and whether a failed attempt is tried again.  They have no state;  *)
(* the store's transactions (AttemptStore) and the abstract lifecycle      *)
(* (RunLifecycle) are both written with them.                              *)
(***************************************************************************)
EXTENDS Naturals

\* The strings of the runs.status column, in the order of the C++ enum.
RunStatus == {"QUEUED", "STARTING", "RUNNING", "FINALIZING",
              "RETRY_WAIT", "SUCCEEDED", "FAILED", "CANCELLED"}

\* A row that has not been inserted yet.
Absent == "ABSENT"

Terminal(status) == status \in {"SUCCEEDED", "FAILED", "CANCELLED"}

\* The statuses in which a runtime may be executing on behalf of an attempt.
Executing(status) == status \in {"STARTING", "RUNNING", "FINALIZING"}

\* transition_allowed: the diagram every status change is meant to follow.
\* The store writes statuses with SQL and never calls it.
TransitionAllowed(from, to) ==
  /\ from \in RunStatus
  /\ ~Terminal(from)
  /\ \/ to = "CANCELLED"
     \/ from = "QUEUED" /\ to = "STARTING"
     \/ from = "STARTING" /\ to \in {"RUNNING", "RETRY_WAIT", "FAILED"}
     \/ from = "RUNNING" /\ to \in {"FINALIZING", "RETRY_WAIT", "FAILED"}
     \/ from = "FINALIZING" /\ to \in {"SUCCEEDED", "RETRY_WAIT", "FAILED"}
     \/ from = "RETRY_WAIT" /\ to = "QUEUED"

Failure == {"infrastructure", "exit_error", "timeout", "cancelled"}

\* Mutant: off by one in the comparison with max_attempts.
ShouldRetryOnceMore(policy, completed, failure) ==
  /\ completed <= policy.max_attempts
  /\ \/ failure = "infrastructure"
     \/ failure = "exit_error" /\ policy.retry_exit
     \/ failure = "timeout" /\ policy.retry_timeout

\* should_retry: completed is the generation of the attempt that failed.
ShouldRetry(policy, completed, failure) ==
  /\ completed < policy.max_attempts
  /\ \/ failure = "infrastructure"
     \/ failure = "exit_error" /\ policy.retry_exit
     \/ failure = "timeout" /\ policy.retry_timeout
=============================================================================
