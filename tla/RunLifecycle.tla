---------------------------- MODULE RunLifecycle ----------------------------
(***************************************************************************)
(* What the store promises about a run, seen from the API: a status that   *)
(* only moves along transition_allowed, and a number of tries that grows   *)
(* by one with each assignment and never exceeds the run's max_attempts.   *)
(* AttemptStore implements it.                                             *)
(***************************************************************************)
EXTENDS RunModel

CONSTANTS Runs

VARIABLES
  status,     \* status[r]: Absent before submission, then the runs.status column
  tries,      \* tries[r]: attempts assigned so far
  allowance   \* allowance[r]: the max_attempts the run was submitted with

vars == <<status, tries, allowance>>

Init ==
  /\ status = [r \in Runs |-> Absent]
  /\ tries = [r \in Runs |-> 0]
  /\ allowance = [r \in Runs |-> 0]

Submit(r) ==
  /\ status[r] = Absent
  /\ status'[r] = "QUEUED"
  /\ tries'[r] = 0
  /\ allowance'[r] > 0

\* Being assigned is the only move that uses up a try.
Assign(r) ==
  /\ status[r] = "QUEUED"
  /\ status'[r] = "STARTING"
  /\ tries[r] < allowance[r]
  /\ tries'[r] = tries[r] + 1
  /\ allowance'[r] = allowance[r]

\* A run goes to RETRY_WAIT only if a try is left for it.
Move(r) ==
  /\ TransitionAllowed(status[r], status'[r])
  /\ status'[r] # "STARTING"
  /\ status'[r] = "RETRY_WAIT" => tries[r] < allowance[r]
  /\ tries'[r] = tries[r]
  /\ allowance'[r] = allowance[r]

Stay(r) ==
  /\ status'[r] = status[r]
  /\ tries'[r] = tries[r]
  /\ allowance'[r] = allowance[r]

\* One transaction may move several runs (recovery requeues in bulk).
Next == \A r \in Runs : Submit(r) \/ Assign(r) \/ Move(r) \/ Stay(r)

Spec == Init /\ [][Next]_vars
=============================================================================
