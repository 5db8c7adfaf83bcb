--------------------------- MODULE MCAttemptStore ---------------------------
(***************************************************************************)
(* Small instances of AttemptStore for TLC: one run under every retry      *)
(* policy with two claimants, and two runs that recovery handles together. *)
(***************************************************************************)
EXTENDS AttemptStore, TLC

CONSTANTS i1, i2, m1, m2, k8s, w1

Policy(max_attempts, retry_exit, retry_timeout) ==
  [max_attempts |-> max_attempts, retry_exit |-> retry_exit,
   retry_timeout |-> retry_timeout]

\* A single try, infrastructure failures only, and every failure.
AllPolicies == {Policy(1, TRUE, TRUE), Policy(2, FALSE, FALSE), Policy(2, TRUE, TRUE)}

RetryAll == {Policy(2, TRUE, TRUE)}

OneTryOrAll == {Policy(1, TRUE, TRUE)} \cup RetryAll

Exits == {<<0, "">>, <<1, "">>}

TwoAttempts == 1..2

Symmetry == Permutations({i1, i2})
=============================================================================
