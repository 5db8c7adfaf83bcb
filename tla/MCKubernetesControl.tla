------------------------ MODULE MCKubernetesControl ------------------------
(***************************************************************************)
(* Instances of KubernetesControl: one server that crashes and loses its   *)
(* database, and two servers whose leadership overlaps.                    *)
(***************************************************************************)
EXTENDS KubernetesControl, TLC

CONSTANTS i1, m1, m2, k8s

RunPolicy(max_attempts) ==
  [max_attempts |-> max_attempts, retry_exit |-> FALSE, retry_timeout |-> FALSE]

OneTry == {RunPolicy(1)}
TwoTries == {RunPolicy(2)}

Success == {<<0, "">>}

OneAttempt == 1..1
TwoAttempts == 1..2
=============================================================================
