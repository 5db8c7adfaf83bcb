---------------------------- MODULE MCDockerStore ----------------------------
(***************************************************************************)
(* Instances of DockerStore: one worker whose agent is replaced, on the    *)
(* same Docker engine or on another one.                                   *)
(***************************************************************************)
EXTENDS DockerStore, TLC

CONSTANTS w1, e1, e2, g1, g2, g3, i1, m1, k8s

RunSpec(max_attempts, cpu, gpu_count) ==
  [max_attempts |-> max_attempts, retry_exit |-> FALSE, retry_timeout |-> FALSE,
   cpu |-> cpu, gpu_count |-> gpu_count]

AgentOn(w, engine, capable, capacity) ==
  [worker |-> w, engine |-> engine, capable |-> capable, capacity |-> capacity]

\* The worker moves to another engine, or stays and restarts with less capacity.
Replaced == (g1 :> AgentOn(w1, e1, TRUE, 2)) @@ (g2 :> AgentOn(w1, e2, TRUE, 1))
            @@ (g3 :> AgentOn(w1, e1, TRUE, 1))
\* One worker, restarted with less capacity on the same engine.
Restarted == (g1 :> AgentOn(w1, e1, TRUE, 2)) @@ (g2 :> AgentOn(w1, e1, TRUE, 1))
\* The worker moves from an engine without GPU support.
CpuMoved == (g1 :> AgentOn(w1, e1, FALSE, 2)) @@ (g2 :> AgentOn(w1, e2, TRUE, 2))

CpuAndGpu == {RunSpec(1, 1, 0), RunSpec(2, 1, 1)}
Retried == {RunSpec(2, 1, 0), RunSpec(2, 1, 1)}

Success == {<<0, "">>}

OneAttempt == 1..1
TwoAttempts == 1..2
=============================================================================
