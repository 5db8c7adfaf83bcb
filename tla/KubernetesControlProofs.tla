----------------------- MODULE KubernetesControlProofs -----------------------
(***************************************************************************)
(* The Kubernetes controller, with any number of servers that believe they *)
(* lead and whatever the cluster does, implements AttemptStore; hence the  *)
(* consistency proved of the store holds of a Kubernetes deployment.       *)
(***************************************************************************)
EXTENDS KubernetesControl, AttemptStoreProofs, FiniteSetTheorems

-----------------------------------------------------------------------------
(* Types *)

ClusterOK ==
  /\ job \in [AttemptIds -> {"absent", "active", "finished", "deleting"}]
  /\ pod \in [AttemptIds -> BOOLEAN]
  /\ inflight \in [AttemptIds -> BOOLEAN]

LeaderOK ==
  /\ ready \in [Servers -> BOOLEAN]
  /\ link \in [Servers -> {"none", "open", "broken"}]
  /\ holder \in Servers \cup {None}

\* The local variables of one tick.
TickOK(t) ==
  /\ t \in TickState
  /\ t.pc \in {"launch", "launched"} => t.current \in AttemptIds
  /\ t.pc = "commit" => t.current \in DOMAIN t.plan

TicksOK ==
  /\ tick \in [Servers -> TickState]
  /\ \A m \in Servers : TickOK(tick[m])

LEMMA TypeParts ==
  KubernetesTypeOK <=> /\ runtime \in [AttemptIds -> BOOLEAN]
                       /\ TicksOK /\ LeaderOK /\ ClusterOK
  BY DEF KubernetesTypeOK, TicksOK, TickOK, LeaderOK, ClusterOK

LEMMA SetKeepsTicks ==
  ASSUME TicksOK, NEW m \in Servers, NEW t, TickOK(t), Set(m, t)
  PROVE  TicksOK'
  <1>1. tick' \in [Servers -> TickState]
    BY DEF Set, TicksOK, TickOK
  <1>2. \A n \in Servers : tick'[n] = IF n = m THEN t ELSE tick[n]
    BY DEF Set, TicksOK
  <1>3. \A n \in Servers : TickOK(tick'[n])
    BY <1>2 DEF TicksOK
  <1> QED BY <1>1, <1>3 DEF TicksOK, TickOK

\* The list of a tick, as it is read and as its entries are dealt with.
LEMMA PlanType ==
  ASSUME NEW S \in SUBSET AttemptIds, NEW f(_),
         \A a \in S : f(a) \in {"remove", "launch", "watch"}
  PROVE  [a \in S |-> f(a)] \in Plans
  <1>1. [a \in S |-> f(a)] \in [S -> {"remove", "launch", "watch"}]
    OBVIOUS
  <1> QED BY <1>1 DEF Plans

LEMMA WithoutType ==
  ASSUME TicksOK, NEW m \in Servers, NEW a
  PROVE  Without(m, a) \in Plans
  <1>1. tick[m].plan \in Plans
    BY DEF TicksOK, TickState
  <1>2. PICK S \in SUBSET AttemptIds :
          tick[m].plan \in [S -> {"remove", "launch", "watch"}]
    BY <1>1 DEF Plans
  <1>3. Without(m, a) \in [S \ {a} -> {"remove", "launch", "watch"}]
    BY <1>2 DEF Without
  <1>4. S \ {a} \in SUBSET AttemptIds
    OBVIOUS
  <1> QED BY <1>3, <1>4 DEF Plans

LEMMA PlanDomain ==
  ASSUME TicksOK, NEW m \in Servers
  PROVE  DOMAIN tick[m].plan \subseteq AttemptIds
  <1>1. tick[m].plan \in Plans
    BY DEF TicksOK, TickState
  <1> QED BY <1>1 DEF Plans

LEMMA IdleOK == ASSUME KubernetesAssumption PROVE TickOK(Idle)
  <1>1. << >> \in Plans
    <2>1. << >> \in [{} -> {"remove", "launch", "watch"}]
      OBVIOUS
    <2> QED BY <2>1 DEF Plans
  <1>2. Idle \in TickState
    BY <1>1 DEF Idle, TickState, KubernetesAssumption
  <1> QED BY <1>2 DEF Idle, TickOK

\* A tick goes on to another step, with another list or another attempt.
LEMMA ListMoves ==
  ASSUME NEW t, TickOK(t), NEW plan \in Plans
  PROVE  /\ t.pc # "commit" => TickOK([t EXCEPT !.plan = plan])
         /\ TickOK([t EXCEPT !.pc = "inventory", !.plan = plan])
         /\ TickOK([t EXCEPT !.pc = "attempts", !.current = None, !.plan = plan])
  BY DEF TickOK, TickState

LEMMA OrphansMove ==
  ASSUME NEW t, TickOK(t), NEW orphans \in SUBSET AttemptIds,
         NEW pc \in {"attempts", "orphans"}
  PROVE  TickOK([t EXCEPT !.orphans = orphans, !.pc = pc])
  BY DEF TickOK, TickState

LEMMA CurrentMoves ==
  ASSUME NEW t, TickOK(t)
  PROVE  /\ \A a \in DOMAIN t.plan :
              a \in AttemptIds => TickOK([t EXCEPT !.pc = "commit", !.current = a])
         /\ t.current \in AttemptIds => TickOK([t EXCEPT !.pc = "launched"])
         /\ TickOK([t EXCEPT !.pc = "attempts", !.current = None])
  BY DEF TickOK, TickState

LEMMA AdmissionMoves ==
  ASSUME NEW t, TickOK(t), NEW a \in AttemptIds, NEW n \in 0..AdmitBatch
  PROVE  TickOK([t EXCEPT !.pc = "launch", !.current = a, !.admitted = n])
  BY DEF TickOK, TickState

\* What the backend's calls leave in the cluster.
LEMMA CallsType ==
  ASSUME ClusterOK, NEW a \in AttemptIds,
         Ensure(a) \/ EnsureFails(a) \/ Remove(a) \/ RemoveFails(a)
  PROVE  ClusterOK'
  <1>1. CASE Ensure(a)
    BY <1>1 DEF ClusterOK, Ensure
  <1>2. CASE EnsureFails(a)
    BY <1>2 DEF ClusterOK, EnsureFails, Ensure, clusterVars
  <1>3. CASE Remove(a)
    BY <1>3 DEF ClusterOK, Remove
  <1>4. CASE RemoveFails(a)
    BY <1>4 DEF ClusterOK, RemoveFails
  <1> QED BY <1>1, <1>2, <1>3, <1>4

\* Each step of a dispatch thread keeps the types.
LEMMA TickTypes ==
  ASSUME KubernetesAssumption, KubernetesTypeOK, NEW m \in Servers, Tick(m)
  PROVE  KubernetesTypeOK'
  <1> DEFINE t == tick[m]
  <1>1. TicksOK /\ LeaderOK /\ ClusterOK /\ runtime \in [AttemptIds -> BOOLEAN]
    BY TypeParts
  <1>2. TickOK(t) /\ TickOK(Idle)
    BY <1>1, IdleOK DEF TicksOK
  <1>3. SUFFICES /\ \E u : TickOK(u) /\ Set(m, u)
                 /\ LeaderOK' /\ ClusterOK' /\ runtime' \in [AttemptIds -> BOOLEAN]
    <2> HIDE DEF t
    <2>1. TicksOK'
      BY <1>1, <1>3, SetKeepsTicks
    <2> QED BY <1>3, <2>1, TypeParts DEF KubernetesTypeOK, TicksOK, TickOK, LeaderOK, ClusterOK
  <1>4. UNCHANGED leaderVars => LeaderOK'
    BY <1>1 DEF LeaderOK, leaderVars
  <1>5. UNCHANGED clusterVars => ClusterOK'
    BY <1>1 DEF ClusterOK, clusterVars
  <1>6. UNCHANGED runtime => runtime' \in [AttemptIds -> BOOLEAN]
    BY <1>1
  <1>7. \A a : Without(m, a) \in Plans
    BY <1>1, WithoutType
  <1> HIDE DEF t
  <1>8. CASE TickRead(m)
    <2> DEFINE plan == [a \in Pending(Kubernetes) |-> PlanFor(a)]
    <2>1. Pending(Kubernetes) \in SUBSET AttemptIds
      BY DEF Pending
    <2>2. \A a \in Pending(Kubernetes) : PlanFor(a) \in {"remove", "launch", "watch"}
      BY DEF PlanFor
    <2>3. plan \in Plans
      BY <2>1, <2>2 DEF Plans
    <2> HIDE DEF plan
    <2>4. TickOK([Idle EXCEPT !.pc = "inventory", !.plan = plan])
      BY <1>2, <2>3, ListMoves
    <2> QED BY <1>4, <1>5, <1>6, <1>8, <2>4 DEF TickRead, plan
  <1>9. CASE TickInventory(m)
    <2>1. Orphans(m) \in SUBSET AttemptIds
      BY DEF Orphans
    <2>2. TickOK([t EXCEPT !.orphans = Orphans(m),
                    !.pc = IF Orphans(m) = {} THEN "attempts" ELSE "orphans"])
      BY <1>2, <2>1, OrphansMove
    <2> QED BY <1>4, <1>5, <1>6, <1>9, <2>2 DEF TickInventory, t
  <1>10. ASSUME NEW a \in AttemptIds, TickOrphan(m, a)
         PROVE  /\ \E u : TickOK(u) /\ Set(m, u)
                /\ LeaderOK' /\ ClusterOK' /\ runtime' \in [AttemptIds -> BOOLEAN]
    <2> DEFINE rest == t.orphans \ {a}
    <2>1. ClusterOK'
      BY <1>1, <1>10, CallsType DEF TickOrphan
    <2>2. rest \in SUBSET AttemptIds
      BY <1>2 DEF TickOK, TickState
    <2>3. TickOK([t EXCEPT !.orphans = rest,
                    !.pc = IF rest = {} THEN "attempts" ELSE "orphans"])
      BY <1>2, <2>2, OrphansMove
    <2>4. \E u : TickOK(u) /\ Set(m, u)
      BY <1>2, <1>10, <2>3 DEF TickOrphan, t
    <2> QED BY <1>4, <1>6, <1>10, <2>1, <2>4 DEF TickOrphan
  <1>11. ASSUME NEW a \in AttemptIds, TickAttempt(m, a)
         PROVE  /\ \E u : TickOK(u) /\ Set(m, u)
                /\ LeaderOK' /\ ClusterOK' /\ runtime' \in [AttemptIds -> BOOLEAN]
    <2>1. ClusterOK'
      BY <1>1, <1>5, <1>11, CallsType DEF TickAttempt
    <2>2. a \in DOMAIN t.plan /\ t.pc = "attempts"
      BY <1>11 DEF TickAttempt, t
    <2>3. TickOK([t EXCEPT !.pc = "commit", !.current = a])
      BY <1>2, <2>2, CurrentMoves
    <2>4. TickOK([t EXCEPT !.plan = Without(m, a)])
      BY <1>2, <1>7, <2>2, ListMoves
    <2>5. \E u : TickOK(u) /\ Set(m, u)
      BY <1>11, <2>3, <2>4 DEF TickAttempt, t
    <2> QED BY <1>4, <1>6, <1>11, <2>1, <2>5 DEF TickAttempt
  <1>12. t.pc = "commit" => t.current \in AttemptIds
    BY <1>1, <1>2, PlanDomain DEF TickOK, t
  <1>13. CASE TickCommit(m)
    <2>1. t.current \in AttemptIds
      BY <1>12, <1>13 DEF TickCommit, t
    <2>2. TickOK([t EXCEPT !.pc = "attempts", !.current = None,
                           !.plan = Without(m, t.current)])
      BY <1>2, <1>7, <2>1, ListMoves
    <2>3. runtime' \in [AttemptIds -> BOOLEAN]
      BY <1>1, <1>13, <2>1 DEF TickCommit, t
    <2> QED BY <1>4, <1>5, <1>13, <2>2, <2>3 DEF TickCommit, t
  <1>14. ASSUME NEW r \in Runs, NEW a \in AttemptIds, TickAdmit(m, r, a)
         PROVE  /\ \E u : TickOK(u) /\ Set(m, u)
                /\ LeaderOK' /\ ClusterOK' /\ runtime' \in [AttemptIds -> BOOLEAN]
    <2>1. t.admitted + 1 \in 0..AdmitBatch
      BY <1>2, <1>14 DEF TickAdmit, TickOK, TickState, KubernetesAssumption, t
    <2>2. TickOK([t EXCEPT !.pc = "launch", !.current = a,
                           !.admitted = t.admitted + 1])
      BY <1>2, <2>1, AdmissionMoves
    <2>3. Set(m, [t EXCEPT !.pc = "launch", !.current = a,
                           !.admitted = t.admitted + 1])
      BY <1>14 DEF TickAdmit, t
    <2> QED BY <1>4, <1>5, <1>6, <1>14, <2>2, <2>3 DEF TickAdmit
  <1>15. CASE TickLaunch(m)
    <2>1. t.current \in AttemptIds
      BY <1>2, <1>15 DEF TickLaunch, TickOK, t
    <2>2. ClusterOK'
      BY <1>1, <1>15, <2>1, CallsType DEF TickLaunch, t
    <2>3. TickOK([t EXCEPT !.pc = "launched"])
      BY <1>2, <2>1, CurrentMoves
    <2> QED BY <1>2, <1>4, <1>6, <1>15, <2>2, <2>3 DEF TickLaunch, t
  <1>16. CASE TickLaunched(m)
    <2>1. t.current \in AttemptIds
      BY <1>2, <1>16 DEF TickLaunched, TickOK, t
    <2>2. TickOK([t EXCEPT !.pc = "attempts", !.current = None])
      BY <1>2, <2>1, CurrentMoves
    <2>3. runtime' \in [AttemptIds -> BOOLEAN]
      BY <1>1, <1>16, <2>1 DEF TickLaunched, t
    <2> QED BY <1>4, <1>5, <1>16, <2>2, <2>3 DEF TickLaunched, t
  <1>17. CASE TickEnd(m)
    BY <1>2, <1>4, <1>5, <1>6, <1>17 DEF TickEnd
  <1>18. CASE TickFails(m)
    <2>1. CASE t.pc = "commit"
      <3>1. t.current \in AttemptIds
        BY <1>12, <2>1
      <3>2. TickOK([t EXCEPT !.pc = "attempts", !.current = None,
                             !.plan = Without(m, t.current)])
        BY <1>2, <1>7, <3>1, ListMoves
      <3> QED BY <1>2, <1>4, <1>5, <1>6, <1>18, <3>2 DEF TickFails, t
    <2>2. CASE t.pc # "commit"
      BY <1>2, <1>4, <1>5, <1>6, <1>18, <2>2 DEF TickFails, t
    <2> QED BY <2>1, <2>2
  <1> QED BY <1>8, <1>9, <1>10, <1>11, <1>13, <1>14, <1>15, <1>16, <1>17, <1>18 DEF Tick

\* Leadership comes and goes.
LEMMA LeaderTypes ==
  ASSUME KubernetesAssumption, KubernetesTypeOK, NEW m \in Servers, Leader(m)
  PROVE  KubernetesTypeOK'
  <1>1. TicksOK /\ LeaderOK /\ ClusterOK /\ runtime \in [AttemptIds -> BOOLEAN]
    BY TypeParts
  <1>2. ClusterOK' /\ runtime' \in [AttemptIds -> BOOLEAN]
    BY <1>1 DEF Leader, Refresh, RefreshFails, LinkBreaks, Crash,
                ClusterOK, clusterVars
  <1>3. LeaderOK'
    <2>1. CASE Refresh(m) BY <1>1, <2>1 DEF Refresh, LeaderOK
    <2>2. CASE RefreshFails(m) BY <1>1, <2>2 DEF RefreshFails, LeaderOK
    <2>3. CASE LinkBreaks(m) BY <1>1, <2>3 DEF LinkBreaks, LeaderOK
    <2>4. CASE Crash(m) BY <1>1, <2>4 DEF Crash, LeaderOK
    <2> QED BY <2>1, <2>2, <2>3, <2>4 DEF Leader
  <1>4. TicksOK'
    <2>1. CASE Crash(m)
      <3>1. Set(m, Idle)
        BY <2>1 DEF Crash, Set
      <3> QED BY <1>1, <3>1, IdleOK, SetKeepsTicks
    <2>2. CASE ~Crash(m)
      <3>1. tick' = tick
        BY <2>2 DEF Leader, Refresh, RefreshFails, LinkBreaks
      <3> QED BY <1>1, <3>1 DEF TicksOK, TickOK
    <2> QED BY <2>1, <2>2
  <1> QED BY <1>2, <1>3, <1>4 DEF KubernetesTypeOK, TicksOK, TickOK, LeaderOK, ClusterOK

LEMMA ClusterTypes ==
  ASSUME KubernetesTypeOK, NEW a \in AttemptIds, Cluster(a)
  PROVE  KubernetesTypeOK'
  <1>1. TicksOK /\ LeaderOK /\ ClusterOK /\ runtime \in [AttemptIds -> BOOLEAN]
    BY TypeParts
  <1>2. ClusterOK'
    <2>1. CASE PodStarts(a) BY <1>1, <2>1 DEF PodStarts, ClusterOK
    <2>2. CASE JobFinishes(a) BY <1>1, <2>2 DEF JobFinishes, ClusterOK
    <2>3. CASE JobLost(a) BY <1>1, <2>3 DEF JobLost, ClusterOK
    <2>4. CASE Collected(a) BY <1>1, <2>4 DEF Collected, ClusterOK
    <2>5. CASE LateCreate(a) BY <1>1, <2>5 DEF LateCreate, ClusterOK
    <2> QED BY <2>1, <2>2, <2>3, <2>4, <2>5 DEF Cluster
  <1>3. UNCHANGED <<runtime, tick, ready, link, holder>>
    BY DEF Cluster, PodStarts, JobFinishes, JobLost, Collected, LateCreate, leaderVars
  <1>4. TicksOK' /\ LeaderOK' /\ runtime' \in [AttemptIds -> BOOLEAN]
    BY <1>1, <1>3 DEF TicksOK, TickOK, LeaderOK
  <1> QED BY <1>2, <1>4 DEF KubernetesTypeOK, TicksOK, TickOK, LeaderOK, ClusterOK

\* Whatever fails, a tick never records or launches anything but for an
\* attempt of its list or the one it admitted (KubernetesController::tick).
THEOREM KubernetesTypeCorrect == KubernetesSpec => []KubernetesTypeOK
  <1> USE KubernetesAssumption
  <1>1. KubernetesInit => KubernetesTypeOK
    <2> SUFFICES ASSUME KubernetesInit PROVE KubernetesTypeOK
      OBVIOUS
    <2>1. TickOK(Idle)
      BY IdleOK
    <2>2. TicksOK
      BY <2>1 DEF KubernetesInit, TicksOK, TickOK
    <2>3. LeaderOK /\ ClusterOK /\ runtime \in [AttemptIds -> BOOLEAN]
      BY DEF KubernetesInit, LeaderOK, ClusterOK
    <2> QED BY <2>2, <2>3, TypeParts
  <1>2. KubernetesTypeOK /\ [KubernetesNext]_vars => KubernetesTypeOK'
    <2> SUFFICES ASSUME KubernetesTypeOK, [KubernetesNext]_vars
                 PROVE  KubernetesTypeOK'
      OBVIOUS
    <2>1. CASE UNCHANGED kubernetesVars
      BY <2>1 DEF KubernetesTypeOK, kubernetesVars
    <2>2. UNCHANGED vars => UNCHANGED kubernetesVars
      BY DEF vars, kubernetesVars
    <2> QED BY <2>1, <2>2, TickTypes, LeaderTypes, ClusterTypes DEF KubernetesNext
  <1> QED BY <1>1, <1>2, PTL DEF KubernetesSpec

\* However many servers there are, at most one of those whose session is
\* intact leads (Leadership::refresh).
THEOREM LockDecides == KubernetesSpec => []LeaderHoldsLock
  <1> USE KubernetesAssumption
  <1>1. KubernetesInit => LeaderHoldsLock
    BY DEF KubernetesInit, LeaderHoldsLock
  <1>2. KubernetesTypeOK /\ LeaderHoldsLock /\ [KubernetesNext]_vars => LeaderHoldsLock'
    <2> SUFFICES ASSUME KubernetesTypeOK, LeaderHoldsLock, [KubernetesNext]_vars
                 PROVE  LeaderHoldsLock'
      OBVIOUS
    <2>0. LeaderOK
      BY TypeParts
    <2>1. CASE UNCHANGED leaderVars
      BY <2>1 DEF LeaderHoldsLock, leaderVars
    <2>2. ASSUME NEW m \in Servers, Leader(m)
          PROVE  LeaderHoldsLock'
      <3>1. CASE Refresh(m)
        BY <2>0, <3>1 DEF Refresh, LeaderOK, LeaderHoldsLock, KubernetesAssumption
      <3>2. CASE RefreshFails(m)
        BY <2>0, <3>2 DEF RefreshFails, LeaderOK, LeaderHoldsLock
      <3>3. CASE LinkBreaks(m)
        BY <2>0, <3>3 DEF LinkBreaks, LeaderOK, LeaderHoldsLock
      <3>4. CASE Crash(m)
        BY <2>0, <3>4 DEF Crash, LeaderOK, LeaderHoldsLock
      <3> QED BY <2>2, <3>1, <3>2, <3>3, <3>4 DEF Leader
    <2>3. ASSUME NEW m \in Servers, Tick(m)
          PROVE  UNCHANGED leaderVars
      <3>1. ASSUME NEW a \in AttemptIds, TickOrphan(m, a) \/ TickAttempt(m, a)
            PROVE  UNCHANGED leaderVars
        BY <3>1 DEF TickOrphan, TickAttempt
      <3>2. ASSUME NEW r \in Runs, NEW a \in AttemptIds, TickAdmit(m, r, a)
            PROVE  UNCHANGED leaderVars
        BY <3>2 DEF TickAdmit
      <3>3. TickRead(m) \/ TickInventory(m) \/ TickCommit(m) \/ TickLaunch(m)
            \/ TickLaunched(m) \/ TickEnd(m) \/ TickFails(m) => UNCHANGED leaderVars
        BY DEF TickRead, TickInventory, TickCommit, TickLaunch, TickLaunched, TickEnd,
               TickFails
      <3> QED BY <2>3, <3>1, <3>2, <3>3 DEF Tick
    <2>4. ASSUME NEW a \in AttemptIds, Cluster(a)
          PROVE  UNCHANGED leaderVars
      BY <2>4 DEF Cluster, PodStarts, JobFinishes, JobLost, Collected, LateCreate
    <2>5. UNCHANGED kubernetesVars \/ UNCHANGED vars => UNCHANGED leaderVars
      BY DEF kubernetesVars, vars, leaderVars
    <2> QED BY <2>1, <2>2, <2>3, <2>4, <2>5 DEF KubernetesNext
  <1> QED BY <1>1, <1>2, KubernetesTypeCorrect, PTL DEF KubernetesSpec

-----------------------------------------------------------------------------
(* Refinement *)

\* Each step of a dispatch thread is a transaction of the store or leaves
\* the store alone.
LEMMA TickImplements ==
  ASSUME KubernetesAssumption, KubernetesTypeOK, NEW m \in Servers, Tick(m)
  PROVE  [Next]_storeVars
  <1>1. CASE TickRead(m)
    BY <1>1 DEF TickRead
  <1>2. CASE TickInventory(m)
    BY <1>2 DEF TickInventory
  <1>3. ASSUME NEW a \in AttemptIds, TickOrphan(m, a)
        PROVE  [Next]_storeVars
    BY <1>3 DEF TickOrphan
  <1>4. ASSUME NEW a \in AttemptIds, TickAttempt(m, a)
        PROVE  [Next]_storeVars
    BY <1>4 DEF TickAttempt
  <1>5. CASE TickCommit(m)
    <2>1. tick[m].current \in AttemptIds
      BY <1>5, PlanDomain, TypeParts DEF TickCommit, TicksOK, TickOK
    <2> QED BY <1>5, <2>1 DEF TickCommit, Next
  <1>6. ASSUME NEW r \in Runs, NEW a \in AttemptIds, TickAdmit(m, r, a)
        PROVE  [Next]_storeVars
    BY <1>6 DEF TickAdmit, KubernetesAssumption, Next
  <1>7. CASE TickLaunch(m)
    BY <1>7 DEF TickLaunch
  <1>8. CASE TickLaunched(m)
    BY <1>8 DEF TickLaunched
  <1>9. CASE TickEnd(m)
    BY <1>9 DEF TickEnd
  <1>10. CASE TickFails(m)
    BY <1>10 DEF TickFails
  <1> QED BY <1>1, <1>2, <1>3, <1>4, <1>5, <1>6, <1>7, <1>8, <1>9, <1>10 DEF Tick

\* recover() keeps its candidates only while it deals with them.
IdleForgets ==
  \A m \in Servers : monitor[m].pc # "candidates" => monitor[m].todo = {}

LEMMA IdleForgetsStep ==
  ASSUME TypeOK, IdleForgets, [Next]_storeVars
  PROVE  IdleForgets'
  <1>1. CASE monitor' = monitor
    BY <1>1 DEF IdleForgets
  <1>2. CASE monitor' # monitor
    <2>1. PICK k \in Servers : Recover(k) \/ RecoverAbort(k)
      BY <1>2, OnlyMonitorRemembers
    <2>2. monitor \in [Servers -> [pc : {"requeue", "scan", "candidates"},
                                   todo : SUBSET AttemptIds]]
      BY DEF TypeOK
    <2>3. CASE RecoverRequeue(k)
      BY <2>2, <2>3 DEF RecoverRequeue, IdleForgets
    <2>4. CASE RecoverScan(k)
      BY <2>2, <2>4 DEF RecoverScan, IdleForgets
    <2>5. ASSUME NEW a \in AttemptIds, RecoverCandidate(k, a)
          PROVE  IdleForgets'
      BY <2>2, <2>5 DEF RecoverCandidate, IdleForgets
    <2>6. CASE RecoverAbort(k)
      BY <2>2, <2>6 DEF RecoverAbort, IdleForgets
    <2> QED BY <2>1, <2>3, <2>4, <2>5, <2>6 DEF Recover
  <1> QED BY <1>1, <1>2

\* A crash cuts recover() short; otherwise leadership does not touch the store.
LEMMA LeaderImplements ==
  ASSUME TypeOK, IdleForgets, NEW m \in Servers, Leader(m)
  PROVE  [Next]_storeVars
  <1>1. CASE Crash(m)
    <2>1. CASE monitor[m].pc # "requeue"
      <3>1. RecoverAbort(m)
        BY <1>1, <2>1 DEF Crash, RecoverAbort
      <3> QED BY <3>1 DEF Next
    <2>2. CASE monitor[m].pc = "requeue"
      <3>1. monitor[m] \in [pc : {"requeue", "scan", "candidates"},
                            todo : SUBSET AttemptIds]
        BY DEF TypeOK
      <3>2. monitor[m] = [pc |-> "requeue", todo |-> {}]
        BY <2>2, <3>1 DEF IdleForgets
      <3>3. monitor' = monitor
        BY <1>1, <3>2 DEF Crash, TypeOK
      <3> QED BY <1>1, <3>3 DEF Crash, storeVars
    <2> QED BY <2>1, <2>2
  <1>2. CASE ~Crash(m)
    BY <1>2 DEF Leader, Refresh, RefreshFails, LinkBreaks
  <1> QED BY <1>1, <1>2

LEMMA ControllerStep ==
  ASSUME KubernetesAssumption, KubernetesTypeOK, TypeOK, IdleForgets,
         [KubernetesNext]_vars
  PROVE  [Next]_storeVars
  <1>1. ASSUME NEW a \in AttemptIds, Cluster(a)
        PROVE  [Next]_storeVars
    BY <1>1 DEF Cluster, PodStarts, JobFinishes, JobLost, Collected, LateCreate
  <1>2. CASE Unplaced
    BY <1>2 DEF Unplaced, Next
  <1>3. CASE UNCHANGED vars
    BY <1>3 DEF vars, storeVars
  <1> QED BY <1>1, <1>2, <1>3, TickImplements, LeaderImplements DEF KubernetesNext

\* The controller implements the store: whatever servers, cluster and lost
\* calls do, every step of tick() and refresh() is a transaction of
\* AttemptStore or leaves its rows alone.
THEOREM ControllerImplementsStore == KubernetesSpec => ImplementsAttemptStore
  <1> USE KubernetesAssumption, StoreAssumption
  <1> DEFINE Inv == TypeOK /\ StoreInv /\ IdleForgets
  <1>1. KubernetesInit => Init /\ Inv
    <2>1. Init => IdleForgets
      BY DEF Init, IdleForgets
    <2> QED BY <2>1, TypeInit, StoreInit DEF KubernetesInit
  <1>2. KubernetesTypeOK /\ Inv /\ [KubernetesNext]_vars => [Next]_storeVars /\ Inv'
    BY ControllerStep, StoreStep, IdleForgetsStep
  <1> QED BY <1>1, <1>2, KubernetesTypeCorrect, PTL DEF KubernetesSpec, ImplementsAttemptStore, Spec

\* Hence the rows of a Kubernetes deployment are consistent at all times,
\* also while two servers dispatch at once.
THEOREM KubernetesConsistent == KubernetesSpec => []StoreInv
  BY ControllerImplementsStore, StoreConsistent, PTL DEF ImplementsAttemptStore

\* And what the coordinator has told is kept, however many servers dispatch
\* and whatever the cluster does (ownership.cpp, recovery.cpp, control.cpp).
THEOREM ControllerKeepsHistory ==
  KubernetesSpec => /\ [](SingleClaimant /\ AcceptedIsRecorded /\ EventsTellStatus)
                    /\ OutcomeIsFinal /\ ExpiredLeaseIsFinal
                    /\ ImplementsLifecycle
  BY ControllerImplementsStore, OneClaimant, AcceptedStays, EventsTell, DecisionsAreFinal,
     ExpiredStays, StoreRefinesLifecycle, PTL DEF ImplementsAttemptStore

-----------------------------------------------------------------------------
(* The admission limit *)

\* An attempt that counts after a step counted before it.
Counted(a) ==
  /\ attempt'[a].status # Absent => attempt[a].status # Absent
  /\ attempt'[a].worker = attempt[a].worker
  /\ attempt'[a].cleanup = "PENDING" => attempt[a].cleanup = "PENDING"

\* Nothing but an admission makes an attempt count.
LEMMA PlaceKeptCounts ==
  ASSUME NEW a, PlaceKept(a)
  PROVE  Counted(a)
  BY DEF PlaceKept, SameColumns, Counted

\* Transactions outside the controller leave attempts where they are.
LEMMA UnplacedKeepsPlace ==
  ASSUME TypeOK, StoreInv, Unplaced
  PROVE  \A b \in AttemptIds : PlaceKept(b)
  BY SettledKeepsPlace DEF Unplaced, Settled

\* A step of the controller that is not an admission does not either.
LEMMA ControllerStillCounts ==
  ASSUME KubernetesAssumption, KubernetesTypeOK, TypeOK, StoreInv,
         [KubernetesNext]_vars,
         \A m \in Servers, r \in Runs, a \in AttemptIds : ~TickAdmit(m, r, a)
  PROVE  \A b \in AttemptIds : Counted(b)
  <1>1. CASE UNCHANGED attempt
    BY <1>1 DEF Counted
  <1>2. ASSUME NEW m \in Servers, TickCommit(m)
        PROVE  \A b \in AttemptIds : Counted(b)
    <2> DEFINE a == tick[m].current
    <2>1. a \in AttemptIds
      BY <1>2, PlanDomain, TypeParts DEF TickCommit, TicksOK, TickOK
    <2>2. CleanupDone(a) \/ RuntimeStopped(a) \/ UNCHANGED attempt
      BY <1>2 DEF TickCommit, storeVars
    <2> HIDE DEF a
    <2>3. CASE CleanupDone(a)
      <3>1. attempt' = [attempt EXCEPT ![a].cleanup = "DONE"] /\ Exists(a)
        BY <2>3 DEF CleanupDone
      <3>2. attempt[a] \in AttemptRow
        BY <2>1 DEF TypeOK
      <3>3. \A b \in AttemptIds \ {a} : attempt'[b] = attempt[b]
        BY <3>1 DEF TypeOK
      <3>4. attempt'[a] = [attempt[a] EXCEPT !.cleanup = "DONE"]
        BY <2>1, <3>1 DEF TypeOK
      <3> QED BY <3>1, <3>2, <3>3, <3>4 DEF Counted, Exists, AttemptRow
    <2>4. CASE RuntimeStopped(a)
      <3>1. /\ Exists(a)
            /\ \/ Fail(a, "timeout", "TIMEOUT", None)
               \/ Fail(a, "infrastructure", "RUNTIME_STOPPED", None)
        BY <2>4 DEF RuntimeStopped
      <3> QED BY <2>1, <3>1, FailKeepsPlace, PlaceKeptCounts
    <2> QED BY <1>1, <2>2, <2>3, <2>4
  <1>3. ASSUME NEW m \in Servers, Tick(m), ~TickCommit(m)
        PROVE  UNCHANGED attempt
    <2>1. ASSUME NEW a \in AttemptIds, TickOrphan(m, a) \/ TickAttempt(m, a)
          PROVE  UNCHANGED attempt
      BY <2>1 DEF TickOrphan, TickAttempt, storeVars
    <2>2. TickRead(m) \/ TickInventory(m) \/ TickLaunch(m) \/ TickLaunched(m)
          \/ TickEnd(m) \/ TickFails(m) => UNCHANGED attempt
      BY DEF TickRead, TickInventory, TickLaunch, TickLaunched, TickEnd, TickFails,
             storeVars
    <2> QED BY <1>3, <2>1, <2>2 DEF Tick
  <1>4. ASSUME NEW m \in Servers, Leader(m)
        PROVE  UNCHANGED attempt
    BY <1>4 DEF Leader, Refresh, RefreshFails, LinkBreaks, Crash,
                storeVars
  <1>5. ASSUME NEW a \in AttemptIds, Cluster(a)
        PROVE  UNCHANGED attempt
    BY <1>5 DEF Cluster, PodStarts, JobFinishes, JobLost, Collected, LateCreate, storeVars
  <1>6. UNCHANGED vars => UNCHANGED attempt
    BY DEF vars
  <1> QED BY <1>1, <1>2, <1>3, <1>4, <1>5, <1>6, UnplacedKeepsPlace, PlaceKeptCounts
         DEF KubernetesNext

\* The count of admit_kubernetes is a count: only finitely many attempts
\* await cleanup.
Bounded == IsFiniteSet(Pending(Kubernetes)) /\ AdmissionBounded

\* One more element raises a cardinality by at most one.
LEMMA SmallerCount ==
  ASSUME NEW S, NEW T, NEW n \in Nat, IsFiniteSet(S), T \subseteq S, Cardinality(S) <= n
  PROVE  IsFiniteSet(T) /\ Cardinality(T) <= n
  <1>1. IsFiniteSet(T) /\ Cardinality(T) <= Cardinality(S)
    BY FS_Subset
  <1>2. Cardinality(S) \in Nat /\ Cardinality(T) \in Nat
    BY <1>1, FS_CardinalityType
  <1> QED BY <1>1, <1>2

LEMMA OneMoreCount ==
  ASSUME NEW S, NEW x, NEW n \in Nat, IsFiniteSet(S), Cardinality(S) < n
  PROVE  IsFiniteSet(S \cup {x}) /\ Cardinality(S \cup {x}) <= n
  <1>1. Cardinality(S) \in Nat
    BY FS_CardinalityType
  <1>2. CASE x \in S
    <2>1. S \cup {x} = S
      BY <1>2
    <2> QED BY <1>1, <2>1
  <1>3. CASE x \notin S
    <2>1. IsFiniteSet(S \cup {x}) /\ Cardinality(S \cup {x}) = Cardinality(S) + 1
      BY <1>3, FS_AddElement
    <2> QED BY <1>1, <2>1
  <1> QED BY <1>2, <1>3

LEMMA BoundedStep ==
  ASSUME KubernetesAssumption, KubernetesTypeOK, TypeOK, StoreInv, Bounded,
         [KubernetesNext]_vars
  PROVE  Bounded'
  <1> DEFINE P == Pending(Kubernetes)
  <1>0. MaxActive \in Nat /\ IsFiniteSet(P) /\ Cardinality(P) <= MaxActive
    BY DEF KubernetesAssumption, Bounded, AdmissionBounded
  <1>1. SUFFICES IsFiniteSet(P') /\ Cardinality(P') <= MaxActive
    BY DEF Bounded, AdmissionBounded
  <1>2. ASSUME NEW m \in Servers, NEW r \in Runs, NEW a \in AttemptIds,
               TickAdmit(m, r, a)
        PROVE  IsFiniteSet(P') /\ Cardinality(P') <= MaxActive
    <2>1. Cardinality(P) < MaxActive
      BY <1>2 DEF TickAdmit, Room
    <2>2. \A b \in AttemptIds \ {a} : attempt'[b] = attempt[b]
      BY <1>2 DEF TickAdmit, Place, TypeOK
    <2>3. P' \subseteq P \cup {a}
      BY <2>2 DEF Pending, Exists
    <2> HIDE DEF P
    <2>4. IsFiniteSet(P \cup {a}) /\ Cardinality(P \cup {a}) <= MaxActive
      BY <1>0, <2>1, OneMoreCount
    <2> QED BY <1>0, <2>3, <2>4, SmallerCount
  <1>3. CASE \A m \in Servers, r \in Runs, a \in AttemptIds : ~TickAdmit(m, r, a)
    <2>1. \A b \in AttemptIds : Counted(b)
      BY <1>3, ControllerStillCounts
    <2>2. P' \subseteq P
      BY <2>1 DEF Counted, Pending, Exists
    <2> HIDE DEF P
    <2> QED BY <1>0, <2>2, SmallerCount
  <1> QED BY <1>2, <1>3

\* RUNYARD_MAX_ACTIVE_JOBS holds at all times, for any number of servers
\* that dispatch at once: the lock of admit_kubernetes, not leadership,
\* carries it.
THEOREM AdmissionLimited == KubernetesSpec => []AdmissionBounded
  <1> USE KubernetesAssumption, StoreAssumption
  <1>1. KubernetesInit => Bounded
    <2> SUFFICES ASSUME KubernetesInit PROVE Bounded
      OBVIOUS
    <2>1. NoAttempt.status = Absent
      BY Zenon DEF NoAttempt
    <2>2. \A a \in AttemptIds : attempt[a] = NoAttempt
      BY DEF KubernetesInit, Init
    <2>3. Pending(Kubernetes) = {}
      BY <2>1, <2>2 DEF Pending, Exists
    <2>4. IsFiniteSet({}) /\ Cardinality({}) = 0
      BY FS_EmptySet
    <2> QED BY <2>3, <2>4 DEF Bounded, AdmissionBounded, KubernetesAssumption
  <1>2. KubernetesSpec => []TypeOK
    BY ControllerImplementsStore, TypeCorrect, PTL DEF ImplementsAttemptStore
  <1>3. KubernetesTypeOK /\ TypeOK /\ StoreInv /\ Bounded /\ [KubernetesNext]_vars => Bounded'
    BY BoundedStep
  <1>4. Bounded => AdmissionBounded
    BY DEF Bounded
  <1> QED BY <1>1, <1>2, <1>3, <1>4, KubernetesTypeCorrect, KubernetesConsistent, PTL
         DEF KubernetesSpec

-----------------------------------------------------------------------------
(* One server: a Job outlives neither its attempt's cleanup nor its row     *)

OneServer == \A m, n \in Servers : m = n

\* Attempts belong to the controller, and cleanup is confirmed of ended
\* attempts only.
CleanedIsOver ==
  \A a \in AttemptIds :
    /\ Exists(a) => attempt[a].worker = Kubernetes
    /\ attempt[a].cleanup = "DONE" => Exists(a) /\ ~Executing(attempt[a].status)

\* An attempt on the list of tick t that rows confirm: it still awaits
\* cleanup, and if t is going to remove its Job it has ended.
EntryCurrent(t, rows, a) ==
  /\ rows[a].status # Absent
  /\ rows[a].cleanup = "PENDING"
  /\ t.plan[a] = "remove" => ~Executing(rows[a].status)

\* Until the first attempt is dealt with, the list has everything that awaits
\* cleanup, so a Job that is not on it has no executing attempt.
ListWhole(t, rows) ==
  \A a \in AttemptIds :
    rows[a].status # Absent /\ rows[a].worker = Kubernetes /\ rows[a].cleanup = "PENDING"
      => a \in DOMAIN t.plan

\* What tick t remembers is still so in rows, as far as it acts upon it.
ListCurrent(t, rows) ==
  /\ \A a \in DOMAIN t.plan : EntryCurrent(t, rows, a)
  /\ t.pc = "launch" => rows[t.current].cleanup = "PENDING"
  /\ t.pc \in {"inventory", "orphans"} => ListWhole(t, rows)
  /\ t.pc = "orphans" => t.orphans \cap DOMAIN t.plan = {}

ListInv ==
  /\ CleanedIsOver
  /\ \A m \in Servers : ListCurrent(tick[m], attempt)

\* What no transaction but an admission and a confirmed cleanup disturbs.
RowOn(a) ==
  /\ PlaceKept(a)
  /\ Exists(a) => attempt'[a].status # Absent
  /\ Exists(a) /\ ~Executing(attempt[a].status) => ~Executing(attempt'[a].status)

RowsOn == \A a \in AttemptIds : RowOn(a)

LEMMA SameRowsOn == ASSUME UNCHANGED attempt PROVE RowsOn
  BY DEF RowsOn, RowOn, PlaceKept, SameColumns, Exists

\* A row that is moved where it is.
LEMMA MovedRowOn ==
  ASSUME NEW a, PlaceKept(a), RowMoves(a)
  PROVE  RowOn(a)
  <1>1. RowKept(a) \/ RowInserted(a) \/ RowTaken(a) \/ RowWorked(a) \/ RowEnded(a)
    BY DEF RowMoves
  <1>2. CASE RowKept(a)
    BY <1>2 DEF RowKept, RowOn, Exists
  <1>3. CASE RowInserted(a)
    BY <1>3 DEF RowInserted, RowOn, Exists
  <1>4. CASE RowTaken(a)
    BY <1>4 DEF RowTaken, RowOn, Executing, Absent
  <1>5. CASE RowWorked(a)
    BY <1>5 DEF RowWorked, RowOn, Executing, Absent
  <1>6. CASE RowEnded(a)
    BY <1>6 DEF RowEnded, RowOn, Executing, Absent
  <1> QED BY <1>1, <1>2, <1>3, <1>4, <1>5, <1>6

\* The transactions that run beside the controller.
LEMMA UnplacedRowsOn ==
  ASSUME StoreAssumption, TypeOK, StoreInv, [Next]_storeVars, Unplaced
  PROVE  RowsOn
  BY UnplacedKeepsPlace, AttemptMoves, MovedRowOn DEF RowsOn

\* kubernetes_stopped.
LEMMA StoppedRowsOn ==
  ASSUME StoreAssumption, TypeOK, StoreInv, [Next]_storeVars,
         NEW a \in AttemptIds, RuntimeStopped(a)
  PROVE  RowsOn
  <1>1. /\ Exists(a)
        /\ \/ Fail(a, "timeout", "TIMEOUT", None)
           \/ Fail(a, "infrastructure", "RUNTIME_STOPPED", None)
    BY DEF RuntimeStopped
  <1>2. \A b \in AttemptIds : PlaceKept(b)
    BY <1>1, FailKeepsPlace
  <1> QED BY <1>2, AttemptMoves, MovedRowOn DEF RowsOn

\* Such transactions leave every list current.
LEMMA RowsOnKeepLists ==
  ASSUME RowsOn, NEW t, TickOK(t), ListCurrent(t, attempt)
  PROVE  ListCurrent(t, attempt')
  <1>1. DOMAIN t.plan \subseteq AttemptIds
    BY DEF TickOK, TickState, Plans
  <1>2. ASSUME NEW a \in DOMAIN t.plan
        PROVE  EntryCurrent(t, attempt', a)
    <2>1. EntryCurrent(t, attempt, a) /\ RowOn(a)
      BY <1>1 DEF ListCurrent, RowsOn
    <2> QED BY <2>1 DEF EntryCurrent, RowOn, PlaceKept, SameColumns, Exists
  <1>3. t.pc = "launch" => attempt'[t.current].cleanup = "PENDING"
    BY DEF ListCurrent, TickOK, RowsOn, RowOn, PlaceKept, SameColumns
  <1>4. ListWhole(t, attempt) => ListWhole(t, attempt')
    BY DEF ListWhole, RowsOn, RowOn, PlaceKept, SameColumns
  <1> QED BY <1>2, <1>3, <1>4 DEF ListCurrent

LEMMA RowsOnKeepCleaned ==
  ASSUME RowsOn, CleanedIsOver
  PROVE  CleanedIsOver'
  BY DEF RowsOn, RowOn, PlaceKept, SameColumns, CleanedIsOver, Exists

\* The list of a tick as it is read, shortened and forgotten.
LEMMA IdleCurrent == ASSUME NEW rows PROVE ListCurrent(Idle, rows)
  <1>1. DOMAIN << >> = {}
    OBVIOUS
  <1> QED BY <1>1 DEF ListCurrent, Idle

\* One entry less, and the tick goes on with the rest.
OthersCurrent(t, rows, a) ==
  \A b \in DOMAIN t.plan \ {a} : EntryCurrent(t, rows, b)

LEMMA ShorterCurrent ==
  ASSUME NEW t, TickOK(t), NEW rows, NEW a, NEW plan \in Plans,
         plan = [b \in DOMAIN t.plan \ {a} |-> t.plan[b]],
         OthersCurrent(t, rows, a)
  PROVE  /\ ListCurrent([t EXCEPT !.pc = "attempts", !.current = None, !.plan = plan], rows)
         /\ t.pc = "attempts" => ListCurrent([t EXCEPT !.plan = plan], rows)
  <1>1. t \in TickState
    BY DEF TickOK
  <1>2. \A u : u.plan = plan /\ u.pc = "attempts" => ListCurrent(u, rows)
    BY DEF ListCurrent, EntryCurrent, OthersCurrent
  <1>3. /\ [t EXCEPT !.pc = "attempts", !.current = None, !.plan = plan].plan = plan
        /\ [t EXCEPT !.pc = "attempts", !.current = None, !.plan = plan].pc = "attempts"
        /\ [t EXCEPT !.plan = plan].plan = plan
        /\ [t EXCEPT !.plan = plan].pc = t.pc
    BY <1>1 DEF TickState
  <1> QED BY <1>2, <1>3

\* The tick goes on with the same list.
SameList(t, u) ==
  /\ u.plan = t.plan
  /\ \/ u.pc \in {"attempts", "commit", "launched"}
     \/ /\ u.pc = "orphans"
        /\ \/ t.pc = "orphans" /\ u.orphans \subseteq t.orphans
           \/ t.pc = "inventory" /\ u.orphans \cap DOMAIN t.plan = {}

LEMMA SameListCurrent ==
  ASSUME NEW t, NEW u, NEW rows, ListCurrent(t, rows), SameList(t, u)
  PROVE  ListCurrent(u, rows)
  BY DEF SameList, ListCurrent, EntryCurrent, ListWhole


\* Reading the rows makes a list of exactly what awaits cleanup.
LEMMA ReadCurrent ==
  ASSUME NEW t, t.plan = [a \in Pending(Kubernetes) |-> PlanFor(a)], t.pc = "inventory"
  PROVE  ListCurrent(t, attempt)
  <1>1. DOMAIN t.plan = Pending(Kubernetes)
        /\ \A a \in Pending(Kubernetes) : t.plan[a] = PlanFor(a)
    OBVIOUS
  <1>2. \A a : PlanFor(a) = "remove" => ~Executing(attempt[a].status)
    BY DEF PlanFor
  <1>3. \A a \in DOMAIN t.plan : EntryCurrent(t, attempt, a)
    BY <1>1, <1>2 DEF EntryCurrent, Pending, Exists
  <1>4. ListWhole(t, attempt)
    BY <1>1 DEF ListWhole, Pending, Exists
  <1> QED BY <1>3, <1>4 DEF ListCurrent

\* A step of the tick that leaves the rows alone leaves it with a list that
\* is current.
LEMMA TickListStep ==
  ASSUME KubernetesAssumption, KubernetesTypeOK, TypeOK, StoreInv,
         NEW m \in Servers, Tick(m), UNCHANGED attempt,
         ListCurrent(tick[m], attempt)
  PROVE  ListCurrent(tick'[m], attempt)
  <1> DEFINE t == tick[m]
             keeps == ListCurrent(tick'[m], attempt)
  <1>0. TicksOK
    BY TypeParts
  <1>1. TickOK(t) /\ t \in TickState
    BY <1>0 DEF TicksOK, TickOK
  <1>2. \A u : Set(m, u) => tick'[m] = u
    BY <1>0 DEF Set, TicksOK
  <1>3. Set(m, Idle) => keeps
    BY <1>2, IdleCurrent
  <1>4. \A a : Without(m, a) \in Plans /\ Without(m, a) = [b \in DOMAIN t.plan \ {a} |-> t.plan[b]]
    BY <1>0, WithoutType DEF Without
  <1>others. \A a : OthersCurrent(t, attempt, a)
    BY DEF ListCurrent, OthersCurrent
  <1>5. \A a : ListCurrent([t EXCEPT !.pc = "attempts", !.current = None,
                                     !.plan = Without(m, a)], attempt)
    BY <1>1, <1>4, <1>others, ShorterCurrent
  <1>6. CASE TickRead(m)
    <2> DEFINE u == [Idle EXCEPT !.pc = "inventory",
                       !.plan = [a \in Pending(Kubernetes) |-> PlanFor(a)]]
    <2>1. tick'[m] = u
      BY <1>2, <1>6 DEF TickRead
    <2>2. u.plan = [a \in Pending(Kubernetes) |-> PlanFor(a)] /\ u.pc = "inventory"
      BY DEF Idle
    <2> HIDE DEF u
    <2> QED BY <2>1, <2>2, ReadCurrent
  <1>7. CASE TickInventory(m)
    <2> DEFINE u == [t EXCEPT !.orphans = Orphans(m),
                       !.pc = IF Orphans(m) = {} THEN "attempts" ELSE "orphans"]
    <2>1. tick'[m] = u
      BY <1>2, <1>7 DEF TickInventory
    <2>2. /\ u.plan = t.plan /\ u.orphans = Orphans(m)
          /\ u.pc \in {"attempts", "orphans"}
      BY <1>1 DEF TickState
    <2>3. Orphans(m) \cap DOMAIN t.plan = {}
      BY DEF Orphans
    <2>4. t.pc = "inventory"
      BY <1>7 DEF TickInventory
    <2>5. SameList(t, u)
      BY <2>2, <2>3, <2>4 DEF SameList
    <2> HIDE DEF u
    <2> QED BY <2>1, <2>5, SameListCurrent
  <1>8. ASSUME NEW a \in AttemptIds, TickOrphan(m, a)
        PROVE  keeps
    <2> DEFINE rest == t.orphans \ {a}
               u == [t EXCEPT !.orphans = rest,
                       !.pc = IF rest = {} THEN "attempts" ELSE "orphans"]
    <2>1. Set(m, u) \/ Set(m, Idle)
      BY <1>8 DEF TickOrphan
    <2>2. /\ u.plan = t.plan /\ u.orphans \subseteq t.orphans
          /\ u.pc \in {"attempts", "orphans"}
      BY <1>1 DEF TickState
    <2>3. t.pc = "orphans"
      BY <1>8 DEF TickOrphan
    <2>4. SameList(t, u)
      BY <2>2, <2>3 DEF SameList
    <2> HIDE DEF u, rest
    <2>5. ListCurrent(u, attempt)
      BY <2>4, SameListCurrent
    <2> QED BY <1>2, <1>3, <2>1, <2>5
  <1>9. ASSUME NEW a \in AttemptIds, TickAttempt(m, a)
        PROVE  keeps
    <2> DEFINE u == [t EXCEPT !.pc = "commit", !.current = a]
    <2>1. Set(m, u) \/ Set(m, [t EXCEPT !.plan = Without(m, a)])
      BY <1>9 DEF TickAttempt
    <2>2. u.plan = t.plan /\ u.pc = "commit"
      BY <1>1 DEF TickState
    <2>3. t.pc = "attempts"
      BY <1>9 DEF TickAttempt
    <2>4. ListCurrent([t EXCEPT !.plan = Without(m, a)], attempt)
      BY <1>1, <1>4, <1>others, <2>3, ShorterCurrent
    <2>5. SameList(t, u)
      BY <2>2 DEF SameList
    <2> HIDE DEF u
    <2>6. ListCurrent(u, attempt)
      BY <2>5, SameListCurrent
    <2> QED BY <1>2, <2>1, <2>4, <2>6
  <1>10. TickCommit(m) => keeps
    BY <1>2, <1>5 DEF TickCommit
  <1>11. ASSUME NEW r \in Runs, NEW a \in AttemptIds, TickAdmit(m, r, a)
         PROVE  FALSE
    <2>1. attempt'[a].status = "STARTING"
      BY <1>11 DEF TickAdmit, Place, TypeOK, NoAttempt
    <2>2. attempt[a].status = Absent
      BY <1>11 DEF TickAdmit, Place, Fresh, Exists
    <2> QED BY <2>1, <2>2 DEF Absent
  <1>12. CASE TickLaunch(m) \/ TickLaunched(m)
    <2>1. \/ Set(m, [t EXCEPT !.pc = "launched"])
          \/ Set(m, [t EXCEPT !.pc = "attempts", !.current = None])
          \/ Set(m, Idle)
      BY <1>12 DEF TickLaunch, TickLaunched
    <2>2. /\ [t EXCEPT !.pc = "launched"].plan = t.plan
          /\ [t EXCEPT !.pc = "launched"].pc = "launched"
          /\ [t EXCEPT !.pc = "attempts", !.current = None].plan = t.plan
          /\ [t EXCEPT !.pc = "attempts", !.current = None].pc = "attempts"
      BY <1>1 DEF TickState
    <2>3. /\ SameList(t, [t EXCEPT !.pc = "launched"])
          /\ SameList(t, [t EXCEPT !.pc = "attempts", !.current = None])
      BY <2>2 DEF SameList
    <2>4. /\ ListCurrent([t EXCEPT !.pc = "launched"], attempt)
          /\ ListCurrent([t EXCEPT !.pc = "attempts", !.current = None], attempt)
      BY <2>3, SameListCurrent
    <2> QED BY <1>2, <1>3, <2>1, <2>4
  <1>13. TickEnd(m) \/ TickFails(m) => keeps
    BY <1>2, <1>3, <1>5 DEF TickEnd, TickFails
  <1> QED BY <1>6, <1>7, <1>8, <1>9, <1>10, <1>11, <1>12, <1>13 DEF Tick

\* The transaction of TickCommit, and the list without the attempt it was
\* about.
LEMMA CommitListStep ==
  ASSUME StoreAssumption, KubernetesAssumption, KubernetesTypeOK, TypeOK, StoreInv,
         [Next]_storeVars, NEW m \in Servers, TickCommit(m),
         CleanedIsOver, ListCurrent(tick[m], attempt)
  PROVE  CleanedIsOver' /\ ListCurrent(tick'[m], attempt')
  <1> DEFINE t == tick[m]
             a == t.current
  <1>0. TicksOK
    BY TypeParts
  <1>1. TickOK(t) /\ a \in AttemptIds /\ DOMAIN t.plan \subseteq AttemptIds
    BY <1>0, PlanDomain DEF TickCommit, TicksOK, TickOK
  <1>2. tick'[m] = [t EXCEPT !.pc = "attempts", !.current = None, !.plan = Without(m, a)]
    BY <1>0 DEF TickCommit, Set, TicksOK
  <1>3. Without(m, a) \in Plans /\ Without(m, a) = [b \in DOMAIN t.plan \ {a} |-> t.plan[b]]
    BY <1>0, WithoutType DEF Without
  <1>4. CleanupDone(a) \/ RuntimeStopped(a) \/ UNCHANGED attempt
    BY DEF TickCommit, storeVars
  <1>5. ListCurrent(t, attempt)
    OBVIOUS
  <1> HIDE DEF t, a
  <1>6. ASSUME OthersCurrent(t, attempt', a)
        PROVE  ListCurrent(tick'[m], attempt')
    <2> DEFINE plan == Without(m, a)
    <2>1. plan \in Plans /\ plan = [b \in DOMAIN t.plan \ {a} |-> t.plan[b]]
      BY <1>3
    <2>2. tick'[m] = [t EXCEPT !.pc = "attempts", !.current = None, !.plan = plan]
      BY <1>2
    <2> HIDE DEF plan
    <2>3. ListCurrent([t EXCEPT !.pc = "attempts", !.current = None, !.plan = plan],
                      attempt')
      BY <1>1, <1>6, <2>1, ShorterCurrent
    <2> QED BY <2>2, <2>3
  <1>7. CASE CleanupDone(a)
    <2>1. attempt' = [attempt EXCEPT ![a].cleanup = "DONE"] /\ Exists(a)
          /\ ~Executing(attempt[a].status)
      BY <1>7 DEF CleanupDone
    <2>2. attempt[a] \in AttemptRow
      BY <1>1 DEF TypeOK
    <2>3. \A b \in AttemptIds \ {a} : attempt'[b] = attempt[b]
      BY <2>1 DEF TypeOK
    <2>4. attempt'[a] = [attempt[a] EXCEPT !.cleanup = "DONE"]
      BY <1>1, <2>1 DEF TypeOK
    <2>5. attempt'[a].status = attempt[a].status /\ attempt'[a].worker = attempt[a].worker
      BY <2>2, <2>4 DEF AttemptRow
    <2>6. CleanedIsOver'
      BY <2>1, <2>3, <2>5 DEF CleanedIsOver, Exists
    <2>7. OthersCurrent(t, attempt', a)
      BY <1>1, <1>5, <2>3 DEF ListCurrent, EntryCurrent, OthersCurrent
    <2> QED BY <1>6, <2>6, <2>7
  <1>8. CASE RuntimeStopped(a) \/ UNCHANGED attempt
    <2>1. RowsOn
      BY <1>1, <1>8, StoppedRowsOn, SameRowsOn
    <2>2. CleanedIsOver' /\ ListCurrent(t, attempt')
      BY <1>1, <1>5, <2>1, RowsOnKeepCleaned, RowsOnKeepLists
    <2> QED BY <1>6, <2>2 DEF ListCurrent, OthersCurrent
  <1> QED BY <1>4, <1>7, <1>8

\* admit_kubernetes inserts an attempt that awaits cleanup from then on.
LEMMA AdmitListStep ==
  ASSUME KubernetesAssumption, KubernetesTypeOK, TypeOK, CleanedIsOver,
         NEW m \in Servers, NEW r \in Runs, NEW a \in AttemptIds, TickAdmit(m, r, a)
  PROVE  CleanedIsOver' /\ ListCurrent(tick'[m], attempt')
  <1> DEFINE t == tick[m]
             row == [NoAttempt EXCEPT !.status = "STARTING", !.run = r,
                       !.generation = run[r].generation + 1, !.worker = Kubernetes,
                       !.launch = "valid"]
  <1>1. t \in TickState
    BY TypeParts DEF TicksOK
  <1>2. tick'[m] = [t EXCEPT !.pc = "launch", !.current = a, !.admitted = t.admitted + 1]
    BY TypeParts DEF TickAdmit, Set, TicksOK
  <1>3. tick'[m].pc = "launch" /\ tick'[m].current = a /\ DOMAIN tick'[m].plan = {}
    BY <1>1, <1>2 DEF TickState, TickAdmit
  <1>4. attempt'[a] = row /\ \A b \in AttemptIds \ {a} : attempt'[b] = attempt[b]
    BY DEF TickAdmit, Place, TypeOK
  <1>5. row.status = "STARTING" /\ row.worker = Kubernetes /\ row.cleanup = "PENDING"
    BY DEF NoAttempt
  <1> HIDE DEF row
  <1>6. CleanedIsOver'
    BY <1>4, <1>5 DEF CleanedIsOver, Exists
  <1> QED BY <1>3, <1>4, <1>5, <1>6 DEF ListCurrent

\* With one server, lists stay current.
LEMMA ListStep ==
  ASSUME StoreAssumption, KubernetesAssumption, OneServer, KubernetesTypeOK,
         TypeOK, StoreInv, [Next]_storeVars, ListInv, [KubernetesNext]_vars
  PROVE  ListInv'
  <1>0. TicksOK /\ \A m \in Servers : TickOK(tick[m])
    BY TypeParts DEF TicksOK
  <1>1. CASE RowsOn /\ tick' = tick
    <2>1. CleanedIsOver'
      BY <1>1, RowsOnKeepCleaned DEF ListInv
    <2>2. \A m \in Servers : ListCurrent(tick[m], attempt')
      BY <1>0, <1>1, RowsOnKeepLists DEF ListInv
    <2> QED BY <1>1, <2>1, <2>2 DEF ListInv
  <1>2. ASSUME NEW m \in Servers, Tick(m)
        PROVE  ListInv'
    <2>1. ListCurrent(tick[m], attempt) /\ CleanedIsOver
      BY DEF ListInv
    <2>2. SUFFICES CleanedIsOver' /\ ListCurrent(tick'[m], attempt')
      BY DEF ListInv, OneServer
    <2>3. CASE TickCommit(m)
      BY <2>1, <2>3, CommitListStep
    <2>4. ASSUME NEW r \in Runs, NEW a \in AttemptIds, TickAdmit(m, r, a)
          PROVE  CleanedIsOver' /\ ListCurrent(tick'[m], attempt')
      BY <2>1, <2>4, AdmitListStep
    <2>5. CASE UNCHANGED attempt
      <3>1. ListCurrent(tick'[m], attempt)
        BY <1>2, <2>1, <2>5, TickListStep
      <3>2. CleanedIsOver'
        BY <2>1, <2>5, SameRowsOn, RowsOnKeepCleaned
      <3> QED BY <2>5, <3>1, <3>2
    <2>6. ASSUME NEW a \in AttemptIds, TickOrphan(m, a) \/ TickAttempt(m, a)
          PROVE  UNCHANGED attempt
      BY <2>6 DEF TickOrphan, TickAttempt, storeVars
    <2>7. TickRead(m) \/ TickInventory(m) \/ TickLaunch(m) \/ TickLaunched(m)
          \/ TickEnd(m) \/ TickFails(m) => UNCHANGED attempt
      BY DEF TickRead, TickInventory, TickLaunch, TickLaunched, TickEnd, TickFails,
             storeVars
    <2> QED BY <1>2, <2>3, <2>4, <2>5, <2>6, <2>7 DEF Tick
  <1>3. ASSUME NEW m \in Servers, Leader(m)
        PROVE  ListInv'
    <2>1. RowsOn
      <3>1. UNCHANGED attempt
        BY <1>3 DEF Leader, Refresh, RefreshFails, LinkBreaks, Crash, storeVars
      <3> QED BY <3>1, SameRowsOn
    <2>2. CASE Crash(m)
      <3>1. tick'[m] = Idle
        BY <1>0, <2>2 DEF Crash, TicksOK
      <3>2. CleanedIsOver'
        BY <2>1, RowsOnKeepCleaned DEF ListInv
      <3> QED BY <3>1, <3>2, IdleCurrent DEF ListInv, OneServer
    <2>3. CASE ~Crash(m)
      <3>1. tick' = tick
        BY <1>3, <2>3 DEF Leader, Refresh, RefreshFails, LinkBreaks
      <3> QED BY <1>1, <2>1, <3>1
    <2> QED BY <2>2, <2>3
  <1>4. ASSUME NEW a \in AttemptIds, Cluster(a)
        PROVE  ListInv'
    <2>1. UNCHANGED attempt /\ UNCHANGED tick
      BY <1>4 DEF Cluster, PodStarts, JobFinishes, JobLost, Collected, LateCreate, storeVars
    <2> QED BY <1>1, <2>1, SameRowsOn
  <1>5. CASE Unplaced /\ UNCHANGED kubernetesVars
    BY <1>1, <1>5, UnplacedRowsOn DEF kubernetesVars
  <1>6. CASE UNCHANGED vars
    BY <1>1, <1>6, SameRowsOn DEF vars
  <1> QED BY <1>2, <1>3, <1>4, <1>5, <1>6 DEF KubernetesNext

LEMMA ListInit == ASSUME KubernetesInit PROVE ListInv
  <1>1. NoAttempt.status = Absent /\ NoAttempt.cleanup = "PENDING"
    BY DEF NoAttempt
  <1>2. \A a \in AttemptIds : attempt[a] = NoAttempt
    BY DEF KubernetesInit, Init
  <1>3. CleanedIsOver
    BY <1>1, <1>2 DEF CleanedIsOver, Exists
  <1>4. \A m \in Servers : ListCurrent(tick[m], attempt)
    BY IdleCurrent DEF KubernetesInit
  <1> QED BY <1>3, <1>4 DEF ListInv

\* With one server the lists of tick() are current at all times, although
\* runners, users and recover() change the rows behind it.
THEOREM ListsCurrent ==
  ASSUME OneServer
  PROVE  KubernetesSpec => []ListInv
  <1> USE KubernetesAssumption, StoreAssumption
  <1>1. KubernetesInit => ListInv
    BY ListInit
  <1>2. KubernetesSpec => []TypeOK /\ [][Next]_storeVars
    BY ControllerImplementsStore, TypeCorrect, PTL DEF ImplementsAttemptStore, Spec
  <1>3. KubernetesTypeOK /\ TypeOK /\ StoreInv /\ [Next]_storeVars /\ ListInv
          /\ [KubernetesNext]_vars => ListInv'
    BY ListStep
  <1> QED BY <1>1, <1>2, <1>3, KubernetesTypeCorrect, KubernetesConsistent, PTL
         DEF KubernetesSpec

\* What the tick of m may not do to the Job of an executing attempt.
SparesJob(m, a) ==
  /\ tick'[m] # tick[m]
  /\ Executing(attempt[a].status)
  /\ job[a] \in {"active", "finished"}
  => job'[a] = job[a]

\* Calls for another attempt, and calls that create.
LEMMA CallSpares ==
  ASSUME ClusterOK, NEW a \in AttemptIds, NEW b \in AttemptIds,
         job[a] \in {"active", "finished"},
         \/ Ensure(b) \/ EnsureFails(b)
         \/ a # b /\ (Remove(b) \/ RemoveFails(b))
         \/ UNCHANGED clusterVars
  PROVE  job'[a] = job[a]
  BY DEF ClusterOK, Ensure, EnsureFails, Remove, RemoveFails, clusterVars

\* An executing attempt is on every list that is whole, and never there to
\* be removed.
LEMMA LiveListed ==
  ASSUME TypeOK, CleanedIsOver, NEW t, ListCurrent(t, attempt),
         NEW a \in AttemptIds, Executing(attempt[a].status)
  PROVE  /\ t.pc \in {"inventory", "orphans"} => a \in DOMAIN t.plan
         /\ t.pc = "orphans" => a \notin t.orphans
         /\ a \in DOMAIN t.plan => t.plan[a] # "remove"
  <1>1. attempt[a].status # Absent
    BY DEF Executing, Absent
  <1>2. attempt[a].cleanup \in {"PENDING", "DONE"}
    BY DEF TypeOK, AttemptRow
  <1>3. attempt[a].worker = Kubernetes /\ attempt[a].cleanup = "PENDING"
    BY <1>1, <1>2 DEF CleanedIsOver, Exists
  <1>4. ListWhole(t, attempt) => a \in DOMAIN t.plan
    BY <1>1, <1>3 DEF ListWhole
  <1>5. t.pc \in {"inventory", "orphans"} => a \in DOMAIN t.plan
    BY <1>4 DEF ListCurrent
  <1>6. t.pc = "orphans" => a \notin t.orphans
    BY <1>5 DEF ListCurrent
  <1>7. a \in DOMAIN t.plan => t.plan[a] # "remove"
    BY DEF ListCurrent, EntryCurrent
  <1> QED BY <1>5, <1>6, <1>7

LEMMA TickSpares ==
  ASSUME KubernetesTypeOK, TypeOK, CleanedIsOver, NEW m \in Servers,
         ListCurrent(tick[m], attempt), Tick(m), NEW a \in AttemptIds,
         Executing(attempt[a].status), job[a] \in {"active", "finished"}
  PROVE  job'[a] = job[a]
  <1> DEFINE t == tick[m]
  <1>0. ClusterOK /\ TicksOK /\ TickOK(t)
    BY TypeParts DEF TicksOK
  <1>1. /\ t.pc = "orphans" => a \notin t.orphans
        /\ a \in DOMAIN t.plan => t.plan[a] # "remove"
    BY LiveListed
  <1>2. ASSUME NEW b \in AttemptIds, TickOrphan(m, b)
        PROVE  job'[a] = job[a]
    <2>1. a # b /\ (Remove(b) \/ RemoveFails(b))
      BY <1>1, <1>2 DEF TickOrphan
    <2> QED BY <1>0, <2>1, CallSpares
  <1>3. ASSUME NEW b \in AttemptIds, TickAttempt(m, b)
        PROVE  job'[a] = job[a]
    <2>1. b \in DOMAIN t.plan
      BY <1>3 DEF TickAttempt
    <2>2. CASE t.plan[b] = "remove"
      <3>1. a # b
        BY <1>1, <2>1, <2>2
      <3>2. Remove(b) \/ RemoveFails(b)
        BY <1>3, <2>2 DEF TickAttempt
      <3> QED BY <1>0, <3>1, <3>2, CallSpares
    <2>3. CASE t.plan[b] # "remove"
      <3>1. Ensure(b) \/ EnsureFails(b) \/ UNCHANGED clusterVars
        BY <1>3, <2>3 DEF TickAttempt
      <3> QED BY <1>0, <3>1, CallSpares
    <2> QED BY <2>2, <2>3
  <1>4. CASE TickLaunch(m)
    <2>1. t.current \in AttemptIds
      BY <1>0, <1>4 DEF TickLaunch, TickOK
    <2>2. Ensure(t.current) \/ EnsureFails(t.current)
      BY <1>4 DEF TickLaunch
    <2> QED BY <1>0, <2>1, <2>2, CallSpares
  <1>5. ASSUME NEW r \in Runs, NEW b \in AttemptIds, TickAdmit(m, r, b)
        PROVE  job'[a] = job[a]
    BY <1>5 DEF TickAdmit, clusterVars
  <1>6. TickRead(m) \/ TickInventory(m) \/ TickCommit(m) \/ TickLaunched(m)
        \/ TickEnd(m) \/ TickFails(m) => job'[a] = job[a]
    BY DEF TickRead, TickInventory, TickCommit, TickLaunched, TickEnd, TickFails,
           clusterVars
  <1> QED BY <1>2, <1>3, <1>4, <1>5, <1>6 DEF Tick

LEMMA StepSpares ==
  ASSUME OneServer, KubernetesTypeOK, TypeOK, ListInv, [KubernetesNext]_vars,
         NEW m \in Servers, NEW a \in AttemptIds
  PROVE  SparesJob(m, a)
  <1>1. CASE Tick(m)
    BY <1>1, TickSpares DEF ListInv, SparesJob
  <1>2. CASE Leader(m)
    <2>1. UNCHANGED job
      BY <1>2 DEF Leader, Refresh, RefreshFails, LinkBreaks, Crash, clusterVars
    <2> QED BY <2>1 DEF SparesJob
  <1>3. ASSUME NEW b \in AttemptIds, Cluster(b)
        PROVE  SparesJob(m, a)
    BY <1>3 DEF Cluster, PodStarts, JobFinishes, JobLost, Collected, LateCreate, SparesJob
  <1>4. UNCHANGED kubernetesVars \/ UNCHANGED vars => SparesJob(m, a)
    BY DEF kubernetesVars, vars, SparesJob
  <1> QED BY <1>1, <1>2, <1>3, <1>4 DEF KubernetesNext, OneServer

\* With one server no tick deletes the Job of an executing attempt, however
\* long ago it read the rows and however often it crashed or failed
\* (KubernetesController::tick).
THEOREM LiveJobsKept ==
  ASSUME OneServer
  PROVE  KubernetesSpec => LiveJobKept
  <1> USE KubernetesAssumption, StoreAssumption
  <1>1. KubernetesSpec => []TypeOK
    BY ControllerImplementsStore, TypeCorrect, PTL DEF ImplementsAttemptStore
  <1>2. KubernetesTypeOK /\ TypeOK /\ ListInv /\ [KubernetesNext]_vars =>
          [\A m \in Servers, a \in AttemptIds :
             /\ tick'[m] # tick[m]
             /\ Executing(attempt[a].status)
             /\ job[a] \in {"active", "finished"}
             => job'[a] = job[a]]_vars
    BY StepSpares DEF SparesJob
  <1> QED BY <1>1, <1>2, KubernetesTypeCorrect, ListsCurrent, PTL
         DEF KubernetesSpec, LiveJobKept

-----------------------------------------------------------------------------
(* One server and no create request that outlives its caller: what was     *)
(* confirmed gone is gone.                                                 *)

Gone(a) == job[a] = "absent" /\ ~pod[a]

NothingInFlight == \A a \in AttemptIds : ~inflight[a]

\* Between a removal and its record nothing comes back.
RemovedIsGone(t) ==
  t.pc = "commit" /\ t.plan[t.current] = "remove" => Gone(t.current)

GoneInv ==
  /\ NothingInFlight
  /\ CleanupMeansGone
  /\ \A m \in Servers : RemovedIsGone(tick[m])

\* Only a call to create brings a Job back.
LEMMA CallKeepsGone ==
  ASSUME Late = {}, ClusterOK, NothingInFlight, NEW b \in AttemptIds,
         \/ Ensure(b) \/ EnsureFails(b) \/ Remove(b) \/ RemoveFails(b)
         \/ UNCHANGED clusterVars
  PROVE  /\ NothingInFlight'
         /\ \A a \in AttemptIds : a # b /\ Gone(a) => Gone(a)'
  BY DEF ClusterOK, Ensure, EnsureFails, Remove, RemoveFails, clusterVars,
         NothingInFlight, Gone

LEMMA DeleteKeepsGone ==
  ASSUME ClusterOK, NEW b \in AttemptIds, Remove(b) \/ RemoveFails(b)
  PROVE  /\ Gone(b) => Gone(b)'
         /\ Remove(b) => Gone(b)'
  BY DEF ClusterOK, Remove, RemoveFails, Gone

LEMMA ClusterKeepsGone ==
  ASSUME ClusterOK, NothingInFlight, NEW b \in AttemptIds, Cluster(b)
  PROVE  /\ NothingInFlight'
         /\ \A a \in AttemptIds : Gone(a) => Gone(a)'
  <1>1. CASE PodStarts(b) BY <1>1 DEF PodStarts, ClusterOK, NothingInFlight, Gone
  <1>2. CASE JobFinishes(b) BY <1>2 DEF JobFinishes, ClusterOK, NothingInFlight, Gone
  <1>3. CASE JobLost(b) BY <1>3 DEF JobLost, ClusterOK, NothingInFlight, Gone
  <1>4. CASE Collected(b) BY <1>4 DEF Collected, ClusterOK, NothingInFlight, Gone
  <1>5. CASE LateCreate(b) BY <1>5 DEF LateCreate, NothingInFlight
  <1> QED BY <1>1, <1>2, <1>3, <1>4, <1>5 DEF Cluster

\* A tick that is not about to record a removal.
LEMMA NotRemoving ==
  ASSUME NEW m \in Servers,
         tick'[m].pc # "commit" \/ tick'[m].plan[tick'[m].current] # "remove"
  PROVE  RemovedIsGone(tick[m])'
  BY DEF RemovedIsGone

\* The calls of a tick: what it removes has ended, what it creates was never
\* cleaned up.
LEMMA TickCallGone ==
  ASSUME Late = {}, KubernetesTypeOK, GoneInv, NEW m \in Servers,
         ListCurrent(tick[m], attempt), UNCHANGED attempt,
         \/ \E b \in AttemptIds : TickOrphan(m, b) \/ TickAttempt(m, b)
         \/ TickLaunch(m)
  PROVE  NothingInFlight' /\ CleanupMeansGone' /\ RemovedIsGone(tick[m])'
  <1> DEFINE t == tick[m]
  <1>0. ClusterOK /\ TicksOK /\ TickOK(t) /\ t \in TickState
    BY TypeParts DEF TicksOK, TickOK
  <1>1. \A u : Set(m, u) => tick'[m] = u
    BY <1>0 DEF Set, TicksOK
  <1>2. NothingInFlight /\ \A a \in AttemptIds : attempt[a].cleanup = "DONE" => Gone(a)
    BY DEF GoneInv, CleanupMeansGone, Gone
  <1>3. SUFFICES /\ NothingInFlight'
                 /\ \A a \in AttemptIds : attempt[a].cleanup = "DONE" => Gone(a)'
                 /\ RemovedIsGone(tick[m])'
    BY <1>3 DEF CleanupMeansGone, Gone
  <1>4. Idle.pc = "idle"
    BY DEF Idle
  <1>5. ASSUME NEW b \in AttemptIds, TickOrphan(m, b)
        PROVE  /\ NothingInFlight'
               /\ \A a \in AttemptIds : attempt[a].cleanup = "DONE" => Gone(a)'
               /\ RemovedIsGone(tick[m])'
    <2>1. Remove(b) \/ RemoveFails(b)
      BY <1>5 DEF TickOrphan
    <2>2. /\ NothingInFlight'
          /\ \A a \in AttemptIds : Gone(a) => Gone(a)'
      BY <1>0, <1>2, <2>1, CallKeepsGone, DeleteKeepsGone
    <2> DEFINE rest == t.orphans \ {b}
               u == [t EXCEPT !.orphans = rest,
                       !.pc = IF rest = {} THEN "attempts" ELSE "orphans"]
    <2>3. tick'[m] = u \/ tick'[m] = Idle
      BY <1>1, <1>5 DEF TickOrphan
    <2>4. u.pc # "commit"
      BY <1>0 DEF TickState
    <2> HIDE DEF u
    <2>5. tick'[m].pc # "commit"
      BY <1>4, <2>3, <2>4
    <2> QED BY <1>2, <2>2, <2>5, NotRemoving
  <1>6. ASSUME NEW b \in AttemptIds, TickAttempt(m, b)
        PROVE  /\ NothingInFlight'
               /\ \A a \in AttemptIds : attempt[a].cleanup = "DONE" => Gone(a)'
               /\ RemovedIsGone(tick[m])'
    <2>1. t.pc = "attempts" /\ b \in DOMAIN t.plan /\ attempt[b].cleanup = "PENDING"
      BY <1>6 DEF TickAttempt, ListCurrent, EntryCurrent
    <2>2. Ensure(b) \/ EnsureFails(b) \/ Remove(b) \/ RemoveFails(b) \/ UNCHANGED clusterVars
      BY <1>6 DEF TickAttempt
    <2>3. /\ NothingInFlight'
          /\ \A a \in AttemptIds : a # b /\ Gone(a) => Gone(a)'
      BY <1>0, <1>2, <2>2, CallKeepsGone
    <2>4. \A a \in AttemptIds : attempt[a].cleanup = "DONE" => Gone(a)'
      BY <1>2, <2>1, <2>3
    <2> DEFINE u == [t EXCEPT !.pc = "commit", !.current = b]
               v == [t EXCEPT !.plan = Without(m, b)]
    <2>5. u.plan = t.plan /\ u.current = b /\ v.pc = t.pc
      BY <1>0 DEF TickState
    <2>6. \/ tick'[m] = u /\ (t.plan[b] = "remove" => Remove(b))
          \/ tick'[m] = v
      BY <1>1, <1>6 DEF TickAttempt
    <2> HIDE DEF u, v
    <2>7. RemovedIsGone(tick[m])'
      <3>1. CASE tick'[m] = v
        BY <2>1, <2>5, <3>1, NotRemoving
      <3>2. CASE tick'[m] = u /\ t.plan[b] # "remove"
        BY <2>5, <3>2, NotRemoving
      <3>3. CASE tick'[m] = u /\ Remove(b)
        <4>1. Gone(b)'
          BY <1>0, <3>3, DeleteKeepsGone
        <4>2. tick'[m].current = b
          BY <2>5, <3>3
        <4> QED BY <4>1, <4>2 DEF RemovedIsGone, Gone
      <3> QED BY <2>6, <3>1, <3>2, <3>3
    <2> QED BY <2>3, <2>4, <2>7
  <1>7. ASSUME TickLaunch(m)
        PROVE  /\ NothingInFlight'
               /\ \A a \in AttemptIds : attempt[a].cleanup = "DONE" => Gone(a)'
               /\ RemovedIsGone(tick[m])'
    <2> DEFINE b == t.current
               u == [t EXCEPT !.pc = "launched"]
    <2>1. b \in AttemptIds /\ attempt[b].cleanup = "PENDING"
      BY <1>0, <1>7 DEF TickLaunch, TickOK, ListCurrent
    <2>2. Ensure(b) \/ EnsureFails(b)
      BY <1>7 DEF TickLaunch
    <2>3. tick'[m] = u \/ tick'[m] = Idle
      BY <1>1, <1>7 DEF TickLaunch
    <2>4. u.pc # "commit"
      BY <1>0 DEF TickState
    <2> HIDE DEF u, b
    <2>5. tick'[m].pc # "commit"
      BY <1>4, <2>3, <2>4
    <2>6. /\ NothingInFlight'
          /\ \A a \in AttemptIds : a # b /\ Gone(a) => Gone(a)'
      BY <1>0, <1>2, <2>1, <2>2, CallKeepsGone
    <2> QED BY <1>2, <2>1, <2>5, <2>6, NotRemoving
  <1> QED BY <1>5, <1>6, <1>7

\* Steps that leave the cluster and the confirmed cleanups alone.
LEMMA SameCleanupsGone ==
  ASSUME GoneInv, UNCHANGED clusterVars,
         \A a \in AttemptIds : attempt'[a].cleanup = "DONE" =>
                                 attempt[a].cleanup = "DONE" \/ Gone(a)
  PROVE  NothingInFlight' /\ CleanupMeansGone'
  BY DEF GoneInv, NothingInFlight, CleanupMeansGone, Gone, clusterVars

\* The other steps of a tick do not call the cluster; a cleanup is confirmed
\* by the tick that saw it.
LEMMA TickQuietGone ==
  ASSUME StoreAssumption, KubernetesAssumption, KubernetesTypeOK, TypeOK, StoreInv,
         [Next]_storeVars, GoneInv, NEW m \in Servers,
         \/ TickRead(m) \/ TickInventory(m) \/ TickCommit(m)
         \/ \E r \in Runs, a \in AttemptIds : TickAdmit(m, r, a)
         \/ TickLaunched(m) \/ TickEnd(m) \/ TickFails(m)
  PROVE  NothingInFlight' /\ CleanupMeansGone' /\ RemovedIsGone(tick[m])'
  <1> DEFINE t == tick[m]
  <1>0. TicksOK /\ TickOK(t) /\ t \in TickState /\ Idle.pc = "idle"
    BY TypeParts DEF TicksOK, TickOK, Idle
  <1>1. \A u : Set(m, u) => tick'[m] = u
    BY <1>0 DEF Set, TicksOK
  <1>2. UNCHANGED clusterVars
    BY DEF TickRead, TickInventory, TickCommit, TickAdmit, TickLaunched, TickEnd, TickFails
  <1>3. tick'[m].pc # "commit"
    <2>1. CASE TickRead(m)
      <3> DEFINE plan == [a \in Pending(Kubernetes) |-> PlanFor(a)]
      <3>1. tick'[m] = [Idle EXCEPT !.pc = "inventory", !.plan = plan]
        BY <1>1, <2>1 DEF TickRead
      <3> HIDE DEF plan
      <3> QED BY <3>1 DEF Idle
    <2>2. CASE TickInventory(m)
      BY <1>0, <1>1, <2>2 DEF TickInventory, TickState
    <2>3. CASE TickCommit(m)
      BY <1>0, <1>1, <2>3 DEF TickCommit, TickState
    <2>4. ASSUME NEW r \in Runs, NEW a \in AttemptIds, TickAdmit(m, r, a)
          PROVE  tick'[m].pc # "commit"
      <3>1. tick'[m] = [t EXCEPT !.pc = "launch", !.current = a, !.admitted = @ + 1]
        BY <1>1, <2>4 DEF TickAdmit
      <3> QED BY <1>0, <3>1 DEF TickState
    <2>5. CASE TickLaunched(m) \/ TickEnd(m)
      BY <1>0, <1>1, <2>5 DEF TickLaunched, TickEnd, TickState
    <2>6. CASE TickFails(m)
      BY <1>0, <1>1, <2>6 DEF TickFails, TickState
    <2> QED BY <2>1, <2>2, <2>3, <2>4, <2>5, <2>6
  <1>4. \A a \in AttemptIds : attempt'[a].cleanup = "DONE" =>
                                attempt[a].cleanup = "DONE" \/ Gone(a)
    <2>1. CASE TickCommit(m)
      <3> DEFINE a == t.current
      <3>1. a \in AttemptIds
        BY <1>0, <2>1, PlanDomain DEF TickCommit, TickOK
      <3>2. CASE t.plan[a] = "remove" /\ CleanupDone(a)
        <4>1. Gone(a)
          BY <2>1, <3>2 DEF TickCommit, GoneInv, RemovedIsGone
        <4>2. \A b \in AttemptIds \ {a} : attempt'[b] = attempt[b]
          BY <3>2 DEF CleanupDone, TypeOK
        <4> QED BY <4>1, <4>2
      <3>3. CASE RuntimeStopped(a) \/ UNCHANGED attempt
        <4> HIDE DEF a
        <4>1. RowsOn
          BY <3>1, <3>3, StoppedRowsOn, SameRowsOn
        <4> QED BY <4>1 DEF RowsOn, RowOn, PlaceKept, SameColumns
      <3> QED BY <2>1, <3>2, <3>3 DEF TickCommit, storeVars
    <2>2. ASSUME NEW r \in Runs, NEW a \in AttemptIds, TickAdmit(m, r, a),
                 NEW b \in AttemptIds, attempt'[b].cleanup = "DONE"
          PROVE  attempt[b].cleanup = "DONE"
      <3>1. attempt'[a].cleanup = "PENDING"
        BY <2>2 DEF TickAdmit, Place, TypeOK, NoAttempt
      <3>2. a # b
        BY <2>2, <3>1
      <3> QED BY <2>2, <3>2 DEF TickAdmit, Place, TypeOK
    <2>3. TickRead(m) \/ TickInventory(m) \/ TickLaunched(m) \/ TickEnd(m)
          \/ TickFails(m) => UNCHANGED attempt
      BY DEF TickRead, TickInventory, TickLaunched, TickEnd, TickFails, storeVars
    <2> QED BY <2>1, <2>2, <2>3
  <1> QED BY <1>2, <1>3, <1>4, NotRemoving, SameCleanupsGone

LEMMA GoneStep ==
  ASSUME StoreAssumption, KubernetesAssumption, OneServer, Late = {},
         KubernetesTypeOK, TypeOK, StoreInv, [Next]_storeVars, ListInv, GoneInv,
         [KubernetesNext]_vars
  PROVE  GoneInv'
  <1>0. ClusterOK /\ TicksOK
    BY TypeParts
  <1>1. ASSUME NEW m \in Servers, Tick(m)
        PROVE  GoneInv'
    <2>1. SUFFICES NothingInFlight' /\ CleanupMeansGone' /\ RemovedIsGone(tick[m])'
      BY DEF GoneInv, OneServer
    <2>2. ListCurrent(tick[m], attempt)
      BY DEF ListInv
    <2>3. CASE TickLaunch(m) \/ \E b \in AttemptIds : TickOrphan(m, b) \/ TickAttempt(m, b)
      <3>1. UNCHANGED attempt
        BY <2>3 DEF TickLaunch, TickOrphan, TickAttempt, storeVars
      <3> QED BY <2>2, <2>3, <3>1, TickCallGone
    <2>4. CASE \/ TickRead(m) \/ TickInventory(m) \/ TickCommit(m)
               \/ \E r \in Runs, a \in AttemptIds : TickAdmit(m, r, a)
               \/ TickLaunched(m) \/ TickEnd(m) \/ TickFails(m)
      BY <2>4, TickQuietGone
    <2> QED BY <1>1, <2>3, <2>4 DEF Tick
  <1>2. CASE RowsOn /\ UNCHANGED <<tick, clusterVars>>
    <2>1. NothingInFlight' /\ CleanupMeansGone'
      BY <1>2, SameCleanupsGone DEF RowsOn, RowOn, PlaceKept, SameColumns
    <2>2. \A m \in Servers : RemovedIsGone(tick[m])'
      BY <1>2 DEF GoneInv, RemovedIsGone, Gone, clusterVars
    <2> QED BY <2>1, <2>2 DEF GoneInv
  <1>3. ASSUME NEW m \in Servers, Leader(m)
        PROVE  GoneInv'
    <2>1. UNCHANGED attempt /\ UNCHANGED clusterVars
      BY <1>3 DEF Leader, Refresh, RefreshFails, LinkBreaks, Crash, storeVars
    <2>2. CASE Crash(m)
      <3>1. tick'[m] = Idle
        BY <1>0, <2>2 DEF Crash, TicksOK
      <3>2. RemovedIsGone(tick[m])'
        BY <3>1, NotRemoving DEF Idle
      <3>3. NothingInFlight' /\ CleanupMeansGone'
        BY <2>1, SameCleanupsGone
      <3> QED BY <3>2, <3>3 DEF GoneInv, OneServer
    <2>3. CASE ~Crash(m)
      <3>1. UNCHANGED tick
        BY <1>3, <2>3 DEF Leader, Refresh, RefreshFails, LinkBreaks
      <3> QED BY <1>2, <2>1, <3>1, SameRowsOn
    <2> QED BY <2>2, <2>3
  <1>4. ASSUME NEW b \in AttemptIds, Cluster(b)
        PROVE  GoneInv'
    <2>1. UNCHANGED attempt /\ UNCHANGED tick
      BY <1>4 DEF Cluster, PodStarts, JobFinishes, JobLost, Collected, LateCreate, storeVars
    <2>2. NothingInFlight' /\ \A a \in AttemptIds : Gone(a) => Gone(a)'
      BY <1>0, <1>4, ClusterKeepsGone DEF GoneInv
    <2>3. CleanupMeansGone'
      BY <2>1, <2>2 DEF GoneInv, CleanupMeansGone, Gone
    <2>4. ASSUME NEW m \in Servers
          PROVE  RemovedIsGone(tick[m])'
      <3>1. CASE tick[m].pc = "commit" /\ tick[m].plan[tick[m].current] = "remove"
        <4> DEFINE a == tick[m].current
        <4>1. a \in AttemptIds
          BY <1>0, <3>1, PlanDomain DEF TicksOK, TickOK
        <4>2. Gone(a)
          BY <3>1 DEF GoneInv, RemovedIsGone
        <4>3. job'[a] = "absent" /\ ~pod'[a]
          BY <2>2, <4>1, <4>2 DEF Gone
        <4> QED BY <2>1, <4>3 DEF RemovedIsGone, Gone
      <3>2. CASE ~(tick[m].pc = "commit" /\ tick[m].plan[tick[m].current] = "remove")
        BY <2>1, <3>2, NotRemoving
      <3> QED BY <3>1, <3>2
    <2> QED BY <2>2, <2>3, <2>4 DEF GoneInv
  <1>5. CASE Unplaced /\ UNCHANGED kubernetesVars
    BY <1>2, <1>5, UnplacedRowsOn DEF kubernetesVars, clusterVars
  <1>6. CASE UNCHANGED vars
    BY <1>2, <1>6, SameRowsOn DEF vars, clusterVars
  <1> QED BY <1>1, <1>3, <1>4, <1>5, <1>6 DEF KubernetesNext

\* With one server whose create requests do not outlive their callers, a
\* confirmed cleanup stays true: no tick launches, from rows it has read
\* earlier, what another step cleans up meanwhile (kubernetes_runtime).
THEOREM CleanedStaysGone ==
  ASSUME OneServer, Late = {}
  PROVE  KubernetesSpec => []CleanupMeansGone
  <1> USE KubernetesAssumption, StoreAssumption
  <1>1. KubernetesInit => GoneInv
    BY NotRemoving DEF KubernetesInit, GoneInv, NothingInFlight, CleanupMeansGone,
                       RemovedIsGone, Gone, Idle
  <1>2. KubernetesSpec => []TypeOK /\ [][Next]_storeVars
    BY ControllerImplementsStore, TypeCorrect, PTL DEF ImplementsAttemptStore, Spec
  <1>3. KubernetesTypeOK /\ TypeOK /\ StoreInv /\ [Next]_storeVars /\ ListInv /\ GoneInv
          /\ [KubernetesNext]_vars => GoneInv'
    BY GoneStep
  <1>4. GoneInv => CleanupMeansGone
    BY DEF GoneInv
  <1> QED BY <1>1, <1>2, <1>3, <1>4, KubernetesTypeCorrect, KubernetesConsistent,
             ListsCurrent, PTL DEF KubernetesSpec
=============================================================================
