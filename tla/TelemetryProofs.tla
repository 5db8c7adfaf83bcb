-------------------------- MODULE TelemetryProofs --------------------------
(***************************************************************************)
(* Proofs about telemetry on its way from the experiment to a reader: the  *)
(* metric file is read line by line whatever the polls, the reporter loses *)
(* no record without saying so, and a reader that follows a cursor sees    *)
(* every record that is committed, once and in order.                      *)
(***************************************************************************)
EXTENDS TelemetryReporter, MetricReader, CursorReads, DataLemmas,
        SequenceTheorems

-----------------------------------------------------------------------------
(***************************************************************************)
(* TelemetryReporter: for every buffer limit and every batch size.         *)
(***************************************************************************)

Records == [seq : Nat, size : Nat, item : Nat, lost : Nat]

-----------------------------------------------------------------------------
(* The folds over records *)

\* SizeOf adds the sizes, one record after the other.
LEMMA SizeSteps ==
  ASSUME NEW q \in Seq(Records)
  PROVE  \E h \in [0..Len(q) -> Nat] :
           /\ h[0] = 0 /\ h[Len(q)] = SizeOf(q)
           /\ \A k \in 1..Len(q) : h[k] = h[k - 1] + q[k].size
  <1> DEFINE n == Len(q)
             Eq(g) == g = [s \in SUBSET DOMAIN q |->
                             IF s = {} THEN 0
                             ELSE g[s \ {Max(s)}] + q[Max(s)].size]
             f == CHOOSE g : Eq(g)
             step == [k \in 1..n |-> [v \in Nat |-> v + q[k].size]]
  <1>1. SizeOf(q) = f[DOMAIN q]
    BY DEF SizeOf, FoldLeft, MapThenFoldSet
  <1>2. n \in Nat /\ DOMAIN q = 1..n /\ \A k \in 1..n : q[k].size \in Nat
    <2>1. \A k \in 1..n : q[k] \in Records
      BY ElementOfSeq
    <2> QED BY <2>1, LenProperties DEF Records
  <1> HIDE DEF n
  <1>3. step \in [1..n -> [Nat -> Nat]]
        /\ \A v \in Nat, k \in 1..n : step[k][v] = v + q[k].size
    BY <1>2
  <1> HIDE DEF step
  <1>4. \A s \in SUBSET (1..n) : s # {} => Max(s) \in 1..n /\ s \ {Max(s)} \in SUBSET (1..n)
    BY <1>2, Largest
  <1>5. n \in Nat /\ 0 \in Nat /\ step \in [1..n -> [Nat -> Nat]]
    BY <1>2, <1>3
  <1>6. PICK g \in [SUBSET (1..n) -> Nat] : IsFold(g, n, 0, step)
    BY <1>5, FoldExists
  <1>7. g = [s \in SUBSET (1..n) |->
               IF s = {} THEN 0 ELSE g[s \ {Max(s)}] + q[Max(s)].size]
    <2>1. ASSUME NEW s \in SUBSET (1..n), s # {}
          PROVE  g[s] = g[s \ {Max(s)}] + q[Max(s)].size
      <3>1. Max(s) \in 1..n /\ g[s \ {Max(s)}] \in Nat
        BY <1>4, <2>1
      <3>2. g[s] = step[Max(s)][g[s \ {Max(s)}]]
        BY <1>6, <2>1 DEF IsFold
      <3> QED BY <1>3, <3>1, <3>2
    <2>2. g[{}] = 0
      BY <1>6 DEF IsFold
    <2> QED BY <2>1, <2>2
  <1>8. Eq(f)
    <2>1. Eq(g)
      BY <1>2, <1>7
    <2> QED BY <2>1
  <1> HIDE DEF f
  <1>9. \A s \in SUBSET (1..n) :
          f[s] = IF s = {} THEN 0 ELSE f[s \ {Max(s)}] + q[Max(s)].size
    BY <1>2, <1>8
  <1> HIDE DEF Eq
  <1>10. IsFoldOn(f, n, Nat, 0, step)
    BY <1>3, <1>4, <1>9 DEF IsFoldOn
  <1>11. PICK h \in [0..n -> Nat] : IsChain(h, n, 0, step, f[1..n])
    BY <1>5, <1>10, FoldChain
  <1>12. \A k \in 1..n : h[k] = h[k - 1] + q[k].size
    <2>1. ASSUME NEW k \in 1..n PROVE h[k] = h[k - 1] + q[k].size
      <3>1. k - 1 \in 0..n
        BY <1>2
      <3>2. h[k - 1] \in Nat
        BY <3>1
      <3> QED BY <1>3, <1>11, <3>2 DEF IsChain
    <2> QED BY <2>1
  <1> QED BY <1>1, <1>2, <1>11, <1>12 DEF n, IsChain

\* LostIn adds what the notices say is lost.
LEMMA LostSteps ==
  ASSUME NEW q \in Seq(Records)
  PROVE  \E h \in [0..Len(q) -> Nat] :
           /\ h[0] = 0 /\ h[Len(q)] = LostIn(q)
           /\ \A k \in 1..Len(q) : h[k] = h[k - 1] + q[k].lost
  <1> DEFINE n == Len(q)
             Eq(g) == g = [s \in SUBSET DOMAIN q |->
                             IF s = {} THEN 0
                             ELSE g[s \ {Max(s)}] + q[Max(s)].lost]
             f == CHOOSE g : Eq(g)
             step == [k \in 1..n |-> [v \in Nat |-> v + q[k].lost]]
  <1>1. LostIn(q) = f[DOMAIN q]
    BY DEF LostIn, FoldLeft, MapThenFoldSet
  <1>2. n \in Nat /\ DOMAIN q = 1..n /\ \A k \in 1..n : q[k].lost \in Nat
    <2>1. \A k \in 1..n : q[k] \in Records
      BY ElementOfSeq
    <2> QED BY <2>1, LenProperties DEF Records
  <1> HIDE DEF n
  <1>3. step \in [1..n -> [Nat -> Nat]]
        /\ \A v \in Nat, k \in 1..n : step[k][v] = v + q[k].lost
    BY <1>2
  <1> HIDE DEF step
  <1>4. \A s \in SUBSET (1..n) : s # {} => Max(s) \in 1..n /\ s \ {Max(s)} \in SUBSET (1..n)
    BY <1>2, Largest
  <1>5. n \in Nat /\ 0 \in Nat /\ step \in [1..n -> [Nat -> Nat]]
    BY <1>2, <1>3
  <1>6. PICK g \in [SUBSET (1..n) -> Nat] : IsFold(g, n, 0, step)
    BY <1>5, FoldExists
  <1>7. g = [s \in SUBSET (1..n) |->
               IF s = {} THEN 0 ELSE g[s \ {Max(s)}] + q[Max(s)].lost]
    <2>1. ASSUME NEW s \in SUBSET (1..n), s # {}
          PROVE  g[s] = g[s \ {Max(s)}] + q[Max(s)].lost
      <3>1. Max(s) \in 1..n /\ g[s \ {Max(s)}] \in Nat
        BY <1>4, <2>1
      <3>2. g[s] = step[Max(s)][g[s \ {Max(s)}]]
        BY <1>6, <2>1 DEF IsFold
      <3> QED BY <1>3, <3>1, <3>2
    <2>2. g[{}] = 0
      BY <1>6 DEF IsFold
    <2> QED BY <2>1, <2>2
  <1>8. Eq(f)
    <2>1. Eq(g)
      BY <1>2, <1>7
    <2> QED BY <2>1
  <1> HIDE DEF f
  <1>9. \A s \in SUBSET (1..n) :
          f[s] = IF s = {} THEN 0 ELSE f[s \ {Max(s)}] + q[Max(s)].lost
    BY <1>2, <1>8
  <1> HIDE DEF Eq
  <1>10. IsFoldOn(f, n, Nat, 0, step)
    BY <1>3, <1>4, <1>9 DEF IsFoldOn
  <1>11. PICK h \in [0..n -> Nat] : IsChain(h, n, 0, step, f[1..n])
    BY <1>5, <1>10, FoldChain
  <1>12. \A k \in 1..n : h[k] = h[k - 1] + q[k].lost
    <2>1. ASSUME NEW k \in 1..n PROVE h[k] = h[k - 1] + q[k].lost
      <3>1. k - 1 \in 0..n
        BY <1>2
      <3>2. h[k - 1] \in Nat
        BY <3>1
      <3> QED BY <1>3, <1>11, <3>2 DEF IsChain
    <2> QED BY <2>1
  <1> QED BY <1>1, <1>2, <1>11, <1>12 DEF n, IsChain

\* Persist looks at one record after the other.
LEMMA PersistSteps ==
  ASSUME store \in Seq(Records), NEW q \in Seq(Records)
  PROVE  \E h \in [0..Len(q) -> Seq(Records)] :
           /\ h[0] = store /\ h[Len(q)] = Persist(q)
           /\ \A k \in 1..Len(q) : h[k] = IF q[k].seq = Len(h[k - 1]) + 1
                                          THEN Append(h[k - 1], q[k])
                                          ELSE h[k - 1]
  <1> DEFINE n == Len(q)
             Eq(g) == g = [s \in SUBSET DOMAIN q |->
                             IF s = {} THEN store
                             ELSE IF q[Max(s)].seq = Len(g[s \ {Max(s)}]) + 1
                                  THEN Append(g[s \ {Max(s)}], q[Max(s)])
                                  ELSE g[s \ {Max(s)}]]
             f == CHOOSE g : Eq(g)
             step == [k \in 1..n |-> [v \in Seq(Records) |-> IF q[k].seq = Len(v) + 1
                                                             THEN Append(v, q[k])
                                                             ELSE v]]
  <1>1. Persist(q) = f[DOMAIN q]
    BY DEF Persist, FoldLeft, MapThenFoldSet
  <1>2. n \in Nat /\ DOMAIN q = 1..n /\ \A k \in 1..n : q[k] \in Records
    <2>1. \A k \in 1..n : q[k] \in Records
      BY ElementOfSeq
    <2> QED BY <2>1, LenProperties
  <1> HIDE DEF n
  <1>3. step \in [1..n -> [Seq(Records) -> Seq(Records)]]
        /\ \A v \in Seq(Records), k \in 1..n : step[k][v] = IF q[k].seq = Len(v) + 1
                                                            THEN Append(v, q[k])
                                                            ELSE v
    <2>1. ASSUME NEW v \in Seq(Records), NEW k \in 1..n
          PROVE  (IF q[k].seq = Len(v) + 1 THEN Append(v, q[k]) ELSE v) \in Seq(Records)
      <3>1. q[k] \in Records
        BY <1>2
      <3> QED BY <3>1
    <2> QED BY <2>1
  <1> HIDE DEF step
  <1>4. \A s \in SUBSET (1..n) : s # {} => Max(s) \in 1..n /\ s \ {Max(s)} \in SUBSET (1..n)
    BY <1>2, Largest
  <1>5. n \in Nat /\ store \in Seq(Records) /\ step \in [1..n -> [Seq(Records) -> Seq(Records)]]
    BY <1>2, <1>3
  <1>6. PICK g \in [SUBSET (1..n) -> Seq(Records)] : IsFold(g, n, store, step)
    BY <1>5, FoldExists
  <1>7. g = [s \in SUBSET (1..n) |->
               IF s = {} THEN store
               ELSE IF q[Max(s)].seq = Len(g[s \ {Max(s)}]) + 1
                    THEN Append(g[s \ {Max(s)}], q[Max(s)])
                    ELSE g[s \ {Max(s)}]]
    <2>1. ASSUME NEW s \in SUBSET (1..n), s # {}
          PROVE  g[s] = IF q[Max(s)].seq = Len(g[s \ {Max(s)}]) + 1
                        THEN Append(g[s \ {Max(s)}], q[Max(s)])
                        ELSE g[s \ {Max(s)}]
      <3>1. Max(s) \in 1..n /\ g[s \ {Max(s)}] \in Seq(Records)
        BY <1>4, <2>1
      <3>2. g[s] = step[Max(s)][g[s \ {Max(s)}]]
        BY <1>6, <2>1 DEF IsFold
      <3> QED BY <1>3, <3>1, <3>2
    <2>2. g[{}] = store
      BY <1>6 DEF IsFold
    <2> QED BY <2>1, <2>2
  <1>8. Eq(f)
    <2>1. Eq(g)
      BY <1>2, <1>7
    <2> QED BY <2>1
  <1> HIDE DEF f
  <1>9. \A s \in SUBSET (1..n) :
          f[s] = IF s = {} THEN store
                 ELSE IF q[Max(s)].seq = Len(f[s \ {Max(s)}]) + 1
                      THEN Append(f[s \ {Max(s)}], q[Max(s)])
                      ELSE f[s \ {Max(s)}]
    BY <1>2, <1>8
  <1> HIDE DEF Eq
  <1>10. IsFoldOn(f, n, Seq(Records), store, step)
    BY <1>3, <1>4, <1>9 DEF IsFoldOn
  <1>11. PICK h \in [0..n -> Seq(Records)] : IsChain(h, n, store, step, f[1..n])
    BY <1>5, <1>10, FoldChain
  <1>12. \A k \in 1..n : h[k] = IF q[k].seq = Len(h[k - 1]) + 1
                                THEN Append(h[k - 1], q[k])
                                ELSE h[k - 1]
    <2>1. ASSUME NEW k \in 1..n PROVE h[k] = IF q[k].seq = Len(h[k - 1]) + 1
                                             THEN Append(h[k - 1], q[k])
                                             ELSE h[k - 1]
      <3>1. k - 1 \in 0..n
        BY <1>2
      <3>2. h[k - 1] \in Seq(Records)
        BY <3>1
      <3> QED BY <1>3, <1>11, <3>2 DEF IsChain
    <2> QED BY <2>1
  <1> QED BY <1>1, <1>2, <1>11, <1>12 DEF n, IsChain

\* Numbered looks at one queued record after the other.
LEMMA NumberedSteps ==
  ASSUME store \in Seq(Records), queue \in Seq(Records)
  PROVE  \E h \in [0..Len(queue) -> Seq(Records)] :
           /\ h[0] = store /\ h[Len(queue)] = Numbered
           /\ \A k \in 1..Len(queue) : h[k] = IF queue[k].seq > Len(store)
                                              THEN Append(h[k - 1], queue[k])
                                              ELSE h[k - 1]
  <1> DEFINE n == Len(queue)
             Eq(g) == g = [s \in SUBSET DOMAIN queue |->
                             IF s = {} THEN store
                             ELSE IF queue[Max(s)].seq > Len(store)
                                  THEN Append(g[s \ {Max(s)}], queue[Max(s)])
                                  ELSE g[s \ {Max(s)}]]
             f == CHOOSE g : Eq(g)
             step == [k \in 1..n |-> [v \in Seq(Records) |-> IF queue[k].seq > Len(store)
                                                             THEN Append(v, queue[k])
                                                             ELSE v]]
  <1>1. Numbered = f[DOMAIN queue]
    BY DEF Numbered, FoldLeft, MapThenFoldSet
  <1>2. n \in Nat /\ DOMAIN queue = 1..n /\ \A k \in 1..n : queue[k] \in Records
    <2>1. \A k \in 1..n : queue[k] \in Records
      BY ElementOfSeq
    <2> QED BY <2>1, LenProperties
  <1> HIDE DEF n
  <1>3. step \in [1..n -> [Seq(Records) -> Seq(Records)]]
        /\ \A v \in Seq(Records), k \in 1..n : step[k][v] = IF queue[k].seq > Len(store)
                                                            THEN Append(v, queue[k])
                                                            ELSE v
    <2>1. ASSUME NEW v \in Seq(Records), NEW k \in 1..n
          PROVE  (IF queue[k].seq > Len(store) THEN Append(v, queue[k]) ELSE v) \in Seq(Records)
      <3>1. queue[k] \in Records
        BY <1>2
      <3> QED BY <3>1
    <2> QED BY <2>1
  <1> HIDE DEF step
  <1>4. \A s \in SUBSET (1..n) : s # {} => Max(s) \in 1..n /\ s \ {Max(s)} \in SUBSET (1..n)
    BY <1>2, Largest
  <1>5. n \in Nat /\ store \in Seq(Records) /\ step \in [1..n -> [Seq(Records) -> Seq(Records)]]
    BY <1>2, <1>3
  <1>6. PICK g \in [SUBSET (1..n) -> Seq(Records)] : IsFold(g, n, store, step)
    BY <1>5, FoldExists
  <1>7. g = [s \in SUBSET (1..n) |->
               IF s = {} THEN store
               ELSE IF queue[Max(s)].seq > Len(store)
                    THEN Append(g[s \ {Max(s)}], queue[Max(s)])
                    ELSE g[s \ {Max(s)}]]
    <2>1. ASSUME NEW s \in SUBSET (1..n), s # {}
          PROVE  g[s] = IF queue[Max(s)].seq > Len(store)
                        THEN Append(g[s \ {Max(s)}], queue[Max(s)])
                        ELSE g[s \ {Max(s)}]
      <3>1. Max(s) \in 1..n /\ g[s \ {Max(s)}] \in Seq(Records)
        BY <1>4, <2>1
      <3>2. g[s] = step[Max(s)][g[s \ {Max(s)}]]
        BY <1>6, <2>1 DEF IsFold
      <3> QED BY <1>3, <3>1, <3>2
    <2>2. g[{}] = store
      BY <1>6 DEF IsFold
    <2> QED BY <2>1, <2>2
  <1>8. Eq(f)
    <2>1. Eq(g)
      BY <1>2, <1>7
    <2> QED BY <2>1
  <1> HIDE DEF f
  <1>9. \A s \in SUBSET (1..n) :
          f[s] = IF s = {} THEN store
                 ELSE IF queue[Max(s)].seq > Len(store)
                      THEN Append(f[s \ {Max(s)}], queue[Max(s)])
                      ELSE f[s \ {Max(s)}]
    BY <1>2, <1>8
  <1> HIDE DEF Eq
  <1>10. IsFoldOn(f, n, Seq(Records), store, step)
    BY <1>3, <1>4, <1>9 DEF IsFoldOn
  <1>11. PICK h \in [0..n -> Seq(Records)] : IsChain(h, n, store, step, f[1..n])
    BY <1>5, <1>10, FoldChain
  <1>12. \A k \in 1..n : h[k] = IF queue[k].seq > Len(store)
                                THEN Append(h[k - 1], queue[k])
                                ELSE h[k - 1]
    <2>1. ASSUME NEW k \in 1..n PROVE h[k] = IF queue[k].seq > Len(store)
                                             THEN Append(h[k - 1], queue[k])
                                             ELSE h[k - 1]
      <3>1. k - 1 \in 0..n
        BY <1>2
      <3>2. h[k - 1] \in Seq(Records)
        BY <3>1
      <3> QED BY <1>3, <1>11, <3>2 DEF IsChain
    <2> QED BY <2>1
  <1> QED BY <1>1, <1>2, <1>11, <1>12 DEF n, IsChain

\* What SizeOf and LostIn are, as sums.
SizesOf(q) == [k \in 1..Len(q) |-> q[k].size]
LossesIn(q) == [k \in 1..Len(q) |-> q[k].lost]

LEMMA SizeSum ==
  ASSUME NEW q \in Seq(Records)
  PROVE  SumTo(SizesOf(q), Len(q), SizeOf(q)) /\ \A k \in 1..Len(q) : SizesOf(q)[k] \in Nat
  <1>1. \A k \in 1..Len(q) : q[k] \in Records /\ SizesOf(q)[k] = q[k].size
    BY ElementOfSeq DEF SizesOf
  <1>2. \E h \in [0..Len(q) -> Nat] :
          /\ h[0] = 0 /\ h[Len(q)] = SizeOf(q)
          /\ \A k \in 1..Len(q) : h[k] = h[k - 1] + SizesOf(q)[k]
    BY <1>1, SizeSteps
  <1> QED BY <1>1, <1>2 DEF SumTo, Records

LEMMA LostSum ==
  ASSUME NEW q \in Seq(Records)
  PROVE  SumTo(LossesIn(q), Len(q), LostIn(q)) /\ \A k \in 1..Len(q) : LossesIn(q)[k] \in Nat
  <1>1. \A k \in 1..Len(q) : q[k] \in Records /\ LossesIn(q)[k] = q[k].lost
    BY ElementOfSeq DEF LossesIn
  <1>2. \E h \in [0..Len(q) -> Nat] :
          /\ h[0] = 0 /\ h[Len(q)] = LostIn(q)
          /\ \A k \in 1..Len(q) : h[k] = h[k - 1] + LossesIn(q)[k]
    BY <1>1, LostSteps
  <1> QED BY <1>1, <1>2 DEF SumTo, Records

\* A sequence and one more record.
LEMMA OneMore ==
  ASSUME NEW q \in Seq(Records), NEW r \in Records
  PROVE  /\ Append(q, r) \in Seq(Records) /\ Len(Append(q, r)) = Len(q) + 1
         /\ Len(q) \in Nat /\ Append(q, r)[Len(q) + 1] = r
         /\ \A k \in 1..Len(q) : Append(q, r)[k] = q[k]
  OBVIOUS

LEMMA SizeFacts ==
  ASSUME NEW q \in Seq(Records)
  PROVE  /\ SizeOf(q) \in Nat /\ (q = <<>> => SizeOf(q) = 0)
         /\ \A r \in Records : SizeOf(Append(q, r)) = SizeOf(q) + r.size
  <1>1. SizeOf(q) \in Nat
    BY SizeSum DEF SumTo
  <1>2. ASSUME q = <<>> PROVE SizeOf(q) = 0
    BY <1>2, SizeSum, SumEmpty
  <1>3. ASSUME NEW r \in Records PROVE SizeOf(Append(q, r)) = SizeOf(q) + r.size
    <2> DEFINE p == Append(q, r)
               n == Len(q)
    <2>1. /\ p \in Seq(Records) /\ Len(p) = n + 1 /\ n \in Nat /\ p[n + 1] = r
          /\ \A k \in 1..n : p[k] = q[k]
      BY OneMore
    <2> HIDE DEF p, n
    <2>2. SumTo(SizesOf(p), n + 1, SizeOf(p)) /\ \A k \in 1..(n + 1) : SizesOf(p)[k] \in Nat
      BY <2>1, SizeSum
    <2>3. SumTo(SizesOf(q), n, SizeOf(q))
      BY SizeSum DEF n
    <2>4. \A k \in 1..n : SizesOf(q)[k] = SizesOf(p)[k]
      BY <2>1 DEF SizesOf, n
    <2>5. SizesOf(p)[n + 1] = r.size
      BY <2>1 DEF SizesOf
    <2>6. SizeOf(p) = SizeOf(q) + SizesOf(p)[n + 1]
      BY <2>1, <2>2, <2>3, <2>4, SumMore
    <2> QED BY <2>5, <2>6 DEF p
  <1> QED BY <1>1, <1>2, <1>3

LEMMA LostFacts ==
  ASSUME NEW q \in Seq(Records)
  PROVE  /\ LostIn(q) \in Nat /\ (q = <<>> => LostIn(q) = 0)
         /\ \A r \in Records : LostIn(Append(q, r)) = LostIn(q) + r.lost
  <1>1. LostIn(q) \in Nat
    BY LostSum DEF SumTo
  <1>2. ASSUME q = <<>> PROVE LostIn(q) = 0
    BY <1>2, LostSum, SumEmpty
  <1>3. ASSUME NEW r \in Records PROVE LostIn(Append(q, r)) = LostIn(q) + r.lost
    <2> DEFINE p == Append(q, r)
               n == Len(q)
    <2>1. /\ p \in Seq(Records) /\ Len(p) = n + 1 /\ n \in Nat /\ p[n + 1] = r
          /\ \A k \in 1..n : p[k] = q[k]
      BY OneMore
    <2> HIDE DEF p, n
    <2>2. SumTo(LossesIn(p), n + 1, LostIn(p)) /\ \A k \in 1..(n + 1) : LossesIn(p)[k] \in Nat
      BY <2>1, LostSum
    <2>3. SumTo(LossesIn(q), n, LostIn(q))
      BY LostSum DEF n
    <2>4. \A k \in 1..n : LossesIn(q)[k] = LossesIn(p)[k]
      BY <2>1 DEF LossesIn, n
    <2>5. LossesIn(p)[n + 1] = r.lost
      BY <2>1 DEF LossesIn
    <2>6. LostIn(p) = LostIn(q) + LossesIn(p)[n + 1]
      BY <2>1, <2>2, <2>3, <2>4, SumMore
    <2> QED BY <2>5, <2>6 DEF p
  <1> QED BY <1>1, <1>2, <1>3

\* The size of a queue is that of its front and of what is left.
LEMMA SizeCut ==
  ASSUME NEW q \in Seq(Records), NEW p \in 0..Len(q)
  PROVE  /\ SubSeq(q, 1, p) \in Seq(Records) /\ SubSeq(q, p + 1, Len(q)) \in Seq(Records)
         /\ SizeOf(q) = SizeOf(SubSeq(q, 1, p)) + SizeOf(SubSeq(q, p + 1, Len(q)))
  <1> DEFINE n == Len(q)
             m == n - p
             front == SubSeq(q, 1, p)
             left == SubSeq(q, p + 1, n)
  <1>1. n \in Nat /\ p \in Nat /\ m \in Nat /\ n = p + m
    BY LenProperties
  <1>2. \A k \in 1..n : q[k] \in Records
    BY ElementOfSeq
  <1>3. /\ front \in Seq(Records) /\ Len(front) = p
        /\ \A k \in 1..p : front[k] = q[k]
    BY <1>1, <1>2, SubSeqProperties
  <1>4. /\ left \in Seq(Records) /\ Len(left) = m
        /\ \A k \in 1..m : left[k] = q[p + k]
    <2>1. p + 1 \in Int /\ n \in Int /\ \A k \in (p + 1)..n : q[k] \in Records
      BY <1>1, <1>2
    <2>2. /\ left \in Seq(Records)
          /\ Len(left) = IF p + 1 <= n THEN n - (p + 1) + 1 ELSE 0
          /\ \A k \in 1..(n - (p + 1) + 1) : left[k] = q[(p + 1) + k - 1]
      <3> HIDE DEF n
      <3> QED BY <2>1, SubSeqProperties
    <2> HIDE DEF n, m, left
    <2>3. n - (p + 1) + 1 = m /\ (~(p + 1 <= n) => m = 0)
      BY <1>1
    <2>4. \A k \in 1..m : (p + 1) + k - 1 = p + k
      BY <1>1
    <2> QED BY <1>1, <2>2, <2>3, <2>4
  <1> HIDE DEF n, m, front, left
  <1>5. SumTo(SizesOf(q), n, SizeOf(q)) /\ \A k \in 1..n : SizesOf(q)[k] \in Nat
    BY SizeSum DEF n
  <1>6. SumTo(SizesOf(front), p, SizeOf(front)) /\ SumTo(SizesOf(left), m, SizeOf(left))
    BY <1>3, <1>4, SizeSum
  <1>7. \A k \in 1..p : SizesOf(front)[k] = SizesOf(q)[k]
    <2>1. \A k \in 1..p : k \in 1..n
      BY <1>1
    <2> QED BY <1>3, <2>1 DEF SizesOf, n
  <1>8. \A k \in 1..m : SizesOf(left)[k] = SizesOf(q)[p + k]
    <2>1. \A k \in 1..m : p + k \in 1..n
      BY <1>1
    <2> QED BY <1>4, <2>1 DEF SizesOf, n
  <1>9. SizeOf(q) = SizeOf(front) + SizeOf(left)
    <2>1. Joins(SizesOf(q), n, SizesOf(front), p, SizesOf(left), m)
      BY <1>1, <1>5, <1>7, <1>8 DEF Joins
    <2> DEFINE w == SizesOf(q)
               v == SizesOf(front)
               x == SizesOf(left)
    <2>2. /\ Joins(w, n, v, p, x, m) /\ SumTo(w, n, SizeOf(q))
          /\ SumTo(v, p, SizeOf(front)) /\ SumTo(x, m, SizeOf(left))
      BY <1>5, <1>6, <2>1
    <2> HIDE DEF w, v, x
    <2> QED BY <2>2, SumSplit, SMT
  <1> QED BY <1>3, <1>4, <1>9 DEF front, left, n

-----------------------------------------------------------------------------
(* The invariant, of the sequence `all` of every record numbered so far     *)

\* s is the beginning of all.
Begins(s, all) ==
  s \in Seq(Records) /\ Len(s) <= Len(all) /\ \A k \in 1..Len(s) : s[k] = all[k]

\* s is the piece of all behind its first m records.
Piece(s, all, m) ==
  /\ s \in Seq(Records) /\ m \in Nat /\ m + Len(s) <= Len(all)
  /\ \A k \in 1..Len(s) : s[k] = all[m + k]

Types ==
  {bytes, dropped, nextSeq, produced, answer} \subseteq Nat /\ nextSeq >= 1

\* Record i has number i, and the items of the main thread are in order.
InOrderFrom(all) ==
  /\ all \in Seq(Records) /\ Len(all) + 1 = nextSeq
  /\ \A i \in 1..Len(all) : all[i].seq = i /\ all[i].item <= produced
  /\ \A i, j \in 1..Len(all) :
       i < j /\ all[i].item > 0 /\ all[j].item > 0 => all[i].item < all[j].item

\* The store has a beginning, the queue an end, and no record is in neither.
\* What the sender has taken, or a late call still carries, is a piece.
Covered(all) ==
  /\ Begins(store, all)
  /\ Piece(queue, all, Len(all) - Len(queue))
  /\ Len(all) - Len(queue) <= Len(store)
  /\ \E m \in Nat : Piece(batch, all, m)
  /\ \E m \in Nat : Piece(lateBatch, all, m)
  /\ answer <= Len(store)

\* What was dropped is counted, in a notice or until there is room for one.
Counted(all) ==
  /\ main # "threw" => Cardinality(ItemsIn(all)) + LostIn(all) + dropped = produced
  /\ bytes = SizeOf(queue) /\ bytes <= Limit
  /\ queue = <<>> => dropped = 0
  /\ main = "returned" => queue = <<>>

Known(all) == InOrderFrom(all) /\ Covered(all) /\ Counted(all)

ReporterInv == Types /\ \E all \in Seq(Records) : Known(all)

\* Storing a piece leaves a beginning of all, as long as the old one or longer.
LEMMA PersistBegins ==
  ASSUME NEW all \in Seq(Records), \A i \in 1..Len(all) : all[i].seq = i,
         Begins(store, all), NEW q, NEW m, Piece(q, all, m)
  PROVE  Begins(Persist(q), all) /\ Len(store) <= Len(Persist(q))
  <1>1. /\ store \in Seq(Records) /\ q \in Seq(Records) /\ Len(q) \in Nat
        /\ Len(store) \in Nat /\ Len(all) \in Nat
    BY LenProperties DEF Begins, Piece
  <1>2. PICK h \in [0..Len(q) -> Seq(Records)] :
          /\ h[0] = store /\ h[Len(q)] = Persist(q)
          /\ \A k \in 1..Len(q) :
               h[k] = IF q[k].seq = Len(h[k - 1]) + 1 THEN Append(h[k - 1], q[k])
                      ELSE h[k - 1]
    BY <1>1, PersistSteps
  <1> DEFINE T == {k \in 0..Len(q) : Begins(h[k], all) /\ Len(store) <= Len(h[k])}
  <1>3. 0 \in T
    BY <1>1, <1>2
  <1>4. ASSUME NEW k \in 1..Len(q), k - 1 \in T PROVE k \in T
    <2> DEFINE s == h[k - 1]
    <2>1. s \in Seq(Records) /\ Begins(s, all) /\ Len(store) <= Len(s)
      BY <1>4 DEF Begins
    <2>2. h[k] = IF q[k].seq = Len(s) + 1 THEN Append(s, q[k]) ELSE s
      BY <1>2
    <2>3. q[k] \in Records /\ q[k] = all[m + k] /\ m + k \in 1..Len(all)
      BY <1>1, ElementOfSeq DEF Piece
    <2>4. k \in 0..Len(q)
      BY <1>1
    <2> HIDE DEF s
    <2>5. CASE q[k].seq = Len(s) + 1
      <3>1. Len(s) + 1 = m + k /\ q[k] = all[Len(s) + 1]
        BY <2>3, <2>5
      <3>2. /\ Append(s, q[k]) \in Seq(Records) /\ Len(Append(s, q[k])) = Len(s) + 1
            /\ Len(s) \in Nat /\ Append(s, q[k])[Len(s) + 1] = q[k]
            /\ \A i \in 1..Len(s) : Append(s, q[k])[i] = s[i]
        BY <2>1, <2>3, OneMore
      <3>3. Len(s) + 1 <= Len(all)
        BY <2>3, <3>1
      <3>4. \A i \in 1..(Len(s) + 1) : Append(s, q[k])[i] = all[i]
        <4>1. ASSUME NEW i \in 1..(Len(s) + 1) PROVE Append(s, q[k])[i] = all[i]
          <5>1. i \in 1..Len(s) \/ i = Len(s) + 1
            BY <3>2
          <5> QED BY <2>1, <3>1, <3>2, <5>1 DEF Begins
        <4> QED BY <4>1
      <3>5. Begins(h[k], all)
        BY <2>2, <2>5, <3>2, <3>3, <3>4 DEF Begins
      <3>6. Len(store) <= Len(h[k])
        BY <1>1, <2>1, <2>2, <2>5, <3>2
      <3> QED BY <2>4, <3>5, <3>6
    <2>6. CASE q[k].seq # Len(s) + 1
      BY <2>1, <2>2, <2>4, <2>6
    <2> QED BY <2>5, <2>6
  <1>5. \A k \in 0..Len(q) : k \in T
    <2> HIDE DEF T
    <2> QED BY <1>1, <1>3, <1>4, InductUpTo
  <1>6. Len(q) \in T
    BY <1>1, <1>5
  <1> QED BY <1>2, <1>6

\* A beginning that is as long as all is all.
LEMMA BeginsIsAll ==
  ASSUME NEW all \in Seq(Records), NEW s, Begins(s, all), Len(s) = Len(all)
  PROVE  s = all
  BY SeqEqual DEF Begins

\* What is stored and then what is queued and not stored yet is everything.
LEMMA NumberedIsAll ==
  ASSUME NEW all \in Seq(Records), \A i \in 1..Len(all) : all[i].seq = i,
         Begins(store, all), Piece(queue, all, Len(all) - Len(queue)),
         Len(all) - Len(queue) <= Len(store)
  PROVE  Numbered = all
  <1> DEFINE n == Len(queue)
             m == Len(all) - n
             c == Len(store)
  <1>1. /\ store \in Seq(Records) /\ queue \in Seq(Records)
        /\ n \in Nat /\ m \in Nat /\ c \in Nat /\ Len(all) \in Nat
        /\ m + n = Len(all) /\ m <= c /\ c <= Len(all)
    BY LenProperties DEF Begins, Piece
  <1>2. PICK h \in [0..n -> Seq(Records)] :
          /\ h[0] = store /\ h[n] = Numbered
          /\ \A k \in 1..n :
               h[k] = IF queue[k].seq > c THEN Append(h[k - 1], queue[k]) ELSE h[k - 1]
    BY <1>1, NumberedSteps
  <1>3. \A k \in 1..n : queue[k] = all[m + k] /\ queue[k] \in Records
    BY <1>1, ElementOfSeq DEF Piece
  <1> HIDE DEF n, m, c
  <1> DEFINE T == {k \in 0..n : /\ Begins(h[k], all)
                                /\ Len(h[k]) = IF m + k > c THEN m + k ELSE c}
  <1>4. 0 \in T
    BY <1>1, <1>2 DEF c
  <1>5. ASSUME NEW k \in 1..n, k - 1 \in T PROVE k \in T
    <2> DEFINE s == h[k - 1]
    <2>1. /\ s \in Seq(Records) /\ Begins(s, all)
          /\ Len(s) = IF m + (k - 1) > c THEN m + (k - 1) ELSE c
      BY <1>5 DEF Begins
    <2>2. h[k] = IF queue[k].seq > c THEN Append(s, queue[k]) ELSE s
      BY <1>2
    <2>3. queue[k] = all[m + k] /\ queue[k] \in Records /\ m + k \in 1..Len(all)
      BY <1>1, <1>3
    <2> HIDE DEF s, T
    <2>4. queue[k].seq = m + k /\ k \in 0..n
      BY SMTT(20), <1>1, <2>3
    <2> USE DEF T
    <2>5. CASE m + k > c
      <3>1. Len(s) + 1 = m + k
        BY <1>1, <2>1, <2>5
      <3>2. /\ Append(s, queue[k]) \in Seq(Records) /\ Len(Append(s, queue[k])) = Len(s) + 1
            /\ Len(s) \in Nat /\ Append(s, queue[k])[Len(s) + 1] = queue[k]
            /\ \A i \in 1..Len(s) : Append(s, queue[k])[i] = s[i]
        BY <2>1, <2>3, OneMore
      <3>3. \A i \in 1..(Len(s) + 1) : Append(s, queue[k])[i] = all[i]
        <4>1. ASSUME NEW i \in 1..(Len(s) + 1) PROVE Append(s, queue[k])[i] = all[i]
          <5>1. i \in 1..Len(s) \/ i = Len(s) + 1
            BY <3>2
          <5> QED BY <2>1, <2>3, <3>1, <3>2, <5>1 DEF Begins
        <4> QED BY <4>1
      <3>4. h[k] = Append(s, queue[k])
        BY <2>2, <2>4, <2>5
      <3>5. Begins(h[k], all)
        BY <2>3, <3>1, <3>2, <3>3, <3>4 DEF Begins
      <3>6. Len(h[k]) = m + k
        BY <3>1, <3>2, <3>4
      <3> QED BY <2>4, <2>5, <3>5, <3>6
    <2>6. CASE ~(m + k > c)
      <3>1. h[k] = s
        BY <2>2, <2>4, <2>6
      <3>2. Len(s) = c
        BY <1>1, <2>1, <2>4, <2>6
      <3> QED BY <2>1, <2>4, <2>6, <3>1, <3>2
    <2> QED BY <2>5, <2>6
  <1>6. \A k \in 0..n : k \in T
    <2> HIDE DEF T
    <2> QED BY <1>1, <1>4, <1>5, InductUpTo
  <1>7. n \in T
    BY <1>1, <1>6
  <1>8. Begins(h[n], all) /\ Len(h[n]) = Len(all)
    BY <1>1, <1>7
  <1> QED BY <1>2, <1>8, BeginsIsAll

\* One more numbered record.
LEMMA Grown ==
  ASSUME NEW all \in Seq(Records), NEW r \in Records
  PROVE  /\ Append(all, r) \in Seq(Records) /\ Len(Append(all, r)) = Len(all) + 1
         /\ \A s : Begins(s, all) => Begins(s, Append(all, r))
         /\ \A q, m : Piece(q, all, m) => Piece(q, Append(all, r), m)
         /\ \A q : Piece(q, all, Len(all) - Len(q)) =>
                     Piece(Append(q, r), Append(all, r), Len(all) - Len(q))
  <1> DEFINE more == Append(all, r)
             n == Len(all)
  <1>1. /\ more \in Seq(Records) /\ Len(more) = n + 1 /\ n \in Nat /\ more[n + 1] = r
        /\ \A k \in 1..n : more[k] = all[k]
    BY OneMore
  <1> HIDE DEF more
  <1>2. ASSUME NEW s, Begins(s, all) PROVE Begins(s, more)
    <2>1. s \in Seq(Records) /\ Len(s) \in Nat /\ Len(s) <= n
      BY <1>2, LenProperties DEF Begins
    <2>2. \A k \in 1..Len(s) : k \in 1..n /\ s[k] = more[k]
      BY <1>1, <1>2, <2>1 DEF Begins
    <2>3. Len(s) <= Len(more)
      BY <1>1, <2>1
    <2> QED BY <2>1, <2>2, <2>3 DEF Begins
  <1>3. ASSUME NEW q, NEW m, Piece(q, all, m) PROVE Piece(q, more, m)
    <2>1. q \in Seq(Records) /\ Len(q) \in Nat /\ m \in Nat /\ m + Len(q) <= n
      BY <1>3, LenProperties DEF Piece
    <2>2. \A k \in 1..Len(q) : m + k \in 1..n
      BY <1>1, <2>1
    <2>3. \A k \in 1..Len(q) : q[k] = more[m + k]
      BY <1>1, <1>3, <2>2 DEF Piece
    <2>4. m + Len(q) <= Len(more)
      BY <1>1, <2>1
    <2> QED BY <2>1, <2>3, <2>4 DEF Piece
  <1>4. ASSUME NEW q, Piece(q, all, n - Len(q)) PROVE Piece(Append(q, r), more, n - Len(q))
    <2> DEFINE l == Len(q)
               m == n - l
               p == Append(q, r)
    <2>1. q \in Seq(Records) /\ l \in Nat /\ m \in Nat /\ m + l = n
      BY <1>1, <1>4, LenProperties DEF Piece
    <2>2. /\ p \in Seq(Records) /\ Len(p) = l + 1 /\ p[l + 1] = r
          /\ \A k \in 1..l : p[k] = q[k]
      BY <2>1, OneMore
    <2>3. \A k \in 1..l : q[k] = all[m + k]
      BY <1>4 DEF Piece
    <2> HIDE DEF n, l, m, p
    <2>4. \A k \in 1..(l + 1) : p[k] = more[m + k]
      <3>1. ASSUME NEW k \in 1..l PROVE p[k] = more[m + k]
        <4>1. m + k \in 1..n
          BY <2>1
        <4> QED BY <1>1, <2>2, <2>3, <4>1
      <3>2. p[l + 1] = more[m + (l + 1)]
        <4>1. m + (l + 1) = n + 1
          BY <2>1
        <4> QED BY <1>1, <2>2, <4>1
      <3>3. \A k \in 1..(l + 1) : k \in 1..l \/ k = l + 1
        BY <2>1
      <3> QED BY <3>1, <3>2, <3>3
    <2>5. m + Len(p) <= Len(more)
      BY <1>1, <2>1, <2>2
    <2>6. Piece(p, more, m)
      BY <2>1, <2>2, <2>4, <2>5 DEF Piece
    <2> QED BY <2>6 DEF n, l, m, p
  <1> QED BY <1>1, <1>2, <1>3, <1>4 DEF more, n

\* The items among the records, and one more.
LEMMA ItemsGrown ==
  ASSUME NEW all \in Seq(Records), NEW r \in Records
  PROVE  /\ Cardinality(ItemsIn(all)) \in Nat
         /\ Cardinality(ItemsIn(Append(all, r)))
              = IF r.item > 0 THEN Cardinality(ItemsIn(all)) + 1
                ELSE Cardinality(ItemsIn(all))
  <1> DEFINE more == Append(all, r)
             n == Len(all)
  <1>1. /\ more \in Seq(Records) /\ Len(more) = n + 1 /\ n \in Nat /\ more[n + 1] = r
        /\ \A k \in 1..n : more[k] = all[k]
    BY OneMore
  <1>2. DOMAIN more = 1..(n + 1) /\ DOMAIN all = 1..n
    BY <1>1, LenProperties
  <1> HIDE DEF more, n
  <1>3. IsFiniteSet(ItemsIn(all)) /\ Cardinality(ItemsIn(all)) \in Nat
        /\ n + 1 \notin ItemsIn(all)
    <2>1. IsFiniteSet(1..n) /\ ItemsIn(all) \in SUBSET (1..n)
      <3>1. IsFiniteSet(1..n)
        BY <1>1, FS_Interval
      <3>2. ItemsIn(all) \in SUBSET (1..n)
        BY <1>2 DEF ItemsIn
      <3> QED BY <3>1, <3>2
    <2>2. n + 1 \notin 1..n
      BY <1>1
    <2>3. IsFiniteSet(ItemsIn(all))
      BY <2>1, FS_Subset
    <2> QED BY <2>1, <2>2, <2>3, FS_CardinalityType
  <1>4. \A k \in 1..(n + 1) : k \in 1..n \/ k = n + 1
    BY <1>1
  <1>5. \A k \in 1..n : k \in 1..(n + 1)
    BY <1>1
  <1>6. CASE r.item > 0
    <2>1. ItemsIn(more) = ItemsIn(all) \cup {n + 1}
      BY <1>1, <1>2, <1>4, <1>5, <1>6 DEF ItemsIn
    <2>2. Cardinality(ItemsIn(more)) = Cardinality(ItemsIn(all)) + 1
      BY <1>3, <2>1, FS_AddElement
    <2> QED BY <1>3, <1>6, <2>2 DEF more
  <1>7. CASE ~(r.item > 0)
    <2>1. ItemsIn(more) = ItemsIn(all)
      BY <1>1, <1>2, <1>4, <1>5, <1>7 DEF ItemsIn
    <2> QED BY <1>3, <1>7, <2>1 DEF more
  <1> QED BY <1>6, <1>7

\* A front and a rest of a sequence of records.
LEMMA Cut ==
  ASSUME NEW q \in Seq(Records), NEW p \in 0..Len(q)
  PROVE  /\ SubSeq(q, 1, p) \in Seq(Records) /\ Len(SubSeq(q, 1, p)) = p
         /\ \A k \in 1..p : SubSeq(q, 1, p)[k] = q[k]
         /\ SubSeq(q, p + 1, Len(q)) \in Seq(Records)
         /\ Len(SubSeq(q, p + 1, Len(q))) = Len(q) - p
         /\ \A k \in 1..(Len(q) - p) : SubSeq(q, p + 1, Len(q))[k] = q[p + k]
  <1> DEFINE n == Len(q)
             left == SubSeq(q, p + 1, n)
  <1>1. n \in Nat /\ p \in Nat /\ p <= n
    BY LenProperties
  <1>2. \A k \in 1..n : q[k] \in Records
    BY ElementOfSeq
  <1> HIDE DEF n
  <1>3. p + 1 \in Int /\ n \in Int /\ \A k \in (p + 1)..n : q[k] \in Records
    BY <1>1, <1>2
  <1>4. /\ left \in Seq(Records)
        /\ Len(left) = IF p + 1 <= n THEN n - (p + 1) + 1 ELSE 0
        /\ \A k \in 1..(n - (p + 1) + 1) : left[k] = q[(p + 1) + k - 1]
    BY <1>3, SubSeqProperties
  <1> HIDE DEF left
  <1>5. Len(left) = n - p
    BY <1>1, <1>4
  <1>6. ASSUME NEW k \in 1..(n - p) PROVE left[k] = q[p + k]
    <2>1. (p + 1) + k - 1 = p + k /\ k \in 1..(n - (p + 1) + 1)
      BY <1>1
    <2> QED BY <1>4, <2>1
  <1>7. \A k \in 1..p : q[k] \in Records
    BY <1>1, <1>2
  <1>8. /\ SubSeq(q, 1, p) \in Seq(Records) /\ Len(SubSeq(q, 1, p)) = p
        /\ \A k \in 1..p : SubSeq(q, 1, p)[k] = q[k]
    BY <1>1, <1>7, SubSeqProperties
  <1> QED BY <1>4, <1>5, <1>6, <1>8 DEF left, n

\* The batch is a front of the queue.
LEMMA BatchIsFront ==
  ASSUME queue \in Seq(Records)
  PROVE  \E n \in 0..Len(queue) : TakeBatch = SubSeq(queue, 1, n)
  <1> DEFINE F(n) == n <= BatchMax /\ SizeOf(SubSeq(queue, 1, n)) <= BatchBytes
             s == {n \in 0..Len(queue) : F(n)}
  <1>1. Len(queue) \in Nat /\ s \in SUBSET (0..Len(queue))
    BY LenProperties
  <1>2. 0 \in s
    <2>1. SubSeq(queue, 1, 0) = <<>>
      BY SubSeqEmpty
    <2>2. <<>> \in Seq(Records) /\ SizeOf(<<>>) = 0
      BY SizeFacts, EmptySeq
    <2>3. BatchMax \in Nat /\ BatchBytes \in Nat
      BY ReporterSizes DEF ReporterSizes
    <2>4. SizeOf(SubSeq(queue, 1, 0)) = 0
      BY <2>1, <2>2, Zenon
    <2>5. F(0)
      BY <2>3, <2>4
    <2> HIDE DEF F
    <2> QED BY <1>1, <2>5
  <1>3. Max(s) \in s /\ \A y \in s : y <= Max(s)
    BY <1>1, <1>2, MaxOf
  <1>4. \E n \in 0..Len(queue) : F(n) /\ \A k \in 0..Len(queue) : F(k) => k <= n
    BY <1>3
  <1> DEFINE n == CHOOSE n \in 0..Len(queue) :
                    F(n) /\ \A k \in 0..Len(queue) : F(k) => k <= n
  <1>5. n \in 0..Len(queue)
    BY <1>4
  <1>6. TakeBatch = SubSeq(queue, 1, n)
    BY DEF TakeBatch
  <1> QED BY <1>5, <1>6

\* What is popped is in the queue and was acknowledged.
LEMMA PoppedIsFront ==
  ASSUME queue \in Seq(Records), answer \in Nat
  PROVE  Popped \in 0..Len(queue) /\ \A k \in 1..Popped : queue[k].seq <= answer
  <1> DEFINE s == {n \in 0..Len(queue) : \A k \in 1..n : queue[k].seq <= answer}
  <1>1. Len(queue) \in Nat /\ s \in SUBSET (0..Len(queue))
    BY LenProperties
  <1>2. 0 \in s
    BY <1>1
  <1>3. Max(s) \in s /\ \A y \in s : y <= Max(s)
    <2> HIDE DEF s
    <2> QED BY <1>1, <1>2, MaxOf
  <1>4. \A k \in 1..Len(queue) : queue[k].seq \in Nat
    <2>1. \A k \in 1..Len(queue) : queue[k] \in Records
      BY ElementOfSeq
    <2> QED BY <2>1 DEF Records
  <1>5. ASSUME Max(s) < Len(queue) PROVE queue[Max(s) + 1].seq > answer
    <2> DEFINE x == Max(s)
    <2>1. x \in Nat /\ x < Len(queue) /\ x + 1 \in 0..Len(queue) /\ x + 1 \in 1..Len(queue)
      BY <1>1, <1>3, <1>5
    <2>2. x + 1 \notin s
      BY <1>3, <2>1
    <2>3. \A k \in 1..x : queue[k].seq <= answer
      BY <1>3
    <2> HIDE DEF x
    <2>4. PICK k \in 1..(x + 1) : ~(queue[k].seq <= answer)
      BY <2>1, <2>2
    <2>5. k = x + 1
      BY <2>1, <2>3, <2>4
    <2>6. queue[x + 1].seq \in Nat
      BY <1>4, <2>1
    <2> QED BY <2>4, <2>5, <2>6 DEF x
  <1>6. \E n \in 0..Len(queue) :
          /\ \A k \in 1..n : queue[k].seq <= answer
          /\ n < Len(queue) => queue[n + 1].seq > answer
    BY <1>3, <1>5
  <1> QED BY <1>6 DEF Popped

-----------------------------------------------------------------------------
(* The steps.  `all` stays or gets the record that is numbered. *)

\* Steps that move only what a thread holds or where it stands.
Untouched == UNCHANGED <<queue, bytes, dropped, nextSeq, produced, main>>

LEMMA StartKnown ==
  ReporterInit => ReporterInv
  <1> SUFFICES ASSUME ReporterInit PROVE ReporterInv
    OBVIOUS
  <1>1. /\ queue = <<>> /\ bytes = 0 /\ dropped = 0 /\ nextSeq = 1 /\ produced = 0
        /\ main = "producing" /\ batch = <<>> /\ answer = 0 /\ store = <<>>
        /\ lateBatch = <<>>
    BY DEF ReporterInit
  <1> DEFINE none == <<>>
  <1>2. none \in Seq(Records) /\ Len(none) = 0 /\ ItemsIn(none) = {}
    BY EmptySeq DEF ItemsIn
  <1>3. SizeOf(none) = 0 /\ LostIn(none) = 0
    BY <1>2, SizeFacts, LostFacts
  <1>4. Cardinality({}) = 0
    BY FS_EmptySet
  <1>5. queue = none /\ batch = none /\ lateBatch = none /\ store = none
    BY <1>1
  <1> HIDE DEF none
  <1>6. Types
    BY <1>1 DEF Types
  <1>7. InOrderFrom(none)
    BY <1>1, <1>2 DEF InOrderFrom
  <1>8. Begins(none, none) /\ Piece(none, none, 0)
    BY <1>2 DEF Begins, Piece
  <1>9. Covered(none)
    <2>1. Len(none) - Len(none) = 0
      BY <1>2
    <2> QED BY <1>1, <1>2, <1>5, <1>8, <2>1 DEF Covered
  <1>10. Counted(none)
    <2>1. Cardinality(ItemsIn(none)) + LostIn(none) + dropped = produced
      BY <1>1, <1>2, <1>3, <1>4
    <2>2. bytes = SizeOf(queue) /\ bytes <= Limit
      BY <1>1, <1>3, <1>5, ReporterSizes DEF ReporterSizes
    <2> QED BY <1>1, <2>1, <2>2 DEF Counted
  <1> QED BY <1>2, <1>6, <1>7, <1>9, <1>10 DEF ReporterInv, Known

\* A step in which only batches, the answer and the store move.
LEMMA HeldKnown ==
  ASSUME NEW all \in Seq(Records), Types, Known(all), Untouched,
         Begins(store, all)', Len(store) <= Len(store'),
         \E m \in Nat : Piece(batch', all, m), \E m \in Nat : Piece(lateBatch', all, m),
         answer' \in Nat, answer' <= Len(store')
  PROVE  ReporterInv'
  <1>1. Types'
    BY DEF Types, Untouched
  <1>2. InOrderFrom(all)' /\ Counted(all)'
    BY DEF Known, InOrderFrom, Counted, Untouched
  <1>3. Covered(all)'
    <2>1. /\ Piece(queue, all, Len(all) - Len(queue)) /\ queue' = queue
          /\ Len(all) - Len(queue) <= Len(store)
          /\ store \in Seq(Records) /\ store' \in Seq(Records)
      BY DEF Known, Covered, Untouched, Begins
    <2>2. Len(store) \in Nat /\ Len(store') \in Nat /\ Len(all) - Len(queue) \in Nat
      BY <2>1, LenProperties DEF Piece
    <2>3. Len(all) - Len(queue') <= Len(store')
      BY <2>1, <2>2
    <2>4. Piece(queue', all, Len(all) - Len(queue'))
      BY <2>1
    <2>5. Begins(store', all)
      BY DEF Begins
    <2> QED BY <2>3, <2>4, <2>5 DEF Covered, Piece, Begins
  <1> QED BY <1>1, <1>2, <1>3 DEF ReporterInv, Known

\* What stays as it is satisfies the hypotheses of HeldKnown.
LEMMA HeldFacts ==
  ASSUME NEW all \in Seq(Records), Types, Known(all)
  PROVE  /\ Begins(store, all) /\ Len(store) \in Nat /\ store \in Seq(Records)
         /\ \E m \in Nat : Piece(batch, all, m)
         /\ \E m \in Nat : Piece(lateBatch, all, m)
         /\ Piece(<<>>, all, 0)
         /\ answer \in Nat /\ answer <= Len(store)
         /\ \A i \in 1..Len(all) : all[i].seq = i
         /\ Piece(queue, all, Len(all) - Len(queue)) /\ queue \in Seq(Records)
  <1>1. Begins(store, all) /\ store \in Seq(Records) /\ queue \in Seq(Records)
    BY DEF Known, Covered, Begins, Piece
  <1>2. Len(store) \in Nat
    BY <1>1, LenProperties
  <1>3. Piece(<<>>, all, 0)
    <2> DEFINE none == <<>>
    <2>1. none \in Seq(Records) /\ Len(none) = 0 /\ Len(all) \in Nat
      BY EmptySeq, LenProperties
    <2> HIDE DEF none
    <2>2. Piece(none, all, 0)
      BY <2>1 DEF Piece
    <2> QED BY <2>2 DEF none
  <1> QED BY <1>1, <1>2, <1>3 DEF Known, Covered, InOrderFrom, Types

LEMMA TakeKnown ==
  ASSUME ReporterInv, Take
  PROVE  ReporterInv'
  <1>1. PICK all \in Seq(Records) : Types /\ Known(all)
    BY DEF ReporterInv
  <1>2. Untouched /\ UNCHANGED <<store, answer, lateBatch>>
    BY DEF Take, Untouched, mainVars, senderVars, serverVars
  <1>3. /\ Begins(store, all) /\ Len(store) \in Nat
        /\ \E m \in Nat : Piece(batch, all, m)
        /\ \E m \in Nat : Piece(lateBatch, all, m)
        /\ answer \in Nat /\ answer <= Len(store)
        /\ Piece(queue, all, Len(all) - Len(queue)) /\ queue \in Seq(Records)
    BY <1>1, HeldFacts
  <1>4. \E m \in Nat : Piece(batch', all, m)
    <2>1. CASE batch' = batch
      BY <1>3, <2>1
    <2>2. CASE batch' = TakeBatch
      <3>1. PICK n \in 0..Len(queue) : TakeBatch = SubSeq(queue, 1, n)
        BY <1>3, BatchIsFront
      <3> DEFINE front == SubSeq(queue, 1, n)
                 m == Len(all) - Len(queue)
      <3>2. /\ front \in Seq(Records) /\ Len(front) = n
            /\ \A k \in 1..n : front[k] = queue[k]
        BY <1>3, Cut
      <3>3. Len(queue) \in Nat /\ m \in Nat /\ m + Len(queue) <= Len(all) /\ Len(all) \in Nat
        BY <1>3, LenProperties DEF Piece
      <3>4. \A k \in 1..n : k \in 1..Len(queue) /\ queue[k] = all[m + k]
        BY <1>3, <3>3 DEF Piece
      <3> HIDE DEF front, m
      <3>5. m + n <= Len(all)
        BY <3>3
      <3>6. Piece(front, all, m)
        BY <3>2, <3>3, <3>4, <3>5 DEF Piece
      <3> QED BY <2>2, <3>1, <3>3, <3>6 DEF front
    <2> QED BY <2>1, <2>2 DEF Take, senderVars
  <1>5. /\ Begins(store, all)' /\ Len(store) <= Len(store')
        /\ \E m \in Nat : Piece(lateBatch', all, m)
        /\ answer' \in Nat /\ answer' <= Len(store')
    BY <1>2, <1>3 DEF Begins
  <1> QED BY <1>1, <1>2, <1>4, <1>5, HeldKnown

LEMMA ReportKnown ==
  ASSUME ReporterInv, Report
  PROVE  ReporterInv'
  <1>1. PICK all \in Seq(Records) : Types /\ Known(all)
    BY DEF ReporterInv
  <1>2. /\ Untouched /\ UNCHANGED <<batch, lateBatch>>
        /\ store' = Persist(batch) /\ answer' = Len(store')
    BY DEF Report, Untouched, mainVars
  <1>3. /\ Begins(store, all)
        /\ \E m \in Nat : Piece(batch, all, m)
        /\ \E m \in Nat : Piece(lateBatch, all, m)
        /\ \A i \in 1..Len(all) : all[i].seq = i
    BY <1>1, HeldFacts
  <1>4. PICK m \in Nat : Piece(batch, all, m)
    BY <1>3
  <1>5. Begins(Persist(batch), all) /\ Len(store) <= Len(Persist(batch))
    BY <1>3, <1>4, PersistBegins
  <1>6. Persist(batch) \in Seq(Records) /\ Len(Persist(batch)) \in Nat
    BY <1>5, LenProperties DEF Begins
  <1>7. Begins(store, all)' /\ Len(store) <= Len(store')
    BY <1>2, <1>5 DEF Begins
  <1>8. answer' \in Nat /\ answer' <= Len(store')
    BY <1>2, <1>6
  <1>9. (\E k \in Nat : Piece(batch', all, k)) /\ \E k \in Nat : Piece(lateBatch', all, k)
    BY <1>2, <1>3
  <1> QED BY <1>1, <1>2, <1>7, <1>8, <1>9, HeldKnown

LEMMA ReportLateKnown ==
  ASSUME ReporterInv, ReportLate
  PROVE  ReporterInv'
  <1>1. PICK all \in Seq(Records) : Types /\ Known(all)
    BY DEF ReporterInv
  <1>2. /\ Untouched /\ UNCHANGED <<batch, answer>> /\ lateBatch' = <<>>
        /\ store' = IF owned THEN Persist(lateBatch) ELSE store
    BY DEF ReportLate, Untouched, mainVars, senderVars
  <1>3. /\ Begins(store, all) /\ Len(store) \in Nat
        /\ \E m \in Nat : Piece(batch, all, m)
        /\ \E m \in Nat : Piece(lateBatch, all, m)
        /\ Piece(<<>>, all, 0)
        /\ answer \in Nat /\ answer <= Len(store)
        /\ \A i \in 1..Len(all) : all[i].seq = i
    BY <1>1, HeldFacts
  <1>4. PICK m \in Nat : Piece(lateBatch, all, m)
    BY <1>3
  <1>5. Begins(Persist(lateBatch), all) /\ Len(store) <= Len(Persist(lateBatch))
    BY <1>3, <1>4, PersistBegins
  <1>6. Persist(lateBatch) \in Seq(Records) /\ Len(Persist(lateBatch)) \in Nat
    BY <1>5, LenProperties DEF Begins
  <1>7. Begins(store, all)' /\ Len(store) <= Len(store')
    BY <1>2, <1>3, <1>5 DEF Begins
  <1>8. answer' \in Nat /\ answer' <= Len(store')
    BY <1>2, <1>3, <1>5, <1>6
  <1>9. (\E k \in Nat : Piece(batch', all, k)) /\ \E k \in Nat : Piece(lateBatch', all, k)
    BY <1>2, <1>3
  <1> QED BY <1>1, <1>2, <1>7, <1>8, <1>9, HeldKnown

\* The other steps of the sender and of the server only drop what they hold.
LEMMA DroppedKnown ==
  ASSUME ReporterInv, LoseOwnership \/ Unavailable \/ Resume \/ Refused
  PROVE  ReporterInv'
  <1>1. PICK all \in Seq(Records) : Types /\ Known(all)
    BY DEF ReporterInv
  <1>2. /\ Untouched /\ UNCHANGED store
        /\ answer' \in {answer, 0}
        /\ batch' \in {batch, <<>>} /\ lateBatch' \in {lateBatch, batch}
    BY DEF LoseOwnership, Unavailable, Resume, Refused, Untouched, mainVars,
           senderVars, serverVars
  <1>3. /\ Begins(store, all) /\ Len(store) \in Nat
        /\ \E m \in Nat : Piece(batch, all, m)
        /\ \E m \in Nat : Piece(lateBatch, all, m)
        /\ Piece(<<>>, all, 0)
        /\ answer \in Nat /\ answer <= Len(store)
    BY <1>1, HeldFacts
  <1>4. Begins(store, all)' /\ Len(store) <= Len(store')
    BY <1>2, <1>3 DEF Begins
  <1>5. answer' \in Nat /\ answer' <= Len(store')
    BY <1>2, <1>3
  <1>6. (\E m \in Nat : Piece(batch', all, m)) /\ \E m \in Nat : Piece(lateBatch', all, m)
    BY <1>2, <1>3
  <1> QED BY <1>1, <1>2, <1>4, <1>5, <1>6, HeldKnown

\* The flush moves the main thread only.
LEMMA FlushKnown ==
  ASSUME ReporterInv, Flush \/ FlushWaits \/ FlushEnds \/ FlushDeadline
  PROVE  ReporterInv'
  <1>1. PICK all \in Seq(Records) : Types /\ Known(all)
    BY DEF ReporterInv
  <1>2. /\ UNCHANGED <<queue, bytes, dropped, nextSeq, produced, batch, answer, store,
                       lateBatch>>
        /\ main # "threw"
        /\ main' = "returned" => queue = <<>>
    BY DEF Flush, FlushWaits, FlushEnds, FlushDeadline, mainVars, senderVars, serverVars
  <1>3. Types' /\ InOrderFrom(all)' /\ Covered(all)'
    BY <1>1, <1>2 DEF Types, Known, InOrderFrom, Covered, Begins, Piece
  <1>4. Counted(all)'
    BY <1>1, <1>2 DEF Known, Counted
  <1> QED BY <1>1, <1>3, <1>4 DEF ReporterInv, Known

\* A record with the next number is added: an item, or a notice.
LEMMA OrderGrown ==
  ASSUME NEW all \in Seq(Records), InOrderFrom(all), Types, NEW r \in Records,
         r.seq = nextSeq, nextSeq' = nextSeq + 1, produced' \in Nat,
         \/ r.item = 0 /\ produced' = produced
         \/ r.item = produced + 1 /\ produced' = produced + 1
  PROVE  InOrderFrom(Append(all, r))'
  <1> DEFINE more == Append(all, r)
             n == Len(all)
  <1>1. /\ more \in Seq(Records) /\ Len(more) = n + 1 /\ n \in Nat /\ more[n + 1] = r
        /\ \A k \in 1..n : more[k] = all[k]
    BY OneMore
  <1>2. /\ n + 1 = nextSeq /\ produced \in Nat /\ produced <= produced'
        /\ \A i \in 1..n : all[i].seq = i /\ all[i].item <= produced
        /\ \A i, j \in 1..n :
             i < j /\ all[i].item > 0 /\ all[j].item > 0 => all[i].item < all[j].item
    BY DEF InOrderFrom, Types
  <1>3. \A i \in 1..n : all[i].item \in Nat
    <2>1. \A i \in 1..n : all[i] \in Records
      BY ElementOfSeq
    <2> QED BY <2>1 DEF Records
  <1> HIDE DEF more, n
  <1>4. \A i \in 1..(n + 1) : i \in 1..n \/ i = n + 1
    BY <1>1
  <1>5. r.item <= produced' /\ r.item \in Nat
    BY <1>2 DEF Records
  <1>6. ASSUME NEW i \in 1..(n + 1) PROVE more[i].seq = i /\ more[i].item <= produced'
    <2>1. CASE i \in 1..n
      <3>1. more[i] = all[i] /\ all[i].seq = i /\ all[i].item <= produced
        BY <1>1, <1>2, <2>1
      <3>2. all[i].item \in Nat
        BY <1>3, <2>1
      <3> QED BY <1>2, <3>1, <3>2
    <2>2. CASE i = n + 1
      BY <1>1, <1>2, <1>5, <2>2
    <2> QED BY <1>4, <2>1, <2>2
  <1>7. ASSUME NEW i \in 1..(n + 1), NEW j \in 1..(n + 1),
               i < j, more[i].item > 0, more[j].item > 0
        PROVE  more[i].item < more[j].item
    <2>1. i \in 1..n
      BY <1>1, <1>7
    <2>2. CASE j \in 1..n
      BY <1>1, <1>2, <1>7, <2>1, <2>2
    <2>3. CASE j = n + 1
      <3>1. more[j] = r /\ r.item = produced + 1 /\ more[i].item <= produced
        BY <1>1, <1>2, <1>5, <1>7, <2>1, <2>3
      <3>2. more[i].item \in Nat
        BY <1>1, <1>3, <2>1
      <3> QED BY <1>2, <3>1, <3>2
    <2> QED BY <1>4, <2>2, <2>3
  <1>8. Len(more) + 1 = nextSeq'
    BY <1>1, <1>2
  <1> QED BY <1>1, <1>6, <1>7, <1>8 DEF more, InOrderFrom

LEMMA EnqueueKnown ==
  ASSUME ReporterInv, NEW size \in Sizes, Enqueue(size)
  PROVE  ReporterInv'
  <1>1. PICK all \in Seq(Records) : Types /\ Known(all)
    BY DEF ReporterInv
  <1>2. /\ UNCHANGED <<batch, answer, store, lateBatch>> /\ produced' = produced + 1
        /\ main = "producing"
    BY DEF Enqueue, senderVars, serverVars
  <1>3. /\ {bytes, dropped, nextSeq, produced, answer} \subseteq Nat /\ nextSeq >= 1
        /\ produced' \in Nat /\ size \in Nat /\ Limit \in Nat /\ size <= Limit
    BY <1>1, <1>2, ReporterSizes DEF Types, ReporterSizes
  <1>4. /\ queue \in Seq(Records) /\ bytes = SizeOf(queue) /\ bytes <= Limit
        /\ Cardinality(ItemsIn(all)) + LostIn(all) + dropped = produced
        /\ queue = <<>> => dropped = 0
    BY <1>1, <1>2 DEF Known, Counted, Covered, Piece
  <1>5. Cardinality(ItemsIn(all)) \in Nat /\ LostIn(all) \in Nat
    <2>1. PICK r : r \in Records
      <3>1. [seq |-> 0, size |-> 0, item |-> 0, lost |-> 0] \in Records
        BY DEF Records
      <3> QED BY <3>1
    <2> QED BY <2>1, ItemsGrown, LostFacts
  <1>6. ASSUME UNCHANGED <<queue, bytes, nextSeq>>, dropped' \in Nat,
               main' # "returned",
               \/ main' = "threw" /\ dropped' = dropped
               \/ dropped' = dropped + 1 /\ queue # <<>>
        PROVE  ReporterInv'
    <2>1. Types'
      BY <1>2, <1>3, <1>6 DEF Types
    <2>2. InOrderFrom(all)'
      <3>1. \A i \in 1..Len(all) : all[i].item \in Nat
        <4>1. \A i \in 1..Len(all) : all[i] \in Records
          BY ElementOfSeq
        <4> QED BY <4>1 DEF Records
      <3>2. \A i \in 1..Len(all) : all[i].item <= produced'
        BY <1>1, <1>2, <1>3, <3>1 DEF Known, InOrderFrom
      <3> QED BY <1>1, <1>6, <3>2 DEF Known, InOrderFrom
    <2>3. Covered(all)'
      BY <1>1, <1>2, <1>6 DEF Known, Covered, Begins, Piece
    <2>4. main' # "threw" =>
            Cardinality(ItemsIn(all)) + LostIn(all) + dropped' = produced'
      BY <1>2, <1>3, <1>4, <1>5, <1>6
    <2>5. bytes' = SizeOf(queue') /\ bytes' <= Limit
      BY <1>4, <1>6
    <2>6. queue' = <<>> => dropped' = 0
      BY <1>4, <1>6
    <2>7. Counted(all)'
      BY <1>6, <2>4, <2>5, <2>6 DEF Counted
    <2> QED BY <2>1, <2>2, <2>3, <2>7 DEF ReporterInv, Known
  <1>7. CASE failure
    BY <1>3, <1>6, <1>7 DEF Enqueue
  <1>8. CASE ~failure /\ Overflows(size)
    <2>1. queue # <<>>
      <3>1. SUFFICES ASSUME queue = <<>> PROVE FALSE
        OBVIOUS
      <3>2. SizeOf(queue) = 0
        BY <1>4, <3>1, SizeFacts
      <3>3. bytes + size > Limit
        BY <1>8 DEF Overflows
      <3> QED BY <1>3, <1>4, <3>2, <3>3
    <2> QED BY <1>2, <1>3, <1>6, <1>8, <2>1 DEF Enqueue
  <1>9. CASE ~failure /\ ~Overflows(size)
    <2>1. PICK r \in Records :
            /\ r = Record(nextSeq, size, produced', 0)
            /\ r.seq = nextSeq /\ r.size = size /\ r.item = produced + 1 /\ r.lost = 0
      <3> DEFINE x == Record(nextSeq, size, produced', 0)
      <3>1. nextSeq \in Nat /\ size \in Nat /\ produced' \in Nat
        BY <1>3
      <3>2. /\ x \in Records /\ x.seq = nextSeq /\ x.size = size /\ x.item = produced'
            /\ x.lost = 0
        BY <3>1 DEF Record, Records
      <3> HIDE DEF x
      <3>3. x.item = produced + 1
        BY <1>2, <3>2
      <3> QED BY <3>2, <3>3 DEF x
    <2>2. /\ queue' = Append(queue, r) /\ bytes' = bytes + size /\ nextSeq' = nextSeq + 1
          /\ UNCHANGED <<dropped, main>> /\ bytes + size <= Limit
      BY <1>3, <1>9, <2>1 DEF Enqueue, Overflows
    <2> DEFINE more == Append(all, r)
    <2>3. Types'
      BY <1>2, <1>3, <2>2 DEF Types
    <2>4. InOrderFrom(more)'
      BY <1>1, <1>2, <1>3, <2>1, <2>2, OrderGrown DEF Known
    <2>5. Covered(more)'
      <3>1. /\ Len(more) = Len(all) + 1 /\ Begins(store, more)
            /\ \E m \in Nat : Piece(batch, more, m)
            /\ \E m \in Nat : Piece(lateBatch, more, m)
            /\ Piece(Append(queue, r), more, Len(all) - Len(queue))
        BY <1>1, <2>1, Grown DEF Known, Covered
      <3>2. Len(queue') = Len(queue) + 1 /\ Len(queue) \in Nat /\ Len(all) \in Nat
        BY <1>4, <2>1, <2>2, OneMore, LenProperties
      <3>3. Len(more) - Len(queue') = Len(all) - Len(queue)
        BY <3>1, <3>2
      <3>4. Len(more) - Len(queue') <= Len(store') /\ answer' <= Len(store')
        BY <1>1, <1>2, <3>3 DEF Known, Covered
      <3>5. Piece(queue', more, Len(more) - Len(queue'))
        BY <2>2, <3>1, <3>3
      <3>6. Begins(store', more)
        BY <1>2, <3>1
      <3>7. (\E m \in Nat : Piece(batch', more, m)) /\ \E m \in Nat : Piece(lateBatch', more, m)
        BY <1>2, <3>1
      <3> HIDE DEF more
      <3> QED BY <3>4, <3>5, <3>6, <3>7 DEF Covered, Begins, Piece
    <2>6. Counted(more)'
      <3>1. Cardinality(ItemsIn(more)) = Cardinality(ItemsIn(all)) + 1 /\ LostIn(more) = LostIn(all)
        <4>1. Cardinality(ItemsIn(more)) = Cardinality(ItemsIn(all)) + 1
          BY <1>3, <2>1, ItemsGrown
        <4>2. LostIn(more) = LostIn(all) + 0
          BY <2>1, LostFacts
        <4> QED BY <1>5, <4>1, <4>2
      <3>2. Cardinality(ItemsIn(more)) + LostIn(more) + dropped' = produced'
        <4> DEFINE c == Cardinality(ItemsIn(all))
                   l == LostIn(all)
        <4>1. c \in Nat /\ l \in Nat /\ dropped \in Nat /\ c + l + dropped = produced
          BY <1>2, <1>3, <1>4, <1>5, Zenon
        <4> HIDE DEF c, l
        <4>2. (c + 1) + l + dropped = produced + 1
          BY <4>1
        <4> QED BY <1>2, <2>2, <3>1, <4>2 DEF c, l
      <3>3. SizeOf(queue') = bytes'
        BY <1>4, <2>1, <2>2, SizeFacts
      <3>4. queue' # <<>>
        BY <1>4, <2>1, <2>2, AppendProperties
      <3>5. main' # "returned"
        BY <1>2, <2>2
      <3> QED BY <2>2, <3>2, <3>3, <3>4, <3>5 DEF Counted
    <2>7. more \in Seq(Records)
      BY <2>1, OneMore
    <2> HIDE DEF more
    <2> QED BY <2>3, <2>4, <2>5, <2>6, <2>7 DEF ReporterInv, Known
  <1> QED BY <1>7, <1>8, <1>9

\* What is left of the queue is still the end of all, and what was popped is
\* stored.
LEMMA LeftIsEnd ==
  ASSUME NEW all \in Seq(Records), Types, Known(all), NEW p \in 0..Len(queue),
         \A k \in 1..p : queue[k].seq <= answer
  PROVE  \A left : left = SubSeq(queue, p + 1, Len(queue)) =>
           /\ left \in Seq(Records) /\ Piece(left, all, Len(all) - Len(left))
           /\ Len(all) - Len(left) <= Len(store)
  <1> DEFINE n == Len(queue)
             m == Len(all) - n
             left == SubSeq(queue, p + 1, Len(queue))
  <1>1. /\ queue \in Seq(Records) /\ store \in Seq(Records)
        /\ answer \in Nat /\ answer <= Len(store) /\ Piece(queue, all, m)
        /\ m <= Len(store) /\ \A i \in 1..Len(all) : all[i].seq = i
    BY DEF Known, Covered, Types, Begins, Piece, InOrderFrom
  <1>2. /\ n \in Nat /\ m \in Nat /\ Len(all) \in Nat /\ Len(store) \in Nat
        /\ m + n = Len(all) /\ p \in Nat /\ p <= n
    BY <1>1, LenProperties DEF Piece
  <1>3. left \in Seq(Records) /\ Len(left) = n - p /\ \A k \in 1..(n - p) : left[k] = queue[p + k]
    BY <1>1, Cut
  <1>4. \A k \in 1..n : queue[k] = all[m + k]
    BY <1>1 DEF Piece
  <1> HIDE DEF n, m, left
  <1>5. Len(all) - Len(left) = m + p
    BY SMTT(20), <1>2, <1>3
  <1>6. m + p <= Len(store)
    <2>1. CASE p = 0
      BY <1>1, <1>2, <2>1
    <2>2. CASE p # 0
      <3>1. p \in 1..p /\ p \in 1..n /\ m + p \in 1..Len(all)
        BY <1>2, <2>2
      <3>2. queue[p].seq = m + p /\ queue[p].seq <= answer
        BY <1>1, <1>4, <3>1
      <3> QED BY <1>1, <1>2, <3>2
    <2> QED BY <2>1, <2>2
  <1>7. Piece(left, all, m + p)
    <2>1. \A k \in 1..(n - p) : left[k] = all[(m + p) + k]
      <3>1. ASSUME NEW k \in 1..(n - p) PROVE left[k] = all[(m + p) + k]
        <4>1. p + k \in 1..n /\ m + (p + k) = (m + p) + k
          BY <1>2
        <4> QED BY <1>3, <1>4, <4>1
      <3> QED BY <3>1
    <2>2. (m + p) + Len(left) <= Len(all) /\ m + p \in Nat
      BY <1>2, <1>3
    <2> QED BY <1>3, <2>1, <2>2 DEF Piece
  <1> QED BY <1>3, <1>5, <1>6, <1>7 DEF left

LEMMA AcknowledgedKnown ==
  ASSUME ReporterInv, Acknowledged
  PROVE  ReporterInv'
  <1>1. PICK all \in Seq(Records) : Types /\ Known(all)
    BY DEF ReporterInv
  <1>2. /\ UNCHANGED <<store, lateBatch, produced, main>> /\ batch' = <<>> /\ answer' = 0
    BY DEF Acknowledged, mainVars, serverVars
  <1>3. /\ {bytes, dropped, nextSeq, produced, answer} \subseteq Nat /\ nextSeq >= 1
        /\ Limit \in Nat /\ NoticeSize \in Nat /\ NoticeSize < Limit
    BY <1>1, ReporterSizes DEF Types, ReporterSizes
  <1>4. /\ queue \in Seq(Records) /\ bytes = SizeOf(queue) /\ bytes <= Limit
        /\ main # "threw" =>
             Cardinality(ItemsIn(all)) + LostIn(all) + dropped = produced
        /\ queue = <<>> => dropped = 0
        /\ main = "returned" => queue = <<>>
    BY <1>1 DEF Known, Counted, Covered, Piece
  <1>5. PICK p \in 0..Len(queue) : p = Popped /\ \A k \in 1..p : queue[k].seq <= answer
    BY <1>3, <1>4, PoppedIsFront
  <1>6. PICK left : left = SubSeq(queue, p + 1, Len(queue))
    OBVIOUS
  <1>7. PICK front : front = SubSeq(queue, 1, p)
    OBVIOUS
  <1>8. /\ left \in Seq(Records) /\ Piece(left, all, Len(all) - Len(left))
        /\ Len(all) - Len(left) <= Len(store)
    BY <1>1, <1>5, <1>6, LeftIsEnd
  <1>9. front \in Seq(Records) /\ SizeOf(queue) = SizeOf(front) + SizeOf(left)
    BY <1>4, <1>6, <1>7, SizeCut
  <1>10. PICK held \in Nat : held = bytes - SizeOf(front) /\ held = SizeOf(left) /\ held <= Limit
    <2>1. SizeOf(front) \in Nat /\ SizeOf(left) \in Nat
      BY <1>8, <1>9, SizeFacts
    <2>2. SizeOf(left) = bytes - SizeOf(front) /\ SizeOf(left) <= Limit
      BY <1>3, <1>4, <1>9, <2>1
    <2> QED BY <2>1, <2>2
  <1>11. IF Announce(held)
         THEN /\ queue' = Append(left, Record(nextSeq, NoticeSize, 0, dropped))
              /\ bytes' = held + NoticeSize
              /\ nextSeq' = nextSeq + 1 /\ dropped' = 0
         ELSE queue' = left /\ bytes' = held /\ UNCHANGED <<nextSeq, dropped>>
    BY <1>5, <1>6, <1>7, <1>10 DEF Acknowledged
  <1>12. queue = <<>> => left = <<>>
    <2>1. ASSUME queue = <<>> PROVE left = <<>>
      <3>1. Len(queue) = 0
        BY <2>1
      <3>2. SubSeq(queue, p + 1, Len(queue)) = <<>>
        BY <1>5, <3>1, SubSeqEmpty
      <3> QED BY <1>6, <3>2
    <2> QED BY <2>1
  <1>13. /\ Begins(store, all) /\ \E m \in Nat : Piece(lateBatch, all, m)
         /\ Piece(<<>>, all, 0) /\ Len(store) \in Nat
    BY <1>1, HeldFacts
  <1>14. Cardinality(ItemsIn(all)) \in Nat /\ LostIn(all) \in Nat
    <2>1. PICK r : r \in Records
      <3>1. [seq |-> 0, size |-> 0, item |-> 0, lost |-> 0] \in Records
        BY DEF Records
      <3> QED BY <3>1
    <2> QED BY <2>1, ItemsGrown, LostFacts
  <1>15. CASE ~Announce(held)
    <2>1. queue' = left /\ bytes' = held /\ UNCHANGED <<nextSeq, dropped>>
      BY <1>11, <1>15
    <2>2. Types'
      BY <1>2, <1>3, <2>1 DEF Types
    <2>3. InOrderFrom(all)'
      BY <1>1, <1>2, <2>1 DEF Known, InOrderFrom
    <2>4. Covered(all)'
      <3>1. Piece(queue', all, Len(all) - Len(queue')) /\ Len(all) - Len(queue') <= Len(store')
        BY <1>2, <1>8, <2>1
      <3>2. Begins(store', all) /\ answer' <= Len(store')
        BY <1>2, <1>13
      <3>3. (\E m \in Nat : Piece(batch', all, m)) /\ \E m \in Nat : Piece(lateBatch', all, m)
        BY <1>2, <1>13
      <3> QED BY <3>1, <3>2, <3>3 DEF Covered, Begins, Piece
    <2>5. queue' = <<>> => dropped' = 0
      <3>1. SUFFICES ASSUME left = <<>> PROVE dropped = 0
        BY <2>1
      <3>2. held = 0
        BY <1>8, <1>10, <3>1, SizeFacts
      <3>3. held < Limit - NoticeSize
        BY <1>3, <3>2
      <3> QED BY <1>3, <1>15, <3>3 DEF Announce
    <2>6. Counted(all)'
      BY <1>2, <1>4, <1>10, <1>12, <2>1, <2>5 DEF Counted
    <2> QED BY <2>2, <2>3, <2>4, <2>6 DEF ReporterInv, Known
  <1>16. CASE Announce(held)
    <2>1. PICK r \in Records :
            /\ r = Record(nextSeq, NoticeSize, 0, dropped)
            /\ r.seq = nextSeq /\ r.size = NoticeSize /\ r.item = 0 /\ r.lost = dropped
      <3> DEFINE x == Record(nextSeq, NoticeSize, 0, dropped)
      <3>1. nextSeq \in Nat /\ NoticeSize \in Nat /\ dropped \in Nat
        BY <1>3
      <3>2. /\ x \in Records /\ x.seq = nextSeq /\ x.size = NoticeSize /\ x.item = 0
            /\ x.lost = dropped
        BY <3>1 DEF Record, Records
      <3> QED BY <3>2
    <2>2. /\ queue' = Append(left, r) /\ bytes' = held + NoticeSize
          /\ nextSeq' = nextSeq + 1 /\ dropped' = 0
      BY <1>11, <1>16, <2>1
    <2>3. dropped > 0 /\ held < Limit - NoticeSize
      BY <1>16 DEF Announce
    <2> DEFINE more == Append(all, r)
    <2>4. Types'
      BY <1>2, <1>3, <2>2 DEF Types
    <2>5. InOrderFrom(more)'
      BY <1>1, <1>2, <1>3, <2>1, <2>2, OrderGrown DEF Known
    <2>6. Covered(more)'
      <3>1. /\ Len(more) = Len(all) + 1 /\ Begins(store, more)
            /\ Piece(<<>>, more, 0)
            /\ \E m \in Nat : Piece(lateBatch, more, m)
            /\ Piece(Append(left, r), more, Len(all) - Len(left))
        BY <1>8, <1>13, <2>1, Grown
      <3>2. Len(queue') = Len(left) + 1 /\ Len(left) \in Nat /\ Len(all) \in Nat
        BY <1>8, <2>1, <2>2, OneMore, LenProperties
      <3>3. Len(more) - Len(queue') = Len(all) - Len(left)
        BY <3>1, <3>2
      <3>4. Len(more) - Len(queue') <= Len(store') /\ answer' <= Len(store')
        BY <1>2, <1>8, <1>13, <3>3
      <3>5. Piece(queue', more, Len(more) - Len(queue'))
        BY <2>2, <3>1, <3>3
      <3>6. Begins(store', more)
        BY <1>2, <3>1
      <3>7. (\E m \in Nat : Piece(batch', more, m)) /\ \E m \in Nat : Piece(lateBatch', more, m)
        BY <1>2, <3>1
      <3> HIDE DEF more
      <3> QED BY <3>4, <3>5, <3>6, <3>7 DEF Covered, Begins, Piece
    <2>7. Counted(more)'
      <3>1. Cardinality(ItemsIn(more)) = Cardinality(ItemsIn(all))
        BY <2>1, ItemsGrown
      <3>2. LostIn(more) = LostIn(all) + dropped
        BY <2>1, LostFacts
      <3>3. main' # "threw" =>
              Cardinality(ItemsIn(more)) + LostIn(more) + dropped' = produced'
        <4> DEFINE c == Cardinality(ItemsIn(all))
                   l == LostIn(all)
        <4>1. c \in Nat /\ l \in Nat /\ dropped \in Nat
          BY <1>3, <1>14, Zenon
        <4>2. main # "threw" => c + l + dropped = produced
          BY <1>4
        <4> HIDE DEF c, l
        <4>3. c + (l + dropped) + 0 = c + l + dropped
          BY <4>1
        <4> QED BY <1>2, <2>2, <3>1, <3>2, <4>2, <4>3 DEF c, l
      <3>4. SizeOf(queue') = bytes' /\ bytes' <= Limit
        <4>1. SizeOf(queue') = SizeOf(left) + r.size
          BY <1>8, <2>1, <2>2, SizeFacts
        <4> QED BY SMTT(20), <1>3, <1>10, <2>1, <2>2, <2>3, <4>1
      <3>5. main' # "returned"
        <4>1. queue # <<>>
          BY <1>3, <1>4, <2>3
        <4> QED BY <1>2, <1>4, <4>1
      <3> QED BY <2>2, <3>3, <3>4, <3>5 DEF Counted
    <2>8. more \in Seq(Records)
      BY <2>1, OneMore
    <2> HIDE DEF more
    <2> QED BY <2>4, <2>5, <2>6, <2>7, <2>8 DEF ReporterInv, Known
  <1> QED BY <1>15, <1>16

LEMMA ReporterStep ==
  ASSUME ReporterInv, [ReporterNext]_reporterVars
  PROVE  ReporterInv'
  <1>1. CASE ReporterNext
    BY <1>1, EnqueueKnown, FlushKnown, TakeKnown, ReportKnown, AcknowledgedKnown,
       DroppedKnown, ReportLateKnown DEF ReporterNext, SenderStep
  <1>2. CASE UNCHANGED reporterVars
    <2>1. UNCHANGED <<queue, bytes, dropped, nextSeq, produced, main, batch, answer, store,
                      lateBatch>>
      BY <1>2 DEF reporterVars
    <2>2. PICK all \in Seq(Records) : Types /\ Known(all)
      BY DEF ReporterInv
    <2>3. Types' /\ InOrderFrom(all)'
      BY <2>1, <2>2 DEF Known, Types, InOrderFrom
    <2>4. Covered(all)' /\ Counted(all)'
      BY <2>1, <2>2 DEF Known, Covered, Counted, Begins, Piece
    <2> QED BY <2>2, <2>3, <2>4 DEF ReporterInv, Known
  <1> QED BY <1>1, <1>2

\* The invariant says what the property does.
LEMMA NothingLostKnown ==
  ReporterInv => NothingLostSilently
  <1> SUFFICES ASSUME ReporterInv PROVE NothingLostSilently
    OBVIOUS
  <1>1. PICK all \in Seq(Records) : Types /\ Known(all)
    BY DEF ReporterInv
  <1>2. /\ Begins(store, all) /\ Piece(queue, all, Len(all) - Len(queue))
        /\ Len(all) - Len(queue) <= Len(store) /\ \A i \in 1..Len(all) : all[i].seq = i
        /\ Len(all) + 1 = nextSeq /\ nextSeq \in Nat
        /\ {produced, dropped} \subseteq Nat
    BY <1>1 DEF Known, Covered, InOrderFrom, Types
  <1>3. Numbered = all
    BY <1>2, NumberedIsAll
  <1>4. Len(all) \in Nat /\ DOMAIN all = 1..Len(all) /\ Len(all) = nextSeq - 1
    BY <1>2, LenProperties
  <1>5. SequenceUnbroken
    <2>1. \A i, j \in ItemsIn(all) : i < j => all[i].item < all[j].item
      BY <1>1, <1>4 DEF Known, InOrderFrom, ItemsIn
    <2>2. Len(all) = nextSeq - 1 /\ \A i \in DOMAIN all : all[i].seq = i
      BY <1>2, <1>4
    <2> QED BY <1>3, <2>1, <2>2 DEF SequenceUnbroken
  <1>6. BufferBounded
    BY <1>1 DEF Known, Counted, BufferBounded
  <1>7. FlushMeansStored
    <2>1. SUFFICES ASSUME main = "returned"
                   PROVE  /\ Len(store) = nextSeq - 1
                          /\ Cardinality(ItemsIn(store)) + LostIn(store) = produced
      BY DEF FlushMeansStored
    <2>2. /\ queue = <<>> /\ dropped = 0
          /\ Cardinality(ItemsIn(all)) + LostIn(all) + dropped = produced
      BY <1>1, <2>1 DEF Known, Counted
    <2>3. Len(store) = Len(all)
      <3>1. Len(queue) = 0 /\ Len(store) \in Nat /\ Len(store) <= Len(all)
        BY <1>2, <2>2, LenProperties DEF Begins
      <3> QED BY <1>2, <1>4, <3>1
    <2>4. store = all
      BY <1>2, <2>3, BeginsIsAll
    <2>5. Cardinality(ItemsIn(all)) \in Nat /\ LostIn(all) \in Nat
      <3>1. PICK r : r \in Records
        <4>1. [seq |-> 0, size |-> 0, item |-> 0, lost |-> 0] \in Records
          BY DEF Records
        <4> QED BY <4>1
      <3> QED BY <3>1, ItemsGrown, LostFacts
    <2>6. Cardinality(ItemsIn(all)) + LostIn(all) = produced
      <3> DEFINE c == Cardinality(ItemsIn(all))
                 l == LostIn(all)
      <3>1. c \in Nat /\ l \in Nat /\ c + l + dropped = produced /\ dropped = 0
        BY <2>2, <2>5
      <3> HIDE DEF c, l
      <3>2. c + l = produced
        BY <3>1
      <3> QED BY <3>2 DEF c, l
    <2> QED BY <1>4, <2>3, <2>4, <2>6
  <1> QED BY <1>5, <1>6, <1>7 DEF NothingLostSilently

\* The runner's reporter loses nothing silently, for every buffer limit, batch
\* limit and size of records that ReporterSizes allows: the numbers it gives
\* have no gap and no duplicate and keep the records' order, its byte count is
\* that of its buffer and never above the limit, and when flush() returns every
\* record is stored or counted by a stored notice, whatever calls were lost,
\* repeated or executed after they had timed out.
THEOREM ReporterLosesNothing ==
  ReporterSpec => []NothingLostSilently
  <1>1. ReporterInit => ReporterInv
    BY StartKnown
  <1>2. ReporterInv /\ [ReporterNext]_reporterVars => ReporterInv'
    BY ReporterStep
  <1>3. ReporterInv => NothingLostSilently
    BY NothingLostKnown
  <1> QED BY <1>1, <1>2, <1>3, PTL DEF ReporterSpec

-----------------------------------------------------------------------------
(***************************************************************************)
(* MetricReader: for every length of a poll, of a line and of the file.    *)
(***************************************************************************)

LineMarks == {"record", "oversized", "limit"}
ReadLine == [partial : Nat, oversized : BOOLEAN, records : Nat, out : Seq(LineMarks)]
Text == Seq({"c", "n"})

LEMMA MarkSequences ==
  /\ <<>> \in Seq(LineMarks) /\ <<"record">> \in Seq(LineMarks)
  /\ <<"oversized">> \in Seq(LineMarks) /\ <<"limit">> \in Seq(LineMarks)
  BY EmptySeq DEF LineMarks

\* What comes out at one character.
LEMMA EntryMarks ==
  ASSUME NEW t, NEW i
  PROVE  EntryAt(t, i) \in Seq(LineMarks)
  <1> DEFINE before == Cardinality(NewlinesBefore(t, i))
             length == i - LineStart(t, i) - 1
             said == IF length = 0 THEN <<>>
                     ELSE IF length <= MaxLine THEN <<"record">> ELSE <<"oversized">>
             full == IF before + 1 = MaxRecords THEN <<"limit">> ELSE <<>>
  <1>1. said \in Seq(LineMarks) /\ full \in Seq(LineMarks)
    BY MarkSequences
  <1>2. EntryAt(t, i) = IF t[i] # "n" \/ before >= MaxRecords THEN <<>> ELSE said \o full
    BY DEF EntryAt
  <1> HIDE DEF said, full
  <1>3. said \o full \in Seq(LineMarks)
    BY <1>1, ConcatProperties
  <1> QED BY <1>2, <1>3, MarkSequences

\* What is expected, character by character.
LEMMA ExpectedSteps ==
  ASSUME NEW t \in Text, NEW q, q = [i \in DOMAIN t |-> i]
  PROVE  \E h \in [0..Len(q) -> Seq(LineMarks)] :
           /\ h[0] = <<>> /\ h[Len(q)] = Expected(t)
           /\ \A k \in 1..Len(q) : h[k] = h[k - 1] \o EntryAt(t, q[k])
  <1> DEFINE n == Len(q)
             Eq(g) == g = [s \in SUBSET DOMAIN q |->
                             IF s = {} THEN <<>>
                             ELSE g[s \ {Max(s)}] \o EntryAt(t, q[Max(s)])]
             f == CHOOSE g : Eq(g)
             step == [k \in 1..n |-> [v \in Seq(LineMarks) |-> v \o EntryAt(t, q[k])]]
  <1>1. Expected(t) = f[DOMAIN q]
    BY DEF Expected, FoldLeft, MapThenFoldSet
  <1>2. n \in Nat /\ DOMAIN q = 1..n /\ \A k \in 1..n : q[k] = k
    <2>1. Len(t) \in Nat /\ DOMAIN t = 1..Len(t)
      BY LenProperties DEF Text
    <2>2. q \in [1..Len(t) -> Nat]
      BY <2>1
    <2>3. q \in Seq(Nat) /\ n = Len(t)
      BY <2>1, <2>2
    <2> QED BY <2>1, <2>3
  <1> HIDE DEF n
  <1>3. step \in [1..n -> [Seq(LineMarks) -> Seq(LineMarks)]]
        /\ \A v \in Seq(LineMarks), k \in 1..n : step[k][v] = v \o EntryAt(t, q[k])
    <2>1. ASSUME NEW v \in Seq(LineMarks), NEW k \in 1..n
          PROVE  v \o EntryAt(t, q[k]) \in Seq(LineMarks)
      <3>1. EntryAt(t, q[k]) \in Seq(LineMarks)
        BY EntryMarks
      <3> QED BY <3>1, ConcatProperties
    <2> QED BY <2>1
  <1> HIDE DEF step
  <1>4. \A s \in SUBSET (1..n) : s # {} => Max(s) \in 1..n /\ s \ {Max(s)} \in SUBSET (1..n)
    BY <1>2, Largest
  <1>5. n \in Nat /\ <<>> \in Seq(LineMarks)
        /\ step \in [1..n -> [Seq(LineMarks) -> Seq(LineMarks)]]
    BY <1>2, <1>3, MarkSequences
  <1>6. PICK g \in [SUBSET (1..n) -> Seq(LineMarks)] : IsFold(g, n, <<>>, step)
    BY <1>5, FoldExists
  <1>7. g = [s \in SUBSET (1..n) |->
               IF s = {} THEN <<>> ELSE g[s \ {Max(s)}] \o EntryAt(t, q[Max(s)])]
    <2>1. ASSUME NEW s \in SUBSET (1..n), s # {}
          PROVE  g[s] = g[s \ {Max(s)}] \o EntryAt(t, q[Max(s)])
      <3>1. Max(s) \in 1..n /\ g[s \ {Max(s)}] \in Seq(LineMarks)
        BY <1>4, <2>1
      <3>2. g[s] = step[Max(s)][g[s \ {Max(s)}]]
        BY <1>6, <2>1 DEF IsFold
      <3> QED BY <1>3, <3>1, <3>2
    <2>2. g[{}] = <<>>
      BY <1>6 DEF IsFold
    <2> QED BY <2>1, <2>2
  <1>8. Eq(f)
    <2>1. Eq(g)
      BY <1>2, <1>7
    <2> HIDE DEF Eq
    <2> QED BY <2>1
  <1> HIDE DEF f
  <1>9. \A s \in SUBSET (1..n) :
          f[s] = IF s = {} THEN <<>> ELSE f[s \ {Max(s)}] \o EntryAt(t, q[Max(s)])
    BY <1>2, <1>8
  <1> HIDE DEF Eq
  <1>10. IsFoldOn(f, n, Seq(LineMarks), <<>>, step)
    BY ZenonT(30), <1>3, <1>4, <1>9 DEF IsFoldOn
  <1>11. PICK h \in [0..n -> Seq(LineMarks)] : IsChain(h, n, <<>>, step, f[1..n])
    BY <1>5, <1>10, FoldChain
  <1>12. \A k \in 1..n : h[k] = h[k - 1] \o EntryAt(t, q[k])
    <2>1. ASSUME NEW k \in 1..n PROVE h[k] = h[k - 1] \o EntryAt(t, q[k])
      <3>1. k - 1 \in 0..n
        BY <1>2
      <3>2. h[k - 1] \in Seq(LineMarks)
        BY <3>1
      <3> QED BY <1>3, <1>11, <3>2 DEF IsChain
    <2> QED BY <2>1
  <1>13. h[0] = <<>> /\ h[n] = Expected(t)
    BY <1>1, <1>2, <1>11 DEF IsChain
  <1> QED BY <1>12, <1>13 DEF n

\* A character takes a line to a line.
LEMMA EndLineMarks ==
  ASSUME NEW l \in ReadLine
  PROVE  EndLine(l) \in ReadLine
  <1> DEFINE said == IF l.oversized THEN <<"oversized">>
                     ELSE IF l.partial > 0 THEN <<"record">> ELSE <<>>
             full == IF l.records + 1 >= MaxRecords THEN <<"limit">> ELSE <<>>
  <1>1. said \in Seq(LineMarks) /\ full \in Seq(LineMarks)
    BY MarkSequences
  <1>2. EndLine(l) = [partial |-> 0, oversized |-> FALSE, records |-> l.records + 1,
                      out |-> l.out \o said \o full]
    BY DEF EndLine
  <1>3. l.out \in Seq(LineMarks) /\ l.records \in Nat
    BY DEF ReadLine
  <1> HIDE DEF said, full
  <1>4. l.out \o said \in Seq(LineMarks)
    BY <1>1, <1>3, ConcatProperties
  <1>5. l.out \o said \o full \in Seq(LineMarks)
    BY <1>1, <1>4, ConcatProperties
  <1> QED BY <1>2, <1>3, <1>5 DEF ReadLine

LEMMA ReadCharType ==
  ASSUME NEW l \in ReadLine, NEW ch
  PROVE  ReadChar(l, ch) \in ReadLine
  <1>1. EndLine(l) \in ReadLine
    BY EndLineMarks
  <1>2. [l EXCEPT !.partial = @ + 1] \in ReadLine
    BY DEF ReadLine
  <1>3. [l EXCEPT !.partial = 0, !.oversized = TRUE] \in ReadLine
    BY DEF ReadLine
  <1> QED BY <1>1, <1>2, <1>3 DEF ReadChar

\* What a poll does, character by character.
LEMMA PollSteps ==
  ASSUME NEW q \in Text, NEW l0 \in ReadLine
  PROVE  \E h \in [0..Len(q) -> ReadLine] :
           /\ h[0] = l0 /\ h[Len(q)] = FoldLeft(ReadChar, l0, q)
           /\ \A k \in 1..Len(q) : h[k] = ReadChar(h[k - 1], q[k])
  <1> DEFINE n == Len(q)
             Eq(g) == g = [s \in SUBSET DOMAIN q |->
                             IF s = {} THEN l0
                             ELSE ReadChar(g[s \ {Max(s)}], q[Max(s)])]
             f == CHOOSE g : Eq(g)
             step == [k \in 1..n |-> [v \in ReadLine |-> ReadChar(v, q[k])]]
  <1>1. FoldLeft(ReadChar, l0, q) = f[DOMAIN q]
    BY DEF FoldLeft, MapThenFoldSet
  <1>2. n \in Nat /\ DOMAIN q = 1..n /\ \A k \in 1..n : q[k] \in {"c", "n"}
    BY LenProperties DEF Text
  <1> HIDE DEF n
  <1>3. step \in [1..n -> [ReadLine -> ReadLine]]
        /\ \A v \in ReadLine, k \in 1..n : step[k][v] = ReadChar(v, q[k])
    BY <1>2, ReadCharType
  <1> HIDE DEF step
  <1>4. \A s \in SUBSET (1..n) : s # {} => Max(s) \in 1..n /\ s \ {Max(s)} \in SUBSET (1..n)
    BY <1>2, Largest
  <1>5. n \in Nat /\ l0 \in ReadLine /\ step \in [1..n -> [ReadLine -> ReadLine]]
    BY <1>2, <1>3
  <1>6. PICK g \in [SUBSET (1..n) -> ReadLine] : IsFold(g, n, l0, step)
    BY <1>5, FoldExists
  <1>7. g = [s \in SUBSET (1..n) |->
               IF s = {} THEN l0 ELSE ReadChar(g[s \ {Max(s)}], q[Max(s)])]
    <2>1. ASSUME NEW s \in SUBSET (1..n), s # {}
          PROVE  g[s] = ReadChar(g[s \ {Max(s)}], q[Max(s)])
      <3>1. Max(s) \in 1..n /\ g[s \ {Max(s)}] \in ReadLine
        BY <1>4, <2>1
      <3>2. g[s] = step[Max(s)][g[s \ {Max(s)}]]
        BY <1>6, <2>1 DEF IsFold
      <3> QED BY <1>3, <3>1, <3>2
    <2>2. g[{}] = l0
      BY <1>6 DEF IsFold
    <2> QED BY <2>1, <2>2
  <1>8. Eq(f)
    <2>1. Eq(g)
      BY <1>2, <1>7
    <2> QED BY <2>1
  <1> HIDE DEF f
  <1>9. \A s \in SUBSET (1..n) :
          f[s] = IF s = {} THEN l0 ELSE ReadChar(f[s \ {Max(s)}], q[Max(s)])
    BY <1>2, <1>8
  <1> HIDE DEF Eq
  <1>10. IsFoldOn(f, n, ReadLine, l0, step)
    BY <1>3, <1>4, <1>9 DEF IsFoldOn
  <1>11. PICK h \in [0..n -> ReadLine] : IsChain(h, n, l0, step, f[1..n])
    BY <1>5, <1>10, FoldChain
  <1>12. \A k \in 1..n : h[k] = ReadChar(h[k - 1], q[k])
    <2>1. ASSUME NEW k \in 1..n PROVE h[k] = ReadChar(h[k - 1], q[k])
      <3>1. k - 1 \in 0..n
        BY <1>2
      <3>2. h[k - 1] \in ReadLine
        BY <3>1
      <3> QED BY <1>3, <1>11, <3>2 DEF IsChain
    <2> QED BY <2>1
  <1> QED BY <1>1, <1>2, <1>11, <1>12 DEF n, IsChain

-----------------------------------------------------------------------------
(* The lines of a text *)

\* The newlines before a place, and where its line starts.
LEMMA LineStarts ==
  ASSUME NEW t, NEW k \in Nat
  PROVE  /\ NewlinesBefore(t, 1) = {} /\ LineStart(t, 1) = 0
         /\ LineStart(t, k + 1) \in 0..k
         /\ Cardinality(NewlinesBefore(t, k + 1)) \in Nat
         /\ k >= 1 /\ t[k] # "n" =>
              /\ NewlinesBefore(t, k + 1) = NewlinesBefore(t, k)
              /\ LineStart(t, k + 1) = LineStart(t, k)
         /\ k >= 1 /\ t[k] = "n" =>
              /\ Cardinality(NewlinesBefore(t, k + 1)) = Cardinality(NewlinesBefore(t, k)) + 1
              /\ LineStart(t, k + 1) = k
  <1> DEFINE N == NewlinesBefore(t, k + 1)
             M == NewlinesBefore(t, k)
  <1>1. N = {j \in 1..k : t[j] = "n"} /\ M = {j \in 1..(k - 1) : t[j] = "n"}
    BY DEF NewlinesBefore
  <1>2. NewlinesBefore(t, 1) = {}
    BY DEF NewlinesBefore
  <1>3. LineStart(t, 1) = 0
    BY <1>2 DEF LineStart
  <1>4. IsFiniteSet(N) /\ IsFiniteSet(M) /\ Cardinality(N) \in Nat
    <2>1. IsFiniteSet(1..k) /\ N \in SUBSET (1..k) /\ M \in SUBSET (1..k)
      BY <1>1, FS_Interval
    <2>2. IsFiniteSet(N) /\ IsFiniteSet(M)
      BY <2>1, FS_Subset
    <2> QED BY <2>2, FS_CardinalityType
  <1>5. N # {} => Max(N) \in N /\ \A y \in N : y <= Max(N)
    <2>1. N \in SUBSET (0..k)
      BY <1>1
    <2> QED BY <2>1, MaxOf
  <1> HIDE DEF N, M
  <1>6. LineStart(t, k + 1) = IF N = {} THEN 0 ELSE Max(N)
    BY DEF LineStart, N
  <1>7. LineStart(t, k + 1) \in 0..k
    BY <1>1, <1>5, <1>6
  <1>8. ASSUME k >= 1, t[k] # "n" PROVE N = M /\ LineStart(t, k + 1) = LineStart(t, k)
    <2>1. N = M
      BY <1>1, <1>8
    <2> QED BY <2>1 DEF LineStart, N, M
  <1>9. ASSUME k >= 1, t[k] = "n"
        PROVE  Cardinality(N) = Cardinality(M) + 1 /\ LineStart(t, k + 1) = k
    <2>1. N = M \cup {k} /\ k \notin M
      BY <1>1, <1>9
    <2>2. Cardinality(N) = Cardinality(M) + 1
      BY <1>4, <2>1, FS_AddElement
    <2>3. k \in N /\ \A y \in N : y <= k
      BY <1>1, <1>9
    <2>4. Max(N) \in N /\ k <= Max(N)
      BY <1>5, <2>3
    <2>5. Max(N) \in 0..k
      BY <1>1, <2>4
    <2>6. Max(N) = k
      BY <2>4, <2>5
    <2> QED BY <1>6, <2>2, <2>3, <2>6
  <1> QED BY <1>2, <1>3, <1>4, <1>7, <1>8, <1>9 DEF N, M

\* They depend on nothing that comes later.
LEMMA SamePrefix ==
  ASSUME NEW t, NEW u, NEW k \in Nat, \A i \in 1..k : u[i] = t[i]
  PROVE  /\ \A i \in 1..(k + 1) : /\ NewlinesBefore(u, i) = NewlinesBefore(t, i)
                                  /\ LineStart(u, i) = LineStart(t, i)
         /\ \A i \in 1..k : EntryAt(u, i) = EntryAt(t, i)
  <1>1. ASSUME NEW i \in 1..(k + 1)
        PROVE  /\ NewlinesBefore(u, i) = NewlinesBefore(t, i)
               /\ LineStart(u, i) = LineStart(t, i)
    <2>1. \A j \in 1..(i - 1) : j \in 1..k
      OBVIOUS
    <2>2. NewlinesBefore(u, i) = NewlinesBefore(t, i)
      BY <2>1 DEF NewlinesBefore
    <2> QED BY <2>2 DEF LineStart
  <1>2. ASSUME NEW i \in 1..k PROVE EntryAt(u, i) = EntryAt(t, i)
    <2>1. /\ u[i] = t[i] /\ NewlinesBefore(u, i) = NewlinesBefore(t, i)
          /\ LineStart(u, i) = LineStart(t, i)
      BY <1>1
    <2> QED BY <2>1 DEF EntryAt
  <1> QED BY <1>1, <1>2

-----------------------------------------------------------------------------
(* The invariant *)

\* out is what was to come out of the first k characters of t.
OutUpTo(t, k, out) ==
  \E h \in [0..k -> Seq(LineMarks)] :
    h[0] = <<>> /\ h[k] = out /\ \A j \in 1..k : h[j] = h[j - 1] \o EntryAt(t, j)

\* The reader's line after the first k characters of t: until the limit is
\* reached, as many lines have ended as there are newlines, and what is kept of
\* the next one is all of it, or the mark that it is too long.
ReadUpTo(t, k, l) ==
  /\ OutUpTo(t, k, l.out)
  /\ LET before == Cardinality(NewlinesBefore(t, k + 1))
         length == k - LineStart(t, k + 1)
     IN IF before >= MaxRecords THEN l.records >= MaxRecords
        ELSE /\ l.records = before
             /\ IF length <= MaxLine THEN l.partial = length /\ ~l.oversized
                ELSE l.partial = 0 /\ l.oversized

ReaderInv ==
  /\ file \in Text /\ line \in ReadLine /\ offset \in 0..Len(file)
  /\ ReadUpTo(file, offset, line)

\* What is read does not change with what is written behind it.
LEMMA ReadStays ==
  ASSUME NEW t, NEW u, NEW k \in Nat, NEW l, \A i \in 1..k : u[i] = t[i], ReadUpTo(t, k, l)
  PROVE  ReadUpTo(u, k, l)
  <1>1. /\ NewlinesBefore(u, k + 1) = NewlinesBefore(t, k + 1)
        /\ LineStart(u, k + 1) = LineStart(t, k + 1)
        /\ \A i \in 1..k : EntryAt(u, i) = EntryAt(t, i)
    BY SamePrefix
  <1>2. OutUpTo(u, k, l.out)
    BY <1>1 DEF ReadUpTo, OutUpTo
  <1> QED BY <1>1, <1>2 DEF ReadUpTo

LEMMA OutMore ==
  ASSUME NEW t, NEW k \in Nat, NEW out, NEW new, OutUpTo(t, k, out),
         new = out \o EntryAt(t, k + 1)
  PROVE  OutUpTo(t, k + 1, new)
  <1>1. PICK h \in [0..k -> Seq(LineMarks)] :
          h[0] = <<>> /\ h[k] = out /\ \A j \in 1..k : h[j] = h[j - 1] \o EntryAt(t, j)
    BY DEF OutUpTo
  <1>2. new \in Seq(LineMarks)
    <2>1. out \in Seq(LineMarks) /\ EntryAt(t, k + 1) \in Seq(LineMarks)
      BY <1>1, EntryMarks
    <2> QED BY <2>1, ConcatProperties
  <1> DEFINE g == [j \in 0..(k + 1) |-> IF j = k + 1 THEN new ELSE h[j]]
  <1>3. g \in [0..(k + 1) -> Seq(LineMarks)] /\ g[0] = <<>> /\ g[k + 1] = new
    <2>1. \A j \in 0..(k + 1) : j # k + 1 => j \in 0..k
      OBVIOUS
    <2>2. \A j \in 0..(k + 1) : (IF j = k + 1 THEN new ELSE h[j]) \in Seq(LineMarks)
      BY <1>1, <1>2, <2>1
    <2>3. 0 \in 0..(k + 1) /\ k + 1 \in 0..(k + 1) /\ 0 # k + 1
      OBVIOUS
    <2>4. g \in [0..(k + 1) -> Seq(LineMarks)]
      BY <2>2
    <2>5. g[0] = h[0] /\ g[k + 1] = new
      BY <2>3
    <2> QED BY <1>1, <2>4, <2>5
  <1>4. ASSUME NEW j \in 1..(k + 1) PROVE g[j] = g[j - 1] \o EntryAt(t, j)
    <2>1. CASE j = k + 1
      <3>1. g[j] = new /\ g[j - 1] = h[k] /\ j - 1 = k
        BY <2>1
      <3> QED BY <1>1, <2>1, <3>1
    <2>2. CASE j # k + 1
      <3>1. j \in 1..k /\ g[j] = h[j] /\ g[j - 1] = h[j - 1]
        BY <2>2
      <3> QED BY <1>1, <3>1
    <2> QED BY <2>1, <2>2
  <1> HIDE DEF g
  <1> QED BY <1>3, <1>4 DEF OutUpTo

\* One character more.
LEMMA ReadOneMore ==
  ASSUME NEW t \in Text, NEW k \in Nat, k + 1 <= Len(t), NEW l \in ReadLine,
         ReadUpTo(t, k, l)
  PROVE  ReadUpTo(t, k + 1, ReadChar(l, t[k + 1]))
  <1> DEFINE i == k + 1
             before == Cardinality(NewlinesBefore(t, i))
             after == Cardinality(NewlinesBefore(t, i + 1))
             start == LineStart(t, i)
             next == LineStart(t, i + 1)
             m == ReadChar(l, t[i])
  <1>1. i \in Nat /\ i >= 1 /\ i = k + 1 /\ MaxRecords \in Nat /\ MaxLine \in Nat
    BY ReaderAssumption DEF ReaderAssumption
  <1>2. t[i] = "c" \/ t[i] = "n"
    <2>1. i \in 1..Len(t)
      BY LenProperties DEF Text
    <2>2. t[i] \in {"c", "n"}
      BY <2>1, ElementOfSeq DEF Text
    <2> QED BY <2>2
  <1>3. /\ start \in 0..k /\ before \in Nat /\ after \in Nat
        /\ t[i] # "n" => after = before /\ next = start
        /\ t[i] = "n" => after = before + 1 /\ next = i
    <2> HIDE DEF i
    <2>1. /\ after \in Nat
          /\ t[i] # "n" => after = before /\ next = start
          /\ t[i] = "n" => after = before + 1 /\ next = i
      BY <1>1, LineStarts
    <2>2. start \in 0..k /\ before \in Nat
      BY <1>1, LineStarts
    <2> QED BY <2>1, <2>2
  <1>4. /\ OutUpTo(t, k, l.out)
        /\ IF before >= MaxRecords THEN l.records >= MaxRecords
           ELSE /\ l.records = before
                /\ IF k - start <= MaxLine THEN l.partial = k - start /\ ~l.oversized
                   ELSE l.partial = 0 /\ l.oversized
    BY DEF ReadUpTo
  <1>5. l.out \in Seq(LineMarks) /\ l.records \in Nat /\ l.partial \in Nat
    BY DEF ReadLine
  <1>6. EntryAt(t, i) = <<>> => l.out = l.out \o EntryAt(t, i)
    BY <1>5, ConcatEmptySeq
  <1>7. EntryAt(t, i) = IF t[i] # "n" \/ before >= MaxRecords THEN <<>>
                        ELSE (IF i - start - 1 = 0 THEN <<>>
                              ELSE IF i - start - 1 <= MaxLine THEN <<"record">>
                                                              ELSE <<"oversized">>)
                             \o (IF before + 1 = MaxRecords THEN <<"limit">> ELSE <<>>)
    BY DEF EntryAt
  <1>8. ReadUpTo(t, i, m) <=>
          /\ OutUpTo(t, i, m.out)
          /\ IF after >= MaxRecords THEN m.records >= MaxRecords
             ELSE /\ m.records = after
                  /\ IF i - next <= MaxLine THEN m.partial = i - next /\ ~m.oversized
                     ELSE m.partial = 0 /\ m.oversized
    BY DEF ReadUpTo
  <1>9. i - start - 1 = k - start /\ i - start = (k - start) + 1 /\ k - start \in Nat
    BY <1>1, <1>3
  <1>10. m.out = l.out \o EntryAt(t, i) => OutUpTo(t, i, m.out)
    <2> HIDE DEF m
    <2>1. ASSUME m.out = l.out \o EntryAt(t, i) PROVE OutUpTo(t, k + 1, m.out)
      <3>1. PICK new : new = m.out
        OBVIOUS
      <3> QED BY <1>4, <2>1, <3>1, OutMore
    <2> QED BY <2>1
  <1> HIDE DEF before, after, start, next, i
  <1>11. CASE before >= MaxRecords
    <2>1. m = l
      BY <1>1, <1>3, <1>4, <1>5, <1>11 DEF ReadChar
    <2> HIDE DEF m
    <2>2. after >= MaxRecords
      BY <1>1, <1>2, <1>3, <1>11
    <2>3. m.out = l.out \o EntryAt(t, i)
      BY <1>6, <1>7, <1>11, <2>1
    <2>11. ReadUpTo(t, i, m)
      BY <1>4, <1>8, <1>10, <1>11, <2>1, <2>2, <2>3
    <2> QED BY <2>11 DEF i, m
  <1>12. CASE ~(before >= MaxRecords) /\ t[i] = "c"
    <2>1. l.records = before /\ ~(l.records >= MaxRecords) /\ after = before /\ next = start
      BY <1>3, <1>4, <1>12
    <2>2. m = IF l.oversized THEN l
              ELSE IF l.partial < MaxLine THEN [l EXCEPT !.partial = @ + 1]
              ELSE [l EXCEPT !.partial = 0, !.oversized = TRUE]
      BY <1>12, <2>1 DEF ReadChar
    <2> HIDE DEF m
    <2>3. /\ m.out = l.out /\ m.records = l.records
          /\ IF l.oversized THEN m.oversized /\ m.partial = l.partial
             ELSE IF l.partial < MaxLine THEN ~m.oversized /\ m.partial = l.partial + 1
             ELSE m.oversized /\ m.partial = 0
      BY <2>2 DEF ReadLine
    <2>4. m.out = l.out \o EntryAt(t, i)
      BY <1>6, <1>7, <1>12, <2>3
    <2>5. IF i - start <= MaxLine THEN m.partial = i - start /\ ~m.oversized
          ELSE m.partial = 0 /\ m.oversized
      <3>1. CASE k - start <= MaxLine
        <4>1. l.partial = k - start /\ ~l.oversized
          BY <1>4, <1>12, <3>1
        <4>2. CASE k - start < MaxLine
          <5>1. i - start <= MaxLine /\ m.partial = i - start /\ ~m.oversized
            BY <1>1, <1>9, <2>3, <4>1, <4>2
          <5> QED BY <5>1
        <4>3. CASE ~(k - start < MaxLine)
          <5>1. ~(i - start <= MaxLine) /\ m.partial = 0 /\ m.oversized
            BY <1>1, <1>9, <2>3, <4>1, <4>3
          <5> QED BY <5>1
        <4> QED BY <4>2, <4>3
      <3>2. CASE ~(k - start <= MaxLine)
        <4>1. l.partial = 0 /\ l.oversized
          BY <1>4, <1>12, <3>2
        <4>2. ~(i - start <= MaxLine)
          BY <1>1, <1>9, <3>2
        <4> QED BY <2>3, <4>1, <4>2
      <3> QED BY <3>1, <3>2
    <2>11. ReadUpTo(t, i, m)
      BY <1>8, <1>10, <1>12, <2>1, <2>3, <2>4, <2>5
    <2> QED BY <2>11 DEF i, m
  <1>13. CASE ~(before >= MaxRecords) /\ t[i] = "n"
    <2>1. l.records = before /\ ~(l.records >= MaxRecords) /\ after = before + 1 /\ next = i
      BY <1>3, <1>4, <1>13
    <2>2. m = EndLine(l)
      BY <1>13, <2>1 DEF ReadChar
    <2> HIDE DEF m
    <2> DEFINE said == IF l.oversized THEN <<"oversized">>
                       ELSE IF l.partial > 0 THEN <<"record">> ELSE <<>>
               full == IF l.records + 1 >= MaxRecords THEN <<"limit">> ELSE <<>>
    <2>3. m.partial = 0 /\ ~m.oversized /\ m.records = after /\ m.out = l.out \o said \o full
      BY <2>1, <2>2 DEF EndLine
    <2>4. said \in Seq(LineMarks) /\ full \in Seq(LineMarks)
      BY MarkSequences
    <2>5. said = (IF i - start - 1 = 0 THEN <<>>
                  ELSE IF i - start - 1 <= MaxLine THEN <<"record">> ELSE <<"oversized">>)
      <3>1. CASE k - start <= MaxLine
        <4>1. l.partial = k - start /\ ~l.oversized
          BY <1>4, <1>13, <3>1
        <4> QED BY <1>9, <3>1, <4>1
      <3>2. CASE ~(k - start <= MaxLine)
        <4>1. l.partial = 0 /\ l.oversized
          BY <1>4, <1>13, <3>2
        <4>2. k - start # 0
          BY <1>1, <1>9, <3>2
        <4> QED BY <1>9, <3>2, <4>1, <4>2
      <3> QED BY <3>1, <3>2
    <2>6. full = (IF before + 1 = MaxRecords THEN <<"limit">> ELSE <<>>)
      <3>1. before + 1 >= MaxRecords <=> before + 1 = MaxRecords
        BY <1>1, <1>3, <1>13
      <3> QED BY <2>1, <3>1
    <2> HIDE DEF said, full
    <2>7. EntryAt(t, i) = said \o full
      BY <1>7, <1>13, <2>5, <2>6
    <2>8. m.out = l.out \o EntryAt(t, i)
      <3>1. (l.out \o said) \o full = l.out \o (said \o full)
        <4>1. \A x, y, z \in Seq(LineMarks) : (x \o y) \o z = x \o (y \o z)
          BY ONLY ConcatAssociative
        <4> QED BY <1>5, <2>4, <4>1
      <3> QED BY <2>3, <2>7, <3>1
    <2>9. i - next = 0 /\ 0 <= MaxLine
      BY <1>1, <2>1
    <2>10. IF after >= MaxRecords THEN m.records >= MaxRecords
           ELSE /\ m.records = after
                /\ IF i - next <= MaxLine THEN m.partial = i - next /\ ~m.oversized
                   ELSE m.partial = 0 /\ m.oversized
      BY <2>3, <2>9
    <2>11. ReadUpTo(t, i, m)
      BY <1>8, <1>10, <2>8, <2>10
    <2> QED BY <2>11 DEF i, m
  <1> QED BY <1>2, <1>11, <1>12, <1>13

\* A poll reads on from the offset.
LEMMA ReadSome ==
  ASSUME NEW t \in Text, NEW from \in Nat, NEW to \in Nat, from <= to, to <= Len(t),
         NEW l \in ReadLine, ReadUpTo(t, from, l), NEW q, q = SubSeq(t, from + 1, to)
  PROVE  /\ FoldLeft(ReadChar, l, q) \in ReadLine
         /\ ReadUpTo(t, to, FoldLeft(ReadChar, l, q))
  <1>1. Len(t) \in Nat /\ \A i \in 1..Len(t) : t[i] \in {"c", "n"}
    BY LenProperties, ElementOfSeq DEF Text
  <1>2. /\ q \in Text /\ Len(q) = to - from
        /\ \A i \in 1..(to - from) : q[i] = t[from + i]
    <2>1. \A i \in (from + 1)..to : t[i] \in {"c", "n"}
      BY <1>1
    <2>2. /\ SubSeq(t, from + 1, to) \in Seq({"c", "n"})
          /\ Len(SubSeq(t, from + 1, to)) =
               IF from + 1 <= to THEN to - (from + 1) + 1 ELSE 0
          /\ \A i \in 1..(to - (from + 1) + 1) :
               SubSeq(t, from + 1, to)[i] = t[(from + 1) + i - 1]
      BY <2>1, SubSeqProperties
    <2>3. /\ to - (from + 1) + 1 = to - from
          /\ (IF from + 1 <= to THEN to - (from + 1) + 1 ELSE 0) = to - from
          /\ \A i \in 1..(to - from) : (from + 1) + i - 1 = from + i
      OBVIOUS
    <2> QED BY <2>2, <2>3 DEF Text
  <1> DEFINE n == Len(q)
  <1>3. n \in Nat /\ n = to - from
    BY <1>2
  <1>4. PICK h \in [0..n -> ReadLine] :
          /\ h[0] = l /\ h[n] = FoldLeft(ReadChar, l, q)
          /\ \A k \in 1..n : h[k] = ReadChar(h[k - 1], q[k])
    BY <1>2, PollSteps
  <1> HIDE DEF n
  <1> DEFINE T == {k \in 0..n : ReadUpTo(t, from + k, h[k])}
  <1>5. 0 \in T
    BY <1>3, <1>4
  <1>6. ASSUME NEW k \in 1..n, k - 1 \in T PROVE k \in T
    <2>1. PICK p \in Nat : p = from + (k - 1)
      BY <1>3
    <2>2. p + 1 = from + k /\ p + 1 <= Len(t) /\ k - 1 \in 0..n
      BY <1>1, <1>3, <2>1
    <2>3. ReadUpTo(t, p, h[k - 1]) /\ h[k - 1] \in ReadLine
      BY <1>6, <2>1, <2>2
    <2>4. ReadUpTo(t, p + 1, ReadChar(h[k - 1], t[p + 1]))
      BY <2>2, <2>3, ReadOneMore
    <2>5. q[k] = t[p + 1]
      BY <1>2, <1>3, <2>2
    <2>6. h[k] = ReadChar(h[k - 1], t[p + 1])
      BY <1>4, <2>5
    <2>7. ReadUpTo(t, from + k, h[k])
      BY <2>2, <2>4, <2>6
    <2> QED BY <1>3, <2>7
  <1> HIDE DEF T
  <1>7. n \in T
    <2>1. \A k \in 0..n : k \in T
      BY <1>3, <1>5, <1>6, InductUpTo
    <2> QED BY <1>3, <2>1
  <1>8. ReadUpTo(t, from + n, h[n]) /\ from + n = to
    BY <1>3, <1>7 DEF T
  <1> QED BY <1>3, <1>4, <1>8

\* What came out of all of a text is what was expected.
LEMMA OutIsExpected ==
  ASSUME NEW t \in Text, NEW out, OutUpTo(t, Len(t), out)
  PROVE  out = Expected(t)
  <1> DEFINE n == Len(t)
  <1>1. n \in Nat /\ DOMAIN t = 1..n
    BY LenProperties DEF Text
  <1>2. PICK q : q = [i \in DOMAIN t |-> i]
    OBVIOUS
  <1>3. q \in Seq(Nat) /\ Len(q) = n /\ \A k \in 1..n : q[k] = k
    <2>1. q \in [1..n -> Nat]
      BY <1>1, <1>2
    <2> QED BY <1>1, <1>2, <2>1
  <1>4. PICK h \in [0..n -> Seq(LineMarks)] :
          /\ h[0] = <<>> /\ h[n] = Expected(t)
          /\ \A k \in 1..n : h[k] = h[k - 1] \o EntryAt(t, q[k])
    <2>1. \E h \in [0..Len(q) -> Seq(LineMarks)] :
            /\ h[0] = <<>> /\ h[Len(q)] = Expected(t)
            /\ \A k \in 1..Len(q) : h[k] = h[k - 1] \o EntryAt(t, q[k])
      BY <1>2, ExpectedSteps
    <2> QED BY <1>3, <2>1
  <1> HIDE DEF n
  <1>5. PICK g \in [0..n -> Seq(LineMarks)] :
          g[0] = <<>> /\ g[n] = out /\ \A j \in 1..n : g[j] = g[j - 1] \o EntryAt(t, j)
    BY DEF OutUpTo, n
  <1> DEFINE T == {k \in 0..n : g[k] = h[k]}
  <1>6. 0 \in T
    BY <1>1, <1>4, <1>5
  <1>7. ASSUME NEW k \in 1..n, k - 1 \in T PROVE k \in T
    <2>1. h[k] = h[k - 1] \o EntryAt(t, k)
      BY <1>3, <1>4
    <2>2. g[k] = g[k - 1] \o EntryAt(t, k)
      BY <1>5
    <2>3. g[k - 1] = h[k - 1] /\ k \in 0..n
      BY <1>1, <1>7
    <2> QED BY <2>1, <2>2, <2>3
  <1> HIDE DEF T
  <1>8. \A k \in 0..n : k \in T
    BY <1>1, <1>6, <1>7, InductUpTo
  <1> QED BY <1>1, <1>4, <1>5, <1>8 DEF T

-----------------------------------------------------------------------------
(* The steps *)

LEMMA ReadingStarts ==
  ReaderInit => ReaderInv
  <1> SUFFICES ASSUME ReaderInit PROVE ReaderInv
    OBVIOUS
  <1>1. /\ file = <<>> /\ offset = 0
        /\ line = [partial |-> 0, oversized |-> FALSE, records |-> 0, out |-> <<>>]
    BY DEF ReaderInit
  <1>2. PICK t \in Text : t = <<>> /\ Len(t) = 0
    BY EmptySeq DEF Text
  <1>3. line \in ReadLine
    BY <1>1, MarkSequences DEF ReadLine
  <1>4. OutUpTo(file, 0, line.out)
    <2> DEFINE h == [j \in 0..0 |-> <<>>]
    <2>1. h \in [0..0 -> Seq(LineMarks)] /\ h[0] = <<>>
      BY MarkSequences
    <2> HIDE DEF h
    <2>2. line.out = <<>>
      BY <1>1
    <2> QED BY <2>1, <2>2 DEF OutUpTo
  <1>5. ReadUpTo(file, 0, line)
    <2>1. NewlinesBefore(file, 1) = {} /\ LineStart(file, 1) = 0 /\ 0 + 1 = 1
      BY LineStarts
    <2>2. Cardinality(NewlinesBefore(file, 1)) = 0
      BY <2>1, FS_EmptySet
    <2>3. MaxRecords \in Nat /\ MaxLine \in Nat
      BY ReaderAssumption DEF ReaderAssumption
    <2>4. line.records = 0 /\ line.partial = 0 /\ ~line.oversized
      BY <1>1
    <2> QED BY <1>4, <2>1, <2>2, <2>3, <2>4 DEF ReadUpTo
  <1> QED BY <1>1, <1>2, <1>3, <1>5 DEF ReaderInv

\* A poll, or none once the limit has been reached.
LEMMA PollReads ==
  ASSUME ReaderInv, Poll, UNCHANGED file
  PROVE  ReaderInv'
  <1>1. CASE line.records >= MaxRecords
    <2>1. UNCHANGED <<offset, line>>
      BY <1>1 DEF Poll
    <2> QED BY <2>1 DEF ReaderInv
  <1>2. CASE ~(line.records >= MaxRecords)
    <2>1. PICK t \in Text, from \in Nat, l \in ReadLine :
            t = file /\ from = offset /\ l = line
      BY DEF ReaderInv
    <2>2. from <= Len(t) /\ Len(t) \in Nat /\ PollBytes \in Nat
      BY <2>1, LenProperties, ReaderAssumption DEF ReaderInv, ReaderAssumption, Text
    <2>3. PICK to \in Nat : to = PollsTo /\ from <= to /\ to <= Len(t)
      BY <2>1, <2>2 DEF PollsTo
    <2>4. offset' = to /\ line' = FoldLeft(ReadChar, l, SubSeq(t, from + 1, to))
      BY <1>2, <2>1, <2>3 DEF Poll
    <2>5. ReadUpTo(t, from, l)
      BY <2>1 DEF ReaderInv
    <2>6. line' \in ReadLine /\ ReadUpTo(t, to, line')
      BY <2>2, <2>3, <2>4, <2>5, ReadSome
    <2>7. ReadUpTo(file, offset, line)'
      BY <2>1, <2>4, <2>6 DEF ReadUpTo, OutUpTo
    <2> QED BY <2>1, <2>2, <2>3, <2>4, <2>6, <2>7 DEF ReaderInv
  <1> QED BY <1>1, <1>2

LEMMA ReadingGoesOn ==
  ReaderInv /\ [ReaderNext]_readerVars => ReaderInv'
  <1> SUFFICES ASSUME ReaderInv, [ReaderNext]_readerVars PROVE ReaderInv'
    OBVIOUS
  <1>1. CASE ChildWrites
    <2>1. PICK ch \in {"c", "n"} : file' = Append(file, ch)
      BY <1>1 DEF ChildWrites
    <2>2. UNCHANGED <<offset, line>>
      BY <1>1 DEF ChildWrites
    <2>3. PICK t \in Text, k \in Nat, l \in ReadLine :
            t = file /\ k = offset /\ l = line /\ k <= Len(t) /\ ReadUpTo(t, k, l)
      BY LenProperties DEF ReaderInv
    <2>4. PICK u \in Text : u = Append(t, ch)
      BY AppendProperties DEF Text
    <2>5. Len(t) \in Nat /\ Len(u) = Len(t) + 1 /\ \A i \in 1..Len(t) : u[i] = t[i]
      BY <2>4, LenProperties, AppendProperties DEF Text
    <2>6. \A i \in 1..k : u[i] = t[i]
      BY <2>3, <2>5
    <2>7. ReadUpTo(u, k, l)
      BY <2>3, <2>6, ReadStays
    <2>8. file' = u /\ offset' = k /\ line' = l
      BY <2>1, <2>2, <2>3, <2>4
    <2>9. ReadUpTo(file, offset, line)'
      BY <2>7, <2>8 DEF ReadUpTo, OutUpTo
    <2>10. offset' \in 0..Len(file')
      BY <2>3, <2>5, <2>8
    <2> QED BY <2>8, <2>9, <2>10 DEF ReaderInv
  <1>2. CASE ChildEnds
    BY <1>2 DEF ChildEnds, ReaderInv
  <1>3. CASE WatchMetrics
    BY <1>3, PollReads DEF WatchMetrics
  <1>4. CASE LastPoll
    BY <1>4, PollReads DEF LastPoll
  <1>5. CASE UNCHANGED readerVars
    BY <1>5 DEF readerVars, ReaderInv
  <1> QED BY <1>1, <1>2, <1>3, <1>4, <1>5 DEF ReaderNext

LEMMA ReadLinesOnce ==
  ReaderInv => LinesReadOnce
  <1> SUFFICES ASSUME ReaderInv PROVE LinesReadOnce
    OBVIOUS
  <1>1. PICK t \in Text, k \in Nat : t = file /\ k = offset /\ k <= Len(t)
    BY LenProperties DEF ReaderInv
  <1>2. Len(t) \in Nat /\ \A i \in 1..Len(t) : t[i] \in {"c", "n"}
    BY LenProperties, ElementOfSeq DEF Text
  <1>3. PICK u : u = SubSeq(t, 1, k)
    OBVIOUS
  <1>4. u \in Text /\ Len(u) = k /\ \A i \in 1..k : u[i] = t[i]
    <2>1. \A i \in 1..k : t[i] \in {"c", "n"}
      BY <1>1, <1>2
    <2>2. /\ SubSeq(t, 1, k) \in Seq({"c", "n"})
          /\ Len(SubSeq(t, 1, k)) = IF 1 <= k THEN k - 1 + 1 ELSE 0
          /\ \A i \in 1..(k - 1 + 1) : SubSeq(t, 1, k)[i] = t[1 + i - 1]
      BY <2>1, SubSeqProperties
    <2>3. /\ k - 1 + 1 = k /\ (IF 1 <= k THEN k - 1 + 1 ELSE 0) = k
          /\ \A i \in 1..k : 1 + i - 1 = i
      OBVIOUS
    <2> QED BY <1>3, <2>2, <2>3 DEF Text
  <1>5. PICK l : l = line /\ ReadUpTo(t, k, l)
    BY <1>1 DEF ReaderInv
  <1>6. ReadUpTo(u, k, l)
    BY <1>4, <1>5, ReadStays
  <1>7. OutUpTo(u, Len(u), l.out)
    BY <1>4, <1>6 DEF ReadUpTo
  <1>8. l.out = Expected(u)
    BY <1>4, <1>7, OutIsExpected
  <1> QED BY <1>1, <1>3, <1>5, <1>8 DEF LinesReadOnce

\* For every length of a poll, a line and a file: what has come out of the
\* reader is what the lines it has read say, each handed over once or marked,
\* wherever the polls ended (MetricReader::poll).
THEOREM MetricLinesReadOnce == ReaderSpec => []LinesReadOnce
  <1>1. ReaderSpec => []ReaderInv
    BY ReadingStarts, ReadingGoesOn, PTL DEF ReaderSpec
  <1> QED BY <1>1, ReadLinesOnce, PTL

-----------------------------------------------------------------------------
(***************************************************************************)
(* CursorReads: for every page size and any number of records.             *)
(***************************************************************************)

(* A set of naturals in order *)

Below(S, s) == {t \in S : t < s}

\* q has the members of S, each once, the smaller ones first.
Enumerates(q, S) ==
  /\ q \in Seq(Nat)
  /\ \A i \in 1..Len(q) : q[i] \in S
  /\ \A s \in S : \E i \in 1..Len(q) : q[i] = s
  /\ \A i, j \in 1..Len(q) : i < j => q[i] < q[j]

\* The first k of an increasing sequence are k numbers.
LEMMA FirstAreMany ==
  ASSUME NEW q \in Seq(Nat), \A i, j \in 1..Len(q) : i < j => q[i] < q[j]
  PROVE  \A k \in 0..Len(q) :
           IsFiniteSet({q[j] : j \in 1..k}) /\ Cardinality({q[j] : j \in 1..k}) = k
  <1> DEFINE n == Len(q)
             first(k) == {q[j] : j \in 1..k}
             T == {k \in 0..n : IsFiniteSet(first(k)) /\ Cardinality(first(k)) = k}
  <1>1. n \in Nat /\ \A i \in 1..n : q[i] \in Nat
    BY LenProperties
  <1>2. 0 \in T
    <2>1. first(0) = {}
      OBVIOUS
    <2>2. IsFiniteSet({}) /\ Cardinality({}) = 0
      BY FS_EmptySet
    <2> HIDE DEF first
    <2>3. IsFiniteSet(first(0)) /\ Cardinality(first(0)) = 0
      BY <2>1, <2>2, Zenon
    <2>4. 0 \in 0..n
      BY <1>1
    <2> QED BY <2>3, <2>4
  <1>3. ASSUME NEW k \in 1..n, k - 1 \in T PROVE k \in T
    <2>1. first(k) = first(k - 1) \cup {q[k]}
      <3>1. \A j \in 1..k : j \in 1..(k - 1) \/ j = k
        OBVIOUS
      <3>2. k \in 1..k /\ \A j \in 1..(k - 1) : j \in 1..k
        OBVIOUS
      <3> QED BY <3>1, <3>2
    <2>2. q[k] \notin first(k - 1)
      <3>1. \A j \in 1..(k - 1) : j \in 1..n /\ j < k
        BY <1>1
      <3>2. \A j \in 1..(k - 1) : q[j] < q[k] /\ q[j] \in Nat /\ q[k] \in Nat
        BY <1>1, <3>1
      <3> QED BY <3>2
    <2>3. IsFiniteSet(first(k - 1)) /\ Cardinality(first(k - 1)) = k - 1
      BY <1>3
    <2> HIDE DEF first
    <2>4. IsFiniteSet(first(k)) /\ Cardinality(first(k)) = (k - 1) + 1
      <3>1. /\ IsFiniteSet(first(k - 1) \cup {q[k]})
            /\ Cardinality(first(k - 1) \cup {q[k]}) = Cardinality(first(k - 1)) + 1
        BY <2>2, <2>3, FS_AddElement
      <3> QED BY ONLY <2>1, <2>3, <3>1
    <2> QED BY <1>1, <2>4
  <1>4. \A k \in 0..n : k \in T
    <2> HIDE DEF T
    <2> QED BY <1>1, <1>2, <1>3, InductUpTo
  <1> QED BY <1>4

\* In such a sequence there are i - 1 members before the i-th.
LEMMA RankOf ==
  ASSUME NEW S, NEW q, Enumerates(q, S)
  PROVE  /\ Len(q) \in Nat /\ IsFiniteSet(S) /\ Cardinality(S) = Len(q)
         /\ S = {q[j] : j \in 1..Len(q)}
         /\ \A i \in 1..Len(q) : /\ Below(S, q[i]) = {q[j] : j \in 1..(i - 1)}
                                 /\ Cardinality(Below(S, q[i])) = i - 1
  <1> DEFINE n == Len(q)
             first(k) == {q[j] : j \in 1..k}
  <1>1. /\ q \in Seq(Nat) /\ n \in Nat /\ \A i \in 1..n : q[i] \in Nat /\ q[i] \in S
        /\ \A s \in S : \E i \in 1..n : q[i] = s
        /\ \A i, j \in 1..n : i < j => q[i] < q[j]
    BY LenProperties DEF Enumerates
  <1>2. \A k \in 0..n : IsFiniteSet(first(k)) /\ Cardinality(first(k)) = k
    BY <1>1, FirstAreMany
  <1>3. S = first(n)
    BY <1>1
  <1>4. n \in 0..n
    BY <1>1
  <1>5. ASSUME NEW i \in 1..n PROVE Below(S, q[i]) = first(i - 1)
    <2>1. ASSUME NEW t \in Below(S, q[i]) PROVE t \in first(i - 1)
      <3>1. t \in S /\ t < q[i]
        BY <2>1 DEF Below
      <3>2. PICK j \in 1..n : q[j] = t
        BY <1>1, <3>1
      <3>3. ~(i < j) /\ j # i
        BY <1>1, <3>1, <3>2
      <3>4. j \in 1..(i - 1)
        BY <3>3
      <3> QED BY <3>2, <3>4
    <2>2. ASSUME NEW j \in 1..(i - 1) PROVE q[j] \in Below(S, q[i])
      <3>1. j \in 1..n /\ j < i
        BY <1>1
      <3> QED BY <1>1, <3>1 DEF Below
    <2> QED BY <2>1, <2>2
  <1> HIDE DEF first
  <1>6. \A i \in 1..n : i - 1 \in 0..n
    BY <1>1
  <1>7. \A i \in 1..n : Cardinality(Below(S, q[i])) = i - 1
    BY <1>2, <1>5, <1>6
  <1> QED BY <1>1, <1>2, <1>3, <1>4, <1>5, <1>7 DEF first

\* What enumerates a set is the set in order.
LEMMA EnumeratesIsInOrder ==
  ASSUME NEW S, NEW q, Enumerates(q, S)
  PROVE  q = InOrder(S)
  <1> DEFINE n == Len(q)
             pick(i) == CHOOSE s \in S : Cardinality(Below(S, s)) = i - 1
  <1>1. /\ n \in Nat /\ Cardinality(S) = n
        /\ \A i \in 1..n : Cardinality(Below(S, q[i])) = i - 1
    BY RankOf
  <1>2. q \in Seq(Nat) /\ (\A i \in 1..n : q[i] \in S) /\ \A s \in S : \E i \in 1..n : q[i] = s
    BY DEF Enumerates
  <1> HIDE DEF n
  <1>3. ASSUME NEW i \in 1..n PROVE pick(i) = q[i]
    <2>1. q[i] \in S /\ Cardinality(Below(S, q[i])) = i - 1
      BY <1>1, <1>2
    <2>2. pick(i) \in S /\ Cardinality(Below(S, pick(i))) = i - 1
      BY <2>1
    <2> HIDE DEF pick
    <2>3. PICK j \in 1..n : q[j] = pick(i)
      BY <1>2, <2>2
    <2>4. j - 1 = i - 1
      BY <1>1, <2>2, <2>3
    <2>5. j = i
      BY <1>1, <2>4
    <2> QED BY <2>3, <2>5
  <1>4. InOrder(S) = [i \in 1..n |-> pick(i)]
    BY <1>1 DEF InOrder, Below
  <1> HIDE DEF pick
  <1>5. q = [i \in 1..n |-> q[i]]
    BY <1>2, LenProperties DEF n
  <1>6. [i \in 1..n |-> pick(i)] = [i \in 1..n |-> q[i]]
    BY <1>3
  <1> QED BY <1>4, <1>5, <1>6

\* Ranks grow with the members.
LEMMA RankGrows ==
  ASSUME NEW S \in SUBSET Nat, IsFiniteSet(S), NEW s \in S, NEW t \in S, s < t
  PROVE  /\ Cardinality(Below(S, s)) \in Nat /\ Cardinality(Below(S, t)) \in Nat
         /\ Cardinality(Below(S, s)) < Cardinality(Below(S, t))
         /\ Cardinality(Below(S, t)) < Cardinality(S)
  <1>0. Below(S, s) \in SUBSET S /\ Below(S, t) \in SUBSET S
    BY DEF Below
  <1>1. IsFiniteSet(Below(S, s)) /\ IsFiniteSet(Below(S, t)) /\ Cardinality(S) \in Nat
    BY <1>0, FS_Subset, FS_CardinalityType
  <1>2. Cardinality(Below(S, s)) \in Nat /\ Cardinality(Below(S, t)) \in Nat
    BY <1>1, FS_CardinalityType
  <1>3. s \notin Below(S, s) /\ Below(S, s) \cup {s} \in SUBSET Below(S, t)
    <2>1. s \in Nat /\ t \in Nat /\ s \in Below(S, t) /\ ~(s < s)
      BY DEF Below
    <2>2. ASSUME NEW x \in Below(S, s) PROVE x \in Below(S, t)
      <3>1. x \in S /\ x \in Nat /\ x < s
        BY <2>2 DEF Below
      <3>2. x < t
        BY <2>1, <3>1
      <3> QED BY <3>1, <3>2 DEF Below
    <2>3. s \notin Below(S, s)
      BY <2>1 DEF Below
    <2> QED BY <2>1, <2>2, <2>3, Zenon
  <1>4. t \notin Below(S, t) /\ Below(S, t) \cup {t} \in SUBSET S
    BY DEF Below
  <1>5. /\ Cardinality(Below(S, s) \cup {s}) = Cardinality(Below(S, s)) + 1
        /\ Cardinality(Below(S, s) \cup {s}) <= Cardinality(Below(S, t))
    BY <1>1, <1>3, FS_AddElement, FS_Subset
  <1>6. /\ Cardinality(Below(S, t) \cup {t}) = Cardinality(Below(S, t)) + 1
        /\ Cardinality(Below(S, t) \cup {t}) <= Cardinality(S)
    BY <1>1, <1>4, FS_AddElement, FS_Subset
  <1> QED BY <1>1, <1>2, <1>5, <1>6

LEMMA RankIsSmall ==
  ASSUME NEW S \in SUBSET Nat, IsFiniteSet(S), NEW s \in S
  PROVE  /\ IsFiniteSet(Below(S, s)) /\ Cardinality(S) \in Nat
         /\ Cardinality(Below(S, s)) \in Nat
         /\ Cardinality(Below(S, s)) < Cardinality(S)
         /\ Cardinality(Below(S, s) \cup {s}) = Cardinality(Below(S, s)) + 1
  <1>1. Below(S, s) \in SUBSET S /\ s \notin Below(S, s) /\ Below(S, s) \cup {s} \in SUBSET S
    BY DEF Below
  <1>2. IsFiniteSet(Below(S, s)) /\ Cardinality(S) \in Nat
    BY <1>1, FS_Subset, FS_CardinalityType
  <1>3. Cardinality(Below(S, s)) \in Nat
    BY <1>2, FS_CardinalityType
  <1>4. /\ Cardinality(Below(S, s) \cup {s}) = Cardinality(Below(S, s)) + 1
        /\ Cardinality(Below(S, s) \cup {s}) <= Cardinality(S)
    BY <1>1, <1>2, FS_AddElement, FS_Subset
  <1> QED BY <1>2, <1>3, <1>4

\* Every rank below the number of members is that of one.
LEMMA RankTaken ==
  ASSUME NEW S \in SUBSET Nat, IsFiniteSet(S)
  PROVE  /\ Cardinality(S) \in Nat
         /\ \A k \in 0..(Cardinality(S) - 1) : \E s \in S : Cardinality(Below(S, s)) = k
  <1> DEFINE n == Cardinality(S)
             T == {k \in 0..n : k < n => \E s \in S : Cardinality(Below(S, s)) = k}
  <1>1. n \in Nat
    BY FS_CardinalityType
  <1>2. 0 \in T
    <2>1. SUFFICES ASSUME 0 < n PROVE \E s \in S : Cardinality(Below(S, s)) = 0
      BY <1>1
    <2>2. S # {}
      BY <2>1, FS_EmptySet
    <2>3. PICK s \in S : \A t \in S : s <= t
      BY <2>2, LeastNatural
    <2>4. Below(S, s) = {}
      <3>1. \A t \in S : t \in Nat /\ s \in Nat /\ ~(t < s)
        BY <2>3
      <3> QED BY <3>1 DEF Below
    <2>5. Cardinality(Below(S, s)) = 0
      BY <2>4, FS_EmptySet
    <2> QED BY <2>5
  <1>3. ASSUME NEW k \in 1..n, k - 1 \in T PROVE k \in T
    <2>1. SUFFICES ASSUME k < n PROVE \E s \in S : Cardinality(Below(S, s)) = k
      BY <1>1
    <2>2. PICK s \in S : Cardinality(Below(S, s)) = k - 1
      BY <1>1, <1>3, <2>1
    <2> DEFINE after == {t \in S : s < t}
    <2>3. Cardinality(Below(S, s) \cup {s}) = k
      <3>1. Cardinality(Below(S, s) \cup {s}) = (k - 1) + 1
        BY <2>2, RankIsSmall
      <3> QED BY <3>1
    <2>4. after # {}
      <3>1. SUFFICES ASSUME after = {} PROVE FALSE
        OBVIOUS
      <3>2. ASSUME NEW t \in S PROVE t \in Below(S, s) \cup {s}
        <4>1. t \in Nat /\ s \in Nat /\ ~(s < t)
          BY <3>1
        <4>2. t < s \/ t = s
          BY <4>1
        <4> QED BY <4>2 DEF Below
      <3>3. \A t \in Below(S, s) \cup {s} : t \in S
        BY DEF Below
      <3>4. S = Below(S, s) \cup {s}
        BY <3>2, <3>3, Zenon
      <3>5. n = k
        BY <2>3, <3>4, Zenon
      <3> QED BY <1>1, <2>1, <3>5
    <2>5. PICK u \in after : \A t \in after : u <= t
      BY <2>4, LeastNatural
    <2>6. Below(S, u) = Below(S, s) \cup {s}
      <3>1. u \in S /\ u \in Nat /\ s \in Nat /\ s < u
        BY <2>5
      <3>2. ASSUME NEW t \in Below(S, u) PROVE t \in Below(S, s) \cup {s}
        <4>1. t \in S /\ t \in Nat /\ t < u
          BY <3>2 DEF Below
        <4>2. ~(s < t)
          <5>1. SUFFICES ASSUME s < t PROVE FALSE
            OBVIOUS
          <5>2. u <= t
            BY <2>5, <4>1, <5>1
          <5> QED BY <3>1, <4>1, <5>2
        <4>3. t < s \/ t = s
          BY <3>1, <4>1, <4>2
        <4> QED BY <4>1, <4>3 DEF Below
      <3>3. ASSUME NEW t \in Below(S, s) PROVE t \in Below(S, u)
        <4>1. t \in S /\ t \in Nat /\ t < s
          BY <3>3 DEF Below
        <4>2. t < u
          BY <3>1, <4>1
        <4> QED BY <4>1, <4>2 DEF Below
      <3>4. s \in Below(S, u)
        BY <3>1 DEF Below
      <3> QED BY <3>2, <3>3, <3>4, Zenon
    <2>7. u \in S
      BY <2>5
    <2> QED BY <2>3, <2>6, <2>7
  <1>4. \A k \in 0..n : k \in T
    <2> HIDE DEF T
    <2> QED BY <1>1, <1>2, <1>3, InductUpTo
  <1>5. ASSUME NEW k \in 0..(n - 1) PROVE \E s \in S : Cardinality(Below(S, s)) = k
    <2>1. k \in 0..n /\ k < n
      BY <1>1
    <2> QED BY <1>4, <2>1
  <1> QED BY <1>1, <1>5

\* A finite set of naturals in order enumerates it.
LEMMA InOrderEnumerates ==
  ASSUME NEW S \in SUBSET Nat, IsFiniteSet(S)
  PROVE  Enumerates(InOrder(S), S) /\ Len(InOrder(S)) = Cardinality(S)
  <1> DEFINE n == Cardinality(S)
             rank(s) == Cardinality(Below(S, s))
             pick(i) == CHOOSE s \in S : rank(s) = i - 1
             q == [i \in 1..n |-> pick(i)]
  <1>1. n \in Nat /\ \A s \in S : rank(s) \in Nat /\ rank(s) < n
    BY FS_CardinalityType, RankIsSmall
  <1>2. \A s, t \in S : s < t => rank(s) < rank(t)
    BY RankGrows
  <1>3. \A k \in 0..(n - 1) : \E s \in S : rank(s) = k
    BY RankTaken
  <1>4. InOrder(S) = q
    BY DEF InOrder, Below
  <1> HIDE DEF n, rank
  <1>5. \A i \in 1..n : pick(i) \in S /\ rank(pick(i)) = i - 1
    <2>1. \A i \in 1..n : i - 1 \in 0..(n - 1)
      BY <1>1
    <2>2. \A i \in 1..n : \E s \in S : rank(s) = i - 1
      BY <1>3, <2>1
    <2> QED BY <2>2
  <1> HIDE DEF pick
  <1>6. q \in Seq(Nat) /\ Len(q) = n /\ \A i \in 1..n : q[i] = pick(i)
    <2>1. \A i \in 1..n : pick(i) \in Nat
      BY <1>5
    <2>2. q \in [1..n -> Nat]
      BY <2>1
    <2> HIDE DEF q
    <2>3. q \in Seq(Nat) /\ Len(q) = n
      BY <1>1, <2>2
    <2>4. \A i \in 1..n : q[i] = pick(i)
      BY DEF q
    <2> QED BY <2>3, <2>4
  <1> HIDE DEF q
  <1>7. ASSUME NEW i \in 1..n, NEW j \in 1..n, i < j PROVE q[i] < q[j]
    <2>1. /\ q[i] \in S /\ q[j] \in S /\ q[i] \in Nat /\ q[j] \in Nat
          /\ rank(q[i]) = i - 1 /\ rank(q[j]) = j - 1
      BY <1>5, <1>6
    <2>2. q[j] < q[i] => j - 1 < i - 1
      BY <1>2, <2>1
    <2>3. q[j] = q[i] => j - 1 = i - 1
      BY <2>1
    <2> QED BY <1>1, <1>7, <2>1, <2>2, <2>3
  <1>8. ASSUME NEW s \in S PROVE \E i \in 1..n : q[i] = s
    <2> DEFINE i == rank(s) + 1
    <2>1. i \in 1..n /\ i - 1 = rank(s)
      BY <1>1
    <2>2. q[i] \in S /\ rank(q[i]) = rank(s) /\ q[i] \in Nat /\ s \in Nat
      BY <1>5, <1>6, <2>1
    <2>3. ~(q[i] < s) /\ ~(s < q[i])
      BY <1>1, <1>2, <2>2
    <2>4. q[i] = s
      BY <2>2, <2>3
    <2> QED BY <2>1, <2>4
  <1>9. \A i \in 1..n : q[i] \in S
    BY <1>5, <1>6
  <1> QED BY <1>4, <1>6, <1>7, <1>8, <1>9 DEF Enumerates, n

\* A set of larger members comes behind.
LEMMA InOrderJoin ==
  ASSUME NEW S \in SUBSET Nat, NEW T \in SUBSET Nat, IsFiniteSet(S), IsFiniteSet(T),
         \A s \in S, t \in T : s < t
  PROVE  InOrder(S \cup T) = InOrder(S) \o InOrder(T)
  <1> DEFINE q == InOrder(S)
             p == InOrder(T)
             m == Len(q)
             n == Len(p)
             c == q \o p
  <1>1. Enumerates(q, S) /\ Enumerates(p, T)
    BY InOrderEnumerates
  <1>2. q \in Seq(Nat) /\ p \in Seq(Nat) /\ m \in Nat /\ n \in Nat
    BY <1>1, LenProperties DEF Enumerates
  <1>3. /\ (\A i \in 1..m : q[i] \in S) /\ (\A s \in S : \E i \in 1..m : q[i] = s)
        /\ \A i, j \in 1..m : i < j => q[i] < q[j]
    BY <1>1 DEF Enumerates
  <1>4. /\ (\A i \in 1..n : p[i] \in T) /\ (\A s \in T : \E i \in 1..n : p[i] = s)
        /\ \A i, j \in 1..n : i < j => p[i] < p[j]
    BY <1>1 DEF Enumerates
  <1> HIDE DEF q, p
  <1>5. /\ c \in Seq(Nat) /\ Len(c) = m + n
        /\ \A i \in 1..m : c[i] = q[i]
        /\ \A i \in 1..n : c[m + i] = p[i]
    <2>1. c \in Seq(Nat) /\ Len(c) = m + n
      BY <1>2
    <2>2. \A i \in 1..m : c[i] = q[i]
      BY <1>2
    <2>3. \A i \in 1..n : c[m + i] = p[i]
      BY <1>2
    <2> QED BY <2>1, <2>2, <2>3
  <1> HIDE DEF m, n, c
  <1>6. \A i \in 1..(m + n) : i \in 1..m \/ (i - m \in 1..n /\ m + (i - m) = i)
    BY <1>2
  <1>7. \A i \in 1..(m + n) :
          (i \in 1..m /\ c[i] = q[i]) \/ (i - m \in 1..n /\ c[i] = p[i - m])
    BY <1>5, <1>6
  <1>8. \A i \in 1..(m + n) : c[i] \in S \cup T
    BY <1>3, <1>4, <1>7
  <1>9. ASSUME NEW s \in S \cup T PROVE \E i \in 1..(m + n) : c[i] = s
    <2>1. CASE s \in S
      <3>1. PICK i \in 1..m : q[i] = s
        BY <1>3, <2>1
      <3>2. i \in 1..(m + n)
        BY <1>2
      <3> QED BY <1>5, <3>1, <3>2
    <2>2. CASE s \in T
      <3>1. PICK i \in 1..n : p[i] = s
        BY <1>4, <2>2
      <3>2. m + i \in 1..(m + n)
        BY <1>2
      <3> QED BY <1>5, <3>1, <3>2
    <2> QED BY <2>1, <2>2
  <1>10. ASSUME NEW i \in 1..(m + n), NEW j \in 1..(m + n), i < j PROVE c[i] < c[j]
    <2>1. CASE i \in 1..m /\ j \in 1..m
      BY <1>3, <1>5, <1>10, <2>1
    <2>2. CASE i \in 1..m /\ j - m \in 1..n
      <3>1. c[i] = q[i] /\ c[j] = p[j - m] /\ q[i] \in S /\ p[j - m] \in T
        <4>1. m + (j - m) = j
          BY <1>2
        <4> QED BY <1>3, <1>4, <1>5, <2>2, <4>1
      <3> QED BY <3>1
    <2>3. CASE i - m \in 1..n /\ j - m \in 1..n
      <3>1. m + (i - m) = i /\ m + (j - m) = j /\ i - m < j - m
        BY <1>2, <1>10
      <3>2. c[i] = p[i - m] /\ c[j] = p[j - m]
        BY <1>5, <2>3, <3>1
      <3> QED BY <1>4, <2>3, <3>1, <3>2
    <2>4. ~(i - m \in 1..n /\ j \in 1..m)
      BY <1>2, <1>10
    <2> QED BY <1>6, <2>1, <2>2, <2>3, <2>4
  <1>11. Enumerates(c, S \cup T)
    BY <1>5, <1>8, <1>9, <1>10 DEF Enumerates
  <1> QED BY <1>11, EnumeratesIsInOrder DEF c, q, p

\* What a page from a cursor on has, and where it leaves the cursor.
PageIs(all, after, page, next) ==
  /\ page \in Seq(Nat) /\ next \in Nat /\ after <= next
  /\ next = after \/ next \in all
  /\ page = InOrder({s \in all : after < s /\ s <= next})
  /\ \A s \in {t \in all : after < t /\ t <= next} : \E i \in 1..Len(page) : page[i] = s
  /\ \A i \in 1..Len(page) : page[i] \in all /\ after < page[i]
  /\ InOrder({s \in all : s <= next}) = InOrder({s \in all : s <= after}) \o page
  /\ Len(page) # PageLimit => \A s \in all : s <= next
  /\ Len(page) = PageLimit => after < next
  /\ page = <<>> => \A s \in all : s <= next

LEMMA PageFacts ==
  ASSUME NEW all \in SUBSET Nat, IsFiniteSet(all), NEW after \in Nat
  PROVE  PageIs(all, after, PageOf(all, after), NextCursor(PageOf(all, after), after))
  <1> DEFINE later == {s \in all : s > after}
             rank(s) == Cardinality(Below(later, s))
             P == {s \in later : rank(s) < PageLimit}
             page == InOrder(P)
             n == Len(page)
             next == NextCursor(page, after)
             old == {s \in all : s <= after}
  <1>1. PageOf(all, after) = page
    BY DEF PageOf, Below
  <1>2. PageLimit \in Nat /\ PageLimit >= 1
    BY ReadsAssumption DEF ReadsAssumption
  <1>3. /\ later \in SUBSET Nat /\ IsFiniteSet(later)
        /\ P \in SUBSET later /\ P \in SUBSET Nat /\ IsFiniteSet(P)
        /\ old \in SUBSET Nat /\ IsFiniteSet(old)
    <2>1. later \in SUBSET all /\ P \in SUBSET all /\ old \in SUBSET all
      OBVIOUS
    <2>2. IsFiniteSet(later) /\ IsFiniteSet(P) /\ IsFiniteSet(old)
      BY <2>1, FS_Subset, Zenon
    <2> QED BY <2>1, <2>2
  <1>4. Enumerates(page, P) /\ n = Cardinality(P) /\ n \in Nat /\ page \in Seq(Nat)
    <2> HIDE DEF P
    <2>1. Enumerates(page, P) /\ Len(page) = Cardinality(P)
      BY <1>3, InOrderEnumerates
    <2>2. page \in Seq(Nat)
      BY <2>1 DEF Enumerates
    <2> QED BY <2>1, <2>2, LenProperties
  <1>5. /\ (\A i \in 1..n : page[i] \in P) /\ (\A s \in P : \E i \in 1..n : page[i] = s)
        /\ \A i, j \in 1..n : i < j => page[i] < page[j]
    <2> HIDE DEF P, page
    <2> QED BY <1>4 DEF Enumerates
  <1>6. \A s \in later : s \in Nat /\ s \in all /\ after < s /\ rank(s) \in Nat
    <2>1. \A s \in later : rank(s) \in Nat
      <3> HIDE DEF later
      <3> QED BY <1>3, RankIsSmall
    <2> QED BY <2>1
  <1>7. \A s, t \in later : s < t => rank(s) < rank(t)
    <2> HIDE DEF later
    <2> QED BY <1>3, RankGrows
  <1>8. CASE P = {}
    <2>1. n = 0
      BY <1>4, <1>8, FS_EmptySet
    <2>2. page = <<>>
      BY <1>4, <2>1
    <2>3. next = after
      BY <2>2 DEF NextCursor
    <2>4. later = {}
      <3>1. SUFFICES ASSUME later # {} PROVE FALSE
        OBVIOUS
      <3>2. PICK s \in later : \A t \in later : s <= t
        <4> HIDE DEF later
        <4> QED BY <1>3, <3>1, LeastNatural
      <3>3. Below(later, s) = {}
        <4>1. \A t \in later : ~(t < s)
          BY <1>6, <3>2
        <4> QED BY <4>1 DEF Below
      <3>4. rank(s) = 0
        BY <3>3, FS_EmptySet
      <3>5. s \in P
        BY <1>2, <3>4
      <3> QED BY <1>8, <3>5
    <2>5. \A s \in all : s <= after
      BY <2>4
    <2>6. {s \in all : after < s /\ s <= next} = {}
      <3>1. \A s \in all : s \in Nat /\ ~(after < s)
        BY <2>5
      <3> HIDE DEF next
      <3> QED BY <3>1
    <2>7. page = InOrder({s \in all : after < s /\ s <= next})
      BY <1>8, <2>6, Zenon
    <2>8. InOrder(old) \in Seq(Nat)
      <3> HIDE DEF old
      <3> QED BY <1>3, InOrderEnumerates DEF Enumerates
    <2>9. InOrder(old) \o page = InOrder(old)
      BY <2>2, <2>8, ConcatEmptySeq
    <2>10. {s \in all : s <= next} = old
      BY <2>3
    <2> HIDE DEF page, next, old, later, P
    <2>11. InOrder({s \in all : s <= next}) = InOrder(old) \o page
      BY <2>9, <2>10, Zenon
    <2>12. Len(page) # PageLimit
      BY <1>2, <2>1 DEF n
    <2>13. \A i \in 1..Len(page) : page[i] \in all /\ after < page[i]
      BY <2>1 DEF n
    <2>14. page \in Seq(Nat) /\ next \in Nat /\ after <= next /\ next = after
      BY <1>4, <2>3
    <2>15. \A s \in {t \in all : after < t /\ t <= next} : \E i \in 1..Len(page) : page[i] = s
      BY <2>6, Zenon
    <2>16. \A s \in all : s <= next
      BY <2>3, <2>5
    <2>17. InOrder({s \in all : s <= next}) = InOrder({s \in all : s <= after}) \o page
      BY <2>11 DEF old
    <2>18. PageIs(all, after, page, next)
      BY <2>7, <2>12, <2>13, <2>14, <2>15, <2>16, <2>17, Zenon DEF PageIs
    <2> QED BY <1>1, <2>18 DEF next
  <1>9. CASE P # {}
    <2>1. n >= 1
      <3>1. PICK s \in P : TRUE
        BY <1>9
      <3>2. PICK i \in 1..n : page[i] = s
        BY <1>5
      <3> QED BY <1>4, <3>2
    <2>2. page # <<>>
      BY <2>1
    <2>3. next = page[n] /\ n \in 1..n
      BY <1>4, <2>1, <2>2 DEF NextCursor, Last
    <2>4. next \in P /\ next \in later /\ next \in Nat /\ after < next /\ next \in all
      BY <1>5, <1>6, <2>3
    <2>5. \A s \in P : s <= next
      <3>1. ASSUME NEW s \in P PROVE s <= next
        <4>1. PICK i \in 1..n : page[i] = s
          BY <1>5
        <4>2. i = n \/ i < n
          BY <1>4
        <4>3. s \in Nat
          BY <1>3
        <4> HIDE DEF page, next, P
        <4> QED BY <1>5, <2>3, <2>4, <4>1, <4>2, <4>3
      <3> QED BY <3>1
    <2>6. {s \in all : after < s /\ s <= next} = P
      <3>1. ASSUME NEW s \in all, after < s, s <= next PROVE s \in P
        <4>1. s \in later /\ s \in Nat
          BY <3>1
        <4>2. s = next \/ s < next
          BY <2>4, <3>1, <4>1
        <4>3. rank(next) < PageLimit /\ rank(next) \in Nat /\ rank(s) \in Nat
          BY <1>6, <2>4, <4>1
        <4>4. rank(s) < PageLimit
          BY <1>2, <1>7, <2>4, <4>1, <4>2, <4>3
        <4> QED BY <4>1, <4>4
      <3>2. \A s \in P : s \in all /\ after < s /\ s <= next
        BY <1>3, <1>6, <2>5
      <3> HIDE DEF P, next, later
      <3> QED BY <3>1, <3>2
    <2>7. InOrder({s \in all : s <= next}) = InOrder(old) \o page
      <3>1. {s \in all : s <= next} = old \cup P
        <4>1. \A s \in all : s <= next <=> (s <= after \/ (after < s /\ s <= next))
          BY <2>4
        <4> HIDE DEF P, next
        <4> QED BY <2>6, <4>1
      <3>2. \A s \in old, t \in P : s < t
        BY <1>3, <1>6
      <3> HIDE DEF P, old, next
      <3>3. InOrder(old \cup P) = InOrder(old) \o InOrder(P)
        BY <1>3, <3>2, InOrderJoin
      <3> QED BY <3>1, <3>3
    <2>8. n <= PageLimit
      <3>1. Cardinality(Below(P, next)) = n - 1
        <4> HIDE DEF P, page, next
        <4> QED BY <1>4, <2>3, RankOf DEF n
      <3>2. Below(P, next) \in SUBSET Below(later, next)
        BY <1>3 DEF Below
      <3>3. IsFiniteSet(Below(later, next))
        <4> HIDE DEF later, next
        <4> QED BY <1>3, <2>4, RankIsSmall
      <3>4. n - 1 <= rank(next) /\ rank(next) < PageLimit /\ rank(next) \in Nat
        <4>1. Cardinality(Below(P, next)) <= Cardinality(Below(later, next))
          BY <3>2, <3>3, FS_Subset
        <4> QED BY <1>6, <2>4, <3>1, <4>1
      <3> QED BY <1>2, <1>4, <3>4
    <2>9. ASSUME n # PageLimit PROVE \A s \in all : s <= next
      <3> DEFINE after2 == {s \in all : next < s}
      <3>1. SUFFICES ASSUME after2 # {} PROVE FALSE
        <4>1. ASSUME after2 = {}, NEW s \in all PROVE s <= next
          <5>1. s \in Nat /\ next \in Nat /\ ~(next < s)
            BY <2>4, <4>1
          <5> HIDE DEF next
          <5> QED BY <5>1
        <4> QED BY <4>1
      <3>2. PICK u \in after2 : \A t \in after2 : u <= t
        BY <3>1, LeastNatural
      <3>3. u \in later /\ u \in Nat /\ next < u
        BY <2>4, <3>2
      <3>4. Below(later, u) = P
        <4>1. ASSUME NEW t \in later, t < u PROVE t \in P
          <5>1. t \in all /\ t \in Nat /\ after < t
            BY <1>6
          <5>2. ~(next < t)
            BY <3>2, <3>3, <4>1, <5>1
          <5>3. t <= next
            BY <2>4, <5>1, <5>2
          <5> HIDE DEF P, next
          <5> QED BY <2>6, <5>1, <5>3
        <4>2. ASSUME NEW t \in P PROVE t \in later /\ t < u
          <5>1. t \in later /\ t <= next /\ t \in Nat
            BY <1>3, <2>5
          <5> QED BY <2>4, <3>3, <5>1
        <4> HIDE DEF P, later
        <4> QED BY <4>1, <4>2 DEF Below
      <3>5. rank(u) = n
        BY <1>4, <3>4, Zenon
      <3>6. rank(u) < PageLimit
        BY <1>2, <1>4, <2>8, <2>9, <3>5
      <3>7. u \in P
        BY <3>3, <3>6
      <3>8. u <= next
        BY <2>5, <3>7
      <3> QED BY <2>4, <3>3, <3>8
    <2>10. \A i \in 1..n : page[i] \in all /\ after < page[i]
      BY <1>3, <1>5, <1>6
    <2>11. \A s \in {t \in all : after < t /\ t <= next} : \E i \in 1..n : page[i] = s
      BY <1>5, <2>6
    <2>12. page = InOrder({s \in all : after < s /\ s <= next})
      BY <2>6
    <2> HIDE DEF page, next, later, P
    <2>13. page \in Seq(Nat) /\ next \in Nat /\ after <= next /\ after < next /\ next \in all
      BY <1>4, <2>4
    <2>14. InOrder({s \in all : s <= next}) = InOrder({s \in all : s <= after}) \o page
      BY <2>7 DEF old
    <2>15. Len(page) # PageLimit => \A s \in all : s <= next
      BY <2>9 DEF n
    <2>16. \A i \in 1..Len(page) : page[i] \in all /\ after < page[i]
      BY <2>10 DEF n
    <2>17. \A s \in {t \in all : after < t /\ t <= next} : \E i \in 1..Len(page) : page[i] = s
      BY <2>11 DEF n
    <2>18. PageIs(all, after, page, next)
      BY <2>2, <2>12, <2>13, <2>14, <2>15, <2>16, <2>17, Zenon DEF PageIs
    <2> QED BY <1>1, <2>18 DEF next
  <1> QED BY <1>8, <1>9

-----------------------------------------------------------------------------
(* The web page's list *)

\* Fresh keeps what is behind the cursor, one item after the other.
LEMMA FreshSteps ==
  ASSUME NEW q \in Seq(Nat)
  PROVE  \E h \in [0..Len(q) -> Seq(Nat)] :
           /\ h[0] = <<>> /\ h[Len(q)] = Fresh(q)
           /\ \A k \in 1..Len(q) : h[k] = IF q[k] > reader.cursor
                                          THEN Append(h[k - 1], q[k])
                                          ELSE h[k - 1]
  <1> DEFINE n == Len(q)
             Eq(g) == g = [s \in SUBSET DOMAIN q |->
                             IF s = {} THEN <<>>
                             ELSE IF q[Max(s)] > reader.cursor
                                  THEN Append(g[s \ {Max(s)}], q[Max(s)])
                                  ELSE g[s \ {Max(s)}]]
             f == CHOOSE g : Eq(g)
             step == [k \in 1..n |-> [v \in Seq(Nat) |-> IF q[k] > reader.cursor
                                                         THEN Append(v, q[k])
                                                         ELSE v]]
  <1>1. Fresh(q) = f[DOMAIN q]
    BY DEF Fresh, FoldLeft, MapThenFoldSet
  <1>2. n \in Nat /\ DOMAIN q = 1..n /\ \A k \in 1..n : q[k] \in Nat
    BY LenProperties
  <1> HIDE DEF n
  <1>3. step \in [1..n -> [Seq(Nat) -> Seq(Nat)]]
        /\ \A v \in Seq(Nat), k \in 1..n : step[k][v] = IF q[k] > reader.cursor
                                                        THEN Append(v, q[k])
                                                        ELSE v
    BY <1>2
  <1> HIDE DEF step
  <1>4. \A s \in SUBSET (1..n) : s # {} => Max(s) \in 1..n /\ s \ {Max(s)} \in SUBSET (1..n)
    BY <1>2, Largest
  <1>5. n \in Nat /\ <<>> \in Seq(Nat) /\ step \in [1..n -> [Seq(Nat) -> Seq(Nat)]]
    BY <1>2, <1>3, EmptySeq
  <1>6. PICK g \in [SUBSET (1..n) -> Seq(Nat)] : IsFold(g, n, <<>>, step)
    BY <1>5, FoldExists
  <1>7. g = [s \in SUBSET (1..n) |->
               IF s = {} THEN <<>>
               ELSE IF q[Max(s)] > reader.cursor
                    THEN Append(g[s \ {Max(s)}], q[Max(s)])
                    ELSE g[s \ {Max(s)}]]
    <2>1. ASSUME NEW s \in SUBSET (1..n), s # {}
          PROVE  g[s] = IF q[Max(s)] > reader.cursor
                        THEN Append(g[s \ {Max(s)}], q[Max(s)])
                        ELSE g[s \ {Max(s)}]
      <3>1. Max(s) \in 1..n /\ g[s \ {Max(s)}] \in Seq(Nat)
        BY <1>4, <2>1
      <3>2. g[s] = step[Max(s)][g[s \ {Max(s)}]]
        BY <1>6, <2>1 DEF IsFold
      <3> QED BY <1>3, <3>1, <3>2
    <2>2. g[{}] = <<>>
      BY <1>6 DEF IsFold
    <2> QED BY <2>1, <2>2
  <1>8. Eq(f)
    <2>1. Eq(g)
      BY <1>2, <1>7
    <2> QED BY <2>1
  <1> HIDE DEF f
  <1>9. \A s \in SUBSET (1..n) :
          f[s] = IF s = {} THEN <<>>
                 ELSE IF q[Max(s)] > reader.cursor
                      THEN Append(f[s \ {Max(s)}], q[Max(s)])
                      ELSE f[s \ {Max(s)}]
    BY <1>2, <1>8
  <1> HIDE DEF Eq
  <1>10. IsFoldOn(f, n, Seq(Nat), <<>>, step)
    BY <1>3, <1>4, <1>9 DEF IsFoldOn
  <1>11. PICK h \in [0..n -> Seq(Nat)] : IsChain(h, n, <<>>, step, f[1..n])
    BY <1>5, <1>10, FoldChain
  <1>12. \A k \in 1..n : h[k] = IF q[k] > reader.cursor THEN Append(h[k - 1], q[k]) ELSE h[k - 1]
    <2>1. ASSUME NEW k \in 1..n PROVE h[k] = IF q[k] > reader.cursor
                                             THEN Append(h[k - 1], q[k])
                                             ELSE h[k - 1]
      <3>1. k - 1 \in 0..n
        BY <1>2
      <3>2. h[k - 1] \in Seq(Nat)
        BY <3>1
      <3> QED BY <1>3, <1>11, <3>2 DEF IsChain
    <2> QED BY <2>1
  <1> QED BY <1>1, <1>2, <1>11, <1>12 DEF n, IsChain

\* If that is all of it, it keeps the page.
LEMMA FreshIsPage ==
  ASSUME NEW q \in Seq(Nat), \A i \in 1..Len(q) : q[i] > reader.cursor
  PROVE  Fresh(q) = q
  <1> DEFINE n == Len(q)
  <1>1. n \in Nat /\ \A i \in 1..n : q[i] \in Nat
    BY LenProperties
  <1>2. PICK h \in [0..n -> Seq(Nat)] :
          /\ h[0] = <<>> /\ h[n] = Fresh(q)
          /\ \A k \in 1..n :
               h[k] = IF q[k] > reader.cursor THEN Append(h[k - 1], q[k]) ELSE h[k - 1]
    BY FreshSteps
  <1>3. \A k \in 1..n : q[k] > reader.cursor
    OBVIOUS
  <1> HIDE DEF n
  <1> DEFINE T == {k \in 0..n : Len(h[k]) = k /\ \A i \in 1..k : h[k][i] = q[i]}
  <1>4. 0 \in T
    BY <1>1, <1>2
  <1>5. ASSUME NEW k \in 1..n, k - 1 \in T PROVE k \in T
    <2> DEFINE b == h[k - 1]
    <2>1. b \in Seq(Nat) /\ Len(b) = k - 1 /\ \A i \in 1..(k - 1) : b[i] = q[i]
      BY <1>5
    <2>7. h[k] = IF q[k] > reader.cursor THEN Append(b, q[k]) ELSE b
      BY <1>2
    <2>2. h[k] = Append(b, q[k]) /\ q[k] \in Nat /\ k \in 0..n
      BY <1>1, <1>3, <2>7
    <2> HIDE DEF b
    <2>3. /\ Len(Append(b, q[k])) = Len(b) + 1 /\ Append(b, q[k])[Len(b) + 1] = q[k]
          /\ \A i \in 1..Len(b) : Append(b, q[k])[i] = b[i]
      BY <2>1, <2>2, AppendProperties
    <2>4. Len(b) + 1 = k
      BY <2>1
    <2>5. Len(h[k]) = k
      BY <2>2, <2>3, <2>4
    <2>6. ASSUME NEW i \in 1..k PROVE h[k][i] = q[i]
      <3>1. i \in 1..(k - 1) \/ i = k
        OBVIOUS
      <3> QED BY <2>1, <2>2, <2>3, <2>4, <3>1
    <2> QED BY <2>2, <2>5, <2>6
  <1>6. \A k \in 0..n : k \in T
    <2> HIDE DEF T
    <2> QED BY <1>1, <1>4, <1>5, InductUpTo
  <1>7. n \in T /\ h[n] \in Seq(Nat)
    BY <1>1, <1>6
  <1>8. Len(h[n]) = Len(q) /\ \A i \in 1..Len(h[n]) : h[n][i] = q[i]
    BY <1>7 DEF n
  <1>9. h[n] = q
    BY <1>7, <1>8, SeqEqual
  <1> QED BY <1>2, <1>9

\* The last ViewMax items.
IsTail(b, V, x, k) ==
  /\ k \in 0..Len(x) /\ k = IF Len(x) > ViewMax THEN Len(x) - ViewMax ELSE 0
  /\ b \in Seq(V) /\ Len(b) = Len(x) - k
  /\ \A i \in 1..(Len(x) - k) : b[i] = x[k + i]

LEMMA BoundedFacts ==
  ASSUME NEW V, NEW x \in Seq(V)
  PROVE  \E k : IsTail(Bounded(x), V, x, k)
  <1> DEFINE n == Len(x)
             k == IF n > ViewMax THEN n - ViewMax ELSE 0
             b == SubSeq(x, k + 1, n)
  <1>1. n \in Nat /\ (\A i \in 1..n : x[i] \in V) /\ ViewMax \in Nat
    BY LenProperties, ReadsAssumption DEF ReadsAssumption
  <1> HIDE DEF n
  <1>2. k \in 0..n
    BY <1>1
  <1>3. Bounded(x) = b
    <2>1. IF n > ViewMax THEN n - ViewMax + 1 = k + 1 ELSE 1 = k + 1
      BY <1>1
    <2>2. (IF n > ViewMax THEN n - ViewMax + 1 ELSE 1) = k + 1
      BY <1>1
    <2> HIDE DEF k
    <2> QED BY <2>2 DEF Bounded, n
  <1>4. k = IF n > ViewMax THEN n - ViewMax ELSE 0
    OBVIOUS
  <1> HIDE DEF k
  <1>5. k + 1 \in Int /\ n \in Int /\ \A i \in (k + 1)..n : x[i] \in V
    BY <1>1, <1>2
  <1>6. /\ b \in Seq(V) /\ Len(b) = IF k + 1 <= n THEN n - (k + 1) + 1 ELSE 0
        /\ \A i \in 1..(n - (k + 1) + 1) : b[i] = x[(k + 1) + i - 1]
    BY <1>5, SubSeqProperties
  <1> HIDE DEF b
  <1>7. Len(b) = n - k
    BY <1>1, <1>2, <1>6
  <1>8. ASSUME NEW i \in 1..(n - k) PROVE b[i] = x[k + i]
    <2>1. (k + 1) + i - 1 = k + i /\ i \in 1..(n - (k + 1) + 1)
      BY <1>1, <1>2
    <2> QED BY <1>6, <2>1
  <1>9. b \in Seq(V)
    BY <1>6
  <1> QED BY <1>2, <1>3, <1>4, <1>7, <1>8, <1>9 DEF n, IsTail

\* Keeping the last items of a list after every page keeps those of the whole.
LEMMA BoundedJoin ==
  ASSUME NEW V, NEW x \in Seq(V), NEW y \in Seq(V)
  PROVE  Bounded(Bounded(x) \o y) = Bounded(x \o y)
  <1>1. PICK k : IsTail(Bounded(x), V, x, k)
    BY BoundedFacts
  <1>2. PICK b \in Seq(V) : b = Bounded(x)
    BY <1>1 DEF IsTail
  <1> DEFINE m == Len(x)
             n == Len(y)
             z == b \o y
             w == x \o y
  <1>3. m \in Nat /\ n \in Nat /\ k \in Nat /\ k <= m /\ ViewMax \in Nat /\ Len(b) = m - k
    BY <1>1, <1>2, LenProperties, ReadsAssumption DEF ReadsAssumption, IsTail
  <1>4. /\ z \in Seq(V) /\ Len(z) = (m - k) + n
        /\ \A i \in 1..((m - k) + n) : z[i] = IF i <= m - k THEN b[i] ELSE y[i - (m - k)]
    <2>1. /\ z \in Seq(V) /\ Len(z) = Len(b) + Len(y)
          /\ \A i \in 1..(Len(b) + Len(y)) : z[i] = IF i <= Len(b) THEN b[i] ELSE y[i - Len(b)]
      BY ConcatProperties
    <2> HIDE DEF z
    <2> QED BY <1>3, <2>1
  <1>5. /\ w \in Seq(V) /\ Len(w) = m + n
        /\ \A i \in 1..(m + n) : w[i] = IF i <= m THEN x[i] ELSE y[i - m]
    BY <1>3, ConcatProperties
  <1>6. k = IF m > ViewMax THEN m - ViewMax ELSE 0
    BY <1>1 DEF IsTail
  <1>7. \A i \in 1..(m - k) : b[i] = x[k + i]
    BY <1>1, <1>2 DEF IsTail
  <1> HIDE DEF m, n, z, w
  <1>14. (\E kz : IsTail(Bounded(z), V, z, kz)) /\ \E kw : IsTail(Bounded(w), V, w, kw)
    BY <1>4, <1>5, BoundedFacts
  <1>8. PICK kz \in 0..Len(z) :
          /\ kz = IF Len(z) > ViewMax THEN Len(z) - ViewMax ELSE 0
          /\ Bounded(z) \in Seq(V) /\ Len(Bounded(z)) = Len(z) - kz
          /\ \A i \in 1..(Len(z) - kz) : Bounded(z)[i] = z[kz + i]
    BY <1>14 DEF IsTail
  <1>9. PICK kw \in 0..Len(w) :
          /\ kw = IF Len(w) > ViewMax THEN Len(w) - ViewMax ELSE 0
          /\ Bounded(w) \in Seq(V) /\ Len(Bounded(w)) = Len(w) - kw
          /\ \A i \in 1..(Len(w) - kw) : Bounded(w)[i] = w[kw + i]
    BY <1>14 DEF IsTail
  <1>10. kz \in Nat /\ kw \in Nat /\ kw = k + kz /\ Len(z) - kz = Len(w) - kw /\ kz <= (m - k) + n
    BY <1>3, <1>4, <1>5, <1>6, <1>8, <1>9
  <1>11. ASSUME NEW i \in 1..(Len(w) - kw) PROVE Bounded(z)[i] = Bounded(w)[i]
    <2>1. /\ Bounded(z)[i] = z[kz + i] /\ Bounded(w)[i] = w[kw + i]
      BY <1>8, <1>9, <1>10
    <2>2. /\ kz + i \in 1..((m - k) + n) /\ kw + i \in 1..(m + n) /\ kw + i = k + (kz + i)
      BY <1>3, <1>4, <1>5, <1>10
    <2>3. CASE kz + i <= m - k
      <3>1. z[kz + i] = b[kz + i] /\ kz + i \in 1..(m - k)
        BY <1>3, <1>4, <2>2, <2>3
      <3>2. w[kw + i] = x[kw + i]
        <4>1. kw + i <= m
          BY <1>3, <2>2, <2>3
        <4> QED BY <1>5, <2>2, <4>1
      <3> QED BY <1>7, <2>1, <2>2, <3>1, <3>2
    <2>4. CASE ~(kz + i <= m - k)
      <3>1. z[kz + i] = y[(kz + i) - (m - k)]
        BY <1>4, <2>2, <2>4
      <3>2. w[kw + i] = y[(kw + i) - m]
        <4>1. ~(kw + i <= m)
          BY <1>3, <2>2, <2>4
        <4> QED BY <1>5, <2>2, <4>1
      <3>3. (kw + i) - m = (kz + i) - (m - k)
        BY <1>3, <2>2
      <3> QED BY <2>1, <3>1, <3>2, <3>3
    <2> QED BY <2>3, <2>4
  <1>12. Len(Bounded(z)) = Len(Bounded(w))
    BY <1>8, <1>9, <1>10
  <1>13. Bounded(z) = Bounded(w)
    <2>1. \A i \in 1..Len(Bounded(z)) : Bounded(z)[i] = Bounded(w)[i]
      BY <1>9, <1>11, <1>12
    <2>2. Bounded(z) \in Seq(V) /\ Bounded(w) \in Seq(V)
      BY <1>8, <1>9
    <2> QED BY <1>12, <2>1, <2>2, SeqEqual
  <1> QED BY <1>2, <1>13 DEF z, w

-----------------------------------------------------------------------------
(* The invariant.  It speaks of the reader's attempt and cursor by name, a  *)
(* and c.                                                                   *)

\* No record of attempt a can be stored any more.
Closed(a) == active # a \/ runStatus # "EXECUTING"

\* The records of attempt a that this reader wants, up to a cursor.
DueTo(a, c) == {s \in Sequences(a, Kind) : s <= c}
NoneAfter(a, c) == \A s \in Sequences(a, Kind) : s <= c

Marked(a, q) == [i \in 1..Len(q) |-> <<a, q[i]>>]

\* What a reader shows that has read an attempt up to its cursor.
Exactly(a, c) ==
  IF reader.mode = "view" THEN Bounded(Marked(a, InOrder(DueTo(a, c))))
  ELSE Marked(a, InOrder(DueTo(a, c)))

ReadTypes ==
  /\ stored \in [1..MaxAttempts -> Seq({"logs", "metric"})]
  /\ active \in Attempts0
  /\ active = 0 => runStatus # "EXECUTING"
  /\ reader \in [mode : Mode, at : {"run", "page", "answer", "ended", "error"},
                 cursor : Nat, seen : BOOLEAN, attempt : Attempts0,
                 selected : Attempts0, over : BOOLEAN, page : Seq(Nat)]
  /\ reader.at = "answer" => reader.mode = "view"
  /\ reader.mode = "view" /\ reader.at \in {"page", "answer"} => reader.attempt # 0
  /\ reader.mode = "export" /\ reader.at = "run" =>
       reader.attempt = 0 /\ reader.cursor = 0 /\ ~reader.over
  /\ reader.mode \in {"export", "view"} => ~reader.seen
  /\ shown \in [Attempts0 -> Seq(Attempts0 \X Nat)]

\* Attempts that are not read yet show nothing; the one that is read shows
\* what was stored up to the cursor.
Reading ==
  /\ reader.attempt <= active
  /\ reader.mode = "fixed" => reader.attempt # 0
  /\ \A a \in Attempts0 : a > reader.attempt => shown[a] = <<>>
  /\ \A a \in 1..MaxAttempts, c \in Nat :
       reader.attempt = a /\ reader.cursor = c =>
         c <= Len(stored[a]) /\ shown[a] = Exactly(a, c)

\* What a reader has noticed of the end of its attempt is so.
Noticed ==
  /\ reader.over => Closed(reader.attempt)
  /\ reader.seen => Closed(reader.attempt)
  /\ reader.mode = "fixed" /\ reader.at = "page" /\ reader.selected # reader.attempt =>
       Closed(reader.attempt)

\* A page on its way has the records from the cursor c to the next cursor d,
\* and the last ones if it is short and nothing comes any more.
Answer(a, c, page, d) ==
  /\ d \in Nat /\ c <= d /\ d <= Len(stored[a])
  /\ \A i \in 1..Len(page) : page[i] > c
  /\ InOrder(DueTo(a, d)) = InOrder(DueTo(a, c)) \o page
  /\ reader.over /\ Len(page) # PageLimit => NoneAfter(a, d)
  /\ Len(page) = PageLimit => d > c

Asked ==
  \A a \in 1..MaxAttempts, c \in Nat, page \in Seq(Nat) :
    reader.at = "answer" /\ reader.attempt = a /\ reader.cursor = c /\ reader.page = page
      => Answer(a, c, page, NextCursor(page, c))

Finished ==
  reader.at = "ended" /\ reader.mode \in {"follow", "fixed", "view"} =>
    /\ Closed(reader.attempt)
    /\ \A a \in 1..MaxAttempts, c \in Nat :
         reader.attempt = a /\ reader.cursor = c => NoneAfter(a, c)

\* The lock of the run's row lets one writer number its event at a time.
Numbering ==
  /\ {evSequence, evCommitted, evReader.cursor} \subseteq Nat
  /\ evTx \in [EventWriters -> [at : {"begin", "inserted", "over"}, sequence : Nat]]
  /\ evReader \in [cursor : Nat, got : Seq(Nat)]
  /\ \A v, w \in EventWriters :
       evTx[v].at = "inserted" /\ evTx[w].at = "inserted" => v = w
  /\ \A w \in EventWriters :
       evTx[w].at = "inserted" => /\ evTx[w].sequence = evSequence
                                  /\ evSequence = evCommitted + 1
  /\ (\A w \in EventWriters : evTx[w].at # "inserted") => evSequence = evCommitted
  /\ events \subseteq 1..evCommitted /\ evReader.cursor <= evCommitted
  /\ NoEventSkipped

ReadsInv == ReadTypes /\ Reading /\ Noticed /\ Asked /\ Finished /\ Numbering

\* The items of a list, marked with their attempt.
LEMMA MarkedFacts ==
  ASSUME NEW a \in Attempts0, NEW q \in Seq(Nat), NEW p \in Seq(Nat)
  PROVE  /\ Marked(a, q) \in Seq(Attempts0 \X Nat) /\ Len(Marked(a, q)) = Len(q)
         /\ \A i \in 1..Len(q) : Marked(a, q)[i] = <<a, q[i]>>
         /\ Marked(a, q \o p) = Marked(a, q) \o Marked(a, p)
  <1>1. ASSUME NEW x \in Seq(Nat)
        PROVE  /\ Marked(a, x) \in Seq(Attempts0 \X Nat) /\ Len(Marked(a, x)) = Len(x)
               /\ \A i \in 1..Len(x) : Marked(a, x)[i] = <<a, x[i]>>
    <2>1. Len(x) \in Nat /\ \A i \in 1..Len(x) : <<a, x[i]>> \in Attempts0 \X Nat
      BY LenProperties
    <2>2. Marked(a, x) \in [1..Len(x) -> Attempts0 \X Nat]
      BY <2>1 DEF Marked
    <2>3. Marked(a, x) \in Seq(Attempts0 \X Nat) /\ Len(Marked(a, x)) = Len(x)
      <3> DEFINE W == Attempts0 \X Nat
                 y == Marked(a, x)
                 k == Len(x)
      <3>1. k \in Nat /\ y \in [1..k -> W]
        BY <2>1, <2>2
      <3> HIDE DEF W, y, k
      <3>2. y \in Seq(W) /\ Len(y) = k
        BY <3>1
      <3> QED BY <3>2 DEF W, y, k
    <2>4. \A i \in 1..Len(x) : Marked(a, x)[i] = <<a, x[i]>>
      BY DEF Marked
    <2> QED BY <2>3, <2>4
  <1> DEFINE m == Len(q)
             n == Len(p)
             c == q \o p
             d == Marked(a, q) \o Marked(a, p)
             e == Marked(a, c)
  <1>2. /\ m \in Nat /\ n \in Nat /\ c \in Seq(Nat) /\ Len(c) = m + n
        /\ \A i \in 1..(m + n) : c[i] = IF i <= m THEN q[i] ELSE p[i - m]
    BY LenProperties, ConcatProperties
  <1>3. e \in Seq(Attempts0 \X Nat) /\ Len(e) = m + n /\ \A i \in 1..(m + n) : e[i] = <<a, c[i]>>
    <2> HIDE DEF m, n, c
    <2> QED BY <1>1, <1>2
  <1>4. /\ d \in Seq(Attempts0 \X Nat) /\ Len(d) = m + n
        /\ \A i \in 1..(m + n) : d[i] = IF i <= m THEN Marked(a, q)[i] ELSE Marked(a, p)[i - m]
    <2> DEFINE u == Marked(a, q)
               v == Marked(a, p)
    <2>1. /\ u \in Seq(Attempts0 \X Nat) /\ v \in Seq(Attempts0 \X Nat)
          /\ Len(u) = m /\ Len(v) = n
      BY <1>1
    <2> HIDE DEF u, v, m, n
    <2>2. /\ u \o v \in Seq(Attempts0 \X Nat) /\ Len(u \o v) = Len(u) + Len(v)
          /\ \A i \in 1..(Len(u) + Len(v)) :
               (u \o v)[i] = IF i <= Len(u) THEN u[i] ELSE v[i - Len(u)]
      BY <2>1, ConcatProperties
    <2> QED BY <2>1, <2>2 DEF u, v
  <1> HIDE DEF m, n, c, d, e
  <1>5. ASSUME NEW i \in 1..(m + n) PROVE d[i] = e[i]
    <2>1. CASE i <= m
      <3>1. i \in 1..m
        BY <1>2, <2>1
      <3>2. Marked(a, q)[i] = <<a, q[i]>>
        BY <1>1, <3>1 DEF m
      <3> QED BY <1>2, <1>3, <1>4, <2>1, <3>2
    <2>2. CASE ~(i <= m)
      <3>1. i - m \in 1..n
        BY <1>2, <2>2
      <3>2. Marked(a, p)[i - m] = <<a, p[i - m]>>
        BY <1>1, <3>1 DEF n
      <3> QED BY <1>2, <1>3, <1>4, <2>2, <3>2
    <2> QED BY <2>1, <2>2
  <1>6. d = e
    BY <1>3, <1>4, <1>5, SeqEqual
  <1> QED BY <1>1, <1>6 DEF d, e, c

\* The records of an attempt are numbered from 1 on.
LEMMA SequencesAre ==
  ASSUME ReadTypes, NEW a \in Attempts0, NEW kind
  PROVE  /\ Sequences(a, kind) \in SUBSET Nat /\ IsFiniteSet(Sequences(a, kind))
         /\ a # 0 => /\ a \in 1..MaxAttempts /\ Len(stored[a]) \in Nat
                     /\ \A s \in Sequences(a, kind) : s <= Len(stored[a])
  <1>1. CASE a = 0
    <2>1. Sequences(a, kind) = {}
      BY <1>1 DEF Sequences
    <2> QED BY <1>1, <2>1, FS_EmptySet
  <1>2. CASE a # 0
    <2>1. a \in 1..MaxAttempts
      BY <1>2, ReadsAssumption DEF Attempts0, ReadsAssumption
    <2>2. stored[a] \in Seq({"logs", "metric"})
      BY <2>1 DEF ReadTypes
    <2>3. Len(stored[a]) \in Nat /\ DOMAIN stored[a] = 1..Len(stored[a])
      BY <2>2, LenProperties
    <2>4. Sequences(a, kind) \in SUBSET (1..Len(stored[a]))
      BY <1>2, <2>3 DEF Sequences
    <2>5. IsFiniteSet(Sequences(a, kind))
      <3>1. PICK n \in Nat : n = Len(stored[a])
        BY <2>3
      <3>2. IsFiniteSet(1..n)
        BY FS_Interval
      <3>3. Sequences(a, kind) \in SUBSET (1..n)
        BY <2>4, <3>1
      <3> QED BY <3>2, <3>3, FS_Subset
    <2> QED BY <2>1, <2>3, <2>4, <2>5
  <1> QED BY <1>1, <1>2

\* Nothing is stored up to sequence 0.
LEMMA NothingDue ==
  ASSUME ReadTypes, NEW a \in Attempts0
  PROVE  /\ InOrder(DueTo(a, 0)) = <<>> /\ Marked(a, <<>>) = <<>> /\ Bounded(<<>>) = <<>>
         /\ Exactly(a, 0) = <<>>
  <1>1. DueTo(a, 0) = {}
    <2>1. \A s \in Sequences(a, Kind) : s \in Nat /\ s # 0
      <3>1. CASE a = 0
        BY <3>1 DEF Sequences
      <3>2. CASE a # 0
        <4>3. a \in 1..MaxAttempts
          BY <3>2, SequencesAre
        <4>1. stored[a] \in Seq({"logs", "metric"})
          BY <4>3 DEF ReadTypes
        <4>2. DOMAIN stored[a] = 1..Len(stored[a]) /\ Len(stored[a]) \in Nat
          BY <4>1, LenProperties
        <4> QED BY <3>2, <4>2 DEF Sequences
      <3> QED BY <3>1, <3>2
    <2> QED BY <2>1 DEF DueTo
  <1>2. InOrder({}) = <<>>
    <2> DEFINE none == {}
    <2>3. none \in SUBSET Nat /\ IsFiniteSet(none)
      BY FS_EmptySet
    <2> HIDE DEF none
    <2>4. Enumerates(InOrder(none), none) /\ Len(InOrder(none)) = Cardinality(none)
      BY <2>3, InOrderEnumerates
    <2>1. Enumerates(InOrder({}), {}) /\ Len(InOrder({})) = Cardinality({})
      BY <2>4 DEF none
    <2>2. Cardinality({}) = 0 /\ InOrder({}) \in Seq(Nat)
      BY <2>1, FS_EmptySet DEF Enumerates
    <2> QED BY <2>1, <2>2
  <1>3. Marked(a, <<>>) = <<>>
    <2>1. Marked(a, <<>>) \in Seq(Attempts0 \X Nat) /\ Len(Marked(a, <<>>)) = Len(<<>>)
      BY EmptySeq, MarkedFacts
    <2>2. Len(Marked(a, <<>>)) = 0
      BY <2>1
    <2> QED BY <2>1, <2>2
  <1>4. Bounded(<<>>) = <<>>
    <2>1. PICK none \in Seq(Nat) : none = <<>>
      BY EmptySeq
    <2>2. PICK k : IsTail(Bounded(none), Nat, none, k)
      BY BoundedFacts
    <2>3. Bounded(none) \in Seq(Nat) /\ Len(none) = 0 /\ k = 0 /\ Len(Bounded(none)) = 0 - k
      <3>1. Len(none) = 0
        BY <2>1
      <3> QED BY <2>2, <3>1 DEF IsTail
    <2>4. Bounded(none) = <<>>
      BY <2>3
    <2> QED BY <2>1, <2>4
  <1> QED BY <1>1, <1>2, <1>3, <1>4, Zenon DEF Exactly

\* One page more of what is due.
LEMMA OnePageMore ==
  ASSUME ReadTypes, NEW a \in 1..MaxAttempts, NEW c \in Nat, NEW page \in Seq(Nat),
         NEW d, InOrder(DueTo(a, d)) = InOrder(DueTo(a, c)) \o page,
         shown[a] = Exactly(a, c)
  PROVE  IF reader.mode = "view" THEN Bounded(shown[a] \o Marked(a, page)) = Exactly(a, d)
         ELSE shown[a] \o Marked(a, page) = Exactly(a, d)
  <1> DEFINE old == InOrder(DueTo(a, c))
             x == Marked(a, old)
             y == Marked(a, page)
  <1>1. a \in Attempts0
    BY DEF Attempts0
  <1>2. old \in Seq(Nat)
    <2>1. Sequences(a, Kind) \in SUBSET Nat /\ IsFiniteSet(Sequences(a, Kind))
      BY <1>1, SequencesAre
    <2>2. DueTo(a, c) \in SUBSET Sequences(a, Kind)
      BY DEF DueTo
    <2>3. IsFiniteSet(DueTo(a, c)) /\ DueTo(a, c) \in SUBSET Nat
      BY <2>1, <2>2, FS_Subset
    <2> QED BY <2>3, InOrderEnumerates DEF Enumerates
  <1> HIDE DEF old
  <1>3. x \in Seq(Attempts0 \X Nat) /\ y \in Seq(Attempts0 \X Nat)
        /\ Marked(a, old \o page) = x \o y
    BY <1>1, <1>2, MarkedFacts
  <1> HIDE DEF x, y
  <1>4. CASE reader.mode = "view"
    <2>1. shown[a] = Bounded(x)
      BY <1>4 DEF Exactly, x, old
    <2>2. Exactly(a, d) = Bounded(x \o y)
      BY <1>3, <1>4 DEF Exactly, old
    <2>3. Bounded(Bounded(x) \o y) = Bounded(x \o y)
      BY <1>3, BoundedJoin
    <2> QED BY <1>4, <2>1, <2>2, <2>3 DEF y
  <1>5. CASE reader.mode # "view"
    <2>1. shown[a] = x
      BY <1>5 DEF Exactly, x, old
    <2>2. Exactly(a, d) = x \o y
      BY <1>3, <1>5 DEF Exactly, old
    <2> QED BY <1>5, <2>1, <2>2 DEF y
  <1> QED BY <1>4, <1>5

\* A page of the attempt's records, asked for with its cursor.
LEMMA PageAnswers ==
  ASSUME ReadTypes, NEW a \in 1..MaxAttempts, NEW c \in Nat, c <= Len(stored[a]), NEW page,
         page = PageOf(Sequences(a, Kind), c)
  PROVE  /\ page \in Seq(Nat) /\ Answer(a, c, page, NextCursor(page, c))
         /\ Len(page) # PageLimit => NoneAfter(a, NextCursor(page, c))
  <1>1. a \in Attempts0 /\ a # 0
    BY DEF Attempts0
  <1>2. /\ Sequences(a, Kind) \in SUBSET Nat /\ IsFiniteSet(Sequences(a, Kind))
        /\ \A s \in Sequences(a, Kind) : s <= Len(stored[a])
    BY <1>1, SequencesAre
  <1> DEFINE all == Sequences(a, Kind)
             d == NextCursor(page, c)
  <1>3. PageIs(all, c, page, d)
    <2> HIDE DEF all
    <2> QED BY <1>2, PageFacts DEF all
  <1>4. DueTo(a, c) = {s \in all : s <= c} /\ DueTo(a, d) = {s \in all : s <= d}
    BY DEF DueTo
  <1> HIDE DEF all, d
  <1>5. /\ page \in Seq(Nat) /\ d \in Nat /\ c <= d /\ (d = c \/ d \in all)
        /\ \A i \in 1..Len(page) : page[i] \in all /\ c < page[i]
        /\ InOrder(DueTo(a, d)) = InOrder(DueTo(a, c)) \o page
        /\ Len(page) # PageLimit => \A s \in all : s <= d
        /\ Len(page) = PageLimit => c < d
    BY <1>3, <1>4, Zenon DEF PageIs
  <1>6. d <= Len(stored[a])
    BY <1>2, <1>5 DEF all
  <1>7. \A i \in 1..Len(page) : page[i] > c
    <2>1. \A i \in 1..Len(page) : page[i] \in Nat
      BY <1>5, LenProperties
    <2> QED BY <1>5, <2>1
  <1>8. Len(page) # PageLimit => NoneAfter(a, d)
    BY <1>5 DEF NoneAfter, all
  <1>9. Len(page) = PageLimit => d > c
    BY <1>5
  <1> QED BY <1>5, <1>6, <1>7, <1>8, <1>9 DEF Answer, d

-----------------------------------------------------------------------------
(* The steps *)

LEMMA StartReading ==
  ReadsInit => ReadsInv
  <1> SUFFICES ASSUME ReadsInit PROVE ReadsInv
    OBVIOUS
  <1>1. PICK mode \in Modes :
          reader = [mode |-> mode, at |-> "run", cursor |-> 0, seen |-> FALSE,
                    attempt |-> IF mode = "fixed" THEN 1 ELSE 0,
                    selected |-> 0, over |-> FALSE, page |-> <<>>]
    BY DEF ReadsInit
  <1>2. mode \in Mode /\ MaxAttempts \in Nat /\ MaxAttempts >= 1
    BY ReadsAssumption DEF ReadsAssumption
  <1>3. PICK none \in Seq(Nat) : none = <<>>
    BY EmptySeq
  <1>4. /\ reader.mode = mode /\ reader.at = "run" /\ reader.cursor = 0 /\ ~reader.seen
        /\ reader.attempt = (IF mode = "fixed" THEN 1 ELSE 0) /\ ~reader.over
        /\ reader.selected = 0 /\ reader.page = none
    BY <1>1, <1>3
  <1>5. /\ stored = [a \in 1..MaxAttempts |-> <<>>] /\ shown = [a \in Attempts0 |-> <<>>]
        /\ active = reader.attempt /\ active = 0 => runStatus # "EXECUTING"
    BY DEF ReadsInit
  <1>6. active = reader.attempt
    BY DEF ReadsInit
  <1>7. ReadTypes
    <2>1. reader.attempt \in Attempts0 /\ 0 \in Attempts0 /\ active \in Attempts0
      BY <1>2, <1>4, <1>6 DEF Attempts0
    <2>2. reader \in [mode : Mode, at : {"run", "page", "answer", "ended", "error"},
                      cursor : Nat, seen : BOOLEAN, attempt : Attempts0,
                      selected : Attempts0, over : BOOLEAN, page : Seq(Nat)]
      <3>1. (IF mode = "fixed" THEN 1 ELSE 0) \in Attempts0
        BY <1>4, <2>1
      <3> QED BY <1>1, <1>2, <1>3, <2>1, <3>1
    <2>3. shown \in [Attempts0 -> Seq(Attempts0 \X Nat)]
      <3>1. <<>> \in Seq(Attempts0 \X Nat)
        BY EmptySeq
      <3> QED BY <1>5, <3>1
    <2>4. stored \in [1..MaxAttempts -> Seq({"logs", "metric"})]
      <3>1. <<>> \in Seq({"logs", "metric"})
        BY EmptySeq
      <3> QED BY <1>5, <3>1
    <2>5. active = 0 => runStatus # "EXECUTING"
      BY DEF ReadsInit
    <2> QED BY <1>4, <2>1, <2>2, <2>3, <2>4, <2>5 DEF ReadTypes
  <1>8. Reading
    <2>1. \A a \in Attempts0 : shown[a] = <<>>
      BY <1>5
    <2>2. ASSUME NEW a \in 1..MaxAttempts, NEW c \in Nat, reader.cursor = c
          PROVE  c <= Len(stored[a]) /\ shown[a] = Exactly(a, c)
      <3>1. a \in Attempts0 /\ c = 0
        BY <1>4, <2>2 DEF Attempts0
      <3>2. Exactly(a, 0) = <<>> /\ shown[a] = <<>>
        BY <1>7, <2>1, <3>1, NothingDue
      <3>3. stored[a] = <<>>
        BY <1>5
      <3>4. Len(stored[a]) = 0
        BY <3>3
      <3> QED BY <3>1, <3>2, <3>4
    <2>3. reader.attempt <= active
      <3>1. reader.attempt \in Nat
        BY <1>4
      <3> QED BY <1>6, <3>1
    <2> QED BY <1>4, <2>1, <2>2, <2>3 DEF Reading
  <1>9. Noticed /\ Asked /\ Finished
    BY <1>4 DEF Noticed, Asked, Finished
  <1>10. Numbering
    <2>1. /\ evSequence = 0 /\ evCommitted = 0 /\ events = {}
          /\ evTx = [w \in EventWriters |-> [at |-> "begin", sequence |-> 0]]
          /\ evReader = [cursor |-> 0, got |-> none]
      BY <1>3 DEF ReadsInit
    <2>2. evTx \in [EventWriters -> [at : {"begin", "inserted", "over"}, sequence : Nat]]
      BY <2>1
    <2>3. \A w \in EventWriters : evTx[w].at # "inserted"
      BY <2>1
    <2>4. evReader \in [cursor : Nat, got : Seq(Nat)] /\ evReader.cursor = 0
      BY <2>1
    <2>5. NoEventSkipped
      BY <2>1 DEF NoEventSkipped
    <2> QED BY <2>1, <2>2, <2>3, <2>4, <2>5 DEF Numbering
  <1> QED BY <1>7, <1>8, <1>9, <1>10 DEF ReadsInv

\* Readers of telemetry leave the events alone, and the other way round.
LEMMA EventsRest ==
  ASSUME Numbering, UNCHANGED evVars
  PROVE  Numbering'
  <1>1. UNCHANGED <<evSequence, evCommitted, evTx, events, evReader>>
    BY DEF evVars
  <1> QED BY <1>1 DEF Numbering, NoEventSkipped

\* Nobody stores a record, and the reader keeps its kind.
LEMMA SameRecords ==
  ASSUME stored' = stored, reader'.mode = reader.mode, NEW a, NEW c
  PROVE  /\ Sequences(a, Kind)' = Sequences(a, Kind) /\ DueTo(a, c)' = DueTo(a, c)
         /\ Exactly(a, c)' = Exactly(a, c) /\ NoneAfter(a, c)' = NoneAfter(a, c)
  <1>1. Kind' = Kind
    BY DEF Kind
  <1>2. Sequences(a, Kind)' = Sequences(a, Kind)
    BY <1>1 DEF Sequences
  <1>3. DueTo(a, c)' = DueTo(a, c)
    BY <1>2 DEF DueTo
  <1>4. InOrder(DueTo(a, c))' = InOrder(DueTo(a, c))
    BY <1>3
  <1>5. Exactly(a, c)' = Exactly(a, c)
    BY <1>4 DEF Exactly
  <1>6. NoneAfter(a, c)' = NoneAfter(a, c)
    BY <1>2 DEF NoneAfter
  <1> QED BY <1>2, <1>3, <1>5, <1>6

\* An answer on its way stays what it is.
LEMMA SameAnswer ==
  ASSUME stored' = stored, reader'.mode = reader.mode, reader'.over = reader.over,
         NEW a, NEW c, NEW page, NEW d, Answer(a, c, page, d)
  PROVE  Answer(a, c, page, d)'
  <1>1. DueTo(a, c)' = DueTo(a, c) /\ DueTo(a, d)' = DueTo(a, d)
        /\ NoneAfter(a, d)' = NoneAfter(a, d)
    BY SameRecords
  <1> QED BY <1>1 DEF Answer

\* The run moves on; the reader does not.
LEMMA RunMoves ==
  ASSUME ReadsInv, RunAssigned \/ RunRequeued \/ RunEnded
  PROVE  ReadsInv'
  <1>1. UNCHANGED <<stored, reader, shown>> /\ UNCHANGED evVars
    BY DEF RunAssigned, RunRequeued, RunEnded
  <1>2. /\ active \in Attempts0 /\ active' \in Attempts0 /\ active <= active'
        /\ active' = 0 => runStatus' # "EXECUTING"
    <2>1. active \in Attempts0 /\ MaxAttempts \in Nat
      BY ReadsAssumption DEF ReadsInv, ReadTypes, ReadsAssumption
    <2>2. CASE RunAssigned
      <3>1. active \in Nat /\ active < MaxAttempts /\ active' = active + 1
        BY <2>1, <2>2 DEF RunAssigned, Attempts0
      <3> QED BY <2>1, <3>1 DEF Attempts0
    <2>3. CASE RunRequeued \/ RunEnded
      <3>1. active' = active /\ runStatus' # "EXECUTING"
        BY <2>3 DEF RunRequeued, RunEnded
      <3> QED BY <2>1, <3>1 DEF Attempts0
    <2> QED BY <2>2, <2>3
  <1>3. reader.attempt \in Attempts0 /\ reader.attempt <= active
    BY DEF ReadsInv, ReadTypes, Reading
  <1>4. Closed(reader.attempt) => Closed(reader.attempt)'
    <2>1. CASE RunAssigned
      <3>1. active' = active + 1 /\ active \in Nat /\ reader.attempt \in Nat
        BY <1>2, <1>3, <2>1 DEF RunAssigned, Attempts0
      <3>2. active' # reader.attempt
        BY <1>3, <3>1
      <3> QED BY <1>1, <3>2 DEF Closed
    <2>2. CASE RunRequeued \/ RunEnded
      BY <1>1, <2>2 DEF Closed, RunRequeued, RunEnded
    <2> QED BY <2>1, <2>2
  <1>5. ReadTypes'
    BY <1>1, <1>2 DEF ReadsInv, ReadTypes
  <1>6. \A a, c : Exactly(a, c)' = Exactly(a, c) /\ NoneAfter(a, c)' = NoneAfter(a, c)
    BY <1>1, SameRecords
  <1>7. Reading'
    <2>1. reader'.attempt <= active'
      BY <1>1, <1>2, <1>3 DEF Attempts0
    <2> QED BY <1>1, <1>6, <2>1 DEF ReadsInv, Reading
  <1>8. Noticed'
    BY <1>1, <1>4 DEF ReadsInv, Noticed
  <1>9. Asked'
    <2>1. ASSUME NEW a \in 1..MaxAttempts, NEW c \in Nat, NEW page \in Seq(Nat),
                 reader.at = "answer", reader.attempt = a, reader.cursor = c,
                 reader.page = page
          PROVE  Answer(a, c, page, NextCursor(page, c))'
      <3>1. Answer(a, c, page, NextCursor(page, c))
        BY <2>1 DEF ReadsInv, Asked
      <3> QED BY <1>1, <3>1, SameAnswer
    <2> QED BY <1>1, <2>1 DEF Asked
  <1>10. Finished'
    BY <1>1, <1>4, <1>6 DEF ReadsInv, Finished
  <1>11. Numbering'
    BY <1>1, EventsRest DEF ReadsInv
  <1> QED BY <1>5, <1>7, <1>8, <1>9, <1>10, <1>11 DEF ReadsInv

\* A record stored later leaves what was due up to a cursor as it is, and an
\* attempt that is closed gets none.
LEMMA StoredKeeps ==
  ASSUME ReadTypes, RecordStored, NEW a \in 1..MaxAttempts
  PROVE  /\ stored' \in [1..MaxAttempts -> Seq({"logs", "metric"})]
         /\ Len(stored[a]) \in Nat /\ Len(stored[a]) <= Len(stored'[a])
         /\ \A c \in Nat : c <= Len(stored[a]) =>
              DueTo(a, c)' = DueTo(a, c) /\ Exactly(a, c)' = Exactly(a, c)
         /\ Closed(a) => \A c : NoneAfter(a, c)' = NoneAfter(a, c)
  <1>1. PICK kind \in {"logs", "metric"} :
          stored' = [stored EXCEPT ![active] = Append(@, kind)]
    BY DEF RecordStored
  <1>2. /\ stored \in [1..MaxAttempts -> Seq({"logs", "metric"})] /\ active \in 1..MaxAttempts
        /\ MaxAttempts \in Nat
    <2>1. active # 0 /\ active \in Attempts0 /\ MaxAttempts \in Nat
      BY ReadsAssumption DEF ReadTypes, RecordStored, ReadsAssumption
    <2> QED BY <2>1 DEF ReadTypes, Attempts0
  <1>3. PICK old \in Seq({"logs", "metric"}) : old = stored[a]
    BY <1>2
  <1>4. Len(old) \in Nat /\ DOMAIN old = 1..Len(old)
    BY LenProperties
  <1>5. PICK new \in Seq({"logs", "metric"}) :
          /\ new = stored'[a] /\ Len(new) \in Nat /\ Len(old) <= Len(new)
          /\ DOMAIN new = 1..Len(new) /\ \A i \in 1..Len(old) : new[i] = old[i]
          /\ active # a => new = old
    <2>1. CASE active = a
      <3>1. Append(old, kind) \in Seq({"logs", "metric"}) /\ stored'[a] = Append(old, kind)
        BY <1>1, <1>2, <1>3, <2>1
      <3>2. /\ Len(Append(old, kind)) = Len(old) + 1
            /\ \A i \in 1..Len(old) : Append(old, kind)[i] = old[i]
        BY <1>4, AppendProperties
      <3>3. DOMAIN Append(old, kind) = 1..Len(Append(old, kind))
        BY <3>1, LenProperties
      <3>4. PICK new \in Seq({"logs", "metric"}) : new = Append(old, kind)
        BY <3>1
      <3>5. Len(new) \in Nat /\ Len(old) <= Len(new)
        BY <1>4, <3>2, <3>4
      <3>6. new = stored'[a] /\ DOMAIN new = 1..Len(new) /\ \A i \in 1..Len(old) : new[i] = old[i]
        BY <3>1, <3>2, <3>3, <3>4
      <3> QED BY <2>1, <3>5, <3>6
    <2>2. CASE active # a
      <3>1. stored'[a] = old
        BY <1>1, <1>2, <1>3, <2>2
      <3> QED BY <1>4, <2>2, <3>1
    <2> QED BY <2>1, <2>2
  <1>6. stored' \in [1..MaxAttempts -> Seq({"logs", "metric"})]
    BY <1>1, <1>2
  <1>7. Kind' = Kind /\ a # 0 /\ runStatus = "EXECUTING"
    <2>1. reader' = reader /\ runStatus = "EXECUTING"
      BY DEF RecordStored
    <2> QED BY <2>1 DEF Kind
  <1>8. /\ Sequences(a, Kind) = {s \in 1..Len(old) : old[s] = Kind}
        /\ Sequences(a, Kind)' = {s \in 1..Len(new) : new[s] = Kind}
    BY <1>3, <1>4, <1>5, <1>7 DEF Sequences
  <1>9. ASSUME NEW c \in Nat, c <= Len(old)
        PROVE  DueTo(a, c)' = DueTo(a, c) /\ Exactly(a, c)' = Exactly(a, c)
    <2>1. DueTo(a, c)' = DueTo(a, c)
      <3>1. \A s : s \in 1..Len(new) /\ s <= c <=> s \in 1..Len(old) /\ s <= c
        BY <1>4, <1>5, <1>9
      <3>2. \A s : s \in DueTo(a, c) <=> (s \in 1..Len(old) /\ s <= c /\ old[s] = Kind)
        BY <1>8 DEF DueTo
      <3>3. \A s : s \in DueTo(a, c)' <=> (s \in 1..Len(new) /\ s <= c /\ new[s] = Kind)
        BY <1>7, <1>8 DEF DueTo
      <3>4. \A s : s \in DueTo(a, c)' <=> s \in DueTo(a, c)
        BY <1>5, <3>1, <3>2, <3>3
      <3> QED BY <3>4
    <2>2. InOrder(DueTo(a, c))' = InOrder(DueTo(a, c)) /\ reader' = reader
      BY <2>1 DEF RecordStored
    <2>3. Exactly(a, c)' = Exactly(a, c)
      BY <2>2 DEF Exactly
    <2> QED BY <2>1, <2>3
  <1>10. Closed(a) => \A c : NoneAfter(a, c)' = NoneAfter(a, c)
    <2>1. SUFFICES ASSUME Closed(a), NEW c PROVE NoneAfter(a, c)' = NoneAfter(a, c)
      OBVIOUS
    <2>2. active # a
      BY <1>7, <2>1 DEF Closed
    <2>3. Sequences(a, Kind)' = Sequences(a, Kind)
      BY <1>5, <1>8, <2>2
    <2> QED BY <2>3 DEF NoneAfter
  <1> QED BY <1>3, <1>4, <1>5, <1>6, <1>9, <1>10

\* A record arrives behind every cursor.
LEMMA RecordArrives ==
  ASSUME ReadsInv, RecordStored
  PROVE  ReadsInv'
  <1>1. UNCHANGED <<runStatus, active, reader, shown>> /\ UNCHANGED evVars
    BY DEF RecordStored
  <1>2. ReadTypes /\ Reading /\ Noticed /\ Asked /\ Finished /\ Numbering
    BY DEF ReadsInv
  <1>3. ReadTypes'
    <2>1. 1 \in 1..MaxAttempts
      BY ReadsAssumption DEF ReadsAssumption
    <2>2. stored' \in [1..MaxAttempts -> Seq({"logs", "metric"})]
      BY <1>2, <2>1, StoredKeeps
    <2> QED BY <1>1, <1>2, <2>2 DEF ReadTypes
  <1>4. Reading'
    <2>1. ASSUME NEW a \in 1..MaxAttempts, NEW c \in Nat, reader.attempt = a, reader.cursor = c
          PROVE  c <= Len(stored'[a]) /\ shown'[a] = Exactly(a, c)'
      <3>1. c <= Len(stored[a]) /\ shown[a] = Exactly(a, c)
        BY <1>2, <2>1 DEF Reading
      <3>2. /\ Len(stored[a]) \in Nat /\ Len(stored[a]) <= Len(stored'[a])
            /\ Exactly(a, c)' = Exactly(a, c)
        BY <1>2, <3>1, StoredKeeps
      <3>3. stored'[a] \in Seq({"logs", "metric"})
        BY <1>3 DEF ReadTypes
      <3>4. Len(stored'[a]) \in Nat
        BY <3>3, LenProperties
      <3> QED BY <1>1, <3>1, <3>2, <3>4
    <2> QED BY <1>1, <1>2, <2>1 DEF Reading
  <1>5. Noticed'
    BY <1>1, <1>2 DEF Noticed, Closed
  <1>6. Asked'
    <2>1. ASSUME NEW a \in 1..MaxAttempts, NEW c \in Nat, NEW page \in Seq(Nat),
                 reader.at = "answer", reader.attempt = a, reader.cursor = c,
                 reader.page = page
          PROVE  Answer(a, c, page, NextCursor(page, c))'
      <3>1. PICK d : d = NextCursor(page, c)
        OBVIOUS
      <3>2. Answer(a, c, page, d)
        BY <1>2, <2>1, <3>1 DEF Asked
      <3>3. d \in Nat /\ c <= d /\ d <= Len(stored[a])
        BY <3>2 DEF Answer
      <3>4. stored'[a] \in Seq({"logs", "metric"}) /\ stored[a] \in Seq({"logs", "metric"})
        BY <1>2, <1>3 DEF ReadTypes
      <3>5. Len(stored'[a]) \in Nat /\ Len(stored[a]) \in Nat
        BY <3>4, LenProperties
      <3>6. c <= Len(stored[a])
        BY <3>3, <3>5
      <3>7. /\ Len(stored[a]) <= Len(stored'[a])
            /\ DueTo(a, c)' = DueTo(a, c) /\ DueTo(a, d)' = DueTo(a, d)
            /\ Closed(a) => NoneAfter(a, d)' = NoneAfter(a, d)
        BY <1>2, <3>3, <3>6, StoredKeeps
      <3>8. reader.over => Closed(a)
        BY <1>2, <2>1 DEF Noticed
      <3>9. d <= Len(stored'[a])
        BY <3>3, <3>5, <3>7
      <3>10. Answer(a, c, page, d)'
        BY <1>1, <3>2, <3>7, <3>8, <3>9 DEF Answer
      <3>11. NextCursor(page, c)' = d
        BY <3>1 DEF NextCursor
      <3> QED BY <3>10, <3>11 DEF Answer
    <2> QED BY <1>1, <2>1 DEF Asked
  <1>7. Finished'
    <2>1. ASSUME reader.at = "ended", reader.mode \in {"follow", "fixed", "view"}
          PROVE  /\ Closed(reader.attempt)'
                 /\ \A a \in 1..MaxAttempts, c \in Nat :
                      reader.attempt = a /\ reader.cursor = c => NoneAfter(a, c)'
      <3>1. /\ Closed(reader.attempt)
            /\ \A a \in 1..MaxAttempts, c \in Nat :
                 reader.attempt = a /\ reader.cursor = c => NoneAfter(a, c)
        BY <1>2, <2>1 DEF Finished
      <3>2. Closed(reader.attempt)'
        BY <1>1, <3>1 DEF Closed
      <3>3. ASSUME NEW a \in 1..MaxAttempts, NEW c \in Nat, reader.attempt = a, reader.cursor = c
            PROVE  NoneAfter(a, c)'
        <4>1. NoneAfter(a, c)' = NoneAfter(a, c)
          BY <1>2, <3>1, <3>3, StoredKeeps
        <4> QED BY <3>1, <3>3, <4>1
      <3> QED BY <3>2, <3>3
    <2> QED BY <1>1, <2>1 DEF Finished
  <1>8. Numbering'
    BY <1>1, <1>2, EventsRest
  <1> QED BY <1>3, <1>4, <1>5, <1>6, <1>7, <1>8 DEF ReadsInv

\* A page that is fetched and shown at once moves the cursor to its end.
LEMMA PageShown ==
  ASSUME ReadsInv, UNCHANGED runVars, reader.mode # "view", NEW page,
         page = PageOf(Sequences(Coalesce(reader.attempt), Kind), reader.cursor),
         Shows(reader.attempt, page), reader'.mode = reader.mode,
         reader'.attempt = reader.attempt, reader'.cursor = NextCursor(page, reader.cursor)
  PROVE  /\ reader'.cursor \in Nat /\ shown' \in [Attempts0 -> Seq(Attempts0 \X Nat)]
         /\ Reading' /\ page \in Seq(Nat)
         /\ \A a \in 1..MaxAttempts, c \in Nat :
              reader'.attempt = a /\ reader'.cursor = c /\ Len(page) # PageLimit
                => NoneAfter(a, c)'
  <1>1. ReadTypes /\ Reading
    BY DEF ReadsInv
  <1>2. UNCHANGED <<runStatus, active, stored>> /\ Kind' = Kind
    BY DEF runVars, Kind
  <1>3. PICK b \in Attempts0, c0 \in Nat : b = reader.attempt /\ c0 = reader.cursor
    BY <1>1 DEF ReadTypes
  <1>4. PICK e \in Attempts0 : e = Coalesce(b)
    BY <1>1, <1>3 DEF ReadTypes, Coalesce
  <1>5. PICK d : d = NextCursor(page, c0)
    OBVIOUS
  <1>6. page \in Seq(Nat) /\ d \in Nat
    <2>1. Sequences(e, Kind) \in SUBSET Nat /\ IsFiniteSet(Sequences(e, Kind))
      BY <1>1, SequencesAre
    <2>2. PageIs(Sequences(e, Kind), c0, page, d)
      BY <1>3, <1>4, <1>5, <2>1, PageFacts
    <2> QED BY <2>2 DEF PageIs
  <1>7. shown' = [shown EXCEPT ![b] = @ \o Marked(e, page)]
    BY <1>3, <1>4 DEF Shows, Marked
  <1>8. PICK more \in Seq(Attempts0 \X Nat) : more = Marked(e, page)
    BY <1>6, MarkedFacts
  <1>9. shown \in [Attempts0 -> Seq(Attempts0 \X Nat)]
    BY <1>1 DEF ReadTypes
  <1>10. shown[b] \o more \in Seq(Attempts0 \X Nat)
    <2>1. PICK before \in Seq(Attempts0 \X Nat) : before = shown[b]
      BY <1>9
    <2>2. before \o more \in Seq(Attempts0 \X Nat)
      BY ConcatProperties
    <2> QED BY <2>1, <2>2
  <1>11. shown' \in [Attempts0 -> Seq(Attempts0 \X Nat)]
    BY <1>7, <1>8, <1>9, <1>10
  <1>12. ASSUME NEW a \in 1..MaxAttempts, b = a
         PROVE  /\ d <= Len(stored[a]) /\ shown'[a] = Exactly(a, d)'
                /\ Len(page) # PageLimit => NoneAfter(a, d)'
    <2>1. a \in Attempts0 /\ a # 0 /\ e = a
      BY <1>3, <1>4, <1>12 DEF Coalesce
    <2>2. c0 <= Len(stored[a]) /\ shown[a] = Exactly(a, c0)
      BY <1>1, <1>3, <1>12 DEF Reading
    <2>3. page = PageOf(Sequences(a, Kind), c0)
      BY <1>3, <1>4, <2>1
    <2>4. Answer(a, c0, page, d) /\ (Len(page) # PageLimit => NoneAfter(a, d))
      BY <1>1, <1>5, <2>2, <2>3, PageAnswers
    <2>5. InOrder(DueTo(a, d)) = InOrder(DueTo(a, c0)) \o page /\ d <= Len(stored[a])
      BY <2>4 DEF Answer
    <2>6. shown[a] \o Marked(a, page) = Exactly(a, d)
      BY <1>1, <1>6, <2>2, <2>5, OnePageMore
    <2>7. Exactly(a, d)' = Exactly(a, d) /\ NoneAfter(a, d)' = NoneAfter(a, d)
      BY <1>2, SameRecords
    <2>8. shown'[a] = shown[a] \o Marked(a, page)
      BY <1>7, <1>9, <1>12, <2>1
    <2> QED BY <2>4, <2>5, <2>6, <2>7, <2>8
  <1>13. Reading'
    <2>1. reader'.attempt = b /\ reader'.cursor = d
      BY <1>3, <1>5
    <2>2. ASSUME NEW a \in 1..MaxAttempts, NEW c \in Nat, reader'.attempt = a, reader'.cursor = c
          PROVE  c <= Len(stored'[a]) /\ shown'[a] = Exactly(a, c)'
      <3>1. b = a /\ c = d
        BY <2>1, <2>2
      <3>2. d <= Len(stored[a]) /\ shown'[a] = Exactly(a, d)'
        BY <1>12, <3>1
      <3>3. d <= Len(stored'[a])
        BY <1>2, <3>2
      <3> QED BY <3>1, <3>2, <3>3
    <2>3. ASSUME NEW a \in Attempts0, a > b PROVE shown'[a] = <<>>
      <3>1. a # b
        BY <2>3 DEF Attempts0
      <3>2. shown[a] = <<>>
        BY <1>1, <1>3, <2>3 DEF Reading
      <3> QED BY <1>7, <1>9, <3>1, <3>2
    <2>4. reader'.attempt <= active' /\ (reader'.mode = "fixed" => reader'.attempt # 0)
      BY <1>1, <1>2 DEF Reading
    <2> QED BY <2>1, <2>2, <2>3, <2>4 DEF Reading
  <1>14. ASSUME NEW a \in 1..MaxAttempts, NEW c \in Nat, reader'.attempt = a,
                reader'.cursor = c, Len(page) # PageLimit
         PROVE  NoneAfter(a, c)'
    <2>1. b = a /\ c = d
      BY <1>3, <1>5, <1>14
    <2> QED BY <1>12, <1>14, <2>1
  <1>15. reader'.cursor \in Nat
    BY <1>3, <1>5, <1>6
  <1> QED BY <1>6, <1>11, <1>13, <1>14, <1>15

\* Follow, once: a new attempt is followed from its beginning.
LEMMA RunFollowed ==
  ASSUME ReadsInv, FollowRun
  PROVE  ReadsInv'
  <1>1. ReadTypes /\ Reading /\ Noticed /\ Asked /\ Finished /\ Numbering
    BY DEF ReadsInv
  <1>2. UNCHANGED <<runStatus, active, stored, shown>> /\ UNCHANGED evVars
    BY DEF FollowRun, runVars
  <1> DEFINE switch == reader.mode # "fixed" /\ active # reader.attempt
  <1>3. /\ reader.mode \in {"follow", "fixed", "once"}
        /\ reader' = [reader EXCEPT
                       !.at = "page", !.selected = active, !.over = runStatus = "DONE",
                       !.attempt = IF switch THEN active ELSE @,
                       !.cursor = IF switch THEN 0 ELSE @,
                       !.seen = IF switch THEN FALSE ELSE @]
    BY DEF FollowRun
  <1>4. reader \in [mode : Mode, at : {"run", "page", "answer", "ended", "error"},
                    cursor : Nat, seen : BOOLEAN, attempt : Attempts0,
                    selected : Attempts0, over : BOOLEAN, page : Seq(Nat)]
    BY <1>1 DEF ReadTypes
  <1>5. /\ reader'.mode = reader.mode /\ reader'.at = "page" /\ reader'.selected = active
        /\ reader'.over = (runStatus = "DONE")
        /\ reader'.attempt = IF switch THEN active ELSE reader.attempt
        /\ reader'.cursor = IF switch THEN 0 ELSE reader.cursor
        /\ reader'.seen = IF switch THEN FALSE ELSE reader.seen
    BY <1>3, <1>4
  <1>6. active \in Attempts0 /\ reader.attempt \in Attempts0 /\ reader.attempt <= active
    BY <1>1 DEF ReadTypes, Reading
  <1>7. ReadTypes'
    <2>1. reader' \in [mode : Mode, at : {"run", "page", "answer", "ended", "error"},
                       cursor : Nat, seen : BOOLEAN, attempt : Attempts0,
                       selected : Attempts0, over : BOOLEAN, page : Seq(Nat)]
      BY <1>3, <1>4, <1>6
    <2>2. reader'.mode \notin {"view", "export"} /\ reader'.at # "answer"
      BY <1>3, <1>5
    <2> QED BY <1>1, <1>2, <2>1, <2>2 DEF ReadTypes
  <1>8. Reading'
    <2>1. CASE switch
      <3>1. reader'.attempt = active /\ reader'.cursor = 0 /\ active > reader.attempt
        BY <1>5, <1>6, <2>1 DEF Attempts0
      <3>2. ASSUME NEW a \in Attempts0, a > active PROVE shown'[a] = <<>>
        <4>1. a > reader.attempt
          BY <1>6, <3>1, <3>2 DEF Attempts0
        <4> QED BY <1>1, <1>2, <4>1 DEF Reading
      <3>3. ASSUME NEW a \in 1..MaxAttempts, active = a
            PROVE  0 <= Len(stored'[a]) /\ shown'[a] = Exactly(a, 0)'
        <4>1. a \in Attempts0
          BY <1>6, <3>3
        <4>2. shown'[a] = <<>>
          BY <1>1, <1>2, <3>1, <3>3, <4>1 DEF Reading
        <4>3. Exactly(a, 0) = <<>>
          BY <1>1, <4>1, NothingDue
        <4>4. Exactly(a, 0)' = Exactly(a, 0)
          BY <1>2, <1>5, SameRecords
        <4>5. stored[a] \in Seq({"logs", "metric"})
          BY <1>1 DEF ReadTypes
        <4>6. Len(stored[a]) \in Nat
          BY <4>5, LenProperties
        <4> QED BY <1>2, <4>2, <4>3, <4>4, <4>6
      <3>4. reader'.mode # "fixed" /\ reader'.attempt <= active'
        BY <1>2, <1>5, <1>6, <2>1, <3>1 DEF Attempts0
      <3> QED BY <3>1, <3>2, <3>3, <3>4 DEF Reading
    <2>2. CASE ~switch
      <3>1. reader'.attempt = reader.attempt /\ reader'.cursor = reader.cursor
        BY <1>5, <2>2
      <3>2. \A a, c : Exactly(a, c)' = Exactly(a, c)
        BY <1>2, <1>5, SameRecords
      <3> QED BY <1>1, <1>2, <1>5, <3>1, <3>2 DEF Reading
    <2> QED BY <2>1, <2>2
  <1>9. Noticed'
    <2>1. PICK b : b = reader'.attempt
      OBVIOUS
    <2>2. UNCHANGED <<active, runStatus>>
      BY <1>2
    <2>3. ASSUME reader'.over PROVE active # b \/ runStatus # "EXECUTING"
      <3>1. runStatus = "DONE"
        BY <1>5, <2>3
      <3> QED BY <3>1
    <2>4. ASSUME reader'.seen PROVE active # b \/ runStatus # "EXECUTING"
      <3>1. ~switch /\ reader.seen
        BY <1>5, <2>4
      <3>2. b = reader.attempt
        BY <1>5, <2>1, <3>1
      <3> QED BY <1>1, <3>1, <3>2 DEF Noticed, Closed
    <2>5. ASSUME reader'.selected # b PROVE active # b
      <3>1. reader'.selected = active
        BY <1>5
      <3> QED BY <2>5, <3>1
    <2>6. /\ reader'.over => active' # b \/ runStatus' # "EXECUTING"
          /\ reader'.seen => active' # b \/ runStatus' # "EXECUTING"
          /\ reader'.selected # b => active' # b
      BY <2>2, <2>3, <2>4, <2>5
    <2> QED BY <2>1, <2>6 DEF Noticed, Closed
  <1>10. Asked' /\ Finished'
    BY <1>5 DEF Asked, Finished
  <1>11. Numbering'
    BY <1>1, <1>2, EventsRest
  <1> QED BY <1>7, <1>8, <1>9, <1>10, <1>11 DEF ReadsInv

\* Follow, then: a page is printed, and the follower stops when it has seen the
\* end of its attempt and a page has nothing.
LEMMA PageFollowed ==
  ASSUME ReadsInv, FollowPage
  PROVE  ReadsInv'
  <1>1. ReadTypes /\ Reading /\ Noticed /\ Asked /\ Finished /\ Numbering
    BY DEF ReadsInv
  <1>2. /\ reader.mode \in {"follow", "fixed", "once"} /\ reader.at = "page"
        /\ UNCHANGED runVars /\ UNCHANGED evVars
    BY DEF FollowPage
  <1>3. Kind = "logs"
    BY <1>2 DEF Kind
  <1>4. PICK page : page = PageOf(Sequences(Coalesce(reader.attempt), Kind), reader.cursor)
    OBVIOUS
  <1>5. PICK over, done : /\ over = (reader.over
                                      \/ (reader.mode = "fixed"
                                          /\ reader.selected # reader.attempt))
                          /\ done = FollowDone(page)
    OBVIOUS
  <1>6. /\ Shows(reader.attempt, page)
        /\ reader' = [reader EXCEPT
             !.cursor = NextCursor(page, @),
             !.at = IF Len(page) # PageLimit /\ done THEN "ended" ELSE "run",
             !.seen = IF Len(page) = PageLimit \/ done THEN @ ELSE over]
    BY <1>3, <1>4, <1>5 DEF FollowPage, TelemetryPage
  <1>7. reader \in [mode : Mode, at : {"run", "page", "answer", "ended", "error"},
                    cursor : Nat, seen : BOOLEAN, attempt : Attempts0,
                    selected : Attempts0, over : BOOLEAN, page : Seq(Nat)]
    BY <1>1 DEF ReadTypes
  <1>8. /\ reader'.mode = reader.mode /\ reader'.attempt = reader.attempt
        /\ reader'.selected = reader.selected /\ reader'.over = reader.over
        /\ reader'.cursor = NextCursor(page, reader.cursor)
        /\ reader'.at = (IF Len(page) # PageLimit /\ done THEN "ended" ELSE "run")
        /\ reader'.seen = (IF Len(page) = PageLimit \/ done THEN reader.seen ELSE over)
    BY <1>6, <1>7
  <1>9. /\ reader'.cursor \in Nat /\ shown' \in [Attempts0 -> Seq(Attempts0 \X Nat)]
        /\ Reading' /\ page \in Seq(Nat)
        /\ \A a \in 1..MaxAttempts, c \in Nat :
             reader'.attempt = a /\ reader'.cursor = c /\ Len(page) # PageLimit
               => NoneAfter(a, c)'
    BY <1>2, <1>4, <1>6, <1>8, PageShown
  <1>10. ReadTypes'
    <2>1. over \in BOOLEAN /\ reader'.seen \in BOOLEAN
      BY <1>5, <1>7, <1>8
    <2>2. reader' \in [mode : Mode, at : {"run", "page", "answer", "ended", "error"},
                     cursor : Nat, seen : BOOLEAN, attempt : Attempts0,
                     selected : Attempts0, over : BOOLEAN, page : Seq(Nat)]
      <3>1. reader'.at \in {"run", "page", "answer", "ended", "error"}
        BY <1>8
      <3>2. (IF Len(page) # PageLimit /\ done THEN "ended" ELSE "run")
              \in {"run", "page", "answer", "ended", "error"}
        OBVIOUS
      <3>3. (IF Len(page) = PageLimit \/ done THEN reader.seen ELSE over) \in BOOLEAN
        BY <1>7, <2>1
      <3>4. NextCursor(page, reader.cursor) \in Nat
        BY <1>8, <1>9
      <3> QED BY <1>6, <1>7, <3>2, <3>3, <3>4
    <2>3. reader'.mode \notin {"view", "export"} /\ reader'.at # "answer"
      BY <1>2, <1>8
    <2> QED BY <1>1, <1>2, <1>9, <2>2, <2>3 DEF ReadTypes, runVars
  <1>11. PICK b : b = reader.attempt
    OBVIOUS
  <1>12. /\ UNCHANGED <<active, runStatus>> /\ reader'.attempt = b
         /\ reader.over => active # b \/ runStatus # "EXECUTING"
         /\ reader.seen => active # b \/ runStatus # "EXECUTING"
         /\ over => active # b \/ runStatus # "EXECUTING"
    <2>1. UNCHANGED <<active, runStatus>> /\ reader'.attempt = b
      BY <1>2, <1>8, <1>11 DEF runVars
    <2>2. /\ reader.over => active # b \/ runStatus # "EXECUTING"
          /\ reader.seen => active # b \/ runStatus # "EXECUTING"
          /\ reader.mode = "fixed" /\ reader.selected # reader.attempt =>
               active # b \/ runStatus # "EXECUTING"
      BY <1>1, <1>2, <1>11 DEF Noticed, Closed
    <2>3. over => reader.over \/ (reader.mode = "fixed" /\ reader.selected # reader.attempt)
      BY <1>5
    <2> QED BY <2>1, <2>2, <2>3
  <1>13. Noticed'
    <2>1. reader'.over => active' # b \/ runStatus' # "EXECUTING"
      BY <1>8, <1>12
    <2>2. ASSUME reader'.seen PROVE active' # b \/ runStatus' # "EXECUTING"
      <3>1. reader.seen \/ over
        BY <1>8, <2>2
      <3> QED BY <1>12, <3>1
    <2>3. reader'.at # "page"
      BY <1>8
    <2> QED BY <1>12, <2>1, <2>2, <2>3 DEF Noticed, Closed
  <1>14. Asked'
    <2>1. reader'.at # "answer"
      BY <1>8
    <2> QED BY <2>1 DEF Asked
  <1>15. Finished'
    <2>1. ASSUME reader'.at = "ended", reader'.mode \in {"follow", "fixed", "view"}
          PROVE  Len(page) # PageLimit /\ reader.seen
      <3>1. Len(page) # PageLimit /\ done
        BY <1>8, <2>1
      <3>2. reader.seen
        BY <1>5, <1>8, <2>1, <3>1 DEF FollowDone
      <3> QED BY <3>1, <3>2
    <2> QED BY <1>9, <1>12, <2>1 DEF Finished, Closed
  <1>16. Numbering'
    BY <1>1, <1>2, EventsRest
  <1> QED BY <1>9, <1>10, <1>13, <1>14, <1>15, <1>16 DEF ReadsInv

\* Export, first: the attempt is chosen, and nothing of it is read yet.
LEMMA ExportChosen ==
  ASSUME ReadsInv, ExportRun
  PROVE  ReadsInv'
  <1>1. ReadTypes /\ Reading /\ Noticed /\ Asked /\ Finished /\ Numbering
    BY DEF ReadsInv
  <1>2. /\ reader.mode = "export" /\ reader.at = "run"
        /\ reader' = [reader EXCEPT !.at = "page", !.attempt = active]
        /\ UNCHANGED <<runStatus, active, stored, shown>> /\ UNCHANGED evVars
    BY DEF ExportRun, runVars
  <1>3. reader \in [mode : Mode, at : {"run", "page", "answer", "ended", "error"},
                    cursor : Nat, seen : BOOLEAN, attempt : Attempts0,
                    selected : Attempts0, over : BOOLEAN, page : Seq(Nat)]
    BY <1>1 DEF ReadTypes
  <1>4. /\ reader'.mode = "export" /\ reader'.at = "page" /\ reader'.attempt = active
        /\ reader'.cursor = 0 /\ reader.attempt = 0 /\ active \in Attempts0
        /\ reader'.over = reader.over /\ reader'.seen = reader.seen
    BY <1>1, <1>2, <1>3 DEF ReadTypes
  <1>5. ReadTypes'
    <2>1. reader' \in [mode : Mode, at : {"run", "page", "answer", "ended", "error"},
                     cursor : Nat, seen : BOOLEAN, attempt : Attempts0,
                     selected : Attempts0, over : BOOLEAN, page : Seq(Nat)]
      BY <1>2, <1>3, <1>4
    <2> QED BY <1>1, <1>2, <1>4, <2>1 DEF ReadTypes
  <1>6. Reading'
    <2>1. ASSUME NEW a \in Attempts0, a > active PROVE shown'[a] = <<>>
      <3>1. a > 0
        BY <1>4, <2>1 DEF Attempts0
      <3> QED BY <1>1, <1>2, <1>4, <3>1 DEF Reading
    <2>2. ASSUME NEW a \in 1..MaxAttempts
          PROVE  0 <= Len(stored'[a]) /\ shown'[a] = Exactly(a, 0)'
      <3>1. a \in Attempts0 /\ a > 0
        BY DEF Attempts0
      <3>2. shown'[a] = <<>>
        BY <1>1, <1>2, <1>4, <3>1 DEF Reading
      <3>3. Exactly(a, 0) = <<>>
        BY <1>1, <3>1, NothingDue
      <3>4. Exactly(a, 0)' = Exactly(a, 0)
        BY <1>2, <1>4, SameRecords
      <3>5. stored[a] \in Seq({"logs", "metric"})
        BY <1>1 DEF ReadTypes
      <3>6. Len(stored[a]) \in Nat
        BY <3>5, LenProperties
      <3> QED BY <1>2, <3>2, <3>3, <3>4, <3>6
    <2>3. reader'.attempt <= active'
      BY <1>2, <1>4 DEF Attempts0
    <2> QED BY <1>2, <1>4, <2>1, <2>2, <2>3 DEF Reading
  <1>7. Noticed'
    <2>1. ~reader'.over /\ ~reader'.seen
      BY <1>1, <1>2, <1>4 DEF ReadTypes
    <2> QED BY <1>4, <2>1 DEF Noticed
  <1>8. Asked' /\ Finished'
    BY <1>4 DEF Asked, Finished
  <1>9. Numbering'
    BY <1>1, <1>2, EventsRest
  <1> QED BY <1>5, <1>6, <1>7, <1>8, <1>9 DEF ReadsInv

\* Export, then: pages until one is short.
LEMMA PageExported ==
  ASSUME ReadsInv, ExportPage
  PROVE  ReadsInv'
  <1>1. ReadTypes /\ Reading /\ Noticed /\ Asked /\ Finished /\ Numbering
    BY DEF ReadsInv
  <1>2. /\ reader.mode = "export" /\ reader.at = "page"
        /\ UNCHANGED runVars /\ UNCHANGED evVars
    BY DEF ExportPage
  <1>3. Kind = "metric"
    BY <1>2 DEF Kind
  <1>4. PICK page : page = PageOf(Sequences(Coalesce(reader.attempt), Kind), reader.cursor)
    OBVIOUS
  <1>5. /\ Shows(reader.attempt, page)
        /\ reader' = [reader EXCEPT !.cursor = NextCursor(page, @),
                                    !.at = IF Len(page) < PageLimit THEN "ended" ELSE @]
    BY <1>3, <1>4 DEF ExportPage, TelemetryPage
  <1>6. reader \in [mode : Mode, at : {"run", "page", "answer", "ended", "error"},
                    cursor : Nat, seen : BOOLEAN, attempt : Attempts0,
                    selected : Attempts0, over : BOOLEAN, page : Seq(Nat)]
    BY <1>1 DEF ReadTypes
  <1>7. /\ reader'.mode = "export" /\ reader'.attempt = reader.attempt
        /\ reader'.over = reader.over /\ reader'.seen = reader.seen
        /\ reader'.cursor = NextCursor(page, reader.cursor)
        /\ reader'.at = (IF Len(page) < PageLimit THEN "ended" ELSE "page")
    BY <1>2, <1>5, <1>6
  <1>8. /\ reader'.cursor \in Nat /\ shown' \in [Attempts0 -> Seq(Attempts0 \X Nat)]
        /\ Reading'
    BY <1>2, <1>4, <1>5, <1>7, PageShown
  <1>9. ReadTypes'
    <2>1. reader' \in [mode : Mode, at : {"run", "page", "answer", "ended", "error"},
                     cursor : Nat, seen : BOOLEAN, attempt : Attempts0,
                     selected : Attempts0, over : BOOLEAN, page : Seq(Nat)]
      <3>1. (IF Len(page) < PageLimit THEN "ended" ELSE reader.at)
              \in {"run", "page", "answer", "ended", "error"}
        BY <1>6
      <3>2. NextCursor(page, reader.cursor) \in Nat
        BY <1>7, <1>8
      <3> QED BY <1>5, <1>6, <3>1, <3>2
    <2>2. /\ reader'.mode # "view" /\ reader'.at \notin {"answer", "run"}
          /\ ~reader'.seen
      BY <1>1, <1>2, <1>7 DEF ReadTypes
    <2> QED BY <1>1, <1>2, <1>8, <2>1, <2>2 DEF ReadTypes, runVars
  <1>10. Noticed'
    BY <1>1, <1>2, <1>7 DEF Noticed, Closed, runVars
  <1>11. Asked' /\ Finished'
    BY <1>7 DEF Asked, Finished
  <1>12. Numbering'
    BY <1>1, <1>2, EventsRest
  <1> QED BY <1>8, <1>9, <1>10, <1>11, <1>12 DEF ReadsInv

\* The web page starts again with another attempt, or with its end.
LEMMA ViewRestarts ==
  ASSUME ReadsInv, ViewRefresh
  PROVE  ReadsInv'
  <1>1. ReadTypes /\ Reading /\ Noticed /\ Asked /\ Finished /\ Numbering
    BY DEF ReadsInv
  <1>2. PICK over \in {runStatus = "DONE", runStatus # "EXECUTING"} :
          reader' = [reader EXCEPT !.at = "page", !.attempt = active,
                                   !.over = over, !.cursor = 0, !.page = <<>>]
    BY DEF ViewRefresh
  <1>3. /\ reader.mode = "view" /\ active > 0 /\ shown' = [a \in Attempts0 |-> <<>>]
        /\ UNCHANGED <<runStatus, active, stored>> /\ UNCHANGED evVars
    BY DEF ViewRefresh, runVars
  <1>4. reader \in [mode : Mode, at : {"run", "page", "answer", "ended", "error"},
                    cursor : Nat, seen : BOOLEAN, attempt : Attempts0,
                    selected : Attempts0, over : BOOLEAN, page : Seq(Nat)]
    BY <1>1 DEF ReadTypes
  <1>5. active \in Attempts0 /\ active # 0
    BY <1>1, <1>3 DEF ReadTypes, Attempts0
  <1>6. PICK none \in Seq(Nat) : none = <<>>
    BY EmptySeq
  <1>7. /\ reader'.mode = "view" /\ reader'.at = "page" /\ reader'.attempt = active
        /\ reader'.cursor = 0 /\ reader'.over = over /\ reader'.seen = reader.seen
    BY <1>2, <1>3, <1>4
  <1>8. over \in BOOLEAN /\ (over => runStatus # "EXECUTING")
    BY <1>2
  <1>9. ReadTypes'
    <2>1. reader' \in [mode : Mode, at : {"run", "page", "answer", "ended", "error"},
                     cursor : Nat, seen : BOOLEAN, attempt : Attempts0,
                     selected : Attempts0, over : BOOLEAN, page : Seq(Nat)]
      BY <1>2, <1>4, <1>5, <1>6, <1>8
    <2>2. <<>> \in Seq(Attempts0 \X Nat)
      BY EmptySeq
    <2>3. shown' \in [Attempts0 -> Seq(Attempts0 \X Nat)]
      BY <1>3, <2>2
    <2> QED BY <1>1, <1>3, <1>5, <1>7, <2>1, <2>3 DEF ReadTypes
  <1>10. Reading'
    <2>1. ASSUME NEW a \in 1..MaxAttempts
          PROVE  0 <= Len(stored'[a]) /\ shown'[a] = Exactly(a, 0)'
      <3>1. a \in Attempts0
        BY DEF Attempts0
      <3>2. shown'[a] = <<>>
        BY <1>3, <3>1
      <3>3. Exactly(a, 0) = <<>>
        BY <1>1, <3>1, NothingDue
      <3>4. Exactly(a, 0)' = Exactly(a, 0)
        BY <1>3, <1>7, SameRecords
      <3>5. stored[a] \in Seq({"logs", "metric"})
        BY <1>1 DEF ReadTypes
      <3>6. Len(stored[a]) \in Nat
        BY <3>5, LenProperties
      <3> QED BY <1>3, <3>2, <3>3, <3>4, <3>6
    <2>2. reader'.attempt <= active'
      BY <1>3, <1>5, <1>7 DEF Attempts0
    <2>3. \A a \in Attempts0 : shown'[a] = <<>>
      BY <1>3
    <2> QED BY <1>7, <2>1, <2>2, <2>3 DEF Reading
  <1>11. Noticed'
    <2>1. ASSUME reader.seen PROVE FALSE
      BY <1>1, <1>3, <2>1 DEF ReadTypes
    <2>2. reader'.over => runStatus' # "EXECUTING"
      BY <1>3, <1>7, <1>8
    <2> QED BY <1>7, <2>1, <2>2 DEF Noticed, Closed
  <1>12. Asked' /\ Finished'
    BY <1>7 DEF Asked, Finished
  <1>13. Numbering'
    BY <1>1, <1>3, EventsRest
  <1> QED BY <1>9, <1>10, <1>11, <1>12, <1>13 DEF ReadsInv

\* The web page asks with its cursor; the answer is what was stored then.
LEMMA ViewAsks ==
  ASSUME ReadsInv, ViewAsk
  PROVE  ReadsInv'
  <1>1. ReadTypes /\ Reading /\ Noticed /\ Asked /\ Finished /\ Numbering
    BY DEF ReadsInv
  <1>2. /\ reader.mode = "view" /\ reader.at = "page"
        /\ UNCHANGED <<runStatus, active, stored, shown>> /\ UNCHANGED evVars
    BY DEF ViewAsk, runVars
  <1>3. reader \in [mode : Mode, at : {"run", "page", "answer", "ended", "error"},
                    cursor : Nat, seen : BOOLEAN, attempt : Attempts0,
                    selected : Attempts0, over : BOOLEAN, page : Seq(Nat)]
    BY <1>1 DEF ReadTypes
  <1>4. PICK b \in 1..MaxAttempts, c0 \in Nat : b = reader.attempt /\ c0 = reader.cursor
    <2>1. reader.attempt \in Attempts0 /\ reader.attempt # 0 /\ reader.cursor \in Nat
      BY <1>1, <1>2, <1>3 DEF ReadTypes
    <2>2. reader.attempt \in 1..MaxAttempts
      BY <2>1, ReadsAssumption DEF Attempts0, ReadsAssumption
    <2> QED BY <2>1, <2>2
  <1>5. PICK page0 : page0 = PageOf(Sequences(b, Kind), c0)
    OBVIOUS
  <1>6. Kind = "logs" /\ Coalesce(reader.attempt) = b
    BY <1>2, <1>4 DEF Kind, Coalesce
  <1>7. reader' = [reader EXCEPT !.at = "answer", !.page = page0]
    BY <1>4, <1>5, <1>6 DEF ViewAsk, TelemetryPage
  <1>8. /\ reader'.mode = "view" /\ reader'.at = "answer" /\ reader'.attempt = b
        /\ reader'.cursor = c0 /\ reader'.over = reader.over /\ reader'.seen = reader.seen
        /\ reader'.page = page0
    BY <1>2, <1>3, <1>4, <1>7
  <1>9. page0 \in Seq(Nat) /\ Answer(b, c0, page0, NextCursor(page0, c0))
    <2>1. c0 <= Len(stored[b])
      BY <1>1, <1>4 DEF Reading
    <2> QED BY <1>1, <1>5, <2>1, PageAnswers
  <1>10. ReadTypes'
    <2>1. reader' \in [mode : Mode, at : {"run", "page", "answer", "ended", "error"},
                     cursor : Nat, seen : BOOLEAN, attempt : Attempts0,
                     selected : Attempts0, over : BOOLEAN, page : Seq(Nat)]
      BY <1>3, <1>7, <1>9
    <2>2. b # 0
      OBVIOUS
    <2> QED BY <1>1, <1>2, <1>8, <2>1, <2>2 DEF ReadTypes
  <1>11. \A a, c : Exactly(a, c)' = Exactly(a, c)
    BY <1>2, <1>8, SameRecords
  <1>12. Reading'
    BY <1>1, <1>2, <1>4, <1>8, <1>11 DEF Reading
  <1>13. Noticed'
    BY <1>1, <1>2, <1>4, <1>8 DEF Noticed, Closed
  <1>14. Asked'
    <2>1. Answer(b, c0, page0, NextCursor(page0, c0))'
      <3>1. PICK d : d = NextCursor(page0, c0)
        OBVIOUS
      <3>2. Answer(b, c0, page0, d)
        BY <1>9, <3>1
      <3>3. Answer(b, c0, page0, d)'
        BY <1>2, <1>8, <3>2, SameAnswer
      <3> QED BY <3>1, <3>3 DEF NextCursor, Answer
    <2> QED BY <1>8, <2>1 DEF Asked
  <1>15. Finished'
    BY <1>8 DEF Finished
  <1>16. Numbering'
    BY <1>1, <1>2, EventsRest
  <1> QED BY <1>10, <1>12, <1>13, <1>14, <1>15, <1>16 DEF ReadsInv

\* A request that fails leaves the cursor where it was.
LEMMA ViewRetries ==
  ASSUME ReadsInv, ViewFails
  PROVE  ReadsInv'
  <1>1. ReadTypes /\ Reading /\ Noticed /\ Asked /\ Finished /\ Numbering
    BY DEF ReadsInv
  <1>2. /\ reader.mode = "view" /\ reader.at = "answer"
        /\ UNCHANGED <<runStatus, active, stored, shown>> /\ UNCHANGED evVars
        /\ reader' = [reader EXCEPT !.page = <<>>,
                                    !.at = IF reader.over THEN "error" ELSE "page"]
    BY DEF ViewFails, runVars
  <1>3. reader \in [mode : Mode, at : {"run", "page", "answer", "ended", "error"},
                    cursor : Nat, seen : BOOLEAN, attempt : Attempts0,
                    selected : Attempts0, over : BOOLEAN, page : Seq(Nat)]
    BY <1>1 DEF ReadTypes
  <1>4. PICK none \in Seq(Nat) : none = <<>>
    BY EmptySeq
  <1>5. /\ reader'.mode = "view" /\ reader'.at = (IF reader.over THEN "error" ELSE "page")
        /\ reader'.attempt = reader.attempt /\ reader'.cursor = reader.cursor
        /\ reader'.over = reader.over /\ reader'.seen = reader.seen /\ reader.attempt # 0
    BY <1>1, <1>2, <1>3 DEF ReadTypes
  <1>6. ReadTypes'
    <2>1. reader' \in [mode : Mode, at : {"run", "page", "answer", "ended", "error"},
                     cursor : Nat, seen : BOOLEAN, attempt : Attempts0,
                     selected : Attempts0, over : BOOLEAN, page : Seq(Nat)]
      BY <1>2, <1>3, <1>4
    <2> QED BY <1>1, <1>2, <1>5, <2>1 DEF ReadTypes
  <1>7. \A a, c : Exactly(a, c)' = Exactly(a, c)
    BY <1>2, <1>5, SameRecords
  <1>8. Reading'
    BY <1>1, <1>2, <1>5, <1>7 DEF Reading
  <1>9. Noticed'
    BY <1>1, <1>2, <1>5 DEF Noticed, Closed
  <1>10. Asked' /\ Finished'
    BY <1>5 DEF Asked, Finished
  <1>11. Numbering'
    BY <1>1, <1>2, EventsRest
  <1> QED BY <1>6, <1>8, <1>9, <1>10, <1>11 DEF ReadsInv

\* The web page shows the items of the answer that are behind its cursor, which
\* are all of them, and keeps the last ones.
LEMMA ViewShows ==
  ASSUME ReadsInv, ViewShow
  PROVE  ReadsInv'
  <1>1. ReadTypes /\ Reading /\ Noticed /\ Asked /\ Finished /\ Numbering
    BY DEF ReadsInv
  <1>2. /\ reader.mode = "view" /\ reader.at = "answer"
        /\ UNCHANGED <<runStatus, active, stored>> /\ UNCHANGED evVars
    BY DEF ViewShow, runVars
  <1>3. reader \in [mode : Mode, at : {"run", "page", "answer", "ended", "error"},
                    cursor : Nat, seen : BOOLEAN, attempt : Attempts0,
                    selected : Attempts0, over : BOOLEAN, page : Seq(Nat)]
    BY <1>1 DEF ReadTypes
  <1>4. PICK b \in 1..MaxAttempts, c0 \in Nat, page0 \in Seq(Nat) :
          b = reader.attempt /\ c0 = reader.cursor /\ page0 = reader.page
    <2>1. /\ reader.attempt \in Attempts0 /\ reader.attempt # 0 /\ reader.cursor \in Nat
          /\ reader.page \in Seq(Nat)
      BY <1>1, <1>2, <1>3 DEF ReadTypes
    <2>2. reader.attempt \in 1..MaxAttempts
      BY <2>1, ReadsAssumption DEF Attempts0, ReadsAssumption
    <2> QED BY <2>1, <2>2
  <1>5. PICK d : d = NextCursor(page0, c0)
    OBVIOUS
  <1>6. Answer(b, c0, page0, d)
    BY <1>1, <1>2, <1>4, <1>5 DEF Asked
  <1>7. Fresh(page0) = page0
    <2>1. \A i \in 1..Len(page0) : page0[i] > reader.cursor
      BY <1>4, <1>6 DEF Answer
    <2> QED BY <2>1, FreshIsPage
  <1>8. PICK full \in BOOLEAN : full = (Len(page0) = PageLimit)
    OBVIOUS
  <1>9. /\ shown' = [shown EXCEPT ![b] = Bounded(@ \o Marked(b, page0))]
        /\ reader' = [reader EXCEPT
             !.cursor = d, !.page = <<>>,
             !.at = IF ~reader.over \/ (full /\ d > c0) THEN "page" ELSE "ended"]
    BY <1>4, <1>5, <1>7, <1>8 DEF ViewShow, Marked
  <1>10. PICK none \in Seq(Nat) : none = <<>>
    BY EmptySeq
  <1>11. /\ reader'.mode = "view" /\ reader'.attempt = b /\ reader'.cursor = d
         /\ reader'.over = reader.over /\ reader'.seen = reader.seen
         /\ reader'.at = (IF ~reader.over \/ (full /\ d > c0) THEN "page" ELSE "ended")
    BY <1>2, <1>3, <1>4, <1>9
  <1>12. d \in Nat /\ d <= Len(stored[b]) /\ b \in Attempts0 /\ b # 0
    BY <1>4, <1>6 DEF Answer, Attempts0
  <1>13. shown \in [Attempts0 -> Seq(Attempts0 \X Nat)]
    BY <1>1 DEF ReadTypes
  <1>14. shown'[b] = Exactly(b, d)
    <2>1. shown[b] = Exactly(b, c0)
      BY <1>1, <1>4 DEF Reading
    <2>2. InOrder(DueTo(b, d)) = InOrder(DueTo(b, c0)) \o page0
      BY <1>6 DEF Answer
    <2>3. Bounded(shown[b] \o Marked(b, page0)) = Exactly(b, d)
      BY <1>1, <1>2, <2>1, <2>2, OnePageMore
    <2> QED BY <1>9, <1>12, <1>13, <2>3
  <1>15. Bounded(shown[b] \o Marked(b, page0)) \in Seq(Attempts0 \X Nat)
    <2>1. PICK more \in Seq(Attempts0 \X Nat) : more = Marked(b, page0)
      BY <1>12, MarkedFacts
    <2>2. PICK before \in Seq(Attempts0 \X Nat) : before = shown[b]
      BY <1>12, <1>13
    <2>3. PICK all \in Seq(Attempts0 \X Nat) : all = before \o more
      BY ConcatProperties
    <2>4. PICK k : IsTail(Bounded(all), Attempts0 \X Nat, all, k)
      BY BoundedFacts
    <2> QED BY <2>1, <2>2, <2>3, <2>4 DEF IsTail
  <1>16. ReadTypes'
    <2>1. reader' \in [mode : Mode, at : {"run", "page", "answer", "ended", "error"},
                     cursor : Nat, seen : BOOLEAN, attempt : Attempts0,
                     selected : Attempts0, over : BOOLEAN, page : Seq(Nat)]
      BY <1>3, <1>9, <1>10, <1>12
    <2>2. shown' \in [Attempts0 -> Seq(Attempts0 \X Nat)]
      BY <1>9, <1>13, <1>15
    <2> QED BY <1>1, <1>2, <1>11, <1>12, <2>1, <2>2 DEF ReadTypes
  <1>17. Reading'
    <2>1. Exactly(b, d)' = Exactly(b, d)
      BY <1>2, <1>11, SameRecords
    <2>2. ASSUME NEW a \in Attempts0, a > b PROVE shown'[a] = <<>>
      <3>1. a # b
        BY <1>12, <2>2 DEF Attempts0
      <3>2. shown[a] = <<>>
        BY <1>1, <1>4, <2>2 DEF Reading
      <3> QED BY <1>9, <1>13, <3>1, <3>2
    <2>3. b <= active'
      BY <1>1, <1>2, <1>4 DEF Reading
    <2>4. d <= Len(stored'[b]) /\ shown'[b] = Exactly(b, d)'
      BY <1>2, <1>12, <1>14, <2>1
    <2> QED BY <1>11, <2>2, <2>3, <2>4 DEF Reading
  <1>18. reader.over => Closed(b)
    BY <1>1, <1>4 DEF Noticed
  <1>19. Noticed'
    <2>1. ~reader'.seen
      BY <1>11, <1>16 DEF ReadTypes
    <2> QED BY <1>2, <1>11, <1>18, <2>1 DEF Noticed, Closed
  <1>20. Asked'
    <2>1. reader'.at # "answer"
      BY <1>11
    <2> QED BY <2>1 DEF Asked
  <1>21. Finished'
    <2>1. ASSUME reader'.at = "ended" PROVE Closed(b) /\ NoneAfter(b, d)
      <3>1. reader.over /\ ~(full /\ d > c0)
        BY <1>11, <2>1
      <3>2. Len(page0) # PageLimit
        BY <1>6, <1>8, <3>1 DEF Answer
      <3> QED BY <1>6, <1>18, <3>1, <3>2 DEF Answer
    <2>2. NoneAfter(b, d)' = NoneAfter(b, d)
      BY <1>2, <1>11, SameRecords
    <2>3. reader'.at = "ended" => Closed(b)' /\ NoneAfter(b, d)'
      BY <1>2, <2>1, <2>2 DEF Closed
    <2> QED BY <1>11, <2>3 DEF Finished, Closed
  <1>22. Numbering'
    BY <1>1, <1>2, EventsRest
  <1> QED BY <1>16, <1>17, <1>19, <1>20, <1>21, <1>22 DEF ReadsInv

\* The events leave the telemetry alone.
LEMMA TelemetryRest ==
  ASSUME ReadsInv, UNCHANGED <<runStatus, active, stored, reader, shown>>
  PROVE  ReadTypes' /\ Reading' /\ Noticed' /\ Asked' /\ Finished'
  <1>1. ReadTypes /\ Reading /\ Noticed /\ Asked /\ Finished
    BY DEF ReadsInv
  <1>2. \A a, c : Exactly(a, c)' = Exactly(a, c) /\ NoneAfter(a, c)' = NoneAfter(a, c)
    BY SameRecords
  <1>3. ReadTypes'
    BY <1>1 DEF ReadTypes
  <1>4. Reading'
    BY <1>1, <1>2 DEF Reading
  <1>5. Noticed'
    BY <1>1 DEF Noticed, Closed
  <1>6. Asked'
    <2>1. ASSUME NEW a \in 1..MaxAttempts, NEW c \in Nat, NEW page \in Seq(Nat),
                 reader.at = "answer", reader.attempt = a, reader.cursor = c,
                 reader.page = page
          PROVE  Answer(a, c, page, NextCursor(page, c))'
      <3>1. Answer(a, c, page, NextCursor(page, c))
        BY <1>1, <2>1 DEF Asked
      <3> QED BY <3>1, SameAnswer
    <2> QED BY <2>1 DEF Asked
  <1>7. Finished'
    BY <1>1, <1>2 DEF Finished, Closed
  <1> QED BY <1>3, <1>4, <1>5, <1>6, <1>7

\* One writer holds the lock of the run's row, so events commit in the order of
\* their numbers; one that is rolled back gives its number back.
LEMMA EventWritten ==
  ASSUME ReadsInv, NEW w \in EventWriters, WriteEvent(w) \/ CommitEvent(w) \/ AbortEvent(w)
  PROVE  ReadsInv'
  <1>1. Numbering
    BY DEF ReadsInv
  <1>2. ReadTypes' /\ Reading' /\ Noticed' /\ Asked' /\ Finished'
    <2>1. UNCHANGED runVars /\ UNCHANGED <<reader, shown>>
      BY DEF WriteEvent, CommitEvent, AbortEvent
    <2> QED BY <2>1, TelemetryRest DEF runVars
  <1>3. /\ evSequence \in Nat /\ evCommitted \in Nat /\ evReader.cursor \in Nat
        /\ evTx \in [EventWriters -> [at : {"begin", "inserted", "over"}, sequence : Nat]]
        /\ evReader' = evReader /\ events \subseteq 1..evCommitted
        /\ evReader.cursor <= evCommitted
    BY <1>1 DEF Numbering, WriteEvent, CommitEvent, AbortEvent
  <1>4. Numbering'
    <2>1. CASE WriteEvent(w)
      <3>1. \A v \in EventWriters : evTx[v].at # "inserted"
        BY <2>1 DEF WriteEvent, RunLockFree
      <3>2. evSequence = evCommitted
        BY <1>1, <3>1 DEF Numbering
      <3>3. /\ evSequence' = evSequence + 1 /\ evCommitted' = evCommitted /\ events' = events
            /\ evTx' = [evTx EXCEPT ![w] = [at |-> "inserted", sequence |-> evSequence + 1]]
        BY <2>1 DEF WriteEvent
      <3>4. evTx' \in [EventWriters -> [at : {"begin", "inserted", "over"}, sequence : Nat]]
        BY <1>3, <3>3
      <3>5. /\ evTx'[w].at = "inserted" /\ evTx'[w].sequence = evSequence'
            /\ \A v \in EventWriters : v # w => evTx'[v].at # "inserted"
        BY <1>3, <3>1, <3>3
      <3>6. NoEventSkipped'
        BY <1>1, <1>3, <3>3 DEF Numbering, NoEventSkipped
      <3>7. evSequence' \in Nat /\ evSequence' = evCommitted' + 1
        BY <1>3, <3>2, <3>3
      <3> QED BY <1>1, <1>3, <3>3, <3>4, <3>5, <3>6, <3>7 DEF Numbering
    <2>2. CASE CommitEvent(w)
      <3>1. /\ evTx[w].at = "inserted" /\ evTx' = [evTx EXCEPT ![w].at = "over"]
            /\ events' = events \cup {evTx[w].sequence} /\ evCommitted' = evSequence
            /\ evSequence' = evSequence
        BY <2>2 DEF CommitEvent
      <3>2. evTx[w].sequence = evSequence /\ evSequence = evCommitted + 1
        BY <1>1, <3>1 DEF Numbering
      <3>3. \A v \in EventWriters : v # w => evTx[v].at # "inserted"
        BY <1>1, <3>1 DEF Numbering
      <3>4. evTx' \in [EventWriters -> [at : {"begin", "inserted", "over"}, sequence : Nat]]
        BY <1>3, <3>1
      <3>5. \A v \in EventWriters : evTx'[v].at # "inserted"
        BY <1>3, <3>1, <3>3
      <3>6. NoEventSkipped'
        <4>1. ASSUME NEW s \in events', s <= evReader.cursor PROVE s \in ToSet(evReader.got)
          <5>1. s # evSequence
            BY <1>3, <3>2, <4>1
          <5>2. s \in events
            BY <3>1, <3>2, <4>1, <5>1
          <5> QED BY <1>1, <4>1, <5>2 DEF Numbering, NoEventSkipped
        <4> QED BY <1>3, <4>1 DEF NoEventSkipped
      <3>7. events' \subseteq 1..evCommitted' /\ evReader'.cursor <= evCommitted'
        BY <1>3, <3>1, <3>2
      <3> QED BY <1>1, <1>3, <3>1, <3>4, <3>5, <3>6, <3>7 DEF Numbering
    <2>3. CASE AbortEvent(w)
      <3>1. /\ evTx[w].at = "inserted" /\ evTx' = [evTx EXCEPT ![w].at = "over"]
            /\ events' = events /\ evCommitted' = evCommitted /\ evSequence' = evCommitted
        BY <2>3 DEF AbortEvent
      <3>2. \A v \in EventWriters : v # w => evTx[v].at # "inserted"
        BY <1>1, <3>1 DEF Numbering
      <3>3. evTx' \in [EventWriters -> [at : {"begin", "inserted", "over"}, sequence : Nat]]
        BY <1>3, <3>1
      <3>4. \A v \in EventWriters : evTx'[v].at # "inserted"
        BY <1>3, <3>1, <3>2
      <3>5. NoEventSkipped'
        BY <1>1, <1>3, <3>1 DEF Numbering, NoEventSkipped
      <3> QED BY <1>1, <1>3, <3>1, <3>3, <3>4, <3>5 DEF Numbering
    <2> QED BY <2>1, <2>2, <2>3
  <1> QED BY <1>2, <1>4 DEF ReadsInv

\* A page of events takes the cursor to the last one of them.
LEMMA EventsRead ==
  ASSUME ReadsInv, ReadEvents
  PROVE  ReadsInv'
  <1>1. Numbering
    BY DEF ReadsInv
  <1>2. ReadTypes' /\ Reading' /\ Noticed' /\ Asked' /\ Finished'
    <2>1. UNCHANGED runVars /\ UNCHANGED <<reader, shown>>
      BY DEF ReadEvents
    <2> QED BY <2>1, TelemetryRest DEF runVars
  <1>3. PICK c \in Nat, got \in Seq(Nat) : evReader = [cursor |-> c, got |-> got]
    BY <1>1 DEF Numbering
  <1>4. PICK page : page = PageOf(events, c)
    OBVIOUS
  <1>5. PICK d : d = NextCursor(page, c)
    OBVIOUS
  <1>6. /\ page # <<>> /\ evReader' = [cursor |-> d, got |-> got \o page]
        /\ UNCHANGED <<evSequence, evCommitted, evTx, events>>
    <2>1. page # <<>> /\ evReader' = [cursor |-> Last(page), got |-> got \o page]
      BY <1>3, <1>4 DEF ReadEvents
    <2> QED BY <1>5, <2>1 DEF ReadEvents, NextCursor
  <1>7. events \subseteq 1..evCommitted /\ evCommitted \in Nat
    BY <1>1 DEF Numbering
  <1>8. events \in SUBSET Nat /\ IsFiniteSet(events)
    <2>1. IsFiniteSet(1..evCommitted)
      BY <1>7, FS_Interval
    <2>2. events \in SUBSET (1..evCommitted) /\ events \in SUBSET Nat
      BY <1>7
    <2> QED BY <2>1, <2>2, FS_Subset
  <1>9. PageIs(events, c, page, d)
    BY <1>4, <1>5, <1>8, PageFacts
  <1>10. page \in Seq(Nat) /\ d \in Nat /\ (d = c \/ d \in events)
    BY <1>9 DEF PageIs
  <1>11. d <= evCommitted
    BY <1>1, <1>3, <1>7, <1>10 DEF Numbering
  <1>12. /\ got \o page \in Seq(Nat)
         /\ \A s \in ToSet(got) \cup ToSet(page) : s \in ToSet(got \o page)
    <2>1. /\ got \o page \in Seq(Nat) /\ Len(got \o page) = Len(got) + Len(page)
          /\ \A i \in 1..Len(got) + Len(page) :
               (got \o page)[i] = IF i <= Len(got) THEN got[i] ELSE page[i - Len(got)]
      BY <1>10, ConcatProperties
    <2>2. /\ Len(got) \in Nat /\ Len(page) \in Nat
          /\ DOMAIN got = 1..Len(got) /\ DOMAIN page = 1..Len(page)
          /\ DOMAIN (got \o page) = 1..Len(got \o page)
      BY <1>10, <2>1, LenProperties
    <2>3. ASSUME NEW i \in 1..Len(got) PROVE got[i] \in ToSet(got \o page)
      <3>1. i \in 1..Len(got) + Len(page) /\ i <= Len(got)
        BY <2>2
      <3>2. (got \o page)[i] = got[i]
        BY <2>1, <3>1
      <3> QED BY <2>1, <2>2, <3>1, <3>2 DEF ToSet
    <2>4. ASSUME NEW i \in 1..Len(page) PROVE page[i] \in ToSet(got \o page)
      <3>1. /\ Len(got) + i \in 1..Len(got) + Len(page) /\ ~(Len(got) + i <= Len(got))
            /\ Len(got) + i - Len(got) = i
        BY <2>2
      <3>2. (got \o page)[Len(got) + i] = page[i]
        BY <2>1, <3>1
      <3> QED BY <2>1, <2>2, <3>1, <3>2 DEF ToSet
    <2>5. \A s \in ToSet(got) : \E i \in 1..Len(got) : s = got[i]
      BY <2>2 DEF ToSet
    <2>6. \A s \in ToSet(page) : \E i \in 1..Len(page) : s = page[i]
      BY <2>2 DEF ToSet
    <2> QED BY <2>1, <2>3, <2>4, <2>5, <2>6
  <1>13. NoEventSkipped'
    <2>1. ASSUME NEW s \in events, s <= d PROVE s \in ToSet(got \o page)
      <3>1. CASE s <= c
        <4>1. s \in ToSet(got)
          BY <1>1, <1>3, <3>1 DEF Numbering, NoEventSkipped
        <4> QED BY <1>12, <4>1
      <3>2. CASE ~(s <= c)
        <4>1. s \in Nat /\ c < s
          BY <1>8, <3>2
        <4>2. PICK i \in 1..Len(page) : page[i] = s
          BY <1>9, <2>1, <4>1 DEF PageIs
        <4>3. DOMAIN page = 1..Len(page)
          BY <1>10, LenProperties
        <4>4. s \in ToSet(page)
          BY <4>2, <4>3 DEF ToSet
        <4> QED BY <1>12, <4>4
      <3> QED BY <3>1, <3>2
    <2> QED BY <1>6, <2>1 DEF NoEventSkipped
  <1>14. Numbering'
    <2>1. evReader' \in [cursor : Nat, got : Seq(Nat)] /\ evReader'.cursor = d
      BY <1>6, <1>10, <1>12
    <2> QED BY <1>1, <1>6, <1>10, <1>11, <1>13, <2>1 DEF Numbering
  <1> QED BY <1>2, <1>14 DEF ReadsInv

LEMMA ReadsStep ==
  ReadsInv /\ [ReadsNext]_readVars => ReadsInv'
  <1> SUFFICES ASSUME ReadsInv, [ReadsNext]_readVars PROVE ReadsInv'
    OBVIOUS
  <1>1. CASE RunStep
    <2>1. CASE RecordStored
      BY <2>1, RecordArrives
    <2>2. CASE RunAssigned \/ RunRequeued \/ RunEnded
      BY <2>2, RunMoves
    <2> QED BY <1>1, <2>1, <2>2 DEF RunStep
  <1>2. CASE ReaderStep
    <2>1. CASE FollowRun
      BY <2>1, RunFollowed
    <2>2. CASE FollowPage
      BY <2>2, PageFollowed
    <2>3. CASE ExportRun
      BY <2>3, ExportChosen
    <2>4. CASE ExportPage
      BY <2>4, PageExported
    <2>5. CASE ViewAsk
      BY <2>5, ViewAsks
    <2>6. CASE ViewShow
      BY <2>6, ViewShows
    <2> QED BY <1>2, <2>1, <2>2, <2>3, <2>4, <2>5, <2>6 DEF ReaderStep
  <1>3. CASE ViewRefresh
    BY <1>3, ViewRestarts
  <1>4. CASE ViewFails
    BY <1>4, ViewRetries
  <1>5. CASE EventStep
    <2>1. ASSUME NEW w \in EventWriters, WriteEvent(w) \/ CommitEvent(w) \/ AbortEvent(w)
          PROVE  ReadsInv'
      BY <2>1, EventWritten
    <2>2. CASE ReadEvents
      BY <2>2, EventsRead
    <2> QED BY <1>5, <2>1, <2>2 DEF EventStep
  <1>6. CASE UNCHANGED readVars
    <2>1. UNCHANGED <<runStatus, active, stored, reader, shown>> /\ UNCHANGED evVars
      BY <1>6 DEF readVars
    <2>2. Numbering'
      BY <2>1, EventsRest DEF ReadsInv
    <2>3. ReadTypes' /\ Reading' /\ Noticed' /\ Asked' /\ Finished'
      BY <2>1, TelemetryRest
    <2> QED BY <2>2, <2>3 DEF ReadsInv
  <1> QED BY <1>1, <1>2, <1>3, <1>4, <1>5, <1>6 DEF ReadsNext

-----------------------------------------------------------------------------
(* Readers that name no attempt.  A second invariant, on top of the first. *)

\* Where the cursor of such a reader stands.
LastShown(got) == IF got = <<>> THEN 0 ELSE got[Len(got)][2]

UnnamedInv ==
  /\ UnnamedRead
  /\ \A i \in DOMAIN shown[0] : shown[0][i][1] <= active
  /\ reader.attempt = 0 => reader.cursor = LastShown(shown[0])
  /\ reader.mode \in {"follow", "once"} /\ reader.at = "page" /\ reader.attempt = 0 =>
       shown[0] = <<>>
  /\ reader.mode = "follow" /\ reader.attempt = 0 /\ (reader.over \/ reader.seen) =>
       runStatus = "DONE" /\ active = 0
  /\ reader.mode = "follow" /\ reader.at = "ended" => reader.seen

\* What UnnamedRead says of the i-th record shown.
Rightly(got, i, wanted, mode) ==
  /\ got[i][2] \in wanted
  /\ \A j \in 1..(i - 1) : got[j][1] <= got[i][1] /\ got[j][2] < got[i][2]
  /\ \A s \in wanted : s < got[i][2] =>
       \E j \in 1..(i - 1) : \/ got[j] = <<got[i][1], s>>
                             \/ got[j][1] < got[i][1] /\ s <= got[j][2]
  /\ mode # "export" => i <= PageLimit /\ got[i][1] = got[1][1]

LEMMA UnnamedIsRightly ==
  /\ UnnamedRead <=> \A i \in DOMAIN shown[0] :
       Rightly(shown[0], i, Sequences(shown[0][i][1], Kind), reader.mode)
  /\ UnnamedRead' <=> \A i \in DOMAIN shown'[0] :
       Rightly(shown'[0], i, Sequences(shown[0][i][1], Kind)', reader'.mode)
  <1>1. UnnamedRead <=> \A i \in DOMAIN shown[0] :
          Rightly(shown[0], i, Sequences(shown[0][i][1], Kind), reader.mode)
    BY DEF UnnamedRead, Rightly
  <1>2. UnnamedRead' <=> \A i \in DOMAIN shown'[0] :
          Rightly(shown'[0], i, Sequences(shown[0][i][1], Kind)', reader'.mode)
    BY DEF UnnamedRead, Rightly
  <1> QED BY <1>1, <1>2

\* A page has at most PageLimit records.
LEMMA PageIsShort ==
  ASSUME NEW all \in SUBSET Nat, IsFiniteSet(all), NEW after \in Nat
  PROVE  Len(PageOf(all, after)) <= PageLimit
  <1> DEFINE later == {s \in all : s > after}
             P == {s \in later : Cardinality(Below(later, s)) < PageLimit}
             page == InOrder(P)
             n == Len(page)
  <1>1. PageOf(all, after) = page
    BY DEF PageOf, Below
  <1>2. PageLimit \in Nat /\ PageLimit >= 1
    BY ReadsAssumption DEF ReadsAssumption
  <1>3. /\ later \in SUBSET Nat /\ IsFiniteSet(later)
        /\ P \in SUBSET later /\ P \in SUBSET Nat /\ IsFiniteSet(P)
    <2>1. later \in SUBSET all /\ P \in SUBSET all
      OBVIOUS
    <2>2. IsFiniteSet(later) /\ IsFiniteSet(P)
      BY <2>1, FS_Subset, Zenon
    <2> QED BY <2>1, <2>2
  <1>4. \A s \in P : Cardinality(Below(later, s)) < PageLimit
    OBVIOUS
  <1> HIDE DEF P, later
  <1>5. Enumerates(page, P)
    BY <1>3, InOrderEnumerates
  <1> HIDE DEF page
  <1>6. /\ n \in Nat /\ \A i \in 1..n : Cardinality(Below(P, page[i])) = i - 1
        /\ \A i \in 1..n : page[i] \in P
    <2>1. n \in Nat /\ \A i \in 1..n : Cardinality(Below(P, page[i])) = i - 1
      BY <1>5, RankOf
    <2>2. \A i \in 1..n : page[i] \in P
      BY <1>5 DEF Enumerates
    <2> QED BY <2>1, <2>2
  <1>7. CASE n = 0
    BY <1>1, <1>2, <1>7
  <1>8. CASE n # 0
    <2>1. n \in 1..n
      BY <1>6, <1>8
    <2>2. PICK s \in P : s = page[n] /\ Cardinality(Below(P, s)) = n - 1
      BY <1>6, <2>1
    <2>3. Below(P, s) \in SUBSET Below(later, s)
      BY <1>3 DEF Below
    <2>4. s \in later
      BY <1>3
    <2>5. IsFiniteSet(Below(later, s)) /\ Cardinality(Below(later, s)) \in Nat
      BY <1>3, <2>4, RankIsSmall
    <2>6. Cardinality(Below(P, s)) <= Cardinality(Below(later, s))
      BY <2>3, <2>5, FS_Subset
    <2>7. Cardinality(Below(later, s)) < PageLimit
      BY <1>4
    <2> QED BY <1>1, <1>2, <1>6, <2>2, <2>5, <2>6, <2>7
  <1> QED BY <1>7, <1>8

\* What is shown under no name stays right while the records up to the last of
\* them stay the same.
LEMMA UnnamedStays ==
  ASSUME ReadTypes, ReadTypes', UnnamedRead, shown'[0] = shown[0], reader'.mode = reader.mode,
         \A a \in 1..MaxAttempts : \A c \in Sequences(a, Kind) : DueTo(a, c)' = DueTo(a, c)
  PROVE  UnnamedRead'
  <1>1. PICK got : got = shown[0]
    OBVIOUS
  <1>2. got \in Seq(Attempts0 \X Nat) /\ DOMAIN got = 1..Len(got) /\ Len(got) \in Nat
    <2>1. 0 \in Attempts0
      BY ReadsAssumption DEF Attempts0, ReadsAssumption
    <2>2. got \in Seq(Attempts0 \X Nat)
      BY <1>1, <2>1 DEF ReadTypes
    <2> QED BY <2>2, LenProperties
  <1>3. SUFFICES ASSUME NEW i \in DOMAIN got
                 PROVE  Rightly(got, i, Sequences(got[i][1], Kind)', reader.mode)
    <2>1. shown'[0] = got /\ reader'.mode = reader.mode
      BY <1>1
    <2>2. \A i : Sequences(shown[0][i][1], Kind)' = Sequences(got[i][1], Kind)'
      BY <2>1 DEF Sequences
    <2> QED BY <2>1, <2>2, UnnamedIsRightly
  <1>4. PICK a, c : a = got[i][1] /\ c = got[i][2]
    OBVIOUS
  <1>5. /\ c \in Sequences(a, Kind)
        /\ \A j \in 1..(i - 1) : got[j][1] <= a /\ got[j][2] < c
        /\ \A s \in Sequences(a, Kind) : s < c =>
             \E j \in 1..(i - 1) : \/ got[j] = <<a, s>>
                                   \/ got[j][1] < a /\ s <= got[j][2]
        /\ reader.mode # "export" => i <= PageLimit /\ a = got[1][1]
    BY <1>1, <1>4 DEF UnnamedRead
  <1>6. a \in Attempts0 /\ c \in Nat
    BY <1>2, <1>4
  <1>7. a \in 1..MaxAttempts
    <2>1. a # 0
      BY <1>5 DEF Sequences
    <2> QED BY <1>6, <2>1, SequencesAre
  <1>8. DueTo(a, c)' = DueTo(a, c)
    BY <1>5, <1>7
  <1>9. \A s : s \in Sequences(a, Kind)' /\ s <= c <=> s \in Sequences(a, Kind) /\ s <= c
    <2>1. DueTo(a, c) = {s \in Sequences(a, Kind) : s <= c}
      BY DEF DueTo
    <2>2. DueTo(a, c)' = {s \in Sequences(a, Kind)' : s <= c}
      BY DEF DueTo
    <2> QED BY <1>8, <2>1, <2>2
  <1>10. c <= c
    BY <1>6
  <1>11. c \in Sequences(a, Kind)'
    BY <1>5, <1>9, <1>10
  <1>12. ASSUME NEW s \in Sequences(a, Kind)', s < c PROVE s \in Sequences(a, Kind)
    <2>1. stored'[a] \in Seq({"logs", "metric"})
      BY <1>7 DEF ReadTypes
    <2>2. DOMAIN stored'[a] = 1..Len(stored'[a]) /\ Len(stored'[a]) \in Nat
      BY <2>1, LenProperties
    <2>3. s \in Nat
      BY <1>12, <2>2 DEF Sequences
    <2>4. s <= c
      BY <1>6, <1>12, <2>3
    <2> QED BY <1>9, <1>12, <2>4
  <1> QED BY <1>4, <1>5, <1>11, <1>12 DEF Rightly

\* A page of the active attempt is shown under no name: the pure part.  Before
\* it got is shown, up to cursor c; the page has the wanted records of attempt e
\* from c to d, and new is shown after it.
PageAdds(e, got, page, c, d, wanted, mode, new) ==
  /\ c = LastShown(got) /\ new = got \o Marked(e, page)
  /\ \A j \in 1..Len(got) : got[j][1] <= e
  /\ \A i, j \in 1..Len(got) : j < i => got[j][2] < got[i][2]
  /\ \A i \in 1..Len(got) : got[i][1] = e => \A s \in wanted : s < got[i][2] =>
       \E j \in 1..(i - 1) : \/ got[j] = <<e, s>>
                             \/ got[j][1] < e /\ s <= got[j][2]
  /\ \A i, j \in 1..Len(page) : i < j => page[i] < page[j]
  /\ \A i \in 1..Len(page) : page[i] \in wanted /\ c < page[i] /\ page[i] <= d
  /\ \A s \in wanted : c < s /\ s <= d => \E i \in 1..Len(page) : page[i] = s
  /\ Len(page) <= PageLimit /\ (mode # "export" => got = <<>>)

LEMMA UnnamedPage ==
  ASSUME NEW e \in Attempts0, NEW got \in Seq(Attempts0 \X Nat), NEW page \in Seq(Nat),
         NEW c \in Nat, NEW d \in Nat, NEW wanted \in SUBSET (Nat \ {0}), NEW mode,
         NEW new, PageAdds(e, got, page, c, d, wanted, mode, new),
         NEW i \in 1..Len(new), i > Len(got)
  PROVE  Rightly(new, i, wanted, mode)
  <1> USE DEF PageAdds
  <1> DEFINE n == Len(got)
             m == Len(page)
  <1>1. n \in Nat /\ m \in Nat
    BY LenProperties
  <1>2. /\ Marked(e, page) \in Seq(Attempts0 \X Nat) /\ Len(Marked(e, page)) = m
        /\ \A k \in 1..m : Marked(e, page)[k] = <<e, page[k]>>
    BY MarkedFacts
  <1>3. /\ new \in Seq(Attempts0 \X Nat) /\ Len(new) = n + m
        /\ \A k \in 1..n : new[k] = got[k]
        /\ \A k \in 1..m : new[n + k] = <<e, page[k]>>
    <2> DEFINE more == Marked(e, page)
    <2>1. more \in Seq(Attempts0 \X Nat) /\ Len(more) = m /\ new = got \o more
      BY <1>2
    <2> HIDE DEF more
    <2>2. /\ new \in Seq(Attempts0 \X Nat) /\ Len(new) = Len(got) + Len(more)
          /\ \A k \in 1..(Len(got) + Len(more)) :
               new[k] = IF k <= Len(got) THEN got[k] ELSE more[k - Len(got)]
      <3>1. /\ got \o more \in Seq(Attempts0 \X Nat)
            /\ Len(got \o more) = Len(got) + Len(more)
            /\ \A k \in 1..(Len(got) + Len(more)) :
                 (got \o more)[k] = IF k <= Len(got) THEN got[k] ELSE more[k - Len(got)]
        <4>1. got \in Seq(Attempts0 \X Nat) /\ more \in Seq(Attempts0 \X Nat)
          BY <2>1
        <4> QED BY ONLY <4>1, ConcatProperties
      <3> QED BY <2>1, <3>1
    <2>3. ASSUME NEW k \in 1..n PROVE new[k] = got[k]
      BY <1>1, <2>1, <2>2, <2>3
    <2>4. ASSUME NEW k \in 1..m PROVE new[n + k] = <<e, page[k]>>
      <3>1. /\ n + k \in 1..(Len(got) + Len(more)) /\ ~(n + k <= Len(got))
            /\ (n + k) - Len(got) = k
        BY <1>1, <2>1
      <3>2. new[n + k] = more[k]
        BY <2>2, <3>1
      <3> QED BY <1>2, <3>2 DEF more
    <2> QED BY <2>1, <2>2, <2>3, <2>4
  <1>4. PICK k \in 1..m : i = n + k
    <2>1. i - n \in 1..m /\ i = n + (i - n)
      BY <1>1, <1>3
    <2> QED BY <2>1
  <1>5. new[i] = <<e, page[k]>> /\ page[k] \in wanted /\ page[k] \in Nat /\ c < page[k]
    BY <1>3, <1>4
  <1>6. e \in Nat
    BY DEF Attempts0
  <1>7. \A j \in 1..n : got[j] \in Attempts0 \X Nat /\ got[j][1] \in Nat /\ got[j][2] \in Nat
    <2>1. \A j \in 1..Len(got) : got[j] \in Attempts0 \X Nat
      BY ElementOfSeq
    <2>2. \A x \in Attempts0 \X Nat : x[1] \in Nat /\ x[2] \in Nat
      BY DEF Attempts0
    <2> QED BY ONLY <2>1, <2>2
  <1>8. \A j \in 1..n : got[j][2] <= c
    <2>1. SUFFICES ASSUME NEW j \in 1..n PROVE got[j][2] <= c
      OBVIOUS
    <2>2. n \in 1..n /\ got # <<>>
      BY <1>1, <2>1
    <2>3. c = got[n][2]
      BY <2>2 DEF LastShown
    <2>4. j = n \/ j < n
      BY <1>1
    <2>5. CASE j = n
      BY <2>3, <2>5
    <2>6. CASE j < n
      <3>1. got[j][2] < got[n][2]
        BY <2>2, <2>6
      <3> QED BY <1>7, <2>3, <3>1
    <2> QED BY <2>4, <2>5, <2>6
  <1>0. c \in Nat /\ \A j \in 1..n : got[j][1] <= e
    OBVIOUS
  <1> HIDE DEF n, m
  <1>9. ASSUME NEW j \in 1..(i - 1) PROVE new[j][1] <= e /\ new[j][2] < page[k]
    <2>1. CASE j \in 1..n
      <3>1. new[j] = got[j] /\ got[j][1] <= e
        BY <1>0, <1>3, <2>1
      <3>2. got[j][2] \in Nat /\ got[j][2] <= c
        BY <1>7, <1>8, <2>1
      <3> QED BY ONLY <1>0, <1>5, <3>1, <3>2
    <2>2. CASE j \notin 1..n
      <3>1. j - n \in 1..m /\ n + (j - n) = j /\ j - n < k
        BY <1>1, <1>4, <2>2
      <3>2. new[j] = <<e, page[j - n]>>
        BY <1>3, <3>1
      <3>3. page[j - n] < page[k]
        BY <3>1 DEF m
      <3> QED BY <1>6, <3>2, <3>3
    <2> QED BY <2>1, <2>2
  <1>10. ASSUME NEW s \in wanted, s < page[k]
         PROVE  \E j \in 1..(i - 1) : \/ new[j] = <<e, s>>
                                      \/ new[j][1] < e /\ s <= new[j][2]
    <2>0. s \in Nat /\ s # 0 /\ i - 1 \in Nat
      BY <1>1, <1>4
    <2>1. CASE c < s
      <3>1. s <= d
        BY <1>5, <1>10, <2>0 DEF m
      <3>2. PICK l \in 1..m : page[l] = s
        BY <2>1, <3>1 DEF m
      <3>3. l < k
        <4>1. l = k \/ l < k \/ k < l
          OBVIOUS
        <4>2. k < l => page[k] < page[l]
          BY DEF m
        <4>3. page[l] < page[k] /\ page[l] \in Nat /\ page[k] \in Nat
          BY <1>5, <1>10, <2>0, <3>2
        <4>4. ~(page[k] < page[l]) /\ page[l] # page[k]
          BY <4>3
        <4> QED BY <4>1, <4>2, <4>4
      <3>4. n + l \in 1..(i - 1)
        BY <1>1, <1>4, <3>3
      <3>5. new[n + l] = <<e, s>>
        BY <1>3, <3>2
      <3> QED BY <3>4, <3>5
    <2>2. CASE ~(c < s)
      <3>1. got # <<>>
        BY <2>0, <2>2 DEF LastShown
      <3>2. n \in 1..n /\ n \in 1..(i - 1) /\ c = got[n][2] /\ new[n] = got[n]
        <4>1. n # 0
          BY <3>1, EmptySeq DEF n
        <4>2. n \in 1..n /\ n \in 1..(i - 1)
          BY <1>1, <1>4, <4>1
        <4> QED BY <1>3, <3>1, <4>2 DEF LastShown, n
      <3>3. got[n][1] <= e /\ got[n][1] \in Nat
        BY <1>7, <3>2 DEF n
      <3>4. CASE got[n][1] < e
        <4>1. s <= new[n][2]
          BY <2>0, <2>2, <3>2
        <4> QED BY <3>2, <3>4, <4>1
      <3>5. CASE got[n][1] = e /\ s = c
        <4>1. got[n] = <<e, s>>
          BY <1>7, <3>2, <3>5
        <4> QED BY <3>2, <4>1
      <3>6. CASE got[n][1] = e /\ s < c
        <4>1. PICK j \in 1..(n - 1) : \/ got[j] = <<e, s>>
                                      \/ got[j][1] < e /\ s <= got[j][2]
          BY <3>2, <3>6 DEF n
        <4>2. j \in 1..n /\ j \in 1..(i - 1)
          BY <1>1, <1>4, <3>2
        <4>3. new[j] = got[j]
          BY <1>3, <4>2
        <4> QED BY <4>1, <4>2, <4>3
      <3>7. s = c \/ s < c
        BY <2>0, <2>2
      <3>8. got[n][1] < e \/ got[n][1] = e
        BY <1>6, <3>3
      <3> QED BY <3>4, <3>5, <3>6, <3>7, <3>8
    <2> QED BY <2>1, <2>2
  <1>11. ASSUME mode # "export" PROVE i <= PageLimit /\ e = new[1][1]
    <2>1. n = 0 /\ PageLimit \in Nat
      BY <1>11, ReadsAssumption DEF n, ReadsAssumption
    <2>2. i = k /\ 1 \in 1..m /\ n + 1 = 1
      BY <1>1, <1>4, <2>1
    <2>3. new[1] = <<e, page[1]>>
      BY <1>3, <2>2
    <2>4. k <= m /\ m <= PageLimit
      BY DEF m
    <2> QED BY <1>1, <2>1, <2>2, <2>3, <2>4
  <1>12. new[i][1] = e /\ new[i][2] = page[k]
    BY <1>5
  <1> QED BY <1>5, <1>9, <1>10, <1>11, <1>12 DEF Rightly

\* What is shown under no name is a sequence, of attempts that exist.
LEMMA ShownUnnamed ==
  ASSUME ReadsInv, UnnamedInv
  PROVE  /\ 0 \in Attempts0 /\ shown[0] \in Seq(Attempts0 \X Nat)
         /\ Len(shown[0]) \in Nat /\ DOMAIN shown[0] = 1..Len(shown[0])
         /\ active = 0 => shown[0] = <<>>
  <1>1. 0 \in Attempts0
    BY ReadsAssumption DEF Attempts0, ReadsAssumption
  <1>2. shown[0] \in Seq(Attempts0 \X Nat)
    BY <1>1 DEF ReadsInv, ReadTypes
  <1>3. Len(shown[0]) \in Nat /\ DOMAIN shown[0] = 1..Len(shown[0])
    BY <1>2, LenProperties
  <1>4. ASSUME active = 0, shown[0] # <<>> PROVE FALSE
    <2>1. Len(shown[0]) # 0
      BY <1>2, <1>4, EmptySeq
    <2>2. 1 \in DOMAIN shown[0]
      BY <1>3, <2>1
    <2>3. /\ shown[0][1][2] \in Sequences(shown[0][1][1], Kind)
          /\ shown[0][1][1] <= 0 /\ shown[0][1] \in Attempts0 \X Nat
      BY <1>2, <1>3, <1>4, <2>2 DEF UnnamedInv, UnnamedRead
    <2>4. shown[0][1][1] = 0
      BY <2>3 DEF Attempts0
    <2> QED BY <2>3, <2>4 DEF Sequences
  <1> QED BY <1>1, <1>2, <1>3, <1>4

\* A step that shows nothing under no name.
LEMMA UnnamedKept ==
  ASSUME ReadsInv, UnnamedInv, ReadTypes', shown'[0] = shown[0],
         reader'.mode = reader.mode, stored' = stored, active \in Nat, active' \in Nat,
         active <= active'
  PROVE  /\ UnnamedRead' /\ \A i \in DOMAIN shown'[0] : shown'[0][i][1] <= active'
  <1>1. \A a, c : DueTo(a, c)' = DueTo(a, c)
    BY SameRecords
  <1>2. UnnamedRead'
    BY <1>1, UnnamedStays DEF ReadsInv, UnnamedInv
  <1>3. ASSUME NEW i \in DOMAIN shown[0] PROVE shown[0][i][1] <= active'
    <2>1. shown[0][i] \in Attempts0 \X Nat /\ shown[0][i][1] <= active
      BY ShownUnnamed DEF UnnamedInv
    <2>2. shown[0][i][1] \in Nat
      BY <2>1 DEF Attempts0
    <2> QED BY <2>1, <2>2
  <1> QED BY <1>2, <1>3

\* A record arrives behind what is shown.
LEMMA UnnamedRecord ==
  ASSUME ReadsInv, UnnamedInv, RecordStored, ReadTypes'
  PROVE  UnnamedInv'
  <1>1. UNCHANGED <<runStatus, active, reader, shown>> /\ ReadTypes
    BY DEF RecordStored, ReadsInv
  <1>2. ASSUME NEW a \in 1..MaxAttempts, NEW c \in Sequences(a, Kind)
        PROVE  DueTo(a, c)' = DueTo(a, c)
    <2>1. a \in Attempts0 /\ a # 0
      BY DEF Attempts0
    <2>2. c \in Nat /\ c <= Len(stored[a])
      BY <1>1, <2>1, SequencesAre
    <2> QED BY <1>1, <2>2, StoredKeeps
  <1>3. UnnamedRead'
    BY <1>1, <1>2, UnnamedStays DEF UnnamedInv
  <1> QED BY <1>1, <1>3 DEF UnnamedInv

\* A page is shown under no name.
LEMMA UnnamedShown ==
  ASSUME ReadsInv, UnnamedInv, UNCHANGED runVars, reader.attempt = 0, reader'.mode = reader.mode,
         reader.mode # "export" => shown[0] = <<>>, NEW page,
         page = PageOf(Sequences(Coalesce(0), Kind), reader.cursor),
         Shows(0, page), NEW d, d = NextCursor(page, reader.cursor)
  PROVE  /\ UnnamedRead' /\ \A i \in DOMAIN shown'[0] : shown'[0][i][1] <= active'
         /\ d = LastShown(shown'[0])
  <1>1. ReadTypes /\ UNCHANGED <<runStatus, active, stored>> /\ Kind' = Kind
    BY DEF ReadsInv, runVars, Kind
  <1>2. PICK e \in Attempts0, c \in Nat : e = active /\ c = reader.cursor /\ e = Coalesce(0)
    BY <1>1 DEF ReadTypes, Coalesce
  <1>3. PICK wanted : wanted = Sequences(e, Kind)
    OBVIOUS
  <1>4. wanted \in SUBSET Nat /\ IsFiniteSet(wanted)
    BY <1>1, <1>3, SequencesAre
  <1>5. wanted \in SUBSET (Nat \ {0})
    <2>1. ASSUME e # 0 PROVE \A s \in wanted : s # 0
      <3>1. e \in 1..MaxAttempts
        BY <1>1, <2>1, SequencesAre
      <3>2. stored[e] \in Seq({"logs", "metric"})
        BY <1>1, <3>1 DEF ReadTypes
      <3>3. DOMAIN stored[e] = 1..Len(stored[e])
        BY <3>2, LenProperties
      <3> QED BY <1>3, <2>1, <3>3 DEF Sequences
    <2>2. e = 0 => wanted = {}
      BY <1>3 DEF Sequences
    <2> QED BY <1>4, <2>1, <2>2
  <1>6. PageIs(wanted, c, page, d) /\ Len(page) <= PageLimit
    BY <1>2, <1>3, <1>4, PageFacts, PageIsShort
  <1>7. PICK due : due = {s \in wanted : c < s /\ s <= d}
    OBVIOUS
  <1>8. /\ page \in Seq(Nat) /\ d \in Nat /\ c <= d /\ page = InOrder(due)
        /\ \A s \in due : \E i \in 1..Len(page) : page[i] = s
    BY <1>6, <1>7 DEF PageIs
  <1>9. Enumerates(page, due)
    <2>1. due \in SUBSET wanted
      BY <1>7
    <2>2. due \in SUBSET Nat /\ IsFiniteSet(due)
      BY <1>4, <2>1, FS_Subset
    <2> QED BY <1>8, <2>2, InOrderEnumerates
  <1>10. /\ \A i \in 1..Len(page) : page[i] \in wanted /\ c < page[i] /\ page[i] <= d
         /\ \A i, j \in 1..Len(page) : i < j => page[i] < page[j]
         /\ \A s \in wanted : c < s /\ s <= d => \E i \in 1..Len(page) : page[i] = s
    <2>1. /\ \A i \in 1..Len(page) : page[i] \in due
          /\ \A i, j \in 1..Len(page) : i < j => page[i] < page[j]
      BY <1>9 DEF Enumerates
    <2> QED BY <1>7, <1>8, <2>1
  <1>11. PICK got \in Seq(Attempts0 \X Nat) : got = shown[0] /\ DOMAIN got = 1..Len(got)
    BY ShownUnnamed
  <1>12. PICK new : new = got \o Marked(e, page) /\ shown'[0] = new
    <2>1. shown' = [shown EXCEPT ![0] = @ \o Marked(e, page)]
      BY <1>2 DEF Shows, Marked
    <2>2. shown \in [Attempts0 -> Seq(Attempts0 \X Nat)] /\ 0 \in Attempts0
      BY <1>1, ShownUnnamed DEF ReadTypes
    <2> QED BY <1>11, <2>1, <2>2
  <1>13. PICK n \in Nat, m \in Nat : n = Len(got) /\ m = Len(page)
    BY <1>8, LenProperties
  <1>14. /\ new \in Seq(Attempts0 \X Nat) /\ Len(new) = n + m /\ DOMAIN new = 1..(n + m)
         /\ \A k \in 1..n : new[k] = got[k]
         /\ \A k \in 1..m : new[n + k] = <<e, page[k]>>
    <2>1. PICK more \in Seq(Attempts0 \X Nat) :
            more = Marked(e, page) /\ Len(more) = m /\ \A k \in 1..m : more[k] = <<e, page[k]>>
      BY <1>8, <1>13, MarkedFacts
    <2>2. /\ got \o more \in Seq(Attempts0 \X Nat)
          /\ Len(got \o more) = Len(got) + Len(more)
          /\ \A k \in 1..(Len(got) + Len(more)) :
               (got \o more)[k] = IF k <= Len(got) THEN got[k] ELSE more[k - Len(got)]
      <3>1. got \in Seq(Attempts0 \X Nat) /\ more \in Seq(Attempts0 \X Nat)
        OBVIOUS
      <3> QED BY ONLY <3>1, ConcatProperties
    <2>3. /\ new \in Seq(Attempts0 \X Nat) /\ Len(new) = n + m
          /\ \A k \in 1..(n + m) : new[k] = IF k <= n THEN got[k] ELSE more[k - n]
      BY <1>12, <1>13, <2>1, <2>2
    <2>4. DOMAIN new = 1..(n + m)
      BY <2>3, LenProperties
    <2>5. ASSUME NEW k \in 1..n PROVE new[k] = got[k]
      BY <1>13, <2>3
    <2>6. ASSUME NEW k \in 1..m PROVE new[n + k] = <<e, page[k]>>
      <3>1. n + k \in 1..(n + m) /\ ~(n + k <= n) /\ (n + k) - n = k
        BY <1>13
      <3>2. new[n + k] = more[k]
        BY <2>3, <3>1
      <3> QED BY <2>1, <3>2
    <2> QED BY <2>3, <2>4, <2>5, <2>6
  <1>15. /\ c = LastShown(got) /\ \A j \in 1..n : got[j][1] <= e
         /\ reader.mode # "export" => got = <<>>
         /\ \A i \in 1..n : Rightly(got, i, Sequences(got[i][1], Kind), reader.mode)
    BY <1>2, <1>11, <1>13, UnnamedIsRightly DEF UnnamedInv
  <1>16. /\ \A i, j \in 1..n : j < i => got[j][2] < got[i][2]
         /\ \A i \in 1..n : got[i][1] = e => \A s \in wanted : s < got[i][2] =>
              \E j \in 1..(i - 1) : \/ got[j] = <<e, s>>
                                    \/ got[j][1] < e /\ s <= got[j][2]
    <2>1. ASSUME NEW i \in 1..n, NEW j \in 1..n, j < i PROVE got[j][2] < got[i][2]
      <3>1. j \in 1..(i - 1)
        BY <1>13, <2>1
      <3>2. Rightly(got, i, Sequences(got[i][1], Kind), reader.mode)
        BY <1>15
      <3> QED BY <3>1, <3>2 DEF Rightly
    <2>2. ASSUME NEW i \in 1..n, got[i][1] = e, NEW s \in wanted, s < got[i][2]
          PROVE  \E j \in 1..(i - 1) : \/ got[j] = <<e, s>>
                                       \/ got[j][1] < e /\ s <= got[j][2]
      <3>1. Rightly(got, i, Sequences(got[i][1], Kind), reader.mode)
        BY <1>15
      <3>2. Sequences(got[i][1], Kind) = wanted
        BY <1>3, <2>2
      <3> QED BY <2>2, <3>1, <3>2 DEF Rightly
    <2> QED BY <2>1, <2>2
  <1>17. ASSUME NEW i \in 1..(n + m)
         PROVE  /\ Rightly(new, i, Sequences(new[i][1], Kind), reader.mode)
                /\ new[i][1] <= active
    <2>1. CASE i <= n
      <3>1. i \in 1..n /\ \A j \in 1..(i - 1) : j \in 1..n
        BY <1>13, <2>1
      <3>2. new[i] = got[i] /\ \A j \in 1..(i - 1) : new[j] = got[j]
        BY <1>14, <3>1
      <3>3. 1 \in 1..n /\ new[1] = got[1]
        BY <1>13, <1>14, <3>1
      <3>4. Rightly(got, i, Sequences(got[i][1], Kind), reader.mode) /\ got[i][1] <= e
        BY <1>15, <3>1
      <3>5. PICK some : some = Sequences(got[i][1], Kind)
        OBVIOUS
      <3>6. Rightly(got, i, some, reader.mode)
        BY <3>4, <3>5
      <3>7. Rightly(new, i, some, reader.mode)
        BY <3>2, <3>3, <3>6 DEF Rightly
      <3> QED BY <1>2, <3>2, <3>4, <3>5, <3>7
    <2>2. CASE ~(i <= n)
      <3>1. i > Len(got) /\ i \in 1..Len(new) /\ i - n \in 1..m /\ n + (i - n) = i
        BY <1>13, <1>14, <2>2
      <3>2. new[i][1] = e
        BY <1>14, <3>1
      <3>3. Rightly(new, i, wanted, reader.mode)
        <4>1. /\ c = LastShown(got) /\ new = got \o Marked(e, page)
              /\ \A j \in 1..Len(got) : got[j][1] <= e
              /\ \A x, j \in 1..Len(got) : j < x => got[j][2] < got[x][2]
              /\ \A x \in 1..Len(got) : got[x][1] = e => \A s \in wanted : s < got[x][2] =>
                   \E j \in 1..(x - 1) : \/ got[j] = <<e, s>>
                                         \/ got[j][1] < e /\ s <= got[j][2]
          BY <1>12, <1>13, <1>15, <1>16
        <4>2. /\ e \in Attempts0 /\ got \in Seq(Attempts0 \X Nat) /\ page \in Seq(Nat)
              /\ c \in Nat /\ d \in Nat /\ wanted \in SUBSET (Nat \ {0})
              /\ Len(page) <= PageLimit /\ (reader.mode # "export" => got = <<>>)
          BY <1>5, <1>6, <1>8, <1>15
        <4>3. i \in 1..Len(new) /\ i > Len(got)
          BY <3>1
        <4>4. PICK mode : mode = reader.mode
          OBVIOUS
        <4>5. PageAdds(e, got, page, c, d, wanted, mode, new)
          BY <1>10, <4>1, <4>2, <4>4 DEF PageAdds
        <4>6. Rightly(new, i, wanted, mode)
          BY ONLY <4>2, <4>3, <4>5, UnnamedPage
        <4> QED BY <4>4, <4>6
      <3>4. e <= active
        BY <1>2 DEF Attempts0
      <3> QED BY <1>3, <3>2, <3>3, <3>4
    <2> QED BY <2>1, <2>2
  <1>18. UnnamedRead'
    <2>1. shown'[0] = new /\ reader'.mode = reader.mode
      BY <1>12
    <2>2. \A i : Sequences(shown[0][i][1], Kind)' = Sequences(new[i][1], Kind)
      BY <1>1, <2>1 DEF Sequences
    <2> QED BY <1>14, <1>17, <2>1, <2>2, UnnamedIsRightly
  <1>19. d = LastShown(new)
    <2>1. CASE page = <<>>
      <3>1. m = 0 /\ d = c
        BY <1>2, <1>13, <2>1 DEF NextCursor
      <3>2. new = got
        <4>1. Len(new) = Len(got) /\ \A i \in 1..Len(got) : new[i] = got[i]
          BY <1>13, <1>14, <3>1
        <4> QED BY <1>14, <4>1, SeqEqual
      <3> QED BY <1>15, <3>1, <3>2
    <2>2. CASE page # <<>>
      <3>1. m # 0 /\ d = page[m]
        BY <1>8, <1>13, <2>2, EmptySeq DEF NextCursor, Last
      <3>2. m \in 1..m /\ new[n + m] = <<e, d>> /\ Len(new) = n + m /\ n + m # 0
        BY <1>13, <1>14, <3>1
      <3>3. new # <<>>
        BY <3>2
      <3> QED BY <3>2, <3>3 DEF LastShown
    <2> QED BY <2>1, <2>2
  <1> QED BY <1>1, <1>12, <1>14, <1>17, <1>18, <1>19

\* A step that shows nothing under no name and moves neither the cursor nor the
\* name of a reader without one.
LEMMA UnnamedMove ==
  ASSUME ReadsInv, UnnamedInv, ReadTypes', shown'[0] = shown[0],
         reader'.mode = reader.mode, stored' = stored, active <= active',
         reader'.attempt = 0 => reader.attempt = 0 /\ reader'.cursor = reader.cursor
  PROVE  /\ UnnamedRead' /\ \A i \in DOMAIN shown'[0] : shown'[0][i][1] <= active'
         /\ reader'.attempt = 0 => reader'.cursor = LastShown(shown'[0])
  <1>1. active \in Nat /\ active' \in Nat
    BY DEF ReadsInv, ReadTypes, Attempts0
  <1>2. UnnamedRead' /\ \A i \in DOMAIN shown'[0] : shown'[0][i][1] <= active'
    BY <1>1, UnnamedKept
  <1>3. reader'.attempt = 0 => reader'.cursor = LastShown(shown'[0])
    BY DEF UnnamedInv
  <1> QED BY <1>2, <1>3

\* The run moves on.
LEMMA UnnamedRuns ==
  ASSUME ReadsInv, UnnamedInv, ReadTypes', RunAssigned \/ RunRequeued \/ RunEnded
  PROVE  UnnamedInv'
  <1>1. UNCHANGED <<stored, reader, shown>> /\ active \in Nat /\ active <= active'
    BY DEF RunAssigned, RunRequeued, RunEnded, ReadsInv, ReadTypes, Attempts0
  <1>2. /\ UnnamedRead' /\ \A i \in DOMAIN shown'[0] : shown'[0][i][1] <= active'
        /\ reader'.attempt = 0 => reader'.cursor = LastShown(shown'[0])
    BY <1>1, UnnamedMove
  <1>3. ASSUME reader.mode = "follow", reader.attempt = 0, reader.over \/ reader.seen
        PROVE  runStatus' = "DONE" /\ active' = 0
    <2>1. runStatus = "DONE" /\ active = 0
      BY <1>3 DEF UnnamedInv
    <2> QED BY <2>1 DEF RunAssigned, RunRequeued, RunEnded
  <1> QED BY <1>1, <1>2, <1>3 DEF UnnamedInv

\* The run is fetched: a reader that still names no attempt has seen none.
LEMMA UnnamedFollowRun ==
  ASSUME ReadsInv, UnnamedInv, ReadTypes', FollowRun
  PROVE  UnnamedInv'
  <1>1. PICK a, c, seen, mode :
          a = reader.attempt /\ c = reader.cursor /\ seen = reader.seen /\ mode = reader.mode
    OBVIOUS
  <1>2. PICK switch \in BOOLEAN : switch <=> mode # "fixed" /\ active # a
    OBVIOUS
  <1>3. /\ UNCHANGED <<runStatus, active, stored, shown>>
        /\ mode \in {"follow", "fixed", "once"} /\ reader'.mode = mode
        /\ reader'.at = "page" /\ (reader'.over <=> runStatus = "DONE")
        /\ reader'.attempt = IF switch THEN active ELSE a
        /\ reader'.cursor = IF switch THEN 0 ELSE c
        /\ reader'.seen = IF switch THEN FALSE ELSE seen
    <2>1. reader \in [mode : Mode, at : {"run", "page", "answer", "ended", "error"},
                      cursor : Nat, seen : BOOLEAN, attempt : Attempts0,
                      selected : Attempts0, over : BOOLEAN, page : Seq(Nat)]
      BY DEF ReadsInv, ReadTypes
    <2>2. mode \in {"follow", "fixed", "once"} /\ UNCHANGED runVars /\ shown' = shown
      BY <1>1 DEF FollowRun
    <2>3. reader' = [reader EXCEPT
            !.at = "page", !.selected = active, !.over = runStatus = "DONE",
            !.attempt = IF switch THEN active ELSE @, !.cursor = IF switch THEN 0 ELSE @,
            !.seen = IF switch THEN FALSE ELSE @]
      BY <1>1, <1>2 DEF FollowRun
    <2>4. /\ reader'.mode = reader.mode /\ reader'.at = "page"
          /\ reader'.over = (runStatus = "DONE")
          /\ reader'.attempt = IF switch THEN active ELSE reader.attempt
          /\ reader'.cursor = IF switch THEN 0 ELSE reader.cursor
          /\ reader'.seen = IF switch THEN FALSE ELSE reader.seen
      BY ONLY <2>1, <2>3
    <2> QED BY <1>1, <2>2, <2>4 DEF runVars
  <1>4. a \in Nat /\ active \in Nat /\ a <= active /\ (mode = "fixed" => a # 0)
    BY <1>1 DEF ReadsInv, ReadTypes, Reading, Attempts0
  <1>5. ASSUME reader'.attempt = 0 PROVE active = 0 /\ a = 0 /\ ~switch
    <2>1. CASE switch
      BY <1>2, <1>3, <1>4, <1>5, <2>1
    <2>2. CASE ~switch
      BY <1>2, <1>3, <1>4, <1>5, <2>2
    <2> QED BY <2>1, <2>2
  <1>6. /\ UnnamedRead' /\ \A i \in DOMAIN shown'[0] : shown'[0][i][1] <= active'
        /\ reader'.attempt = 0 => reader'.cursor = LastShown(shown'[0])
    <2>1. shown'[0] = shown[0] /\ active <= active'
      BY <1>3, <1>4
    <2>2. reader'.attempt = 0 => reader.attempt = 0 /\ reader'.cursor = reader.cursor
      BY <1>1, <1>3, <1>5
    <2> QED BY <1>1, <1>3, <2>1, <2>2, UnnamedMove
  <1>7. reader'.attempt = 0 => shown'[0] = <<>>
    BY <1>3, <1>5, ShownUnnamed
  <1>8. ASSUME reader'.mode = "follow", reader'.attempt = 0, reader'.over \/ reader'.seen
        PROVE  runStatus' = "DONE" /\ active' = 0
    <2>1. active = 0 /\ a = 0 /\ ~switch
      BY <1>5, <1>8
    <2>2. CASE reader'.over
      BY <1>3, <2>1, <2>2
    <2>3. CASE reader'.seen
      <3>1. seen
        BY <1>3, <2>1, <2>3
      <3>2. runStatus = "DONE"
        BY <1>1, <1>3, <1>8, <2>1, <3>1 DEF UnnamedInv
      <3> QED BY <1>3, <2>1, <3>2
    <2> QED BY <1>8, <2>2, <2>3
  <1>9. reader'.at # "ended"
    BY <1>3
  <1> QED BY <1>6, <1>7, <1>8, <1>9 DEF UnnamedInv

\* A page is printed.
LEMMA UnnamedFollowPage ==
  ASSUME ReadsInv, UnnamedInv, ReadTypes', FollowPage
  PROVE  UnnamedInv'
  <1>1. PICK page, d : /\ page = TelemetryPage(reader.attempt, "logs", reader.cursor)
                       /\ d = NextCursor(page, reader.cursor)
    OBVIOUS
  <1>2. PICK full \in BOOLEAN, done \in BOOLEAN :
          (full <=> Len(page) = PageLimit) /\ (done <=> FollowDone(page))
    OBVIOUS
  <1>3. /\ UNCHANGED runVars /\ reader.mode \in {"follow", "fixed", "once"}
        /\ reader.at = "page" /\ Shows(reader.attempt, page)
        /\ reader'.mode = reader.mode /\ reader'.attempt = reader.attempt
        /\ reader'.cursor = d /\ reader'.over = reader.over
        /\ reader'.at = IF ~full /\ done THEN "ended" ELSE "run"
        /\ reader'.seen = IF full \/ done THEN reader.seen
                          ELSE \/ reader.over
                               \/ (reader.mode = "fixed" /\ reader.selected # reader.attempt)
    <2>1. reader \in [mode : Mode, at : {"run", "page", "answer", "ended", "error"},
                      cursor : Nat, seen : BOOLEAN, attempt : Attempts0,
                      selected : Attempts0, over : BOOLEAN, page : Seq(Nat)]
      BY DEF ReadsInv, ReadTypes
    <2>2. /\ UNCHANGED runVars /\ reader.mode \in {"follow", "fixed", "once"}
          /\ reader.at = "page" /\ Shows(reader.attempt, page)
      BY <1>1 DEF FollowPage
    <2>3. reader' = [reader EXCEPT
            !.cursor = d, !.at = IF ~full /\ done THEN "ended" ELSE "run",
            !.seen = IF full \/ done THEN @
                     ELSE \/ reader.over
                          \/ (reader.mode = "fixed" /\ reader.selected # reader.attempt)]
      BY <1>1, <1>2 DEF FollowPage
    <2> QED BY <2>1, <2>2, <2>3
  <1>4. UNCHANGED <<runStatus, active, stored>>
    BY <1>3 DEF runVars
  <1>5. reader.mode # "fixed" \/ reader.attempt # 0
    BY DEF ReadsInv, Reading
  <1>6. /\ UnnamedRead' /\ \A i \in DOMAIN shown'[0] : shown'[0][i][1] <= active'
        /\ reader'.attempt = 0 => reader'.cursor = LastShown(shown'[0])
    <2>1. CASE reader.attempt = 0
      <3>1. shown[0] = <<>> /\ Kind = "logs"
        BY <1>3, <1>5, <2>1 DEF UnnamedInv, Kind
      <3>2. page = PageOf(Sequences(Coalesce(0), Kind), reader.cursor) /\ Shows(0, page)
        BY <1>1, <1>3, <2>1, <3>1 DEF TelemetryPage
      <3> QED BY <1>1, <1>3, <2>1, <3>1, <3>2, UnnamedShown
    <2>2. CASE reader.attempt # 0
      <3>1. shown'[0] = shown[0]
        <4>1. 0 \in Attempts0 /\ reader.attempt \in Attempts0
          BY ShownUnnamed DEF ReadsInv, ReadTypes
        <4> QED BY <1>3, <2>2, <4>1 DEF Shows, ReadsInv, ReadTypes
      <3>2. active <= active'
        BY <1>4 DEF ReadsInv, ReadTypes, Attempts0
      <3> QED BY <1>3, <1>4, <2>2, <3>1, <3>2, UnnamedMove
    <2> QED BY <2>1, <2>2
  <1>7. reader'.at # "page"
    BY <1>3
  <1>8. ASSUME reader'.mode = "follow", reader'.attempt = 0, reader'.over \/ reader'.seen
        PROVE  runStatus' = "DONE" /\ active' = 0
    <2>1. reader.over \/ reader.seen
      BY <1>3, <1>8
    <2>2. runStatus = "DONE" /\ active = 0
      BY <1>3, <1>8, <2>1 DEF UnnamedInv
    <2> QED BY <1>4, <2>2
  <1>9. ASSUME reader'.mode = "follow", reader'.at = "ended" PROVE reader'.seen
    <2>1. done /\ reader.mode = "follow"
      BY <1>3, <1>9
    <2>2. reader.seen
      BY <1>2, <2>1 DEF FollowDone
    <2> QED BY <1>3, <2>1, <2>2
  <1> QED BY <1>6, <1>7, <1>8, <1>9 DEF UnnamedInv

\* An export starts, or prints a page.
LEMMA UnnamedExport ==
  ASSUME ReadsInv, UnnamedInv, ReadTypes', ExportRun \/ ExportPage
  PROVE  UnnamedInv'
  <1>1. /\ UNCHANGED runVars /\ reader'.mode = reader.mode /\ reader.mode = "export"
        /\ UNCHANGED <<runStatus, active, stored>> /\ active <= active'
    <2>1. UNCHANGED runVars /\ reader'.mode = reader.mode /\ reader.mode = "export"
      BY DEF ExportRun, ExportPage, ReadsInv, ReadTypes
    <2>2. active \in Nat
      BY DEF ReadsInv, ReadTypes, Attempts0
    <2> QED BY <2>1, <2>2 DEF runVars
  <1>2. /\ UnnamedRead' /\ \A i \in DOMAIN shown'[0] : shown'[0][i][1] <= active'
        /\ reader'.attempt = 0 => reader'.cursor = LastShown(shown'[0])
    <2>1. CASE ExportRun
      <3>1. reader.attempt = 0 /\ reader'.cursor = reader.cursor /\ shown'[0] = shown[0]
        BY <2>1 DEF ExportRun, ReadsInv, ReadTypes
      <3> QED BY <1>1, <3>1, UnnamedMove
    <2>2. CASE ExportPage
      <3>1. PICK page, d : /\ page = TelemetryPage(reader.attempt, "metric", reader.cursor)
                           /\ d = NextCursor(page, reader.cursor)
        OBVIOUS
      <3>2. /\ Shows(reader.attempt, page) /\ reader'.attempt = reader.attempt
            /\ reader'.cursor = d
        BY <2>2, <3>1 DEF ExportPage, ReadsInv, ReadTypes
      <3>3. CASE reader.attempt = 0
        <4>1. page = PageOf(Sequences(Coalesce(0), Kind), reader.cursor) /\ Shows(0, page)
          BY <1>1, <3>1, <3>2, <3>3 DEF TelemetryPage, Kind
        <4> QED BY <1>1, <3>1, <3>2, <3>3, <4>1, UnnamedShown
      <3>4. CASE reader.attempt # 0
        <4>1. shown'[0] = shown[0]
          <5>1. 0 \in Attempts0 /\ reader.attempt \in Attempts0
            BY ShownUnnamed DEF ReadsInv, ReadTypes
          <5> QED BY <3>2, <3>4, <5>1 DEF Shows, ReadsInv, ReadTypes
        <4> QED BY <1>1, <3>2, <3>4, <4>1, UnnamedMove
      <3> QED BY <3>3, <3>4
    <2> QED BY <2>1, <2>2
  <1> QED BY <1>1, <1>2 DEF UnnamedInv

\* The web page always names the attempt it asks for.
LEMMA UnnamedView ==
  ASSUME ReadsInv, UnnamedInv, ReadTypes', ViewRefresh \/ ViewAsk \/ ViewShow \/ ViewFails
  PROVE  UnnamedInv'
  <1>1. /\ reader'.mode = reader.mode /\ reader.mode = "view" /\ reader'.attempt # 0
        /\ UNCHANGED <<runStatus, active, stored>> /\ active <= active'
    <2>1. reader'.mode = reader.mode /\ reader.mode = "view" /\ UNCHANGED runVars
      BY DEF ViewRefresh, ViewAsk, ViewShow, ViewFails, ReadsInv, ReadTypes
    <2>2. active \in Nat
      BY DEF ReadsInv, ReadTypes, Attempts0
    <2>3. reader'.attempt # 0
      <3>1. CASE ViewRefresh
        BY <2>2, <3>1 DEF ViewRefresh, ReadsInv, ReadTypes
      <3>2. CASE ViewAsk \/ ViewShow \/ ViewFails
        BY <2>1, <3>2 DEF ViewAsk, ViewShow, ViewFails, ReadsInv, ReadTypes
      <3> QED BY <3>1, <3>2
    <2> QED BY <2>1, <2>2, <2>3 DEF runVars
  <1>2. UnnamedRead' /\ \A i \in DOMAIN shown'[0] : shown'[0][i][1] <= active'
    <2>1. CASE ViewRefresh
      <3>1. shown'[0] = <<>>
        BY <2>1, ShownUnnamed DEF ViewRefresh
      <3>2. DOMAIN shown'[0] = {}
        BY <3>1
      <3> QED BY <3>2 DEF UnnamedRead
    <2>2. CASE ViewAsk \/ ViewShow \/ ViewFails
      <3>1. shown'[0] = shown[0]
        <4>1. CASE ViewAsk \/ ViewFails
          BY <4>1 DEF ViewAsk, ViewFails
        <4>2. CASE ViewShow
          <5>1. 0 \in Attempts0 /\ reader.attempt # 0
            BY <1>1, <4>2, ShownUnnamed DEF ViewShow, ReadsInv, ReadTypes
          <5> QED BY <4>2, <5>1 DEF ViewShow, ReadsInv, ReadTypes
        <4> QED BY <2>2, <4>1, <4>2
      <3> QED BY <1>1, <3>1, UnnamedMove
    <2> QED BY <2>1, <2>2
  <1> QED BY <1>1, <1>2 DEF UnnamedInv

LEMMA UnnamedStart ==
  ReadsInit => UnnamedInv
  <1> SUFFICES ASSUME ReadsInit PROVE UnnamedInv
    OBVIOUS
  <1>1. shown[0] = <<>>
    BY ReadsAssumption DEF ReadsInit, Attempts0, ReadsAssumption
  <1>2. PICK mode \in Modes :
          reader = [mode |-> mode, at |-> "run", cursor |-> 0, seen |-> FALSE,
                    attempt |-> IF mode = "fixed" THEN 1 ELSE 0,
                    selected |-> 0, over |-> FALSE, page |-> <<>>]
    BY DEF ReadsInit
  <1>3. reader.cursor = 0 /\ reader.at = "run" /\ ~reader.over /\ ~reader.seen
    BY <1>2
  <1>4. DOMAIN shown[0] = {} /\ LastShown(shown[0]) = 0
    BY <1>1 DEF LastShown
  <1> QED BY <1>3, <1>4 DEF UnnamedInv, UnnamedRead

LEMMA UnnamedStep ==
  ReadsInv /\ ReadsInv' /\ UnnamedInv /\ [ReadsNext]_readVars => UnnamedInv'
  <1> SUFFICES ASSUME ReadsInv, ReadsInv', UnnamedInv, [ReadsNext]_readVars
               PROVE  UnnamedInv'
    OBVIOUS
  <1>1. ReadTypes'
    BY DEF ReadsInv
  <1>2. CASE RunStep
    BY <1>1, <1>2, UnnamedRecord, UnnamedRuns DEF RunStep
  <1>3. CASE ReaderStep
    BY <1>1, <1>3, UnnamedFollowRun, UnnamedFollowPage, UnnamedExport, UnnamedView
    DEF ReaderStep
  <1>4. CASE ViewRefresh \/ ViewFails
    BY <1>1, <1>4, UnnamedView
  <1>5. CASE EventStep \/ UNCHANGED readVars
    <2>1. UNCHANGED <<runStatus, active, stored>> /\ UNCHANGED <<reader, shown>>
      <3>1. CASE EventStep
        BY <3>1 DEF EventStep, WriteEvent, CommitEvent, AbortEvent, ReadEvents, runVars
      <3>2. CASE UNCHANGED readVars
        BY <3>2 DEF readVars
      <3> QED BY <1>5, <3>1, <3>2
    <2>2. active <= active'
      BY <2>1 DEF ReadsInv, ReadTypes, Attempts0
    <2>3. /\ UnnamedRead' /\ \A i \in DOMAIN shown'[0] : shown'[0][i][1] <= active'
          /\ reader'.attempt = 0 => reader'.cursor = LastShown(shown'[0])
      BY <1>1, <2>1, <2>2, UnnamedMove
    <2> QED BY <2>1, <2>3 DEF UnnamedInv
  <1> QED BY <1>2, <1>3, <1>4, <1>5 DEF ReadsNext

-----------------------------------------------------------------------------
(* What it is for *)

\* Readers that keep only a cursor get every record of the attempt they name
\* and every event once, in order, readers that name none have the bounds of
\* UnnamedRead, and none stops before there is nothing left
\* (telemetry.cpp:37-42, workflows.cpp:16-36 and 55-76, runs.cpp:43).
LEMMA ReadingIsExact ==
  ReadsInv /\ UnnamedInv => ReadersExact
  <1> SUFFICES ASSUME ReadsInv, UnnamedInv PROVE ReadersExact
    OBVIOUS
  <1>1. ReadTypes /\ Reading /\ Noticed /\ Asked /\ Finished /\ Numbering
    BY DEF ReadsInv
  <1>2. PICK a \in Attempts0, c \in Nat : a = reader.attempt /\ c = reader.cursor
    BY <1>1 DEF ReadTypes
  <1>3. a # 0 => a \in 1..MaxAttempts /\ shown[a] = Exactly(a, c)
    <2>1. a # 0 => a \in 1..MaxAttempts
      BY ReadsAssumption DEF Attempts0, ReadsAssumption
    <2> QED BY <1>1, <1>2, <2>1 DEF Reading
  <1>4. CursorExact
    <2>1. SUFFICES ASSUME a # 0
                   PROVE  LET due == InOrder({s \in Sequences(Coalesce(a), Kind) : s <= c})
                              all == [i \in 1..Len(due) |-> <<Coalesce(a), due[i]>>]
                          IN shown[a] = IF reader.mode = "view" THEN Bounded(all) ELSE all
      BY <1>2 DEF CursorExact
    <2>2. Coalesce(a) = a
      BY <2>1 DEF Coalesce
    <2> QED BY <1>3, <2>1, <2>2 DEF Exactly, Marked, DueTo
  <1>5. FollowComplete
    <2>0. ASSUME reader.at = "ended", reader.mode = "follow", a = 0 PROVE active = 0
      BY <1>2, <2>0 DEF UnnamedInv
    <2>1. SUFFICES ASSUME reader.at = "ended", reader.mode \in {"follow", "fixed", "view"},
                          NEW s \in Sequences(a, "logs")
                   PROVE  \/ <<a, s>> \in ToSet(shown[a])
                          \/ reader.mode = "view" /\ Len(shown[a]) = ViewMax
      BY <1>2, <2>0 DEF FollowComplete
    <2>2. a # 0
      BY DEF Sequences
    <2>3. Kind = "logs" /\ NoneAfter(a, c)
      BY <1>1, <1>2, <1>3, <2>1, <2>2 DEF Finished, Kind
    <2>4. Sequences(a, Kind) \in SUBSET Nat /\ IsFiniteSet(Sequences(a, Kind))
      BY <1>1, SequencesAre
    <2>5. s \in DueTo(a, c)
      BY <2>3 DEF DueTo, NoneAfter
    <2>6. DueTo(a, c) \in SUBSET Nat /\ IsFiniteSet(DueTo(a, c))
      <3>1. DueTo(a, c) \in SUBSET Sequences(a, Kind)
        BY DEF DueTo
      <3> QED BY <2>4, <3>1, FS_Subset
    <2>7. PICK q : q = InOrder(DueTo(a, c))
      OBVIOUS
    <2>8. q \in Seq(Nat) /\ \E i \in 1..Len(q) : q[i] = s
      BY <2>5, <2>6, <2>7, InOrderEnumerates DEF Enumerates
    <2>9. PICK i \in 1..Len(q) : q[i] = s
      BY <2>8
    <2>10. PICK x \in Seq(Attempts0 \X Nat) :
             x = Marked(a, q) /\ Len(x) = Len(q) /\ x[i] = <<a, s>>
      BY <2>8, <2>9, MarkedFacts
    <2>11. Len(x) \in Nat /\ DOMAIN x = 1..Len(x)
      BY LenProperties
    <2>12. CASE reader.mode # "view"
      <3>1. shown[a] = x
        BY <1>3, <2>2, <2>7, <2>10, <2>12 DEF Exactly
      <3> QED BY <2>9, <2>10, <2>11, <3>1 DEF ToSet
    <2>13. CASE reader.mode = "view"
      <3>1. shown[a] = Bounded(x)
        BY <1>3, <2>2, <2>7, <2>10, <2>13 DEF Exactly
      <3>2. PICK k : IsTail(Bounded(x), Attempts0 \X Nat, x, k)
        BY BoundedFacts
      <3>3. PICK b : b = shown[a]
        OBVIOUS
      <3>4. /\ k \in Nat /\ k = (IF Len(x) > ViewMax THEN Len(x) - ViewMax ELSE 0)
            /\ b \in Seq(Attempts0 \X Nat) /\ Len(b) = Len(x) - k
            /\ \A j \in 1..(Len(x) - k) : b[j] = x[k + j]
        BY <2>11, <3>1, <3>2, <3>3 DEF IsTail
      <3>5. ViewMax \in Nat
        BY ReadsAssumption DEF ReadsAssumption
      <3>6. CASE Len(x) > ViewMax
        <4>1. Len(b) = ViewMax
          BY <2>11, <3>4, <3>5, <3>6
        <4> QED BY <2>13, <3>3, <4>1
      <3>7. CASE ~(Len(x) > ViewMax)
        <4>1. k = 0 /\ Len(b) = Len(x)
          BY <2>11, <3>4, <3>5, <3>7
        <4>2. i \in 1..(Len(x) - k) /\ k + i = i
          BY <2>9, <2>10, <2>11, <4>1
        <4>3. b[i] = <<a, s>>
          BY <2>10, <3>4, <4>2
        <4>4. DOMAIN b = 1..Len(b)
          BY <3>4, LenProperties
        <4>5. i \in DOMAIN b
          BY <2>9, <2>10, <4>1, <4>4
        <4> QED BY <3>3, <4>3, <4>5 DEF ToSet
      <3> QED BY <3>6, <3>7
    <2> QED BY <2>12, <2>13
  <1>6. NoEventSkipped
    BY <1>1 DEF Numbering
  <1> QED BY <1>4, <1>5, <1>6 DEF ReadersExact, UnnamedInv

\* For every number of attempts, page size, size of the view and set of event
\* writers: of the attempt a reader names it has shown exactly the records of its
\* kind up to its cursor; what it has shown before it could name one is in order,
\* and a follower printed at most one such page; a follower stops only when
\* everything is shown, and no event is skipped.
THEOREM ReadersAreExact == ReadsSpec => []ReadersExact
  <1>1. ReadsSpec => [](ReadsInv /\ UnnamedInv)
    BY StartReading, UnnamedStart, ReadsStep, UnnamedStep, PTL DEF ReadsSpec
  <1> QED BY <1>1, ReadingIsExact, PTL
=============================================================================
