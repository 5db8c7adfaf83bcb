------------------------------ MODULE DataLemmas ------------------------------
(***************************************************************************)
(* Lemmas about data that the proofs of several components need: induction *)
(* over the naturals, folds of a sequence, sets in order, sums over sets.  *)
(*                                                                         *)
(* An induction is over a set of numbers, not over a predicate: a set is a *)
(* value, which the provers can instantiate.  So are the steps of a fold:  *)
(* for each index a function of the value so far.                          *)
(***************************************************************************)
EXTENDS Integers, Sequences, FiniteSets, FiniteSetsExt, SequencesExt,
        FiniteSetTheorems, TLAPS

-----------------------------------------------------------------------------
(* Naturals *)

\* A nonempty set of naturals has a least element.
LEMMA LeastNatural ==
  ASSUME NEW T, T \subseteq Nat, T # {}
  PROVE  \E x \in T : \A y \in T : x <= y
  <1> DEFINE R == StrictSubsetOrdering(Nat)
             F == FiniteSubsetsOf(Nat)
             below == {0..n : n \in T}
  <1>1. IsWellFoundedOn(R, F)
    BY FS_StrictSubsetOrderingWellFounded
  <1>2. below \subseteq F /\ below # {}
    <2>1. ASSUME NEW n \in T PROVE 0..n \in F
      <3>1. IsFiniteSet(0..n)
        BY FS_Interval
      <3> QED BY <3>1 DEF FiniteSubsetsOf
    <2> QED BY <2>1
  <1> HIDE DEF R, F, below
  <1>3. PICK X \in below : \A Y \in below : <<Y, X>> \notin R
    BY <1>1, <1>2, WFMin
  <1>4. PICK x \in T : X = 0..x
    BY DEF below
  <1>5. ASSUME NEW y \in T, ~(x <= y) PROVE FALSE
    <2>1. 0..y \in below
      BY DEF below
    <2>2. 0..y \subseteq 0..x /\ 0..y # 0..x
      BY <1>5
    <2>3. <<0..y, 0..x>> \in R
      BY <1>4, <2>2 DEF R, StrictSubsetOrdering
    <2> QED BY <1>3, <1>4, <2>1, <2>3
  <1> QED BY <1>5

\* Induction: a set that holds 0 and with every number the next one holds all.
LEMMA Induct ==
  ASSUME NEW S, 0 \in S, \A n \in Nat : n \in S => n + 1 \in S
  PROVE  \A n \in Nat : n \in S
  <1> DEFINE T == Nat \ S
  <1>1. SUFFICES ASSUME T # {} PROVE FALSE
    OBVIOUS
  <1>2. PICK x \in T : \A y \in T : x <= y
    BY <1>1, LeastNatural
  <1>3. x \in Nat /\ x # 0 /\ x \notin S
    OBVIOUS
  <1>4. x - 1 \in Nat /\ (x - 1) + 1 = x
    BY <1>3
  <1>5. x - 1 \notin S
    BY <1>3, <1>4
  <1> QED BY <1>2, <1>4, <1>5

\* Induction up to a bound.
LEMMA InductUpTo ==
  ASSUME NEW m \in Nat, NEW S, 0 \in S,
         \A n \in 1..m : n - 1 \in S => n \in S
  PROVE  \A n \in 0..m : n \in S
  <1> DEFINE T == {n \in Nat : n <= m => n \in S}
  <1>1. 0 \in T
    OBVIOUS
  <1>2. ASSUME NEW n \in Nat, n \in T PROVE n + 1 \in T
    <2>1. CASE n + 1 <= m
      <3>1. n + 1 \in 1..m /\ (n + 1) - 1 = n /\ n \in S
        BY <1>2, <2>1
      <3> QED BY <3>1
    <2>2. CASE ~(n + 1 <= m)
      BY <2>2
    <2> QED BY <2>1, <2>2
  <1> HIDE DEF T
  <1>3. \A n \in Nat : n \in T
    BY <1>1, <1>2, Induct
  <1> QED BY <1>3 DEF T

\* Every bounded nonempty set of naturals has a maximum.
LEMMA MaxOf ==
  ASSUME NEW n \in Nat, NEW s \in SUBSET (0..n), s # {}
  PROVE  Max(s) \in s /\ \A y \in s : y <= Max(s)
  <1> DEFINE T == {n - x : x \in s}
  <1>1. T \subseteq Nat /\ T # {}
    <2>1. \A x \in s : x \in 0..n /\ n - x \in Nat
      OBVIOUS
    <2> QED BY <2>1
  <1>2. PICK t \in T : \A y \in T : t <= y
    BY <1>1, LeastNatural
  <1>3. PICK x \in s : t = n - x
    OBVIOUS
  <1>4. \A y \in s : x >= y
    BY <1>2, <1>3
  <1> QED BY <1>4 DEF Max

\* Every nonempty set of naturals has a minimum.
LEMMA MinOf ==
  ASSUME NEW s \in SUBSET Nat, s # {}
  PROVE  Min(s) \in s /\ \A y \in s : Min(s) <= y
  <1>1. PICK x \in s : \A y \in s : x <= y
    BY LeastNatural
  <1> QED BY <1>1 DEF Min

-----------------------------------------------------------------------------
(* Folds.  FoldLeft computes by a recursive function on sets of indices    *)
(* that takes off the largest index.                                       *)

IsFold(g, n, base, step) ==
  \A s \in SUBSET (1..n) :
    g[s] = IF s = {} THEN base ELSE step[Max(s)][g[s \ {Max(s)}]]

\* Such a function exists.
LEMMA FoldExists ==
  ASSUME NEW n \in Nat, NEW V, NEW base \in V, NEW step \in [1..n -> [V -> V]]
  PROVE  \E g \in [SUBSET (1..n) -> V] : IsFold(g, n, base, step)
  <1> DEFINE Ok(k) ==
        \E g \in [SUBSET (1..k) -> V] :
          \A s \in SUBSET (1..k) :
            g[s] = IF s = {} THEN base ELSE step[Max(s)][g[s \ {Max(s)}]]
        T == {k \in 0..n : Ok(k)}
  <1>1. 0 \in T
    <2> DEFINE g == [s \in SUBSET (1..0) |-> base]
    <2>1. 1..0 = {}
      OBVIOUS
    <2>2. g \in [SUBSET (1..0) -> V]
      OBVIOUS
    <2>3. \A s \in SUBSET (1..0) : s = {} /\ g[s] = base
      BY <2>1
    <2> HIDE DEF g
    <2>4. Ok(0)
      BY <2>2, <2>3
    <2> HIDE DEF Ok
    <2> QED BY <2>4
  <1>2. ASSUME NEW k \in 1..n, k - 1 \in T PROVE k \in T
    <2>1. PICK f \in [SUBSET (1..(k - 1)) -> V] :
            \A s \in SUBSET (1..(k - 1)) :
              f[s] = IF s = {} THEN base ELSE step[Max(s)][f[s \ {Max(s)}]]
      BY <1>2
    <2> DEFINE g == [s \in SUBSET (1..k) |->
                       IF s = {} THEN base ELSE step[Max(s)][f[s \ {Max(s)}]]]
    <2>2. ASSUME NEW s \in SUBSET (1..k), s # {}
          PROVE  /\ Max(s) \in 1..n
                 /\ s \ {Max(s)} \in SUBSET (1..(k - 1))
      <3>1. s \in SUBSET (0..k) /\ k \in Nat
        OBVIOUS
      <3>2. Max(s) \in s /\ \A y \in s : y <= Max(s)
        BY <2>2, <3>1, MaxOf
      <3>3. ASSUME NEW y \in s \ {Max(s)} PROVE y \in 1..(k - 1)
        <4>1. y \in 1..k /\ Max(s) \in 1..k /\ y <= Max(s) /\ y # Max(s)
          BY <3>2
        <4> QED BY <4>1
      <3>4. Max(s) \in 1..k
        BY <3>2, Zenon
      <3>5. Max(s) \in 1..n
        BY <3>4
      <3>6. s \ {Max(s)} \in SUBSET (1..(k - 1))
        BY <3>3, Zenon
      <3> QED BY <3>5, <3>6
    <2>3. g \in [SUBSET (1..k) -> V]
      <3>1. ASSUME NEW s \in SUBSET (1..k), s # {}
            PROVE  step[Max(s)][f[s \ {Max(s)}]] \in V
        <4>1. f[s \ {Max(s)}] \in V /\ Max(s) \in 1..n
          BY <2>2, <3>1
        <4> QED BY <4>1
      <3> QED BY <3>1
    <2>4. \A s \in SUBSET (1..(k - 1)) : g[s] = f[s]
      <3>1. \A s \in SUBSET (1..(k - 1)) : s \in SUBSET (1..k)
        BY SMT
      <3> QED BY <2>1, <3>1
    <2>5. ASSUME NEW s \in SUBSET (1..k)
          PROVE  g[s] = IF s = {} THEN base ELSE step[Max(s)][g[s \ {Max(s)}]]
      BY <2>2, <2>4
    <2> HIDE DEF g
    <2>6. Ok(k)
      BY <2>3, <2>5
    <2> HIDE DEF Ok
    <2> QED BY <2>6
  <1> HIDE DEF Ok
  <1>3. \A k \in 0..n : k \in T
    <2> HIDE DEF T
    <2> QED BY <1>1, <1>2, InductUpTo
  <1>4. Ok(n)
    BY <1>3
  <1> QED BY <1>4 DEF Ok, IsFold

\* The sets of indices a fold meets on its way are the initial intervals.
LEMMA Initial ==
  ASSUME NEW k \in Nat
  PROVE  k = 0 \/ (/\ 1..k # {} /\ Max(1..k) = k
                   /\ (1..k) \ {Max(1..k)} = 1..(k - 1))
  <1> SUFFICES ASSUME k # 0
               PROVE  /\ 1..k # {} /\ Max(1..k) = k
                      /\ (1..k) \ {Max(1..k)} = 1..(k - 1)
    OBVIOUS
  <1>1. k \in 1..k /\ 1..k \in SUBSET (0..k)
    OBVIOUS
  <1>2. Max(1..k) \in 1..k /\ \A y \in 1..k : y <= Max(1..k)
    BY <1>1, MaxOf
  <1>3. Max(1..k) = k
    BY <1>1, <1>2
  <1> QED BY <1>1, <1>3

\* Taking off the largest of a set of indices leaves a set of indices.
LEMMA Largest ==
  ASSUME NEW n \in Nat, NEW s \in SUBSET (1..n), s # {}
  PROVE  Max(s) \in 1..n /\ s \ {Max(s)} \in SUBSET (1..n)
  <1>1. s \in SUBSET (0..n)
    OBVIOUS
  <1>2. Max(s) \in s
    BY <1>1, MaxOf
  <1> QED BY <1>2

\* The same for a function that is known to compute so on values of V only.
IsFoldOn(f, n, V, base, step) ==
  /\ f[{}] = base
  /\ \A s \in SUBSET (1..n) :
       s # {} /\ f[s \ {Max(s)}] \in V => f[s] = step[Max(s)][f[s \ {Max(s)}]]

\* A computation in n steps, from base to end.
IsChain(h, n, base, step, end) ==
  h[0] = base /\ h[n] = end /\ \A k \in 1..n : h[k] = step[k][h[k - 1]]

\* What a fold computes, index by index.
LEMMA FoldChain ==
  ASSUME NEW n \in Nat, NEW V, NEW base \in V, NEW step \in [1..n -> [V -> V]],
         NEW f, IsFoldOn(f, n, V, base, step)
  PROVE  \E h \in [0..n -> V] : IsChain(h, n, base, step, f[1..n])
  <1> DEFINE T == {k \in 0..n : f[1..k] \in V}
             h == [k \in 0..n |-> f[1..k]]
  <1>1. 0 \in T /\ f[1..0] = base
    <2>1. 1..0 = {}
      OBVIOUS
    <2> QED BY <2>1 DEF IsFoldOn
  <1>2. ASSUME NEW k \in 1..n, f[1..(k - 1)] \in V
        PROVE  f[1..k] = step[k][f[1..(k - 1)]]
    <2>1. k \in Nat /\ k # 0 /\ 1..k \in SUBSET (1..n)
      OBVIOUS
    <2>2. 1..k # {} /\ Max(1..k) = k /\ (1..k) \ {Max(1..k)} = 1..(k - 1)
      BY <2>1, Initial
    <2> QED BY <1>2, <2>1, <2>2 DEF IsFoldOn
  <1>3. ASSUME NEW k \in 1..n, k - 1 \in T PROVE k \in T
    <2>1. f[1..(k - 1)] \in V
      BY <1>3
    <2>2. f[1..k] = step[k][f[1..(k - 1)]]
      BY <1>2, <2>1
    <2>3. f[1..k] \in V
      BY <2>1, <2>2
    <2> QED BY <2>3
  <1>4. \A k \in 0..n : k \in T
    <2> HIDE DEF T
    <2> QED BY <1>1, <1>3, InductUpTo
  <1>5. \A k \in 0..n : f[1..k] \in V
    BY <1>4
  <1> HIDE DEF T
  <1>6. h \in [0..n -> V] /\ h[0] = base /\ h[n] = f[1..n]
    BY <1>1, <1>5
  <1>7. \A k \in 1..n : h[k] = step[k][h[k - 1]]
    BY <1>2, <1>5
  <1> QED BY <1>6, <1>7 DEF IsChain

\* Two sequences of values with one start and one step are equal.
LEMMA SameSteps ==
  ASSUME NEW n \in Nat, NEW V, NEW step \in [1..n -> [V -> V]],
         NEW g, NEW h, g[0] \in V, g[0] = h[0],
         \A k \in 1..n : /\ g[k - 1] \in V => g[k] = step[k][g[k - 1]]
                         /\ h[k - 1] \in V => h[k] = step[k][h[k - 1]]
  PROVE  \A k \in 0..n : g[k] \in V /\ g[k] = h[k]
  <1> DEFINE T == {k \in 0..n : g[k] \in V /\ g[k] = h[k]}
  <1>1. 0 \in T
    OBVIOUS
  <1>2. ASSUME NEW k \in 1..n, k - 1 \in T PROVE k \in T
    <2>1. g[k - 1] \in V /\ h[k - 1] = g[k - 1]
      BY <1>2
    <2>2. g[k] = step[k][g[k - 1]] /\ h[k] = step[k][g[k - 1]]
      BY <2>1
    <2>3. step[k][g[k - 1]] \in V
      BY <2>1
    <2> QED BY <2>2, <2>3
  <1> HIDE DEF T
  <1>3. \A k \in 0..n : k \in T
    BY <1>1, <1>2, InductUpTo
  <1> QED BY <1>3 DEF T

-----------------------------------------------------------------------------
(* Sums of naturals, in order *)

\* t is the sum of w[1] to w[n].
SumTo(w, n, t) ==
  \E h \in [0..n -> Nat] :
    h[0] = 0 /\ h[n] = t /\ \A k \in 1..n : h[k] = h[k - 1] + w[k]

\* The n naturals of w are the p of v and then the m of x.
Joins(w, n, v, p, x, m) ==
  /\ p \in Nat /\ m \in Nat /\ n = p + m
  /\ \A k \in 1..n : w[k] \in Nat
  /\ \A k \in 1..p : v[k] = w[k]
  /\ \A k \in 1..m : x[k] = w[p + k]

\* A sum is that of a first and of a last part.
LEMMA SumSplit ==
  ASSUME NEW n, NEW p, NEW m, NEW w, NEW v, NEW x, NEW t, NEW u, NEW y,
         Joins(w, n, v, p, x, m), SumTo(w, n, t), SumTo(v, p, u), SumTo(x, m, y)
  PROVE  t \in Nat /\ u \in Nat /\ y \in Nat /\ t = u + y
  <1>0. /\ p \in Nat /\ m \in Nat /\ n = p + m
        /\ \A k \in 1..(p + m) : w[k] \in Nat
        /\ \A k \in 1..p : v[k] = w[k]
        /\ \A k \in 1..m : x[k] = w[p + k]
    BY DEF Joins
  <1>1. PICK h \in [0..(p + m) -> Nat] :
          /\ h[0] = 0 /\ h[p + m] = t
          /\ \A k \in 1..(p + m) : h[k] = h[k - 1] + w[k]
    BY <1>0 DEF SumTo
  <1>2. PICK f \in [0..p -> Nat] :
          f[0] = 0 /\ f[p] = u /\ \A k \in 1..p : f[k] = f[k - 1] + v[k]
    BY DEF SumTo
  <1>3. PICK g \in [0..m -> Nat] :
          g[0] = 0 /\ g[m] = y /\ \A k \in 1..m : g[k] = g[k - 1] + x[k]
    BY DEF SumTo
  <1> DEFINE T == {k \in 0..p : f[k] = h[k]}
             U == {k \in 0..m : h[p + k] = f[p] + g[k]}
  <1>4. 0 \in T
    BY <1>0, <1>1, <1>2
  <1>5. ASSUME NEW k \in 1..p, k - 1 \in T PROVE k \in T
    <2>1. k \in 1..(p + m) /\ k \in 0..p
      BY <1>0
    <2>2. h[k] = h[k - 1] + w[k] /\ f[k] = f[k - 1] + v[k] /\ v[k] = w[k]
      BY <1>0, <1>1, <1>2, <2>1
    <2>3. f[k - 1] = h[k - 1]
      BY <1>5
    <2> QED BY <2>1, <2>2, <2>3
  <1>6. f[p] = h[p]
    <2>1. \A k \in 0..p : k \in T
      <3> HIDE DEF T
      <3> QED BY <1>0, <1>4, <1>5, InductUpTo
    <2> QED BY <1>0, <2>1
  <1>7. 0 \in U
    <2>1. p + 0 = p /\ f[p] \in Nat /\ 0 \in 0..m
      BY <1>0
    <2>2. f[p] + 0 = f[p]
      BY <2>1
    <2>3. h[p + 0] = f[p] + g[0]
      BY <1>3, <1>6, <2>1, <2>2
    <2> QED BY <2>1, <2>3
  <1>8. ASSUME NEW k \in 1..m, k - 1 \in U PROVE k \in U
    <2>1. p + k \in 1..(p + m) /\ k \in 0..m /\ p + (k - 1) = (p + k) - 1
      BY <1>0
    <2>2. h[p + k] = h[(p + k) - 1] + w[p + k] /\ g[k] = g[k - 1] + x[k] /\ x[k] = w[p + k]
      BY <1>0, <1>1, <1>3, <2>1
    <2>3. h[(p + k) - 1] = f[p] + g[k - 1]
      BY <1>8, <2>1
    <2>4. f[p] \in Nat /\ g[k - 1] \in Nat /\ w[p + k] \in Nat
      BY <1>0, <2>1
    <2>5. h[p + k] = (f[p] + g[k - 1]) + w[p + k] /\ g[k] = g[k - 1] + w[p + k]
      BY <2>2, <2>3
    <2>6. h[p + k] = f[p] + g[k]
      <3>1. (f[p] + g[k - 1]) + w[p + k] = f[p] + (g[k - 1] + w[p + k])
        BY <2>4
      <3>2. f[p] + g[k] = f[p] + (g[k - 1] + w[p + k])
        BY <2>5
      <3> QED BY <2>5, <3>1, <3>2
    <2> QED BY <2>1, <2>6
  <1>9. h[p + m] = f[p] + g[m]
    <2>1. \A k \in 0..m : k \in U
      <3> HIDE DEF U
      <3> QED BY <1>0, <1>7, <1>8, InductUpTo
    <2> QED BY <1>0, <2>1
  <1>10. h[p + m] \in Nat /\ f[p] \in Nat /\ g[m] \in Nat
    BY <1>0
  <1> QED BY <1>1, <1>2, <1>3, <1>9, <1>10

\* The sum of nothing, and of one more.
LEMMA SumEmpty ==
  ASSUME NEW w, NEW t, SumTo(w, 0, t)
  PROVE  t = 0
  BY DEF SumTo

LEMMA SumMore ==
  ASSUME NEW n \in Nat, NEW t, NEW u, NEW w, NEW v,
         SumTo(w, n + 1, t), SumTo(v, n, u),
         \A k \in 1..n : v[k] = w[k], \A k \in 1..(n + 1) : w[k] \in Nat
  PROVE  t \in Nat /\ u \in Nat /\ t = u + w[n + 1]
  <1> DEFINE x == [k \in 1..1 |-> w[n + 1]]
             h == [k \in 0..1 |-> IF k = 0 THEN 0 ELSE w[n + 1]]
  <1>1. w[n + 1] \in Nat
    OBVIOUS
  <1>2. SumTo(x, 1, w[n + 1])
    <2>1. h \in [0..1 -> Nat] /\ h[0] = 0 /\ h[1] = w[n + 1]
      BY <1>1
    <2>2. \A k \in 1..1 : h[k] = h[k - 1] + x[k]
      BY <1>1
    <2> HIDE DEF h
    <2> QED BY <2>1, <2>2 DEF SumTo
  <1>3. \A k \in 1..1 : x[k] = w[n + k]
    OBVIOUS
  <1> HIDE DEF x
  <1>4. Joins(w, n + 1, v, n, x, 1)
    BY <1>3 DEF Joins
  <1> DEFINE last == w[n + 1]
             s == n + 1
  <1>5. Joins(w, s, v, n, x, 1) /\ SumTo(w, s, t) /\ SumTo(v, n, u) /\ SumTo(x, 1, last)
    BY <1>2, <1>4
  <1> HIDE DEF last, s
  <1>6. t \in Nat /\ u \in Nat /\ last \in Nat /\ t = u + last
    BY <1>5, SumSplit, SMT
  <1> QED BY <1>6 DEF last

-----------------------------------------------------------------------------
(* Sums over finite sets.  MapThenSumSet takes off any element, the one    *)
(* CHOOSE picks; the sum does not depend on it.                            *)

One(s) == CHOOSE x \in s : TRUE

\* g gives for every subset of S the sum of its weights.
SumsOver(g, S, w) ==
  \A s \in SUBSET S : g[s] = IF s = {} THEN 0 ELSE w[One(s)] + g[s \ {One(s)}]

\* A set without one of its members is smaller by one.
LEMMA Without ==
  ASSUME NEW s, IsFiniteSet(s), NEW x \in s
  PROVE  /\ IsFiniteSet(s \ {x})
         /\ Cardinality(s) \in Nat /\ Cardinality(s \ {x}) \in Nat
         /\ Cardinality(s) = Cardinality(s \ {x}) + 1
  <1>1. IsFiniteSet(s \ {x}) /\ Cardinality(s \ {x}) = Cardinality(s) - 1
    BY FS_RemoveElement
  <1>2. Cardinality(s) \in Nat /\ Cardinality(s \ {x}) \in Nat
    BY <1>1, FS_CardinalityType
  <1> QED BY <1>1, <1>2

\* Induction over the finite sets below S: what holds of a set if it holds of
\* the set without some member holds of all of them.
LEMMA InductSets ==
  ASSUME NEW S, IsFiniteSet(S), NEW F, {} \in F,
         \A s \in SUBSET S : s # {} /\ (\A x \in s : s \ {x} \in F) => s \in F
  PROVE  \A s \in SUBSET S : s \in F
  <1> DEFINE T == {k \in Nat : \A s \in SUBSET S : Cardinality(s) = k => s \in F}
  <1>0. \A s \in SUBSET S : IsFiniteSet(s) /\ Cardinality(s) \in Nat
    BY FS_Subset, FS_CardinalityType
  <1>1. 0 \in T
    <2>1. \A s \in SUBSET S : Cardinality(s) = 0 => s = {}
      BY <1>0, FS_EmptySet
    <2> QED BY <2>1
  <1>2. ASSUME NEW k \in Nat, k \in T PROVE k + 1 \in T
    <2>1. ASSUME NEW s \in SUBSET S, Cardinality(s) = k + 1
          PROVE  s \in F
      <3>1. s # {}
        <4>1. Cardinality({}) = 0
          BY FS_EmptySet
        <4>2. k + 1 # 0
          OBVIOUS
        <4>3. ASSUME s = {} PROVE FALSE
          <5>1. Cardinality(s) = 0
            BY <4>1, <4>3
          <5> QED BY <2>1, <4>2, <5>1
        <4> QED BY <4>3
      <3>2. ASSUME NEW x \in s PROVE s \ {x} \in F
        <4>1. Cardinality(s \ {x}) = k
          <5>1. Cardinality(s) = Cardinality(s \ {x}) + 1 /\ Cardinality(s \ {x}) \in Nat
            BY <1>0, Without
          <5> QED BY <2>1, <5>1
        <4>2. s \ {x} \in SUBSET S
          OBVIOUS
        <4> QED BY <1>2, <4>1, <4>2
      <3> QED BY <3>1, <3>2
    <2> QED BY <2>1
  <1> HIDE DEF T
  <1>3. \A k \in Nat : k \in T
    BY <1>1, <1>2, Induct
  <1> QED BY <1>0, <1>3 DEF T

LEMMA OneIn == ASSUME NEW s, s # {} PROVE One(s) \in s
  BY DEF One

\* Such a function exists.
LEMMA SumExists ==
  ASSUME NEW S, IsFiniteSet(S), NEW w \in [S -> Nat]
  PROVE  \E g \in [SUBSET S -> Nat] : SumsOver(g, S, w)
  <1> DEFINE Unrolled(g) == [s \in SUBSET S |->
                           IF s = {} THEN 0 ELSE w[One(s)] + g[s \ {One(s)}]]
             Ok(k) == \E g \in [SUBSET S -> Nat] :
                        \A s \in SUBSET S : Cardinality(s) <= k => g[s] = Unrolled(g)[s]
             T == {k \in Nat : Ok(k)}
  <1>0. \A s \in SUBSET S : IsFiniteSet(s) /\ Cardinality(s) \in Nat
    BY FS_Subset, FS_CardinalityType
  <1>1. ASSUME NEW g \in [SUBSET S -> Nat]
        PROVE  Unrolled(g) \in [SUBSET S -> Nat]
    <2>1. ASSUME NEW s \in SUBSET S, s # {}
          PROVE  w[One(s)] + g[s \ {One(s)}] \in Nat
      <3>1. One(s) \in S /\ s \ {One(s)} \in SUBSET S
        BY <2>1, OneIn
      <3>2. w[One(s)] \in Nat /\ g[s \ {One(s)}] \in Nat
        BY <3>1
      <3> QED BY <3>2
    <2> QED BY <2>1
  <1>2. 0 \in T
    <2> DEFINE g == [s \in SUBSET S |-> 0]
    <2>1. g \in [SUBSET S -> Nat]
      OBVIOUS
    <2>2. ASSUME NEW s \in SUBSET S, Cardinality(s) <= 0 PROVE g[s] = Unrolled(g)[s]
      <3>1. s = {}
        BY <1>0, <2>2, FS_EmptySet
      <3> QED BY <3>1
    <2> HIDE DEF g, Unrolled
    <2>3. Ok(0)
      BY <2>1, <2>2
    <2> QED BY <2>3
  <1>3. ASSUME NEW k \in Nat, k \in T PROVE k + 1 \in T
    <2>1. PICK g \in [SUBSET S -> Nat] :
            \A s \in SUBSET S : Cardinality(s) <= k => g[s] = Unrolled(g)[s]
      BY <1>3
    <2> DEFINE h == Unrolled(g)
    <2>2. h \in [SUBSET S -> Nat]
      BY <1>1
    <2>3. ASSUME NEW s \in SUBSET S, Cardinality(s) <= k + 1
          PROVE  h[s] = Unrolled(h)[s]
      <3>1. CASE s = {}
        BY <3>1
      <3>2. CASE s # {}
        <4>1. One(s) \in s /\ s \ {One(s)} \in SUBSET S
          BY <3>2, OneIn
        <4>2. Cardinality(s \ {One(s)}) <= k
          <5>1. /\ Cardinality(s) = Cardinality(s \ {One(s)}) + 1
                /\ Cardinality(s \ {One(s)}) \in Nat
            BY <1>0, <4>1, Without
          <5> QED BY <2>3, <5>1
        <4>3. g[s \ {One(s)}] = h[s \ {One(s)}]
          <5> HIDE DEF Unrolled
          <5> QED BY <2>1, <4>1, <4>2
        <4>4. h[s] = w[One(s)] + g[s \ {One(s)}]
          BY <3>2
        <4>5. Unrolled(h)[s] = w[One(s)] + h[s \ {One(s)}]
          <5> HIDE DEF h
          <5> QED BY <3>2
        <4> HIDE DEF h, Unrolled
        <4> QED BY <4>3, <4>4, <4>5
      <3> QED BY <3>1, <3>2
    <2> HIDE DEF h, Unrolled
    <2>4. Ok(k + 1)
      BY <2>2, <2>3
    <2> HIDE DEF Ok
    <2> QED BY <2>4
  <1>4. Ok(Cardinality(S))
    <2> HIDE DEF Ok
    <2>1. 0 \in T /\ \A k \in Nat : k \in T => k + 1 \in T
      BY <1>2, <1>3
    <2> HIDE DEF T
    <2>2. \A k \in Nat : k \in T
      BY <2>1, Induct
    <2> QED BY <1>0, <2>2 DEF T
  <1>5. PICK g \in [SUBSET S -> Nat] :
          \A s \in SUBSET S : Cardinality(s) <= Cardinality(S) => g[s] = Unrolled(g)[s]
    BY <1>4
  <1>6. \A s \in SUBSET S : Cardinality(s) <= Cardinality(S)
    BY FS_Subset
  <1>7. \A s \in SUBSET S : g[s] = Unrolled(g)[s]
    <2> HIDE DEF Unrolled
    <2> QED BY <1>5, <1>6
  <1> QED BY <1>7 DEF SumsOver

\* A sum depends on the weights of its elements only.
LEMMA SumSame ==
  ASSUME NEW S, IsFiniteSet(S), NEW R, NEW w, NEW v, NEW g, NEW h,
         SumsOver(g, R, w), SumsOver(h, S, v), S \subseteq R, \A x \in S : w[x] = v[x]
  PROVE  \A s \in SUBSET S : g[s] = h[s]
  <1> DEFINE F == {s \in SUBSET S : g[s] = h[s]}
  <1>1. {} \in F
    BY DEF SumsOver
  <1>2. ASSUME NEW s \in SUBSET S, s # {}, \A x \in s : s \ {x} \in F
        PROVE  s \in F
    <2>1. One(s) \in s /\ s \in SUBSET R
      BY <1>2, OneIn
    <2>2. g[s \ {One(s)}] = h[s \ {One(s)}] /\ w[One(s)] = v[One(s)]
      BY <1>2, <2>1
    <2>3. g[s] = w[One(s)] + g[s \ {One(s)}]
      BY <1>2, <2>1 DEF SumsOver
    <2>4. h[s] = v[One(s)] + h[s \ {One(s)}]
      BY <1>2 DEF SumsOver
    <2> QED BY <2>2, <2>3, <2>4
  <1> HIDE DEF F
  <1>3. \A s \in SUBSET S : s \in F
    BY <1>1, <1>2, InductSets
  <1> QED BY <1>3 DEF F

\* Any element may be the one taken off.
AnyFirst(g, S, w) == \A s \in SUBSET S : \A x \in s : g[s] = w[x] + g[s \ {x}]

LEMMA SumAny ==
  ASSUME NEW S, IsFiniteSet(S), NEW w \in [S -> Nat], NEW g \in [SUBSET S -> Nat],
         SumsOver(g, S, w)
  PROVE  AnyFirst(g, S, w)
  <1> DEFINE F == {s \in SUBSET S : \A x \in s : g[s] = w[x] + g[s \ {x}]}
  <1>1. {} \in F
    OBVIOUS
  <1>2. ASSUME NEW s \in SUBSET S, s # {}, \A x \in s : s \ {x} \in F
        PROVE  s \in F
    <2> SUFFICES ASSUME NEW x \in s PROVE g[s] = w[x] + g[s \ {x}]
      OBVIOUS
    <2> DEFINE y == One(s)
               rest == (s \ {x}) \ {y}
    <2>1. y \in s
      BY <1>2, OneIn
    <2>2. g[s] = w[y] + g[s \ {y}]
      BY <1>2 DEF SumsOver
    <2>3. CASE x = y
      BY <2>2, <2>3
    <2>4. CASE x # y
      <3>1. g[s \ {y}] = w[x] + g[(s \ {y}) \ {x}]
        BY <1>2, <2>1, <2>4
      <3>2. g[s \ {x}] = w[y] + g[rest]
        BY <1>2, <2>1, <2>4
      <3>3. (s \ {y}) \ {x} = rest
        OBVIOUS
      <3>4. w[x] \in Nat /\ w[y] \in Nat /\ g[rest] \in Nat
        BY <2>1
      <3> HIDE DEF y, rest
      <3>5. g[s] = w[y] + (w[x] + g[rest])
        BY <2>2, <3>1, <3>3
      <3>6. w[x] + g[s \ {x}] = w[x] + (w[y] + g[rest])
        BY <3>2
      <3> QED BY <3>4, <3>5, <3>6
    <2> QED BY <2>3, <2>4
  <1> HIDE DEF F
  <1>3. \A s \in SUBSET S : s \in F
    BY <1>1, <1>2, InductSets
  <1> QED BY <1>3 DEF F, AnyFirst

\* Fewer elements have no larger sum.
LEMMA SumFewer ==
  ASSUME NEW S, IsFiniteSet(S), NEW w \in [S -> Nat], NEW g \in [SUBSET S -> Nat],
         SumsOver(g, S, w)
  PROVE  \A t \in SUBSET S : \A s \in SUBSET t : g[s] <= g[t]
  <1>0. AnyFirst(g, S, w)
    BY SumAny
  <1> DEFINE F == {t \in SUBSET S : \A s \in SUBSET t : g[s] <= g[t]}
  <1>1. {} \in F
    <2>1. g[{}] \in Nat
      OBVIOUS
    <2>2. ASSUME NEW s \in SUBSET {} PROVE g[s] <= g[{}]
      <3>1. s = {}
        OBVIOUS
      <3> QED BY <2>1, <3>1
    <2> QED BY <2>2
  <1>2. ASSUME NEW t \in SUBSET S, t # {}, \A x \in t : t \ {x} \in F
        PROVE  t \in F
    <2> SUFFICES ASSUME NEW s \in SUBSET t PROVE g[s] <= g[t]
      OBVIOUS
    <2>1. g[s] \in Nat /\ g[t] \in Nat
      OBVIOUS
    <2>2. CASE s = t
      BY <2>1, <2>2
    <2>3. CASE s # t
      <3>1. PICK x \in t : x \notin s
        BY <2>3
      <3>2. s \in SUBSET (t \ {x}) /\ t \ {x} \in SUBSET S
        BY <3>1
      <3>3. g[s] <= g[t \ {x}]
        BY <1>2, <3>2
      <3>4. g[t] = w[x] + g[t \ {x}]
        BY <1>0 DEF AnyFirst
      <3>5. w[x] \in Nat /\ g[t \ {x}] \in Nat
        BY <3>2
      <3> QED BY <2>1, <3>3, <3>4, <3>5
    <2> QED BY <2>2, <2>3
  <1> HIDE DEF F
  <1>3. \A t \in SUBSET S : t \in F
    BY <1>1, <1>2, InductSets
  <1> QED BY <1>3 DEF F

\* What computes sums by taking off elements is a function to Nat.
LEMMA SumType ==
  ASSUME NEW S, IsFiniteSet(S), NEW w \in [S -> Nat], NEW f,
         SumsOver(f, S, w), f = [s \in SUBSET S |-> f[s]]
  PROVE  f \in [SUBSET S -> Nat]
  <1>1. PICK g \in [SUBSET S -> Nat] : SumsOver(g, S, w)
    BY SumExists
  <1>2. \A s \in SUBSET S : f[s] = g[s]
    BY <1>1, SumSame
  <1> QED BY <1>2

\* The sums over S and the sums over R, which is S without x, of the same weights.
DropsOne(g, S, w, h, R, v, x) ==
  /\ SumsOver(g, S, w) /\ SumsOver(h, R, v)
  /\ x \in S /\ R = S \ {x} /\ \A y \in R : w[y] = v[y]

AddsUp(t, n, u) == t = n + u

\* A sum and the sum without one of its terms.
LEMMA SumWithout ==
  ASSUME NEW S, IsFiniteSet(S), NEW w \in [S -> Nat], NEW g \in [SUBSET S -> Nat],
         NEW x, NEW R, NEW v, NEW h, DropsOne(g, S, w, h, R, v, x)
  PROVE  AddsUp(g[S], w[x], h[R])
  <1>1. /\ x \in S /\ R = S \ {x} /\ SumsOver(g, S, w) /\ SumsOver(h, R, v)
        /\ \A y \in R : w[y] = v[y]
    BY DEF DropsOne
  <1>2. IsFiniteSet(R) /\ R \subseteq S
    BY <1>1, FS_Subset
  <1>3. g[S] = w[x] + g[R]
    BY <1>1, SumAny DEF AnyFirst
  <1>4. \A s \in SUBSET R : g[s] = h[s]
    BY <1>1, <1>2, SumSame
  <1>5. g[R] = h[R]
    BY <1>4
  <1> QED BY <1>3, <1>5 DEF AddsUp
=============================================================================
