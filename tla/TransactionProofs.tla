------------------------- MODULE TransactionProofs -------------------------
(***************************************************************************)
(* Proofs about the transactions of the store: a submission that is        *)
(* repeated is answered with what it created, and transactions never wait  *)
(* for each other in a circle.                                             *)
(***************************************************************************)
EXTENDS Submissions, LockOrder, FiniteSetTheorems, SequenceTheorems, TLAPS

-----------------------------------------------------------------------------
(***************************************************************************)
(* Submissions: for every number of clients, keys and tries and every      *)
(* width of a sweep.                                                       *)
(***************************************************************************)

(* The inductive invariant *)

RunRows == [id : Nat, sweep : Nat]
KeyTable == [key : SubmitKeys, fingerprint : {"rerun", "spec"} \X Bodies,
             id : Nat \ {0}]

Answers == {"none", "unavailable", "ok", "conflict", "duplicate"}
Request == [kind : Kinds, key : SubmitKeys, body : Bodies, tries : Nat,
            answer : Answers, result : Nat]
Transaction == [pc : {"none", "lock", "read", "insert", "commit"},
                locked : BOOLEAN, new : SUBSET RunRows, id : Nat]

\* The rows of the tables, the requests and the transactions have their types.
SubmitTypeOK ==
  /\ tables \in [submissions : SUBSET KeyTable, sweeps : SUBSET KeyTable,
                 ended : BOOLEAN, runs : SUBSET RunRows]
  /\ req \in [Clients -> Request]
  /\ tx \in [Clients -> Transaction]
  /\ next \in Nat \ {0}

\* Two requests that contend for one advisory lock.
SameKey(c, d) ==
  req[c].key = req[d].key /\ Space(req[c].kind) = Space(req[d].kind)

\* A transaction that found its key unused and has not ended.
Writing(c) == tx[c].pc \in {"insert", "commit"}

\* The lock on the key is held from the look-up to the end, by one
\* transaction at a time; what the look-up found stays true.
KeysHeld ==
  /\ \A c \in Clients : tx[c].locked <=> tx[c].pc \in {"read", "insert", "commit"}
  /\ \A c, d \in Clients : c # d /\ tx[c].locked /\ tx[d].locked => ~SameKey(c, d)
  /\ \A c \in Clients : Writing(c) => KeyRows(c) = {}

\* An identity is below next once it is used.
IdsUsed ==
  /\ \A r \in tables.runs : r.id < next /\ r.sweep < next
  /\ \A s \in tables.submissions : s.id < next
  /\ \A s \in tables.sweeps : s.id < next
  /\ \A c \in Clients : tx[c].id < next /\ \A r \in tx[c].new : r.id < next

\* The identity a transaction works with is its own.
IdsOwn ==
  /\ \A c \in Clients : Writing(c) =>
       /\ tx[c].id # 0
       /\ \A s \in tables.submissions : s.id # tx[c].id
       /\ \A s \in tables.sweeps : s.id # tx[c].id
       /\ \A r \in tables.runs : r.sweep # tx[c].id
  /\ \A c, d \in Clients : c # d /\ Writing(c) /\ Writing(d) => tx[c].id # tx[d].id

\* What a transaction has written so far: the runs of one sweep, counted,
\* or the one run of a submission.
WrittenBy(c) ==
  /\ ~Writing(c) => tx[c].new = {}
  /\ Writing(c) /\ req[c].kind = "sweep" =>
       /\ IsFiniteSet(tx[c].new)
       /\ \A r \in tx[c].new : r.sweep = tx[c].id
       /\ tx[c].pc = "insert" => Cardinality(tx[c].new) < Width
       /\ tx[c].pc = "commit" => Cardinality(tx[c].new) = Width
  /\ Writing(c) /\ req[c].kind # "sweep" =>
       /\ tx[c].pc = "insert" => tx[c].new = {}
       /\ tx[c].pc = "commit" => tx[c].new = {[id |-> tx[c].id, sweep |-> 0]}
RunsWritten == \A c \in Clients : WrittenBy(c)

\* The unique indexes: never needed, always true.
KeysUnique ==
  /\ \A s, t \in tables.submissions : s.key = t.key => s = t
  /\ \A s, t \in tables.sweeps : s.key = t.key => s = t

\* An OK names a row of the key, written for the same request.
AnswersKnown ==
  \A c \in Clients :
    Successful(c) => \E s \in KeyRows(c) : s.id = req[c].result /\ Matches(c, s)

SubmitInv ==
  /\ SubmitTypeOK
  /\ KeysHeld
  /\ IdsUsed
  /\ IdsOwn
  /\ RunsWritten
  /\ KeysUnique
  /\ AnswersKnown
  /\ OneResultPerKey
  /\ NoDuplicateKey

-----------------------------------------------------------------------------
(* What the steps write *)

\* A request that is sent once more.
LEMMA RequestSent ==
  ASSUME NEW q \in Request, NEW row, row = [q EXCEPT !.tries = @ + 1, !.answer = "none"]
  PROVE  /\ row \in Request
         /\ row.kind = q.kind /\ row.key = q.key /\ row.body = q.body
         /\ row.answer = "none"
  <1>1. q.tries + 1 \in Nat
    BY DEF Request
  <1> QED BY <1>1 DEF Request, Answers

\* An answer ends the transaction and touches nobody else's.
LEMMA AnsweredFacts ==
  ASSUME SubmitTypeOK, NEW c \in Clients, NEW answer \in Answers, NEW n \in Nat,
         Answered(c, answer, n)
  PROVE  /\ req' \in [Clients -> Request]
         /\ tx' \in [Clients -> Transaction]
         /\ tx'[c] = NoTx
         /\ req'[c].answer = answer /\ req'[c].result = n
         /\ req'[c].kind = req[c].kind /\ req'[c].key = req[c].key
         /\ req'[c].body = req[c].body
         /\ \A d \in Clients \ {c} : req'[d] = req[d] /\ tx'[d] = tx[d]
  <1>1. req[c] \in Request /\ tx \in [Clients -> Transaction]
    BY DEF SubmitTypeOK
  <1>2. req'[c] = [req[c] EXCEPT !.answer = answer, !.result = n]
    BY DEF SubmitTypeOK, Answered
  <1>3. /\ req'[c] \in Request
        /\ req'[c].answer = answer /\ req'[c].result = n
        /\ req'[c].kind = req[c].kind /\ req'[c].key = req[c].key
        /\ req'[c].body = req[c].body
    BY <1>1, <1>2 DEF Request
  <1>4. NoTx \in Transaction
    BY DEF NoTx, Transaction
  <1>5. tx' = [tx EXCEPT ![c] = NoTx]
    BY DEF Answered
  <1>6. tx' \in [Clients -> Transaction] /\ tx'[c] = NoTx
        /\ \A d \in Clients \ {c} : tx'[d] = tx[d]
    BY <1>1, <1>4, <1>5
  <1>7. req' \in [Clients -> Request] /\ \A d \in Clients \ {c} : req'[d] = req[d]
    BY <1>3 DEF SubmitTypeOK, Answered
  <1> QED BY <1>3, <1>6, <1>7

\* The rows a key has depend only on the tables and on what was asked.
LEMMA SameKeyRows ==
  ASSUME NEW c, tables'.submissions = tables.submissions,
         tables'.sweeps = tables.sweeps,
         req'[c].kind = req[c].kind, req'[c].key = req[c].key,
         req'[c].body = req[c].body
  PROVE  KeyRows(c)' = KeyRows(c) /\ Fingerprint(c)' = Fingerprint(c)
  BY DEF KeyRows, Fingerprint

\* Contention is decided by what was asked.
LEMMA SameContention ==
  ASSUME NEW c, NEW d,
         req'[c].kind = req[c].kind, req'[c].key = req[c].key,
         req'[d].kind = req[d].kind, req'[d].key = req[d].key
  PROVE  SameKey(c, d)' <=> SameKey(c, d)
  BY DEF SameKey, Space

-----------------------------------------------------------------------------
(* Steps that write no run *)

\* A step that leaves the tables alone and brings one transaction to a place
\* where it has written nothing.
LEMMA QuietStep ==
  ASSUME SubmitInv, SubmitTypeOK', NEW c \in Clients,
         tables' = tables, next' = next,
         req'[c].kind = req[c].kind, req'[c].key = req[c].key,
         req'[c].body = req[c].body,
         \A d \in Clients \ {c} : req'[d] = req[d] /\ tx'[d] = tx[d],
         tx'[c].pc \in {"none", "lock", "read"},
         tx'[c].locked <=> tx'[c].pc = "read",
         tx'[c].new = {}, tx'[c].id < next,
         tx'[c].locked => \A d \in Clients \ {c} : tx[d].locked => ~SameKey(c, d),
         req'[c].answer = "ok" =>
           \E s \in KeyRows(c) : s.id = req'[c].result /\ Matches(c, s),
         req'[c].answer # "duplicate"
  PROVE  SubmitInv'
  <1>1. \A d \in Clients : /\ KeyRows(d)' = KeyRows(d)
                           /\ Fingerprint(d)' = Fingerprint(d)
    BY SameKeyRows
  <1>2. \A d, e \in Clients : SameKey(d, e)' <=> SameKey(d, e)
    BY SameContention
  <1>3. ~Writing(c)' /\ \A d \in Clients \ {c} : Writing(d)' <=> Writing(d)
    BY DEF Writing
  <1>4. KeysHeld'
    <2>1. \A d \in Clients : tx'[d].locked <=> tx'[d].pc \in {"read", "insert", "commit"}
      BY DEF SubmitInv, KeysHeld
    <2>2. ASSUME NEW d \in Clients, NEW e \in Clients, d # e,
                 tx'[d].locked, tx'[e].locked
          PROVE  ~SameKey(d, e)'
      <3>1. CASE d # c /\ e # c
        BY <1>2, <2>2, <3>1 DEF SubmitInv, KeysHeld
      <3>2. CASE d = c
        BY <1>2, <2>2, <3>2
      <3>3. CASE e = c
        <4>1. SameKey(d, e) <=> SameKey(e, d)
          BY DEF SameKey
        <4> QED BY <1>2, <2>2, <3>3, <4>1
      <3> QED BY <3>1, <3>2, <3>3
    <2>3. \A d \in Clients : Writing(d)' => KeyRows(d)' = {}
      BY <1>1, <1>3 DEF SubmitInv, KeysHeld
    <2> QED BY <2>1, <2>2, <2>3 DEF KeysHeld
  <1>5. IdsUsed'
    BY DEF SubmitInv, IdsUsed
  <1>6. IdsOwn'
    BY <1>3 DEF SubmitInv, IdsOwn
  <1>7. RunsWritten'
    BY <1>3 DEF SubmitInv, RunsWritten, WrittenBy
  <1>8. KeysUnique' /\ OneResultPerKey'
    BY DEF SubmitInv, KeysUnique, OneResultPerKey
  <1>9. AnswersKnown'
    <2> SUFFICES ASSUME NEW d \in Clients, req'[d].answer = "ok"
                 PROVE  \E s \in KeyRows(d)' : s.id = req'[d].result /\ Matches(d, s)'
      BY DEF AnswersKnown, Successful
    <2>1. CASE d = c
      BY <1>1, <2>1 DEF Matches
    <2>2. CASE d # c
      BY <1>1, <2>2 DEF SubmitInv, AnswersKnown, Successful, Matches
    <2> QED BY <2>1, <2>2
  <1>10. NoDuplicateKey'
    BY DEF SubmitInv, NoDuplicateKey
  <1> QED BY <1>4, <1>5, <1>6, <1>7, <1>8, <1>9, <1>10 DEF SubmitInv

\* A try that is answered without a run written.
LEMMA AnswerStep ==
  ASSUME SubmitInv, NEW c \in Clients, NEW answer \in Answers \ {"duplicate"}, NEW n \in Nat,
         Answered(c, answer, n), tables' = tables, next' = next,
         answer = "ok" => \E s \in KeyRows(c) : s.id = n /\ Matches(c, s)
  PROVE  SubmitInv'
  <1>0. SubmitTypeOK
    BY DEF SubmitInv
  <1>1. /\ req' \in [Clients -> Request]
        /\ tx' \in [Clients -> Transaction]
        /\ tx'[c] = NoTx
        /\ req'[c].answer = answer /\ req'[c].result = n
        /\ req'[c].kind = req[c].kind /\ req'[c].key = req[c].key
        /\ req'[c].body = req[c].body
        /\ \A d \in Clients \ {c} : req'[d] = req[d] /\ tx'[d] = tx[d]
    BY <1>0, AnsweredFacts
  <1>2. SubmitTypeOK'
    BY <1>0, <1>1 DEF SubmitTypeOK
  <1>3. tx'[c].pc = "none" /\ tx'[c].locked = FALSE /\ tx'[c].new = {} /\ tx'[c].id = 0
    BY <1>1 DEF NoTx
  <1>4. 0 < next
    BY <1>0 DEF SubmitTypeOK
  <1> QED BY <1>1, <1>2, <1>3, <1>4, QuietStep

\* A try is sent.
LEMMA SendStep ==
  ASSUME SubmitInv, NEW c \in Clients, SendRequest(c)
  PROVE  SubmitInv'
  <1>0. SubmitTypeOK /\ req[c] \in Request /\ tx[c] \in Transaction
    BY DEF SubmitInv, SubmitTypeOK
  <1>1. req'[c] = [req[c] EXCEPT !.tries = @ + 1, !.answer = "none"]
    BY <1>0 DEF SendRequest, SubmitTypeOK
  <1>2. /\ req'[c] \in Request
        /\ req'[c].kind = req[c].kind /\ req'[c].key = req[c].key
        /\ req'[c].body = req[c].body /\ req'[c].answer = "none"
    BY <1>0, <1>1, RequestSent
  <1>3. /\ tx'[c] \in Transaction
        /\ tx'[c].pc = "lock" /\ tx'[c].locked = tx[c].locked
        /\ tx'[c].new = tx[c].new /\ tx'[c].id = tx[c].id
    BY <1>0 DEF SendRequest, SubmitTypeOK, Transaction
  <1>4. \A d \in Clients \ {c} : req'[d] = req[d] /\ tx'[d] = tx[d]
    BY <1>0 DEF SendRequest, SubmitTypeOK
  <1>5. SubmitTypeOK'
    BY <1>0, <1>2, <1>3, <1>4 DEF SubmitTypeOK, SendRequest
  <1>6. tx[c].locked = FALSE /\ tx[c].new = {} /\ tx[c].id < next
    BY <1>0 DEF SubmitInv, KeysHeld, RunsWritten, WrittenBy, IdsUsed, SendRequest, AtTx, Writing,
                Transaction
  <1> QED BY <1>2, <1>3, <1>4, <1>5, <1>6, QuietStep DEF SendRequest

\* The lock on the key is granted.
LEMMA LockStep ==
  ASSUME SubmitInv, NEW c \in Clients, LockKey(c)
  PROVE  SubmitInv'
  <1>0. SubmitTypeOK /\ tx[c] \in Transaction
    BY DEF SubmitInv, SubmitTypeOK
  <1>1. /\ tx'[c] \in Transaction
        /\ tx'[c].pc = "read" /\ tx'[c].locked = TRUE
        /\ tx'[c].new = tx[c].new /\ tx'[c].id = tx[c].id
    BY <1>0 DEF LockKey, SubmitTypeOK, Transaction
  <1>2. req' = req /\ \A d \in Clients \ {c} : tx'[d] = tx[d]
    BY <1>0 DEF LockKey, SubmitTypeOK
  <1>3. SubmitTypeOK'
    BY <1>0, <1>1, <1>2 DEF SubmitTypeOK, LockKey
  <1>4. tx[c].new = {} /\ tx[c].id < next
    BY DEF SubmitInv, RunsWritten, WrittenBy, IdsUsed, LockKey, AtTx, Writing
  <1>5. \A d \in Clients \ {c} : tx[d].locked => ~SameKey(c, d)
    BY DEF LockKey, Unlocked, SameKey
  <1>6. /\ req[c].answer = "ok" =>
             \E s \in KeyRows(c) : s.id = req[c].result /\ Matches(c, s)
        /\ req[c].answer # "duplicate"
    BY DEF SubmitInv, AnswersKnown, Successful, NoDuplicateKey
  <1> QED BY <1>1, <1>2, <1>3, <1>4, <1>5, <1>6, QuietStep DEF LockKey

\* A known key, a refused rerun, and a try that fails.
LEMMA NothingWrittenStep ==
  ASSUME SubmitInv, NEW c \in Clients, KnownKey(c) \/ RerunRefused(c) \/ CallFails(c)
  PROVE  SubmitInv'
  <1>0. {"ok", "conflict", "unavailable"} \subseteq Answers \ {"duplicate"} /\ 0 \in Nat
    BY DEF Answers
  <1>1. CASE KnownKey(c)
    <2>1. PICK s \in KeyRows(c) : IF Matches(c, s) THEN Answered(c, "ok", s.id)
                                                  ELSE Answered(c, "conflict", 0)
      BY <1>1 DEF KnownKey
    <2>2. s.id \in Nat
      BY DEF SubmitInv, SubmitTypeOK, KeyRows, KeyTable
    <2>3. tables' = tables /\ next' = next
      BY <1>1 DEF KnownKey
    <2>4. CASE Matches(c, s)
      BY <1>0, <2>1, <2>2, <2>3, <2>4, AnswerStep
    <2>5. CASE ~Matches(c, s)
      BY <1>0, <2>1, <2>3, <2>5, AnswerStep
    <2> QED BY <2>4, <2>5
  <1>2. CASE RerunRefused(c)
    BY <1>0, <1>2, AnswerStep DEF RerunRefused
  <1>3. CASE CallFails(c)
    BY <1>0, <1>3, AnswerStep DEF CallFails
  <1> QED BY <1>1, <1>2, <1>3

\* Run 0 ends.
LEMMA RunZeroStep ==
  ASSUME SubmitInv, RunZeroEnds
  PROVE  SubmitInv'
  <1>1. tables \in [submissions : SUBSET KeyTable, sweeps : SUBSET KeyTable,
                    ended : BOOLEAN, runs : SUBSET RunRows]
    BY DEF SubmitInv, SubmitTypeOK
  <1>2. tables' = [tables EXCEPT !.ended = TRUE]
    BY DEF RunZeroEnds
  <1>3. /\ tables' \in [submissions : SUBSET KeyTable, sweeps : SUBSET KeyTable,
                        ended : BOOLEAN, runs : SUBSET RunRows]
        /\ tables'.submissions = tables.submissions
        /\ tables'.sweeps = tables.sweeps
        /\ tables'.runs = tables.runs
    BY <1>1, <1>2
  <1>4. req' = req /\ tx' = tx /\ next' = next
    BY DEF RunZeroEnds
  <1>5. \A c \in Clients : KeyRows(c)' = KeyRows(c) /\ Fingerprint(c)' = Fingerprint(c)
    BY <1>3, <1>4, SameKeyRows
  <1>6. SubmitTypeOK' /\ KeysHeld' /\ AnswersKnown' /\ NoDuplicateKey'
    BY <1>3, <1>4, <1>5 DEF SubmitInv, SubmitTypeOK, KeysHeld, SameKey, Writing, AnswersKnown,
       Successful, Matches, NoDuplicateKey
  <1>7. IdsUsed' /\ IdsOwn' /\ RunsWritten' /\ KeysUnique' /\ OneResultPerKey'
    BY <1>3, <1>4 DEF SubmitInv, IdsUsed, IdsOwn, Writing, RunsWritten, WrittenBy, KeysUnique,
       OneResultPerKey
  <1> QED BY <1>6, <1>7 DEF SubmitInv

-----------------------------------------------------------------------------
(* Steps of a transaction that writes *)

\* A step of a transaction that will write, has the lock and sees no row of
\* its key: what remains to be shown is what the step does to its identities
\* and its runs.
LEMMA WritingStep ==
  ASSUME SubmitInv, SubmitTypeOK', NEW c \in Clients, tables' = tables, req' = req,
         next' \in Nat, next <= next',
         \A d \in Clients \ {c} : tx'[d] = tx[d],
         tx[c].pc \in {"read", "insert"}, KeyRows(c) = {},
         tx'[c].pc \in {"insert", "commit"}, tx'[c].locked = tx[c].locked,
         tx'[c].id < next', \A r \in tx'[c].new : r.id < next',
         tx'[c].id = next \/ (Writing(c) /\ tx'[c].id = tx[c].id),
         RunsWritten'
  PROVE  SubmitInv'
  <1>0. SubmitTypeOK /\ next \in Nat \ {0}
    BY DEF SubmitInv, SubmitTypeOK
  <1>1. \A d \in Clients : KeyRows(d)' = KeyRows(d) /\ Fingerprint(d)' = Fingerprint(d)
    BY SameKeyRows
  <1>2. \A d, e \in Clients : SameKey(d, e)' <=> SameKey(d, e)
    BY SameContention
  <1>3. Writing(c)' /\ \A d \in Clients \ {c} : Writing(d)' <=> Writing(d)
    BY DEF Writing
  <1>4. KeysHeld'
    <2>1. \A d \in Clients : tx'[d].locked = tx[d].locked
      OBVIOUS
    <2>2. \A d \in Clients : tx'[d].locked <=> tx'[d].pc \in {"read", "insert", "commit"}
      BY <2>1 DEF SubmitInv, KeysHeld
    <2>3. \A d \in Clients : Writing(d)' => KeyRows(d)' = {}
      BY <1>1, <1>3 DEF SubmitInv, KeysHeld
    <2> QED BY <1>2, <2>1, <2>2, <2>3 DEF SubmitInv, KeysHeld
  <1>5. IdsUsed'
    <2>1. /\ \A r \in tables.runs : r.id \in Nat /\ r.sweep \in Nat
          /\ \A s \in tables.submissions : s.id \in Nat
          /\ \A s \in tables.sweeps : s.id \in Nat
          /\ \A d \in Clients : tx[d].id \in Nat /\ \A r \in tx[d].new : r.id \in Nat
      BY <1>0 DEF SubmitTypeOK, RunRows, KeyTable, Transaction
    <2>2. /\ \A r \in tables'.runs : r.id < next' /\ r.sweep < next'
          /\ \A s \in tables'.submissions : s.id < next'
          /\ \A s \in tables'.sweeps : s.id < next'
      BY <1>0, <2>1 DEF SubmitInv, IdsUsed
    <2>3. \A d \in Clients : tx'[d].id < next' /\ \A r \in tx'[d].new : r.id < next'
      BY <1>0, <2>1 DEF SubmitInv, IdsUsed
    <2> QED BY <2>2, <2>3 DEF IdsUsed
  <1>6. IdsOwn'
    <2>1. CASE tx'[c].id = next
      <3>1. /\ next # 0
            /\ \A s \in tables.submissions : s.id # next
            /\ \A s \in tables.sweeps : s.id # next
            /\ \A r \in tables.runs : r.sweep # next
            /\ \A d \in Clients : tx[d].id # next
        BY <1>0 DEF SubmitInv, IdsUsed, SubmitTypeOK, RunRows, KeyTable, Transaction
      <3> QED BY <1>3, <2>1, <3>1 DEF SubmitInv, IdsOwn
    <2>2. CASE Writing(c) /\ tx'[c].id = tx[c].id
      BY <1>3, <2>2 DEF SubmitInv, IdsOwn
    <2> QED BY <2>1, <2>2
  <1>7. KeysUnique' /\ OneResultPerKey'
    BY DEF SubmitInv, KeysUnique, OneResultPerKey
  <1>8. AnswersKnown' /\ NoDuplicateKey'
    BY <1>1 DEF SubmitInv, AnswersKnown, Successful, Matches, NoDuplicateKey
  <1> QED BY <1>4, <1>5, <1>6, <1>7, <1>8 DEF SubmitInv

\* A key nobody has used: the transaction takes a new identity.
LEMMA NewKeyStep ==
  ASSUME SubmissionConstants, SubmitInv, NEW c \in Clients, NewKey(c)
  PROVE  SubmitInv'
  <1>0. SubmitTypeOK /\ tx[c] \in Transaction /\ next \in Nat \ {0}
    BY DEF SubmitInv, SubmitTypeOK
  <1>1. /\ tx'[c] \in Transaction
        /\ tx'[c].pc = "insert" /\ tx'[c].locked = tx[c].locked
        /\ tx'[c].new = tx[c].new /\ tx'[c].id = next
    BY <1>0 DEF NewKey, SubmitTypeOK, Transaction
  <1>2. /\ \A d \in Clients \ {c} : tx'[d] = tx[d]
        /\ tables' = tables /\ req' = req /\ next' = next + 1
    BY <1>0 DEF NewKey, SubmitTypeOK
  <1>3. SubmitTypeOK'
    BY <1>0, <1>1, <1>2 DEF SubmitTypeOK, NewKey
  <1>4. tx[c].pc = "read" /\ KeyRows(c) = {} /\ tx[c].new = {}
    BY DEF NewKey, AtTx, SubmitInv, RunsWritten, WrittenBy, Writing
  <1>5. RunsWritten'
    <2>1. IsFiniteSet({}) /\ Cardinality({}) = 0 /\ 0 < Width
      BY FS_EmptySet DEF SubmissionConstants
    <2> SUFFICES ASSUME NEW d \in Clients PROVE WrittenBy(d)'
      BY DEF RunsWritten
    <2>2. CASE d = c
      BY <1>1, <1>2, <1>4, <2>1, <2>2 DEF WrittenBy, Writing
    <2>3. CASE d # c
      <3>1. tx'[d] = tx[d] /\ req' = req
        BY <1>2, <2>3
      <3> QED BY <3>1 DEF SubmitInv, RunsWritten, WrittenBy, Writing
    <2> QED BY <2>2, <2>3
  <1> QED BY <1>0, <1>1, <1>2, <1>3, <1>4, <1>5, WritingStep

\* A run is inserted: the next of a sweep, or the only one of a submission.
LEMMA InsertStep ==
  ASSUME SubmissionConstants, SubmitInv, NEW c \in Clients, InsertRun(c)
  PROVE  SubmitInv'
  <1> DEFINE sweep == req[c].kind = "sweep"
             row == RunRow(c, IF sweep THEN next ELSE tx[c].id)
             pc == IF ~sweep \/ Cardinality(tx[c].new) + 1 = Width
                   THEN "commit" ELSE "insert"
  <1>0. /\ SubmitTypeOK /\ tx[c] \in Transaction /\ next \in Nat \ {0}
        /\ tx[c].id \in Nat /\ tx[c].pc = "insert" /\ Writing(c)
    BY DEF SubmitInv, SubmitTypeOK, Transaction, InsertRun, AtTx, Writing
  <1>1. tx' = [tx EXCEPT ![c].new = @ \union {row}, ![c].pc = pc]
    BY DEF InsertRun
  <1>2. /\ row \in RunRows
        /\ row.id = IF sweep THEN next ELSE tx[c].id
        /\ row.sweep = IF sweep THEN tx[c].id ELSE 0
        /\ ~sweep => row = [id |-> tx[c].id, sweep |-> 0]
    BY <1>0 DEF RunRow, RunRows
  <1>3. pc \in {"insert", "commit"}
    OBVIOUS
  <1>4. /\ next' = IF sweep THEN next + 1 ELSE next
        /\ tables' = tables /\ req' = req
    BY DEF InsertRun
  <1> HIDE DEF row, pc
  <1>5. /\ tx'[c] \in Transaction
        /\ tx'[c].pc = pc /\ tx'[c].locked = tx[c].locked
        /\ tx'[c].new = tx[c].new \union {row} /\ tx'[c].id = tx[c].id
        /\ \A d \in Clients \ {c} : tx'[d] = tx[d]
    BY <1>0, <1>1, <1>2, <1>3 DEF SubmitTypeOK, Transaction
  <1>6. SubmitTypeOK'
    BY <1>0, <1>1, <1>4, <1>5 DEF SubmitTypeOK
  <1>7. KeyRows(c) = {}
    BY <1>0 DEF SubmitInv, KeysHeld
  <1>8. /\ tx[c].id < next /\ \A r \in tx[c].new : r.id < next /\ r.id \in Nat
    BY <1>0 DEF SubmitInv, IdsUsed, Transaction, RunRows
  <1>9. tx'[c].id < next' /\ \A r \in tx'[c].new : r.id < next'
    BY <1>0, <1>2, <1>4, <1>5, <1>8
  <1>10. RunsWritten'
    <2> SUFFICES ASSUME NEW d \in Clients
                 PROVE  /\ ~Writing(d)' => tx'[d].new = {}
                        /\ Writing(d)' /\ req'[d].kind = "sweep" =>
                             /\ IsFiniteSet(tx'[d].new)
                             /\ \A r \in tx'[d].new : r.sweep = tx'[d].id
                             /\ tx'[d].pc = "insert" => Cardinality(tx'[d].new) < Width
                             /\ tx'[d].pc = "commit" => Cardinality(tx'[d].new) = Width
                        /\ Writing(d)' /\ req'[d].kind # "sweep" =>
                             /\ tx'[d].pc = "insert" => tx'[d].new = {}
                             /\ tx'[d].pc = "commit" =>
                                  tx'[d].new = {[id |-> tx'[d].id, sweep |-> 0]}
      BY DEF RunsWritten, WrittenBy
    <2>1. CASE d # c
      <3>1. tx'[d] = tx[d] /\ req'[d] = req[d] /\ (Writing(d)' <=> Writing(d))
        BY <1>4, <1>5, <2>1 DEF Writing
      <3> QED BY <3>1 DEF SubmitInv, RunsWritten, WrittenBy
    <2>2. CASE d = c /\ sweep
      <3>1. /\ IsFiniteSet(tx[c].new) /\ Cardinality(tx[c].new) < Width
            /\ \A r \in tx[c].new : r.sweep = tx[c].id
        BY <1>0, <2>2 DEF SubmitInv, RunsWritten, WrittenBy
      <3>2. row \notin tx[c].new
        BY <1>2, <1>8, <2>2
      <3>3. /\ IsFiniteSet(tx'[c].new)
            /\ Cardinality(tx'[c].new) = Cardinality(tx[c].new) + 1
        <4>1. /\ IsFiniteSet(tx[c].new \union {row})
              /\ Cardinality(tx[c].new \union {row}) = Cardinality(tx[c].new) + 1
          BY <3>1, <3>2, FS_AddElement
        <4> QED BY <1>5, <4>1
      <3>4. Cardinality(tx[c].new) \in Nat /\ Width \in Nat
        BY <3>1, FS_CardinalityType DEF SubmissionConstants
      <3>5. /\ pc = "insert" => Cardinality(tx'[c].new) < Width
            /\ pc = "commit" => Cardinality(tx'[c].new) = Width
        BY <2>2, <3>1, <3>3, <3>4 DEF pc
      <3>6. \A r \in tx'[c].new : r.sweep = tx'[c].id
        BY <1>2, <1>5, <2>2, <3>1
      <3> QED BY <1>3, <1>4, <1>5, <2>2, <3>3, <3>5, <3>6 DEF Writing
    <2>3. CASE d = c /\ ~sweep
      <3>1. tx[c].new = {} /\ pc = "commit"
        BY <1>0, <2>3 DEF SubmitInv, RunsWritten, WrittenBy, pc
      <3> QED BY <1>2, <1>4, <1>5, <2>3, <3>1 DEF Writing
    <2> QED BY <2>1, <2>2, <2>3
  <1> QED BY <1>0, <1>3, <1>4, <1>5, <1>6, <1>7, <1>9, <1>10, WritingStep

-----------------------------------------------------------------------------
(* The commit *)

\* Everything the transaction wrote becomes visible together.
LEMMA CommitStep ==
  ASSUME SubmissionConstants, SubmitInv, NEW c \in Clients, NEW told \in BOOLEAN,
         Commit(c, told)
  PROVE  SubmitInv'
  <1> DEFINE sweep == req[c].kind = "sweep"
             row == [key |-> req[c].key, fingerprint |-> Fingerprint(c), id |-> tx[c].id]
             answer == IF told THEN "ok" ELSE "unavailable"
             n == IF told THEN tx[c].id ELSE 0
  <1>0. /\ SubmitTypeOK /\ tx[c] \in Transaction /\ req[c] \in Request
        /\ tx[c].id \in Nat /\ tx[c].new \subseteq RunRows
        /\ tx[c].pc = "commit" /\ Writing(c) /\ KeyRows(c) = {}
        /\ tx[c].id # 0 /\ next \in Nat \ {0} /\ tx[c].locked
    BY DEF SubmitInv, SubmitTypeOK, Transaction, Commit, AtTx, Writing, KeysHeld, IdsOwn
  <1>1. row \in KeyTable /\ row.key = req[c].key /\ row.fingerprint = Fingerprint(c)
        /\ row.id = tx[c].id
    BY <1>0 DEF KeyTable, Fingerprint, Request
  <1>2. tables' = [tables EXCEPT
          !.runs = @ \union tx[c].new,
          !.sweeps = IF sweep THEN @ \union {row} ELSE @,
          !.submissions = IF sweep THEN @ ELSE @ \union {row}]
    BY <1>0 DEF Commit, Committed
  <1>3. Answered(c, answer, n) /\ next' = next
    BY <1>0 DEF Commit
  <1>4. answer \in Answers \ {"duplicate"} /\ n \in Nat
    BY <1>0 DEF Answers
  <1> HIDE DEF row, answer, n
  <1>5. /\ req' \in [Clients -> Request]
        /\ tx' \in [Clients -> Transaction]
        /\ tx'[c] = NoTx
        /\ req'[c].answer = answer /\ req'[c].result = n
        /\ req'[c].kind = req[c].kind /\ req'[c].key = req[c].key
        /\ req'[c].body = req[c].body
        /\ \A d \in Clients \ {c} : req'[d] = req[d] /\ tx'[d] = tx[d]
    BY <1>0, <1>3, <1>4, AnsweredFacts
  <1>6. /\ tables \in [submissions : SUBSET KeyTable, sweeps : SUBSET KeyTable,
                       ended : BOOLEAN, runs : SUBSET RunRows]
        /\ tables'.runs = tables.runs \union tx[c].new
        /\ tables'.sweeps = IF sweep THEN tables.sweeps \union {row} ELSE tables.sweeps
        /\ tables'.submissions = IF sweep THEN tables.submissions
                                 ELSE tables.submissions \union {row}
    BY <1>0, <1>2 DEF SubmitTypeOK
  <1>7. SubmitTypeOK'
    <2>1. tables' \in [submissions : SUBSET KeyTable, sweeps : SUBSET KeyTable,
                       ended : BOOLEAN, runs : SUBSET RunRows]
      BY <1>0, <1>1, <1>2, <1>6
    <2> QED BY <1>0, <1>3, <1>5, <2>1 DEF SubmitTypeOK
  <1>8. \A d \in Clients : /\ req'[d].kind = req[d].kind
                           /\ req'[d].key = req[d].key
                           /\ Fingerprint(d)' = Fingerprint(d)
    BY <1>5 DEF Fingerprint
  <1>9. ASSUME NEW d \in Clients
        PROVE  KeyRows(d)' = IF SameKey(c, d) THEN KeyRows(d) \union {row} ELSE KeyRows(d)
    <2>1. Space(req[c].kind) = Space(req[d].kind) <=> (sweep <=> req[d].kind = "sweep")
      BY DEF Space
    <2> QED BY <1>1, <1>6, <1>8, <2>1 DEF KeyRows, SameKey
  <1>10. ~Writing(c)' /\ ~tx'[c].locked /\ tx'[c].new = {} /\ tx'[c].id = 0
         /\ \A d \in Clients \ {c} : Writing(d)' <=> Writing(d)
    BY <1>5 DEF Writing, NoTx
  <1>11. KeysHeld'
    <2>1. \A d \in Clients : tx'[d].locked <=> tx'[d].pc \in {"read", "insert", "commit"}
      BY <1>5 DEF SubmitInv, KeysHeld, NoTx
    <2>2. \A d, e \in Clients : d # e /\ tx'[d].locked /\ tx'[e].locked => ~SameKey(d, e)'
      BY <1>5, <1>8, <1>10, SameContention DEF SubmitInv, KeysHeld
    <2>3. ASSUME NEW d \in Clients, Writing(d)' PROVE KeyRows(d)' = {}
      <3>1. d # c /\ tx[d].locked /\ KeyRows(d) = {}
        BY <1>10, <2>3 DEF SubmitInv, KeysHeld, Writing
      <3>2. ~SameKey(c, d)
        BY <1>0, <3>1 DEF SubmitInv, KeysHeld
      <3> QED BY <1>9, <3>1, <3>2
    <2> QED BY <2>1, <2>2, <2>3 DEF KeysHeld
  <1>12. \A r \in tx[c].new : /\ r.id < next
                              /\ r.sweep = IF sweep THEN tx[c].id ELSE 0
    BY <1>0 DEF SubmitInv, IdsUsed, RunsWritten, WrittenBy
  <1>13. IdsUsed'
    <2>1. tx[c].id < next /\ 0 < next
      BY <1>0 DEF SubmitInv, IdsUsed
    <2> QED BY <1>1, <1>3, <1>5, <1>6, <1>10, <1>12, <2>1 DEF SubmitInv, IdsUsed
  <1>14. IdsOwn'
    <2>1. ASSUME NEW d \in Clients, Writing(d)'
          PROVE  d # c /\ tx'[d] = tx[d] /\ Writing(d) /\ tx[d].id # tx[c].id /\ tx[d].id # 0
      BY <1>0, <1>5, <1>10, <2>1 DEF SubmitInv, IdsOwn
    <2>2. ASSUME NEW d \in Clients, Writing(d)'
          PROVE  /\ tx'[d].id # 0
                 /\ \A s \in tables'.submissions : s.id # tx'[d].id
                 /\ \A s \in tables'.sweeps : s.id # tx'[d].id
                 /\ \A r \in tables'.runs : r.sweep # tx'[d].id
      BY <1>1, <1>6, <1>12, <2>1, <2>2 DEF SubmitInv, IdsOwn
    <2>3. \A d, e \in Clients : d # e /\ Writing(d)' /\ Writing(e)' => tx'[d].id # tx'[e].id
      BY <2>1 DEF SubmitInv, IdsOwn
    <2> QED BY <2>2, <2>3 DEF IdsOwn
  <1>15. RunsWritten'
    BY <1>5, <1>8, <1>10 DEF SubmitInv, RunsWritten, WrittenBy
  <1>16. KeysUnique'
    <2>1. /\ sweep => \A s \in tables.sweeps : s.key # row.key
          /\ ~sweep => \A s \in tables.submissions : s.key # row.key
      BY <1>0, <1>1 DEF KeyRows
    <2> QED BY <1>6, <2>1 DEF SubmitInv, KeysUnique
  <1>17. AnswersKnown'
    <2> SUFFICES ASSUME NEW d \in Clients, req'[d].answer = "ok"
                 PROVE  \E s \in KeyRows(d)' : s.id = req'[d].result /\ Matches(d, s)'
      BY DEF AnswersKnown, Successful
    <2>1. CASE d = c
      <3>1. row \in KeyRows(c)'
        BY <1>9 DEF SameKey
      <3>2. n = tx[c].id
        BY <1>5, <2>1 DEF answer, n
      <3> QED BY <1>1, <1>5, <1>8, <2>1, <3>1, <3>2 DEF Matches
    <2>2. CASE d # c
      <3>1. PICK s \in KeyRows(d) : s.id = req[d].result /\ Matches(d, s)
        BY <1>5, <2>2 DEF SubmitInv, AnswersKnown, Successful
      <3>2. s \in KeyRows(d)'
        BY <1>9
      <3> QED BY <1>5, <1>8, <2>2, <3>1, <3>2 DEF Matches
    <2> QED BY <2>1, <2>2
  <1>18. OneResultPerKey'
    <2>1. ASSUME NEW r \in tables'.runs
          PROVE  \/ r.id = 0
                 \/ \E s \in tables'.submissions : s.id = r.id
                 \/ \E s \in tables'.sweeps : s.id = r.sweep
      <3>1. CASE r \in tables.runs
        BY <1>6, <3>1 DEF SubmitInv, OneResultPerKey
      <3>2. CASE r \in tx[c].new /\ sweep
        BY <1>1, <1>6, <1>12, <3>2
      <3>3. CASE r \in tx[c].new /\ ~sweep
        <4>1. r.id = tx[c].id
          BY <1>0, <3>3 DEF SubmitInv, RunsWritten, WrittenBy
        <4> QED BY <1>1, <1>6, <3>3, <4>1
      <3> QED BY <1>6, <2>1, <3>1, <3>2, <3>3
    <2>2. ASSUME NEW s \in tables'.submissions
          PROVE  \E r \in tables'.runs : r.id = s.id /\ r.sweep = 0
      <3>1. CASE s \in tables.submissions
        BY <1>6, <3>1 DEF SubmitInv, OneResultPerKey
      <3>2. CASE s = row /\ ~sweep
        <4>1. tx[c].new = {[id |-> tx[c].id, sweep |-> 0]}
          BY <1>0, <3>2 DEF SubmitInv, RunsWritten, WrittenBy
        <4>2. PICK r \in tx[c].new : r = [id |-> tx[c].id, sweep |-> 0]
          BY <4>1
        <4>3. r.id = tx[c].id /\ r.sweep = 0
          BY <4>2
        <4> QED BY <1>1, <1>6, <3>2, <4>3
      <3> QED BY <1>6, <2>2, <3>1, <3>2
    <2>3. ASSUME NEW s \in tables'.sweeps
          PROVE  Cardinality({r \in tables'.runs : r.sweep = s.id}) = Width
      <3>1. CASE s \in tables.sweeps
        <4>1. s.id # tx[c].id /\ s.id # 0
          BY <1>0, <1>6, <3>1 DEF SubmitInv, IdsOwn, KeyTable
        <4>2. {r \in tables'.runs : r.sweep = s.id} = {r \in tables.runs : r.sweep = s.id}
          BY <1>6, <1>12, <4>1
        <4> QED BY <3>1, <4>2 DEF SubmitInv, OneResultPerKey
      <3>2. CASE s = row /\ sweep
        <4>1. \A r \in tables.runs : r.sweep # tx[c].id
          BY <1>0 DEF SubmitInv, IdsOwn
        <4>2. {r \in tables'.runs : r.sweep = s.id} = tx[c].new
          BY <1>1, <1>6, <1>12, <3>2, <4>1
        <4>3. Cardinality(tx[c].new) = Width
          BY <1>0, <3>2 DEF SubmitInv, RunsWritten, WrittenBy
        <4> QED BY <4>2, <4>3
      <3> QED BY <1>6, <2>3, <3>1, <3>2
    <2> QED BY <2>1, <2>2, <2>3 DEF OneResultPerKey
  <1>19. NoDuplicateKey'
    BY <1>4, <1>5 DEF SubmitInv, NoDuplicateKey
  <1> QED BY <1>7, <1>11, <1>13, <1>14, <1>15, <1>16, <1>17, <1>18, <1>19 DEF SubmitInv

-----------------------------------------------------------------------------
(* The theorem *)

\* Nothing is submitted at the start.
LEMMA SubmitInvInit ==
  ASSUME SubmissionsInit
  PROVE  SubmitInv
  <1>1. /\ tables.submissions = {} /\ tables.sweeps = {} /\ tables.ended = FALSE
        /\ tables.runs = {[id |-> 0, sweep |-> 0]}
        /\ next = 1
        /\ \A c \in Clients : tx[c] = NoTx
    BY DEF SubmissionsInit
  <1>2. \A c \in Clients : req[c].answer = "none" /\ req[c] \in Request
    BY DEF SubmissionsInit, Request, Answers
  <1>3. SubmitTypeOK
    <2>1. NoTx \in Transaction
      BY DEF NoTx, Transaction
    <2>2. [id |-> 0, sweep |-> 0] \in RunRows
      BY DEF RunRows
    <2>3. tables = [submissions |-> {}, sweeps |-> {}, ended |-> FALSE,
                    runs |-> {[id |-> 0, sweep |-> 0]}]
      BY DEF SubmissionsInit
    <2>4. tables \in [submissions : SUBSET KeyTable, sweeps : SUBSET KeyTable,
                      ended : BOOLEAN, runs : SUBSET RunRows]
      BY <2>2, <2>3
    <2>5. req \in [Clients -> Request]
      BY <1>2 DEF SubmissionsInit
    <2>6. tx \in [Clients -> Transaction]
      BY <2>1 DEF SubmissionsInit
    <2> QED BY <1>1, <2>4, <2>5, <2>6 DEF SubmitTypeOK
  <1>4. KeysHeld /\ IdsOwn /\ RunsWritten
    BY <1>1 DEF KeysHeld, IdsOwn, RunsWritten, WrittenBy, Writing, NoTx
  <1>5. IdsUsed
    BY <1>1 DEF IdsUsed, NoTx
  <1>6. KeysUnique /\ OneResultPerKey
    BY <1>1 DEF KeysUnique, OneResultPerKey
  <1>7. AnswersKnown /\ NoDuplicateKey
    BY <1>2 DEF AnswersKnown, Successful, NoDuplicateKey
  <1> QED BY <1>3, <1>4, <1>5, <1>6, <1>7 DEF SubmitInv

\* Every step keeps the invariant.
LEMMA SubmitInvStep ==
  ASSUME SubmissionConstants, SubmitInv, [SubmissionsNext]_submitVars
  PROVE  SubmitInv'
  <1>1. CASE RunZeroEnds
    BY <1>1, RunZeroStep
  <1>2. ASSUME NEW c \in Clients,
               SendRequest(c) \/ LockKey(c) \/ KnownKey(c) \/ RerunRefused(c) \/ CallFails(c)
        PROVE  SubmitInv'
    BY <1>2, SendStep, LockStep, NothingWrittenStep
  <1>3. ASSUME NEW c \in Clients, NewKey(c) \/ InsertRun(c) PROVE SubmitInv'
    BY <1>3, NewKeyStep, InsertStep
  <1>4. ASSUME NEW c \in Clients, NEW told \in BOOLEAN, Commit(c, told) PROVE SubmitInv'
    BY <1>4, CommitStep
  <1>5. CASE UNCHANGED submitVars
    <2>1. SubmitTypeOK' /\ KeysHeld' /\ IdsUsed' /\ IdsOwn'
      BY <1>5 DEF submitVars, SubmitInv, SubmitTypeOK, KeysHeld, SameKey, KeyRows, IdsUsed,
         IdsOwn, Writing
    <2>2. RunsWritten' /\ KeysUnique' /\ OneResultPerKey'
      BY <1>5 DEF submitVars, SubmitInv, Writing, RunsWritten, WrittenBy, KeysUnique,
             OneResultPerKey
    <2>3. AnswersKnown' /\ NoDuplicateKey'
      BY <1>5 DEF submitVars, SubmitInv, KeyRows, AnswersKnown, Successful, Matches,
         Fingerprint, NoDuplicateKey
    <2> QED BY <2>1, <2>2, <2>3 DEF SubmitInv
  <1> QED BY <1>1, <1>2, <1>3, <1>4, <1>5 DEF SubmissionsNext

\* Two OKs for one key name the one row of this key.
LEMMA AnswersAgree ==
  ASSUME SubmitInv
  PROVE  SameAnswer
  <1> SUFFICES ASSUME NEW c \in Clients, NEW d \in Clients, Successful(c), Successful(d),
                      req[c].key = req[d].key, Space(req[c].kind) = Space(req[d].kind)
               PROVE  req[c].result = req[d].result /\ Fingerprint(c) = Fingerprint(d)
    BY DEF SameAnswer, SubmitInv, AnswersKnown
  <1>1. PICK s \in KeyRows(c) : s.id = req[c].result /\ Matches(c, s)
    BY DEF SubmitInv, AnswersKnown
  <1>2. PICK t \in KeyRows(d) : t.id = req[d].result /\ Matches(d, t)
    BY DEF SubmitInv, AnswersKnown
  <1>3. req[c].kind = "sweep" <=> req[d].kind = "sweep"
    BY DEF Space
  <1>4. s = t
    BY <1>3 DEF KeyRows, SubmitInv, KeysUnique
  <1> QED BY <1>1, <1>2, <1>4 DEF Matches

\* A request that creates runs takes effect once per key however often it is
\* sent and whatever fails, a sweep is there with all of its runs or not at
\* all, and every caller is told the same.
THEOREM SubmittedOnceHolds == SubmissionsSpec => []SubmittedOnce
  <1>1. SubmissionsInit => SubmitInv
    BY SubmitInvInit
  <1>2. SubmitInv /\ [SubmissionsNext]_submitVars => SubmitInv'
    BY SubmissionConstants, SubmitInvStep
  <1>3. SubmitInv => SubmittedOnce
    BY AnswersAgree DEF SubmitInv, SubmittedOnce
  <1> QED BY <1>1, <1>2, <1>3, PTL DEF SubmissionsSpec

-----------------------------------------------------------------------------
(***************************************************************************)
(* LockOrder: for any number of sessions, workers, runs and devices.       *)
(*                                                                         *)
(* The rows are ranked: advisory locks, workers, runs, attempts, devices.  *)
(* Every transaction but the requeue asks for rows of growing rank, so     *)
(* along a circle of their waits the rank of the row waited for would grow *)
(* for ever; and a wait for a device, the only rank without a bound, is    *)
(* ruled out by the lock on its worker.  A requeue asks only for runs:     *)
(* whoever else holds a run can only wait for an attempt, and its holder   *)
(* for nothing, so from a requeue a circle leads to requeues alone.        *)
(***************************************************************************)

(* Ranks *)

\* Every row some transaction locks.
AllRows ==
  ({"advisory"} \X (LockWorkers \cup {"admission", "key"}))
  \cup ({"workers"} \X LockWorkers)
  \cup ({"runs", "attempts"} \X LockRuns)
  \cup ({"gpu_devices"} \X (LockWorkers \X (Nat \ {0})))

LockRequests == [skip : BOOLEAN, rows : SUBSET AllRows]

IsDevice(row) == row[1] = "gpu_devices"
IsRun(row) == row[1] = "runs"

Rank(row) ==
  CASE row[1] = "advisory" -> 0
    [] row[1] = "workers" -> 1
    [] IsRun(row) -> 2
    [] row[1] = "attempts" -> 3
    [] IsDevice(row) -> 3 + row[2][2]

\* The rows a transaction asks for have growing rank.
Ascends(t) ==
  \A j, k \in 1..Len(t) :
    j < k => \A x \in t[j].rows, y \in t[k].rows : Rank(x) < Rank(y)

\* The lock on its worker comes before that on a device.
WorkerRow(device) == <<"workers", device[2][1]>>
UnderWorker(t) ==
  \A k \in 1..Len(t) : \A y \in t[k].rows :
    IsDevice(y) => \E j \in 1..(k - 1) : t[j].rows = {WorkerRow(y)}

\* A nonempty set of naturals has a least element.
LEMMA LeastNatural ==
  ASSUME NEW T, T \subseteq Nat, T # {}
  PROVE  \E x \in T : \A y \in T : x <= y
  <1> DEFINE R == StrictSubsetOrdering(Nat)
             F == FiniteSubsetsOf(Nat)
             below == {0..n : n \in T}
  <1>1. IsWellFoundedOn(R, F)
    BY FS_StrictSubsetOrderingWellFounded
  <1>2. below \subseteq F /\ below # {}
    <2>1. ASSUME NEW n \in T PROVE 0..n \in F
      <3>1. IsFiniteSet(0..n)
        BY FS_Interval
      <3> QED BY <3>1 DEF FiniteSubsetsOf
    <2> QED BY <2>1
  <1> HIDE DEF R, F, below
  <1>3. PICK X \in below : \A Y \in below : <<Y, X>> \notin R
    BY <1>1, <1>2, WFMin
  <1>4. PICK x \in T : X = 0..x
    BY DEF below
  <1>5. ASSUME NEW y \in T, ~(x <= y) PROVE FALSE
    <2>1. 0..y \in below
      BY DEF below
    <2>2. 0..y \subseteq 0..x /\ 0..y # 0..x
      BY <1>5
    <2>3. <<0..y, 0..x>> \in R
      BY <1>4, <2>2 DEF R, StrictSubsetOrdering
    <2> QED BY <1>3, <1>4, <2>1, <2>3
  <1> QED BY <1>5

\* A rank is a number, and only devices have one above that of attempts.
LEMMA RankType ==
  ASSUME NEW row \in AllRows
  PROVE  Rank(row) \in Nat /\ (~IsDevice(row) => Rank(row) <= 3)
  <1>1. \/ row[1] = "advisory" \/ row[1] = "workers" \/ row[1] = "runs"
        \/ row[1] = "attempts" \/ (row[1] = "gpu_devices" /\ row[2][2] \in Nat)
    BY DEF AllRows
  <1>2. CASE row[1] = "advisory" BY <1>2 DEF Rank, IsDevice, IsRun
  <1>3. CASE row[1] = "workers" BY <1>3 DEF Rank, IsDevice, IsRun
  <1>4. CASE row[1] = "runs" BY <1>4 DEF Rank, IsDevice, IsRun
  <1>5. CASE row[1] = "attempts" BY <1>5 DEF Rank, IsDevice, IsRun
  <1>6. CASE row[1] = "gpu_devices" /\ row[2][2] \in Nat
    BY <1>6 DEF Rank, IsDevice, IsRun
  <1> QED BY <1>1, <1>2, <1>3, <1>4, <1>5, <1>6

\* The ranks of the rows transactions name.
LEMMA RanksOfRows ==
  /\ \A w : Rank(<<"advisory", w>>) = 0
  /\ \A w : Rank(<<"workers", w>>) = 1
  /\ \A r : Rank(<<"runs", r>>) = 2
  /\ \A r : Rank(<<"attempts", r>>) = 3
  /\ \A w, i : Rank(<<"gpu_devices", <<w, i>>>>) = 3 + i
  BY DEF Rank, IsDevice, IsRun

-----------------------------------------------------------------------------
(* The transactions *)

\* One request, and a request for a row of a table.
LEMMA LockFacts ==
  ASSUME NEW table, NEW key, <<table, key>> \in AllRows
  PROVE  Lock(table, key) \in LockRequests /\ Lock(table, key).rows = {<<table, key>>}
  BY DEF Lock, LockRequests

\* The free choice of a queued run.
LEMMA AnyRunFacts ==
  /\ AnyRun \in LockRequests
  /\ \A x \in AnyRun.rows : \E r \in LockRuns : x = <<"runs", r>>
  <1>1. \A r \in LockRuns : <<"runs", r>> \in AllRows
    BY DEF AllRows
  <1> QED BY <1>1 DEF AnyRun, LockRequests

\* What is shown of every transaction.
Orderly(t) == t \in Seq(LockRequests) /\ Ascends(t) /\ UnderWorker(t)

\* No row of the request is a device.
NoDevice(q) == \A x \in q.rows : ~IsDevice(x)

\* A transaction with one request.
LEMMA OneLock ==
  ASSUME NEW q \in LockRequests, NoDevice(q), NEW t, t = <<q>>
  PROVE  Orderly(t) /\ Len(t) = 1 /\ t[1] = q
  <1>1. t \in Seq(LockRequests) /\ Len(t) = 1 /\ t[1] = q
    OBVIOUS
  <1>2. Ascends(t)
    BY <1>1 DEF Ascends
  <1>3. UnderWorker(t)
    BY <1>1 DEF UnderWorker, NoDevice
  <1> QED BY <1>1, <1>2, <1>3 DEF Orderly

\* A transaction with two requests.
LEMMA TwoLocks ==
  ASSUME NEW p \in LockRequests, NEW q \in LockRequests, NoDevice(p), NoDevice(q),
         \A x \in p.rows, y \in q.rows : Rank(x) < Rank(y),
         NEW t, t = <<p, q>>
  PROVE  Orderly(t) /\ Len(t) = 2 /\ t[1] = p /\ t[2] = q
  <1>1. t \in Seq(LockRequests) /\ Len(t) = 2 /\ t[1] = p /\ t[2] = q
    OBVIOUS
  <1>2. Ascends(t)
    <2> SUFFICES ASSUME NEW j \in 1..2, NEW k \in 1..2, j < k
                 PROVE  \A x \in t[j].rows, y \in t[k].rows : Rank(x) < Rank(y)
      BY <1>1 DEF Ascends
    <2>1. j = 1 /\ k = 2
      OBVIOUS
    <2> QED BY <1>1, <2>1
  <1>3. UnderWorker(t)
    <2> SUFFICES ASSUME NEW k \in 1..2, NEW y \in t[k].rows PROVE ~IsDevice(y)
      BY <1>1 DEF UnderWorker
    <2>1. k = 1 \/ k = 2
      OBVIOUS
    <2> QED BY <1>1, <2>1 DEF NoDevice
  <1> QED BY <1>1, <1>2, <1>3 DEF Orderly

\* One piece of a transaction after another: ranks go on growing, and the
\* devices of the second are those of workers locked in the first.
LEMMA Joined ==
  ASSUME NEW t, NEW u, Orderly(t), u \in Seq(LockRequests), Ascends(u),
         \A j \in 1..Len(t), k \in 1..Len(u) :
           \A x \in t[j].rows, y \in u[k].rows : Rank(x) < Rank(y),
         \A k \in 1..Len(u) : \A y \in u[k].rows :
           IsDevice(y) => \E j \in 1..Len(t) : t[j].rows = {WorkerRow(y)}
  PROVE  Orderly(t \o u)
  <1> DEFINE v == t \o u
  <1>0. t \in Seq(LockRequests) /\ Len(t) \in Nat /\ Len(u) \in Nat
    BY LenProperties DEF Orderly
  <1>1. /\ v \in Seq(LockRequests) /\ Len(v) = Len(t) + Len(u)
        /\ \A i \in 1..(Len(t) + Len(u)) :
             v[i] = IF i <= Len(t) THEN t[i] ELSE u[i - Len(t)]
    BY <1>0, ConcatProperties
  <1> HIDE DEF v
  <1>2. Ascends(v)
    <2> SUFFICES ASSUME NEW j \in 1..(Len(t) + Len(u)), NEW k \in 1..(Len(t) + Len(u)), j < k
                 PROVE  \A x \in v[j].rows, y \in v[k].rows : Rank(x) < Rank(y)
      BY <1>1 DEF Ascends
    <2>1. CASE k <= Len(t)
      BY <1>0, <1>1, <2>1 DEF Orderly, Ascends
    <2>2. CASE j <= Len(t) /\ ~(k <= Len(t))
      <3>1. j \in 1..Len(t) /\ k - Len(t) \in 1..Len(u)
        BY <1>0, <2>2
      <3> QED BY <1>1, <2>2, <3>1
    <2>3. CASE ~(j <= Len(t))
      <3>1. /\ j - Len(t) \in 1..Len(u) /\ k - Len(t) \in 1..Len(u)
            /\ j - Len(t) < k - Len(t) /\ ~(k <= Len(t))
        BY <1>0, <2>3
      <3> QED BY <1>1, <2>3, <3>1 DEF Ascends
    <2> QED BY <1>0, <2>1, <2>2, <2>3
  <1>3. UnderWorker(v)
    <2> SUFFICES ASSUME NEW k \in 1..(Len(t) + Len(u)), NEW y \in v[k].rows, IsDevice(y)
                 PROVE  \E j \in 1..(k - 1) : v[j].rows = {WorkerRow(y)}
      BY <1>1 DEF UnderWorker
    <2>1. CASE k <= Len(t)
      <3>1. k \in 1..Len(t) /\ y \in t[k].rows
        BY <1>0, <1>1, <2>1
      <3>2. PICK j \in 1..(k - 1) : t[j].rows = {WorkerRow(y)}
        BY <3>1 DEF Orderly, UnderWorker
      <3>3. v[j] = t[j]
        BY <1>0, <1>1, <2>1, <3>2
      <3> QED BY <3>2, <3>3
    <2>2. CASE ~(k <= Len(t))
      <3>1. k - Len(t) \in 1..Len(u) /\ y \in u[k - Len(t)].rows
        BY <1>0, <1>1, <2>2
      <3>2. PICK j \in 1..Len(t) : t[j].rows = {WorkerRow(y)}
        BY <3>1
      <3>3. j \in 1..(k - 1) /\ v[j] = t[j]
        BY <1>0, <1>1, <2>2, <3>2
      <3> QED BY <3>2, <3>3
    <2> QED BY <2>1, <2>2
  <1> QED BY <1>1, <1>2, <1>3 DEF Orderly, v

\* The requests for rows other than devices.
LEMMA RowRequests ==
  ASSUME LockAssumption
  PROVE  /\ \A w \in LockWorkers \cup {"admission", "key"} :
              /\ Lock("advisory", w) \in LockRequests /\ NoDevice(Lock("advisory", w))
              /\ \A x \in Lock("advisory", w).rows : Rank(x) = 0
         /\ \A w \in LockWorkers :
              /\ Lock("workers", w) \in LockRequests /\ NoDevice(Lock("workers", w))
              /\ \A x \in Lock("workers", w).rows : Rank(x) = 1
         /\ \A r \in LockRuns :
              /\ Lock("runs", r) \in LockRequests /\ NoDevice(Lock("runs", r))
              /\ \A x \in Lock("runs", r).rows : Rank(x) = 2
              /\ Lock("attempts", r) \in LockRequests /\ NoDevice(Lock("attempts", r))
              /\ \A x \in Lock("attempts", r).rows : Rank(x) = 3
         /\ AnyRun \in LockRequests /\ NoDevice(AnyRun)
         /\ \A x \in AnyRun.rows : Rank(x) = 2
  <1>2. ASSUME NEW w \in LockWorkers \cup {"admission", "key"}
        PROVE  /\ Lock("advisory", w) \in LockRequests /\ NoDevice(Lock("advisory", w))
               /\ \A x \in Lock("advisory", w).rows : Rank(x) = 0
    <2>1. <<"advisory", w>> \in AllRows
      BY DEF AllRows
    <2> QED BY <2>1, LockFacts, RanksOfRows DEF NoDevice, IsDevice
  <1>3. ASSUME NEW w \in LockWorkers
        PROVE  /\ Lock("workers", w) \in LockRequests /\ NoDevice(Lock("workers", w))
               /\ \A x \in Lock("workers", w).rows : Rank(x) = 1
    <2>1. <<"workers", w>> \in AllRows
      BY DEF AllRows
    <2> QED BY <2>1, LockFacts, RanksOfRows DEF NoDevice, IsDevice
  <1>4. ASSUME NEW r \in LockRuns
        PROVE  /\ Lock("runs", r) \in LockRequests /\ NoDevice(Lock("runs", r))
               /\ \A x \in Lock("runs", r).rows : Rank(x) = 2
    <2>1. <<"runs", r>> \in AllRows
      BY DEF AllRows
    <2> QED BY <2>1, LockFacts, RanksOfRows DEF NoDevice, IsDevice
  <1>5. ASSUME NEW r \in LockRuns
        PROVE  /\ Lock("attempts", r) \in LockRequests /\ NoDevice(Lock("attempts", r))
               /\ \A x \in Lock("attempts", r).rows : Rank(x) = 3
    <2>1. <<"attempts", r>> \in AllRows
      BY DEF AllRows
    <2> QED BY <2>1, LockFacts, RanksOfRows DEF NoDevice, IsDevice
  <1>6. /\ AnyRun \in LockRequests /\ NoDevice(AnyRun)
        /\ \A x \in AnyRun.rows : Rank(x) = 2
    BY AnyRunFacts, RanksOfRows DEF NoDevice, IsDevice
  <1> QED BY <1>2, <1>3, <1>4, <1>5, <1>6

\* The devices of a worker, by number.
LEMMA DeviceLocksAscend ==
  ASSUME LockAssumption, NEW w \in LockWorkers, NEW n \in Nat
  PROVE  LET u == DeviceLocks(w, n)
         IN /\ u \in Seq(LockRequests) /\ Ascends(u)
            /\ \A k \in 1..Len(u) : \A y \in u[k].rows :
                 /\ WorkerRow(y) = <<"workers", w>>
                 /\ Rank(y) \in Nat /\ Rank(y) > 3
  <1> DEFINE u == DeviceLocks(w, n)
  <1>1. ASSUME NEW i \in 1..n
        PROVE  /\ Lock("gpu_devices", <<w, i>>) \in LockRequests
               /\ Lock("gpu_devices", <<w, i>>).rows = {<<"gpu_devices", <<w, i>>>>}
    <2>1. <<"gpu_devices", <<w, i>>>> \in AllRows
      BY DEF AllRows
    <2> QED BY <2>1, LockFacts
  <1>2. /\ u \in Seq(LockRequests) /\ Len(u) = n
        /\ \A i \in 1..n : u[i].rows = {<<"gpu_devices", <<w, i>>>>}
    BY <1>1 DEF DeviceLocks
  <1> HIDE DEF u
  <1>3. \A i \in 1..n : /\ Rank(<<"gpu_devices", <<w, i>>>>) = 3 + i
                        /\ WorkerRow(<<"gpu_devices", <<w, i>>>>) = <<"workers", w>>
    BY RanksOfRows DEF WorkerRow
  <1>5. Ascends(u)
    BY <1>2, <1>3 DEF Ascends
  <1>6. \A k \in 1..Len(u) : \A y \in u[k].rows :
          /\ WorkerRow(y) = <<"workers", w>>
          /\ Rank(y) \in Nat /\ Rank(y) > 3
    BY <1>2, <1>3
  <1> QED BY <1>2, <1>5, <1>6 DEF u

\* A request for runs, one after the other.
RunsOnly(t) == \A k \in 1..Len(t) : \A x \in t[k].rows : IsRun(x)

\* recover()'s bulk update locks runs and nothing else.
LEMMA RequeueRunsOnly ==
  ASSUME LockAssumption, NEW runs \in SetToAllKPermutations(LockRuns)
  PROVE  /\ RequeueLocks(runs) \in Seq(LockRequests)
         /\ RunsOnly(RequeueLocks(runs))
  <1>1. PICK due \in SUBSET LockRuns : runs \in SetToSeqs(due)
    BY DEF SetToAllKPermutations
  <1>2. IsFiniteSet(due)
    BY FS_Subset DEF LockAssumption
  <1>3. Cardinality(due) \in Nat
    BY <1>2, FS_CardinalityType
  <1>4. runs \in [1..Cardinality(due) -> due]
    BY <1>1 DEF SetToSeqs
  <1>5. runs \in Seq(LockRuns)
    BY <1>1, <1>3, <1>4
  <1>6. ASSUME NEW i \in 1..Len(runs)
        PROVE  /\ Lock("runs", runs[i]) \in LockRequests
               /\ \A x \in Lock("runs", runs[i]).rows : IsRun(x)
    <2>1. runs[i] \in LockRuns
      BY <1>5
    <2>2. <<"runs", runs[i]>> \in AllRows
      BY <2>1 DEF AllRows
    <2> QED BY <2>2, LockFacts DEF IsRun
  <1>7. /\ RequeueLocks(runs) \in Seq(LockRequests)
        /\ Len(RequeueLocks(runs)) = Len(runs)
        /\ \A i \in 1..Len(runs) : RequeueLocks(runs)[i] = Lock("runs", runs[i])
    BY <1>5, <1>6 DEF RequeueLocks
  <1> QED BY <1>6, <1>7 DEF RunsOnly

\* Every other transaction asks for rows of growing rank and locks a worker before
\* its devices.
LEMMA TransactionsOrderly ==
  ASSUME LockAssumption, NEW t \in Transactions
  PROVE  Orderly(t)
  <1>1. ASSUME NEW r \in LockRuns PROVE Orderly(LockAttempt(r)) /\ Orderly(CancelLocks(r))
    BY RowRequests, TwoLocks DEF LockAttempt, CancelLocks
  <1>2. ASSUME NEW r \in LockRuns PROVE Orderly(RerunLocks(r))
    BY RowRequests, TwoLocks DEF RerunLocks
  <1>3. Orderly(AdmitLocks)
    BY RowRequests, TwoLocks DEF AdmitLocks
  <1>4. ASSUME NEW w \in LockWorkers
        PROVE  /\ Orderly(WorkerLocks(w)) /\ Len(WorkerLocks(w)) = 1
               /\ WorkerLocks(w)[1] = Lock("workers", w)
               /\ WorkerLocks(w)[1].rows = {<<"workers", w>>}
    <2>1. <<"workers", w>> \in AllRows
      BY DEF AllRows
    <2> QED BY <2>1, LockFacts, RowRequests, OneLock DEF WorkerLocks
  <1>5. ASSUME NEW r \in LockRuns PROVE Orderly(RuntimeReportLocks(r))
    <2> DEFINE w == PlacedOn[r]
               u == LockAttempt(r)
    <2>1. w \in LockWorkers
      BY DEF LockAssumption
    <2>2. /\ Orderly(u) /\ Len(u) = 2
          /\ u[1] = Lock("runs", r) /\ u[2] = Lock("attempts", r)
      BY RowRequests, TwoLocks DEF LockAttempt
    <2> HIDE DEF u, w
    <2>3. \A k \in 1..Len(u) : \A y \in u[k].rows : 1 < Rank(y) /\ ~IsDevice(y)
      <3>1. \A k \in 1..2 : k = 1 \/ k = 2
        OBVIOUS
      <3> QED BY <2>2, <3>1, RowRequests DEF NoDevice
    <2>4. Orderly(WorkerLocks(w) \o u)
      <3> DEFINE t1 == WorkerLocks(w)
      <3>1. /\ Orderly(t1) /\ Len(t1) = 1 /\ t1[1] = Lock("workers", w)
            /\ \A x \in Lock("workers", w).rows : Rank(x) = 1
        BY <1>4, <2>1, RowRequests
      <3> HIDE DEF t1
      <3>2. \A j \in 1..Len(t1) : \A x \in t1[j].rows : Rank(x) = 1
        <4>1. \A j \in 1..1 : j = 1
          OBVIOUS
        <4> QED BY <3>1, <4>1
      <3>3. \A j \in 1..Len(t1), k \in 1..Len(u) :
              \A x \in t1[j].rows, y \in u[k].rows : Rank(x) < Rank(y)
        BY <2>3, <3>2
      <3>4. u \in Seq(LockRequests) /\ Ascends(u)
        BY <2>2 DEF Orderly
      <3>5. Orderly(t1 \o u)
        BY <2>3, <3>1, <3>3, <3>4, Joined
      <3> QED BY <3>5 DEF t1
    <2> QED BY <2>4 DEF RuntimeReportLocks, u, w
  <1>6. ASSUME NEW w \in LockWorkers PROVE Orderly(RegisterLocks(w))
    <2> DEFINE t0 == <<Lock("advisory", w)>>
               u == WorkerLocks(w)
    <2>1. Orderly(t0) /\ Len(t0) = 1 /\ t0[1] = Lock("advisory", w)
      BY RowRequests, OneLock
    <2>2. Orderly(u) /\ Len(u) = 1 /\ u[1] = Lock("workers", w)
      BY <1>4
    <2> HIDE DEF t0, u
    <2>3. Orderly(t0 \o u)
      BY <2>1, <2>2, RowRequests, Joined DEF Orderly, NoDevice
    <2> QED BY <2>3 DEF RegisterLocks, t0, u
  <1>7. ASSUME NEW w \in LockWorkers PROVE Orderly(InventoryLocks(w))
    <2> DEFINE t0 == WorkerLocks(w)
               u == DeviceLocks(w, GpusOf[w])
    <2>1. /\ u \in Seq(LockRequests) /\ Ascends(u)
          /\ \A k \in 1..Len(u) : \A y \in u[k].rows :
               /\ WorkerRow(y) = <<"workers", w>>
               /\ Rank(y) \in Nat /\ Rank(y) > 3
      BY DeviceLocksAscend DEF LockAssumption
    <2>2. Orderly(t0) /\ Len(t0) = 1 /\ t0[1].rows = {<<"workers", w>>}
          /\ \A x \in t0[1].rows : Rank(x) = 1
      BY <1>4, RowRequests
    <2> HIDE DEF t0, u
    <2>3. \A k \in 1..Len(u) : \A y \in u[k].rows : 1 < Rank(y)
      BY <2>1
    <2>4. \A j \in 1..Len(t0), k \in 1..Len(u) :
            \A x \in t0[j].rows, y \in u[k].rows : Rank(x) < Rank(y)
      BY <2>2, <2>3
    <2>5. \A k \in 1..Len(u) : \A y \in u[k].rows :
            IsDevice(y) => \E j \in 1..Len(t0) : t0[j].rows = {WorkerRow(y)}
      BY <2>1, <2>2
    <2>6. Orderly(t0 \o u)
      BY <2>1, <2>2, <2>4, <2>5, Joined
    <2> QED BY <2>6 DEF InventoryLocks, t0, u
  <1>8. ASSUME NEW w \in LockWorkers, NEW n \in Nat PROVE Orderly(AssignLocks(w, n))
    <2> DEFINE s0 == WorkerLocks(w)
               q0 == <<AnyRun>>
               t0 == s0 \o q0
               u == DeviceLocks(w, n)
    <2>1. Orderly(s0) /\ Len(s0) = 1 /\ s0[1].rows = {<<"workers", w>>}
          /\ \A x \in s0[1].rows : Rank(x) = 1
      BY <1>4, RowRequests
    <2>2. Orderly(q0) /\ Len(q0) = 1 /\ q0[1] = AnyRun
      BY RowRequests, OneLock
    <2>3. /\ u \in Seq(LockRequests) /\ Ascends(u)
          /\ \A k \in 1..Len(u) : \A y \in u[k].rows :
               /\ WorkerRow(y) = <<"workers", w>>
               /\ Rank(y) \in Nat /\ Rank(y) > 3
      BY DeviceLocksAscend
    <2> HIDE DEF s0, q0, u
    <2>4. \A x \in AnyRun.rows : Rank(x) \in Nat /\ 1 < Rank(x) /\ ~IsDevice(x)
                                 /\ Rank(x) <= 2
      BY RowRequests DEF NoDevice
    <2>5. Orderly(t0)
      <3>1. \A j \in 1..Len(s0), k \in 1..Len(q0) :
              \A x \in s0[j].rows, y \in q0[k].rows : Rank(x) < Rank(y)
        BY <2>1, <2>2, <2>4
      <3>2. \A k \in 1..Len(q0) : \A y \in q0[k].rows : ~IsDevice(y)
        BY <2>2, <2>4
      <3>3. q0 \in Seq(LockRequests) /\ Ascends(q0)
        BY <2>2 DEF Orderly
      <3> QED BY <2>1, <3>1, <3>2, <3>3, Joined
    <2>6. Len(t0) = 2 /\ t0[1] = s0[1] /\ t0[2] = AnyRun
      <3>1. s0 \in Seq(LockRequests) /\ q0 \in Seq(LockRequests)
        BY <2>1, <2>2 DEF Orderly
      <3>2. /\ Len(t0) = Len(s0) + Len(q0)
            /\ \A i \in 1..(Len(s0) + Len(q0)) :
                 t0[i] = IF i <= Len(s0) THEN s0[i] ELSE q0[i - Len(s0)]
        BY <3>1, ConcatProperties
      <3> QED BY <2>1, <2>2, <3>2
    <2> HIDE DEF t0
    <2>7. \A j \in 1..Len(t0) : \A x \in t0[j].rows : Rank(x) \in Nat /\ Rank(x) <= 2
      <3>1. \A j \in 1..2 : j = 1 \/ j = 2
        OBVIOUS
      <3> QED BY <2>1, <2>4, <2>6, <3>1
    <2>8. Orderly(t0 \o u)
      <3>1. \A j \in 1..Len(t0), k \in 1..Len(u) :
              \A x \in t0[j].rows, y \in u[k].rows : Rank(x) < Rank(y)
        BY <2>3, <2>7
      <3>2. \A k \in 1..Len(u) : \A y \in u[k].rows :
              IsDevice(y) => \E j \in 1..Len(t0) : t0[j].rows = {WorkerRow(y)}
        <4>1. 1 \in 1..Len(t0) /\ t0[1].rows = {<<"workers", w>>}
          BY <2>1, <2>6
        <4>2. \A k \in 1..Len(u) : \A y \in u[k].rows : WorkerRow(y) = <<"workers", w>>
          BY <2>3
        <4> QED BY <4>1, <4>2
      <3> QED BY <2>3, <2>5, <3>1, <3>2, Joined
    <2> QED BY <2>8 DEF AssignLocks, t0, s0, q0, u
  <1>10. \/ \E r \in LockRuns : t \in {LockAttempt(r), CancelLocks(r),
                                       RuntimeReportLocks(r), RerunLocks(r)}
         \/ \E w \in LockWorkers : t \in {InventoryLocks(w), RegisterLocks(w)}
         \/ \E w \in LockWorkers : \E n \in 0..GpusOf[w] : t = AssignLocks(w, n)
         \/ t = AdmitLocks
    <2>1. CASE t \in UNION {{AssignLocks(w, n) : n \in 0..GpusOf[w]} : w \in LockWorkers}
      BY <2>1
    <2>2. CASE t \in UNION {{LockAttempt(r), CancelLocks(r), RuntimeReportLocks(r),
                             RerunLocks(r)} : r \in LockRuns}
      BY <2>2
    <2>3. CASE t \in UNION {{InventoryLocks(w), RegisterLocks(w)} : w \in LockWorkers}
      BY <2>3
    <2>4. CASE t = AdmitLocks
      BY <2>4
    <2> QED BY <2>1, <2>2, <2>3, <2>4 DEF Transactions
  <1>11. CASE \E w \in LockWorkers : \E n \in 0..GpusOf[w] : t = AssignLocks(w, n)
    <2>1. PICK w \in LockWorkers : \E n \in 0..GpusOf[w] : t = AssignLocks(w, n)
      BY <1>11
    <2>2. PICK n \in 0..GpusOf[w] : t = AssignLocks(w, n)
      BY <2>1
    <2>3. n \in Nat
      BY DEF LockAssumption
    <2> QED BY <1>8, <2>2, <2>3
  <1>12. CASE \E r \in LockRuns : t \in {LockAttempt(r), CancelLocks(r),
                                         RuntimeReportLocks(r), RerunLocks(r)}
    BY <1>1, <1>2, <1>5, <1>12
  <1>13. CASE \E w \in LockWorkers : t \in {InventoryLocks(w), RegisterLocks(w)}
    BY <1>6, <1>7, <1>13
  <1> QED BY <1>3, <1>10, <1>11, <1>12, <1>13

-----------------------------------------------------------------------------
(* The inductive invariant *)

LockTypeOK ==
  /\ wants \in [Sessions -> Seq(LockRequests)]
  /\ holds \in [Sessions -> SUBSET AllRows]
  /\ bulk \subseteq Sessions

\* A row is locked by one transaction.
OneHolder ==
  \A s, o \in Sessions : s # o => holds[s] \cap holds[o] = {}

\* What a transaction has still to lock, t, ranks above what it has locked, h.
Above(t, h) ==
  \A k \in 1..Len(t) : \A x \in h, y \in t[k].rows : Rank(x) < Rank(y)
Climbing ==
  \A s \in Sessions \ bulk : Ascends(wants[s]) /\ Above(wants[s], holds[s])

\* A requeue asks for runs and has locked runs.
OnRuns(t, h) == RunsOnly(t) /\ \A x \in h : IsRun(x)
Requeueing == \A s \in bulk : OnRuns(wants[s], holds[s])

\* The worker is locked, or asked for, before any of its devices.
Guarded(t, h) ==
  /\ \A x \in h : IsDevice(x) => WorkerRow(x) \in h
  /\ \A k \in 1..Len(t) : \A y \in t[k].rows :
       IsDevice(y) => \/ WorkerRow(y) \in h
                      \/ \E j \in 1..(k - 1) : t[j].rows = {WorkerRow(y)}
WorkersFirst == \A s \in Sessions : Guarded(wants[s], holds[s])

LockInv == LockTypeOK /\ OneHolder /\ Climbing /\ Requeueing /\ WorkersFirst

\* It holds before any transaction.
LEMMA LockInvInit ==
  ASSUME LocksInit
  PROVE  LockInv
  <1>1. LockTypeOK
    BY DEF LocksInit, LockTypeOK
  <1>2. OneHolder
    BY DEF LocksInit, OneHolder
  <1>3. Climbing
    BY DEF LocksInit, Climbing, Ascends, Above
  <1>4. Requeueing
    BY DEF LocksInit, Requeueing
  <1>5. WorkersFirst
    BY DEF LocksInit, WorkersFirst, Guarded
  <1> QED BY <1>1, <1>2, <1>3, <1>4, <1>5 DEF LockInv

\* What the invariant says of one session, with its requests t and rows h.
InOrder(t, h, requeue) ==
  /\ t \in Seq(LockRequests) /\ h \in SUBSET AllRows
  /\ IF requeue THEN OnRuns(t, h) ELSE Ascends(t) /\ Above(t, h)
  /\ Guarded(t, h)

\* One session moves and stays in order.
LEMMA OneMoves ==
  ASSUME LockInv, NEW s \in Sessions, NEW t, NEW h,
         wants' = [wants EXCEPT ![s] = t], holds' = [holds EXCEPT ![s] = h],
         bulk' \subseteq Sessions, bulk' \ {s} = bulk \ {s},
         InOrder(t, h, s \in bulk'),
         \A o \in Sessions \ {s} : h \cap holds[o] = {}
  PROVE  LockInv'
  <1>1. wants \in [Sessions -> Seq(LockRequests)] /\ holds \in [Sessions -> SUBSET AllRows]
    BY DEF LockInv, LockTypeOK
  <1>2. /\ wants'[s] = t /\ \A o \in Sessions \ {s} : wants'[o] = wants[o]
        /\ holds'[s] = h /\ \A o \in Sessions \ {s} : holds'[o] = holds[o]
        /\ \A o \in Sessions \ {s} : o \in bulk' <=> o \in bulk
    BY <1>1
  <1>3. LockTypeOK'
    BY <1>1 DEF InOrder, LockTypeOK
  <1>4. OneHolder'
    BY <1>2 DEF LockInv, OneHolder
  <1>5. Climbing'
    <2> SUFFICES ASSUME NEW o \in Sessions \ bulk'
                 PROVE  Ascends(wants'[o]) /\ Above(wants'[o], holds'[o])
      BY DEF Climbing
    <2>1. CASE o = s BY <1>2, <2>1 DEF InOrder
    <2>2. CASE o # s BY <1>2, <2>2 DEF LockInv, Climbing
    <2> QED BY <2>1, <2>2
  <1>6. Requeueing'
    <2> SUFFICES ASSUME NEW o \in bulk'
                 PROVE  OnRuns(wants'[o], holds'[o])
      BY DEF Requeueing
    <2>1. CASE o = s BY <1>2, <2>1 DEF InOrder
    <2>2. CASE o # s BY <1>2, <2>2 DEF LockInv, Requeueing
    <2> QED BY <2>1, <2>2
  <1>7. WorkersFirst'
    <2> SUFFICES ASSUME NEW o \in Sessions
                 PROVE  Guarded(wants'[o], holds'[o])
      BY DEF WorkersFirst
    <2>1. CASE o = s BY <1>2, <2>1 DEF InOrder
    <2>2. CASE o # s BY <1>2, <2>2 DEF LockInv, WorkersFirst
    <2> QED BY <2>1, <2>2
  <1> QED BY <1>3, <1>4, <1>5, <1>6, <1>7 DEF LockInv

\* A transaction begins with an orderly list of requests.
LEMMA BeginKeeps ==
  ASSUME LockAssumption, LockInv, NEW s \in Sessions, BeginTransaction(s)
  PROVE  LockInv'
  <1>1. PICK t \in Transactions : wants' = [wants EXCEPT ![s] = t]
    BY DEF BeginTransaction
  <1>2. t \in Seq(LockRequests) /\ Ascends(t) /\ UnderWorker(t)
    BY TransactionsOrderly DEF Orderly
  <1>3. InOrder(t, {}, FALSE)
    BY <1>2 DEF InOrder, Above, Guarded, UnderWorker
  <1>4. /\ holds' = [holds EXCEPT ![s] = {}] /\ s \notin bulk'
        /\ bulk' \subseteq Sessions /\ bulk' \ {s} = bulk \ {s}
    BY DEF BeginTransaction, LockInv, LockTypeOK
  <1>5. InOrder(t, {}, s \in bulk')
    BY <1>3, <1>4 DEF InOrder
  <1>6. \A o \in Sessions \ {s} : {} \cap holds[o] = {}
    OBVIOUS
  <1> QED BY <1>1, <1>4, <1>5, <1>6, OneMoves

\* A requeue begins with runs in some order.
LEMMA RequeueKeeps ==
  ASSUME LockAssumption, LockInv, NEW s \in Sessions, BeginRequeue(s)
  PROVE  LockInv'
  <1>1. PICK runs \in SetToAllKPermutations(LockRuns) :
          wants' = [wants EXCEPT ![s] = RequeueLocks(runs)]
    BY DEF BeginRequeue
  <1> DEFINE t == RequeueLocks(runs)
  <1>2. t \in Seq(LockRequests) /\ RunsOnly(t)
    BY RequeueRunsOnly
  <1>3. wants' = [wants EXCEPT ![s] = t]
    BY <1>1
  <1> HIDE DEF t
  <1>4. Guarded(t, {})
    BY <1>2 DEF Guarded, RunsOnly, IsRun, IsDevice
  <1>5. /\ holds' = [holds EXCEPT ![s] = {}] /\ s \in bulk'
        /\ bulk' \subseteq Sessions /\ bulk' \ {s} = bulk \ {s}
    BY DEF BeginRequeue, LockInv, LockTypeOK
  <1>6. InOrder(t, {}, s \in bulk')
    BY <1>2, <1>4, <1>5 DEF InOrder, OnRuns
  <1>7. \A o \in Sessions \ {s} : {} \cap holds[o] = {}
    OBVIOUS
  <1> QED BY <1>3, <1>5, <1>6, <1>7, OneMoves

\* What is left of an orderly list once its first row is locked.
LEMMA TailOrderly ==
  ASSUME NEW t \in Seq(LockRequests), t # <<>>, NEW row \in Head(t).rows,
         NEW h, Ascends(t), Above(t, h), Guarded(t, h),
         NEW u, u = Tail(t), NEW g, g = h \cup {row}
  PROVE  /\ u \in Seq(LockRequests) /\ row \in AllRows
         /\ Ascends(u) /\ Above(u, g) /\ Guarded(u, g)
  <1>1. /\ u \in Seq(LockRequests) /\ Len(t) \in Nat \ {0} /\ Len(u) = Len(t) - 1
        /\ \A i \in 1..Len(u) : u[i] = t[i + 1]
        /\ Head(t) = t[1] /\ t[1] \in LockRequests
    BY HeadTailProperties, EmptySeq, LenProperties, ElementOfSeq
  <1>2. row \in t[1].rows /\ row \in AllRows
    BY <1>1 DEF LockRequests
  <1>3. \A i \in 1..Len(u) : i + 1 \in 1..Len(t) /\ 1 < i + 1
    BY <1>1
  <1>4. Ascends(u)
    <2> SUFFICES ASSUME NEW j \in 1..Len(u), NEW k \in 1..Len(u), j < k
                 PROVE  \A x \in u[j].rows, y \in u[k].rows : Rank(x) < Rank(y)
      BY DEF Ascends
    <2>1. j + 1 < k + 1
      BY <1>1
    <2> QED BY <1>1, <1>3, <2>1 DEF Ascends
  <1>5. ASSUME NEW k \in 1..Len(u), NEW x \in g, NEW y \in u[k].rows
        PROVE  Rank(x) < Rank(y)
    <2>1. y \in t[k + 1].rows /\ k + 1 \in 1..Len(t) /\ 1 \in 1..Len(t) /\ 1 < k + 1
      BY <1>1, <1>3
    <2>2. CASE x \in h BY <2>1, <2>2 DEF Above
    <2>3. CASE x = row BY <1>2, <2>1, <2>3 DEF Ascends
    <2> QED BY <2>2, <2>3
  <1>6. ASSUME NEW x \in g, IsDevice(x) PROVE WorkerRow(x) \in g
    <2>1. CASE x \in h BY <1>6, <2>1 DEF Guarded
    <2>2. CASE x = row
      <3>1. \/ WorkerRow(row) \in h
            \/ \E j \in 1..(1 - 1) : t[j].rows = {WorkerRow(row)}
        BY <1>1, <1>2, <1>6, <2>2 DEF Guarded
      <3> QED BY <2>2, <3>1
    <2> QED BY <2>1, <2>2
  <1>7. ASSUME NEW k \in 1..Len(u), NEW y \in u[k].rows, IsDevice(y), WorkerRow(y) \notin g
        PROVE  \E j \in 1..(k - 1) : u[j].rows = {WorkerRow(y)}
    <2>1. y \in t[k + 1].rows /\ k + 1 \in 1..Len(t)
      BY <1>1, <1>3
    <2>2. PICK j \in 1..((k + 1) - 1) : t[j].rows = {WorkerRow(y)}
      BY <1>7, <2>1 DEF Guarded
    <2>3. j # 1
      BY <1>2, <1>7, <2>2
    <2>4. j - 1 \in 1..(k - 1) /\ j - 1 \in 1..Len(u) /\ (j - 1) + 1 = j
      BY <1>1, <2>2, <2>3
    <2>5. u[j - 1] = t[j]
      BY <1>1, <2>4
    <2> QED BY <2>2, <2>4, <2>5
  <1>8. Above(u, g)
    BY <1>5 DEF Above
  <1>9. Guarded(u, g)
    BY <1>6, <1>7 DEF Guarded
  <1> QED BY <1>1, <1>2, <1>4, <1>8, <1>9

\* What is left of a requeue once its first run is locked.
LEMMA TailRequeue ==
  ASSUME NEW t \in Seq(LockRequests), t # <<>>, NEW row \in Head(t).rows,
         NEW h \in SUBSET AllRows, OnRuns(t, h),
         NEW u, u = Tail(t), NEW g, g = h \cup {row}
  PROVE  InOrder(u, g, TRUE)
  <1>1. /\ u \in Seq(LockRequests) /\ Len(t) \in Nat \ {0} /\ Len(u) = Len(t) - 1
        /\ \A i \in 1..Len(u) : u[i] = t[i + 1]
        /\ Head(t) = t[1] /\ t[1] \in LockRequests
    BY HeadTailProperties, EmptySeq, LenProperties, ElementOfSeq
  <1>2. row \in AllRows /\ IsRun(row)
    BY <1>1 DEF LockRequests, OnRuns, RunsOnly
  <1>3. RunsOnly(u)
    <2>1. \A i \in 1..Len(u) : i + 1 \in 1..Len(t)
      BY <1>1
    <2> QED BY <1>1, <2>1 DEF OnRuns, RunsOnly
  <1>4. OnRuns(u, g)
    BY <1>2, <1>3 DEF OnRuns
  <1>5. Guarded(u, g)
    BY <1>4 DEF Guarded, OnRuns, RunsOnly, IsRun, IsDevice
  <1> QED BY <1>1, <1>2, <1>4, <1>5 DEF InOrder

\* A lock is taken.
LEMMA TakeKeeps ==
  ASSUME LockAssumption, LockInv, NEW s \in Sessions, TakeLock(s)
  PROVE  LockInv'
  <1>1. PICK row \in FreeRows(s) : holds' = [holds EXCEPT ![s] = @ \cup {row}]
    BY DEF TakeLock
  <1>2. wants[s] # <<>> /\ wants' = [wants EXCEPT ![s] = Tail(@)] /\ bulk' = bulk
    BY DEF TakeLock
  <1>3. row \in Head(wants[s]).rows /\ \A o \in Sessions \ {s} : row \notin holds[o]
    BY DEF FreeRows
  <1>4. /\ wants \in [Sessions -> Seq(LockRequests)]
        /\ holds \in [Sessions -> SUBSET AllRows] /\ bulk \subseteq Sessions
    BY DEF LockInv, LockTypeOK
  <1> DEFINE t == Tail(wants[s])
             h == holds[s] \cup {row}
  <1>5. wants' = [wants EXCEPT ![s] = t] /\ holds' = [holds EXCEPT ![s] = h]
    BY <1>1, <1>2, <1>4
  <1>6. InOrder(t, h, s \in bulk')
    <2>1. CASE s \in bulk
      <3>1. OnRuns(wants[s], holds[s])
        BY <2>1 DEF LockInv, Requeueing
      <3>2. InOrder(t, h, TRUE)
        BY <1>2, <1>3, <1>4, <3>1, TailRequeue
      <3> QED BY <1>2, <2>1, <3>2 DEF InOrder
    <2>2. CASE s \notin bulk
      <3>1. /\ wants[s] \in Seq(LockRequests) /\ Ascends(wants[s])
            /\ Above(wants[s], holds[s]) /\ Guarded(wants[s], holds[s])
        BY <1>4, <2>2 DEF LockInv, Climbing, WorkersFirst
      <3>2. /\ t \in Seq(LockRequests) /\ row \in AllRows
            /\ Ascends(t) /\ Above(t, h) /\ Guarded(t, h)
        BY <1>2, <1>3, <3>1, TailOrderly
      <3>3. h \in SUBSET AllRows
        BY <1>4, <3>2
      <3> HIDE DEF t, h
      <3> QED BY <1>2, <2>2, <3>2, <3>3 DEF InOrder
    <2> QED BY <2>1, <2>2
  <1>7. \A o \in Sessions \ {s} : h \cap holds[o] = {}
    BY <1>3 DEF LockInv, OneHolder
  <1> HIDE DEF t, h
  <1> QED BY <1>2, <1>4, <1>5, <1>6, <1>7, OneMoves

\* A transaction ends and gives its locks back.
LEMMA EndKeeps ==
  ASSUME LockInv, NEW s \in Sessions, EndTransaction(s)
  PROVE  LockInv'
  <1>1. /\ wants' = [wants EXCEPT ![s] = <<>>] /\ holds' = [holds EXCEPT ![s] = {}]
        /\ s \notin bulk' /\ bulk' \subseteq Sessions /\ bulk' \ {s} = bulk \ {s}
    BY DEF EndTransaction, LockInv, LockTypeOK
  <1>2. InOrder(<<>>, {}, s \in bulk')
    BY <1>1 DEF InOrder, Ascends, Above, Guarded
  <1> QED BY <1>1, <1>2, OneMoves

-----------------------------------------------------------------------------
(* No circle *)

\* Nobody waits for a device: both would hold the lock on its worker.
LEMMA DeviceNeverWaitedFor ==
  ASSUME LockInv, NEW s \in Sessions, NEW o \in Sessions, WaitsFor(s, o),
         NEW x \in Head(wants[s]).rows \cap holds[o]
  PROVE  ~IsDevice(x)
  <1> SUFFICES ASSUME IsDevice(x) PROVE FALSE
    OBVIOUS
  <1>1. s # o /\ wants[s] # <<>> /\ wants[s] \in Seq(LockRequests)
    BY DEF LockInv, LockTypeOK, WaitsFor
  <1>2. 1 \in 1..Len(wants[s]) /\ Head(wants[s]) = wants[s][1]
    BY <1>1, HeadTailProperties, EmptySeq, LenProperties
  <1>3. WorkerRow(x) \in holds[o]
    BY DEF LockInv, WorkersFirst, Guarded
  <1>4. \/ WorkerRow(x) \in holds[s]
        \/ \E j \in 1..(1 - 1) : wants[s][j].rows = {WorkerRow(x)}
    BY <1>2 DEF LockInv, WorkersFirst, Guarded
  <1>5. WorkerRow(x) \in holds[s]
    BY <1>4
  <1> QED BY <1>1, <1>3, <1>5 DEF LockInv, OneHolder

\* The row a session of a circle waits for, and who holds it.  A row held by a
\* session other than a requeue ranks below what that session waits for.
LEMMA CircleFacts ==
  ASSUME LockInv, NEW circle \in SUBSET Sessions, Circular(circle), NEW s \in circle
  PROVE  \E o \in circle : \E x \in AllRows :
           /\ WaitsFor(s, o) /\ x \in Head(wants[s]).rows \cap holds[o]
           /\ Rank(x) \in Nat /\ Rank(x) <= 3
           /\ s \in bulk => IsRun(x)
           /\ s \notin bulk => \A z \in holds[s] : Rank(z) < Rank(x)
  <1>1. PICK o \in circle : WaitsFor(s, o)
    BY DEF Circular
  <1>2. PICK x : x \in Head(wants[s]).rows \cap holds[o]
    BY <1>1 DEF WaitsFor
  <1>3. x \in AllRows
    BY <1>2 DEF LockInv, LockTypeOK
  <1>4. ~IsDevice(x)
    BY <1>1, <1>2, DeviceNeverWaitedFor
  <1>5. Rank(x) \in Nat /\ Rank(x) <= 3
    BY <1>3, <1>4, RankType
  <1>6. wants[s] # <<>> /\ wants[s] \in Seq(LockRequests)
    BY <1>1 DEF LockInv, LockTypeOK, WaitsFor
  <1>7. 1 \in 1..Len(wants[s]) /\ Head(wants[s]) = wants[s][1]
    BY <1>6, HeadTailProperties, EmptySeq, LenProperties
  <1>8. s \in bulk => IsRun(x)
    BY <1>2, <1>7 DEF LockInv, Requeueing, OnRuns, RunsOnly
  <1>9. s \notin bulk => \A z \in holds[s] : Rank(z) < Rank(x)
    BY <1>2, <1>7 DEF LockInv, Climbing, Above
  <1> QED BY <1>1, <1>2, <1>3, <1>5, <1>8, <1>9

\* Without a requeue the ranks would grow without end along a circle.
LEMMA CircleHasRequeue ==
  ASSUME LockInv, NEW circle \in SUBSET Sessions, Circular(circle)
  PROVE  circle \cap bulk # {}
  <1> SUFFICES ASSUME circle \cap bulk = {} PROVE FALSE
    OBVIOUS
  <1> DEFINE Waited == {x \in AllRows : \E s, o \in circle :
                          /\ WaitsFor(s, o) /\ x \in Head(wants[s]).rows \cap holds[o]
                          /\ Rank(x) \in Nat /\ Rank(x) <= 3}
             Gap(x) == 3 - Rank(x)
             gaps == {Gap(x) : x \in Waited}
  <1>1. ASSUME NEW x \in Waited
        PROVE  /\ Rank(x) \in Nat /\ Gap(x) \in Nat
               /\ \E y \in Waited : Rank(x) < Rank(y)
    <2>1. PICK s \in circle, o \in circle :
            /\ WaitsFor(s, o) /\ x \in Head(wants[s]).rows \cap holds[o]
            /\ Rank(x) \in Nat /\ Rank(x) <= 3
      OBVIOUS
    <2>2. PICK p \in circle, y \in AllRows :
            /\ WaitsFor(o, p) /\ y \in Head(wants[o]).rows \cap holds[p]
            /\ Rank(y) \in Nat /\ Rank(y) <= 3
            /\ o \notin bulk => \A z \in holds[o] : Rank(z) < Rank(y)
      BY CircleFacts
    <2>3. y \in Waited /\ Rank(x) < Rank(y)
      BY <2>1, <2>2
    <2> QED BY <2>1, <2>3
  <1>2. gaps \subseteq Nat /\ gaps # {}
    <2>1. PICK s \in circle : TRUE
      BY DEF Circular
    <2>2. Waited # {}
      BY CircleFacts
    <2>3. \A x \in Waited : Gap(x) \in Nat
      BY <1>1
    <2> HIDE DEF Waited, Gap
    <2> QED BY <2>2, <2>3
  <1> HIDE DEF Waited
  <1>3. PICK x \in Waited : \A y \in Waited : Gap(x) <= Gap(y)
    <2>1. PICK g \in gaps : \A h \in gaps : g <= h
      BY <1>2, LeastNatural
    <2> QED BY <2>1
  <1>4. PICK y \in Waited : Rank(x) < Rank(y)
    BY <1>1
  <1>5. Rank(x) \in Nat /\ Rank(y) \in Nat
    BY <1>1
  <1>6. Gap(x) <= Gap(y)
    BY <1>3
  <1> QED BY <1>4, <1>5, <1>6

\* In a circle only a requeue holds a run: anyone else would wait for an
\* attempt, whose holder waits for nothing.
LEMMA RunHolderIsRequeue ==
  ASSUME LockInv, NEW circle \in SUBSET Sessions, Circular(circle),
         NEW o \in circle, NEW x \in holds[o], IsRun(x)
  PROVE  o \in bulk
  <1> SUFFICES ASSUME o \notin bulk PROVE FALSE
    OBVIOUS
  <1>1. Rank(x) = 2
    BY DEF Rank, IsRun, IsDevice
  <1>2. PICK p \in circle, y \in AllRows :
          /\ y \in holds[p] /\ Rank(y) \in Nat /\ Rank(y) <= 3 /\ 2 < Rank(y)
    BY <1>1, CircleFacts
  <1>3. p \notin bulk
    <2>1. ~IsRun(y)
      BY <1>2 DEF Rank, IsRun, IsDevice
    <2> QED BY <1>2, <2>1 DEF LockInv, Requeueing, OnRuns
  <1>4. PICK z \in AllRows : Rank(z) \in Nat /\ Rank(z) <= 3 /\ Rank(y) < Rank(z)
    BY <1>2, <1>3, CircleFacts
  <1> QED BY <1>2, <1>4

\* From a requeue a circle leads to requeues alone.
LEMMA InvNoCircle ==
  ASSUME LockInv
  PROVE  NoCircularWait
  <1> SUFFICES ASSUME NEW circle \in SUBSET Sessions, Circular(circle)
               PROVE  Circular(circle \cap bulk)
    BY DEF NoCircularWait
  <1>1. circle \cap bulk # {}
    BY CircleHasRequeue
  <1>2. ASSUME NEW s \in circle \cap bulk
        PROVE  \E o \in circle \cap bulk : WaitsFor(s, o)
    <2>1. PICK o \in circle, x \in AllRows :
            WaitsFor(s, o) /\ x \in holds[o] /\ IsRun(x)
      BY CircleFacts
    <2>2. o \in bulk
      BY <2>1, RunHolderIsRequeue
    <2> QED BY <2>1, <2>2
  <1> QED BY <1>1, <1>2 DEF Circular

\* The invariant holds of every behaviour.
LEMMA LockInvHolds == LocksSpec => []LockInv
  <1> USE LockAssumption
  <1>1. LocksInit => LockInv
    BY LockInvInit
  <1>2. LockInv /\ [LocksNext]_lockVars => LockInv'
    <2> SUFFICES ASSUME LockInv, [LocksNext]_lockVars PROVE LockInv'
      OBVIOUS
    <2>1. CASE LocksNext
      BY <2>1, BeginKeeps, RequeueKeeps, TakeKeeps, EndKeeps DEF LocksNext
    <2>2. CASE UNCHANGED lockVars
      BY <2>2 DEF lockVars, LockInv, LockTypeOK, OneHolder, Climbing, Requeueing, WorkersFirst
    <2> QED BY <2>1, <2>2
  <1> QED BY <1>1, <1>2, PTL DEF LocksSpec

(* The transactions of the store never wait for each other in a circle,    *)
(* but for requeues of recover() among themselves, which may lock the due  *)
(* runs in any order; with any number of sessions, workers, runs and       *)
(* devices (workers.cpp:51-99, ownership.cpp:10-17, gpus.cpp:126-131,      *)
(* recovery.cpp:22).                                                       *)
THEOREM NoCircularWaitHolds == LocksSpec => []NoCircularWait
  <1>1. LockInv => NoCircularWait
    BY InvNoCircle
  <1> QED BY <1>1, LockInvHolds, PTL

(* While no two requeues run at once, as with one leader, nobody waits in  *)
(* a circle at all (recovery.cpp:18-27, server.cpp's recovery loop).       *)
THEOREM OneRequeueNoCircle ==
  LocksSpec => []((\A s, o \in bulk : s = o) =>
                    \A circle \in SUBSET Sessions : ~Circular(circle))
  <1>1. LockInv => ((\A s, o \in bulk : s = o) =>
                      \A circle \in SUBSET Sessions : ~Circular(circle))
    <2> SUFFICES ASSUME LockInv, \A s, o \in bulk : s = o,
                        NEW circle \in SUBSET Sessions, Circular(circle)
                 PROVE  FALSE
      OBVIOUS
    <2>1. Circular(circle \cap bulk)
      BY InvNoCircle DEF NoCircularWait
    <2> QED BY <2>1 DEF Circular, WaitsFor
  <1> QED BY <1>1, LockInvHolds, PTL
=============================================================================
