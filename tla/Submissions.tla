------------------------------ MODULE Submissions ------------------------------
(***************************************************************************)
(* The requests that create runs: submit and rerun, which share the keys of*)
(* the table submissions, and sweeps with keys of their own                *)
(* (src/src/application/runs.cpp over src/src/postgres/{runs,sweeps}.cpp). *)
(* A call is one HTTP request, answered 503 or not at all when the server  *)
(* or its connection fails; clients repeat such a request with its key     *)
(* (src/src/cli/client.cpp).  Rows a transaction has written are seen by   *)
(* others when it commits.  What becomes of a run is AttemptStore.         *)
(***************************************************************************)
EXTENDS Naturals, FiniteSets

CONSTANTS
  SubmitKeys,  \* idempotency keys
  Bodies,      \* specifications of runs, or of sweeps: what is fingerprinted
  Width,       \* runs of a sweep
  CallTries,   \* tries of Client::call, 3
  Clients      \* bound: commands, each with a request of its own

ASSUME SubmissionConstants ==
  /\ Width \in Nat \ {0} /\ CallTries \in Nat \ {0}
  /\ "none" \notin SubmitKeys \union Bodies

VARIABLES
  tables,  \* submissions, sweeps and runs, as committed
  req,     \* req[c]: the request of the command c, its tries and its answer
  tx,      \* tx[c]: the transaction that serves its last try
  next     \* random_id: the next identity nobody has used

submitVars == <<tables, req, tx, next>>

Kinds == {"submit", "rerun", "sweep"}
Space(kind) == IF kind = "sweep" THEN 1 ELSE 0   \* the seed of the lock's hash

NoTx == [pc |-> "none", locked |-> FALSE, new |-> {}, id |-> 0]

\* Run 0 exists and may be rerun once it has ended.
SubmissionsInit ==
  /\ tables = [submissions |-> {}, sweeps |-> {}, ended |-> FALSE,
               runs |-> {[id |-> 0, sweep |-> 0]}]
  /\ req \in [Clients -> [kind: Kinds, key: SubmitKeys, body: Bodies,
                          tries: {0}, answer: {"none"}, result: {0}]]
  /\ \A c \in Clients : req[c].kind = "rerun" => req[c].body = CHOOSE b \in Bodies : TRUE
  /\ tx = [c \in Clients |-> NoTx]
  /\ next = 1

\* sha256 of the specification, or of "rerun:" and the run.
Fingerprint(c) == <<IF req[c].kind = "rerun" THEN "rerun" ELSE "spec", req[c].body>>
KeyRows(c) == {s \in IF req[c].kind = "sweep" THEN tables.sweeps ELSE tables.submissions :
                 s.key = req[c].key}

\* One step of the handler; an answer ends its transaction.
AtTx(c, pc) == tx[c].pc = pc
Answered(c, answer, result) ==
  /\ req' = [req EXCEPT ![c].answer = answer, ![c].result = result]
  /\ tx' = [tx EXCEPT ![c] = NoTx]

(***************************************************************************)
(* The client.                                                             *)
(***************************************************************************)

\* A first try, or another one after 503 or a lost answer.
SendRequest(c) ==
  /\ AtTx(c, "none") /\ req[c].answer \in {"none", "unavailable"}
  /\ req[c].tries < CallTries
  /\ req' = [req EXCEPT ![c].tries = @ + 1, ![c].answer = "none"]
  /\ tx' = [tx EXCEPT ![c].pc = "lock"]
  /\ UNCHANGED <<tables, next>>

(***************************************************************************)
(* The server: lock the key, look it up, insert, commit.                   *)
(***************************************************************************)

\* Mutant: the key is not locked.
NoLock(c) == TRUE

\* pg_advisory_xact_lock waits for the transaction that holds the key.
Unlocked(c) ==
  \A d \in Clients \ {c} : ~(/\ tx[d].locked /\ req[d].key = req[c].key
                             /\ Space(req[d].kind) = Space(req[c].kind))
LockKey(c) ==
  /\ AtTx(c, "lock") /\ Unlocked(c)
  /\ tx' = [tx EXCEPT ![c].pc = "read", ![c].locked = TRUE]
  /\ UNCHANGED <<tables, req, next>>

\* A key that is known repeats its answer, or conflicts with another request.
Matches(c, s) == s.fingerprint = Fingerprint(c)
KnownKey(c) ==
  /\ AtTx(c, "read") /\ KeyRows(c) # {}
  /\ \E s \in KeyRows(c) : IF Matches(c, s) THEN Answered(c, "ok", s.id)
                                           ELSE Answered(c, "conflict", 0)
  /\ UNCHANGED <<tables, next>>

\* Only a run that has ended is rerun.
RerunRefused(c) ==
  /\ AtTx(c, "read") /\ KeyRows(c) = {}
  /\ req[c].kind = "rerun" /\ ~tables.ended
  /\ Answered(c, "conflict", 0)
  /\ UNCHANGED <<tables, next>>

NewKey(c) ==
  /\ AtTx(c, "read") /\ KeyRows(c) = {}
  /\ req[c].kind = "rerun" => tables.ended
  /\ tx' = [tx EXCEPT ![c].pc = "insert", ![c].id = next]
  /\ next' = next + 1
  /\ UNCHANGED <<tables, req>>

\* The runs are inserted one by one; the transaction keeps them to itself.
RunRow(c, n) == [id |-> n, sweep |-> IF req[c].kind = "sweep" THEN tx[c].id ELSE 0]
InsertRun(c) ==
  /\ AtTx(c, "insert")
  /\ tx' = [tx EXCEPT ![c].new = @ \union {RunRow(c, IF req[c].kind = "sweep" THEN next
                                                     ELSE tx[c].id)},
                      ![c].pc = IF req[c].kind # "sweep"
                                   \/ Cardinality(tx[c].new) + 1 = Width
                                THEN "commit" ELSE "insert"]
  /\ next' = IF req[c].kind = "sweep" THEN next + 1 ELSE next
  /\ UNCHANGED <<tables, req>>

\* The unique index on the key refuses a second row; otherwise everything the
\* transaction wrote becomes visible together.  The answer may be lost on its
\* way, from the database (an outcome in doubt is answered 503) or to the
\* client.
Committed(c) ==
  LET row == [key |-> req[c].key, fingerprint |-> Fingerprint(c), id |-> tx[c].id]
  IN [tables EXCEPT
        !.runs = @ \union tx[c].new,
        !.sweeps = IF req[c].kind = "sweep" THEN @ \union {row} ELSE @,
        !.submissions = IF req[c].kind = "sweep" THEN @ ELSE @ \union {row}]
Commit(c, told) ==
  /\ AtTx(c, "commit")
  /\ IF KeyRows(c) # {} THEN Answered(c, "duplicate", 0) /\ UNCHANGED tables
     ELSE /\ tables' = Committed(c)
          /\ IF told THEN Answered(c, "ok", tx[c].id)
                     ELSE Answered(c, "unavailable", 0)
  /\ UNCHANGED next

\* The connection fails, the pool is busy, the queue full, or the server ends:
\* the transaction is rolled back.
CallFails(c) ==
  /\ ~AtTx(c, "none")
  /\ Answered(c, "unavailable", 0)
  /\ UNCHANGED <<tables, next>>

RunZeroEnds ==
  /\ ~tables.ended /\ tables' = [tables EXCEPT !.ended = TRUE]
  /\ UNCHANGED <<req, tx, next>>

SubmissionsNext ==
  \/ RunZeroEnds
  \/ \E c \in Clients :
       \/ SendRequest(c) \/ LockKey(c) \/ KnownKey(c) \/ RerunRefused(c)
       \/ NewKey(c) \/ InsertRun(c) \/ CallFails(c)
       \/ \E told \in BOOLEAN : Commit(c, told)

SubmissionsSpec == SubmissionsInit /\ [][SubmissionsNext]_submitVars

(***************************************************************************)
(* Properties.                                                             *)
(***************************************************************************)

Successful(c) == req[c].answer = "ok"

\* Repeating a request, also while its first try is still being served, never
\* starts another run or sweep: every run besides run 0 belongs to the one row
\* of its key, and a sweep has all of its runs or does not exist.
OneResultPerKey ==
  /\ \A r \in tables.runs : \/ r.id = 0
                            \/ \E s \in tables.submissions : s.id = r.id
                            \/ \E s \in tables.sweeps : s.id = r.sweep
  /\ \A s \in tables.submissions : \E r \in tables.runs : r.id = s.id /\ r.sweep = 0
  /\ \A s \in tables.sweeps :
       Cardinality({r \in tables.runs : r.sweep = s.id}) = Width

\* Requests that succeed under one key were the same request and are told the
\* same result, and that result exists.
SameAnswer ==
  \A c, d \in Clients :
    /\ Successful(c) => \E s \in KeyRows(c) : s.id = req[c].result
    /\ (/\ Successful(c) /\ Successful(d) /\ req[c].key = req[d].key
        /\ Space(req[c].kind) = Space(req[d].kind))
         => req[c].result = req[d].result /\ Fingerprint(c) = Fingerprint(d)

\* The lock on the key spares every caller the unique index: none is answered
\* with its violation instead of the result.
NoDuplicateKey == \A c \in Clients : req[c].answer # "duplicate"

\* A request that creates runs takes effect once per key, and all who ask with
\* this key are told so.
SubmittedOnce == OneResultPerKey /\ SameAnswer /\ NoDuplicateKey

=============================================================================
