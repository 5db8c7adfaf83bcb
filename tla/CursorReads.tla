---------------------------- MODULE CursorReads ----------------------------
(***************************************************************************)
(* Reading by cursor while the run goes on: the events of a run, numbered  *)
(* by concurrent transactions (pg::event), and the telemetry of its        *)
(* attempts, read page by page by the CLI (logs with and without --follow, *)
(* metrics) and by the web page's useTelemetry.  Every reader keeps        *)
(* only a cursor; the run is retried, cancelled or finished, and records   *)
(* are stored, between any two of its requests.                            *)
(***************************************************************************)
EXTENDS Integers, Sequences, FiniteSets, FiniteSetsExt, SequencesExt

CONSTANTS
  MaxAttempts,  \* bound: attempts of the run
  MaxStored,    \* bound: telemetry records of the run
  PageLimit,    \* the LIMIT of a page (100 in the CLI, 1000 on the web page)
  ViewMax,      \* records the web page keeps
  EventWriters, \* transactions that write one event each
  Modes         \* which readers: members of Mode

Mode == {"follow", "fixed", "once", "export", "view", "events"}

ASSUME ReadsAssumption ==
  /\ {MaxAttempts, PageLimit, ViewMax} \subseteq Nat \ {0}
  /\ Modes \subseteq Mode

VARIABLES
  runStatus,   \* "QUEUED", "EXECUTING" or "DONE"
  active,      \* active_attempt; 0 is none
  stored,      \* attempt -> kinds of its records, by sequence
  reader,      \* the reader's local variables
  shown,       \* attempt the reader thought it read -> <<attempt, sequence>>
  evSequence,  \* runs.event_sequence as the lock holder sees it
  evCommitted, \* runs.event_sequence as committed
  evTx,        \* event writer -> its transaction
  events,      \* committed events: sequence numbers
  evReader     \* a reader of /events: its cursor and what it has got

runVars == <<runStatus, active, stored>>
evVars == <<evSequence, evCommitted, evTx, events, evReader>>
readVars == <<runStatus, active, stored, reader, shown, evVars>>

Attempts0 == 0..MaxAttempts

(* --attempt names an attempt that exists. *)
ReadsInit ==
  /\ stored = [a \in 1..MaxAttempts |-> <<>>]
  /\ \E mode \in Modes :
       reader = [mode |-> mode, at |-> "run", cursor |-> 0, seen |-> FALSE,
                 attempt |-> IF mode = "fixed" THEN 1 ELSE 0,
                 selected |-> 0, over |-> FALSE, page |-> <<>>]
  /\ active = reader.attempt
  /\ runStatus = IF active = 0 THEN "QUEUED" ELSE "EXECUTING"
  /\ shown = [a \in Attempts0 |-> <<>>]
  /\ evSequence = 0 /\ evCommitted = 0
  /\ evTx = [w \in EventWriters |-> [at |-> "begin", sequence |-> 0]]
  /\ events = {}
  /\ evReader = [cursor |-> 0, got |-> <<>>]

-----------------------------------------------------------------------------
(* What the rest of the system does to the run, seen by its readers:       *)
(* AttemptStore has the details.                                           *)
RunAssigned ==
  /\ runStatus = "QUEUED" /\ active < MaxAttempts
  /\ active' = active + 1 /\ runStatus' = "EXECUTING"
  /\ UNCHANGED <<stored, reader, shown, evVars>>

(* Only the owner of the run's active attempt may report. *)
RecordStored ==
  /\ runStatus = "EXECUTING"
  /\ FoldFunction(LAMBDA records, n : Len(records) + n, 0, stored) < MaxStored
  /\ \E kind \in {"logs", "metric"} :
       stored' = [stored EXCEPT ![active] = Append(@, kind)]
  /\ UNCHANGED <<runStatus, active, reader, shown, evVars>>

RunRequeued ==
  /\ runStatus = "EXECUTING" /\ active < MaxAttempts
  /\ runStatus' = "QUEUED"
  /\ UNCHANGED <<active, stored, reader, shown, evVars>>

RunEnded ==
  /\ runStatus # "DONE"
  /\ runStatus' = "DONE"
  /\ UNCHANGED <<active, stored, reader, shown, evVars>>

-----------------------------------------------------------------------------
(* sequence > after ORDER BY sequence LIMIT limit, of a set of sequences. *)
InOrder(S) ==
  [i \in 1..Cardinality(S) |-> CHOOSE s \in S : Cardinality({t \in S : t < s}) = i - 1]

PageOf(all, after) ==
  LET later == {s \in all : s > after}
  IN InOrder({s \in later : Cardinality({t \in later : t < s}) < PageLimit})

Sequences(a, kind) ==
  IF a = 0 THEN {} ELSE {s \in DOMAIN stored[a] : stored[a][s] = kind}

(* The empty string stands for the active attempt, both in the handler and *)
(* in the query.                                                           *)
Coalesce(a) == IF a = 0 THEN active ELSE a

TelemetryPage(a, kind, after) == PageOf(Sequences(Coalesce(a), kind), after)

\* Mutant: the cursor advances by the number of records.
NextCursorByCount(page, after) == after + Len(page)

NextCursor(page, after) == IF page = <<>> THEN after ELSE Last(page)

Kind == IF reader.mode = "export" THEN "metric" ELSE "logs"

Shows(a, page) ==
  shown' = [shown EXCEPT
             ![a] = @ \o [i \in 1..Len(page) |-> <<Coalesce(a), page[i]>>]]

\* Mutant: the follower forgets that it has seen the run end.
FollowRunForgetting ==
  /\ reader.mode \in {"follow", "fixed", "once"} /\ reader.at = "run"
  /\ LET switch == reader.mode # "fixed" /\ active # reader.attempt
     IN reader' = [reader EXCEPT
                    !.at = "page", !.selected = active,
                    !.over = runStatus = "DONE", !.seen = FALSE,
                    !.attempt = IF switch THEN active ELSE @,
                    !.cursor = IF switch THEN 0 ELSE @]
  /\ UNCHANGED <<runVars, shown, evVars>>

(* show_logs, top of the loop: the run is fetched, and a new attempt is    *)
(* followed from its beginning.                                            *)
FollowRun ==
  /\ reader.mode \in {"follow", "fixed", "once"} /\ reader.at = "run"
  /\ LET switch == reader.mode # "fixed" /\ active # reader.attempt
     IN reader' = [reader EXCEPT
                    !.at = "page", !.selected = active,
                    !.over = runStatus = "DONE",
                    !.attempt = IF switch THEN active ELSE @,
                    !.cursor = IF switch THEN 0 ELSE @,
                    !.seen = IF switch THEN FALSE ELSE @]
  /\ UNCHANGED <<runVars, shown, evVars>>

(* Read once more after seeing a terminal state. *)
FollowDone(page) ==
  reader.mode = "once" \/ (reader.seen /\ page = <<>>)

(* show_logs, rest of the loop: one page is fetched and printed. *)
FollowPage ==
  /\ reader.mode \in {"follow", "fixed", "once"} /\ reader.at = "page"
  /\ LET page == TelemetryPage(reader.attempt, "logs", reader.cursor)
         full == Len(page) = PageLimit
     IN /\ Shows(reader.attempt, page)
        /\ reader' = [reader EXCEPT
             !.cursor = NextCursor(page, @),
             !.at = IF ~full /\ FollowDone(page) THEN "ended" ELSE "run",
             !.seen = IF full \/ FollowDone(page) THEN @
                      ELSE \/ reader.over
                           \/ (reader.mode = "fixed"
                               /\ reader.selected # reader.attempt)]
  /\ UNCHANGED <<runVars, evVars>>

(* export_metrics: the attempt is chosen once, then pages until a short one. *)
ExportRun ==
  /\ reader.mode = "export" /\ reader.at = "run"
  /\ reader' = [reader EXCEPT !.at = "page", !.attempt = active]
  /\ UNCHANGED <<runVars, shown, evVars>>

ExportPage ==
  /\ reader.mode = "export" /\ reader.at = "page"
  /\ LET page == TelemetryPage(reader.attempt, "metric", reader.cursor)
     IN /\ Shows(reader.attempt, page)
        /\ reader' = [reader EXCEPT
             !.cursor = NextCursor(page, @),
             !.at = IF Len(page) < PageLimit THEN "ended" ELSE @]
  /\ UNCHANGED <<runVars, evVars>>

-----------------------------------------------------------------------------
(* The web page.  useTelemetry restarts, and aborts the request under way, *)
(* when the attempt shown or its being live changes; what the page knows   *)
(* of that comes from two queries, of the run and of its attempts.         *)
ViewRefresh ==
  /\ reader.mode = "view" /\ active > 0
  /\ \E over \in {runStatus = "DONE", runStatus # "EXECUTING"} :
       /\ <<active, over>> # <<reader.attempt, reader.over>>
       /\ ~(reader.over /\ reader.attempt = active)
       /\ reader' = [reader EXCEPT !.at = "page", !.attempt = active,
                                   !.over = over, !.cursor = 0, !.page = <<>>]
  /\ shown' = [a \in Attempts0 |-> <<>>]
  /\ UNCHANGED <<runVars, evVars>>

ViewAsk ==
  /\ reader.mode = "view" /\ reader.at = "page"
  /\ reader' = [reader EXCEPT
       !.at = "answer",
       !.page = TelemetryPage(reader.attempt, "logs", reader.cursor)]
  /\ UNCHANGED <<runVars, shown, evVars>>

Bounded(items) ==
  SubSeq(items, IF Len(items) > ViewMax THEN Len(items) - ViewMax + 1 ELSE 1,
         Len(items))

(* The items behind the cursor. *)
Fresh(items) ==
  FoldLeft(LAMBDA kept, s : IF s > reader.cursor THEN Append(kept, s) ELSE kept,
           <<>>, items)

ViewShow ==
  /\ reader.mode = "view" /\ reader.at = "answer"
  /\ LET a == reader.attempt
         fresh == Fresh(reader.page)
         full == Len(reader.page) = PageLimit
         cursor == NextCursor(reader.page, reader.cursor)
     IN /\ shown' = [shown EXCEPT ![a] =
              Bounded(@ \o [i \in 1..Len(fresh) |-> <<a, fresh[i]>>])]
        /\ reader' = [reader EXCEPT
             !.cursor = cursor, !.page = <<>>,
             !.at = IF ~reader.over \/ (full /\ cursor > reader.cursor)
                      THEN "page" ELSE "ended"]
  /\ UNCHANGED <<runVars, evVars>>

ViewFails ==
  /\ reader.mode = "view" /\ reader.at = "answer"
  /\ reader' = [reader EXCEPT !.page = <<>>,
                              !.at = IF reader.over THEN "error" ELSE "page"]
  /\ UNCHANGED <<runVars, shown, evVars>>

-----------------------------------------------------------------------------
(* pg::event in concurrent transactions.  UPDATE runs ... RETURNING takes  *)
(* the row's lock until the transaction ends.                              *)
RunLockFree(w) == \A v \in EventWriters \ {w} : evTx[v].at # "inserted"

WriteEvent(w) ==
  /\ evTx[w].at = "begin" /\ RunLockFree(w)
  /\ evSequence' = evSequence + 1
  /\ evTx' = [evTx EXCEPT ![w] = [at |-> "inserted", sequence |-> evSequence + 1]]
  /\ UNCHANGED <<runVars, reader, shown, evCommitted, events, evReader>>

CommitEvent(w) ==
  /\ evTx[w].at = "inserted"
  /\ evTx' = [evTx EXCEPT ![w].at = "over"]
  /\ events' = events \cup {evTx[w].sequence}
  /\ evCommitted' = evSequence
  /\ UNCHANGED <<runVars, reader, shown, evSequence, evReader>>

(* The transaction is rolled back: its number is used again. *)
AbortEvent(w) ==
  /\ evTx[w].at = "inserted"
  /\ evTx' = [evTx EXCEPT ![w].at = "over"]
  /\ evSequence' = evCommitted
  /\ UNCHANGED <<runVars, reader, shown, evCommitted, events, evReader>>

(* GET /events?after=: the client's next cursor is the last one it got. *)
ReadEvents ==
  LET page == PageOf(events, evReader.cursor)
  IN /\ page # <<>>
     /\ evReader' = [cursor |-> Last(page), got |-> evReader.got \o page]
     /\ UNCHANGED <<runVars, reader, shown, evSequence, evCommitted, evTx, events>>

-----------------------------------------------------------------------------
EventStep ==
  \/ \E w \in EventWriters : WriteEvent(w) \/ CommitEvent(w) \/ AbortEvent(w)
  \/ ReadEvents

ReaderStep ==
  FollowRun \/ FollowPage \/ ExportRun \/ ExportPage \/ ViewAsk \/ ViewShow

RunStep == RunAssigned \/ RecordStored \/ RunRequeued \/ RunEnded

ReadsNext ==
  \/ reader.mode # "events" /\ (RunStep \/ ReaderStep \/ ViewRefresh \/ ViewFails)
  \/ reader.mode = "events" /\ EventStep

ReadsSpec == ReadsInit /\ [][ReadsNext]_readVars

-----------------------------------------------------------------------------
(* A cursor stands for everything before it: a reader that names its       *)
(* attempt, as all do once they know of one, has shown of it exactly the   *)
(* records of its kind up to its cursor, each once and in order, although  *)
(* sequence numbers are shared by logs and metrics (telemetry.cpp:37-42,   *)
(* api.cpp:211); the web page keeps the last ones of them and never shows  *)
(* another attempt's.                                                      *)
CursorExact ==
  LET a == reader.attempt
      due == InOrder({s \in Sequences(Coalesce(a), Kind) : s <= reader.cursor})
      all == [i \in 1..Len(due) |-> <<Coalesce(a), due[i]>>]
  IN a # 0 => shown[a] = IF reader.mode = "view" THEN Bounded(all) ELSE all

(* A reader that asked before the run had an attempt names none, and each  *)
(* page is of the attempt that is active when it is asked for              *)
(* (telemetry.cpp:39).  A follower does so for at most one page, the first *)
(* records of one attempt, which it prints again once it knows the name    *)
(* (workflows.cpp:16-21).  An export takes its cursor along                *)
(* (workflows.cpp:55-76): what it shows is in order and nothing comes      *)
(* twice, but of a later attempt it shows only the records numbered above  *)
(* those it has shown of an earlier one.                                   *)
UnnamedRead ==
  LET got == shown[0]
  IN \A i \in DOMAIN got :
       LET wanted == Sequences(got[i][1], Kind)
       IN /\ got[i][2] \in wanted
          /\ \A j \in 1..(i - 1) : got[j][1] <= got[i][1] /\ got[j][2] < got[i][2]
          /\ \A s \in wanted : s < got[i][2] =>
               \E j \in 1..(i - 1) : \/ got[j] = <<got[i][1], s>>
                                     \/ got[j][1] < got[i][1] /\ s <= got[j][2]
          /\ reader.mode # "export" => i <= PageLimit /\ got[i][1] = got[1][1]

(* --follow ends only when everything the run's last attempt, or the       *)
(* attempt asked for, will ever have stored is printed (workflows.cpp:36), *)
(* and without a name only if there never was an attempt; the web page     *)
(* stops polling only then ("Polling stops after a finished attempt's      *)
(* saved output has been read", docs/UI.md:68).                            *)
FollowComplete ==
  reader.at = "ended" /\ reader.mode \in {"follow", "fixed", "view"} =>
    LET a == reader.attempt
    IN /\ reader.mode = "follow" /\ a = 0 => active = 0
       /\ \A s \in Sequences(a, "logs") :
            \/ <<a, s>> \in ToSet(shown[a])
            \/ reader.mode = "view" /\ Len(shown[a]) = ViewMax

(* A follower of a run that ended ends (workflows.cpp:34-36). *)
FollowEnds ==
  (runStatus = "DONE" /\ reader.mode \in {"follow", "fixed"})
    ~> reader.at = "ended"

(* A reader of the events never skips one that commits later: "a cursor    *)
(* can never pass an uncommitted earlier event" (runs.cpp:43).             *)
NoEventSkipped ==
  \A s \in events : s <= evReader.cursor => s \in ToSet(evReader.got)

(* Readers that keep only a cursor get every record of the attempt they    *)
(* name, and every event, once and in order, and stop only when there is   *)
(* nothing left; what those get that name no attempt yet has the bounds of *)
(* UnnamedRead.                                                            *)
ReadersExact == CursorExact /\ UnnamedRead /\ FollowComplete /\ NoEventSkipped

=============================================================================
