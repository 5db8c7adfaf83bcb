----------------------------- MODULE MetricReader -----------------------------
(***************************************************************************)
(* MetricReader::poll (src/src/runner/telemetry.cpp) and the polls of      *)
(* run_attempt: the child appends lines to metrics.jsonl while the reader  *)
(* follows the file in bounded steps that may end anywhere in a line.      *)
(* Characters are "c" and "n" (newline); what a line says is left out, so  *)
(* a line is either handed to the reporter (a metric, or the notice of a   *)
(* malformed one) or marked as oversized.                                  *)
(***************************************************************************)
EXTENDS Integers, Sequences, FiniteSets, FiniteSetsExt, SequencesExt

CONSTANTS
  PollBytes,  \* most a poll reads: 16 times 4096 bytes
  MaxLine,    \* longest line, 65536 bytes
  MaxRecords, \* lines after which reading ends, 100000
  MaxFile     \* bound: what the child writes

ASSUME ReaderAssumption == {PollBytes, MaxLine, MaxRecords} \subseteq Nat

VARIABLES
  file,    \* metrics.jsonl
  offset,  \* offset_: how much of it has been read
  line,    \* partial_ (its length), oversized_, records_ and what came out
  watch    \* running, exited, noticed, done: how far run_attempt has come

readerVars == <<file, offset, line, watch>>

ReaderInit ==
  /\ file = <<>> /\ offset = 0 /\ watch = "running"
  /\ line = [partial |-> 0, oversized |-> FALSE, records |-> 0, out |-> <<>>]

\* Mutant: the mark of an oversized line is kept for the next one.
EndLineOversized(l) ==
  LET said == IF l.oversized THEN <<"oversized">>
              ELSE IF l.partial > 0 THEN <<"record">> ELSE <<>>
      full == IF l.records + 1 >= MaxRecords THEN <<"limit">> ELSE <<>>
  IN [l EXCEPT !.partial = 0, !.records = @ + 1, !.out = @ \o said \o full]

\* The end of a line: hand it over or mark it, and count it.
EndLine(l) ==
  LET said == IF l.oversized THEN <<"oversized">>
              ELSE IF l.partial > 0 THEN <<"record">> ELSE <<>>
      full == IF l.records + 1 >= MaxRecords THEN <<"limit">> ELSE <<>>
  IN [partial |-> 0, oversized |-> FALSE, records |-> l.records + 1,
      out |-> l.out \o said \o full]

\* A character of a line is kept until there are too many.
ReadChar(l, ch) ==
  IF l.records >= MaxRecords THEN l
  ELSE IF ch = "n" THEN EndLine(l)
  ELSE IF l.oversized THEN l
  ELSE IF l.partial < MaxLine THEN [l EXCEPT !.partial = @ + 1]
  ELSE [l EXCEPT !.partial = 0, !.oversized = TRUE]

\* poll() reads on from the offset, unless the limit has been reached.
PollsTo == IF Len(file) < offset + PollBytes THEN Len(file)
                                             ELSE offset + PollBytes
Poll ==
  IF line.records >= MaxRecords THEN UNCHANGED <<offset, line>>
  ELSE /\ offset' = PollsTo
       /\ line' = FoldLeft(ReadChar, line, SubSeq(file, offset + 1, PollsTo))

ChildWrites ==
  /\ watch = "running" /\ Len(file) < MaxFile
  /\ \E ch \in {"c", "n"} : file' = Append(file, ch)
  /\ UNCHANGED <<offset, line, watch>>

ChildEnds ==
  /\ watch = "running" /\ watch' = "exited"
  /\ UNCHANGED <<file, offset, line>>

\* An iteration of the watch loop polls the metrics and then the process.
WatchMetrics ==
  /\ watch \in {"running", "exited"}
  /\ Poll
  /\ watch' = IF watch = "exited" THEN "noticed" ELSE watch
  /\ UNCHANGED file

\* The poll after begin_finalization is the last.
LastPoll ==
  /\ watch = "noticed" /\ watch' = "done"
  /\ Poll
  /\ UNCHANGED file

ReaderNext == ChildWrites \/ ChildEnds \/ WatchMetrics \/ LastPoll
ReaderSpec == ReaderInit /\ [][ReaderNext]_readerVars

(***************************************************************************)
(* Properties.  Expected says, without reading character by character, what*)
(* should come out of a text: one entry per line, by its length.           *)
(***************************************************************************)

NewlinesBefore(text, i) == {j \in 1..(i - 1) : text[j] = "n"}
LineStart(text, i) ==
  IF NewlinesBefore(text, i) = {} THEN 0 ELSE Max(NewlinesBefore(text, i))

\* What comes out at character i.
EntryAt(text, i) ==
  LET before == Cardinality(NewlinesBefore(text, i))
      length == i - LineStart(text, i) - 1
  IN IF text[i] # "n" \/ before >= MaxRecords THEN <<>>
     ELSE (IF length = 0 THEN <<>>
           ELSE IF length <= MaxLine THEN <<"record">> ELSE <<"oversized">>)
          \o (IF before + 1 = MaxRecords THEN <<"limit">> ELSE <<>>)

Expected(text) ==
  FoldLeft(LAMBDA all, i : all \o EntryAt(text, i), <<>>, [i \in DOMAIN text |-> i])

\* What poll() hands over depends only on the text it has read, not on where
\* its reads ended: no line is split, joined with the next or handed over twice.
LinesReadOnce == line.out = Expected(SubSeq(file, 1, offset))

\* Every complete line within the limits has been handed over or marked when
\* the runner stops reading ("Dropped or truncated output is marked").
DroppedIsMarked == watch = "done" => line.out = Expected(file)
=============================================================================
