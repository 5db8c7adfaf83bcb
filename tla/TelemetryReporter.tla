-------------------------- MODULE TelemetryReporter --------------------------
(***************************************************************************)
(* The runner's Reporter (src/src/runner/telemetry.cpp): the main thread   *)
(* enqueues records into a bounded buffer and flushes it at the end, a     *)
(* second thread sends batches, and PostgresStore::report keeps the prefix *)
(* it has.  Both threads sleep on one condition variable.  A report may be *)
(* lost, executed without an answer, or executed after it timed out.       *)
(***************************************************************************)
EXTENDS Naturals, Sequences, SequencesExt

CONSTANTS
  Items,      \* bound: records the main thread produces
  Sizes,      \* sizes of records
  Limit,      \* buffer_limit
  NoticeSize, \* size of a notice, for which the code reserves 1024 bytes
  BatchMax,   \* most records of a batch
  BatchBytes  \* most bytes of a batch

\* Every record fits into an empty buffer and into a batch.
ASSUME ReporterSizes ==
  /\ Sizes \subseteq Nat /\ {Items, Limit, NoticeSize, BatchMax, BatchBytes} \subseteq Nat
  /\ \A n \in Sizes : n <= Limit /\ n <= BatchBytes
  /\ NoticeSize <= BatchBytes /\ NoticeSize < Limit /\ BatchMax >= 1

VARIABLES
  queue,     \* queue_
  bytes,     \* bytes_
  dropped,   \* dropped_
  nextSeq,   \* next_
  failure,   \* failure_ is set
  produced,  \* records the main thread has tried to enqueue
  main,      \* producing, flushing, returned (with nextSeq - 1), threw
  sender,    \* take, sending, answered, pause, dead
  batch,     \* what the sender has copied out of the queue
  answer,    \* the sequence the server answered
  asleep,    \* threads that wait for changed_
  store,     \* the telemetry rows of the attempt, in sequence
  owned,     \* the server still accepts reports of this runner
  lateBatch  \* a batch that timed out and may still be executed

reporterVars == <<queue, bytes, dropped, nextSeq, failure, produced, main,
                  sender, batch, answer, asleep, store, owned, lateBatch>>
mainVars == <<produced, main>>
senderVars == <<sender, batch, answer>>
serverVars == <<store, owned, lateBatch>>

\* A record: item n of the main thread, or the notice of `lost` dropped ones.
Record(seq, size, item, lost) ==
  [seq |-> seq, size |-> size, item |-> item, lost |-> lost]

ReporterInit ==
  /\ queue = <<>> /\ bytes = 0 /\ dropped = 0 /\ nextSeq = 1 /\ failure = FALSE
  /\ produced = 0 /\ main = "producing"
  /\ sender = "take" /\ batch = <<>> /\ answer = 0 /\ asleep = {}
  /\ store = <<>> /\ owned = TRUE /\ lateBatch = <<>>

NotifyAll == asleep' = {}
Awake(t) == t \notin asleep

(***************************************************************************)
(* The main thread.                                                        *)
(***************************************************************************)

Overflows(size) == bytes + size > Limit

\* enqueue(): a failure of the sender is rethrown, a full buffer drops.
Enqueue(size) ==
  /\ main = "producing" /\ produced < Items
  /\ produced' = produced + 1
  /\ \/ failure /\ main' = "threw"
        /\ UNCHANGED <<queue, bytes, dropped, nextSeq, asleep>>
     \/ /\ ~failure /\ Overflows(size)
        /\ dropped' = dropped + 1
        /\ UNCHANGED <<queue, bytes, nextSeq, main, asleep>>
     \/ /\ ~failure /\ ~Overflows(size)
        /\ queue' = Append(queue, Record(nextSeq, size, produced', 0))
        /\ bytes' = bytes + size /\ nextSeq' = nextSeq + 1
        /\ NotifyAll /\ UNCHANGED <<dropped, main>>
  /\ UNCHANGED <<failure, senderVars, serverVars>>

\* flush() sleeps until nothing is queued or the sender has failed, and
\* returns the last sequence or throws; it also throws at its deadline.
Flush ==
  /\ main = "producing" /\ main' = "flushing"
  /\ UNCHANGED <<queue, bytes, dropped, nextSeq, failure, produced, asleep,
                 senderVars, serverVars>>

FlushWaits ==
  /\ main = "flushing" /\ Awake("main")
  /\ queue # <<>> /\ ~failure
  /\ asleep' = asleep \union {"main"}
  /\ UNCHANGED <<queue, bytes, dropped, nextSeq, failure, mainVars, senderVars,
                 serverVars>>

FlushEnds ==
  /\ main = "flushing" /\ Awake("main")
  /\ queue = <<>> \/ failure
  /\ main' = IF failure THEN "threw" ELSE "returned"
  /\ UNCHANGED <<queue, bytes, dropped, nextSeq, failure, produced, asleep,
                 senderVars, serverVars>>

FlushDeadline ==
  /\ main = "flushing" /\ queue # <<>> /\ ~failure
  /\ main' = "threw" /\ asleep' = asleep \ {"main"}
  /\ UNCHANGED <<queue, bytes, dropped, nextSeq, failure, produced, senderVars,
                 serverVars>>

(***************************************************************************)
(* The sending thread; it is stopped when the main thread is done.         *)
(***************************************************************************)

Stopped == main \in {"returned", "threw"}

SizeOf(records) == FoldLeft(LAMBDA n, r : n + r.size, 0, records)

\* The batch is the longest prefix of the queue within both limits.
TakeBatch ==
  LET Fits(n) == n <= BatchMax /\ SizeOf(SubSeq(queue, 1, n)) <= BatchBytes
  IN SubSeq(queue, 1, CHOOSE n \in 0..Len(queue) :
       Fits(n) /\ \A k \in 0..Len(queue) : Fits(k) => k <= n)

Take ==
  /\ sender = "take" /\ Awake("sender") /\ ~Stopped
  /\ \/ /\ queue = <<>>
        /\ asleep' = asleep \union {"sender"} /\ UNCHANGED senderVars
     \/ /\ queue # <<>>
        /\ batch' = TakeBatch /\ sender' = "sending" /\ UNCHANGED <<answer, asleep>>
  /\ UNCHANGED <<queue, bytes, dropped, nextSeq, failure, mainVars, serverVars>>

\* PostgresStore::report adds what continues the rows, skips what it has and
\* stops at a gap.
Persist(records) ==
  FoldLeft(LAMBDA rows, r : IF r.seq = Len(rows) + 1 THEN Append(rows, r)
                            ELSE rows, store, records)

Report ==
  /\ sender = "sending" /\ owned
  /\ store' = Persist(batch)
  /\ sender' = "answered" /\ answer' = Len(store')
  /\ UNCHANGED <<queue, bytes, dropped, nextSeq, failure, mainVars, batch,
                 asleep, owned, lateBatch>>

ReportLate ==
  /\ lateBatch # <<>>
  /\ store' = IF owned THEN Persist(lateBatch) ELSE store
  /\ lateBatch' = <<>>
  /\ UNCHANGED <<queue, bytes, dropped, nextSeq, failure, mainVars, senderVars,
                 asleep, owned>>

\* The attempt ends or its lease expires.
LoseOwnership ==
  /\ owned /\ owned' = FALSE
  /\ UNCHANGED <<queue, bytes, dropped, nextSeq, failure, mainVars, senderVars,
                 asleep, store, lateBatch>>

\* An answer: what was acknowledged is taken off the front of the queue, and
\* once there is room what was dropped meanwhile is announced.
Popped ==
  CHOOSE n \in 0..Len(queue) :
    /\ \A k \in 1..n : queue[k].seq <= answer
    /\ n < Len(queue) => queue[n + 1].seq > answer

\* Mutant: what was dropped is never announced.
AnnounceNever(held) == FALSE

Announce(held) == dropped > 0 /\ held < Limit - NoticeSize
Acknowledged ==
  /\ sender = "answered"
  /\ LET left == SubSeq(queue, Popped + 1, Len(queue))
         held == bytes - SizeOf(SubSeq(queue, 1, Popped))
     IN IF Announce(held)
        THEN /\ queue' = Append(left, Record(nextSeq, NoticeSize, 0, dropped))
             /\ bytes' = held + NoticeSize
             /\ nextSeq' = nextSeq + 1 /\ dropped' = 0
        ELSE /\ queue' = left /\ bytes' = held
             /\ UNCHANGED <<nextSeq, dropped>>
  /\ sender' = "take" /\ batch' = <<>> /\ answer' = 0
  /\ NotifyAll
  /\ UNCHANGED <<failure, mainVars, serverVars>>

\* Unavailable, executed or not: pause and take the batch again.
Unavailable ==
  /\ sender \in {"sending", "answered"}
  /\ sender' = "pause" /\ batch' = <<>> /\ answer' = 0
  /\ \/ UNCHANGED lateBatch
     \/ sender = "sending" /\ lateBatch' = batch
  /\ UNCHANGED <<queue, bytes, dropped, nextSeq, failure, mainVars, asleep,
                 store, owned>>

Resume ==
  /\ sender = "pause" /\ sender' = "take"
  /\ UNCHANGED <<queue, bytes, dropped, nextSeq, failure, mainVars, batch,
                 answer, asleep, serverVars>>

\* Mutant: the sender ends without waking the thread that flushes.
RefusedSilently ==
  /\ sender = "sending" /\ ~owned
  /\ sender' = "dead" /\ batch' = <<>> /\ failure' = TRUE
  /\ UNCHANGED <<queue, bytes, dropped, nextSeq, mainVars, answer, asleep,
                 serverVars>>

\* Any other error is kept for the main thread and ends the sender.
Refused ==
  /\ sender = "sending" /\ ~owned
  /\ sender' = "dead" /\ batch' = <<>> /\ failure' = TRUE
  /\ NotifyAll
  /\ UNCHANGED <<queue, bytes, dropped, nextSeq, mainVars, answer, serverVars>>

SenderStep == Take \/ Report \/ Acknowledged \/ Resume \/ Refused
ReporterNext ==
  \/ \E n \in Sizes : Enqueue(n)
  \/ Flush \/ FlushWaits \/ FlushEnds \/ FlushDeadline
  \/ SenderStep \/ Unavailable \/ ReportLate \/ LoseOwnership

ReporterSpec == ReporterInit /\ [][ReporterNext]_reporterVars

(***************************************************************************)
(* Properties.                                                             *)
(***************************************************************************)

\* Everything numbered so far: what is stored, and then what is queued and not
\* stored yet.
Numbered ==
  FoldLeft(LAMBDA all, r : IF r.seq > Len(store) THEN Append(all, r) ELSE all,
           store, queue)
ItemsIn(records) == {i \in DOMAIN records : records[i].item > 0}
LostIn(records) == FoldLeft(LAMBDA n, r : n + r.lost, 0, records)

\* Sequence numbers have no gap and no duplicate and keep the order of the
\* records, whatever was dropped, retried or executed twice: the store never
\* waits for a number that nobody will send.
SequenceUnbroken ==
  /\ Len(Numbered) = nextSeq - 1
  /\ \A i \in DOMAIN Numbered : Numbered[i].seq = i
  /\ \A i, j \in ItemsIn(Numbered) : i < j => Numbered[i].item < Numbered[j].item

\* The buffer never exceeds its limit and bytes_ is what it holds.
BufferBounded == bytes = SizeOf(queue) /\ bytes <= Limit

\* When flush() returns, the server has acknowledged the sequence it returns,
\* which complete() then sends, and every record is stored or counted by a
\* stored notice: dropped output is marked.
FlushMeansStored ==
  main = "returned" =>
    /\ Len(store) = nextSeq - 1
    /\ Cardinality(ItemsIn(store)) + LostIn(store) = produced

\* A flush ends without its deadline, provided that some reports get through
\* now and then: neither thread sleeps through what it waits for.
FlushReturns == main = "flushing" ~> main \in {"returned", "threw"}

\* The reporter loses nothing silently: numbering, bound and flush together.
NothingLostSilently == SequenceUnbroken /\ BufferBounded /\ FlushMeansStored

=============================================================================
