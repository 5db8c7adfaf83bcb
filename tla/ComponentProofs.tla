-------------------------- MODULE ComponentProofs --------------------------
(***************************************************************************)
(* Proofs about the processes around the store: the artifacts of an        *)
(* attempt, for every set of files, contents, upload handlers, downloads   *)
(* and crashes; the threads of a server, for every number of them and      *)
(* every size of their queues; the agents of the workers; and the lease of *)
(* a runner, for every choice of the intervals.                            *)
(***************************************************************************)
EXTENDS ArtifactPublication, ServerThreads, DockerAgents, RunnerLease,
        FiniteSetTheorems, TLAPS

-----------------------------------------------------------------------------
(* Artifacts: what is acknowledged, published and served                   *)

Checksums == Contents \cup {"none"}
Objects == Contents \cup {"part", "none"}
UploadAnswers == {"ok", "stale", "invalid", "conflict", "unavailable"}
Upload == [pc : {"idle", "open", "staging", "put", "copy", "renamed", "publish"},
           path : Paths \cup {"none"}, sum : Checksums, data : Objects,
           made : BOOLEAN]
Loop == [phase : {"next", "waiting", "failed", "done"},
         acked : [Paths -> Checksums], path : Paths \cup {"none"},
         sum : Checksums, tries : Nat, at : Handlers \cup {"none"}]
Download == [pc : {"idle", "serve", "fetch", "served"},
             path : Paths \cup {"none"}, got : Objects]

\* The shape of the state.
ArtifactTypeOK ==
  /\ attempt \in [status : {"FINALIZING", "ENDED"}, final : SUBSET Paths]
  /\ rows \in [Paths -> Checksums]
  /\ blobs \in [Keys -> Objects]
  /\ disk \in [storage : {"filesystem", "s3"}, dir : {"none", "made", "durable"},
               keys : SUBSET Keys]
  /\ up \in [Handlers -> Upload]
  /\ client \in Loop
  /\ cache \in [Paths -> Objects]
  /\ read \in [Readers -> Download]

\* A handler works on a file, and the one the client waits for works on the
\* file and the content the client hashed.
Awaited ==
  /\ \A h \in Handlers : up[h].pc # "idle" => up[h].path \in Paths /\ up[h].sum \in Contents
  /\ client.phase = "waiting" => client.path \in Paths /\ client.sum \in Contents
  /\ client.phase # "waiting" => client.at = "none"
  /\ \A h \in Handlers :
       client.at = h => up[h].path = client.path /\ up[h].sum = client.sum

\* A download is one of a published file, and what it is about to serve has
\* the published checksum.
Downloading ==
  \A r \in Readers : read[r].pc # "idle" =>
    /\ read[r].path \in Paths
    /\ rows[read[r].path] # "none"
    /\ read[r].pc = "serve" => cache[read[r].path] = rows[read[r].path]
    /\ read[r].pc = "served" => read[r].got = rows[read[r].path]

ArtifactInv ==
  ArtifactTypeOK /\ Awaited /\ Downloading /\ ResultsFrozen /\ AcceptedIsPublished

\* Neither "none" nor "part" is a checksum, and no handler is called "none".
LEMMA NoSuchContent ==
  "none" \notin Contents /\ "part" \notin Contents /\ "none" \notin Handlers
BY ArtifactConstants

\* What an answer does to the loop of the client.
LEMMA AnsweredFacts ==
  ASSUME client \in Loop, client.path \in Paths, NEW a \in UploadAnswers
  PROVE  /\ AnsweredAs(a) \in Loop
         /\ AnsweredAs(a).at = "none" /\ AnsweredAs(a).phase # "waiting"
         /\ \/ AnsweredAs(a).acked = client.acked
            \/ /\ a = "ok"
               /\ AnsweredAs(a).acked = [client.acked EXCEPT ![client.path] = client.sum]
<1> DEFINE again == a = "unavailable" /\ client.tries + 1 < UploadTries
<1>1. CASE a = "ok"
  <2> DEFINE next == [client EXCEPT !.phase = "next", !.at = "none",
                                    !.acked[client.path] = client.sum, !.tries = 0]
  <2>1. AnsweredAs(a) = next
    BY <1>1 DEF AnsweredAs
  <2>2. /\ next.at = "none" /\ next.phase = "next"
        /\ next.acked = [client.acked EXCEPT ![client.path] = client.sum]
    BY DEF Loop
  <2>3. next \in Loop
    <3>1. client.acked \in [Paths -> Checksums] /\ client.sum \in Checksums
      BY DEF Loop
    <3>2. [client.acked EXCEPT ![client.path] = client.sum] \in [Paths -> Checksums]
      BY <3>1
    <3>3. next = [client EXCEPT !.phase = "next", !.at = "none", !.tries = 0,
                    !.acked = [client.acked EXCEPT ![client.path] = client.sum]]
      BY DEF Loop
    <3> HIDE DEF next
    <3>4. QED
      BY <3>2, <3>3 DEF Loop
  <2> HIDE DEF next
  <2>4. QED
    BY <1>1, <2>1, <2>2, <2>3
<1>2. CASE again
  <2> DEFINE next == [client EXCEPT !.phase = "next", !.at = "none", !.tries = @ + 1]
  <2>1. AnsweredAs(a) = next
    BY <1>2 DEF AnsweredAs
  <2>2. next \in Loop /\ next.at = "none" /\ next.phase = "next" /\ next.acked = client.acked
    <3>1. client.tries \in Nat /\ client.tries + 1 \in Nat
      BY DEF Loop
    <3>2. next = [client EXCEPT !.phase = "next", !.at = "none", !.tries = client.tries + 1]
      OBVIOUS
    <3> HIDE DEF next
    <3>3. QED
      BY <3>1, <3>2 DEF Loop
  <2> HIDE DEF next
  <2>3. QED
    BY <2>1, <2>2
<1>3. CASE a # "ok" /\ ~again
  <2> DEFINE next == [client EXCEPT !.phase = "failed", !.at = "none"]
  <2>1. AnsweredAs(a) = next
    BY <1>3 DEF AnsweredAs
  <2>2. next \in Loop /\ next.at = "none" /\ next.phase = "failed" /\ next.acked = client.acked
    BY DEF Loop
  <2> HIDE DEF next
  <2>3. QED
    BY <2>1, <2>2
<1>4. QED
  BY <1>1, <1>2, <1>3

\* The end of an upload: only an "ok" that the client waits for acknowledges,
\* and it acknowledges what the handler worked on.
LEMMA AnswerFacts ==
  ASSUME ArtifactTypeOK, Awaited, NEW h \in Handlers,
         NEW a \in UploadAnswers, Answer(h, a)
  PROVE  /\ up' \in [Handlers -> Upload] /\ client' \in Loop /\ Awaited'
         /\ \/ client'.acked = client.acked
            \/ /\ a = "ok" /\ up[h].path \in Paths
               /\ client'.acked = [client.acked EXCEPT ![up[h].path] = up[h].sum]
<1> USE NoSuchContent
<1>1. NoUpload \in Upload /\ NoUpload.pc = "idle"
  BY DEF NoUpload, Upload, Checksums, Objects
<1>2. /\ up' = [up EXCEPT ![h] = NoUpload] /\ up' \in [Handlers -> Upload]
      /\ \A g \in Handlers : g # h => up'[g] = up[g]
      /\ up'[h].pc = "idle"
  BY <1>1 DEF Answer, ArtifactTypeOK
<1>3. CASE client.at = h
  <2>1. /\ client' = AnsweredAs(a) /\ client.phase = "waiting" /\ client.path \in Paths
        /\ up[h].path = client.path /\ up[h].sum = client.sum
    BY <1>3 DEF Answer, Awaited
  <2>2. /\ client' \in Loop /\ client'.at = "none" /\ client'.phase # "waiting"
        /\ \/ client'.acked = client.acked
           \/ a = "ok" /\ client'.acked = [client.acked EXCEPT ![client.path] = client.sum]
    BY <2>1, AnsweredFacts DEF ArtifactTypeOK
  <2>3. Awaited'
    BY <1>2, <2>2 DEF Awaited
  <2>4. QED
    BY <1>2, <2>1, <2>2, <2>3
<1>4. CASE client.at # h
  <2>1. client' = client
    BY <1>4 DEF Answer
  <2>2. Awaited'
    BY <1>2, <1>4, <2>1 DEF Awaited
  <2>3. QED
    BY <1>2, <2>1, <2>2 DEF ArtifactTypeOK
<1>5. QED
  BY <1>3, <1>4

\* A handler that goes on keeps its file and content.
LEMMA GoFacts ==
  ASSUME ArtifactTypeOK, Awaited, NEW h \in Handlers, NEW u \in Upload,
         up[h].pc # "idle", u.path = up[h].path, u.sum = up[h].sum,
         up' = [up EXCEPT ![h] = u], client' = client
  PROVE  up' \in [Handlers -> Upload] /\ client' \in Loop /\ Awaited'
<1>1. up' \in [Handlers -> Upload] /\ up'[h] = u /\ \A g \in Handlers : g # h => up'[g] = up[g]
  BY DEF ArtifactTypeOK
<1>2. Awaited'
  BY <1>1 DEF Awaited
<1>3. QED
  BY <1>1, <1>2 DEF ArtifactTypeOK

\* An acknowledgement follows a publication.
Acknowledged ==
  \/ client'.acked = client.acked
  \/ \E h \in Handlers :
       /\ PublishArtifact(h) /\ up[h].path \in Paths
       /\ PublishAnswer(up[h].path, up[h].sum) = "ok"
       /\ client'.acked = [client.acked EXCEPT ![up[h].path] = up[h].sum]

\* What every step does to the uploads and to the client.
LEMMA UploadSteps ==
  ASSUME ArtifactTypeOK, Awaited, ArtifactNext
  PROVE  /\ up' \in [Handlers -> Upload] /\ client' \in Loop /\ Awaited'
         /\ Acknowledged
<1> USE NoSuchContent
<1> DEFINE Goal == /\ up' \in [Handlers -> Upload] /\ client' \in Loop /\ Awaited'
                   /\ Acknowledged
<1>0. up \in [Handlers -> Upload] /\ client \in Loop
  BY DEF ArtifactTypeOK
<1>1. ASSUME UNCHANGED <<up, client>> PROVE Goal
  BY <1>0, <1>1 DEF Awaited, Acknowledged
<1>2. ASSUME NEW h \in Handlers, NEW a \in UploadAnswers, a # "ok", Answer(h, a)
      PROVE  Goal
  <2>1. up' \in [Handlers -> Upload] /\ client' \in Loop /\ Awaited'
    BY <1>2, AnswerFacts
  <2>2. client'.acked = client.acked
    BY <1>2, AnswerFacts
  <2>3. QED
    BY <2>1, <2>2 DEF Acknowledged
<1>3. ASSUME NEW h \in Handlers, NEW u \in Upload, up[h].pc # "idle",
             u.path = up[h].path, u.sum = up[h].sum, up' = [up EXCEPT ![h] = u],
             client' = client
      PROVE  Goal
  BY <1>3, GoFacts DEF Acknowledged
<1>4. ASSUME NEW h \in Handlers, up[h].pc # "idle",
             NEW pc \in {"staging", "put", "copy", "renamed", "publish"}, Go(h, pc)
      PROVE  Goal
  <2> DEFINE u == [up[h] EXCEPT !.pc = pc]
  <2>1. u \in Upload /\ u.path = up[h].path /\ u.sum = up[h].sum
    BY <1>0 DEF Upload
  <2>2. up' = [up EXCEPT ![h] = u] /\ client' = client
    BY <1>4 DEF Go
  <2> HIDE DEF u
  <2>3. QED
    BY <1>3, <1>4, <2>1, <2>2
<1>5. ASSUME NEW p \in Paths, NEW c \in Contents, NEW h \in Handlers, UploadOnce(p, c, h)
      PROVE  Goal
  <2> DEFINE u == [NoUpload EXCEPT !.pc = "open", !.path = p, !.sum = c]
             w == [client EXCEPT !.phase = "waiting", !.path = p, !.sum = c, !.at = h]
  <2>1. u \in Upload /\ u.pc = "open" /\ u.path = p /\ u.sum = c
    BY DEF NoUpload, Upload, Checksums, Objects
  <2>2. /\ w \in Loop /\ w.phase = "waiting" /\ w.path = p /\ w.sum = c /\ w.at = h
        /\ w.acked = client.acked
    BY <1>0 DEF Loop, Checksums
  <2>3. up' = [up EXCEPT ![h] = u] /\ client' = w
    BY <1>5 DEF UploadOnce
  <2> HIDE DEF u, w
  <2>4. /\ up' \in [Handlers -> Upload] /\ up'[h] = u
        /\ \A g \in Handlers : g # h => up'[g] = up[g]
    BY <1>0, <2>1, <2>3
  <2>5. Awaited'
    BY <2>1, <2>2, <2>3, <2>4 DEF Awaited
  <2>6. QED
    BY <2>2, <2>3, <2>4, <2>5 DEF Acknowledged
<1>6. ASSUME UploadLost PROVE Goal
  <2>1. /\ client' = AnsweredAs("unavailable") /\ up' = up /\ client.path \in Paths
    BY <1>6 DEF UploadLost, Awaited
  <2>2. client' \in Loop /\ client'.at = "none" /\ client'.phase # "waiting"
        /\ client'.acked = client.acked
    BY <1>0, <2>1, AnsweredFacts DEF UploadAnswers
  <2>3. QED
    BY <1>0, <2>1, <2>2 DEF Awaited, Acknowledged
<1>7. ASSUME CompleteAttempt PROVE Goal
  <2>1. /\ client' \in Loop /\ client'.phase = "done" /\ client'.at = client.at
        /\ client'.acked = client.acked /\ up' = up /\ client.phase = "next"
    BY <1>0, <1>7 DEF CompleteAttempt, Loop
  <2>2. QED
    BY <1>0, <2>1 DEF Awaited, Acknowledged
<1>8. ASSUME NEW h \in Handlers, OpenUpload(h) PROVE Goal
  BY <1>2, <1>4, <1>8 DEF OpenUpload, At, UploadAnswers
<1>9. ASSUME NEW h \in Handlers, NEW data \in {up[h].sum, "part"}, NEW cancelled \in BOOLEAN,
             StagingEnds(h, data, cancelled)
      PROVE  Goal
  <2> DEFINE u == [up[h] EXCEPT !.pc = "put", !.data = data]
  <2>1. /\ up[h].pc # "idle"
        /\ \/ Answer(h, "unavailable") \/ Answer(h, "invalid") \/ Answer(h, "stale")
           \/ up' = [up EXCEPT ![h] = u] /\ client' = client
    BY <1>9 DEF StagingEnds, At
  <2>2. u \in Upload /\ u.path = up[h].path /\ u.sum = up[h].sum
    BY <1>0 DEF Upload, Checksums, Objects
  <2> HIDE DEF u
  <2>3. QED
    BY <1>2, <1>3, <2>1, <2>2 DEF UploadAnswers
<1>10. ASSUME NEW h \in Handlers, MakeDirectory(h) PROVE Goal
  <2> DEFINE u == [up[h] EXCEPT !.pc = "copy", !.made = (disk.dir = "none")]
  <2>1. up[h].pc # "idle" /\ up' = [up EXCEPT ![h] = u] /\ client' = client
    BY <1>10 DEF MakeDirectory, At
  <2>2. u \in Upload /\ u.path = up[h].path /\ u.sum = up[h].sum
    BY <1>0 DEF Upload
  <2> HIDE DEF u
  <2>3. QED
    BY <1>3, <2>1, <2>2
<1>11. ASSUME NEW h \in Handlers,
              RenameBlob(h) \/ SyncDirectories(h) \/ StorageFails(h)
                \/ \E reported \in BOOLEAN : PutObject(h, reported)
       PROVE  Goal
  BY <1>2, <1>4, <1>11 DEF RenameBlob, SyncDirectories, StorageFails, PutObject, At,
     UploadAnswers
<1>12. ASSUME NEW h \in Handlers, PublishArtifact(h) PROVE Goal
  <2> DEFINE a == PublishAnswer(up[h].path, up[h].sum)
  <2>1. Answer(h, a) /\ a \in UploadAnswers
    BY <1>12 DEF PublishArtifact, PublishAnswer, UploadAnswers
  <2>2. CASE a # "ok"
    BY <1>2, <2>1, <2>2
  <2>3. CASE a = "ok"
    BY <1>12, <2>1, <2>3, AnswerFacts DEF Acknowledged
  <2>4. QED
    BY <2>2, <2>3
<1>13. ASSUME NEW lost \in SUBSET Keys, ServerCrash(lost) PROVE Goal
  <2>1. NoUpload \in Upload /\ NoUpload.pc = "idle"
    BY DEF NoUpload, Upload, Checksums, Objects
  <2>2. /\ up' \in [Handlers -> Upload] /\ \A h \in Handlers : up'[h].pc = "idle"
    BY <1>13, <2>1 DEF ServerCrash
  <2>3. /\ client' \in Loop /\ client'.at = "none" /\ client'.phase # "waiting"
        /\ client'.acked = client.acked
    <3>1. CASE client.phase = "waiting"
      BY <1>0, <1>13, <3>1, AnsweredFacts DEF ServerCrash, Awaited, UploadAnswers
    <3>2. CASE client.phase # "waiting"
      BY <1>0, <1>13, <3>2 DEF ServerCrash, Awaited
    <3>3. QED
      BY <3>1, <3>2
  <2>4. QED
    BY <2>2, <2>3 DEF Awaited, Acknowledged
<1>14. ASSUME NEW r \in Readers,
              (\E p \in Paths : LookUp(r, p))
                \/ (\E data \in Contents \cup {"none", "part"} : Fetch(r, data))
                \/ ServeFile(r)
       PROVE  Goal
  BY <1>1, <1>14 DEF LookUp, Fetch, ServeFile
<1>15. AttemptEnds => Goal
  BY <1>1 DEF AttemptEnds
<1> HIDE DEF Goal
<1>16. Goal
  BY <1>5, <1>6, <1>7, <1>8, <1>9, <1>10, <1>11, <1>12, <1>13, <1>14, <1>15 DEF ArtifactNext
<1>17. QED
  BY <1>16 DEF Goal

\* A path of the artifacts table keeps its content.
LEMMA RowsGrow ==
  ASSUME ArtifactTypeOK, Awaited, ArtifactNext
  PROVE  \/ rows' = rows
         \/ \E h \in Handlers :
              /\ PublishArtifact(h) /\ OwnedAttempt /\ rows[up[h].path] = "none"
              /\ up[h].path \in Paths /\ up[h].sum \in Contents
              /\ rows' = [rows EXCEPT ![up[h].path] = up[h].sum]
<1>1. ASSUME NEW h \in Handlers, PublishArtifact(h), rows' # rows
      PROVE  /\ OwnedAttempt /\ rows[up[h].path] = "none"
             /\ up[h].path \in Paths /\ up[h].sum \in Contents
             /\ rows' = [rows EXCEPT ![up[h].path] = up[h].sum]
  BY <1>1 DEF PublishArtifact, At, StillOwned, Awaited
<1>2. (\E h \in Handlers : PublishArtifact(h)) \/ rows' = rows
  BY DEF ArtifactNext, UploadOnce, UploadLost, CompleteAttempt, AttemptEnds, OpenUpload,
     StagingEnds, MakeDirectory, RenameBlob, SyncDirectories, StorageFails, PutObject,
     ServerCrash, LookUp, Fetch, ServeFile
<1>3. QED
  BY <1>1, <1>2

\* The rest of the state keeps its shape.
LEMMA ArtifactTypes ==
  ASSUME ArtifactTypeOK, Awaited, Downloading, ArtifactNext
  PROVE  ArtifactTypeOK'
<1> USE NoSuchContent
<1>1. up' \in [Handlers -> Upload] /\ client' \in Loop
  BY UploadSteps
<1>2. rows' \in [Paths -> Checksums]
  BY RowsGrow DEF ArtifactTypeOK, Checksums
<1>3. attempt' \in [status : {"FINALIZING", "ENDED"}, final : SUBSET Paths]
  <2>1. \/ attempt' = attempt
        \/ attempt' = [status |-> "ENDED", final |-> Published]
    BY DEF ArtifactNext, UploadOnce, UploadLost, CompleteAttempt, AttemptEnds, OpenUpload,
       StagingEnds, MakeDirectory, RenameBlob, SyncDirectories, StorageFails, PutObject,
       PublishArtifact, ServerCrash, LookUp, Fetch, ServeFile
  <2>2. QED
    BY <2>1 DEF ArtifactTypeOK, Published
<1>4. blobs' \in [Keys -> Objects]
  <2>1. ASSUME NEW h \in Handlers, RenameBlob(h) \/ \E b \in BOOLEAN : PutObject(h, b)
        PROVE  blobs' \in [Keys -> Objects]
    <3>1. blobs' = [blobs EXCEPT ![Key(h)] = up[h].data]
      BY <2>1 DEF RenameBlob, PutObject
    <3>2. up[h].data \in Objects
      BY DEF ArtifactTypeOK, Upload
    <3>3. QED
      BY <3>1, <3>2 DEF ArtifactTypeOK
  <2>2. ASSUME NEW lost \in SUBSET Keys, ServerCrash(lost)
        PROVE  blobs' \in [Keys -> Objects]
    BY <2>2 DEF ServerCrash, ArtifactTypeOK, Objects
  <2>3. \/ blobs' = blobs
        \/ \E h \in Handlers : RenameBlob(h) \/ \E b \in BOOLEAN : PutObject(h, b)
        \/ \E lost \in SUBSET Keys : ServerCrash(lost)
    BY DEF ArtifactNext, UploadOnce, UploadLost, CompleteAttempt, AttemptEnds, OpenUpload,
       StagingEnds, MakeDirectory, SyncDirectories, StorageFails, PublishArtifact,
       LookUp, Fetch, ServeFile
  <2>4. QED
    BY <2>1, <2>2, <2>3 DEF ArtifactTypeOK
<1>5. disk' \in [storage : {"filesystem", "s3"}, dir : {"none", "made", "durable"},
                 keys : SUBSET Keys]
  <2> DEFINE DiskType == [storage : {"filesystem", "s3"}, dir : {"none", "made", "durable"},
                          keys : SUBSET Keys]
  <2>1. disk \in DiskType
    BY DEF ArtifactTypeOK
  <2>2. ASSUME NEW h \in Handlers, MakeDirectory(h) PROVE disk' \in DiskType
    BY <2>1, <2>2 DEF MakeDirectory
  <2>3. ASSUME NEW h \in Handlers, SyncDirectories(h) PROVE disk' \in DiskType
    <3>1. Stored \in SUBSET Keys
      BY DEF Stored
    <3>2. QED
      BY <2>1, <2>3, <3>1 DEF SyncDirectories
  <2>4. ASSUME NEW h \in Handlers, NEW b \in BOOLEAN, PutObject(h, b) PROVE disk' \in DiskType
    <3>1. Key(h) \in Keys
      BY <2>4 DEF PutObject, At, Awaited, Key, Keys
    <3>2. disk' = [disk EXCEPT !.dir = "durable", !.keys = disk.keys \cup {Key(h)}]
      BY <2>4 DEF PutObject
    <3>3. QED
      BY <2>1, <3>1, <3>2
  <2>5. ASSUME NEW lost \in SUBSET Keys, ServerCrash(lost) PROVE disk' \in DiskType
    <3>1. (Stored \ lost) \in SUBSET Keys
      BY DEF Stored
    <3>2. \/ disk' = disk
          \/ disk' = [disk EXCEPT !.dir = "none", !.keys = {}]
          \/ disk' = [disk EXCEPT !.dir = "durable", !.keys = Stored \ lost]
      BY <2>5 DEF ServerCrash
    <3>3. QED
      BY <2>1, <3>1, <3>2
  <2>6. \/ disk' = disk
        \/ \E h \in Handlers : \/ MakeDirectory(h) \/ SyncDirectories(h)
                               \/ \E b \in BOOLEAN : PutObject(h, b)
        \/ \E lost \in SUBSET Keys : ServerCrash(lost)
    BY DEF ArtifactNext, UploadOnce, UploadLost, CompleteAttempt, AttemptEnds, OpenUpload,
       StagingEnds, RenameBlob, StorageFails, PublishArtifact, LookUp, Fetch, ServeFile
  <2> HIDE DEF DiskType
  <2>7. disk' \in DiskType
    BY <2>1, <2>2, <2>3, <2>4, <2>5, <2>6
  <2>8. QED
    BY <2>7 DEF DiskType
<1>6. cache' \in [Paths -> Objects] /\ read' \in [Readers -> Download]
  <2>0. cache \in [Paths -> Objects] /\ read \in [Readers -> Download]
    BY DEF ArtifactTypeOK
  <2>1. NoRead \in Download
    BY DEF NoRead, Download, Objects
  <2>2. ASSUME NEW r \in Readers, NEW p \in Paths, LookUp(r, p)
        PROVE  cache' \in [Paths -> Objects] /\ read' \in [Readers -> Download]
    <3> DEFINE d == [pc |-> IF cache[p] = rows[p] THEN "serve" ELSE "fetch",
                     path |-> p, got |-> "none"]
    <3>1. d \in Download
      BY DEF Download, Objects
    <3>2. cache' = cache /\ read' = [read EXCEPT ![r] = d]
      BY <2>2 DEF LookUp
    <3> HIDE DEF d
    <3>3. QED
      BY <2>0, <3>1, <3>2
  <2>3. ASSUME NEW r \in Readers, NEW data \in Contents \cup {"none", "part"}, Fetch(r, data)
        PROVE  cache' \in [Paths -> Objects] /\ read' \in [Readers -> Download]
    <3>1. [read[r] EXCEPT !.pc = "serve"] \in Download /\ data \in Objects
      BY <2>0 DEF Download, Objects
    <3>2. \/ /\ cache' = [cache EXCEPT ![read[r].path] = data]
             /\ read' = [read EXCEPT ![r] = [read[r] EXCEPT !.pc = "serve"]]
          \/ cache' = cache /\ read' = [read EXCEPT ![r] = NoRead]
      BY <2>3 DEF Fetch
    <3>3. QED
      BY <2>0, <2>1, <3>1, <3>2
  <2>4. ASSUME NEW r \in Readers, ServeFile(r)
        PROVE  cache' \in [Paths -> Objects] /\ read' \in [Readers -> Download]
    <3> DEFINE d == [read[r] EXCEPT !.pc = "served", !.got = cache[read[r].path]]
    <3>1. d \in Download
      BY <2>0, <2>4 DEF Download, ServeFile, Downloading
    <3>2. cache' = cache /\ read' = [read EXCEPT ![r] = d]
      BY <2>4 DEF ServeFile
    <3> HIDE DEF d
    <3>3. QED
      BY <2>0, <3>1, <3>2
  <2>5. ASSUME NEW lost \in SUBSET Keys, ServerCrash(lost)
        PROVE  cache' \in [Paths -> Objects] /\ read' \in [Readers -> Download]
    BY <2>0, <2>1, <2>5 DEF ServerCrash
  <2>6. \/ cache' = cache /\ read' = read
        \/ \E r \in Readers : \/ \E p \in Paths : LookUp(r, p)
                              \/ \E data \in Contents \cup {"none", "part"} : Fetch(r, data)
                              \/ ServeFile(r)
        \/ \E lost \in SUBSET Keys : ServerCrash(lost)
    BY DEF ArtifactNext, UploadOnce, UploadLost, CompleteAttempt, AttemptEnds, OpenUpload,
       StagingEnds, MakeDirectory, RenameBlob, SyncDirectories, StorageFails, PutObject,
       PublishArtifact
  <2>7. QED
    BY <2>0, <2>2, <2>3, <2>4, <2>5, <2>6
<1>7. QED
  BY <1>1, <1>2, <1>3, <1>4, <1>5, <1>6 DEF ArtifactTypeOK

\* What the steps of the store do to the attempt: once it has ended nothing is
\* published.
LEMMA FrozenStep ==
  ASSUME ArtifactTypeOK, Awaited, ResultsFrozen, ArtifactNext
  PROVE  ResultsFrozen'
<1>1. CASE rows' = rows
  <2>1. Published' = Published
    BY <1>1 DEF Published
  <2>2. \/ attempt' = attempt
        \/ attempt' = [status |-> "ENDED", final |-> Published]
    BY DEF ArtifactNext, UploadOnce, UploadLost, CompleteAttempt, AttemptEnds, OpenUpload,
       StagingEnds, MakeDirectory, RenameBlob, SyncDirectories, StorageFails, PutObject,
       PublishArtifact, ServerCrash, LookUp, Fetch, ServeFile
  <2>3. QED
    BY <2>1, <2>2 DEF ResultsFrozen
<1>2. ASSUME NEW h \in Handlers, PublishArtifact(h), OwnedAttempt
      PROVE  ResultsFrozen'
  BY <1>2 DEF PublishArtifact, OwnedAttempt, ResultsFrozen
<1>3. QED
  BY <1>1, <1>2, RowsGrow

LEMMA AcceptedStep ==
  ASSUME ArtifactTypeOK, Awaited, AcceptedIsPublished, ArtifactNext
  PROVE  AcceptedIsPublished'
<1> USE NoSuchContent
<1>0. rows \in [Paths -> Checksums] /\ client.acked \in [Paths -> Checksums]
  BY DEF ArtifactTypeOK, Loop
<1>1. \A p \in Paths : rows[p] # "none" => rows'[p] = rows[p]
  BY <1>0, RowsGrow
<1>2. CASE client'.acked = client.acked
  BY <1>1, <1>2 DEF AcceptedIsPublished
<1>3. ASSUME NEW h \in Handlers, PublishArtifact(h), up[h].path \in Paths,
             PublishAnswer(up[h].path, up[h].sum) = "ok",
             client'.acked = [client.acked EXCEPT ![up[h].path] = up[h].sum]
      PROVE  AcceptedIsPublished'
  <2> DEFINE p == up[h].path
             c == up[h].sum
  <2>1. StillOwned /\ rows[p] \in {"none", c} /\ (rows[p] = "none" => WithinQuota(c))
    BY <1>3 DEF PublishAnswer
  <2>2. rows'[p] = c
    <3>1. CASE rows[p] = "none"
      <4>1. rows' = [rows EXCEPT ![p] = c]
        BY <1>3, <2>1, <3>1 DEF PublishArtifact
      <4>2. QED
        BY <1>0, <1>3, <4>1
    <3>2. CASE rows[p] # "none"
      BY <1>1, <1>3, <2>1, <3>2
    <3>3. QED
      BY <3>1, <3>2
  <2>3. ASSUME NEW q \in Paths, client'.acked[q] # "none"
        PROVE  rows'[q] = client'.acked[q]
    <3>1. CASE q = p
      BY <1>0, <1>3, <2>2, <3>1
    <3>2. CASE q # p
      BY <1>0, <1>1, <1>3, <2>3, <3>2 DEF AcceptedIsPublished
    <3>3. QED
      BY <3>1, <3>2
  <2>4. QED
    BY <2>3 DEF AcceptedIsPublished
<1>4. QED
  BY <1>2, <1>3, UploadSteps DEF Acknowledged

LEMMA DownloadStep ==
  ASSUME ArtifactTypeOK, Awaited, Downloading, ArtifactNext
  PROVE  Downloading'
<1> USE NoSuchContent
<1>0. /\ rows \in [Paths -> Checksums] /\ cache \in [Paths -> Objects]
      /\ read \in [Readers -> Download]
  BY DEF ArtifactTypeOK
<1>1. \A p \in Paths : rows[p] # "none" => rows'[p] = rows[p]
  BY <1>0, RowsGrow
<1>2. ASSUME UNCHANGED <<cache, read>> PROVE Downloading'
  BY <1>1, <1>2 DEF Downloading
<1>3. ASSUME NEW r \in Readers, NEW p \in Paths, LookUp(r, p) PROVE Downloading'
  <2> DEFINE d == [pc |-> IF cache[p] = rows[p] THEN "serve" ELSE "fetch",
                   path |-> p, got |-> "none"]
  <2>1. /\ UNCHANGED <<rows, cache>> /\ rows[p] # "none" /\ read' = [read EXCEPT ![r] = d]
    BY <1>3 DEF LookUp
  <2>2. /\ d.path = p /\ d.pc # "served" /\ (d.pc = "serve" => cache[p] = rows[p])
    OBVIOUS
  <2> HIDE DEF d
  <2>3. read'[r] = d /\ \A q \in Readers : q # r => read'[q] = read[q]
    BY <1>0, <2>1
  <2>4. QED
    BY <2>1, <2>2, <2>3 DEF Downloading
<1>4. ASSUME NEW r \in Readers, NEW data \in Contents \cup {"none", "part"}, Fetch(r, data)
      PROVE  Downloading'
  <2> DEFINE p == read[r].path
  <2>1. /\ read[r].pc = "fetch" /\ UNCHANGED rows /\ p \in Paths /\ rows[p] # "none"
    BY <1>4 DEF Fetch, Downloading
  <2>2. CASE data # "none" /\ Verified(r, data)
    <3> DEFINE d == [read[r] EXCEPT !.pc = "serve"]
    <3>1. cache' = [cache EXCEPT ![p] = data] /\ read' = [read EXCEPT ![r] = d]
          /\ data = rows[p]
      BY <1>4, <2>2 DEF Fetch, Verified
    <3>2. d.pc = "serve" /\ d.path = p
      BY <1>0 DEF Download
    <3> HIDE DEF d
    <3>3. /\ read'[r] = d /\ \A q \in Readers : q # r => read'[q] = read[q]
          /\ cache'[p] = rows[p] /\ \A q \in Paths : q # p => cache'[q] = cache[q]
      BY <1>0, <2>1, <3>1
    <3>4. ASSUME NEW q \in Readers, read'[q].pc # "idle"
          PROVE  /\ read'[q].path \in Paths /\ rows'[read'[q].path] # "none"
                 /\ read'[q].pc = "serve" => cache'[read'[q].path] = rows'[read'[q].path]
                 /\ read'[q].pc = "served" => read'[q].got = rows'[read'[q].path]
      <4>1. CASE q = r
        BY <2>1, <3>2, <3>3, <4>1
      <4>2. CASE q # r
        BY <2>1, <3>3, <3>4, <4>2 DEF Downloading
      <4>3. QED
        BY <4>1, <4>2
    <3>5. QED
      BY <3>4 DEF Downloading
  <2>3. CASE ~(data # "none" /\ Verified(r, data))
    <3>1. cache' = cache /\ read' = [read EXCEPT ![r] = NoRead]
      BY <1>4, <2>3 DEF Fetch
    <3>2. read'[r].pc = "idle" /\ \A q \in Readers : q # r => read'[q] = read[q]
      BY <1>0, <3>1 DEF NoRead
    <3>3. QED
      BY <2>1, <3>1, <3>2 DEF Downloading
  <2>4. QED
    BY <2>2, <2>3
<1>5. ASSUME NEW r \in Readers, ServeFile(r) PROVE Downloading'
  <2> DEFINE p == read[r].path
             d == [read[r] EXCEPT !.pc = "served", !.got = cache[p]]
  <2>1. /\ read[r].pc = "serve" /\ UNCHANGED <<rows, cache>>
        /\ read' = [read EXCEPT ![r] = d]
    BY <1>5 DEF ServeFile
  <2>2. d.pc = "served" /\ d.path = p /\ d.got = cache[p]
    BY <1>0 DEF Download
  <2> HIDE DEF d
  <2>3. read'[r] = d /\ \A q \in Readers : q # r => read'[q] = read[q]
    BY <1>0, <2>1
  <2>4. QED
    BY <2>1, <2>2, <2>3 DEF Downloading
<1>6. ASSUME NEW lost \in SUBSET Keys, ServerCrash(lost) PROVE Downloading'
  <2>1. \A r \in Readers : read'[r].pc = "idle"
    BY <1>6 DEF ServerCrash, NoRead
  <2>2. QED
    BY <2>1 DEF Downloading
<1>7. \/ UNCHANGED <<cache, read>>
      \/ \E r \in Readers : \/ \E p \in Paths : LookUp(r, p)
                            \/ \E data \in Contents \cup {"none", "part"} : Fetch(r, data)
                            \/ ServeFile(r)
      \/ \E lost \in SUBSET Keys : ServerCrash(lost)
  BY DEF ArtifactNext, UploadOnce, UploadLost, CompleteAttempt, AttemptEnds, OpenUpload,
     StagingEnds, MakeDirectory, RenameBlob, SyncDirectories, StorageFails, PutObject,
     PublishArtifact
<1>8. QED
  BY <1>2, <1>3, <1>4, <1>5, <1>6, <1>7

LEMMA ArtifactInvariant == ArtifactSpec => []ArtifactInv
<1>1. ArtifactInit => ArtifactInv
  <2> SUFFICES ASSUME ArtifactInit PROVE ArtifactInv
    OBVIOUS
  <2> USE NoSuchContent
  <2>1. disk \in [storage : {"filesystem", "s3"}, dir : {"none", "made", "durable"},
                  keys : SUBSET Keys]
    <3>1. \A f \in Faults : f[1] \in {"filesystem", "s3"}
      BY ArtifactConstants
    <3>2. QED
      BY <3>1 DEF ArtifactInit
  <2>2. /\ attempt \in [status : {"FINALIZING", "ENDED"}, final : SUBSET Paths]
        /\ rows \in [Paths -> Checksums] /\ blobs \in [Keys -> Objects]
        /\ cache \in [Paths -> Objects]
    BY DEF ArtifactInit, Checksums, Objects
  <2>3. up \in [Handlers -> Upload] /\ \A h \in Handlers : up[h].pc = "idle"
    BY DEF ArtifactInit, NoUpload, Upload, Checksums, Objects
  <2>4. /\ client \in Loop /\ client.phase = "next" /\ client.at = "none"
        /\ \A p \in Paths : client.acked[p] = "none"
    BY ArtifactConstants DEF ArtifactInit, Loop, Checksums
  <2>5. read \in [Readers -> Download] /\ \A r \in Readers : read[r].pc = "idle"
    BY DEF ArtifactInit, NoRead, Download, Objects
  <2>6. ResultsFrozen
    BY DEF ArtifactInit, ResultsFrozen
  <2>7. QED
    BY <2>1, <2>2, <2>3, <2>4, <2>5, <2>6
    DEF ArtifactInv, ArtifactTypeOK, Awaited, Downloading, AcceptedIsPublished
<1>2. ArtifactInv /\ [ArtifactNext]_artifactVars => ArtifactInv'
  <2>1. ArtifactInv /\ ArtifactNext => ArtifactInv'
    BY UploadSteps, ArtifactTypes, FrozenStep, AcceptedStep, DownloadStep DEF ArtifactInv
  <2>2. ArtifactInv /\ UNCHANGED artifactVars => ArtifactInv'
    BY DEF artifactVars, ArtifactInv, ArtifactTypeOK, Awaited, Downloading, ResultsFrozen,
       Published, AcceptedIsPublished
  <2>3. QED
    BY <2>1, <2>2
<1>3. QED
  BY <1>1, <1>2, PTL DEF ArtifactSpec

\* What the store says about the artifacts of an attempt stays true: they are
\* frozen with the attempt, published as acknowledged and served as published,
\* however uploads are repeated and servers and connections fail (publish(),
\* publish_artifact, upload() and download()).
THEOREM ResultsAreHonest == ArtifactSpec => []ResultsHonest
<1>1. ArtifactInv => ResultsHonest
  BY DEF ArtifactInv, Downloading, ServedIsPublished, ResultsHonest
<1>2. QED
  BY <1>1, ArtifactInvariant, PTL

-----------------------------------------------------------------------------
(* Artifacts: what is published is stored                                  *)

\* The storage keeps what it was given when the host fails: an object store
\* does, a file system of one host may not.
Reliable == <<"filesystem", "host">> \notin Faults

\* An object holds what its key says.
Whole == \A p \in Paths, c \in Contents : blobs[<<p, c>>] \in {"none", c}

\* What a handler has verified is what it stores, and what it has stored stays.
WrittenAt(u, objects) ==
  /\ u.pc \in {"put", "copy"} => u.data = u.sum
  /\ u.pc \in {"renamed", "publish"} => objects[<<u.path, u.sum>>] = u.sum
Written == \A h \in Handlers : WrittenAt(up[h], blobs)

\* An object store has no directories, and every object it holds is durable.
Bucket ==
  disk.storage = "s3" =>
    /\ disk.dir # "made"
    /\ Stored \subseteq disk.keys
    /\ \A h \in Handlers : up[h].pc \notin {"copy", "renamed"}

StoredInv == Whole /\ Written /\ Bucket /\ PublishedIsStored

\* A crash loses nothing.
LEMMA CrashSpares ==
  ASSUME Reliable, ArtifactTypeOK, Bucket, NEW lost \in SUBSET Keys, ServerCrash(lost)
  PROVE  /\ blobs' = blobs /\ (disk.storage = "s3" => disk'.dir # "made")
         /\ (disk.storage = "s3" => Stored \subseteq disk'.keys)
         /\ disk'.storage = disk.storage
<1>0. /\ disk.storage \in {"filesystem", "s3"}
      /\ disk \in [storage : {"filesystem", "s3"}, dir : {"none", "made", "durable"},
                   keys : SUBSET Keys]
      /\ blobs \in [Keys -> Objects]
  BY DEF ArtifactTypeOK
<1>1. <<disk.storage, "host">> \in Faults => disk.storage = "s3"
  BY <1>0 DEF Reliable
<1>2. lost = {}
  BY <1>1 DEF ServerCrash, Bucket
<1>3. blobs' = blobs
  <2>1. blobs' = [k \in Keys |-> blobs[k]]
    BY <1>2 DEF ServerCrash
  <2>2. QED
    BY <1>0, <2>1
<1>4. CASE UNCHANGED disk
  BY <1>3, <1>4 DEF Bucket
<1>5. CASE disk.dir = "made" /\ <<disk.storage, "host">> \in Faults
  BY <1>1, <1>5 DEF Bucket
<1>6. CASE disk' = [disk EXCEPT !.dir = "durable", !.keys = Stored \ lost]
  BY <1>0, <1>2, <1>3, <1>6
<1>7. QED
  BY <1>3, <1>4, <1>5, <1>6 DEF ServerCrash

\* No step loses an object or leaves one that is not whole.
LEMMA ObjectsKept ==
  ASSUME Reliable, ArtifactInv, StoredInv, ArtifactNext
  PROVE  /\ Whole'
         /\ \A k \in Keys : blobs[k] # "none" => blobs'[k] = blobs[k]
<1> USE NoSuchContent
<1>0. /\ blobs \in [Keys -> Objects] /\ ArtifactTypeOK /\ Awaited
      /\ Whole /\ Written /\ Bucket
  BY DEF ArtifactInv, ArtifactTypeOK, StoredInv
<1>1. CASE blobs' = blobs
  BY <1>0, <1>1 DEF Whole
<1>2. ASSUME NEW h \in Handlers, RenameBlob(h) \/ \E b \in BOOLEAN : PutObject(h, b)
      PROVE  /\ Whole'
             /\ \A k \in Keys : blobs[k] # "none" => blobs'[k] = blobs[k]
  <2> DEFINE p == up[h].path
             c == up[h].sum
  <2>1. /\ up[h].pc \in {"put", "copy"}
        /\ blobs' = [blobs EXCEPT ![<<p, c>>] = up[h].data]
    BY <1>2 DEF RenameBlob, PutObject, At, Key
  <2>2. p \in Paths /\ c \in Contents /\ up[h].data = c
    BY <1>0, <2>1 DEF Awaited, Written, WrittenAt
  <2> HIDE DEF p, c
  <2>3. <<p, c>> \in Keys
    BY <2>2 DEF Keys
  <2>4. /\ blobs'[<<p, c>>] = c
        /\ \A k \in Keys : k # <<p, c>> => blobs'[k] = blobs[k]
    BY <1>0, <2>1, <2>2, <2>3
  <2>5. blobs[<<p, c>>] \in {"none", c}
    BY <1>0, <2>2 DEF Whole
  <2>6. ASSUME NEW q \in Paths, NEW d \in Contents
        PROVE  blobs'[<<q, d>>] \in {"none", d}
    <3>1. CASE q = p /\ d = c
      BY <2>4, <3>1
    <3>2. CASE ~(q = p /\ d = c)
      <4>1. <<q, d>> \in Keys /\ <<q, d>> # <<p, c>>
        BY <3>2 DEF Keys
      <4>2. blobs'[<<q, d>>] = blobs[<<q, d>>]
        BY <2>4, <4>1
      <4>3. QED
        BY <1>0, <4>2 DEF Whole
    <3>3. QED
      BY <3>1, <3>2
  <2>7. QED
    BY <2>4, <2>5, <2>6 DEF Whole
<1>3. (\E lost \in SUBSET Keys : ServerCrash(lost)) => blobs' = blobs
  BY <1>0, CrashSpares
<1>4. \/ blobs' = blobs
      \/ \E h \in Handlers : RenameBlob(h) \/ \E b \in BOOLEAN : PutObject(h, b)
  BY <1>3 DEF ArtifactNext, UploadOnce, UploadLost, CompleteAttempt, AttemptEnds, OpenUpload,
     StagingEnds, MakeDirectory, SyncDirectories, StorageFails, PublishArtifact,
     LookUp, Fetch, ServeFile
<1>5. QED
  BY <1>1, <1>2, <1>4

\* What is published was stored before and is still there.
LEMMA PublishedStep ==
  ASSUME Reliable, ArtifactInv, StoredInv, ArtifactNext
  PROVE  PublishedIsStored'
<1> USE NoSuchContent
<1>0. /\ rows \in [Paths -> Checksums] /\ ArtifactTypeOK /\ Awaited /\ Written
      /\ PublishedIsStored
  BY DEF ArtifactInv, ArtifactTypeOK, StoredInv
<1>1. \A k \in Keys : blobs[k] # "none" => blobs'[k] = blobs[k]
  BY ObjectsKept
<1>2. ASSUME NEW p \in Paths, rows[p] # "none" PROVE blobs'[<<p, rows[p]>>] = rows[p]
  <2>1. <<p, rows[p]>> \in Keys
    BY <1>0, <1>2 DEF Keys, Checksums
  <2>2. blobs[<<p, rows[p]>>] = rows[p]
    BY <1>0, <1>2 DEF PublishedIsStored, Published
  <2>3. QED
    BY <1>1, <1>2, <2>1, <2>2
<1>3. CASE rows' = rows
  BY <1>2, <1>3 DEF PublishedIsStored, Published
<1>4. ASSUME NEW h \in Handlers, PublishArtifact(h), up[h].path \in Paths,
             up[h].sum \in Contents, rows' = [rows EXCEPT ![up[h].path] = up[h].sum],
             rows[up[h].path] = "none"
      PROVE  PublishedIsStored'
  <2> DEFINE p == up[h].path
             c == up[h].sum
  <2>1. blobs' = blobs /\ blobs[<<p, c>>] = c
    BY <1>0, <1>4 DEF PublishArtifact, At, Written, WrittenAt
  <2>2. ASSUME NEW q \in Paths, rows'[q] # "none"
        PROVE  blobs'[<<q, rows'[q]>>] = rows'[q]
    <3>1. CASE q = p
      BY <1>0, <1>4, <2>1, <3>1
    <3>2. CASE q # p
      <4>1. rows'[q] = rows[q]
        BY <1>0, <1>4, <3>2
      <4>2. QED
        BY <1>2, <2>2, <4>1
    <3>3. QED
      BY <3>1, <3>2
  <2>3. QED
    BY <2>2 DEF PublishedIsStored, Published
<1>5. QED
  BY <1>0, <1>3, <1>4, RowsGrow

LEMMA WrittenStep ==
  ASSUME Reliable, ArtifactInv, StoredInv, ArtifactNext
  PROVE  Written'
<1> USE NoSuchContent
<1>0. /\ up \in [Handlers -> Upload] /\ blobs \in [Keys -> Objects]
      /\ ArtifactTypeOK /\ Awaited /\ Written
  BY DEF ArtifactInv, ArtifactTypeOK, StoredInv
<1>1. ASSUME NEW h \in Handlers PROVE WrittenAt(up[h], blobs')
  <2>1. CASE up[h].pc \in {"renamed", "publish"}
    <3>1. <<up[h].path, up[h].sum>> \in Keys /\ blobs[<<up[h].path, up[h].sum>>] = up[h].sum
          /\ up[h].sum # "none"
      BY <1>0, <2>1 DEF Awaited, Keys, Written, WrittenAt
    <3>2. blobs'[<<up[h].path, up[h].sum>>] = up[h].sum
      BY <3>1, ObjectsKept
    <3>3. QED
      BY <2>1, <3>2 DEF WrittenAt
  <2>2. CASE up[h].pc \notin {"renamed", "publish"}
    BY <1>0, <2>2 DEF Written, WrittenAt
  <2>3. QED
    BY <2>1, <2>2
<1>2. ASSUME NEW h \in Handlers, NEW u, up' = [up EXCEPT ![h] = u], WrittenAt(u, blobs')
      PROVE  Written'
  <2>1. up'[h] = u /\ \A g \in Handlers : g # h => up'[g] = up[g]
    BY <1>0, <1>2
  <2>2. QED
    BY <1>1, <1>2, <2>1 DEF Written
<1>3. up' = up => Written'
  BY <1>1 DEF Written
<1>4. ASSUME NEW h \in Handlers, NEW a, Answer(h, a) PROVE Written'
  <2>1. up' = [up EXCEPT ![h] = NoUpload] /\ WrittenAt(NoUpload, blobs')
    BY <1>4 DEF Answer, NoUpload, WrittenAt
  <2>2. QED
    BY <1>2, <2>1
<1>5. ASSUME NEW p \in Paths, NEW c \in Contents, NEW h \in Handlers, UploadOnce(p, c, h)
      PROVE  Written'
  <2> DEFINE u == [NoUpload EXCEPT !.pc = "open", !.path = p, !.sum = c]
  <2>1. up' = [up EXCEPT ![h] = u] /\ u.pc = "open"
    BY <1>5 DEF UploadOnce, NoUpload
  <2> HIDE DEF u
  <2>2. WrittenAt(u, blobs')
    BY <2>1 DEF WrittenAt
  <2>3. QED
    BY <1>2, <2>1, <2>2
<1>6. ASSUME NEW h \in Handlers, OpenUpload(h) PROVE Written'
  <2> DEFINE u == [up[h] EXCEPT !.pc = "staging"]
  <2>1. Answer(h, "stale") \/ up' = [up EXCEPT ![h] = u]
    BY <1>6 DEF OpenUpload, Go
  <2>2. u.pc = "staging"
    BY <1>0 DEF Upload
  <2> HIDE DEF u
  <2>3. WrittenAt(u, blobs')
    BY <2>2 DEF WrittenAt
  <2>4. QED
    BY <1>2, <1>4, <2>1, <2>3
<1>7. ASSUME NEW h \in Handlers, NEW data \in {up[h].sum, "part"}, NEW cancelled \in BOOLEAN,
             StagingEnds(h, data, cancelled)
      PROVE  Written'
  <2> DEFINE u == [up[h] EXCEPT !.pc = "put", !.data = data]
  <2>1. \/ Answer(h, "unavailable") \/ Answer(h, "invalid") \/ Answer(h, "stale")
        \/ up' = [up EXCEPT ![h] = u] /\ data = up[h].sum
    BY <1>7 DEF StagingEnds, ChecksumMatches
  <2>2. u.pc = "put" /\ u.data = data /\ u.sum = up[h].sum
    BY <1>0 DEF Upload
  <2> HIDE DEF u
  <2>3. data = up[h].sum => WrittenAt(u, blobs')
    BY <2>2 DEF WrittenAt
  <2>4. QED
    BY <1>2, <1>4, <2>1, <2>3
<1>8. ASSUME NEW h \in Handlers, MakeDirectory(h) PROVE Written'
  <2> DEFINE u == [up[h] EXCEPT !.pc = "copy", !.made = (disk.dir = "none")]
  <2>1. up[h].pc = "put" /\ up' = [up EXCEPT ![h] = u]
    BY <1>8 DEF MakeDirectory, At
  <2>2. u.pc = "copy" /\ u.data = up[h].data /\ u.sum = up[h].sum
    BY <1>0 DEF Upload
  <2> HIDE DEF u
  <2>3. WrittenAt(u, blobs')
    BY <1>0, <2>1, <2>2 DEF Written, WrittenAt
  <2>4. QED
    BY <1>2, <2>1, <2>3
<1>9. ASSUME NEW h \in Handlers, NEW pc \in {"renamed", "publish"},
             up[h].pc \in {"put", "copy"}, Go(h, pc), blobs' = [blobs EXCEPT ![Key(h)] = up[h].data]
      PROVE  Written'
  <2> DEFINE u == [up[h] EXCEPT !.pc = pc]
             k == <<up[h].path, up[h].sum>>
  <2>1. up' = [up EXCEPT ![h] = u]
    BY <1>9 DEF Go
  <2>2. u.pc = pc /\ u.path = up[h].path /\ u.sum = up[h].sum
    BY <1>0 DEF Upload
  <2>3. k \in Keys /\ up[h].data = up[h].sum
    BY <1>0, <1>9 DEF Awaited, Keys, Written, WrittenAt
  <2> HIDE DEF u
  <2>4. blobs'[k] = up[h].sum
    BY <1>0, <1>9, <2>3 DEF Key
  <2>5. WrittenAt(u, blobs')
    BY <1>9, <2>2, <2>4 DEF WrittenAt
  <2>6. QED
    BY <1>2, <2>1, <2>5
<1>10. ASSUME NEW h \in Handlers,
              RenameBlob(h) \/ \E b \in BOOLEAN : PutObject(h, b)
       PROVE  Written'
  BY <1>4, <1>9, <1>10 DEF RenameBlob, PutObject, At
<1>11. ASSUME NEW h \in Handlers, SyncDirectories(h) PROVE Written'
  <2> DEFINE u == [up[h] EXCEPT !.pc = "publish"]
  <2>1. up[h].pc = "renamed" /\ up' = [up EXCEPT ![h] = u]
    BY <1>11 DEF SyncDirectories, At, Go
  <2>2. u.pc = "publish" /\ u.path = up[h].path /\ u.sum = up[h].sum
    BY <1>0 DEF Upload
  <2> HIDE DEF u
  <2>3. WrittenAt(u, blobs')
    BY <1>1, <2>1, <2>2 DEF WrittenAt
  <2>4. QED
    BY <1>2, <2>1, <2>3
<1>12. ASSUME NEW h \in Handlers, StorageFails(h) \/ PublishArtifact(h) PROVE Written'
  BY <1>4, <1>12 DEF StorageFails, PublishArtifact
<1>13. ASSUME NEW lost \in SUBSET Keys, ServerCrash(lost) PROVE Written'
  <2>1. \A h \in Handlers : up'[h].pc = "idle"
    BY <1>13 DEF ServerCrash, NoUpload
  <2>2. QED
    BY <2>1 DEF Written, WrittenAt
<1>14. \/ up' = up
       \/ \E p \in Paths, c \in Contents, h \in Handlers : UploadOnce(p, c, h)
       \/ \E h \in Handlers :
            \/ OpenUpload(h)
            \/ \E data \in {up[h].sum, "part"}, cancelled \in BOOLEAN :
                 StagingEnds(h, data, cancelled)
            \/ MakeDirectory(h) \/ RenameBlob(h) \/ SyncDirectories(h)
            \/ StorageFails(h) \/ PublishArtifact(h)
            \/ \E b \in BOOLEAN : PutObject(h, b)
       \/ \E lost \in SUBSET Keys : ServerCrash(lost)
  BY DEF ArtifactInv, ArtifactNext, UploadLost, CompleteAttempt, AttemptEnds, LookUp, Fetch,
     ServeFile
<1>15. QED
  BY <1>3, <1>5, <1>6, <1>7, <1>8, <1>10, <1>11, <1>12, <1>13, <1>14

LEMMA BucketStep ==
  ASSUME Reliable, ArtifactInv, StoredInv, ArtifactNext
  PROVE  Bucket'
<1>0. /\ up \in [Handlers -> Upload] /\ blobs \in [Keys -> Objects]
      /\ disk \in [storage : {"filesystem", "s3"}, dir : {"none", "made", "durable"},
                   keys : SUBSET Keys]
      /\ ArtifactTypeOK /\ Bucket
  BY DEF ArtifactInv, ArtifactTypeOK, StoredInv
<1>1. disk'.storage = disk.storage
  <2>1. (\E lost \in SUBSET Keys : ServerCrash(lost)) => disk'.storage = disk.storage
    BY <1>0, CrashSpares
  <2>2. QED
    BY <1>0, <2>1 DEF ArtifactNext, UploadOnce, UploadLost, CompleteAttempt, AttemptEnds,
       OpenUpload, StagingEnds, MakeDirectory, RenameBlob, SyncDirectories, StorageFails,
       PutObject, PublishArtifact, LookUp, Fetch, ServeFile
<1>2. CASE disk.storage # "s3"
  BY <1>1, <1>2 DEF Bucket
<1>3. CASE disk.storage = "s3"
  <2>0. /\ disk.dir # "made" /\ Stored \subseteq disk.keys
        /\ \A h \in Handlers : up[h].pc \notin {"copy", "renamed"}
    BY <1>0, <1>3 DEF Bucket
  <2>1. \A h \in Handlers : ~MakeDirectory(h) /\ ~RenameBlob(h) /\ ~SyncDirectories(h)
    BY <1>3, <2>0 DEF MakeDirectory, RenameBlob, SyncDirectories, At
  <2>2. disk'.dir # "made" /\ Stored' \subseteq disk'.keys
    <3>1. CASE UNCHANGED <<blobs, disk>>
      BY <2>0, <3>1 DEF Stored
    <3>2. ASSUME NEW h \in Handlers, NEW b \in BOOLEAN, PutObject(h, b)
          PROVE  disk'.dir # "made" /\ Stored' \subseteq disk'.keys
      <4>1. /\ disk'.dir = "durable" /\ disk'.keys = disk.keys \cup {Key(h)}
            /\ blobs' = [blobs EXCEPT ![Key(h)] = up[h].data]
        BY <1>0, <3>2 DEF PutObject
      <4>2. \A k \in Keys : k # Key(h) => blobs'[k] = blobs[k]
        BY <1>0, <4>1
      <4>3. QED
        BY <2>0, <4>1, <4>2 DEF Stored
    <3>3. ASSUME NEW lost \in SUBSET Keys, ServerCrash(lost)
          PROVE  disk'.dir # "made" /\ Stored' \subseteq disk'.keys
      <4>1. blobs' = blobs /\ disk'.dir # "made" /\ Stored \subseteq disk'.keys
        BY <1>0, <1>3, <3>3, CrashSpares
      <4>2. Stored' = Stored
        BY <4>1 DEF Stored
      <4>3. QED
        BY <4>1, <4>2
    <3>4. QED
      BY <2>1, <3>1, <3>2, <3>3 DEF ArtifactNext, UploadOnce, UploadLost, CompleteAttempt,
         AttemptEnds, OpenUpload, StagingEnds, StorageFails, PublishArtifact, LookUp, Fetch,
         ServeFile
  <2>3. \A h \in Handlers : up'[h].pc \notin {"copy", "renamed"}
    <3>1. \A h \in Handlers : up'[h] = up[h]
                               \/ up'[h].pc \in {"idle", "open", "staging", "put", "publish"}
      <4>1. ASSUME NEW h \in Handlers, NEW a, Answer(h, a), NEW g \in Handlers
            PROVE  up'[g] = up[g] \/ up'[g].pc = "idle"
        BY <1>0, <4>1 DEF Answer, NoUpload
      <4>2. ASSUME NEW h \in Handlers, NEW pc \in {"staging", "publish"}, Go(h, pc),
                   NEW g \in Handlers
            PROVE  up'[g] = up[g] \/ up'[g].pc = pc
        BY <1>0, <4>2 DEF Go, Upload
      <4>3. ASSUME NEW h \in Handlers, NEW g \in Handlers,
                   \/ OpenUpload(h) \/ StorageFails(h) \/ PublishArtifact(h)
                   \/ \E b \in BOOLEAN : PutObject(h, b)
            PROVE  up'[g] = up[g] \/ up'[g].pc \in {"idle", "staging", "publish"}
        BY <4>1, <4>2, <4>3 DEF OpenUpload, StorageFails, PublishArtifact, PutObject
      <4>4. ASSUME NEW h \in Handlers, NEW g \in Handlers,
                   NEW data \in {up[h].sum, "part"}, NEW cancelled \in BOOLEAN,
                   StagingEnds(h, data, cancelled)
            PROVE  up'[g] = up[g] \/ up'[g].pc \in {"idle", "put"}
        <5>1. \/ \E a \in UploadAnswers : Answer(h, a)
              \/ up' = [up EXCEPT ![h] = [up[h] EXCEPT !.pc = "put", !.data = data]]
          BY <4>4 DEF StagingEnds, UploadAnswers
        <5>2. QED
          BY <1>0, <4>1, <5>1 DEF Upload
      <4>5. ASSUME NEW p \in Paths, NEW c \in Contents, NEW h \in Handlers,
                   UploadOnce(p, c, h), NEW g \in Handlers
            PROVE  up'[g] = up[g] \/ up'[g].pc = "open"
        BY <1>0, <4>5 DEF UploadOnce, NoUpload
      <4>6. ASSUME NEW lost \in SUBSET Keys, ServerCrash(lost), NEW g \in Handlers
            PROVE  up'[g].pc = "idle"
        BY <4>6 DEF ServerCrash, NoUpload
      <4>7. \/ up' = up
            \/ \E p \in Paths, c \in Contents, h \in Handlers : UploadOnce(p, c, h)
            \/ \E h \in Handlers :
                 \/ OpenUpload(h) \/ StorageFails(h) \/ PublishArtifact(h)
                 \/ \E b \in BOOLEAN : PutObject(h, b)
            \/ \E h \in Handlers : \E data \in {up[h].sum, "part"}, cancelled \in BOOLEAN :
                 StagingEnds(h, data, cancelled)
            \/ \E lost \in SUBSET Keys : ServerCrash(lost)
        BY <2>1 DEF ArtifactNext, UploadLost, CompleteAttempt, AttemptEnds, LookUp, Fetch,
           ServeFile
      <4>8. QED
        BY <4>3, <4>4, <4>5, <4>6, <4>7
    <3>2. QED
      BY <2>0, <3>1
  <2>4. QED
    BY <2>2, <2>3 DEF Bucket
<1>4. QED
  BY <1>2, <1>3

\* A published artifact's object is there and whole, whatever was interrupted
\* or repeated, on an object store and on a file system whose host stays up
\* (ArtifactService::publish over atomic_copy and PutObject).
THEOREM PublishedStaysStored ==
  ASSUME Reliable
  PROVE  ArtifactSpec => []PublishedIsStored
<1>1. ArtifactInit => StoredInv
  <2> SUFFICES ASSUME ArtifactInit PROVE StoredInv
    OBVIOUS
  <2>1. Whole /\ Written /\ PublishedIsStored
    BY DEF ArtifactInit, Whole, Written, WrittenAt, NoUpload, PublishedIsStored, Published, Keys
  <2>2. Stored = {} /\ disk.dir = "none"
    BY DEF ArtifactInit, Stored
  <2>3. \A h \in Handlers : up[h].pc = "idle"
    BY DEF ArtifactInit, NoUpload
  <2>4. QED
    BY <2>1, <2>2, <2>3 DEF StoredInv, Bucket
<1>2. ArtifactInv /\ StoredInv /\ [ArtifactNext]_artifactVars => StoredInv'
  <2>1. ArtifactInv /\ StoredInv /\ ArtifactNext => StoredInv'
    BY ObjectsKept, WrittenStep, BucketStep, PublishedStep DEF StoredInv
  <2>2. StoredInv /\ UNCHANGED artifactVars => StoredInv'
    BY DEF artifactVars, StoredInv, Whole, Written, Bucket, Stored, PublishedIsStored, Published
  <2>3. QED
    BY <2>1, <2>2
<1>3. StoredInv => PublishedIsStored
  BY DEF StoredInv
<1>4. QED
  BY <1>1, <1>2, <1>3, ArtifactInvariant, PTL DEF ArtifactSpec

-----------------------------------------------------------------------------
(* Threads: the pool                                                       *)

\* Where a thread is while it owns a connection, and a worker while it owns
\* a request.
Holding == {"connect", "work", "release"}
Busy == Holding \cup {"acquire", "waiting", "notify", "answer"}
Places == Busy \cup {"look", "asleep", "ended", "idle"}
Ends == Outcomes \cup {"ok", "unavailable", "other"}
Statuses == {ErrorStatus[o] : o \in Ends} \cup {401, 503}
Connections == {"open", "closed", "null"}

\* The shape of the queue, of the pool, and of what the threads own: each has
\* a connection, and a worker a request, at the right places.
QueueTypeOK ==
  /\ tasks \in Seq(Requests) /\ stopping \in BOOLEAN
  /\ dispatched \in [Requests -> {"new", "notify", "accepted", "refused"}]
  /\ answers \in [Requests -> Seq(Statuses)]
  /\ server \in {"serving", "notify", "join", "ended"}
  /\ task \in [Workers -> Requests \cup {"none"}]
  /\ outcome \in [Workers -> Ends]
PoolTypeOK ==
  /\ conns \in Seq(Connections)
  /\ lease \in [Threads -> Connections \cup {"none"}]
  /\ at \in [Threads -> Places]
Owned ==
  /\ \A t \in Threads : lease[t] # "none" <=> at[t] \in Holding
  /\ \A w \in Workers : task[w] # "none" <=> at[w] \in Busy
ThreadsTypeOK == QueueTypeOK /\ PoolTypeOK /\ Owned

\* A sequence without its last element.
LEMMA Shorter ==
  ASSUME NEW C, NEW s \in Seq(C), s # <<>>, NEW n, n = Len(s) - 1
  PROVE  /\ SubSeq(s, 1, n) \in Seq(C)
         /\ Len(SubSeq(s, 1, n)) = n
         /\ s[Len(s)] \in C
<1>1. Len(s) \in Nat /\ Len(s) > 0
  OBVIOUS
<1>2. n \in Nat
  BY <1>1
<1>3. \A i \in 1 .. n : s[i] \in C
  BY <1>1
<1>4. SubSeq(s, 1, n) \in Seq(C)
  BY <1>1, <1>2, <1>3
<1>5. Len(SubSeq(s, 1, n)) = n
  BY <1>1, <1>2
<1>6. s[Len(s)] \in C
  BY <1>1
<1>7. QED
  BY <1>4, <1>5, <1>6

LEMMA TakeFacts ==
  ASSUME conns \in Seq(Connections), conns # <<>>
  PROVE  /\ Front(conns) \in Seq(Connections)
         /\ Last(conns) \in Connections
         /\ Len(Front(conns)) = Len(conns) - 1
BY Shorter DEF Front, Last

\* Sets of threads are finite; one thread more or less counts.
LEMMA ThreadsCount ==
  ASSUME NEW S \in SUBSET Threads
  PROVE  /\ IsFiniteSet(S) /\ Cardinality(S) \in Nat
         /\ \A T \in SUBSET Threads : S \subseteq T => Cardinality(S) <= Cardinality(T)
         /\ \A t \in Threads : t \notin S => Cardinality(S \cup {t}) = Cardinality(S) + 1
         /\ \A t \in S : Cardinality(S \ {t}) = Cardinality(S) - 1
<1>1. IsFiniteSet(Threads)
  BY ThreadsAssumption, FS_Union DEF Threads
<1>2. IsFiniteSet(S)
  BY <1>1, FS_Subset
<1>3. ASSUME NEW T \in SUBSET Threads, S \subseteq T
      PROVE  Cardinality(S) <= Cardinality(T)
  BY <1>1, <1>3, FS_Subset
<1>4. QED
  BY <1>2, <1>3, FS_AddElement, FS_RemoveElement, FS_CardinalityType


LEMMA QueueTyped ==
  ASSUME QueueTypeOK, PoolTypeOK, Owned, ThreadsNext
  PROVE  QueueTypeOK'
<1> USE DEF QueueTypeOK
<1>1. ASSUME UNCHANGED <<queueVars, answers, server, task>>, outcome' \in [Workers -> Ends]
      PROVE  QueueTypeOK'
  BY <1>1 DEF queueVars
<1>2. ASSUME NEW t \in Threads, NEW o \in Ends, Result(t, o) PROVE outcome' \in [Workers -> Ends]
  BY <1>2 DEF Result
<1>3. Outcomes \subseteq Ends /\ {"ok", "unavailable", "other"} \subseteq Ends
  BY DEF Ends
<1>4. ASSUME NEW r \in Requests, NEW s \in Statuses, Callback(r, s)
      PROVE  answers' \in [Requests -> Seq(Statuses)]
  <2>1. Append(answers[r], s) \in Seq(Statuses)
    OBVIOUS
  <2>2. QED
    BY <1>4, <2>1 DEF Callback
<1>5. {401, 503} \subseteq Statuses
  BY DEF Statuses
<1>6. ASSUME NEW r \in Requests, Refuse(r) PROVE QueueTypeOK'
  <2>1. answers' \in [Requests -> Seq(Statuses)]
    BY <1>4, <1>5, <1>6 DEF Refuse
  <2>2. QED
    BY <1>6, <2>1 DEF Refuse
<1>7. ASSUME NEW r \in Requests, Submit(r) PROVE QueueTypeOK'
  <2>1. Append(tasks, r) \in Seq(Requests)
    OBVIOUS
  <2>2. answers' \in [Requests -> Seq(Statuses)]
    BY <1>4, <1>5, <1>7 DEF Submit
  <2>3. tasks' \in Seq(Requests)
    BY <1>7, <2>1 DEF Submit
  <2>4. dispatched' \in [Requests -> {"new", "notify", "accepted", "refused"}]
    BY <1>7 DEF Submit
  <2>5. QED
    BY <1>7, <2>2, <2>3, <2>4 DEF Submit
<1>8. ASSUME NEW w \in Workers, Look(w) PROVE QueueTypeOK'
  <2>1. CASE tasks # <<>>
    <3>1. Head(tasks) \in Requests /\ Tail(tasks) \in Seq(Requests)
      BY <2>1
    <3>2. tasks' \in Seq(Requests) /\ task' \in [Workers -> Requests \cup {"none"}]
      BY <1>8, <2>1, <3>1 DEF Look
    <3>3. QED
      BY <1>8, <3>2 DEF Look
  <2>2. CASE tasks = <<>>
    BY <1>8, <2>2 DEF Look
  <2>3. QED
    BY <2>1, <2>2
<1>9. ASSUME NEW w \in Workers, AnswerRequest(w) PROVE QueueTypeOK'
  <2>1. w \in Threads /\ at[w] = "answer"
    BY <1>9 DEF AnswerRequest, Threads
  <2>2. task[w] \in Requests
    BY <2>1 DEF Owned, Busy
  <2>3. ErrorStatus[outcome[w]] \in Statuses
    BY DEF Statuses
  <2>4. answers' \in [Requests -> Seq(Statuses)]
    BY <1>4, <1>9, <2>2, <2>3 DEF AnswerRequest
  <2>5. outcome' \in [Workers -> Ends] /\ task' \in [Workers -> Requests \cup {"none"}]
    BY <1>3, <1>9 DEF AnswerRequest, NoRequest
  <2>6. QED
    BY <1>9, <2>4, <2>5 DEF AnswerRequest, queueVars
<1>10. ASSUME NEW r \in Requests, NotifyReady(r) PROVE QueueTypeOK'
  BY <1>10 DEF NotifyReady
<1>11. ASSUME NEW t \in Threads, BeginCall(t) \/ PoolStep(t) \/ PoolTimeout(t) PROVE QueueTypeOK'
  <2>1. outcome' \in [Workers -> Ends]
    BY <1>2, <1>3, <1>11 DEF BeginCall, PoolStep, PoolTimeout, Acquire, Connect, ReconnectFails,
       Work, Release, NotifyAvailable
  <2>2. UNCHANGED <<queueVars, answers, server, task>>
    BY <1>11 DEF BeginCall, PoolStep, PoolTimeout, Acquire, Connect, ReconnectFails, Work,
       Release, NotifyAvailable
  <2>3. QED
    BY <1>1, <2>1, <2>2
<1>12. CASE StopExecutor \/ NotifyStopped \/ Join
  BY <1>12 DEF StopExecutor, NotifyStopped, Join, queueVars
<1>13. QED
  BY <1>6, <1>7, <1>8, <1>9, <1>10, <1>11, <1>12 DEF ThreadsNext

\* The pool and the place of one thread.
LEMMA PoolTyped ==
  ASSUME QueueTypeOK, PoolTypeOK, Owned, ThreadsNext
  PROVE  PoolTypeOK' /\ Owned'
<1> USE DEF PoolTypeOK
<1>0. /\ Workers \subseteq Threads /\ RpcThreads \subseteq Threads
      /\ Workers \cap RpcThreads = {}
  BY ThreadsAssumption DEF Threads
<1>1. ASSUME NEW t \in Threads, NEW p \in Places, NEW l \in Connections \cup {"none"},
             at' = [at EXCEPT ![t] = p], lease' = [lease EXCEPT ![t] = l],
             l # "none" <=> p \in Holding,
             t \in Workers => (p \in Busy <=> at[t] \in Busy),
             UNCHANGED task, conns' \in Seq(Connections)
      PROVE  PoolTypeOK' /\ Owned'
  <2>1. at' \in [Threads -> Places] /\ lease' \in [Threads -> Connections \cup {"none"}]
    BY <1>1
  <2>2. ASSUME NEW u \in Threads PROVE lease'[u] # "none" <=> at'[u] \in Holding
    BY <1>1 DEF Owned
  <2>3. ASSUME NEW w \in Workers PROVE task'[w] # "none" <=> at'[w] \in Busy
    BY <1>0, <1>1 DEF Owned
  <2>4. QED
    BY <1>1, <2>1, <2>2, <2>3 DEF Owned
<1>2. ASSUME NEW t \in Threads
      PROVE  Done(t) \in Places \ Holding /\ (t \in Workers => Done(t) \in Busy)
  BY DEF Done, Places, Holding, Busy
<1>3. ASSUME UNCHANGED <<conns, lease, task>>, at' \in [Threads -> Places],
             \A t \in Threads : \/ at'[t] = at[t]
                                \/ /\ at[t] \notin Holding /\ at'[t] \notin Holding
                                   /\ t \in Workers => (at[t] \in Busy <=> at'[t] \in Busy)
      PROVE  PoolTypeOK' /\ Owned'
  BY <1>0, <1>3 DEF Owned
<1>4. ASSUME NEW r \in Requests, Refuse(r) \/ Submit(r) \/ NotifyReady(r)
      PROVE  PoolTypeOK' /\ Owned'
  <2>1. UNCHANGED <<conns, lease, task>>
    BY <1>4 DEF Refuse, Submit, NotifyReady, poolVars
  <2>2. at' = at \/ \E w \in Workers : at[w] = "asleep" /\ at' = [at EXCEPT ![w] = "look"]
    BY <1>4 DEF Refuse, Submit, NotifyReady
  <2>3. QED
    BY <1>0, <1>3, <2>1, <2>2 DEF Holding, Busy, Places
<1>5. ASSUME NEW w \in Workers, Look(w) PROVE PoolTypeOK' /\ Owned'
  <2>1. UNCHANGED <<conns, lease>> /\ at[w] = "look"
    BY <1>5 DEF Look, poolVars
  <2>2. CASE tasks # <<>>
    <3>1. Head(tasks) # "none"
      BY <2>2, ThreadsAssumption DEF QueueTypeOK
    <3>2. at' = [at EXCEPT ![w] = "acquire"] /\ task' = [task EXCEPT ![w] = Head(tasks)]
      BY <1>5, <2>2 DEF Look
    <3>3. at' \in [Threads -> Places]
      BY <3>2 DEF Places, Busy
    <3>4. ASSUME NEW u \in Threads PROVE lease'[u] # "none" <=> at'[u] \in Holding
      BY <1>0, <2>1, <3>2 DEF Owned, Holding
    <3>5. ASSUME NEW u \in Workers PROVE task'[u] # "none" <=> at'[u] \in Busy
      BY <1>0, <3>1, <3>2 DEF Owned, Busy, QueueTypeOK
    <3>6. QED
      BY <2>1, <3>3, <3>4, <3>5 DEF Owned
  <2>3. CASE tasks = <<>>
    <3>1. UNCHANGED task /\ \E p \in {"ended", "asleep"} : at' = [at EXCEPT ![w] = p]
      BY <1>5, <2>3 DEF Look
    <3>2. QED
      BY <1>0, <1>3, <2>1, <3>1 DEF Places, Busy, Holding
  <2>4. QED
    BY <2>2, <2>3
<1>6. ASSUME NEW w \in Workers, AnswerRequest(w) PROVE PoolTypeOK' /\ Owned'
  <2>1. /\ UNCHANGED <<conns, lease>> /\ at[w] = "answer"
        /\ at' = [at EXCEPT ![w] = "look"] /\ task' = [task EXCEPT ![w] = "none"]
    BY <1>6 DEF AnswerRequest, poolVars, NoRequest
  <2>2. at' \in [Threads -> Places]
    BY <2>1 DEF Places
  <2>3. ASSUME NEW u \in Threads PROVE lease'[u] # "none" <=> at'[u] \in Holding
    BY <1>0, <2>1 DEF Owned, Holding
  <2>4. ASSUME NEW u \in Workers PROVE task'[u] # "none" <=> at'[u] \in Busy
    BY <1>0, <2>1 DEF Owned, Busy, Holding, QueueTypeOK
  <2>5. QED
    BY <2>1, <2>2, <2>3, <2>4 DEF Owned
<1>7. ASSUME NEW t \in Threads, BeginCall(t) PROVE PoolTypeOK' /\ Owned'
  <2>1. /\ UNCHANGED <<conns, lease, task>> /\ t \in RpcThreads /\ at[t] = "idle"
        /\ at' = [at EXCEPT ![t] = "acquire"]
    BY <1>7 DEF BeginCall, poolVars
  <2>2. QED
    BY <1>0, <1>3, <2>1 DEF Holding, Busy, Places
<1>8. ASSUME NEW t \in Threads, TakeConnection(t), at[t] \in Busy, UNCHANGED task
      PROVE  PoolTypeOK' /\ Owned'
  <2>1. Front(conns) \in Seq(Connections) /\ Last(conns) \in Connections /\ Last(conns) # "none"
    BY <1>8, TakeFacts DEF TakeConnection, Connections
  <2>2. QED
    BY <1>1, <1>8, <2>1 DEF TakeConnection, Holding, Busy, Places
<1>9. ASSUME NEW t \in Threads, NEW p \in Places \ Holding, at[t] \in Busy, p \in Busy,
             at[t] \notin Holding,
             at' = [at EXCEPT ![t] = p], UNCHANGED <<conns, lease, task>>
      PROVE  PoolTypeOK' /\ Owned'
  <2>1. at' \in [Threads -> Places] /\ at'[t] = p /\ \A u \in Threads : u # t => at'[u] = at[u]
    BY <1>9
  <2>2. QED
    BY <1>3, <1>9, <2>1
<1>10. ASSUME NEW t \in Threads, Acquire(t) PROVE PoolTypeOK' /\ Owned'
  <2>1. at[t] = "acquire" /\ UNCHANGED task
    BY <1>10 DEF Acquire
  <2>2. CASE TakeConnection(t)
    BY <1>8, <2>1, <2>2 DEF Busy
  <2>3. CASE at' = [at EXCEPT ![t] = "waiting"] /\ UNCHANGED poolVars
    BY <1>9, <2>1, <2>3 DEF poolVars, Holding, Busy, Places
  <2>4. QED
    BY <1>10, <2>2, <2>3 DEF Acquire
<1>11. ASSUME NEW t \in Threads, PoolTimeout(t) PROVE PoolTypeOK' /\ Owned'
  <2>1. at[t] = "waiting" /\ UNCHANGED task
    BY <1>11 DEF PoolTimeout
  <2>2. CASE TakeConnection(t)
    BY <1>8, <2>1, <2>2 DEF Busy
  <2>3. CASE at' = [at EXCEPT ![t] = Done(t)] /\ UNCHANGED poolVars
    <3>1. at[t] \in Busy /\ at[t] \notin Holding /\ UNCHANGED <<conns, lease>>
      BY <2>1, <2>3 DEF Busy, Holding, poolVars
    <3>2. lease[t] = "none" /\ lease' = [lease EXCEPT ![t] = "none"]
      BY <3>1 DEF Owned
    <3>3. QED
      BY <1>1, <1>2, <2>1, <2>3, <3>1, <3>2
  <2>4. QED
    BY <1>11, <2>2, <2>3 DEF PoolTimeout
<1>12. ASSUME NEW t \in Threads, Connect(t) PROVE PoolTypeOK' /\ Owned'
  BY <1>1, <1>12 DEF Connect, Holding, Busy, Places, Connections
<1>13. ASSUME NEW t \in Threads, ReconnectFails(t) PROVE PoolTypeOK' /\ Owned'
  <2>1. Append(conns, "null") \in Seq(Connections)
    BY DEF Connections
  <2>2. QED
    BY <1>1, <1>13, <2>1 DEF ReconnectFails, Holding, Busy, Places
<1>14. ASSUME NEW t \in Threads, Work(t) PROVE PoolTypeOK' /\ Owned'
  <2>1. lease[t] \in Connections
    BY <1>14 DEF Work, Owned, Holding
  <2>2. \E l \in Connections : lease' = [lease EXCEPT ![t] = l]
    BY <1>14, <2>1 DEF Work, Connections
  <2>3. QED
    BY <1>1, <1>14, <2>2 DEF Work, Holding, Busy, Places, Connections
<1>15. ASSUME NEW t \in Threads, Release(t) PROVE PoolTypeOK' /\ Owned'
  <2>1. lease[t] \in Connections
    BY <1>15 DEF Release, Owned, Holding
  <2>2. Append(conns, lease[t]) \in Seq(Connections)
    BY <2>1
  <2>3. QED
    BY <1>1, <1>15, <2>2 DEF Release, Holding, Busy, Places
<1>16. ASSUME NEW t \in Threads, NotifyAvailable(t) PROVE PoolTypeOK' /\ Owned'
  <2>1. at[t] = "notify" /\ UNCHANGED <<conns, lease, task>>
    BY <1>16 DEF NotifyAvailable, poolVars
  <2>2. \/ at' = [at EXCEPT ![t] = Done(t)]
        \/ \E u \in Threads : /\ at[u] = "waiting"
                              /\ at' = [[at EXCEPT ![t] = Done(t)] EXCEPT ![u] = "acquire"]
    BY <1>16 DEF NotifyAvailable
  <2>3. at' \in [Threads -> Places]
    BY <1>2, <2>2 DEF Places, Busy
  <2>4. \A u \in Threads : \/ at'[u] = at[u]
                           \/ at[u] = "waiting" /\ at'[u] = "acquire"
                           \/ u = t /\ at'[t] = Done(t)
    BY <1>2, <2>1, <2>2
  <2>5. QED
    BY <1>2, <1>3, <2>1, <2>3, <2>4 DEF Holding, Busy
<1>17. CASE StopExecutor \/ NotifyStopped \/ Join
  <2>1. UNCHANGED <<conns, lease, task>>
    BY <1>17 DEF StopExecutor, NotifyStopped, Join, poolVars
  <2>2. /\ at' \in [Threads -> Places]
        /\ \A t \in Threads : at'[t] = at[t] \/ (at[t] = "asleep" /\ at'[t] = "look")
    BY <1>17 DEF StopExecutor, NotifyStopped, Join, Places
  <2>3. QED
    BY <1>3, <2>1, <2>2 DEF Holding, Busy
<1>18. QED
  BY <1>4, <1>5, <1>6, <1>7, <1>10, <1>11, <1>12, <1>13, <1>14, <1>15, <1>16, <1>17
  DEF ThreadsNext, PoolStep

\* The threads that own a connection, and those about to take or announce one.
Holders(l) == {t \in Threads : l[t] # "none"}
Announcing(a) == {t \in Threads : a[t] \in {"acquire", "notify"}}

\* No connection is lost: what leaves the pool is in the hands of a thread.
LEMMA SlotsStep ==
  ASSUME QueueTypeOK, PoolTypeOK, Owned, SlotsConserved, ThreadsNext
  PROVE  SlotsConserved'
<1>0. /\ conns \in Seq(Connections) /\ lease \in [Threads -> Connections \cup {"none"}]
      /\ Len(conns) \in Nat /\ PoolSize \in Nat
  BY ThreadsAssumption DEF PoolTypeOK
<1>1. /\ Len(conns) + Cardinality(Holders(lease)) = PoolSize
      /\ Cardinality(Holders(lease)) \in Nat /\ Holders(lease) \in SUBSET Threads
  <2>1. Holders(lease) \in SUBSET Threads
    BY DEF Holders
  <2>2. QED
    BY <2>1, ThreadsCount DEF SlotsConserved, Holders
<1>2. Len(conns') + Cardinality(Holders(lease')) = PoolSize => SlotsConserved'
  BY DEF SlotsConserved, Holders
<1>3. ASSUME NEW t \in Threads, NEW l \in Connections, lease[t] = "none",
             lease' = [lease EXCEPT ![t] = l], Len(conns') = Len(conns) - 1
      PROVE  SlotsConserved'
  <2>1. Holders(lease') = Holders(lease) \cup {t} /\ t \notin Holders(lease)
    BY <1>0, <1>3 DEF Holders, Connections
  <2>2. Cardinality(Holders(lease')) = Cardinality(Holders(lease)) + 1
    BY <1>1, <2>1, ThreadsCount
  <2>3. QED
    BY <1>0, <1>1, <1>2, <1>3, <2>2
<1>4. ASSUME NEW t \in Threads, lease[t] # "none",
             lease' = [lease EXCEPT ![t] = "none"], Len(conns') = Len(conns) + 1
      PROVE  SlotsConserved'
  <2>1. Holders(lease') = Holders(lease) \ {t} /\ t \in Holders(lease)
    BY <1>0, <1>4 DEF Holders
  <2>2. Cardinality(Holders(lease')) = Cardinality(Holders(lease)) - 1
    BY <1>1, <2>1, ThreadsCount
  <2>3. QED
    BY <1>0, <1>1, <1>2, <1>4, <2>2
<1>5. ASSUME conns' = conns, \A t \in Threads : lease'[t] # "none" <=> lease[t] # "none"
      PROVE  SlotsConserved'
  <2>1. Holders(lease') = Holders(lease)
    BY <1>5 DEF Holders
  <2>2. QED
    BY <1>1, <1>2, <1>5, <2>1
<1>6. ASSUME NEW t \in Threads, TakeConnection(t), at[t] \notin Holding PROVE SlotsConserved'
  <2>1. Last(conns) \in Connections /\ Len(Front(conns)) = Len(conns) - 1
    BY <1>0, <1>6, TakeFacts DEF TakeConnection
  <2>2. lease[t] = "none"
    BY <1>6 DEF Owned
  <2>3. QED
    BY <1>3, <1>6, <2>1, <2>2 DEF TakeConnection
<1>7. ASSUME NEW t \in Threads, Acquire(t) \/ PoolTimeout(t) PROVE SlotsConserved'
  <2>1. TakeConnection(t) \/ UNCHANGED poolVars
    BY <1>7 DEF Acquire, PoolTimeout
  <2>2. at[t] \notin Holding
    BY <1>7 DEF Acquire, PoolTimeout, Holding
  <2>3. QED
    BY <1>5, <1>6, <2>1, <2>2 DEF poolVars
<1>8. ASSUME NEW t \in Threads, Connect(t) \/ Work(t) PROVE SlotsConserved'
  <2>1. /\ lease[t] # "none" /\ conns' = conns
        /\ lease' = lease \/ \E l \in {"open", "closed"} : lease' = [lease EXCEPT ![t] = l]
    BY <1>8 DEF Connect, Work, Owned, Holding
  <2>2. QED
    BY <1>0, <1>5, <2>1
<1>9. ASSUME NEW t \in Threads, ReconnectFails(t) \/ Release(t) PROVE SlotsConserved'
  <2>1. /\ lease[t] # "none" /\ lease' = [lease EXCEPT ![t] = "none"]
        /\ conns' = Append(conns, "null") \/ conns' = Append(conns, lease[t])
    BY <1>9 DEF ReconnectFails, Release, Owned, Holding
  <2>2. lease[t] \in Connections /\ "null" \in Connections
    BY <1>0, <2>1 DEF Connections
  <2>3. Len(conns') = Len(conns) + 1
    BY <1>0, <2>1, <2>2
  <2>4. QED
    BY <1>4, <2>1, <2>3
<1>10. UNCHANGED poolVars => SlotsConserved'
  BY <1>5 DEF poolVars
<1>11. QED
  BY <1>7, <1>8, <1>9, <1>10 DEF ThreadsNext, PoolStep, Refuse, Submit, NotifyReady, Look,
     AnswerRequest, BeginCall, NotifyAvailable, StopExecutor, NotifyStopped, Join, poolVars

\* No wake-up is lost: whoever puts a connection back announces it, and whoever
\* is woken looks.
LEMMA AnnouncedStep ==
  ASSUME QueueTypeOK, PoolTypeOK, Owned, FreeConnectionAnnounced, ThreadsNext
  PROVE  FreeConnectionAnnounced'
<1> DEFINE Waits(a) == \E t \in Threads : a[t] = "waiting"
<1>0. /\ conns \in Seq(Connections) /\ Len(conns) \in Nat /\ at \in [Threads -> Places]
  BY DEF PoolTypeOK
<1>1. /\ Waits(at) => Len(conns) <= Cardinality(Announcing(at))
      /\ Cardinality(Announcing(at)) \in Nat /\ Announcing(at) \in SUBSET Threads
  <2>1. Announcing(at) \in SUBSET Threads
    BY DEF Announcing
  <2>2. QED
    BY <2>1, ThreadsCount DEF FreeConnectionAnnounced, Announcing
<1>2. /\ (Waits(at') => Len(conns') <= Cardinality(Announcing(at'))) => FreeConnectionAnnounced'
      /\ Cardinality(Announcing(at')) \in Nat /\ Announcing(at') \in SUBSET Threads
  <2>1. Announcing(at') \in SUBSET Threads
    BY DEF Announcing
  <2>2. QED
    BY <2>1, ThreadsCount DEF FreeConnectionAnnounced, Announcing
<1>3. ASSUME conns' = conns, \A t \in Threads : at'[t] = "waiting" => at[t] = "waiting",
             \A t \in Threads : at[t] \in {"acquire", "notify"} => at'[t] \in {"acquire", "notify"}
      PROVE  FreeConnectionAnnounced'
  <2>1. Announcing(at) \subseteq Announcing(at')
    BY <1>3 DEF Announcing
  <2>2. Cardinality(Announcing(at)) <= Cardinality(Announcing(at'))
    BY <1>1, <1>2, <2>1, ThreadsCount
  <2>3. Waits(at') => Waits(at)
    BY <1>3
  <2> HIDE DEF Waits
  <2>4. QED
    BY <1>0, <1>1, <1>2, <1>3, <2>2, <2>3
<1>4. ASSUME NEW t \in Threads, NEW p \in Places, UNCHANGED conns, at' = [at EXCEPT ![t] = p],
             p # "waiting", at[t] \notin {"acquire", "notify"}
      PROVE  FreeConnectionAnnounced'
  BY <1>0, <1>3, <1>4
<1>5. ASSUME conns' = <<>> PROVE FreeConnectionAnnounced'
  <2>1. Len(conns') = 0
    BY <1>5
  <2>2. QED
    BY <1>2, <2>1
<1>6. ASSUME NEW t \in Threads, TakeConnection(t), at[t] \in {"acquire", "waiting"}
      PROVE  FreeConnectionAnnounced'
  <2>1. /\ at' = [at EXCEPT ![t] = "connect"] /\ Len(conns') = Len(conns) - 1
    BY <1>0, <1>6, TakeFacts DEF TakeConnection
  <2>2. Waits(at') => Waits(at)
    BY <1>0, <2>1
  <2>3. Cardinality(Announcing(at')) >= Cardinality(Announcing(at)) - 1
    <3>1. CASE at[t] = "acquire"
      <4>1. Announcing(at') = Announcing(at) \ {t} /\ t \in Announcing(at)
        BY <1>0, <2>1, <3>1 DEF Announcing
      <4>2. QED
        BY <1>1, <4>1, ThreadsCount
    <3>2. CASE at[t] = "waiting"
      <4>1. Announcing(at') = Announcing(at)
        BY <1>0, <2>1, <3>2 DEF Announcing
      <4>2. QED
        BY <1>1, <4>1
    <3>3. QED
      BY <1>6, <3>1, <3>2
  <2> HIDE DEF Waits
  <2>4. QED
    BY <1>0, <1>1, <1>2, <2>1, <2>2, <2>3
<1>7. ASSUME NEW t \in Threads, at[t] \in Holding, at' = [at EXCEPT ![t] = "notify"],
             Len(conns') = Len(conns) + 1
      PROVE  FreeConnectionAnnounced'
  <2>1. Announcing(at') = Announcing(at) \cup {t} /\ t \notin Announcing(at)
    BY <1>0, <1>7 DEF Announcing, Holding
  <2>2. Cardinality(Announcing(at')) = Cardinality(Announcing(at)) + 1
    BY <1>1, <2>1, ThreadsCount
  <2>3. Waits(at') => Waits(at)
    BY <1>0, <1>7
  <2> HIDE DEF Waits
  <2>4. QED
    BY <1>0, <1>1, <1>2, <1>7, <2>2, <2>3
<1>8. ASSUME NEW t \in Threads, Acquire(t) \/ PoolTimeout(t) PROVE FreeConnectionAnnounced'
  <2>1. at[t] \in {"acquire", "waiting"}
    BY <1>8 DEF Acquire, PoolTimeout
  <2>2. CASE TakeConnection(t)
    BY <1>6, <2>1, <2>2
  <2>3. CASE ~TakeConnection(t)
    BY <1>5, <1>8, <2>3 DEF Acquire, PoolTimeout, poolVars
  <2>4. QED
    BY <2>2, <2>3
<1>9. ASSUME NEW t \in Threads, ReconnectFails(t) \/ Release(t) PROVE FreeConnectionAnnounced'
  <2>1. /\ at[t] \in Holding /\ at' = [at EXCEPT ![t] = "notify"]
        /\ conns' = Append(conns, "null") \/ conns' = Append(conns, lease[t])
    BY <1>9 DEF ReconnectFails, Release, Holding
  <2>2. lease[t] \in Connections /\ "null" \in Connections
    BY <2>1 DEF Owned, PoolTypeOK, Connections
  <2>3. Len(conns') = Len(conns) + 1
    BY <1>0, <2>1, <2>2
  <2>4. QED
    BY <1>7, <2>1, <2>3
<1>10. ASSUME NEW t \in Threads, Connect(t) \/ Work(t) \/ BeginCall(t)
       PROVE  FreeConnectionAnnounced'
  <2>1. /\ conns' = conns /\ at[t] \notin {"acquire", "notify"}
        /\ \E p \in {"work", "release", "acquire"} : at' = [at EXCEPT ![t] = p]
    BY <1>10 DEF Connect, Work, BeginCall, poolVars
  <2>2. QED
    BY <1>4, <2>1 DEF Places, Busy, Holding
<1>11. ASSUME NEW t \in Threads, NotifyAvailable(t) PROVE FreeConnectionAnnounced'
  <2> DEFINE next == [at EXCEPT ![t] = Done(t)]
  <2>0. at[t] = "notify" /\ UNCHANGED conns /\ Done(t) \in {"answer", "idle"}
    BY <1>11 DEF NotifyAvailable, poolVars, Done
  <2>1. CASE ~Waits(at)
    <3>1. {u \in Threads : at[u] = "waiting"} = {}
      BY <2>1
    <3>2. at' = next
      BY <1>11, <3>1 DEF NotifyAvailable
    <3>3. ~Waits(at')
      BY <1>0, <2>0, <2>1, <3>2
    <3>4. QED
      BY <1>2, <3>3
  <2>2. CASE Waits(at)
    <3>1. PICK u \in Threads : at[u] = "waiting" /\ at' = [next EXCEPT ![u] = "acquire"]
      BY <1>11, <2>2 DEF NotifyAvailable
    <3>2. Announcing(at') = (Announcing(at) \ {t}) \cup {u}
      BY <1>0, <2>0, <3>1 DEF Announcing
    <3>3. t \in Announcing(at) /\ u \notin Announcing(at) \ {t}
          /\ Announcing(at) \ {t} \in SUBSET Threads
      BY <1>1, <2>0, <3>1 DEF Announcing
    <3>4. Cardinality(Announcing(at) \ {t}) = Cardinality(Announcing(at)) - 1
      BY <1>1, <3>3, ThreadsCount
    <3>5. Cardinality(Announcing(at')) = Cardinality(Announcing(at) \ {t}) + 1
      BY <3>2, <3>3, ThreadsCount
    <3> HIDE DEF Waits
    <3>6. QED
      BY <1>0, <1>1, <1>2, <2>0, <2>2, <3>4, <3>5
  <2>3. QED
    BY <2>1, <2>2
<1>12. ASSUME NEW w \in Workers, Look(w) \/ AnswerRequest(w) PROVE FreeConnectionAnnounced'
  <2>1. /\ conns' = conns /\ at[w] \notin {"acquire", "notify"} /\ w \in Threads
        /\ \E p \in {"acquire", "ended", "asleep", "look"} : at' = [at EXCEPT ![w] = p]
    BY <1>12 DEF Look, AnswerRequest, poolVars, Threads
  <2>2. QED
    BY <1>4, <2>1 DEF Places, Busy
<1>13. ASSUME NEW r \in Requests, Refuse(r) \/ Submit(r) \/ NotifyReady(r)
       PROVE  FreeConnectionAnnounced'
  <2>1. /\ conns' = conns
        /\ at' = at \/ \E w \in Workers : at[w] = "asleep" /\ at' = [at EXCEPT ![w] = "look"]
    BY <1>13 DEF Refuse, Submit, NotifyReady, poolVars
  <2>2. QED
    BY <1>0, <1>3, <2>1
<1>14. CASE StopExecutor \/ NotifyStopped \/ Join
  <2>1. /\ conns' = conns
        /\ \A t \in Threads : at'[t] = at[t] \/ (at[t] = "asleep" /\ at'[t] = "look")
    BY <1>14 DEF StopExecutor, NotifyStopped, Join, poolVars
  <2>2. QED
    BY <1>3, <2>1
<1>15. QED
  BY <1>8, <1>9, <1>10, <1>11, <1>12, <1>13, <1>14 DEF ThreadsNext, PoolStep

-----------------------------------------------------------------------------
(* Threads: the queue of requests                                          *)

\* A request waits in the queue or is in the hands of a worker.
Queued(q, r) == \E i \in 1 .. Len(q) : q[i] = r
Taken(hands, r) == \E w \in Workers : hands[w] = r
Pending(q, hands, r) == Queued(q, r) \/ Taken(hands, r)

\* It does so in one place only.
Single(q, hands) ==
  /\ \A i, j \in 1 .. Len(q) : q[i] = q[j] => i = j
  /\ \A w, v \in Workers : hands[w] # "none" /\ hands[w] = hands[v] => w = v
  /\ \A i \in 1 .. Len(q), w \in Workers : q[i] # hands[w]

\* It is pending from its acceptance to its answer.
Told(q, hands) ==
  \A r \in Requests :
    /\ Pending(q, hands, r) => dispatched[r] \in {"notify", "accepted"} /\ Len(answers[r]) = 0
    /\ ~Pending(q, hands, r) /\ dispatched[r] # "new" => Len(answers[r]) = 1
    /\ dispatched[r] = "new" => Len(answers[r]) = 0

\* A worker ends when nothing is left and nothing can come, and shutdown()
\* returns when all have.
Ending ==
  /\ stopping <=> server # "serving"
  /\ \A w \in Workers : at[w] = "ended" => stopping /\ tasks = <<>>
  /\ server = "ended" => \A w \in Workers : at[w] = "ended"

QueueInv == Single(tasks, task) /\ Told(tasks, task) /\ Ending

LEMMA QueueAnswers ==
  ASSUME QueueTypeOK, Owned, QueueInv
  PROVE  AnsweredOnce
<1>1. ASSUME NEW r \in Requests PROVE Len(answers[r]) <= 1
  <2>1. Len(answers[r]) = 0 \/ Len(answers[r]) = 1
    <3>1. /\ Pending(tasks, task, r) => Len(answers[r]) = 0
          /\ ~Pending(tasks, task, r) /\ dispatched[r] # "new" => Len(answers[r]) = 1
          /\ dispatched[r] = "new" => Len(answers[r]) = 0
      BY DEF QueueInv, Told
    <3>2. QED
      BY <3>1
  <2>2. answers[r] \in Seq(Statuses)
    BY DEF QueueTypeOK
  <2>3. Len(answers[r]) \in Nat
    BY <2>2
  <2>4. \A n \in Nat : n \in {0, 1} => n <= 1
    OBVIOUS
  <2>5. Len(answers[r]) \in {0, 1}
    BY <2>1
  <2>6. QED
    BY <2>3, <2>4, <2>5
<1>2. ASSUME NEW r \in Requests, server = "ended", dispatched[r] # "new"
      PROVE  Len(answers[r]) = 1
  <2>1. tasks = <<>> /\ \A w \in Workers : at[w] = "ended"
    BY <1>2, ThreadsAssumption DEF QueueInv, Ending
  <2>2. \A w \in Workers : task[w] = "none"
    BY <2>1 DEF Owned, Busy, Holding
  <2>3. r # "none"
    BY ThreadsAssumption
  <2>4. ~Pending(tasks, task, r)
    BY <2>1, <2>2, <2>3 DEF Pending, Queued, Taken
  <2>5. QED
    BY <1>2, <2>4 DEF QueueInv, Told
<1>3. QED
  BY <1>1, <1>2 DEF AnsweredOnce

LEMMA QueueStep ==
  ASSUME QueueTypeOK, PoolTypeOK, Owned, QueueInv, ThreadsNext
  PROVE  QueueInv'
<1>0. /\ Single(tasks, task) /\ Told(tasks, task) /\ Ending
      /\ tasks \in Seq(Requests) /\ Len(tasks) \in Nat
      /\ answers \in [Requests -> Seq(Statuses)]
      /\ task \in [Workers -> Requests \cup {"none"}]
      /\ dispatched \in [Requests -> {"new", "notify", "accepted", "refused"}]
      /\ at \in [Threads -> Places] /\ Workers \subseteq Threads
      /\ "none" \notin Requests
  BY ThreadsAssumption DEF QueueInv, QueueTypeOK, PoolTypeOK, Threads
<1>1. {401, 503} \subseteq Statuses /\ \A w \in Workers : ErrorStatus[outcome[w]] \in Statuses
  BY DEF Statuses, QueueTypeOK
<1>2. ASSUME NEW r \in Requests, NEW s \in Statuses, Callback(r, s)
      PROVE  /\ Len(answers'[r]) = Len(answers[r]) + 1
             /\ \A q \in Requests : q # r => answers'[q] = answers[q]
  BY <1>0, <1>2 DEF Callback
<1>3. ASSUME UNCHANGED <<tasks, stopping, server>>,
             \A w \in Workers : at'[w] = "ended" => at[w] = "ended" \/ (stopping /\ tasks = <<>>),
             \A w \in Workers : at[w] = "ended" => at'[w] = "ended"
      PROVE  Ending'
  BY <1>0, <1>3 DEF Ending
<1>4. ASSUME UNCHANGED <<tasks, task, dispatched, answers, stopping, server>>,
             \A w \in Workers : at'[w] = "ended" <=> at[w] = "ended"
      PROVE  QueueInv'
  <2>1. Told(tasks, task)'
    BY <1>0, <1>4 DEF Told
  <2>2. Single(tasks, task)'
    BY <1>0, <1>4
  <2>3. QED
    BY <1>3, <1>4, <2>1, <2>2 DEF QueueInv
<1>5. ASSUME NEW r \in Requests, NEW s \in Statuses, dispatched[r] = "new",
             dispatched' = [dispatched EXCEPT ![r] = "refused"], Callback(r, s),
             UNCHANGED <<tasks, stopping, server, at, task>>
      PROVE  QueueInv'
  <2>1. ~Pending(tasks, task, r) /\ Len(answers[r]) = 0
    BY <1>0, <1>5 DEF Told
  <2>2. Len(answers'[r]) = 1 /\ dispatched'[r] = "refused"
    <3>1. Len(answers'[r]) = Len(answers[r]) + 1
      BY <1>2, <1>5
    <3>2. QED
      BY <1>0, <1>5, <2>1, <3>1
  <2>3. \A q \in Requests : q # r => answers'[q] = answers[q] /\ dispatched'[q] = dispatched[q]
    BY <1>0, <1>2, <1>5
  <2>4. Told(tasks, task)'
    BY <1>0, <1>5, <2>1, <2>2, <2>3 DEF Told, Pending, Queued, Taken
  <2>5. Single(tasks, task)'
    BY <1>0, <1>5 DEF Single
  <2>6. QED
    BY <1>3, <1>5, <2>4, <2>5 DEF QueueInv
<1>6. ASSUME NEW r \in Requests, Refuse(r) PROVE QueueInv'
  BY ZenonT(30), <1>1, <1>5, <1>6 DEF Refuse
<1>7. ASSUME NEW r \in Requests, Submit(r) PROVE QueueInv'
  <2>1. CASE ~Accepts
    BY <1>1, <1>5, <1>7, <2>1 DEF Submit
  <2>2. CASE Accepts
    <3>0. /\ tasks' = Append(tasks, r) /\ dispatched' = [dispatched EXCEPT ![r] = "notify"]
          /\ UNCHANGED <<answers, stopping, server, at, task>> /\ dispatched[r] = "new"
          /\ ~stopping
      BY <1>7, <2>2 DEF Submit, Accepts
    <3>1. ~Pending(tasks, task, r) /\ Len(answers[r]) = 0
      BY <1>0, <3>0 DEF Told
    <3>2. /\ Len(tasks') = Len(tasks) + 1 /\ tasks'[Len(tasks) + 1] = r
          /\ \A i \in 1 .. Len(tasks) : tasks'[i] = tasks[i]
      BY <1>0, <3>0
    <3>3. \A q \in Requests : Queued(tasks', q) <=> (Queued(tasks, q) \/ q = r)
      <4>1. ASSUME NEW i \in 1 .. Len(tasks')
            PROVE  (i \in 1 .. Len(tasks) /\ tasks'[i] = tasks[i]) \/ tasks'[i] = r
        BY <1>0, <3>2
      <4>2. \A i \in 1 .. Len(tasks) : i \in 1 .. Len(tasks') /\ tasks'[i] = tasks[i]
        BY <1>0, <3>2
      <4>3. Len(tasks) + 1 \in 1 .. Len(tasks')
        BY <1>0, <3>2
      <4>4. QED
        BY <3>2, <4>1, <4>2, <4>3 DEF Queued
    <3>4. \A q \in Requests : Pending(tasks', task, q) <=> (Pending(tasks, task, q) \/ q = r)
      BY <3>3 DEF Pending
    <3>5. \A q \in Requests : q # r => dispatched'[q] = dispatched[q]
      BY <1>0, <3>0
    <3>6. dispatched'[r] = "notify"
      BY <1>0, <3>0
    <3>7. Told(tasks, task)'
      BY <1>0, <3>0, <3>1, <3>4, <3>5, <3>6 DEF Told
    <3>8. Single(tasks, task)'
      <4>1. ASSUME NEW i \in 1 .. Len(tasks'), NEW j \in 1 .. Len(tasks'), tasks'[i] = tasks'[j]
            PROVE  i = j
        <5>1. \A k \in 1 .. Len(tasks) : tasks[k] # r
          BY <3>1 DEF Pending, Queued
        <5>2. CASE i \in 1 .. Len(tasks) /\ j \in 1 .. Len(tasks)
          BY <1>0, <3>2, <4>1, <5>2 DEF Single
        <5>3. CASE i \notin 1 .. Len(tasks)
          <6>1. i = Len(tasks) + 1 /\ tasks'[j] = r
            BY <1>0, <3>2, <4>1, <5>3
          <6>2. j \notin 1 .. Len(tasks)
            BY <3>2, <5>1, <6>1
          <6>3. QED
            BY <1>0, <3>2, <6>1, <6>2
        <5>4. CASE j \notin 1 .. Len(tasks)
          <6>1. j = Len(tasks) + 1 /\ tasks'[i] = r
            BY <1>0, <3>2, <4>1, <5>4
          <6>2. i \notin 1 .. Len(tasks)
            BY <3>2, <5>1, <6>1
          <6>3. QED
            BY <1>0, <3>2, <6>1, <6>2
        <5>5. QED
          BY <5>2, <5>3, <5>4
      <4>2. ASSUME NEW i \in 1 .. Len(tasks'), NEW w \in Workers PROVE tasks'[i] # task[w]
        <5>1. (i \in 1 .. Len(tasks) /\ tasks'[i] = tasks[i]) \/ tasks'[i] = r
          BY <1>0, <3>2
        <5>2. task[w] # r
          BY <3>1 DEF Pending, Taken
        <5>3. QED
          BY <1>0, <5>1, <5>2 DEF Single
      <4>3. QED
        BY <1>0, <3>0, <4>1, <4>2 DEF Single
    <3>9. Ending'
      BY <1>0, <3>0 DEF Ending
    <3>10. QED
      BY <3>7, <3>8, <3>9 DEF QueueInv
  <2>3. QED
    BY <2>1, <2>2
<1>8. ASSUME NEW r \in Requests, NotifyReady(r) PROVE QueueInv'
  <2>1. /\ UNCHANGED <<tasks, task, answers, stopping, server>> /\ dispatched[r] = "notify"
        /\ dispatched' = [dispatched EXCEPT ![r] = "accepted"]
        /\ at' = at \/ \E w \in Workers : at[w] = "asleep" /\ at' = [at EXCEPT ![w] = "look"]
    BY <1>8 DEF NotifyReady
  <2>2. dispatched'[r] = "accepted" /\ \A q \in Requests : q # r => dispatched'[q] = dispatched[q]
    BY <1>0, <2>1
  <2>3. Told(tasks, task)'
    BY <1>0, <2>1, <2>2 DEF Told
  <2>4. Single(tasks, task)'
    BY <1>0, <2>1 DEF Single
  <2>5. Ending'
    BY <1>0, <1>3, <2>1
  <2>6. QED
    BY <2>3, <2>4, <2>5 DEF QueueInv
<1>9. ASSUME NEW w \in Workers, Look(w) PROVE QueueInv'
  <2>1. CASE tasks = <<>>
    <3>1. /\ UNCHANGED <<tasks, task, dispatched, answers, stopping, server>> /\ at[w] = "look"
          /\ at' = [at EXCEPT ![w] = IF stopping THEN "ended" ELSE "asleep"]
      BY <1>9, <2>1 DEF Look
    <3>2. Ending'
      BY <1>0, <1>3, <2>1, <3>1
    <3>3. Told(tasks, task)' /\ Single(tasks, task)'
      BY <1>0, <3>1 DEF Told, Single
    <3>4. QED
      BY <3>2, <3>3 DEF QueueInv
  <2>2. CASE tasks # <<>>
    <3> DEFINE r == Head(tasks)
    <3>0. /\ tasks' = Tail(tasks) /\ task' = [task EXCEPT ![w] = r] /\ at[w] = "look"
          /\ at' = [at EXCEPT ![w] = "acquire"]
          /\ UNCHANGED <<dispatched, answers, stopping, server>>
      BY <1>9, <2>2 DEF Look
    <3>1. /\ r = tasks[1] /\ r \in Requests /\ Len(tasks') = Len(tasks) - 1 /\ Len(tasks) # 0
          /\ \A i \in 1 .. Len(tasks') : tasks'[i] = tasks[i + 1]
      BY <1>0, <2>2, <3>0
    <3>2. task[w] = "none"
      BY <3>0 DEF Owned, Busy, Holding
    <3> HIDE DEF r
    <3>3. task'[w] = r /\ \A v \in Workers : v # w => task'[v] = task[v]
      BY <1>0, <3>0
    <3>4. \A q \in Requests : Pending(tasks', task', q) <=> Pending(tasks, task, q)
      <4>1. ASSUME NEW q \in Requests, Pending(tasks', task', q) PROVE Pending(tasks, task, q)
        <5>1. CASE Queued(tasks', q)
          <6>1. PICK i \in 1 .. Len(tasks') : tasks'[i] = q
            BY <5>1 DEF Queued
          <6>2. i + 1 \in 1 .. Len(tasks) /\ tasks[i + 1] = q
            BY <1>0, <3>1, <6>1
          <6>3. QED
            BY <6>2 DEF Pending, Queued
        <5>2. CASE Taken(task', q)
          <6>1. PICK v \in Workers : task'[v] = q
            BY <5>2 DEF Taken
          <6>2. CASE v = w
            BY <1>0, <3>1, <3>3, <6>1, <6>2 DEF Pending, Queued
          <6>3. CASE v # w
            BY <3>3, <6>1, <6>3 DEF Pending, Taken
          <6>4. QED
            BY <6>2, <6>3
        <5>3. QED
          BY <4>1, <5>1, <5>2 DEF Pending
      <4>2. ASSUME NEW q \in Requests, Pending(tasks, task, q) PROVE Pending(tasks', task', q)
        <5>1. CASE Queued(tasks, q)
          <6>1. PICK i \in 1 .. Len(tasks) : tasks[i] = q
            BY <5>1 DEF Queued
          <6>2. CASE i = 1
            BY <3>1, <3>3, <6>1, <6>2 DEF Pending, Taken
          <6>3. CASE i # 1
            <7>1. i - 1 \in 1 .. Len(tasks') /\ (i - 1) + 1 = i
              BY <1>0, <3>1, <6>3
            <7>2. tasks'[i - 1] = q
              BY <3>1, <6>1, <7>1
            <7>3. QED
              BY <7>1, <7>2 DEF Pending, Queued
          <6>4. QED
            BY <6>2, <6>3
        <5>2. CASE Taken(task, q)
          <6>1. PICK v \in Workers : task[v] = q
            BY <5>2 DEF Taken
          <6>2. v # w
            BY <1>0, <3>2, <6>1
          <6>3. QED
            BY <3>3, <6>1, <6>2 DEF Pending, Taken
        <5>3. QED
          BY <4>2, <5>1, <5>2 DEF Pending
      <4>3. QED
        BY <4>1, <4>2
    <3>5. Told(tasks, task)'
      BY <1>0, <3>0, <3>4 DEF Told
    <3>6. Single(tasks, task)'
      <4>1. ASSUME NEW i \in 1 .. Len(tasks'), NEW j \in 1 .. Len(tasks'), tasks'[i] = tasks'[j]
            PROVE  i = j
        <5>1. /\ i + 1 \in 1 .. Len(tasks) /\ j + 1 \in 1 .. Len(tasks)
              /\ tasks[i + 1] = tasks[j + 1]
          BY SMTT(20), <1>0, <3>1, <4>1
        <5>2. i + 1 = j + 1
          BY <1>0, <5>1 DEF Single
        <5>3. QED
          BY <5>2
      <4>2. ASSUME NEW i \in 1 .. Len(tasks'), NEW v \in Workers PROVE tasks'[i] # task'[v]
        <5>1. i + 1 \in 1 .. Len(tasks) /\ tasks'[i] = tasks[i + 1] /\ i + 1 # 1
              /\ 1 \in 1 .. Len(tasks)
          BY <1>0, <3>1
        <5>2. tasks[i + 1] # r /\ tasks[i + 1] # task[v]
          BY <1>0, <3>1, <5>1 DEF Single
        <5>3. QED
          BY <3>3, <5>1, <5>2
      <4>3. ASSUME NEW v \in Workers, NEW u \in Workers, task'[v] # "none", task'[v] = task'[u]
            PROVE  v = u
        <5>1. 1 \in 1 .. Len(tasks) /\ tasks[1] = r
          BY <1>0, <3>1
        <5>2. \A x \in Workers : task[x] # r
          BY <1>0, <5>1 DEF Single
        <5>3. QED
          BY <1>0, <3>3, <4>3, <5>2 DEF Single
      <4>4. QED
        BY <4>1, <4>2, <4>3 DEF Single
    <3>7. Ending'
      <4>1. \A v \in Workers : at[v] # "ended"
        BY <1>0, <2>2 DEF Ending
      <4>2. \A v \in Workers : at'[v] # "ended"
        BY <1>0, <3>0, <4>1
      <4>3. QED
        BY <1>0, <3>0, <4>1, <4>2 DEF Ending
    <3>8. QED
      BY <3>5, <3>6, <3>7 DEF QueueInv
  <2>3. QED
    BY <2>1, <2>2
<1>10. ASSUME NEW w \in Workers, AnswerRequest(w) PROVE QueueInv'
  <2> DEFINE r == task[w]
  <2>1. /\ at[w] = "answer" /\ task' = [task EXCEPT ![w] = "none"]
        /\ at' = [at EXCEPT ![w] = "look"] /\ UNCHANGED <<tasks, dispatched, stopping, server>>
    BY <1>10 DEF AnswerRequest, NoRequest, queueVars
  <2>2. r \in Requests /\ r # "none"
    BY <1>0, <2>1 DEF Owned, Busy
  <2>3. Callback(r, ErrorStatus[outcome[w]]) /\ ErrorStatus[outcome[w]] \in Statuses
    BY <1>1, <1>10 DEF AnswerRequest
  <2>4. /\ Len(answers'[r]) = Len(answers[r]) + 1
        /\ \A q \in Requests : q # r => answers'[q] = answers[q]
    BY <1>2, <2>2, <2>3
  <2>5. Pending(tasks, task, r)
    BY DEF Pending, Taken
  <2>6. task'[w] = "none" /\ \A v \in Workers : v # w => task'[v] = task[v]
    BY <1>0, <2>1
  <2>7. ~Pending(tasks, task', r)
    <3>1. ~Queued(tasks, r)
      BY <1>0 DEF Single, Queued
    <3>2. ~Taken(task', r)
      BY <1>0, <2>2, <2>6 DEF Single, Taken
    <3>3. QED
      BY <3>1, <3>2 DEF Pending
  <2>8. \A q \in Requests : q # r => (Pending(tasks, task', q) <=> Pending(tasks, task, q))
    BY <1>0, <2>6 DEF Pending, Taken
  <2>9. dispatched[r] \in {"notify", "accepted"} /\ Len(answers[r]) = 0
    BY <1>0, <2>2, <2>5 DEF Told
  <2>10. Told(tasks, task)'
    <3>1. Len(answers'[r]) = 1 /\ dispatched'[r] # "new" /\ ~Pending(tasks', task', r)
      BY <2>1, <2>4, <2>7, <2>9
    <3>2. \A q \in Requests : q # r => /\ Pending(tasks', task', q) <=> Pending(tasks, task, q)
                                       /\ answers'[q] = answers[q]
                                       /\ dispatched'[q] = dispatched[q]
      BY <2>1, <2>4, <2>8
    <3> HIDE DEF r
    <3>3. QED
      BY <1>0, <3>1, <3>2 DEF Told
  <2>11. Single(tasks, task)'
    <3>1. \A i \in 1 .. Len(tasks) : tasks[i] \in Requests
      BY <1>0
    <3>2. QED
      BY <1>0, <2>1, <2>6, <3>1 DEF Single
  <2>12. Ending'
    BY <1>0, <1>3, <2>1
  <2>13. QED
    BY <2>10, <2>11, <2>12 DEF QueueInv
<1>11. ASSUME NEW t \in Threads, BeginCall(t) \/ PoolStep(t) \/ PoolTimeout(t) PROVE QueueInv'
  <2>1. UNCHANGED <<tasks, task, dispatched, answers, stopping, server>>
    BY <1>11 DEF BeginCall, PoolStep, PoolTimeout, Acquire, Connect, ReconnectFails, Work,
       Release, NotifyAvailable, queueVars
  <2>2. at[t] # "ended"
    BY <1>11 DEF BeginCall, PoolStep, PoolTimeout, Acquire, Connect, ReconnectFails, Work,
       Release, NotifyAvailable
  <2>3. Done(t) # "ended"
    BY DEF Done
  <2>4. \/ \E p \in {"acquire", "connect", "waiting", "work", "notify", "release", Done(t)} :
             at' = [at EXCEPT ![t] = p]
        \/ \E u \in Threads : /\ at[u] = "waiting"
                              /\ at' = [[at EXCEPT ![t] = Done(t)] EXCEPT ![u] = "acquire"]
    BY <1>11 DEF BeginCall, PoolStep, PoolTimeout, Acquire, TakeConnection, Connect,
       ReconnectFails, Work, Release, NotifyAvailable
  <2>5. \A w \in Workers : at'[w] = "ended" <=> at[w] = "ended"
    BY <1>0, <2>2, <2>3, <2>4
  <2>6. QED
    BY <1>4, <2>1, <2>5
<1>12. CASE StopExecutor
  <2>1. /\ UNCHANGED <<tasks, task, dispatched, answers, at>> /\ server = "serving"
        /\ server' = "notify" /\ stopping' = TRUE
    BY <1>12 DEF StopExecutor
  <2>2. Ending'
    BY <1>0, <2>1 DEF Ending
  <2>3. QED
    BY <1>0, <2>1, <2>2 DEF QueueInv, Told, Single
<1>13. CASE NotifyStopped
  <2>1. /\ UNCHANGED <<tasks, task, dispatched, answers, stopping>> /\ server = "notify"
        /\ server' = "join"
        /\ at' = [t \in Threads |-> IF at[t] = "asleep" THEN "look" ELSE at[t]]
    BY <1>13 DEF NotifyStopped, queueVars
  <2>2. \A w \in Workers : at'[w] = "ended" <=> at[w] = "ended"
    BY <1>0, <2>1
  <2>3. Ending'
    BY <1>0, <2>1, <2>2 DEF Ending
  <2>4. QED
    BY <1>0, <2>1, <2>3 DEF QueueInv, Told, Single
<1>14. CASE Join
  <2>1. /\ UNCHANGED <<tasks, task, dispatched, answers, stopping, at>> /\ server = "join"
        /\ server' = "ended" /\ \A w \in Workers : at[w] = "ended"
    BY <1>14 DEF Join, queueVars
  <2>2. Ending'
    BY <1>0, <2>1 DEF Ending
  <2>3. QED
    BY <1>0, <2>1, <2>2 DEF QueueInv, Told, Single
<1>15. QED
  BY <1>6, <1>7, <1>8, <1>9, <1>10, <1>11, <1>12, <1>13, <1>14 DEF ThreadsNext

\* Pool and executor stay whole, whatever breaks and in whatever order threads
\* run (ConnectionPool::acquire, ~Lease, Executor::submit and shutdown()).
THEOREM QueuesStayWhole == ThreadsSpec => []QueuesWhole
<1> DEFINE Inv == QueueTypeOK /\ PoolTypeOK /\ Owned /\ SlotsConserved
                  /\ FreeConnectionAnnounced /\ QueueInv
<1>1. ThreadsInit => Inv
  <2> SUFFICES ASSUME ThreadsInit PROVE Inv
    OBVIOUS
  <2>1. QueueTypeOK
    <3>1. <<>> \in Seq(Requests) /\ <<>> \in Seq(Statuses)
      OBVIOUS
    <3>2. answers \in [Requests -> Seq(Statuses)]
      BY <3>1 DEF ThreadsInit
    <3>3. outcome \in [Workers -> Ends]
      BY DEF ThreadsInit, Ends
    <3>4. QED
      BY <3>1, <3>2, <3>3 DEF ThreadsInit, QueueTypeOK, NoRequest
  <2>2. PoolTypeOK
    BY ThreadsAssumption DEF ThreadsInit, PoolTypeOK, Places, Busy, Connections
  <2>3. Owned
    BY DEF ThreadsInit, Owned, Holding, Busy, NoRequest, Threads
  <2>4. SlotsConserved
    <3>1. Holders(lease) = {}
      BY DEF ThreadsInit, Holders
    <3>2. Cardinality(Holders(lease)) = 0 /\ PoolSize \in Nat
      BY <3>1, FS_EmptySet, ThreadsAssumption
    <3>3. Len(conns) = PoolSize
      BY ThreadsAssumption DEF ThreadsInit
    <3>4. Len(conns) + Cardinality(Holders(lease)) = PoolSize
      BY <3>2, <3>3
    <3>5. QED
      BY <3>4 DEF SlotsConserved, Holders
  <2>5. FreeConnectionAnnounced
    BY DEF ThreadsInit, FreeConnectionAnnounced
  <2>6. QueueInv
    BY ThreadsAssumption DEF ThreadsInit, QueueInv, Single, Told, Ending, Pending, Queued, Taken,
       NoRequest, Threads
  <2>7. QED
    BY <2>1, <2>2, <2>3, <2>4, <2>5, <2>6
<1>2. Inv /\ [ThreadsNext]_threadVars => Inv'
  <2>1. Inv /\ ThreadsNext => Inv'
    BY QueueTyped, PoolTyped, SlotsStep, AnnouncedStep, QueueStep
  <2>2. Inv /\ UNCHANGED threadVars => Inv'
    BY DEF threadVars, QueueTypeOK, PoolTypeOK, Owned, SlotsConserved, FreeConnectionAnnounced,
       QueueInv, Single, Told, Ending
  <2>3. QED
    BY <2>1, <2>2
<1>3. Inv => QueuesWhole
  BY QueueAnswers DEF QueuesWhole
<1>4. QED
  BY <1>1, <1>2, <1>3, PTL DEF ThreadsSpec

-----------------------------------------------------------------------------
(* The agents of a worker and its GPU: what a process remembers of its     *)
(* lists and of the attempt it launches stays true while rows, containers  *)
(* and other processes move on.                                            *)

\* The steps of run_agent that follow the assignment.
Launching == {"inspect", "create", "start", "report"}
Serving == {"clean", "confirm"} \cup Launching
ProcSteps == {"off", "dead", "inventory", "reconcile", "stop", "poll", "assign"} \cup Serving
BoxStates == {"none", "created", "running", "exited"}
BoxRow == [state : BoxStates, claimed : BOOLEAN]
JobRow == [status : {"unknown", "QUEUED", "STARTING", "RUNNING", "ENDED"},
           cleanup : {"PENDING", "DONE"}, runtime : BOOLEAN]
Process == [pc : ProcSteps, todo : SUBSET Names, work : Jobs \cup {"none"},
            found : Names \cup BoxStates, reconciled : BOOLEAN]

\* The shape of the state.
AgentsTypeOK ==
  /\ overlap \in BOOLEAN
  /\ row \in [Names -> JobRow]
  /\ wrk \in [session : Nat, ready : BOOLEAN]
  /\ agent \in [Procs -> Process]
  /\ box \in [Names -> BoxRow]
  /\ runs \in [Names -> Nat]
  /\ faults \in Nat

\* A runner that owns its attempt is at work in container b.
Owning(b) == b.state = "running" /\ b.claimed

\* The GPU is reserved for the attempt with row r.
Reserves(r) == r.cleanup = "PENDING" /\ r.status # "QUEUED"

StraysGone(boxes) == \A s \in Strays : boxes[s].state = "none"

\* What process p remembers is still so: what it is to clean up has ended,
\* what it has removed has no owner, and no stray escapes its list.
Remembers(p, jobs, boxes) ==
  /\ p.pc \in Launching => p.work \in Jobs
  /\ p.pc \in {"assign", "clean", "confirm"} =>
       \A a \in p.todo : a \in Jobs /\ jobs[a].status = "ENDED"
  /\ p.pc = "confirm" =>
       p.found \in Jobs /\ jobs[p.found].status = "ENDED" /\ ~Owning(boxes[p.found])
  /\ p.pc \in {"reconcile", "stop"} =>
       \A s \in Strays : boxes[s].state # "none" => s \in p.todo
  /\ p.reconciled => StraysGone(boxes)

\* The rows and the engine: one attempt holds the GPU, an owner's attempt does,
\* and none is assigned before the strays are gone.
OneReserves(jobs) ==
  /\ \A s \in Strays : jobs[s].status = "unknown"
  /\ \A a \in Jobs : jobs[a].status # "unknown"
  /\ \A a \in Jobs : jobs[a].cleanup = "DONE" => jobs[a].status = "ENDED"
  /\ \A a, b \in Jobs : Reserves(jobs[a]) /\ Reserves(jobs[b]) => a = b
StraysFirst(jobs, boxes) ==
  wrk.ready \/ (\E a \in Jobs : jobs[a].status # "QUEUED") => StraysGone(boxes)
OwnersReserve(jobs, boxes) ==
  \A a \in Jobs : Owning(boxes[a]) =>
    jobs[a].status \in {"RUNNING", "ENDED"} /\ jobs[a].cleanup = "PENDING"

AgentsInv ==
  /\ AgentsTypeOK
  /\ \A g \in Procs : Remembers(agent[g], row, box)
  /\ OneReserves(row)
  /\ StraysFirst(row, box)
  /\ OwnersReserve(row, box)

LEMMA NamesApart ==
  ASSUME AgentConstants
  PROVE  /\ \A s \in Strays : s \notin Jobs /\ s \in Names /\ s # "none"
         /\ \A a \in Jobs : a \notin Strays /\ a \in Names /\ a # "none"
         /\ \A a \in Names : a \in Jobs \/ a \in Strays
         /\ "none" \notin Jobs /\ "none" \notin Names
  BY DEF AgentConstants, Names

\* A step that ends nothing twice, brings back no stray and gives no ended
\* attempt an owner leaves true what other processes remember.
Onward ==
  /\ \A a \in Jobs : row[a].status = "ENDED" => row'[a].status = "ENDED"
  /\ StraysGone(box) => StraysGone(box')
  /\ \A s \in Strays : box[s].state = "none" => box'[s].state = "none"
  /\ \A a \in Jobs : row[a].status = "ENDED" /\ ~Owning(box[a]) => ~Owning(box'[a])

LEMMA StillRemembers ==
  ASSUME NEW p, Remembers(p, row, box), Onward
  PROVE  Remembers(p, row', box')
  BY DEF Remembers, Onward

LEMMA SameOnward == ASSUME UNCHANGED <<row, box>> PROVE Onward
  BY DEF Onward

\* Only process g moves, to p.
LEMMA OthersRemember ==
  ASSUME AgentsInv, Onward, NEW g \in Procs, NEW p,
         agent' = [agent EXCEPT ![g] = p], Remembers(p, row', box')
  PROVE  \A h \in Procs : Remembers(agent'[h], row', box')
  <1> SUFFICES ASSUME NEW h \in Procs PROVE Remembers(agent'[h], row', box')
    OBVIOUS
  <1>1. agent \in [Procs -> Process]
    BY DEF AgentsInv, AgentsTypeOK
  <1>2. CASE h = g
    BY <1>1, <1>2
  <1>3. CASE h # g
    <2>1. agent'[h] = agent[h]
      BY <1>1, <1>3
    <2>2. Remembers(agent[h], row', box')
      BY StillRemembers DEF AgentsInv
    <2> QED BY <2>1, <2>2
  <1> QED BY <1>2, <1>3

\* A process that ends, or starts over.
LEMMA DeadProcess ==
  /\ [NotStarted EXCEPT !.pc = "dead"] \in Process
  /\ \A jobs, boxes : Remembers([NotStarted EXCEPT !.pc = "dead"], jobs, boxes)
  BY DEF NotStarted, Process, Remembers, ProcSteps, Serving, Launching, BoxStates, Names

LEMMA TopProcess ==
  ASSUME AgentsInv, NEW g \in Procs
  PROVE  /\ ToTop(g) \in Process
         /\ Remembers(ToTop(g), row, box)
         /\ ToTop(g).pc = "inventory"
  <1>1. agent[g] \in Process /\ Remembers(agent[g], row, box)
    BY DEF AgentsInv, AgentsTypeOK
  <1>3. agent[g].reconciled \in BOOLEAN
    BY <1>1 DEF Process
  <1> QED BY <1>1, <1>3 DEF ToTop, Process, Remembers, ProcSteps, Serving, Launching,
             BoxStates, Names

\* What a step has to show: it moves one process, and the tables stay sound.
TablesSound ==
  /\ row \in [Names -> JobRow]
  /\ wrk \in [session : Nat, ready : BOOLEAN]
  /\ box \in [Names -> BoxRow]
  /\ runs \in [Names -> Nat]
  /\ OneReserves(row)
  /\ StraysFirst(row, box)
  /\ OwnersReserve(row, box)

LEMMA SoundTables == ASSUME AgentsInv PROVE TablesSound
  BY DEF AgentsInv, AgentsTypeOK, TablesSound

LEMMA SameTablesSound ==
  ASSUME TablesSound, UNCHANGED <<row, wrk, box, runs>>
  PROVE  TablesSound'
  BY DEF TablesSound, StraysFirst

LEMMA ProcessMoves ==
  ASSUME AgentsInv, Onward, TablesSound', UNCHANGED overlap, faults' \in Nat,
         NEW g \in Procs, NEW p \in Process,
         agent' = [agent EXCEPT ![g] = p], Remembers(p, row', box')
  PROVE  AgentsInv'
  <1>1. \A h \in Procs : Remembers(agent'[h], row', box')
    BY OthersRemember
  <1>2. agent' \in [Procs -> Process]
    BY DEF AgentsInv, AgentsTypeOK
  <1> QED BY <1>1, <1>2 DEF AgentsInv, AgentsTypeOK, TablesSound

LEMMA TablesMove ==
  ASSUME AgentsInv, Onward, TablesSound', UNCHANGED <<overlap, agent, faults>>
  PROVE  AgentsInv'
  <1>1. \A h \in Procs : Remembers(agent[h], row', box')
    BY StillRemembers DEF AgentsInv
  <1> QED BY <1>1 DEF AgentsInv, AgentsTypeOK, TablesSound

\* An answer that arrives, or does not.
LEMMA GoesTo ==
  ASSUME AgentConstants, AgentsInv, Onward, TablesSound', UNCHANGED overlap,
         NEW g \in Procs, NEW p \in Process,
         Goes(g, p), Remembers(p, row', box')
  PROVE  AgentsInv'
  <1>1. CASE agent' = [agent EXCEPT ![g] = p] /\ UNCHANGED faults
    <2>1. faults' \in Nat
      BY <1>1 DEF AgentsInv, AgentsTypeOK
    <2> QED BY <1>1, <2>1, ProcessMoves
  <1>2. CASE faults' = faults + 1 /\ agent' = [agent EXCEPT ![g] = ToTop(g)]
    <2>1. faults' \in Nat
      BY <1>2 DEF AgentsInv, AgentsTypeOK
    <2>2. ToTop(g) \in Process /\ Remembers(ToTop(g), row', box')
      BY TopProcess, StillRemembers
    <2> QED BY <1>2, <2>1, <2>2, ProcessMoves
  <1> QED BY <1>1, <1>2 DEF Goes

\* A step that leaves the tables alone.
LEMMA QuietGoes ==
  ASSUME AgentConstants, AgentsInv, UNCHANGED <<overlap, row, wrk, box, runs>>,
         NEW g \in Procs, NEW p \in Process,
         Goes(g, p) \/ (agent' = [agent EXCEPT ![g] = p] /\ UNCHANGED faults),
         Remembers(p, row, box)
  PROVE  AgentsInv'
  <1>1. Onward /\ TablesSound'
    BY SameOnward, SoundTables, SameTablesSound
  <1>2. faults \in Nat /\ Remembers(p, row', box')
    BY DEF AgentsInv, AgentsTypeOK
  <1> QED BY <1>1, <1>2, GoesTo, ProcessMoves

LEMMA StaleQuiet ==
  ASSUME AgentConstants, AgentsInv, UNCHANGED <<overlap, row, wrk, box, runs>>,
         NEW g \in Procs, StaleSession(g)
  PROVE  AgentsInv'
  BY QuietGoes, DeadProcess DEF StaleSession

LEMMA StepsIn ==
  /\ \A x \in {"off", "dead", "inventory", "reconcile", "stop", "poll", "assign",
               "clean", "confirm", "inspect", "create", "start", "report"} : x \in ProcSteps
  BY DEF ProcSteps, Serving, Launching

LEMMA ProcessFacts ==
  ASSUME AgentsInv, NEW g \in Procs
  PROVE  /\ agent[g] \in Process /\ Remembers(agent[g], row, box)
  BY DEF AgentsInv, AgentsTypeOK

\* Steps that only ask.
LEMMA QuietSteps ==
  ASSUME AgentConstants, AgentsInv, NEW g \in Procs,
         \/ ListContainers(g) \/ Reconcile(g) \/ StopsDone(g) \/ PollServer(g)
         \/ CleansDone(g) \/ Inspect(g) \/ StepFails(g) \/ AgentDies(g) \/ HeartbeatStale(g)
  PROVE  AgentsInv'
  <1>0. /\ agent[g] \in Process /\ Remembers(agent[g], row, box)
        /\ row \in [Names -> JobRow] /\ box \in [Names -> BoxRow] /\ OneReserves(row)
        /\ faults \in Nat
    BY ProcessFacts DEF AgentsInv, AgentsTypeOK
  <1> DEFINE q == agent[g]
  <1>1. CASE ListContainers(g)
    <2> DEFINE p == [q EXCEPT !.pc = "reconcile", !.todo = {a \in Names : box[a].state # "none"}]
    <2>1. p \in Process
      BY <1>0, StepsIn DEF Process
    <2>2. p.pc = "reconcile" /\ p.todo = {a \in Names : box[a].state # "none"}
          /\ p.reconciled = q.reconciled
      BY <1>0 DEF Process
    <2>3. agent' = [agent EXCEPT ![g] = p] /\ UNCHANGED <<overlap, row, wrk, box, runs, faults>>
      BY <1>1 DEF ListContainers
    <2> HIDE DEF p
    <2>4. Remembers(p, row, box)
      BY <1>0, <2>2, NamesApart DEF Remembers, Launching
    <2> QED BY <2>1, <2>3, <2>4, QuietGoes
  <1>2. CASE Reconcile(g)
    <2> DEFINE p == [q EXCEPT !.pc = "stop", !.todo = StopAttempts(q.todo)]
    <2>0. q.pc = "reconcile" /\ UNCHANGED <<overlap, row, wrk, box, runs>>
          /\ (Goes(g, p) \/ StaleSession(g))
      BY <1>2 DEF Reconcile, Step
    <2>1. p \in Process
      BY <1>0, StepsIn DEF Process, StopAttempts
    <2>2. p.pc = "stop" /\ p.todo = StopAttempts(q.todo) /\ p.reconciled = q.reconciled
      BY <1>0 DEF Process
    <2> HIDE DEF p
    <2>3. \A s \in Strays : box[s].state # "none" => s \in p.todo
      BY <1>0, <2>0, <2>2 DEF Remembers, StopAttempts, Active, OneReserves
    <2>4. Remembers(p, row, box)
      BY <1>0, <2>2, <2>3 DEF Remembers, Launching
    <2> QED BY <2>0, <2>1, <2>4, QuietGoes, StaleQuiet
  <1>3. CASE StopsDone(g)
    <2> DEFINE p == [q EXCEPT !.pc = "poll", !.reconciled = TRUE]
    <2>0. q.pc = "stop" /\ q.todo = {} /\ UNCHANGED <<overlap, row, wrk, box, runs, faults>>
          /\ agent' = [agent EXCEPT ![g] = p]
      BY <1>3 DEF StopsDone, Step
    <2>1. p \in Process
      BY <1>0, StepsIn DEF Process
    <2>2. p.pc = "poll"
      BY <1>0 DEF Process
    <2> HIDE DEF p
    <2>3. StraysGone(box)
      BY <1>0, <2>0 DEF Remembers, StraysGone
    <2>4. Remembers(p, row, box)
      BY <2>2, <2>3 DEF Remembers, Launching
    <2> QED BY <2>0, <2>1, <2>4, QuietGoes
  <1>4. CASE PollServer(g)
    <2> DEFINE p == [q EXCEPT !.pc = "assign", !.todo = CleanupList]
    <2>0. q.pc = "poll" /\ UNCHANGED <<overlap, row, wrk, box, runs>>
          /\ (Goes(g, p) \/ StaleSession(g))
      BY <1>4 DEF PollServer, Step
    <2>1. p \in Process
      BY <1>0, StepsIn, NamesApart DEF Process, CleanupList
    <2>2. p.pc = "assign" /\ p.todo = CleanupList /\ p.reconciled = q.reconciled
      BY <1>0 DEF Process
    <2> HIDE DEF p
    <2>4. Remembers(p, row, box)
      BY <1>0, <2>2 DEF Remembers, Launching, CleanupList
    <2> QED BY <2>0, <2>1, <2>4, QuietGoes, StaleQuiet
  <1>5. CASE CleansDone(g)
    <2> DEFINE p == [q EXCEPT !.pc = "inspect"]
    <2>0. q.pc = "clean" /\ q.todo = {} /\ UNCHANGED <<overlap, row, wrk, box, runs, faults>>
          /\ \/ agent' = [agent EXCEPT ![g] = ToTop(g)]
             \/ agent' = [agent EXCEPT ![g] = p] /\ q.work # "none"
      BY <1>5 DEF CleansDone, Step
    <2>1. p \in Process
      BY <1>0, StepsIn DEF Process
    <2>2. p.pc = "inspect" /\ p.work = q.work /\ p.reconciled = q.reconciled
      BY <1>0 DEF Process
    <2>3. q.work \in Jobs \cup {"none"}
      BY <1>0 DEF Process
    <2> HIDE DEF p
    <2>4. q.work # "none" => Remembers(p, row, box)
      BY <1>0, <2>2, <2>3 DEF Remembers, Launching
    <2> QED BY <2>0, <2>1, <2>4, QuietGoes, TopProcess
  <1>6. CASE Inspect(g)
    <2> DEFINE seen == box[q.work].state
               next == IF seen = "none" THEN "create" ELSE "start"
               p == [q EXCEPT !.pc = next, !.found = seen]
    <2>0. q.pc = "inspect" /\ UNCHANGED <<overlap, row, wrk, box, runs, faults>>
          /\ agent' = [agent EXCEPT ![g] = p]
      BY <1>6 DEF Inspect, Step
    <2>1. q.work \in Jobs /\ seen \in BoxStates
      BY <1>0, <2>0, NamesApart DEF Remembers, Launching, BoxRow
    <2>2. next \in {"create", "start"} /\ next \in ProcSteps
      BY StepsIn
    <2> HIDE DEF next, seen
    <2>3. p \in Process
      BY <1>0, <2>1, <2>2 DEF Process
    <2>4. p.pc = next /\ p.work = q.work /\ p.reconciled = q.reconciled
      BY <1>0 DEF Process
    <2> HIDE DEF p
    <2>5. Remembers(p, row, box)
      BY <1>0, <2>1, <2>2, <2>4 DEF Remembers, Launching
    <2> QED BY <2>0, <2>3, <2>5, QuietGoes
  <1>7. CASE StepFails(g)
    <2>1. Onward /\ TablesSound' /\ faults' \in Nat /\ UNCHANGED <<overlap, row, box>>
      BY <1>0, <1>7, SameOnward, SoundTables, SameTablesSound DEF StepFails
    <2>2. agent' = [agent EXCEPT ![g] = ToTop(g)]
      BY <1>7 DEF StepFails
    <2> QED BY <2>1, <2>2, TopProcess, ProcessMoves
  <1>8. CASE AgentDies(g) \/ HeartbeatStale(g)
    BY <1>8, QuietGoes, DeadProcess DEF AgentDies, HeartbeatStale
  <1> QED BY <1>1, <1>2, <1>3, <1>4, <1>5, <1>6, <1>7, <1>8

\* The row of attempt a becomes r, container b a new one.
LEMMA RowTables ==
  ASSUME AgentConstants, AgentsInv, NEW a \in Jobs, NEW r \in JobRow,
         row' = [row EXCEPT ![a] = r], UNCHANGED <<wrk, box, runs>>,
         r.status \in {"STARTING", "RUNNING", "ENDED"},
         row[a].status = "ENDED" => r.status = "ENDED",
         row[a].status = "QUEUED" => wrk.ready /\ Reserving = {},
         r.cleanup = row[a].cleanup \/ (~Owning(box[a]) /\ r.status = "ENDED"),
         r.cleanup = "PENDING" => row[a].cleanup = "PENDING",
         Owning(box[a]) => r.status \in {"RUNNING", "ENDED"}
  PROVE  TablesSound' /\ Onward
  <1>0. TablesSound
    BY SoundTables
  <1>1. row \in [Names -> JobRow] /\ a \in Names /\ row[a] \in JobRow
    BY <1>0, NamesApart DEF TablesSound
  <1>2. row' \in [Names -> JobRow]
    BY <1>1
  <1>3. row'[a] = r /\ \A b \in Names : b # a => row'[b] = row[b]
    BY <1>1
  <1>4. row[a].status # "unknown" /\ (row[a].cleanup = "DONE" => row[a].status = "ENDED")
    BY <1>0 DEF TablesSound, OneReserves
  <1>5. \A b, c \in Jobs : Reserves(row'[b]) /\ Reserves(row'[c]) => b = c
    <2>1. CASE row[a].status = "QUEUED"
      <3>1. \A b \in Jobs : ~Reserves(row[b])
        BY <2>1 DEF Reserving, Reserves
      <3> QED BY <1>3, <3>1, NamesApart
    <2>2. CASE row[a].status # "QUEUED"
      <3>1. Reserves(r) => Reserves(row[a])
        BY <2>2 DEF Reserves
      <3>2. \A b \in Jobs : Reserves(row'[b]) => Reserves(row[b])
        BY <1>3, <3>1, NamesApart
      <3> QED BY <1>0, <3>2 DEF TablesSound, OneReserves
    <2> QED BY <2>1, <2>2
  <1>6. OneReserves(row')
    <2>1. r.cleanup = "DONE" => r.status = "ENDED"
      BY <1>4
    <2> QED BY <1>0, <1>3, <1>5, <2>1, NamesApart DEF TablesSound, OneReserves
  <1>7. StraysGone(box)
    BY <1>0 DEF TablesSound, StraysFirst
  <1>8. OwnersReserve(row', box)
    BY <1>0, <1>3, NamesApart DEF TablesSound, OwnersReserve
  <1>9. Onward
    BY <1>3, NamesApart DEF Onward
  <1> QED BY <1>0, <1>2, <1>6, <1>7, <1>8, <1>9 DEF TablesSound, StraysFirst

LEMMA BoxTables ==
  ASSUME AgentConstants, AgentsInv, NEW a \in Names, NEW b \in BoxRow,
         box' = [box EXCEPT ![a] = b], UNCHANGED <<wrk, row>>,
         runs' \in [Names -> Nat],
         Owning(b) => Owning(box[a]),
         a \in Strays => b.state = "none" \/ box[a].state # "none"
  PROVE  TablesSound' /\ Onward
  <1>0. TablesSound
    BY SoundTables
  <1>1. box \in [Names -> BoxRow]
    BY <1>0 DEF TablesSound
  <1>2. box' \in [Names -> BoxRow] /\ box'[a] = b /\ \A c \in Names : c # a => box'[c] = box[c]
    BY <1>1
  <1>3. \A c \in Names : Owning(box'[c]) => Owning(box[c])
    BY <1>2
  <1>4. \A s \in Strays : box[s].state = "none" => box'[s].state = "none"
    BY <1>2, NamesApart
  <1>5. StraysGone(box) => StraysGone(box')
    BY <1>4 DEF StraysGone
  <1>6. Onward
    BY <1>3, <1>4, <1>5, NamesApart DEF Onward
  <1>7. OwnersReserve(row, box')
    BY <1>0, <1>3, NamesApart DEF TablesSound, OwnersReserve
  <1> QED BY <1>0, <1>2, <1>5, <1>6, <1>7 DEF TablesSound, StraysFirst

\* The clock, runners and registration.
LEMMA WorldSteps ==
  ASSUME AgentConstants, AgentsInv,
         \/ \E a \in Jobs : AttemptOver(a)
         \/ \E a \in Names : RunnerClaims(a) \/ ContainerExits(a)
         \/ \E g \in Procs : StartAgent(g) \/ ReportGpus(g)
  PROVE  AgentsInv'
  <1>0. TablesSound /\ row \in [Names -> JobRow] /\ box \in [Names -> BoxRow]
        /\ runs \in [Names -> Nat]
    BY SoundTables DEF TablesSound
  <1>1. ASSUME NEW a \in Jobs, AttemptOver(a) PROVE AgentsInv'
    <2> DEFINE r == [row[a] EXCEPT !.status = "ENDED"]
    <2>1. row[a] \in JobRow /\ r \in JobRow /\ r.status = "ENDED" /\ r.cleanup = row[a].cleanup
      BY <1>0, NamesApart DEF JobRow
    <2>2. row' = [row EXCEPT ![a] = r] /\ UNCHANGED <<overlap, wrk, agent, box, runs, faults>>
          /\ row[a].status \in {"STARTING", "RUNNING"}
      BY <1>1 DEF AttemptOver, Active
    <2> HIDE DEF r
    <2>3. TablesSound' /\ Onward
      BY <2>1, <2>2, RowTables
    <2> QED BY <2>2, <2>3, TablesMove
  <1>2. ASSUME NEW a \in Names, ContainerExits(a) PROVE AgentsInv'
    <2> DEFINE b == [box[a] EXCEPT !.state = "exited"]
    <2>1. b \in BoxRow /\ b.state = "exited"
      BY <1>0 DEF BoxRow, BoxStates
    <2>2. box' = [box EXCEPT ![a] = b] /\ UNCHANGED <<overlap, row, wrk, agent, runs, faults>>
          /\ box[a].state = "running"
      BY <1>2 DEF ContainerExits
    <2> HIDE DEF b
    <2>3. TablesSound' /\ Onward
      BY <1>0, <2>1, <2>2, BoxTables DEF Owning
    <2> QED BY <2>2, <2>3, TablesMove
  <1>3. ASSUME NEW a \in Names, RunnerClaims(a), row[a].status # "STARTING" PROVE AgentsInv'
    <2> DEFINE b == [box[a] EXCEPT !.state = "exited"]
    <2>1. b \in BoxRow /\ b.state = "exited"
      BY <1>0 DEF BoxRow, BoxStates
    <2>2. box' = [box EXCEPT ![a] = b] /\ UNCHANGED <<overlap, row, wrk, agent, runs, faults>>
          /\ box[a].state = "running"
      BY <1>3 DEF RunnerClaims
    <2> HIDE DEF b
    <2>3. TablesSound' /\ Onward
      BY <1>0, <2>1, <2>2, BoxTables DEF Owning
    <2> QED BY <2>2, <2>3, TablesMove
  <1>4. ASSUME NEW a \in Names, RunnerClaims(a), row[a].status = "STARTING" PROVE AgentsInv'
    <2>0. a \in Jobs
      BY <1>0, <1>4, NamesApart DEF TablesSound, OneReserves
    <2> DEFINE b == [box[a] EXCEPT !.claimed = TRUE]
               r == [row[a] EXCEPT !.status = "RUNNING"]
    <2>1. b \in BoxRow /\ b.state = box[a].state
      BY <1>0 DEF BoxRow
    <2>2. r \in JobRow /\ r.status = "RUNNING" /\ r.cleanup = row[a].cleanup /\ row[a] \in JobRow
      BY <1>0 DEF JobRow
    <2>3. box' = [box EXCEPT ![a] = b] /\ row' = [row EXCEPT ![a] = r]
          /\ UNCHANGED <<overlap, wrk, agent, runs, faults>>
      BY <1>4 DEF RunnerClaims
    <2> HIDE DEF b, r
    <2>4. /\ box' \in [Names -> BoxRow] /\ box'[a] = b /\ \A c \in Names : c # a => box'[c] = box[c]
          /\ row' \in [Names -> JobRow] /\ row'[a] = r /\ \A c \in Names : c # a => row'[c] = row[c]
      BY <1>0, <2>1, <2>2, <2>3
    <2>5. row[a].cleanup = "PENDING"
      BY <1>0, <1>4, <2>0, <2>2 DEF TablesSound, OneReserves, JobRow
    <2>6. \A c \in Jobs : Reserves(row'[c]) => Reserves(row[c])
      BY <1>4, <2>2, <2>4, <2>5, NamesApart DEF Reserves
    <2>7. OneReserves(row')
      BY <1>0, <2>0, <2>2, <2>4, <2>5, <2>6, NamesApart DEF TablesSound, OneReserves
    <2>8. StraysGone(box) /\ StraysGone(box')
      BY <1>0, <1>4, <2>0, <2>4, NamesApart DEF TablesSound, StraysFirst, StraysGone
    <2>9. OwnersReserve(row', box')
      BY <1>0, <2>0, <2>2, <2>4, <2>5, NamesApart DEF TablesSound, OwnersReserve
    <2>10. TablesSound'
      BY <1>0, <2>3, <2>4, <2>7, <2>8, <2>9 DEF TablesSound, StraysFirst
    <2>11. Onward
      BY <1>4, <2>0, <2>4, <2>8, NamesApart DEF Onward, StraysGone
    <2> QED BY <2>3, <2>10, <2>11, TablesMove
  <1>5. ASSUME NEW g \in Procs, StartAgent(g) PROVE AgentsInv'
    <2> DEFINE p == [agent[g] EXCEPT !.pc = "inventory"]
    <2>0. agent[g] \in Process /\ Remembers(agent[g], row, box)
      BY ProcessFacts
    <2>1. p \in Process /\ p.pc = "inventory" /\ p.reconciled = agent[g].reconciled
      BY <2>0, StepsIn DEF Process
    <2>2. agent' = [agent EXCEPT ![g] = p] /\ UNCHANGED <<overlap, row, box, runs, faults>>
          /\ wrk' = [session |-> g, ready |-> FALSE]
      BY <1>5 DEF StartAgent
    <2> HIDE DEF p
    <2>3. Remembers(p, row', box')
      BY <2>0, <2>1, <2>2 DEF Remembers, Launching
    <2>4. g \in Nat /\ wrk' \in [session : Nat, ready : BOOLEAN] /\ ~wrk'.ready
      BY <2>2 DEF AgentConstants, Procs
    <2>5. TablesSound' /\ Onward
      BY <1>0, <2>2, <2>4, SameOnward DEF TablesSound, StraysFirst
    <2>6. faults' \in Nat
      BY <2>2 DEF AgentsInv, AgentsTypeOK
    <2> QED BY <2>1, <2>2, <2>3, <2>5, <2>6, ProcessMoves
  <1>6. ASSUME NEW g \in Procs, ReportGpus(g) PROVE AgentsInv'
    <2>1. StraysGone(box)
      BY <1>6, ProcessFacts DEF Remembers, ReportGpus
    <2>2. wrk' \in [session : Nat, ready : BOOLEAN]
      BY <1>0, <1>6 DEF ReportGpus, TablesSound
    <2>3. TablesSound' /\ Onward
      BY <1>0, <1>6, <2>1, <2>2, SameOnward DEF ReportGpus, TablesSound, StraysFirst
    <2> QED BY <1>6, <2>3, TablesMove DEF ReportGpus
  <1> QED BY <1>1, <1>2, <1>3, <1>4, <1>5, <1>6

\* Process g, at a step before the launch or past it, goes on to p.
LEMMA RemembersOn ==
  ASSUME NEW q, Remembers(q, row', box'), NEW p, p.reconciled = q.reconciled,
         p.pc \notin {"assign", "clean", "confirm", "reconcile", "stop"},
         p.pc \in Launching => p.work \in Jobs
  PROVE  Remembers(p, row', box')
  BY DEF Remembers

\* The calls to Docker.
LEMMA EngineSteps ==
  ASSUME AgentConstants, AgentsInv, NEW g \in Procs,
         \/ \E a \in Names : StopOne(g, a)
         \/ \E a \in Jobs : CleanOne(g, a)
         \/ CreateContainer(g) \/ StartContainer(g)
  PROVE  AgentsInv'
  <1> DEFINE q == agent[g]
  <1>0. /\ q \in Process /\ Remembers(q, row, box)
        /\ row \in [Names -> JobRow] /\ box \in [Names -> BoxRow] /\ runs \in [Names -> Nat]
    BY ProcessFacts DEF AgentsInv, AgentsTypeOK
  <1>n. NoBox \in BoxRow /\ NoBox.state = "none" /\ ~Owning(NoBox)
    BY DEF NoBox, BoxRow, BoxStates, Owning
  <1>1. ASSUME NEW a \in Names, StopOne(g, a) PROVE AgentsInv'
    <2> DEFINE p == [q EXCEPT !.todo = @ \ {a}]
    <2>0. q.pc = "stop" /\ box' = [box EXCEPT ![a] = NoBox] /\ Goes(g, p)
          /\ UNCHANGED <<overlap, row, wrk, runs>>
      BY <1>1 DEF StopOne, Step
    <2>1. p \in Process /\ p.pc = "stop" /\ p.todo = q.todo \ {a} /\ p.reconciled = q.reconciled
      BY <1>0, <2>0 DEF Process
    <2> HIDE DEF p
    <2>2. TablesSound' /\ Onward
      BY <1>0, <1>n, <2>0, BoxTables
    <2>3. Remembers(q, row', box') /\ box'[a].state = "none"
      BY <1>0, <1>n, <2>0, <2>2, StillRemembers
    <2>4. Remembers(p, row', box')
      BY <2>0, <2>1, <2>3 DEF Remembers, Launching
    <2> QED BY <2>0, <2>1, <2>2, <2>4, GoesTo
  <1>2. ASSUME NEW a \in Jobs, CleanOne(g, a) PROVE AgentsInv'
    <2> DEFINE p == [q EXCEPT !.pc = "confirm", !.found = a]
    <2>0. q.pc = "clean" /\ a \in q.todo /\ box' = [box EXCEPT ![a] = NoBox] /\ Goes(g, p)
          /\ UNCHANGED <<overlap, row, wrk, runs>> /\ a \in Names
      BY <1>2, NamesApart DEF CleanOne, Step
    <2>1. p \in Process /\ p.pc = "confirm" /\ p.found = a /\ p.todo = q.todo
          /\ p.reconciled = q.reconciled
      BY <1>0, <2>0, StepsIn DEF Process
    <2> HIDE DEF p
    <2>2. TablesSound' /\ Onward
      BY <1>0, <1>n, <2>0, NamesApart, BoxTables
    <2>3. Remembers(q, row', box') /\ ~Owning(box'[a])
      BY <1>0, <1>n, <2>0, <2>2, StillRemembers
    <2>4. Remembers(p, row', box')
      BY <2>0, <2>1, <2>3 DEF Remembers, Launching
    <2> QED BY <2>0, <2>1, <2>2, <2>4, GoesTo
  <1>3. CASE CreateContainer(g)
    <2> DEFINE p == [q EXCEPT !.pc = "inspect"]
               a == q.work
               b == [NoBox EXCEPT !.state = "created"]
    <2>0. q.pc = "create" /\ Goes(g, p) /\ UNCHANGED <<overlap, row, wrk, runs>>
          /\ (box' = [box EXCEPT ![a] = b] \/ box' = box)
      BY <1>3 DEF CreateContainer, Step
    <2>1. p \in Process /\ p.pc = "inspect" /\ p.work = a /\ p.reconciled = q.reconciled
      BY <1>0, StepsIn DEF Process
    <2>2. a \in Jobs /\ a \in Names /\ a \notin Strays
      BY <1>0, <2>0, NamesApart DEF Remembers, Launching
    <2>3. b \in BoxRow /\ ~Owning(b)
      BY DEF NoBox, BoxRow, BoxStates, Owning
    <2> HIDE DEF p, b
    <2>4. TablesSound' /\ Onward
      <3>1. CASE box' = box
        BY <2>0, <3>1, SoundTables, SameTablesSound, SameOnward
      <3>2. CASE box' = [box EXCEPT ![a] = b]
        BY <1>0, <2>0, <2>2, <2>3, <3>2, BoxTables
      <3> QED BY <2>0, <3>1, <3>2
    <2>5. Remembers(p, row', box')
      BY <1>0, <2>1, <2>2, <2>4, StillRemembers, RemembersOn
    <2> QED BY <2>0, <2>1, <2>4, <2>5, GoesTo
  <1>4. CASE StartContainer(g)
    <2> DEFINE p == [q EXCEPT !.pc = "report"]
               a == q.work
               b == [state |-> "running", claimed |-> FALSE]
    <2>0. q.pc = "start" /\ UNCHANGED <<overlap, row, wrk>>
          /\ (Goes(g, p) \/ Goes(g, ToTop(g)))
          /\ (box' = [box EXCEPT ![a] = b] \/ box' = box)
          /\ (runs' = [runs EXCEPT ![a] = @ + 1] \/ runs' = runs)
      BY <1>4 DEF StartContainer, Step
    <2>1. p \in Process /\ p.pc = "report" /\ p.work = a /\ p.reconciled = q.reconciled
      BY <1>0, StepsIn DEF Process
    <2>2. a \in Jobs /\ a \in Names /\ a \notin Strays
      BY <1>0, <2>0, NamesApart DEF Remembers, Launching
    <2>3. b \in BoxRow /\ ~Owning(b) /\ runs' \in [Names -> Nat]
      BY <1>0, <2>0, <2>2 DEF BoxRow, BoxStates, Owning
    <2> HIDE DEF p, b
    <2>4. TablesSound' /\ Onward
      <3>1. CASE box' = box
        <4>1. TablesSound'
          BY <2>0, <2>3, <3>1, SoundTables DEF TablesSound, StraysFirst
        <4> QED BY <2>0, <3>1, <4>1, SameOnward
      <3>2. CASE box' = [box EXCEPT ![a] = b]
        BY <1>0, <2>0, <2>2, <2>3, <3>2, BoxTables
      <3> QED BY <2>0, <3>1, <3>2
    <2>5. Remembers(p, row', box') /\ Remembers(ToTop(g), row', box')
      BY <1>0, <2>1, <2>2, <2>4, StillRemembers, RemembersOn, TopProcess
    <2> QED BY <2>0, <2>1, <2>4, <2>5, GoesTo, TopProcess
  <1> QED BY <1>1, <1>2, <1>3, <1>4

\* The calls to the store.
LEMMA StoreSteps ==
  ASSUME AgentConstants, AgentsInv, NEW g \in Procs,
         \/ \E a \in Jobs \cup {"none"} : Assign(g, a)
         \/ ConfirmClean(g) \/ ReportLaunched(g)
  PROVE  AgentsInv'
  <1> DEFINE q == agent[g]
  <1>0. /\ q \in Process /\ Remembers(q, row, box) /\ TablesSound
        /\ row \in [Names -> JobRow] /\ box \in [Names -> BoxRow]
    BY ProcessFacts, SoundTables DEF AgentsInv, AgentsTypeOK
  <1>1. ASSUME NEW a \in Jobs \cup {"none"}, Assign(g, a) PROVE AgentsInv'
    <2> DEFINE p == [q EXCEPT !.pc = "clean", !.work = a]
    <2>0. /\ q.pc = "assign" /\ UNCHANGED <<overlap, wrk, box, runs>>
          /\ \/ StaleSession(g) /\ UNCHANGED row
             \/ Goes(g, p) /\ a = "none" /\ UNCHANGED row
             \/ /\ Goes(g, p) /\ a # "none" /\ a \in Assignable
                /\ row' = [row EXCEPT ![a].status = "STARTING"]
      BY <1>1 DEF Assign, Step
    <2>1. p \in Process /\ p.pc = "clean" /\ p.todo = q.todo /\ p.reconciled = q.reconciled
      BY <1>0, StepsIn DEF Process
    <2> HIDE DEF p
    <2>2. CASE StaleSession(g) /\ UNCHANGED row
      BY <2>0, <2>2, StaleQuiet
    <2>3. CASE Goes(g, p) /\ UNCHANGED row
      <3>1. Remembers(p, row, box)
        BY <1>0, <2>0, <2>1 DEF Remembers, Launching
      <3> QED BY <2>0, <2>1, <2>3, <3>1, QuietGoes
    <2>4. CASE /\ Goes(g, p) /\ a # "none" /\ a \in Assignable
               /\ row' = [row EXCEPT ![a].status = "STARTING"]
      <3> DEFINE r == [row[a] EXCEPT !.status = "STARTING"]
      <3>1. a \in Jobs /\ a \in Names /\ row[a] \in JobRow
        BY <1>0, <2>4, NamesApart
      <3>2. r \in JobRow /\ r.status = "STARTING" /\ r.cleanup = row[a].cleanup
        BY <3>1 DEF JobRow
      <3>r. row' = [row EXCEPT ![a] = r]
        BY <2>4
      <3> HIDE DEF r
      <3>3. \/ row[a].status = "STARTING"
            \/ row[a].status = "QUEUED" /\ wrk.ready /\ Reserving = {}
        BY <2>4 DEF Assignable, Replays
      <3>4. ~Owning(box[a])
        BY <1>0, <3>1, <3>3 DEF TablesSound, OwnersReserve
      <3>5. TablesSound' /\ Onward
        BY <2>0, <3>1, <3>2, <3>r, <3>3, <3>4, RowTables
      <3>6. Remembers(q, row', box')
        BY <1>0, <3>5, StillRemembers
      <3>7. Remembers(p, row', box')
        BY <2>0, <2>1, <3>6 DEF Remembers, Launching
      <3> QED BY <2>0, <2>1, <2>4, <3>5, <3>7, GoesTo
    <2> QED BY <2>0, <2>2, <2>3, <2>4
  <1>2. CASE ConfirmClean(g)
    <2> DEFINE a == q.found
               p == [q EXCEPT !.pc = "clean", !.todo = @ \ {a}, !.found = "none"]
               r == [row[a] EXCEPT !.cleanup = "DONE"]
    <2>0. /\ q.pc = "confirm" /\ UNCHANGED <<overlap, wrk, box, runs>>
          /\ \/ StaleSession(g) /\ UNCHANGED row
             \/ Goes(g, p) /\ row' = [row EXCEPT ![a] = r]
      BY <1>2 DEF ConfirmClean, Step
    <2>1. a \in Jobs /\ a \in Names /\ row[a].status = "ENDED" /\ ~Owning(box[a])
      BY <1>0, <2>0, NamesApart DEF Remembers
    <2>2. p \in Process /\ p.pc = "clean" /\ p.todo = q.todo \ {a} /\ p.reconciled = q.reconciled
      BY <1>0, StepsIn DEF Process, BoxStates
    <2>3. r \in JobRow /\ r.status = "ENDED" /\ r.cleanup = "DONE" /\ row[a] \in JobRow
      BY <1>0, <2>1 DEF JobRow
    <2> HIDE DEF p, r
    <2>4. CASE StaleSession(g) /\ UNCHANGED row
      BY <2>0, <2>4, StaleQuiet
    <2>5. CASE Goes(g, p) /\ row' = [row EXCEPT ![a] = r]
      <3>1. TablesSound' /\ Onward
        BY <2>0, <2>1, <2>3, <2>5, RowTables
      <3>2. Remembers(q, row', box')
        BY <1>0, <3>1, StillRemembers
      <3>3. Remembers(p, row', box')
        BY <2>0, <2>2, <3>2 DEF Remembers, Launching
      <3> QED BY <2>0, <2>2, <2>5, <3>1, <3>3, GoesTo
    <2> QED BY <2>0, <2>4, <2>5
  <1>3. CASE ReportLaunched(g)
    <2> DEFINE a == q.work
               r == [row[a] EXCEPT !.runtime = TRUE]
    <2>0. /\ q.pc = "report" /\ UNCHANGED <<overlap, wrk, box, runs>>
          /\ \/ StaleSession(g) /\ UNCHANGED row
             \/ Goes(g, ToTop(g)) /\ row' = [row EXCEPT ![a] = r]
      BY <1>3 DEF ReportLaunched, Step
    <2>1. a \in Jobs /\ a \in Names
      BY <1>0, <2>0, NamesApart DEF Remembers, Launching
    <2>2. r \in JobRow /\ r.status = row[a].status /\ r.cleanup = row[a].cleanup
      BY <1>0, <2>1 DEF JobRow
    <2> HIDE DEF r
    <2>3. CASE StaleSession(g) /\ UNCHANGED row
      BY <2>0, <2>3, StaleQuiet
    <2>4. CASE Goes(g, ToTop(g)) /\ row' = [row EXCEPT ![a] = r]
      <3>1. /\ row' \in [Names -> JobRow]
            /\ \A b \in Names : row'[b].status = row[b].status /\ row'[b].cleanup = row[b].cleanup
        BY <1>0, <2>1, <2>2, <2>4
      <3>2. TablesSound' /\ Onward
        <4>1. OneReserves(row')
          BY <1>0, <3>1, NamesApart DEF TablesSound, OneReserves, Reserves
        <4>2. StraysFirst(row', box)
          BY <1>0, <3>1, NamesApart DEF TablesSound, StraysFirst
        <4>3. OwnersReserve(row', box)
          BY <1>0, <3>1, NamesApart DEF TablesSound, OwnersReserve
        <4>4. Onward
          BY <2>0, <3>1, NamesApart DEF Onward
        <4> QED BY <1>0, <2>0, <3>1, <4>1, <4>2, <4>3, <4>4 DEF TablesSound, StraysFirst
      <3>3. ToTop(g) \in Process /\ Remembers(ToTop(g), row', box')
        BY <3>2, TopProcess, StillRemembers
      <3> QED BY <2>0, <2>4, <3>2, <3>3, GoesTo
    <2> QED BY <2>0, <2>3, <2>4
  <1> QED BY <1>1, <1>2, <1>3

LEMMA AgentsInvInit == ASSUME AgentConstants, AgentsInit PROVE AgentsInv
  <1> USE DEF AgentsInit
  <1>0. \A t \in {"QUEUED", "unknown"} :
          [status |-> t, cleanup |-> "PENDING", runtime |-> FALSE] \in JobRow
    BY DEF JobRow
  <1>b. NoBox \in BoxRow /\ [state |-> "running", claimed |-> TRUE] \in BoxRow
    BY DEF BoxRow, BoxStates, NoBox
  <1>1. \A a \in Names : row[a] \in JobRow /\ box[a] \in BoxRow
    BY <1>0, <1>b
  <1>2. row \in [Names -> JobRow] /\ box \in [Names -> BoxRow] /\ runs \in [Names -> Nat]
    BY <1>1
  <1>3. NotStarted \in Process /\ Remembers(NotStarted, row, box)
    BY StepsIn DEF NotStarted, Process, Remembers, Launching, BoxStates
  <1>4. wrk \in [session : Nat, ready : BOOLEAN] /\ ~wrk.ready
    OBVIOUS
  <1>5. \A a \in Jobs : row[a].status = "QUEUED" /\ row[a].cleanup = "PENDING" /\ box[a] = NoBox
    BY NamesApart
  <1>6. OneReserves(row)
    BY <1>5, NamesApart DEF OneReserves, Reserves
  <1> HIDE DEF AgentsInit
  <1>a. OwnersReserve(row, box)
    <2>1. ~Owning(NoBox)
      BY DEF Owning, NoBox
    <2> QED BY <1>5, <2>1 DEF OwnersReserve
  <1>7. StraysFirst(row, box)
    BY <1>4, <1>5 DEF StraysFirst
  <1> USE DEF AgentsInit
  <1> QED BY <1>2, <1>3, <1>4, <1>6, <1>7, <1>a DEF AgentsInv, AgentsTypeOK

LEMMA AgentsInvStep ==
  ASSUME AgentConstants, AgentsInv, [AgentsNext]_agentVars
  PROVE  AgentsInv'
  <1>1. CASE UNCHANGED agentVars
    BY <1>1, SameOnward, SoundTables, SameTablesSound, TablesMove DEF agentVars
  <1>2. CASE AgentsNext
    BY <1>2, WorldSteps, QuietSteps, EngineSteps, StoreSteps DEF AgentsNext, LoopStep
  <1> QED BY <1>1, <1>2

\* While no two agents run at once: they run in turn, and the one that runs has
\* the session.
InTurn ==
  /\ \A g, h \in Procs : g < h /\ agent[h].pc # "off" => agent[g].pc = "dead"
  /\ \A g \in Procs : Alive(g) => wrk.session = g

\* What process p is about to do is still right: what it launches holds the
\* GPU and was not started before, and what it removes has ended.
Undisturbed(p, jobs, boxes, count) ==
  /\ p.pc \in Serving /\ p.work \in Jobs =>
       /\ Reserves(jobs[p.work])
       /\ count[p.work] = 0 \/ boxes[p.work].state \in {"running", "exited"}
  /\ p.pc \in {"clean", "confirm"} => p.work \notin p.todo
  /\ p.pc = "confirm" => boxes[p.found].state = "none" /\ p.found \in p.todo
  /\ p.pc = "start" /\ p.found = "created" => boxes[p.work].state = "created"
  /\ p.pc = "reconcile" => \A a \in p.todo : a \in Jobs => jobs[a].status # "QUEUED"
  /\ p.pc = "stop" => \A a \in p.todo : a \in Jobs => jobs[a].status = "ENDED"

\* The attempt of a container holds the GPU, and a container that is to be
\* started belongs to an attempt that never was.
BoxesReserve(jobs, boxes) == \A a \in Jobs : boxes[a].state # "none" => Reserves(jobs[a])
StartedOnce(jobs, boxes, count) ==
  \A a \in Jobs :
    /\ count[a] \in {0, 1}
    /\ count[a] = 0 \/ boxes[a].state \in {"running", "exited"} \/ jobs[a].status = "ENDED"

SoloTables == BoxesReserve(row, box) /\ StartedOnce(row, box, runs)
Solo ==
  /\ InTurn
  /\ \A g \in Procs : Undisturbed(agent[g], row, box, runs)
  /\ SoloTables
SoloInv == ~overlap => Solo

\* A process that is not at work on anything.
LEMMA IdleUndisturbed ==
  ASSUME NEW p, p.pc \in {"off", "dead", "inventory", "poll", "assign"},
         NEW jobs, NEW boxes, NEW count
  PROVE  Undisturbed(p, jobs, boxes, count)
  BY DEF Undisturbed, Serving, Launching

\* The process that runs moves, to p.
LEMMA SoloMoves ==
  ASSUME AgentConstants, AgentsInv, Solo, UNCHANGED <<overlap, wrk>>, SoloTables',
         NEW g \in Procs, Alive(g), NEW p, p.pc # "off",
         agent' = [agent EXCEPT ![g] = p], Undisturbed(p, row', box', runs')
  PROVE  Solo'
  <1>0. agent \in [Procs -> Process] /\ g \in Nat /\ Procs \subseteq Nat
    BY DEF AgentsInv, AgentsTypeOK, Procs
  <1>1. agent'[g] = p /\ \A h \in Procs : h # g => agent'[h] = agent[h]
    BY <1>0
  <1>2. \A h \in Procs : h # g => agent[h].pc \in {"off", "dead"}
    <2> SUFFICES ASSUME NEW h \in Procs, h # g PROVE agent[h].pc \in {"off", "dead"}
      OBVIOUS
    <2>1. h < g \/ g < h
      BY <1>0
    <2> QED BY <2>1 DEF Solo, InTurn, Alive
  <1>3. \A h \in Procs : Undisturbed(agent'[h], row', box', runs')
    <2> SUFFICES ASSUME NEW h \in Procs PROVE Undisturbed(agent'[h], row', box', runs')
      OBVIOUS
    <2>1. CASE h = g
      BY <1>1, <2>1
    <2>2. CASE h # g
      <3>1. Undisturbed(agent[h], row', box', runs')
        BY <1>2, <2>2, IdleUndisturbed
      <3> QED BY <1>1, <2>2, <3>1
    <2> QED BY <2>1, <2>2
  <1>4. \A f, h \in Procs : f < h /\ agent'[h].pc # "off" => agent'[f].pc = "dead"
    <2> SUFFICES ASSUME NEW f \in Procs, NEW h \in Procs, f < h, agent'[h].pc # "off"
                 PROVE  agent'[f].pc = "dead"
      OBVIOUS
    <2>1. agent[h].pc # "off"
      BY <1>1 DEF Alive
    <2>2. agent[f].pc = "dead"
      BY <2>1 DEF Solo, InTurn
    <2>3. f # g
      BY <2>2 DEF Alive
    <2> QED BY <1>1, <2>2, <2>3
  <1>5. \A h \in Procs : agent'[h].pc \notin {"off", "dead"} => wrk.session = h
    BY <1>1, <1>2 DEF Solo, InTurn, Alive
  <1>6. InTurn'
    BY <1>4, <1>5 DEF InTurn, Alive
  <1> QED BY <1>3, <1>6 DEF Solo

LEMMA SoloGoes ==
  ASSUME AgentConstants, AgentsInv, Solo, UNCHANGED <<overlap, wrk>>, SoloTables',
         NEW g \in Procs, Alive(g), NEW p, p.pc # "off",
         \/ Goes(g, p)
         \/ StaleSession(g)
         \/ agent' = [agent EXCEPT ![g] = p],
         Undisturbed(p, row', box', runs')
  PROVE  Solo'
  <1>1. CASE agent' = [agent EXCEPT ![g] = p]
    BY <1>1, SoloMoves
  <1>2. CASE agent' = [agent EXCEPT ![g] = ToTop(g)]
    <2>1. ToTop(g).pc = "inventory"
      BY DEF ToTop
    <2>2. Undisturbed(ToTop(g), row', box', runs')
      BY <2>1, IdleUndisturbed
    <2>3. ToTop(g).pc # "off"
      BY <2>1
    <2> QED BY <1>2, <2>2, <2>3, SoloMoves
  <1>3. CASE StaleSession(g)
    <2> DEFINE d == [NotStarted EXCEPT !.pc = "dead"]
    <2>1. d.pc = "dead" /\ agent' = [agent EXCEPT ![g] = d]
      BY <1>3 DEF NotStarted, StaleSession
    <2> HIDE DEF d
    <2>2. Undisturbed(d, row', box', runs')
      BY <2>1, IdleUndisturbed
    <2>3. d.pc # "off"
      BY <2>1
    <2> QED BY <2>1, <2>2, <2>3, SoloMoves
  <1> QED BY <1>1, <1>2, <1>3 DEF Goes

\* Time and runners.
SoloOnward ==
  /\ \A a \in Jobs :
       /\ row[a].status = "ENDED" => row'[a].status = "ENDED"
       /\ row[a].status # "QUEUED" => row'[a].status # "QUEUED"
       /\ row'[a].cleanup = row[a].cleanup
       /\ box[a].state \in {"none", "created"} => box'[a].state = box[a].state
       /\ box[a].state \in {"running", "exited"} => box'[a].state \in {"running", "exited"}
  /\ UNCHANGED <<overlap, wrk, agent, runs>>

LEMMA SoloWorld ==
  ASSUME AgentConstants, AgentsInv, Solo, SoloOnward
  PROVE  Solo'
  <1>0. /\ agent \in [Procs -> Process] /\ box \in [Names -> BoxRow]
        /\ \A g \in Procs : Remembers(agent[g], row, box)
    BY DEF AgentsInv, AgentsTypeOK
  <1>1. \A a \in Jobs : box[a].state \in BoxStates
    BY <1>0, NamesApart DEF BoxRow
  <1>2. \A a \in Jobs : Reserves(row[a]) => Reserves(row'[a])
    BY DEF SoloOnward, Reserves
  <1>3. SoloTables'
    BY <1>1, <1>2 DEF Solo, SoloTables, BoxesReserve, StartedOnce, SoloOnward, BoxStates
  <1>4. ASSUME NEW g \in Procs PROVE Undisturbed(agent[g], row', box', runs)
    <2>1. Undisturbed(agent[g], row, box, runs) /\ Remembers(agent[g], row, box)
      BY <1>0 DEF Solo
    <2> QED BY <1>2, <2>1 DEF Undisturbed, Remembers, SoloOnward, Serving, Launching
  <1> QED BY <1>3, <1>4 DEF Solo, SoloOnward, InTurn, Alive

LEMMA SoloWorldSteps ==
  ASSUME AgentConstants, AgentsInv, Solo,
         \/ \E a \in Jobs : AttemptOver(a)
         \/ \E a \in Names : RunnerClaims(a) \/ ContainerExits(a)
  PROVE  Solo'
  <1>0. row \in [Names -> JobRow] /\ box \in [Names -> BoxRow]
    BY DEF AgentsInv, AgentsTypeOK
  <1>1. ASSUME NEW a \in Jobs, AttemptOver(a) PROVE SoloOnward
    <2>1. /\ \A b \in Names : b # a => row'[b] = row[b]
          /\ row'[a].status = "ENDED" /\ row'[a].cleanup = row[a].cleanup
      BY <1>0, <1>1, NamesApart DEF AttemptOver, JobRow
    <2> QED BY <1>1, <2>1, NamesApart DEF AttemptOver, SoloOnward
  <1>2. ASSUME NEW a \in Names, ContainerExits(a) PROVE SoloOnward
    <2>1. /\ \A b \in Names : b # a => box'[b] = box[b]
          /\ box'[a].state = "exited" /\ box[a].state = "running"
      BY <1>0, <1>2 DEF ContainerExits, BoxRow
    <2> QED BY <1>2, <2>1, NamesApart DEF ContainerExits, SoloOnward
  <1>3. ASSUME NEW a \in Names, RunnerClaims(a), row[a].status = "STARTING" PROVE SoloOnward
    <2>1. /\ \A b \in Names : b # a => box'[b] = box[b] /\ row'[b] = row[b]
          /\ box'[a].state = "running" /\ box[a].state = "running"
          /\ row'[a].status = "RUNNING" /\ row'[a].cleanup = row[a].cleanup
      BY <1>0, <1>3 DEF RunnerClaims, BoxRow, JobRow
    <2> QED BY <1>3, <2>1, NamesApart DEF RunnerClaims, SoloOnward
  <1>4. ASSUME NEW a \in Names, RunnerClaims(a), row[a].status # "STARTING" PROVE SoloOnward
    <2>1. /\ \A b \in Names : b # a => box'[b] = box[b]
          /\ box'[a].state = "exited" /\ box[a].state = "running"
      BY <1>0, <1>4 DEF RunnerClaims, BoxRow
    <2> QED BY <1>4, <2>1, NamesApart DEF RunnerClaims, SoloOnward
  <1> QED BY <1>1, <1>2, <1>3, <1>4, SoloWorld

LEMMA SoloStart ==
  ASSUME AgentConstants, AgentsInv, ~overlap, Solo, NEW g \in Procs, StartAgent(g)
  PROVE  Solo'
  <1> DEFINE p == [agent[g] EXCEPT !.pc = "inventory"]
  <1>0. agent \in [Procs -> Process] /\ g \in Nat /\ Procs \subseteq Nat
    BY DEF AgentsInv, AgentsTypeOK, Procs
  <1>1. /\ p.pc = "inventory" /\ agent' = [agent EXCEPT ![g] = p]
        /\ UNCHANGED <<overlap, row, box, runs>> /\ wrk'.session = g /\ agent[g].pc = "off"
    BY <1>0 DEF StartAgent, Process
  <1> HIDE DEF p
  <1>2. agent'[g] = p /\ \A h \in Procs : h # g => agent'[h] = agent[h]
    BY <1>0, <1>1
  <1>3. \A h \in Procs : h < g => agent[h].pc = "dead"
    <2>1. \A h \in Procs : h < g => h \in 1 .. g - 1
      BY <1>0 DEF Procs
    <2> QED BY <2>1 DEF StartAgent
  <1>4. \A h \in Procs : g < h => agent[h].pc = "off"
    BY <1>1 DEF Solo, InTurn
  <1>5. \A f, h \in Procs : f < h /\ agent'[h].pc # "off" => agent'[f].pc = "dead"
    <2> SUFFICES ASSUME NEW f \in Procs, NEW h \in Procs, f < h, agent'[h].pc # "off"
                 PROVE  agent'[f].pc = "dead"
      OBVIOUS
    <2>1. CASE h = g
      BY <1>0, <1>2, <1>3, <2>1
    <2>2. CASE h # g
      BY <1>1, <1>2, <2>2 DEF Solo, InTurn
    <2> QED BY <2>1, <2>2
  <1>6. \A h \in Procs : agent'[h].pc \notin {"off", "dead"} => wrk'.session = h
    <2> SUFFICES ASSUME NEW h \in Procs, h # g PROVE agent'[h].pc \in {"off", "dead"}
      BY <1>1
    <2>1. h < g \/ g < h
      BY <1>0
    <2> QED BY <1>2, <1>3, <1>4, <2>1
  <1>7. InTurn'
    BY <1>5, <1>6 DEF InTurn, Alive
  <1>8. \A h \in Procs : Undisturbed(agent'[h], row, box, runs)
    <2>1. Undisturbed(p, row, box, runs)
      BY <1>1, IdleUndisturbed
    <2> QED BY <1>2, <2>1 DEF Solo
  <1> QED BY <1>1, <1>7, <1>8 DEF Solo, SoloTables

\* Steps that leave the tables alone.
LEMMA SoloQuiet ==
  ASSUME AgentConstants, AgentsInv, Solo, NEW g \in Procs,
         \/ ListContainers(g) \/ Reconcile(g) \/ StopsDone(g) \/ PollServer(g)
         \/ CleansDone(g) \/ Inspect(g) \/ StepFails(g) \/ AgentDies(g) \/ HeartbeatStale(g)
  PROVE  Solo'
  <1> DEFINE q == agent[g]
  <1>0. /\ q \in Process /\ Remembers(q, row, box) /\ Undisturbed(q, row, box, runs)
        /\ box \in [Names -> BoxRow] /\ row \in [Names -> JobRow]
    BY ProcessFacts DEF Solo, AgentsInv, AgentsTypeOK
  <1>t. /\ UNCHANGED <<overlap, wrk, row, box, runs>> /\ Alive(g) /\ SoloTables'
    <2>1. UNCHANGED <<overlap, wrk, row, box, runs>>
      BY DEF ListContainers, Reconcile, StopsDone, PollServer, CleansDone, Inspect, StepFails,
             AgentDies, HeartbeatStale
    <2>2. Alive(g)
      BY DEF ListContainers, Reconcile, StopsDone, PollServer, CleansDone, Inspect, StepFails,
             AgentDies, HeartbeatStale, Alive, Step
    <2> QED BY <2>1, <2>2 DEF Solo, SoloTables
  <1>1. CASE ListContainers(g)
    <2> DEFINE p == [q EXCEPT !.pc = "reconcile", !.todo = {a \in Names : box[a].state # "none"}]
    <2>1. agent' = [agent EXCEPT ![g] = p]
      BY <1>1 DEF ListContainers
    <2>2. p.pc = "reconcile" /\ p.todo = {a \in Names : box[a].state # "none"}
      BY <1>0 DEF Process
    <2> HIDE DEF p
    <2>3. \A a \in p.todo : a \in Jobs => row[a].status # "QUEUED"
      BY <2>2 DEF Solo, SoloTables, BoxesReserve, Reserves
    <2>4. p.pc # "off" /\ Undisturbed(p, row', box', runs')
      BY <1>t, <2>2, <2>3 DEF Undisturbed, Serving, Launching
    <2> QED BY <1>t, <2>1, <2>4, SoloGoes
  <1>2. CASE Reconcile(g)
    <2> DEFINE p == [q EXCEPT !.pc = "stop", !.todo = StopAttempts(q.todo)]
    <2>1. q.pc = "reconcile" /\ (Goes(g, p) \/ StaleSession(g))
      BY <1>2 DEF Reconcile, Step
    <2>2. p.pc = "stop" /\ p.todo = StopAttempts(q.todo)
      BY <1>0 DEF Process
    <2> HIDE DEF p
    <2>3. \A a \in p.todo : a \in Jobs => row[a].status = "ENDED"
      <3> SUFFICES ASSUME NEW a \in p.todo, a \in Jobs PROVE row[a].status = "ENDED"
        OBVIOUS
      <3>1. a \in q.todo /\ row[a].status \notin {"STARTING", "RUNNING"}
        BY <2>2 DEF StopAttempts, Active
      <3>2. row[a].status # "QUEUED" /\ row[a].status # "unknown"
        BY <1>0, <2>1, <3>1 DEF Undisturbed, AgentsInv, OneReserves
      <3> QED BY <1>0, <3>1, <3>2, NamesApart DEF JobRow
    <2>4. p.pc # "off" /\ Undisturbed(p, row', box', runs')
      BY <1>t, <2>2, <2>3 DEF Undisturbed, Serving, Launching
    <2> QED BY <1>t, <2>1, <2>4, SoloGoes
  <1>3. CASE StopsDone(g)
    <2> DEFINE p == [q EXCEPT !.pc = "poll", !.reconciled = TRUE]
    <2>1. agent' = [agent EXCEPT ![g] = p] /\ p.pc = "poll"
      BY <1>0, <1>3 DEF StopsDone, Process
    <2> HIDE DEF p
    <2>2. p.pc # "off" /\ Undisturbed(p, row', box', runs')
      BY <2>1, IdleUndisturbed
    <2> QED BY <1>t, <2>1, <2>2, SoloGoes
  <1>4. CASE PollServer(g)
    <2> DEFINE p == [q EXCEPT !.pc = "assign", !.todo = CleanupList]
    <2>1. (Goes(g, p) \/ StaleSession(g)) /\ p.pc = "assign"
      BY <1>0, <1>4 DEF PollServer, Process
    <2> HIDE DEF p
    <2>2. p.pc # "off" /\ Undisturbed(p, row', box', runs')
      BY <2>1, IdleUndisturbed
    <2> QED BY <1>t, <2>1, <2>2, SoloGoes
  <1>5. CASE CleansDone(g)
    <2> DEFINE p == [q EXCEPT !.pc = "inspect"]
    <2>1. /\ q.pc = "clean"
          /\ agent' = [agent EXCEPT ![g] = ToTop(g)] \/ agent' = [agent EXCEPT ![g] = p]
      BY <1>5 DEF CleansDone, Step
    <2>2. p.pc = "inspect" /\ p.work = q.work
      BY <1>0 DEF Process
    <2> HIDE DEF p
    <2>3. p.pc # "off" /\ Undisturbed(p, row', box', runs')
      BY <1>0, <1>t, <2>1, <2>2 DEF Undisturbed, Serving, Launching
    <2>4. ToTop(g).pc = "inventory"
      BY DEF ToTop
    <2>5. ToTop(g).pc # "off" /\ Undisturbed(ToTop(g), row', box', runs')
      BY <2>4, IdleUndisturbed
    <2> QED BY <1>t, <2>1, <2>3, <2>5, SoloGoes
  <1>6. CASE Inspect(g)
    <2> DEFINE seen == box[q.work].state
               next == IF seen = "none" THEN "create" ELSE "start"
               p == [q EXCEPT !.pc = next, !.found = seen]
    <2>1. q.pc = "inspect" /\ agent' = [agent EXCEPT ![g] = p]
      BY <1>6 DEF Inspect, Step
    <2>2. next \in {"create", "start"}
      OBVIOUS
    <2> HIDE DEF next
    <2>3. p.pc = next /\ p.work = q.work /\ p.found = box[p.work].state
      BY <1>0 DEF Process
    <2> HIDE DEF p
    <2>4. p.pc # "off" /\ Undisturbed(p, row', box', runs')
      BY <1>0, <1>t, <2>1, <2>2, <2>3 DEF Undisturbed, Serving, Launching
    <2> QED BY <1>t, <2>1, <2>4, SoloGoes
  <1>7. CASE StepFails(g)
    <2>1. agent' = [agent EXCEPT ![g] = ToTop(g)] /\ ToTop(g).pc = "inventory"
      BY <1>7 DEF StepFails, ToTop
    <2>2. ToTop(g).pc # "off" /\ Undisturbed(ToTop(g), row', box', runs')
      BY <2>1, IdleUndisturbed
    <2> QED BY <1>t, <2>1, <2>2, SoloGoes
  <1>8. CASE AgentDies(g) \/ HeartbeatStale(g)
    <2>1. StaleSession(g)
      BY <1>8 DEF AgentDies, HeartbeatStale, StaleSession
    <2>2. ToTop(g).pc = "inventory"
      BY DEF ToTop
    <2>3. ToTop(g).pc # "off" /\ Undisturbed(ToTop(g), row', box', runs')
      BY <2>2, IdleUndisturbed
    <2> QED BY <1>t, <2>1, <2>3, SoloGoes
  <1> QED BY <1>1, <1>2, <1>3, <1>4, <1>5, <1>6, <1>7, <1>8

\* The calls to Docker.
LEMMA SoloEngine ==
  ASSUME AgentConstants, AgentsInv, Solo, NEW g \in Procs,
         \/ \E a \in Names : StopOne(g, a)
         \/ \E a \in Jobs : CleanOne(g, a)
         \/ CreateContainer(g) \/ StartContainer(g)
  PROVE  Solo'
  <1> DEFINE q == agent[g]
  <1>0. /\ q \in Process /\ Remembers(q, row, box) /\ Undisturbed(q, row, box, runs)
        /\ box \in [Names -> BoxRow] /\ row \in [Names -> JobRow] /\ runs \in [Names -> Nat]
        /\ BoxesReserve(row, box) /\ StartedOnce(row, box, runs)
    BY ProcessFacts DEF Solo, SoloTables, AgentsInv, AgentsTypeOK
  <1>1. ASSUME NEW a \in Names, StopOne(g, a) PROVE Solo'
    <2> DEFINE p == [q EXCEPT !.todo = @ \ {a}]
    <2>0. q.pc = "stop" /\ a \in q.todo /\ Goes(g, p) /\ Alive(g)
          /\ UNCHANGED <<overlap, row, wrk, runs>>
      BY <1>1 DEF StopOne, Step, Alive
    <2>1. p.pc = "stop" /\ p.todo = q.todo \ {a}
      BY <1>0, <2>0 DEF Process
    <2>2. box'[a].state = "none" /\ \A b \in Names : b # a => box'[b] = box[b]
      BY <1>0, <1>1 DEF StopOne, NoBox
    <2> HIDE DEF p
    <2>3. a \in Jobs => row[a].status = "ENDED"
      BY <1>0, <2>0 DEF Undisturbed
    <2>4. SoloTables'
      BY <1>0, <2>0, <2>2, <2>3, NamesApart DEF SoloTables, BoxesReserve, StartedOnce
    <2>5. p.pc # "off" /\ Undisturbed(p, row', box', runs')
      BY <1>0, <2>0, <2>1 DEF Undisturbed, Serving, Launching
    <2> QED BY <2>0, <2>4, <2>5, SoloGoes
  <1>2. ASSUME NEW a \in Jobs, CleanOne(g, a) PROVE Solo'
    <2> DEFINE p == [q EXCEPT !.pc = "confirm", !.found = a]
    <2>0. q.pc = "clean" /\ a \in q.todo /\ Goes(g, p) /\ Alive(g)
          /\ UNCHANGED <<overlap, row, wrk, runs>>
      BY <1>2 DEF CleanOne, Step, Alive
    <2>1. p.pc = "confirm" /\ p.todo = q.todo /\ p.found = a /\ p.work = q.work
      BY <1>0 DEF Process
    <2>2. box'[a].state = "none" /\ \A b \in Names : b # a => box'[b] = box[b]
      BY <1>0, <1>2, NamesApart DEF CleanOne, NoBox
    <2> HIDE DEF p
    <2>3. row[a].status = "ENDED" /\ q.work # a
      BY <1>0, <2>0 DEF Undisturbed, Remembers
    <2>4. SoloTables'
      BY <1>0, <2>0, <2>2, <2>3, NamesApart DEF SoloTables, BoxesReserve, StartedOnce
    <2>5. q.work \in Jobs => box'[q.work] = box[q.work]
      BY <2>2, <2>3, NamesApart
    <2>6. p.pc # "off" /\ Undisturbed(p, row', box', runs')
      BY <1>0, <2>0, <2>1, <2>2, <2>5 DEF Undisturbed, Serving, Launching
    <2> QED BY <2>0, <2>4, <2>6, SoloGoes
  <1>3. CASE CreateContainer(g)
    <2> DEFINE p == [q EXCEPT !.pc = "inspect"]
               a == q.work
    <2>0. q.pc = "create" /\ Goes(g, p) /\ Alive(g) /\ UNCHANGED <<overlap, row, wrk, runs>>
      BY <1>3 DEF CreateContainer, Step, Alive
    <2>1. p.pc = "inspect" /\ p.work = a
      BY <1>0 DEF Process
    <2>2. a \in Jobs /\ a \in Names
      BY <1>0, <2>0, NamesApart DEF Remembers, Launching
    <2>3. Reserves(row[a]) /\ (runs[a] = 0 \/ box[a].state \in {"running", "exited"})
      BY <1>0, <2>0, <2>2 DEF Undisturbed, Serving, Launching
    <2>4. /\ \A b \in Names : b # a => box'[b] = box[b]
          /\ box'[a] = box[a] \/ box[a].state = "none"
      BY <1>0, <1>3, <2>2 DEF CreateContainer
    <2>5. runs[a] = 0 \/ box'[a].state \in {"running", "exited"}
      BY <2>3, <2>4
    <2> HIDE DEF p
    <2>6. SoloTables'
      BY <1>0, <2>0, <2>2, <2>3, <2>4, <2>5, NamesApart DEF SoloTables, BoxesReserve, StartedOnce
    <2>7. p.pc # "off" /\ Undisturbed(p, row', box', runs')
      BY <2>0, <2>1, <2>3, <2>5 DEF Undisturbed, Serving, Launching
    <2> QED BY <2>0, <2>6, <2>7, SoloGoes
  <1>4. CASE StartContainer(g)
    <2> DEFINE p == [q EXCEPT !.pc = "report"]
               a == q.work
    <2>0. q.pc = "start" /\ Alive(g) /\ UNCHANGED <<overlap, row, wrk>>
          /\ (Goes(g, p) \/ Goes(g, ToTop(g)))
      BY <1>4 DEF StartContainer, Step, Alive
    <2>1. p.pc = "report" /\ p.work = a
      BY <1>0 DEF Process
    <2>2. a \in Jobs /\ a \in Names
      BY <1>0, <2>0, NamesApart DEF Remembers, Launching
    <2>3. Reserves(row[a]) /\ (runs[a] = 0 \/ box[a].state \in {"running", "exited"})
      BY <1>0, <2>0, <2>2 DEF Undisturbed, Serving, Launching
    <2>4. q.found = "created" => box[a].state = "created"
      BY <1>0, <2>0 DEF Undisturbed
    <2>5. \/ UNCHANGED <<box, runs>>
          \/ /\ q.found = "created"
             /\ box' = [box EXCEPT ![a] = [state |-> "running", claimed |-> FALSE]]
             /\ runs' = [runs EXCEPT ![a] = @ + 1]
      BY <1>4 DEF StartContainer, Startable
    <2>6. /\ \A b \in Names : b # a => box'[b] = box[b] /\ runs'[b] = runs[b]
          /\ \/ box'[a] = box[a] /\ runs'[a] = runs[a]
             \/ box'[a].state = "running" /\ runs[a] = 0 /\ runs'[a] = 1
      BY <1>0, <2>2, <2>3, <2>4, <2>5
    <2>7. runs'[a] = 0 \/ box'[a].state \in {"running", "exited"}
      BY <2>3, <2>6
    <2> HIDE DEF p
    <2>8. SoloTables'
      <3>1. BoxesReserve(row', box')
        BY <1>0, <2>0, <2>3, <2>6, NamesApart DEF BoxesReserve
      <3>2. StartedOnce(row', box', runs')
        BY <1>0, <2>0, <2>2, <2>6, <2>7, NamesApart DEF StartedOnce
      <3> QED BY <3>1, <3>2 DEF SoloTables
    <2>9. p.pc # "off" /\ Undisturbed(p, row', box', runs')
      BY <2>0, <2>1, <2>3, <2>7 DEF Undisturbed, Serving, Launching
    <2>10. ToTop(g).pc = "inventory"
      BY DEF ToTop
    <2>11. ToTop(g).pc # "off" /\ Undisturbed(ToTop(g), row', box', runs')
      BY <2>10, IdleUndisturbed
    <2> QED BY <2>0, <2>8, <2>9, <2>11, SoloGoes
  <1> QED BY <1>1, <1>2, <1>3, <1>4

\* The calls to the store.
LEMMA SoloStore ==
  ASSUME AgentConstants, AgentsInv, Solo, NEW g \in Procs,
         \/ \E a \in Jobs \cup {"none"} : Assign(g, a)
         \/ ConfirmClean(g) \/ ReportLaunched(g)
  PROVE  Solo'
  <1> DEFINE q == agent[g]
  <1>0. /\ q \in Process /\ Remembers(q, row, box) /\ Undisturbed(q, row, box, runs)
        /\ box \in [Names -> BoxRow] /\ row \in [Names -> JobRow] /\ runs \in [Names -> Nat]
        /\ BoxesReserve(row, box) /\ StartedOnce(row, box, runs) /\ OneReserves(row)
    BY ProcessFacts DEF Solo, SoloTables, AgentsInv, AgentsTypeOK
  <1>1. ASSUME NEW a \in Jobs \cup {"none"}, Assign(g, a) PROVE Solo'
    <2> DEFINE p == [q EXCEPT !.pc = "clean", !.work = a]
    <2>0. /\ q.pc = "assign" /\ UNCHANGED <<overlap, wrk, box, runs>> /\ Alive(g)
          /\ \/ StaleSession(g) /\ UNCHANGED row
             \/ Goes(g, p) /\ a = "none" /\ UNCHANGED row
             \/ /\ Goes(g, p) /\ a # "none" /\ a \in Assignable
                /\ row' = [row EXCEPT ![a].status = "STARTING"]
      BY <1>1 DEF Assign, Step, Alive
    <2>1. p.pc = "clean" /\ p.todo = q.todo /\ p.work = a
      BY <1>0 DEF Process
    <2>2. \A b \in q.todo : b \in Jobs /\ row[b].status = "ENDED"
      BY <1>0, <2>0 DEF Remembers
    <2> HIDE DEF p
    <2>3. CASE UNCHANGED row /\ StaleSession(g)
      <3>1. SoloTables'
        BY <1>0, <2>0, <2>3 DEF SoloTables
      <3>2. ToTop(g).pc = "inventory"
        BY DEF ToTop
      <3>3. ToTop(g).pc # "off" /\ Undisturbed(ToTop(g), row', box', runs')
        BY <3>2, IdleUndisturbed
      <3> QED BY <2>0, <2>3, <3>1, <3>3, SoloGoes
    <2>4. CASE UNCHANGED row /\ Goes(g, p) /\ a = "none"
      <3>1. SoloTables'
        BY <1>0, <2>0, <2>4 DEF SoloTables
      <3>2. a \notin Jobs /\ a \notin p.todo
        BY <2>1, <2>2, <2>4, NamesApart
      <3>3. p.pc # "off" /\ Undisturbed(p, row', box', runs')
        BY <2>1, <3>2 DEF Undisturbed, Serving, Launching
      <3> QED BY <2>0, <2>4, <3>1, <3>3, SoloGoes
    <2>5. CASE /\ Goes(g, p) /\ a # "none" /\ a \in Assignable
               /\ row' = [row EXCEPT ![a].status = "STARTING"]
      <3>1. a \in Jobs /\ a \in Names
        BY <2>5, NamesApart
      <3>2. row[a].status \in {"STARTING", "QUEUED"}
        BY <2>5 DEF Assignable, Replays
      <3>3. row[a].cleanup = "PENDING"
        BY <1>0, <3>1, <3>2 DEF OneReserves, JobRow
      <3>4. /\ row'[a].status = "STARTING" /\ row'[a].cleanup = "PENDING"
            /\ \A b \in Names : b # a => row'[b] = row[b]
        BY <1>0, <2>5, <3>1, <3>3 DEF JobRow
      <3>5. Reserves(row'[a]) /\ (runs[a] = 0 \/ box[a].state \in {"running", "exited"})
        BY <1>0, <3>1, <3>2, <3>4 DEF Reserves, StartedOnce
      <3>6. a \notin p.todo
        BY <2>1, <2>2, <3>2
      <3>7. SoloTables'
        <4>1. BoxesReserve(row', box')
          BY <1>0, <2>0, <3>4, <3>5, NamesApart DEF BoxesReserve
        <4>2. StartedOnce(row', box', runs')
          BY <1>0, <2>0, <3>4, <3>5, NamesApart DEF StartedOnce
        <4> QED BY <4>1, <4>2 DEF SoloTables
      <3>8. p.pc # "off" /\ Undisturbed(p, row', box', runs')
        BY <2>0, <2>1, <3>5, <3>6 DEF Undisturbed, Serving, Launching
      <3> QED BY <2>0, <2>5, <3>7, <3>8, SoloGoes
    <2> QED BY <2>0, <2>3, <2>4, <2>5
  <1>2. CASE ConfirmClean(g)
    <2> DEFINE a == q.found
               p == [q EXCEPT !.pc = "clean", !.todo = @ \ {a}, !.found = "none"]
    <2>0. /\ q.pc = "confirm" /\ UNCHANGED <<overlap, wrk, box, runs>> /\ Alive(g)
          /\ \/ StaleSession(g) /\ UNCHANGED row
             \/ Goes(g, p) /\ row' = [row EXCEPT ![a].cleanup = "DONE"]
      BY <1>2 DEF ConfirmClean, Step, Alive
    <2>1. a \in Jobs /\ a \in Names /\ box[a].state = "none" /\ a \in q.todo /\ q.work \notin q.todo
      BY <1>0, <2>0, NamesApart DEF Remembers, Undisturbed
    <2>2. p.pc = "clean" /\ p.todo = q.todo \ {a} /\ p.work = q.work
      BY <1>0 DEF Process
    <2> HIDE DEF p
    <2>3. /\ \A b \in Names : b # a => row'[b] = row[b]
          /\ row'[a].status = row[a].status
      BY <1>0, <2>0, <2>1 DEF JobRow
    <2>4. SoloTables'
      <3>1. BoxesReserve(row', box')
        BY <1>0, <2>0, <2>1, <2>3, NamesApart DEF BoxesReserve
      <3>2. StartedOnce(row', box', runs')
        BY <1>0, <2>0, <2>3, NamesApart DEF StartedOnce
      <3> QED BY <3>1, <3>2 DEF SoloTables
    <2>5. q.work \in Jobs => row'[q.work] = row[q.work]
      BY <2>1, <2>3, NamesApart
    <2>6. p.pc # "off" /\ Undisturbed(p, row', box', runs')
      BY <1>0, <2>0, <2>1, <2>2, <2>5 DEF Undisturbed, Serving, Launching
    <2> QED BY <2>0, <2>4, <2>6, SoloGoes
  <1>3. CASE ReportLaunched(g)
    <2> DEFINE a == q.work
    <2>0. /\ q.pc = "report" /\ UNCHANGED <<overlap, wrk, box, runs>> /\ Alive(g)
          /\ \/ StaleSession(g) /\ UNCHANGED row
             \/ Goes(g, ToTop(g)) /\ row' = [row EXCEPT ![a].runtime = TRUE]
      BY <1>3 DEF ReportLaunched, Step, Alive
    <2>1. a \in Jobs /\ a \in Names
      BY <1>0, <2>0, NamesApart DEF Remembers, Launching
    <2>2. \A b \in Names : row'[b].status = row[b].status /\ row'[b].cleanup = row[b].cleanup
      BY <1>0, <2>0, <2>1 DEF JobRow
    <2>3. SoloTables'
      <3>1. BoxesReserve(row', box')
        BY <1>0, <2>0, <2>2, NamesApart DEF BoxesReserve, Reserves
      <3>2. StartedOnce(row', box', runs')
        BY <1>0, <2>0, <2>2, NamesApart DEF StartedOnce
      <3> QED BY <3>1, <3>2 DEF SoloTables
    <2>4. ToTop(g).pc = "inventory"
      BY DEF ToTop
    <2>5. ToTop(g).pc # "off" /\ Undisturbed(ToTop(g), row', box', runs')
      BY <2>4, IdleUndisturbed
    <2> QED BY <2>0, <2>3, <2>5, SoloGoes
  <1> QED BY <1>1, <1>2, <1>3

LEMMA SoloReport ==
  ASSUME Solo, NEW g \in Procs, ReportGpus(g), wrk \in [session : Nat, ready : BOOLEAN]
  PROVE  Solo'
  BY DEF Solo, SoloTables, ReportGpus, InTurn, Alive

LEMMA SoloInvInit == ASSUME AgentConstants, AgentsInit PROVE SoloInv
  <1>1. \A g \in Procs : agent[g].pc = "off"
    BY DEF AgentsInit, NotStarted
  <1>2. InTurn
    BY <1>1 DEF InTurn, Alive
  <1>3. \A g \in Procs : Undisturbed(agent[g], row, box, runs)
    BY <1>1, IdleUndisturbed
  <1>4. \A a \in Jobs : box[a].state = "none" /\ runs[a] = 0
    BY NamesApart DEF AgentsInit, NoBox
  <1>5. SoloTables
    BY <1>4 DEF SoloTables, BoxesReserve, StartedOnce
  <1> QED BY <1>2, <1>3, <1>5 DEF SoloInv, Solo

LEMMA SoloInvStep ==
  ASSUME AgentConstants, AgentsInv, SoloInv, [AgentsNext]_agentVars
  PROVE  SoloInv'
  <1>0. UNCHANGED overlap
    BY DEF AgentsNext, LoopStep, agentVars, AttemptOver, RunnerClaims, ContainerExits,
           StartAgent, AgentDies, HeartbeatStale, ReportGpus, StepFails, ListContainers,
           Reconcile, StopOne, StopsDone, PollServer, Assign, CleanOne, ConfirmClean,
           CleansDone, Inspect, CreateContainer, StartContainer, ReportLaunched
  <1> SUFFICES ASSUME ~overlap PROVE Solo'
    BY <1>0 DEF SoloInv
  <1>s. Solo
    BY DEF SoloInv
  <1>1. CASE UNCHANGED agentVars
    BY <1>s, <1>1 DEF agentVars, Solo, SoloTables, InTurn, Alive
  <1>2. CASE AgentsNext
    <2>1. wrk \in [session : Nat, ready : BOOLEAN]
      BY DEF AgentsInv, AgentsTypeOK
    <2> QED BY <1>s, <1>2, <2>1, SoloWorldSteps, SoloStart, SoloReport, SoloQuiet, SoloEngine,
               SoloStore DEF AgentsNext, LoopStep
  <1> QED BY <1>1, <1>2

LEMMA AtMostOne ==
  ASSUME NEW S, \A x, y \in S : x = y
  PROVE  Cardinality(S) <= 1
  <1>1. CASE S = {}
    BY <1>1, FS_EmptySet
  <1>2. CASE S # {}
    <2>1. PICK x \in S : TRUE
      BY <1>2
    <2>2. S = {x}
      BY <2>1
    <2> QED BY <2>2, FS_Singleton
  <1> QED BY <1>1, <1>2

LEMMA AgentsServeOne ==
  ASSUME AgentConstants, AgentsInv, SoloInv
  PROVE  GpuServesOne
  <1>0. /\ OneReserves(row) /\ StraysFirst(row, box) /\ OwnersReserve(row, box)
        /\ \A s, t \in Strays : s = t
    BY DEF AgentsInv, AgentConstants
  <1>1. ASSUME NEW x \in Strays, NEW y \in Jobs, box[x].state = "running", Reserves(row[y])
        PROVE  FALSE
    BY <1>0, <1>1 DEF StraysFirst, StraysGone, Reserves
  <1>2. OneOwnerOnGpu
    <2> DEFINE S == {a \in Running : box[a].claimed}
    <2>1. \A a \in S : a \in Strays \/ (a \in Jobs /\ Reserves(row[a]))
      BY <1>0, NamesApart DEF Running, OwnersReserve, Owning, Reserves
    <2>2. \A a \in S : box[a].state = "running"
      BY DEF Running
    <2> HIDE DEF S
    <2>3. \A x, y \in S : x = y
      BY <1>0, <1>1, <2>1, <2>2 DEF OneReserves
    <2>4. Cardinality(S) <= 1
      BY <2>3, AtMostOne
    <2> QED BY <2>4 DEF OneOwnerOnGpu, S
  <1>3. OneContainerOnGpu
    <2> SUFFICES ASSUME ~overlap PROVE Cardinality(Running) <= 1
      BY DEF OneContainerOnGpu
    <2>1. \A a \in Running : a \in Strays \/ (a \in Jobs /\ Reserves(row[a]))
      BY NamesApart DEF Running, SoloInv, Solo, SoloTables, BoxesReserve
    <2>2. \A a \in Running : box[a].state = "running"
      BY DEF Running
    <2>3. \A x, y \in Running : x = y
      BY <1>0, <1>1, <2>1, <2>2 DEF OneReserves
    <2> QED BY <2>3, AtMostOne
  <1>4. LaunchedOnce
    <2> SUFFICES ASSUME ~overlap, NEW a \in Jobs PROVE runs[a] <= 1
      BY DEF LaunchedOnce
    <2>1. runs[a] \in {0, 1}
      BY DEF SoloInv, Solo, SoloTables, StartedOnce
    <2> QED BY <2>1
  <1> QED BY <1>2, <1>3, <1>4 DEF GpuServesOne

(* Whatever agents of a worker do, one after the other or, where a property  *)
(* allows it, at once, its GPU serves one attempt that owns it and no runner *)
(* is started twice (agent.cpp:72-121, docker.cpp ensure, workers.cpp:51-99).*)
THEOREM GpuIsServed == AgentsSpec => []GpuServesOne
  <1>1. AgentsInit => AgentsInv /\ SoloInv
    BY AgentConstants, AgentsInvInit, SoloInvInit
  <1>2. AgentsInv /\ SoloInv /\ [AgentsNext]_agentVars => (AgentsInv /\ SoloInv)'
    BY AgentConstants, AgentsInvStep, SoloInvStep
  <1>3. AgentsInv /\ SoloInv => GpuServesOne
    BY AgentConstants, AgentsServeOne
  <1> QED BY <1>1, <1>2, <1>3, PTL DEF AgentsSpec

-----------------------------------------------------------------------------
(***************************************************************************)
(* RunnerLease: for every choice of the intervals that ServerConfig::load  *)
(* accepts.                                                                *)
(***************************************************************************)

\* What the lease granted so far covers: the request that granted it was sent
\* before the server wrote it, and the runner subtracts the margin.
GrantInv ==
  /\ rn.sent <= now
  /\ srv.lease <= now + Lease
  /\ Executing => rn.sent + Lease <= srv.lease
  /\ rn.phase = "start" /\ call = "ok" => rn.sent + Lease <= srv.lease
  /\ hb.state = "ok" => hb.at + Lease <= srv.lease
  /\ hb.state # "wait" => hb.at <= now /\ guard.until + Margin <= hb.at + Lease
  /\ guard.until + Margin <= now + Lease
  /\ Guarding => guard.until + Margin <= srv.lease
  /\ ~Guarding => hb.state = "wait"

\* What the watch loop has made sure of when it last looked.
WatchInv ==
  /\ rn.phase \in {"start", "launch"} =>
       proc.leader = "none" /\ ~proc.kids /\ rn.reason = "none"
  /\ rn.phase \notin {"start", "launch", "watch"} => ~ProcessAlive
                                     /\ proc.leader \in {"none", "reaped"}
  /\ rn.phase = "watch" =>
       /\ rn.seen <= now /\ now <= rn.seen + Slack
       /\ proc.leader \in {"alive", "zombie"}
       /\ rn.reason = "none" => rn.seen + Grace < guard.until
       /\ rn.reason # "none" => rn.killAt < guard.until + Slack
       /\ rn.reason # "none" /\ ProcessAlive => rn.seen < rn.killAt

LeaseInv == LeaseTypeOK /\ GrantInv /\ WatchInv

\* The intervals are numbers.
LEMMA TimingNat ==
  /\ Lease \in Nat /\ Margin \in Nat /\ Grace \in Nat /\ Slack \in Nat
  /\ HeartbeatEvery \in Nat /\ TimeoutSeconds \in Nat /\ Finalization \in Nat
  /\ Margin + Grace < Lease /\ 2 * Slack <= Margin
BY LeaseTiming

\* What executing a request can do to the lease: it is left alone or counted
\* from now, and it is counted from now whenever it is granted afresh.
LEMMA ServeFacts ==
  ASSUME LeaseTypeOK, NEW r \in Rpcs
  PROVE  /\ Serve(r)[1] \in Answers
         /\ Serve(r)[2] \in Rows
         /\ Serve(r)[2].lease \in {srv.lease, now + Lease}
         /\ Serve(r)[2].status \in {"RUNNING", "FINALIZING"} =>
              Executing \/ Serve(r)[2].lease = now + Lease
         /\ r = "heartbeat" /\ Serve(r)[1] = "ok" =>
              Serve(r)[2].lease = now + Lease
         /\ r = "start" /\ Serve(r)[1] = "ok" =>
              Executing \/ Serve(r)[2].lease = now + Lease
<1> USE TimingNat
DEF LeaseTypeOK, Rows, Runners, Heartbeats, Guards, Processes, Answers,
    Executing
<1>1. CASE r = "start"
  <2>1. Serve(r) = ServeStart
    BY <1>1 DEF Serve
  <2>2. CASE srv.status = "STARTING"
    <3> DEFINE stored == [srv EXCEPT !.status = "RUNNING", !.lease = now + Lease,
                                     !.deadline = now + TimeoutSeconds]
    <3>1. Serve(r) = <<"ok", stored>>
      BY <2>1, <2>2 DEF ServeStart
    <3>2. stored \in Rows /\ stored.lease = now + Lease
      <4>1. now + Lease \in Nat /\ now + TimeoutSeconds \in Nat
        OBVIOUS
      <4>2. QED
        BY <4>1
    <3> HIDE DEF stored
    <3>3. QED
      BY <1>1, <3>1, <3>2
  <2>3. CASE srv.status # "STARTING"
    BY <1>1, <2>1, <2>3 DEF ServeStart, OwnedRow
  <2>4. QED
    BY <2>2, <2>3
<1>2. CASE r = "heartbeat"
  <2>1. Serve(r) = ServeHeartbeat
    BY <1>2 DEF Serve
  <2>2. QED
    BY <1>2, <2>1 DEF ServeHeartbeat, OwnedRow
<1>3. CASE r = "finalize"
  <2>1. Serve(r) = ServeFinalize
    BY <1>3 DEF Serve
  <2>2. CASE OwnedRow /\ srv.status = "RUNNING"
    <3> DEFINE stored == [srv EXCEPT !.status = "FINALIZING",
                                     !.deadline = now + Finalization]
    <3>1. Serve(r) = <<"ok", stored>>
      BY <2>1, <2>2 DEF ServeFinalize
    <3>2. stored \in Rows /\ stored.lease = srv.lease
      <4>1. now + Finalization \in Nat
        OBVIOUS
      <4>2. QED
        BY <4>1
    <3> HIDE DEF stored
    <3>3. QED
      BY <1>3, <2>2, <3>1, <3>2
  <2>3. CASE ~(OwnedRow /\ srv.status = "RUNNING")
    BY <1>3, <2>1, <2>3 DEF ServeFinalize, OwnedRow
  <2>4. QED
    BY <2>2, <2>3
<1>4. CASE r = "complete"
  <2>1. Serve(r) = ServeComplete
    BY <1>4 DEF Serve
  <2>2. Reported \in [code: Codes, reason: Reasons]
    BY DEF Reported, Codes
  <2> DEFINE done == /\ srv.outcome = {} /\ OwnedRow
                     /\ Reported.code = 0 => srv.status = "FINALIZING"
  <2>3. CASE done
    <3> DEFINE stored == [srv EXCEPT !.status = "ENDED", !.outcome = {Reported}]
    <3>1. Serve(r) = <<"ok", stored>>
      BY <2>1, <2>3 DEF ServeComplete
    <3>2. stored \in Rows /\ stored.lease = srv.lease /\ stored.status = "ENDED"
      BY <2>2
    <3> HIDE DEF stored
    <3>3. QED
      BY <1>4, <3>1, <3>2
  <2>4. CASE ~done
    <3>1. Serve(r)[2] = srv /\ Serve(r)[1] \in Answers
      BY <2>1, <2>4 DEF ServeComplete
    <3>2. QED
      BY <1>4, <3>1
  <2>5. QED
    BY <2>3, <2>4
<1>5. QED
  BY <1>1, <1>2, <1>3, <1>4 DEF Rpcs

\* run_attempt's exit keeps the shape of the state and leaves nothing to watch.
LEMMA ExitsKeepsInv ==
  ASSUME LeaseInv, RunnerExits, call' \in {"sent"} \union Answers
  PROVE  LeaseInv'
<1> USE TimingNat DEF LeaseInv, RunnerExits, NoHeartbeat, NoGuard
<1>1. LeaseTypeOK'
  BY DEF LeaseTypeOK, Runners, Heartbeats, Guards, Processes, Phases
<1>2. GrantInv'
  BY
  DEF LeaseTypeOK, Rows, Runners, Heartbeats, Guards, Processes, GrantInv,
      Executing, Guarding
<1>3. WatchInv'
  BY
  DEF LeaseTypeOK, Rows, Runners, Heartbeats, Guards, Processes, WatchInv,
      ProcessAlive
<1>4. QED
  BY <1>1, <1>2, <1>3

\* Entering a phase keeps the shape of the main thread's state.
LEMMA EnterType ==
  ASSUME LeaseTypeOK, NEW phase \in Phases, Enter(phase)
  PROVE  rn' \in Runners
BY DEF LeaseTypeOK, Runners, Enter

\* A lease minus the margin is a number.
LEMMA UntilNat ==
  ASSUME NEW granted \in Nat
  PROVE  Until(granted) \in Nat
BY TimingNat DEF Until

\* One step per action: the runner's own, those of the heartbeat thread, those
\* of the server and the passing of time.
LEMMA StepKeepsInv ==
  ASSUME LeaseInv, LeaseNext
  PROVE  LeaseInv'
<1> USE TimingNat DEF LeaseInv
<1>1. CASE CallServe
  <2>1. rn.phase \in Rpcs
    BY <1>1 DEF CallServe, Rpcs
  <2>2. LeaseTypeOK'
    BY <1>1, <2>1, ServeFacts DEF CallServe, LeaseTypeOK
  <2>3. GrantInv'
    BY <1>1, <2>1, ServeFacts
   
    DEF CallServe, LeaseTypeOK, Rows, Runners, Heartbeats, Guards, Processes,
        GrantInv, Executing, Guarding
  <2>4. WatchInv'
    BY <1>1 DEF CallServe, WatchInv, ProcessAlive
  <2>5. QED
    BY <2>2, <2>3, <2>4
<1>2. CASE CallLost
  <2>1. CASE RunnerExits
    BY <1>2, <2>1, ExitsKeepsInv DEF CallLost, LeaseTypeOK
  <2>2. CASE ~RunnerExits
    <3>1. LeaseTypeOK'
      <4>1. rn' = [rn EXCEPT !.tries = @ + 1, !.seen = now]
        BY <1>2, <2>2 DEF CallLost
      <4>2. rn' \in Runners
        <5>1. rn.tries + 1 \in Nat
          BY DEF LeaseTypeOK, Runners
        <5>2. QED
          BY <4>1, <5>1 DEF LeaseTypeOK, Runners
      <4>3. QED
        BY <1>2, <2>2, <4>2 DEF CallLost, LeaseTypeOK
    <3>2. GrantInv'
      BY <1>2, <2>2
      DEF CallLost, LeaseTypeOK, Rows, Runners, Heartbeats, Guards, Processes,
          GrantInv, Executing, Guarding, Answers
    <3>3. WatchInv'
      BY <1>2, <2>2
      DEF CallLost, LeaseTypeOK, Rows, Runners, Heartbeats, Guards, Processes,
          WatchInv, ProcessAlive, Answers
    <3>4. QED
      BY <3>1, <3>2, <3>3
  <2>3. QED
    BY <2>1, <2>2
<1>3. CASE CallRefused
  BY <1>3, ExitsKeepsInv DEF CallRefused, LeaseTypeOK
<1>4. CASE Started
  <2>1. LeaseTypeOK'
    <3>1. rn' \in Runners
      BY <1>4, EnterType DEF Started, Phases
    <3>2. guard' \in Guards
      BY <1>4, UntilNat DEF Started, LeaseTypeOK, Guards, Runners
    <3>3. hb' \in Heartbeats
      BY <1>4 DEF Started, LeaseTypeOK, Heartbeats
    <3>4. QED
      BY <1>4, <3>1, <3>2, <3>3 DEF Started, LeaseTypeOK
  <2>2. GrantInv'
    BY <1>4
    DEF Started, LeaseTypeOK, Rows, Runners, Heartbeats, Guards, Processes,
        GrantInv, Executing, Guarding, Enter, Until
  <2>3. WatchInv'
    BY <1>4
    DEF Started, LeaseTypeOK, Rows, Runners, Heartbeats, Guards, Processes,
        WatchInv, GrantInv, ProcessAlive, Enter, Until
  <2>4. QED
    BY <2>1, <2>2, <2>3
<1>5. CASE Launch
  <2>1. CASE RunnerExits
    BY <1>5, <2>1, ExitsKeepsInv DEF Launch, LeaseTypeOK
  <2>2. CASE ~RunnerExits
    <3>1. LeaseTypeOK'
      <4>1. Enter("watch")
        BY <1>5, <2>2 DEF Launch
      <4>2. rn' \in Runners
        BY <4>1, EnterType DEF Phases
      <4>3. proc' \in Processes
        BY <1>5, <2>2 DEF Launch, LeaseTypeOK, Processes
      <4>4. QED
        BY <1>5, <2>2, <4>2, <4>3 DEF Launch, LeaseTypeOK
    <3>2. GrantInv'
      BY <1>5, <2>2
      DEF Launch, LeaseTypeOK, Rows, Runners, Heartbeats, Guards, Processes,
          GrantInv, Executing, Guarding, Enter, NearExpiry
    <3>3. WatchInv'
      <4>1. /\ rn.phase = "launch" /\ ~NearExpiry(Grace) /\ Enter("watch")
            /\ proc'.leader = "alive" /\ UNCHANGED <<now, guard>>
        BY <1>5, <2>2 DEF Launch, LeaseTypeOK, Processes
      <4>2. rn'.phase = "watch" /\ rn'.seen = now /\ rn'.reason = "none"
        BY <4>1 DEF Enter, LeaseTypeOK, Runners, WatchInv
      <4>3. now + Grace < guard.until
        BY <4>1 DEF NearExpiry, LeaseTypeOK, Guards
      <4>4. QED
        BY <4>1, <4>2, <4>3 DEF WatchInv, LeaseTypeOK
    <3>4. QED
      BY <3>1, <3>2, <3>3
  <2>3. QED
    BY <2>1, <2>2
<1>6. CASE Watch
  <2> DEFINE killAt == IF rn.reason = "none" THEN now + Grace ELSE rn.killAt
  <2>1. PICK reason \in IF rn.reason = "none" THEN {StopReason(i) : i \in BOOLEAN}
                                              ELSE {rn.reason},
             reap \in BOOLEAN :
          LET kill   == reason # "none" /\ now >= killAt
              killed == IF kill /\ proc.leader = "alive"
                        THEN [leader |-> "zombie", kids |-> FALSE, code |-> 1]
                        ELSE [proc EXCEPT !.kids = @ /\ ~kill]
          IN /\ proc.leader = "zombie" => reap
             /\ reap => killed.leader = "zombie"
             /\ proc' = IF reap THEN [killed EXCEPT !.leader = "reaped",
                                                    !.kids = FALSE]
                                ELSE killed
             /\ rn' = [rn EXCEPT !.reason = reason, !.seen = now,
                         !.killAt = IF reason = "none" \/ reap THEN 0 ELSE killAt,
                         !.phase = IF reap THEN "exited" ELSE @]
    BY <1>6, Zenon DEF Watch
  <2>2. rn.phase = "watch" /\ UNCHANGED <<now, srv, call, hb, guard, late>>
    BY <1>6 DEF Watch
  <2>3. /\ reason \in Reasons
        /\ rn.reason = "none" /\ reason = "none" => now + Grace < guard.until
        /\ rn.reason # "none" => reason = rn.reason
    BY DEF StopReason, NearExpiry, LeaseTypeOK, Runners, Guards, Reasons
  <2>4. killAt \in Nat
    BY DEF LeaseTypeOK, Runners
  <2>5. killAt < guard.until + Slack
    BY <2>2 DEF WatchInv, LeaseTypeOK, Runners, Guards
  <2> HIDE DEF killAt
  <2>6. proc' \in Processes /\ (reap => proc'.leader = "reaped" /\ ~proc'.kids)
        /\ (~reap => proc'.leader \in {"alive", "zombie"})
    BY ZenonT(30), <2>1, <2>2 DEF LeaseTypeOK, Processes, Codes, WatchInv
  <2>7. reason # "none" /\ now >= killAt => proc'.leader # "alive" /\ ~proc'.kids
    BY <2>1, <2>2 DEF LeaseTypeOK, Processes, WatchInv
  <2>8. /\ rn' \in Runners /\ rn'.sent = rn.sent /\ rn'.seen = now
        /\ rn'.reason = reason /\ rn'.phase = (IF reap THEN "exited" ELSE "watch")
        /\ ~reap /\ reason # "none" => rn'.killAt = killAt
    BY <2>1, <2>2, <2>3, <2>4 DEF LeaseTypeOK, Runners, Phases
  <2>9. LeaseTypeOK'
    BY <2>2, <2>6, <2>8 DEF LeaseTypeOK
  <2>10. GrantInv'
    BY <2>2, <2>8 DEF LeaseTypeOK, Rows, GrantInv, Executing, Guarding
  <2>11. WatchInv'
    BY <2>2, <2>3, <2>4, <2>5, <2>6, <2>7, <2>8
    DEF LeaseTypeOK, Runners, Guards, WatchInv, ProcessAlive
  <2>12. QED
    BY <2>9, <2>10, <2>11
<1>7. CASE WatchThrows
  BY <1>7, ExitsKeepsInv DEF WatchThrows, LeaseTypeOK
<1>8. CASE Exited
  <2>1. CASE RunnerExits
    BY <1>8, <2>1, ExitsKeepsInv DEF Exited, LeaseTypeOK
  <2>2. CASE ~RunnerExits
    <3>1. LeaseTypeOK'
      <4>1. Enter("finalize")
        BY <1>8, <2>2 DEF Exited
      <4>2. rn' \in Runners
        BY <4>1, EnterType DEF Phases
      <4>3. QED
        BY <1>8, <2>2, <4>2 DEF Exited, LeaseTypeOK
    <3>2. GrantInv'
      BY <1>8, <2>2
      DEF Exited, LeaseTypeOK, Rows, Runners, Heartbeats, Guards, Processes,
          GrantInv, Executing, Guarding, Enter, NearExpiry
    <3>3. WatchInv'
      BY <1>8, <2>2
      DEF Exited, LeaseTypeOK, Rows, Runners, Heartbeats, Guards, Processes,
          WatchInv, ProcessAlive, Enter, NearExpiry
    <3>4. QED
      BY <3>1, <3>2, <3>3
  <2>3. QED
    BY <2>1, <2>2
<1>9. CASE Finalizing
  <2>1. LeaseTypeOK'
    BY <1>9
    DEF Finalizing, LeaseTypeOK, Rows, Runners, Heartbeats, Guards, Processes,
        Phases, Reasons, Answers, Enter
  <2>2. GrantInv'
    BY <1>9
    DEF Finalizing, LeaseTypeOK, Rows, Runners, Heartbeats, Guards, Processes,
        GrantInv, Executing, Guarding, Enter
  <2>3. WatchInv'
    BY <1>9
    DEF Finalizing, LeaseTypeOK, Rows, Runners, Heartbeats, Guards, Processes,
        WatchInv, GrantInv, ProcessAlive, Enter
  <2>4. QED
    BY <2>1, <2>2, <2>3
<1>10. CASE Collect
  <2>1. CASE RunnerExits
    BY <1>10, <2>1, ExitsKeepsInv DEF Collect, LeaseTypeOK
  <2>2. CASE ~RunnerExits
    <3>1. LeaseTypeOK'
      <4>1. Enter("complete")
        BY <1>10, <2>2 DEF Collect
      <4>2. rn' \in Runners
        BY <4>1, EnterType DEF Phases
      <4>3. QED
        BY <1>10, <2>2, <4>2 DEF Collect, LeaseTypeOK
    <3>2. GrantInv'
      BY <1>10, <2>2
      DEF Collect, LeaseTypeOK, Rows, Runners, Heartbeats, Guards, Processes,
          GrantInv, Executing, Guarding, Enter
    <3>3. WatchInv'
      BY <1>10, <2>2
      DEF Collect, LeaseTypeOK, Rows, Runners, Heartbeats, Guards, Processes,
          WatchInv, ProcessAlive, Enter
    <3>4. QED
      BY <3>1, <3>2, <3>3
  <2>3. QED
    BY <2>1, <2>2
<1>11. CASE Completed
  BY <1>11, ExitsKeepsInv DEF Completed, LeaseTypeOK
<1>12. CASE HeartbeatSend
  <2>1. LeaseTypeOK'
    <3>1. hb' \in Heartbeats
      BY <1>12 DEF HeartbeatSend, LeaseTypeOK, Heartbeats
    <3>2. QED
      BY <1>12, <3>1 DEF HeartbeatSend, LeaseTypeOK
  <2>2. GrantInv'
    BY <1>12
    DEF HeartbeatSend, LeaseTypeOK, Rows, Runners, Heartbeats, Guards,
        Processes, GrantInv, Executing, Guarding
  <2>3. WatchInv'
    BY <1>12
    DEF HeartbeatSend, LeaseTypeOK, Rows, Runners, Heartbeats, Guards,
        Processes, WatchInv, GrantInv, ProcessAlive
  <2>4. QED
    BY <2>1, <2>2, <2>3
<1>13. CASE HeartbeatServe
  <2>1. "heartbeat" \in Rpcs
    BY DEF Rpcs
  <2>2. LeaseTypeOK'
    <3>1. hb' \in Heartbeats
      BY <1>13, <2>1, ServeFacts DEF HeartbeatServe, LeaseTypeOK, Heartbeats
    <3>2. QED
      BY <1>13, <2>1, <3>1, ServeFacts DEF HeartbeatServe, LeaseTypeOK
  <2>3. GrantInv'
    BY <1>13, <2>1, ServeFacts
   
    DEF HeartbeatServe, LeaseTypeOK, Rows, Runners, Heartbeats, Guards,
        Processes, GrantInv, Executing, Guarding
  <2>4. WatchInv'
    BY <1>13 DEF HeartbeatServe, WatchInv, ProcessAlive
  <2>5. QED
    BY <2>2, <2>3, <2>4
<1>14. CASE HeartbeatLost
  <2>1. LeaseTypeOK'
    <3>1. hb' \in Heartbeats
      BY <1>14 DEF HeartbeatLost, LeaseTypeOK, Heartbeats
    <3>2. QED
      BY <1>14, <3>1 DEF HeartbeatLost, LeaseTypeOK
  <2>2. GrantInv'
    BY <1>14
    DEF HeartbeatLost, LeaseTypeOK, Rows, Runners, Heartbeats, Guards,
        Processes, GrantInv, Executing, Guarding
  <2>3. WatchInv'
    BY <1>14
    DEF HeartbeatLost, LeaseTypeOK, Rows, Runners, Heartbeats, Guards,
        Processes, WatchInv, GrantInv, ProcessAlive
  <2>4. QED
    BY <2>1, <2>2, <2>3
<1>15. CASE HeartbeatDone
  <2>1. LeaseTypeOK'
    <3>1. hb' \in Heartbeats
      <4>1. now + HeartbeatEvery \in Nat
        BY DEF LeaseTypeOK
      <4>2. QED
        BY <1>15, <4>1 DEF HeartbeatDone, LeaseTypeOK, Heartbeats
    <3>2. guard' \in Guards
      BY <1>15, UntilNat DEF HeartbeatDone, LeaseTypeOK, Heartbeats, Guards
    <3>3. QED
      BY <1>15, <3>1, <3>2 DEF HeartbeatDone, LeaseTypeOK
  <2>2. GrantInv'
    BY <1>15
    DEF HeartbeatDone, LeaseTypeOK, Rows, Runners, Heartbeats, Guards,
        Processes, GrantInv, Executing, Guarding, Until
  <2>3. WatchInv'
    BY <1>15
    DEF HeartbeatDone, LeaseTypeOK, Rows, Runners, Heartbeats, Guards,
        Processes, WatchInv, GrantInv, ProcessAlive, Until
  <2>4. QED
    BY <2>1, <2>2, <2>3
<1>16. CASE ServerRecovers
  <2>1. LeaseTypeOK'
    <3>1. srv' \in Rows
      BY <1>16 DEF ServerRecovers, LeaseTypeOK, Rows
    <3>2. QED
      BY <1>16, <3>1 DEF ServerRecovers, LeaseTypeOK
  <2>2. GrantInv'
    BY <1>16
    DEF ServerRecovers, LeaseTypeOK, Rows, Runners, Heartbeats, Guards,
        Processes, GrantInv, Executing, Guarding
  <2>3. WatchInv'
    BY <1>16
    DEF ServerRecovers, LeaseTypeOK, Rows, Runners, Heartbeats, Guards,
        Processes, WatchInv, GrantInv, ProcessAlive
  <2>4. QED
    BY <2>1, <2>2, <2>3
<1>17. CASE ServerCancels
  <2>1. LeaseTypeOK'
    <3>1. srv' \in Rows
      BY <1>17 DEF ServerCancels, LeaseTypeOK, Rows
    <3>2. QED
      BY <1>17, <3>1 DEF ServerCancels, LeaseTypeOK
  <2>2. GrantInv'
    BY <1>17
    DEF ServerCancels, LeaseTypeOK, Rows, Runners, Heartbeats, Guards,
        Processes, GrantInv, Executing, Guarding
  <2>3. WatchInv'
    BY <1>17
    DEF ServerCancels, LeaseTypeOK, Rows, Runners, Heartbeats, Guards,
        Processes, WatchInv, GrantInv, ProcessAlive
  <2>4. QED
    BY <2>1, <2>2, <2>3
<1>18. CASE ServeLate
  <2>1. "heartbeat" \in Rpcs
    BY DEF Rpcs
  <2>2. LeaseTypeOK'
    BY <1>18, <2>1, ServeFacts DEF ServeLate, LeaseTypeOK
  <2>3. GrantInv'
    BY <1>18, <2>1, ServeFacts
   
    DEF ServeLate, LeaseTypeOK, Rows, Runners, Heartbeats, Guards, Processes,
        GrantInv, Executing, Guarding
  <2>4. WatchInv'
    BY <1>18 DEF ServeLate, WatchInv, ProcessAlive
  <2>5. QED
    BY <2>2, <2>3, <2>4
<1>19. CASE ChildExits
  <2>1. LeaseTypeOK'
    BY <1>19
    DEF ChildExits, LeaseTypeOK, Rows, Runners, Heartbeats, Guards, Processes,
        Phases, Reasons, Answers, Codes
  <2>2. GrantInv'
    BY <1>19
    DEF ChildExits, LeaseTypeOK, Rows, Runners, Heartbeats, Guards, Processes,
        GrantInv, Executing, Guarding, Codes
  <2>3. WatchInv'
    BY <1>19
    DEF ChildExits, LeaseTypeOK, Rows, Runners, Heartbeats, Guards, Processes,
        WatchInv, GrantInv, ProcessAlive, Codes
  <2>4. QED
    BY <2>1, <2>2, <2>3
<1>20. CASE Tick
  <2>1. LeaseTypeOK'
    BY <1>20
    DEF Tick, LeaseTypeOK, Rows, Runners, Heartbeats, Guards, Processes,
        Phases, Reasons, Answers, Calling, Guarding
  <2>2. GrantInv'
    BY <1>20
    DEF Tick, LeaseTypeOK, Rows, Runners, Heartbeats, Guards, Processes,
        GrantInv, Executing, Guarding, Calling, Guarding
  <2>3. WatchInv'
    BY <1>20
    DEF Tick, LeaseTypeOK, Rows, Runners, Heartbeats, Guards, Processes,
        WatchInv, GrantInv, ProcessAlive, Calling, Guarding
  <2>4. QED
    BY <2>1, <2>2, <2>3
<1>21. QED
  BY <1>1, <1>2, <1>3, <1>4, <1>5, <1>6, <1>7, <1>8, <1>9, <1>10, <1>11, <1>12,
     <1>13, <1>14, <1>15, <1>16, <1>17, <1>18, <1>19, <1>20
  DEF LeaseNext, RunnerStep, HeartbeatStep, ServerStep

\* The invariant the argument rests on holds in every behaviour.
LEMMA LeaseInvariant == LeaseSpec => []LeaseInv
<1>1. LeaseInit => LeaseInv
  <2> SUFFICES ASSUME LeaseInit PROVE LeaseInv
    OBVIOUS
  <2> USE DEF LeaseInit, NoHeartbeat, NoGuard
  <2>1. srv \in Rows /\ rn \in Runners
    BY DEF Rows, Runners, Phases, Reasons
  <2>2. hb \in Heartbeats /\ guard \in Guards /\ proc \in Processes
    BY DEF Heartbeats, Guards, Processes, Codes
  <2>3. LeaseTypeOK
    BY <2>1, <2>2 DEF LeaseTypeOK
  <2>4. GrantInv
    BY TimingNat DEF GrantInv, Executing, Guarding
  <2>5. WatchInv
    BY DEF WatchInv, ProcessAlive
  <2>6. QED
    BY <2>3, <2>4, <2>5 DEF LeaseInv
<1>2. LeaseInv /\ [LeaseNext]_leaseVars => LeaseInv'
  <2>1. CASE UNCHANGED leaseVars
    BY <2>1 DEF leaseVars, LeaseInv, LeaseTypeOK, GrantInv, WatchInv, Executing,
       Guarding, ProcessAlive
  <2>2. QED
    BY <2>1, StepKeepsInv
<1>3. QED
  BY <1>1, <1>2, PTL DEF LeaseSpec

\* The lease margin suffices (LeaseGuard and the watch loop of run_attempt): as
\* long as a process of the experiment lives, the server's lease has not
\* expired, for all intervals that ServerConfig::load accepts.
THEOREM LeaseOutlivesChild == LeaseSpec => []ChildDeadBeforeExpiry
<1>1. LeaseInv => ChildDeadBeforeExpiry
  BY TimingNat
  DEF LeaseInv, LeaseTypeOK, Rows, Runners, Heartbeats, Guards, Processes,
      GrantInv, WatchInv, Guarding, ProcessAlive, ChildDeadBeforeExpiry
<1>2. QED
  BY <1>1, LeaseInvariant, PTL

-----------------------------------------------------------------------------
(* How the attempt ends                                                    *)

\* What is recorded is what the runner reports to the end, and only after the
\* last process of the experiment is gone.
TellInv ==
  srv.outcome # {} => rn.phase \in {"complete", "done"} /\ srv.outcome = {Reported}

\* Serving anything but the completion leaves the outcome alone.
LEMMA ServeOutcome ==
  ASSUME LeaseTypeOK, NEW r \in Rpcs
  PROVE  \/ Serve(r)[2].outcome = srv.outcome
         \/ r = "complete" /\ Serve(r)[2].outcome = {Reported}
<1>0. srv \in Rows
  BY DEF LeaseTypeOK
<1>1. CASE r = "start"
  <2>1. Serve(r) = ServeStart
    BY <1>1 DEF Serve
  <2>2. CASE srv.status = "STARTING"
    <3> DEFINE stored == [srv EXCEPT !.status = "RUNNING", !.lease = now + Lease,
                                     !.deadline = now + TimeoutSeconds]
    <3>1. Serve(r) = <<"ok", stored>>
      BY <2>1, <2>2 DEF ServeStart
    <3>2. stored.outcome = srv.outcome
      BY <1>0 DEF Rows
    <3> HIDE DEF stored
    <3>3. QED
      BY <1>1, <3>1, <3>2
  <2>3. CASE srv.status # "STARTING"
    <3>1. Serve(r)[2] = srv
      BY <2>1, <2>3 DEF ServeStart
    <3>2. QED
      BY <3>1
  <2>4. QED
    BY <2>2, <2>3
<1>2. CASE r = "heartbeat"
  <2>1. Serve(r) = ServeHeartbeat
    BY <1>2 DEF Serve
  <2>2. CASE OwnedRow
    <3> DEFINE stored == [srv EXCEPT !.lease = now + Lease]
    <3>1. Serve(r) = <<"ok", stored>>
      BY <2>1, <2>2 DEF ServeHeartbeat
    <3>2. stored.outcome = srv.outcome
      BY <1>0 DEF Rows
    <3> HIDE DEF stored
    <3>3. QED
      BY <1>2, <3>1, <3>2
  <2>3. CASE ~OwnedRow
    <3>1. Serve(r)[2] = srv
      BY <2>1, <2>3 DEF ServeHeartbeat
    <3>2. QED
      BY <3>1
  <2>4. QED
    BY <2>2, <2>3
<1>3. CASE r = "finalize"
  <2>1. Serve(r) = ServeFinalize
    BY <1>3 DEF Serve
  <2>2. CASE OwnedRow /\ srv.status = "RUNNING"
    <3> DEFINE stored == [srv EXCEPT !.status = "FINALIZING",
                                     !.deadline = now + Finalization]
    <3>1. Serve(r) = <<"ok", stored>>
      BY <2>1, <2>2 DEF ServeFinalize
    <3>2. stored.outcome = srv.outcome
      BY <1>0 DEF Rows
    <3> HIDE DEF stored
    <3>3. QED
      BY <1>3, <3>1, <3>2
  <2>3. CASE ~(OwnedRow /\ srv.status = "RUNNING")
    <3>1. Serve(r)[2] = srv
      BY <2>1, <2>3 DEF ServeFinalize
    <3>2. QED
      BY <3>1
  <2>4. QED
    BY <2>2, <2>3
<1>4. CASE r = "complete"
  <2> DEFINE accepts == /\ srv.outcome = {} /\ OwnedRow
                        /\ Reported.code = 0 => srv.status = "FINALIZING"
  <2>1. Serve(r) = ServeComplete
    BY <1>4 DEF Serve
  <2>2. CASE accepts
    <3> DEFINE stored == [srv EXCEPT !.status = "ENDED", !.outcome = {Reported}]
    <3>1. Serve(r) = <<"ok", stored>>
      BY <2>1, <2>2 DEF ServeComplete
    <3>2. stored.outcome = {Reported}
      BY <1>0 DEF Rows
    <3> HIDE DEF stored
    <3>3. QED
      BY <1>4, <3>1, <3>2
  <2>3. CASE ~accepts
    <3>1. Serve(r)[2] = srv
      BY <2>1, <2>3 DEF ServeComplete
    <3>2. QED
      BY <3>1
  <2>4. QED
    BY <2>2, <2>3
<1>5. QED
  BY <1>1, <1>2, <1>3, <1>4 DEF Rpcs

\* Once something is recorded neither the reason nor the exit status changes.
LEMMA ReportStays ==
  ASSUME LeaseTypeOK, WatchInv, rn.phase \in {"complete", "done"}, LeaseNext
  PROVE  rn'.phase \in {"complete", "done"} /\ Reported' = Reported
<1>1. proc.leader \in {"none", "reaped"}
  BY DEF WatchInv
<1>2. CASE RunnerExits
  BY <1>1, <1>2 DEF RunnerExits, Reported, LeaseTypeOK, Runners
<1>3. CASE UNCHANGED <<rn, proc>>
  BY <1>3 DEF Reported
<1>4. CASE CallServe \/ CallRefused \/ Started \/ Launch \/ Watch \/ WatchThrows
           \/ Exited \/ Finalizing \/ Collect \/ Completed
  BY <1>2, <1>3, <1>4 DEF CallServe, CallRefused, Started, Launch, Watch, WatchThrows,
     Exited, Finalizing, Collect, Completed
<1>5. CASE CallLost
  <2>1. CASE RunnerExits
    BY <1>2, <2>1
  <2>2. CASE ~RunnerExits
    BY <1>5, <2>2 DEF CallLost, Reported, LeaseTypeOK, Runners
  <2>3. QED
    BY <2>1, <2>2
<1>6. CASE HeartbeatStep \/ ServerStep \/ Tick
  BY <1>3, <1>6 DEF HeartbeatStep, HeartbeatSend, HeartbeatServe, HeartbeatLost,
     HeartbeatDone, ServerStep, ServerRecovers, ServerCancels, ServeLate, Tick
<1>7. CASE ChildExits
  BY <1>1, <1>7 DEF ChildExits
<1>8. QED
  BY <1>4, <1>5, <1>6, <1>7 DEF LeaseNext, RunnerStep

LEMMA TellStep ==
  ASSUME LeaseInv, TellInv, [LeaseNext]_leaseVars
  PROVE  TellInv'
<1>0. LeaseTypeOK /\ WatchInv /\ srv \in Rows
  BY DEF LeaseInv, LeaseTypeOK
<1>1. CASE UNCHANGED leaseVars
  BY <1>1 DEF leaseVars, TellInv, Reported
<1>2. CASE LeaseNext /\ srv'.outcome = srv.outcome
  BY <1>0, <1>2, ReportStays DEF TellInv
<1>3. ASSUME LeaseNext, srv'.outcome # srv.outcome
      PROVE  TellInv'
  <2>1. ASSUME HeartbeatServe \/ ServeLate
        PROVE  FALSE
    <3>1. srv' = Serve("heartbeat")[2]
      BY <2>1 DEF HeartbeatServe, ServeLate
    <3>2. QED
      BY <1>0, <1>3, <3>1, ServeOutcome DEF Rpcs
  <2>2. ASSUME ServerRecovers \/ ServerCancels
        PROVE  FALSE
    BY <1>0, <1>3, <2>2 DEF ServerRecovers, ServerCancels, Rows
  <2>3. CASE CallServe
    <3>1. srv' = Serve(rn.phase)[2] /\ rn.phase \in Rpcs /\ UNCHANGED <<rn, proc>>
      BY <2>3 DEF CallServe, Rpcs
    <3>2. rn.phase = "complete" /\ srv'.outcome = {Reported}
      BY <1>0, <1>3, <3>1, ServeOutcome
    <3>3. Reported' = Reported
      BY <3>1 DEF Reported
    <3>4. QED
      BY <3>1, <3>2, <3>3 DEF TellInv
  <2>4. ASSUME ~CallServe, RunnerStep
        PROVE  FALSE
    BY <1>3, <2>4 DEF RunnerStep, CallLost, CallRefused, Started, Launch, Watch, WatchThrows,
       Exited, Finalizing, Collect, Completed, RunnerExits
  <2>5. ASSUME HeartbeatSend \/ HeartbeatLost \/ HeartbeatDone \/ ChildExits \/ Tick
        PROVE  FALSE
    BY <1>3, <2>5 DEF HeartbeatSend, HeartbeatLost, HeartbeatDone, ChildExits, Tick
  <2>6. QED
    BY <1>3, <2>1, <2>2, <2>3, <2>4, <2>5 DEF LeaseNext, HeartbeatStep, ServerStep
<1>4. QED
  BY <1>1, <1>2, <1>3

\* An attempt recorded as succeeded ended with exit status 0 and was not told
\* to stop, and whatever is recorded was recorded after its last process was
\* gone (the end of run_attempt).
THEOREM OutcomeIsTold == LeaseSpec => []OutcomeTold
<1>1. LeaseInit => TellInv
  BY DEF LeaseInit, TellInv
<1>2. LeaseInv /\ TellInv /\ [LeaseNext]_leaseVars => TellInv'
  BY TellStep
<1>3. LeaseInv /\ TellInv => OutcomeTold
  BY DEF LeaseInv, WatchInv, TellInv, OutcomeTold, Reported
<1>4. QED
  BY <1>1, <1>2, <1>3, LeaseInvariant, PTL DEF LeaseSpec

-----------------------------------------------------------------------------
(* Why the lease is given up                                               *)

\* The thread of LeaseGuard is on time, and as long as every heartbeat was
\* answered the lease counts from the last but one wake-up at the earliest.
BeatInv ==
  Guarding =>
    /\ now <= hb.at + (IF hb.state = "wait" THEN 0 ELSE RpcTimeout)
    /\ \/ hb.missed
       \/ guard.revoked
       \/ guard.until = Until(rn.sent)
       \/ hb.at + Lease <= guard.until + Margin + RpcTimeout + HeartbeatEvery

LEMMA BeatStep ==
  ASSUME LeaseInv, BeatInv, [LeaseNext]_leaseVars
  PROVE  BeatInv'
<1> USE TimingNat
<1>0. /\ LeaseTypeOK /\ now \in Nat /\ rn \in Runners /\ hb \in Heartbeats /\ guard \in Guards
      /\ RpcTimeout \in Nat
  BY LeaseTiming DEF LeaseInv, LeaseTypeOK
<1>1. CASE UNCHANGED <<now, rn, hb, guard>>
  BY <1>1 DEF BeatInv, Guarding, Until
<1>2. CASE RunnerExits
  BY <1>0, <1>2 DEF RunnerExits, BeatInv, Guarding, Runners
<1>3. CASE Started
  <2>1. now' = now /\ hb'.at = now + HeartbeatEvery /\ hb'.state = hb.state
    BY <1>0, <1>3 DEF Started, Heartbeats
  <2>2. guard'.until = Until(rn.sent) /\ rn'.sent = rn.sent
    BY <1>0, <1>3 DEF Started, Enter, Guards, Runners
  <2>3. guard'.until = Until(rn'.sent)
    BY <2>2
  <2>4. now' <= hb'.at + (IF hb'.state = "wait" THEN 0 ELSE RpcTimeout)
    BY <1>0, <2>1
  <2>5. QED
    BY <2>3, <2>4 DEF BeatInv, Until
<1>4. ASSUME UNCHANGED <<now, hb, guard>>, rn'.sent = rn.sent, Guarding' => Guarding
      PROVE  BeatInv'
  BY <1>4 DEF BeatInv, Until
<1>5. ASSUME NEW phase \in Phases, Enter(phase), UNCHANGED <<now, hb, guard>>, Guarding
      PROVE  BeatInv'
  <2>1. rn'.sent = rn.sent
    BY <1>0, <1>5 DEF Enter, Runners
  <2>2. QED
    BY <1>4, <1>5, <2>1
<1>6. CASE RunnerStep /\ ~Started /\ ~RunnerExits
  <2>1. CASE CallServe
    BY <1>1, <2>1 DEF CallServe
  <2>2. CASE CallLost
    <3>1. UNCHANGED <<now, hb, guard>> /\ rn' = [rn EXCEPT !.tries = @ + 1, !.seen = now]
      BY <1>6, <2>2 DEF CallLost
    <3>2. rn'.sent = rn.sent /\ rn'.phase = rn.phase
      BY <1>0, <3>1 DEF Runners
    <3>3. QED
      BY <1>4, <3>1, <3>2 DEF Guarding
  <2>3. CASE Watch
    <3>1. UNCHANGED <<now, hb, guard>> /\ rn.phase = "watch"
      BY <2>3 DEF Watch
    <3>2. rn'.sent = rn.sent
      BY <1>0, <2>3 DEF Watch, Runners
    <3>3. QED
      BY <1>4, <3>1, <3>2 DEF Guarding
  <2>4. CASE Launch
    BY <1>5, <1>6, <2>4 DEF Launch, Guarding, Phases
  <2>5. CASE Exited
    BY <1>5, <1>6, <2>5 DEF Exited, Guarding, Phases
  <2>6. CASE Finalizing
    BY <1>5, <2>6 DEF Finalizing, Guarding, Phases
  <2>7. CASE Collect
    BY <1>5, <1>6, <2>7 DEF Collect, Guarding, Phases
  <2>8. QED
    BY <1>6, <2>1, <2>2, <2>3, <2>4, <2>5, <2>6, <2>7
    DEF RunnerStep, CallRefused, WatchThrows, Completed
<1>7. CASE HeartbeatSend
  <2>1. /\ hb'.state = "sent" /\ hb'.at = now /\ hb'.missed = hb.missed
        /\ UNCHANGED <<now, rn, guard>> /\ hb.state = "wait" /\ now >= hb.at /\ Guarding
    BY <1>0, <1>7 DEF HeartbeatSend, Heartbeats
  <2>2. hb'.at = hb.at
    BY <1>0, <2>1 DEF BeatInv, Heartbeats
  <2>3. QED
    BY <1>0, <2>1, <2>2 DEF BeatInv, Guarding, Until, Heartbeats
<1>8. CASE HeartbeatServe
  <2>1. /\ hb'.state \in Answers /\ hb'.at = hb.at /\ hb'.missed = hb.missed
        /\ UNCHANGED <<now, rn, guard>> /\ hb.state = "sent"
    <3>1. Serve("heartbeat")[1] \in Answers
      BY <1>0, ServeFacts DEF Rpcs
    <3>2. QED
      BY <1>0, <1>8, <3>1 DEF HeartbeatServe, Heartbeats
  <2>2. hb'.state # "wait"
    BY <2>1 DEF Answers
  <2>3. QED
    BY <2>1, <2>2 DEF BeatInv, Guarding, Until
<1>9. CASE HeartbeatLost
  <2>1. /\ hb'.state = "wait" /\ hb'.at = now + HeartbeatEvery /\ hb'.missed
        /\ UNCHANGED <<now, rn, guard>>
    BY <1>9 DEF HeartbeatLost
  <2>2. QED
    BY <1>0, <2>1 DEF BeatInv
<1>10. CASE HeartbeatDone
  <2>1. /\ hb'.state = "wait" /\ hb'.at = now + HeartbeatEvery
        /\ UNCHANGED <<now, rn>> /\ hb.state \in Answers /\ Guarding
    BY <1>0, <1>10 DEF HeartbeatDone, Heartbeats
  <2>2. now <= hb.at + RpcTimeout
    BY <1>0, <2>1 DEF BeatInv, Answers
  <2>3. CASE hb.state = "ok"
    <3>1. guard'.until = hb.at + Lease - Margin
      BY <1>0, <1>10, <2>3 DEF HeartbeatDone, Until, Guards
    <3>2. hb.at \in Nat
      BY <1>0 DEF Heartbeats
    <3>3. hb'.at + Lease <= guard'.until + Margin + RpcTimeout + HeartbeatEvery
      BY <1>0, <2>1, <2>2, <3>1, <3>2
    <3>4. QED
      BY <1>0, <2>1, <3>3 DEF BeatInv
  <2>4. CASE hb.state # "ok"
    <3>1. guard'.revoked
      BY <1>0, <1>10, <2>4 DEF HeartbeatDone, Guards
    <3>2. QED
      BY <1>0, <2>1, <3>1 DEF BeatInv
  <2>5. QED
    BY <2>3, <2>4
<1>11. CASE Tick
  <2>1. /\ now' = now + 1 /\ UNCHANGED <<rn, hb, guard>>
        /\ Guarding => now < hb.at + (IF hb.state = "wait" THEN 0 ELSE RpcTimeout)
    BY <1>11 DEF Tick
  <2>2. QED
    BY <1>0, <2>1 DEF BeatInv, Guarding, Until, Heartbeats
<1>12. CASE ServerStep \/ ChildExits
  BY <1>1, <1>12 DEF ServerStep, ServerRecovers, ServerCancels, ServeLate, ChildExits
<1>13. UNCHANGED leaseVars => UNCHANGED <<now, rn, hb, guard>>
  BY DEF leaseVars
<1>14. QED
  BY <1>1, <1>2, <1>3, <1>6, <1>7, <1>8, <1>9, <1>10, <1>11, <1>12, <1>13
  DEF LeaseNext, HeartbeatStep

\* The lease leaves time for a heartbeat that is answered at the last moment
\* after one that was.
Comfortable == Margin + Grace + HeartbeatEvery + 2 * RpcTimeout < Lease

\* How an attempt ends is accounted for, and with intervals that leave time
\* for slow answers a lease is given up only for a cause (LeaseGuard and the
\* watch loop of run_attempt).
THEOREM LeaseIsAccounted ==
  ASSUME Comfortable
  PROVE  LeaseSpec => []LeaseAccounted
<1>1. LeaseInit => BeatInv
  BY DEF LeaseInit, BeatInv, Guarding
<1>2. LeaseInv /\ BeatInv /\ [LeaseNext]_leaseVars => BeatInv'
  BY BeatStep
<1>3. LeaseInv /\ BeatInv => LossHasCause
  <2> SUFFICES ASSUME LeaseInv, BeatInv, rn.phase = "watch", rn.reason = "none",
                      StopReason(FALSE) = "LEASE_LOST", ~guard.revoked, ~hb.missed,
                      guard.until # Until(rn.sent)
               PROVE  FALSE
    BY DEF LossHasCause
  <2>1. now + Grace >= guard.until
    BY DEF StopReason, NearExpiry
  <2>2. /\ now <= hb.at + RpcTimeout
        /\ hb.at + Lease <= guard.until + Margin + RpcTimeout + HeartbeatEvery
    <3>1. Guarding
      BY DEF Guarding
    <3>2. RpcTimeout \in Nat /\ hb.at \in Nat /\ now \in Nat
      BY LeaseTiming DEF LeaseInv, LeaseTypeOK, Heartbeats
    <3>3. QED
      BY <3>1, <3>2 DEF BeatInv
  <2>3. RpcTimeout \in Nat /\ hb.at \in Nat /\ now \in Nat /\ guard.until \in Nat
    BY LeaseTiming DEF LeaseInv, LeaseTypeOK, Heartbeats, Guards
  <2>4. QED
    BY <2>1, <2>2, <2>3, TimingNat DEF Comfortable
<1>4. QED
  BY <1>1, <1>2, <1>3, LeaseInvariant, OutcomeIsTold, PTL DEF LeaseSpec, LeaseAccounted
=============================================================================
