-------------------------- MODULE ArtifactPublication --------------------------
(***************************************************************************)
(* The artifacts of one attempt: the runner uploads its files one after    *)
(* another and repeats a failed upload (src/src/runner/client.cpp); every  *)
(* upload is a handler of the server that may outlive the call that started*)
(* it (AttemptRpc::Upload, ArtifactService::publish, the blob stores,      *)
(* PostgresStore::publish_artifact); readers download what was published   *)
(* through a cache.  A content stands for its checksum; "part" is what is  *)
(* left of a broken transfer and has the checksum of no content.           *)
(***************************************************************************)
EXTENDS Naturals, FiniteSets, FiniteSetsExt

CONSTANTS
  Paths,     \* the files the runner has to upload
  Contents,  \* what a file may hold
  ContentSize,    \* [Contents -> Nat], in units of the largest artifact, 256 MiB
  Quota,     \* 1 GiB per attempt
  MaxCount,  \* 1000 artifacts per attempt
  Handlers,  \* bound: upload handlers alive at the server
  Readers,   \* bound: concurrent downloads
  Faults,    \* pairs of a storage ("filesystem", "s3") and a crash it may meet:
             \* of the server's "process" or of its "host"
  UploadTries \* tries of an upload, 3

ASSUME ArtifactConstants ==
  /\ Contents # {} /\ "part" \notin Contents /\ "none" \notin Contents
  /\ "none" \notin Handlers
  /\ ContentSize \in [Contents -> Nat] /\ Quota \in Nat /\ MaxCount \in Nat
  /\ Faults \subseteq {"filesystem", "s3"} \X {"process", "host"}
  /\ UploadTries \in Nat \ {0}

VARIABLES
  attempt,  \* its status, and what was published when it ended
  rows,     \* the artifacts table: [Paths -> checksum or "none"]
  blobs,    \* [key -> what the object holds, or "none"]
  disk,     \* the storage, and which keys and directory the host's end spares
  up,       \* [Handlers -> the upload each works on]
  client,   \* the runner's upload loop
  cache,    \* downloads/: [Paths -> content, "part" or "none"]
  read      \* [Readers -> the download each works on]

artifactVars == <<attempt, rows, blobs, disk, up, client, cache, read>>

Keys == Paths \X Contents   \* attempt/sha256(path)-checksum
NoUpload == [pc |-> "idle", path |-> "none", sum |-> "none", data |-> "none",
             made |-> FALSE]
NoRead == [pc |-> "idle", path |-> "none", got |-> "none"]

\* The cache may hold what an earlier life of the server left there; a file
\* that is missing is treated like one with another checksum.
ArtifactInit ==
  /\ attempt = [status |-> "FINALIZING", final |-> {}]
  /\ rows = [p \in Paths |-> "none"]
  /\ blobs = [k \in Keys |-> "none"]
  /\ disk \in [storage: {f[1] : f \in Faults}, dir: {"none"}, keys: {{}}]
  /\ up = [h \in Handlers |-> NoUpload]
  /\ client = [phase |-> "next", acked |-> [p \in Paths |-> "none"],
               path |-> "none", sum |-> "none", tries |-> 0, at |-> "none"]
  /\ cache = [p \in Paths |-> "part"]
  /\ read = [r \in Readers |-> NoRead]

Published == {p \in Paths : rows[p] # "none"}
Stored == {k \in Keys : blobs[k] # "none"}
OwnedAttempt == attempt.status = "FINALIZING"

(***************************************************************************)
(* The runner: upload() and upload_once().                                 *)
(***************************************************************************)

\* The content is what the file holds when this try hashes it: a process that
\* left the child's group may still be writing.
UploadOnce(p, c, h) ==
  /\ client.phase = "next" /\ client.acked[p] = "none"
  /\ client.tries > 0 => p = client.path
  /\ up[h].pc = "idle"
  /\ up' = [up EXCEPT ![h] = [NoUpload EXCEPT !.pc = "open", !.path = p,
                                              !.sum = c]]
  /\ client' = [client EXCEPT !.phase = "waiting", !.path = p, !.sum = c,
                              !.at = h]
  /\ UNCHANGED <<attempt, rows, blobs, disk, cache, read>>

\* What an answer does to the loop: done with the file, again, or give up.
AnsweredAs(answer) ==
  CASE answer = "ok" -> [client EXCEPT !.phase = "next", !.at = "none",
                           !.acked[client.path] = client.sum, !.tries = 0]
    [] answer = "unavailable" /\ client.tries + 1 < UploadTries ->
         [client EXCEPT !.phase = "next", !.at = "none", !.tries = @ + 1]
    [] OTHER -> [client EXCEPT !.phase = "failed", !.at = "none"]

\* The call ends at its deadline or with its connection; the handler does not.
UploadLost ==
  /\ client.phase = "waiting"
  /\ client' = AnsweredAs("unavailable")
  /\ UNCHANGED <<attempt, rows, blobs, disk, up, cache, read>>

\* complete() once every file has been accepted.
CompleteAttempt ==
  /\ client.phase = "next" /\ OwnedAttempt
  /\ \A p \in Paths : client.acked[p] # "none"
  /\ client' = [client EXCEPT !.phase = "done"]
  /\ attempt' = [status |-> "ENDED", final |-> Published]
  /\ UNCHANGED <<rows, blobs, disk, up, cache, read>>

\* Expiry, cancellation or a deadline takes the attempt from the runner.
AttemptEnds ==
  /\ OwnedAttempt
  /\ attempt' = [status |-> "ENDED", final |-> Published]
  /\ UNCHANGED <<rows, blobs, disk, up, client, cache, read>>

(***************************************************************************)
(* The server: one upload.  Answer(h, a) ends it and tells the call, if    *)
(* that is still waiting.                                                  *)
(***************************************************************************)

At(h, pc) == up[h].pc = pc
Go(h, pc) == up' = [up EXCEPT ![h].pc = pc] /\ UNCHANGED client
Answer(h, answer) ==
  /\ up' = [up EXCEPT ![h] = NoUpload]
  /\ client' = IF client.at = h THEN AnsweredAs(answer) ELSE client
Key(h) == <<up[h].path, up[h].sum>>

\* Ownership is verified before the first byte is kept.
OpenUpload(h) ==
  /\ At(h, "open")
  /\ IF OwnedAttempt THEN Go(h, "staging") ELSE Answer(h, "stale")
  /\ UNCHANGED <<attempt, rows, blobs, disk, cache, read>>

\* Mutant: the staged file is not compared with its checksum.
AnyChecksum(h, data) == TRUE

\* The stream has ended, whole or not: cancellation, then checksum, size and
\* ownership are checked before anything is stored.
ChecksumMatches(h, data) == data = up[h].sum
StagingEnds(h, data, cancelled) ==
  /\ At(h, "staging")
  /\ cancelled => data = "part"
  /\ CASE cancelled -> Answer(h, "unavailable")
       [] ~cancelled /\ ~ChecksumMatches(h, data) -> Answer(h, "invalid")
       [] ~cancelled /\ ChecksumMatches(h, data) /\ ~OwnedAttempt ->
            Answer(h, "stale")
       [] OTHER -> /\ up' = [up EXCEPT ![h].pc = "put", ![h].data = data]
                   /\ UNCHANGED client
  /\ UNCHANGED <<attempt, rows, blobs, disk, cache, read>>

\* atomic_copy: find the missing directories and create them, ...
MakeDirectory(h) ==
  /\ disk.storage = "filesystem" /\ At(h, "put")
  /\ up' = [up EXCEPT ![h].pc = "copy", ![h].made = disk.dir = "none"]
  /\ disk' = [disk EXCEPT !.dir = IF @ = "none" THEN "made" ELSE @]
  /\ UNCHANGED <<attempt, rows, blobs, client, cache, read>>

\* ... copy, synchronize and rename the file, ...
RenameBlob(h) ==
  /\ At(h, "copy")
  /\ blobs' = [blobs EXCEPT ![Key(h)] = up[h].data]
  /\ Go(h, "renamed")
  /\ UNCHANGED <<attempt, rows, disk, cache, read>>

\* ... synchronize its directory, and the ones created above.
SyncDirectories(h) ==
  /\ At(h, "renamed")
  /\ disk' = [disk EXCEPT !.dir = IF up[h].made THEN "durable" ELSE @,
                          !.keys = Stored]
  /\ Go(h, "publish")
  /\ UNCHANGED <<attempt, rows, blobs, cache, read>>

\* The disk may fail any of these steps: the temporary file goes, the
\* directories stay.
StorageFails(h) ==
  /\ \/ At(h, "copy")
     \/ At(h, "renamed")
     \/ At(h, "put") /\ disk.storage = "s3"
  /\ Answer(h, "unavailable")
  /\ UNCHANGED <<attempt, rows, blobs, disk, cache, read>>

\* PutObject: the object may be stored although the call fails.
PutObject(h, reported) ==
  /\ disk.storage = "s3" /\ At(h, "put")
  /\ blobs' = [blobs EXCEPT ![Key(h)] = up[h].data]
  /\ disk' = [disk EXCEPT !.dir = "durable", !.keys = @ \union {Key(h)}]
  /\ IF reported THEN Go(h, "publish") ELSE Answer(h, "unavailable")
  /\ UNCHANGED <<attempt, rows, cache, read>>

\* Mutant: ownership is not looked at again.
OwnedOnceWas == TRUE

\* publish_artifact: ownership again, under the lock of the run's row; a path
\* keeps its content; the attempt its quota.
StillOwned == OwnedAttempt
WithinQuota(c) ==
  /\ MapThenSumSet(LAMBDA p : ContentSize[rows[p]], Published) + ContentSize[c] <= Quota
  /\ Cardinality(Published) < MaxCount
PublishAnswer(p, c) ==
  IF ~StillOwned THEN "stale"
  ELSE IF rows[p] \notin {"none", c} THEN "conflict"
  ELSE IF rows[p] = "none" /\ ~WithinQuota(c)
       THEN "unavailable"   \* RESOURCE_EXHAUSTED, as check_rpc takes it
       ELSE "ok"
PublishArtifact(h) ==
  LET p == up[h].path
      c == up[h].sum
  IN /\ At(h, "publish")
     /\ IF StillOwned /\ rows[p] = "none" /\ WithinQuota(c)
        THEN rows' = [rows EXCEPT ![p] = c]
        ELSE UNCHANGED rows
     /\ Answer(h, PublishAnswer(p, c))
     /\ UNCHANGED <<attempt, blobs, disk, cache, read>>

\* The server's process ends: its handlers with it.  If the host ends too, an
\* entry whose directory was not synchronized may be gone.
ServerCrash(lost) ==
  /\ lost \subseteq Stored
  /\ \/ /\ <<disk.storage, "process">> \in Faults
        /\ lost = {} /\ UNCHANGED disk
     \/ /\ <<disk.storage, "host">> \in Faults
        /\ disk.dir = "made" /\ lost = Stored
        /\ disk' = [disk EXCEPT !.dir = "none", !.keys = {}]
     \/ /\ <<disk.storage, "host">> \in Faults
        /\ disk.dir # "none" /\ lost \intersect disk.keys = {}
        /\ disk' = [disk EXCEPT !.dir = "durable", !.keys = Stored \ lost]
  /\ blobs' = [k \in Keys |-> IF k \in lost THEN "none" ELSE blobs[k]]
  /\ up' = [h \in Handlers |-> NoUpload]
  /\ client' = IF client.phase = "waiting" THEN AnsweredAs("unavailable")
                                           ELSE client
  /\ read' = [r \in Readers |-> NoRead]
  /\ UNCHANGED <<attempt, rows, cache>>

(***************************************************************************)
(* ArtifactService::download.                                              *)
(***************************************************************************)

\* A cached file is used when it has the published checksum.
LookUp(r, p) ==
  /\ read[r].pc = "idle" /\ rows[p] # "none"
  /\ read' = [read EXCEPT ![r] =
                [pc |-> IF cache[p] = rows[p] THEN "serve" ELSE "fetch",
                 path |-> p, got |-> "none"]]
  /\ UNCHANGED <<attempt, rows, blobs, disk, up, client, cache>>

\* The object arrives, whole or not, in a file of this download; only when it
\* has the published checksum does it take its name in the cache.
Verified(r, data) == data = rows[read[r].path]
Fetch(r, data) ==
  LET p == read[r].path
  IN /\ read[r].pc = "fetch" /\ data \in {blobs[<<p, rows[p]>>], "part"}
     /\ IF data # "none" /\ Verified(r, data)
        THEN /\ cache' = [cache EXCEPT ![p] = data]
             /\ read' = [read EXCEPT ![r].pc = "serve"]
        ELSE /\ read' = [read EXCEPT ![r] = NoRead]
             /\ UNCHANGED cache
     /\ UNCHANGED <<attempt, rows, blobs, disk, up, client>>

\* The response is streamed from the cached file.
ServeFile(r) ==
  /\ read[r].pc = "serve"
  /\ read' = [read EXCEPT ![r].pc = "served", ![r].got = cache[read[r].path]]
  /\ UNCHANGED <<attempt, rows, blobs, disk, up, client, cache>>

ArtifactNext ==
  \/ \E p \in Paths, c \in Contents, h \in Handlers : UploadOnce(p, c, h)
  \/ UploadLost \/ CompleteAttempt \/ AttemptEnds
  \/ \E h \in Handlers :
       \/ OpenUpload(h)
       \/ \E data \in {up[h].sum, "part"}, cancelled \in BOOLEAN :
            StagingEnds(h, data, cancelled)
       \/ MakeDirectory(h) \/ RenameBlob(h) \/ SyncDirectories(h)
       \/ StorageFails(h)
       \/ \E reported \in BOOLEAN : PutObject(h, reported)
       \/ PublishArtifact(h)
  \/ \E lost \in SUBSET Keys : ServerCrash(lost)
  \/ \E r \in Readers :
       \/ \E p \in Paths : LookUp(r, p)
       \/ \E data \in Contents \union {"none", "part"} : Fetch(r, data)
       \/ ServeFile(r)

ArtifactSpec == ArtifactInit /\ [][ArtifactNext]_artifactVars

(***************************************************************************)
(* Properties.                                                             *)
(***************************************************************************)

\* Whatever was interrupted or repeated, a published artifact's object is there
\* and whole (docs/STORAGE.md: an interrupted upload "cannot publish a partial
\* file"; storage is synchronized "before committing metadata").
PublishedIsStored == \A p \in Published : blobs[<<p, rows[p]>>] = rows[p]

\* An upload that was under way when the attempt ended adds nothing to its
\* results, however late its object is stored.
ResultsFrozen == attempt.status = "ENDED" => Published = attempt.final

\* An upload the runner was told has succeeded is published with the content
\* it hashed for that try, whatever became of its earlier tries.
AcceptedIsPublished ==
  \A p \in Paths : client.acked[p] # "none" => rows[p] = client.acked[p]

\* A download only ever serves what was published, also while another one
\* replaces the cached file from a damaged transfer.
ServedIsPublished ==
  \A r \in Readers : read[r].pc = "served" => read[r].got = rows[read[r].path]

\* Results are what they are said to be: frozen with the attempt, published as
\* acknowledged, served as published.
ResultsHonest == ResultsFrozen /\ AcceptedIsPublished /\ ServedIsPublished

=============================================================================
