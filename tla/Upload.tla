------------------------------- MODULE Upload -------------------------------
(***************************************************************************)
(* PUT /lfs/<repo>/objects/<oid>: the upload handler of the daemon         *)
(* (handle_upload and upload_chunked in daemon.rs) with everything it      *)
(* shares with the other handlers that run at the same time: the directory *)
(* .blossom-lfs-tmp of the repository and the Blossom server.              *)
(*                                                                         *)
(* One action per stretch of a handler between two awaits.  A handler      *)
(* spools the request body into a temporary file whose name depends only   *)
(* on the oid, cuts the file into chunks when it is larger than ChunkSize, *)
(* stores chunks and a manifest of them, then stores the whole file, which *)
(* is the blob the oid names, and removes the temporary file.              *)
(*                                                                         *)
(* Data.  File contents are sequences over Units; SHA-256 is taken to be   *)
(* injective, so a blob stands for its own hash, and Body[r], the content  *)
(* that hashes to the oid of request r, stands for that oid.  The server   *)
(* is external: a growing set of blobs, each filed under its own hash.     *)
(***************************************************************************)
EXTENDS Integers, Sequences

CONSTANTS
  Requests,   \* PUT requests; each runs one handler
  Units,      \* the units that bodies are made of; a body frame is one unit
  Hole,       \* what a sparse region of a file reads as (zero bytes)
  NoFile,     \* "no such directory entry"
  Body,       \* Body[r]: the content that the client of r sends
  TmpName,    \* TmpName[r]: the path "<repo>/.blossom-lfs-tmp/upload-<oid[..16]>"
  ChunkSize,  \* config.chunk_size
  Faults      \* the kinds of failure the environment may inject

FaultKinds == {
  "disk",        \* a file operation fails and the handler is told
  "unlink",      \* remove_file fails and the handler drops the error
  "silent_disk", \* a write or the last read fails and the handler drops the error
  "net",         \* a call to the server fails, applied or not
  "body",        \* the request body ends with an error
  "cancel",      \* the client hangs up and the handler future is dropped
  "late",        \* the same, with a file operation left in tokio's blocking pool
  "crash"}       \* the daemon process dies

Data == Seq(Units \cup {Hole})

ASSUME ConstantsAssumption ==
  /\ ChunkSize \in Nat \ {0}
  /\ Body \in [Requests -> Seq(Units)]
  /\ NoFile \notin Requests
  /\ Faults \subseteq FaultKinds

VARIABLES
  store,    \* blobs on the Blossom server
  dirent,   \* temporary directory: path -> inode, an inode is named by its creator
  inode,    \* contents of the inodes
  pc,       \* where each handler is
  resp,     \* what its client got
  fd,       \* the open file of the spooling loop
  sent,     \* frames of the body consumed so far
  lost,     \* a buffered write failed and nobody has been told yet
  size,     \* file_size: length of the file at the metadata call
  extent,   \* length of the file when chunk_file cut it
  hashes,   \* chunk_hashes
  buf,      \* data read from the file and not yet sent to the server
  \* History, which no step depends on:
  opener,   \* path -> the handler that was the last to open it with File::create
  unremoved \* handlers that could not remove the file at their path

history   == <<opener, unremoved>>
fileVars  == <<dirent, inode, history>>
spoolVars == <<fd, sent, lost>>
chunkVars == <<size, extent, hashes, buf>>
vars == <<store, fileVars, pc, resp, spoolVars, chunkVars>>

\* Dropped, with the operation named still to be done.
LateLabels == {"creating", "writing", "removing"}

Labels == {"idle", "body", "stat", "plan", "read", "put", "manifest",
           "check", "blob", "send", "finish", "done"} \cup LateLabels

Responses == {"none",      \* no answer yet
              "ok",        \* 200 with the oid and the size
              "error",     \* 500 after the handler started working
              "rejected",  \* 400 or 500 before it touched anything
              "gone"}      \* the connection died: hang-up, panic or crash

-----------------------------------------------------------------------------
(* Blobs *)

RawBlob(d) == [kind |-> "raw", data |-> d]

\* The manifest of upload_chunked; its Merkle root is a function of the
\* hashes, and its blob is filed under the hash of the JSON, not under the oid.
ManifestBlob(n, hs) == [kind |-> "manifest", file_size |-> n, chunk_hashes |-> hs]

Blobs == [kind : {"raw"}, data : Data]
           \cup [kind : {"manifest"}, file_size : Nat, chunk_hashes : Seq(Data)]

(* Files *)

Smaller(m, n) == IF m < n THEN m ELSE n
Larger(m, n)  == IF m < n THEN n ELSE m

\* A unit written at position p of a file: a write past the end of a file that
\* somebody truncated leaves a hole.
WriteAt(f, p, u) ==
  [i \in 1 .. Larger(Len(f), p) |->
     IF i = p THEN u ELSE IF i <= Len(f) THEN f[i] ELSE Hole]

Exists(r) == dirent[TmpName[r]] # NoFile

\* The file that the path of r names now, which is not always the one r spooled.
FileAt(r) == inode[dirent[TmpName[r]]]

Unlinked(r) == [dirent EXCEPT ![TmpName[r]] = NoFile]

\* The next chunk of upload_chunked: units NextFrom(r) .. NextTo(r) of the file.
NextFrom(r) == Len(hashes[r]) * ChunkSize + 1
NextTo(r)   == Smaller((Len(hashes[r]) + 1) * ChunkSize, extent[r])

-----------------------------------------------------------------------------
Init ==
  /\ store = {}
  /\ dirent = [p \in {TmpName[r] : r \in Requests} |-> NoFile]
  /\ inode = [r \in Requests |-> <<>>]
  /\ pc = [r \in Requests |-> "idle"]
  /\ resp = [r \in Requests |-> "none"]
  /\ fd = [r \in Requests |-> NoFile]
  /\ sent = [r \in Requests |-> 0]
  /\ lost = [r \in Requests |-> FALSE]
  /\ size = [r \in Requests |-> 0]
  /\ extent = [r \in Requests |-> 0]
  /\ hashes = [r \in Requests |-> <<>>]
  /\ buf = [r \in Requests |-> <<>>]
  /\ opener = [p \in {TmpName[r] : r \in Requests} |-> NoFile]
  /\ unremoved = {}

InFlight(r) == pc[r] \notin {"idle", "done"} \cup LateLabels

Goto(r, l) == pc' = [pc EXCEPT ![r] = l]

Answer(r, a) ==
  /\ pc' = [pc EXCEPT ![r] = "done"]
  /\ resp' = [resp EXCEPT ![r] = a]

\* The client hangs up while the handler awaits a file operation.
Abandon(r, l) ==
  /\ "late" \in Faults
  /\ pc' = [pc EXCEPT ![r] = l]
  /\ resp' = [resp EXCEPT ![r] = "gone"]

\* remove_file(tmp_file): its error is dropped with ok(), and the file stays.
Unlink(r) ==
  /\ \/ dirent' = Unlinked(r) /\ UNCHANGED unremoved
     \/ /\ "unlink" \in Faults
        /\ Exists(r)
        /\ unremoved' = unremoved \cup {r}
        /\ UNCHANGED dirent
  /\ UNCHANGED opener

\* remove_file(tmp_file).await, then the answer, whether it was removed or not.
RemoveFile(r, a) ==
  \/ Answer(r, a) /\ Unlink(r)
  \/ Abandon(r, "removing") /\ UNCHANGED <<dirent, history>>

\* Every error path after the spooling loop was entered: remove_file(tmp_file),
\* whoever owns that path by now, and a 500.
Fail(r) ==
  /\ RemoveFile(r, "error")
  /\ UNCHANGED <<inode, spoolVars, chunkVars>>

\* Bad path, bad configuration, no private key or a zero chunk size.
Reject(r) ==
  /\ pc[r] = "idle"
  /\ Answer(r, "rejected")
  /\ UNCHANGED <<store, fileVars, spoolVars, chunkVars>>

\* Mutant: the file is created but the handle is never kept.
CreateFileNoHandle(r) ==
  /\ pc[r] = "idle"
  /\ LET i == IF Exists(r) THEN dirent[TmpName[r]] ELSE r IN
       /\ dirent' = [dirent EXCEPT ![TmpName[r]] = i]
       /\ inode' = [inode EXCEPT ![i] = <<>>]
  /\ opener' = [opener EXCEPT ![TmpName[r]] = r]
  /\ Goto(r, "body")
  /\ UNCHANGED <<store, unremoved, resp, spoolVars, chunkVars>>

\* File::create truncates the inode that the path already names, or makes one.
CreateFile(r) ==
  /\ pc[r] = "idle"
  /\ LET i == IF Exists(r) THEN dirent[TmpName[r]] ELSE r IN
       /\ dirent' = [dirent EXCEPT ![TmpName[r]] = i]
       /\ inode' = [inode EXCEPT ![i] = <<>>]
       /\ fd' = [fd EXCEPT ![r] = i]
  /\ opener' = [opener EXCEPT ![TmpName[r]] = r]
  /\ Goto(r, "body")
  /\ UNCHANGED <<store, unremoved, resp, sent, lost, chunkVars>>

\* File::create fails and the unwrap() panics: no answer, no file.
CreatePanics(r) ==
  /\ pc[r] = "idle"
  /\ "disk" \in Faults
  /\ Answer(r, "gone")
  /\ UNCHANGED <<store, fileVars, spoolVars, chunkVars>>

\* Dropped while it awaits File::create, or write_all.
CreateDropped(r) ==
  /\ pc[r] = "idle"
  /\ Abandon(r, "creating")
  /\ UNCHANGED <<store, fileVars, spoolVars, chunkVars>>

WriteDropped(r) ==
  /\ pc[r] = "body"
  /\ sent[r] < Len(Body[r])
  /\ ~lost[r]
  /\ Abandon(r, "writing")
  /\ UNCHANGED <<store, fileVars, spoolVars, chunkVars>>

\* One turn of the spooling loop: the next frame goes to the open file, at this
\* handler's own position.
WriteFrame(r) ==
  /\ pc[r] = "body"
  /\ sent[r] < Len(Body[r])
  /\ ~lost[r]
  /\ sent' = [sent EXCEPT ![r] = @ + 1]
  /\ inode' = [inode EXCEPT ![fd[r]] = WriteAt(@, sent[r] + 1, Body[r][sent[r] + 1])]
  /\ UNCHANGED <<store, dirent, history, pc, resp, fd, lost, chunkVars>>

\* tokio's File buffers: write_all returned Ok, the write behind it fails later.
LoseFrame(r) ==
  /\ pc[r] = "body"
  /\ "silent_disk" \in Faults
  /\ sent[r] < Len(Body[r])
  /\ ~lost[r]
  /\ sent' = [sent EXCEPT ![r] = @ + 1]
  /\ lost' = [lost EXCEPT ![r] = TRUE]
  /\ UNCHANGED <<store, fileVars, pc, resp, fd, chunkVars>>

\* The error of an earlier write surfaces at the next write_all, or this one fails.
WriteFails(r) ==
  /\ pc[r] = "body"
  /\ sent[r] < Len(Body[r])
  /\ lost[r] \/ "disk" \in Faults
  /\ Fail(r)
  /\ UNCHANGED store

\* The stream ends: because the body is complete, or with an error, which
\* unwrap_or_default turns into an empty frame.  flush().await.ok() forgets the
\* error of a lost last write.
EndBody(r) ==
  /\ pc[r] = "body"
  /\ sent[r] = Len(Body[r]) \/ "body" \in Faults
  /\ Goto(r, "stat")
  /\ UNCHANGED <<store, fileVars, resp, spoolVars, chunkVars>>

-----------------------------------------------------------------------------
(* After the body: every access to the file goes through the path again. *)

\* metadata(&tmp_file), and the decision to chunk.
Stat(r) ==
  /\ pc[r] = "stat"
  /\ Exists(r)
  /\ size' = [size EXCEPT ![r] = Len(FileAt(r))]
  /\ Goto(r, IF Len(FileAt(r)) > ChunkSize THEN "plan" ELSE "check")
  /\ UNCHANGED <<store, fileVars, resp, spoolVars, extent, hashes, buf>>

\* Mutant: a file that another handler removed is waited for.
StatFailsOnDisk(r) ==
  /\ pc[r] = "stat"
  /\ "disk" \in Faults
  /\ Fail(r)
  /\ UNCHANGED store

StatFails(r) ==
  /\ pc[r] = "stat"
  /\ ~Exists(r) \/ "disk" \in Faults
  /\ Fail(r)
  /\ UNCHANGED store

\* chunk_file: only the offsets and sizes of the chunks are used.
ChunkFile(r) ==
  /\ pc[r] = "plan"
  /\ Exists(r)
  /\ extent' = [extent EXCEPT ![r] = Len(FileAt(r))]
  /\ Goto(r, IF FileAt(r) = <<>> THEN "manifest" ELSE "read")
  /\ UNCHANGED <<store, fileVars, resp, spoolVars, size, hashes, buf>>

ChunkFileFails(r) ==
  /\ pc[r] = "plan"
  /\ ~Exists(r) \/ "disk" \in Faults
  /\ Fail(r)
  /\ UNCHANGED store

ChunkReadable(r) == Exists(r) /\ NextTo(r) <= Len(FileAt(r))

\* read_chunk opens the path again and reads exactly the planned range.
ReadChunk(r) ==
  /\ pc[r] = "read"
  /\ ChunkReadable(r)
  /\ buf' = [buf EXCEPT ![r] = SubSeq(FileAt(r), NextFrom(r), NextTo(r))]
  /\ Goto(r, "put")
  /\ UNCHANGED <<store, fileVars, resp, spoolVars, size, extent, hashes>>

ReadChunkFails(r) ==
  /\ pc[r] = "read"
  /\ ~ChunkReadable(r) \/ "disk" \in Faults
  /\ Fail(r)
  /\ UNCHANGED store

\* Mutant: exists(chunk).unwrap_or(true), the hash is pushed without the chunk.
PutChunkAssumed(r) ==
  /\ pc[r] = "put"
  /\ store' \in {store \cup {RawBlob(buf[r])}} \cup (IF "net" \in Faults THEN {store} ELSE {})
  /\ hashes' = [hashes EXCEPT ![r] = Append(@, buf[r])]
  /\ Goto(r, IF (Len(hashes[r]) + 1) * ChunkSize < extent[r] THEN "read" ELSE "manifest")
  /\ UNCHANGED <<fileVars, resp, spoolVars, size, extent, buf>>

\* Mutant: the newest hash goes to the front.
PutChunkReversed(r) ==
  /\ pc[r] = "put"
  /\ store' = store \cup {RawBlob(buf[r])}
  /\ hashes' = [hashes EXCEPT ![r] = <<buf[r]>> \o @]
  /\ Goto(r, IF (Len(hashes[r]) + 1) * ChunkSize < extent[r] THEN "read" ELSE "manifest")
  /\ UNCHANGED <<fileVars, resp, spoolVars, size, extent, buf>>

\* exists(chunk) and, unless it says yes, upload(chunk); then push the hash.
PutChunk(r) ==
  /\ pc[r] = "put"
  /\ store' = store \cup {RawBlob(buf[r])}
  /\ hashes' = [hashes EXCEPT ![r] = Append(@, buf[r])]
  /\ Goto(r, IF (Len(hashes[r]) + 1) * ChunkSize < extent[r] THEN "read" ELSE "manifest")
  /\ UNCHANGED <<fileVars, resp, spoolVars, size, extent, buf>>

\* Manifest::new and its upload.  Without chunks there is no Merkle tree and
\* Manifest::new fails.
PutManifest(r) ==
  /\ pc[r] = "manifest"
  /\ hashes[r] # <<>>
  /\ store' = store \cup {ManifestBlob(size[r], hashes[r])}
  /\ Goto(r, "check")
  /\ UNCHANGED <<fileVars, resp, spoolVars, chunkVars>>

ManifestFails(r) ==
  /\ pc[r] = "manifest"
  /\ hashes[r] = <<>>
  /\ Fail(r)
  /\ UNCHANGED store

\* Mutant: exists(oid).unwrap_or(true).
CheckExistsAssumed(r) ==
  /\ pc[r] = "check"
  /\ \/ (RawBlob(Body[r]) \in store \/ "net" \in Faults) /\ Goto(r, "finish")
     \/ RawBlob(Body[r]) \notin store /\ Goto(r, "blob")
  /\ UNCHANGED <<store, fileVars, resp, spoolVars, chunkVars>>

\* exists(oid).unwrap_or(false): a failed question counts as "not there".
CheckExists(r) ==
  /\ pc[r] = "check"
  /\ \/ RawBlob(Body[r]) \in store /\ Goto(r, "finish")
     \/ (RawBlob(Body[r]) \notin store \/ "net" \in Faults) /\ Goto(r, "blob")
  /\ UNCHANGED <<store, fileVars, resp, spoolVars, chunkVars>>

\* std::fs::read(&tmp_file).unwrap_or_default(): a file that is gone is empty.
ReadBlob(r) ==
  /\ pc[r] = "blob"
  /\ \/ Exists(r) /\ buf' = [buf EXCEPT ![r] = FileAt(r)]
     \/ (~Exists(r) \/ "silent_disk" \in Faults) /\ buf' = [buf EXCEPT ![r] = <<>>]
  /\ Goto(r, "send")
  /\ UNCHANGED <<store, fileVars, resp, spoolVars, size, extent, hashes>>

\* upload_lfs: the server files the data under its own hash.
PutBlob(r) ==
  /\ pc[r] = "send"
  /\ store' = store \cup {RawBlob(buf[r])}
  /\ Goto(r, "finish")
  /\ UNCHANGED <<fileVars, resp, spoolVars, chunkVars>>

\* What the handler is about to store, by label.
Outgoing(r) ==
  IF pc[r] = "manifest" THEN ManifestBlob(size[r], hashes[r]) ELSE RawBlob(buf[r])

\* Mutant: the result of the final upload is ignored.
PutFailsIgnored(r) ==
  /\ "net" \in Faults
  /\ pc[r] = "send"
  /\ Goto(r, "finish")
  /\ UNCHANGED <<store, fileVars, resp, spoolVars, chunkVars>>

\* An upload call fails: the server may have stored the blob all the same.
PutFails(r) ==
  /\ "net" \in Faults
  /\ pc[r] \in {"put", "send"} \/ (pc[r] = "manifest" /\ hashes[r] # <<>>)
  /\ store' \in {store, store \cup {Outgoing(r)}}
  /\ Fail(r)

\* Mutant: the temporary file is not removed.
FinishKeepsFile(r) ==
  /\ pc[r] = "finish"
  /\ Answer(r, "ok")
  /\ UNCHANGED <<store, fileVars, spoolVars, chunkVars>>

Finish(r) ==
  /\ pc[r] = "finish"
  /\ RemoveFile(r, "ok")
  /\ UNCHANGED <<store, inode, spoolVars, chunkVars>>

-----------------------------------------------------------------------------
\* The client hangs up: the future is dropped where it stands, between two file
\* operations or in one that never starts, so the temporary file stays.
Cancel(r) ==
  /\ "cancel" \in Faults
  /\ InFlight(r)
  /\ Answer(r, "gone")
  /\ UNCHANGED <<store, fileVars, spoolVars, chunkVars>>

\* The operation that a dropped handler has left behind runs, whoever works on
\* the path or on the inode by now.
LateCreate(r) ==
  /\ pc[r] = "creating"
  /\ LET i == IF Exists(r) THEN dirent[TmpName[r]] ELSE r IN
       /\ dirent' = [dirent EXCEPT ![TmpName[r]] = i]
       /\ inode' = [inode EXCEPT ![i] = <<>>]
  /\ opener' = [opener EXCEPT ![TmpName[r]] = r]
  /\ Goto(r, "done")
  /\ UNCHANGED <<store, unremoved, resp, spoolVars, chunkVars>>

LateWrite(r) ==
  /\ pc[r] = "writing" /\ sent[r] < Len(Body[r])
  /\ inode' = [inode EXCEPT ![fd[r]] = WriteAt(@, sent[r] + 1, Body[r][sent[r] + 1])]
  /\ Goto(r, "done")
  /\ UNCHANGED <<store, dirent, history, resp, spoolVars, chunkVars>>

LateRemove(r) ==
  /\ pc[r] = "removing"
  /\ Unlink(r)
  /\ Goto(r, "done")
  /\ UNCHANGED <<store, inode, resp, spoolVars, chunkVars>>

\* The daemon dies with all its handlers and what they left in the pool; files
\* and server survive.
Crash ==
  /\ "crash" \in Faults
  /\ \E r \in Requests : InFlight(r)
  /\ pc' = [r \in Requests |-> IF pc[r] = "idle" THEN "idle" ELSE "done"]
  /\ resp' = [r \in Requests |-> IF InFlight(r) THEN "gone" ELSE resp[r]]
  /\ UNCHANGED <<store, fileVars, spoolVars, chunkVars>>

Start(r) == Reject(r) \/ CreateFile(r) \/ CreateDropped(r) \/ CreatePanics(r)

Spool(r) == WriteFrame(r) \/ LoseFrame(r) \/ WriteDropped(r) \/ WriteFails(r) \/ EndBody(r)

\* What the handler does on its own once the body is in the file.
Work(r) ==
  \/ Stat(r)        \/ StatFails(r)
  \/ ChunkFile(r)   \/ ChunkFileFails(r)
  \/ ReadChunk(r)   \/ ReadChunkFails(r)
  \/ PutChunk(r)
  \/ PutManifest(r) \/ ManifestFails(r)
  \/ CheckExists(r)
  \/ ReadBlob(r)
  \/ PutBlob(r)     \/ PutFails(r)
  \/ Finish(r)

\* The pool and the connection.
Drop(r) == Cancel(r) \/ LateCreate(r) \/ LateWrite(r) \/ LateRemove(r)

Next ==
  \/ \E r \in Requests : Start(r) \/ Spool(r) \/ Work(r) \/ Drop(r)
  \/ Crash

Spec == Init /\ [][Next]_vars

\* What one git-lfs process does: it never has two uploads of one oid in
\* flight, although it may retry one that failed or was cut off.
Alone(r) == \A s \in Requests : InFlight(s) => TmpName[s] # TmpName[r]

StartAlone(r) ==
  \/ Reject(r) \/ CreatePanics(r)
  \/ Alone(r) /\ (CreateFile(r) \/ CreateDropped(r))

ExclusiveNext ==
  \/ \E r \in Requests : StartAlone(r) \/ Spool(r) \/ Work(r) \/ Drop(r)
  \/ Crash

ExclusiveSpec == Init /\ [][ExclusiveNext]_vars

\* Once the body is in, the handler waits only for local files and for calls
\* with a timeout (make_transport), so it always takes its next step.  Nothing
\* is assumed about the client: a body may take for ever.
FairSpec == Spec /\ \A r \in Requests : WF_vars(Work(r))

-----------------------------------------------------------------------------
(* Properties *)

\* Every variable has its type.
TypeOK ==
  /\ store \subseteq Blobs
  /\ dirent \in [{TmpName[r] : r \in Requests} -> Requests \cup {NoFile}]
  /\ inode \in [Requests -> Data]
  /\ pc \in [Requests -> Labels]
  /\ resp \in [Requests -> Responses]
  /\ fd \in [Requests -> Requests \cup {NoFile}]
  /\ \A r \in Requests : pc[r] \in {"body", "writing"} => fd[r] # NoFile
  /\ \A r \in Requests : pc[r] \in LateLabels => "late" \in Faults
  /\ sent \in [Requests -> Nat]
  /\ lost \in [Requests -> BOOLEAN]
  /\ size \in [Requests -> Nat]
  /\ extent \in [Requests -> Nat]
  /\ hashes \in [Requests -> Seq(Data)]
  /\ buf \in [Requests -> Data]
  /\ opener \in [{TmpName[r] : r \in Requests} -> Requests \cup {NoFile}]
  /\ unremoved \subseteq Requests

Manifests == {b \in store : b.kind = "manifest"}

\* Every chunk that a manifest on the server names is on the server, at any
\* moment and whatever fails or races: upload_chunked stores each chunk before
\* its hash goes into the manifest (daemon.rs:668-698).
ManifestClosed ==
  \A b \in Manifests : \A i \in DOMAIN b.chunk_hashes : RawBlob(b.chunk_hashes[i]) \in store

\* The client sent its whole body and was told 200.
Accepted(r) == resp[r] = "ok" /\ sent[r] = Len(Body[r])

\* A 200 means the content of the oid is on the server (daemon.rs:627-657).
OkImpliesStored == \A r \in Requests : Accepted(r) => RawBlob(Body[r]) \in store

\* The concatenation of the chunks of a manifest.
Reassembled(b) ==
  LET cat[k \in 0 .. Len(b.chunk_hashes)] ==
        IF k = 0 THEN <<>> ELSE cat[k - 1] \o b.chunk_hashes[k]
  IN  cat[Len(b.chunk_hashes)]

\* A manifest describes one uploaded file: its chunks, in order, are the part of
\* some body that arrived, and file_size is their total (daemon.rs:666-693).
ManifestReassembles ==
  \A b \in Manifests :
    /\ b.file_size = Len(Reassembled(b))
    /\ \E r \in Requests : /\ b.file_size <= Len(Body[r])
                           /\ Reassembled(b) = SubSeq(Body[r], 1, b.file_size)

\* A handler that answered has left no temporary file behind, except where its
\* own removal failed: whoever opened an existing file last still works, was
\* killed, or could not remove it (daemon.rs:600, 610, 621, 644, 652).
TmpOwned ==
  \A p \in DOMAIN dirent :
    dirent[p] # NoFile =>
      \/ opener[p] \in Requests /\ (InFlight(opener[p]) \/ resp[opener[p]] = "gone")
      \/ opener[p] \in unremoved

\* A handler whose body has arrived answers (daemon.rs:607-657).
AnsweredAfterBody == \A r \in Requests : pc[r] = "stat" ~> resp[r] # "none"

=============================================================================
