---------------------------- MODULE UploadProofs ----------------------------
(***************************************************************************)
(* Theorems about Upload, for any number of handlers, any bodies, any      *)
(* sharing of temporary files and any subset of the faults.                *)
(***************************************************************************)
EXTENDS Upload, TLAPS

(* Lemmas about the operators of Upload. *)

\* Writing a unit into a file yields a file.
LEMMA WriteAtData ==
  ASSUME NEW f \in Data, NEW p \in Nat \ {0}, NEW u \in Units
  PROVE  WriteAt(f, p, u) \in Data
  <1>1. Larger(Len(f), p) \in Nat
    BY DEF Larger, Data
  <1>2. \A i \in 1 .. Larger(Len(f), p) :
          (IF i = p THEN u ELSE IF i <= Len(f) THEN f[i] ELSE Hole) \in Units \cup {Hole}
    BY <1>1 DEF Data
  <1> QED
    BY <1>1, <1>2 DEF WriteAt, Data

\* A run of units of a file is a file.
LEMMA SubSeqData ==
  ASSUME NEW f \in Data, NEW i \in Nat \ {0}, NEW j \in Nat, j <= Len(f)
  PROVE  SubSeq(f, i, j) \in Data
  BY DEF Data

\* The file a path names is a file.
LEMMA FileAtData ==
  ASSUME TypeOK, NEW r \in Requests, Exists(r)
  PROVE  FileAt(r) \in Data /\ Len(FileAt(r)) \in Nat
  <1>1. dirent[TmpName[r]] \in Requests
    BY DEF TypeOK, Exists
  <1>2. FileAt(r) \in Data
    BY <1>1 DEF TypeOK, FileAt
  <1>3. Len(FileAt(r)) \in Nat
    BY <1>2 DEF Data
  <1> QED
    BY <1>2, <1>3

-----------------------------------------------------------------------------
(* Type correctness *)

\* No upload has begun.
LEMMA InitType == Init => TypeOK
  BY ConstantsAssumption DEF Init, TypeOK, Blobs, Data, Labels, LateLabels, Responses

\* A removal takes the file away or leaves it.
LEMMA UnlinkType ==
  ASSUME TypeOK, NEW r \in Requests, Unlink(r)
  PROVE  /\ dirent' \in {dirent, Unlinked(r)}
         /\ dirent' \in [{TmpName[q] : q \in Requests} -> Requests \cup {NoFile}]
         /\ opener' = opener
         /\ unremoved' \in {unremoved, unremoved \cup {r}}
  <1>1. dirent' \in {dirent, Unlinked(r)}
    BY DEF Unlink
  <1>2. Unlinked(r) \in [{TmpName[q] : q \in Requests} -> Requests \cup {NoFile}]
    BY DEF TypeOK, Unlinked
  <1>3. opener' = opener /\ unremoved' \in {unremoved, unremoved \cup {r}}
    BY DEF Unlink
  <1> QED
    BY <1>1, <1>2, <1>3 DEF TypeOK

\* A failing handler leaves everything well typed.
LEMMA FailType ==
  ASSUME TypeOK, NEW r \in Requests, Fail(r), store' \subseteq Blobs
  PROVE  TypeOK'
  <1>1. CASE Answer(r, "error") /\ Unlink(r)
    BY <1>1, UnlinkType DEF TypeOK, Fail, Answer, spoolVars, chunkVars, Labels, LateLabels, Responses
  <1>2. CASE Abandon(r, "removing") /\ UNCHANGED <<dirent, history>>
    BY <1>2 DEF TypeOK, Fail, Abandon, history, spoolVars, chunkVars, Labels, LateLabels, Responses
  <1> QED
    BY <1>1, <1>2 DEF Fail, RemoveFile

\* A path that is opened for writing names an inode.
LEMMA OpenedType ==
  ASSUME TypeOK, NEW r \in Requests
  PROVE  (IF Exists(r) THEN dirent[TmpName[r]] ELSE r) \in Requests
  BY DEF TypeOK, Exists

\* What a handler writes to its file is a file.
LEMMA WrittenType ==
  ASSUME TypeOK, NEW r \in Requests, pc[r] \in {"body", "writing"}, sent[r] < Len(Body[r])
  PROVE  /\ fd[r] \in Requests
         /\ WriteAt(inode[fd[r]], sent[r] + 1, Body[r][sent[r] + 1]) \in Data
  <1>1. fd[r] \in Requests /\ inode[fd[r]] \in Data
    BY DEF TypeOK
  <1>2. sent[r] \in Nat /\ Body[r] \in Seq(Units)
    BY ConstantsAssumption DEF TypeOK
  <1>3. sent[r] + 1 \in Nat \ {0} /\ Body[r][sent[r] + 1] \in Units
    BY <1>2
  <1> QED
    BY <1>1, <1>3, WriteAtData

\* An upload starts,
LEMMA StartType ==
  ASSUME TypeOK, NEW r \in Requests, Start(r)
  PROVE  TypeOK'
  <1>1. CASE Reject(r)
    BY <1>1 DEF TypeOK, Reject, Answer, fileVars, history, spoolVars, chunkVars, Labels, LateLabels, Responses
  <1>2. CASE CreatePanics(r)
    BY <1>2 DEF TypeOK, CreatePanics, Answer, fileVars, history, spoolVars, chunkVars, Labels, LateLabels,
                Responses
  <1>3. CASE CreateDropped(r)
    BY <1>3 DEF TypeOK, CreateDropped, Abandon, fileVars, history, spoolVars, chunkVars, Labels,
                LateLabels, Responses
  <1>4. CASE CreateFile(r)
    <2> DEFINE i == IF Exists(r) THEN dirent[TmpName[r]] ELSE r
    <2>1. i \in Requests /\ i # NoFile
      BY OpenedType, ConstantsAssumption
    <2>2. /\ dirent' = [dirent EXCEPT ![TmpName[r]] = i]
          /\ inode' = [inode EXCEPT ![i] = <<>>]
          /\ fd' = [fd EXCEPT ![r] = i]
          /\ pc' = [pc EXCEPT ![r] = "body"]
          /\ opener' = [opener EXCEPT ![TmpName[r]] = r]
          /\ UNCHANGED <<store, unremoved, resp, sent, lost, chunkVars>>
      BY <1>4 DEF CreateFile, Goto
    <2>3. <<>> \in Data
      BY DEF Data
    <2> HIDE DEF i
    <2> QED
      BY <2>1, <2>2, <2>3 DEF TypeOK, chunkVars, Labels, LateLabels
  <1> QED
    BY <1>1, <1>2, <1>3, <1>4 DEF Start

\* spools its body,
LEMMA SpoolType ==
  ASSUME TypeOK, NEW r \in Requests, Spool(r)
  PROVE  TypeOK'
  <1>1. CASE WriteFrame(r)
    <2> DEFINE f == WriteAt(inode[fd[r]], sent[r] + 1, Body[r][sent[r] + 1])
    <2>0. pc[r] = "body" /\ sent[r] < Len(Body[r]) /\ sent[r] \in Nat
      BY <1>1 DEF WriteFrame, TypeOK
    <2>1. fd[r] \in Requests /\ f \in Data /\ sent[r] + 1 \in Nat
      BY <2>0, WrittenType
    <2>2. inode' = [inode EXCEPT ![fd[r]] = f]
      BY <1>1 DEF WriteFrame
    <2>3. /\ sent' = [sent EXCEPT ![r] = sent[r] + 1]
          /\ UNCHANGED <<store, dirent, history, pc, resp, fd, lost, chunkVars>>
      BY <1>1 DEF WriteFrame
    <2> HIDE DEF f
    <2> QED
      BY <2>1, <2>2, <2>3 DEF TypeOK, history, chunkVars
  <1>2. CASE LoseFrame(r)
    <2>1. /\ sent' = [sent EXCEPT ![r] = sent[r] + 1] /\ lost' = [lost EXCEPT ![r] = TRUE]
          /\ UNCHANGED <<store, fileVars, pc, resp, fd, chunkVars>>
      BY <1>2 DEF LoseFrame
    <2>2. sent[r] + 1 \in Nat
      BY DEF TypeOK
    <2> QED
      BY <2>1, <2>2 DEF TypeOK, fileVars, history, chunkVars
  <1>3. CASE WriteFails(r)
    BY <1>3, FailType DEF WriteFails, TypeOK
  <1>4. CASE EndBody(r)
    BY <1>4 DEF TypeOK, EndBody, Goto, fileVars, history, spoolVars, chunkVars, Labels, LateLabels
  <1>5. CASE WriteDropped(r)
    BY <1>5 DEF TypeOK, WriteDropped, Abandon, fileVars, history, spoolVars, chunkVars, Labels,
                LateLabels, Responses
  <1> QED
    BY <1>1, <1>2, <1>3, <1>4, <1>5 DEF Spool

\* is dropped,
LEMMA DropType ==
  ASSUME TypeOK, NEW r \in Requests, Drop(r)
  PROVE  TypeOK'
  <1>1. CASE Cancel(r)
    BY <1>1 DEF TypeOK, Cancel, Answer, fileVars, history, spoolVars, chunkVars, Labels, LateLabels, Responses
  <1>2. CASE LateCreate(r)
    <2> DEFINE i == IF Exists(r) THEN dirent[TmpName[r]] ELSE r
    <2>1. i \in Requests /\ <<>> \in Data
      BY OpenedType DEF Data
    <2>2. /\ dirent' = [dirent EXCEPT ![TmpName[r]] = i]
          /\ inode' = [inode EXCEPT ![i] = <<>>]
          /\ pc' = [pc EXCEPT ![r] = "done"]
          /\ opener' = [opener EXCEPT ![TmpName[r]] = r]
          /\ UNCHANGED <<store, unremoved, resp, spoolVars, chunkVars>>
      BY <1>2 DEF LateCreate, Goto
    <2> HIDE DEF i
    <2> QED
      BY <2>1, <2>2 DEF TypeOK, spoolVars, chunkVars, Labels, LateLabels
  <1>3. CASE LateWrite(r)
    <2> DEFINE f == WriteAt(inode[fd[r]], sent[r] + 1, Body[r][sent[r] + 1])
    <2>1. fd[r] \in Requests /\ f \in Data
      BY <1>3, WrittenType DEF LateWrite
    <2>2. /\ inode' = [inode EXCEPT ![fd[r]] = f]
          /\ pc' = [pc EXCEPT ![r] = "done"]
          /\ UNCHANGED <<store, dirent, history, resp, spoolVars, chunkVars>>
      BY <1>3 DEF LateWrite, Goto
    <2> HIDE DEF f
    <2> QED
      BY <2>1, <2>2 DEF TypeOK, history, spoolVars, chunkVars, Labels, LateLabels
  <1>4. CASE LateRemove(r)
    BY <1>4, UnlinkType DEF TypeOK, LateRemove, Goto, spoolVars, chunkVars, Labels, LateLabels
  <1> QED
    BY <1>1, <1>2, <1>3, <1>4 DEF Drop

\* or goes on.
LEMMA WorkType ==
  ASSUME TypeOK, NEW r \in Requests, Work(r)
  PROVE  TypeOK'
  <1>1. CASE Stat(r)
    <2>1. Len(FileAt(r)) \in Nat
      BY <1>1, FileAtData DEF Stat
    <2> QED
      BY <1>1, <2>1 DEF TypeOK, Stat, Goto, fileVars, history, spoolVars, Labels, LateLabels
  <1>2. CASE ChunkFile(r)
    <2>1. Len(FileAt(r)) \in Nat
      BY <1>2, FileAtData DEF ChunkFile
    <2> QED
      BY <1>2, <2>1 DEF TypeOK, ChunkFile, Goto, fileVars, history, spoolVars, Labels, LateLabels
  <1>3. CASE ReadChunk(r)
    <2> DEFINE d == SubSeq(FileAt(r), NextFrom(r), NextTo(r))
    <2>1. FileAt(r) \in Data /\ NextTo(r) <= Len(FileAt(r))
      BY <1>3, FileAtData DEF ReadChunk, ChunkReadable
    <2>2. Len(hashes[r]) \in Nat /\ extent[r] \in Nat
      BY DEF TypeOK
    <2>3. NextFrom(r) \in Nat \ {0} /\ NextTo(r) \in Nat
      <3>1. /\ Len(hashes[r]) * ChunkSize \in Nat
            /\ (Len(hashes[r]) + 1) * ChunkSize \in Nat
        BY <2>2, ConstantsAssumption
      <3> QED
        BY <2>2, <3>1 DEF NextFrom, NextTo, Smaller
    <2>4. d \in Data
      BY <2>1, <2>3, SubSeqData
    <2> HIDE DEF d
    <2>5. /\ buf' = [buf EXCEPT ![r] = d]
          /\ pc' = [pc EXCEPT ![r] = "put"]
          /\ UNCHANGED <<store, fileVars, resp, spoolVars, size, extent, hashes>>
      BY <1>3 DEF ReadChunk, Goto, d
    <2> QED
      BY <2>4, <2>5 DEF TypeOK, fileVars, history, spoolVars, Labels, LateLabels
  <1>4. CASE PutChunk(r)
    <2>1. buf[r] \in Data /\ hashes[r] \in Seq(Data)
      BY DEF TypeOK
    <2>2. RawBlob(buf[r]) \in Blobs /\ Append(hashes[r], buf[r]) \in Seq(Data)
      BY <2>1 DEF RawBlob, Blobs
    <2>3. /\ store' = store \cup {RawBlob(buf[r])}
          /\ hashes' = [hashes EXCEPT ![r] = Append(hashes[r], buf[r])]
          /\ pc' \in [Requests -> Labels]
          /\ \A q \in Requests : pc'[q] \in {"body"} \cup LateLabels => pc'[q] = pc[q]
          /\ UNCHANGED <<fileVars, resp, spoolVars, size, extent, buf>>
      BY <1>4 DEF TypeOK, PutChunk, Goto, Labels, LateLabels
    <2> QED
      BY <2>2, <2>3 DEF TypeOK, fileVars, history, spoolVars, LateLabels
  <1>5. CASE PutManifest(r)
    <2>1. ManifestBlob(size[r], hashes[r]) \in Blobs
      BY DEF TypeOK, ManifestBlob, Blobs
    <2> QED
      BY <1>5, <2>1 DEF TypeOK, PutManifest, Goto, fileVars, history, spoolVars, chunkVars, Labels, LateLabels
  <1>6. CASE CheckExists(r)
    BY <1>6 DEF TypeOK, CheckExists, Goto, fileVars, history, spoolVars, chunkVars, Labels, LateLabels
  <1>7. CASE ReadBlob(r)
    <2>1. \E d \in Data : buf' = [buf EXCEPT ![r] = d]
      <3>1. <<>> \in Data
        BY DEF Data
      <3>2. Exists(r) => FileAt(r) \in Data
        BY FileAtData
      <3> QED
        BY <1>7, <3>1, <3>2 DEF ReadBlob
    <2> QED
      BY <1>7, <2>1 DEF TypeOK, ReadBlob, Goto, fileVars, history, spoolVars, Labels, LateLabels
  <1>8. CASE PutBlob(r)
    <2>1. RawBlob(buf[r]) \in Blobs
      BY DEF TypeOK, RawBlob, Blobs
    <2> QED
      BY <1>8, <2>1 DEF TypeOK, PutBlob, Goto, fileVars, history, spoolVars, chunkVars, Labels, LateLabels
  <1>9. CASE PutFails(r)
    <2>1. Outgoing(r) \in Blobs
      BY DEF TypeOK, Outgoing, RawBlob, ManifestBlob, Blobs
    <2>2. store' \subseteq Blobs /\ Fail(r)
      BY <1>9, <2>1 DEF TypeOK, PutFails
    <2> QED
      BY <2>2, FailType
  <1>10. CASE Finish(r)
    <2>1. CASE Answer(r, "ok") /\ Unlink(r)
      BY <1>10, <2>1, UnlinkType DEF TypeOK, Finish, Answer, spoolVars, chunkVars, Labels,
                         LateLabels, Responses
    <2>2. CASE Abandon(r, "removing") /\ UNCHANGED <<dirent, history>>
      BY <1>10, <2>2 DEF TypeOK, Finish, Abandon, history, spoolVars, chunkVars, Labels, LateLabels,
                         Responses
    <2> QED
      BY <1>10, <2>1, <2>2 DEF Finish, RemoveFile
  <1>11. CASE StatFails(r) \/ ChunkFileFails(r) \/ ReadChunkFails(r) \/ ManifestFails(r)
    <2>1. Fail(r) /\ store' \subseteq Blobs
      BY <1>11 DEF TypeOK, StatFails, ChunkFileFails, ReadChunkFails, ManifestFails
    <2> QED
      BY <2>1, FailType
  <1> QED
    BY <1>1, <1>2, <1>3, <1>4, <1>5, <1>6, <1>7, <1>8, <1>9, <1>10, <1>11 DEF Work

\* Every variable keeps its type, whatever the handlers do and whatever fails.
THEOREM Typing == Spec => []TypeOK
  <1>1. TypeOK /\ [Next]_vars => TypeOK'
    <2> SUFFICES ASSUME TypeOK, [Next]_vars
                 PROVE  TypeOK'
      OBVIOUS
    <2>1. ASSUME NEW r \in Requests, Start(r) \/ Spool(r) \/ Work(r)
          PROVE  TypeOK'
      BY <2>1, StartType, SpoolType, WorkType
    <2>2. ASSUME NEW r \in Requests, Drop(r)
          PROVE  TypeOK'
      BY <2>2, DropType
    <2>3. CASE Crash
      BY <2>3 DEF TypeOK, Crash, fileVars, history, spoolVars, chunkVars, Labels, LateLabels, Responses
    <2>4. CASE UNCHANGED vars
      BY <2>4 DEF TypeOK, vars, fileVars, history, spoolVars, chunkVars
    <2> QED
      BY <2>1, <2>2, <2>3, <2>4 DEF Next
  <1> QED
    BY InitType, <1>1, PTL DEF Spec

-----------------------------------------------------------------------------
(* Manifests *)

\* What ManifestClosed needs to be inductive: the chunks a handler has pushed
\* the hash of are on the server, before there is any manifest.
HashesStored ==
  \A r \in Requests : \A i \in DOMAIN hashes[r] : RawBlob(hashes[r][i]) \in store

ClosedInv == ManifestClosed /\ HashesStored

\* A step that stores nothing but raw blobs and pushes no hash keeps ClosedInv.
LEMMA ClosedGrows ==
  ASSUME ClosedInv, hashes' = hashes, NEW d, store' \in {store, store \cup {RawBlob(d)}}
  PROVE  ClosedInv'
  BY DEF ClosedInv, ManifestClosed, HashesStored, Manifests, RawBlob

\* Storing a manifest of stored chunks keeps ClosedInv.
LEMMA ClosedManifest ==
  ASSUME TypeOK, ClosedInv, hashes' = hashes, NEW r \in Requests,
         store' \in {store, store \cup {ManifestBlob(size[r], hashes[r])}}
  PROVE  ClosedInv'
  <1> DEFINE m == ManifestBlob(size[r], hashes[r])
  <1>1. m.chunk_hashes = hashes[r]
    BY DEF ManifestBlob
  <1>2. Manifests' \subseteq Manifests \cup {m} /\ store \subseteq store'
    BY DEF Manifests
  <1>3. ManifestClosed'
    BY <1>1, <1>2 DEF ClosedInv, ManifestClosed, HashesStored
  <1>4. HashesStored'
    BY <1>2 DEF ClosedInv, HashesStored
  <1> QED
    BY <1>3, <1>4 DEF ClosedInv

\* Pushing the hash of a chunk together with storing it keeps ClosedInv.
LEMMA ClosedPutChunk ==
  ASSUME TypeOK, ClosedInv, NEW r \in Requests, PutChunk(r)
  PROVE  ClosedInv'
  <1> DEFINE b == RawBlob(buf[r])
  <1>1. store' = store \cup {b} /\ hashes' = [hashes EXCEPT ![r] = Append(hashes[r], buf[r])]
    BY DEF PutChunk
  <1>2. ManifestClosed'
    <2>1. b.kind # "manifest"
      BY DEF RawBlob
    <2>2. Manifests' = Manifests /\ store \subseteq store'
      BY <1>1, <2>1 DEF Manifests
    <2> QED
      BY <2>2 DEF ClosedInv, ManifestClosed
  <1>3. ASSUME NEW q \in Requests, NEW i \in DOMAIN hashes'[q]
        PROVE  RawBlob(hashes'[q][i]) \in store'
    <2>1. hashes[q] \in Seq(Data)
      BY DEF TypeOK
    <2>2. CASE q # r
      BY <1>1, <1>3, <2>2 DEF ClosedInv, HashesStored, TypeOK
    <2>3. CASE q = r
      <3>1. hashes'[q] = Append(hashes[q], buf[q]) /\ buf[q] \in Data
        BY <1>1, <2>3 DEF TypeOK
      <3>2. CASE i = Len(hashes[q]) + 1
        <4>1. hashes'[q][i] = buf[q]
          BY <2>1, <3>1, <3>2
        <4> QED
          BY <1>1, <2>3, <4>1
      <3>3. CASE i # Len(hashes[q]) + 1
        <4>1. i \in DOMAIN hashes[q] /\ hashes'[q][i] = hashes[q][i]
          BY <1>3, <2>1, <3>1, <3>3
        <4> QED
          BY <1>1, <4>1 DEF ClosedInv, HashesStored
      <3> QED
        BY <3>2, <3>3
    <2> QED
      BY <2>2, <2>3
  <1> QED
    BY <1>2, <1>3 DEF ClosedInv, HashesStored

\* Whatever handlers race, fail or are killed, and whoever truncates or removes
\* whose temporary file, a manifest on the server names only stored chunks.
THEOREM ManifestsAreClosed == Spec => []ManifestClosed
  <1>1. Init => ClosedInv
    BY DEF Init, ClosedInv, ManifestClosed, Manifests, HashesStored
  <1>2. TypeOK /\ ClosedInv /\ [Next]_vars => ClosedInv'
    <2> SUFFICES ASSUME TypeOK, ClosedInv, [Next]_vars
                 PROVE  ClosedInv'
      OBVIOUS
    <2> USE DEF spoolVars, chunkVars
    <2>1. ASSUME NEW r \in Requests, Start(r)
          PROVE  ClosedInv'
      BY <2>1, ClosedGrows DEF Start, Reject, CreateFile, CreateDropped, CreatePanics
    <2>2. ASSUME NEW r \in Requests, Spool(r)
          PROVE  ClosedInv'
      BY <2>2, ClosedGrows DEF Spool, WriteFrame, LoseFrame, WriteDropped, WriteFails, EndBody, Fail
    <2>3. ASSUME NEW r \in Requests, Work(r)
          PROVE  ClosedInv'
      <3>1. CASE PutChunk(r)
        BY <3>1, ClosedPutChunk
      <3>2. CASE PutManifest(r)
        BY <3>2, ClosedManifest DEF PutManifest
      <3>3. CASE PutBlob(r)
        BY <3>3, ClosedGrows DEF PutBlob
      <3>4. CASE PutFails(r)
        <4>1. hashes' = hashes
          BY <3>4 DEF PutFails, Fail
        <4>2. CASE pc[r] = "manifest"
          BY <3>4, <4>1, <4>2, ClosedManifest DEF PutFails, Outgoing
        <4>3. CASE pc[r] # "manifest"
          BY <3>4, <4>1, <4>3, ClosedGrows DEF PutFails, Outgoing
        <4> QED
          BY <4>2, <4>3
      <3>5. CASE \/ Stat(r) \/ StatFails(r) \/ ChunkFile(r) \/ ChunkFileFails(r)
                \/ ReadChunk(r) \/ ReadChunkFails(r) \/ ManifestFails(r)
                \/ CheckExists(r) \/ ReadBlob(r) \/ Finish(r)
        <4>1. hashes' = hashes /\ store' = store
          BY <3>5 DEF Stat, StatFails, ChunkFile, ChunkFileFails, ReadChunk, ReadChunkFails,
                      ManifestFails, CheckExists, ReadBlob, Finish, Fail
        <4> QED
          BY <4>1, ClosedGrows
      <3> QED
        BY <2>3, <3>1, <3>2, <3>3, <3>4, <3>5 DEF Work
    <2>4. ASSUME NEW r \in Requests, Drop(r)
          PROVE  ClosedInv'
      BY <2>4, ClosedGrows DEF Drop, Cancel, LateCreate, LateWrite, LateRemove
    <2>5. CASE Crash
      BY <2>5, ClosedGrows DEF Crash
    <2>6. CASE UNCHANGED vars
      BY <2>6, ClosedGrows DEF vars
    <2> QED
      BY <2>1, <2>2, <2>3, <2>4, <2>5, <2>6 DEF Next
  <1>3. ClosedInv => ManifestClosed
    BY DEF ClosedInv
  <1> QED
    BY Typing, <1>1, <1>2, <1>3, PTL DEF Spec

-----------------------------------------------------------------------------
(* Temporary files *)

\* A handler that may have left a file: it still works, it was killed, or its
\* own removal failed.
MayLeave(r) == pc[r] # "idle" /\ (InFlight(r) \/ resp[r] = "gone" \/ r \in unremoved)

\* What a handler left to be done outlives only a connection that died, a path
\* names an inode made for that path, and whoever opened it last may have left
\* the file.
TmpInv ==
  /\ \A r \in Requests : pc[r] \in LateLabels => resp[r] = "gone"
  /\ \A p \in DOMAIN dirent : dirent[p] # NoFile =>
       /\ TmpName[dirent[p]] = p /\ pc[dirent[p]] # "idle"
       /\ opener[p] \in Requests /\ TmpName[opener[p]] = p /\ MayLeave(opener[p])

\* What TmpInv says of one path.
LEMMA TmpAt ==
  ASSUME TypeOK, TmpInv, NEW p \in DOMAIN dirent, dirent[p] # NoFile
  PROVE  /\ TmpName[dirent[p]] = p /\ pc[dirent[p]] # "idle" /\ dirent[p] \in Requests
         /\ opener[p] \in Requests /\ TmpName[opener[p]] = p /\ MayLeave(opener[p])
  <1>1. dirent[p] \in Requests
    BY DEF TypeOK
  <1> QED
    BY <1>1 DEF TmpInv

\* A handler that goes on, or that is killed, keeps TmpInv if it leaves the
\* directory alone.
LEMMA TmpKeep ==
  ASSUME TypeOK, TmpInv, NEW r \in Requests, dirent' = dirent, UNCHANGED history,
         NEW l \in Labels \ {"idle"}, pc' = [pc EXCEPT ![r] = l],
         l \in {"done"} \cup LateLabels => resp' = [resp EXCEPT ![r] = "gone"],
         l \notin {"done"} \cup LateLabels => resp' = resp,
         pc[r] # "done"
  PROVE  TmpInv'
  <1>1. ASSUME NEW q \in Requests, pc'[q] \in LateLabels
        PROVE  resp'[q] = "gone"
    BY <1>1 DEF TypeOK, TmpInv, LateLabels
  <1>2. ASSUME NEW q \in Requests, MayLeave(q)
        PROVE  MayLeave(q)'
    BY <1>2 DEF TypeOK, MayLeave, InFlight, Labels, LateLabels, history
  <1>3. \A q \in Requests : pc[q] # "idle" => pc'[q] # "idle"
    BY DEF TypeOK
  <1>4. ASSUME NEW p \in DOMAIN dirent, dirent[p] # NoFile
        PROVE  /\ TmpName[dirent[p]] = p /\ pc'[dirent[p]] # "idle"
               /\ opener[p] \in Requests /\ TmpName[opener[p]] = p /\ MayLeave(opener[p])'
    <2>1. opener[p] \in Requests /\ MayLeave(opener[p]) /\ dirent[p] \in Requests
      BY <1>4, TmpAt
    <2>2. opener'[p] = opener[p]
      BY DEF history
    <2> QED
      BY <1>2, <1>3, <1>4, <2>1, <2>2, TmpAt
  <1> QED
    BY <1>1, <1>4 DEF TmpInv, history

\* A handler that answers keeps TmpInv because it unlinks its path or is one of
\* those that could not; one that is killed there may leave a file.
LEMMA TmpRemove ==
  ASSUME TypeOK, TmpInv, NEW r \in Requests, InFlight(r), NEW a, RemoveFile(r, a)
  PROVE  TmpInv'
  <1>1. CASE Answer(r, a) /\ Unlink(r)
    <2>1. /\ pc' = [pc EXCEPT ![r] = "done"]
          /\ resp' = [resp EXCEPT ![r] = a]
          /\ opener' = opener /\ unremoved \subseteq unremoved'
          /\ dirent' = Unlinked(r) \/ (dirent' = dirent /\ r \in unremoved')
      BY <1>1 DEF Answer, Unlink
    <2>2. ASSUME NEW q \in Requests, pc'[q] \in LateLabels
          PROVE  resp'[q] = "gone"
      BY <2>1, <2>2 DEF TypeOK, TmpInv, LateLabels
    <2>3. ASSUME NEW q \in Requests, q # r \/ r \in unremoved', MayLeave(q)
          PROVE  MayLeave(q)'
      BY <2>1, <2>3 DEF TypeOK, MayLeave, InFlight
    <2>4. ASSUME NEW p \in DOMAIN dirent', dirent'[p] # NoFile
          PROVE  /\ TmpName[dirent'[p]] = p /\ pc'[dirent'[p]] # "idle"
                 /\ opener'[p] \in Requests /\ TmpName[opener'[p]] = p /\ MayLeave(opener[p])'
      <3>1. p \in DOMAIN dirent /\ dirent'[p] = dirent[p] /\ (p # TmpName[r] \/ r \in unremoved')
        BY <2>1, <2>4 DEF TypeOK, Unlinked
      <3>2. /\ TmpName[dirent[p]] = p /\ pc[dirent[p]] # "idle" /\ dirent[p] \in Requests
            /\ opener[p] \in Requests /\ TmpName[opener[p]] = p /\ MayLeave(opener[p])
        BY <2>4, <3>1, TmpAt
      <3>3. pc'[dirent[p]] # "idle"
        BY <2>1, <3>2 DEF TypeOK
      <3>4. MayLeave(opener[p])'
        BY <2>1, <2>3, <3>1, <3>2
      <3> QED
        BY <2>1, <3>1, <3>2, <3>3, <3>4
    <2> QED
      BY <2>2, <2>4 DEF TmpInv
  <1>2. CASE Abandon(r, "removing") /\ UNCHANGED <<dirent, history>>
    BY <1>2, TmpKeep DEF Abandon, InFlight, Labels, LateLabels
  <1> QED
    BY <1>1, <1>2 DEF RemoveFile

\* A handler that was turned down had no file.
LEMMA TmpReject ==
  ASSUME TypeOK, TmpInv, NEW r \in Requests, pc[r] = "idle", NEW a, Answer(r, a),
         dirent' = dirent, UNCHANGED history
  PROVE  TmpInv'
  <1>1. pc' = [pc EXCEPT ![r] = "done"] /\ resp' = [resp EXCEPT ![r] = a]
    BY DEF Answer
  <1>2. ASSUME NEW q \in Requests, pc'[q] \in LateLabels
        PROVE  resp'[q] = "gone"
    BY <1>1, <1>2 DEF TypeOK, TmpInv, LateLabels
  <1>3. ASSUME NEW q \in Requests, pc[q] # "idle"
        PROVE  pc'[q] = pc[q] /\ resp'[q] = resp[q]
    BY <1>1, <1>3 DEF TypeOK
  <1>4. ASSUME NEW p \in DOMAIN dirent, dirent[p] # NoFile
        PROVE  pc'[dirent[p]] # "idle" /\ MayLeave(opener[p])'
    <2>1. dirent[p] \in Requests /\ pc[dirent[p]] # "idle" /\ opener[p] \in Requests /\ MayLeave(opener[p])
      BY <1>4, TmpAt
    <2> QED
      BY <1>3, <2>1 DEF MayLeave, InFlight, history
  <1> QED
    BY <1>2, <1>4 DEF TmpInv, history

\* A path that is opened names an inode made for it, and the handler that
\* opened it goes on with it or was killed.
LEMMA TmpOpen ==
  ASSUME TypeOK, TmpInv, NEW r \in Requests, pc[r] \in {"idle", "creating"},
         dirent' = [dirent EXCEPT ![TmpName[r]] = IF Exists(r) THEN dirent[TmpName[r]] ELSE r],
         opener' = [opener EXCEPT ![TmpName[r]] = r], unremoved' = unremoved,
         NEW l, pc' = [pc EXCEPT ![r] = l], resp' = resp,
         l = "body" \/ (l = "done" /\ resp[r] = "gone")
  PROVE  TmpInv'
  <1> DEFINE i == IF Exists(r) THEN dirent[TmpName[r]] ELSE r
  <1>1. dirent' = [dirent EXCEPT ![TmpName[r]] = i]
    OBVIOUS
  <1>2. i \in Requests /\ i # NoFile /\ TmpName[i] = TmpName[r]
    <2>1. TmpName[r] \in DOMAIN dirent
      BY DEF TypeOK
    <2>2. CASE Exists(r)
      BY <2>1, <2>2 DEF TypeOK, TmpInv, Exists
    <2>3. CASE ~Exists(r)
      BY <2>3, ConstantsAssumption
    <2> QED
      BY <2>2, <2>3
  <1>3. i = r \/ pc[i] # "idle"
    BY DEF TypeOK, TmpInv, Exists
  <1> HIDE DEF i
  <1>4. ASSUME NEW q \in Requests, pc'[q] \in LateLabels
        PROVE  resp'[q] = "gone"
    BY <1>4 DEF TypeOK, TmpInv, LateLabels
  <1>5. pc'[i] # "idle" /\ \A q \in Requests : pc[q] # "idle" => pc'[q] # "idle"
    BY <1>2, <1>3 DEF TypeOK
  <1>6. ASSUME NEW q \in Requests, q = r \/ MayLeave(q)
        PROVE  MayLeave(q)'
    BY <1>6 DEF TypeOK, MayLeave, InFlight, LateLabels
  <1>7. ASSUME NEW p \in DOMAIN dirent', dirent'[p] # NoFile
        PROVE  /\ TmpName[dirent'[p]] = p /\ pc'[dirent'[p]] # "idle"
               /\ opener'[p] \in Requests /\ TmpName[opener'[p]] = p /\ MayLeave(opener[p])'
    <2>1. p \in DOMAIN dirent /\ p \in DOMAIN opener /\ DOMAIN dirent = {TmpName[q] : q \in Requests}
      BY <1>1, <1>7 DEF TypeOK
    <2>2. CASE p = TmpName[r]
      <3>1. dirent'[p] = i /\ opener'[p] = r
        BY <1>1, <2>1, <2>2
      <3>2. MayLeave(r)'
        BY <1>6
      <3> QED
        BY <1>2, <1>5, <2>2, <3>1, <3>2 DEF MayLeave, InFlight
    <2>3. CASE p # TmpName[r]
      <3>1. dirent'[p] = dirent[p] /\ dirent[p] \in Requests /\ opener'[p] = opener[p]
        BY <1>1, <1>7, <2>1, <2>3 DEF TypeOK
      <3>2. /\ TmpName[dirent[p]] = p /\ pc[dirent[p]] # "idle"
            /\ opener[p] \in Requests /\ TmpName[opener[p]] = p /\ MayLeave(opener[p])
        BY <1>7, <2>1, <3>1 DEF TmpInv
      <3>3. MayLeave(opener[p])'
        BY <1>6, <3>1, <3>2 DEF MayLeave, InFlight
      <3> QED
        BY <1>5, <3>1, <3>2, <3>3
    <2> QED
      BY <2>2, <2>3
  <1> QED
    BY <1>4, <1>7 DEF TmpInv

\* TmpInv is inductive.
LEMMA TmpStep == TypeOK /\ TmpInv /\ [Next]_vars => TmpInv'
  <1> SUFFICES ASSUME TypeOK, TmpInv, [Next]_vars
               PROVE  TmpInv'
    OBVIOUS
  <1> USE DEF fileVars, history
  <1>1. ASSUME NEW r \in Requests, Start(r)
        PROVE  TmpInv'
    <2>1. CASE Reject(r)
      BY <2>1, TmpReject DEF Reject
    <2>2. CASE CreatePanics(r)
      BY <2>2, TmpReject DEF CreatePanics
    <2>3. CASE CreateDropped(r)
      BY <2>3, TmpKeep DEF CreateDropped, Abandon, Labels, LateLabels
    <2>4. CASE CreateFile(r)
      BY <2>4, TmpOpen DEF CreateFile, Goto
    <2> QED
      BY <1>1, <2>1, <2>2, <2>3, <2>4 DEF Start
  <1>2. ASSUME NEW r \in Requests, Spool(r)
        PROVE  TmpInv'
    <2>1. CASE WriteFrame(r) \/ LoseFrame(r)
      BY <2>1 DEF WriteFrame, LoseFrame, TmpInv, MayLeave, InFlight
    <2>2. CASE WriteFails(r)
      BY <2>2, TmpRemove DEF WriteFails, Fail, InFlight, LateLabels
    <2>3. CASE EndBody(r)
      BY <2>3, TmpKeep DEF EndBody, Goto, Labels, LateLabels
    <2>4. CASE WriteDropped(r)
      BY <2>4, TmpKeep DEF WriteDropped, Abandon, Labels, LateLabels
    <2> QED
      BY <1>2, <2>1, <2>2, <2>3, <2>4 DEF Spool
  <1>3. ASSUME NEW r \in Requests, Work(r)
        PROVE  TmpInv'
    <2>1. CASE \/ StatFails(r) \/ ChunkFileFails(r) \/ ReadChunkFails(r)
               \/ ManifestFails(r) \/ PutFails(r) \/ Finish(r)
      BY <2>1, TmpRemove DEF StatFails, ChunkFileFails, ReadChunkFails, ManifestFails,
                             PutFails, Finish, Fail, InFlight, LateLabels
    <2>2. CASE Stat(r)
      BY <2>2, TmpKeep DEF Stat, Goto, Labels, LateLabels
    <2>3. CASE ChunkFile(r)
      BY <2>3, TmpKeep DEF ChunkFile, Goto, Labels, LateLabels
    <2>4. CASE ReadChunk(r)
      BY <2>4, TmpKeep DEF ReadChunk, Goto, Labels, LateLabels
    <2>5. CASE PutChunk(r)
      BY <2>5, TmpKeep DEF PutChunk, Goto, Labels, LateLabels
    <2>6. CASE PutManifest(r)
      BY <2>6, TmpKeep DEF PutManifest, Goto, Labels, LateLabels
    <2>7. CASE CheckExists(r)
      BY <2>7, TmpKeep DEF CheckExists, Goto, Labels, LateLabels
    <2>8. CASE ReadBlob(r)
      BY <2>8, TmpKeep DEF ReadBlob, Goto, Labels, LateLabels
    <2>9. CASE PutBlob(r)
      BY <2>9, TmpKeep DEF PutBlob, Goto, Labels, LateLabels
    <2> QED
      BY <1>3, <2>1, <2>2, <2>3, <2>4, <2>5, <2>6, <2>7, <2>8, <2>9 DEF Work
  <1>4. ASSUME NEW r \in Requests, Drop(r)
        PROVE  TmpInv'
    <2>1. CASE Cancel(r)
      BY <2>1, TmpKeep DEF Cancel, Answer, InFlight, Labels
    <2>2. CASE LateCreate(r)
      <3>1. resp[r] = "gone"
        BY <2>2 DEF LateCreate, TmpInv, LateLabels
      <3> QED
        BY <2>2, <3>1, TmpOpen DEF LateCreate, Goto
    <2>3. CASE LateWrite(r)
      <3>1. resp[r] = "gone" /\ resp' = resp
        BY <2>3 DEF LateWrite, TmpInv, LateLabels
      <3>2. resp' = [resp EXCEPT ![r] = "gone"]
        BY <3>1 DEF TypeOK
      <3> QED
        BY <2>3, <3>2, TmpKeep DEF LateWrite, Goto, Labels
    <2>4. CASE LateRemove(r)
      <3>1. /\ pc[r] = "removing" /\ resp[r] = "gone" /\ pc' = [pc EXCEPT ![r] = "done"]
            /\ resp' = resp /\ opener' = opener /\ unremoved \subseteq unremoved'
            /\ dirent' = dirent \/ dirent' = Unlinked(r)
        BY <2>4 DEF LateRemove, Unlink, Goto, TmpInv, LateLabels
      <3>2. ASSUME NEW q \in Requests, MayLeave(q)
            PROVE  MayLeave(q)'
        BY <3>1, <3>2 DEF TypeOK, MayLeave, InFlight, LateLabels
      <3>3. ASSUME NEW p \in DOMAIN dirent', dirent'[p] # NoFile
            PROVE  /\ TmpName[dirent'[p]] = p /\ pc'[dirent'[p]] # "idle"
                   /\ opener'[p] \in Requests /\ TmpName[opener'[p]] = p /\ MayLeave(opener[p])'
        <4>1. p \in DOMAIN dirent /\ dirent'[p] = dirent[p]
          BY <3>1, <3>3 DEF TypeOK, Unlinked
        <4>2. /\ TmpName[dirent[p]] = p /\ pc[dirent[p]] # "idle" /\ dirent[p] \in Requests
              /\ opener[p] \in Requests /\ TmpName[opener[p]] = p /\ MayLeave(opener[p])
          BY <3>3, <4>1, TmpAt
        <4>3. pc'[dirent[p]] # "idle"
          BY <3>1, <4>2 DEF TypeOK
        <4>4. MayLeave(opener[p])'
          BY <3>1, <3>2, <4>2
        <4> QED
          BY <3>1, <4>1, <4>2, <4>3, <4>4
      <3>4. \A q \in Requests : pc'[q] \in LateLabels => resp'[q] = "gone"
        BY <3>1 DEF TypeOK, TmpInv, LateLabels
      <3> QED
        BY <3>3, <3>4 DEF TmpInv
    <2> QED
      BY <1>4, <2>1, <2>2, <2>3, <2>4 DEF Drop
  <1>5. CASE Crash
    <2>1. ASSUME NEW q \in Requests
          PROVE  /\ pc'[q] \notin LateLabels /\ (pc[q] # "idle" => pc'[q] # "idle")
                 /\ MayLeave(q) => MayLeave(q)'
      BY <1>5 DEF TypeOK, MayLeave, Crash, InFlight, LateLabels
    <2>2. dirent' = dirent /\ opener' = opener
      BY <1>5 DEF Crash
    <2>3. ASSUME NEW p \in DOMAIN dirent, dirent[p] # NoFile
          PROVE  /\ TmpName[dirent[p]] = p /\ pc'[dirent[p]] # "idle"
                 /\ opener[p] \in Requests /\ TmpName[opener[p]] = p /\ MayLeave(opener[p])'
      BY <2>1, <2>2, <2>3, TmpAt
    <2> QED
      BY <2>1, <2>2, <2>3 DEF TmpInv
  <1>6. CASE UNCHANGED vars
    BY <1>6 DEF TmpInv, MayLeave, InFlight, vars
  <1> QED
    BY <1>1, <1>2, <1>3, <1>4, <1>5, <1>6 DEF Next

\* No file yet.
LEMMA TmpInit == Init => TmpInv
  <1> SUFFICES ASSUME Init
               PROVE  TmpInv
    OBVIOUS
  <1>1. \A r \in Requests : pc[r] \notin LateLabels
    BY DEF Init, LateLabels
  <1>2. \A p \in DOMAIN dirent : dirent[p] = NoFile
    BY DEF Init
  <1> QED
    BY <1>1, <1>2 DEF TmpInv

\* And holds throughout.
LEMMA TmpInvariant == Spec => []TmpInv
  BY Typing, TmpInit, TmpStep, PTL DEF Spec

\* No handler that answered leaves a temporary file behind unless its own removal
\* failed, even when handlers share one path and remove each other's files.
THEOREM AnsweredLeavesNoFile == Spec => []TmpOwned
  <1>1. TmpInv => TmpOwned
    BY DEF TmpInv, MayLeave, TmpOwned
  <1> QED
    BY TmpInvariant, <1>1, PTL

-----------------------------------------------------------------------------
(* A 200 means stored, when a path has one upload at a time *)

\* Handlers that run at the same time have paths of their own.
OneAtATime ==
  \A r, s \in Requests : r # s /\ InFlight(r) /\ InFlight(s) => TmpName[r] # TmpName[s]

\* The path of a running handler names the file it opened, and that file holds
\* the part of the body that has arrived.
Spooled ==
  \A r \in Requests : InFlight(r) =>
    /\ fd[r] # NoFile
    /\ dirent[TmpName[r]] = fd[r]
    /\ inode[fd[r]] = SubSeq(Body[r], 1, sent[r])

\* What a handler knows at each label.
Progress ==
  \A r \in Requests :
    /\ sent[r] \in 0 .. Len(Body[r])
    /\ ~lost[r]
    /\ pc[r] = "idle" => sent[r] = 0
    /\ pc[r] = "send" => buf[r] = SubSeq(Body[r], 1, sent[r])
    /\ pc[r] = "finish" /\ sent[r] = Len(Body[r]) => RawBlob(Body[r]) \in store
    /\ resp[r] = "ok" => pc[r] = "done"

OkInv == OneAtATime /\ Spooled /\ Progress /\ OkImpliesStored

\* Writing the next unit of a body after those that precede it.
LEMMA WriteNext ==
  ASSUME NEW d \in Seq(Units), NEW n \in Nat, n < Len(d)
  PROVE  WriteAt(SubSeq(d, 1, n), n + 1, d[n + 1]) = SubSeq(d, 1, n + 1)
  <1> DEFINE f == SubSeq(d, 1, n)
  <1>1. f \in Seq(Units) /\ Len(f) = n /\ \A i \in 1 .. n : f[i] = d[i]
    OBVIOUS
  <1>2. Larger(Len(f), n + 1) = n + 1
    BY <1>1 DEF Larger
  <1>3. WriteAt(f, n + 1, d[n + 1]) =
          [i \in 1 .. n + 1 |-> IF i = n + 1 THEN d[n + 1] ELSE IF i <= Len(f) THEN f[i] ELSE Hole]
    BY <1>2 DEF WriteAt
  <1>4. \A i \in 1 .. n + 1 :
          (IF i = n + 1 THEN d[n + 1] ELSE IF i <= Len(f) THEN f[i] ELSE Hole) = d[i]
    BY <1>1
  <1>5. SubSeq(d, 1, n + 1) = [i \in 1 .. n + 1 |-> d[i]]
    OBVIOUS
  <1> QED
    BY <1>3, <1>4, <1>5

\* The whole of a body is its prefix of full length.
LEMMA WholeBody ==
  ASSUME NEW d \in Seq(Units)
  PROVE  SubSeq(d, 1, Len(d)) = d
  OBVIOUS

\* Handlers that run at the same time write to files of their own.
LEMMA OwnFiles ==
  ASSUME TypeOK, TmpInv, OkInv,
         NEW r \in Requests, NEW s \in Requests, r # s, InFlight(r), InFlight(s)
  PROVE  fd[r] # fd[s] /\ TmpName[r] # TmpName[s]
  <1>1. /\ fd[r] # NoFile /\ dirent[TmpName[r]] = fd[r]
        /\ fd[s] # NoFile /\ dirent[TmpName[s]] = fd[s]
    BY DEF OkInv, Spooled
  <1>2. TmpName[r] \in DOMAIN dirent /\ TmpName[s] \in DOMAIN dirent
    BY DEF TypeOK
  <1>3. TmpName[fd[r]] = TmpName[r] /\ TmpName[fd[s]] = TmpName[s]
    BY <1>1, <1>2 DEF TmpInv
  <1>4. TmpName[r] # TmpName[s]
    BY DEF OkInv, OneAtATime
  <1> QED
    BY <1>3, <1>4

\* A running handler goes on to label l without touching a file.
LEMMA OkKeep ==
  ASSUME TypeOK, OkInv, NEW r \in Requests, InFlight(r),
         NEW l \in Labels \ ({"idle", "done"} \cup LateLabels), pc' = [pc EXCEPT ![r] = l], resp' = resp,
         UNCHANGED <<fileVars, spoolVars>>, store \subseteq store',
         \A q \in Requests \ {r} : buf'[q] = buf[q],
         l = "send" => buf'[r] = SubSeq(Body[r], 1, sent[r]),
         l = "finish" /\ sent[r] = Len(Body[r]) => RawBlob(Body[r]) \in store'
  PROVE  OkInv'
  <1> USE DEF fileVars, history, spoolVars
  <1>1. \A q \in Requests : InFlight(q)' => InFlight(q)
    BY DEF InFlight, TypeOK
  <1>2. OneAtATime'
    BY <1>1 DEF OkInv, OneAtATime
  <1>3. Spooled'
    BY <1>1 DEF OkInv, Spooled
  <1>4. Progress'
    BY DEF OkInv, Progress, TypeOK, InFlight
  <1>5. OkImpliesStored'
    BY DEF OkInv, OkImpliesStored, Accepted
  <1> QED
    BY <1>2, <1>3, <1>4, <1>5 DEF OkInv

\* A handler ends: with its path unlinked, or with nothing changed but the answer.
LEMMA OkAnswer ==
  ASSUME TypeOK, OkInv, NEW r \in Requests, pc[r] # "done", NEW a, Answer(r, a),
         a = "ok" /\ sent[r] = Len(Body[r]) => RawBlob(Body[r]) \in store,
         dirent' = dirent \/ (InFlight(r) /\ dirent' = Unlinked(r)), store \subseteq store',
         inode' = inode, UNCHANGED spoolVars, buf' = buf
  PROVE  OkInv'
  <1> USE DEF spoolVars
  <1>1. /\ pc' = [pc EXCEPT ![r] = "done"]
        /\ resp' = [resp EXCEPT ![r] = a]
    BY DEF Answer
  <1>2. \A q \in Requests : InFlight(q)' => q # r /\ InFlight(q)
    BY <1>1 DEF InFlight, TypeOK
  <1>3. OneAtATime'
    BY <1>2 DEF OkInv, OneAtATime
  <1>4. Spooled'
    <2> SUFFICES ASSUME NEW q \in Requests, InFlight(q)'
                 PROVE  /\ fd[q] # NoFile
                        /\ dirent'[TmpName[q]] = fd[q]
                        /\ inode[fd[q]] = SubSeq(Body[q], 1, sent[q])
      BY DEF Spooled
    <2>1. q # r /\ InFlight(q)
      BY <1>2
    <2>2. dirent'[TmpName[q]] = dirent[TmpName[q]]
      <3>1. CASE dirent' = dirent
        BY <3>1
      <3>2. CASE InFlight(r) /\ dirent' = Unlinked(r)
        <4>1. TmpName[q] # TmpName[r]
          BY <2>1, <3>2 DEF OkInv, OneAtATime
        <4>2. TmpName[q] \in DOMAIN dirent
          BY DEF TypeOK
        <4> QED
          BY <3>2, <4>1, <4>2 DEF Unlinked
      <3> QED
        BY <3>1, <3>2
    <2> QED
      BY <2>1, <2>2 DEF OkInv, Spooled
  <1>5. Progress'
    BY <1>1 DEF OkInv, Progress, TypeOK
  <1>6. OkImpliesStored'
    BY <1>1 DEF OkInv, OkImpliesStored, Accepted, TypeOK
  <1> QED
    BY <1>3, <1>4, <1>5, <1>6 DEF OkInv

\* A new handler finds its path free of running handlers, and truncates the
\* file that a killed one may have left there.
LEMMA OkCreate ==
  ASSUME TypeOK, TmpInv, OkInv, NEW r \in Requests, Alone(r), CreateFile(r)
  PROVE  OkInv'
  <1> DEFINE i == IF Exists(r) THEN dirent[TmpName[r]] ELSE r
  <1>1. /\ dirent' = [dirent EXCEPT ![TmpName[r]] = i]
        /\ inode' = [inode EXCEPT ![i] = <<>>]
        /\ fd' = [fd EXCEPT ![r] = i]
        /\ pc' = [pc EXCEPT ![r] = "body"]
        /\ UNCHANGED <<store, resp, sent, lost, buf>>
        /\ pc[r] = "idle"
    BY DEF CreateFile, Goto, chunkVars
  <1>2. i \in Requests /\ i # NoFile
    BY OpenedType, ConstantsAssumption
  <1>3. \A q \in Requests : InFlight(q)' <=> q = r \/ InFlight(q)
    BY <1>1 DEF InFlight, TypeOK, LateLabels
  <1>4. \A q \in Requests : InFlight(q) => q # r /\ TmpName[q] # TmpName[r]
    BY <1>1 DEF Alone, InFlight
  <1>5. ASSUME NEW q \in Requests, InFlight(q)
        PROVE  fd[q] # i
    <2>1. fd[q] # NoFile /\ dirent[TmpName[q]] = fd[q] /\ TmpName[q] \in DOMAIN dirent
      BY <1>5 DEF OkInv, Spooled, TypeOK
    <2>2. /\ TmpName[fd[q]] = TmpName[q]
          /\ pc[fd[q]] # "idle"
      BY <2>1 DEF TmpInv
    <2>3. CASE Exists(r)
      <3>1. TmpName[i] = TmpName[r]
        BY <2>3 DEF TmpInv, Exists, TypeOK
      <3> QED
        BY <1>4, <1>5, <2>2, <3>1
    <2>4. CASE ~Exists(r)
      BY <1>1, <2>2, <2>4 DEF InFlight
    <2> QED
      BY <2>3, <2>4
  <1> HIDE DEF i
  <1>6. OneAtATime'
    BY <1>3, <1>4 DEF OkInv, OneAtATime
  <1>7. Spooled'
    <2> SUFFICES ASSUME NEW q \in Requests, InFlight(q)'
                 PROVE  /\ fd'[q] # NoFile
                        /\ dirent'[TmpName[q]] = fd'[q]
                        /\ inode'[fd'[q]] = SubSeq(Body[q], 1, sent[q])
      BY <1>1 DEF Spooled
    <2>1. TmpName[q] \in DOMAIN dirent
      BY DEF TypeOK
    <2>2. CASE q = r
      <3>1. fd'[q] = i /\ dirent'[TmpName[q]] = i /\ inode'[i] = <<>>
        BY <1>1, <1>2, <2>1, <2>2 DEF TypeOK
      <3>2. sent[q] = 0 /\ Body[q] \in Seq(Units)
        BY <1>1, <2>2, ConstantsAssumption DEF OkInv, Progress
      <3>3. SubSeq(Body[q], 1, sent[q]) = <<>>
        BY <3>2
      <3> QED
        BY <1>2, <3>1, <3>3
    <2>3. CASE q # r
      <3>1. InFlight(q)
        BY <1>3, <2>3
      <3>2. fd[q] # i /\ TmpName[q] # TmpName[r]
        BY <1>4, <1>5, <3>1
      <3>3. fd'[q] = fd[q] /\ dirent'[TmpName[q]] = dirent[TmpName[q]] /\ inode'[fd[q]] = inode[fd[q]]
        BY <1>1, <2>1, <2>3, <3>2 DEF TypeOK
      <3> QED
        BY <3>1, <3>3 DEF OkInv, Spooled
    <2> QED
      BY <2>2, <2>3
  <1>8. Progress'
    BY <1>1 DEF OkInv, Progress, TypeOK
  <1>9. OkImpliesStored'
    BY <1>1 DEF OkInv, OkImpliesStored, Accepted
  <1> QED
    BY <1>6, <1>7, <1>8, <1>9 DEF OkInv

\* A frame is written.
LEMMA OkWrite ==
  ASSUME TypeOK, TmpInv, OkInv, NEW r \in Requests, WriteFrame(r)
  PROVE  OkInv'
  <1> DEFINE n == sent[r] + 1
             f == WriteAt(inode[fd[r]], n, Body[r][n])
  <1>1. /\ sent' = [sent EXCEPT ![r] = n]
        /\ inode' = [inode EXCEPT ![fd[r]] = f]
        /\ UNCHANGED <<store, dirent, pc, resp, fd, lost, buf>>
        /\ pc[r] = "body" /\ sent[r] < Len(Body[r])
    BY DEF WriteFrame, chunkVars
  <1>2. InFlight(r) /\ fd[r] \in Requests /\ sent[r] \in Nat /\ Body[r] \in Seq(Units)
    BY <1>1, ConstantsAssumption DEF InFlight, TypeOK, LateLabels
  <1>3. f = SubSeq(Body[r], 1, n)
    <2>1. inode[fd[r]] = SubSeq(Body[r], 1, sent[r])
      BY <1>2 DEF OkInv, Spooled
    <2> QED
      BY <1>1, <1>2, <2>1, WriteNext
  <1>4. n \in 0 .. Len(Body[r])
    BY <1>1, <1>2
  <1> HIDE DEF n, f
  <1>5. OneAtATime'
    BY <1>1 DEF OkInv, OneAtATime, InFlight
  <1>6. Spooled'
    <2> SUFFICES ASSUME NEW q \in Requests, InFlight(q)
                 PROVE  /\ fd[q] # NoFile
                        /\ dirent[TmpName[q]] = fd[q]
                        /\ inode'[fd[q]] = SubSeq(Body[q], 1, sent'[q])
      BY <1>1 DEF Spooled, InFlight
    <2>1. fd[q] # NoFile /\ dirent[TmpName[q]] = fd[q] /\ inode[fd[q]] = SubSeq(Body[q], 1, sent[q])
      BY DEF OkInv, Spooled
    <2>2. CASE q = r
      BY <1>1, <1>2, <1>3, <2>1, <2>2 DEF TypeOK
    <2>3. CASE q # r
      <3>1. fd[q] # fd[r]
        BY <1>2, <2>3, OwnFiles
      <3> QED
        BY <1>1, <2>1, <2>3, <3>1 DEF TypeOK
    <2> QED
      BY <2>2, <2>3
  <1>7. Progress'
    BY <1>1, <1>4 DEF OkInv, Progress, TypeOK
  <1>8. OkImpliesStored'
    BY <1>1 DEF OkInv, OkImpliesStored, Accepted, Progress, TypeOK
  <1> QED
    BY <1>5, <1>6, <1>7, <1>8 DEF OkInv

\* Steps after the body.
LEMMA OkWork ==
  ASSUME TypeOK, TmpInv, OkInv, "late" \notin Faults, "silent_disk" \notin Faults,
         NEW r \in Requests, Work(r)
  PROVE  OkInv'
  <1> USE DEF fileVars, history, spoolVars, chunkVars
  <1>1. CASE Stat(r)
    BY <1>1, OkKeep DEF Stat, Goto, InFlight, Labels, LateLabels
  <1>2. CASE ChunkFile(r)
    BY <1>2, OkKeep DEF ChunkFile, Goto, InFlight, Labels, LateLabels
  <1>3. CASE ReadChunk(r)
    <2> DEFINE d == SubSeq(FileAt(r), NextFrom(r), NextTo(r))
    <2>1. buf' = [buf EXCEPT ![r] = d]
      BY <1>3 DEF ReadChunk
    <2> HIDE DEF d
    <2>2. \A q \in Requests \ {r} : buf'[q] = buf[q]
      BY <2>1 DEF TypeOK
    <2> QED
      BY <1>3, <2>2, OkKeep DEF ReadChunk, Goto, InFlight, Labels, LateLabels
  <1>4. CASE PutChunk(r)
    BY <1>4, OkKeep DEF PutChunk, Goto, InFlight, Labels, LateLabels
  <1>5. CASE PutManifest(r)
    BY <1>5, OkKeep DEF PutManifest, Goto, InFlight, Labels, LateLabels
  <1>6. CASE CheckExists(r)
    BY <1>6, OkKeep DEF CheckExists, Goto, InFlight, Labels, LateLabels
  <1>7. CASE ReadBlob(r)
    <2>1. InFlight(r)
      BY <1>7 DEF ReadBlob, InFlight, LateLabels
    <2>2. fd[r] # NoFile /\ dirent[TmpName[r]] = fd[r] /\ inode[fd[r]] = SubSeq(Body[r], 1, sent[r])
      BY <2>1 DEF OkInv, Spooled
    <2>3. Exists(r) /\ FileAt(r) = SubSeq(Body[r], 1, sent[r])
      BY <2>2 DEF Exists, FileAt
    <2>4. buf' = [buf EXCEPT ![r] = FileAt(r)]
      BY <1>7, <2>3 DEF ReadBlob
    <2>5. /\ \A q \in Requests \ {r} : buf'[q] = buf[q]
          /\ buf'[r] = SubSeq(Body[r], 1, sent[r])
      BY <2>3, <2>4 DEF TypeOK
    <2> QED
      BY <1>7, <2>1, <2>5, OkKeep DEF ReadBlob, Goto, Labels, LateLabels
  <1>8. CASE PutBlob(r)
    <2>1. buf[r] = SubSeq(Body[r], 1, sent[r])
      BY <1>8 DEF PutBlob, OkInv, Progress
    <2>2. sent[r] = Len(Body[r]) => buf[r] = Body[r]
      BY <2>1, WholeBody, ConstantsAssumption
    <2>3. sent[r] = Len(Body[r]) => RawBlob(Body[r]) \in store'
      BY <1>8, <2>2 DEF PutBlob
    <2> QED
      BY <1>8, <2>3, OkKeep DEF PutBlob, Goto, InFlight, Labels, LateLabels
  <1>9. CASE Finish(r)
    <2>1. sent[r] = Len(Body[r]) => RawBlob(Body[r]) \in store
      BY <1>9 DEF Finish, OkInv, Progress
    <2> QED
      BY <1>9, <2>1, OkAnswer DEF Finish, RemoveFile, Unlink, Abandon, InFlight, LateLabels
  <1>10. CASE \/ StatFails(r) \/ ChunkFileFails(r) \/ ReadChunkFails(r)
             \/ ManifestFails(r) \/ PutFails(r)
    <2>1. Fail(r) /\ InFlight(r) /\ store \subseteq store'
      BY <1>10 DEF StatFails, ChunkFileFails, ReadChunkFails, ManifestFails, PutFails, InFlight, LateLabels
    <2> QED
      BY <2>1, OkAnswer DEF Fail, RemoveFile, Unlink, Abandon, InFlight
  <1> QED
    BY <1>1, <1>2, <1>3, <1>4, <1>5, <1>6, <1>7, <1>8, <1>9, <1>10 DEF Work

\* No upload has begun.
LEMMA OkInit == Init => OkInv
  <1> SUFFICES ASSUME Init
               PROVE  OkInv
    OBVIOUS
  <1>1. \A r \in Requests : ~InFlight(r)
    BY DEF Init, InFlight
  <1>2. OneAtATime /\ Spooled
    BY <1>1 DEF OneAtATime, Spooled
  <1>3. Progress
    <2>1. \A r \in Requests : Body[r] \in Seq(Units) /\ 0 \in 0 .. Len(Body[r])
      BY ConstantsAssumption
    <2>2. \A r \in Requests : sent[r] = 0 /\ ~lost[r] /\ pc[r] = "idle" /\ resp[r] = "none"
      BY DEF Init
    <2> QED
      BY <2>1, <2>2 DEF Progress
  <1>4. OkImpliesStored
    BY DEF Init, OkImpliesStored, Accepted
  <1> QED
    BY <1>2, <1>3, <1>4 DEF OkInv

\* OkInv is inductive, given the other two.
LEMMA OkStep ==
  ASSUME "late" \notin Faults, "silent_disk" \notin Faults
  PROVE  TypeOK /\ TmpInv /\ OkInv /\ [ExclusiveNext]_vars => OkInv'
  <1> SUFFICES ASSUME TypeOK, TmpInv, OkInv, [ExclusiveNext]_vars
               PROVE  OkInv'
    OBVIOUS
  <1> USE DEF fileVars, history, spoolVars, chunkVars
  <1>1. ASSUME NEW r \in Requests, StartAlone(r)
        PROVE  OkInv'
    <2>1. CASE Reject(r)
      <3>1. /\ pc[r] # "done" /\ Answer(r, "rejected")
            /\ dirent' = dirent /\ inode' = inode /\ store' = store /\ buf' = buf
            /\ UNCHANGED spoolVars
        BY <2>1 DEF Reject
      <3> QED
        BY <3>1, OkAnswer
    <2>2. CASE CreatePanics(r)
      <3>1. /\ pc[r] # "done" /\ Answer(r, "gone")
            /\ dirent' = dirent /\ inode' = inode /\ store' = store /\ buf' = buf
            /\ UNCHANGED spoolVars
        BY <2>2 DEF CreatePanics
      <3> QED
        BY <3>1, OkAnswer
    <2> QED
      BY <1>1, <2>1, <2>2, OkCreate DEF StartAlone, CreateDropped, Abandon
  <1>2. ASSUME NEW r \in Requests, Spool(r)
        PROVE  OkInv'
    <2>1. CASE WriteFrame(r)
      BY <2>1, OkWrite
    <2>2. CASE LoseFrame(r)
      BY <2>2 DEF LoseFrame
    <2>3. CASE WriteFails(r)
      BY <2>3, OkAnswer DEF WriteFails, Fail, RemoveFile, Unlink, Abandon, InFlight, LateLabels
    <2>4. CASE EndBody(r)
      BY <2>4, OkKeep DEF EndBody, Goto, InFlight, Labels, LateLabels
    <2> QED
      BY <1>2, <2>1, <2>2, <2>3, <2>4 DEF Spool, WriteDropped, Abandon
  <1>3. ASSUME NEW r \in Requests, Work(r)
        PROVE  OkInv'
    BY <1>3, OkWork
  <1>4. ASSUME NEW r \in Requests, Drop(r)
        PROVE  OkInv'
    <2>1. pc[r] \notin LateLabels
      BY DEF TypeOK
    <2>2. Cancel(r)
      BY <1>4, <2>1 DEF Drop, LateCreate, LateWrite, LateRemove, LateLabels
    <2> QED
      BY <2>2, OkAnswer DEF Cancel, InFlight
  <1>5. CASE Crash
    BY <1>5 DEF TypeOK, Crash, InFlight, OkInv, OneAtATime, Spooled, Progress,
                OkImpliesStored, Accepted
  <1>6. CASE UNCHANGED vars
    BY <1>6 DEF vars, InFlight, OkInv, OneAtATime, Spooled, Progress, OkImpliesStored, Accepted
  <1> QED
    BY <1>1, <1>2, <1>3, <1>4, <1>5, <1>6 DEF ExclusiveNext

\* Uploads in turn are uploads.
LEMMA ExclusiveIsSpec == ExclusiveSpec => Spec
  <1>1. [ExclusiveNext]_vars => [Next]_vars
    BY DEF ExclusiveNext, StartAlone, Next, Start
  <1> QED
    BY <1>1, PTL DEF Spec, ExclusiveSpec

\* All three hold throughout.
LEMMA OkInvariant ==
  ASSUME "late" \notin Faults, "silent_disk" \notin Faults
  PROVE  ExclusiveSpec => [](TypeOK /\ TmpInv /\ OkInv)
  BY Typing, TmpInvariant, OkInit, OkStep, ExclusiveIsSpec, PTL DEF ExclusiveSpec

\* With one upload at a time per temporary file, a disk whose errors are not
\* dropped and no file operation left behind by a dropped handler, a 200 for a
\* whole body means that the content of the oid is on the server: through
\* retries, hang-ups, crashes and failed calls (daemon.rs:556-658).
THEOREM OkMeansStored ==
  ASSUME "late" \notin Faults, "silent_disk" \notin Faults
  PROVE  ExclusiveSpec => []OkImpliesStored
  <1>1. OkInv => OkImpliesStored
    BY DEF OkInv
  <1> QED
    BY OkInvariant, <1>1, PTL

=============================================================================
