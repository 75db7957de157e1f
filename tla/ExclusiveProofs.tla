--------------------------- MODULE ExclusiveProofs ---------------------------
(***************************************************************************)
(* Theorems about uploads that have their temporary files to themselves,   *)
(* on a disk whose errors are not dropped, with no file operation left     *)
(* behind by a dropped handler: a manifest describes one uploaded file,    *)
(* and the handlers implement ObjectStore.                                 *)
(*                                                                         *)
(* Both rest on OkInv of UploadProofs, by which a handler finds in the     *)
(* file what it spooled there, and on what it has cut so far.              *)
(***************************************************************************)
EXTENDS UploadRefines, UploadProofs, Joins

\* What the handler of r has cut, at each label of upload_chunked.
HasCut(r) ==
  /\ pc[r] \in {"idle", "body", "stat", "plan"} => hashes[r] = <<>>
  /\ pc[r] \in {"plan", "read", "put", "manifest"} => size[r] = sent[r]
  /\ pc[r] \in {"read", "put"} =>
       /\ extent[r] = sent[r]
       /\ Len(hashes[r]) * ChunkSize < extent[r]
       /\ Joined(hashes[r]) = SubSeq(Body[r], 1, Len(hashes[r]) * ChunkSize)
  /\ pc[r] = "put" => buf[r] = SubSeq(Body[r], NextFrom(r), NextTo(r))
  /\ pc[r] = "manifest" => Joined(hashes[r]) = SubSeq(Body[r], 1, sent[r])

CutInv == \A r \in Requests : HasCut(r)

ExclusiveInv == TypeOK /\ TmpInv /\ OkInv /\ CutInv

-----------------------------------------------------------------------------
(* Chunks *)

\* A later part of a prefix is the part of the whole.
LEMMA PartOfPrefix ==
  ASSUME NEW d \in Seq(Units), NEW n \in 0 .. Len(d), NEW i \in Nat \ {0}, NEW j \in Nat, j <= n
  PROVE  SubSeq(SubSeq(d, 1, n), i, j) = SubSeq(d, i, j)
  <1> DEFINE f == SubSeq(d, 1, n)
  <1>1. f \in Seq(Units) /\ Len(f) = n /\ \A k \in 1 .. n : f[k] = d[k]
    OBVIOUS
  <1>2. SubSeq(f, i, j) = [k \in 1 .. j - i + 1 |-> f[i + k - 1]]
    OBVIOUS
  <1>3. SubSeq(d, i, j) = [k \in 1 .. j - i + 1 |-> d[i + k - 1]]
    OBVIOUS
  <1>4. \A k \in 1 .. j - i + 1 : f[i + k - 1] = d[i + k - 1]
    BY <1>1
  <1> QED
    BY <1>2, <1>3, <1>4

\* A prefix and the part that follows it.
LEMMA LongerPrefix ==
  ASSUME NEW d \in Seq(Units), NEW m \in Nat, NEW n \in Nat, m <= n, n <= Len(d)
  PROVE  SubSeq(d, 1, m) \o SubSeq(d, m + 1, n) = SubSeq(d, 1, n)
  <1>1. 1 \in 1 .. Len(d) + 1 /\ m \in 1 - 1 .. Len(d) /\ n \in m .. Len(d)
    OBVIOUS
  <1> QED
    BY <1>1, ConcatAdjacentSubSeq

\* The file under the path of a running handler.
LEMMA OwnFile ==
  ASSUME TypeOK, OkInv, NEW r \in Requests, InFlight(r)
  PROVE  /\ Exists(r) /\ FileAt(r) = SubSeq(Body[r], 1, sent[r])
         /\ sent[r] \in 0 .. Len(Body[r]) /\ sent[r] \in Nat /\ Body[r] \in Seq(Units)
         /\ Len(FileAt(r)) = sent[r]
  <1>1. fd[r] # NoFile /\ dirent[TmpName[r]] = fd[r] /\ inode[fd[r]] = SubSeq(Body[r], 1, sent[r])
    BY DEF OkInv, Spooled
  <1>2. Exists(r) /\ FileAt(r) = SubSeq(Body[r], 1, sent[r])
    BY <1>1 DEF Exists, FileAt
  <1>3. sent[r] \in 0 .. Len(Body[r]) /\ Body[r] \in Seq(Units)
    BY ConstantsAssumption DEF OkInv, Progress
  <1>4. Len(SubSeq(Body[r], 1, sent[r])) = sent[r]
    BY <1>3
  <1> QED
    BY <1>2, <1>3, <1>4

-----------------------------------------------------------------------------
(* What a handler has cut *)

\* A handler that does nothing has cut what it had.
LEMMA CutSame ==
  ASSUME NEW q \in Requests, HasCut(q),
         pc'[q] = pc[q], size'[q] = size[q], extent'[q] = extent[q], hashes'[q] = hashes[q],
         buf'[q] = buf[q], sent'[q] = sent[q]
  PROVE  HasCut(q)'
  BY DEF HasCut, NextFrom, NextTo

\* Neither has one that is past its chunks, or ends.
LEMMA CutPast ==
  ASSUME NEW q \in Requests, pc'[q] \notin {"idle", "body", "stat", "plan", "read", "put", "manifest"}
  PROVE  HasCut(q)'
  BY DEF HasCut

\* A step of one handler moves nothing of another.
Only(r) ==
  \A q \in Requests \ {r} :
    /\ pc'[q] = pc[q] /\ size'[q] = size[q] /\ extent'[q] = extent[q]
    /\ hashes'[q] = hashes[q] /\ buf'[q] = buf[q] /\ sent'[q] = sent[q]

\* A step of one handler leaves what the others have cut.
LEMMA CutByOne ==
  ASSUME CutInv, NEW r \in Requests, Only(r), HasCut(r)'
  PROVE  CutInv'
  <1>1. ASSUME NEW q \in Requests \ {r}
        PROVE  HasCut(q)'
    BY CutSame DEF CutInv, Only
  <1> QED
    BY <1>1 DEF CutInv

\* A handler that ends holds nothing.
LEMMA CutEnd ==
  ASSUME TypeOK, CutInv, NEW r \in Requests, NEW l \in {"done"} \cup LateLabels,
         pc' = [pc EXCEPT ![r] = l], UNCHANGED chunkVars, sent' = sent
  PROVE  CutInv'
  <1>1. pc'[r] = l /\ \A q \in Requests \ {r} : pc'[q] = pc[q]
    BY DEF TypeOK
  <1>2. Only(r)
    BY <1>1 DEF Only, chunkVars
  <1>3. HasCut(r)'
    BY <1>1, CutPast DEF LateLabels
  <1> QED
    BY <1>2, <1>3, CutByOne

\* Every error path ends so.
LEMMA CutFail ==
  ASSUME TypeOK, CutInv, NEW r \in Requests, Fail(r)
  PROVE  CutInv'
  <1>1. /\ UNCHANGED chunkVars /\ sent' = sent
        /\ pc' = [pc EXCEPT ![r] = "done"] \/ pc' = [pc EXCEPT ![r] = "removing"]
    BY DEF Fail, RemoveFile, Answer, Abandon, spoolVars
  <1> QED
    BY <1>1, CutEnd DEF LateLabels

\* The next chunk: cut from the file, it is cut from the body.
LEMMA CutRead ==
  ASSUME TypeOK, OkInv, CutInv, NEW r \in Requests, ReadChunk(r)
  PROVE  HasCut(r)'
  <1>1. pc[r] = "read" /\ pc' = [pc EXCEPT ![r] = "put"] /\ NextTo(r) <= Len(FileAt(r))
        /\ buf' = [buf EXCEPT ![r] = SubSeq(FileAt(r), NextFrom(r), NextTo(r))]
        /\ sent' = sent /\ size' = size /\ extent' = extent /\ hashes' = hashes
    BY DEF ReadChunk, ChunkReadable, Goto, spoolVars
  <1>2. InFlight(r)
    BY <1>1 DEF InFlight, LateLabels
  <1>3. /\ FileAt(r) = SubSeq(Body[r], 1, sent[r]) /\ sent[r] \in 0 .. Len(Body[r])
        /\ Body[r] \in Seq(Units) /\ Len(FileAt(r)) = sent[r]
    BY <1>2, OwnFile
  <1> DEFINE k == Len(hashes[r])
  <1>4. k \in Nat /\ ChunkSize \in Nat /\ extent[r] \in Nat
    BY ConstantsAssumption DEF TypeOK
  <1>5. k * ChunkSize \in Nat /\ (k + 1) * ChunkSize \in Nat
    BY <1>4
  <1>6. NextFrom(r) \in Nat \ {0} /\ NextTo(r) \in Nat
    BY <1>4, <1>5 DEF NextFrom, NextTo, Smaller
  <1>7. SubSeq(FileAt(r), NextFrom(r), NextTo(r)) = SubSeq(Body[r], NextFrom(r), NextTo(r))
    <2> DEFINE i == NextFrom(r)
               j == NextTo(r)
               d == Body[r]
               n == sent[r]
    <2>1. d \in Seq(Units) /\ n \in 0 .. Len(d) /\ i \in Nat \ {0} /\ j \in Nat /\ j <= n
      BY <1>1, <1>3, <1>6
    <2>2. FileAt(r) = SubSeq(d, 1, n)
      BY <1>3
    <2> HIDE DEF i, j, d, n
    <2>3. SubSeq(SubSeq(d, 1, n), i, j) = SubSeq(d, i, j)
      BY <2>1, PartOfPrefix
    <2> QED
      BY <2>2, <2>3 DEF i, j, d
  <1>8. buf'[r] = SubSeq(Body[r], NextFrom(r), NextTo(r))
    BY <1>1, <1>7 DEF TypeOK
  <1>9. NextFrom(r)' = NextFrom(r) /\ NextTo(r)' = NextTo(r)
    BY <1>1 DEF NextFrom, NextTo
  <1>10. pc'[r] = "put"
    BY <1>1 DEF TypeOK
  <1> HIDE DEF k
  <1>11. HasCut(r)
    BY DEF CutInv
  <1> QED
    BY <1>1, <1>8, <1>9, <1>10, <1>11 DEF HasCut

\* A chunk that is put makes the prefix longer by itself.
LEMMA CutPut ==
  ASSUME TypeOK, OkInv, CutInv, NEW r \in Requests, PutChunk(r)
  PROVE  HasCut(r)'
  <1> DEFINE k == Len(hashes[r])
             w == k * ChunkSize
             v == (k + 1) * ChunkSize
             x == extent[r]
             m == IF v < x THEN "read" ELSE "manifest"
  <1>1. /\ pc[r] = "put" /\ pc' = [pc EXCEPT ![r] = m]
        /\ hashes' = [hashes EXCEPT ![r] = Append(hashes[r], buf[r])]
        /\ sent' = sent /\ size' = size /\ extent' = extent /\ buf' = buf
    BY DEF PutChunk, Goto, spoolVars
  <1>2. /\ InFlight(r) /\ HasCut(r)
    BY <1>1 DEF InFlight, LateLabels, CutInv
  <1>3. sent[r] \in 0 .. Len(Body[r]) /\ Body[r] \in Seq(Units)
    BY <1>2, OwnFile
  <1>4. k \in Nat /\ ChunkSize \in Nat \ {0} /\ x \in Nat /\ hashes[r] \in Seq(Data) /\ buf[r] \in Data
    BY ConstantsAssumption DEF TypeOK
  <1>5. w \in Nat /\ v = w + ChunkSize
    BY <1>4
  <1>6. /\ x = sent[r] /\ w < x /\ Joined(hashes[r]) = SubSeq(Body[r], 1, w)
        /\ buf[r] = SubSeq(Body[r], w + 1, Smaller(v, x)) /\ size[r] = sent[r]
    BY <1>1, <1>2 DEF HasCut, NextFrom, NextTo
  <1>7. hashes'[r] = Append(hashes[r], buf[r])
    BY <1>1 DEF TypeOK
  <1>8. pc'[r] = m /\ sent'[r] = sent[r] /\ size'[r] = size[r] /\ extent'[r] = x
    BY <1>1 DEF TypeOK
  <1>9. Joined(hashes'[r]) = Joined(hashes[r]) \o buf[r]
    BY <1>4, <1>7, JoinedAppend
  <1>10. Len(hashes'[r]) = k + 1
    BY <1>4, <1>7
  <1> HIDE DEF k
  <1> DEFINE z == Smaller(v, x)
  <1>11. Len(hashes'[r]) * ChunkSize = v
    BY <1>10
  <1> HIDE DEF w, v, x
  <1>12. z \in Nat /\ w <= z /\ z <= Len(Body[r]) /\ (v < x => z = v) /\ (~(v < x) => z = x)
    BY <1>3, <1>4, <1>5, <1>6 DEF Smaller
  <1> HIDE DEF z
  <1>13. Joined(hashes'[r]) = SubSeq(Body[r], 1, z)
    <2>1. SubSeq(Body[r], 1, w) \o SubSeq(Body[r], w + 1, z) = SubSeq(Body[r], 1, z)
      BY <1>3, <1>5, <1>12, LongerPrefix
    <2> QED
      BY <1>6, <1>9, <2>1 DEF z
  <1>14. CASE v < x
    BY <1>6, <1>8, <1>11, <1>12, <1>13, <1>14 DEF HasCut
  <1>15. CASE ~(v < x)
    BY <1>6, <1>8, <1>12, <1>13, <1>15 DEF HasCut
  <1> QED
    BY <1>14, <1>15

\* No handler has begun.
LEMMA CutInit == Init => CutInv
  <1> SUFFICES ASSUME Init, NEW r \in Requests
               PROVE  HasCut(r)
    BY DEF CutInv
  <1>1. pc[r] = "idle" /\ hashes[r] = <<>>
    BY DEF Init
  <1> QED
    BY <1>1 DEF HasCut

\* An upload starts with no chunks.
LEMMA CutStart ==
  ASSUME TypeOK, CutInv, NEW r \in Requests, Start(r)
  PROVE  CutInv'
  <1> USE DEF chunkVars, spoolVars
  <1>1. CASE Reject(r) \/ CreatePanics(r)
    BY <1>1, CutEnd DEF Reject, CreatePanics, Answer
  <1>2. CASE CreateDropped(r)
    BY <1>2, CutEnd DEF CreateDropped, Abandon, LateLabels
  <1>3. CASE CreateFile(r)
    <2>1. /\ pc[r] = "idle" /\ pc' = [pc EXCEPT ![r] = "body"] /\ UNCHANGED chunkVars /\ sent' = sent
      BY <1>3 DEF CreateFile, Goto
    <2>2. Only(r) /\ pc'[r] = "body" /\ hashes'[r] = hashes[r]
      BY <2>1 DEF Only, TypeOK
    <2>3. HasCut(r)'
      BY <2>1, <2>2 DEF CutInv, HasCut
    <2> QED
      BY <2>2, <2>3, CutByOne
  <1> QED
    BY <1>1, <1>2, <1>3 DEF Start

\* Spooling cuts nothing.
LEMMA CutSpool ==
  ASSUME TypeOK, CutInv, NEW r \in Requests, Spool(r)
  PROVE  CutInv'
  <1>1. CASE WriteFrame(r) \/ LoseFrame(r) \/ EndBody(r)
    <2>1. /\ pc[r] = "body" /\ UNCHANGED chunkVars
          /\ pc' = pc \/ pc' = [pc EXCEPT ![r] = "stat"]
          /\ sent' = sent \/ sent' = [sent EXCEPT ![r] = @ + 1]
      BY <1>1 DEF WriteFrame, LoseFrame, EndBody, Goto, spoolVars
    <2>2. Only(r) /\ pc'[r] \in {"body", "stat"} /\ hashes'[r] = hashes[r]
      BY <2>1 DEF Only, TypeOK, chunkVars
    <2>3. HasCut(r)'
      <3>1. hashes[r] = <<>>
        BY <2>1 DEF CutInv, HasCut
      <3> QED
        BY <2>2, <3>1 DEF HasCut
    <2> QED
      BY <2>2, <2>3, CutByOne
  <1>2. CASE WriteFails(r)
    BY <1>2, CutFail DEF WriteFails
  <1>3. CASE WriteDropped(r)
    BY <1>3, CutEnd DEF WriteDropped, Abandon, LateLabels, spoolVars
  <1> QED
    BY <1>1, <1>2, <1>3 DEF Spool

\* Measuring, reading, storing a chunk, and the manifest.
LEMMA CutWork ==
  ASSUME TypeOK, OkInv, CutInv, NEW r \in Requests, Work(r)
  PROVE  CutInv'
  <1> USE DEF spoolVars
  <1>0. HasCut(r)
    BY DEF CutInv
  <1>1. CASE Stat(r)
    <2> DEFINE l == IF Len(FileAt(r)) > ChunkSize THEN "plan" ELSE "check"
    <2>1. /\ pc[r] = "stat" /\ pc' = [pc EXCEPT ![r] = l] /\ size' = [size EXCEPT ![r] = Len(FileAt(r))]
          /\ sent' = sent /\ extent' = extent /\ hashes' = hashes /\ buf' = buf
      BY <1>1 DEF Stat, Goto
    <2>2. Len(FileAt(r)) = sent[r]
      BY <2>1, OwnFile DEF InFlight, LateLabels
    <2> HIDE DEF l
    <2>3. Only(r) /\ pc'[r] \in {"plan", "check"} /\ hashes'[r] = hashes[r] /\ sent'[r] = sent[r]
          /\ size'[r] = sent[r]
      BY <2>1, <2>2 DEF Only, TypeOK, l
    <2>4. HasCut(r)'
      BY <1>0, <2>1, <2>3 DEF HasCut
    <2> QED
      BY <2>3, <2>4, CutByOne
  <1>2. CASE ChunkFile(r)
    <2> DEFINE l == IF FileAt(r) = <<>> THEN "manifest" ELSE "read"
    <2>1. /\ pc[r] = "plan" /\ pc' = [pc EXCEPT ![r] = l] /\ extent' = [extent EXCEPT ![r] = Len(FileAt(r))]
          /\ sent' = sent /\ size' = size /\ hashes' = hashes /\ buf' = buf
      BY <1>2 DEF ChunkFile, Goto
    <2>2. /\ Len(FileAt(r)) = sent[r] /\ FileAt(r) = SubSeq(Body[r], 1, sent[r])
          /\ sent[r] \in Nat /\ Body[r] \in Seq(Units)
      BY <2>1, OwnFile DEF InFlight, LateLabels
    <2>3. SubSeq(Body[r], 1, 0) = <<>>
      BY <2>2
    <2> HIDE DEF l
    <2>4. /\ Only(r) /\ pc'[r] = l /\ hashes'[r] = hashes[r] /\ sent'[r] = sent[r]
          /\ size'[r] = size[r] /\ extent'[r] = sent[r]
      BY <2>1, <2>2 DEF Only, TypeOK
    <2>5. hashes[r] = <<>> /\ size[r] = sent[r]
      BY <1>0, <2>1 DEF HasCut
    <2>6. Joined(hashes'[r]) = SubSeq(Body[r], 1, 0)
      BY <2>3, <2>4, <2>5, JoinedEmpty
    <2>7. ASSUME sent[r] = 0
          PROVE  HasCut(r)'
      <3>1. FileAt(r) = <<>>
        BY <2>2, <2>3, <2>7
      <3>2. pc'[r] = "manifest"
        BY <2>4, <3>1 DEF l
      <3> QED
        <4>1. size'[r] = sent'[r] /\ Joined(hashes'[r]) = SubSeq(Body[r], 1, sent'[r])
          BY <2>4, <2>5, <2>6, <2>7
        <4> QED
          BY <3>2, <4>1 DEF HasCut
    <2>8. ASSUME sent[r] # 0
          PROVE  HasCut(r)'
      <3>1. FileAt(r) # <<>>
        BY <2>2, <2>8
      <3>2. pc'[r] = "read" /\ 0 < sent[r]
        BY <2>2, <2>4, <2>8, <3>1 DEF l
      <3>3. Len(hashes'[r]) * ChunkSize = 0
        BY <2>4, <2>5, ConstantsAssumption
      <3> QED
        <4>1. /\ size'[r] = sent'[r] /\ extent'[r] = sent'[r]
              /\ Len(hashes'[r]) * ChunkSize < extent'[r]
              /\ Joined(hashes'[r]) = SubSeq(Body[r], 1, Len(hashes'[r]) * ChunkSize)
          BY <2>4, <2>5, <2>6, <3>2, <3>3
        <4> QED
          BY <3>2, <4>1 DEF HasCut
    <2> QED
      BY <2>4, <2>7, <2>8, CutByOne
  <1>3. CASE ReadChunk(r)
    <2>1. Only(r)
      <3> DEFINE d == SubSeq(FileAt(r), NextFrom(r), NextTo(r))
      <3>1. /\ pc' = [pc EXCEPT ![r] = "put"] /\ buf' = [buf EXCEPT ![r] = d]
            /\ sent' = sent /\ size' = size /\ extent' = extent /\ hashes' = hashes
        BY <1>3 DEF ReadChunk, Goto
      <3> HIDE DEF d
      <3> QED
        BY <3>1 DEF Only, TypeOK
    <2> QED
      BY <1>3, <2>1, CutRead, CutByOne
  <1>4. CASE PutChunk(r)
    <2>1. Only(r)
      <3> DEFINE l == IF (Len(hashes[r]) + 1) * ChunkSize < extent[r] THEN "read" ELSE "manifest"
      <3>1. /\ pc' = [pc EXCEPT ![r] = l] /\ hashes' = [hashes EXCEPT ![r] = Append(@, buf[r])]
            /\ sent' = sent /\ size' = size /\ extent' = extent /\ buf' = buf
        BY <1>4 DEF PutChunk, Goto
      <3> HIDE DEF l
      <3> QED
        BY <3>1 DEF Only, TypeOK
    <2> QED
      BY <1>4, <2>1, CutPut, CutByOne
  <1>5. CASE PutManifest(r) \/ CheckExists(r) \/ ReadBlob(r) \/ PutBlob(r)
    <2>1. /\ \E l \in {"check", "finish", "blob", "send"} : pc' = [pc EXCEPT ![r] = l]
          /\ buf' = buf \/ \E d : buf' = [buf EXCEPT ![r] = d]
          /\ sent' = sent /\ size' = size /\ extent' = extent /\ hashes' = hashes
      BY <1>5 DEF PutManifest, CheckExists, ReadBlob, PutBlob, Goto, chunkVars
    <2>2. Only(r) /\ pc'[r] \in {"check", "finish", "blob", "send"}
      BY <2>1 DEF Only, TypeOK
    <2>3. HasCut(r)'
      BY <2>2, CutPast
    <2> QED
      BY <2>2, <2>3, CutByOne
  <1>6. CASE StatFails(r) \/ ChunkFileFails(r) \/ ReadChunkFails(r) \/ ManifestFails(r) \/ PutFails(r)
    BY <1>6, CutFail DEF StatFails, ChunkFileFails, ReadChunkFails, ManifestFails, PutFails
  <1>7. CASE Finish(r)
    <2>1. /\ UNCHANGED chunkVars /\ sent' = sent
          /\ pc' = [pc EXCEPT ![r] = "done"] \/ pc' = [pc EXCEPT ![r] = "removing"]
      BY <1>7 DEF Finish, RemoveFile, Answer, Abandon
    <2> QED
      BY <2>1, CutEnd DEF LateLabels
  <1> QED
    BY <1>1, <1>2, <1>3, <1>4, <1>5, <1>6, <1>7 DEF Work

\* CutInv is inductive, given OkInv.
LEMMA CutStep == TypeOK /\ OkInv /\ CutInv /\ [ExclusiveNext]_vars => CutInv'
  <1> SUFFICES ASSUME TypeOK, OkInv, CutInv, [ExclusiveNext]_vars
               PROVE  CutInv'
    OBVIOUS
  <1>1. ASSUME NEW r \in Requests, StartAlone(r)
        PROVE  CutInv'
    BY <1>1, CutStart DEF StartAlone, Start
  <1>2. ASSUME NEW r \in Requests, Drop(r)
        PROVE  CutInv'
    <2>1. pc' = [pc EXCEPT ![r] = "done"] /\ UNCHANGED chunkVars /\ sent' = sent
      BY <1>2 DEF Drop, Cancel, LateCreate, LateWrite, LateRemove, Answer, Goto, spoolVars
    <2> QED
      BY <2>1, CutEnd
  <1>3. CASE Crash
    <2> SUFFICES ASSUME NEW r \in Requests
                 PROVE  HasCut(r)'
      BY DEF CutInv
    <2>1. pc'[r] = (IF pc[r] = "idle" THEN "idle" ELSE "done") /\ hashes' = hashes
      BY <1>3 DEF Crash, chunkVars
    <2>2. CASE pc[r] = "idle"
      BY <2>1, <2>2 DEF CutInv, HasCut
    <2>3. CASE pc[r] # "idle"
      BY <2>1, <2>3, CutPast
    <2> QED
      BY <2>2, <2>3
  <1>4. CASE UNCHANGED vars
    BY <1>4, CutSame DEF CutInv, vars, spoolVars, chunkVars
  <1> QED
    BY <1>1, <1>2, <1>3, <1>4, CutSpool, CutWork DEF ExclusiveNext

\* All that is known of such uploads.
LEMMA ExclusiveInvariant ==
  ASSUME "late" \notin Faults, "silent_disk" \notin Faults
  PROVE  ExclusiveSpec => []ExclusiveInv
  <1>1. TypeOK /\ TmpInv /\ OkInv /\ CutInv <=> ExclusiveInv
    BY DEF ExclusiveInv
  <1> QED
    BY OkInvariant, CutInit, CutStep, <1>1, PTL DEF ExclusiveSpec

-----------------------------------------------------------------------------
(* Manifests *)

Fits(b) ==
  /\ b.file_size = Len(Reassembled(b))
  /\ \E r \in Requests : /\ b.file_size <= Len(Body[r])
                         /\ Reassembled(b) = SubSeq(Body[r], 1, b.file_size)

\* The manifest about to be stored describes the body.
LEMMA ManifestFits ==
  ASSUME TypeOK, OkInv, CutInv, NEW r \in Requests, pc[r] = "manifest"
  PROVE  Fits(ManifestBlob(size[r], hashes[r]))
  <1> DEFINE b == ManifestBlob(size[r], hashes[r])
  <1>1. b.file_size = size[r] /\ b.chunk_hashes = hashes[r]
    BY DEF ManifestBlob
  <1>2. size[r] = sent[r] /\ Joined(hashes[r]) = SubSeq(Body[r], 1, sent[r])
    BY DEF CutInv, HasCut
  <1>3. sent[r] \in 0 .. Len(Body[r]) /\ Body[r] \in Seq(Units)
    BY OwnFile DEF InFlight, LateLabels
  <1>4. Reassembled(b) = Joined(b.chunk_hashes)
    BY DEF Reassembled, Joined
  <1> HIDE DEF b
  <1>5. Reassembled(b) = SubSeq(Body[r], 1, sent[r]) /\ b.file_size = sent[r]
    BY <1>1, <1>2, <1>4
  <1>6. Len(SubSeq(Body[r], 1, sent[r])) = sent[r] /\ sent[r] <= Len(Body[r])
    BY <1>3
  <1>7. Fits(b)
    BY <1>5, <1>6 DEF Fits
  <1> QED
    BY <1>7 DEF b

\* What a step adds to the manifests on the server: those of handlers that have
\* cut their whole file.
LEMMA NewManifests ==
  ASSUME TypeOK, [ExclusiveNext]_vars, NEW b \in Manifests'
  PROVE  \/ b \in Manifests
         \/ \E r \in Requests : pc[r] = "manifest" /\ b = ManifestBlob(size[r], hashes[r])
  <1> USE DEF Manifests
  <1>1. ASSUME NEW r \in Requests, Work(r)
        PROVE  store' = store \/ store' = store \cup {Outgoing(r)}
    BY <1>1 DEF Work, Stat, StatFails, ChunkFile, ChunkFileFails, ReadChunk, ReadChunkFails, PutChunk, PutManifest,
                ManifestFails, CheckExists, ReadBlob, PutBlob, PutFails, Finish, Outgoing
  <1>2. ASSUME NEW r \in Requests, StartAlone(r) \/ Spool(r) \/ Drop(r)
        PROVE  store' = store
    BY <1>2 DEF StartAlone, Reject, CreatePanics, CreateFile, CreateDropped, Spool, WriteFrame, LoseFrame,
                WriteDropped, WriteFails, EndBody, Drop, Cancel, LateCreate, LateWrite, LateRemove
  <1>3. CASE Crash \/ UNCHANGED vars
    BY <1>3 DEF Crash, vars
  <1>4. ASSUME NEW r \in Requests, store' = store \cup {Outgoing(r)}
        PROVE  b \in Manifests \/ (pc[r] = "manifest" /\ b = ManifestBlob(size[r], hashes[r]))
    BY <1>4 DEF Outgoing, RawBlob
  <1>5. CASE \E r \in Requests : StartAlone(r) \/ Spool(r) \/ Work(r) \/ Drop(r)
    BY <1>1, <1>2, <1>4, <1>5
  <1> QED
    BY <1>3, <1>5 DEF ExclusiveNext

\* A manifest that an upload stores describes one uploaded file: chunk_file,
\* read_chunk and Manifest::new look at the same bytes, those that arrived.
THEOREM ManifestsReassemble ==
  ASSUME "late" \notin Faults, "silent_disk" \notin Faults
  PROVE  ExclusiveSpec => []ManifestReassembles
  <1>1. Init => ManifestReassembles
    BY DEF Init, ManifestReassembles, Manifests
  <1>2. ExclusiveInv /\ ManifestReassembles /\ [ExclusiveNext]_vars => ManifestReassembles'
    <2> SUFFICES ASSUME ExclusiveInv, ManifestReassembles, [ExclusiveNext]_vars, NEW b \in Manifests'
                 PROVE  Fits(b)
      BY DEF ManifestReassembles, Fits
    <2>1. CASE b \in Manifests
      BY <2>1 DEF ManifestReassembles, Fits
    <2>2. CASE \E r \in Requests : pc[r] = "manifest" /\ b = ManifestBlob(size[r], hashes[r])
      BY <2>2, ManifestFits DEF ExclusiveInv
    <2> QED
      BY <2>1, <2>2, NewManifests DEF ExclusiveInv
  <1> QED
    BY ExclusiveInvariant, <1>1, <1>2, PTL DEF ExclusiveSpec

-----------------------------------------------------------------------------
(* The object store that the handlers implement *)

Stored == {o \in Objects : RawBlob(o) \in store}

Status == [r \in Requests |-> StatusOf(r)]

\* The parts of its object that the upload of r may store.
PartsOf(r) == Objects \cap Slices(Body[r])

\* A part of a body between two positions is a slice of it.
LEMMA SliceOf ==
  ASSUME NEW d, NEW i \in 1 .. Len(d) + 1, NEW j \in 0 .. Len(d)
  PROVE  SubSeq(d, i, j) \in Slices(d)
  BY DEF Slices

\* A chunk, and what arrived of a body, are runs of units of it.
LEMMA ChunksAreSlices ==
  ASSUME ExclusiveInv, NEW r \in Requests, pc[r] \in {"put", "send"}
  PROVE  buf[r] \in Slices(Body[r])
  <1>1. sent[r] \in 0 .. Len(Body[r]) /\ Body[r] \in Seq(Units)
    BY OwnFile DEF ExclusiveInv, InFlight, LateLabels
  <1>2. Len(Body[r]) \in Nat
    BY <1>1
  <1>3. CASE pc[r] = "put"
    <2> DEFINE w == Len(hashes[r]) * ChunkSize
               v == (Len(hashes[r]) + 1) * ChunkSize
    <2>1. /\ w < extent[r] /\ extent[r] = sent[r]
          /\ buf[r] = SubSeq(Body[r], w + 1, Smaller(v, extent[r]))
      BY <1>3 DEF ExclusiveInv, CutInv, HasCut, NextFrom, NextTo
    <2>2. w \in Nat /\ v \in Nat
      BY ConstantsAssumption DEF ExclusiveInv, TypeOK
    <2> HIDE DEF w, v
    <2>3. w + 1 \in 1 .. Len(Body[r]) + 1 /\ Smaller(v, extent[r]) \in 0 .. Len(Body[r])
      BY <1>1, <1>2, <2>1, <2>2 DEF Smaller
    <2>4. SubSeq(Body[r], w + 1, Smaller(v, extent[r])) \in Slices(Body[r])
      BY <2>3, SliceOf
    <2> QED
      BY <2>1, <2>4
  <1>4. CASE pc[r] = "send"
    <2>1. buf[r] = SubSeq(Body[r], 1, sent[r])
      BY <1>4 DEF ExclusiveInv, OkInv, Progress
    <2>2. 1 \in 1 .. Len(Body[r]) + 1
      BY <1>2
    <2> QED
      BY <1>1, <2>1, <2>2, SliceOf
  <1> QED
    BY <1>3, <1>4

\* What a handler stores is nothing, a part of its object or a manifest, which
\* is no object.
LEMMA StoresParts ==
  ASSUME ExclusiveInv, NEW r \in Requests,
         \/ store' = store
         \/ pc[r] \in {"put", "send", "manifest"} /\ store' = store \cup {Outgoing(r)}
  PROVE  \E S \in SUBSET PartsOf(r) : Stored' = Stored \cup S
  <1>1. CASE store' = store
    <2>1. Stored' = Stored \cup {}
      BY <1>1 DEF Stored
    <2> QED
      BY <2>1
  <1>2. CASE pc[r] = "manifest" /\ store' = store \cup {Outgoing(r)}
    <2>1. Outgoing(r).kind = "manifest"
      BY <1>2 DEF Outgoing, ManifestBlob
    <2>2. \A o : RawBlob(o) # Outgoing(r)
      BY <2>1 DEF RawBlob
    <2>3. Stored' = Stored \cup {}
      BY <1>2, <2>2 DEF Stored
    <2> QED
      BY <2>3
  <1>3. CASE pc[r] \in {"put", "send"} /\ store' = store \cup {Outgoing(r)}
    <2>1. store' = store \cup {RawBlob(buf[r])}
      BY <1>3 DEF Outgoing
    <2>2. \A o : RawBlob(o) = RawBlob(buf[r]) <=> o = buf[r]
      <3>1. \A o : RawBlob(o).data = o
        BY DEF RawBlob
      <3> QED
        BY <3>1
    <2> DEFINE S == {buf[r]} \cap Objects
    <2>3. Stored' = Stored \cup S
      BY <2>1, <2>2 DEF Stored
    <2>4. S \in SUBSET PartsOf(r)
      BY <1>3, ChunksAreSlices DEF PartsOf
    <2> QED
      BY <2>3, <2>4
  <1> QED
    BY <1>1, <1>2, <1>3

\* The abstract status depends on these three.
LEMMA StatusSame ==
  ASSUME NEW q \in Requests, pc'[q] = pc[q], resp'[q] = resp[q], sent'[q] = sent[q]
  PROVE  StatusOf(q)' = StatusOf(q)
  BY DEF StatusOf, InFlight, Accepted

\* A step of the handler of r changes the status of that upload only.
LEMMA StatusOthers ==
  ASSUME TypeOK, NEW r \in Requests, NEW l, pc' = [pc EXCEPT ![r] = l],
         resp' = resp \/ \E a : resp' = [resp EXCEPT ![r] = a],
         sent' = sent \/ \E n : sent' = [sent EXCEPT ![r] = n]
  PROVE  /\ \A q \in Requests \ {r} : Status'[q] = Status[q]
         /\ Status' = [q \in Requests |-> Status'[q]]
         /\ Status = [q \in Requests |-> Status[q]]
         /\ Status'[r] = StatusOf(r)' /\ Status[r] = StatusOf(r)
  <1>1. \A q \in Requests \ {r} : pc'[q] = pc[q] /\ resp'[q] = resp[q] /\ sent'[q] = sent[q]
    BY DEF TypeOK
  <1>2. \A q \in Requests \ {r} : StatusOf(q)' = StatusOf(q)
    BY <1>1, StatusSame
  <1> QED
    BY <1>2 DEF Status

\* A running handler that goes on is an upload that stores parts.
LEMMA LiftRunning ==
  ASSUME ExclusiveInv, NEW r \in Requests, InFlight(r),
         NEW l \in Labels \ ({"idle", "done"} \cup LateLabels), pc' = [pc EXCEPT ![r] = l], resp' = resp,
         sent' = sent \/ \E n : sent' = [sent EXCEPT ![r] = n],
         \/ store' = store
         \/ pc[r] \in {"put", "send", "manifest"} /\ store' = store \cup {Outgoing(r)}
  PROVE  Abstract!Next
  <1>1. TypeOK /\ pc[r] # "idle"
    BY DEF ExclusiveInv, InFlight
  <1>2. pc'[r] = l
    BY <1>1 DEF TypeOK
  <1>3. StatusOf(r) = "open" /\ StatusOf(r)' = "open"
    BY <1>1, <1>2 DEF StatusOf, InFlight
  <1>4. Status' = Status /\ Status[r] = "open"
    <2>1. /\ \A q \in Requests \ {r} : Status'[q] = Status[q]
          /\ Status' = [q \in Requests |-> Status'[q]]
          /\ Status = [q \in Requests |-> Status[q]]
          /\ Status'[r] = StatusOf(r)' /\ Status[r] = StatusOf(r)
      BY <1>1, StatusOthers
    <2>2. \A q \in Requests : Status'[q] = Status[q]
      BY <1>3, <2>1
    <2> QED
      BY <1>3, <2>1, <2>2
  <1>5. PICK S \in SUBSET PartsOf(r) : Stored' = Stored \cup S
    BY StoresParts
  <1> QED
    BY <1>4, <1>5 DEF Abstract!Next, Abstract!Put, Stored, Status, PartsOf

\* One that fails may have stored a part.
LEMMA LiftFail ==
  ASSUME ExclusiveInv, NEW r \in Requests, InFlight(r), Fail(r), "late" \notin Faults,
         \/ store' = store
         \/ pc[r] \in {"put", "send", "manifest"} /\ store' = store \cup {Outgoing(r)}
  PROVE  Abstract!Next
  <1>1. /\ pc' = [pc EXCEPT ![r] = "done"] /\ resp' = [resp EXCEPT ![r] = "error"] /\ sent' = sent
        /\ pc[r] # "idle" /\ TypeOK
    BY DEF ExclusiveInv, Fail, RemoveFile, Answer, Abandon, spoolVars, InFlight
  <1>2. pc'[r] = "done" /\ resp'[r] = "error"
    BY <1>1 DEF TypeOK
  <1>3. StatusOf(r) = "open" /\ StatusOf(r)' = "failed"
    BY <1>1, <1>2 DEF StatusOf, InFlight
  <1>4. Status' = [Status EXCEPT ![r] = "failed"] /\ Status[r] = "open"
    BY <1>1, <1>3, StatusOthers
  <1>5. PICK S \in SUBSET PartsOf(r) : Stored' = Stored \cup S
    BY StoresParts
  <1> QED
    BY <1>4, <1>5 DEF Abstract!Next, Abstract!Fail, Stored, Status, PartsOf

\* The connection of a handler that is dropped or panics is cut.
LEMMA LiftCut ==
  ASSUME ExclusiveInv, NEW r \in Requests, pc[r] = "idle" \/ InFlight(r), Answer(r, "gone"),
         sent' = sent, store' = store
  PROVE  Abstract!Next
  <1>1. /\ pc' = [pc EXCEPT ![r] = "done"] /\ resp' = [resp EXCEPT ![r] = "gone"] /\ TypeOK
    BY DEF ExclusiveInv, Answer
  <1>2. pc'[r] = "done" /\ resp'[r] = "gone"
    BY <1>1 DEF TypeOK
  <1>3. StatusOf(r) \in {"new", "open"} /\ StatusOf(r)' = "cut"
    BY <1>1, <1>2 DEF StatusOf, InFlight, Accepted
  <1>4. /\ Status' = [q \in Requests |-> IF q \in {r} THEN "cut" ELSE Status[q]]
        /\ Status[r] \in {"new", "open"}
    BY <1>1, <1>3, StatusOthers
  <1>5. Stored' = Stored
    BY DEF Stored
  <1>6. {r} \in SUBSET {q \in Requests : Status[q] \in {"new", "open"}}
    BY <1>4
  <1>7. Abstract!Cut
    BY <1>4, <1>5, <1>6 DEF Abstract!Cut, Stored, Status
  <1> QED
    BY <1>7 DEF Abstract!Next

\* A handler that starts, is turned down or panics.
LEMMA LiftStart ==
  ASSUME ExclusiveInv, "late" \notin Faults, NEW r \in Requests, StartAlone(r)
  PROVE  Abstract!Next
  <1>0. TypeOK
    BY DEF ExclusiveInv
  <1>1. CASE Reject(r)
    <2>1. /\ pc[r] = "idle" /\ pc' = [pc EXCEPT ![r] = "done"] /\ resp' = [resp EXCEPT ![r] = "rejected"]
          /\ sent' = sent /\ store' = store
      BY <1>1 DEF Reject, Answer, spoolVars
    <2>2. pc'[r] = "done" /\ resp'[r] = "rejected"
      BY <1>0, <2>1 DEF TypeOK
    <2>3. StatusOf(r) = "new" /\ StatusOf(r)' = "failed"
      BY <2>1, <2>2 DEF StatusOf, InFlight
    <2>4. Status' = [Status EXCEPT ![r] = "failed"] /\ Status[r] = "new"
      BY <1>0, <2>1, <2>3, StatusOthers
    <2>5. Stored' = Stored
      BY <2>1 DEF Stored
    <2> QED
      BY <2>4, <2>5 DEF Abstract!Next, Abstract!Refuse, Stored, Status
  <1>2. CASE CreateFile(r)
    <2>1. /\ pc[r] = "idle" /\ pc' = [pc EXCEPT ![r] = "body"] /\ resp' = resp /\ sent' = sent /\ store' = store
      BY <1>2 DEF CreateFile, Goto
    <2>2. pc'[r] = "body"
      BY <1>0, <2>1 DEF TypeOK
    <2>3. StatusOf(r) = "new" /\ StatusOf(r)' = "open"
      BY <2>1, <2>2 DEF StatusOf, InFlight, LateLabels
    <2>4. Status' = [Status EXCEPT ![r] = "open"] /\ Status[r] = "new"
      BY <1>0, <2>1, <2>3, StatusOthers
    <2>5. Stored' = Stored
      BY <2>1 DEF Stored
    <2> QED
      BY <2>4, <2>5 DEF Abstract!Next, Abstract!Open, Stored, Status
  <1>3. CASE CreatePanics(r)
    BY <1>3, LiftCut DEF CreatePanics, spoolVars
  <1>4. ~CreateDropped(r)
    BY DEF CreateDropped, Abandon
  <1> QED
    BY <1>1, <1>2, <1>3, <1>4 DEF StartAlone

\* A 200 for a whole body is an acceptance; one for a fragment goes to a
\* connection that has broken off.
LEMMA LiftFinish ==
  ASSUME ExclusiveInv, "late" \notin Faults, NEW r \in Requests, Finish(r)
  PROVE  Abstract!Next
  <1>1. /\ pc[r] = "finish" /\ pc' = [pc EXCEPT ![r] = "done"] /\ resp' = [resp EXCEPT ![r] = "ok"]
        /\ sent' = sent /\ store' = store /\ TypeOK
    BY DEF ExclusiveInv, Finish, RemoveFile, Answer, Abandon, spoolVars
  <1>2. pc'[r] = "done" /\ resp'[r] = "ok"
    BY <1>1 DEF TypeOK
  <1>3. StatusOf(r) = "open" /\ StatusOf(r)' = (IF sent[r] = Len(Body[r]) THEN "accepted" ELSE "cut")
    BY <1>1, <1>2 DEF StatusOf, InFlight, Accepted, LateLabels
  <1>4. Stored' = Stored
    BY <1>1 DEF Stored
  <1>5. CASE sent[r] = Len(Body[r])
    <2>1. Body[r] \in Stored
      BY <1>1, <1>5 DEF ExclusiveInv, OkInv, Progress, Stored, Objects
    <2>2. Status' = [Status EXCEPT ![r] = "accepted"] /\ Status[r] = "open"
      BY <1>1, <1>3, <1>5, StatusOthers
    <2> QED
      BY <1>4, <2>1, <2>2 DEF Abstract!Next, Abstract!Accept, Stored, Status
  <1>6. CASE sent[r] # Len(Body[r])
    <2>1. /\ Status' = [q \in Requests |-> IF q \in {r} THEN "cut" ELSE Status[q]]
          /\ Status[r] = "open"
      BY <1>1, <1>3, <1>6, StatusOthers
    <2>2. {r} \in SUBSET {q \in Requests : Status[q] \in {"new", "open"}}
      BY <2>1
    <2>3. Abstract!Cut
      BY <1>4, <2>1, <2>2 DEF Abstract!Cut, Stored, Status
    <2> QED
      BY <2>3 DEF Abstract!Next
  <1> QED
    BY <1>5, <1>6

\* Spooling maps to a step of ObjectStore: a cut, a failure, or nothing.
LEMMA LiftSpool ==
  ASSUME ExclusiveInv, "late" \notin Faults, NEW r \in Requests, Spool(r)
  PROVE  Abstract!Next
  <1>0. TypeOK
    BY DEF ExclusiveInv
  <1>1. InFlight(r)
    BY DEF Spool, WriteFrame, LoseFrame, WriteDropped, WriteFails, EndBody, InFlight, LateLabels
  <1>2. CASE WriteFrame(r) \/ LoseFrame(r)
    <2>1. /\ pc[r] = "body" /\ pc' = pc /\ resp' = resp /\ store' = store
          /\ \E n : sent' = [sent EXCEPT ![r] = n]
      BY <1>2 DEF WriteFrame, LoseFrame
    <2>2. pc' = [pc EXCEPT ![r] = "body"]
      BY <1>0, <2>1 DEF TypeOK
    <2> QED
      BY <1>1, <2>1, <2>2, LiftRunning DEF Labels, LateLabels
  <1>3. CASE WriteFails(r)
    BY <1>1, <1>3, LiftFail DEF WriteFails
  <1>4. CASE EndBody(r)
    BY <1>1, <1>4, LiftRunning DEF EndBody, Goto, spoolVars, Labels, LateLabels
  <1>5. ~WriteDropped(r)
    BY DEF WriteDropped, Abandon
  <1> QED
    BY <1>2, <1>3, <1>4, <1>5 DEF Spool

\* So does the rest of a handler.
LEMMA LiftWork ==
  ASSUME ExclusiveInv, "late" \notin Faults, NEW r \in Requests, Work(r)
  PROVE  Abstract!Next
  <1>1. InFlight(r)
    BY DEF Work, Stat, StatFails, ChunkFile, ChunkFileFails, ReadChunk, ReadChunkFails, PutChunk, PutManifest,
           ManifestFails, CheckExists, ReadBlob, PutBlob, PutFails, Finish, InFlight, LateLabels
  <1>2. CASE Stat(r) \/ ChunkFile(r) \/ ReadChunk(r) \/ CheckExists(r) \/ ReadBlob(r)
    <2>1. /\ \E l \in Labels \ ({"idle", "done"} \cup LateLabels) : pc' = [pc EXCEPT ![r] = l]
          /\ resp' = resp /\ sent' = sent /\ store' = store
      BY <1>2 DEF Stat, ChunkFile, ReadChunk, CheckExists, ReadBlob, Goto, spoolVars, Labels, LateLabels
    <2> QED
      BY <1>1, <2>1, LiftRunning
  <1>3. CASE PutChunk(r) \/ PutManifest(r) \/ PutBlob(r)
    <2>1. /\ \E l \in Labels \ ({"idle", "done"} \cup LateLabels) : pc' = [pc EXCEPT ![r] = l]
          /\ resp' = resp /\ sent' = sent /\ pc[r] \in {"put", "send", "manifest"}
          /\ store' = store \cup {Outgoing(r)}
      BY <1>3 DEF PutChunk, PutManifest, PutBlob, Goto, spoolVars, Labels, LateLabels, Outgoing
    <2> QED
      BY <1>1, <2>1, LiftRunning
  <1>4. CASE StatFails(r) \/ ChunkFileFails(r) \/ ReadChunkFails(r) \/ ManifestFails(r) \/ PutFails(r)
    <2>1. /\ Fail(r)
          /\ \/ store' = store
             \/ pc[r] \in {"put", "send", "manifest"} /\ store' = store \cup {Outgoing(r)}
      BY <1>4 DEF StatFails, ChunkFileFails, ReadChunkFails, ManifestFails, PutFails
    <2> QED
      BY <1>1, <2>1, LiftFail
  <1>5. CASE Finish(r)
    BY <1>5, LiftFinish
  <1> QED
    BY <1>2, <1>3, <1>4, <1>5 DEF Work

\* A crash cuts the connections of all running handlers at once.
LEMMA LiftCrash ==
  ASSUME ExclusiveInv, "late" \notin Faults, Crash
  PROVE  Abstract!Next
  <1>1. /\ pc' = [r \in Requests |-> IF pc[r] = "idle" THEN "idle" ELSE "done"]
        /\ resp' = [r \in Requests |-> IF InFlight(r) THEN "gone" ELSE resp[r]]
        /\ sent' = sent /\ store' = store
    BY DEF Crash, spoolVars
  <1> DEFINE U == {r \in Requests : InFlight(r)}
  <1>2. ASSUME NEW r \in Requests
        PROVE  /\ InFlight(r) => StatusOf(r) = "open" /\ StatusOf(r)' = "cut"
               /\ ~InFlight(r) => StatusOf(r)' = StatusOf(r)
    <2>1. pc[r] \notin LateLabels
      BY DEF ExclusiveInv, TypeOK
    <2>2. /\ pc'[r] = (IF pc[r] = "idle" THEN "idle" ELSE "done")
          /\ resp'[r] = (IF InFlight(r) THEN "gone" ELSE resp[r])
      BY <1>1
    <2>3. CASE InFlight(r)
      BY <2>2, <2>3 DEF StatusOf, InFlight, Accepted
    <2>4. CASE ~InFlight(r)
      <3>1. pc'[r] = pc[r] /\ resp'[r] = resp[r]
        BY <2>1, <2>2, <2>4 DEF InFlight
      <3> QED
        BY <1>1, <2>4, <3>1, StatusSame
    <2> QED
      BY <2>3, <2>4
  <1>3. Status' = [r \in Requests |-> IF r \in U THEN "cut" ELSE Status[r]]
    BY <1>2 DEF Status
  <1>4. U \in SUBSET {r \in Requests : Status[r] \in {"new", "open"}}
    BY <1>2 DEF Status
  <1>5. Stored' = Stored
    BY <1>1 DEF Stored
  <1> HIDE DEF U
  <1>6. Abstract!Cut
    BY <1>3, <1>4, <1>5 DEF Abstract!Cut, Stored, Status
  <1> QED
    BY <1>6 DEF Abstract!Next

\* Uploads that have their temporary files to themselves implement ObjectStore:
\* the steps of a handler between its first and its last are steps that store
\* parts of its object or nothing, an answer is an outcome, and a crash, a
\* hang-up or a panic is a cut (daemon.rs:556-702).
THEOREM UploadsImplementObjectStore ==
  ASSUME "late" \notin Faults, "silent_disk" \notin Faults
  PROVE  ExclusiveSpec => ImplementsObjectStore
  <1>1. Init => Abstract!Init
    <2> SUFFICES ASSUME Init
                 PROVE  Abstract!Init
      OBVIOUS
    <2>1. Stored = {}
      BY DEF Init, Stored
    <2>2. \A r \in Requests : StatusOf(r) = "new"
      BY DEF Init, StatusOf
    <2>3. Status = [r \in Requests |-> "new"]
      BY <2>2 DEF Status
    <2> QED
      BY <2>1, <2>3 DEF Abstract!Init, Stored, Status
  <1>2. ExclusiveInv /\ [ExclusiveNext]_vars => [Abstract!Next]_(Abstract!ovars)
    <2> SUFFICES ASSUME ExclusiveInv, [ExclusiveNext]_vars
                 PROVE  Abstract!Next \/ UNCHANGED Abstract!ovars
      OBVIOUS
    <2>1. ASSUME NEW r \in Requests, Drop(r)
          PROVE  Abstract!Next
      <3>1. pc[r] \notin LateLabels
        BY DEF ExclusiveInv, TypeOK
      <3>2. Cancel(r)
        BY <2>1, <3>1 DEF Drop, LateCreate, LateWrite, LateRemove, LateLabels
      <3> QED
        BY <3>2, LiftCut DEF Cancel, spoolVars
    <2>2. CASE UNCHANGED vars
      <3>1. Stored' = Stored
        BY <2>2 DEF Stored, vars
      <3>2. Status' = Status
        BY <2>2 DEF Status, StatusOf, InFlight, Accepted, vars, spoolVars
      <3> QED
        BY <3>1, <3>2 DEF Abstract!ovars, Stored, Status
    <2> QED
      BY <2>1, <2>2, LiftStart, LiftSpool, LiftWork, LiftCrash DEF ExclusiveNext
  <1> QED
    BY ExclusiveInvariant, <1>1, <1>2, PTL DEF ExclusiveSpec, ImplementsObjectStore, Abstract!Spec

=============================================================================
