--------------------------- MODULE DownloadProofs ---------------------------
(***************************************************************************)
(* Theorems about Download, for any blobs on the server, any manifests     *)
(* whether or not their fields agree, any capacity of the channel, both    *)
(* kinds of build and any subset of the faults.                            *)
(*                                                                         *)
(* What makes the bytes come in order is an equation between three places: *)
(* what the client has, what waits in the channel and the chunks that the  *)
(* task has sent.  It holds as long as part of the Content-Length is       *)
(* unwritten; the frame that reaches it is cut, and from then on the       *)
(* channel is only dropped.                                                *)
(***************************************************************************)
EXTENDS Download, Joins

\* What the client has and will have of what was sent.
Sent == Concat(got) \o Concat(chan)

\* The Content-Length.
Announced(b) == IF b.kind = "raw" THEN Len(b.data) ELSE b.file_size

\* The types, of the sequences too.
Typed ==
  /\ TypeOK
  /\ held \in Data
  /\ chan \in Seq(Data)
  /\ got \in Seq(Data)

\* Before it answers, the handler has started nothing.
Unanswered ==
  pc \in {"new", "single"} =>
    task = "off" /\ next = 1 /\ chan = <<>> /\ got = <<>> /\ left = 0 /\ status = "none" /\ client = "waiting"

\* Somebody listens as long as the response is open.
Listening == (pc = "open") = rx

\* The only chunk is one of those listed.
OneListed ==
  pc = "single" => want.kind = "manifest" /\ Verifies(want)

\* The task is at a chunk that is listed, and holds that one.
AtChunk ==
  /\ task \in {"fetch", "send", "last"} =>
       /\ want.kind = "manifest"
       /\ want.chunks <= Len(want.chunk_hashes)
       /\ next <= want.chunks + 1
  /\ task = "send" => next <= want.chunks /\ held = want.chunk_hashes[next]

\* The equation.
Flow ==
  /\ Prefix(Concat(got), Content(want))
  /\ rx /\ left > 0 => Prefix(Sent, Content(want))
  /\ rx /\ left > 0 /\ task \in {"fetch", "send", "last"} =>
       Sent = Concat(SubSeq(want.chunk_hashes, 1, next - 1))

\* The unwritten part of the Content-Length.
Counted ==
  /\ rx => status = "ok"
  /\ status = "ok" => left + Len(Concat(got)) = Announced(want)
  /\ client = "complete" => status = "ok" /\ left = 0

DownloadInv ==
  /\ Typed /\ Unanswered /\ Listening /\ OneListed /\ AtChunk /\ Flow /\ Counted

-----------------------------------------------------------------------------
(* Contents, frames and chunks *)

\* The body is the frames joined.
LEMMA ConcatIsJoined == \A s : Concat(s) = Joined(s)
  BY DEF Concat, Joined

\* A blob that is asked for is raw or a manifest, and its file is made of units.
LEMMA WantedBlobs ==
  ASSUME NEW b \in Wanted
  PROVE  /\ b.kind = "raw" => b.data \in Data
         /\ b.kind = "raw" \/ b.kind = "manifest"
         /\ b.kind = "manifest" => /\ b.chunk_hashes \in Seq(Data)
                                   /\ b.file_size \in Nat
                                   /\ b.chunks \in Nat
         /\ Content(b) \in Data
         /\ Announced(b) \in Nat
  <1>1. IsRaw(b) \/ IsManifest(b)
    BY DownloadAssumption
  <1>2. CASE IsRaw(b)
    <2>1. b.kind = "raw" /\ b.data \in Data
      BY <1>2 DEF IsRaw
    <2> QED
      BY <2>1 DEF Content, Announced, Data
  <1>3. CASE IsManifest(b)
    <2>1. /\ b.kind = "manifest" /\ b.chunk_hashes \in Seq(Data)
          /\ b.file_size \in Nat /\ b.chunks \in Nat
      BY <1>3 DEF IsManifest
    <2>2. Content(b) = Joined(b.chunk_hashes)
      BY <2>1, ConcatIsJoined DEF Content
    <2>3. Content(b) \in Data
      BY <2>1, <2>2, JoinedType DEF Data
    <2> QED
      BY <2>1, <2>3 DEF Announced
  <1> QED
    BY <1>1, <1>2, <1>3

\* Frames joined are a sequence of units.
LEMMA ConcatData ==
  ASSUME NEW s \in Seq(Data)
  PROVE  Concat(s) \in Data /\ Len(Concat(s)) \in Nat
  <1>1. Concat(s) \in Data
    BY ConcatIsJoined, JoinedType DEF Data
  <1> QED
    BY <1>1 DEF Data

\* No frames, no bytes.
LEMMA ConcatNothing == Concat(<<>>) = <<>>
  BY ConcatIsJoined, JoinedEmpty

\* One more frame goes to the end.
LEMMA ConcatAppend ==
  ASSUME NEW s \in Seq(Data), NEW d \in Data
  PROVE  Concat(Append(s, d)) = Concat(s) \o d
  BY ConcatIsJoined, JoinedAppend

\* A single frame.
LEMMA ConcatOne ==
  ASSUME NEW d \in Data
  PROVE  Concat(<<d>>) = d
  BY ConcatIsJoined, JoinedOne DEF Data

\* The chunks up to n and the one after.
LEMMA OneMoreChunk ==
  ASSUME NEW hs \in Seq(Data), NEW n \in 1 .. Len(hs)
  PROVE  Concat(SubSeq(hs, 1, n)) = Concat(SubSeq(hs, 1, n - 1)) \o hs[n]
  <1>1. SubSeq(hs, 1, n - 1) \in Seq(Data) /\ hs[n] \in Data
    OBVIOUS
  <1>2. SubSeq(hs, 1, n) = Append(SubSeq(hs, 1, n - 1), hs[n])
    OBVIOUS
  <1> QED
    BY <1>1, <1>2, ConcatAppend

\* Chunks from the first on are what the file begins with.
LEMMA ChunksArePrefix ==
  ASSUME NEW b \in Wanted, b.kind = "manifest", NEW n \in 0 .. Len(b.chunk_hashes)
  PROVE  Prefix(Concat(SubSeq(b.chunk_hashes, 1, n)), Content(b))
  <1>1. b.chunk_hashes \in Seq(Seq(Units))
    BY WantedBlobs DEF Data
  <1>2. Content(b) = Joined(b.chunk_hashes)
    BY ConcatIsJoined DEF Content
  <1> QED
    BY <1>1, <1>2, ConcatIsJoined, PrefixJoins

\* A chunk into the channel goes to the end of what is sent.
LEMMA SentInto ==
  ASSUME NEW g \in Seq(Data), NEW c \in Seq(Data), NEW d \in Data
  PROVE  Concat(g) \o Concat(Append(c, d)) = (Concat(g) \o Concat(c)) \o d
  <1>1. Concat(Append(c, d)) = Concat(c) \o d
    BY ConcatAppend
  <1>2. Concat(g) \in Seq(Units) /\ Concat(c) \in Seq(Units) /\ d \in Seq(Units)
    BY ConcatData DEF Data
  <1>3. Associates(Concat(g), Concat(c), d)
    BY <1>2, JoinedThree
  <1> QED
    BY <1>1, <1>3 DEF Associates

-----------------------------------------------------------------------------
(* The steps *)

\* What stays where it was.
Untouched == UNCHANGED <<want, next, held, chan, left, got>>

\* What Typed says of each variable.
LEMMA TypedParts ==
  ASSUME Typed
  PROVE  /\ want \in Wanted /\ next \in Nat /\ next # 0 /\ left \in Nat /\ held \in Data
         /\ chan \in Seq(Data) /\ got \in Seq(Data) /\ <<>> \in Data
         /\ Content(want) \in Data
  BY WantedBlobs DEF Typed, TypeOK, Data

\* A step that leaves the task and what was sent keeps the types.
LEMMA TypedUntouched ==
  ASSUME Typed, Untouched,
         pc' \in {"new", "single", "open", "closed"},
         status' \in {"none", "refused", "not_found", "unverified", "ok"},
         client' \in {"waiting", "error", "complete", "short", "gone"},
         task' \in {"off", "fetch", "send", "last", "exit"},
         rx' \in BOOLEAN
  PROVE  Typed'
  BY DEF Typed, TypeOK, Untouched

\* A step that moves no data and starts nothing leaves the equation alone.
LEMMA FlowUntouched ==
  ASSUME Flow, Untouched, rx' => rx,
         task' \in {"fetch", "send", "last"} => task \in {"fetch", "send", "last"}
  PROVE  Flow'
  <1>1. Concat(got)' = Concat(got) /\ Content(want)' = Content(want) /\ Sent' = Sent
    BY DEF Untouched, Sent
  <1> HIDE DEF Sent
  <1>2. Prefix(Concat(got), Content(want))'
    BY <1>1 DEF Flow
  <1>3. (rx /\ left > 0 => Prefix(Sent, Content(want)))'
    BY <1>1 DEF Flow, Untouched
  <1>4. (rx /\ left > 0 /\ task \in {"fetch", "send", "last"} =>
          Sent = Concat(SubSeq(want.chunk_hashes, 1, next - 1)))'
    BY <1>1 DEF Flow, Untouched
  <1> QED
    BY <1>2, <1>3, <1>4 DEF Flow

\* An answer without a body.
LEMMA CloseKept ==
  ASSUME DownloadInv, pc \in {"new", "single"},
         NEW s \in {"refused", "not_found", "unverified"}, Close(s, "error")
  PROVE  DownloadInv'
  <1>1. Typed'
    BY TypedUntouched DEF DownloadInv, Close, Untouched, taskVars, Typed, TypeOK
  <1>2. (Unanswered /\ Listening /\ OneListed /\ AtChunk)'
    BY DEF DownloadInv, Close, taskVars, Unanswered, Listening, OneListed, AtChunk, Typed, TypeOK
  <1>3. Flow'
    BY FlowUntouched DEF DownloadInv, Close, Untouched, taskVars
  <1>4. Counted'
    BY DEF DownloadInv, Close, taskVars, Counted, Unanswered, Listening, Typed, TypeOK
  <1> QED
    BY <1>1, <1>2, <1>3, <1>4 DEF DownloadInv

\* Before the first frame there is nothing, which every file begins with.
LEMMA NothingYet ==
  ASSUME DownloadInv, pc \in {"new", "single"}
  PROVE  /\ want \in Wanted /\ got = <<>> /\ chan = <<>> /\ next = 1 /\ task = "off" /\ rx = FALSE
         /\ client = "waiting" /\ status = "none" /\ held \in Data /\ left = 0
         /\ Concat(<<>>) = <<>> /\ Len(<<>>) = 0 /\ Prefix(<<>>, Content(want))
  <1>1. want \in Wanted /\ held \in Data /\ rx \in BOOLEAN
    BY DEF DownloadInv, Typed, TypeOK
  <1>2. Prefix(<<>>, Content(want))
    BY <1>1, WantedBlobs DEF Prefix, Data
  <1> QED
    BY <1>1, <1>2, ConcatNothing DEF DownloadInv, Unanswered, Listening

\* An answer with all the data there.
LEMMA RespondKept ==
  ASSUME DownloadInv, pc \in {"new", "single"},
         NEW d \in Data, Prefix(d, Content(want)), NEW n \in Nat, n = Announced(want),
         RespondWith(d, n)
  PROVE  DownloadInv'
  <1>1. Typed'
    <2>1. <<d>> \in Seq(Data) /\ Len(<<d>>) = 1 /\ 1 <= ChannelCapacity
      BY DownloadAssumption
    <2>2. <<>> \in Seq(Data)
      OBVIOUS
    <2>3. /\ want' = want /\ pc' = "open" /\ status' = "ok" /\ client' = "waiting" /\ task' = "exit"
          /\ next' = 1 /\ held' \in Data /\ chan' = <<d>> /\ rx' = TRUE /\ left' = n /\ got' = <<>>
      BY NothingYet DEF RespondWith
    <2>4. want' \in Wanted
      BY <2>3, NothingYet
    <2> QED
      BY <2>1, <2>2, <2>3, <2>4 DEF Typed, TypeOK
  <1>2. (Unanswered /\ Listening /\ OneListed /\ AtChunk)'
    BY DEF RespondWith, Unanswered, Listening, OneListed, AtChunk
  <1>3. Flow'
    <2>1. got' = <<>> /\ chan' = <<d>> /\ want' = want
      BY NothingYet DEF RespondWith
    <2>2. Sent' = d
      <3>1. Concat(<<d>>) = d /\ <<>> \o d = d
        BY ConcatOne DEF Data
      <3> QED
        BY <2>1, <3>1, ConcatNothing DEF Sent
    <2> QED
      BY <2>1, <2>2, NothingYet DEF RespondWith, Flow
  <1>4. Counted'
    <2>1. /\ want' = want /\ status' = "ok" /\ client' = "waiting" /\ left' = n /\ got' = <<>>
      BY NothingYet DEF RespondWith
    <2>2. Len(Concat(got')) = 0
      BY <2>1, NothingYet
    <2>3. left' + Len(Concat(got')) = Announced(want')
      BY <2>1, <2>2
    <2> QED
      BY <2>1, <2>3 DEF Counted
  <1> QED
    BY <1>1, <1>2, <1>3, <1>4 DEF DownloadInv

\* Steps of handle_download.
LEMMA HandlerKept ==
  ASSUME DownloadInv, Handler
  PROVE  DownloadInv'
  <1>1. CASE Reject
    BY <1>1, CloseKept DEF Reject
  <1>2. CASE NotFound
    BY <1>2, CloseKept DEF NotFound
  <1>3. CASE FetchRaw
    <2>1. want \in Wanted /\ want.kind = "raw"
      BY <1>3 DEF FetchRaw, DownloadInv, Typed, TypeOK
    <2>2. want.data \in Data /\ Content(want) = want.data /\ Announced(want) = Len(want.data)
      BY <2>1, WantedBlobs DEF Content, Announced
    <2>3. Prefix(want.data, Content(want)) /\ Len(want.data) \in Nat
      BY <2>2 DEF Prefix, Data
    <2> QED
      BY <1>3, <2>2, <2>3, RespondKept DEF FetchRaw, Fetched
  <1>4. CASE Unverified
    BY <1>4, CloseKept DEF Unverified, Fetched
  <1>5. CASE FetchSingle
    <2>1. Typed'
      BY <1>5, TypedUntouched DEF DownloadInv, FetchSingle, Untouched, taskVars, respVars, Typed, TypeOK
    <2>2. (Unanswered /\ Listening /\ OneListed /\ AtChunk)'
      BY <1>5, NothingYet
         DEF FetchSingle, Fetched, taskVars, respVars, Unanswered, Listening, OneListed, AtChunk
    <2>3. Flow'
      BY <1>5, FlowUntouched DEF DownloadInv, FetchSingle, Untouched, taskVars
    <2>4. Counted'
      BY <1>5, NothingYet DEF FetchSingle, Fetched, taskVars, respVars, Counted
    <2> QED
      BY <2>1, <2>2, <2>3, <2>4 DEF DownloadInv
  <1>6. CASE RespondSingle
    <2>1. want \in Wanted /\ want.kind = "manifest" /\ Verifies(want)
      BY <1>6 DEF RespondSingle, DownloadInv, Typed, TypeOK, OneListed
    <2> DEFINE hs == want.chunk_hashes
    <2>2. hs \in Seq(Data) /\ hs # <<>> /\ want.file_size \in Nat
      BY <2>1, WantedBlobs DEF Verifies
    <2>3. 1 \in 0 .. Len(hs) /\ 1 \in 1 .. Len(hs) /\ hs[1] \in Data
      BY <2>2
    <2>4. Prefix(Concat(SubSeq(hs, 1, 1)), Content(want))
      BY <2>1, <2>3, ChunksArePrefix
    <2>5. Prefix(hs[1], Content(want))
      <3>1. Concat(SubSeq(hs, 1, 1)) = Concat(SubSeq(hs, 1, 1 - 1)) \o hs[1]
        BY <2>2, <2>3, OneMoreChunk
      <3>2. SubSeq(hs, 1, 1 - 1) = <<>> /\ <<>> \o hs[1] = hs[1]
        BY <2>2, <2>3 DEF Data
      <3> HIDE DEF hs
      <3> QED
        BY <2>4, <3>1, <3>2, ConcatNothing
    <2>6. want.file_size = Announced(want) /\ ChunkHash(want, 1) = hs[1]
      BY <2>1 DEF Announced, ChunkHash
    <2> QED
      BY <1>6, <2>2, <2>3, <2>5, <2>6, RespondKept DEF RespondSingle
  <1>7. CASE StartStream
    <2>1. want \in Wanted /\ want.kind = "manifest" /\ pc = "new"
      BY <1>7 DEF StartStream, Fetched, DownloadInv, Typed, TypeOK
    <2>2. /\ want.chunk_hashes \in Seq(Data) /\ want.file_size \in Nat /\ want.chunks \in Nat
          /\ Content(want) \in Data /\ want.file_size = Announced(want)
      BY <2>1, WantedBlobs DEF Announced
    <2>3. task' = "fetch" => want.chunks <= Len(want.chunk_hashes)
      BY <1>7, <2>2 DEF StartStream, Panics
    <2>4. Typed'
      BY <1>7, <2>1, <2>2, NothingYet, DownloadAssumption
         DEF StartStream, respVars, Typed, TypeOK, DownloadInv
    <2>5. (Unanswered /\ Listening /\ OneListed /\ AtChunk)'
      <3>1. /\ pc' = "open" /\ rx' = TRUE /\ want' = want /\ next' = 1
            /\ task' = "fetch" \/ task' = "exit"
        BY <1>7, <2>1, NothingYet DEF StartStream
      <3>2. 1 <= want.chunks + 1
        BY <2>2
      <3>3. AtChunk'
        BY <2>1, <2>3, <3>1, <3>2 DEF AtChunk
      <3> QED
        BY <3>1, <3>3 DEF Unanswered, Listening, OneListed
    <2>6. Flow'
      <3>1. got' = <<>> /\ chan' = <<>> /\ want' = want /\ next' = 1
        BY <1>7, <2>1, NothingYet DEF StartStream
      <3>2. Sent' = <<>>
        <4>1. <<>> \o <<>> = <<>>
          OBVIOUS
        <4> QED
          BY <3>1, <4>1, ConcatNothing DEF Sent
      <3>3. SubSeq(want.chunk_hashes, 1, 1 - 1) = <<>>
        BY <2>2
      <3> QED
        BY <2>1, <3>1, <3>2, <3>3, NothingYet DEF Flow
    <2>7. Counted'
      BY <1>7, <2>1, <2>2, NothingYet DEF StartStream, Counted
    <2> QED
      BY <2>4, <2>5, <2>6, <2>7 DEF DownloadInv
  <1> QED
    BY <1>1, <1>2, <1>3, <1>4, <1>5, <1>6, <1>7 DEF Handler

\* Steps of the detached task.
LEMMA TaskKept ==
  ASSUME DownloadInv, Task
  PROVE  DownloadInv'
  <1>0. Typed /\ want \in Wanted
    BY DEF DownloadInv, Typed, TypeOK
  <1>1. CASE FetchChunk
    <2>1. /\ want.kind = "manifest" /\ want.chunks <= Len(want.chunk_hashes) /\ next <= want.chunks
      BY <1>1 DEF DownloadInv, AtChunk, FetchChunk
    <2>2. want.chunk_hashes[next] \in Data
      BY <1>0, <2>1, WantedBlobs DEF Typed, TypeOK
    <2>3. Typed'
      BY <1>0, <1>1, <2>2 DEF FetchChunk, respVars, Typed, TypeOK, ChunkHash
    <2>4. (Unanswered /\ Listening /\ OneListed /\ AtChunk)'
      BY <1>1, <2>1
         DEF DownloadInv, FetchChunk, respVars, ChunkHash, Unanswered, Listening, OneListed, AtChunk
    <2>5. Flow'
      BY <1>1 DEF DownloadInv, FetchChunk, Flow, Sent
    <2>6. Counted'
      BY <1>1 DEF DownloadInv, FetchChunk, respVars, Counted
    <2> QED
      BY <2>3, <2>4, <2>5, <2>6 DEF DownloadInv
  <1>2. CASE FetchChunkFails \/ NoMoreChunks \/ SendChunkFails
    <2>1. Untouched /\ UNCHANGED <<pc, rx, status, client>> /\ task \in {"fetch", "send"} /\ task' \in {"last", "exit"}
          /\ (task' = "last" => task = "fetch")
      BY <1>2 DEF FetchChunkFails, NoMoreChunks, SendChunkFails, Untouched, respVars
    <2>2. Typed'
      BY <1>0, <2>1, TypedUntouched DEF Typed, TypeOK
    <2>3. (Unanswered /\ Listening /\ OneListed /\ AtChunk)'
      BY <2>1 DEF DownloadInv, Untouched, Unanswered, Listening, OneListed, AtChunk
    <2>4. Flow'
      BY <2>1, FlowUntouched DEF DownloadInv
    <2>5. Counted'
      BY <2>1 DEF DownloadInv, Untouched, Counted
    <2> QED
      BY <2>2, <2>3, <2>4, <2>5 DEF DownloadInv
  <1>3. CASE SendChunk
    <2> DEFINE hs == want.chunk_hashes
    <2>1. /\ want.kind = "manifest" /\ want.chunks <= Len(hs) /\ next <= want.chunks
          /\ held = hs[next] /\ want' = want /\ next' = next + 1 /\ chan' = Append(chan, held)
          /\ got' = got /\ left' = left /\ rx /\ rx' = rx /\ task = "send" /\ task' = "fetch"
          /\ Len(chan) < ChannelCapacity
      BY <1>3 DEF DownloadInv, AtChunk, SendChunk, respVars
    <2>2. /\ hs \in Seq(Data) /\ next \in Nat \ {0} /\ held \in Data /\ chan \in Seq(Data)
          /\ got \in Seq(Data) /\ want.chunks \in Nat /\ left \in Nat
      BY <1>0, <2>1, WantedBlobs DEF Typed, TypeOK
    <2> HIDE DEF hs
    <2>3. /\ Len(hs) \in Nat /\ next \in 1 .. Len(hs) /\ (next + 1) - 1 = next
      BY <2>1, <2>2
    <2>4. Typed'
      <3>1. chan' \in Seq(Data) /\ Len(chan') <= ChannelCapacity
        BY <2>1, <2>2, DownloadAssumption
      <3>2. next' \in Nat \ {0}
        BY <2>1, <2>2
      <3> QED
        BY <1>0, <1>3, <2>1, <3>1, <3>2 DEF SendChunk, respVars, Typed, TypeOK
    <2>5. (Unanswered /\ Listening /\ OneListed /\ AtChunk)'
      <3>1. next' <= want'.chunks + 1
        BY <2>1, <2>2
      <3>2. AtChunk'
        BY <2>1, <3>1 DEF AtChunk, hs
      <3>3. pc = "open" /\ pc' = "open"
        BY <1>3, <2>1 DEF SendChunk, DownloadInv, Listening
      <3> QED
        BY <2>1, <3>2, <3>3 DEF DownloadInv, Unanswered, Listening, OneListed
    <2>6. Flow'
      <3>1. Concat(got)' = Concat(got) /\ Content(want)' = Content(want) /\ Sent' = Sent \o held
        BY <2>1, <2>2, SentInto DEF Sent
      <3>2. left > 0 => Sent' = Concat(SubSeq(hs, 1, next))
        <4>1. Concat(SubSeq(hs, 1, next)) = Concat(SubSeq(hs, 1, next - 1)) \o hs[next]
          BY <2>2, <2>3, OneMoreChunk
        <4>2. left > 0 => Sent = Concat(SubSeq(hs, 1, next - 1))
          BY <2>1 DEF DownloadInv, Flow, hs
        <4> QED
          BY <2>1, <3>1, <4>1, <4>2
      <3>3. Prefix(Concat(SubSeq(hs, 1, next)), Content(want))
        BY <1>0, <2>1, <2>3, ChunksArePrefix DEF hs
      <3>4. (Prefix(Concat(got), Content(want)))'
        BY <3>1 DEF DownloadInv, Flow
      <3> HIDE DEF Sent
      <3>5. (rx /\ left > 0 => Prefix(Sent, Content(want)))'
        BY <2>1, <3>1, <3>2, <3>3
      <3>6. (rx /\ left > 0 /\ task \in {"fetch", "send", "last"} =>
              Sent = Concat(SubSeq(want.chunk_hashes, 1, next - 1)))'
        <4>1. next' - 1 = next
          BY <2>1, <2>3
        <4> QED
          BY <2>1, <3>2, <4>1 DEF hs
      <3> QED
        BY <3>4, <3>5, <3>6 DEF Flow
    <2>7. Counted'
      BY <1>3 DEF DownloadInv, SendChunk, respVars, Counted
    <2> QED
      BY <2>4, <2>5, <2>6, <2>7 DEF DownloadInv
  <1>4. CASE SendLast
    <2>1. /\ want' = want /\ next' = next /\ held' = held /\ got' = got /\ left' = left /\ rx' = rx
          /\ chan' = (IF rx THEN Append(chan, <<>>) ELSE chan) /\ task' = "exit" /\ pc' = pc
          /\ status' = status /\ client' = client /\ (rx => Len(chan) < ChannelCapacity) /\ task = "last"
      BY <1>4 DEF SendLast, respVars
    <2>2. chan \in Seq(Data) /\ got \in Seq(Data) /\ <<>> \in Data /\ rx \in BOOLEAN /\ Content(want) \in Data
      BY <1>0, WantedBlobs DEF Typed, TypeOK, Data
    <2>3. Typed'
      <3>1. chan' \in Seq(Data)
        BY <2>1, <2>2
      <3>2. Len(chan') <= ChannelCapacity
        BY <1>0, <2>1, <2>2, DownloadAssumption DEF Typed, TypeOK
      <3> QED
        BY <1>0, <2>1, <3>1, <3>2 DEF Typed, TypeOK
    <2>4. (Unanswered /\ Listening /\ OneListed /\ AtChunk)'
      BY <2>1, <2>2 DEF DownloadInv, Unanswered, Listening, OneListed, AtChunk
    <2>5. Flow'
      <3>1. rx => Sent' = Sent
        <4>1. Concat(got) \o Concat(Append(chan, <<>>)) = (Concat(got) \o Concat(chan)) \o <<>>
          BY <2>2, SentInto
        <4>2. Concat(got) \o Concat(chan) \in Seq(Units)
          BY <2>2, ConcatData DEF Data
        <4>3. (Concat(got) \o Concat(chan)) \o <<>> = Concat(got) \o Concat(chan)
          BY <4>2
        <4> QED
          BY <2>1, <4>1, <4>3 DEF Sent
      <3> HIDE DEF Sent
      <3> QED
        BY <2>1, <3>1 DEF DownloadInv, Flow
    <2>6. Counted'
      BY <2>1 DEF DownloadInv, Counted
    <2> QED
      BY <2>3, <2>4, <2>5, <2>6 DEF DownloadInv
  <1> QED
    BY <1>1, <1>2, <1>3, <1>4 DEF Task

\* What a frame adds to what the client has: all of it, or as much as is announced.
LEMMA Written ==
  ASSUME Typed, WriteFrame
  PROVE  /\ got' \in Seq(Data) /\ left' \in Nat
         /\ \E n \in Nat : /\ n <= Len(Head(chan)) /\ left' = left - n
                           /\ n = Len(Head(chan)) \/ left' = 0
                           /\ Concat(got') = Concat(got) \o SubSeq(Head(chan), 1, n)
  <1> DEFINE h == Head(chan)
             n == Smaller(Len(h), left)
             f == SubSeq(h, 1, n)
  <1>1. h \in Data /\ left \in Nat /\ got \in Seq(Data)
    BY TypedParts DEF WriteFrame
  <1>2. Len(h) \in Nat
    BY <1>1 DEF Data
  <1>3. n \in Nat /\ n <= Len(h) /\ n <= left /\ (n = Len(h) \/ n = left)
    BY <1>1, <1>2 DEF Smaller
  <1>4. got' = (IF n = 0 THEN got ELSE Append(got, f)) /\ left' = left - n
    BY DEF WriteFrame
  <1> HIDE DEF n, h
  <1>5. f \in Data /\ Len(f) = n
    BY <1>1, <1>3 DEF Data
  <1>6. Concat(got') = Concat(got) \o f
    <2>1. CASE n = 0
      <3>1. f = <<>>
        BY <1>1, <2>1 DEF Data
      <3>2. Concat(got) \in Seq(Units)
        BY <1>1, ConcatData DEF Data
      <3>3. Concat(got) \o <<>> = Concat(got)
        BY <3>2
      <3> QED
        BY <1>4, <2>1, <3>1, <3>3
    <2>2. CASE n # 0
      <3> HIDE DEF f
      <3> QED
        BY <1>1, <1>4, <1>5, <2>2, ConcatAppend
    <2> QED
      BY <2>1, <2>2
  <1>7. got' \in Seq(Data)
    <2> HIDE DEF f
    <2> QED
      BY <1>1, <1>4, <1>5
  <1>8. left' \in Nat /\ (n = Len(h) \/ left' = 0)
    BY <1>1, <1>3, <1>4
  <1>9. n <= Len(Head(chan)) /\ (n = Len(Head(chan)) \/ left' = 0)
    BY <1>3, <1>8 DEF h
  <1>10. Concat(got') = Concat(got) \o SubSeq(Head(chan), 1, n)
    BY <1>6 DEF h
  <1> QED
    BY <1>3, <1>4, <1>7, <1>8, <1>9, <1>10

\* A frame keeps the equation: written whole it moves from the channel to the
\* client, cut short it ends the Content-Length.
LEMMA WriteFlow ==
  ASSUME DownloadInv, WriteFrame
  PROVE  Flow' /\ Counted'
  <1> DEFINE h == Head(chan)
             C == Content(want)
  <1>1. /\ want \in Wanted /\ got \in Seq(Data) /\ chan \in Seq(Data) /\ chan # <<>>
        /\ h \in Data /\ Tail(chan) \in Seq(Data) /\ left \in Nat /\ left > 0 /\ rx
        /\ C \in Data
    <2>1. Typed /\ pc = "open" /\ left > 0 /\ chan # <<>>
      BY DEF DownloadInv, WriteFrame
    <2>2. rx
      BY <2>1 DEF DownloadInv, Listening, Typed, TypeOK
    <2>3. /\ want \in Wanted /\ left \in Nat /\ chan \in Seq(Data) /\ got \in Seq(Data)
          /\ Content(want) \in Data
      BY <2>1, TypedParts
    <2> QED
      BY <2>1, <2>2, <2>3
  <1>2. /\ want' = want /\ task' = task /\ next' = next /\ chan' = Tail(chan) /\ rx' = rx
        /\ status' = status /\ client' = client
    BY DEF WriteFrame, taskVars, respVars
  <1>3. PICK n \in Nat : /\ n <= Len(h) /\ left' = left - n
                         /\ n = Len(h) \/ left' = 0
                         /\ Concat(got') = Concat(got) \o SubSeq(h, 1, n)
    BY Written DEF DownloadInv
  <1>4. got' \in Seq(Data) /\ left' \in Nat
    BY Written DEF DownloadInv
  <1>5. /\ Concat(got) \in Seq(Units) /\ Concat(got') \in Seq(Units) /\ h \in Seq(Units)
        /\ Concat(Tail(chan)) \in Seq(Units) /\ Sent \in Seq(Units) /\ C \in Seq(Units)
    <2>1. Concat(got) \in Seq(Units) /\ Concat(got') \in Seq(Units) /\ Concat(chan) \in Seq(Units)
          /\ Concat(Tail(chan)) \in Seq(Units)
      BY <1>1, <1>4, ConcatData DEF Data
    <2> QED
      BY <1>1, <2>1 DEF Sent, Data
  <1>6. Sent = Concat(got) \o (h \o Concat(Tail(chan)))
    <2>1. Concat(chan) = h \o Concat(Tail(chan))
      BY <1>1, ConcatIsJoined, JoinedHeadTail DEF Data
    <2> QED
      BY <2>1 DEF Sent
  <1> HIDE DEF h
  <1>7. Prefix(Concat(got'), Sent)
    <2> DEFINE g == Concat(got)
               r == Concat(Tail(chan))
               w == SubSeq(h, 1, n)
    <2>1. g \in Seq(Units) /\ r \in Seq(Units) /\ w \in Seq(Units) /\ Len(w) = n /\ n \in 0 .. Len(h)
      BY <1>3, <1>5
    <2> DEFINE z == SubSeq(h, n + 1, Len(h))
    <2>2. z \in Seq(Units) /\ h = w \o z
      BY <1>5, <2>1, Halves
    <2>3. Sent = g \o ((w \o z) \o r) /\ Concat(got') = g \o w
      BY <1>3, <1>6, <2>2
    <2> HIDE DEF g, r, w, z, Sent
    <2>4. Associates(w, z, r) /\ z \o r \in Seq(Units)
      BY <2>1, <2>2, JoinedThree
    <2>5. Associates(g, w, z \o r)
      BY <2>1, <2>4, JoinedThree
    <2>6. Sent = (g \o w) \o (z \o r)
      BY <2>3, <2>4, <2>5 DEF Associates
    <2>7. g \o w \in Seq(Units)
      BY <2>1
    <2> QED
      BY <2>3, <2>4, <2>6, <2>7, PrefixOfConcat
  <1>8. Prefix(Sent, C)
    BY <1>1 DEF DownloadInv, Flow
  <1>9. Prefix(Concat(got'), C)
    <2> HIDE DEF Sent, C
    <2> QED
      BY <1>5, <1>7, <1>8, PrefixTransitive
  <1>10. left' > 0 => Sent' = Sent
    <2> SUFFICES ASSUME left' > 0
                 PROVE  Sent' = Sent
      OBVIOUS
    <2>1. SubSeq(h, 1, n) = h
      BY <1>3, <1>5
    <2>2. Sent' = (Concat(got) \o h) \o Concat(Tail(chan))
      BY <1>2, <1>3, <2>1 DEF Sent
    <2>3. Associates(Concat(got), h, Concat(Tail(chan)))
      BY <1>5, JoinedThree
    <2> HIDE DEF Sent
    <2> QED
      BY <1>6, <2>2, <2>3 DEF Associates
  <1>11. Flow'
    <2>1. Content(want)' = C
      BY <1>2
    <2> HIDE DEF Sent, C
    <2>2. Prefix(Concat(got), Content(want))'
      BY <1>9, <2>1
    <2>3. (rx /\ left > 0 => Prefix(Sent, Content(want)))'
      BY <1>8, <1>10, <2>1
    <2>4. left > 0 /\ task \in {"fetch", "send", "last"} =>
            Sent = Concat(SubSeq(want.chunk_hashes, 1, next - 1))
      BY <1>1 DEF DownloadInv, Flow
    <2>5. (rx /\ left > 0 /\ task \in {"fetch", "send", "last"} =>
            Sent = Concat(SubSeq(want.chunk_hashes, 1, next - 1)))'
      BY <1>1, <1>2, <1>10, <2>4
    <2> QED
      BY <2>2, <2>3, <2>5 DEF Flow
  <1>12. Counted'
    <2>1. Len(Concat(got')) = Len(Concat(got)) + n
      <3>1. SubSeq(h, 1, n) \in Seq(Units) /\ Len(SubSeq(h, 1, n)) = n
        BY <1>3, <1>5
      <3> DEFINE w == SubSeq(h, 1, n)
                 g == Concat(got)
      <3>2. Concat(got') = g \o w
        BY <1>3
      <3>3. g \in Seq(Units)
        BY <1>5
      <3> HIDE DEF w, g
      <3>4. Len(g \o w) = Len(g) + Len(w)
        BY <3>1, <3>3 DEF w
      <3> QED
        BY <3>1, <3>2, <3>4 DEF w, g
    <2>2. status = "ok" => left + Len(Concat(got)) = Announced(want)
      BY DEF DownloadInv, Counted
    <2>3. Len(Concat(got)) \in Nat
      BY <1>5
    <2>4. (status = "ok" => left + Len(Concat(got)) = Announced(want))'
      <3> DEFINE k == Len(Concat(got))
      <3>1. Announced(want)' = Announced(want) /\ Len(Concat(got))' = k + n /\ k \in Nat
        BY <1>2, <2>1, <2>3
      <3>2. status' = "ok" => left + k = Announced(want)
        BY <1>2, <2>2
      <3>3. left' = left - n
        BY <1>3
      <3> HIDE DEF k
      <3>4. left' + (k + n) = left + k
        BY <1>1, <3>1, <3>3
      <3> QED
        BY <3>1, <3>2, <3>4
    <2>5. (client = "complete" => status = "ok" /\ left = 0)'
      BY <1>1, <1>2 DEF DownloadInv, Counted
    <2>6. (rx => status = "ok")'
      BY <1>2 DEF DownloadInv, Counted
    <2> QED
      BY <2>4, <2>5, <2>6 DEF Counted
  <1> QED
    BY <1>11, <1>12

\* The response is dropped.
LEMMA DropKept ==
  ASSUME DownloadInv, NEW c \in {"complete", "short", "gone"}, DropBody(c),
         c = "complete" => pc = "open" /\ left = 0
  PROVE  DownloadInv'
  <1>0. Typed
    BY DEF DownloadInv
  <1>1. /\ pc' = "closed" /\ client' = c /\ rx' = FALSE /\ chan' = <<>> /\ want' = want
        /\ status' = status /\ task' = task /\ next' = next /\ held' = held /\ left' = left /\ got' = got
    BY DEF DropBody, taskVars
  <1>2. Typed'
    <2>1. <<>> \in Seq(Data) /\ Len(<<>>) <= ChannelCapacity
      BY DownloadAssumption
    <2> QED
      BY <1>0, <1>1, <2>1 DEF Typed, TypeOK
  <1>3. (Unanswered /\ Listening /\ OneListed /\ AtChunk)'
    BY <1>1 DEF DownloadInv, Unanswered, Listening, OneListed, AtChunk
  <1>4. Flow'
    BY <1>1 DEF DownloadInv, Flow
  <1>5. Counted'
    BY <1>1 DEF DownloadInv, Counted, Listening
  <1> QED
    BY <1>2, <1>3, <1>4, <1>5 DEF DownloadInv

\* Steps of the connection and of the client.
LEMMA ConnectionKept ==
  ASSUME DownloadInv, Connection \/ HangUp
  PROVE  DownloadInv'
  <1>1. CASE WriteFrame
    <2>0. Typed /\ got' \in Seq(Data) /\ left' \in Nat
      BY <1>1, Written DEF DownloadInv
    <2>1. /\ want' = want /\ pc' = pc /\ pc = "open" /\ status' = status /\ client' = client /\ task' = task
          /\ next' = next /\ held' = held /\ rx' = rx /\ chan' = Tail(chan) /\ chan # <<>>
      BY <1>1 DEF WriteFrame, taskVars, respVars
    <2>2. Typed'
      <3>1. chan \in Seq(Data) /\ Len(chan) <= ChannelCapacity
        BY <2>0 DEF Typed, TypeOK
      <3>2. chan' \in Seq(Data) /\ Len(chan') <= ChannelCapacity
        BY <2>1, <3>1, DownloadAssumption
      <3> QED
        BY <2>0, <2>1, <3>2 DEF Typed, TypeOK
    <2>3. (Unanswered /\ Listening /\ OneListed /\ AtChunk)'
      BY <2>1 DEF DownloadInv, Unanswered, Listening, OneListed, AtChunk
    <2> QED
      BY <1>1, <2>2, <2>3, WriteFlow DEF DownloadInv
  <1>2. CASE Complete
    BY <1>2, DropKept DEF Complete
  <1>3. CASE EndOfBody
    BY <1>3, DropKept DEF EndOfBody
  <1>4. CASE HangUp
    BY <1>4, DropKept DEF HangUp
  <1> QED
    BY <1>1, <1>2, <1>3, <1>4 DEF Connection

\* Before the request.
LEMMA InitDownload == Init => DownloadInv
  <1> SUFFICES ASSUME Init
               PROVE  DownloadInv
    OBVIOUS
  <1>1. want \in Wanted /\ got = <<>> /\ chan = <<>> /\ Content(want) \in Data
    BY WantedBlobs DEF Init
  <1>2. Typed
    <2>1. <<>> \in Data /\ <<>> \in Seq(Data) /\ Len(<<>>) <= ChannelCapacity /\ 1 \in Nat \ {0}
      BY DownloadAssumption DEF Data
    <2> QED
      BY <2>1 DEF Init, Typed, TypeOK
  <1>3. Unanswered /\ Listening /\ OneListed /\ AtChunk
    BY DEF Init, Unanswered, Listening, OneListed, AtChunk
  <1>4. Prefix(<<>>, Content(want))
    BY <1>1 DEF Prefix, Data
  <1>5. Flow
    BY <1>1, <1>4, ConcatNothing DEF Init, Flow
  <1>6. Counted
    BY DEF Init, Counted
  <1> QED
    BY <1>2, <1>3, <1>5, <1>6 DEF DownloadInv

\* DownloadInv is inductive.
LEMMA NextDownload == DownloadInv /\ [Next]_vars => DownloadInv'
  <1> SUFFICES ASSUME DownloadInv, [Next]_vars
               PROVE  DownloadInv'
    OBVIOUS
  <1>1. CASE Next
    BY <1>1, HandlerKept, TaskKept, ConnectionKept DEF Next
  <1>2. CASE UNCHANGED vars
    BY <1>2 DEF vars, respVars, taskVars, DownloadInv, Typed, TypeOK, Unanswered, Listening, OneListed,
                AtChunk, Flow, Sent, Counted
  <1> QED
    BY <1>1, <1>2

\* And holds throughout.
LEMMA DownloadInvariant == Spec => []DownloadInv
  <1> QED
    BY InitDownload, NextDownload, PTL DEF Spec

-----------------------------------------------------------------------------
(* Theorems *)

\* Every variable keeps its type; that the channel never holds more than its
\* capacity and that a byte count never goes below zero is part of it.
THEOREM DownloadTyping == Spec => []TypeOK
  <1>1. DownloadInv => TypeOK
    BY DEF DownloadInv, Typed
  <1> QED
    BY <1>1, DownloadInvariant, PTL

\* What the client has is the beginning of the file, whatever a manifest
\* claims and whichever chunk fails (chunk_download_stream).
THEOREM BytesComeInOrder == Spec => []InOrder
  <1>1. DownloadInv => InOrder
    BY DEF DownloadInv, Flow, Prefix, InOrder
  <1> QED
    BY <1>1, DownloadInvariant, PTL

\* A client that got as many bytes as were announced has the whole file, if
\* the manifest is one that an upload writes.
THEOREM FullLengthIsWholeFile == Spec => []CompleteIsWhole
  <1>1. DownloadInv => CompleteIsWhole
    <2> SUFFICES ASSUME DownloadInv, client = "complete", WellFormed(want)
                 PROVE  Concat(got) = Content(want)
      BY DEF CompleteIsWhole
    <2>1. want \in Wanted /\ got \in Seq(Data) /\ left = 0 /\ Prefix(Concat(got), Content(want))
          /\ left + Len(Concat(got)) = Announced(want)
      BY DEF DownloadInv, Typed, TypeOK, Counted, Flow
    <2>2. Concat(got) \in Seq(Units) /\ Content(want) \in Seq(Units)
      BY <2>1, ConcatData, WantedBlobs DEF Data
    <2>3. Announced(want) = Len(Content(want))
      BY <2>1, WantedBlobs DEF Announced, Content, WellFormed
    <2>4. Len(Concat(got)) = Len(Content(want))
      BY <2>1, <2>2, <2>3
    <2> QED
      BY <2>1, <2>2, <2>4, PrefixWhole
  <1> QED
    BY <1>1, DownloadInvariant, PTL

\* The task reaches no further chunk once the receiver is gone: send fails and
\* the loop breaks.
THEOREM NobodyFetchedFor == Spec => NoFetchForNobody
  <1>1. DownloadInv /\ [Next]_vars => [task # "off" /\ ~rx => next' = next]_vars
    BY DEF DownloadInv, Unanswered, Next, Handler, Reject, NotFound, Close, FetchRaw, Unverified, FetchSingle, RespondSingle,
           RespondWith, StartStream, Task, FetchChunk, FetchChunkFails, NoMoreChunks, SendChunk,
           SendChunkFails, SendLast, Connection, WriteFrame, Complete, EndOfBody, HangUp, DropBody,
           taskVars, vars
  <1> QED
    BY <1>1, DownloadInvariant, PTL DEF Spec, NoFetchForNobody
=============================================================================
