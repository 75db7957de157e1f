------------------------------ MODULE Download ------------------------------
(***************************************************************************)
(* GET /lfs/<repo>/objects/<oid>: handle_download and the task behind      *)
(* chunk_download_stream in daemon.rs.  The handler fetches the blob that  *)
(* the oid names; a blob that parses as a manifest is replaced by the      *)
(* chunks it lists, which a detached task fetches one after the other into *)
(* a bounded channel while hyper writes them to the client under the       *)
(* Content-Length that the manifest announced.                             *)
(*                                                                         *)
(* As in Upload, SHA-256 is injective and a blob stands for its own hash.  *)
(* Manifests need not come from this program: any BUD-17 writer may have   *)
(* stored them, and their fields need not agree with each other.           *)
(***************************************************************************)
EXTENDS Integers, Sequences

CONSTANTS
  Units,            \* the units that contents are made of
  Store,            \* the blobs on the server
  Wanted,           \* the blobs that a client may ask for
  ChannelCapacity,  \* mpsc::channel(4)
  OverflowChecks,   \* TRUE in a debug build: integer underflow panics
  Faults            \* a subset of {"net", "hangup"}

Data == Seq(Units)

RawBlob(d) == [kind |-> "raw", data |-> d]

ManifestFields == {"kind", "file_size", "chunk_size", "chunks", "sealed", "chunk_hashes"}

\* sealed: merkle_root is the root of chunk_hashes, which is all verify() looks at.
IsManifest(b) ==
  /\ b.kind = "manifest"
  /\ DOMAIN b = ManifestFields
  /\ b.file_size \in Nat /\ b.chunk_size \in Nat /\ b.chunks \in Nat
  /\ b.sealed \in BOOLEAN
  /\ b.chunk_hashes \in Seq(Data)

IsRaw(b) == b.kind = "raw" /\ b = RawBlob(b.data) /\ b.data \in Data

ASSUME DownloadAssumption ==
  /\ \A b \in Wanted \cup Store : IsRaw(b) \/ IsManifest(b)
  /\ ChannelCapacity \in Nat \ {0}
  /\ OverflowChecks \in BOOLEAN

VARIABLES
  want,     \* the blob named by the oid of the request
  pc,       \* the handler and its response: "new", "single", "open", "closed"
  status,   \* "none", "refused", "not_found", "unverified", "ok"
  client,   \* what the client ends up with
  task,     \* the detached task: "off", "fetch", "send", "last", "exit"
  next,     \* the chunk it is at
  held,     \* the chunk it has fetched and not sent
  chan,     \* the channel
  rx,       \* the receiving half of the channel is alive
  left,     \* bytes of the Content-Length not written yet
  got       \* frames written to the client

vars == <<want, pc, status, client, task, next, held, chan, rx, left, got>>

respVars == <<status, client>>
taskVars == <<task, next, held>>

Smaller(m, n) == IF m < n THEN m ELSE n

\* Manifest::verify: no hashes, no tree; then only the root is compared.
Verifies(m) == m.chunk_hashes # <<>> /\ m.sealed

\* all_chunk_info in the task: an index past the hashes panics, and so does a
\* last chunk that starts after the end of the file, in a debug build.
Panics(m) ==
  \/ m.chunks > Len(m.chunk_hashes)
  \/ OverflowChecks /\ m.chunks > 0 /\ m.file_size < (m.chunks - 1) * m.chunk_size

\* Mutant: every chunk after the first is the one before it.
ChunkHashOffByOne(m, i) == m.chunk_hashes[IF i = 1 THEN 1 ELSE i - 1]

\* chunk_info(i).hash, counting from one.
ChunkHash(m, i) == m.chunk_hashes[i]

-----------------------------------------------------------------------------
Init ==
  /\ want \in Wanted
  /\ pc = "new"
  /\ status = "none"
  /\ client = "waiting"
  /\ task = "off"
  /\ next = 1
  /\ held = <<>>
  /\ chan = <<>>
  /\ rx = FALSE
  /\ left = 0
  /\ got = <<>>

Close(s, c) ==
  /\ pc' = "closed"
  /\ status' = s
  /\ client' = c
  /\ UNCHANGED <<want, taskVars, chan, rx, left, got>>

\* Bad path, bad configuration or an unusable key.
Reject == pc = "new" /\ Close("refused", "error")

\* The blob or the only chunk cannot be had.
NotFound ==
  /\ \/ pc = "new" /\ (want \notin Store \/ "net" \in Faults)
     \/ pc = "single" /\ (RawBlob(ChunkHash(want, 1)) \notin Store \/ "net" \in Faults)
  /\ Close("not_found", "error")

Fetched == pc = "new" /\ want \in Store

\* A 200 whose whole body is at hand.
RespondWith(d, length) ==
  /\ pc' = "open"
  /\ status' = "ok"
  /\ chan' = <<d>>
  /\ rx' = TRUE
  /\ left' = length
  /\ task' = "exit"
  /\ UNCHANGED <<want, client, next, held, got>>

FetchRaw ==
  /\ Fetched /\ want.kind = "raw"
  /\ RespondWith(want.data, Len(want.data))

Unverified ==
  /\ Fetched /\ want.kind = "manifest"
  /\ ~Verifies(want)
  /\ Close("unverified", "error")

FetchSingle ==
  /\ Fetched /\ want.kind = "manifest"
  /\ Verifies(want)
  /\ want.chunks = 1
  /\ pc' = "single"
  /\ UNCHANGED <<want, respVars, taskVars, chan, rx, left, got>>

RespondSingle ==
  /\ pc = "single"
  /\ RawBlob(ChunkHash(want, 1)) \in Store
  /\ RespondWith(ChunkHash(want, 1), want.file_size)

\* The 200 and its Content-Length go out before any chunk is fetched.
StartStream ==
  /\ Fetched /\ want.kind = "manifest"
  /\ Verifies(want)
  /\ want.chunks # 1
  /\ pc' = "open"
  /\ status' = "ok"
  /\ rx' = TRUE
  /\ left' = want.file_size
  /\ task' = IF Panics(want) THEN "exit" ELSE "fetch"
  /\ UNCHANGED <<want, client, next, held, chan, got>>

-----------------------------------------------------------------------------
(* The detached task *)

FetchChunk ==
  /\ task = "fetch"
  /\ next <= want.chunks
  /\ RawBlob(ChunkHash(want, next)) \in Store
  /\ held' = ChunkHash(want, next)
  /\ task' = "send"
  /\ UNCHANGED <<want, pc, respVars, next, chan, rx, left, got>>

\* Mutant: a chunk that cannot be had is skipped and the loop goes on.
FetchChunkFailsSkips ==
  /\ task = "fetch"
  /\ next <= want.chunks
  /\ RawBlob(ChunkHash(want, next)) \notin Store \/ "net" \in Faults
  /\ next' = next + 1
  /\ UNCHANGED <<want, pc, respVars, task, held, chan, rx, left, got>>

FetchChunkFails ==
  /\ task = "fetch"
  /\ next <= want.chunks
  /\ RawBlob(ChunkHash(want, next)) \notin Store \/ "net" \in Faults
  /\ task' = "last"
  /\ UNCHANGED <<want, pc, respVars, next, held, chan, rx, left, got>>

NoMoreChunks ==
  /\ task = "fetch"
  /\ next > want.chunks
  /\ task' = "exit"
  /\ UNCHANGED <<want, pc, respVars, next, held, chan, rx, left, got>>

\* Mutant: the channel is unbounded.
SendChunkUnbounded ==
  /\ task = "send"
  /\ rx
  /\ chan' = Append(chan, held)
  /\ next' = next + 1
  /\ task' = "fetch"
  /\ UNCHANGED <<want, pc, respVars, held, rx, left, got>>

SendChunk ==
  /\ task = "send"
  /\ rx
  /\ Len(chan) < ChannelCapacity
  /\ chan' = Append(chan, held)
  /\ next' = next + 1
  /\ task' = "fetch"
  /\ UNCHANGED <<want, pc, respVars, held, rx, left, got>>

\* Mutant: the result of send is ignored.
SendChunkFailsIgnored ==
  /\ task = "send"
  /\ ~rx
  /\ task' = "fetch"
  /\ next' = next + 1
  /\ UNCHANGED <<want, pc, respVars, held, chan, rx, left, got>>

\* Mutant: the task waits for room in the channel of a receiver that is gone.
SendChunkFailsNever ==
  /\ task = "send"
  /\ ~rx
  /\ UNCHANGED vars

\* send fails because the receiver is gone: the loop breaks.
SendChunkFails ==
  /\ task = "send"
  /\ ~rx
  /\ task' = "exit"
  /\ UNCHANGED <<want, pc, respVars, next, held, chan, rx, left, got>>

\* Mutant: after a failed fetch the task stays alive and keeps the channel open.
SendLastStays ==
  /\ task = "last"
  /\ ~rx \/ Len(chan) < ChannelCapacity
  /\ chan' = IF rx THEN Append(chan, <<>>) ELSE chan
  /\ UNCHANGED <<want, pc, respVars, taskVars, rx, left, got>>

\* After a failed fetch the task sends an empty frame, if anybody listens, and
\* breaks.
SendLast ==
  /\ task = "last"
  /\ ~rx \/ Len(chan) < ChannelCapacity
  /\ chan' = IF rx THEN Append(chan, <<>>) ELSE chan
  /\ task' = "exit"
  /\ UNCHANGED <<want, pc, respVars, next, held, rx, left, got>>

Task == \/ FetchChunk \/ FetchChunkFails \/ NoMoreChunks
        \/ SendChunk \/ SendChunkFails \/ SendLast

-----------------------------------------------------------------------------
(* hyper, external: it writes what the channel yields, drops empty frames and *)
(* anything beyond the Content-Length, and breaks the connection when the     *)
(* body ends before it.                                                       *)

DropBody(c) ==
  /\ pc' = "closed"
  /\ client' = c
  /\ rx' = FALSE
  /\ chan' = <<>>
  /\ UNCHANGED <<want, status, taskVars, left, got>>

WriteFrame ==
  /\ pc = "open"
  /\ left > 0
  /\ chan # <<>>
  /\ LET n == Smaller(Len(Head(chan)), left)
     IN  /\ got' = IF n = 0 THEN got ELSE Append(got, SubSeq(Head(chan), 1, n))
         /\ left' = left - n
  /\ chan' = Tail(chan)
  /\ UNCHANGED <<want, pc, respVars, taskVars, rx>>

Complete == pc = "open" /\ left = 0 /\ DropBody("complete")

EndOfBody ==
  /\ pc = "open"
  /\ left > 0
  /\ chan = <<>>
  /\ task = "exit"
  /\ DropBody("short")

\* The client goes away, while it waits or while it reads.
HangUp ==
  /\ "hangup" \in Faults
  /\ pc # "closed"
  /\ DropBody("gone")

Handler == \/ Reject \/ NotFound \/ FetchRaw \/ Unverified \/ FetchSingle
           \/ RespondSingle \/ StartStream

Connection == WriteFrame \/ Complete \/ EndOfBody

Next == Handler \/ Task \/ Connection \/ HangUp

Spec == Init /\ [][Next]_vars

\* Calls to the server have a timeout (make_transport, load_read_transport), so
\* the handler and its task go on; a client that stays connected reads.
FairSpec == Spec /\ WF_vars(Handler) /\ WF_vars(Task) /\ WF_vars(Connection)

-----------------------------------------------------------------------------
(* Properties *)

\* Every variable has its type.
TypeOK ==
  /\ want \in Wanted
  /\ pc \in {"new", "single", "open", "closed"}
  /\ status \in {"none", "refused", "not_found", "unverified", "ok"}
  /\ client \in {"waiting", "error", "complete", "short", "gone"}
  /\ task \in {"off", "fetch", "send", "last", "exit"}
  /\ next \in Nat \ {0}
  /\ held \in Data \cup {<<>>}
  /\ Len(chan) <= ChannelCapacity
  /\ rx \in BOOLEAN
  /\ left \in Nat

Concat(s) ==
  LET cat[k \in 0 .. Len(s)] == IF k = 0 THEN <<>> ELSE cat[k - 1] \o s[k]
  IN  cat[Len(s)]

\* The file behind an oid.
Content(b) == IF b.kind = "raw" THEN b.data ELSE Concat(b.chunk_hashes)

\* The fields of a manifest agree: what Upload produces.
WellFormed(b) ==
  b.kind = "manifest" =>
    /\ b.chunks = Len(b.chunk_hashes)
    /\ b.file_size = Len(Concat(b.chunk_hashes))

\* The client never sees bytes out of order or with a gap, however chunks fail,
\* whatever the manifest claims (daemon.rs:531-546).
InOrder ==
  LET g == Concat(got) IN
    Len(g) <= Len(Content(want)) /\ g = SubSeq(Content(want), 1, Len(g))

\* A client that received the announced number of bytes has the whole file: a
\* chunk that fails after the 200 went out shows as a short body, never as
\* success (daemon.rs:499-510, 540-543).
CompleteIsWhole ==
  client = "complete" /\ WellFormed(want) => Concat(got) = Content(want)

\* Once nobody listens, the task reaches no further chunk (daemon.rs:536-538).
NoFetchForNobody == [][task # "off" /\ ~rx => next' = next]_vars

\* The detached task of a response that is over ends (daemon.rs:531-546).
TaskEnds == (pc = "closed" /\ task # "off") ~> task = "exit"

\* A client that stays gets an answer to the end, or sees it break off: task and
\* connection never wait for each other for ever (daemon.rs:529-548).
Answered == pc = "open" ~> client # "waiting"

=============================================================================
