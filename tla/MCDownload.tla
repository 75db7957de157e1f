----------------------------- MODULE MCDownload -----------------------------
(***************************************************************************)
(* Instances of Download: a file of six one-unit chunks, two more than the *)
(* channel holds, and manifests whose fields disagree with it.             *)
(***************************************************************************)
EXTENDS Download, TLC

CONSTANTS a, b, c, d, e, f

Chunks == <<<<a>>, <<b>>, <<c>>, <<d>>, <<e>>, <<f>>>>
File   == <<a, b, c, d, e, f>>

Manifest(n, count, ok, hs) ==
  [kind |-> "manifest", file_size |-> n, chunk_size |-> 1, chunks |-> count,
   sealed |-> ok, chunk_hashes |-> hs]

Good       == Manifest(6, 6, TRUE, Chunks)
Repeated   == Manifest(4, 4, TRUE, <<<<a>>, <<b>>, <<a>>, <<b>>>>)
OneChunk   == Manifest(1, 1, TRUE, <<<<a>>>>)
Forged     == Manifest(6, 6, FALSE, Chunks)
NoChunks   == Manifest(0, 0, TRUE, <<>>)
TooShort   == Manifest(3, 6, TRUE, Chunks)
TooLong    == Manifest(9, 6, TRUE, Chunks)
FewChunks  == Manifest(6, 2, TRUE, Chunks)
ManyChunks == Manifest(6, 7, TRUE, Chunks)

Manifests == {Good, Repeated, OneChunk, Forged, NoChunks, TooShort, TooLong, FewChunks, ManyChunks}

MCWanted == {RawBlob(File), RawBlob(<<>>), RawBlob(<<f>>)} \cup Manifests

\* Everything but chunk f.
Gaps == (MCWanted \cup {RawBlob(Chunks[i]) : i \in 1 .. 6}) \ {RawBlob(<<f>>)}

\* Everything.
Full == Gaps \cup {RawBlob(<<f>>)}

=============================================================================
