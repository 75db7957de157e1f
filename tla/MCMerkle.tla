------------------------------ MODULE MCMerkle ------------------------------
(***************************************************************************)
(* Merkle on all short lists over hashes of which two are not hex and      *)
(* decode to nothing, and one decodes to the bytes of two digests.         *)
(***************************************************************************)
EXTENDS Merkle

CONSTANTS x, y, bad, worse, long, MaxLeaves

MCBytes ==
  [h \in Hashes |-> IF h \in {bad, worse} THEN <<>> ELSE IF h = long THEN <<x, y>> ELSE <<h>>]

\* All lists of up to three hashes, and longer ones over two hashes.
MCLists ==
  UNION {[1 .. n -> Hashes] : n \in 0 .. 3} \cup UNION {[1 .. n -> {x, y}] : n \in 4 .. MaxLeaves}

=============================================================================
