------------------------------- MODULE Merkle -------------------------------
(***************************************************************************)
(* The Merkle tree over the chunk hashes of a manifest (merkle.rs): how    *)
(* build_tree makes it level by level, how proof collects the siblings of  *)
(* a leaf on the way up, and how verify_chunk and verify_merkle_root fold  *)
(* a proof back into a root.  The loops of the code are the steps here.    *)
(*                                                                         *)
(* Positions count from zero, as in the code; level[i] of the code is      *)
(* level[i + 1] of a sequence.                                             *)
(***************************************************************************)
EXTENDS Integers, Sequences

CONSTANTS
  Hashes,  \* the strings that may stand in chunk_hashes
  Blocks,  \* what bytes are made of; the bytes of a digest are one block
  Bytes,   \* Bytes[h]: hex::decode(h).unwrap_or_default(), for h in Hashes
  Lists    \* the lists of hashes that a tree is asked for

ASSUME MerkleAssumption ==
  /\ Lists \subseteq Seq(Hashes)
  /\ Bytes \in [Hashes -> Seq(Blocks)]

VARIABLES
  leaves,   \* the argument of MerkleTree::new
  at,       \* leaf_index
  claim,    \* the hash that is claimed to stand there
  by,       \* who asks: "verify_chunk" or "verify_merkle_root"
  pc,       \* "new", "build", "prove", "fold", "done"
  tree,     \* the levels built so far, leaves first
  level,    \* number of siblings collected
  index,    \* position in the level above them
  path,     \* MerkleProof::proof
  folded,   \* number of siblings folded
  current,  \* current_hash
  verdict   \* "none", "accept", "reject", "empty", "out_of_bounds"

inputs == <<leaves, at, claim, by>>
walk   == <<level, index, path>>
fold   == <<folded, current>>
vars   == <<inputs, pc, tree, walk, fold, verdict>>

-----------------------------------------------------------------------------
(* Hashes *)

\* A node is the hex of a digest; what is not hex decodes to nothing.
Decoded(x) == IF x \in Hashes THEN Bytes[x] ELSE <<x>>

\* Mutant: the hasher is fed the left half twice.
HashPairLeftTwice(left, right) == [digest |-> Decoded(left) \o Decoded(left)]

\* Mutant: the hasher is fed the strings themselves.
HashPairUndecoded(left, right) == [digest |-> <<left, right>>]

\* SHA-256 of the bytes of the two halves, one after the other: where the left
\* one ends is not recorded.  The digest is taken to be injective.
HashPair(left, right) == [digest |-> Decoded(left) \o Decoded(right)]

\* Mutant: the last node of an odd level is promoted as it is.
ParentsPromoteLast(nodes) ==
  [i \in 1 .. (Len(nodes) + 1) \div 2 |->
     IF 2 * i <= Len(nodes) THEN HashPair(nodes[2 * i - 1], nodes[2 * i]) ELSE nodes[2 * i - 1]]

\* One level from the one below; a node without a partner is its own.
Parents(nodes) ==
  [i \in 1 .. (Len(nodes) + 1) \div 2 |->
     HashPair(nodes[2 * i - 1], nodes[IF 2 * i <= Len(nodes) THEN 2 * i ELSE 2 * i - 1])]

Top == tree[Len(tree)]

Root == Top[1]

\* Mutant: a node on the left always has a neighbour.
SiblingUnchecked(i, nodes) == IF i % 2 = 0 THEN i + 1 ELSE i - 1

\* The neighbour of position i, or i itself at the end of an odd level.
Sibling(i, nodes) ==
  IF i % 2 = 1 THEN i - 1 ELSE IF i + 1 < Len(nodes) THEN i + 1 ELSE i

-----------------------------------------------------------------------------
Init ==
  /\ leaves \in Lists
  /\ at \in 0 .. Len(leaves)
  /\ claim \in Hashes
  /\ by \in {"verify_chunk", "verify_merkle_root"}
  /\ pc = "new"
  /\ tree = <<>>
  /\ level = 0
  /\ index = at
  /\ path = <<>>
  /\ folded = 0
  /\ current = claim
  /\ verdict = "none"

Stop(v) ==
  /\ pc' = "done"
  /\ verdict' = v
  /\ UNCHANGED <<inputs, tree, walk, fold>>

\* MerkleTree::new refuses an empty list.
Refuse == pc = "new" /\ leaves = <<>> /\ Stop("empty")

Plant ==
  /\ pc = "new"
  /\ leaves # <<>>
  /\ tree' = <<leaves>>
  /\ pc' = "build"
  /\ UNCHANGED <<inputs, walk, fold, verdict>>

BuildLevel ==
  /\ pc = "build"
  /\ Len(Top) > 1
  /\ tree' = Append(tree, Parents(Top))
  /\ UNCHANGED <<inputs, pc, walk, fold, verdict>>

StartProof ==
  /\ pc = "build"
  /\ Len(Top) = 1
  /\ at < Len(leaves)
  /\ pc' = "prove"
  /\ UNCHANGED <<inputs, tree, walk, fold, verdict>>

OutOfBounds ==
  /\ pc = "build"
  /\ Len(Top) = 1
  /\ at >= Len(leaves)
  /\ Stop("out_of_bounds")

\* Mutant: the sides are swapped.
CollectSwapped ==
  /\ pc = "prove"
  /\ level < Len(tree) - 1
  /\ LET nodes == tree[level + 1] IN
       path' = Append(path, [hash |-> nodes[Sibling(index, nodes) + 1], is_left |-> index % 2 = 0])
  /\ index' = index \div 2
  /\ level' = level + 1
  /\ UNCHANGED <<inputs, pc, tree, fold, verdict>>

\* Mutant: the position above i is (i - 1) / 2, as in a heap.
CollectAsHeap ==
  /\ pc = "prove"
  /\ level < Len(tree) - 1
  /\ LET nodes == tree[level + 1] IN
       path' = Append(path, [hash |-> nodes[Sibling(index, nodes) + 1], is_left |-> index % 2 = 1])
  /\ index' = (index - 1) \div 2
  /\ level' = level + 1
  /\ UNCHANGED <<inputs, pc, tree, fold, verdict>>

\* One level of proof: the root's level has no sibling to collect.
Collect ==
  /\ pc = "prove"
  /\ level < Len(tree) - 1
  /\ LET nodes == tree[level + 1] IN
       path' = Append(path, [hash |-> nodes[Sibling(index, nodes) + 1], is_left |-> index % 2 = 1])
  /\ index' = index \div 2
  /\ level' = level + 1
  /\ UNCHANGED <<inputs, pc, tree, fold, verdict>>

\* verify_chunk compares the claim with the leaf before it folds.
WrongLeaf ==
  /\ pc = "prove"
  /\ level = Len(tree) - 1
  /\ by = "verify_chunk"
  /\ claim # leaves[at + 1]
  /\ Stop("reject")

StartFold ==
  /\ pc = "prove"
  /\ level = Len(tree) - 1
  /\ by = "verify_chunk" => claim = leaves[at + 1]
  /\ pc' = "fold"
  /\ UNCHANGED <<inputs, tree, walk, fold, verdict>>

Fold ==
  /\ pc = "fold"
  /\ folded < Len(path)
  /\ LET s == path[folded + 1] IN
       current' = IF s.is_left THEN HashPair(s.hash, current) ELSE HashPair(current, s.hash)
  /\ folded' = folded + 1
  /\ UNCHANGED <<inputs, pc, tree, walk, verdict>>

Compare ==
  /\ pc = "fold"
  /\ folded = Len(path)
  /\ Stop(IF current = Root THEN "accept" ELSE "reject")

Next == \/ Refuse \/ Plant \/ BuildLevel \/ StartProof \/ OutOfBounds
        \/ Collect \/ WrongLeaf \/ StartFold \/ Fold \/ Compare

Spec == Init /\ [][Next]_vars

-----------------------------------------------------------------------------
(* Properties *)

\* Every variable has its type; what the nodes are is left to the other
\* properties.
TypeOK ==
  /\ leaves \in Seq(Hashes)
  /\ at \in 0 .. Len(leaves)
  /\ claim \in Hashes
  /\ by \in {"verify_chunk", "verify_merkle_root"}
  /\ pc \in {"new", "build", "prove", "fold", "done"}
  /\ pc \in {"build", "prove", "fold"} => tree # <<>>
  /\ level = Len(path)
  /\ index \in Nat
  /\ folded \in 0 .. Len(path)
  /\ verdict \in {"none", "accept", "reject", "empty", "out_of_bounds"}

\* proof never indexes a level beyond its end, whatever the number of leaves
\* (merkle.rs:96-115).
SiblingInBounds ==
  pc = "prove" /\ level < Len(tree) - 1 =>
    /\ index < Len(tree[level + 1])
    /\ Sibling(index, tree[level + 1]) \in 0 .. Len(tree[level + 1]) - 1

\* The root as a definition from the top: the subtree of height h that starts at
\* leaf k * 2^h, with a missing right half replaced by the left one.
Reference(s) ==
  LET power[h \in 0 .. Len(s)] == IF h = 0 THEN 1 ELSE 2 * power[h - 1]
      height == CHOOSE h \in 0 .. Len(s) : power[h] >= Len(s) /\ (h = 0 \/ power[h - 1] < Len(s))
      node[h \in 0 .. height] ==
        [k \in Nat |->
           IF h = 0 THEN s[k + 1]
           ELSE LET left == node[h - 1][2 * k]
                IN  HashPair(left, IF (2 * k + 1) * power[h - 1] < Len(s) THEN node[h - 1][2 * k + 1] ELSE left)]
  IN  node[height][0]

\* Building level by level gives the root of the definition (merkle.rs:40-67).
RootIsReference == pc = "prove" => Root = Reference(leaves)

\* A proof is accepted for the leaf it was made for and for no other hash: the
\* claim is the leaf, or, since nodes hash decoded bytes, it decodes to the same
\* (merkle.rs:84-139, 149-164).
AcceptsItsLeaf ==
  verdict \in {"accept", "reject"} =>
    LET leaf == leaves[at + 1]
        same == IF by = "verify_chunk" \/ Len(leaves) = 1 THEN claim = leaf ELSE Bytes[claim] = Bytes[leaf]
    IN  verdict = "accept" <=> same

\* What is hashed of a list at an odd place: two chunks, or the last one twice.
Pair(s, i) == Decoded(s[i]) \o Decoded(s[IF i < Len(s) THEN i + 1 ELSE i])

\* The root binds exactly the bytes of each pair of chunks: two lists of one
\* length have one root if and only if these agree, so a hash that decodes to
\* nothing can change places with its neighbour (merkle.rs:40-74).
RootBindsPairs ==
  pc = "prove" /\ level = 0 /\ Len(leaves) > 1 =>
    \A other \in Lists :
      Len(other) = Len(leaves) =>
        (Root = Reference(other) <=>
           \A i \in DOMAIN leaves : i % 2 = 1 => Pair(other, i) = Pair(leaves, i))

SameWidths(s, t) == \A i \in DOMAIN s : Len(Decoded(s[i])) = Len(Decoded(t[i]))

\* Where the two lists decode to as many bytes at each place, as digests do, the
\* root that Manifest::verify compares binds the chunks and their order
\* (merkle.rs:28-82).
RootBindsChunks ==
  pc = "prove" /\ level = 0 =>
    \A other \in Lists :
      Len(other) = Len(leaves) /\ SameWidths(leaves, other) /\ Root = Reference(other) =>
        \A i \in DOMAIN leaves : Decoded(other[i]) = Decoded(leaves[i])

=============================================================================
