---------------------------- MODULE MerkleProofs ----------------------------
(***************************************************************************)
(* Proofs about Merkle, for lists of any length: that a proof stays in the *)
(* tree, that the tree built level by level has the root of the definition *)
(* from the top, that this root binds the leaves, and that a proof is      *)
(* accepted for its own leaf alone.                                        *)
(***************************************************************************)
EXTENDS Merkle, Joins

\* A sequence of whatever it holds.
IsSeq(s) == s \in Seq({s[i] : i \in DOMAIN s})

\* A function on 1 .. n is a sequence of length n.
LEMMA SeqIntro ==
  ASSUME NEW n \in Nat, NEW s, s = [i \in 1 .. n |-> s[i]]
  PROVE  IsSeq(s) /\ Len(s) = n
  <1> DEFINE E == {s[i] : i \in DOMAIN s}
  <1>1. DOMAIN s = 1 .. n
    OBVIOUS
  <1>2. \A i \in 1 .. n : s[i] \in E
    BY <1>1
  <1>3. s \in [1 .. n -> E]
    BY <1>2
  <1>4. s \in Seq(E)
    BY <1>3
  <1>5. Len(s) = n
    BY <1>1, <1>4
  <1> QED
    BY <1>4, <1>5 DEF IsSeq

\* Append adds one element at the end and keeps the others.
LEMMA AppendSeq ==
  ASSUME NEW s, IsSeq(s), NEW e
  PROVE  /\ IsSeq(Append(s, e))
         /\ Len(Append(s, e)) = Len(s) + 1
         /\ \A i \in 1 .. Len(s) : Append(s, e)[i] = s[i]
         /\ Append(s, e)[Len(s) + 1] = e
  <1> DEFINE E == {s[i] : i \in DOMAIN s}
             F == E \cup {e}
  <1>1. s \in Seq(F)
    BY DEF IsSeq
  <1>2. /\ Append(s, e) \in Seq(F)
        /\ Len(Append(s, e)) = Len(s) + 1
        /\ \A i \in 1 .. Len(s) : Append(s, e)[i] = s[i]
        /\ Append(s, e)[Len(s) + 1] = e
    BY <1>1
  <1>3. Append(s, e) = [i \in 1 .. Len(Append(s, e)) |-> Append(s, e)[i]]
    <2>1. Append(s, e) \in [1 .. Len(Append(s, e)) -> F]
      BY ONLY <1>2, LenProperties
    <2> QED
      BY ONLY <2>1
  <1>4. Len(Append(s, e)) \in Nat
    BY <1>2
  <1>5. IsSeq(Append(s, e))
    BY <1>3, <1>4, SeqIntro
  <1> QED
    BY <1>2, <1>5

\* A level is half as wide as the one below, rounded up.
LEMMA ParentsWidth ==
  ASSUME NEW nodes, IsSeq(nodes)
  PROVE  IsSeq(Parents(nodes)) /\ Len(Parents(nodes)) = (Len(nodes) + 1) \div 2
  <1>1. Len(nodes) \in Nat
    BY DEF IsSeq
  <1>2. (Len(nodes) + 1) \div 2 \in Nat
    BY <1>1
  <1>3. Parents(nodes) = [i \in 1 .. (Len(nodes) + 1) \div 2 |-> Parents(nodes)[i]]
    BY DEF Parents
  <1> QED
    BY <1>2, <1>3, SeqIntro

-----------------------------------------------------------------------------
\* The levels are sequences, none is empty, each is half as wide as the one
\* below, and the first are the leaves.
Shape ==
  /\ IsSeq(tree)
  /\ \A j \in 1 .. Len(tree) : IsSeq(tree[j]) /\ Len(tree[j]) > 0
  /\ \A j \in 1 .. Len(tree) : j > 1 => Len(tree[j]) = (Len(tree[j - 1]) + 1) \div 2
  /\ tree # <<>> => tree[1] = leaves
  /\ pc = "new" => tree = <<>>
  /\ pc \in {"build", "prove"} => Len(tree) > 0

\* The walk is at a position of a level.
Walk ==
  /\ pc \in {"new", "build"} => level = 0 /\ index = at
  /\ pc = "prove" => /\ level \in 0 .. Len(tree) - 1
                     /\ index \in 0 .. Len(tree[level + 1]) - 1

WalkInv == leaves \in Seq(Hashes) /\ at \in Nat /\ Shape /\ Walk

\* The empty sequence.
LEMMA EmptyIsSeq == IsSeq(<<>>) /\ Len(<<>>) = 0
  <1>1. ASSUME NEW E
        PROVE  <<>> \in Seq(E)
    OBVIOUS
  <1>2. Len(<<>>) = 0
    OBVIOUS
  <1>3. <<>> \in Seq({<<>>[i] : i \in DOMAIN <<>>})
    BY <1>1, Zenon
  <1> QED
    BY <1>2, <1>3 DEF IsSeq

\* Where the walk is while there is a level above.
LEMMA WalkPlaces ==
  ASSUME WalkInv, pc = "prove", level < Len(tree) - 1
  PROVE  /\ Len(tree) \in Nat /\ level \in 0 .. Len(tree) - 2
         /\ Len(tree[level + 1]) \in Nat /\ index \in 0 .. Len(tree[level + 1]) - 1
  <1>1. IsSeq(tree) /\ level \in 0 .. Len(tree) - 1 /\ index \in 0 .. Len(tree[level + 1]) - 1
    BY DEF WalkInv, Shape, Walk
  <1>2. Len(tree) \in Nat
    BY <1>1 DEF IsSeq
  <1>3. level \in 0 .. Len(tree) - 2 /\ level + 1 \in 1 .. Len(tree)
    BY <1>1, <1>2
  <1>4. IsSeq(tree[level + 1])
    BY <1>3 DEF WalkInv, Shape
  <1>5. Len(tree[level + 1]) \in Nat
    BY <1>4 DEF IsSeq
  <1> QED
    BY <1>1, <1>2, <1>3, <1>5

\* Before the walk.
LEMMA InitWalk == Init => WalkInv
  <1> SUFFICES ASSUME Init
               PROVE  WalkInv
    OBVIOUS
  <1>1. leaves \in Seq(Hashes)
    BY MerkleAssumption DEF Init
  <1>2. at \in Nat
    BY <1>1 DEF Init
  <1>3. Shape
    <2>1. tree = <<>> /\ pc = "new"
      BY DEF Init
    <2>2. IsSeq(tree) /\ Len(tree) = 0
      BY <2>1, EmptyIsSeq
    <2>3. \A j \in 1 .. Len(tree) : FALSE
      BY <2>2
    <2> QED
      BY <2>1, <2>2, <2>3 DEF Shape
  <1>4. Walk
    BY DEF Init, Walk
  <1> QED
    BY <1>1, <1>2, <1>3, <1>4 DEF WalkInv

\* Every step keeps the shape of the tree and the walk inside it.
LEMMA NextWalk == WalkInv /\ [Next]_vars => WalkInv'
  <1> SUFFICES ASSUME WalkInv, [Next]_vars
               PROVE  WalkInv'
    OBVIOUS
  <1> USE DEF inputs, walk, fold
  <1>1. leaves' = leaves /\ at' = at
    BY DEF Next, vars, Refuse, Plant, BuildLevel, StartProof, OutOfBounds, Collect,
           WrongLeaf, StartFold, Fold, Compare, Stop
  <1>2. CASE Plant
    <2>1. tree' = <<leaves>> /\ IsSeq(<<leaves>>) /\ Len(<<leaves>>) = 1 /\ <<leaves>>[1] = leaves
      BY <1>2 DEF Plant, IsSeq
    <2>2. IsSeq(leaves) /\ Len(leaves) > 0
      <3>1. leaves \in Seq(Hashes) /\ leaves # <<>>
        BY <1>2 DEF Plant, WalkInv
      <3>2. leaves = [i \in 1 .. Len(leaves) |-> leaves[i]] /\ Len(leaves) \in Nat
        BY <3>1
      <3>3. IsSeq(leaves)
        BY <3>2, SeqIntro
      <3> QED
        BY <3>1, <3>3
    <2>3. Shape'
      <3>1. pc' = "build"
        BY <1>2 DEF Plant
      <3>2. Len(tree') = 1 /\ IsSeq(tree') /\ tree'[1] = leaves
        BY <2>1
      <3>3. \A j \in 1 .. Len(tree') : j = 1
        BY <3>2
      <3>4. \A j \in 1 .. Len(tree') : IsSeq(tree'[j]) /\ Len(tree'[j]) > 0
        BY <2>2, <3>2, <3>3
      <3>5. \A j \in 1 .. Len(tree') : j > 1 => Len(tree'[j]) = (Len(tree'[j - 1]) + 1) \div 2
        BY <3>3
      <3> QED
        BY <1>1, <3>1, <3>2, <3>4, <3>5 DEF Shape
    <2>4. Walk'
      BY <1>1, <1>2 DEF Plant, WalkInv, Walk
    <2> QED
      BY <1>1, <2>3, <2>4 DEF WalkInv
  <1>3. CASE BuildLevel
    <2>1. tree' = Append(tree, Parents(Top)) /\ Len(tree) > 0 /\ IsSeq(tree) /\ Len(tree) \in Nat
      BY <1>3 DEF BuildLevel, WalkInv, Shape, IsSeq
    <2>2. IsSeq(Top) /\ Len(Top) \in Nat /\ Len(Top) > 1
      <3>1. Len(tree) \in 1 .. Len(tree)
        BY <2>1
      <3>2. IsSeq(Top)
        BY <3>1 DEF WalkInv, Shape, Top
      <3>3. Len(Top) \in Nat
        BY <3>2 DEF IsSeq
      <3> QED
        BY <1>3, <3>2, <3>3 DEF BuildLevel
    <2>3. IsSeq(Parents(Top)) /\ Len(Parents(Top)) = (Len(Top) + 1) \div 2
      BY <2>2, ParentsWidth
    <2>4. Len(Parents(Top)) > 0
      BY <2>2, <2>3
    <2>5. /\ IsSeq(tree')
          /\ Len(tree') = Len(tree) + 1
          /\ \A j \in 1 .. Len(tree) : tree'[j] = tree[j]
          /\ tree'[Len(tree) + 1] = Parents(Top)
      BY <2>1, AppendSeq
    <2>6. \A j \in 1 .. Len(tree') : IsSeq(tree'[j]) /\ Len(tree'[j]) > 0
      BY <2>1, <2>3, <2>4, <2>5 DEF WalkInv, Shape
    <2>7. ASSUME NEW j \in 1 .. Len(tree'), j > 1
          PROVE  Len(tree'[j]) = (Len(tree'[j - 1]) + 1) \div 2
      <3>1. j \in Nat /\ j - 1 \in 1 .. Len(tree) /\ (j \in 1 .. Len(tree) \/ j = Len(tree) + 1)
        BY ONLY <2>1, <2>5, <2>7
      <3>2. tree'[j - 1] = tree[j - 1]
        BY <2>5, <3>1
      <3>3. CASE j \in 1 .. Len(tree)
        <4>1. Len(tree[j]) = (Len(tree[j - 1]) + 1) \div 2
          BY <2>7, <3>3 DEF WalkInv, Shape
        <4>2. tree'[j] = tree[j]
          BY <2>5, <3>3
        <4> QED
          BY ONLY <3>2, <4>1, <4>2
      <3>4. CASE j = Len(tree) + 1
        <4>1. j - 1 = Len(tree)
          BY ONLY <2>1, <3>4
        <4>2. tree'[j] = Parents(Top) /\ tree'[j - 1] = Top
          BY <2>5, <3>2, <3>4, <4>1 DEF Top
        <4> QED
          BY ONLY <2>3, <4>2
      <3> QED
        BY <3>1, <3>3, <3>4
    <2>8. tree'[1] = leaves /\ Len(tree') > 0
      <3>1. tree # <<>>
        BY <2>1, EmptyIsSeq
      <3> QED
        BY <2>1, <2>5, <3>1 DEF WalkInv, Shape
    <2>9. pc' = "build" /\ level' = level /\ index' = index /\ pc = "build"
      BY <1>3 DEF BuildLevel
    <2> QED
      BY <1>1, <2>5, <2>6, <2>7, <2>8, <2>9 DEF WalkInv, Shape, Walk
  <1>4. CASE StartProof
    <2>1. /\ tree' = tree /\ level' = level /\ index' = index /\ pc' = "prove" /\ pc = "build"
          /\ at < Len(leaves)
      BY <1>4 DEF StartProof
    <2>2. Shape'
      BY <1>1, <2>1 DEF WalkInv, Shape
    <2>3. tree # <<>> /\ Len(tree) \in Nat /\ Len(tree) > 0
      BY <2>1, EmptyIsSeq DEF WalkInv, Shape, IsSeq
    <2>4. tree[1] = leaves
      BY <2>3 DEF WalkInv, Shape
    <2>5. Len(leaves) \in Nat
      BY DEF WalkInv
    <2>6. Walk'
      BY <2>1, <2>3, <2>4, <2>5 DEF WalkInv, Walk
    <2> QED
      BY <1>1, <2>2, <2>6 DEF WalkInv
  <1>5. CASE Collect
    <2>1. /\ tree' = tree /\ level' = level + 1 /\ index' = index \div 2 /\ pc' = "prove"
          /\ pc = "prove" /\ level < Len(tree) - 1
      BY <1>5 DEF Collect
    <2>2. Shape'
      BY <1>1, <2>1 DEF WalkInv, Shape
    <2> DEFINE below == Len(tree[level + 1])
               above == Len(tree[level + 2])
    <2>3. Len(tree) \in Nat /\ level \in 0 .. Len(tree) - 2
      BY <2>1, WalkPlaces
    <2>4. below \in Nat /\ index \in 0 .. below - 1
      BY <2>1, WalkPlaces
    <2>5. above = (below + 1) \div 2
      <3>1. level + 2 \in 1 .. Len(tree) /\ level + 2 > 1 /\ (level + 2) - 1 = level + 1
        BY ONLY <2>3
      <3>2. \A j \in 1 .. Len(tree) : j > 1 => Len(tree[j]) = (Len(tree[j - 1]) + 1) \div 2
        BY DEF WalkInv, Shape
      <3> QED
        BY ONLY <3>1, <3>2
    <2>6. index \div 2 \in 0 .. above - 1
      <3> HIDE DEF below, above
      <3> QED
        BY <2>4, <2>5
    <2>7. Walk'
      BY <2>1, <2>3, <2>6 DEF Walk
    <2> QED
      BY <1>1, <2>2, <2>7 DEF WalkInv
  <1>6. CASE Refuse
    BY <1>1, <1>6 DEF Refuse, Stop, WalkInv, Shape, Walk
  <1>7. CASE OutOfBounds
    BY <1>1, <1>7 DEF OutOfBounds, Stop, WalkInv, Shape, Walk
  <1>8. CASE WrongLeaf
    BY <1>1, <1>8 DEF WrongLeaf, Stop, WalkInv, Shape, Walk
  <1>9. CASE StartFold
    BY <1>1, <1>9 DEF StartFold, WalkInv, Shape, Walk
  <1>10. CASE Fold
    BY <1>1, <1>10 DEF Fold, WalkInv, Shape, Walk
  <1>11. CASE Compare
    BY <1>1, <1>11 DEF Compare, Stop, WalkInv, Shape, Walk
  <1>12. CASE UNCHANGED vars
    BY <1>1, <1>12 DEF vars, WalkInv, Shape, Walk
  <1> QED
    BY <1>2, <1>3, <1>4, <1>5, <1>6, <1>7, <1>8, <1>9, <1>10, <1>11, <1>12 DEF Next

\* proof never indexes a level beyond its end, for any number of leaves
\* (merkle.rs:96-115).
THEOREM ProofStaysInTree == Spec => []SiblingInBounds
  <1>1. WalkInv => SiblingInBounds
    <2> SUFFICES ASSUME WalkInv, pc = "prove", level < Len(tree) - 1
                 PROVE  /\ index < Len(tree[level + 1])
                        /\ Sibling(index, tree[level + 1]) \in 0 .. Len(tree[level + 1]) - 1
      BY DEF SiblingInBounds
    <2> DEFINE width == Len(tree[level + 1])
    <2>1. Len(tree) \in Nat /\ level \in 0 .. Len(tree) - 2
      BY WalkPlaces
    <2>2. width \in Nat /\ index \in 0 .. width - 1
      BY WalkPlaces
    <2>3. (IF index % 2 = 1 THEN index - 1 ELSE IF index + 1 < width THEN index + 1 ELSE index)
            \in 0 .. width - 1
      <3> HIDE DEF width
      <3> QED
        BY <2>2
    <2> QED
      BY <2>2, <2>3 DEF Sibling
  <1> QED
    BY <1>1, InitWalk, NextWalk, PTL DEF Spec

-----------------------------------------------------------------------------
(* The definition from the top, taken apart *)

IsPowers(q, n) == q = [h \in 0 .. n |-> IF h = 0 THEN 1 ELSE 2 * q[h - 1]]

Powers(n) == CHOOSE q : IsPowers(q, n)

IsHeight(h, n) == Powers(n)[h] >= n /\ (h = 0 \/ Powers(n)[h - 1] < n)

Height(n) == CHOOSE h \in 0 .. n : IsHeight(h, n)

\* Node k of height h over s, from the nodes g below it.
NodeAt(g, s, h, k) ==
  IF h = 0 THEN s[k + 1]
  ELSE LET left == g[h - 1][2 * k]
       IN  HashPair(left, IF (2 * k + 1) * Powers(Len(s))[h - 1] < Len(s) THEN g[h - 1][2 * k + 1] ELSE left)

IsNodes(g, s, n) == g = [h \in 0 .. n |-> [k \in Nat |-> NodeAt(g, s, h, k)]]

Nodes(s) == CHOOSE g : IsNodes(g, s, Height(Len(s)))

\* The definition from the top, unfolded.
LEMMA ReferenceIs ==
  ASSUME NEW s
  PROVE  Reference(s) = Nodes(s)[Height(Len(s))][0]
  BY DEF Reference, Nodes, IsNodes, NodeAt, Height, IsHeight, Powers, IsPowers

\* The powers of two.
LEMMA PowersExist ==
  ASSUME NEW n \in Nat
  PROVE  \E q : IsPowers(q, n)
  <1> DEFINE T == {m \in Nat : \E q : IsPowers(q, m)}
  <1>1. 0 \in T
    <2>1. IsPowers([h \in 0 .. 0 |-> 1], 0)
      BY DEF IsPowers
    <2> QED
      BY <2>1
  <1>2. ASSUME NEW m \in Nat, m \in T
        PROVE  m + 1 \in T
    <2>1. PICK q : IsPowers(q, m)
      BY <1>2
    <2> DEFINE r == [h \in 0 .. m + 1 |-> IF h = m + 1 THEN 2 * q[m] ELSE q[h]]
    <2>2. ASSUME NEW h \in 0 .. m + 1
          PROVE  r[h] = IF h = 0 THEN 1 ELSE 2 * r[h - 1]
      <3>1. CASE h = m + 1
        <4>1. h - 1 = m /\ h # 0 /\ r[m] = q[m] /\ r[h] = 2 * q[m]
          BY <3>1
        <4> HIDE DEF r
        <4> QED
          BY <4>1
      <3>2. CASE h # m + 1
        <4>1. h \in 0 .. m /\ r[h] = q[h] /\ (h # 0 => r[h - 1] = q[h - 1])
          BY <3>2
        <4> HIDE DEF r
        <4>2. q[h] = IF h = 0 THEN 1 ELSE 2 * q[h - 1]
          BY <2>1, <4>1 DEF IsPowers
        <4> QED
          BY <4>1, <4>2
      <3> QED
        BY <3>1, <3>2
    <2>3. r = [h \in 0 .. m + 1 |-> r[h]]
      OBVIOUS
    <2> HIDE DEF r
    <2>4. IsPowers(r, m + 1)
      BY <2>2, <2>3 DEF IsPowers
    <2> QED
      BY <2>4
  <1> HIDE DEF T
  <1>3. n \in T
    BY <1>1, <1>2, NumbersInduction
  <1> QED
    BY <1>3 DEF T

\* Powers of two, one from the other.
LEMMA PowersAt ==
  ASSUME NEW n \in Nat
  PROVE  /\ Powers(n)[0] = 1
         /\ \A h \in 0 .. n : Powers(n)[h] \in Nat /\ Powers(n)[h] >= 1
         /\ \A h \in Nat : h < n => Powers(n)[h + 1] = 2 * Powers(n)[h]
  <1> DEFINE q == Powers(n)
             T == {h \in Nat : h <= n => q[h] \in Nat /\ q[h] >= 1}
  <1>1. IsPowers(q, n)
    BY PowersExist DEF Powers
  <1> HIDE DEF q
  <1>2. \A h \in 0 .. n : q[h] = IF h = 0 THEN 1 ELSE 2 * q[h - 1]
    BY <1>1 DEF IsPowers
  <1>3. q[0] = 1
    BY <1>2
  <1>4. ASSUME NEW h \in Nat, h < n
        PROVE  q[h + 1] = 2 * q[h]
    <2>1. h + 1 \in 0 .. n /\ h + 1 # 0 /\ (h + 1) - 1 = h
      BY <1>4
    <2> QED
      BY <1>2, <2>1
  <1>5. 0 \in T
    BY <1>3
  <1>6. ASSUME NEW h \in Nat, h \in T
        PROVE  h + 1 \in T
    <2> SUFFICES ASSUME h + 1 <= n
                 PROVE  q[h + 1] \in Nat /\ q[h + 1] >= 1
      OBVIOUS
    <2>1. q[h + 1] = 2 * q[h] /\ q[h] \in Nat /\ q[h] >= 1
      BY <1>4, <1>6
    <2> QED
      BY <2>1
  <1> HIDE DEF T
  <1>7. \A h \in Nat : h \in T
    BY <1>5, <1>6, NumbersInduction
  <1>8. \A h \in 0 .. n : q[h] \in Nat /\ q[h] >= 1
    BY <1>7 DEF T
  <1> QED
    BY <1>3, <1>4, <1>8 DEF q

\* They grow.
LEMMA PowersGrow ==
  ASSUME NEW n \in Nat, NEW h \in 0 .. n, NEW i \in 0 .. n, h <= i
  PROVE  Powers(n)[h] <= Powers(n)[i]
  <1> DEFINE T == {d \in Nat : h + d <= n => Powers(n)[h] <= Powers(n)[h + d]}
  <1>1. 0 \in T
    BY PowersAt
  <1>2. ASSUME NEW d \in Nat, d \in T
        PROVE  d + 1 \in T
    <2> SUFFICES ASSUME h + (d + 1) <= n
                 PROVE  Powers(n)[h] <= Powers(n)[h + (d + 1)]
      OBVIOUS
    <2>1. h + (d + 1) = (h + d) + 1 /\ h + d \in Nat /\ h + d < n /\ h + d \in 0 .. n
      OBVIOUS
    <2>2. Powers(n)[(h + d) + 1] = 2 * Powers(n)[h + d] /\ Powers(n)[h + d] \in Nat /\ Powers(n)[h] \in Nat
      BY <2>1, PowersAt
    <2>3. Powers(n)[h] <= Powers(n)[h + d]
      BY <1>2, <2>1
    <2> QED
      BY <2>1, <2>2, <2>3
  <1> HIDE DEF T
  <1>3. i - h \in T
    BY <1>1, <1>2, NumbersInduction
  <1>4. h + (i - h) = i
    OBVIOUS
  <1> QED
    BY <1>3, <1>4 DEF T

\* A height is the height.
LEMMA HeightIs ==
  ASSUME NEW n \in Nat, NEW h \in 0 .. n, IsHeight(h, n)
  PROVE  Height(n) = h
  <1> DEFINE c == Height(n)
  <1>1. c \in 0 .. n /\ IsHeight(c, n)
    BY DEF Height
  <1> HIDE DEF c
  <1>2. \A a, b \in 0 .. n : ~(IsHeight(a, n) /\ IsHeight(b, n) /\ a < b)
    <2> SUFFICES ASSUME NEW a \in 0 .. n, NEW b \in 0 .. n, IsHeight(a, n), IsHeight(b, n), a < b
                 PROVE  FALSE
      OBVIOUS
    <2>1. a <= b - 1 /\ b - 1 \in 0 .. n /\ b # 0
      OBVIOUS
    <2>2. Powers(n)[a] >= n /\ Powers(n)[b - 1] < n
      BY <2>1 DEF IsHeight
    <2>3. Powers(n)[a] <= Powers(n)[b - 1] /\ Powers(n)[a] \in Nat /\ Powers(n)[b - 1] \in Nat
      BY <2>1, PowersAt, PowersGrow
    <2> QED
      BY <2>2, <2>3
  <1>3. ~(c < h) /\ ~(h < c)
    BY <1>1, <1>2
  <1> QED
    BY <1>1, <1>3 DEF c

\* The nodes of the definition.
LEMMA NodesExist ==
  ASSUME NEW s, NEW n \in Nat
  PROVE  \E g : IsNodes(g, s, n)
  <1> DEFINE T == {m \in Nat : \E g : IsNodes(g, s, m)}
  <1>1. 0 \in T
    <2> DEFINE g == [h \in 0 .. 0 |-> [k \in Nat |-> s[k + 1]]]
    <2>1. \A h \in 0 .. 0 : h = 0
      OBVIOUS
    <2>2. \A h \in 0 .. 0 : [k \in Nat |-> NodeAt(g, s, h, k)] = [k \in Nat |-> s[k + 1]]
      BY <2>1 DEF NodeAt
    <2>3. IsNodes(g, s, 0)
      BY <2>2 DEF IsNodes
    <2> QED
      BY <2>3
  <1>2. ASSUME NEW m \in Nat, m \in T
        PROVE  m + 1 \in T
    <2>1. PICK g : IsNodes(g, s, m)
      BY <1>2
    <2> DEFINE last == [k \in Nat |-> NodeAt(g, s, m + 1, k)]
               f == [h \in 0 .. m + 1 |-> IF h = m + 1 THEN last ELSE g[h]]
    <2>2. ASSUME NEW h \in 0 .. m + 1
          PROVE  f[h] = [k \in Nat |-> NodeAt(f, s, h, k)]
      <3>1. CASE h = m + 1
        <4>1. h - 1 = m /\ f[h - 1] = g[h - 1] /\ f[h] = last
          BY <3>1
        <4> HIDE DEF f
        <4>2. \A k \in Nat : NodeAt(f, s, h, k) = NodeAt(g, s, h, k)
          BY <4>1 DEF NodeAt
        <4> QED
          BY <3>1, <4>1, <4>2
      <3>2. CASE h # m + 1
        <4>1. h \in 0 .. m /\ f[h] = g[h] /\ (h # 0 => f[h - 1] = g[h - 1])
          BY <3>2
        <4> HIDE DEF f
        <4>2. g[h] = [k \in Nat |-> NodeAt(g, s, h, k)]
          BY <2>1, <4>1 DEF IsNodes
        <4>3. \A k \in Nat : NodeAt(f, s, h, k) = NodeAt(g, s, h, k)
          BY <4>1 DEF NodeAt
        <4> QED
          BY <4>1, <4>2, <4>3
      <3> QED
        BY <3>1, <3>2
    <2>3. f = [h \in 0 .. m + 1 |-> f[h]]
      OBVIOUS
    <2> HIDE DEF f
    <2>4. IsNodes(f, s, m + 1)
      BY <2>2, <2>3 DEF IsNodes
    <2> QED
      BY <2>4
  <1> HIDE DEF T
  <1>3. n \in T
    BY <1>1, <1>2, NumbersInduction
  <1> QED
    BY <1>3 DEF T

\* The nodes of the definition, one level from the one below.
LEMMA NodesAt ==
  ASSUME NEW s, Height(Len(s)) \in Nat
  PROVE  \A h \in 0 .. Height(Len(s)), k \in Nat : Nodes(s)[h][k] = NodeAt(Nodes(s), s, h, k)
  <1> DEFINE g == Nodes(s)
             n == Height(Len(s))
  <1>1. IsNodes(g, s, n)
    BY NodesExist DEF Nodes
  <1> HIDE DEF g, n
  <1>2. \A h \in 0 .. n, k \in Nat : g[h][k] = NodeAt(g, s, h, k)
    <2> DEFINE F(h) == [k \in Nat |-> NodeAt(g, s, h, k)]
    <2>1. \A h \in 0 .. n, k \in Nat : F(h)[k] = NodeAt(g, s, h, k)
      OBVIOUS
    <2>2. g = [h \in 0 .. n |-> F(h)]
      BY <1>1 DEF IsNodes
    <2> HIDE DEF F
    <2>3. \A h \in 0 .. n : g[h] = F(h)
      BY <2>2
    <2> QED
      BY <2>1, <2>3
  <1> QED
    BY <1>2 DEF g, n
-----------------------------------------------------------------------------
(* A finished tree, level by level *)

\* t is what build_tree makes of s.
Built(t, s) ==
  /\ IsSeq(t) /\ Len(t) > 0
  /\ t[1] = s /\ Len(t[Len(t)]) = 1
  /\ \A j \in 1 .. Len(t) : IsSeq(t[j]) /\ Len(t[j]) > 0
  /\ \A j \in 1 .. Len(t) - 1 : Len(t[j]) > 1 /\ t[j + 1] = Parents(t[j])

\* The levels of a tree that is built.
LEMMA BuiltLevels ==
  ASSUME NEW t, NEW s, Built(t, s)
  PROVE  /\ Len(t) \in Nat \ {0} /\ Len(s) \in Nat \ {0}
         /\ \A j \in 0 .. Len(t) - 1 : Len(t[j + 1]) \in Nat \ {0}
         /\ \A j \in 0 .. Len(t) - 2 : /\ Len(t[j + 1]) > 1
                                       /\ t[j + 2] = Parents(t[j + 1])
                                       /\ Len(t[j + 2]) = (Len(t[j + 1]) + 1) \div 2
  <1>1. Len(t) \in Nat \ {0}
    BY DEF Built, IsSeq
  <1>2. ASSUME NEW j \in 0 .. Len(t) - 1
        PROVE  Len(t[j + 1]) \in Nat \ {0}
    <2>1. j + 1 \in 1 .. Len(t)
      BY <1>1
    <2>2. IsSeq(t[j + 1]) /\ Len(t[j + 1]) > 0
      BY <2>1 DEF Built
    <2>3. Len(t[j + 1]) \in Nat
      BY <2>2 DEF IsSeq
    <2> QED
      BY <2>2, <2>3
  <1>3. Len(s) \in Nat \ {0}
    <2>1. Len(t[0 + 1]) \in Nat \ {0}
      BY <1>1, <1>2
    <2>2. t[0 + 1] = s
      BY DEF Built
    <2> QED
      BY <2>1, <2>2
  <1>4. ASSUME NEW j \in 0 .. Len(t) - 2
        PROVE  /\ Len(t[j + 1]) > 1
               /\ t[j + 2] = Parents(t[j + 1])
               /\ Len(t[j + 2]) = (Len(t[j + 1]) + 1) \div 2
    <2>1. j + 1 \in 1 .. Len(t) - 1 /\ j + 1 \in 1 .. Len(t) /\ (j + 1) + 1 = j + 2
      BY <1>1
    <2>2. Len(t[j + 1]) > 1 /\ t[j + 2] = Parents(t[j + 1]) /\ IsSeq(t[j + 1])
      BY <2>1 DEF Built
    <2> QED
      BY <2>2, ParentsWidth
  <1> QED
    BY <1>1, <1>2, <1>3, <1>4

\* A level is as wide as the subtrees of its height that begin inside the list,
\* and the levels are no more than the leaves.
LEMMA BuiltWidths ==
  ASSUME NEW t, NEW s, Built(t, s)
  PROVE  \A j \in 0 .. Len(t) - 1 :
           /\ Len(t[j + 1]) + j <= Len(s)
           /\ \A i \in Nat : i < Len(t[j + 1]) <=> i * Powers(Len(s))[j] < Len(s)
  <1> DEFINE n == Len(s)
             P == Powers(n)
             w(j) == Len(t[j + 1])
             T == {j \in Nat : j < Len(t) => w(j) + j <= n /\ \A i \in Nat : i < w(j) <=> i * P[j] < n}
  <1>1. /\ Len(t) \in Nat \ {0} /\ n \in Nat \ {0}
        /\ \A j \in 0 .. Len(t) - 1 : w(j) \in Nat \ {0}
        /\ \A j \in 0 .. Len(t) - 2 : w(j) > 1 /\ w(j + 1) = (w(j) + 1) \div 2
    <2>1. \A j \in 0 .. Len(t) - 2 : (j + 1) + 1 = j + 2
      BY BuiltLevels
    <2> QED
      BY <2>1, BuiltLevels
  <1>2. w(0) = n
    BY DEF Built
  <1>3. /\ P[0] = 1
        /\ \A h \in 0 .. n : P[h] \in Nat
        /\ \A h \in Nat : h < n => P[h + 1] = 2 * P[h]
    BY <1>1, PowersAt
  <1> HIDE DEF n, P, w
  <1>4. 0 \in T
    BY <1>1, <1>2, <1>3
  <1>5. ASSUME NEW j \in Nat, j \in T
        PROVE  j + 1 \in T
    <2> SUFFICES ASSUME j + 1 < Len(t)
                 PROVE  w(j + 1) + (j + 1) <= n /\ \A i \in Nat : i < w(j + 1) <=> i * P[j + 1] < n
      OBVIOUS
    <2>1. j \in 0 .. Len(t) - 2 /\ j \in 0 .. Len(t) - 1 /\ j < Len(t)
      BY <1>1
    <2>2. w(j) \in Nat /\ w(j) > 1 /\ w(j + 1) = (w(j) + 1) \div 2
      BY <1>1, <2>1
    <2>3. w(j) + j <= n /\ \A i \in Nat : i < w(j) <=> i * P[j] < n
      BY <1>5, <2>1
    <2>4. j \in 0 .. n /\ j < n
      BY <1>1, <2>2, <2>3
    <2>5. P[j] \in Nat /\ P[j + 1] = 2 * P[j]
      BY <1>3, <2>4
    <2>6. w(j + 1) + (j + 1) <= n
      BY <1>1, <2>2, <2>3
    <2>7. ASSUME NEW i \in Nat
          PROVE  i < w(j + 1) <=> i * P[j + 1] < n
      <3>1. i < w(j + 1) <=> 2 * i < w(j)
        BY <2>2
      <3>2. 2 * i < w(j) <=> (2 * i) * P[j] < n
        BY <2>3
      <3>3. (2 * i) * P[j] = i * (2 * P[j])
        BY ONLY <2>5, SMT
      <3> QED
        BY ONLY <2>5, <3>1, <3>2, <3>3
    <2> QED
      BY <2>6, <2>7
  <1> HIDE DEF T
  <1>6. \A j \in Nat : j \in T
    BY <1>4, <1>5, NumbersInduction
  <1>7. \A j \in 0 .. Len(t) - 1 : w(j) + j <= n /\ \A i \in Nat : i < w(j) <=> i * P[j] < n
    BY <1>1, <1>6 DEF T
  <1> QED
    BY <1>7 DEF n, P, w

\* The finished tree is as high as the definition says.
LEMMA BuiltHeight ==
  ASSUME NEW t, NEW s, Built(t, s)
  PROVE  /\ Len(t) - 1 \in 0 .. Len(s)
         /\ Height(Len(s)) = Len(t) - 1
         /\ IsHeight(Len(t) - 1, Len(s))
  <1> DEFINE n == Len(s)
             H == Len(t) - 1
             P == Powers(n)
             w(j) == Len(t[j + 1])
  <1>1. /\ H \in Nat /\ n \in Nat \ {0}
        /\ \A j \in 0 .. H : w(j) \in Nat \ {0}
        /\ \A j \in 0 .. H - 1 : w(j) > 1
    <2>1. Len(t) \in Nat \ {0}
      BY BuiltLevels
    <2>2. H \in Nat /\ \A j \in 0 .. H - 1 : j \in 0 .. Len(t) - 2
      BY <2>1
    <2> QED
      BY <2>2, BuiltLevels
  <1>2. \A j \in 0 .. H : w(j) + j <= n /\ \A i \in Nat : i < w(j) <=> i * P[j] < n
    BY BuiltWidths
  <1>3. w(H) = 1
    <2>1. H + 1 = Len(t)
      BY BuiltLevels
    <2> QED
      BY <2>1 DEF Built
  <1>4. \A h \in 0 .. n : P[h] \in Nat
    BY <1>1, PowersAt
  <1> HIDE DEF n, H, P, w
  <1>5. H \in 0 .. n
    BY <1>1, <1>2, <1>3
  <1>6. P[H] >= n
    <2>1. 1 < w(H) <=> 1 * P[H] < n
      BY <1>1, <1>2
    <2>2. P[H] \in Nat
      BY <1>4, <1>5
    <2> QED
      BY <1>1, <1>3, <2>1, <2>2
  <1>7. ASSUME H # 0
        PROVE  P[H - 1] < n
    <2>1. H - 1 \in 0 .. H /\ H - 1 \in 0 .. H - 1 /\ H - 1 \in 0 .. n
      BY <1>1, <1>5, <1>7
    <2>2. 1 < w(H - 1) <=> 1 * P[H - 1] < n
      BY <1>2, <2>1
    <2>3. 1 < w(H - 1) /\ P[H - 1] \in Nat
      BY <1>1, <1>4, <2>1
    <2> QED
      BY <2>2, <2>3
  <1>8. IsHeight(H, n)
    BY <1>6, <1>7 DEF IsHeight, P
  <1>9. Height(n) = H
    BY <1>1, <1>5, <1>8, HeightIs
  <1> QED
    BY <1>5, <1>8, <1>9 DEF n, H

\* Every node of the finished tree is that of the definition.
LEMMA BuiltNodes ==
  ASSUME NEW t, NEW s, Built(t, s)
  PROVE  \A j \in 0 .. Len(t) - 1, i \in Nat : i < Len(t[j + 1]) => t[j + 1][i + 1] = Nodes(s)[j][i]
  <1> DEFINE n == Len(s)
             H == Len(t) - 1
             P == Powers(n)
             N == Nodes(s)
             w(j) == Len(t[j + 1])
             T == {j \in Nat : j <= H => \A i \in Nat : i < w(j) => t[j + 1][i + 1] = N[j][i]}
  <1>1. /\ H \in Nat /\ n \in Nat \ {0}
        /\ \A j \in 0 .. H : w(j) \in Nat \ {0}
        /\ \A j \in 0 .. H - 1 : t[j + 2] = Parents(t[j + 1]) /\ w(j + 1) = (w(j) + 1) \div 2
    <2>1. Len(t) \in Nat \ {0}
      BY BuiltLevels
    <2>2. H \in Nat /\ \A j \in 0 .. H - 1 : j \in 0 .. Len(t) - 2 /\ (j + 1) + 1 = j + 2
      BY <2>1
    <2> QED
      BY <2>2, BuiltLevels
  <1>2. \A j \in 0 .. H : \A i \in Nat : i < w(j) <=> i * P[j] < n
    BY BuiltWidths
  <1>3. \A h \in 0 .. H, k \in Nat : N[h][k] = NodeAt(N, s, h, k)
    BY <1>1, BuiltHeight, NodesAt
  <1>4. t[1] = s
    BY DEF Built
  <1>6. P = Powers(Len(s))
    OBVIOUS
  <1>7. \A j : w(j) = Len(t[j + 1])
    OBVIOUS
  <1> HIDE DEF n, H, P, w, N
  <1>8. 0 \in T
    <2>1. \A i \in Nat : N[0][i] = NodeAt(N, s, 0, i)
      BY <1>1, <1>3
    <2>2. \A i \in Nat : NodeAt(N, s, 0, i) = s[i + 1]
      BY DEF NodeAt
    <2> QED
      BY <1>4, <2>1, <2>2
  <1>9. ASSUME NEW j \in Nat, j \in T
        PROVE  j + 1 \in T
    <2> SUFFICES ASSUME j + 1 <= H, NEW i \in Nat, i < w(j + 1)
                 PROVE  t[j + 2][i + 1] = N[j + 1][i]
      BY <1>1
    <2>1. j \in 0 .. H - 1 /\ j \in 0 .. H /\ j + 1 \in 0 .. H /\ j + 1 # 0 /\ (j + 1) - 1 = j
      BY <1>1
    <2>2. w(j) \in Nat /\ w(j + 1) = (w(j) + 1) \div 2 /\ t[j + 2] = Parents(t[j + 1])
      BY <1>1, <2>1
    <2>3. \A k \in Nat : k < w(j) => t[j + 1][k + 1] = N[j][k]
      BY <1>9, <2>1
    <2>4. /\ 2 * i \in Nat /\ 2 * i + 1 \in Nat /\ 2 * i < w(j)
          /\ 2 * (i + 1) - 1 = (2 * i) + 1 /\ 2 * (i + 1) = (2 * i + 1) + 1
          /\ 2 * (i + 1) <= w(j) <=> 2 * i + 1 < w(j)
          /\ i + 1 \in 1 .. (w(j) + 1) \div 2
      BY <2>2
    <2>5. t[j + 2][i + 1] = HashPair(t[j + 1][2 * (i + 1) - 1],
                              t[j + 1][IF 2 * (i + 1) <= w(j) THEN 2 * (i + 1) ELSE 2 * (i + 1) - 1])
      BY <1>7, <2>2, <2>4 DEF Parents
    <2> DEFINE left == N[j][2 * i]
               more == (2 * i + 1) * P[j] < n
    <2>6. N[j + 1][i] = HashPair(left, IF more THEN N[j][2 * i + 1] ELSE left)
      <3>1. N[j + 1][i] = NodeAt(N, s, j + 1, i)
        BY <1>3, <2>1
      <3> QED
        BY <2>1, <3>1 DEF NodeAt, P, n
    <2>7. more <=> 2 * i + 1 < w(j)
      BY <1>2, <2>1, <2>4
    <2>8. t[j + 1][(2 * i) + 1] = left
      BY <2>3, <2>4
    <2>9. 2 * i + 1 < w(j) => t[j + 1][(2 * i + 1) + 1] = N[j][2 * i + 1]
      BY <2>3, <2>4
    <2> HIDE DEF left, more
    <2>10. CASE more
      <3>1. t[j + 2][i + 1] = HashPair(t[j + 1][(2 * i) + 1], t[j + 1][(2 * i + 1) + 1])
        BY <2>4, <2>5, <2>7, <2>10
      <3> QED
        BY <2>6, <2>7, <2>8, <2>9, <2>10, <3>1
    <2>11. CASE ~more
      <3>1. t[j + 2][i + 1] = HashPair(t[j + 1][(2 * i) + 1], t[j + 1][(2 * i) + 1])
        BY <2>4, <2>5, <2>7, <2>11
      <3> QED
        BY <2>6, <2>8, <2>11, <3>1
    <2> QED
      BY <2>10, <2>11
  <1> HIDE DEF T
  <1>10. \A j \in Nat : j \in T
    BY <1>8, <1>9, NumbersInduction
  <1>11. \A j \in 0 .. H, i \in Nat : i < w(j) => t[j + 1][i + 1] = N[j][i]
    BY <1>1, <1>10 DEF T
  <1> QED
    BY <1>11 DEF H, w, N

\* Its root is that of the definition.
LEMMA BuiltRoot ==
  ASSUME NEW t, NEW s, Built(t, s)
  PROVE  t[Len(t)][1] = Reference(s)
  <1>1. Len(t) - 1 \in 0 .. Len(t) - 1 /\ (Len(t) - 1) + 1 = Len(t) /\ Len(t[Len(t)]) = 1
    BY BuiltLevels DEF Built
  <1>2. t[Len(t)][0 + 1] = Nodes(s)[Len(t) - 1][0]
    BY <1>1, BuiltNodes
  <1>3. Len(t) - 1 = Height(Len(s))
    BY BuiltHeight
  <1>4. Reference(s) = Nodes(s)[Height(Len(s))][0]
    BY ReferenceIs
  <1> QED
    BY ONLY <1>2, <1>3, <1>4
-----------------------------------------------------------------------------
(* The steps that build the tree *)

\* Each level is made from the one below, and none is left to make once a proof
\* is asked for.
Grown ==
  /\ \A j \in 1 .. Len(tree) - 1 : Len(tree[j]) > 1 /\ tree[j + 1] = Parents(tree[j])
  /\ pc = "fold" => Len(tree) > 0
  /\ pc \in {"prove", "fold"} => Len(Top) = 1

Types == TypeOK /\ IsSeq(path)

TreeInv == WalkInv /\ Types /\ Grown

\* No tree yet.
LEMMA InitTree == Init => TreeInv
  <1> SUFFICES ASSUME Init
               PROVE  TreeInv
    OBVIOUS
  <1>1. leaves \in Seq(Hashes) /\ Len(leaves) \in Nat
    BY MerkleAssumption DEF Init
  <1>2. tree = <<>> /\ path = <<>> /\ IsSeq(<<>>) /\ Len(<<>>) = 0
    BY EmptyIsSeq DEF Init
  <1>3. Types
    BY <1>1, <1>2 DEF Init, Types, TypeOK
  <1>4. Grown
    BY <1>2 DEF Init, Grown
  <1> QED
    BY <1>3, <1>4, InitWalk DEF TreeInv

\* Types,
LEMMA NextTypes == TreeInv /\ [Next]_vars => Types'
  <1> SUFFICES ASSUME TreeInv, [Next]_vars
               PROVE  Types'
    OBVIOUS
  <1> USE DEF inputs, walk, fold
  <1>1. TypeOK /\ IsSeq(path) /\ Len(path) \in Nat /\ Len(leaves) \in Nat
    BY DEF TreeInv, Types, TypeOK, IsSeq
  <1>2. CASE Plant
    <2>1. Len(tree') = 1
      BY <1>2 DEF Plant
    <2>2. tree' # <<>>
      BY <2>1, EmptyIsSeq
    <2> QED
      BY <1>1, <1>2, <2>2 DEF Plant, Types, TypeOK
  <1>3. CASE BuildLevel
    <2>1. IsSeq(tree)
      BY DEF TreeInv, WalkInv, Shape
    <2>2. Len(tree') = Len(tree) + 1 /\ Len(tree) \in Nat
      BY <1>3, <2>1, AppendSeq DEF BuildLevel, IsSeq
    <2>3. tree' # <<>>
      BY <2>2, EmptyIsSeq
    <2> QED
      BY <1>1, <1>3, <2>3 DEF BuildLevel, Types, TypeOK
  <1>4. CASE Collect
    <2>1. \E s : path' = Append(path, s)
      BY <1>4 DEF Collect
    <2>2. IsSeq(path') /\ Len(path') = Len(path) + 1
      BY <1>1, <2>1, AppendSeq
    <2>3. index' = index \div 2 /\ index \in Nat /\ level' = level + 1
      BY <1>1, <1>4 DEF Collect, TypeOK
    <2>4. index' \in Nat
      BY <2>3
    <2>5. level' = Len(path') /\ folded \in 0 .. Len(path')
      BY <1>1, <2>2, <2>3 DEF TypeOK
    <2> QED
      BY <1>1, <1>4, <2>2, <2>4, <2>5 DEF Collect, Types, TypeOK
  <1>5. CASE Fold
    <2>1. folded' = folded + 1 /\ folded < Len(path) /\ folded \in 0 .. Len(path)
      BY <1>1, <1>5 DEF Fold, TypeOK
    <2>2. folded' \in 0 .. Len(path)
      BY <1>1, <2>1
    <2> QED
      BY <1>1, <1>5, <2>2 DEF Fold, Types, TypeOK
  <1>6. CASE Refuse
    BY <1>1, <1>6 DEF Refuse, Stop, Types, TypeOK
  <1>7. CASE StartProof
    BY <1>1, <1>7 DEF StartProof, Types, TypeOK
  <1>8. CASE OutOfBounds
    BY <1>1, <1>8 DEF OutOfBounds, Stop, Types, TypeOK
  <1>9. CASE WrongLeaf
    BY <1>1, <1>9 DEF WrongLeaf, Stop, Types, TypeOK
  <1>10. CASE StartFold
    BY <1>1, <1>10 DEF StartFold, Types, TypeOK
  <1>11. CASE Compare
    BY <1>1, <1>11 DEF Compare, Stop, Types, TypeOK
  <1>12. CASE UNCHANGED vars
    BY <1>1, <1>12 DEF vars, Types, TypeOK
  <1> QED
    BY <1>2, <1>3, <1>4, <1>5, <1>6, <1>7, <1>8, <1>9, <1>10, <1>11, <1>12 DEF Next

\* levels,
LEMMA NextGrown == TreeInv /\ [Next]_vars => Grown'
  <1> SUFFICES ASSUME TreeInv, [Next]_vars
               PROVE  Grown'
    OBVIOUS
  <1> USE DEF inputs, walk, fold
  <1>1. Grown /\ IsSeq(tree) /\ Len(tree) \in Nat
    BY DEF TreeInv, WalkInv, Shape, IsSeq
  <1>2. CASE Plant
    <2>1. Len(tree') = 1 /\ pc' = "build"
      BY <1>2 DEF Plant
    <2> QED
      BY <2>1 DEF Grown
  <1>3. CASE BuildLevel
    <2>1. /\ Len(tree') = Len(tree) + 1
          /\ \A j \in 1 .. Len(tree) : tree'[j] = tree[j]
          /\ tree'[Len(tree) + 1] = Parents(Top)
      BY <1>1, <1>3, AppendSeq DEF BuildLevel
    <2>2. pc = "build" /\ pc' = "build" /\ Len(Top) > 1
      BY <1>3 DEF BuildLevel
    <2>3. ASSUME NEW j \in 1 .. Len(tree') - 1
          PROVE  Len(tree'[j]) > 1 /\ tree'[j + 1] = Parents(tree'[j])
      <3>1. j \in 1 .. Len(tree) /\ tree'[j] = tree[j]
        BY <1>1, <2>1
      <3>2. CASE j = Len(tree)
        BY <2>1, <2>2, <3>1, <3>2 DEF Top
      <3>3. CASE j # Len(tree)
        <4>1. j \in 1 .. Len(tree) - 1 /\ j + 1 \in 1 .. Len(tree)
          BY <1>1, <3>1, <3>3
        <4> QED
          BY <1>1, <2>1, <3>1, <4>1 DEF Grown
      <3> QED
        BY <3>2, <3>3
    <2> QED
      BY <2>2, <2>3 DEF Grown
  <1>4. CASE StartProof
    BY <1>1, <1>4 DEF StartProof, Grown, Top
  <1>5. CASE Collect
    BY <1>1, <1>5 DEF Collect, Grown, Top
  <1>6. CASE Refuse
    BY <1>1, <1>6 DEF Refuse, Stop, Grown, Top
  <1>7. CASE OutOfBounds
    BY <1>1, <1>7 DEF OutOfBounds, Stop, Grown, Top
  <1>8. CASE WrongLeaf
    BY <1>1, <1>8 DEF WrongLeaf, Stop, Grown, Top
  <1>9. CASE StartFold
    <2>1. tree' = tree /\ pc = "prove" /\ pc' = "fold"
      BY <1>9 DEF StartFold
    <2>2. Len(tree) > 0
      BY <2>1 DEF TreeInv, WalkInv, Shape
    <2> QED
      BY <1>1, <2>1, <2>2 DEF Grown, Top
  <1>10. CASE Fold
    BY <1>1, <1>10 DEF Fold, Grown, Top
  <1>11. CASE Compare
    BY <1>1, <1>11 DEF Compare, Stop, Grown, Top
  <1>12. CASE UNCHANGED vars
    BY <1>1, <1>12 DEF vars, Grown, Top
  <1> QED
    BY <1>2, <1>3, <1>4, <1>5, <1>6, <1>7, <1>8, <1>9, <1>10, <1>11, <1>12 DEF Next

\* and with the walk: TreeInv is inductive.
LEMMA NextTree == TreeInv /\ [Next]_vars => TreeInv'
  BY NextWalk, NextTypes, NextGrown DEF TreeInv

\* When a proof is asked for, the tree is finished.
LEMMA TreeIsBuilt ==
  ASSUME TreeInv, pc \in {"prove", "fold"}
  PROVE  Built(tree, leaves)
  <1>1. Len(tree) > 0 /\ Len(Top) = 1
    BY DEF TreeInv, Grown, WalkInv, Shape
  <1>2. tree[1] = leaves
    <2>1. tree # <<>>
      BY <1>1, EmptyIsSeq
    <2> QED
      BY <2>1 DEF TreeInv, WalkInv, Shape
  <1> QED
    BY <1>1, <1>2 DEF Built, Top, TreeInv, WalkInv, Shape, Grown

\* Every variable has its type (merkle.rs:28-82).
THEOREM MerkleTyping == Spec => []TypeOK
  <1>1. TreeInv => TypeOK
    BY DEF TreeInv, Types
  <1> QED
    BY <1>1, InitTree, NextTree, PTL DEF Spec

\* Building level by level gives the root of the definition from the top, for any
\* list of leaves (merkle.rs:40-67).
THEOREM RootMatchesReference == Spec => []RootIsReference
  <1>1. TreeInv => RootIsReference
    BY TreeIsBuilt, BuiltRoot DEF RootIsReference, Root, Top
  <1> QED
    BY <1>1, InitTree, NextTree, PTL DEF Spec
-----------------------------------------------------------------------------
(* The root binds the leaves *)

\* What the theorems below suppose of the digests: the bytes of a node are the
\* one block of its digest, as hex::decode gives back what hex::encode was given.
NodesDecode == \A p, q : Decoded(HashPair(p, q)) = <<HashPair(p, q)>>

\* It holds whenever no node is one of the chunk hashes.
LEMMA NewNodesDecode ==
  ASSUME \A p, q : HashPair(p, q) \notin Hashes
  PROVE  NodesDecode
  BY DEF Decoded, NodesDecode

\* Two strings put together can be cut apart where either is as long.
Splits(p, q, r, t) ==
  p \o q = r \o t /\ (Len(p) = Len(r) \/ Len(q) = Len(t)) => p = r /\ q = t

LEMMA ConcatSplits ==
  ASSUME NEW S, NEW p \in Seq(S), NEW q \in Seq(S), NEW r \in Seq(S), NEW t \in Seq(S)
  PROVE  Splits(p, q, r, t)
  <1> SUFFICES ASSUME p \o q = r \o t, Len(p) = Len(r) \/ Len(q) = Len(t)
               PROVE  p = r /\ q = t
    BY DEF Splits
  <1>1. /\ Len(p) \in Nat /\ Len(q) \in Nat /\ Len(r) \in Nat /\ Len(t) \in Nat
        /\ Len(p \o q) = Len(p) + Len(q) /\ Len(r \o t) = Len(r) + Len(t)
    OBVIOUS
  <1>2. Len(p) = Len(r) /\ Len(q) = Len(t)
    BY <1>1
  <1>3. \A i \in 1 .. Len(p) : p[i] = r[i]
    <2>1. \A i \in 1 .. Len(p) : (p \o q)[i] = p[i] /\ (r \o t)[i] = r[i]
      BY <1>2
    <2> QED
      BY <2>1
  <1>4. \A i \in 1 .. Len(q) : q[i] = t[i]
    <2> TAKE i \in 1 .. Len(q)
    <2>1. Len(p) + i \in Len(p) + 1 .. Len(p) + Len(q) /\ (Len(p) + i) - Len(p) = i
      BY <1>1
    <2>2. (p \o q)[Len(p) + i] = q[i]
      BY <1>1, <2>1
    <2>3. Len(r) + i \in Len(r) + 1 .. Len(r) + Len(t) /\ (Len(r) + i) - Len(r) = i
      BY <1>1, <1>2
    <2>4. (r \o t)[Len(r) + i] = t[i]
      BY <1>1, <2>3
    <2> QED
      BY <1>2, <2>2, <2>4
  <1> QED
    BY <1>2, <1>3, <1>4

\* The nodes at height h of the definition over two lists of one length agree.
SameAt(s, o, h) ==
  \A k \in Nat : k * Powers(Len(s))[h] < Len(s) => Nodes(s)[h][k] = Nodes(o)[h][k]

\* A node above the leaves and what it was made of.
LEMMA NodeAbove ==
  ASSUME NEW s, Len(s) \in Nat, Height(Len(s)) \in 0 .. Len(s),
         NEW h \in Nat, h + 1 <= Height(Len(s)), NEW m \in Nat
  PROVE  LET left == Nodes(s)[h][2 * m]
         IN  Nodes(s)[h + 1][m] =
               HashPair(left, IF (2 * m + 1) * Powers(Len(s))[h] < Len(s) THEN Nodes(s)[h][2 * m + 1] ELSE left)
  <1>1. h + 1 \in 0 .. Height(Len(s)) /\ h + 1 # 0 /\ (h + 1) - 1 = h /\ Height(Len(s)) \in Nat
    OBVIOUS
  <1>2. Nodes(s)[h + 1][m] = NodeAt(Nodes(s), s, h + 1, m)
    BY <1>1, NodesAt
  <1> QED
    BY <1>1, <1>2 DEF NodeAt

\* What is assumed of two lists to compare their roots.
Comparable(s, o) ==
  /\ Len(s) \in Nat \ {0} /\ Len(o) = Len(s)
  /\ Height(Len(s)) \in 0 .. Len(s) /\ IsHeight(Height(Len(s)), Len(s))

\* The children of a node that is there are there.
LEMMA ChildrenThere ==
  ASSUME NEW n \in Nat, NEW h \in Nat, h < n, NEW m \in Nat, m * Powers(n)[h + 1] < n
  PROVE  (2 * m) * Powers(n)[h] < n
  <1>1. Powers(n)[h] \in Nat /\ Powers(n)[h + 1] = 2 * Powers(n)[h]
    BY PowersAt
  <1>2. m * (2 * Powers(n)[h]) = (2 * m) * Powers(n)[h]
    BY ONLY <1>1, m \in Nat, SMT
  <1> QED
    BY <1>1, <1>2

\* So is the parent of one.
LEMMA ParentThere ==
  ASSUME NEW n \in Nat, NEW h \in Nat, h < n, NEW m \in Nat, NEW k \in Nat,
         k = 2 * m \/ k = 2 * m + 1, k * Powers(n)[h] < n
  PROVE  m * Powers(n)[h + 1] < n
  <1> DEFINE w == Powers(n)[h]
             u == (2 * m) * w
             v == (2 * m + 1) * w
  <1>1. w \in Nat /\ Powers(n)[h + 1] = 2 * w
    BY PowersAt
  <1> HIDE DEF w
  <1>2. m * (2 * w) = u /\ v = u + w /\ u \in Nat
    BY ONLY <1>1, m \in Nat, SMT
  <1>3. k * w = u \/ k * w = v
    OBVIOUS
  <1>4. k * w < n
    BY DEF w
  <1> HIDE DEF u, v
  <1>5. u < n
    BY <1>1, <1>2, <1>3, <1>4
  <1> QED
    BY <1>1, <1>2, <1>5

\* Above the leaves, equality comes down the tree: a parent is made of the
\* digests of two nodes, each of one block.
LEMMA EqualDown ==
  ASSUME NodesDecode, NEW s, NEW o, Comparable(s, o), NEW h \in Nat, h # 0,
         h + 1 <= Height(Len(s)), SameAt(s, o, h + 1)
  PROVE  SameAt(s, o, h)
  <1> DEFINE n == Len(s)
             N == Nodes(s)
             M == Nodes(o)
  <1>1. /\ n \in Nat /\ Len(o) = n /\ Height(n) \in 0 .. n /\ Height(Len(o)) \in 0 .. Len(o)
        /\ h < n /\ h + 1 <= Height(Len(o))
    BY DEF Comparable
  <1>2. ASSUME NEW m \in Nat, m * Powers(n)[h + 1] < n
        PROVE  /\ N[h][2 * m] = M[h][2 * m]
               /\ (2 * m + 1) * Powers(n)[h] < n => N[h][2 * m + 1] = M[h][2 * m + 1]
    <2> DEFINE more == (2 * m + 1) * Powers(n)[h] < n
               a == N[h][2 * m]
               b == IF more THEN N[h][2 * m + 1] ELSE a
               c == M[h][2 * m]
               e == IF more THEN M[h][2 * m + 1] ELSE c
    <2>1. N[h + 1][m] = HashPair(a, b)
      BY <1>1, NodeAbove
    <2>2. M[h + 1][m] = HashPair(c, e)
      BY <1>1, NodeAbove
    <2>3. N[h + 1][m] = M[h + 1][m]
      BY <1>2 DEF SameAt
    <2>4. ASSUME NEW k \in Nat
          PROVE  Decoded(N[h][k]) = <<N[h][k]>> /\ Decoded(M[h][k]) = <<M[h][k]>>
      <3>1. h - 1 \in Nat /\ (h - 1) + 1 = h
        OBVIOUS
      <3>2. PICK j \in Nat : k = 2 * j \/ k = 2 * j + 1
        <4>1. k \div 2 \in Nat /\ (k = 2 * (k \div 2) \/ k = 2 * (k \div 2) + 1)
          OBVIOUS
        <4> QED
          BY <4>1
      <3>3. (h - 1) + 1 <= Height(Len(s)) /\ (h - 1) + 1 <= Height(Len(o))
        BY <1>1
      <3>4. \E p, q : N[(h - 1) + 1][k] = HashPair(p, q)
        <4> DEFINE left == N[h - 1][2 * k]
                   two == (2 * k + 1) * Powers(Len(s))[h - 1] < Len(s)
        <4>1. N[(h - 1) + 1][k] = HashPair(left, IF two THEN N[h - 1][2 * k + 1] ELSE left)
          BY <1>1, <3>1, <3>3, NodeAbove
        <4> HIDE DEF left, two, N
        <4> QED
          BY <4>1
      <3>5. \E p, q : M[(h - 1) + 1][k] = HashPair(p, q)
        <4> DEFINE left == M[h - 1][2 * k]
                   two == (2 * k + 1) * Powers(Len(o))[h - 1] < Len(o)
        <4>1. M[(h - 1) + 1][k] = HashPair(left, IF two THEN M[h - 1][2 * k + 1] ELSE left)
          BY <1>1, <3>1, <3>3, NodeAbove
        <4> HIDE DEF left, two, M
        <4> QED
          BY <4>1
      <3> HIDE DEF N, M
      <3> QED
        BY <3>1, <3>4, <3>5 DEF NodesDecode
    <2>5. 2 * m \in Nat /\ 2 * m + 1 \in Nat
      OBVIOUS
    <2>6. Decoded(a) = <<a>> /\ Decoded(c) = <<c>>
      BY <2>4, <2>5
    <2>7. Decoded(b) = <<b>> /\ Decoded(e) = <<e>>
      <3>1. Decoded(N[h][2 * m + 1]) = <<N[h][2 * m + 1]>> /\ Decoded(M[h][2 * m + 1]) = <<M[h][2 * m + 1]>>
        BY <2>4, <2>5
      <3> HIDE DEF more, N, M
      <3> QED
        BY <2>6, <3>1
    <2> HIDE DEF a, b, c, e, more, N, M
    <2>8. [digest |-> <<a>> \o <<b>>] = [digest |-> <<c>> \o <<e>>]
      BY <2>1, <2>2, <2>3, <2>6, <2>7 DEF HashPair
    <2>9. <<a>> \o <<b>> = <<c>> \o <<e>>
      <3>1. [digest |-> <<a>> \o <<b>>].digest = <<a>> \o <<b>> /\ [digest |-> <<c>> \o <<e>>].digest = <<c>> \o <<e>>
        BY Zenon
      <3> QED
        BY ONLY <2>8, <3>1, Zenon
    <2>10. a = c /\ b = e
      <3> DEFINE S == {a, b, c, e}
      <3>1. <<a>> \in Seq(S) /\ <<b>> \in Seq(S) /\ <<c>> \in Seq(S) /\ <<e>> \in Seq(S) /\ Len(<<a>>) = Len(<<c>>)
        OBVIOUS
      <3> HIDE DEF S
      <3>2. Splits(<<a>>, <<b>>, <<c>>, <<e>>)
        BY <3>1, ConcatSplits
      <3>3. <<a>> = <<c>> /\ <<b>> = <<e>>
        BY <2>9, <3>1, <3>2 DEF Splits
      <3> QED
        BY ONLY <3>3
    <2> QED
      BY <2>10 DEF a, b, c, e, more
  <1>3. ASSUME NEW k \in Nat, k * Powers(n)[h] < n
        PROVE  N[h][k] = M[h][k]
    <2>1. PICK m \in Nat : k = 2 * m \/ k = 2 * m + 1
      <3>1. k \div 2 \in Nat /\ (k = 2 * (k \div 2) \/ k = 2 * (k \div 2) + 1)
        OBVIOUS
      <3> QED
        BY <3>1
    <2>2. m * Powers(n)[h + 1] < n
      <3> HIDE DEF n
      <3> QED
        BY <1>1, <1>3, <2>1, ParentThere
    <2> QED
      BY <1>2, <1>3, <2>1, <2>2
  <1> QED
    BY <1>3 DEF SameAt

\* And it goes up everywhere.
LEMMA EqualUp ==
  ASSUME NEW s, NEW o, Comparable(s, o), NEW h \in Nat, h + 1 <= Height(Len(s)), SameAt(s, o, h)
  PROVE  SameAt(s, o, h + 1)
  <1> DEFINE n == Len(s)
             N == Nodes(s)
             M == Nodes(o)
  <1>1. /\ n \in Nat /\ Len(o) = n /\ Height(n) \in 0 .. n /\ Height(Len(o)) \in 0 .. Len(o)
        /\ h < n /\ h + 1 <= Height(Len(o))
    BY DEF Comparable
  <1>2. ASSUME NEW m \in Nat, m * Powers(n)[h + 1] < n
        PROVE  N[h + 1][m] = M[h + 1][m]
    <2> DEFINE more == (2 * m + 1) * Powers(n)[h] < n
               a == N[h][2 * m]
               c == M[h][2 * m]
    <2>1. N[h + 1][m] = HashPair(a, IF more THEN N[h][2 * m + 1] ELSE a)
      BY <1>1, NodeAbove
    <2>2. M[h + 1][m] = HashPair(c, IF more THEN M[h][2 * m + 1] ELSE c)
      BY <1>1, NodeAbove
    <2>3. 2 * m \in Nat /\ 2 * m + 1 \in Nat /\ (2 * m) * Powers(n)[h] < n
      <3> HIDE DEF n
      <3> QED
        BY <1>1, <1>2, ChildrenThere
    <2>4. a = c /\ (more => N[h][2 * m + 1] = M[h][2 * m + 1])
      BY <2>3 DEF SameAt
    <2> HIDE DEF a, c, more, N, M
    <2> QED
      BY <2>1, <2>2, <2>4
  <1> QED
    BY <1>2 DEF SameAt

\* The lowest nodes are the digests of the pairs.
LEMMA LowestNodes ==
  ASSUME NEW s, Len(s) \in Nat \ {0}, Height(Len(s)) \in 1 .. Len(s), NEW m \in Nat
  PROVE  Nodes(s)[1][m] = [digest |-> Pair(s, 2 * m + 1)]
  <1> DEFINE N == Nodes(s)
             n == Len(s)
  <1>1. \A k \in Nat : N[0][k] = s[k + 1]
    <2>1. Height(Len(s)) \in Nat /\ 0 \in 0 .. Height(Len(s))
      OBVIOUS
    <2> QED
      BY <2>1, NodesAt DEF NodeAt
  <1>2. Powers(n)[0] = 1
    BY PowersAt
  <1>3. N[0 + 1][m] = HashPair(N[0][2 * m], IF (2 * m + 1) * Powers(n)[0] < n THEN N[0][2 * m + 1] ELSE N[0][2 * m])
    <2>1. n \in Nat /\ Height(n) \in 0 .. n /\ 0 \in Nat /\ 0 + 1 <= Height(n)
      OBVIOUS
    <2> HIDE DEF N, n
    <2> QED
      BY <2>1, NodeAbove DEF N, n
  <1>4. /\ 2 * m \in Nat /\ 2 * m + 1 \in Nat /\ 0 + 1 = 1
        /\ (2 * m + 1) * Powers(n)[0] = 2 * m + 1
    BY <1>2
  <1>5. N[0][2 * m] = s[2 * m + 1] /\ N[0][2 * m + 1] = s[(2 * m + 1) + 1]
    BY <1>1, <1>4
  <1> HIDE DEF N
  <1>6. N[1][m] = HashPair(s[2 * m + 1], s[IF 2 * m + 1 < n THEN (2 * m + 1) + 1 ELSE 2 * m + 1])
    BY <1>3, <1>4, <1>5
  <1> QED
    BY <1>6 DEF HashPair, Pair, N

\* They agree if and only if the pairs do.
LEMMA EqualPairs ==
  ASSUME NEW s, NEW o, Comparable(s, o), Height(Len(s)) # 0
  PROVE  SameAt(s, o, 1) <=> \A i \in 1 .. Len(s) : i % 2 = 1 => Pair(o, i) = Pair(s, i)
  <1> DEFINE n == Len(s)
  <1>1. n \in Nat \ {0} /\ Len(o) = n /\ Height(n) \in 1 .. n
    BY DEF Comparable
  <1>2. \A m \in Nat : Nodes(s)[1][m] = [digest |-> Pair(s, 2 * m + 1)]
    BY <1>1, LowestNodes
  <1>3. \A m \in Nat : Nodes(o)[1][m] = [digest |-> Pair(o, 2 * m + 1)]
    BY <1>1, LowestNodes
  <1>4. \A m \in Nat : Nodes(s)[1][m] = Nodes(o)[1][m] <=> Pair(o, 2 * m + 1) = Pair(s, 2 * m + 1)
    <2> TAKE m \in Nat
    <2>1. [digest |-> Pair(s, 2 * m + 1)].digest = Pair(s, 2 * m + 1)
      BY Zenon
    <2>2. [digest |-> Pair(o, 2 * m + 1)].digest = Pair(o, 2 * m + 1)
      BY Zenon
    <2> QED
      BY <1>2, <1>3, <2>1, <2>2, Zenon
  <1>5. Powers(n)[1] = 2
    <2>1. 0 \in Nat /\ 0 < n /\ 0 + 1 = 1
      BY <1>1
    <2>2. Powers(n)[0] = 1 /\ Powers(n)[0 + 1] = 2 * Powers(n)[0]
      BY <1>1, <2>1, PowersAt
    <2> QED
      BY <2>1, <2>2
  <1>6. SameAt(s, o, 1) <=> \A m \in Nat : 2 * m < n => Pair(o, 2 * m + 1) = Pair(s, 2 * m + 1)
    <2>1. \A m \in Nat : m * Powers(Len(s))[1] = 2 * m
      BY <1>5
    <2> QED
      BY <1>4, <2>1 DEF SameAt
  <1>7. ASSUME \A m \in Nat : 2 * m < n => Pair(o, 2 * m + 1) = Pair(s, 2 * m + 1),
               NEW i \in 1 .. n, i % 2 = 1
        PROVE  Pair(o, i) = Pair(s, i)
    <2>1. i \div 2 \in Nat /\ 2 * (i \div 2) + 1 = i /\ 2 * (i \div 2) < n
      BY <1>1, <1>7
    <2>2. Pair(o, 2 * (i \div 2) + 1) = Pair(s, 2 * (i \div 2) + 1)
      BY <1>7, <2>1
    <2> QED
      BY <2>1, <2>2
  <1>8. ASSUME \A i \in 1 .. n : i % 2 = 1 => Pair(o, i) = Pair(s, i),
               NEW m \in Nat, 2 * m < n
        PROVE  Pair(o, 2 * m + 1) = Pair(s, 2 * m + 1)
    <2>1. 2 * m + 1 \in 1 .. n /\ (2 * m + 1) % 2 = 1
      BY <1>1, <1>8
    <2> QED
      BY <1>8, <2>1
  <1> QED
    BY <1>6, <1>7, <1>8

\* One root if and only if the same pairs: equality comes down the tree to the
\* lowest nodes, and goes up again from there.
LEMMA RootsBind ==
  ASSUME NodesDecode, NEW s, NEW o, Comparable(s, o), Len(s) > 1
  PROVE  Reference(s) = Reference(o) <=> \A i \in 1 .. Len(s) : i % 2 = 1 => Pair(o, i) = Pair(s, i)
  <1> DEFINE n == Len(s)
             H == Height(n)
  <1>1. n \in Nat /\ n > 1 /\ Len(o) = n /\ H \in 0 .. n /\ Powers(n)[H] >= n
    BY DEF Comparable, IsHeight
  <1>2. Powers(n)[H] \in Nat /\ Powers(n)[0] = 1
    BY <1>1, PowersAt
  <1>3. H # 0 /\ H \in Nat /\ 0 * Powers(n)[H] = 0
    BY <1>1, <1>2
  <1>4. Reference(s) = Nodes(s)[H][0] /\ Reference(o) = Nodes(o)[H][0]
    BY <1>1, ReferenceIs
  <1>5. Reference(s) = Reference(o) <=> SameAt(s, o, H)
    <2>1. ASSUME NEW k \in Nat, k * Powers(n)[H] < n
          PROVE  k = 0
      <3> DEFINE w == Powers(n)[H]
      <3>1. w \in Nat /\ w >= n /\ k * w < n
        BY <1>1, <1>2, <2>1
      <3> HIDE DEF w
      <3>2. k # 0 => k * w >= w
        BY ONLY <3>1, k \in Nat, SMT
      <3>3. k * w \in Nat
        BY <3>1
      <3> QED
        BY <1>1, <3>1, <3>2, <3>3
    <2>2. 0 \in Nat /\ 0 * Powers(Len(s))[H] < Len(s)
      BY <1>1, <1>3
    <2> HIDE DEF H
    <2> QED
      BY <1>4, <2>1, <2>2 DEF SameAt
  <1> HIDE DEF H
  <1>6. SameAt(s, o, H) => SameAt(s, o, 1)
    <2> DEFINE T == {d \in Nat : SameAt(s, o, H) /\ d < H => SameAt(s, o, H - d)}
    <2>1. 0 \in T
      <3>1. H - 0 = H
        BY <1>3
      <3> QED
        BY <3>1
    <2>2. ASSUME NEW d \in Nat, d \in T
          PROVE  d + 1 \in T
      <3> SUFFICES ASSUME SameAt(s, o, H), d + 1 < H
                   PROVE  SameAt(s, o, H - (d + 1))
        OBVIOUS
      <3> DEFINE h == H - (d + 1)
      <3>1. h \in Nat /\ h # 0 /\ h + 1 = H - d /\ d < H /\ h + 1 <= H
        BY <1>3
      <3>2. SameAt(s, o, h + 1)
        BY <2>2, <3>1
      <3> HIDE DEF h
      <3>3. h + 1 <= Height(Len(s))
        BY <3>1 DEF H
      <3>4. SameAt(s, o, h)
        BY <3>1, <3>2, <3>3, EqualDown
      <3> QED
        BY <3>4 DEF h
    <2> HIDE DEF T
    <2>3. \A d \in Nat : d \in T
      BY <2>1, <2>2, NumbersInduction
    <2>4. H - 1 \in Nat /\ H - 1 < H /\ H - (H - 1) = 1
      BY <1>3
    <2>5. H - 1 \in T
      BY <2>3, <2>4
    <2> QED
      BY <2>4, <2>5 DEF T
  <1>7. SameAt(s, o, 1) => SameAt(s, o, H)
    <2> DEFINE T == {d \in Nat : SameAt(s, o, 1) /\ d + 1 <= H => SameAt(s, o, d + 1)}
    <2>1. 0 \in T
      <3>1. 0 + 1 = 1
        OBVIOUS
      <3> QED
        BY <3>1
    <2>2. ASSUME NEW d \in Nat, d \in T
          PROVE  d + 1 \in T
      <3> SUFFICES ASSUME SameAt(s, o, 1), (d + 1) + 1 <= H
                   PROVE  SameAt(s, o, (d + 1) + 1)
        OBVIOUS
      <3>1. d + 1 <= H /\ d + 1 \in Nat
        BY <1>3
      <3>2. SameAt(s, o, d + 1)
        BY <2>2, <3>1
      <3>3. (d + 1) + 1 <= Height(Len(s))
        BY DEF H
      <3> QED
        BY <3>1, <3>2, <3>3, EqualUp
    <2> HIDE DEF T
    <2>3. \A d \in Nat : d \in T
      BY <2>1, <2>2, NumbersInduction
    <2>4. H - 1 \in Nat /\ (H - 1) + 1 = H /\ (H - 1) + 1 <= H
      BY <1>3
    <2>5. H - 1 \in T
      BY <2>3, <2>4
    <2> QED
      BY <2>4, <2>5 DEF T
  <1>8. SameAt(s, o, 1) <=> \A i \in 1 .. Len(s) : i % 2 = 1 => Pair(o, i) = Pair(s, i)
    BY <1>3, EqualPairs DEF H
  <1> QED
    BY <1>5, <1>6, <1>7, <1>8

\* The list a proof is asked about, next to another of its length.
LEMMA ProvedList ==
  ASSUME TreeInv, pc = "prove", NEW other \in Lists, Len(other) = Len(leaves)
  PROVE  /\ Comparable(leaves, other) /\ Root = Reference(leaves)
         /\ DOMAIN leaves = 1 .. Len(leaves)
         /\ leaves \in Seq(Hashes) /\ other \in Seq(Hashes)
  <1> DEFINE n == Len(leaves)
  <1>1. Built(tree, leaves)
    BY TreeIsBuilt
  <1>2. n \in Nat \ {0} /\ Len(tree) - 1 \in 0 .. n /\ Height(n) = Len(tree) - 1
    BY <1>1, BuiltLevels, BuiltHeight
  <1>3. IsHeight(Height(n), n)
    <2> HIDE DEF n
    <2>1. IsHeight(Len(tree) - 1, n)
      BY <1>1, BuiltHeight DEF n
    <2> QED
      BY <1>2, <2>1
  <1>4. Root = Reference(leaves)
    BY <1>1, BuiltRoot DEF Root, Top
  <1>5. leaves \in Seq(Hashes) /\ other \in Seq(Hashes)
    BY MerkleAssumption DEF TreeInv, Types, TypeOK
  <1>6. DOMAIN leaves = 1 .. n
    BY <1>5
  <1> QED
    BY <1>2, <1>3, <1>4, <1>5, <1>6 DEF Comparable

\* The root binds the bytes of each pair of chunks and nothing finer, whatever
\* the length of the list (merkle.rs:40-74).
THEOREM RootIsThePairs ==
  ASSUME NodesDecode
  PROVE  Spec => []RootBindsPairs
  <1>1. TreeInv => RootBindsPairs
    <2> SUFFICES ASSUME TreeInv, pc = "prove", Len(leaves) > 1,
                        NEW other \in Lists, Len(other) = Len(leaves)
                 PROVE  Root = Reference(other) <=>
                          \A i \in DOMAIN leaves : i % 2 = 1 => Pair(other, i) = Pair(leaves, i)
      BY DEF RootBindsPairs
    <2> QED
      BY ProvedList, RootsBind
  <1> QED
    BY <1>1, InitTree, NextTree, PTL DEF Spec

\* The bytes of a chunk hash are a string of blocks.
LEMMA HashBytes ==
  ASSUME NEW h \in Hashes
  PROVE  Decoded(h) \in Seq(Blocks)
  BY MerkleAssumption DEF Decoded

\* Where both lists decode to as many bytes at each place, one root means the
\* same chunks in the same order, whatever the length (merkle.rs:28-82).
THEOREM RootBinds ==
  ASSUME NodesDecode
  PROVE  Spec => []RootBindsChunks
  <1>1. TreeInv => RootBindsChunks
    <2> SUFFICES ASSUME TreeInv, pc = "prove", NEW other \in Lists, Len(other) = Len(leaves),
                        SameWidths(leaves, other), Root = Reference(other), NEW i \in DOMAIN leaves
                 PROVE  Decoded(other[i]) = Decoded(leaves[i])
      BY DEF RootBindsChunks
    <2> DEFINE n == Len(leaves)
               next(j) == IF j < n THEN j + 1 ELSE j
    <2>1. /\ Comparable(leaves, other) /\ Root = Reference(leaves)
          /\ DOMAIN leaves = 1 .. n /\ n \in Nat \ {0}
          /\ leaves \in Seq(Hashes) /\ other \in Seq(Hashes)
      BY ProvedList DEF Comparable
    <2>2. \A j \in 1 .. n : /\ Decoded(leaves[j]) \in Seq(Blocks) /\ Decoded(other[j]) \in Seq(Blocks)
                            /\ Len(Decoded(leaves[j])) = Len(Decoded(other[j]))
      <3> TAKE j \in 1 .. n
      <3>1. leaves[j] \in Hashes /\ other[j] \in Hashes
        BY <2>1
      <3> QED
        BY <2>1, <3>1, HashBytes DEF SameWidths
    <2>3. CASE n = 1
      <3>1. Reference(leaves) = leaves[1] /\ Reference(other) = other[1]
        <4>1. Height(n) = 0
          <5>1. Powers(n)[0] = 1 /\ 0 \in 0 .. n
            BY <2>1, PowersAt
          <5>2. IsHeight(0, n)
            BY <2>3, <5>1 DEF IsHeight
          <5> QED
            BY <2>1, <5>1, <5>2, HeightIs
        <4>2. 0 \in 0 .. 0 /\ 0 \in Nat /\ 0 + 1 = 1
          OBVIOUS
        <4>3. Nodes(leaves)[0][0] = leaves[1]
          BY <4>1, <4>2, NodesAt DEF NodeAt
        <4>4. Nodes(other)[0][0] = other[1]
          BY <4>1, <4>2, NodesAt DEF NodeAt
        <4> QED
          BY <4>1, <4>3, <4>4, ReferenceIs
      <3>2. i = 1
        BY <2>1, <2>3
      <3> QED
        BY <2>1, <3>1, <3>2
    <2>4. CASE n # 1
      <3>1. \A j \in 1 .. n : j % 2 = 1 => Pair(other, j) = Pair(leaves, j)
        <4>1. Len(leaves) > 1
          BY <2>1, <2>4
        <4> QED
          BY <2>1, <4>1, RootsBind
      <3>2. ASSUME NEW j \in 1 .. n, j % 2 = 1
            PROVE  /\ Decoded(other[j]) = Decoded(leaves[j])
                   /\ Decoded(other[next(j)]) = Decoded(leaves[next(j)])
        <4>1. next(j) \in 1 .. n
          BY <2>1
        <4>2. Decoded(other[j]) \o Decoded(other[next(j)]) = Decoded(leaves[j]) \o Decoded(leaves[next(j)])
          BY <2>1, <3>1, <3>2 DEF Pair, Comparable
        <4> HIDE DEF next, n
        <4>3. /\ Decoded(other[j]) \in Seq(Blocks) /\ Decoded(other[next(j)]) \in Seq(Blocks)
              /\ Decoded(leaves[j]) \in Seq(Blocks) /\ Decoded(leaves[next(j)]) \in Seq(Blocks)
              /\ Len(Decoded(other[j])) = Len(Decoded(leaves[j]))
          BY <2>2, <4>1
        <4>4. Splits(Decoded(other[j]), Decoded(other[next(j)]), Decoded(leaves[j]), Decoded(leaves[next(j)]))
          BY <4>3, ConcatSplits
        <4> QED
          BY <4>2, <4>3, <4>4 DEF Splits
      <3>3. CASE i % 2 = 1
        BY <2>1, <3>2, <3>3
      <3>4. CASE i % 2 # 1
        <4>1. i - 1 \in 1 .. n /\ (i - 1) % 2 = 1 /\ next(i - 1) = i
          BY <2>1, <3>4
        <4> HIDE DEF next
        <4> QED
          BY <3>2, <4>1
      <3> QED
        BY <3>3, <3>4
    <2> QED
      BY <2>3, <2>4
  <1> QED
    BY <1>1, InitTree, NextTree, PTL DEF Spec
-----------------------------------------------------------------------------
(* A proof is accepted for its leaf *)

\* The parent of position x over its two children, as a fold sees them.
LEMMA ParentOf ==
  ASSUME NEW nodes, IsSeq(nodes), NEW x \in Nat, x < Len(nodes)
  PROVE  /\ (x \div 2) + 1 \in 1 .. Len(Parents(nodes))
         /\ Parents(nodes)[(x \div 2) + 1] =
              IF x % 2 = 1 THEN HashPair(nodes[Sibling(x, nodes) + 1], nodes[x + 1])
              ELSE HashPair(nodes[x + 1], nodes[Sibling(x, nodes) + 1])
  <1> DEFINE w == Len(nodes)
             k == (x \div 2) + 1
  <1>1. w \in Nat
    BY DEF IsSeq
  <1>2. Len(Parents(nodes)) = (w + 1) \div 2 /\ x < w
    BY ParentsWidth
  <1>3. k \in 1 .. (w + 1) \div 2
    <2> HIDE DEF w
    <2> QED
      BY <1>1, <1>2 DEF k
  <1>4. Parents(nodes)[k] = HashPair(nodes[2 * k - 1], nodes[IF 2 * k <= w THEN 2 * k ELSE 2 * k - 1])
    <2> HIDE DEF k
    <2> QED
      BY <1>3 DEF Parents
  <1>5. CASE x % 2 = 1
    <2>1. 2 * k - 1 = x /\ 2 * k = x + 1 /\ 2 * k <= w /\ (x - 1) + 1 = x
      <3> HIDE DEF w
      <3> QED
        BY <1>1, <1>2, <1>5 DEF k
    <2> HIDE DEF k
    <2>2. Sibling(x, nodes) = x - 1
      BY <1>5 DEF Sibling
    <2>3. Parents(nodes)[k] = HashPair(nodes[(x - 1) + 1], nodes[x + 1])
      BY ONLY <1>4, <2>1
    <2> QED
      BY <1>2, <1>3, <1>5, <2>2, <2>3 DEF k
  <1>6. CASE x % 2 # 1
    <2>1. 2 * k - 1 = x + 1 /\ 2 * k = (x + 1) + 1 /\ (2 * k <= w <=> x + 1 < w)
      <3> HIDE DEF w
      <3> QED
        BY <1>1, <1>2, <1>6 DEF k
    <2> HIDE DEF k
    <2>2. Sibling(x, nodes) = IF x + 1 < w THEN x + 1 ELSE x
      BY <1>6 DEF Sibling
    <2> HIDE DEF w
    <2>3. Parents(nodes)[k] = HashPair(nodes[x + 1], nodes[Sibling(x, nodes) + 1])
      <3>1. CASE x + 1 < w
        BY ONLY <1>4, <2>1, <2>2, <3>1
      <3>2. CASE ~(x + 1 < w)
        BY ONLY <1>4, <2>1, <2>2, <3>2
      <3> QED
        BY <3>1, <3>2
    <2> QED
      BY <1>2, <1>3, <1>6, <2>3 DEF k, w
  <1> QED
    BY <1>5, <1>6

\* p[i] is the position the walk had in level i, and the proof holds the sibling
\* it collected there.
Trail(p) ==
  /\ p[0] = at /\ p[level] = index
  /\ \A i \in 0 .. level : p[i] \in Nat /\ p[i] < Len(tree[i + 1])
  /\ \A i \in 0 .. level - 1 :
       /\ p[i + 1] = p[i] \div 2
       /\ path[i + 1] = [hash |-> tree[i + 1][Sibling(p[i], tree[i + 1]) + 1], is_left |-> p[i] % 2 = 1]

Leaf == leaves[at + 1]

IsNode(x) == \E q, r : x = HashPair(q, r)

\* Beside the same sibling, on the same side, the same bytes make the same node
\* and other bytes another one: a string can be cut off at either end.
LEMMA SiblingCancels ==
  ASSUME NodesDecode, NEW a, NEW b, NEW c,
         a \in Hashes \/ IsNode(a), b \in Hashes \/ IsNode(b), c \in Hashes \/ IsNode(c)
  PROVE  /\ Decoded(HashPair(a, b)) = Decoded(HashPair(a, c)) <=> Decoded(b) = Decoded(c)
         /\ Decoded(HashPair(b, a)) = Decoded(HashPair(c, a)) <=> Decoded(b) = Decoded(c)
  <1> DEFINE S == Blocks \cup {a, b, c}
  <1>1. ASSUME NEW v \in {a, b, c}
        PROVE  Decoded(v) \in Seq(S)
    <2>1. CASE v \in Hashes
      BY <2>1, HashBytes
    <2>2. CASE IsNode(v)
      <3>1. Decoded(v) = <<v>>
        BY <2>2 DEF IsNode, NodesDecode
      <3> QED
        BY <3>1
    <2> QED
      BY <2>1, <2>2
  <1>2. Decoded(a) \in Seq(S) /\ Decoded(b) \in Seq(S) /\ Decoded(c) \in Seq(S)
    BY <1>1
  <1> HIDE DEF S
  <1>3. ASSUME NEW p, NEW q, NEW r, NEW t, Decoded(HashPair(p, q)) = Decoded(HashPair(r, t))
        PROVE  Decoded(p) \o Decoded(q) = Decoded(r) \o Decoded(t)
    <2>1. <<HashPair(p, q)>> = <<HashPair(r, t)>>
      BY <1>3 DEF NodesDecode
    <2>2. HashPair(p, q) = HashPair(r, t)
      BY ONLY <2>1
    <2>3. HashPair(p, q).digest = Decoded(p) \o Decoded(q) /\ HashPair(r, t).digest = Decoded(r) \o Decoded(t)
      BY Zenon DEF HashPair
    <2> QED
      BY ONLY <2>2, <2>3, Zenon
  <1>4. Decoded(HashPair(a, b)) = Decoded(HashPair(a, c)) => Decoded(b) = Decoded(c)
    <2>1. Decoded(HashPair(a, b)) = Decoded(HashPair(a, c)) =>
            Decoded(a) \o Decoded(b) = Decoded(a) \o Decoded(c)
      BY <1>3
    <2>2. Splits(Decoded(a), Decoded(b), Decoded(a), Decoded(c))
      BY <1>2, ConcatSplits
    <2> QED
      BY <2>1, <2>2 DEF Splits
  <1>5. Decoded(HashPair(b, a)) = Decoded(HashPair(c, a)) => Decoded(b) = Decoded(c)
    <2>1. Decoded(HashPair(b, a)) = Decoded(HashPair(c, a)) =>
            Decoded(b) \o Decoded(a) = Decoded(c) \o Decoded(a)
      BY <1>3
    <2>2. Splits(Decoded(b), Decoded(a), Decoded(c), Decoded(a))
      BY <1>2, ConcatSplits
    <2> QED
      BY <2>1, <2>2 DEF Splits
  <1>6. Decoded(b) = Decoded(c) => HashPair(a, b) = HashPair(a, c) /\ HashPair(b, a) = HashPair(c, a)
    BY Zenon DEF HashPair
  <1> QED
    BY <1>4, <1>5, <1>6

\* What stands in the tree is a chunk hash or a node.
LEMMA TreeHolds ==
  ASSUME TreeInv, pc = "fold", NEW j \in 1 .. Len(tree), NEW i \in 1 .. Len(tree[j])
  PROVE  tree[j][i] \in Hashes \/ IsNode(tree[j][i])
  <1>1. Built(tree, leaves)
    BY TreeIsBuilt
  <1>2. CASE j = 1
    <2>1. tree[1] = leaves /\ leaves \in Seq(Hashes)
      BY <1>1 DEF Built, TreeInv, Types, TypeOK
    <2>2. tree[j] = leaves
      BY <1>2, <2>1
    <2>3. i \in 1 .. Len(leaves)
      BY <2>2
    <2> QED
      BY <2>1, <2>2, <2>3
  <1>3. CASE j # 1
    <2> DEFINE below == tree[j - 1]
    <2>1. Len(tree) \in Nat
      BY <1>1, BuiltLevels
    <2>2. j - 1 \in 1 .. Len(tree) - 1 /\ j - 1 \in 1 .. Len(tree) /\ (j - 1) + 1 = j
      BY <1>3, <2>1
    <2>3. tree[j] = Parents(below) /\ IsSeq(below)
      BY <1>1, <2>2 DEF Built
    <2> HIDE DEF below
    <2>4. i \in 1 .. (Len(below) + 1) \div 2
      <3>1. Len(Parents(below)) = (Len(below) + 1) \div 2
        BY <2>3, ParentsWidth
      <3>2. i \in 1 .. Len(Parents(below))
        BY <2>3
      <3> QED
        BY <3>1, <3>2
    <2>5. Parents(below)[i] = HashPair(below[2 * i - 1], below[IF 2 * i <= Len(below) THEN 2 * i ELSE 2 * i - 1])
      BY <2>4 DEF Parents
    <2> QED
      BY <2>3, <2>5 DEF IsNode
  <1> QED
    BY <1>2, <1>3

\* What has been folded is the node at that position if and only if the claim
\* decodes to the leaf.
FoldedTo(p) ==
  /\ folded = 0 => current = claim
  /\ folded > 0 => IsNode(current)
  /\ Decoded(current) = Decoded(tree[folded + 1][p[folded] + 1]) <=> Bytes[claim] = Bytes[Leaf]

Following ==
  /\ at < Len(leaves) /\ level \in 0 .. Len(tree) - 1
  /\ \E p : Trail(p) /\ FoldedTo(p)

ClaimInv ==
  /\ pc \in {"new", "build", "prove"} => folded = 0 /\ current = claim
  /\ pc \in {"new", "build", "prove", "fold"} => verdict = "none"
  /\ pc \in {"prove", "fold"} => Following
  /\ pc = "fold" => level = Len(tree) - 1 /\ (by = "verify_chunk" => claim = Leaf)
  /\ AcceptsItsLeaf

\* Nothing is verified yet.
LEMMA InitClaim == Init => ClaimInv
  BY DEF Init, ClaimInv, AcceptsItsLeaf

\* The first position is that of the leaf.
LEMMA StartFollows ==
  ASSUME TreeInv, ClaimInv, StartProof
  PROVE  Following'
  <1> USE DEF inputs, walk, fold
  <1>1. /\ pc = "build" /\ pc' = "prove" /\ Len(Top) = 1 /\ at < Len(leaves)
        /\ tree' = tree /\ leaves' = leaves /\ at' = at /\ claim' = claim /\ level' = level
        /\ index' = index /\ path' = path /\ folded' = folded /\ current' = current
    BY DEF StartProof
  <1>2. folded = 0 /\ current = claim /\ level = 0 /\ index = at
    BY <1>1 DEF ClaimInv, TreeInv, WalkInv, Walk
  <1>3. Len(tree) \in Nat /\ Len(tree) > 0 /\ tree[1] = leaves
    <2>1. Len(tree) \in Nat /\ Len(tree) > 0
      BY <1>1 DEF TreeInv, WalkInv, Shape, IsSeq
    <2>2. tree # <<>>
      BY <2>1, EmptyIsSeq
    <2> QED
      BY <2>1, <2>2 DEF TreeInv, WalkInv, Shape
  <1>4. leaves \in Seq(Hashes) /\ at \in Nat /\ claim \in Hashes
    BY DEF TreeInv, Types, TypeOK
  <1>5. leaves[at + 1] \in Hashes
    BY <1>1, <1>4
  <1>6. PICK p : p[0] = at
    <2>1. [i \in {0} |-> at][0] = at
      OBVIOUS
    <2> QED
      BY <2>1
  <1>7. Trail(p)'
    <2>1. \A i \in 0 .. level : i = 0
      BY <1>2
    <2>2. \A i \in 0 .. level - 1 : FALSE
      BY <1>2
    <2>3. \A i \in 0 .. level : p[i] \in Nat /\ p[i] < Len(tree[i + 1])
      BY <1>1, <1>3, <1>4, <1>6, <2>1
    <2> QED
      BY <1>1, <1>2, <1>6, <2>2, <2>3 DEF Trail
  <1>8. FoldedTo(p)'
    <2>1. Decoded(claim) = Bytes[claim] /\ Decoded(leaves[at + 1]) = Bytes[leaves[at + 1]]
      BY <1>4, <1>5 DEF Decoded
    <2>2. tree[folded + 1][p[folded] + 1] = leaves[at + 1]
      BY <1>2, <1>3, <1>6
    <2> QED
      BY <1>1, <1>2, <2>1, <2>2 DEF FoldedTo, Leaf
  <1> QED
    BY <1>1, <1>2, <1>3, <1>7, <1>8 DEF Following

\* Collecting a sibling adds the next position.
LEMMA CollectFollows ==
  ASSUME TreeInv, ClaimInv, Collect
  PROVE  Following'
  <1> USE DEF inputs, walk, fold
  <1> DEFINE nodes == tree[level + 1]
             s == [hash |-> nodes[Sibling(index, nodes) + 1], is_left |-> index % 2 = 1]
  <1>1. /\ pc = "prove" /\ level < Len(tree) - 1
        /\ tree' = tree /\ leaves' = leaves /\ at' = at /\ claim' = claim /\ level' = level + 1
        /\ index' = index \div 2 /\ path' = Append(path, s) /\ folded' = folded /\ current' = current
    BY DEF Collect
  <1>2. folded = 0 /\ Following
    BY <1>1 DEF ClaimInv
  <1>3. Len(tree) \in Nat /\ level \in Nat /\ level = Len(path) /\ IsSeq(path) /\ index \in Nat
    BY <1>1 DEF TreeInv, WalkInv, Shape, Walk, IsSeq, Types, TypeOK
  <1>4. PICK p : Trail(p) /\ FoldedTo(p)
    BY <1>2 DEF Following
  <1>5. IsSeq(nodes) /\ index < Len(nodes)
    <2>1. level + 1 \in 1 .. Len(tree)
      BY <1>1, <1>3
    <2>2. IsSeq(nodes)
      BY <2>1 DEF TreeInv, WalkInv, Shape
    <2>3. Len(nodes) \in Nat /\ index \in 0 .. Len(nodes) - 1
      BY <1>1, <2>2 DEF TreeInv, WalkInv, Walk, IsSeq
    <2> QED
      BY <2>2, <2>3
  <1>6. index \div 2 \in Nat /\ index \div 2 < Len(tree[level + 2])
    <2>1. tree[(level + 1) + 1] = Parents(nodes)
      <3>1. level + 1 \in 1 .. Len(tree) - 1
        BY <1>1, <1>3
      <3> QED
        BY <3>1 DEF TreeInv, Grown
    <2>2. (index \div 2) + 1 \in 1 .. Len(Parents(nodes))
      BY <1>3, <1>5, ParentOf
    <2>3. Len(Parents(nodes)) \in Nat
      BY <1>5, ParentsWidth DEF IsSeq
    <2>4. (level + 1) + 1 = level + 2
      BY <1>3
    <2> HIDE DEF nodes
    <2>5. index \div 2 \in Nat /\ index \div 2 < Len(Parents(nodes))
      BY <1>3, <2>2, <2>3
    <2> QED
      BY <2>1, <2>4, <2>5
  <1>7. /\ \A i \in 1 .. level : path'[i] = path[i]
        /\ path'[level + 1] = s
    BY <1>1, <1>3, AppendSeq
  <1>8. PICK q : q[level + 1] = index \div 2 /\ \A i \in 0 .. level : q[i] = p[i]
    <2> DEFINE r == [i \in 0 .. level + 1 |-> IF i = level + 1 THEN index \div 2 ELSE p[i]]
    <2>1. r[level + 1] = index \div 2 /\ \A i \in 0 .. level : r[i] = p[i]
      BY <1>3
    <2> QED
      BY <2>1
  <1>9. Trail(q)'
    <2>1. q[0] = at
      BY <1>3, <1>4, <1>8 DEF Trail
    <2>2. \A i \in 0 .. level + 1 : q[i] \in Nat /\ q[i] < Len(tree[i + 1])
      <3> TAKE i \in 0 .. level + 1
      <3>1. CASE i = level + 1
        <4>1. i + 1 = level + 2
          BY <1>3, <3>1
        <4> QED
          BY <1>6, <1>8, <3>1, <4>1
      <3>2. CASE i # level + 1
        <4>1. i \in 0 .. level
          BY <1>3, <3>2
        <4> QED
          BY <1>4, <1>8, <4>1 DEF Trail
      <3> QED
        BY <3>1, <3>2
    <2>3. ASSUME NEW i \in 0 .. level
          PROVE  /\ q[i + 1] = q[i] \div 2
                 /\ path'[i + 1] = [hash |-> tree[i + 1][Sibling(q[i], tree[i + 1]) + 1], is_left |-> q[i] % 2 = 1]
      <3>1. CASE i = level
        <4>1. q[i] = index
          BY <1>3, <1>4, <1>8, <3>1 DEF Trail
        <4> QED
          BY <1>7, <1>8, <3>1, <4>1
      <3>2. CASE i # level
        <4>1. i \in 0 .. level - 1 /\ i + 1 \in 0 .. level /\ i + 1 \in 1 .. level /\ i \in 0 .. level
          BY <1>3, <3>2
        <4>2. q[i] = p[i] /\ q[i + 1] = p[i + 1] /\ path'[i + 1] = path[i + 1]
          BY <1>7, <1>8, <4>1
        <4> QED
          BY <1>4, <4>1, <4>2 DEF Trail
      <3> QED
        BY <3>1, <3>2
    <2>4. (level + 1) - 1 = level
      BY <1>3
    <2> QED
      BY <1>1, <1>8, <2>1, <2>2, <2>3, <2>4 DEF Trail
  <1>10. FoldedTo(q)'
    <2>1. q[folded] = p[folded]
      BY <1>2, <1>3, <1>8
    <2> QED
      BY <1>1, <1>4, <2>1 DEF FoldedTo, Leaf
  <1>11. at' < Len(leaves') /\ level' \in 0 .. Len(tree') - 1
    BY <1>1, <1>2, <1>3 DEF Following
  <1> QED
    BY <1>9, <1>10, <1>11 DEF Following
\* Folding a sibling gives the parent if and only if what was folded so far was
\* the node itself.
LEMMA FoldFollows ==
  ASSUME NodesDecode, TreeInv, ClaimInv, Fold
  PROVE  Following'
  <1> USE DEF inputs, walk, fold
  <1> DEFINE s == path[folded + 1]
             above == IF s.is_left THEN HashPair(s.hash, current) ELSE HashPair(current, s.hash)
  <1>1. /\ pc = "fold" /\ folded < Len(path)
        /\ tree' = tree /\ leaves' = leaves /\ at' = at /\ claim' = claim /\ level' = level
        /\ index' = index /\ path' = path /\ folded' = folded + 1 /\ current' = above
    BY DEF Fold
  <1>2. Following /\ level = Len(tree) - 1
    BY <1>1 DEF ClaimInv
  <1>3. Len(tree) \in Nat /\ level \in Nat /\ level = Len(path) /\ folded \in 0 .. level - 1
    BY <1>1, <1>2 DEF TreeInv, WalkInv, Shape, IsSeq, Types, TypeOK
  <1>4. PICK p : Trail(p) /\ FoldedTo(p)
    BY <1>2 DEF Following
  <1> DEFINE nodes == tree[folded + 1]
             x == p[folded]
             sibling == nodes[Sibling(x, nodes) + 1]
             own == nodes[x + 1]
             parent == tree[folded + 2][p[folded + 1] + 1]
  <1>5. IsSeq(nodes) /\ tree[folded + 2] = Parents(nodes)
    <2>1. folded + 1 \in 1 .. Len(tree) /\ folded + 1 \in 1 .. Len(tree) - 1 /\ (folded + 1) + 1 = folded + 2
      BY <1>2, <1>3
    <2> QED
      BY <2>1 DEF TreeInv, WalkInv, Shape, Grown
  <1>6. /\ x \in Nat /\ x < Len(nodes) /\ p[folded + 1] = x \div 2
        /\ s = [hash |-> sibling, is_left |-> x % 2 = 1]
    <2>1. folded \in 0 .. level
      BY <1>3
    <2> QED
      BY <1>3, <1>4, <2>1 DEF Trail
  <1>7. parent = IF x % 2 = 1 THEN HashPair(sibling, own) ELSE HashPair(own, sibling)
    BY <1>5, <1>6, ParentOf
  <1>8. above = IF x % 2 = 1 THEN HashPair(sibling, current) ELSE HashPair(current, sibling)
    <2> HIDE DEF s, x, sibling
    <2>1. s.hash = sibling /\ s.is_left = (x % 2 = 1)
      BY <1>6
    <2> QED
      BY <2>1
  <1>9. Decoded(current) = Decoded(own) <=> Bytes[claim] = Bytes[Leaf]
    BY <1>4 DEF FoldedTo
  <1>10. /\ current \in Hashes \/ IsNode(current)
         /\ own \in Hashes \/ IsNode(own)
         /\ sibling \in Hashes \/ IsNode(sibling)
    <2>1. current \in Hashes \/ IsNode(current)
      <3>1. claim \in Hashes /\ (folded = 0 \/ folded > 0)
        BY <1>3 DEF TreeInv, Types, TypeOK
      <3> QED
        BY <1>4, <3>1 DEF FoldedTo
    <2>2. folded + 1 \in 1 .. Len(tree)
      BY <1>2, <1>3
    <2> HIDE DEF s, x
    <2>3. x + 1 \in 1 .. Len(nodes) /\ Sibling(x, nodes) + 1 \in 1 .. Len(nodes)
      <3>1. Len(nodes) \in Nat
        BY <1>5 DEF IsSeq
      <3> HIDE DEF nodes
      <3> QED
        BY <1>6, <3>1 DEF Sibling
    <2> QED
      BY <1>1, <2>1, <2>2, <2>3, TreeHolds
  <1> HIDE DEF s, above, nodes, x, sibling, own, parent
  <1>11. IsNode(above) /\ (Decoded(above) = Decoded(parent) <=> Decoded(current) = Decoded(own))
    <2>1. CASE x % 2 = 1
      <3>1. above = HashPair(sibling, current) /\ parent = HashPair(sibling, own)
        BY <1>7, <1>8, <2>1
      <3> QED
        BY <1>10, <3>1, SiblingCancels DEF IsNode
    <2>2. CASE x % 2 # 1
      <3>1. above = HashPair(current, sibling) /\ parent = HashPair(own, sibling)
        BY <1>7, <1>8, <2>2
      <3> QED
        BY <1>10, <3>1, SiblingCancels DEF IsNode
    <2> QED
      BY <2>1, <2>2
  <1>12. FoldedTo(p)'
    <2>1. (folded + 1) + 1 = folded + 2 /\ folded + 1 # 0 /\ folded + 1 > 0
      BY <1>3
    <2>2. Decoded(current') = Decoded(tree[(folded + 1) + 1][p[folded + 1] + 1]) <=> Bytes[claim] = Bytes[Leaf]
      BY <1>1, <1>9, <1>11, <2>1 DEF parent
    <2>3. IsNode(current')
      BY <1>1, <1>11
    <2> QED
      BY <1>1, <2>1, <2>2, <2>3 DEF FoldedTo, Leaf
  <1>13. Trail(p)'
    BY <1>1, <1>4 DEF Trail
  <1> QED
    BY <1>1, <1>2, <1>12, <1>13 DEF Following

\* The comparison with the root accepts the leaf and nothing else.
LEMMA CompareAccepts ==
  ASSUME NodesDecode, TreeInv, ClaimInv, Compare
  PROVE  AcceptsItsLeaf'
  <1> USE DEF inputs, walk, fold
  <1>1. /\ pc = "fold" /\ folded = Len(path) /\ verdict' = (IF current = Root THEN "accept" ELSE "reject")
        /\ leaves' = leaves /\ at' = at /\ claim' = claim /\ by' = by
    BY DEF Compare, Stop
  <1>2. Following /\ level = Len(tree) - 1 /\ (by = "verify_chunk" => claim = Leaf)
    BY <1>1 DEF ClaimInv
  <1>3. PICK p : Trail(p) /\ FoldedTo(p)
    BY <1>2 DEF Following
  <1>4. Built(tree, leaves)
    BY <1>1, TreeIsBuilt
  <1>5. /\ folded = level /\ Len(tree) \in Nat /\ Len(tree) > 0 /\ Len(leaves) \in Nat
        /\ folded + 1 = Len(tree) /\ level \in Nat /\ folded = Len(tree) - 1
    <2>1. folded = level
      BY <1>1 DEF TreeInv, Types, TypeOK
    <2>2. Len(tree) \in Nat \ {0} /\ Len(leaves) \in Nat
      BY <1>4, BuiltLevels
    <2> QED
      BY <1>2, <2>1, <2>2
  <1>6. at \in Nat /\ at < Len(leaves)
    BY <1>2 DEF Following, TreeInv, WalkInv
  <1>7. tree[folded + 1][p[folded] + 1] = Root
    <2>1. p[folded] \in Nat /\ p[folded] < Len(tree[folded + 1])
      <3>1. level \in 0 .. level
        BY <1>2, <1>5
      <3> QED
        BY <1>3, <1>5, <3>1 DEF Trail
    <2>2. Len(tree[folded + 1]) = 1
      BY <1>4, <1>5 DEF Built
    <2>3. p[folded] + 1 = 1
      BY <2>1, <2>2
    <2> QED
      BY <1>5, <2>3 DEF Root, Top
  <1> DEFINE same == IF by = "verify_chunk" \/ Len(leaves) = 1 THEN claim = Leaf ELSE Bytes[claim] = Bytes[Leaf]
  <1>8. current = Root <=> same
    <2>1. CASE Len(tree) = 1
      <3>1. folded = 0 /\ tree[1] = leaves /\ Len(leaves) = 1 /\ at = 0
        <4>1. tree[1] = leaves /\ Len(tree[Len(tree)]) = 1
          BY <1>4 DEF Built
        <4>2. Len(leaves) = 1
          BY <2>1, <4>1
        <4> QED
          BY <1>5, <1>6, <2>1, <4>1, <4>2
      <3>2. current = claim
        BY <1>3, <3>1 DEF FoldedTo
      <3>3. Root = Leaf
        BY <2>1, <3>1 DEF Root, Top, Leaf
      <3> QED
        BY <3>1, <3>2, <3>3
    <2>2. CASE Len(tree) # 1
      <3>1. /\ folded > 0 /\ Len(tree) - 1 \in 1 .. Len(tree) - 1 /\ (Len(tree) - 1) + 1 = Len(tree)
            /\ 1 \in 1 .. Len(tree) - 1
        BY <1>5, <2>2
      <3>2. Len(leaves) # 1
        <4>1. tree[1] = leaves /\ Len(tree[1]) > 1
          BY <1>4, <3>1 DEF Built
        <4>2. Len(leaves) > 1
          BY <4>1
        <4>3. \A w \in Nat : w > 1 => w # 1
          OBVIOUS
        <4> QED
          BY <1>5, <4>2, <4>3, Zenon
      <3>3. IsNode(current)
        BY <1>3, <3>1 DEF FoldedTo
      <3>4. IsNode(Root)
        <4>1. Top = Parents(tree[Len(tree) - 1]) /\ Len(Top) = 1
          BY <1>4, <3>1 DEF Built, Top
        <4>2. IsSeq(tree[Len(tree) - 1])
          <5>1. Len(tree) - 1 \in 1 .. Len(tree)
            BY <1>5, <3>1
          <5> QED
            BY <1>4, <5>1 DEF Built
        <4>3. Len(Top) = (Len(tree[Len(tree) - 1]) + 1) \div 2
          BY <4>1, <4>2, ParentsWidth
        <4> DEFINE below == tree[Len(tree) - 1]
        <4>4. 1 \in 1 .. (Len(below) + 1) \div 2
          <5>1. (Len(below) + 1) \div 2 = 1
            BY <4>1, <4>3
          <5>2. 1 \in 1 .. 1
            OBVIOUS
          <5> QED
            BY <5>1, <5>2, Zenon
        <4> HIDE DEF below
        <4>5. Parents(below)[1] = HashPair(below[2 * 1 - 1], below[IF 2 * 1 <= Len(below) THEN 2 * 1 ELSE 2 * 1 - 1])
          BY <4>4 DEF Parents
        <4> QED
          BY <4>1, <4>5 DEF IsNode, Root, below
      <3>5. current = Root <=> Decoded(current) = Decoded(Root)
        <4>1. Decoded(current) = <<current>> /\ Decoded(Root) = <<Root>>
          BY <3>3, <3>4 DEF IsNode, NodesDecode
        <4>2. <<current>> = <<Root>> => current = Root
          BY ONLY TRUE
        <4> QED
          BY <4>1, <4>2
      <3>6. Decoded(current) = Decoded(Root) <=> Bytes[claim] = Bytes[Leaf]
        BY <1>3, <1>7 DEF FoldedTo
      <3> QED
        BY <1>2, <3>2, <3>5, <3>6
    <2> QED
      BY <2>1, <2>2
  <1> QED
    BY <1>1, <1>8 DEF AcceptsItsLeaf, Leaf

\* ClaimInv is inductive, given TreeInv.
LEMMA NextClaim ==
  ASSUME NodesDecode
  PROVE  TreeInv /\ ClaimInv /\ [Next]_vars => ClaimInv'
  <1> SUFFICES ASSUME TreeInv, ClaimInv, [Next]_vars
               PROVE  ClaimInv'
    OBVIOUS
  <1> USE DEF inputs, walk, fold
  <1>1. ASSUME UNCHANGED <<inputs, tree, walk, fold>>
        PROVE  /\ Following => Following'
               /\ Leaf' = Leaf
    BY <1>1 DEF Following, Trail, FoldedTo, Leaf
  <1>2. CASE Refuse
    BY <1>2 DEF Refuse, Stop, ClaimInv, AcceptsItsLeaf
  <1>3. CASE Plant
    BY <1>3 DEF Plant, ClaimInv, AcceptsItsLeaf
  <1>4. CASE BuildLevel
    BY <1>4 DEF BuildLevel, ClaimInv, AcceptsItsLeaf
  <1>5. CASE StartProof
    BY <1>5, StartFollows DEF StartProof, ClaimInv, AcceptsItsLeaf
  <1>6. CASE OutOfBounds
    BY <1>6 DEF OutOfBounds, Stop, ClaimInv, AcceptsItsLeaf
  <1>7. CASE Collect
    BY <1>7, CollectFollows DEF Collect, ClaimInv, AcceptsItsLeaf
  <1>8. CASE WrongLeaf
    BY <1>8 DEF WrongLeaf, Stop, ClaimInv, AcceptsItsLeaf
  <1>9. CASE StartFold
    <2>1. /\ pc = "prove" /\ pc' = "fold" /\ level = Len(tree) - 1 /\ verdict' = verdict
          /\ by = "verify_chunk" => claim = Leaf
          /\ UNCHANGED <<inputs, tree, walk, fold>>
      BY <1>9 DEF StartFold, Leaf
    <2>2. Following' /\ Leaf' = Leaf
      BY <1>1, <2>1 DEF ClaimInv
    <2> QED
      BY <2>1, <2>2 DEF ClaimInv, AcceptsItsLeaf
  <1>10. CASE Fold
    <2>1. Following'
      BY <1>10, FoldFollows
    <2> QED
      BY <1>10, <2>1 DEF Fold, ClaimInv, AcceptsItsLeaf, Leaf
  <1>11. CASE Compare
    <2>1. AcceptsItsLeaf' /\ pc' = "done"
      BY <1>11, CompareAccepts DEF Compare, Stop
    <2> QED
      BY <2>1 DEF ClaimInv
  <1>12. CASE UNCHANGED vars
    <2>1. (Following => Following') /\ Leaf' = Leaf
      BY <1>1, <1>12 DEF vars
    <2> QED
      BY <1>12, <2>1 DEF vars, ClaimInv, AcceptsItsLeaf
  <1> QED
    BY <1>2, <1>3, <1>4, <1>5, <1>6, <1>7, <1>8, <1>9, <1>10, <1>11, <1>12 DEF Next

\* A proof is accepted for its own leaf and for no hash of other bytes, however
\* long the list (merkle.rs:84-139, 149-164).
THEOREM ProofAcceptsItsLeaf ==
  ASSUME NodesDecode
  PROVE  Spec => []AcceptsItsLeaf
  <1>1. ClaimInv => AcceptsItsLeaf
    BY DEF ClaimInv
  <1>2. TreeInv /\ ClaimInv /\ [Next]_vars => (TreeInv /\ ClaimInv)'
    BY NextTree, NextClaim
  <1> QED
    BY <1>1, <1>2, InitTree, InitClaim, PTL DEF Spec
=============================================================================
