-------------------------------- MODULE Joins --------------------------------
(***************************************************************************)
(* Induction over the natural numbers, and what the concatenation of a     *)
(* sequence of sequences is: the facts that the proofs about chunks need.  *)
(*                                                                         *)
(* The induction theorems of the library take the formula to be proved as  *)
(* an operator.  Here it is a set, so that a theorem is used like any      *)
(* other: a set without a least element is empty.                          *)
(***************************************************************************)
EXTENDS Integers, Sequences, SequenceTheorems, WellFoundedInduction, TLAPS

LessThan == {p \in Nat \X Nat : p[1] < p[2]}

\* A set of natural numbers that is not empty has a least element.
LEMMA LeastNumber ==
  ASSUME NEW T, T \subseteq Nat, T # {}
  PROVE  \E n \in T : \A m \in T : n <= m
  <1>1. IsWellFoundedOn(LessThan, Nat)
    BY NatLessThanWellFounded DEF OpToRel, LessThan
  <1>2. PICK x \in T : \A y \in T : <<y, x>> \notin LessThan
    BY <1>1, WFMin
  <1>3. \A y \in T : ~(y < x)
    BY <1>2 DEF LessThan
  <1> QED
    BY <1>3

\* Induction.
LEMMA NumbersInduction ==
  ASSUME NEW T, 0 \in T, \A n \in Nat : n \in T => n + 1 \in T
  PROVE  \A n \in Nat : n \in T
  <1> SUFFICES ASSUME Nat \ T # {}
               PROVE  FALSE
    OBVIOUS
  <1>1. PICK n \in Nat \ T : \A m \in Nat \ T : n <= m
    BY LeastNumber
  <1>2. n - 1 \in T
    BY <1>1
  <1> QED
    BY <1>1, <1>2

-----------------------------------------------------------------------------
(* The concatenation of a sequence of sequences *)

Joined(s) ==
  LET cat[k \in 0 .. Len(s)] == IF k = 0 THEN <<>> ELSE cat[k - 1] \o s[k]
  IN  cat[Len(s)]

\* g is what the recursion of Joined defines, up to n.
Joins(g, s, n) == g = [k \in 0 .. n |-> IF k = 0 THEN <<>> ELSE g[k - 1] \o s[k]]

\* Its values, one from the other.
Unrolls(g, s, n) == g[0] = <<>> /\ \A k \in Nat : k < n => g[k + 1] = g[k] \o s[k + 1]

LEMMA JoinsAt ==
  ASSUME NEW g, NEW s, NEW n \in Nat, Joins(g, s, n)
  PROVE  Unrolls(g, s, n)
  <1> DEFINE V(k) == IF k = 0 THEN <<>> ELSE g[k - 1] \o s[k]
  <1>1. g = [k \in 0 .. n |-> V(k)]
    BY DEF Joins
  <1> HIDE DEF V
  <1>2. \A k \in 0 .. n : g[k] = V(k)
    BY <1>1
  <1>3. g[0] = <<>>
    BY <1>2 DEF V
  <1>4. ASSUME NEW k \in Nat, k < n
        PROVE  g[k + 1] = g[k] \o s[k + 1]
    <2>1. (k + 1) - 1 = k /\ k + 1 # 0 /\ k + 1 \in 0 .. n
      BY <1>4
    <2>2. g[k + 1] = V(k + 1)
      BY <1>2, <2>1
    <2> QED
      BY <2>1, <2>2 DEF V
  <1> QED
    BY <1>3, <1>4 DEF Unrolls

\* There is such a function.
LEMMA JoinsExists ==
  ASSUME NEW s, NEW n \in Nat
  PROVE  \E g : Joins(g, s, n)
  <1> DEFINE T == {m \in Nat : \E g : Joins(g, s, m)}
  <1>1. 0 \in T
    <2>1. Joins([k \in 0 .. 0 |-> <<>>], s, 0)
      BY DEF Joins
    <2> QED
      BY <2>1
  <1>2. ASSUME NEW m \in Nat, m \in T
        PROVE  m + 1 \in T
    <2>1. PICK g : Joins(g, s, m)
      BY <1>2
    <2> DEFINE h == [k \in 0 .. m + 1 |-> IF k = m + 1 THEN g[m] \o s[m + 1] ELSE g[k]]
    <2>2. ASSUME NEW k \in 0 .. m + 1
          PROVE  h[k] = IF k = 0 THEN <<>> ELSE h[k - 1] \o s[k]
      <3>1. CASE k = m + 1
        <4>1. k - 1 = m /\ k # 0 /\ h[m] = g[m] /\ h[k] = g[m] \o s[k]
          BY <3>1
        <4> HIDE DEF h
        <4> QED
          BY <4>1
      <3>2. CASE k # m + 1
        <4>1. k \in 0 .. m /\ h[k] = g[k] /\ (k # 0 => h[k - 1] = g[k - 1])
          BY <3>2
        <4> HIDE DEF h
        <4>2. g[k] = IF k = 0 THEN <<>> ELSE g[k - 1] \o s[k]
          BY <2>1, <4>1 DEF Joins
        <4> QED
          BY <4>1, <4>2
      <3> QED
        BY <3>1, <3>2
    <2>3. h = [k \in 0 .. m + 1 |-> h[k]]
      OBVIOUS
    <2> HIDE DEF h
    <2>4. Joins(h, s, m + 1)
      BY <2>2, <2>3 DEF Joins
    <2> QED
      BY <2>4
  <1> HIDE DEF T
  <1>3. n \in T
    BY <1>1, <1>2, NumbersInduction
  <1> QED
    BY <1>3 DEF T

\* It is determined as far as the sequences agree.
LEMMA JoinsAgree ==
  ASSUME NEW s, NEW t, NEW m \in Nat, NEW n \in Nat, m <= n,
         NEW g, Joins(g, s, m), NEW h, Joins(h, t, n),
         \A k \in 1 .. m : s[k] = t[k]
  PROVE  \A k \in 0 .. m : g[k] = h[k]
  <1> DEFINE T == {k \in Nat : k <= m => g[k] = h[k]}
  <1>1. Unrolls(g, s, m) /\ Unrolls(h, t, n)
    BY JoinsAt
  <1>2. 0 \in T
    BY <1>1 DEF Unrolls
  <1>3. ASSUME NEW k \in Nat, k \in T
        PROVE  k + 1 \in T
    <2> SUFFICES ASSUME k + 1 <= m
                 PROVE  g[k + 1] = h[k + 1]
      OBVIOUS
    <2>1. k < m /\ k < n
      OBVIOUS
    <2> HIDE DEF T
    <2>2. g[k + 1] = g[k] \o s[k + 1]
      BY <1>1, <2>1 DEF Unrolls
    <2>3. h[k + 1] = h[k] \o t[k + 1]
      BY <1>1, <2>1 DEF Unrolls
    <2>4. g[k] = h[k] /\ s[k + 1] = t[k + 1]
      BY <1>3, <2>1 DEF T
    <2> QED
      BY <2>2, <2>3, <2>4
  <1> HIDE DEF T
  <1>4. \A k \in Nat : k \in T
    BY <1>2, <1>3, NumbersInduction
  <1> QED
    BY <1>4 DEF T

\* Joined is the last value of any such function.
LEMMA JoinedIs ==
  ASSUME NEW S, NEW s \in Seq(S), NEW g, Joins(g, s, Len(s))
  PROVE  Joined(s) = g[Len(s)]
  <1> DEFINE c == CHOOSE h : Joins(h, s, Len(s))
  <1>1. Joined(s) = c[Len(s)]
    BY DEF Joined, Joins
  <1>2. Joins(c, s, Len(s))
    BY JoinsExists
  <1> HIDE DEF c
  <1>3. Len(s) \in Nat
    OBVIOUS
  <1> QED
    BY <1>1, <1>2, <1>3, JoinsAgree

\* Nothing joined is nothing.
LEMMA JoinedEmpty == Joined(<<>>) = <<>>
  <1>1. PICK g : Joins(g, <<>>, 0)
    BY JoinsExists
  <1>2. <<>> \in Seq({}) /\ Len(<<>>) = 0
    OBVIOUS
  <1>3. Joined(<<>>) = g[0]
    BY <1>1, <1>2, JoinedIs
  <1> QED
    BY <1>1, <1>3, JoinsAt DEF Unrolls

\* One more sequence goes to the end.
LEMMA JoinedAppend ==
  ASSUME NEW S, NEW s \in Seq(S), NEW d \in S
  PROVE  Joined(Append(s, d)) = Joined(s) \o d
  <1> DEFINE t == Append(s, d)
             n == Len(s)
  <1>1. /\ n \in Nat /\ t \in Seq(S) /\ Len(t) = n + 1 /\ t[n + 1] = d
        /\ \A k \in 1 .. n : s[k] = t[k]
    OBVIOUS
  <1> HIDE DEF t, n
  <1>2. PICK g : Joins(g, s, n)
    BY <1>1, JoinsExists
  <1>3. PICK h : Joins(h, t, n + 1)
    <2>1. n + 1 \in Nat
      BY <1>1
    <2> QED
      BY <2>1, JoinsExists
  <1>4. g[n] = h[n]
    BY <1>1, <1>2, <1>3, JoinsAgree
  <1>5. h[n + 1] = h[n] \o t[n + 1]
    <2>1. n + 1 \in Nat /\ n < n + 1
      BY <1>1
    <2>2. \A k \in Nat : k < n + 1 => h[k + 1] = h[k] \o t[k + 1]
      BY <1>3, <2>1, JoinsAt DEF Unrolls
    <2> QED
      BY <1>1, <2>1, <2>2
  <1>6. Joined(s) = g[n]
    BY <1>2, JoinedIs DEF n
  <1>7. Joined(t) = h[n + 1]
    BY <1>1, <1>3, JoinedIs
  <1> QED
    BY <1>1, <1>4, <1>5, <1>6, <1>7 DEF t

\* Joining sequences over U yields one, piece after piece.
LEMMA JoinedType ==
  ASSUME NEW U, NEW s \in Seq(Seq(U))
  PROVE  Joined(s) \in Seq(U)
  <1> DEFINE T == {n \in Nat : \A t \in Seq(Seq(U)) : Len(t) = n => Joined(t) \in Seq(U)}
  <1>1. 0 \in T
    <2>1. \A t \in Seq(Seq(U)) : Len(t) = 0 => t = <<>>
      OBVIOUS
    <2>2. <<>> \in Seq(U)
      OBVIOUS
    <2> QED
      BY <2>1, <2>2, JoinedEmpty
  <1>2. ASSUME NEW n \in Nat, n \in T
        PROVE  n + 1 \in T
    <2> SUFFICES ASSUME NEW t \in Seq(Seq(U)), Len(t) = n + 1
                 PROVE  Joined(t) \in Seq(U)
      OBVIOUS
    <2>1. t # <<>>
      OBVIOUS
    <2>2. PICK q \in Seq(Seq(U)), d \in Seq(U) : t = Append(q, d)
      BY <2>1, SequenceEmptyOrAppend
    <2>3. Len(q) = n
      BY <2>2
    <2>4. Joined(q) \in Seq(U)
      BY <1>2, <2>3
    <2>5. Joined(q) \o d \in Seq(U)
      BY <2>4
    <2> QED
      BY <2>2, <2>5, JoinedAppend
  <1> HIDE DEF T
  <1>3. \A n \in Nat : n \in T
    BY <1>1, <1>2, NumbersInduction
  <1>4. Len(s) \in T
    BY <1>3
  <1> QED
    BY <1>4 DEF T

Associates(p, m, d) == (p \o m) \o d = p \o (m \o d)

\* Stated as a predicate, which the provers find in a goal.
LEMMA JoinedThree ==
  ASSUME NEW U, NEW p \in Seq(U), NEW m \in Seq(U), NEW d \in Seq(U)
  PROVE  Associates(p, m, d)
  <1> DEFINE l == (p \o m) \o d
             r == p \o (m \o d)
  <1>1. /\ p \o m \in Seq(U) /\ m \o d \in Seq(U)
        /\ Len(p \o m) = Len(p) + Len(m) /\ Len(m \o d) = Len(m) + Len(d)
    OBVIOUS
  <1>2. /\ l \in Seq(U) /\ r \in Seq(U)
        /\ Len(l) = Len(p) + Len(m) + Len(d) /\ Len(r) = Len(p) + Len(m) + Len(d)
    BY <1>1
  <1>3. ASSUME NEW i \in 1 .. Len(l)
        PROVE  l[i] = r[i]
    <2>1. CASE i <= Len(p)
      BY <1>1, <1>2, <2>1
    <2>2. CASE i > Len(p) /\ i <= Len(p) + Len(m)
      BY <1>1, <1>2, <2>2
    <2>3. CASE i > Len(p) + Len(m)
      BY <1>1, <1>2, <2>3
    <2> QED
      BY <1>2, <2>1, <2>2, <2>3
  <1> HIDE DEF l, r
  <1>4. l = r
    BY <1>2, <1>3, SeqEqual
  <1> QED
    BY <1>4 DEF l, r, Associates

\* Joining what two lists have is joining the one and then the other.
LEMMA JoinedConcat ==
  ASSUME NEW U, NEW s \in Seq(Seq(U)), NEW t \in Seq(Seq(U))
  PROVE  Joined(s \o t) = Joined(s) \o Joined(t)
  <1> DEFINE T == {n \in Nat : \A q \in Seq(Seq(U)) :
                                 Len(q) = n => Joined(s \o q) = Joined(s) \o Joined(q)}
  <1>1. 0 \in T
    <2>1. \A q \in Seq(Seq(U)) : Len(q) = 0 => q = <<>> /\ s \o q = s
      OBVIOUS
    <2>2. Joined(s) \o <<>> = Joined(s)
      BY JoinedType
    <2> QED
      BY <2>1, <2>2, JoinedEmpty
  <1>2. ASSUME NEW n \in Nat, n \in T
        PROVE  n + 1 \in T
    <2> SUFFICES ASSUME NEW q \in Seq(Seq(U)), Len(q) = n + 1
                 PROVE  Joined(s \o q) = Joined(s) \o Joined(q)
      OBVIOUS
    <2>1. q # <<>>
      OBVIOUS
    <2>2. PICK u \in Seq(Seq(U)), d \in Seq(U) : q = Append(u, d)
      BY <2>1, SequenceEmptyOrAppend
    <2>3. Len(u) = n
      BY <2>2
    <2>4. Joined(s \o u) = Joined(s) \o Joined(u)
      BY <1>2, <2>3
    <2>5. s \o q = Append(s \o u, d) /\ s \o u \in Seq(Seq(U))
      BY <2>2
    <2>6. Joined(s \o q) = Joined(s \o u) \o d
      BY <2>5, JoinedAppend
    <2>7. Joined(q) = Joined(u) \o d
      BY <2>2, JoinedAppend
    <2>8. (Joined(s) \o Joined(u)) \o d = Joined(s) \o (Joined(u) \o d)
      <3>1. Joined(s) \in Seq(U) /\ Joined(u) \in Seq(U)
        BY JoinedType
      <3>2. Associates(Joined(s), Joined(u), d)
        BY <3>1, JoinedThree
      <3> QED
        BY <3>2 DEF Associates
    <2> QED
      BY <2>4, <2>6, <2>7, <2>8
  <1> HIDE DEF T
  <1>3. \A n \in Nat : n \in T
    BY <1>1, <1>2, NumbersInduction
  <1>4. Len(t) \in T
    BY <1>3
  <1> QED
    BY <1>4 DEF T

\* A single sequence is what its list joins to.
LEMMA JoinedOne ==
  ASSUME NEW U, NEW d \in Seq(U)
  PROVE  Joined(<<d>>) = d
  <1>1. <<d>> = Append(<<>>, d) /\ <<>> \in Seq(Seq(U)) /\ <<>> \o d = d
    OBVIOUS
  <1> QED
    BY <1>1, JoinedEmpty, JoinedAppend

\* The first sequence comes first.
LEMMA JoinedHeadTail ==
  ASSUME NEW U, NEW s \in Seq(Seq(U)), s # <<>>
  PROVE  Joined(s) = Head(s) \o Joined(Tail(s))
  <1>1. s = <<Head(s)>> \o Tail(s) /\ Head(s) \in Seq(U) /\ Tail(s) \in Seq(Seq(U))
    OBVIOUS
  <1>2. <<Head(s)>> \in Seq(Seq(U))
    BY <1>1
  <1>3. Joined(<<Head(s)>> \o Tail(s)) = Joined(<<Head(s)>>) \o Joined(Tail(s))
    BY <1>1, <1>2, JoinedConcat
  <1>4. Joined(<<Head(s)>>) = Head(s)
    BY <1>1, JoinedOne
  <1> QED
    BY <1>1, <1>3, <1>4

-----------------------------------------------------------------------------
(* Prefixes *)

Prefix(p, d) == Len(p) <= Len(d) /\ p = SubSeq(d, 1, Len(p))

\* What a sequence begins with, and what is made longer by it.
LEMMA PrefixOfConcat ==
  ASSUME NEW U, NEW p \in Seq(U), NEW q \in Seq(U)
  PROVE  Prefix(p, p \o q)
  BY DEF Prefix

\* A sequence cut in two.
LEMMA Halves ==
  ASSUME NEW S, NEW s \in Seq(S), NEW n \in 0 .. Len(s)
  PROVE  /\ SubSeq(s, 1, n) \in Seq(S)
         /\ SubSeq(s, n + 1, Len(s)) \in Seq(S)
         /\ s = SubSeq(s, 1, n) \o SubSeq(s, n + 1, Len(s))
  <1>1. SubSeq(s, 1, n) \in Seq(S) /\ SubSeq(s, n + 1, Len(s)) \in Seq(S)
    OBVIOUS
  <1>2. Len(s) \in Nat /\ 1 \in 1 .. Len(s) + 1 /\ n \in 1 - 1 .. Len(s) /\ Len(s) \in n .. Len(s)
    OBVIOUS
  <1>3. SubSeq(s, 1, n) \o SubSeq(s, n + 1, Len(s)) = SubSeq(s, 1, Len(s))
    BY <1>2, ConcatAdjacentSubSeq
  <1>4. SubSeq(s, 1, Len(s)) = s
    BY SubSeqFull
  <1> QED
    BY <1>1, <1>3, <1>4

\* A beginning of a beginning is one.
LEMMA PrefixTransitive ==
  ASSUME NEW U, NEW p \in Seq(U), NEW q \in Seq(U), NEW d \in Seq(U), Prefix(p, q), Prefix(q, d)
  PROVE  Prefix(p, d)
  BY DEF Prefix

\* What a list begins with joins to a beginning of what all of it joins to.
LEMMA PrefixJoins ==
  ASSUME NEW U, NEW s \in Seq(Seq(U)), NEW n \in 0 .. Len(s)
  PROVE  Prefix(Joined(SubSeq(s, 1, n)), Joined(s))
  <1> DEFINE p == SubSeq(s, 1, n)
             q == SubSeq(s, n + 1, Len(s))
  <1>1. p \in Seq(Seq(U)) /\ q \in Seq(Seq(U)) /\ s = p \o q
    BY Halves
  <1> HIDE DEF q
  <1>2. Joined(s) = Joined(p) \o Joined(q)
    BY <1>1, JoinedConcat
  <1> QED
    BY <1>1, <1>2, JoinedType, PrefixOfConcat

\* Equally long prefixes are equal.
LEMMA PrefixWhole ==
  ASSUME NEW U, NEW p \in Seq(U), NEW d \in Seq(U), Prefix(p, d), Len(p) = Len(d)
  PROVE  p = d
  BY DEF Prefix

=============================================================================
