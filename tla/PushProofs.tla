----------------------------- MODULE PushProofs -----------------------------
(***************************************************************************)
(* Theorems about Push, for every set of objects, files, environments,     *)
(* addresses and faults.                                                   *)
(*                                                                         *)
(* PushInv says what a request knows: while no file changes it has merged  *)
(* what is in the files (Calm), and the answer of a verify names objects   *)
(* that are on a server of its own configuration (Found).  A push ends ok  *)
(* only when the last request for each object is such a verify (Ended);    *)
(* servers lose nothing, so the two together give the first theorems.      *)
(*                                                                         *)
(* Typing adds what a request can have in hand.  With it, and with lemmas  *)
(* that unroll the fold over the lines of a file, the merge is the         *)
(* documented one: every field has the first usable value.                 *)
(***************************************************************************)
EXTENDS Push, Joins, TLAPS

(***************************************************************************)
(* Merging a file line by line.                                            *)
(***************************************************************************)
\* The fold takes the lines of a set from the last to the first: it is the result
\* for every set of the first n lines.
Folding(it, f, s, n) ==
  it = [S \in SUBSET (1 .. n) |-> IF S = {} THEN f ELSE merge_line(it[S \ {Max(S)}], s[Max(S)])]

Folded(f, s) == FoldLeft(merge_line, f, s)

\* FoldLeft, unfolded.
LEMMA FoldIs ==
  ASSUME NEW f, NEW s, DOMAIN s = 1 .. Len(s)
  PROVE  Folded(f, s) = (CHOOSE it : Folding(it, f, s, Len(s)))[1 .. Len(s)]
BY DEF Folded, FoldLeft, MapThenFoldSet, Folding

\* The last line of a set of lines.
LEMMA MaxOfFirst ==
  ASSUME NEW n \in Nat, NEW S, S \subseteq 1 .. n + 1, n + 1 \in S
  PROVE  Max(S) = n + 1
<1>1. \A y \in S : n + 1 >= y
  OBVIOUS
<1>2. Max(S) \in S /\ \A y \in S : Max(S) >= y
  BY <1>1 DEF Max
<1>3. PICK x : x = Max(S)
  OBVIOUS
<1>4. x \in S /\ x >= n + 1
  BY <1>2, <1>3
<1>5. x \in Nat /\ x >= n + 1 /\ n + 1 >= x
  BY <1>1, <1>4
<1>6. x = n + 1
  BY <1>5
<1> QED
  BY <1>3, <1>6

\* The fold exists for any number of lines.
LEMMA FoldingExists ==
  ASSUME NEW f, NEW s, NEW n \in Nat
  PROVE  \E it : Folding(it, f, s, n)
<1> DEFINE T == {m \in Nat : \E it : Folding(it, f, s, m)}
<1>1. 0 \in T
  <2>1. \A S \in SUBSET (1 .. 0) : S = {}
    OBVIOUS
  <2>2. Folding([S \in SUBSET (1 .. 0) |-> f], f, s, 0)
    BY <2>1 DEF Folding
  <2> QED
    BY <2>2
<1>2. ASSUME NEW m \in Nat, m \in T
      PROVE  m + 1 \in T
  <2>1. PICK it : Folding(it, f, s, m)
    BY <1>2
  <2> DEFINE V(g, S) == IF S = {} THEN f ELSE merge_line(g[S \ {Max(S)}], s[Max(S)])
             W(S) == IF m + 1 \in S THEN merge_line(it[S \ {m + 1}], s[m + 1]) ELSE it[S]
             g == [S \in SUBSET (1 .. m + 1) |-> W(S)]
  <2>2. \A S \in SUBSET (1 .. m) : it[S] = V(it, S)
    BY <2>1 DEF Folding
  <2> HIDE DEF V, W
  <2>3. \A S \in SUBSET (1 .. m + 1) : g[S] = W(S)
    OBVIOUS
  <2>4. g = [S \in SUBSET (1 .. m + 1) |-> g[S]]
    OBVIOUS
  <2> HIDE DEF g
  <2>5. \A S \in SUBSET (1 .. m) : g[S] = it[S]
    <3>1. \A S \in SUBSET (1 .. m) : S \in SUBSET (1 .. m + 1) /\ m + 1 \notin S
      OBVIOUS
    <3> QED
      BY <2>3, <3>1 DEF W
  <2>6. ASSUME NEW S \in SUBSET (1 .. m + 1)
        PROVE  g[S] = V(g, S)
    <3>1. CASE m + 1 \in S
      <4>1. Max(S) = m + 1
        BY <3>1, MaxOfFirst
      <4>2. S \ {m + 1} \in SUBSET (1 .. m)
        OBVIOUS
      <4> QED
        BY <2>3, <2>5, <3>1, <4>1, <4>2 DEF V, W
    <3>2. CASE m + 1 \notin S
      <4>1. S \in SUBSET (1 .. m) /\ \A x : S \ {x} \in SUBSET (1 .. m)
        <5>1. \A x \in S : x \in 1 .. m
          BY <3>2
        <5> QED
          BY <5>1
      <4> QED
        BY <2>2, <2>5, <4>1 DEF V
    <3> QED
      BY <3>1, <3>2
  <2>7. Folding(g, f, s, m + 1)
    <3>1. g = [S \in SUBSET (1 .. m + 1) |-> V(g, S)]
      BY <2>4, <2>6
    <3> QED
      BY <3>1 DEF Folding, V
  <2> QED
    BY <2>7
<1> HIDE DEF T
<1>3. n \in T
  BY <1>1, <1>2, NumbersInduction
<1> QED
  BY <1>3 DEF T

\* It is the merge of the first line, then the second, and so on.
Merges(g, f, s, n) ==
  /\ g[0] = f /\ g[n] = Folded(f, s)
  /\ \A m \in 0 .. n - 1 : g[m + 1] = merge_line(g[m], s[m + 1])

\* It merges line after line.
LEMMA FoldSteps ==
  ASSUME NEW f, NEW s, NEW n \in Nat, DOMAIN s = 1 .. n, Len(s) = n
  PROVE  \E g : Merges(g, f, s, n)
<1> DEFINE it == CHOOSE t : Folding(t, f, s, n)
           g == [m \in 0 .. n |-> it[1 .. m]]
           V(S) == IF S = {} THEN f ELSE merge_line(it[S \ {Max(S)}], s[Max(S)])
<1>1. Folding(it, f, s, n)
  BY FoldingExists
<1>2. Folded(f, s) = it[1 .. n]
  BY FoldIs
<1> HIDE DEF it
<1>3. \A S \in SUBSET (1 .. n) : it[S] = V(S)
  BY <1>1 DEF Folding
<1>4. \A m \in 0 .. n : g[m] = it[1 .. m]
  OBVIOUS
<1> HIDE DEF g
<1>5. g[0] = f
  <2>1. 1 .. 0 = {} /\ 1 .. 0 \in SUBSET (1 .. n)
    OBVIOUS
  <2>2. it[{}] = V({})
    BY <1>3, <2>1
  <2>3. g[0] = it[1 .. 0]
    BY <1>4
  <2> QED
    BY <2>1, <2>2, <2>3
<1>6. ASSUME NEW m \in 0 .. n - 1
      PROVE  g[m + 1] = merge_line(g[m], s[m + 1])
  <2>1. /\ m \in Nat /\ m \in 0 .. n /\ m + 1 \in 0 .. n /\ 1 .. m + 1 \in SUBSET (1 .. n)
        /\ m + 1 \in 1 .. m + 1 /\ (1 .. m + 1) \ {m + 1} = 1 .. m
    OBVIOUS
  <2>2. Max(1 .. m + 1) = m + 1
    BY <2>1, MaxOfFirst
  <2>3. it[1 .. m + 1] = V(1 .. m + 1) /\ 1 .. m + 1 # {}
    BY <1>3, <2>1
  <2>4. V(1 .. m + 1) = merge_line(it[1 .. m], s[m + 1])
    BY <2>1, <2>2, <2>3
  <2> QED
    BY <1>4, <2>1, <2>3, <2>4
<1>7. g[n] = Folded(f, s)
  BY <1>2, <1>4
<1>8. Merges(g, f, s, n)
  BY <1>5, <1>6, <1>7 DEF Merges
<1> QED
  BY <1>8

Line == [key : FieldNames, value : Values]

\* Line i sets field k.
Hit(s, i, k) == s[i].key = k /\ Usable(k, s[i].value)

\* v is what merging the first n lines makes of a field k that was u: the first
\* usable value, if the field was empty.
Fills(u, v, s, n, k) ==
  \/ u # None /\ v = u
  \/ u = None /\ v = None /\ \A i \in 1 .. n : ~Hit(s, i, k)
  \/ u = None /\ v # None /\ \E i \in 1 .. n : /\ Hit(s, i, k) /\ v = s[i].value
                                               /\ \A j \in 1 .. i - 1 : ~Hit(s, j, k)

\* One more line fills a field that is empty, with a usable value.
LEMMA MergeLineFills ==
  ASSUME NEW f, NEW h, NEW s, NEW n \in Nat, NEW k \in FieldNames, s[n + 1] \in Line,
         h = [j \in FieldNames |-> h[j]], Fills(f, h[k], s, n, k)
  PROVE  Fills(f, merge_line(h, s[n + 1])[k], s, n + 1, k)
<1> DEFINE l == s[n + 1]
           r == merge_line(h, l)
<1>1. l.key \in FieldNames /\ l.value # None
  BY PushAssumption DEF Line
<1>2. n + 1 \in 1 .. n + 1 /\ (n + 1) - 1 = n /\ \A i \in 1 .. n : i \in 1 .. n + 1
  OBVIOUS
<1>3. \A i \in 1 .. n + 1 : i \in 1 .. n \/ i = n + 1
  OBVIOUS
<1>4. Hit(s, n + 1, k) <=> l.key = k /\ Usable(k, l.value)
  BY DEF Hit
<1> HIDE DEF l
<1>5. CASE h[k] = None /\ l.key = k /\ Usable(k, l.value)
  <2>1. r[k] = l.value
    BY <1>1, <1>5 DEF merge_line
  <2>2. f = None /\ \A i \in 1 .. n : ~Hit(s, i, k)
    BY <1>5 DEF Fills
  <2> HIDE DEF r
  <2>3. Hit(s, n + 1, k) /\ r[k] = s[n + 1].value /\ \A j \in 1 .. (n + 1) - 1 : ~Hit(s, j, k)
    BY <1>2, <1>4, <1>5, <2>1, <2>2 DEF l
  <2> QED
    BY <1>1, <1>2, <2>1, <2>2, <2>3, Zenon DEF Fills, r, l
<1>6. CASE ~(h[k] = None /\ l.key = k /\ Usable(k, l.value))
  <2>1. r[k] = h[k]
    BY <1>1, <1>6 DEF merge_line
  <2> HIDE DEF r
  <2>2. h[k] # None \/ ~Hit(s, n + 1, k)
    BY <1>4, <1>6
  <2>3. CASE f # None
    BY <2>1, <2>3 DEF Fills, r, l
  <2>4. CASE f = None /\ h[k] = None
    <3>1. \A i \in 1 .. n + 1 : ~Hit(s, i, k)
      BY <1>3, <2>2, <2>4 DEF Fills
    <3> QED
      BY <2>1, <2>4, <3>1 DEF Fills, r, l
  <2>5. CASE f = None /\ h[k] # None
    <3>1. PICK i \in 1 .. n : Hit(s, i, k) /\ h[k] = s[i].value /\ \A j \in 1 .. i - 1 : ~Hit(s, j, k)
      BY <2>5 DEF Fills
    <3>2. i \in 1 .. n + 1
      BY <1>2
    <3> QED
      BY <2>1, <2>5, <3>1, <3>2 DEF Fills, r, l
  <2> QED
    BY <2>3, <2>4, <2>5
<1> QED
  BY <1>5, <1>6

\* Merging a file fills the empty fields, each with its first usable value.
LEMMA MergeFills ==
  ASSUME NEW f, f = [k \in FieldNames |-> f[k]], NEW s \in Seq(Line), NEW r, r = Folded(f, s)
  PROVE  /\ r = [k \in FieldNames |-> r[k]]
         /\ \A k \in FieldNames : Fills(f[k], r[k], s, Len(s), k)
<1> DEFINE n == Len(s)
<1>1. n \in Nat /\ DOMAIN s = 1 .. n /\ \A i \in 1 .. n : s[i] \in Line
  OBVIOUS
<1>2. PICK g : Merges(g, f, s, n)
  BY <1>1, FoldSteps
<1> HIDE DEF n
<1> DEFINE Good(m) == /\ g[m] = [k \in FieldNames |-> g[m][k]]
                      /\ \A k \in FieldNames : Fills(f[k], g[m][k], s, m, k)
           T == {m \in Nat : m <= n => Good(m)}
<1>3. 0 \in T
  BY <1>2 DEF Merges, Fills
<1>4. ASSUME NEW m \in Nat, m \in T
      PROVE  m + 1 \in T
  <2> SUFFICES ASSUME m + 1 <= n
               PROVE  Good(m + 1)
    OBVIOUS
  <2>1. Good(m)
    BY <1>1, <1>4
  <2>2. m \in 0 .. n - 1 /\ m + 1 \in 1 .. n
    BY <1>1
  <2>3. g[m + 1] = merge_line(g[m], s[m + 1]) /\ s[m + 1] \in Line
    BY <1>1, <1>2, <2>2 DEF Merges
  <2>4. g[m + 1] = [k \in FieldNames |-> g[m + 1][k]]
    BY <2>1, <2>3 DEF merge_line
  <2>5. ASSUME NEW k \in FieldNames
        PROVE  Fills(f[k], g[m + 1][k], s, m + 1, k)
    <3>1. g[m] = [j \in FieldNames |-> g[m][j]] /\ Fills(f[k], g[m][k], s, m, k)
      BY <2>1
    <3>2. Fills(f[k], merge_line(g[m], s[m + 1])[k], s, m + 1, k)
      BY ONLY m \in Nat, <2>3, <3>1, MergeLineFills, k \in FieldNames
    <3> QED
      BY <2>3, <3>2
  <2> QED
    BY <2>4, <2>5
<1> HIDE DEF T
<1>5. n \in T
  BY <1>1, <1>3, <1>4, NumbersInduction
<1>6. Good(n)
  BY <1>1, <1>5 DEF T
<1> QED
  BY <1>2, <1>6 DEF Merges, n

\* The record of a request, field by field.
Record(q) == [op |-> q.op, at |-> q.at, config |-> q.config, tries |-> q.tries, calm |-> q.calm]

Formed == req = [r \in Requests |-> req[r]] /\ \A r \in Requests : req[r] = Record(req[r])

Held == stored \in [Stores -> SUBSET Requests]

Merging(r) == req[r].at = "git" =>
  dalconfig # Unreadable /\ req[r].config = merge_from_content(NoFields, dalconfig)

Merged(r) == req[r].at = "serve" \/ Transferred(r) => req[r].config = Now /\ Now # Refused

Calm == \A r \in Requests : req[r].calm => Merging(r) /\ Merged(r)

FoundIn(r) ==
  /\ load_read_transport(req[r].config) # Refused
  /\ \E s \in Servers(load_read_transport(req[r].config)) : r \in stored[s]

Found == \A r \in Requests : Transferred(r) => FoundIn(r)

Ended == push = "ok" => \A o \in Objects : Transferred(o)

PushInv == Formed /\ Held /\ Calm /\ Found /\ Ended

(***************************************************************************)
(* Setting two fields of one request.                                      *)
(***************************************************************************)
LEMMA SetRequest ==
  ASSUME Formed, NEW r \in Requests, NEW a, NEW c, Set(r, a, c)
  PROVE  /\ Formed'
         /\ \A q \in Requests \ {r} : req'[q] = req[q]
         /\ req'[r].op = req[r].op /\ req'[r].at = a /\ req'[r].config = c
         /\ req'[r].tries = req[r].tries /\ req'[r].calm = req[r].calm
<1> DEFINE new == [op |-> req[r].op, at |-> a, config |-> c, tries |-> req[r].tries, calm |-> req[r].calm]
<1>3. req' = [q \in Requests |-> IF q = r THEN new ELSE req[q]]
  BY DEF Set, Formed
<1>4. /\ new = Record(new) /\ new.op = req[r].op /\ new.at = a /\ new.config = c
      /\ new.tries = req[r].tries /\ new.calm = req[r].calm
  BY DEF Record
<1> HIDE DEF new
<1>5. req'[r] = new /\ \A q \in Requests \ {r} : req'[q] = req[q]
  BY <1>3
<1>6. Formed'
  BY <1>3, <1>4, <1>5 DEF Formed
<1> QED
  BY <1>4, <1>5, <1>6

\* A new request in the place of an old one.
LEMMA NewRequest ==
  ASSUME Formed, NEW r \in Requests, NEW op, NEW n,
         req' = [req EXCEPT ![r] = Request(op, n)]
  PROVE  /\ Formed'
         /\ \A q \in Requests \ {r} : req'[q] = req[q]
         /\ req'[r].at = "dal"
<1>1. req' = [q \in Requests |-> IF q = r THEN Request(op, n) ELSE req[q]]
  BY DEF Formed
<1>2. Request(op, n) = Record(Request(op, n)) /\ Request(op, n).at = "dal"
  BY DEF Request, Record
<1>3. req'[r] = Request(op, n) /\ \A q \in Requests \ {r} : req'[q] = req[q]
  BY <1>1
<1> QED
  BY <1>1, <1>2, <1>3 DEF Formed

Grows == stored' \in [Stores -> SUBSET Requests] /\ \A s \in Stores : stored[s] \subseteq stored'[s]

\* Addresses lead to servers.
LEMMA ServersAreStores == \A t : Servers(t) \subseteq Stores
BY DEF Servers, Stores

\* A server that takes an object, and servers that stay as they are.
LEMMA StoreGrows ==
  ASSUME Held, NEW r \in Requests,
         stored' = stored \/ \E s \in Stores : stored' = [stored EXCEPT ![s] = @ \cup {r}]
  PROVE  Grows
BY DEF Held, Grows

(***************************************************************************)
(* Every step of the daemon sets one request that was not answered yet;    *)
(* it has to be shown only what that request may claim after the step.     *)
(***************************************************************************)
LEMMA DaemonStep ==
  ASSUME PushInv, NEW r \in Requests, req[r].at # "ok", NEW a, NEW c, Set(r, a, c),
         UNCHANGED <<files, push>>, Grows,
         a = "git" /\ req[r].calm =>
           dalconfig # Unreadable /\ c = merge_from_content(NoFields, dalconfig),
         a = "serve" /\ req[r].calm => c = Now /\ Now # Refused,
         a = "ok" /\ req[r].op = "verify" =>
           /\ req[r].calm => c = Now /\ Now # Refused
           /\ load_read_transport(c) # Refused
           /\ \E s \in Servers(load_read_transport(c)) : r \in stored'[s]
  PROVE  PushInv'
<1>1. /\ Formed'
      /\ \A q \in Requests \ {r} : req'[q] = req[q]
      /\ req'[r].op = req[r].op /\ req'[r].at = a /\ req'[r].config = c
      /\ req'[r].calm = req[r].calm
  BY SetRequest DEF PushInv
<1>2. Now' = Now /\ dalconfig' = dalconfig /\ push' = push
  BY DEF files, Now
<1>3. Calm'
  <2> SUFFICES ASSUME NEW q \in Requests, req'[q].calm PROVE Merging(q)' /\ Merged(q)'
    BY DEF Calm
  <2>1. CASE q = r
    BY <1>1, <1>2, <2>1 DEF Merging, Merged, Transferred
  <2>2. CASE q # r
    BY <1>1, <1>2, <2>2 DEF PushInv, Calm, Merging, Merged, Transferred
  <2> QED
    BY <2>1, <2>2
<1>4. Found'
  <2> SUFFICES ASSUME NEW q \in Requests, Transferred(q)' PROVE FoundIn(q)'
    BY DEF Found
  <2>1. CASE q = r
    BY <1>1, <2>1 DEF Transferred, FoundIn
  <2>2. CASE q # r
    <3>1. FoundIn(q) /\ req'[q] = req[q]
      BY <1>1, <2>2 DEF PushInv, Found, Transferred
    <3> QED
      BY <3>1, ServersAreStores DEF FoundIn, Grows
  <2> QED
    BY <2>1, <2>2
<1>5. Ended'
  BY <1>1, <1>2 DEF PushInv, Ended, Transferred, Requests
<1> QED
  BY <1>1, <1>3, <1>4, <1>5 DEF PushInv, Held, Grows

\* Before the push.
LEMMA InitInv == Init => PushInv
<1> SUFFICES ASSUME Init PROVE PushInv
  OBVIOUS
<1>1. Idle = Record(Idle) /\ Idle.op = "none" /\ Idle.at = "ok"
  BY DEF Idle, Record
<1>2. \A r \in Requests : req[r] = Idle
  BY DEF Init
<1>3. Formed
  BY <1>1, <1>2 DEF Init, Formed
<1>4. Held
  BY DEF Init, Held, Requests
<1>5. Calm /\ Found /\ Ended
  BY <1>1, <1>2 DEF Init, Calm, Merging, Merged, Found, Ended, Transferred
<1> QED
  BY <1>3, <1>4, <1>5 DEF PushInv

\* Steps of the handlers.
LEMMA DaemonInv ==
  ASSUME PushInv, NEW r \in Requests, Daemon(r)
  PROVE  PushInv'
<1> USE DEF PushInv
<1>1. CASE ReadDal(r)
  <2>1. Grows
    BY <1>1 DEF ReadDal, Held, Grows
  <2>2. CASE dalconfig = Unreadable
    BY <1>1, <2>1, <2>2, DaemonStep DEF ReadDal
  <2>3. CASE dalconfig # Unreadable
    BY <1>1, <2>1, <2>3, DaemonStep DEF ReadDal
  <2> QED
    BY <2>2, <2>3
<1>2. CASE ReadGit(r)
  <2> DEFINE c == IF gitconfig = Unreadable
                    THEN Refused
                    ELSE into_config(merge_from_env(merge_from_content(req[r].config, gitconfig), env))
  <2>1. Grows
    BY <1>2 DEF ReadGit, Held, Grows
  <2>2. Set(r, IF c = Refused THEN "failed" ELSE "serve", c)
    BY <1>2 DEF ReadGit
  <2>3. c # Refused /\ req[r].calm => c = Now /\ Now # Refused
    BY <1>2 DEF ReadGit, Calm, Merging, Now, from_repo_path
  <2>4. req[r].at = "git" /\ UNCHANGED <<files, push>>
    BY <1>2 DEF ReadGit
  <2> HIDE DEF c
  <2>5. CASE c = Refused
    BY <2>1, <2>2, <2>4, <2>5, DaemonStep
  <2>6. CASE c # Refused
    BY <2>1, <2>2, <2>3, <2>4, <2>6, DaemonStep
  <2> QED
    BY <2>5, <2>6
<1>3. CASE handle_batch(r)
  <2>1. Grows
    BY <1>3 DEF handle_batch, Held, Grows
  <2> QED
    BY <1>3, <2>1, DaemonStep DEF handle_batch, Answer
<1>4. CASE Refuse(r)
  <2>1. Grows
    BY <1>4 DEF Refuse, Held, Grows
  <2> QED
    BY <1>4, <2>1, DaemonStep DEF Refuse, Answer
<1>5. CASE Put(r)
  <2>1. Grows
    BY <1>5, ServersAreStores, StoreGrows DEF Put
  <2> QED
    BY <1>5, <2>1, DaemonStep DEF Put, Answer, Serves
<1>6. CASE PutFails(r)
  <2>1. Grows
    BY <1>6, ServersAreStores, StoreGrows DEF PutFails
  <2> QED
    BY <1>6, <2>1, DaemonStep DEF PutFails, Answer, Serves
<1>7. CASE PutRaces(r)
  <2>1. Grows
    BY <1>7 DEF PutRaces, Held, Grows
  <2> QED
    BY <1>7, <2>1, DaemonStep DEF PutRaces, Answer, Serves
<1>8. CASE handle_verify(r)
  <2>1. Grows
    BY <1>8 DEF handle_verify, Held, Grows
  <2>2. req[r].calm => req[r].config = Now /\ Now # Refused
    BY <1>8 DEF handle_verify, Serves, Calm, Merged
  <2> QED
    BY <1>8, <2>1, <2>2, DaemonStep DEF handle_verify, Answer, Serves
<1>9. CASE VerifyFails(r)
  <2>1. Grows
    BY <1>9 DEF VerifyFails, Held, Grows
  <2> QED
    BY <1>9, <2>1, DaemonStep DEF VerifyFails, Answer, Serves
<1> QED
  BY <1>1, <1>2, <1>3, <1>4, <1>5, <1>6, <1>7, <1>8, <1>9 DEF Daemon

\* A new request claims nothing yet; the others keep what they have.
LEMMA Asking ==
  ASSUME PushInv, push # "ok", push' # "ok", UNCHANGED <<files, stored>>, Formed',
         \A r \in Requests : req'[r] = req[r] \/ req'[r].at = "dal"
  PROVE  PushInv'
<1>1. Now' = Now /\ dalconfig' = dalconfig
  BY DEF files, Now
<1>2. Calm'
  BY <1>1 DEF PushInv, Calm, Merging, Merged, Transferred
<1>3. Found'
  BY DEF PushInv, Found, FoundIn, Transferred
<1> QED
  BY <1>2, <1>3 DEF PushInv, Held, Ended

\* Steps of git-lfs.
LEMMA GitLfsInv ==
  ASSUME PushInv, GitLfs
  PROVE  PushInv'
<1> USE DEF PushInv
<1>1. CASE StartPush
  <2>1. Batch \in Requests
    BY DEF Requests
  <2>2. Formed' /\ \A r \in Requests : req'[r] = req[r] \/ req'[r].at = "dal"
    BY <1>1, <2>1, NewRequest DEF StartPush
  <2> QED
    BY <1>1, <2>2, Asking DEF StartPush
<1>2. CASE BatchAnswered
  <2>1. CASE req[Batch].at = "ok"
    <3>1. req' = [r \in Requests |-> IF r \in Objects THEN Request("put", 1) ELSE req[r]]
      BY <1>2, <2>1 DEF BatchAnswered
    <3>2. Request("put", 1) = Record(Request("put", 1)) /\ Request("put", 1).at = "dal"
      BY DEF Request, Record
    <3>3. Formed' /\ \A r \in Requests : req'[r] = req[r] \/ req'[r].at = "dal"
      BY <3>1, <3>2 DEF Formed
    <3> QED
      BY <1>2, <2>1, <3>3, Asking DEF BatchAnswered
  <2>2. CASE req[Batch].at # "ok"
    BY <1>2, <2>2, Asking DEF BatchAnswered, Formed
  <2> QED
    BY <2>1, <2>2
<1>3. CASE EndPush
  <2>1. UNCHANGED <<files, stored, req>>
    BY <1>3 DEF EndPush
  <2>2. Ended'
    BY <1>3 DEF EndPush, Ended, Transferred
  <2>3. Calm' /\ Found'
    BY <2>1 DEF files, Calm, Merging, Merged, Transferred, Now, Found, FoundIn
  <2> QED
    BY <2>1, <2>2, <2>3 DEF Formed, Held
<1>4. ASSUME NEW o \in Objects, VerifyNext(o) \/ Retry(o) PROVE PushInv'
  <2>1. o \in Requests
    BY DEF Requests
  <2>2. PICK op, n : req' = [req EXCEPT ![o] = Request(op, n)]
    BY <1>4 DEF VerifyNext, Retry
  <2>3. Formed' /\ \A r \in Requests : req'[r] = req[r] \/ req'[r].at = "dal"
    BY <2>1, <2>2, NewRequest
  <2> QED
    BY <1>4, <2>3, Asking DEF VerifyNext, Retry
<1> QED
  BY <1>1, <1>2, <1>3, <1>4 DEF GitLfs

\* After an edit no request is calm; answers stay what they are.
LEMMA EditInv ==
  ASSUME PushInv, Edit
  PROVE  PushInv'
<1> USE DEF PushInv
<1>1. req' = [r \in Requests |->
                [op |-> req[r].op, at |-> req[r].at, config |-> req[r].config,
                 tries |-> req[r].tries, calm |-> FALSE]]
  BY DEF Edit
<1>2. \A r \in Requests :
        req'[r] = [op |-> req[r].op, at |-> req[r].at, config |-> req[r].config,
                   tries |-> req[r].tries, calm |-> FALSE]
  BY <1>1
<1>3. Formed' /\ Calm'
  BY <1>1, <1>2 DEF Formed, Record, Calm
<1>4. Found'
  BY <1>2 DEF Edit, Found, FoundIn, Transferred
<1>5. Ended'
  BY <1>2 DEF Edit, Ended, Transferred, Requests
<1> QED
  BY <1>3, <1>4, <1>5 DEF Edit, Held

\* PushInv is inductive.
LEMMA PushStep == PushInv /\ [Next]_vars => PushInv'
<1> SUFFICES ASSUME PushInv, [Next]_vars PROVE PushInv'
  OBVIOUS
<1>1. CASE UNCHANGED vars
  BY <1>1 DEF vars, files, PushInv, Formed, Held, Calm, Merging, Merged, Transferred, Now,
              Found, FoundIn, Ended
<1> QED
  BY <1>1, GitLfsInv, EditInv, DaemonInv DEF Next

\* And holds throughout.
LEMMA PushInductive == Spec => []PushInv
BY InitInv, PushStep, PTL DEF Spec

(***************************************************************************)
(* A push that reports success has its objects where a download started    *)
(* now would look, unless a file has changed since their verify            *)
(* (handle_verify, daemon.rs:708-731): whatever PUTs answered, whatever    *)
(* was lost, and whatever changed before.                                  *)
(***************************************************************************)
THEOREM PushedCanBePulled == Spec => []PushedMeansPullable
<1>1. PushInv => PushedMeansPullable
  BY DEF PushInv, PushedMeansPullable, Ended, Calm, Merged, Found, FoundIn, Requests
<1> QED
  BY <1>1, PushInductive, PTL

\* With a key, reading asks no other addresses than the server and the endpoint.
LEMMA ReadersAddresses ==
  ASSUME NEW config
  PROVE  \/ make_transport(config) = Refused
         \/ make_transport(config) \subseteq {config["server"], config["iroh-endpoint"]}
BY DEF make_transport, force, multi, http_only

\* A configuration is a function on the names of the fields.
LEMMA ConfigFields ==
  ASSUME NEW fields, NEW e, NEW c, c = into_config(merge_from_env(fields, e)), c # Refused
  PROVE  /\ c = [k \in FieldNames |-> c[k]]
         /\ c["server"] # None \/ is_iroh_only(c)
BY DEF into_config, merge_from_env, is_iroh_only, FieldNames

\* Whoever reads without a key asks the server, and so finds what was found
\* there, or behind an endpoint of it.
LEMMA KeylessAsksServer ==
  ASSUME NEW c, c = [k \in FieldNames |-> c[k]], c["server"] \in DOMAIN StoreOf
  PROVE  Servers(load_read_transport([c EXCEPT !["private-key"] = None])) = Servers({c["server"]})
<1> DEFINE d == [c EXCEPT !["private-key"] = None]
<1>1. d = [k \in FieldNames |-> IF k = "private-key" THEN None ELSE c[k]]
  OBVIOUS
<1>2. d["private-key"] = None /\ d["server"] = c["server"]
  BY <1>1 DEF FieldNames
<1> HIDE DEF d
<1>3. load_read_transport(d) = {c["server"]}
  BY <1>2, PushAssumption DEF load_read_transport, http_only
<1> QED
  BY <1>3 DEF d

(***************************************************************************)
(* And a clone without a key finds them too, when a server is named and    *)
(* the iroh endpoint, if any, belongs to it (load_read_transport,          *)
(* daemon.rs:163-180).                                                     *)
(***************************************************************************)
THEOREM PushedCanBePulledByAll == Spec => []PushedForEverybody
<1>1. PushInv => PushedForEverybody
  <2> SUFFICES ASSUME PushInv, push = "ok", NEW o \in Objects, req[o].calm,
                      Now["server"] \in DOMAIN StoreOf,
                      Servers({Now["iroh-endpoint"]}) \subseteq Servers({Now["server"]})
               PROVE  \E s \in Servers(load_read_transport([Now EXCEPT !["private-key"] = None])) :
                        o \in stored[s]
    BY DEF PushedForEverybody
  <2>1. req[o].config = Now /\ Now # Refused /\ FoundIn(o)
    BY DEF PushInv, Ended, Calm, Merged, Found, Requests
  <2>2. Now = [k \in FieldNames |-> Now[k]]
    BY <2>1, ConfigFields DEF Now, from_repo_path
  <2>3. PICK s \in Servers(load_read_transport(Now)) : o \in stored[s]
    BY <2>1 DEF FoundIn
  <2>4. load_read_transport(Now) \subseteq {Now["server"], Now["iroh-endpoint"]}
    BY <2>1, ReadersAddresses DEF FoundIn, load_read_transport, http_only
  <2>5. s \in Servers({Now["server"]}) \cup Servers({Now["iroh-endpoint"]})
    BY <2>3, <2>4 DEF Servers
  <2> QED
    BY <2>2, <2>3, <2>5, KeylessAsksServer
<1> QED
  BY <1>1, PushInductive, PTL

(***************************************************************************)
(* The documented rule, and the types of all variables.                    *)
(***************************************************************************)
\* Fields with a transport that is known.
IsFields(f) == f = [k \in FieldNames |-> f[k]] /\ f["transport"] \in {None, "http", "iroh"}

\* The transport is one that is known.
LEMMA FillsKnown ==
  ASSUME NEW u, NEW v, NEW s, NEW n, Fills(u, v, s, n, "transport"), u \in {None, "http", "iroh"}
  PROVE  v \in {None, "http", "iroh"}
BY DEF Fills, Hit, Usable

\* Nothing is merged yet.
LEMMA EmptyIsFields == IsFields(NoFields) /\ \A k \in FieldNames : NoFields[k] = None
BY DEF IsFields, NoFields, FieldNames

\* A file that can be read is a sequence of lines.
LEMMA LinesAreSeq ==
  ASSUME NEW content \in Contents, content # Unreadable
  PROVE  Lines(content) \in Seq(Line)
<1>1. CASE content = Absent
  BY <1>1 DEF Lines
<1>2. CASE content # Absent
  BY <1>2, PushAssumption DEF Lines, Line
<1> QED
  BY <1>1, <1>2

\* Merging a file, or none.
LEMMA MergeContent ==
  ASSUME NEW f, IsFields(f), NEW content \in Contents, content # Unreadable,
         NEW r, r = merge_from_content(f, content)
  PROVE  /\ IsFields(r)
         /\ \A k \in FieldNames : Fills(f[k], r[k], Lines(content), Len(Lines(content)), k)
<1>1. Lines(content) \in Seq(Line)
  BY LinesAreSeq
<1>2. f = [k \in FieldNames |-> f[k]] /\ f["transport"] \in {None, "http", "iroh"}
  BY DEF IsFields
<1>3. /\ r = [k \in FieldNames |-> r[k]]
      /\ \A k \in FieldNames : Fills(f[k], r[k], Lines(content), Len(Lines(content)), k)
  <2>1. CASE content = Absent
    <3>1. r = f /\ Lines(content) = <<>> /\ Len(<<>>) = 0
      BY <2>1 DEF merge_from_content, Lines
    <3> QED
      BY <1>2, <3>1 DEF Fills
  <2>2. CASE content # Absent
    <3>1. r = Folded(f, content) /\ Lines(content) = content
      BY <2>2 DEF merge_from_content, Lines, Folded
    <3> QED
      BY <1>1, <1>2, <3>1, MergeFills
  <2> QED
    BY <2>1, <2>2
<1>4. r["transport"] \in {None, "http", "iroh"}
  <2>1. "transport" \in FieldNames
    BY DEF FieldNames
  <2> QED
    BY <1>2, <1>3, <2>1, FillsKnown
<1> QED
  BY <1>3, <1>4 DEF IsFields

\* Filling from two files is filling from one after the other.
LEMMA TwoFiles ==
  ASSUME NEW s \in Seq(Line), NEW t \in Seq(Line), NEW u, NEW v, NEW k,
         Fills(None, u, s, Len(s), k), Fills(u, v, t, Len(t), k)
  PROVE  Fills(None, v, s \o t, Len(s \o t), k)
<1> DEFINE m == Len(s)
           n == Len(t)
           l == s \o t
<1>1. /\ m \in Nat /\ n \in Nat /\ Len(l) = m + n
      /\ \A i \in 1 .. m : l[i] = s[i]
      /\ \A i \in 1 .. n : l[m + i] = t[i]
  OBVIOUS
<1>2. Fills(None, u, s, m, k) /\ Fills(u, v, t, n, k)
  OBVIOUS
<1> HIDE DEF m, n, l
<1>3. /\ \A i \in 1 .. m : Hit(l, i, k) <=> Hit(s, i, k)
      /\ \A i \in 1 .. n : Hit(l, m + i, k) <=> Hit(t, i, k)
  BY <1>1 DEF Hit
<1>4. CASE u # None
  <2>1. v = u
    BY <1>2, <1>4 DEF Fills
  <2>2. PICK i \in 1 .. m : Hit(s, i, k) /\ u = s[i].value /\ \A j \in 1 .. i - 1 : ~Hit(s, j, k)
    BY <1>2, <1>4 DEF Fills
  <2>3. i \in 1 .. m + n /\ l[i] = s[i] /\ \A j \in 1 .. i - 1 : j \in 1 .. m
    BY <1>1
  <2>4. Hit(l, i, k) /\ v = l[i].value /\ \A j \in 1 .. i - 1 : ~Hit(l, j, k)
    BY <1>3, <2>1, <2>2, <2>3
  <2> QED
    BY <1>1, <1>4, <2>1, <2>3, <2>4, Zenon DEF Fills, l
<1>5. CASE u = None
  <2>1. \A i \in 1 .. m : ~Hit(l, i, k)
    BY <1>2, <1>3, <1>5 DEF Fills
  <2>2. \A j \in 1 .. m + n : j \in 1 .. m \/ (j - m \in 1 .. n /\ j = m + (j - m))
    BY <1>1
  <2>3. CASE v = None
    <3>1. \A i \in 1 .. n : ~Hit(t, i, k)
      BY <1>2, <1>5, <2>3 DEF Fills
    <3>2. ASSUME NEW j \in 1 .. m + n
          PROVE  ~Hit(l, j, k)
      BY <1>3, <2>1, <2>2, <3>1
    <3> QED
      BY <1>1, <2>3, <3>2, Zenon DEF Fills, l
  <2>4. CASE v # None
    <3>1. PICK i \in 1 .. n : Hit(t, i, k) /\ v = t[i].value /\ \A j \in 1 .. i - 1 : ~Hit(t, j, k)
      BY <1>2, <1>5, <2>4 DEF Fills
    <3>2. m + i \in 1 .. m + n /\ Hit(l, m + i, k) /\ v = l[m + i].value
      BY <1>1, <1>3, <3>1
    <3>3. ASSUME NEW j \in 1 .. (m + i) - 1
          PROVE  ~Hit(l, j, k)
      <4>1. j \in 1 .. m \/ (j - m \in 1 .. i - 1 /\ j - m \in 1 .. n /\ j = m + (j - m))
        BY <1>1
      <4> QED
        BY <1>3, <2>1, <3>1, <4>1
    <3> QED
      BY <1>1, <2>4, <3>2, <3>3, Zenon DEF Fills, l
  <2> QED
    BY <2>3, <2>4
<1> QED
  BY <1>4, <1>5

Hits(s, k) == {i \in DOMAIN s : s[i].key = k /\ Usable(k, s[i].value)}

\* What fills an empty field is the first usable value.
LEMMA FillsFirst ==
  ASSUME NEW s \in Seq(Line), NEW k, NEW v, Fills(None, v, s, Len(s), k)
  PROVE  /\ v = None => Hits(s, k) = {}
         /\ v # None => Hits(s, k) # {} /\ s[Min(Hits(s, k))].value = v
<1> DEFINE hits == Hits(s, k)
<1>1. DOMAIN s = 1 .. Len(s) /\ Len(s) \in Nat
  OBVIOUS
<1>2. hits = {i \in 1 .. Len(s) : Hit(s, i, k)}
  BY <1>1 DEF Hit, Hits
<1> HIDE DEF hits
<1>3. CASE v = None
  BY <1>2, <1>3 DEF Fills, hits
<1>4. CASE v # None
  <2>1. PICK i \in 1 .. Len(s) : Hit(s, i, k) /\ v = s[i].value /\ \A j \in 1 .. i - 1 : ~Hit(s, j, k)
    BY <1>4 DEF Fills
  <2>2. i \in hits
    BY <1>2, <2>1
  <2>3. \A j \in hits : j \in Nat /\ i <= j
    <3>1. \A j \in 1 .. Len(s) : j \in Nat /\ (j \in 1 .. i - 1 \/ i <= j)
      BY <1>1
    <3> QED
      BY <1>2, <2>1, <3>1
  <2>4. Min(hits) \in hits /\ \A j \in hits : Min(hits) <= j
    BY <2>2, <2>3 DEF Min
  <2>5. Min(hits) = i
    <3>1. PICK x : x = Min(hits)
      OBVIOUS
    <3>2. x \in Nat /\ i <= x /\ x <= i /\ i \in Nat
      BY <2>2, <2>3, <2>4, <3>1
    <3> QED
      BY <3>1, <3>2
  <2> QED
    BY <1>4, <2>1, <2>2, <2>5 DEF hits
<1> QED
  BY <1>3, <1>4 DEF hits

\* Reading both files and the environment comes to the documented rule.
LEMMA NowIsDocumented ==
  ASSUME dalconfig \in Contents, gitconfig \in Contents
  PROVE  Now = Documented
<1>1. CASE Unreadable \in {dalconfig, gitconfig}
  BY <1>1 DEF Now, from_repo_path, Documented
<1>2. CASE Unreadable \notin {dalconfig, gitconfig}
  <2> DEFINE a == merge_from_content(NoFields, dalconfig)
             b == merge_from_content(a, gitconfig)
             c == merge_from_env(b, env)
             d == [c EXCEPT !["chunk-size"] = IF @ = None THEN DEFAULT_CHUNK_SIZE ELSE @]
             D == [k \in FieldNames |-> FirstValue(k)]
             lines == Lines(dalconfig) \o Lines(gitconfig)
             Given(k) == k \in EnvNames /\ Usable(k, env[k])
  <2>1. Lines(dalconfig) \in Seq(Line) /\ Lines(gitconfig) \in Seq(Line) /\ lines \in Seq(Line)
    BY <1>2, LinesAreSeq
  <2>2. IsFields(a) /\ \A k \in FieldNames : Fills(None, a[k], Lines(dalconfig), Len(Lines(dalconfig)), k)
    BY <1>2, EmptyIsFields, MergeContent
  <2>3. IsFields(b) /\ \A k \in FieldNames : Fills(a[k], b[k], Lines(gitconfig), Len(Lines(gitconfig)), k)
    <3> HIDE DEF a
    <3> QED
      BY <1>2, <2>2, MergeContent
  <2> HIDE DEF a, b
  <2>4. \A k \in FieldNames : Fills(None, b[k], lines, Len(lines), k)
    BY <2>1, <2>2, <2>3, TwoFiles
  <2>5. ASSUME NEW k \in FieldNames
        PROVE  FirstValue(k) = IF b[k] # None THEN b[k]
                               ELSE IF Given(k) THEN env[k]
                               ELSE IF k = "chunk-size" THEN DEFAULT_CHUNK_SIZE ELSE None
    <3> DEFINE hits == Hits(lines, k)
    <3>1. /\ b[k] = None => hits = {}
          /\ b[k] # None => hits # {} /\ lines[Min(hits)].value = b[k]
      <4>1. Fills(None, b[k], lines, Len(lines), k)
        BY <2>4
      <4> HIDE DEF lines
      <4> QED
        BY <2>1, <4>1, FillsFirst
    <3>2. FirstValue(k) = CASE hits # {} -> lines[Min(hits)].value
                            [] hits = {} /\ k \in EnvNames /\ Usable(k, env[k]) -> env[k]
                            [] OTHER -> IF k = "chunk-size" THEN DEFAULT_CHUNK_SIZE ELSE None
      BY DEF FirstValue, Hits
    <3> HIDE DEF hits, lines
    <3> QED
      BY <3>1, <3>2
  <2> HIDE DEF lines
  <2>6. c = [k \in FieldNames |-> IF b[k] = None /\ Given(k) THEN env[k] ELSE b[k]]
    BY DEF merge_from_env
  <2>7. d = [k \in FieldNames |-> IF k = "chunk-size" /\ c[k] = None THEN DEFAULT_CHUNK_SIZE ELSE c[k]]
    BY <2>6
  <2>8. ~Given("chunk-size")
    BY DEF EnvNames
  <2> HIDE DEF c, d, Given
  <2>9. d = D
    <3>1. ASSUME NEW k \in FieldNames
          PROVE  d[k] = FirstValue(k)
      BY <2>5, <2>6, <2>7, <2>8
    <3> QED
      BY <2>7, <3>1
  <2>10. \A k \in FieldNames \ {"chunk-size"} : D[k] = c[k]
    BY <2>6, <2>7, <2>9
  <2> HIDE DEF D
  <2>11. \A key : normalize_to_hex(key) = Refused <=> key \notin SecretKeys
    BY ConfigAssumption DEF normalize_to_hex
  <2>12. Now = IF \/ c["server"] = None /\ ~is_iroh_only(c)
                  \/ c["private-key"] # None /\ normalize_to_hex(c["private-key"]) = Refused
                 THEN Refused ELSE d
    BY <1>2 DEF Now, from_repo_path, into_config, a, b, c, d
  <2>13. Documented = IF \/ D["server"] = None /\ ~(D["transport"] = "iroh" /\ D["iroh-endpoint"] # None)
                         \/ D["private-key"] # None /\ D["private-key"] \notin SecretKeys
                        THEN Refused ELSE D
    BY <1>2 DEF Documented, D
  <2>14. D["server"] = c["server"] /\ D["transport"] = c["transport"]
         /\ D["iroh-endpoint"] = c["iroh-endpoint"] /\ D["private-key"] = c["private-key"]
    BY <2>10 DEF FieldNames
  <2> QED
    BY <2>9, <2>11, <2>12, <2>13, <2>14 DEF is_iroh_only
<1> QED
  BY <1>1, <1>2

(***************************************************************************)
(* The invariant of the types: with them goes what the configurations of   *)
(* requests are, that a PUT or a verify is of an object, and that a        *)
(* request which has read has what the files still say, while they do.     *)
(***************************************************************************)
Typed(r) ==
  /\ req[r].op \in {"none", "batch", "put", "verify"}
  /\ req[r].op \in {"put", "verify"} => r \in Objects
  /\ req[r].op = "none" => req[r].at = "ok"
  /\ req[r].at \in {"dal", "git", "serve", "ok", "failed"}
  /\ req[r].config = Refused \/ IsFields(req[r].config)
  /\ req[r].at \in {"git", "serve"} => IsFields(req[r].config)
  /\ req[r].tries \in 0 .. MaxTries /\ req[r].calm \in BOOLEAN
  /\ Read(r) /\ req[r].calm => req[r].config = Now

Typing ==
  /\ dalconfig \in Contents /\ gitconfig \in Contents /\ env \in Envs
  /\ edits \in 0 .. MaxEdits
  /\ stored \in [Stores -> SUBSET Objects]
  /\ push \in {"idle", "batch", "transfer", "ok", "failed"}
  /\ \A r \in Requests : Typed(r)

TypedInv == PushInv /\ Typing

\* Before the push.
LEMMA InitTyping == Init => Typing
<1> SUFFICES ASSUME Init PROVE Typing
  OBVIOUS
<1>1. stored \in [Stores -> SUBSET Objects]
  BY DEF Init
<1>2. ASSUME NEW r \in Requests
      PROVE  Typed(r)
  <2>1. req[r] = Idle
    BY DEF Init
  <2> QED
    BY <2>1, EmptyIsFields, PushAssumption DEF Idle, Typed, Read
<1> QED
  BY <1>1, <1>2, PushAssumption DEF Init, Typing

\* A step of the daemon has to be shown only what it sets.
LEMMA DaemonTypes ==
  ASSUME TypedInv, NEW r \in Requests, req[r].at # "ok",
         NEW a \in {"git", "serve", "ok", "failed"}, NEW c, Set(r, a, c),
         UNCHANGED <<files, push>>, stored' \in [Stores -> SUBSET Objects],
         c = Refused \/ IsFields(c), a \in {"git", "serve"} => IsFields(c),
         a # "git" /\ req[r].calm => c = Now
  PROVE  Typing'
<1>1. /\ \A q \in Requests \ {r} : req'[q] = req[q]
      /\ req'[r].op = req[r].op /\ req'[r].at = a /\ req'[r].config = c
      /\ req'[r].tries = req[r].tries /\ req'[r].calm = req[r].calm
  BY SetRequest DEF TypedInv, PushInv
<1>2. Now' = Now /\ dalconfig' = dalconfig /\ gitconfig' = gitconfig /\ env' = env /\ edits' = edits /\ push' = push
  BY DEF files, Now
<1>3. ASSUME NEW q \in Requests
      PROVE  Typed(q)'
  <2>1. Typed(q)
    BY DEF TypedInv, Typing
  <2>2. CASE q = r
    BY <1>1, <1>2, <2>1, <2>2 DEF Typed, Read
  <2>3. CASE q # r
    BY <1>1, <1>2, <2>1, <2>3 DEF Typed, Read
  <2> QED
    BY <2>2, <2>3
<1> QED
  BY <1>2, <1>3 DEF TypedInv, Typing

\* Merging the environment and checking gives fields, or nothing.
LEMMA ConfigIsFields ==
  ASSUME NEW f, IsFields(f), NEW e, NEW c, c = into_config(merge_from_env(f, e)), c # Refused
  PROVE  IsFields(c)
<1> DEFINE m == merge_from_env(f, e)
<1>1. m = [k \in FieldNames |-> IF k \in EnvNames /\ f[k] = None /\ Usable(k, e[k]) THEN e[k] ELSE f[k]]
  BY DEF merge_from_env
<1>2. "transport" \in FieldNames /\ "transport" # "chunk-size"
  BY DEF FieldNames
<1>3. m["transport"] \in {None, "http", "iroh"}
  BY <1>1, <1>2 DEF IsFields, Usable
<1>4. m = [k \in FieldNames |-> m[k]]
  BY <1>1
<1> HIDE DEF m
<1>5. c = [m EXCEPT !["chunk-size"] = IF @ = None THEN DEFAULT_CHUNK_SIZE ELSE @]
  BY DEF into_config, m
<1> QED
  BY <1>2, <1>3, <1>4, <1>5 DEF IsFields

\* Steps of the handlers.
LEMMA DaemonTyping ==
  ASSUME TypedInv, NEW r \in Requests, Daemon(r)
  PROVE  Typing'
<1>1. Typing /\ Typed(r) /\ stored \in [Stores -> SUBSET Objects]
  BY DEF TypedInv, Typing
<1>2. CASE ReadDal(r)
  <2>1. stored' = stored /\ UNCHANGED <<files, push>> /\ req[r].at # "ok"
    BY <1>2 DEF ReadDal
  <2>2. CASE dalconfig = Unreadable
    <3>1. Set(r, "failed", Refused)
      BY <1>2, <2>2 DEF ReadDal
    <3>2. Now = Refused
      BY <2>2 DEF Now, from_repo_path
    <3> QED
      BY <1>1, <2>1, <3>1, <3>2, DaemonTypes
  <2>3. CASE dalconfig # Unreadable
    <3> DEFINE c == merge_from_content(NoFields, dalconfig)
    <3>1. Set(r, "git", c)
      BY <1>2, <2>3 DEF ReadDal
    <3>2. IsFields(c)
      BY <1>1, <2>3, EmptyIsFields, MergeContent DEF Typing
    <3> HIDE DEF c
    <3> QED
      BY <1>1, <2>1, <3>1, <3>2, DaemonTypes
  <2> QED
    BY <2>2, <2>3
<1>3. CASE ReadGit(r)
  <2> DEFINE m == merge_from_content(req[r].config, gitconfig)
             c == IF gitconfig = Unreadable THEN Refused ELSE into_config(merge_from_env(m, env))
  <2>1. stored' = stored /\ UNCHANGED <<files, push>> /\ req[r].at = "git"
    BY <1>3 DEF ReadGit
  <2>2. Set(r, IF c = Refused THEN "failed" ELSE "serve", c)
    BY <1>3 DEF ReadGit
  <2>3. req[r].calm => c = Now
    BY <2>1 DEF TypedInv, PushInv, Calm, Merging, Now, from_repo_path
  <2>4. c = Refused \/ IsFields(c)
    <3>1. CASE gitconfig = Unreadable
      BY <3>1
    <3>2. CASE gitconfig # Unreadable
      <4>1. IsFields(m)
        BY <1>1, <2>1, <3>2, MergeContent DEF Typing, Typed
      <4> HIDE DEF m
      <4> QED
        BY <3>2, <4>1, ConfigIsFields
    <3> QED
      BY <3>1, <3>2
  <2> HIDE DEF c
  <2>5. CASE c = Refused
    BY <1>1, <2>1, <2>2, <2>3, <2>5, DaemonTypes
  <2>6. CASE c # Refused
    BY <1>1, <2>1, <2>2, <2>3, <2>4, <2>6, DaemonTypes
  <2> QED
    BY <2>5, <2>6
<1>4. ASSUME NEW a \in {"ok", "failed"}, Answer(r, a), req[r].at = "serve", UNCHANGED <<files, push>>,
             stored' \in [Stores -> SUBSET Objects]
      PROVE  Typing'
  <2>1. IsFields(req[r].config) /\ (req[r].calm => req[r].config = Now)
    BY <1>1, <1>4 DEF Typed, Read
  <2> QED
    BY <1>4, <2>1, DaemonTypes DEF Answer
<1>5. CASE handle_batch(r) \/ Refuse(r) \/ PutRaces(r) \/ handle_verify(r) \/ VerifyFails(r)
  BY <1>1, <1>4, <1>5 DEF handle_batch, Refuse, PutRaces, handle_verify, VerifyFails, Serves
<1>6. ASSUME Put(r) \/ PutFails(r)
      PROVE  stored' \in [Stores -> SUBSET Objects]
  <2>1. r \in Objects
    BY <1>1, <1>6 DEF Put, PutFails, Serves, Typed
  <2>2. \A s : [stored EXCEPT ![s] = @ \cup {r}] \in [Stores -> SUBSET Objects]
    BY <1>1, <2>1
  <2> QED
    BY <1>1, <1>6, <2>2 DEF Put, PutFails
<1>7. CASE Put(r) \/ PutFails(r)
  <2>1. req[r].at = "serve" /\ UNCHANGED <<files, push>> /\ (Answer(r, "ok") \/ Answer(r, "failed"))
    BY <1>7 DEF Put, PutFails, Serves
  <2> QED
    BY <1>4, <1>6, <1>7, <2>1
<1> QED
  BY <1>2, <1>3, <1>5, <1>7 DEF Daemon

\* New requests, and none for the batch but the batch.
LEMMA AskingTypes ==
  ASSUME TypedInv, UNCHANGED <<files, stored>>, push' \in {"batch", "transfer", "ok", "failed"},
         \A r \in Requests :
           \/ req'[r] = req[r]
           \/ \E op \in {"batch", "put", "verify"}, n \in 0 .. MaxTries :
                req'[r] = Request(op, n) /\ (op # "batch" => r \in Objects)
  PROVE  Typing'
<1>1. Now' = Now /\ dalconfig' = dalconfig /\ gitconfig' = gitconfig /\ env' = env /\ edits' = edits
  BY DEF files, Now
<1>2. ASSUME NEW r \in Requests
      PROVE  Typed(r)'
  <2>1. CASE req'[r] = req[r]
    BY <1>1, <2>1 DEF TypedInv, Typing, Typed, Read
  <2>2. CASE req'[r] # req[r]
    <3>1. PICK op \in {"batch", "put", "verify"}, n \in 0 .. MaxTries :
            req'[r] = Request(op, n) /\ (op # "batch" => r \in Objects)
      BY <2>2
    <3>2. /\ req'[r].op = op /\ req'[r].at = "dal" /\ req'[r].config = NoFields /\ req'[r].tries = n
          /\ req'[r].calm = TRUE
      BY <3>1 DEF Request
    <3> QED
      BY <3>1, <3>2, EmptyIsFields DEF Typed, Read
  <2> QED
    BY <2>1, <2>2
<1> QED
  BY <1>1, <1>2 DEF TypedInv, Typing

\* Steps of git-lfs.
LEMMA GitLfsTyping ==
  ASSUME TypedInv, GitLfs
  PROVE  Typing'
<1>1. Formed /\ \A r \in Requests : Typed(r)
  BY DEF TypedInv, PushInv, Typing
<1>2. 1 \in 0 .. MaxTries
  BY PushAssumption
<1>3. CASE StartPush
  <2>1. \A r \in Requests : req'[r] = req[r] \/ (r = Batch /\ req'[r] = Request("batch", 1))
    BY <1>1, <1>3 DEF StartPush, Formed
  <2> QED
    BY <1>2, <1>3, <2>1, AskingTypes DEF StartPush
<1>4. CASE BatchAnswered
  <2>1. \A r \in Requests : req'[r] = req[r] \/ (r \in Objects /\ req'[r] = Request("put", 1))
    BY <1>4 DEF BatchAnswered
  <2> QED
    BY <1>2, <1>4, <2>1, AskingTypes DEF BatchAnswered
<1>5. CASE EndPush
  BY <1>5, AskingTypes DEF EndPush
<1>6. ASSUME NEW o \in Objects, VerifyNext(o) \/ Retry(o)
      PROVE  Typing'
  <2>1. o \in Requests /\ Typed(o) /\ push' = "transfer" /\ UNCHANGED <<files, stored>>
    BY <1>1, <1>6 DEF Requests, VerifyNext, Retry
  <2>2. PICK op \in {"none", "batch", "put", "verify"}, n \in 0 .. MaxTries :
          req' = [req EXCEPT ![o] = Request(op, n)] /\ op # "none"
    <3>1. CASE VerifyNext(o)
      BY <2>1, <3>1 DEF VerifyNext, Typed
    <3>2. CASE Retry(o)
      <4>1. req[o].tries + 1 \in 0 .. MaxTries
        BY <2>1, <3>2, PushAssumption DEF Retry, Typed
      <4>2. req[o].op # "none"
        BY <2>1, <3>2 DEF Retry, Typed
      <4> QED
        BY <2>1, <3>2, <4>1, <4>2 DEF Retry, Typed
    <3> QED
      BY <1>6, <3>1, <3>2
  <2>3. \A r \in Requests : req'[r] = req[r] \/ (r = o /\ req'[r] = Request(op, n))
    BY <1>1, <2>2 DEF Formed
  <2> QED
    BY <2>1, <2>2, <2>3, AskingTypes
<1> QED
  BY <1>3, <1>4, <1>5, <1>6 DEF GitLfs

\* A file changes.
LEMMA EditTyping ==
  ASSUME TypedInv, Edit
  PROVE  Typing'
<1>1. /\ dalconfig' \in Contents /\ gitconfig' \in Contents /\ env' = env
      /\ stored' = stored /\ push' = push
  BY DEF Edit, TypedInv, Typing
<1>2. edits' \in 0 .. MaxEdits
  BY PushAssumption DEF Edit, TypedInv, Typing
<1>3. ASSUME NEW r \in Requests
      PROVE  Typed(r)'
  <2>1. req'[r] = [op |-> req[r].op, at |-> req[r].at, config |-> req[r].config,
                   tries |-> req[r].tries, calm |-> FALSE]
    BY DEF Edit
  <2>2. /\ req'[r].op = req[r].op /\ req'[r].at = req[r].at /\ req'[r].config = req[r].config
        /\ req'[r].tries = req[r].tries /\ req'[r].calm = FALSE
    BY <2>1
  <2>3. Typed(r)
    BY DEF TypedInv, Typing
  <2> QED
    BY <2>2, <2>3 DEF Typed
<1> QED
  BY <1>1, <1>2, <1>3 DEF TypedInv, Typing

\* Both parts hold throughout.
LEMMA TypesInductive == Spec => []TypedInv
<1>1. TypedInv /\ [Next]_vars => Typing'
  <2> SUFFICES ASSUME TypedInv, [Next]_vars PROVE Typing'
    OBVIOUS
  <2>1. CASE UNCHANGED vars
    BY <2>1 DEF vars, TypedInv, Typing, Typed, Read, Now
  <2> QED
    BY <2>1, GitLfsTyping, EditTyping, DaemonTyping DEF Next
<1>2. Init => TypedInv
  BY InitInv, InitTyping DEF TypedInv
<1>3. TypedInv /\ [Next]_vars => TypedInv'
  BY <1>1, PushStep DEF TypedInv
<1> QED
  BY <1>2, <1>3, PTL DEF Spec

\* Every variable has its type (handle_batch, handle_verify, daemon.rs).
THEOREM PushTyping == Spec => []TypeOK
<1>1. TypedInv => TypeOK
  <2> SUFFICES ASSUME TypedInv PROVE TypeOK
    OBVIOUS
  <2>1. ASSUME NEW r \in Requests
        PROVE  /\ DOMAIN req[r] = DOMAIN Idle
               /\ req[r].op \in {"none", "batch", "put", "verify"}
               /\ req[r].at \in {"dal", "git", "serve", "ok", "failed"}
               /\ req[r].config = Refused \/ DOMAIN req[r].config = FieldNames
               /\ req[r].tries \in 0 .. MaxTries /\ req[r].calm \in BOOLEAN
    <3>1. req[r] = Record(req[r]) /\ Typed(r)
      BY DEF TypedInv, PushInv, Formed, Typing
    <3>2. DOMAIN Record(req[r]) = DOMAIN Idle
      BY DEF Record, Idle
    <3>3. DOMAIN req[r] = DOMAIN Idle
      BY ONLY <3>1, <3>2
    <3>4. req[r].config = Refused \/ DOMAIN req[r].config = FieldNames
      <4>1. CASE IsFields(req[r].config)
        <5>1. DOMAIN [k \in FieldNames |-> req[r].config[k]] = FieldNames
          OBVIOUS
        <5> QED
          BY <4>1, <5>1 DEF IsFields
      <4> QED
        BY <3>1, <4>1 DEF Typed
    <3> QED
      BY <3>1, <3>3, <3>4 DEF Typed
  <2> QED
    BY <2>1 DEF TypedInv, Typing, TypeOK
<1> QED
  BY <1>1, TypesInductive, PTL

(***************************************************************************)
(* A request during which no file changed works with the documented merge, *)
(* whatever the files hold: "first match wins" (config.rs:64-147,          *)
(* README.md:141).                                                         *)
(***************************************************************************)
THEOREM MergedAsDocumented == Spec => []MergeIsDocumented
<1>1. TypedInv => MergeIsDocumented
  <2> SUFFICES ASSUME TypedInv, NEW r \in Requests, Read(r), req[r].calm
               PROVE  req[r].config = Documented
    BY DEF MergeIsDocumented
  <2>1. req[r].config = Now
    BY DEF TypedInv, Typing, Typed
  <2> QED
    BY <2>1, NowIsDocumented DEF TypedInv, Typing
<1> QED
  BY <1>1, TypesInductive, PTL

\* The transports of one configuration: a forced transport leaves one address.
LEMMA OneAddress ==
  ASSUME NEW c, IsFields(c), c["transport"] # None, make_transport(c) \notin {Refused, {}},
         make_lock_transport(c) # Refused
  PROVE  make_lock_transport(c) = make_transport(c) /\ load_read_transport(c) = make_transport(c)
<1>1. c["private-key"] \in Signers /\ c["private-key"] # None
  BY ConfigAssumption DEF make_transport
<1>2. load_read_transport(c) = make_transport(c)
  BY <1>1 DEF load_read_transport
<1>3. CASE c["transport"] = "http"
  <2>1. make_transport(c) = http_only(c)
    BY <1>3 DEF make_transport, force, multi
  <2>2. make_lock_transport(c) = http_only(c)
    BY <1>1, <1>3 DEF make_lock_transport, is_iroh_only
  <2> QED
    BY <1>2, <2>1, <2>2
<1>4. CASE c["transport"] = "iroh" /\ IrohBuilt
  <2>1. c["iroh-endpoint"] # None
    BY <1>4 DEF make_transport, force
  <2>2. make_transport(c) = multi(c) \ http_only(c) /\ c["iroh-endpoint"] \in Endpoints
    BY <1>4, <2>1 DEF make_transport, force
  <2>3. make_transport(c) = {c["iroh-endpoint"]}
    BY <2>2 DEF multi
  <2>4. make_lock_transport(c) = {c["iroh-endpoint"]}
    BY <1>1, <1>4, <2>1, <2>2 DEF make_lock_transport, is_iroh_only
  <2> QED
    BY <1>2, <2>3, <2>4
<1>5. CASE c["transport"] = "iroh" /\ ~IrohBuilt
  <2>1. make_transport(c) = http_only(c)
    BY <1>5 DEF make_transport, force
  <2>2. make_lock_transport(c) = http_only(c)
    BY <1>1, <1>5 DEF make_lock_transport
  <2> QED
    BY <1>2, <2>1, <2>2
<1> QED
  BY <1>3, <1>4, <1>5 DEF IsFields

(***************************************************************************)
(* Forcing a transport sends uploads, reads and locks to one address, for  *)
(* every configuration that a request can have ("for all operations",      *)
(* config.rs:40).                                                          *)
(***************************************************************************)
THEOREM ForcedTogetherAlways == Spec => []ForcedTogether
<1>1. TypedInv => ForcedTogether
  <2> SUFFICES ASSUME TypedInv, NEW r \in Requests, req[r].at = "serve", req[r].config["transport"] # None,
                      make_transport(req[r].config) \notin {Refused, {}},
                      make_lock_transport(req[r].config) # Refused
               PROVE  /\ make_lock_transport(req[r].config) = make_transport(req[r].config)
                      /\ load_read_transport(req[r].config) = make_transport(req[r].config)
    BY DEF ForcedTogether
  <2>1. IsFields(req[r].config)
    BY DEF TypedInv, Typing, Typed
  <2> QED
    BY <2>1, OneAddress
<1> QED
  BY <1>1, TypesInductive, PTL

=============================================================================
