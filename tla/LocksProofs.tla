---------------------------- MODULE LocksProofs ----------------------------
(***************************************************************************)
(* Proofs about Locks, for any number of commands, working copies, paths   *)
(* and users, whatever requests are lost or late: its types, that a path   *)
(* has one lock, that a lock goes only by a command that names its path,   *)
(* and that what is reported is true.                                      *)
(*                                                                         *)
(* All but the types have conditions on the working copies, which never    *)
(* change: what the daemon makes of their remotes tells repositories       *)
(* apart (Agree), who unlocks is on HTTP (ListsByPath), a repository is on *)
(* one server (OneServer), and the words the handlers look for in a text   *)
(* come with no other error (TextsTell).                                   *)
(***************************************************************************)
EXTENDS Locks, TLAPS

\* Working copies have the same slug when they are of the same repository.
Agree ==
  \A c, d \in Clients : clone[c].repo = clone[d].repo <=> Slug(c) = Slug(d)

ListsByPath ==
  \A c \in Clients : "unlock" \in clone[c].kinds => clone[c].via = "http"

Kinds == \A c \in Clients : clone[c].kinds \subseteq {"lock", "unlock", "push"}

Domains ==
  /\ DOMAIN pc = Clients /\ DOMAIN cmd = Clients /\ DOMAIN ask = Clients
  /\ DOMAIN wire = Clients /\ DOMAIN back = Clients /\ DOMAIN answer = Clients

\* A lock was made under the slug of a working copy of its repository.
Made ==
  /\ lastId \in Nat
  /\ \A l \in locks : /\ l.id \in Nat /\ l.id <= lastId
                      /\ \E c \in Clients : l.slug = Slug(c) /\ l.repo = clone[c].repo
  /\ \A l, m \in locks : l.id = m.id => l = m

\* A request goes out under the slug of its sender.
Slugged == \A c \in Clients : wire[c].op \in {"create", "list"} => wire[c].slug = Slug(c)

HolderInv == Agree /\ Domains /\ Made /\ Slugged /\ OneHolder

-----------------------------------------------------------------------------
\* The id is of a lock of c's path, if it still is one; ids are not given again.
Points(id, c) ==
  /\ id \in Nat /\ id <= lastId
  /\ \A m \in locks : m.id = id => Concerns(m, c)

\* Locks that were listed for c.
Listed(ls, c) == \A l \in ls : Points(l.id, c)

\* An unlock asks for what the command named.
Asks(r, c) ==
  /\ cmd[c].kind = "unlock"
  /\ r.force = cmd[c].force
  /\ Points(r.id, c)

\* What c has asked, sent and heard, all about the path of its command.
CommandOf(c) ==
  /\ pc[c] \in {"idle", "asked", "sent", "answered", "done"}
  /\ pc[c] = "idle" => wire[c] = None
  /\ pc[c] = "asked" => wire[c] = None
  /\ pc[c] = "answered" /\ answer[c].status = 200 => wire[c] = None
  /\ back[c] # None => pc[c] = "sent" /\ wire[c] = None
  /\ pc[c] = "sent" => wire[c] = None \/ wire[c].op = ask[c].op
  /\ pc[c] # "idle" => cmd[c].kind \in clone[c].kinds
  /\ pc[c] # "idle" /\ ask[c].op = "list" =>
       cmd[c].kind = "unlock" /\ ask[c].path = cmd[c].path

AskOf(c) == pc[c] # "idle" /\ ask[c].op = "unlock" => Asks(ask[c], c)

WireOf(c) ==
  /\ wire[c].op = "unlock" => Asks(wire[c], c) /\ wire[c].key = clone[c].user
  /\ wire[c].op = "list" => wire[c].paths = {cmd[c].path}

BackOf(c) == back[c].op = "ok" /\ ask[c].op = "list" => Listed(back[c].locks, c)

AnswerOf(c) ==
  pc[c] = "answered" /\ ask[c].op = "list" /\ answer[c].status = 200 =>
    Listed(answer[c].locks, c)

Command(c) == CommandOf(c) /\ AskOf(c) /\ WireOf(c) /\ BackOf(c) /\ AnswerOf(c)

CommandInv == \A c \in Clients : Command(c)

RemovalInv == Agree /\ ListsByPath /\ Kinds /\ Domains /\ Made /\ Slugged /\ CommandInv

-----------------------------------------------------------------------------
\* A step of the daemon sends a request or responds.
LEMMA DaemonShape ==
  ASSUME NEW c \in Clients, Daemon(c)
  PROVE  \/ \E request : Send(c, request)
         \/ (\E a : Respond(c, a)) /\ UNCHANGED wire
  <1>1. CASE HandleCreate(c) \/ HandleList(c) \/ HandleVerify(c) \/ HandleUnlock(c)
    BY <1>1, Zenon DEF HandleCreate, HandleList, HandleVerify, HandleUnlock
  <1>2. CASE Reject(c) \/ CallFails(c)
    <2>1. CASE Reject(c)
      BY <2>1, Zenon DEF Reject
    <2>2. CASE CallFails(c)
      BY <2>2, Zenon DEF CallFails
    <2> QED
      BY <1>2, <2>1, <2>2
  <1>3. CASE AnswerCreate(c)
    <2>1. CASE back[c].op = "created"
      BY <1>3, <2>1, Zenon DEF AnswerCreate
    <2>2. CASE back[c].op # "created"
      BY <1>3, <2>2, Zenon DEF AnswerCreate
    <2> QED
      BY <2>1, <2>2
  <1>4. CASE AnswerList(c) \/ AnswerVerify(c)
    <2>1. CASE AnswerList(c)
      BY <2>1, Zenon DEF AnswerList
    <2>2. CASE AnswerVerify(c)
      BY <2>2, Zenon DEF AnswerVerify
    <2> QED
      BY <1>4, <2>1, <2>2
  <1>5. CASE AnswerUnlock(c)
    <2>1. CASE back[c].op = "ok"
      BY <1>5, <2>1, Zenon DEF AnswerUnlock
    <2>2. CASE back[c].op # "ok"
      BY <1>5, <2>2, ZenonT(30) DEF AnswerUnlock
    <2> QED
      BY <2>1, <2>2
  <1> QED
    BY <1>1, <1>2, <1>3, <1>4, <1>5, Zenon DEF Daemon

\* A step of the server takes the request and replies.
LEMMA ServerShape ==
  ASSUME NEW c \in Clients, Server(c)
  PROVE  (\E a : Reply(c, a)) /\ clone' = clone
  <1>1. CASE ServeCreate(c)
    <2>1. CASE \E l \in In(c) : l.path = wire[c].path
      BY <1>1, <2>1, Zenon DEF ServeCreate, server
    <2>2. CASE ~\E l \in In(c) : l.path = wire[c].path
      BY <1>1, <2>2, Zenon DEF ServeCreate
    <2> QED
      BY <2>1, <2>2
  <1>2. CASE ServeList(c) \/ ServeVerify(c) \/ RefuseUnlock(c) \/ ServeNoLocks(c)
    BY <1>2, Zenon DEF ServeList, ServeVerify, RefuseUnlock, ServeNoLocks, server
  <1>3. CASE ServeUnlock(c)
    BY <1>3, Zenon DEF ServeUnlock
  <1> QED
    BY <1>1, <1>2, <1>3, Zenon DEF Server

\* What a command reports says something.
LEMMA ReactShape ==
  ASSUME NEW c \in Clients,
         ReactCreate(c) \/ ReactList(c) \/ ReactUnlock(c) \/ ReactVerify(c)
  PROVE  pc[c] = "answered" /\ \E what : Report(c, what) /\ what # "none"
  <1>1. CASE ReactCreate(c)
    <2> DEFINE what == CASE answer[c].status = 201 -> "locked"
                         [] answer[c].status = 409 -> "conflict"
                         [] OTHER                  -> "unknown"
    <2>1. what # "none"
      OBVIOUS
    <2>2. Report(c, what) /\ pc[c] = "answered"
      BY <1>1 DEF ReactCreate, Answered
    <2> QED
      BY <2>1, <2>2
  <1>2. CASE ReactList(c)
    <2> DEFINE what == IF answer[c].status # 200 THEN "unknown"
                         ELSE IF answer[c].locks = {} THEN "no_match" ELSE "ambiguous"
    <2>1. what # "none"
      OBVIOUS
    <2>2. Report(c, what) /\ pc[c] = "answered"
      BY <1>2 DEF ReactList, Answered
    <2> QED
      BY <2>1, <2>2
  <1>3. CASE ReactUnlock(c)
    <2> DEFINE what == CASE answer[c].status = 200 -> "unlocked"
                         [] answer[c].status = 404 -> "gone"
                         [] answer[c].status = 403 -> "forbidden"
                         [] OTHER                  -> "unknown"
    <2>1. what # "none"
      OBVIOUS
    <2>2. Report(c, what) /\ pc[c] = "answered"
      BY <1>3 DEF ReactUnlock, Answered
    <2> QED
      BY <2>1, <2>2
  <1>4. CASE ReactVerify(c)
    <2> DEFINE blocked == \E l \in answer[c].theirs : l.path = cmd[c].path
    <2> DEFINE what == IF answer[c].status # 200 THEN "unknown"
                         ELSE IF blocked THEN "blocked" ELSE "clear"
    <2>1. what # "none"
      <3> HIDE DEF blocked
      <3> QED
        OBVIOUS
    <2>2. Report(c, what) /\ pc[c] = "answered"
      BY <1>4 DEF ReactVerify, Answered
    <2> QED
      BY <2>1, <2>2
  <1> QED
    BY <1>1, <1>2, <1>3, <1>4

\* A step of git-lfs leaves the server and what travels to it alone.
LEMMA GitLfsShape ==
  ASSUME NEW c \in Clients, GitLfs(c)
  PROVE  UNCHANGED <<clone, locks, lastId, wire>>
  BY Zenon DEF GitLfs, Begin, HangUp, ReactCreate, ReactList, UnlockListed, ReactUnlock,
     ReactVerify, Report, server

\* Working copies never change, and neither do their slugs.
LEMMA CloneFixed ==
  ASSUME [Next]_vars
  PROVE  /\ clone' = clone
         /\ \A c \in Clients : Slug(c)' = Slug(c)
         /\ Agree => Agree'
         /\ ListsByPath => ListsByPath'
  <1>1. clone' = clone
    <2>1. CASE UNCHANGED vars
      BY <2>1 DEF vars, server
    <2>2. ASSUME NEW c \in Clients, GitLfs(c) PROVE clone' = clone
      BY <2>2, GitLfsShape
    <2>3. ASSUME NEW c \in Clients, Daemon(c) PROVE clone' = clone
      BY <2>3, DaemonShape DEF Send, Respond, server
    <2>4. ASSUME NEW c \in Clients, Server(c) PROVE clone' = clone
      BY <2>4, ServerShape
    <2> QED
      BY <2>1, <2>2, <2>3, <2>4 DEF Next
  <1>2. \A c \in Clients : Slug(c)' = Slug(c)
    BY <1>1 DEF Slug
  <1> QED
    BY <1>1, <1>2 DEF Agree, ListsByPath

\* No command appears or vanishes.
LEMMA DomainsKept ==
  ASSUME Domains, [Next]_vars
  PROVE  Domains'
  <1>1. CASE UNCHANGED vars
    BY <1>1 DEF Domains, vars, client
  <1>2. ASSUME NEW c \in Clients, GitLfs(c) PROVE Domains'
    BY <1>2 DEF Domains, GitLfs, Begin, HangUp, ReactCreate, ReactList, UnlockListed,
       ReactUnlock, ReactVerify, Report
  <1>3. ASSUME NEW c \in Clients, Daemon(c) PROVE Domains'
    BY <1>3, DaemonShape DEF Domains, Send, Respond, client
  <1>4. ASSUME NEW c \in Clients, Server(c) PROVE Domains'
    BY <1>4, ServerShape DEF Domains, Reply, client
  <1> QED
    BY <1>1, <1>2, <1>3, <1>4 DEF Next

-----------------------------------------------------------------------------
\* What creates is under the slug of its sender.
LEMMA SluggedKept ==
  ASSUME Domains, Slugged, [Next]_vars
  PROVE  Slugged'
  <1>0. \A c \in Clients : Slug(c)' = Slug(c)
    BY CloneFixed
  <1>1. CASE UNCHANGED wire
    BY <1>0, <1>1 DEF Slugged
  <1>2. ASSUME NEW c \in Clients, NEW r, wire' = [wire EXCEPT ![c] = r],
               r.op \in {"create", "list"} => r.slug = Slug(c)
        PROVE  Slugged'
    BY <1>0, <1>2 DEF Slugged, Domains
  <1>3. ASSUME NEW c \in Clients, Daemon(c) PROVE Slugged'
    <2>1. CASE HandleCreate(c)
      BY <1>2, <2>1 DEF HandleCreate, Send
    <2>2. CASE HandleList(c)
      <3> DEFINE r(paths) == [op |-> "list", slug |-> Slug(c), paths |-> paths]
      <3>1. PICK paths : Send(c, r(paths))
        BY <2>2, Zenon DEF HandleList
      <3> QED
        BY <1>2, <3>1 DEF Send
    <2>3. CASE HandleVerify(c)
      BY <1>2, <2>3 DEF HandleVerify, Send
    <2>4. CASE HandleUnlock(c)
      BY <1>2, <2>4 DEF HandleUnlock, Send
    <2>5. CASE Reject(c) \/ CallFails(c) \/ AnswerCreate(c) \/ AnswerList(c)
               \/ AnswerVerify(c) \/ AnswerUnlock(c)
      BY <1>1, <2>5 DEF Reject, CallFails, AnswerCreate, AnswerList, AnswerVerify,
         AnswerUnlock
    <2> QED
      BY <1>3, <2>1, <2>2, <2>3, <2>4, <2>5 DEF Daemon
  <1>4. ASSUME NEW c \in Clients, Server(c) PROVE Slugged'
    BY <1>2, <1>4, ServerShape DEF Reply, None
  <1> QED
    BY <1>1, <1>3, <1>4, GitLfsShape DEF Next, vars

\* Locks come from ServeCreate and go with ServeUnlock.
LEMMA LockSteps ==
  ASSUME [Next]_vars
  PROVE  \/ UNCHANGED <<locks, lastId>>
         \/ \E c \in Clients : ServeCreate(c) /\ ~UNCHANGED <<locks, lastId>>
         \/ \E c \in Clients : ServeUnlock(c)
  <1>1. ASSUME NEW c \in Clients, Daemon(c) PROVE UNCHANGED <<locks, lastId>>
    BY <1>1, DaemonShape DEF Send, Respond, server
  <1>2. ASSUME NEW c \in Clients, Server(c), ~ServeCreate(c), ~ServeUnlock(c)
        PROVE  UNCHANGED <<locks, lastId>>
    BY <1>2 DEF Server, ServeList, ServeVerify, RefuseUnlock, ServeNoLocks, server
  <1> QED
    BY <1>1, <1>2, GitLfsShape DEF Next, vars, server

\* A lock that is made is free under its slug, and has a new id.
LEMMA Creation ==
  ASSUME NEW c \in Clients, ServeCreate(c), ~UNCHANGED <<locks, lastId>>,
         Made, Slugged
  PROVE  /\ lastId' = lastId + 1
         /\ \E new : /\ locks' = locks \cup {new}
                     /\ new.id = lastId'
                     /\ new.slug = Slug(c) /\ new.repo = clone[c].repo
                     /\ \A l \in locks : l.slug = Slug(c) => l.path # new.path
  <1>1. ~\E l \in In(c) : l.path = wire[c].path
    BY DEF ServeCreate, server
  <1>2. wire[c].slug = Slug(c)
    BY DEF ServeCreate, Arrived, Slugged
  <1> DEFINE new == [id |-> lastId', slug |-> wire[c].slug, path |-> wire[c].path,
                     owner |-> wire[c].key, repo |-> clone[c].repo]
  <1>3. lastId' = lastId + 1 /\ locks' = locks \cup {new}
    BY <1>1 DEF ServeCreate
  <1>4. \A l \in locks : l.slug = Slug(c) => l.path # new.path
    BY <1>1, <1>2 DEF In
  <1>5. new.id = lastId' /\ new.slug = Slug(c) /\ new.repo = clone[c].repo
    BY <1>2
  <1> HIDE DEF new
  <1> QED
    BY <1>3, <1>4, <1>5

\* Locks keep their makers, and ids are new.
LEMMA MadeKept ==
  ASSUME Made, Slugged, [Next]_vars
  PROVE  Made'
  <1>0. clone' = clone /\ \A c \in Clients : Slug(c)' = Slug(c)
    BY CloneFixed
  <1>1. CASE UNCHANGED <<locks, lastId>>
    BY <1>0, <1>1 DEF Made
  <1>2. ASSUME NEW c \in Clients, ServeCreate(c), ~UNCHANGED <<locks, lastId>> PROVE Made'
    BY <1>0, <1>2, Creation DEF Made
  <1>3. ASSUME NEW c \in Clients, ServeUnlock(c) PROVE Made'
    BY <1>0, <1>3 DEF ServeUnlock, Made
  <1> QED
    BY <1>1, <1>2, <1>3, LockSteps

\* The server grants no path twice under a slug.
LEMMA OneHolderKept ==
  ASSUME Agree, Made, Slugged, OneHolder, [Next]_vars
  PROVE  OneHolder'
  <1>1. CASE UNCHANGED <<locks, lastId>>
    BY <1>1 DEF OneHolder
  <1>2. ASSUME NEW c \in Clients, ServeCreate(c), ~UNCHANGED <<locks, lastId>>
        PROVE  OneHolder'
    <2>1. PICK new : /\ locks' = locks \cup {new}
                     /\ new.repo = clone[c].repo
                     /\ \A l \in locks : l.slug = Slug(c) => l.path # new.path
      BY <1>2, Creation
    <2>2. \A l \in locks : l.repo = new.repo => l.path # new.path
      BY <2>1 DEF Made, Agree
    <2> QED
      BY <2>1, <2>2 DEF OneHolder
  <1>3. ASSUME NEW c \in Clients, ServeUnlock(c) PROVE OneHolder'
    BY <1>3 DEF ServeUnlock, OneHolder
  <1> QED
    BY <1>1, <1>2, <1>3, LockSteps

\* No lock, no request.
LEMMA InitDomains == Init => Domains /\ Made /\ Slugged /\ OneHolder
  BY DEF Init, Domains, Made, Slugged, OneHolder, None

\* Where the slugs tell repositories apart, a path of a repository has one lock at
\* most, however many users lock it at once, with whichever requests lost or late:
\* what the server grants under a slug it grants for the repository
\* (daemon.rs:237-266, 745-780).
THEOREM OneHolderPerPath == Spec => (Agree => []OneHolder)
  <1>1. Init /\ Agree => HolderInv
    BY InitDomains DEF HolderInv
  <1>2. HolderInv /\ [Next]_vars => HolderInv'
    BY CloneFixed, DomainsKept, SluggedKept, MadeKept, OneHolderKept DEF HolderInv
  <1>3. HolderInv => OneHolder
    BY DEF HolderInv
  <1> QED
    BY <1>1, <1>2, <1>3, PTL DEF Spec

-----------------------------------------------------------------------------
\* An id that points to locks of c's path goes on doing so: ids only grow.
LEMMA PointsKept ==
  ASSUME Made, Slugged, [Next]_vars, NEW c \in Clients, cmd'[c] = cmd[c],
         NEW id, Points(id, c)
  PROVE  Points(id, c)'
  <1>0. clone' = clone
    BY CloneFixed
  <1>1. CASE UNCHANGED <<locks, lastId>>
    BY <1>0, <1>1 DEF Points, Concerns
  <1>2. ASSUME NEW d \in Clients, ServeCreate(d), ~UNCHANGED <<locks, lastId>>
        PROVE  Points(id, c)'
    BY <1>0, <1>2, Creation DEF Points, Concerns, Made
  <1>3. ASSUME NEW d \in Clients, ServeUnlock(d) PROVE Points(id, c)'
    BY <1>0, <1>3 DEF Points, Concerns, ServeUnlock
  <1> QED
    BY <1>1, <1>2, <1>3, LockSteps

\* What c asked, sent and heard stays about its path as long as its command does.
LEMMA AsksKept ==
  ASSUME Made, Slugged, [Next]_vars, NEW c \in Clients, cmd'[c] = cmd[c],
         NEW r, Asks(r, c)
  PROVE  Asks(r, c)'
  BY PointsKept DEF Asks

\* What was listed for a command stays so while it runs.
LEMMA ListedKept ==
  ASSUME Made, Slugged, [Next]_vars, NEW c \in Clients, cmd'[c] = cmd[c],
         NEW ls, Listed(ls, c)
  PROVE  Listed(ls, c)'
  BY PointsKept DEF Listed

\* So does what it asks,
LEMMA AskKept ==
  ASSUME Made, Slugged, [Next]_vars, NEW c \in Clients, cmd'[c] = cmd[c],
         ask'[c] = ask[c], pc'[c] # "idle" => pc[c] # "idle", AskOf(c)
  PROVE  AskOf(c)'
  BY AsksKept DEF AskOf, Asks, Points, Concerns

\* what is on its way to the server,
LEMMA WireKept ==
  ASSUME Made, Slugged, [Next]_vars, NEW c \in Clients, cmd'[c] = cmd[c],
         wire'[c] = wire[c], WireOf(c)
  PROVE  WireOf(c)'
  BY AsksKept, CloneFixed DEF WireOf, Asks, Points, Concerns

\* back from it,
LEMMA BackKept ==
  ASSUME Made, Slugged, [Next]_vars, NEW c \in Clients, cmd'[c] = cmd[c],
         ask'[c] = ask[c], back'[c] = back[c], BackOf(c)
  PROVE  BackOf(c)'
  BY ListedKept DEF BackOf, Listed, Points, Concerns

\* and back to git-lfs.
LEMMA AnswerKept ==
  ASSUME Made, Slugged, [Next]_vars, NEW c \in Clients, cmd'[c] = cmd[c],
         ask'[c] = ask[c], answer'[c] = answer[c], pc'[c] = pc[c], AnswerOf(c)
  PROVE  AnswerOf(c)'
  BY ListedKept DEF AnswerOf, Listed, Points, Concerns

\* A step of one command leaves the others alone.
Same(d) ==
  /\ pc'[d] = pc[d] /\ cmd'[d] = cmd[d] /\ ask'[d] = ask[d]
  /\ wire'[d] = wire[d] /\ back'[d] = back[d] /\ answer'[d] = answer[d]

\* A step of one command leaves the others alone.
LEMMA OthersSame ==
  ASSUME Domains, NEW c \in Clients, GitLfs(c) \/ Daemon(c) \/ Server(c),
         NEW d \in Clients, d # c
  PROVE  Same(d)
  <1>1. CASE GitLfs(c)
    <2>1. CASE Begin(c)
      BY <2>1 DEF Same, Domains, Begin
    <2>2. CASE HangUp(c) \/ UnlockListed(c)
      BY <2>2 DEF Same, Domains, HangUp, UnlockListed, server
    <2>3. CASE \E what : Report(c, what)
      BY <2>3 DEF Same, Domains, Report
    <2>4. ReactCreate(c) \/ ReactList(c) \/ ReactUnlock(c) \/ ReactVerify(c)
            => \E what : Report(c, what)
      BY ReactShape
    <2> QED
      BY <1>1, <2>1, <2>2, <2>3, <2>4 DEF GitLfs
  <1>2. CASE Daemon(c)
    BY <1>2, DaemonShape DEF Same, Domains, Send, Respond, client
  <1>3. CASE Server(c)
    BY <1>3, ServerShape DEF Same, Domains, Reply, client
  <1> QED
    BY <1>1, <1>2, <1>3

\* Steps of other commands.
LEMMA SameKept ==
  ASSUME Made, Slugged, [Next]_vars, NEW d \in Clients, Same(d), Command(d)
  PROVE  Command(d)'
  <1>1. CommandOf(d)'
    BY CloneFixed DEF Command, CommandOf, Same
  <1> QED
    BY <1>1, AskKept, WireKept, BackKept, AnswerKept DEF Command, Same

\* Steps of git-lfs.
LEMMA GitLfsKept ==
  ASSUME Domains, Kinds, Made, Slugged, [Next]_vars, NEW c \in Clients, GitLfs(c),
         Command(c)
  PROVE  Command(c)'
  <1>0. clone' = clone
    BY CloneFixed
  <1>1. CASE Begin(c)
    <2>1. PICK kind \in clone[c].kinds, path \in Paths, force \in BOOLEAN :
            /\ cmd'[c] = [kind |-> kind, path |-> path, force |-> force]
            /\ ask'[c] = CASE kind = "lock"   -> Ask("create", path, 0, FALSE)
                           [] kind = "unlock" -> Ask("list", path, 0, FALSE)
                           [] kind = "push"   -> Ask("verify", path, 0, FALSE)
      BY <1>1 DEF Begin, Domains
    <2>2. kind \in {"lock", "unlock", "push"}
      BY DEF Kinds
    <2>3. pc'[c] = "asked" /\ wire'[c] = None /\ back'[c] = None
      BY <1>1 DEF Begin, Domains, Command, CommandOf
    <2>4. /\ ask'[c].op # "unlock"
          /\ ask'[c].op = "list" => kind = "unlock" /\ ask'[c].path = path
      BY <2>1, <2>2 DEF Ask
    <2>5. cmd'[c].kind = kind /\ cmd'[c].path = path
      BY <2>1
    <2>6. CommandOf(c)'
      BY <1>0, <2>3, <2>4, <2>5 DEF CommandOf
    <2> QED
      BY <2>3, <2>4, <2>6 DEF Command, AskOf, WireOf, BackOf, AnswerOf, None
  <1>2. ASSUME pc[c] # "idle", pc'[c] = "done", back'[c] = None, UNCHANGED <<cmd, ask, wire>>
        PROVE  Command(c)'
    <2>1. CommandOf(c)'
      BY <1>0, <1>2 DEF Command, CommandOf
    <2>2. AskOf(c)' /\ WireOf(c)'
      BY <1>2, AskKept, WireKept DEF Command
    <2> QED
      BY <1>2, <2>1, <2>2 DEF Command, BackOf, AnswerOf, None
  <1>3. CASE ReactCreate(c) \/ ReactList(c) \/ ReactUnlock(c) \/ ReactVerify(c)
    <2>1. \E what : Report(c, what)
      BY <1>3, ReactShape
    <2>2. pc[c] = "answered"
      BY <1>3, Zenon DEF ReactCreate, ReactList, ReactUnlock, ReactVerify, Answered
    <2>3. back[c] = None
      BY <2>2 DEF Command, CommandOf
    <2> QED
      BY <1>2, <2>1, <2>2, <2>3 DEF Report, Domains
  <1>4. CASE UnlockListed(c)
    <2>1. PICK l \in answer[c].locks : ask'[c] = Ask("unlock", l.path, l.id, cmd[c].force)
      BY <1>4 DEF UnlockListed, Domains
    <2>2. /\ pc[c] = "answered" /\ ask[c].op = "list" /\ answer[c].status = 200
          /\ pc'[c] = "asked" /\ UNCHANGED <<cmd, wire, back>>
      BY <1>4 DEF UnlockListed, Answered, Domains, server
    <2>3. cmd[c].kind = "unlock" /\ cmd[c].kind \in clone[c].kinds /\ back[c] = None
      BY <2>2 DEF Command, CommandOf
    <2>4. Points(l.id, c)
      BY <2>2 DEF Command, AnswerOf, Listed
    <2>5. /\ ask'[c].op = "unlock" /\ ask'[c].id = l.id /\ ask'[c].force = cmd[c].force
      BY <2>1 DEF Ask
    <2>6. Points(l.id, c)'
      BY <2>2, <2>4, PointsKept
    <2>7. AskOf(c)'
      BY <2>2, <2>3, <2>5, <2>6 DEF AskOf, Asks, Points, Concerns
    <2>8. wire[c] = None
      BY <2>2 DEF Command, CommandOf
    <2>9. CommandOf(c)'
      BY <1>0, <2>2, <2>3, <2>5, <2>8 DEF CommandOf
    <2> QED
      BY <2>2, <2>3, <2>7, <2>8, <2>9 DEF Command, WireOf, BackOf, AnswerOf, None
  <1>5. CASE HangUp(c)
    BY <1>2, <1>5 DEF HangUp, Domains, server
  <1> QED
    BY <1>1, <1>3, <1>4, <1>5 DEF GitLfs

\* The daemon sends a request.
LEMMA SendKept ==
  ASSUME Domains, Made, Slugged, [Next]_vars, NEW c \in Clients, Command(c),
         NEW r, Send(c, r),
         r.op = "unlock" => Asks(r, c) /\ r.key = clone[c].user,
         r.op = "list" => r.paths = {cmd[c].path}
  PROVE  Command(c)'
  <1>1. /\ pc[c] = "asked" /\ pc'[c] = "sent" /\ wire'[c] = r /\ r.op = ask[c].op
        /\ UNCHANGED <<cmd, ask, back, answer, clone>>
    BY DEF Send, Domains, client, server
  <1>2. back[c] = None
    BY <1>1 DEF Command, CommandOf
  <1>3. CommandOf(c)'
    BY <1>1, <1>2 DEF Command, CommandOf
  <1>4. AskOf(c)'
    BY <1>1, AskKept DEF Command
  <1>5. r.op = "unlock" => Asks(r, c)'
    BY <1>1, AsksKept
  <1>6. WireOf(c)'
    BY <1>1, <1>5 DEF WireOf, Asks, Points, Concerns
  <1> QED
    BY <1>1, <1>2, <1>3, <1>4, <1>6 DEF Command, BackOf, AnswerOf, None

\* The daemon answers.
LEMMA RespondKept ==
  ASSUME Domains, Made, Slugged, [Next]_vars, NEW c \in Clients, Command(c),
         NEW a, Respond(c, a), UNCHANGED wire, pc[c] # "idle",
         a.status = 200 => wire[c] = None,
         a.status = 200 /\ ask[c].op = "list" => Listed(a.locks, c)
  PROVE  Command(c)'
  <1>1. /\ pc'[c] = "answered" /\ answer'[c] = a /\ back'[c] = None
        /\ UNCHANGED <<cmd, ask, clone>>
    BY DEF Respond, Domains, client, server
  <1>2. CommandOf(c)'
    BY <1>1 DEF Command, CommandOf
  <1>3. AskOf(c)' /\ WireOf(c)'
    BY <1>1, AskKept, WireKept DEF Command
  <1>4. a.status = 200 /\ ask[c].op = "list" => Listed(a.locks, c)'
    BY <1>1, ListedKept
  <1>5. AnswerOf(c)'
    BY <1>1, <1>4 DEF AnswerOf, Listed, Points, Concerns
  <1> QED
    BY <1>1, <1>2, <1>3, <1>5 DEF Command, BackOf, None

\* Steps of the daemon.
LEMMA DaemonKept ==
  ASSUME Domains, ListsByPath, Made, Slugged, [Next]_vars, NEW c \in Clients,
         Daemon(c), Command(c)
  PROVE  Command(c)'
  <1>1. CASE HandleCreate(c)
    BY <1>1, SendKept DEF HandleCreate
  <1>2. CASE HandleVerify(c)
    BY <1>2, SendKept DEF HandleVerify
  <1>3. CASE HandleList(c)
    <2> DEFINE r(paths) == [op |-> "list", slug |-> Slug(c), paths |-> paths]
    <2>1. pc[c] = "asked" /\ ask[c].op = "list"
      BY <1>3 DEF HandleList, Send
    <2>2. clone[c].via = "http" /\ ask[c].path = cmd[c].path
      BY <2>1 DEF Command, CommandOf, ListsByPath
    <2>3. Send(c, r({cmd[c].path}))
      BY <1>3, <2>2, Zenon DEF HandleList
    <2> QED
      BY <2>3, SendKept
  <1>4. CASE HandleUnlock(c)
    <2> DEFINE r == [op |-> "unlock", slug |-> Slug(c), key |-> clone[c].user,
                     id |-> ask[c].id, force |-> ask[c].force]
    <2>1. Send(c, r)
      BY <1>4 DEF HandleUnlock
    <2>2. pc[c] = "asked" /\ ask[c].op = "unlock"
      BY <2>1 DEF Send
    <2>3. Asks(ask[c], c)
      BY <2>2 DEF Command, AskOf
    <2>4. Asks(r, c)
      BY <2>3 DEF Asks
    <2> QED
      BY <2>1, <2>4, SendKept
  <1>5. ASSUME NEW a, Respond(c, a), UNCHANGED wire, pc[c] \in {"asked", "sent"},
               a.status # 200
        PROVE  Command(c)'
    BY <1>5, RespondKept
  <1>6. CASE Reject(c) \/ CallFails(c)
    BY <1>5, <1>6 DEF Reject, CallFails, Answer
  <1>7. ASSUME NEW a, Respond(c, a), UNCHANGED wire, NEW op, Returned(c, op), op # "list"
        PROVE  Command(c)'
    <2>1. pc[c] = "sent" /\ ask[c].op # "list" /\ wire[c] = None
      BY <1>7 DEF Returned, Command, CommandOf
    <2> QED
      BY <1>7, <2>1, RespondKept
  <1>8. CASE AnswerCreate(c) \/ AnswerVerify(c) \/ AnswerUnlock(c)
    <2>1. CASE AnswerCreate(c)
      <3>1. CASE back[c].op = "created"
        BY <1>7, <2>1, <3>1, Zenon DEF AnswerCreate
      <3> QED
        BY <1>7, <2>1, Zenon DEF AnswerCreate
    <2>2. CASE AnswerVerify(c)
      BY <1>7, <2>2, Zenon DEF AnswerVerify
    <2>3. CASE AnswerUnlock(c)
      BY <1>7, <2>3, Zenon DEF AnswerUnlock
    <2> QED
      BY <1>8, <2>1, <2>2, <2>3
  <1>9. CASE AnswerList(c)
    <2>1. /\ pc[c] = "sent" /\ ask[c].op = "list" /\ back[c] # None
          /\ wire[c] = None /\ UNCHANGED wire
      BY <1>9 DEF AnswerList, Returned, Command, CommandOf
    <2>2. CASE back[c].op = "ok"
      <3>1. Respond(c, [Answer(200) EXCEPT !.locks = back[c].locks])
        BY <1>9, <2>2 DEF AnswerList
      <3>2. Listed(back[c].locks, c)
        BY <2>1, <2>2 DEF Command, BackOf
      <3> QED
        BY <2>1, <3>1, <3>2, RespondKept DEF Answer
    <2>3. CASE back[c].op # "ok"
      BY <1>5, <1>9, <2>1, <2>3 DEF AnswerList, Answer
    <2> QED
      BY <2>2, <2>3
  <1> QED
    BY <1>1, <1>2, <1>3, <1>4, <1>6, <1>8, <1>9 DEF Daemon

\* The server answers.
LEMMA ReplyKept ==
  ASSUME Domains, Made, Slugged, [Next]_vars, NEW c \in Clients, Command(c), wire[c] # None,
         NEW a, Reply(c, a),
         pc[c] = "sent" /\ a.op = "ok" /\ ask[c].op = "list" => Listed(a.locks, c)
  PROVE  Command(c)'
  <1>1. /\ wire'[c] = None /\ back'[c] = IF pc[c] = "sent" THEN a ELSE None
        /\ UNCHANGED <<cmd, ask, pc, answer, clone>>
    BY CloneFixed DEF Reply, Domains, client
  <1>2. CommandOf(c)'
    BY <1>1 DEF Command, CommandOf
  <1>3. AskOf(c)' /\ AnswerOf(c)'
    BY <1>1, AskKept, AnswerKept DEF Command
  <1>4. pc[c] = "sent" /\ a.op = "ok" /\ ask[c].op = "list" => Listed(a.locks, c)'
    BY <1>1, ListedKept
  <1>5. BackOf(c)'
    BY <1>1, <1>4 DEF BackOf, Listed, Points, Concerns, None
  <1> QED
    BY <1>1, <1>2, <1>3, <1>5 DEF Command, WireOf, None

\* The server lists for c locks of the path of its command only.
LEMMA ListsOwnPath ==
  ASSUME Agree, Made, Slugged, NEW c \in Clients, Command(c),
         wire[c].op = "list"
  PROVE  Listed({l \in In(c) : l.path \in wire[c].paths}, c)
  <1> SUFFICES ASSUME NEW l \in In(c), l.path \in wire[c].paths
               PROVE  Points(l.id, c)
    BY DEF Listed
  <1>1. wire[c].paths = {cmd[c].path} /\ wire[c].slug = Slug(c)
    BY DEF Command, WireOf, Slugged
  <1>2. l \in locks /\ l.slug = Slug(c) /\ l.path = cmd[c].path
    BY <1>1 DEF In
  <1>3. l.repo = clone[c].repo
    BY <1>2 DEF Made, Agree
  <1> QED
    BY <1>2, <1>3 DEF Made, Points, Concerns

\* Steps of the server.
LEMMA ServerKept ==
  ASSUME Agree, Domains, Made, Slugged, [Next]_vars, NEW c \in Clients, Server(c), Command(c)
  PROVE  Command(c)'
  <1>1. wire[c] # None
    BY DEF Server, ServeCreate, ServeList, ServeVerify, ServeUnlock, RefuseUnlock,
       ServeNoLocks, Arrived, None
  <1>2. pc[c] = "sent" => wire[c].op = ask[c].op
    BY <1>1 DEF Command, CommandOf
  <1>3. CASE ServeList(c)
    <2>1. Listed({l \in In(c) : l.path \in wire[c].paths}, c)
      BY <1>3, ListsOwnPath DEF ServeList, Arrived
    <2> DEFINE a == [op |-> "ok", locks |-> {l \in In(c) : l.path \in wire[c].paths}]
    <2>2. Reply(c, a) /\ a.locks = {l \in In(c) : l.path \in wire[c].paths}
      BY <1>3 DEF ServeList
    <2> HIDE DEF a
    <2> QED
      BY <1>1, <2>1, <2>2, ReplyKept
  <1>4. ASSUME NEW a, Reply(c, a), wire[c].op # "list" \/ a.op # "ok" PROVE Command(c)'
    BY <1>1, <1>2, <1>4, ReplyKept
  <1>5. CASE ServeCreate(c)
    <2>1. wire[c].op # "list" /\ \E a : Reply(c, a)
      BY <1>5 DEF ServeCreate, Arrived
    <2> QED
      BY <1>4, <2>1
  <1>6. CASE ServeVerify(c) \/ ServeUnlock(c) \/ RefuseUnlock(c)
    <2>1. wire[c].op # "list"
      BY <1>6 DEF ServeVerify, ServeUnlock, RefuseUnlock, Arrived
    <2>2. \E a : Reply(c, a)
      BY <1>6, Zenon DEF ServeVerify, ServeUnlock, RefuseUnlock
    <2> QED
      BY <1>4, <2>1, <2>2
  <1>7. CASE ServeNoLocks(c)
    BY <1>4, <1>7 DEF ServeNoLocks
  <1> QED
    BY <1>3, <1>5, <1>6, <1>7 DEF Server

\* One step, for all commands.
LEMMA CommandKept ==
  ASSUME RemovalInv, [Next]_vars
  PROVE  CommandInv'
  <1> USE DEF RemovalInv
  <1>1. CASE UNCHANGED vars
    BY <1>1, SameKept DEF CommandInv, Same, vars, client
  <1>2. ASSUME NEW c \in Clients, GitLfs(c) \/ Daemon(c) \/ Server(c)
        PROVE  CommandInv'
    <2>1. Command(c)'
      BY <1>2, GitLfsKept, DaemonKept, ServerKept DEF CommandInv
    <2>2. \A d \in Clients : d # c => Command(d)'
      BY <1>2, OthersSame, SameKept DEF CommandInv
    <2> QED
      BY <2>1, <2>2 DEF CommandInv
  <1> QED
    BY <1>1, <1>2 DEF Next

\* What ServeUnlock takes away is what the command asked for.
LEMMA Removal ==
  ASSUME RemovalInv, [Next]_vars, NEW l \in locks \ locks'
  PROVE  \E c \in Clients :
           /\ wire[c] # None /\ wire'[c] = None
           /\ cmd[c].kind = "unlock"
           /\ Concerns(l, c)
           /\ clone[c].user = l.owner \/ (cmd[c].force /\ clone[c].user \in Admins)
  <1> USE DEF RemovalInv
  <1>1. PICK c \in Clients : ServeUnlock(c)
    BY LockSteps, Creation
  <1>2. /\ wire[c].op = "unlock" /\ l.id = wire[c].id /\ MayUnlock(wire[c], l)
    BY <1>1 DEF ServeUnlock, Arrived, In
  <1>3. wire[c] # None /\ wire'[c] = None
    BY <1>1, <1>2 DEF ServeUnlock, Reply, Domains, None
  <1>4. Asks(wire[c], c) /\ wire[c].key = clone[c].user
    BY <1>2 DEF CommandInv, Command, WireOf
  <1>5. Concerns(l, c)
    BY <1>2, <1>4 DEF Asks, Points
  <1> QED
    BY <1>2, <1>3, <1>4, <1>5 DEF Asks, MayUnlock

\* No command has begun.
LEMMA InitCommand == Init => CommandInv /\ Kinds
  <1> SUFFICES ASSUME Init PROVE CommandInv /\ Kinds
    OBVIOUS
  <1>1. Kinds
    BY LocksAssumption DEF Init, Kinds
  <1>2. ASSUME NEW c \in Clients
        PROVE  pc[c] = "idle" /\ wire[c] = None /\ back[c] = None
    BY DEF Init
  <1> QED
    BY <1>1, <1>2 DEF CommandInv, Command, CommandOf, AskOf, WireOf, BackOf, AnswerOf, None

\* Where the slugs tell repositories apart and unlock commands run over HTTP, a lock
\* goes only by an unlock command that names its path, in its repository, by its
\* owner or forced by an admin: neither a stale list nor a late request, nor a lock
\* that was made anew meanwhile, removes another (daemon.rs:782-815, 857-893,
\* lock_client.rs:156-181).
THEOREM RemovalAsAsked == Spec => (Agree /\ ListsByPath => RemovedAsAsked)
  <1>1. Init /\ Agree /\ ListsByPath => RemovalInv
    BY InitDomains, InitCommand DEF RemovalInv
  <1>2. RemovalInv /\ [Next]_vars => RemovalInv'
    <2> SUFFICES ASSUME RemovalInv, [Next]_vars PROVE RemovalInv'
      OBVIOUS
    <2>1. Kinds'
      BY CloneFixed DEF RemovalInv, Kinds
    <2> QED
      BY <2>1, CloneFixed, DomainsKept, SluggedKept, MadeKept, CommandKept DEF RemovalInv
  <1>3. RemovalInv /\ [Next]_vars =>
          [\A l \in locks \ locks' : \E c \in Clients :
             /\ wire[c] # None /\ wire'[c] = None
             /\ cmd[c].kind = "unlock"
             /\ Concerns(l, c)
             /\ clone[c].user = l.owner \/ (cmd[c].force /\ clone[c].user \in Admins)]_vars
    BY Removal
  <1> QED
    BY <1>1, <1>2, <1>3, PTL DEF Spec, RemovedAsAsked

-----------------------------------------------------------------------------
Stages == {"idle", "asked", "sent", "answered", "done"}

\* What a command has asked; requests of another kind than unlock are for its path.
AskTyped(c) ==
  pc[c] # "idle" =>
    /\ cmd[c].path \in Paths /\ cmd[c].force \in BOOLEAN
    /\ ask[c].op \in {"create", "list", "verify", "unlock"}
    /\ ask[c].path \in Paths
    /\ ask[c].op # "unlock" => ask[c].path = cmd[c].path
    /\ ask[c].op = "unlock" => ask[c].id \in 1 .. MaxLocks /\ ask[c].force \in BOOLEAN

\* Where the request of a command can be while it is asked, sent or answered.
Staged(c) ==
  /\ pc[c] \in {"idle", "asked"} => wire[c] = None
  /\ pc[c] = "answered" /\ answer[c].status = 200 => wire[c] = None
  /\ pc[c] = "sent" => wire[c] = None \/ wire[c].op = ask[c].op
  /\ back[c] # None => pc[c] = "sent" /\ wire[c] = None
  /\ (pc[c] = "done") <=> (outcome[c] # "none")

Codes == {"conflict", "not_found", "forbidden", "no_api"}

\* Answers that carry locks carry locks; an unlock gets an answer to an unlock.
BackTyped(c) ==
  back[c] # None =>
    /\ back[c].op = "ok" /\ ask[c].op = "list" => back[c].locks \subseteq Lock
    /\ ask[c].op = "unlock" => back[c].op \in {"ok"} \cup Codes

AnswerTyped(c) ==
  pc[c] = "answered" /\ ask[c].op = "list" /\ answer[c].status = 200 =>
    answer[c].locks \subseteq Lock

Typed(c) == AskTyped(c) /\ Staged(c) /\ BackTyped(c) /\ AnswerTyped(c)

TypedInv ==
  /\ clone \in Clones
  /\ locks \subseteq Lock
  /\ lastId \in 0 .. MaxLocks
  /\ Domains /\ DOMAIN outcome = Clients /\ DOMAIN seen = Clients
  /\ pc \in [Clients -> Stages]
  /\ wire \in [Clients -> Request]
  /\ \A c \in Clients : Typed(c)

\* Types are made of slugs, which do not change.
LEMMA LockFixed ==
  ASSUME [Next]_vars
  PROVE  Lock' = Lock /\ Request' = Request
  <1>1. \A c \in Clients : Slug(c)' = Slug(c)
    BY CloneFixed
  <1>2. {Slug(c) : c \in Clients}' = {Slug(c) : c \in Clients}
    BY <1>1
  <1> QED
    BY <1>2 DEF Lock, Request

\* A step of one command leaves the reports of the others alone.
SameReport(d) == outcome'[d] = outcome[d] /\ seen'[d] = seen[d]

\* Nor do the reports of the others.
LEMMA OthersReport ==
  ASSUME TypedInv, NEW c \in Clients, GitLfs(c) \/ Daemon(c) \/ Server(c),
         NEW d \in Clients, d # c
  PROVE  SameReport(d)
  <1> USE DEF TypedInv, SameReport
  <1>1. CASE GitLfs(c)
    <2>1. CASE Begin(c) \/ HangUp(c) \/ UnlockListed(c)
      BY <2>1 DEF Begin, HangUp, UnlockListed
    <2>2. CASE \E what : Report(c, what)
      BY <2>2 DEF Report
    <2>3. ReactCreate(c) \/ ReactList(c) \/ ReactUnlock(c) \/ ReactVerify(c)
            => \E what : Report(c, what)
      BY ReactShape
    <2> QED
      BY <1>1, <2>1, <2>2, <2>3 DEF GitLfs
  <1>2. CASE Daemon(c)
    BY <1>2, DaemonShape DEF Send, Respond, client
  <1>3. CASE Server(c)
    BY <1>3, ServerShape DEF Reply, client
  <1> QED
    BY <1>1, <1>2, <1>3

\* Steps of other commands.
LEMMA SameTyped ==
  ASSUME [Next]_vars, NEW d \in Clients, Same(d), SameReport(d), Typed(d)
  PROVE  Typed(d)'
  <1>1. AskTyped(d)'
    BY DEF Typed, AskTyped, Same
  <1>2. Staged(d)'
    BY DEF Typed, Staged, Same, SameReport, None
  <1>3. BackTyped(d)' /\ AnswerTyped(d)'
    BY LockFixed DEF Typed, BackTyped, AnswerTyped, Same, Codes, None
  <1> QED
    BY <1>1, <1>2, <1>3 DEF Typed

\* What Clones says of a working copy.
LEMMA CloneTyped ==
  ASSUME TypedInv, NEW c \in Clients
  PROVE  /\ clone[c].repo \in Repos /\ clone[c].user \in Users
         /\ clone[c].kinds \subseteq {"lock", "unlock", "push"}
  BY LocksAssumption DEF TypedInv

\* The server's locks.
LEMMA LocksTyped ==
  ASSUME TypedInv, [Next]_vars
  PROVE  locks' \subseteq Lock /\ lastId' \in 0 .. MaxLocks
  <1> USE DEF TypedInv
  <1>1. CASE UNCHANGED <<locks, lastId>>
    BY <1>1
  <1>2. ASSUME NEW c \in Clients, ServeCreate(c), ~UNCHANGED <<locks, lastId>>
        PROVE  locks' \subseteq Lock /\ lastId' \in 0 .. MaxLocks
    <2>1. ~\E l \in In(c) : l.path = wire[c].path
      BY <1>2 DEF ServeCreate, server
    <2>2. /\ lastId < MaxLocks /\ lastId' = lastId + 1
          /\ locks' = locks \cup {[id |-> lastId', slug |-> wire[c].slug, path |-> wire[c].path,
                                   owner |-> wire[c].key, repo |-> clone[c].repo]}
      BY <1>2, <2>1 DEF ServeCreate
    <2>3. wire[c] \in [op : {"create"}, slug : {Slug(d) : d \in Clients}, key : Users, path : Paths]
      BY <1>2 DEF ServeCreate, Arrived, Request, None
    <2>4. lastId' \in 1 .. MaxLocks
      BY <2>2, LocksAssumption
    <2>5. [id |-> lastId', slug |-> wire[c].slug, path |-> wire[c].path,
           owner |-> wire[c].key, repo |-> clone[c].repo] \in Lock
      BY <2>3, <2>4, CloneTyped DEF Lock
    <2> QED
      BY <2>2, <2>4, <2>5
  <1>3. ASSUME NEW c \in Clients, ServeUnlock(c)
        PROVE  locks' \subseteq Lock /\ lastId' \in 0 .. MaxLocks
    BY <1>3 DEF ServeUnlock
  <1> QED
    BY <1>1, <1>2, <1>3, LockSteps

\* Requests on their way.
LEMMA WireTyped ==
  ASSUME TypedInv, [Next]_vars
  PROVE  wire' \in [Clients -> Request]
  <1> USE DEF TypedInv
  <1>1. CASE UNCHANGED wire
    BY <1>1
  <1>2. ASSUME NEW c \in Clients, NEW r \in Request, wire' = [wire EXCEPT ![c] = r]
        PROVE  wire' \in [Clients -> Request]
    BY <1>2
  <1>3. ASSUME NEW c \in Clients, Daemon(c) PROVE wire' \in [Clients -> Request]
    <2> DEFINE slugs == {Slug(d) : d \in Clients}
    <2>0. Slug(c) \in slugs /\ clone[c].user \in Users /\ Typed(c)
      BY CloneTyped
    <2>1. CASE HandleCreate(c)
      <3>1. /\ pc[c] = "asked" /\ wire' = [wire EXCEPT ![c] =
                 [op |-> "create", slug |-> Slug(c), key |-> clone[c].user, path |-> ask[c].path]]
        BY <2>1 DEF HandleCreate, Send
      <3>2. ask[c].path \in Paths
        BY <2>0, <3>1 DEF Typed, AskTyped
      <3>3. [op |-> "create", slug |-> Slug(c), key |-> clone[c].user, path |-> ask[c].path]
              \in Request
        BY <2>0, <3>2 DEF Request
      <3> QED
        BY <1>2, <3>1, <3>3
    <2>2. CASE HandleList(c)
      <3> DEFINE r(paths) == [op |-> "list", slug |-> Slug(c), paths |-> paths]
      <3>1. pc[c] = "asked"
        BY <2>2 DEF HandleList, Send
      <3>2. PICK paths : Send(c, r(paths)) /\ (paths = {ask[c].path} \/ paths = Paths)
        BY <2>2, Zenon DEF HandleList
      <3>3. paths \in SUBSET Paths
        BY <2>0, <3>1, <3>2 DEF Typed, AskTyped
      <3>4. r(paths) \in Request
        BY <2>0, <3>3 DEF Request
      <3> QED
        BY <1>2, <3>2, <3>4 DEF Send
    <2>3. CASE HandleVerify(c)
      <3>1. [op |-> "verify", slug |-> Slug(c), key |-> clone[c].user] \in Request
        BY <2>0 DEF Request
      <3> QED
        BY <1>2, <2>3, <3>1 DEF HandleVerify, Send
    <2>4. CASE HandleUnlock(c)
      <3> DEFINE r == [op |-> "unlock", slug |-> Slug(c), key |-> clone[c].user,
                       id |-> ask[c].id, force |-> ask[c].force]
      <3>1. Send(c, r) /\ pc[c] = "asked" /\ ask[c].op = "unlock"
        BY <2>4 DEF HandleUnlock, Send
      <3>2. ask[c].id \in 1 .. MaxLocks /\ ask[c].force \in BOOLEAN
        BY <2>0, <3>1 DEF Typed, AskTyped
      <3>3. r \in Request
        BY <2>0, <3>2 DEF Request
      <3> QED
        BY <1>2, <3>1, <3>3 DEF Send
    <2>5. CASE Reject(c) \/ CallFails(c) \/ AnswerCreate(c) \/ AnswerList(c)
               \/ AnswerVerify(c) \/ AnswerUnlock(c)
      BY <1>1, <2>5 DEF Reject, CallFails, AnswerCreate, AnswerList, AnswerVerify,
         AnswerUnlock
    <2> QED
      BY <1>3, <2>1, <2>2, <2>3, <2>4, <2>5 DEF Daemon
  <1>4. ASSUME NEW c \in Clients, Server(c) PROVE wire' \in [Clients -> Request]
    <2>1. wire' = [wire EXCEPT ![c] = None]
      BY <1>4, ServerShape DEF Reply
    <2>2. None \in Request
      BY DEF Request
    <2> QED
      BY <1>2, <2>1, <2>2
  <1> QED
    BY <1>1, <1>3, <1>4, GitLfsShape DEF Next, vars

\* Stages and domains.
LEMMA StagesTyped ==
  ASSUME TypedInv, [Next]_vars
  PROVE  /\ pc' \in [Clients -> Stages]
         /\ Domains' /\ DOMAIN outcome' = Clients /\ DOMAIN seen' = Clients
  <1> USE DEF TypedInv, Stages
  <1>1. CASE UNCHANGED vars
    BY <1>1, DomainsKept DEF vars, client
  <1>2. ASSUME NEW c \in Clients, GitLfs(c)
        PROVE  /\ pc' \in [Clients -> Stages]
               /\ DOMAIN outcome' = Clients /\ DOMAIN seen' = Clients
    <2>1. CASE Begin(c)
      <3>1. /\ pc' = [pc EXCEPT ![c] = "asked"]
            /\ DOMAIN outcome' = DOMAIN outcome /\ DOMAIN seen' = DOMAIN seen
        BY <2>1 DEF Begin
      <3> QED
        BY <3>1
    <2>2. CASE HangUp(c)
      <3>1. /\ pc' = [pc EXCEPT ![c] = "done"]
            /\ DOMAIN outcome' = DOMAIN outcome /\ DOMAIN seen' = DOMAIN seen
        BY <2>2 DEF HangUp
      <3> QED
        BY <3>1
    <2>3. CASE UnlockListed(c)
      <3>1. /\ pc' = [pc EXCEPT ![c] = "asked"]
            /\ DOMAIN outcome' = DOMAIN outcome /\ DOMAIN seen' = DOMAIN seen
        BY <2>3 DEF UnlockListed
      <3> QED
        BY <3>1
    <2>4. CASE \E what : Report(c, what)
      <3>1. /\ pc' = [pc EXCEPT ![c] = "done"]
            /\ DOMAIN outcome' = DOMAIN outcome /\ DOMAIN seen' = DOMAIN seen
        BY <2>4 DEF Report
      <3> QED
        BY <3>1
    <2>5. ReactCreate(c) \/ ReactList(c) \/ ReactUnlock(c) \/ ReactVerify(c)
            => \E what : Report(c, what)
      BY ReactShape
    <2> QED
      BY <1>2, <2>1, <2>2, <2>3, <2>4, <2>5 DEF GitLfs
  <1>3. ASSUME NEW c \in Clients, Daemon(c)
        PROVE  /\ pc' \in [Clients -> Stages]
               /\ DOMAIN outcome' = Clients /\ DOMAIN seen' = Clients
    BY <1>3, DaemonShape DEF Send, Respond, client
  <1>4. ASSUME NEW c \in Clients, Server(c)
        PROVE  /\ pc' \in [Clients -> Stages]
               /\ DOMAIN outcome' = Clients /\ DOMAIN seen' = Clients
    BY <1>4, ServerShape DEF Reply, client
  <1> QED
    BY <1>1, <1>2, <1>3, <1>4, DomainsKept DEF Next

\* Steps of git-lfs.
LEMMA GitLfsTyped ==
  ASSUME TypedInv, [Next]_vars, NEW c \in Clients, GitLfs(c)
  PROVE  Typed(c)'
  <1> USE DEF TypedInv
  <1>0. Typed(c)
    OBVIOUS
  <1>1. CASE Begin(c)
    <2>1. PICK kind \in clone[c].kinds, path \in Paths, force \in BOOLEAN :
            /\ cmd'[c] = [kind |-> kind, path |-> path, force |-> force]
            /\ ask'[c] = CASE kind = "lock"   -> Ask("create", path, 0, FALSE)
                           [] kind = "unlock" -> Ask("list", path, 0, FALSE)
                           [] kind = "push"   -> Ask("verify", path, 0, FALSE)
      BY <1>1 DEF Begin, Domains
    <2>2. kind \in {"lock", "unlock", "push"}
      BY CloneTyped
    <2>3. /\ cmd'[c].path = path /\ cmd'[c].force = force
          /\ ask'[c].op \in {"create", "list", "verify"} /\ ask'[c].path = path
      BY <2>1, <2>2 DEF Ask
    <2>4. AskTyped(c)'
      BY <2>3 DEF AskTyped
    <2>5. pc[c] = "idle" /\ pc'[c] = "asked" /\ UNCHANGED <<wire, back, outcome>>
      BY <1>1 DEF Begin
    <2>6. Staged(c)'
      BY <1>0, <2>5 DEF Typed, Staged, None
    <2>7. back[c] = None
      BY <1>0, <2>5 DEF Typed, Staged
    <2>8. BackTyped(c)' /\ AnswerTyped(c)'
      BY <2>5, <2>7 DEF BackTyped, AnswerTyped, None
    <2> QED
      BY <2>4, <2>6, <2>8 DEF Typed
  <1>2. ASSUME pc[c] # "idle", pc'[c] = "done", back'[c] = None, outcome'[c] # "none",
               UNCHANGED <<cmd, ask, wire>>
        PROVE  Typed(c)'
    <2>1. AskTyped(c)'
      BY <1>0, <1>2 DEF Typed, AskTyped
    <2>2. Staged(c)'
      BY <1>2 DEF Staged, None
    <2>3. BackTyped(c)' /\ AnswerTyped(c)'
      BY <1>2 DEF BackTyped, AnswerTyped, None
    <2> QED
      BY <2>1, <2>2, <2>3 DEF Typed
  <1>3. CASE ReactCreate(c) \/ ReactList(c) \/ ReactUnlock(c) \/ ReactVerify(c)
    <2>1. PICK what : Report(c, what) /\ what # "none"
      BY <1>3, ReactShape
    <2>2. pc[c] = "answered" /\ back[c] = None
      BY <1>0, <1>3, ReactShape DEF Typed, Staged
    <2> QED
      BY <1>2, <2>1, <2>2 DEF Report, Domains
  <1>4. CASE HangUp(c)
    BY <1>2, <1>4 DEF HangUp, Domains, server
  <1>5. CASE UnlockListed(c)
    <2>1. PICK l \in answer[c].locks : ask'[c] = Ask("unlock", l.path, l.id, cmd[c].force)
      BY <1>5 DEF UnlockListed, Domains
    <2>2. /\ pc[c] = "answered" /\ ask[c].op = "list" /\ answer[c].status = 200
          /\ pc'[c] = "asked" /\ UNCHANGED <<cmd, wire, back, outcome>>
      BY <1>5 DEF UnlockListed, Answered, Domains, server
    <2>3. l \in Lock
      BY <1>0, <2>1, <2>2 DEF Typed, AnswerTyped
    <2>4. /\ ask'[c].op = "unlock" /\ ask'[c].path = l.path /\ ask'[c].id = l.id
          /\ ask'[c].force = cmd[c].force
      BY <2>1 DEF Ask
    <2>5. AskTyped(c)'
      BY <1>0, <2>2, <2>3, <2>4 DEF Typed, AskTyped, Lock
    <2>6. wire[c] = None /\ back[c] = None
      BY <1>0, <2>2 DEF Typed, Staged
    <2>7. Staged(c)'
      BY <1>0, <2>2, <2>6 DEF Typed, Staged, None
    <2>8. BackTyped(c)' /\ AnswerTyped(c)'
      BY <2>2, <2>6 DEF BackTyped, AnswerTyped, None
    <2> QED
      BY <2>5, <2>7, <2>8 DEF Typed
  <1> QED
    BY <1>1, <1>3, <1>4, <1>5 DEF GitLfs

\* The daemon sends a request.
LEMMA SendTyped ==
  ASSUME TypedInv, [Next]_vars, NEW c \in Clients, NEW r, Send(c, r)
  PROVE  Typed(c)'
  <1>0. Typed(c)
    BY DEF TypedInv
  <1>1. /\ pc[c] = "asked" /\ pc'[c] = "sent" /\ wire'[c] = r /\ r.op = ask[c].op
        /\ UNCHANGED <<cmd, ask, back, answer, outcome>>
    BY DEF Send, TypedInv, Domains, client
  <1>2. back[c] = None
    BY <1>0, <1>1 DEF Typed, Staged
  <1>3. AskTyped(c)'
    BY <1>0, <1>1 DEF Typed, AskTyped
  <1>4. Staged(c)'
    BY <1>0, <1>1, <1>2 DEF Typed, Staged, None
  <1>5. BackTyped(c)' /\ AnswerTyped(c)'
    BY <1>1, <1>2 DEF BackTyped, AnswerTyped, None
  <1> QED
    BY <1>3, <1>4, <1>5 DEF Typed

\* The daemon answers.
LEMMA RespondTyped ==
  ASSUME TypedInv, [Next]_vars, NEW c \in Clients, NEW a, Respond(c, a), UNCHANGED wire,
         pc[c] \in {"asked", "sent"},
         a.status = 200 => wire[c] = None,
         a.status = 200 /\ ask[c].op = "list" => a.locks \subseteq Lock
  PROVE  Typed(c)'
  <1>0. Typed(c)
    BY DEF TypedInv
  <1>1. /\ pc'[c] = "answered" /\ answer'[c] = a /\ back'[c] = None
        /\ UNCHANGED <<cmd, ask, outcome>>
    BY DEF Respond, TypedInv, Domains, client
  <1>2. AskTyped(c)'
    BY <1>0, <1>1 DEF Typed, AskTyped
  <1>3. Staged(c)'
    BY <1>0, <1>1 DEF Typed, Staged, None
  <1>4. BackTyped(c)' /\ AnswerTyped(c)'
    BY <1>1, LockFixed DEF BackTyped, AnswerTyped, None
  <1> QED
    BY <1>2, <1>3, <1>4 DEF Typed

\* Steps of the daemon.
LEMMA DaemonTyped ==
  ASSUME TypedInv, [Next]_vars, NEW c \in Clients, Daemon(c)
  PROVE  Typed(c)'
  <1>0. Typed(c)
    BY DEF TypedInv
  <1>1. CASE \E r : Send(c, r)
    BY <1>1, SendTyped
  <1>2. CASE Reject(c) \/ CallFails(c)
    <2>1. PICK a : Respond(c, a) /\ a.status # 200
      BY <1>2 DEF Reject, CallFails, Answer
    <2> QED
      BY <1>2, <2>1, RespondTyped DEF Reject, CallFails
  <1>3. CASE AnswerCreate(c) \/ AnswerVerify(c) \/ AnswerUnlock(c)
    <2>1. pc[c] = "sent" /\ ask[c].op # "list" /\ back[c] # None /\ UNCHANGED wire
      BY <1>3 DEF AnswerCreate, AnswerVerify, AnswerUnlock, Returned
    <2>2. wire[c] = None
      BY <1>0, <2>1 DEF Typed, Staged
    <2>3. \E a : Respond(c, a)
      <3>1. CASE AnswerCreate(c)
        <4>1. CASE back[c].op = "created"
          BY <3>1, <4>1, Zenon DEF AnswerCreate
        <4> QED
          BY <3>1, <4>1, Zenon DEF AnswerCreate
      <3>2. CASE AnswerVerify(c)
        BY <3>2, Zenon DEF AnswerVerify
      <3>3. CASE AnswerUnlock(c)
        <4>1. CASE back[c].op = "ok"
          BY <3>3, <4>1, Zenon DEF AnswerUnlock
        <4> QED
          BY <3>3, <4>1, Zenon DEF AnswerUnlock
      <3> QED
        BY <1>3, <3>1, <3>2, <3>3
    <2> QED
      BY <2>1, <2>2, <2>3, RespondTyped
  <1>4. CASE AnswerList(c)
    <2>1. /\ pc[c] = "sent" /\ ask[c].op = "list" /\ back[c] # None /\ UNCHANGED wire
      BY <1>4 DEF AnswerList, Returned
    <2>2. wire[c] = None
      BY <1>0, <2>1 DEF Typed, Staged
    <2>3. CASE back[c].op = "ok"
      <3>1. Respond(c, [Answer(200) EXCEPT !.locks = back[c].locks])
        BY <1>4, <2>3 DEF AnswerList
      <3>2. back[c].locks \subseteq Lock
        BY <1>0, <2>1, <2>3 DEF Typed, BackTyped
      <3> QED
        BY <2>1, <2>2, <3>1, <3>2, RespondTyped DEF Answer
    <2>4. CASE back[c].op # "ok"
      BY <1>4, <2>1, <2>4, RespondTyped DEF AnswerList, Answer
    <2> QED
      BY <2>3, <2>4
  <1>5. HandleCreate(c) \/ HandleList(c) \/ HandleVerify(c) \/ HandleUnlock(c) => \E r : Send(c, r)
    BY Zenon DEF HandleCreate, HandleList, HandleVerify, HandleUnlock
  <1> QED
    BY <1>1, <1>2, <1>3, <1>4, <1>5 DEF Daemon

\* The server answers.
LEMMA ReplyTyped ==
  ASSUME TypedInv, [Next]_vars, NEW c \in Clients, wire[c] # None, NEW a, Reply(c, a),
         pc[c] = "sent" /\ a.op = "ok" /\ ask[c].op = "list" => a.locks \subseteq Lock,
         pc[c] = "sent" /\ ask[c].op = "unlock" => a.op \in {"ok"} \cup Codes
  PROVE  Typed(c)'
  <1>0. Typed(c)
    BY DEF TypedInv
  <1>1. /\ wire'[c] = None /\ back'[c] = IF pc[c] = "sent" THEN a ELSE None
        /\ UNCHANGED <<cmd, ask, pc, answer, outcome>>
    BY DEF Reply, TypedInv, Domains, client
  <1>2. AskTyped(c)'
    BY <1>0, <1>1 DEF Typed, AskTyped
  <1>3. Staged(c)'
    BY <1>0, <1>1 DEF Typed, Staged, None
  <1>4. BackTyped(c)'
    BY <1>1, LockFixed DEF BackTyped, Codes, None
  <1>5. AnswerTyped(c)'
    BY <1>0, <1>1, LockFixed DEF Typed, AnswerTyped
  <1> QED
    BY <1>2, <1>3, <1>4, <1>5 DEF Typed

\* A step of the server replies to what was sent, in terms of it.
LEMMA Replies ==
  ASSUME TypedInv, NEW c \in Clients, Server(c)
  PROVE  wire[c] # None /\ (pc[c] = "sent" => wire[c].op = ask[c].op)
  <1>1. wire[c] # None
    BY DEF Server, ServeCreate, ServeList, ServeVerify, ServeUnlock, RefuseUnlock,
       ServeNoLocks, Arrived, None
  <1> QED
    BY <1>1 DEF TypedInv, Typed, Staged

\* Steps of the server.
LEMMA ServerTyped ==
  ASSUME TypedInv, [Next]_vars, NEW c \in Clients, Server(c)
  PROVE  Typed(c)'
  <1>1. wire[c] # None /\ (pc[c] = "sent" => wire[c].op = ask[c].op)
    BY Replies
  <1>2. CASE ServeCreate(c)
    <2>1. wire[c].op = "create"
      BY <1>2 DEF ServeCreate, Arrived
    <2>2. \E a : Reply(c, a)
      BY ServerShape
    <2> QED
      BY <1>1, <2>1, <2>2, ReplyTyped
  <1>3. CASE ServeList(c)
    <2> DEFINE a == [op |-> "ok", locks |-> {l \in In(c) : l.path \in wire[c].paths}]
    <2>1. Reply(c, a) /\ wire[c].op = "list"
      BY <1>3 DEF ServeList, Arrived
    <2>2. a.locks \subseteq Lock
      BY DEF TypedInv, In
    <2> HIDE DEF a
    <2> QED
      BY <1>1, <2>1, <2>2, ReplyTyped
  <1>4. CASE ServeVerify(c)
    <2>1. wire[c].op = "verify" /\ \E a : Reply(c, a)
      BY <1>4, ServerShape DEF ServeVerify, Arrived
    <2> QED
      BY <1>1, <2>1, ReplyTyped
  <1>5. CASE ServeUnlock(c)
    <2>1. wire[c].op = "unlock" /\ Reply(c, [op |-> "ok"])
      BY <1>5 DEF ServeUnlock, Arrived
    <2> QED
      BY <1>1, <2>1, ReplyTyped
  <1>6. CASE RefuseUnlock(c)
    <2>1. wire[c].op = "unlock" /\ \E op \in {"forbidden", "not_found"} : Reply(c, [op |-> op])
      BY <1>6, Zenon DEF RefuseUnlock, Arrived
    <2>2. PICK op \in {"forbidden", "not_found"} : Reply(c, [op |-> op])
      BY <2>1
    <2> QED
      BY <1>1, <2>1, <2>2, ReplyTyped DEF Codes
  <1>7. CASE ServeNoLocks(c)
    <2>1. Reply(c, [op |-> "no_api"])
      BY <1>7 DEF ServeNoLocks
    <2> QED
      BY <1>1, <2>1, ReplyTyped DEF Codes
  <1> QED
    BY <1>2, <1>3, <1>4, <1>5, <1>6, <1>7 DEF Server

\* TypedInv is inductive.
LEMMA TypedKept == TypedInv /\ [Next]_vars => TypedInv'
  <1> SUFFICES ASSUME TypedInv, [Next]_vars PROVE TypedInv'
    OBVIOUS
  <1>1. \A c \in Clients : Typed(c)'
    <2>1. CASE UNCHANGED vars
      BY <2>1, SameTyped DEF TypedInv, Same, SameReport, vars, client
    <2>2. ASSUME NEW c \in Clients, GitLfs(c) \/ Daemon(c) \/ Server(c), NEW d \in Clients
          PROVE  Typed(d)'
      <3>1. CASE d = c
        BY <2>2, <3>1, GitLfsTyped, DaemonTyped, ServerTyped
      <3>2. CASE d # c
        BY <2>2, <3>2, OthersSame, OthersReport, SameTyped DEF TypedInv
      <3> QED
        BY <3>1, <3>2
    <2> QED
      BY <2>1, <2>2 DEF Next
  <1>2. clone' \in Clones
    BY CloneFixed DEF TypedInv
  <1>3. wire' \in [Clients -> Request']
    BY WireTyped, LockFixed
  <1>4. locks' \subseteq Lock'
    BY LocksTyped, LockFixed
  <1> QED
    BY <1>1, <1>2, <1>3, <1>4, LocksTyped, StagesTyped DEF TypedInv, Stages

\* Before any command.
LEMMA InitTyped == Init => TypedInv
  <1> SUFFICES ASSUME Init PROVE TypedInv
    OBVIOUS
  <1>1. clone \in Clones /\ locks = {} /\ lastId = 0 /\ Domains
    BY InitDomains DEF Init
  <1>2. ASSUME NEW c \in Clients
        PROVE  pc[c] = "idle" /\ wire[c] = None /\ back[c] = None /\ outcome[c] = "none"
    BY <1>2 DEF Init
  <1>3. ASSUME NEW c \in Clients PROVE Typed(c)
    BY <1>2 DEF Typed, AskTyped, Staged, BackTyped, AnswerTyped, None
  <1>4. /\ pc \in [Clients -> Stages] /\ wire \in [Clients -> Request]
        /\ DOMAIN outcome = Clients /\ DOMAIN seen = Clients
    BY DEF Init, Stages, Request
  <1> QED
    BY <1>1, <1>3, <1>4, LocksAssumption DEF TypedInv

\* Locks and requests are what they should be, every lock under the slug of a working
\* copy and in a repository; and only a call that is out has an answer on its way,
\* whichever requests come late or never (daemon.rs:737-893, lock_client.rs).
THEOREM LocksTyping == Spec => []TypeOK
  <1>1. TypedInv => TypeOK
    BY DEF TypedInv, Typed, Staged, Stages, TypeOK
  <1> QED
    BY InitTyped, TypedKept, <1>1, PTL DEF Spec

-----------------------------------------------------------------------------
\* A repository is on one server, which has locks or has not.
OneServer ==
  \A c, d \in Clients : clone[c].repo = clone[d].repo => clone[c].api = clone[d].api

\* The words that the handlers look for come with no other error than theirs.
TextsTell ==
  \A c \in Clients, code \in Codes : \A words \in Texts[clone[c].via][code] :
    /\ "not found" \in words => code = "not_found"
    /\ words \cap {"forbidden", "owner"} # {} => code = "forbidden"

\* Locks are made by servers that have them.
Served == \A l \in locks, c \in Clients : l.repo = clone[c].repo => clone[c].api

Given(id) == id \in Nat /\ id <= lastId

\* What can be known of an id that was given; it is not given again.
Near(id, c) == Given(id) /\ \A l \in locks : l.id = id => l.slug = Slug(c)
Gone(id) == Given(id) /\ \A l \in locks : l.id # id
Foreign(id, c) == Given(id) /\ \A l \in locks : l.id = id => l.owner # clone[c].user

\* Whoever held the path of c all along and is not c's user is among ls.
Owned(ls, c) == \A l \in Standing(c) : l.owner = clone[c].user \/ l \in ls

Shown(ls, c) == Standing(c) \subseteq ls /\ \A l \in ls : Near(l.id, c)

\* What is true when the server's answer is b, the daemon's a, the report what.
Brings(b, c) ==
  /\ b.op \in {"created", "no_api"} => Standing(c) = {}
  /\ b.op = "ok" /\ ask[c].op = "list" => Shown(b.locks, c)
  /\ b.op = "ok" /\ ask[c].op = "verify" => Owned(b.theirs, c)
  /\ b.op = "not_found" => Gone(ask[c].id)
  /\ b.op = "forbidden" => Foreign(ask[c].id, c)

Says(a, c) ==
  /\ ask[c].op = "create" /\ a.status = 201 => Standing(c) = {}
  /\ ask[c].op = "list" /\ a.status = 200 => Shown(a.locks, c)
  /\ ask[c].op = "verify" /\ a.status = 200 => Owned(a.theirs, c)
  /\ TextsTell /\ ask[c].op = "unlock" /\ a.status = 404 => Gone(ask[c].id)
  /\ TextsTell /\ ask[c].op = "unlock" /\ a.status = 403 => Foreign(ask[c].id, c)

Claims(what, c) ==
  /\ what \in {"locked", "no_match"} => Standing(c) = {}
  /\ what = "clear" => Owned({}, c)
  /\ TextsTell /\ what = "gone" => Gone(ask[c].id)
  /\ TextsTell /\ what = "forbidden" => Foreign(ask[c].id, c)

Begun(c) == \A l \in seen[c] : Given(l.id)

AskTrue(c) == pc[c] # "idle" /\ ask[c].op = "unlock" => Near(ask[c].id, c)

\* A request asks what the command asked the daemon.
Asking(r, c) ==
  /\ r.slug = Slug(c)
  /\ r.op = "create" => r.path = cmd[c].path
  /\ r.op = "list" => cmd[c].path \in r.paths
  /\ r.op \in {"verify", "unlock"} => r.key = clone[c].user
  /\ r.op = "unlock" => ask[c].op = "unlock" /\ r.id = ask[c].id

True(c) ==
  /\ Begun(c) /\ AskTrue(c)
  /\ wire[c] # None => Asking(wire[c], c)
  /\ Brings(back[c], c)
  /\ pc[c] = "answered" => Says(answer[c], c)
  /\ Claims(outcome[c], c)

TruthInv ==
  /\ Agree /\ OneServer
  /\ TypedInv /\ Made /\ Served
  /\ \A c \in Clients : True(c)

\* Requests go out under the slug of their sender.
LEMMA TruthSlugged ==
  ASSUME TruthInv
  PROVE  Slugged
  BY DEF TruthInv, True, Asking, Slugged, None

\* A lock that a step makes has an id that was never given.
LEMMA NewLocks ==
  ASSUME TruthInv, [Next]_vars
  PROVE  /\ lastId \in Nat /\ lastId' \in Nat /\ lastId <= lastId'
         /\ \A l \in locks' : l \in locks \/ l.id = lastId + 1
  <1>1. Made /\ Slugged /\ lastId \in Nat
    BY TruthSlugged DEF TruthInv, Made
  <1>2. CASE UNCHANGED <<locks, lastId>>
    BY <1>1, <1>2
  <1>3. ASSUME NEW c \in Clients, ServeCreate(c), ~UNCHANGED <<locks, lastId>>
        PROVE  /\ lastId' \in Nat /\ lastId <= lastId'
               /\ \A l \in locks' : l \in locks \/ l.id = lastId + 1
    <2>1. lastId' = lastId + 1 /\ \E new : locks' = locks \cup {new} /\ new.id = lastId'
      BY <1>1, <1>3, Creation
    <2> QED
      BY <1>1, <2>1
  <1>4. ASSUME NEW c \in Clients, ServeUnlock(c)
        PROVE  lastId' = lastId /\ locks' \subseteq locks
    BY <1>4 DEF ServeUnlock
  <1> QED
    BY <1>1, <1>2, <1>3, <1>4, LockSteps

\* A server without locks makes none.
LEMMA ServedKept ==
  ASSUME TruthInv, [Next]_vars
  PROVE  Served'
  <1>0. clone' = clone /\ Made /\ Slugged /\ Served /\ OneServer
    BY CloneFixed, TruthSlugged DEF TruthInv
  <1>1. CASE UNCHANGED <<locks, lastId>>
    BY <1>0, <1>1 DEF Served
  <1>2. ASSUME NEW c \in Clients, ServeCreate(c), ~UNCHANGED <<locks, lastId>> PROVE Served'
    <2>1. PICK new : locks' = locks \cup {new} /\ new.repo = clone[c].repo
      BY <1>0, <1>2, Creation
    <2>2. clone[c].api
      BY <1>2 DEF ServeCreate, Arrived
    <2>3. \A d \in Clients : new.repo = clone[d].repo => clone[d].api
      BY <1>0, <2>1, <2>2 DEF OneServer
    <2> QED
      BY <1>0, <2>1, <2>3 DEF Served
  <1>3. ASSUME NEW c \in Clients, ServeUnlock(c) PROVE Served'
    BY <1>0, <1>3 DEF ServeUnlock, Served
  <1> QED
    BY <1>1, <1>2, <1>3, LockSteps

\* What is known of a given id stays known.
LEMMA IdsKept ==
  ASSUME TruthInv, [Next]_vars, NEW c \in Clients, NEW id
  PROVE  /\ Given(id) => Given(id)'
         /\ Near(id, c) => Near(id, c)'
         /\ Gone(id) => Gone(id)'
         /\ Foreign(id, c) => Foreign(id, c)'
  <1>1. Given(id) => Given(id)'
    BY NewLocks DEF Given
  <1>2. Given(id) => \A l \in locks' : l.id = id => l \in locks
    BY NewLocks DEF Given
  <1>3. Slug(c)' = Slug(c) /\ clone' = clone
    BY CloneFixed
  <1> QED
    BY <1>1, <1>2, <1>3 DEF Near, Gone, Foreign

\* While a command goes on, what stood when it began only goes.
LEMMA StandingKept ==
  ASSUME TruthInv, [Next]_vars, NEW c \in Clients, cmd'[c] = cmd[c], seen'[c] = seen[c]
  PROVE  Standing(c)' \subseteq Standing(c)
  <1>1. clone' = clone
    BY CloneFixed
  <1>2. \A l \in seen[c] : l.id \in Nat /\ l.id <= lastId
    BY DEF TruthInv, True, Begun, Given
  <1>3. \A l \in seen[c] : l \in locks' => l \in locks
    BY <1>2, NewLocks
  <1> QED
    BY <1>1, <1>3 DEF Standing, Concerns

\* Nothing that was true of a command becomes false while it goes on.
LEMMA TrueStays ==
  ASSUME TruthInv, [Next]_vars, NEW c \in Clients, cmd'[c] = cmd[c], seen'[c] = seen[c]
  PROVE  /\ Begun(c)'
         /\ \A ls : Owned(ls, c) => Owned(ls, c)'
         /\ \A ls : Shown(ls, c) => Shown(ls, c)'
         /\ Standing(c) = {} => Standing(c)' = {}
  <1>1. Standing(c)' \subseteq Standing(c) /\ clone' = clone
    BY StandingKept, CloneFixed
  <1>2. Begun(c)'
    BY IdsKept DEF TruthInv, True, Begun
  <1>3. ASSUME NEW ls, Owned(ls, c) PROVE Owned(ls, c)'
    BY <1>1, <1>3 DEF Owned
  <1>4. ASSUME NEW ls, Shown(ls, c) PROVE Shown(ls, c)'
    BY <1>1, <1>4, IdsKept DEF Shown
  <1> QED
    BY <1>1, <1>2, <1>3, <1>4

\* Working copies do not change.
LEMMA TextsFixed ==
  ASSUME [Next]_vars
  PROVE  /\ TextsTell' = TextsTell
         /\ OneServer => OneServer'
  BY CloneFixed DEF TextsTell, OneServer, Codes

\* What an answer of the server says stays true,
LEMMA BringsKept ==
  ASSUME TruthInv, [Next]_vars, NEW c \in Clients, cmd'[c] = cmd[c], seen'[c] = seen[c],
         ask'[c] = ask[c], NEW b, Brings(b, c)
  PROVE  Brings(b, c)'
  BY TrueStays, IdsKept DEF Brings

\* what the daemon says,
LEMMA SaysKept ==
  ASSUME TruthInv, [Next]_vars, NEW c \in Clients, cmd'[c] = cmd[c], seen'[c] = seen[c],
         ask'[c] = ask[c], NEW a, Says(a, c)
  PROVE  Says(a, c)'
  BY TrueStays, TextsFixed, IdsKept DEF Says

\* what was reported,
LEMMA ClaimsKept ==
  ASSUME TruthInv, [Next]_vars, NEW c \in Clients, cmd'[c] = cmd[c], seen'[c] = seen[c],
         ask'[c] = ask[c], NEW what, Claims(what, c)
  PROVE  Claims(what, c)'
  BY TrueStays, TextsFixed, IdsKept DEF Claims

\* and what was asked for.
LEMMA AskingKept ==
  ASSUME [Next]_vars, NEW c \in Clients, cmd'[c] = cmd[c], ask'[c] = ask[c],
         NEW r, Asking(r, c)
  PROVE  Asking(r, c)'
  BY CloneFixed DEF Asking

\* A command that goes on: what it newly carries, brings, says and claims is true.
LEMMA GoesOn ==
  ASSUME TruthInv, [Next]_vars, NEW c \in Clients, cmd'[c] = cmd[c], seen'[c] = seen[c],
         ask'[c] = ask[c], pc[c] # "idle" \/ pc'[c] = "idle",
         wire'[c] # wire[c] /\ wire'[c] # None => Asking(wire'[c], c),
         back'[c] # back[c] => Brings(back'[c], c),
         pc'[c] = "answered" /\ ~(pc[c] = "answered" /\ answer'[c] = answer[c])
           => Says(answer'[c], c),
         outcome'[c] # outcome[c] => Claims(outcome'[c], c)
  PROVE  True(c)'
  <1>0. True(c)
    BY DEF TruthInv
  <1>1. Begun(c)'
    BY TrueStays
  <1>2. AskTrue(c)'
    BY <1>0, IdsKept DEF True, AskTrue
  <1>3. wire'[c] # None => Asking(wire[c], c)'
    <2>1. PICK r : r = wire'[c]
      OBVIOUS
    <2>2. wire'[c] # None => Asking(r, c)
      BY <1>0, <2>1 DEF True
    <2>3. wire'[c] # None => Asking(r, c)'
      BY <2>2, AskingKept
    <2> QED
      BY <2>1, <2>3 DEF Asking
  <1>4. Brings(back[c], c)'
    <2>1. PICK b : b = back'[c]
      OBVIOUS
    <2>2. Brings(b, c)
      BY <1>0, <2>1 DEF True
    <2>3. Brings(b, c)'
      BY <2>2, BringsKept
    <2> QED
      BY <2>1, <2>3 DEF Brings
  <1>5. pc'[c] = "answered" => Says(answer[c], c)'
    <2>1. PICK a : a = answer'[c]
      OBVIOUS
    <2>2. pc'[c] = "answered" => Says(a, c)
      BY <1>0, <2>1 DEF True
    <2>3. pc'[c] = "answered" => Says(a, c)'
      BY <2>2, SaysKept
    <2> QED
      BY <2>1, <2>3 DEF Says
  <1>6. Claims(outcome[c], c)'
    <2>1. PICK what : what = outcome'[c]
      OBVIOUS
    <2>2. Claims(what, c)
      BY <1>0, <2>1 DEF True
    <2>3. Claims(what, c)'
      BY <2>2, ClaimsKept
    <2> QED
      BY <2>1, <2>3 DEF Claims
  <1> QED
    BY <1>1, <1>2, <1>3, <1>4, <1>5, <1>6 DEF True, None

\* An answer that has not come brings nothing.
LEMMA NothingBrought == \A c : Brings(None, c)
  BY DEF Brings, None

\* What stood from the beginning stands under c's slug, on c's path.
LEMMA StandsHere ==
  ASSUME TruthInv, NEW c \in Clients, NEW l \in Standing(c)
  PROVE  l \in locks /\ l.slug = Slug(c) /\ l.path = cmd[c].path /\ l.repo = clone[c].repo
  <1>1. l \in locks /\ l.path = cmd[c].path /\ l.repo = clone[c].repo
    BY DEF Standing, Concerns
  <1>2. PICK d \in Clients : l.slug = Slug(d) /\ l.repo = clone[d].repo
    BY <1>1 DEF TruthInv, Made
  <1>3. Slug(d) = Slug(c)
    BY <1>1, <1>2 DEF TruthInv, Agree
  <1> QED
    BY <1>1, <1>2, <1>3

\* The daemon sends a request.
LEMMA SendTrue ==
  ASSUME TruthInv, [Next]_vars, NEW c \in Clients, NEW r, Send(c, r), Asking(r, c)
  PROVE  True(c)'
  <1>1. /\ pc[c] = "asked" /\ pc'[c] = "sent" /\ wire'[c] = r
        /\ UNCHANGED <<cmd, ask, seen, back, answer, outcome>>
    BY DEF Send, TruthInv, TypedInv, Domains, client
  <1> QED
    BY <1>1, GoesOn

\* The daemon answers.
LEMMA RespondTrue ==
  ASSUME TruthInv, [Next]_vars, NEW c \in Clients, NEW a, Respond(c, a), UNCHANGED wire,
         pc[c] \in {"asked", "sent"}, Says(a, c)
  PROVE  True(c)'
  <1>1. /\ pc'[c] = "answered" /\ answer'[c] = a /\ back'[c] = None
        /\ UNCHANGED <<cmd, ask, seen, outcome>>
    BY DEF Respond, TruthInv, TypedInv, Domains, client
  <1> QED
    BY <1>1, GoesOn, NothingBrought

\* The server answers.
LEMMA ReplyTrue ==
  ASSUME TruthInv, [Next]_vars, NEW c \in Clients, NEW b, Reply(c, b), Server(c),
         pc[c] = "sent" => Brings(b, c)
  PROVE  True(c)'
  <1>1. /\ wire'[c] = None /\ back'[c] = IF pc[c] = "sent" THEN b ELSE None
        /\ UNCHANGED <<cmd, ask, seen, pc, answer, outcome>>
    BY DEF Reply, TruthInv, TypedInv, Domains, client
  <1>2. pc[c] # "idle"
    BY Replies DEF TruthInv, TypedInv, Typed, Staged
  <1> QED
    BY <1>1, <1>2, GoesOn, NothingBrought

\* A command ends with a report.
LEMMA ReportTrue ==
  ASSUME TruthInv, [Next]_vars, NEW c \in Clients, NEW what, Report(c, what),
         pc[c] = "answered", Claims(what, c)
  PROVE  True(c)'
  <1>1. /\ pc'[c] = "done" /\ outcome'[c] = what
        /\ UNCHANGED <<cmd, ask, seen, wire, back>>
    BY DEF Report, TruthInv, TypedInv, Domains
  <1> QED
    BY <1>1, GoesOn

\* Steps of git-lfs.
LEMMA GitLfsTrue ==
  ASSUME TruthInv, [Next]_vars, NEW c \in Clients, GitLfs(c)
  PROVE  True(c)'
  <1> USE DEF TruthInv, TypedInv
  <1>0. True(c) /\ Typed(c)
    OBVIOUS
  <1>1. CASE Begin(c)
    <2>1. /\ pc[c] = "idle" /\ seen'[c] = locks
          /\ UNCHANGED <<locks, lastId, wire, back, outcome>> /\ pc'[c] = "asked"
      BY <1>1 DEF Begin, server
    <2>2. wire[c] = None /\ back[c] = None /\ outcome[c] = "none"
      BY <1>0, <2>1, Zenon DEF Typed, Staged
    <2>3. PICK kind \in clone[c].kinds, path \in Paths :
            ask'[c] = CASE kind = "lock"   -> Ask("create", path, 0, FALSE)
                        [] kind = "unlock" -> Ask("list", path, 0, FALSE)
                        [] kind = "push"   -> Ask("verify", path, 0, FALSE)
      BY <1>1 DEF Begin, Domains
    <2>4. kind \in {"lock", "unlock", "push"}
      BY CloneTyped
    <2>5. ask'[c].op # "unlock"
      BY <2>3, <2>4 DEF Ask
    <2>6. Begun(c)'
      BY <2>1 DEF Begun, Given, Made
    <2>7. Brings(back[c], c)'
      BY <2>1, <2>2 DEF Brings, None
    <2>8. Claims(outcome[c], c)'
      BY <2>1, <2>2 DEF Claims
    <2> QED
      BY <2>1, <2>2, <2>5, <2>6, <2>7, <2>8 DEF True, AskTrue, None
  <1>2. CASE HangUp(c)
    <2>1. /\ pc[c] # "idle" /\ pc'[c] = "done" /\ back'[c] = None /\ outcome'[c] = "unknown"
          /\ UNCHANGED <<cmd, ask, seen, wire, answer>>
      BY <1>2 DEF HangUp, Domains
    <2>2. Claims("unknown", c)
      BY DEF Claims
    <2> QED
      BY <2>1, <2>2, GoesOn, NothingBrought
  <1>3. CASE UnlockListed(c)
    <2>1. PICK l \in answer[c].locks : ask'[c] = Ask("unlock", l.path, l.id, cmd[c].force)
      BY <1>3 DEF UnlockListed, Domains
    <2>2. /\ pc[c] = "answered" /\ ask[c].op = "list" /\ answer[c].status = 200
          /\ pc'[c] = "asked" /\ UNCHANGED <<cmd, seen, wire, back, outcome>>
      BY <1>3 DEF UnlockListed, Answered, Domains, server
    <2>3. wire[c] = None /\ back[c] = None /\ outcome[c] = "none"
      BY <1>0, <2>2 DEF Typed, Staged
    <2>4. Near(l.id, c)
      BY <1>0, <2>2 DEF True, Says, Shown
    <2>5. Near(l.id, c)'
      BY <2>4, IdsKept
    <2>6. ask'[c].id = l.id
      BY <2>1 DEF Ask
    <2>7. AskTrue(c)'
      BY <2>5, <2>6 DEF AskTrue, Near, Given
    <2>8. Brings(back[c], c)' /\ Claims(outcome[c], c)'
      BY <2>2, <2>3 DEF Brings, Claims, None
    <2>9. Begun(c)'
      BY <2>2, TrueStays
    <2> QED
      BY <2>2, <2>3, <2>7, <2>8, <2>9 DEF True, None
  <1>4. CASE ReactCreate(c)
    <2> DEFINE w == CASE answer[c].status = 201 -> "locked"
                      [] answer[c].status = 409 -> "conflict"
                      [] OTHER                  -> "unknown"
    <2>1. Report(c, w) /\ pc[c] = "answered" /\ ask[c].op = "create"
      BY <1>4 DEF ReactCreate, Answered
    <2>2. w \in {"locked", "conflict", "unknown"} /\ (w = "locked" => answer[c].status = 201)
      OBVIOUS
    <2> HIDE DEF w
    <2>3. Claims(w, c)
      BY <1>0, <2>1, <2>2 DEF True, Says, Claims
    <2> QED
      BY <2>1, <2>3, ReportTrue
  <1>5. CASE ReactList(c)
    <2> DEFINE w == IF answer[c].status # 200 THEN "unknown"
                      ELSE IF answer[c].locks = {} THEN "no_match" ELSE "ambiguous"
    <2>1. Report(c, w) /\ pc[c] = "answered" /\ ask[c].op = "list"
      BY <1>5 DEF ReactList, Answered
    <2>2. /\ w \in {"no_match", "ambiguous", "unknown"}
          /\ w = "no_match" => answer[c].status = 200 /\ answer[c].locks = {}
      OBVIOUS
    <2> HIDE DEF w
    <2>3. w = "no_match" => Standing(c) = {}
      BY <1>0, <2>1, <2>2 DEF True, Says, Shown
    <2>4. Claims(w, c)
      BY <2>2, <2>3 DEF Claims
    <2> QED
      BY <2>1, <2>4, ReportTrue
  <1>6. CASE ReactUnlock(c)
    <2> DEFINE w == CASE answer[c].status = 200 -> "unlocked"
                      [] answer[c].status = 404 -> "gone"
                      [] answer[c].status = 403 -> "forbidden"
                      [] OTHER                  -> "unknown"
    <2>1. Report(c, w) /\ pc[c] = "answered" /\ ask[c].op = "unlock"
      BY <1>6 DEF ReactUnlock, Answered
    <2>2. /\ w \in {"unlocked", "gone", "forbidden", "unknown"}
          /\ w = "gone" => answer[c].status = 404
          /\ w = "forbidden" => answer[c].status = 403
      OBVIOUS
    <2> HIDE DEF w
    <2>3. Claims(w, c)
      BY <1>0, <2>1, <2>2 DEF True, Says, Claims
    <2> QED
      BY <2>1, <2>3, ReportTrue
  <1>7. CASE ReactVerify(c)
    <2> DEFINE blocked == \E l \in answer[c].theirs : l.path = cmd[c].path
    <2> DEFINE w == IF answer[c].status # 200 THEN "unknown"
                      ELSE IF blocked THEN "blocked" ELSE "clear"
    <2>1. Report(c, w) /\ pc[c] = "answered" /\ ask[c].op = "verify"
      BY <1>7 DEF ReactVerify, Answered
    <2>2. /\ w \in {"unknown", "blocked", "clear"}
          /\ w = "clear" => answer[c].status = 200 /\ ~blocked
      <3> HIDE DEF blocked
      <3> QED
        OBVIOUS
    <2> HIDE DEF w
    <2>3. ASSUME w = "clear" PROVE Owned({}, c)
      <3>1. Owned(answer[c].theirs, c)
        BY <1>0, <2>1, <2>2, <2>3 DEF True, Says
      <3>2. \A l \in Standing(c) : l \notin answer[c].theirs
        BY <2>2, <2>3, StandsHere
      <3> QED
        BY <3>1, <3>2 DEF Owned
    <2>4. Claims(w, c)
      BY <2>2, <2>3 DEF Claims
    <2> QED
      BY <2>1, <2>4, ReportTrue
  <1> QED
    BY <1>1, <1>2, <1>3, <1>4, <1>5, <1>6, <1>7 DEF GitLfs

\* The handlers receive their requests.
LEMMA HandlersTrue ==
  ASSUME TruthInv, [Next]_vars, NEW c \in Clients,
         HandleCreate(c) \/ HandleList(c) \/ HandleVerify(c) \/ HandleUnlock(c)
  PROVE  True(c)'
  <1>0. Typed(c) /\ True(c)
    BY DEF TruthInv, TypedInv
  <1>1. CASE HandleCreate(c)
    <2> DEFINE r == [op |-> "create", slug |-> Slug(c), key |-> clone[c].user,
                     path |-> ask[c].path]
    <2>1. Send(c, r) /\ pc[c] = "asked" /\ ask[c].op = "create"
      BY <1>1 DEF HandleCreate, Send
    <2>2. Asking(r, c)
      BY <1>0, <2>1 DEF Typed, AskTyped, Asking
    <2> QED
      BY <2>1, <2>2, SendTrue
  <1>2. CASE HandleList(c)
    <2> DEFINE r(paths) == [op |-> "list", slug |-> Slug(c), paths |-> paths]
    <2>1. pc[c] = "asked" /\ ask[c].op = "list"
      BY <1>2 DEF HandleList, Send
    <2>2. PICK paths : Send(c, r(paths)) /\ (paths = {ask[c].path} \/ paths = Paths)
      BY <1>2, Zenon DEF HandleList
    <2>3. cmd[c].path \in paths
      BY <1>0, <2>1, <2>2 DEF Typed, AskTyped
    <2>4. Asking(r(paths), c)
      BY <2>3 DEF Asking
    <2> QED
      BY <2>2, <2>4, SendTrue
  <1>3. CASE HandleVerify(c)
    <2> DEFINE r == [op |-> "verify", slug |-> Slug(c), key |-> clone[c].user]
    <2>1. Send(c, r)
      BY <1>3 DEF HandleVerify
    <2>2. Asking(r, c)
      BY DEF Asking
    <2> QED
      BY <2>1, <2>2, SendTrue
  <1>4. CASE HandleUnlock(c)
    <2> DEFINE r == [op |-> "unlock", slug |-> Slug(c), key |-> clone[c].user,
                     id |-> ask[c].id, force |-> ask[c].force]
    <2>1. Send(c, r) /\ ask[c].op = "unlock"
      BY <1>4 DEF HandleUnlock, Send
    <2>2. Asking(r, c)
      BY <2>1 DEF Asking
    <2> QED
      BY <2>1, <2>2, SendTrue
  <1> QED
    BY <1>1, <1>2, <1>3, <1>4

\* Steps of the daemon.
LEMMA DaemonTrue ==
  ASSUME TruthInv, [Next]_vars, NEW c \in Clients, Daemon(c)
  PROVE  True(c)'
  <1>0. Typed(c) /\ True(c)
    BY DEF TruthInv, TypedInv
  <1>1. CASE Reject(c) \/ CallFails(c)
    <2>1. PICK status \in {400, 500} : Respond(c, Answer(status))
      BY <1>1 DEF Reject, CallFails
    <2>2. Says(Answer(status), c)
      BY <2>1 DEF Says, Answer
    <2> QED
      BY <1>1, <2>1, <2>2, RespondTrue DEF Reject, CallFails
  <1>2. CASE AnswerCreate(c)
    <2>1. pc[c] = "sent" /\ ask[c].op = "create" /\ UNCHANGED wire
      BY <1>2 DEF AnswerCreate, Returned
    <2>2. CASE back[c].op = "created"
      <3>1. Respond(c, Answer(201)) /\ Standing(c) = {}
        BY <1>0, <1>2, <2>2 DEF AnswerCreate, True, Brings
      <3>2. Says(Answer(201), c)
        BY <2>1, <3>1 DEF Says, Answer
      <3> QED
        BY <2>1, <3>1, <3>2, RespondTrue
    <2>3. CASE back[c].op # "created"
      <3>1. PICK status \in {409, 500} : Respond(c, Answer(status))
        <4>1. PICK words \in Words(c) :
                Respond(c, Answer(IF "already locked" \in words THEN 409 ELSE 500))
          BY <1>2, <2>3, Zenon DEF AnswerCreate
        <4> DEFINE status == IF "already locked" \in words THEN 409 ELSE 500
        <4>2. status \in {409, 500}
          OBVIOUS
        <4>3. Respond(c, Answer(status))
          BY <4>1
        <4> HIDE DEF status
        <4> QED
          BY <4>2, <4>3
      <3>2. Says(Answer(status), c)
        BY <2>1, <3>1 DEF Says, Answer
      <3> QED
        BY <2>1, <3>1, <3>2, RespondTrue
    <2> QED
      BY <2>2, <2>3
  <1>3. CASE AnswerList(c)
    <2>1. pc[c] = "sent" /\ ask[c].op = "list" /\ UNCHANGED wire
      BY <1>3 DEF AnswerList, Returned
    <2>2. CASE back[c].op = "ok"
      <3>1. PICK a : a = [Answer(200) EXCEPT !.locks = back[c].locks]
        OBVIOUS
      <3>2. Respond(c, a) /\ a.status = 200 /\ a.locks = back[c].locks
        BY <1>3, <2>2, <3>1 DEF AnswerList, Answer
      <3>3. Shown(back[c].locks, c)
        BY <1>0, <2>1, <2>2 DEF True, Brings
      <3>4. Says(a, c)
        BY <2>1, <3>2, <3>3 DEF Says
      <3> QED
        BY <2>1, <3>2, <3>4, RespondTrue
    <2>3. CASE back[c].op # "ok"
      <3>1. Respond(c, Answer(500)) /\ Says(Answer(500), c)
        BY <1>3, <2>3 DEF AnswerList, Says, Answer
      <3> QED
        BY <2>1, <3>1, RespondTrue
    <2> QED
      BY <2>2, <2>3
  <1>4. CASE AnswerVerify(c)
    <2>1. pc[c] = "sent" /\ ask[c].op = "verify" /\ UNCHANGED wire
      BY <1>4 DEF AnswerVerify, Returned
    <2>2. CASE back[c].op = "ok"
      <3>1. PICK a : a = [Answer(200) EXCEPT !.locks = back[c].locks, !.theirs = back[c].theirs]
        OBVIOUS
      <3>2. Respond(c, a) /\ a.status = 200 /\ a.theirs = back[c].theirs
        BY <1>4, <2>2, <3>1 DEF AnswerVerify, Answer
      <3>3. Owned(back[c].theirs, c)
        BY <1>0, <2>1, <2>2 DEF True, Brings
      <3>4. Says(a, c)
        BY <2>1, <3>2, <3>3 DEF Says
      <3> QED
        BY <2>1, <3>2, <3>4, RespondTrue
    <2>3. CASE back[c].op = "no_api" /\ clone[c].via = "http"
      <3>1. Respond(c, Answer(200)) /\ Standing(c) = {}
        BY <1>0, <1>4, <2>3 DEF AnswerVerify, True, Brings
      <3>2. Says(Answer(200), c)
        BY <2>1, <3>1 DEF Says, Answer, Owned
      <3> QED
        BY <2>1, <3>1, <3>2, RespondTrue
    <2>4. CASE back[c].op # "ok" /\ ~(back[c].op = "no_api" /\ clone[c].via = "http")
      <3>1. Respond(c, Answer(500)) /\ Says(Answer(500), c)
        BY <1>4, <2>4 DEF AnswerVerify, Says, Answer
      <3> QED
        BY <2>1, <3>1, RespondTrue
    <2> QED
      BY <2>2, <2>3, <2>4
  <1>5. CASE AnswerUnlock(c)
    <2>1. pc[c] = "sent" /\ ask[c].op = "unlock" /\ back[c] # None /\ UNCHANGED wire
      BY <1>5 DEF AnswerUnlock, Returned
    <2>2. CASE back[c].op = "ok"
      <3>1. Respond(c, Answer(200)) /\ Says(Answer(200), c)
        BY <1>5, <2>1, <2>2 DEF AnswerUnlock, Says, Answer
      <3> QED
        BY <2>1, <3>1, RespondTrue
    <2>3. CASE back[c].op # "ok"
      <3>1. PICK words \in Words(c) :
              Respond(c, Answer(CASE "not found" \in words                    -> 404
                                  [] "not found" \notin words
                                     /\ words \cap {"forbidden", "owner"} # {} -> 403
                                  [] OTHER                                     -> 500))
        BY <1>5, <2>3, Zenon DEF AnswerUnlock
      <3> DEFINE unknown == "not found" \in words
      <3> DEFINE owned == words \cap {"forbidden", "owner"} # {}
      <3> DEFINE status == CASE unknown -> 404 [] ~unknown /\ owned -> 403 [] OTHER -> 500
      <3>2. Respond(c, Answer(status))
        BY <3>1
      <3>3. words \in Texts[clone[c].via][back[c].op] /\ back[c].op \in Codes
        BY <1>0, <2>1, <2>3 DEF Words, Typed, BackTyped
      <3>4. TextsTell => (unknown => back[c].op = "not_found") /\ (owned => back[c].op = "forbidden")
        BY <3>3 DEF TextsTell
      <3> HIDE DEF unknown, owned
      <3>5. status \in {404, 403, 500} /\ (status = 404 => unknown) /\ (status = 403 => owned)
        OBVIOUS
      <3> HIDE DEF status
      <3>6. Says(Answer(status), c)
        BY <1>0, <2>1, <3>4, <3>5 DEF Says, Answer, True, Brings
      <3> QED
        BY <2>1, <3>2, <3>6, RespondTrue
    <2> QED
      BY <2>2, <2>3
  <1> QED
    BY <1>1, <1>2, <1>3, <1>4, <1>5, HandlersTrue DEF Daemon

\* Steps of the server.
LEMMA ServerTrue ==
  ASSUME TruthInv, [Next]_vars, NEW c \in Clients, Server(c)
  PROVE  True(c)'
  <1>0. /\ Typed(c) /\ True(c) /\ Made /\ wire[c] # None
        /\ pc[c] = "sent" => wire[c].op = ask[c].op
    BY Replies DEF TruthInv, TypedInv
  <1>1. /\ Asking(wire[c], c)
        /\ \A l : l \in In(c) <=> l \in locks /\ l.slug = Slug(c)
    BY <1>0 DEF True, Asking, In
  <1>2. CASE ServeCreate(c)
    <2>1. wire[c].op = "create" /\ wire[c].path = cmd[c].path
      BY <1>1, <1>2 DEF ServeCreate, Arrived, Asking
    <2>2. CASE \E l \in In(c) : l.path = wire[c].path
      <3>1. Reply(c, [op |-> "conflict"])
        BY <1>2, <2>2, Zenon DEF ServeCreate
      <3> QED
        BY <3>1, ReplyTrue DEF Brings
    <2>3. CASE ~\E l \in In(c) : l.path = wire[c].path
      <3>1. Reply(c, [op |-> "created"])
        BY <1>2, <2>3, Zenon DEF ServeCreate
      <3>2. \A l \in Standing(c) : l \in In(c) /\ l.path = wire[c].path
        BY <1>1, <2>1, StandsHere
      <3>3. Standing(c) = {}
        BY <2>3, <3>2
      <3>4. Brings([op |-> "created"], c)
        BY <3>3 DEF Brings
      <3> QED
        BY <3>1, <3>4, ReplyTrue
    <2> QED
      BY <2>2, <2>3
  <1>3. CASE ServeList(c)
    <2>1. PICK ls : ls = {l \in In(c) : l.path \in wire[c].paths}
      OBVIOUS
    <2>2. Reply(c, [op |-> "ok", locks |-> ls]) /\ wire[c].op = "list"
      BY <1>3, <2>1 DEF ServeList, Arrived
    <2>3. Standing(c) \subseteq ls
      BY <1>1, <2>1, <2>2, StandsHere DEF Asking
    <2>4. ASSUME NEW l \in ls PROVE Near(l.id, c)
      BY <1>0, <1>1, <2>1 DEF Near, Given, Made
    <2>5. Shown(ls, c)
      BY <2>3, <2>4 DEF Shown
    <2>6. pc[c] = "sent" => Brings([op |-> "ok", locks |-> ls], c)
      BY <1>0, <2>2, <2>5 DEF Brings
    <2> QED
      BY <2>2, <2>6, ReplyTrue
  <1>4. CASE ServeVerify(c)
    <2>1. PICK mine, theirs :
            /\ theirs = {l \in In(c) : l.owner # wire[c].key}
            /\ Reply(c, [op |-> "ok", locks |-> mine, theirs |-> theirs])
      BY <1>4, Zenon DEF ServeVerify
    <2>2. wire[c].op = "verify" /\ wire[c].key = clone[c].user
      BY <1>1, <1>4 DEF ServeVerify, Arrived, Asking
    <2>3. Owned(theirs, c)
      BY <1>1, <2>1, <2>2, StandsHere DEF Owned
    <2>4. pc[c] = "sent" => Brings([op |-> "ok", locks |-> mine, theirs |-> theirs], c)
      BY <1>0, <2>2, <2>3 DEF Brings
    <2> QED
      BY <2>1, <2>4, ReplyTrue
  <1>5. CASE ServeUnlock(c)
    <2>1. wire[c].op = "unlock" /\ Reply(c, [op |-> "ok"])
      BY <1>5 DEF ServeUnlock, Arrived
    <2>2. pc[c] = "sent" => Brings([op |-> "ok"], c)
      BY <1>0, <2>1 DEF Brings
    <2> QED
      BY <2>1, <2>2, ReplyTrue
  <1>6. CASE RefuseUnlock(c)
    <2>1. /\ wire[c].op = "unlock" /\ ask[c].op = "unlock" /\ wire[c].id = ask[c].id
          /\ wire[c].key = clone[c].user
          /\ \A l \in In(c) : l.id = wire[c].id => ~MayUnlock(wire[c], l)
      BY <1>1, <1>6 DEF RefuseUnlock, Arrived, Asking
    <2>2. pc[c] # "idle"
      BY <1>0 DEF Typed, Staged
    <2>3. Near(ask[c].id, c)
      BY <1>0, <2>1, <2>2 DEF True, AskTrue
    <2>4. \A l \in locks : l.id = ask[c].id => l \in In(c)
      BY <1>1, <2>3 DEF Near
    <2>5. CASE \E l \in In(c) : l.id = wire[c].id
      <3>1. Reply(c, [op |-> "forbidden"])
        BY <1>6, <2>5, Zenon DEF RefuseUnlock
      <3>2. Foreign(ask[c].id, c)
        BY <2>1, <2>3, <2>4 DEF Near, Foreign, MayUnlock
      <3>3. Brings([op |-> "forbidden"], c)
        BY <3>2 DEF Brings
      <3> QED
        BY <3>1, <3>3, ReplyTrue
    <2>6. CASE ~\E l \in In(c) : l.id = wire[c].id
      <3>1. Reply(c, [op |-> "not_found"])
        BY <1>6, <2>6, Zenon DEF RefuseUnlock
      <3>2. Gone(ask[c].id)
        BY <2>1, <2>3, <2>4, <2>6 DEF Near, Gone
      <3>3. Brings([op |-> "not_found"], c)
        BY <3>2 DEF Brings
      <3> QED
        BY <3>1, <3>3, ReplyTrue
    <2> QED
      BY <2>5, <2>6
  <1>7. CASE ServeNoLocks(c)
    <2>1. ~clone[c].api /\ Reply(c, [op |-> "no_api"])
      BY <1>7 DEF ServeNoLocks
    <2>2. Standing(c) = {}
      BY <2>1, StandsHere DEF TruthInv, Served
    <2>3. Brings([op |-> "no_api"], c)
      BY <2>2 DEF Brings
    <2> QED
      BY <2>1, <2>3, ReplyTrue
  <1> QED
    BY <1>2, <1>3, <1>4, <1>5, <1>6, <1>7 DEF Server

\* TruthInv is inductive.
LEMMA TruthKept == TruthInv /\ [Next]_vars => TruthInv'
  <1> SUFFICES ASSUME TruthInv, [Next]_vars PROVE TruthInv'
    OBVIOUS
  <1>1. ASSUME NEW c \in Clients, Same(c), SameReport(c) PROVE True(c)'
    BY <1>1, GoesOn DEF Same, SameReport
  <1>2. \A c \in Clients : True(c)'
    <2>1. CASE UNCHANGED vars
      BY <1>1, <2>1 DEF Same, SameReport, vars, client
    <2>2. ASSUME NEW c \in Clients, GitLfs(c) \/ Daemon(c) \/ Server(c), NEW d \in Clients
          PROVE  True(d)'
      <3>1. CASE d = c
        BY <2>2, <3>1, GitLfsTrue, DaemonTrue, ServerTrue
      <3>2. CASE d # c
        BY <1>1, <2>2, <3>2, OthersSame, OthersReport DEF TruthInv, TypedInv
      <3> QED
        BY <3>1, <3>2
    <2> QED
      BY <2>1, <2>2 DEF Next
  <1>3. Agree' /\ OneServer'
    BY CloneFixed, TextsFixed DEF TruthInv
  <1>4. TypedInv' /\ Made' /\ Served'
    BY TypedKept, MadeKept, ServedKept, TruthSlugged DEF TruthInv
  <1> QED
    BY <1>2, <1>3, <1>4 DEF TruthInv

\* Before any command.
LEMMA InitTruth == Init /\ Agree /\ OneServer => TruthInv
  <1> SUFFICES ASSUME Init, Agree, OneServer PROVE TruthInv
    OBVIOUS
  <1>1. TypedInv /\ Made
    BY InitTyped, InitDomains
  <1>2. Served
    BY DEF Init, Served
  <1>3. ASSUME NEW c \in Clients PROVE True(c)
    <2>1. /\ pc[c] = "idle" /\ wire[c] = None /\ back[c] = None /\ outcome[c] = "none"
          /\ seen[c] = {}
      BY <1>3 DEF Init
    <2>2. Brings(back[c], c)
      BY <2>1, NothingBrought
    <2> QED
      BY <2>1, <2>2 DEF True, Begun, AskTrue, Claims
  <1> QED
    BY <1>1, <1>2, <1>3 DEF TruthInv

\* A push that goes on pushes no path that somebody else held from its beginning to its
\* end, whatever locks come and go meanwhile and whichever requests are late: where the
\* slugs tell repositories apart and a repository is on one server
\* (daemon.rs:818-854, lock_client.rs:235-247).
THEOREM ClearPushes == Spec => (Agree /\ OneServer => []ClearIsTrue)
  <1>1. TruthInv => ClearIsTrue
    BY DEF TruthInv, True, Claims, Owned, ClearIsTrue
  <1> QED
    BY InitTruth, TruthKept, <1>1, PTL DEF Spec

\* Locked and no match mean that nobody held the path all along; gone and forbidden mean
\* it for good, as long as the words that the handlers look for come with no other
\* error (daemon.rs:765-778, 880-892).
THEOREM ReportsTellTruth ==
  Spec => (Agree /\ OneServer /\ TextsTell => []ReportsAreTrue)
  <1>1. Init /\ Agree /\ OneServer /\ TextsTell => TruthInv /\ TextsTell
    BY InitTruth
  <1>2. TruthInv /\ TextsTell /\ [Next]_vars => (TruthInv /\ TextsTell)'
    BY TruthKept, TextsFixed
  <1>3. TruthInv /\ TextsTell => ReportsAreTrue
    BY DEF TruthInv, True, Claims, Gone, Foreign, ReportsAreTrue
  <1> QED
    BY <1>1, <1>2, <1>3, PTL DEF Spec

=============================================================================
