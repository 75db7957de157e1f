------------------------------- MODULE Locks -------------------------------
(***************************************************************************)
(* File locks: the four lock handlers of the daemon and the lock client    *)
(* they call (daemon.rs, lock_client.rs), between commands of git-lfs in   *)
(* several working copies and a lock server.                               *)
(*                                                                         *)
(* A client runs one command: lock a path, unlock a path (list, then       *)
(* unlock what was listed), or the check of a push (verify).  The daemon   *)
(* keeps nothing between two requests: what it adds is the name of the     *)
(* repository, the key, the choice of a transport, and the translation of  *)
(* answers into statuses, partly through the text of an error.  A request  *)
(* may be lost, its answer may be lost, and it may reach the server after  *)
(* its command has given up.                                               *)
(*                                                                         *)
(* The server, git-lfs and what travels between them are external.  One    *)
(* answer carries all locks: the cursor and limit of a list, which the     *)
(* daemon passes on, are left out.                                         *)
(***************************************************************************)
EXTENDS Integers, FiniteSets

CONSTANTS
  Clients,   \* commands of git-lfs, one each
  Paths,
  Users,     \* keys
  Repos,     \* repositories, as people think of them
  Clones,    \* assignments of working copies to commands
  Admins,    \* keys whose forced unlock the server accepts
  Texts,     \* Texts[via][code]: the telling words that an error may contain
  MaxLocks   \* bound: locks ever made

ASSUME LocksAssumption ==
  /\ Admins \subseteq Users
  /\ MaxLocks \in Nat
  /\ \A f \in Clones, c \in Clients :
       /\ f[c].repo \in Repos /\ f[c].user \in Users
       /\ f[c].kinds \subseteq {"lock", "unlock", "push"}

VARIABLES
  clone,    \* clone[c]: the working copy: repo, user, form of the remote, via
            \* ("http", "iroh"), api (its server has locks), kinds of command
  locks,    \* the server's locks; "repo" is history: where each was made
  lastId,   \* the last id given
  cmd,      \* cmd[c]: the command: kind, path, force
  pc,       \* "idle", "asked", "sent", "answered", "done"
  ask,      \* ask[c]: the request to the daemon
  wire,     \* wire[c]: the request on its way to the server
  back,     \* back[c]: the server's answer on its way to the daemon
  answer,   \* answer[c]: the daemon's answer: status and locks
  outcome,  \* outcome[c]: what the command reports
  seen      \* history: the locks that stood when the command began

client == <<cmd, ask, outcome, seen>>
server == <<locks, lastId, clone>>
vars   == <<client, server, pc, wire, back, answer>>

None == [op |-> "none"]

-----------------------------------------------------------------------------
(* derive_repo_slug *)

\* Mutant: the form of an scp-like remote is kept.
SlugKeepsForm(c) ==
  <<IF clone[c].form \in {"https", "http"} THEN "" ELSE clone[c].form, clone[c].repo>>

\* The remote without scheme and .git, git@host:path like https://host/path.
\* Other schemes stay, and a working copy without a remote goes by its own path.
Slug(c) ==
  CASE clone[c].form \in {"https", "http", "git@"} -> <<"", clone[c].repo>>
    [] clone[c].form = "none"                      -> <<"path", c>>
    [] OTHER                                       -> <<clone[c].form, clone[c].repo>>

-----------------------------------------------------------------------------
(* git-lfs *)

Ask(op, path, id, force) == [op |-> op, path |-> path, id |-> id, force |-> force]

\* A command begins with its first request.
Begin(c) ==
  /\ pc[c] = "idle"
  /\ \E kind \in clone[c].kinds, path \in Paths, force \in BOOLEAN :
       /\ force => kind = "unlock"
       /\ cmd' = [cmd EXCEPT ![c] = [kind |-> kind, path |-> path, force |-> force]]
       /\ ask' = [ask EXCEPT ![c] =
            CASE kind = "lock"   -> Ask("create", path, 0, FALSE)
              [] kind = "unlock" -> Ask("list", path, 0, FALSE)
              [] kind = "push"   -> Ask("verify", path, 0, FALSE)]
  /\ seen' = [seen EXCEPT ![c] = locks]
  /\ pc' = [pc EXCEPT ![c] = "asked"]
  /\ UNCHANGED <<server, wire, back, answer, outcome>>

Report(c, what) ==
  /\ outcome' = [outcome EXCEPT ![c] = what]
  /\ pc' = [pc EXCEPT ![c] = "done"]
  /\ answer' = [answer EXCEPT ![c] = None]
  /\ UNCHANGED <<cmd, ask, seen, server, wire, back>>

Answered(c, op) == pc[c] = "answered" /\ ask[c].op = op

ReactCreate(c) ==
  /\ Answered(c, "create")
  /\ Report(c, CASE answer[c].status = 201 -> "locked"
                 [] answer[c].status = 409 -> "conflict"
                 [] OTHER                  -> "unknown")

\* An unlock by path needs one lock in the list.
ReactList(c) ==
  /\ Answered(c, "list")
  /\ answer[c].status # 200 \/ Cardinality(answer[c].locks) # 1
  /\ Report(c, IF answer[c].status # 200 THEN "unknown"
                 ELSE IF answer[c].locks = {} THEN "no_match" ELSE "ambiguous")

UnlockListed(c) ==
  /\ Answered(c, "list")
  /\ answer[c].status = 200
  /\ \E l \in answer[c].locks :
       /\ answer[c].locks = {l}
       /\ ask' = [ask EXCEPT ![c] = Ask("unlock", l.path, l.id, cmd[c].force)]
  /\ pc' = [pc EXCEPT ![c] = "asked"]
  /\ answer' = [answer EXCEPT ![c] = None]
  /\ UNCHANGED <<cmd, seen, outcome, server, wire, back>>

ReactUnlock(c) ==
  /\ Answered(c, "unlock")
  /\ Report(c, CASE answer[c].status = 200 -> "unlocked"
                 [] answer[c].status = 404 -> "gone"
                 [] answer[c].status = 403 -> "forbidden"
                 [] OTHER                  -> "unknown")

\* A push goes on unless somebody else has locked what it pushes.
ReactVerify(c) ==
  /\ Answered(c, "verify")
  /\ Report(c, IF answer[c].status # 200 THEN "unknown"
                 ELSE IF \E l \in answer[c].theirs : l.path = cmd[c].path
                   THEN "blocked" ELSE "clear")

\* The user interrupts the command; a request that is out stays out.
HangUp(c) ==
  /\ pc[c] \in {"asked", "sent"}
  /\ outcome' = [outcome EXCEPT ![c] = "unknown"]
  /\ pc' = [pc EXCEPT ![c] = "done"]
  /\ back' = [back EXCEPT ![c] = None]
  /\ UNCHANGED <<cmd, ask, seen, server, wire, answer>>

-----------------------------------------------------------------------------
(* The handlers, up to their call *)

Send(c, request) ==
  /\ pc[c] = "asked"
  /\ request.op = ask[c].op
  /\ wire' = [wire EXCEPT ![c] = request]
  /\ pc' = [pc EXCEPT ![c] = "sent"]
  /\ UNCHANGED <<client, server, back, answer>>

\* Mutant: slug and path change places.
HandleCreateSwapped(c) ==
  Send(c, [op |-> "create", slug |-> ask[c].path, key |-> clone[c].user, path |-> Slug(c)])

HandleCreate(c) ==
  Send(c, [op |-> "create", slug |-> Slug(c), key |-> clone[c].user, path |-> ask[c].path])

\* Mutant: no client passes the filter on.
HandleListUnfiltered(c) ==
  Send(c, [op |-> "list", slug |-> Slug(c), paths |-> Paths])

\* The iroh client has no parameter for the path.
HandleList(c) ==
  Send(c, [op |-> "list", slug |-> Slug(c),
           paths |-> IF clone[c].via = "http" THEN {ask[c].path} ELSE Paths])

HandleVerify(c) ==
  Send(c, [op |-> "verify", slug |-> Slug(c), key |-> clone[c].user])

HandleUnlock(c) ==
  Send(c, [op |-> "unlock", slug |-> Slug(c), key |-> clone[c].user,
           id |-> ask[c].id, force |-> ask[c].force])

Answer(status) == [status |-> status, locks |-> {}, theirs |-> {}]

Respond(c, a) ==
  /\ answer' = [answer EXCEPT ![c] = a]
  /\ pc' = [pc EXCEPT ![c] = "answered"]
  /\ back' = [back EXCEPT ![c] = None]
  /\ UNCHANGED <<client, server>>

\* A path, a configuration, a key or a body that is no good.
Reject(c) ==
  /\ pc[c] = "asked"
  /\ \E status \in {400, 500} : Respond(c, Answer(status))
  /\ UNCHANGED wire

\* The call fails, or its answer cannot be read.  The request may have been lost
\* (it then stays on its way) or may get through yet.
CallFails(c) ==
  /\ pc[c] = "sent"
  /\ Respond(c, Answer(500))
  /\ UNCHANGED wire

-----------------------------------------------------------------------------
(* The handlers, after their call *)

Returned(c, op) == pc[c] = "sent" /\ ask[c].op = op /\ back[c] # None

\* The words of an error: those of the server, or of create_lock's own message.
Words(c) ==
  IF clone[c].via = "http" /\ ask[c].op = "create"
    THEN {IF back[c].op = "conflict" THEN {"already locked"} ELSE {}}
    ELSE Texts[clone[c].via][back[c].op]

AnswerCreate(c) ==
  /\ Returned(c, "create")
  /\ IF back[c].op = "created"
       THEN Respond(c, Answer(201))
       ELSE \E words \in Words(c) :
              Respond(c, Answer(IF "already locked" \in words THEN 409 ELSE 500))
  /\ UNCHANGED wire

AnswerList(c) ==
  /\ Returned(c, "list")
  /\ Respond(c, IF back[c].op = "ok" THEN [Answer(200) EXCEPT !.locks = back[c].locks]
                                     ELSE Answer(500))
  /\ UNCHANGED wire

\* Mutant: the two lists change places.
AnswerVerifySwapped(c) ==
  /\ Returned(c, "verify")
  /\ Respond(c, IF back[c].op = "ok"
                  THEN [Answer(200) EXCEPT !.locks = back[c].theirs, !.theirs = back[c].locks]
                  ELSE Answer(200))
  /\ UNCHANGED wire

\* Over HTTP a server that knows no locks has none.
AnswerVerify(c) ==
  /\ Returned(c, "verify")
  /\ Respond(c, CASE back[c].op = "ok" ->
                       [Answer(200) EXCEPT !.locks = back[c].locks, !.theirs = back[c].theirs]
                  [] back[c].op = "no_api" /\ clone[c].via = "http" -> Answer(200)
                  [] OTHER -> Answer(500))
  /\ UNCHANGED wire

\* Mutant: what is not an owner's error is a 404.
AnswerUnlockElse404(c) ==
  /\ Returned(c, "unlock")
  /\ IF back[c].op = "ok"
       THEN Respond(c, Answer(200))
       ELSE \E words \in Words(c) :
              Respond(c, Answer(IF "forbidden" \in words THEN 403 ELSE 404))
  /\ UNCHANGED wire

AnswerUnlock(c) ==
  /\ Returned(c, "unlock")
  /\ IF back[c].op = "ok"
       THEN Respond(c, Answer(200))
       ELSE \E words \in Words(c) :
              Respond(c, Answer(CASE "not found" \in words                    -> 404
                                     [] "not found" \notin words
                                        /\ words \cap {"forbidden", "owner"} # {} -> 403
                                     [] OTHER                                     -> 500))
  /\ UNCHANGED wire

-----------------------------------------------------------------------------
(* The lock server *)

\* Nobody hears the answer to a request whose command is gone.
Reply(c, a) ==
  /\ wire' = [wire EXCEPT ![c] = None]
  /\ back' = [back EXCEPT ![c] = IF pc[c] = "sent" THEN a ELSE None]
  /\ UNCHANGED <<client, pc, answer>>

In(c) == {l \in locks : l.slug = wire[c].slug}

Arrived(c, op) == wire[c].op = op /\ clone[c].api

ServeCreate(c) ==
  /\ Arrived(c, "create")
  /\ IF \E l \in In(c) : l.path = wire[c].path
       THEN Reply(c, [op |-> "conflict"]) /\ UNCHANGED server
       ELSE /\ lastId < MaxLocks
            /\ lastId' = lastId + 1
            /\ locks' = locks \cup {[id |-> lastId', slug |-> wire[c].slug, path |-> wire[c].path,
                                     owner |-> wire[c].key, repo |-> clone[c].repo]}
            /\ UNCHANGED clone
            /\ Reply(c, [op |-> "created"])

ServeList(c) ==
  /\ Arrived(c, "list")
  /\ Reply(c, [op |-> "ok", locks |-> {l \in In(c) : l.path \in wire[c].paths}])
  /\ UNCHANGED server

ServeVerify(c) ==
  /\ Arrived(c, "verify")
  /\ Reply(c, [op |-> "ok", locks  |-> {l \in In(c) : l.owner = wire[c].key},
                            theirs |-> {l \in In(c) : l.owner # wire[c].key}])
  /\ UNCHANGED server

MayUnlock(request, l) ==
  l.owner = request.key \/ (request.force /\ request.key \in Admins)

ServeUnlock(c) ==
  /\ Arrived(c, "unlock")
  /\ \E l \in In(c) : l.id = wire[c].id /\ MayUnlock(wire[c], l) /\ locks' = locks \ {l}
  /\ Reply(c, [op |-> "ok"])
  /\ UNCHANGED <<lastId, clone>>

RefuseUnlock(c) ==
  /\ Arrived(c, "unlock")
  /\ \A l \in In(c) : l.id = wire[c].id => ~MayUnlock(wire[c], l)
  /\ Reply(c, [op |-> IF \E l \in In(c) : l.id = wire[c].id THEN "forbidden" ELSE "not_found"])
  /\ UNCHANGED server

ServeNoLocks(c) ==
  /\ wire[c] # None
  /\ ~clone[c].api
  /\ Reply(c, [op |-> "no_api"])
  /\ UNCHANGED server

-----------------------------------------------------------------------------
Init ==
  /\ clone \in Clones
  /\ locks = {}
  /\ lastId = 0
  /\ cmd = [c \in Clients |-> None]
  /\ ask = [c \in Clients |-> None]
  /\ outcome = [c \in Clients |-> "none"]
  /\ seen = [c \in Clients |-> {}]
  /\ pc = [c \in Clients |-> "idle"]
  /\ wire = [c \in Clients |-> None]
  /\ back = [c \in Clients |-> None]
  /\ answer = [c \in Clients |-> None]

Daemon(c) ==
  \/ HandleCreate(c) \/ HandleList(c) \/ HandleVerify(c) \/ HandleUnlock(c)
  \/ Reject(c) \/ CallFails(c)
  \/ AnswerCreate(c) \/ AnswerList(c) \/ AnswerVerify(c) \/ AnswerUnlock(c)

GitLfs(c) ==
  \/ Begin(c) \/ HangUp(c)
  \/ ReactCreate(c) \/ ReactList(c) \/ UnlockListed(c) \/ ReactUnlock(c) \/ ReactVerify(c)

Server(c) ==
  \/ ServeCreate(c) \/ ServeList(c) \/ ServeVerify(c)
  \/ ServeUnlock(c) \/ RefuseUnlock(c) \/ ServeNoLocks(c)

Next == \E c \in Clients : GitLfs(c) \/ Daemon(c) \/ Server(c)

Spec == Init /\ [][Next]_vars

-----------------------------------------------------------------------------
(* Properties *)

Lock == [id : 1 .. MaxLocks, slug : {Slug(c) : c \in Clients}, path : Paths,
         owner : Users, repo : Repos]

Request ==
  {None}
  \cup [op : {"create"}, slug : {Slug(c) : c \in Clients}, key : Users, path : Paths]
  \cup [op : {"list"}, slug : {Slug(c) : c \in Clients}, paths : SUBSET Paths]
  \cup [op : {"verify"}, slug : {Slug(c) : c \in Clients}, key : Users]
  \cup [op : {"unlock"}, slug : {Slug(c) : c \in Clients}, key : Users,
        id : 1 .. MaxLocks, force : BOOLEAN]

\* Locks and requests are what they should be, and only a call that is out has
\* an answer on its way.
TypeOK ==
  /\ clone \in Clones
  /\ locks \subseteq Lock
  /\ lastId \in 0 .. MaxLocks
  /\ pc \in [Clients -> {"idle", "asked", "sent", "answered", "done"}]
  /\ wire \in [Clients -> Request]
  /\ \A c \in Clients : back[c] # None => pc[c] = "sent" /\ wire[c] = None
  /\ \A c \in Clients : (pc[c] = "done") <=> (outcome[c] # "none")

\* The lock is for the path and in the repository of the command.
Concerns(l, c) == l.repo = clone[c].repo /\ l.path = cmd[c].path

\* The locks of c's path that stood from its beginning until now; an id is given once.
Standing(c) == {l \in seen[c] \cap locks : Concerns(l, c)}

\* A path of a repository has one lock, whichever of its remote's forms a
\* working copy uses (daemon.rs:237-266).
OneHolder ==
  \A l, m \in locks : l.repo = m.repo /\ l.path = m.path => l = m

\* A lock goes only by a command that names its path, in its repository, by its
\* owner or forced by an admin; a list that shows other paths would make
\* git-lfs unlock the wrong file (daemon.rs:782-815, 857-893, lock_client.rs:156-181).
RemovedAsAsked ==
  [][\A l \in locks \ locks' : \E c \in Clients :
       /\ wire[c] # None /\ wire'[c] = None
       /\ cmd[c].kind = "unlock"
       /\ Concerns(l, c)
       /\ clone[c].user = l.owner \/ (cmd[c].force /\ clone[c].user \in Admins)]_vars

\* A push that goes on pushes no path that somebody else held all along
\* (daemon.rs:818-854, lock_client.rs:235-247).
ClearIsTrue ==
  \A c \in Clients : outcome[c] = "clear" =>
    \A l \in Standing(c) : l.owner = clone[c].user

\* What a command reports of a lock is so: a path that is locked or not found was
\* not held all along, a lock that is gone is gone, and one that is forbidden is
\* not the user's (daemon.rs:765-778, 880-892).
ReportsAreTrue ==
  \A c \in Clients :
    /\ outcome[c] \in {"locked", "no_match"} => Standing(c) = {}
    /\ outcome[c] = "gone" => \A l \in locks : l.id # ask[c].id
    /\ outcome[c] = "forbidden" => \A l \in locks : l.id = ask[c].id => l.owner # clone[c].user

\* Asked for one path, the daemon lists the locks of this path only: the test
\* of the lock client expects it (tests/lock_tests.rs:374-389).
ListHonoursPath ==
  \A c \in Clients : Answered(c, "list") =>
    \A l \in answer[c].locks : l.path = ask[c].path

=============================================================================
