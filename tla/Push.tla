-------------------------------- MODULE Push --------------------------------
(***************************************************************************)
(* A git push through the daemon: git-lfs posts a batch, puts the objects  *)
(* it names and verifies each one (handle_batch, handle_upload,            *)
(* handle_verify of daemon.rs).  The daemon is stateless: each request     *)
(* reads the configuration again, in two reads between which an editor may *)
(* change the files, and each goes where its own configuration says.       *)
(*                                                                         *)
(* A PUT is one step here; Upload has the handler in detail.  git-lfs and  *)
(* the servers are external.                                               *)
(***************************************************************************)
EXTENDS Config

CONSTANTS
  Objects,     \* what is pushed
  Batch,       \* the batch request
  Values,      \* what a line may have on the right of its =
  Contents,    \* contents that the two files may have
  Envs,        \* environments that the daemon may run in
  StoreOf,     \* the server behind an address
  Faults,      \* a subset of {"net", "race"}
  MaxTries,    \* bound: attempts of git-lfs at an object
  MaxEdits     \* bound: changes of the files

Stores    == {StoreOf[a] : a \in DOMAIN StoreOf}
Requests  == Objects \cup {Batch}

ASSUME PushAssumption ==
  /\ Batch \notin Objects
  /\ None \notin Values
  /\ \A content \in Contents \ {Absent, Unreadable} : content \in Seq([key : FieldNames, value : Values])
  /\ None \notin DOMAIN StoreOf
  /\ MaxTries \in Nat \ {0} /\ MaxEdits \in Nat

VARIABLES
  dalconfig,  \* .lfsdalconfig
  gitconfig,  \* .git/config
  env,        \* the environment of the daemon
  edits,      \* changes of the files so far
  stored,     \* what each server holds
  push,       \* the push: "idle", "batch", "transfer", "ok", "failed"
  req         \* the last request for each object, and the batch

vars == <<dalconfig, gitconfig, env, edits, stored, push, req>>

files == <<dalconfig, gitconfig, env, edits>>

(***************************************************************************)
(* op: "none", "batch", "put", "verify".  at: the read it is at, "dal" or  *)
(* "git", "serve" with the configuration in config, "ok" or "failed".      *)
(* tries: attempts so far.  calm: no file has changed since it began to    *)
(* read (history).                                                         *)
(***************************************************************************)
Idle == [op |-> "none", at |-> "ok", config |-> NoFields, tries |-> 0, calm |-> TRUE]

Request(op, tries) == [op |-> op, at |-> "dal", config |-> NoFields, tries |-> tries, calm |-> TRUE]

Init ==
  /\ dalconfig \in Contents /\ gitconfig \in Contents /\ env \in Envs
  /\ edits = 0
  /\ stored \in [Stores -> {{}, Objects}]
  /\ push = "idle"
  /\ req = [r \in Requests |-> Idle]

(***************************************************************************)
(* The daemon.                                                             *)
(***************************************************************************)
Set(r, at, config) ==
  req' = [req EXCEPT ![r] =
            [op |-> @.op, at |-> at, config |-> config, tries |-> @.tries, calm |-> @.calm]]

Answer(r, at) == Set(r, at, req[r].config)

ReadDal(r) ==
  /\ req[r].at = "dal"
  /\ IF dalconfig = Unreadable
       THEN Set(r, "failed", Refused)
       ELSE Set(r, "git", merge_from_content(NoFields, dalconfig))
  /\ UNCHANGED <<files, stored, push>>

\* The second file, the environment, the checks.
ReadGit(r) ==
  /\ req[r].at = "git"
  /\ LET config == IF gitconfig = Unreadable
                     THEN Refused
                     ELSE into_config(merge_from_env(merge_from_content(req[r].config, gitconfig), env))
     IN  Set(r, IF config = Refused THEN "failed" ELSE "serve", config)
  /\ UNCHANGED <<files, stored, push>>

\* Every object gets its actions; the server is not asked.
handle_batch(r) ==
  /\ req[r].op = "batch" /\ req[r].at = "serve"
  /\ Answer(r, "ok")
  /\ UNCHANGED <<files, stored, push>>

Serves(r, op, transport) == req[r].op = op /\ req[r].at = "serve" /\ transport # Refused

\* The servers behind a transport; an address that is none has nobody to answer.
Servers(transport) == {StoreOf[a] : a \in transport \cap DOMAIN StoreOf}

Refuse(r) ==
  /\ req[r].at = "serve"
  /\ \/ /\ req[r].op = "put"
        /\ make_transport(req[r].config) = Refused \/ req[r].config["chunk-size"] = "0"
     \/ req[r].op = "verify" /\ load_read_transport(req[r].config) = Refused
  /\ Answer(r, "failed")
  /\ UNCHANGED <<files, stored, push>>

\* The object is on one of the servers, or one of them takes it.
Put(r) ==
  LET transport == make_transport(req[r].config)
  IN  /\ Serves(r, "put", transport) /\ req[r].config["chunk-size"] # "0"
      /\ \E s \in Servers(transport) :
           \/ r \in stored[s] /\ stored' = stored
           \/ stored' = [stored EXCEPT ![s] = @ \cup {r}]
      /\ Answer(r, "ok")
      /\ UNCHANGED <<files, push>>

\* No server answers, or the answer of one that took the object is lost.
PutFails(r) ==
  LET transport == make_transport(req[r].config)
  IN  /\ Serves(r, "put", transport) /\ req[r].config["chunk-size"] # "0"
      /\ Servers(transport) = {} \/ "net" \in Faults
      /\ \/ stored' = stored
         \/ \E s \in Servers(transport) : stored' = [stored EXCEPT ![s] = @ \cup {r}]
      /\ Answer(r, "failed")
      /\ UNCHANGED <<files, push>>

\* Another PUT of the object has emptied the temporary file: 200 for nothing.
PutRaces(r) ==
  LET transport == make_transport(req[r].config)
  IN  /\ "race" \in Faults
      /\ Serves(r, "put", transport) /\ req[r].config["chunk-size"] # "0"
      /\ Servers(transport) # {}
      /\ Answer(r, "ok")
      /\ UNCHANGED <<files, stored, push>>

\* Mutant: exists(oid).unwrap_or(true).
VerifyAssumed(r) ==
  /\ Serves(r, "verify", load_read_transport(req[r].config))
  /\ Answer(r, "ok")
  /\ UNCHANGED <<files, stored, push>>

handle_verify(r) ==
  LET transport == load_read_transport(req[r].config)
  IN  /\ Serves(r, "verify", transport)
      /\ \E s \in Servers(transport) : r \in stored[s]
      /\ Answer(r, "ok")
      /\ UNCHANGED <<files, stored, push>>

\* 404, or 500.
VerifyFails(r) ==
  LET transport == load_read_transport(req[r].config)
  IN  /\ Serves(r, "verify", transport)
      /\ "net" \in Faults \/ \A s \in Servers(transport) : r \notin stored[s]
      /\ Answer(r, "failed")
      /\ UNCHANGED <<files, stored, push>>

Daemon(r) ==
  \/ ReadDal(r) \/ ReadGit(r) \/ handle_batch(r) \/ Refuse(r)
  \/ Put(r) \/ PutFails(r) \/ PutRaces(r) \/ handle_verify(r) \/ VerifyFails(r)

(***************************************************************************)
(* git-lfs.                                                                *)
(***************************************************************************)
StartPush ==
  /\ push = "idle" /\ push' = "batch"
  /\ req' = [req EXCEPT ![Batch] = Request("batch", 1)]
  /\ UNCHANGED <<files, stored>>

BatchAnswered ==
  /\ push = "batch" /\ req[Batch].at \in {"ok", "failed"}
  /\ IF req[Batch].at = "ok"
       THEN /\ push' = "transfer"
            /\ req' = [r \in Requests |-> IF r \in Objects THEN Request("put", 1) ELSE req[r]]
       ELSE push' = "failed" /\ UNCHANGED req
  /\ UNCHANGED <<files, stored>>

VerifyNext(o) ==
  /\ push = "transfer" /\ req[o].op = "put" /\ req[o].at = "ok"
  /\ req' = [req EXCEPT ![o] = Request("verify", req[o].tries)]
  /\ UNCHANGED <<files, stored, push>>

\* Mutant: attempts are not counted off.
RetryForEver(o) ==
  /\ push = "transfer" /\ req[o].at = "failed"
  /\ req' = [req EXCEPT ![o] = Request(req[o].op, req[o].tries + 1)]
  /\ UNCHANGED <<files, stored, push>>

Retry(o) ==
  /\ push = "transfer" /\ req[o].at = "failed" /\ req[o].tries < MaxTries
  /\ req' = [req EXCEPT ![o] = Request(req[o].op, req[o].tries + 1)]
  /\ UNCHANGED <<files, stored, push>>

Transferred(o) == req[o].op = "verify" /\ req[o].at = "ok"

GivenUp(o) == req[o].at = "failed" /\ req[o].tries = MaxTries

EndPush ==
  /\ push = "transfer" /\ \A o \in Objects : Transferred(o) \/ GivenUp(o)
  /\ push' = IF \A o \in Objects : Transferred(o) THEN "ok" ELSE "failed"
  /\ UNCHANGED <<files, stored, req>>

(***************************************************************************)
(* Somebody changes a file: an editor, git config, git checkout.           *)
(***************************************************************************)
Edit ==
  /\ edits < MaxEdits /\ edits' = edits + 1
  /\ \/ dalconfig' \in Contents \ {dalconfig} /\ UNCHANGED gitconfig
     \/ gitconfig' \in Contents \ {gitconfig} /\ UNCHANGED dalconfig
  /\ req' = [r \in Requests |->
                [op |-> req[r].op, at |-> req[r].at, config |-> req[r].config,
                 tries |-> req[r].tries, calm |-> FALSE]]
  /\ UNCHANGED <<env, stored, push>>

GitLfs == StartPush \/ BatchAnswered \/ EndPush \/ \E o \in Objects : VerifyNext(o) \/ Retry(o)

Next == GitLfs \/ Edit \/ \E r \in Requests : Daemon(r)

Spec == Init /\ [][Next]_vars

(***************************************************************************)
(* Properties.                                                             *)
(***************************************************************************)
Lines(content) == IF content = Absent THEN <<>> ELSE content

\* The documented rule for one field: the first usable value wins, of the lines
\* of .lfsdalconfig, then of .git/config, then of the environment (README.md:141).
FirstValue(k) ==
  LET lines == Lines(dalconfig) \o Lines(gitconfig)
      hits  == {i \in DOMAIN lines : lines[i].key = k /\ Usable(k, lines[i].value)}
  IN  CASE hits # {} -> lines[Min(hits)].value
        [] hits = {} /\ k \in EnvNames /\ Usable(k, env[k]) -> env[k]
        [] OTHER -> IF k = "chunk-size" THEN DEFAULT_CHUNK_SIZE ELSE None

\* The documented rule for the whole: a server is required unless iroh is forced
\* and has an endpoint (README.md:188), and a key that is there must be one.
Documented ==
  LET config == [k \in FieldNames |-> FirstValue(k)]
  IN  IF \/ Unreadable \in {dalconfig, gitconfig}
         \/ config["server"] = None
            /\ ~(config["transport"] = "iroh" /\ config["iroh-endpoint"] # None)
         \/ config["private-key"] # None /\ config["private-key"] \notin SecretKeys
        THEN Refused ELSE config

Read(r) == req[r].op # "none" /\ req[r].at \notin {"dal", "git"}

\* A request during which no file changed works with the documented merge of what
\* the files say, or is refused when that is no configuration: merging line by
\* line into the fields still empty comes to the same (config.rs:64-147).
MergeIsDocumented ==
  \A r \in Requests : Read(r) /\ req[r].calm => req[r].config = Documented

\* "Force a specific transport for all operations" (config.rs:40): a request with
\* a key and a forced transport uploads to, reads from and locks at one address,
\* when there is an upload and a lock transport at all.
ForcedTogether ==
  \A r \in Requests :
    LET config == req[r].config
        upload == make_transport(config)
        locks  == make_lock_transport(config)
    IN  req[r].at = "serve" /\ config["transport"] # None /\ upload \notin {Refused, {}} /\ locks # Refused
          => locks = upload /\ load_read_transport(config) = upload

Now == from_repo_path(dalconfig, gitconfig, env)

\* A push that reports success can be pulled from the same working copy: each
\* object is on a server that a download started now would ask, unless a file has
\* changed since the verify of the object began to read.  Changes before that, with
\* objects put to one server and verified on another, lost and late answers, and
\* PUTs that answer 200 without storing (run upload_race) make the push fail instead.
PushedMeansPullable ==
  push = "ok" =>
    \A o \in Objects : req[o].calm =>
      \E s \in Servers(load_read_transport(Now)) : o \in stored[s]

\* And it can be pulled without a key ("Downloads do not require a private key",
\* README.md:139), provided that a server is named and the iroh endpoint, if any,
\* is one of that server.
PushedForEverybody ==
  push = "ok" =>
    \A o \in Objects :
      /\ req[o].calm /\ Now["server"] \in DOMAIN StoreOf
      /\ Servers({Now["iroh-endpoint"]}) \subseteq Servers({Now["server"]})
      => \E s \in Servers(load_read_transport([Now EXCEPT !["private-key"] = None])) : o \in stored[s]

TypeOK ==
  /\ dalconfig \in Contents /\ gitconfig \in Contents /\ env \in Envs
  /\ edits \in 0 .. MaxEdits
  /\ stored \in [Stores -> SUBSET Objects]
  /\ push \in {"idle", "batch", "transfer", "ok", "failed"}
  /\ \A r \in Requests :
       /\ DOMAIN req[r] = DOMAIN Idle
       /\ req[r].op \in {"none", "batch", "put", "verify"}
       /\ req[r].at \in {"dal", "git", "serve", "ok", "failed"}
       /\ req[r].config = Refused \/ DOMAIN req[r].config = FieldNames
       /\ req[r].tries \in 0 .. MaxTries /\ req[r].calm \in BOOLEAN

=============================================================================
