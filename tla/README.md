# Formal model of blossom-lfs

blossom-lfs is a daemon that speaks the Git LFS protocol to a local `git-lfs`
and stores the objects on a Blossom server. This directory holds a TLA+ model
of it, the TLC configurations that check the model on small instances, and
proofs that TLAPS checks for every instance. `PROJECT.json` is the index: which
definition models which lines, what each run checks, which hazard of the code
each property is for.

```
tlc -workers 2 -config Upload_exclusive.cfg MCUpload.tla    # and the other .cfg files
tlapm UploadProofs.tla                                      # and the other *Proofs.tla
```

Source paths below are relative to the crate (`src/daemon.rs`, ...).

## 1. Inventory

| Part | State it keeps | Operations | Talks to | What is hard | What makes it correct |
|---|---|---|---|---|---|
| Upload handler, `daemon.rs` `handle_upload`, `upload_chunked` | the file `<repo>/.blossom-lfs-tmp/upload-<oid[..16]>`; local variables of each handler | PUT of an object | chunker, transport; other handlers through the file | handlers interleave at every await on a path named after the oid; errors dropped with `ok()` and `unwrap_or_default()`; hang-ups and crashes leave the file | a 200 means the object is stored; a manifest names stored chunks and describes one file; no answered handler leaves its file unless its removal failed; a handler answers |
| Download handler, `handle_download`, `chunk_download_stream` | a detached task, a channel of 4 chunks, the response body | GET of an object | transport, manifest, hyper | status and length go out before the chunks are fetched; task and connection wait for each other; the client leaves | bytes in order; a complete answer is the whole file; the task ends; the client is answered |
| Chunker, `chunking/chunker.rs` | none | cut a file, read one chunk | file system | the file is opened once per call | chunks cover the file in order |
| Manifest and Merkle tree, `chunking/manifest.rs`, `merkle.rs` | none | new, verify, chunk_info, build_tree, proof, verify_proof | - | odd levels, empty lists, fields that contradict each other | a proof of a leaf verifies; offsets and sizes tile the file |
| Chunk assembler, `chunker.rs` | a directory of chunk files | write_chunk, assemble | file system | unused by the daemon | the assembled file is the chunks in order |
| Batch and verify, `handle_batch`, `handle_verify` | none | POST batch, POST verify | transport | batch does not ask the server; verify comes after the PUT | a push that reports success stored its objects |
| Locks, `daemon.rs` lock handlers, `lock_client.rs` | none here; the locks are the server's | create, list, verify, unlock over HTTP or iroh | lock server | lost answers and retries; statuses recovered from texts; filters lost on one transport | one owner per path; the client learns who it is |
| Configuration, `config.rs` | none; read again by every request | merge of two files and the environment | file system | first value wins per field, unparsable values do not count | the merge is the documented one |
| Transport, `transport.rs` | none | upload, upload_lfs, download, exists | Blossom server | a call may fail after it was applied | - |
| Routing and lookup, `run_daemon`, `decode_repo_path`, `derive_repo_slug` | the port | dispatch | git | malformed requests | - |
| Setup, clone, install, service, `ops.rs` | git configuration, unit or plist file, running daemon | setup, clone, install, uninstall | git, systemctl, launchctl | exit statuses dropped, one command of several failing | repositories point at the daemon that runs |
| Command line, `main.rs`, `lib.rs`, `error.rs` | none | parse and call `ops` | - | - | - |

All handlers run concurrently on tokio. They keep no state in the process
except the port: what they share is the temporary directory of each repository
and the remote server. `PROJECT.json` "hazards" lists what can go wrong, line
by line, with the property that would show it or the reason why none does.

## 2. What is modelled

| Module | Models |
|---|---|
| `Upload` | the upload handlers, their temporary directory, the server, and their failures |
| `ObjectStore` | what a client is promised about PUT: an abstract specification |
| `UploadRefines` | the refinement mapping from `Upload` to `ObjectStore` |
| `UploadClaims` | two statements of tests and docs that the code does not keep |
| `UploadProofs` | theorems about `Upload`: types, closed manifests, files, and what a 200 means |
| `ExclusiveProofs` | theorems about uploads in turn: manifests reassemble, and `Upload` implements `ObjectStore` |
| `Joins` | lemmas on joined sequences and prefixes, and induction over sets of numbers; used by four proof modules |
| `Download` | one download: handler, detached task, channel, connection |
| `DownloadProofs` | the bytes come in order, a complete answer is whole, nothing is fetched for nobody |
| `Merkle` | the Merkle tree: building, proving, verifying, one loop iteration per step |
| `MerkleProofs` | the walk of a proof stays in the tree, the root is that of the definition and binds the pairs that are hashed, and digests one by one; a proof is accepted for its leaf only |
| `Locks` | the lock handlers and the lock client, between git-lfs commands and a lock server |
| `LocksProofs` | one lock per path, removed only as asked; reports are true |
| `Config` | the merge of the two files and the environment, and the transports that follow from it: operators only |
| `Push` | a push of git-lfs through the daemon: batch, PUT, verify, retries, each request with a configuration of its own; over `Config` |
| `PushProofs` | a push that reports success can be pulled; the merge is the documented one |
| `Service` | the commands of `ops.rs`, the service manager, the daemons and the working copy that is to use them |
| `ServiceProofs` | reports of install, uninstall, setup and clone are true; how a service is orphaned |
| `MCUpload`, `MCDownload`, `MCMerkle`, `MCLocks`, `MCPush`, `MCService` | constants for TLC |

### Upload

State and code:

| Variable | Code |
|---|---|
| `store` | the server: a set of blobs, each under its own hash |
| `dirent`, `inode` | `.blossom-lfs-tmp`: path to inode, inode to contents. An open file outlives its name, so the two are apart; an inode is named after the handler that created it |
| `pc[r]` | the await at which handler `r` is suspended |
| `resp[r]` | the status its client got, or `gone` |
| `fd`, `sent`, `lost` | `file` of the spooling loop, frames consumed, an unreported failure of a buffered write |
| `size`, `extent`, `hashes`, `buf` | `file_size`, the length `chunk_file` measured, `chunk_hashes`, the data in hand |
| `opener`, `unremoved` | history, which no step reads: who was the last to open the file at a path with `File::create`, and which handlers could not remove it |

One action is the code between two awaits that others can observe. Three
groupings are coarser. `exists(chunk)` and `upload(chunk)` are one action, since
the server only grows and files a blob under its hash: asking first changes no
outcome. `chunk_file` reads the whole file but uses only its length, and the
data are read again chunk by chunk, which is modelled. `Reject` stands for
every early return before the handler touches anything. Each error path
includes its `remove_file`: it is one action with the answer (`RemoveFile`). The
error of the removal is dropped with `ok()`, so the handler answers all the same
(`Unlink`). A handler dropped between the two leaves the files as one that answered does, and
its client learns nothing: `Abandon`, followed at once by `LateRemove`.

Failures come from the constant `Faults`:

- `disk`: a file operation fails and the handler sees it (`WriteFails`,
  `StatFails`, `ChunkFileFails`, `ReadChunkFails`, the panic of `CreatePanics`);
- `unlink`: `remove_file` fails and `ok()` drops the error (lines 600, 610, 621,
  644, 652): the handler answers and its file stays, as after a crash;
- `silent_disk`: it fails and the handler drops the error. tokio's `File`
  buffers, so `write_all` can return `Ok` for data that is lost later, and the
  last chance to hear of it is `flush().await.ok()` (line 604); and
  `std::fs::read(..).unwrap_or_default()` (635) turns an error into an empty
  file;
- `net`: a call to the server fails, whether or not the server applied it, and
  `exists` that fails counts as `false`;
- `body`: the body ends with an error, which line 598 takes for an empty frame;
- `cancel`, `crash`: the client hangs up and the handler's future is dropped;
  the process dies;
- `late`: the future is dropped while it awaits `File::create`, a write or
  `remove_file`. tokio runs these on its blocking pool, where they outlive the
  handler: `CreateDropped`, `WriteDropped` and the second way of `RemoveFile` leave
  the operation behind, and `LateCreate`, `LateWrite`, `LateRemove` run it at any
  later time, or never if the daemon dies first. The label of the dropped handler
  names the operation (`LateLabels`).

Two specifications limit who runs when. `Spec` lets any handlers interleave.
`ExclusiveSpec` starts no upload while another one of the same path is in
flight, which is what one `git-lfs` process does: it transfers each oid once
per push and retries only after an answer or a broken connection. The path
is per repository, so a race takes two pushes from one working copy.

### Download

One GET is enough: downloads share nothing they write. `want` is the blob the
oid names, `pc` the handler and its response, `task`, `next`, `held` the
detached task, `chan` and `rx` the channel and its receiving end, `left` what
is missing to the Content-Length, `got` what the client has. Manifests are not
only those of `Upload`: any BUD-17 writer may have stored them, `verify()` looks
at nothing but the root, and so `chunks`, `chunk_size` and `file_size` are
free in `MCDownload`. `chunk_info` panics (in the task, after the 200) on an
index beyond the hashes and, with overflow checks, on a `file_size` below the
last offset; a release build wraps instead, and as only the hash of the chunk
is used, it goes on. Hyper is external: `WriteFrame`, `Complete`, `EndOfBody`
say that it drops empty frames and bytes beyond the Content-Length and breaks
the connection when the body is short.

### Merkle

`leaves`, `at`, `claim` and `by` are the arguments: which tree, which leaf, which
hash is claimed to stand there, and whether `verify_chunk` or `verify_merkle_root`
asks. `tree` holds the levels, `level`, `index`, `path` the loop of `proof`,
`folded`, `current` that of `verify_proof`. `HashPair` is SHA-256 of two decoded
strings, one after the other: where the left one ends is not recorded. SHA-256 is
injective, and no node is equal to the hash of a chunk. Bytes are sequences of
`Blocks`, and those of a digest are one block; a leaf that is not hex decodes to
nothing (`Bytes`), as `unwrap_or_default` has it, and one that is hex may be longer
than a digest. So `hash_pair(bad, x) = hash_pair(x, bad)` in the model as in the
code, and two strings can be divided between two places in different ways.
`RootBindsPairs` states exactly what a root binds: the bytes of each pair that is
hashed. That it binds the chunks one by one needs lists that decode to as many bytes
at each place (`RootBindsChunks`), as SHA-256 hashes do; `Manifest::verify` does not
look at that.

### Locks

A client is one command of git-lfs: `lock`, `unlock` (a list for the path, then
an unlock of the one lock listed), or the lock check of a `push`. `clone` is the
working copy it runs in, which decides all that the daemon adds to a request: the
name of the repository (`Slug`), the key, the transport. `ask` and `answer` travel
between git-lfs and the daemon, `wire` and `back` between the daemon and the
server. `Words` are the parts of an error text that the handlers look for; for
errors of the server the constant `Texts` gives what they may contain, after the
tests over HTTP and freely where nothing in the repository says.

`CallFails` stands for every failure of the call or of reading its answer; the
request stays on `wire`, where it is never served (lost) or served later. `HangUp`
leaves it there too. git-lfs, the server and its rules (one lock per path, the owner or a
forcing admin unlocks) are external, taken from how `src/` and the test servers
use them. The fields `repo` of a lock and `seen` are history.

### Config and Push

A file is the sequence of its `key = value` lines (`merge_from_content` skips the
rest and ignores sections), a merge is a fold of `merge_line` that fills a field
only when it is empty and the value is usable, and a transport is the set of
addresses a call may try. `None` is `Option::None`; `Refused` is every error of
`into_config` or of making a transport.

| Variable | Code |
|---|---|
| `dalconfig`, `gitconfig`, `env` | the two files as they are now, the environment the daemon was started in |
| `req[r]` | the last request about object `r` (or the batch): its handler (`op`), the read of `from_repo_path` it is at (`dal`, `git`), then `serve` with the merged fields in `config`, then its answer |
| `stored[s]` | the blobs on server `s`; `StoreOf` maps an address to the server behind it |
| `push` | git-lfs: batch, transfer, and what it reported |

The daemon keeps nothing between requests, so each handler starts with
`ReadDal`, `ReadGit`, and between any two steps `Edit` may change a file. What a
handler does then is one step: `Upload` has the PUT in detail, and here it has the
outcomes it has there: stored and 200, 200 without storing (`PutRaces`: the race of
`upload_race`, or a lost last write), failed and stored or not. git-lfs is
external: after a 200 for the PUT it posts `verify`, and the object is done when
that answers 200; after a failure it tries again, `MaxTries` times in all. The
field `calm` is history: no file has changed since the request began to read.

### Service

A command is a list of steps (`Program`), `pc` the step it is at; `Done` is a step
that worked, `Drop` one whose failure the code throws away (`let _ =`, or a `status()`
whose exit code nobody looks at), `Bail` one that ends the command. `SpawnIgnored`
and `StatusIgnored` say which are which. `dropped` is history.

| Variable | Code |
|---|---|
| `cmd`, `pc`, `said` | the `Commands` value with its port, the line of its function, its outcome |
| `unit` | the port in `blossom-lfs.service` or the plist, `None` without the file |
| `loaded`, `enabled`, `wanted` | the service manager: the definition it has read, whether login starts it, whether it keeps it up |
| `proc`, `shell` | where the daemon of the service and one started by hand (`run_daemon`) listen |
| `repo`, `via` | the git configuration that `setup_repo` writes, the branch that is out, and where `git lfs pull` got the objects |

systemd and launchd are external, as far as the commands use them: `daemon-reload`
reads the file again and leaves the running daemon alone, `start` does nothing for a
unit that is up and does not wait for the port (`Type=simple`), `load -w` does nothing
for a label that is loaded, `unload` ends the daemon. `Exit` is an exit that they
restart: an error of `run_daemon` or a signal such as SIGKILL
(`Restart=on-failure`, `KeepAlive`). `CheckTools` stands for `git --version`,
`git lfs version` with the attempt to install it, and `git lfs install`, none of
which touches this state.

## 3. What TLC checks

| Run | Question | Instance | Distinct states |
|---|---|---|---|
| `upload_exclusive` | With one upload at a time per path, does 200 mean stored, do manifests describe the file, does the handler implement `ObjectStore`? | three requests: a chunked file of 3 units, a plain one of 2, and a retry of the first on its path; chunks of 2; all faults but `silent_disk` and `late` | 700,481 |
| `upload_shared` | What holds when two uploads of one object race and errors are dropped? | two requests, 3 units, one path; all faults but `disk` | 1,135,357 |
| `download` | Is the stream in order, whole when complete, and never stuck? | 6 chunks of one unit over a channel of 4; nine manifests, four of them inconsistent; every fetch may fail; hang-up at any time | 662 |
| `merkle` | Is the tree the one its documentation defines, is a proof accepted for its leaf only, what of the chunks does the root bind? | every list of up to three hashes out of five, two of which are not hex and one of which has the bytes of two digests, and of four to six out of two; every position, one beyond the end included; every claim | 128,288 |
| `locks` | Does a path have one lock, does only the right command remove it, are reports true, does a push respect the locks? | three commands that lock and unlock two paths (two users, one an admin, two forms of remote, one copy on iroh), or a lock and two pushes (HTTP or iroh, one server without locks); up to three locks | 613,187 |
| `push` | Does the merge do what the README says, and does a push that reports success mean that the objects can be pulled, whatever changes while it runs? | two objects (symmetric), two attempts, one change of a file at any moment; seven contents of a file, with keys given twice and values that do not parse, an environment or none; two servers, one also behind an iroh endpoint; failing calls and PUTs that answer 200 for nothing | 1,783,059 |
| `service` | Are the reports of setup, clone, install and uninstall true, whatever earlier commands left half way? Does the daemon come up again? | three commands, two ports, Linux and macOS; any step fails or is interrupted, daemons exit, logins, a daemon started by hand | 1,060,918 |
| `service_branch` | violation of `OnDefaultBranch` | one clone, no fault | |
| `locks_iroh` | violation of `ListHonoursPath` | the lock and unlock commands, all on iroh | |
| `upload_race` | violation of `SameBlobOutcome` | two requests, 2 units, no fault | |
| `upload_manifest_race` | violation of `ManifestReassembles` without `Alone` | two requests, 3 units, no fault | |
| `upload_oid` | violation of `OidPointsToManifest` | two requests in turn, 3 units, no fault | |

Why the bounds are enough. A body of three units with chunks of two has a full
chunk and a short last one; two units are the largest file that is not chunked.
Two handlers give every race on one path, and the third of `upload_exclusive`
is the retry that finds the file of a dead handler. Body frames are one unit:
a longer frame is several of them with nothing in between. Six chunks exceed the
channel (4) plus the one in the task's hand plus the one being written, so that
the task really blocks. Five leaves give odd levels at the bottom and above it, six
only above it. Three commands are the least in which a path is
locked by one, unlocked by another and locked again while a third acts on what it
listed before. In `push` two objects let one be verified before a change of the
configuration and the other after it, and one change between any two reads gives
every mixture of an old and a new file that two reads can see; a second attempt is
the least that has a retry. In `service` three commands are one that is left half
way, one that builds on it, and one whose report is checked; two ports are the
old and the new one. The runs switch the deadlock check off, as every request is
served at most once and the system then stops; `service` keeps it on, since one
can always log in again.

`ImplementsObjectStore` is the refinement. `ObjectStore` knows objects and
calls: an upload opens, its slices of the object may appear on the server one by
one, it is accepted only when the object is there, or it fails, or the
connection is cut. So a failed upload may leave pieces and even the object, but
never anything that is not a slice of what was sent.

Fairness. `Work(r)` is weakly fair: once the body is in the file, a handler
waits only for the local file system and for calls that `make_transport` gives
300 s (lines 115, 125, 132). Spooling is not fair: a client may never finish its
body. The download task and handler are fair for the same reason
(`load_read_transport`, line 177). `Connection` is fair: a connected client
reads. `Bind` of `Service` is fair: `KeepAlive`, and `Restart=on-failure` with
`RestartSec=5`, which stays below the start limit of systemd, try for ever.
Commands of the user are not fair. Without the assumption on `Connection` a task blocked in `send` waits for ever; the code
has no timeout there, and the hazard list says so.

### Findings

1. `upload_race`: two uploads of one object answer 200 and 500, and the object
   is not on the server, although `tests/concurrent_tests.rs:96-98` expects to
   download it. The second `File::create` truncates the file that the first
   handler is about to read. `git-lfs` itself survives this case as it posts
   `verify` after the PUT (a 404 there fails the push).
2. `upload_manifest_race`: the same race stores a manifest whose `file_size`
   is not the total of its chunks.
3. `upload_oid`: the comment at `chunking/manifest.rs:28-30` says the oid points
   to the manifest. The handler stores the manifest under the hash of its JSON
   and the whole file under the oid, so no oid leads to a manifest written by
   this program, and chunked downloads serve other writers' manifests only.
4. `locks_iroh`: over iroh, `list_locks` drops the path. `git lfs unlock <path>`
   looks its lock up with this list, so it fails when there are several locks,
   and when the only lock is the user's own on another path it removes that
   one. `RemovedAsAsked`, which says that a lock goes only by a command that names
   its path, therefore holds in run `locks` because the working copies that unlock
   are on HTTP there.
5. `service_branch`: the comment at `ops.rs:145-147` says "Checkout the default branch".
   `clone_repo` takes the first line of `git branch -r` without `HEAD` in it
   (155-159), which is the first branch by name: a clone whose default is `main`
   ends on `develop` if there is one.

`InstallIsTrue` has a condition about Linux that the code needs: `systemctl start`
(`ops.rs:470`) leaves a daemon that is up alone, so a second `install --service`
with another port rewrites the unit and reports success while the old port is
served until the next restart. `PushedForEverybody` has one about addresses: whoever
has a key uploads and verifies over iroh too, whoever has none reads over HTTP
alone, so the endpoint has to belong to the server that is named.

`OneHolder` speaks of repositories, not of the names the server sees. It holds
for working copies whose remotes are written as `https://`, `http://` or `git@`;
`ssh://` and a copy without a remote get names of their own (`Slug`), and then a
path can have two holders.

`ClearIsTrue` speaks of repositories whose copies use one server. A 404, which
`verify_locks` takes for "no locks" (`lock_client.rs:243`), is then the truth: a server
without the lock API keeps none. A repository behind servers of both kinds, or one
whose server loses the API, is not covered: a push through the one without the API
goes ahead over the locks that another keeps, and the hazard list says so.

`TmpOwned` lets a handler leave its file where the removal itself failed, as the code
does. What it left is what a crash leaves: the retry opens and truncates it, and
`OkImpliesStored` and `ManifestReassembles` hold with it (`upload_exclusive`).

## 4. What is proved

Every invariant that a run checks, every action property, and the refinement are
theorems. A theorem holds for all values of the constants that satisfy the named
assumption of its module; what it needs beyond is stated in it, and said here.

`UploadProofs.tla` (`ConstantsAssumption`: chunk size positive, bodies sequences over
`Units`, `NoFile` not a request):

| Theorem | Statement | Argument |
|---|---|---|
| `Typing` | `Spec => []TypeOK` | inductive as it stands; it carries two facts besides types, that a spooling handler has an open file and that only the fault `late` leaves an operation behind |
| `ManifestsAreClosed` | `Spec => []ManifestClosed` | strengthened by `HashesStored`: while a handler is cutting, every hash in its list is stored. `PutChunk` stores before it appends; the store never shrinks |
| `AnsweredLeavesNoFile` | `Spec => []TmpOwned` | strengthened by `TmpInv`: a path names an inode made for that path, its last opener may have left the file there (`MayLeave`: it works, was killed, or is in `unremoved`), and an operation is left behind only where the connection died. Needed because `Fail` and `Finish` remove whatever the path names, and `CreateFile` reuses what it finds |
| `OkMeansStored` | `ExclusiveSpec => []OkImpliesStored`, see below | `OkInv`: at most one handler per path is in flight (`OneAtATime`); while it is, its path names its own file with exactly the prefix it was sent (`Spooled`); from there each label says what is already true (`Progress`: the buffer before the last upload is the whole body, at `finish` it is stored) |

`ExclusiveProofs.tla`, over the same invariants:

| Theorem | Statement | Argument |
|---|---|---|
| `ManifestsReassemble` | `ExclusiveSpec => []ManifestReassembles`, see below | `CutInv`: what a handler has cut joins to the beginning of its body, the buffer is the next part, `file_size` and the length that was measured are both what it spooled (`HasCut`). `OkInv` gives that each `read_chunk` finds the file as it was |
| `UploadsImplementObjectStore` | `ExclusiveSpec => ImplementsObjectStore`, see below | the refinement of `UploadRefines`, action by action: a step stores slices of the body (by `CutInv`), answers (200 by `OkInv`), cuts the connection, opens, or is a stutter. A manifest that the server gets is no slice and so no piece of an object |

`OkMeansStored`, `ManifestsReassemble` and `UploadsImplementObjectStore` suppose
`"silent_disk" \notin Faults` and `"late" \notin Faults`, and uploads of one path in turn
(`ExclusiveSpec`). The first needs all three. `upload_race` violates its conclusion
when handlers race (and `upload_manifest_race` that of the second), and a lost last
write does with `silent_disk`. With `late` added to
the faults of `upload_exclusive`, TLC finds this: the client hangs up while
`File::create` is pending, retries the oid, the retry spools its body, and only then
the first `File::create` runs and empties the file that the retry reads. The retry
stores an empty blob and answers 200. `git-lfs` is told by verify (`push`).

`DownloadProofs.tla`, for any blobs, manifests (consistent or not), capacity and
faults, and both kinds of build:

| Theorem | Statement | Argument |
|---|---|---|
| `DownloadTyping` | `Spec => []TypeOK` | part of `DownloadInv` |
| `BytesComeInOrder` | `Spec => []InOrder` | `DownloadInv`, with the equation `Flow`: what the client has, then what waits in the channel, is what the chunks up to the task's position join to. It holds while part of the Content-Length is unwritten; the frame that reaches it is cut, and from then on the channel is only dropped, so that what the client has stays a prefix |
| `FullLengthIsWholeFile` | `Spec => []CompleteIsWhole` | the same with `Counted`: what is left and what is there add up to the announced length; a prefix of full length is the whole |
| `NobodyFetchedFor` | `Spec => NoFetchForNobody` | `Listening`: the receiver is there as long as the response is open, and before it opens there is no task |

`MerkleProofs.tla`, for lists of any length (`MerkleAssumption`: `Bytes` says of each
hash the blocks it decodes to):

| Theorem | Statement | Argument |
|---|---|---|
| `ProofStaysInTree` | `Spec => []SiblingInBounds` | `WalkInv`: each level is half as wide as the one below, rounded up (`Shape`), and the walk is at a position of its level (`Walk`); halving the position keeps it inside. The lemmas on sequences make no assumption on what the nodes are |
| `MerkleTyping` | `Spec => []TypeOK` | part of `TreeInv` |
| `RootMatchesReference` | `Spec => []RootIsReference` | `TreeInv`: each level is made from the one below it (`Grown`). By induction over the levels a node is the node of the definition at its place, and the height of the definition is the number of levels |
| `RootIsThePairs` | `NodesDecode` gives `Spec => []RootBindsPairs` | equality of two roots comes down the tree a level at a time to the lowest nodes, where a digest has the bytes of a pair (`EqualDown`, `LowestNodes`), and goes up from them again (`EqualUp`) |
| `RootBinds` | `NodesDecode` gives `Spec => []RootBindsChunks` | from the pairs: two halves of known widths are recovered from what they make together (`Splits`) |
| `ProofAcceptsItsLeaf` | `NodesDecode` gives `Spec => []AcceptsItsLeaf` | `ClaimInv`: the path collected so far is the siblings of the ancestors of the leaf (`Trail`), and what is folded so far decodes like the ancestor at its height exactly when the claim decodes like the leaf (`FoldedTo`). Both have the same sibling on the same side, which cancels (`SiblingCancels`), so no width is supposed |

`NodesDecode` says that the bytes of a node are the one block of its digest: the hex of
a digest decodes to it, and SHA-256 is taken to be injective. `NewNodesDecode` proves it
whenever no node is one of the chunk hashes, which is so in run `merkle`. Leaves that
are not hex remain: the theorems speak of the bytes that a leaf decodes to.

`LocksProofs.tla`, for any number of commands, working copies, paths and users:

| Theorem | Statement | Argument |
|---|---|---|
| `LocksTyping` | `Spec => []TypeOK` | `TypedInv`: a request that is out is the one that was asked (`Staged`), and answers that carry locks carry locks. Its proof showed that `ReactList` and `ReactVerify` had overlapping cases for statuses other than 200, and the model was corrected |
| `OneHolderPerPath` | `Spec => (Agree => []OneHolder)` | `HolderInv`: a lock was made under the slug of a working copy of its repository (`Made`), and what creates travels under its sender's slug (`Slugged`). The server refuses a path that is locked under the slug, so by `Agree` one that is locked in the repository |
| `RemovalAsAsked` | `Spec => (Agree /\ ListsByPath => RemovedAsAsked)` | `RemovalInv`: whatever a command has listed, asked for or sent `Points` to locks of its own path or to none. Ids are not given again, so this survives every other step: a late unlock finds the lock it was meant for, or nothing |
| `ClearPushes` | `Spec => (Agree /\ OneServer => []ClearIsTrue)` | `TruthInv`: what the server answers (`Brings`), what the daemon makes of it (`Says`) and what git-lfs reports (`Claims`) are true of the locks that stood all along (`Standing`). Those only become fewer, because a lock that goes is not made again under its id, so what was true when the server answered stays true however late it arrives |
| `ReportsTellTruth` | `Spec => (Agree /\ OneServer /\ TextsTell => []ReportsAreTrue)` | the same invariant |

The conditions speak of the working copies, which no step changes, and of the
constant `Texts`. `Agree`: two copies have the same slug exactly when they are of the
same repository; without it (a remote written `ssh://` beside one written `https://`) a
path gets two holders. `ListsByPath`: unlock commands run over HTTP; without it
`locks_iroh`. `OneServer`: all copies of a repository use a server that has locks, or
all one that has not; otherwise a push that is told there is no lock API goes on
although somebody holds the path. `TextsTell`: `not found`, `forbidden` and `owner`
appear in the text of no other error; the handlers look at nothing else
(`daemon.rs:880-892`). All four hold in every state of run `locks`.

`PushProofs.tla`, for any objects, contents, environments, addresses, attempts and
changes (`PushAssumption`, `ConfigAssumption`: files are sequences of lines, `None` and
`Refused` are no values):

| Theorem | Statement | Argument |
|---|---|---|
| `PushedCanBePulled` | `Spec => []PushedMeansPullable` | `PushInv`: a request during which no file changed has in `config` what the files read so far give (`Calm`); a verify that answered 200 found the object at an address of its own configuration, and servers only grow (`Found`); a push says `ok` when all objects are there (`Ended`). An `Edit` clears `calm` for all, so only requests that began after it count |
| `PushedCanBePulledByAll` | `Spec => []PushedForEverybody` | the same invariant; `KeylessAsksServer`: when the endpoint is of the server, all addresses of a verify lead to the store that a reader without a key asks |
| `PushTyping` | `Spec => []TypeOK` | `TypedInv` adds to `PushInv` what a request has in hand |
| `MergedAsDocumented` | `Spec => []MergeIsDocumented` | the fold over the lines of a file is unrolled one line at a time (`FoldSteps`); after each, every field has the first usable value so far (`Fills`), so in the end the documented one |
| `ForcedTogetherAlways` | `Spec => []ForcedTogether` | merged fields hold usable values only (`TypedInv`), so a transport that is forced is `http` or `iroh`, and in each case the three functions choose one address |

The PUT plays no part in the first two: what a push reports rests on verify alone,
which is why the race of `upload_race` makes a push fail and loses nothing silently.

`ServiceProofs.tla`, for any number of commands, ports and failures:

| Theorem | Statement | Argument |
|---|---|---|
| `InstallReportsTruth` | `Spec => []InstallIsTrue` | `ServiceInv`: at each line of its program a command relies on what the lines before it have done, unless the failure of one was dropped (`Installing`). Of the state it finds it relies on one thing only, that no daemon of the service runs that is not wanted (`Idle`) |
| `UninstallReportsTruth` | `Spec => []UninstallIsTrue` | the same with `Uninstalling`; after the report no login, exit or restart brings the service back |
| `OrphansByDropOnly` | `Spec => OrphanedOnlyByDrop` | a service becomes wanted only when its file is there, and the step that removes the file comes after the one that stops it, so an interruption between any two steps is harmless |
| `ServiceTyping` | `Spec => []TypeOK` | part of `CopyInv` |
| `SetupReportsTruth` | `Spec => []SetupIsTrue` | `CopyInv`: before line n the first n - 1 settings are made, for setup and, two lines later, for clone (`Configuring`), whatever an earlier setup left half way |
| `ClonesComeThroughDaemon` | `Spec => []ClonedThroughDaemon` | `Addressed`: a clone knows no other address than the one it was given, and knows none only when the failure of the line for `lfs.url` was dropped |

What stays with TLC: the liveness properties `AnsweredAfterBody`, `TaskEnds`,
`Answered` and `ComesUp`, since the provers have no rule for fairness, and the runs
that expect a violation. Induction over data is done without the library's induction
theorems, which no installed prover can use: `Joins` proves from the least element of
a set of numbers that a set with 0 that is closed under successor has all numbers
(`NumbersInduction`), and each use names the set of numbers for which its statement
holds. The model's
recursion is in recursive functions and folds, whose values follow from their definitions.

## 5. Not modelled

- `ChunkAssembler`: nothing in the daemon calls it.
- In uploads: the clock (`created_at`), file names in manifests, headers; the
  server's own checks and access control; a call that times out at the daemon and
  is applied by the server later still (`PutFails` applies it at once or never);
  the panic of `&oid[..16]` on a short oid; a `create_dir_all` or a `metadata` call
  that outlives its handler, which change nothing that others see.
- SHA-256 is injective: a blob stands for its hash.
- In the configuration: `daemon-port` and the two limits, which fill fields that
  nothing reads; `from_git_config`, which nothing calls; the order in which
  `MultiTransportClient` tries its addresses (any of them may serve a call).
- Malformed requests and `decode_repo_path`: they are refused before anything
  changes, as every handler may refuse. A working copy that moves.
- In `Service`: a unit file that `fs::write` leaves cut short, bare clones, a clone
  into a directory that exists, the wording of the reports. The failure of a step
  leaves its state alone: `git config`, `systemctl` and `launchctl` are taken to do
  all or nothing.
- Logging, module and error declarations, which keep no state.

## 6. Plan

The plan of the first version is done: every component that runs is modelled, and
every safety property that a run checks is a theorem. What could follow:

1. What an upload guarantees when handlers do share a path: `ManifestClosed` and
   `TmpOwned` are proved for it, while the weakest condition under which a 200 means
   stored is known from `upload_race` by example only.
2. The conditions of the lock theorems as statements about remotes: `Agree` from the
   forms that `derive_repo_slug` maps to one name.
3. The abstract store seen from a download: that an object accepted by `ObjectStore`
   comes back, composed of `Upload` and `Download`.
