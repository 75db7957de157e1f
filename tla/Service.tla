------------------------------ MODULE Service ------------------------------
(***************************************************************************)
(* The commands of ops.rs: setup, clone, install [--service] and           *)
(* uninstall.  Each is a list of external commands and file operations,    *)
(* done in order; some failures end the command, the others are dropped.   *)
(* Around them: the service manager (systemd or launchd), the daemon that  *)
(* it keeps running, a daemon started by hand, and the working copy whose  *)
(* settings name the port of the daemon.                                   *)
(***************************************************************************)
EXTENDS Integers, Sequences

CONSTANTS
  Platforms,            \* the target_os of the build: "linux", "macos"
  Ports,
  DEFAULT_DAEMON_PORT,
  Branches,             \* what git branch -r lists of the remote, in its order
  DefaultBranch,        \* where the HEAD of the remote points
  Faults,               \* a subset of {"status", "spawn", "interrupt", "exit"}
  MaxCommands,          \* bound: commands in a behaviour
  None

ASSUME ServiceAssumption ==
  /\ Platforms \subseteq {"linux", "macos"}
  /\ DEFAULT_DAEMON_PORT \in Ports
  /\ Branches \in Seq(STRING) /\ Branches # <<>> /\ DefaultBranch \in STRING
  /\ MaxCommands \in Nat
  /\ None \notin Ports /\ None \notin STRING

VARIABLES
  platform,
  cmd,      \* the command: its name, its port, whether the service was up before
  pc,       \* the step it is at; 0 when no command runs
  said,     \* its outcome
  dropped,  \* steps of it whose failure nobody was told of (history)
  begun,    \* commands begun so far
  unit,     \* the port in the unit or plist file, None when there is no file
  loaded,   \* the port in the definition that the service manager has read
  enabled,  \* the service starts at login
  wanted,   \* the service manager keeps the daemon up
  proc,     \* the port on which the daemon of the service listens
  shell,    \* the port on which a daemon started by hand listens
  repo,     \* the working copy
  via       \* where its objects were pulled from

cmdVars     == <<cmd, pc, said, dropped, begun>>
managerVars == <<loaded, enabled, wanted, proc>>
repoVars    == <<repo, via>>
vars == <<platform, cmdVars, unit, managerVars, shell, repoVars>>

Port == Ports \cup {None}

Heads == {None, DefaultBranch} \cup {Branches[i] : i \in DOMAIN Branches}

\* The settings that setup writes; old: those of the former transfer agent are there.
Settings == [url : Port, locksurl : Port, locksverify : BOOLEAN, old : BOOLEAN, head : Heads]

NoRepo == [url |-> None, locksurl |-> None, locksverify |-> FALSE, old |-> FALSE, head |-> None]
Fresh  == [NoRepo EXCEPT !.head = DefaultBranch]
Legacy == [Fresh EXCEPT !.old = TRUE]

\* Mutant: what does not parse is kept.
PortUnparsed(e) == IF e # "unset" THEN e ELSE DEFAULT_DAEMON_PORT

resolve_daemon_port(e) == IF e \in Ports THEN e ELSE DEFAULT_DAEMON_PORT

\* Mutant: the address for locks is forgotten.
SetupWithoutLocks == <<"url", "locksverify", "unset">>

setup_repo == <<"url", "locksurl", "locksverify", "unset">>

\* Mutant: clone pulls before it configures.
ClonePullsFirst == <<"clone", "checkout", "pull">> \o setup_repo

clone_repo == <<"clone">> \o setup_repo \o <<"checkout", "pull">>

install == <<"git", "lfs", "hooks">>

\* Mutant: systemd is not told of the new unit file.
InstallWithoutReload ==
  IF platform = "linux" THEN <<"write", "enable", "start">> ELSE <<"write", "unload", "load">>

install_service ==
  IF platform = "linux" THEN <<"write", "reload", "enable", "start">>
                        ELSE <<"write", "unload", "load">>

\* Mutant: the service stays enabled.
UninstallWithoutDisable ==
  IF platform = "linux" THEN <<"present", "stop", "remove", "reload">> ELSE <<"present", "unload", "remove">>

\* Mutant: the file goes first.
UninstallFileFirst ==
  IF platform = "linux" THEN <<"present", "remove", "stop", "disable", "reload">>
                        ELSE <<"present", "remove", "unload">>

uninstall_service ==
  IF platform = "linux" THEN <<"present", "stop", "disable", "remove", "reload">>
                        ELSE <<"present", "unload", "remove">>

Program ==
  CASE cmd.name = "setup"     -> setup_repo
    [] cmd.name = "clone"     -> clone_repo
    [] cmd.name = "install"   -> install
    [] cmd.name = "service"   -> install \o install_service
    [] cmd.name = "uninstall" -> uninstall_service

Commands == {"setup", "clone", "install", "service", "uninstall"}

\* Steps whose failure to run at all, or whose bad exit status, is dropped.
SpawnIgnored  == {"unset", "checkout", "reload", "enable", "unload", "stop", "disable"}
StatusIgnored == SpawnIgnored \cup {"hooks", "url", "locksurl", "locksverify"}

Listening(p) == p # None /\ p \in {proc, shell}

Init ==
  /\ platform \in Platforms
  /\ cmd = [name |-> "install", port |-> DEFAULT_DAEMON_PORT, up |-> FALSE]
  /\ pc = 0 /\ said = "none" /\ dropped = {} /\ begun = 0
  /\ unit = None /\ loaded = None /\ wanted = FALSE /\ proc = None
  /\ enabled = (platform = "macos")
  /\ shell = None
  /\ repo \in {NoRepo, Legacy} /\ via = None

(***************************************************************************)
(* A command.                                                              *)
(***************************************************************************)
Begin(name, port) ==
  /\ pc = 0 /\ begun < MaxCommands
  /\ cmd' = [name |-> name, port |-> port, up |-> wanted]
  /\ pc' = 1 /\ said' = "running" /\ dropped' = {} /\ begun' = begun + 1
  /\ UNCHANGED <<platform, unit, managerVars, shell, repoVars>>

\* install takes --port, or its default; setup and clone look at the environment.
Run ==
  \/ \E p \in Ports : Begin("service", p)
  \/ \E name \in {"install", "uninstall"} : Begin(name, DEFAULT_DAEMON_PORT)
  \/ \E name \in {"setup", "clone"}, e \in Ports \cup {"unset", "unparsable"} :
       Begin(name, resolve_daemon_port(e))

At(step) == pc > 0 /\ Program[pc] = step

Goto(outcome) == pc' = 0 /\ said' = outcome

Advance ==
  /\ IF pc = Len(Program) THEN Goto("ok") ELSE pc' = pc + 1 /\ said' = said
  /\ UNCHANGED <<platform, cmd, begun>>

Done == Advance /\ UNCHANGED dropped

\* A command that must succeed did not.
Bail == Goto("failed") /\ UNCHANGED <<platform, cmd, dropped, begun, unit, managerVars, shell, repoVars>>

\* git --version; git lfs version and, if that fails, apt-get, dnf or brew; git lfs install.
CheckTools ==
  /\ At("git") \/ At("lfs") \/ At("hooks")
  /\ Done /\ UNCHANGED <<unit, managerVars, shell, repoVars>>

WriteUnit ==
  /\ At("write")
  /\ unit' = cmd.port
  /\ Done /\ UNCHANGED <<managerVars, shell, repoVars>>

NotInstalled == At("present") /\ unit = None /\ Bail

Installed ==
  /\ At("present") /\ unit # None
  /\ Done /\ UNCHANGED <<unit, managerVars, shell, repoVars>>

RemoveUnit ==
  /\ At("remove")
  /\ unit' = None
  /\ Done /\ UNCHANGED <<managerVars, shell, repoVars>>

\* systemctl daemon-reload: definitions are read again, what runs goes on.
Reload ==
  /\ At("reload")
  /\ loaded' = unit
  /\ Done /\ UNCHANGED <<unit, enabled, wanted, proc, shell, repoVars>>

Enable ==
  /\ At("enable") \/ At("disable")
  /\ enabled' = At("enable")
  /\ Done /\ UNCHANGED <<unit, loaded, wanted, proc, shell, repoVars>>

\* systemctl start: nothing to do for a unit that is up; otherwise it does not
\* wait for the daemon to listen (Type=simple).
Start ==
  /\ At("start")
  /\ wanted' = TRUE
  /\ loaded' = IF loaded = None THEN unit ELSE loaded
  /\ Done /\ UNCHANGED <<unit, enabled, proc, shell, repoVars>>

Stop ==
  /\ At("stop")
  /\ wanted' = FALSE /\ proc' = None
  /\ Done /\ UNCHANGED <<unit, loaded, enabled, shell, repoVars>>

\* launchctl unload, load -w: a label that is loaded stays as it is.
Unload ==
  /\ At("unload")
  /\ loaded' = None /\ wanted' = FALSE /\ proc' = None
  /\ Done /\ UNCHANGED <<unit, enabled, shell, repoVars>>

Load ==
  /\ At("load")
  /\ loaded' = IF loaded = None THEN unit ELSE loaded
  /\ wanted' = TRUE /\ enabled' = TRUE
  /\ Done /\ UNCHANGED <<unit, proc, shell, repoVars>>

Clone ==
  /\ At("clone")
  /\ repo' = Fresh /\ via' = None
  /\ Done /\ UNCHANGED <<unit, managerVars, shell>>

\* git config: outside of a repository it exits with an error.
GitConfig(step) ==
  /\ At(step) /\ repo # NoRepo
  /\ repo' = CASE step = "url"         -> [repo EXCEPT !.url = cmd.port]
               [] step = "locksurl"    -> [repo EXCEPT !.locksurl = cmd.port]
               [] step = "locksverify" -> [repo EXCEPT !.locksverify = TRUE]
               [] step = "unset"       -> [repo EXCEPT !.old = FALSE]
  /\ Done /\ UNCHANGED <<unit, managerVars, shell, via>>

\* The first branch of the remote, whichever the clone had checked out.
Checkout ==
  /\ At("checkout")
  /\ repo' = [repo EXCEPT !.head = Branches[1]]
  /\ Done /\ UNCHANGED <<unit, managerVars, shell, via>>

\* git lfs pull: from the daemon that lfs.url names; without it from the git remote.
Pull ==
  /\ At("pull") /\ (repo.url = None \/ Listening(repo.url))
  /\ via' = IF repo.url = None THEN "remote" ELSE repo.url
  /\ Done /\ UNCHANGED <<unit, managerVars, shell, repo>>

PullFails == At("pull") /\ repo.url # None /\ ~Listening(repo.url) /\ Bail

Drop ==
  /\ dropped' = dropped \cup {Program[pc]}
  /\ Advance /\ UNCHANGED <<unit, managerVars, shell, repoVars>>

NoRepository == repo = NoRepo /\ (\E s \in {"url", "locksurl", "locksverify", "unset"} : At(s)) /\ Drop

StepFails(kind, ignored) ==
  /\ pc > 0 /\ kind \in Faults
  /\ \/ Program[pc] \in ignored /\ Drop
     \/ Program[pc] \notin ignored /\ Bail

CommandFails == StepFails("status", StatusIgnored) \/ StepFails("spawn", SpawnIgnored)

\* ^C, or the end of the terminal, between two steps.
Interrupt ==
  /\ pc > 0 /\ "interrupt" \in Faults
  /\ Goto("interrupted")
  /\ UNCHANGED <<platform, cmd, dropped, begun, unit, managerVars, shell, repoVars>>

Step ==
  \/ CheckTools \/ WriteUnit \/ NotInstalled \/ Installed \/ RemoveUnit
  \/ Reload \/ Enable \/ Start \/ Stop \/ Unload \/ Load
  \/ Clone \/ Checkout \/ Pull \/ PullFails \/ NoRepository
  \/ \E s \in {"url", "locksurl", "locksverify", "unset"} : GitConfig(s)

(***************************************************************************)
(* Daemons.                                                                *)
(***************************************************************************)
\* Mutant: the plist has no KeepAlive.
BindOnLinuxOnly ==
  /\ platform = "linux"
  /\ wanted /\ proc = None /\ loaded # None /\ shell # loaded
  /\ proc' = loaded
  /\ UNCHANGED <<platform, cmdVars, unit, loaded, enabled, wanted, shell, repoVars>>

\* The service manager starts the daemon, again after a failure to bind or an
\* exit (Restart=on-failure, KeepAlive); only a free port lets it stay.
Bind ==
  /\ wanted /\ proc = None /\ loaded # None /\ shell # loaded
  /\ proc' = loaded
  /\ UNCHANGED <<platform, cmdVars, unit, loaded, enabled, wanted, shell, repoVars>>

Exit ==
  /\ "exit" \in Faults /\ proc # None
  /\ proc' = None
  /\ UNCHANGED <<platform, cmdVars, unit, loaded, enabled, wanted, shell, repoVars>>

run_daemon(p) ==
  /\ shell = None /\ proc # p
  /\ shell' = p
  /\ UNCHANGED <<platform, cmdVars, unit, managerVars, repoVars>>

StopShell ==
  /\ shell # None
  /\ shell' = None
  /\ UNCHANGED <<platform, cmdVars, unit, managerVars, repoVars>>

Login ==
  /\ pc = 0
  /\ loaded' = unit /\ wanted' = (enabled /\ unit # None)
  /\ proc' = None /\ shell' = None
  /\ UNCHANGED <<platform, cmdVars, unit, enabled, repoVars>>

Next ==
  \/ Run \/ Step \/ CommandFails \/ Interrupt
  \/ Bind \/ Exit \/ StopShell \/ Login
  \/ \E p \in Ports : run_daemon(p)

Spec == Init /\ [][Next]_vars

\* The service manager retries for ever: RestartSec=5, KeepAlive.
FairSpec == Spec /\ WF_vars(Bind)

(***************************************************************************)
(* Properties.                                                             *)
(***************************************************************************)
TypeOK ==
  /\ platform \in Platforms
  /\ cmd \in [name : Commands, port : Ports, up : BOOLEAN]
  /\ pc \in 0 .. Len(Program)
  /\ said \in {"none", "running", "ok", "failed", "interrupted"}
  /\ dropped \subseteq StatusIgnored
  /\ begun \in 0 .. MaxCommands
  /\ {unit, loaded, proc, shell} \subseteq Port
  /\ enabled \in BOOLEAN /\ wanted \in BOOLEAN
  /\ repo \in Settings /\ via \in Port \cup {"remote"}

Reported(name) == cmd.name = name /\ said = "ok" /\ dropped = {}

\* Whatever earlier commands left behind, interrupted or with failures dropped,
\* an install --service that reports success and dropped no failure leaves one
\* definition with the port that it was asked for, in the file and in the
\* service manager, and a service that is up and starts at login; the daemon is
\* on that port or about to be.  On Linux the last part holds only if the service
\* was down: systemctl start (ops.rs:470) leaves a daemon on its old port.
InstallIsTrue ==
  Reported("service") =>
    /\ unit = cmd.port /\ loaded = cmd.port
    /\ enabled /\ wanted
    /\ platform = "macos" \/ ~cmd.up => proc \in {None, cmd.port}

\* An uninstall that reports success and dropped no failure leaves no file,
\* no definition, no daemon of the service, and on Linux nothing to start at login
\* (ops.rs:266-317).
UninstallIsTrue ==
  Reported("uninstall") =>
    /\ unit = None /\ loaded = None
    /\ ~wanted /\ proc = None
    /\ platform = "linux" => ~enabled

\* A service that no file describes cannot be uninstalled any more ("service not
\* installed", ops.rs:292): it comes about only when the failure of systemctl
\* stop or launchctl unload was dropped, never by an interruption at any step.
OrphanedOnlyByDrop ==
  [][wanted' /\ unit' = None /\ ~(wanted /\ unit = None)
       => dropped \cap {"stop", "unload"} # {}]_vars

\* A setup or clone that reports success and dropped no failure leaves the two
\* addresses on one port, that of BLOSSOM_DAEMON_PORT or the default, whatever an
\* earlier setup, for another port or interrupted half way, had written.
SetupIsTrue ==
  Reported("setup") \/ Reported("clone") =>
    /\ repo.url = cmd.port /\ repo.locksurl = cmd.port
    /\ repo.locksverify /\ ~repo.old

\* A clone that reports success has its objects from a daemon on the port it
\* configured, unless git config failed unnoticed: then they come from wherever
\* git-lfs looks without lfs.url (ops.rs:42).
ClonedThroughDaemon ==
  cmd.name = "clone" /\ said = "ok" =>
    via = cmd.port \/ (via = "remote" /\ "url" \in dropped)

\* While the service is to be up and nobody else holds its port, its daemon
\* listens again and again, whatever makes it exit.
ComesUp == <>[](wanted /\ loaded # None /\ shell = None) => []<>(proc # None)

\* "Checkout the default branch" (ops.rs:145).
OnDefaultBranch == Reported("clone") => repo.head = DefaultBranch

=============================================================================
