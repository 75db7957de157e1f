--------------------------- MODULE ServiceProofs ---------------------------
(***************************************************************************)
(* What the reports of install --service, uninstall, setup and clone say,  *)
(* and how a service can be orphaned, for any number of commands, ports    *)
(* and failures.  The invariants follow a command through its program: at  *)
(* each line they say what the lines before it have established, unless    *)
(* the failure of one of them was dropped: ServiceInv for the service,     *)
(* CopyInv for the working copy.                                           *)
(***************************************************************************)
EXTENDS Service, TLAPS

(***************************************************************************)
(* The programs.                                                           *)
(***************************************************************************)
LEMMA ServiceOnLinux ==
  ASSUME cmd.name = "service", platform = "linux"
  PROVE  /\ Len(Program) = 7
         /\ Program[1] = "git" /\ Program[2] = "lfs" /\ Program[3] = "hooks"
         /\ Program[4] = "write" /\ Program[5] = "reload"
         /\ Program[6] = "enable" /\ Program[7] = "start"
BY DEF Program, install, install_service

\* The lines of install --service on macOS,
LEMMA ServiceOnMac ==
  ASSUME cmd.name = "service", platform = "macos"
  PROVE  /\ Len(Program) = 6
         /\ Program[1] = "git" /\ Program[2] = "lfs" /\ Program[3] = "hooks"
         /\ Program[4] = "write" /\ Program[5] = "unload" /\ Program[6] = "load"
BY DEF Program, install, install_service

\* of uninstall on Linux,
LEMMA UninstallOnLinux ==
  ASSUME cmd.name = "uninstall", platform = "linux"
  PROVE  /\ Len(Program) = 5
         /\ Program[1] = "present" /\ Program[2] = "stop" /\ Program[3] = "disable"
         /\ Program[4] = "remove" /\ Program[5] = "reload"
BY DEF Program, uninstall_service

\* and on macOS;
LEMMA UninstallOnMac ==
  ASSUME cmd.name = "uninstall", platform = "macos"
  PROVE  /\ Len(Program) = 3
         /\ Program[1] = "present" /\ Program[2] = "unload" /\ Program[3] = "remove"
BY DEF Program, uninstall_service

\* the other commands have none that touches the service.
LEMMA OtherPrograms ==
  ASSUME cmd.name \in {"setup", "clone", "install"}
  PROVE  /\ Len(Program) \in 3 .. 7
         /\ \A i \in 1 .. Len(Program) :
              Program[i] \in {"git", "lfs", "hooks", "clone", "url", "locksurl",
                              "locksverify", "unset", "checkout", "pull"}
<1>1. CASE cmd.name = "setup"
  <2>1. Len(Program) = 4 /\ Program[1] = "url" /\ Program[2] = "locksurl"
        /\ Program[3] = "locksverify" /\ Program[4] = "unset"
    BY <1>1 DEF Program, setup_repo
  <2> QED BY <2>1
<1>2. CASE cmd.name = "clone"
  <2>1. Len(Program) = 7 /\ Program[1] = "clone" /\ Program[2] = "url"
        /\ Program[3] = "locksurl" /\ Program[4] = "locksverify" /\ Program[5] = "unset"
        /\ Program[6] = "checkout" /\ Program[7] = "pull"
    BY <1>2 DEF Program, setup_repo, clone_repo
  <2> QED BY <2>1
<1>3. CASE cmd.name = "install"
  <2>1. Len(Program) = 3 /\ Program[1] = "git" /\ Program[2] = "lfs" /\ Program[3] = "hooks"
    BY <1>3 DEF Program, install
  <2> QED BY <2>1
<1> QED BY <1>1, <1>2, <1>3

(***************************************************************************)
(* The invariant.                                                          *)
(***************************************************************************)
Formed ==
  /\ platform \in {"linux", "macos"}
  /\ cmd.name \in Commands /\ cmd.port \in Ports
  /\ pc \in 0 .. Len(Program)
  /\ (pc > 0) <=> (said = "running")

\* The manager runs no daemon that is not wanted.
Idle == ~wanted => proc = None

\* What install --service has done before line pc.
Installing ==
  cmd.name = "service" /\ pc > 0 =>
    /\ pc >= 5 => unit = cmd.port
    /\ platform = "linux" =>
         /\ ~cmd.up => ~wanted
         /\ dropped = {} /\ pc >= 6 => loaded = cmd.port
         /\ dropped = {} /\ pc >= 7 => enabled
    /\ platform = "macos" /\ dropped = {} /\ pc >= 6 => loaded = None /\ ~wanted

\* What uninstall has done before line pc.
Uninstalling ==
  cmd.name = "uninstall" /\ pc > 0 =>
    /\ pc >= 3 /\ dropped \cap {"stop", "unload"} = {} => ~wanted
    /\ platform = "linux" /\ pc >= 4 /\ dropped = {} => ~enabled
    /\ platform = "linux" /\ pc >= 5 => unit = None
    /\ platform = "macos" /\ pc >= 3 /\ dropped = {} => loaded = None

ServiceInv == Formed /\ Idle /\ Installing /\ Uninstalling /\ InstallIsTrue /\ UninstallIsTrue

\* Where in the programs a step of the service occurs.
LEMMA Places ==
  ASSUME Formed, pc > 0
  PROVE  /\ Program[pc] \in {"git", "lfs", "hooks"} =>
              cmd.name # "uninstall" /\ (cmd.name = "service" => pc <= 3 /\ Len(Program) > 3)
         /\ Program[pc] \in {"clone", "url", "locksurl", "locksverify", "unset", "checkout", "pull"} =>
              cmd.name \notin {"service", "uninstall"}
         /\ Program[pc] = "write" => cmd.name = "service" /\ pc = 4 /\ Len(Program) \in {6, 7}
         /\ Program[pc] = "enable" => cmd.name = "service" /\ platform = "linux" /\ pc = 6 /\ Len(Program) = 7
         /\ Program[pc] = "start" => cmd.name = "service" /\ platform = "linux" /\ pc = 7 /\ Len(Program) = 7
         /\ Program[pc] = "load" => cmd.name = "service" /\ platform = "macos" /\ pc = 6 /\ Len(Program) = 6
         /\ Program[pc] = "present" => cmd.name = "uninstall" /\ pc = 1 /\ Len(Program) > 1
         /\ Program[pc] = "stop" => cmd.name = "uninstall" /\ platform = "linux" /\ pc = 2 /\ Len(Program) = 5
         /\ Program[pc] = "disable" => cmd.name = "uninstall" /\ platform = "linux" /\ pc = 3 /\ Len(Program) = 5
         /\ Program[pc] = "remove" =>
              /\ cmd.name = "uninstall"
              /\ \/ platform = "linux" /\ pc = 4 /\ Len(Program) = 5
                 \/ platform = "macos" /\ pc = 3 /\ Len(Program) = 3
         /\ Program[pc] = "reload" =>
              /\ platform = "linux" /\ pc = 5
              /\ \/ cmd.name = "service" /\ Len(Program) = 7
                 \/ cmd.name = "uninstall" /\ Len(Program) = 5
         /\ Program[pc] = "unload" =>
              /\ platform = "macos"
              /\ \/ cmd.name = "service" /\ pc = 5 /\ Len(Program) = 6
                 \/ cmd.name = "uninstall" /\ pc = 2 /\ Len(Program) = 3
<1>1. pc \in 1 .. Len(Program)
  BY DEF Formed
<1>2. CASE cmd.name = "service" /\ platform = "linux"
  <2>1. Len(Program) = 7
    BY <1>2, ServiceOnLinux
  <2>2. pc \in 1 .. 7
    BY <1>1, <2>1
  <2>3. \/ pc = 1 /\ Program[pc] = "git"
        \/ pc = 2 /\ Program[pc] = "lfs"
        \/ pc = 3 /\ Program[pc] = "hooks"
        \/ pc = 4 /\ Program[pc] = "write"
        \/ pc = 5 /\ Program[pc] = "reload"
        \/ pc = 6 /\ Program[pc] = "enable"
        \/ pc = 7 /\ Program[pc] = "start"
    BY <1>2, <2>2, ServiceOnLinux
  <2> QED BY <2>1, <2>3, <1>2
<1>3. CASE cmd.name = "service" /\ platform = "macos"
  <2>1. Len(Program) = 6
    BY <1>3, ServiceOnMac
  <2>2. pc \in 1 .. 6
    BY <1>1, <2>1
  <2>3. \/ pc = 1 /\ Program[pc] = "git"
        \/ pc = 2 /\ Program[pc] = "lfs"
        \/ pc = 3 /\ Program[pc] = "hooks"
        \/ pc = 4 /\ Program[pc] = "write"
        \/ pc = 5 /\ Program[pc] = "unload"
        \/ pc = 6 /\ Program[pc] = "load"
    BY <1>3, <2>2, ServiceOnMac
  <2> QED BY <2>1, <2>3, <1>3
<1>4. CASE cmd.name = "uninstall" /\ platform = "linux"
  <2>1. Len(Program) = 5
    BY <1>4, UninstallOnLinux
  <2>2. pc \in 1 .. 5
    BY <1>1, <2>1
  <2>3. \/ pc = 1 /\ Program[pc] = "present"
        \/ pc = 2 /\ Program[pc] = "stop"
        \/ pc = 3 /\ Program[pc] = "disable"
        \/ pc = 4 /\ Program[pc] = "remove"
        \/ pc = 5 /\ Program[pc] = "reload"
    BY <1>4, <2>2, UninstallOnLinux
  <2> QED BY <2>1, <2>3, <1>4
<1>5. CASE cmd.name = "uninstall" /\ platform = "macos"
  <2>1. Len(Program) = 3
    BY <1>5, UninstallOnMac
  <2>2. pc \in 1 .. 3
    BY <1>1, <2>1
  <2>3. \/ pc = 1 /\ Program[pc] = "present"
        \/ pc = 2 /\ Program[pc] = "unload"
        \/ pc = 3 /\ Program[pc] = "remove"
    BY <1>5, <2>2, UninstallOnMac
  <2> QED BY <2>1, <2>3, <1>5
<1>6. CASE cmd.name \in {"setup", "clone", "install"}
  BY <1>1, <1>6, OtherPrograms
<1> QED BY <1>2, <1>3, <1>4, <1>5, <1>6 DEF Formed, Commands

\* A program depends on the command and the platform.
LEMMA SameProgram ==
  ASSUME UNCHANGED <<platform, cmd>>
  PROVE  Program' = Program
BY DEF Program, install, install_service, uninstall_service, setup_repo, clone_repo

\* A step that is not the last, and one that is.
LEMMA Continues ==
  ASSUME Formed, pc > 0, Advance, pc # Len(Program)
  PROVE  /\ Formed' /\ InstallIsTrue' /\ UninstallIsTrue'
         /\ cmd' = cmd /\ platform' = platform /\ pc' = pc + 1
<1>1. cmd' = cmd /\ platform' = platform /\ pc' = pc + 1 /\ said' = said
  BY DEF Advance
<1>2. Program' = Program
  BY <1>1, SameProgram
<1>3. Len(Program) \in Nat
  BY ServiceOnLinux, ServiceOnMac, UninstallOnLinux, UninstallOnMac, OtherPrograms
     DEF Formed, Commands
<1>4. said' = "running"
  BY <1>1 DEF Formed
<1>5. Formed'
  BY <1>1, <1>2, <1>3, <1>4 DEF Formed
<1>6. InstallIsTrue' /\ UninstallIsTrue'
  BY <1>4 DEF InstallIsTrue, UninstallIsTrue, Reported
<1> QED BY <1>1, <1>5, <1>6

\* A command that ends is at no line.
LEMMA Ends ==
  ASSUME Formed, Goto("ok") \/ Goto("failed") \/ Goto("interrupted"),
         UNCHANGED <<platform, cmd>>
  PROVE  Formed' /\ Installing' /\ Uninstalling' /\ pc' = 0
<1>1. cmd' = cmd /\ platform' = platform /\ pc' = 0 /\ said' # "running"
  BY DEF Goto
<1>2. Program' = Program
  BY <1>1, SameProgram
<1>3. Len(Program) \in Nat
  BY ServiceOnLinux, ServiceOnMac, UninstallOnLinux, UninstallOnMac, OtherPrograms
     DEF Formed, Commands
<1>4. Formed'
  BY <1>1, <1>2, <1>3 DEF Formed
<1>5. Installing' /\ Uninstalling'
  BY <1>1 DEF Installing, Uninstalling
<1> QED BY <1>1, <1>4, <1>5

(***************************************************************************)
(* Steps of a command.                                                     *)
(***************************************************************************)
\* A step that leaves the service alone.
LEMMA QuietStep ==
  ASSUME ServiceInv, pc > 0, Done, UNCHANGED <<unit, managerVars>>,
         Program[pc] \in {"git", "lfs", "hooks", "clone", "url", "locksurl",
                          "locksverify", "unset", "checkout", "pull", "present"}
  PROVE  ServiceInv'
<1>1. /\ cmd.name = "service" => pc <= 3 /\ Len(Program) > 3
      /\ cmd.name = "uninstall" => pc = 1 /\ Len(Program) > 1
  BY Places DEF ServiceInv
<1>2. unit' = unit /\ loaded' = loaded /\ enabled' = enabled /\ wanted' = wanted /\ proc' = proc
      /\ dropped' = dropped
  BY DEF managerVars, Done
<1>3. Idle'
  BY <1>2 DEF ServiceInv, Idle
<1>4. CASE pc # Len(Program)
  <2>1. /\ Formed' /\ InstallIsTrue' /\ UninstallIsTrue'
        /\ cmd' = cmd /\ platform' = platform /\ pc' = pc + 1 /\ pc \in Nat
    BY <1>4, Continues DEF ServiceInv, Formed, Done
  <2>2. Installing'
    BY <1>1, <1>2, <2>1 DEF ServiceInv, Installing
  <2>3. Uninstalling'
    BY <1>1, <1>2, <2>1 DEF ServiceInv, Uninstalling
  <2> QED BY <1>3, <2>1, <2>2, <2>3 DEF ServiceInv
<1>5. CASE pc = Len(Program)
  <2>1. /\ Formed' /\ Installing' /\ Uninstalling'
        /\ cmd' = cmd /\ cmd.name \notin {"service", "uninstall"}
    BY <1>1, <1>5, Ends DEF ServiceInv, Formed, Done, Advance
  <2> QED BY <1>3, <2>1 DEF ServiceInv, InstallIsTrue, UninstallIsTrue, Reported
<1> QED BY <1>4, <1>5

\* A step of the service that is not the last of its command, at a known line.
LEMMA LineStep ==
  ASSUME ServiceInv, pc > 0, Done, pc # Len(Program), Idle',
         Installing', Uninstalling'
  PROVE  ServiceInv'
BY Continues DEF ServiceInv, Done

\* The last one.
LEMMA LastStep ==
  ASSUME ServiceInv, pc > 0, Done, pc = Len(Program), Idle',
         InstallIsTrue', UninstallIsTrue'
  PROVE  ServiceInv'
BY Ends DEF ServiceInv, Done, Advance

\* Line by line: the file is written,
LEMMA WriteUnitStep ==
  ASSUME ServiceInv, WriteUnit
  PROVE  ServiceInv'
<1>1. pc > 0 /\ Done /\ cmd.name = "service" /\ pc = 4 /\ pc # Len(Program)
  <2>1. cmd.name = "service" /\ pc = 4 /\ Len(Program) \in {6, 7}
    BY Places DEF ServiceInv, WriteUnit, At
  <2> QED BY <2>1 DEF WriteUnit
<1>2. /\ cmd' = cmd /\ platform' = platform /\ pc' = 5 /\ unit' = cmd.port
      /\ wanted' = wanted /\ proc' = proc
  BY <1>1, Continues DEF ServiceInv, Done, WriteUnit, managerVars
<1>3. Idle' /\ Installing' /\ Uninstalling'
  BY <1>1, <1>2 DEF ServiceInv, Idle, Installing, Uninstalling
<1> QED BY <1>1, <1>3, LineStep

\* systemctl daemon-reload,
LEMMA ReloadStep ==
  ASSUME ServiceInv, Reload
  PROVE  ServiceInv'
<1>1. /\ pc > 0 /\ Done /\ platform = "linux" /\ pc = 5
      /\ \/ cmd.name = "service" /\ Len(Program) = 7
         \/ cmd.name = "uninstall" /\ Len(Program) = 5
  BY Places DEF ServiceInv, Reload, At
<1>2. /\ loaded' = unit /\ unit' = unit /\ enabled' = enabled /\ wanted' = wanted
      /\ proc' = proc /\ dropped' = dropped
  BY DEF Reload, Done
<1>3. Idle'
  BY <1>2 DEF ServiceInv, Idle
<1>4. CASE cmd.name = "service"
  <2>1. Len(Program) = 7
    BY <1>1, <1>4
  <2>2. cmd' = cmd /\ platform' = platform /\ pc' = 6
    BY <1>1, <2>1, Continues DEF ServiceInv, Done
  <2>3. Installing' /\ Uninstalling'
    BY <1>1, <1>2, <1>4, <2>2 DEF ServiceInv, Installing, Uninstalling
  <2> QED BY <1>1, <1>3, <2>1, <2>3, LineStep
<1>5. CASE cmd.name = "uninstall"
  <2>1. Len(Program) = 5 /\ cmd' = cmd /\ platform' = platform
    BY <1>1, <1>5 DEF Done, Advance
  <2>2. InstallIsTrue'
    BY <1>5, <2>1 DEF InstallIsTrue, Reported
  <2>3. UninstallIsTrue'
    <3>1. dropped = {} => ~wanted /\ ~enabled /\ unit = None
      BY <1>1, <1>5 DEF ServiceInv, Uninstalling
    <3> QED BY <1>2, <3>1 DEF ServiceInv, Idle, UninstallIsTrue, Reported
  <2> QED BY <1>1, <1>3, <2>1, <2>2, <2>3, LastStep
<1> QED BY <1>1, <1>4, <1>5

\* enable,
LEMMA EnableStep ==
  ASSUME ServiceInv, Enable
  PROVE  ServiceInv'
<1>1. CASE Program[pc] = "enable"
  <2>1. pc > 0 /\ cmd.name = "service" /\ platform = "linux" /\ pc = 6 /\ Len(Program) = 7
    BY <1>1, Places DEF ServiceInv, Enable, At
  <2>2. Done /\ pc # Len(Program)
    BY <2>1 DEF Enable
  <2>3. /\ loaded' = loaded /\ unit' = unit /\ wanted' = wanted /\ proc' = proc
        /\ dropped' = dropped /\ enabled'
        /\ cmd' = cmd /\ platform' = platform /\ pc' = 7
    <3>1. At("enable")
      BY <1>1, <2>1 DEF At
    <3>2. enabled' = At("enable")
      BY DEF Enable
    <3>3. enabled'
      BY <3>1, <3>2
    <3> QED BY <2>1, <2>2, <3>3, Continues DEF ServiceInv, Enable, Done
  <2>4. Idle' /\ Installing' /\ Uninstalling'
    BY <2>1, <2>3 DEF ServiceInv, Idle, Installing, Uninstalling
  <2> QED BY <2>1, <2>2, <2>4, LineStep
<1>2. CASE Program[pc] = "disable"
  <2>1. pc > 0 /\ cmd.name = "uninstall" /\ platform = "linux" /\ pc = 3 /\ Len(Program) = 5
    BY <1>2, Places DEF ServiceInv, Enable, At
  <2>2. Done /\ pc # Len(Program)
    BY <2>1 DEF Enable
  <2>3. /\ loaded' = loaded /\ unit' = unit /\ wanted' = wanted /\ proc' = proc
        /\ dropped' = dropped /\ ~enabled'
        /\ cmd' = cmd /\ platform' = platform /\ pc' = 4
    <3>1. ~At("enable")
      BY <1>2, <2>1 DEF At
    <3>2. enabled' = At("enable")
      BY DEF Enable
    <3>3. ~enabled'
      BY <3>1, <3>2
    <3> QED BY <2>1, <2>2, <3>3, Continues DEF ServiceInv, Enable, Done
  <2>4. Idle' /\ Installing' /\ Uninstalling'
    BY <2>1, <2>3 DEF ServiceInv, Idle, Installing, Uninstalling
  <2> QED BY <2>1, <2>2, <2>4, LineStep
<1> QED BY <1>1, <1>2 DEF Enable, At

\* start,
LEMMA StartStep ==
  ASSUME ServiceInv, Start
  PROVE  ServiceInv'
<1>1. pc > 0 /\ Done /\ cmd.name = "service" /\ platform = "linux" /\ pc = 7 /\ pc = Len(Program)
  BY Places DEF ServiceInv, Start, At
<1>2. /\ wanted' = TRUE /\ unit' = unit /\ enabled' = enabled /\ proc' = proc
      /\ loaded' = IF loaded = None THEN unit ELSE loaded
      /\ cmd' = cmd /\ platform' = platform /\ dropped' = dropped
  BY DEF Start, Done, Advance
<1>3. Idle'
  BY <1>2 DEF Idle
<1>4. /\ unit = cmd.port
      /\ ~cmd.up => proc = None
      /\ dropped = {} => loaded = cmd.port /\ enabled
  BY <1>1 DEF ServiceInv, Installing, Idle
<1>5. cmd.port # None
  BY ServiceAssumption DEF ServiceInv, Formed
<1>6. InstallIsTrue'
  BY <1>1, <1>2, <1>4, <1>5 DEF InstallIsTrue, Reported
<1>7. UninstallIsTrue'
  BY <1>1, <1>2 DEF UninstallIsTrue, Reported
<1> QED BY <1>1, <1>3, <1>6, <1>7, LastStep

\* stop,
LEMMA StopStep ==
  ASSUME ServiceInv, Stop
  PROVE  ServiceInv'
<1>1. pc > 0 /\ Done /\ cmd.name = "uninstall" /\ platform = "linux" /\ pc = 2 /\ pc # Len(Program)
  BY Places DEF ServiceInv, Stop, At
<1>2. ~wanted' /\ proc' = None /\ cmd' = cmd /\ platform' = platform /\ pc' = 3
  BY <1>1, Continues DEF ServiceInv, Stop, Done
<1>3. Idle' /\ Installing' /\ Uninstalling'
  BY <1>1, <1>2 DEF Idle, Installing, Uninstalling
<1> QED BY <1>1, <1>3, LineStep

\* launchctl unload,
LEMMA UnloadStep ==
  ASSUME ServiceInv, Unload
  PROVE  ServiceInv'
<1>1. /\ pc > 0 /\ Done /\ platform = "macos" /\ pc # Len(Program)
      /\ \/ cmd.name = "service" /\ pc = 5
         \/ cmd.name = "uninstall" /\ pc = 2
  <2>1. /\ pc > 0 /\ platform = "macos"
        /\ \/ cmd.name = "service" /\ pc = 5 /\ Len(Program) = 6
           \/ cmd.name = "uninstall" /\ pc = 2 /\ Len(Program) = 3
    BY Places DEF ServiceInv, Unload, At
  <2>2. CASE cmd.name = "service" /\ pc = 5 /\ Len(Program) = 6
    BY <2>1, <2>2 DEF Unload
  <2>3. CASE cmd.name = "uninstall" /\ pc = 2 /\ Len(Program) = 3
    BY <2>1, <2>3 DEF Unload
  <2> QED BY <2>1, <2>2, <2>3
<1>2. /\ ~wanted' /\ proc' = None /\ loaded' = None /\ unit' = unit
      /\ cmd' = cmd /\ platform' = platform /\ pc' = pc + 1
  BY <1>1, Continues DEF ServiceInv, Unload, Done
<1>3. CASE cmd.name = "service"
  BY <1>1, <1>2, <1>3, LineStep DEF ServiceInv, Idle, Installing, Uninstalling
<1>4. CASE cmd.name = "uninstall"
  BY <1>1, <1>2, <1>4, LineStep DEF ServiceInv, Idle, Installing, Uninstalling
<1> QED BY <1>1, <1>3, <1>4

\* load,
LEMMA LoadStep ==
  ASSUME ServiceInv, Load
  PROVE  ServiceInv'
<1>1. pc > 0 /\ Done /\ cmd.name = "service" /\ platform = "macos" /\ pc = 6 /\ pc = Len(Program)
  BY Places DEF ServiceInv, Load, At
<1>2. /\ wanted' = TRUE /\ enabled' = TRUE /\ unit' = unit /\ proc' = proc
      /\ loaded' = IF loaded = None THEN unit ELSE loaded
      /\ cmd' = cmd /\ platform' = platform /\ dropped' = dropped
  BY DEF Load, Done, Advance
<1>3. Idle'
  BY <1>2 DEF Idle
<1>4. unit = cmd.port /\ (dropped = {} => loaded = None /\ proc = None)
  BY <1>1 DEF ServiceInv, Installing, Idle
<1>5. InstallIsTrue'
  BY <1>1, <1>2, <1>4 DEF InstallIsTrue, Reported
<1>6. UninstallIsTrue'
  BY <1>1, <1>2 DEF UninstallIsTrue, Reported
<1> QED BY <1>1, <1>3, <1>5, <1>6, LastStep

\* the file is removed, of a service that is stopped unless that failed;
LEMMA RemoveUnitStep ==
  ASSUME ServiceInv, RemoveUnit
  PROVE  /\ ServiceInv'
         /\ wanted => dropped \cap {"stop", "unload"} # {}
<1>1. /\ pc > 0 /\ Done /\ cmd.name = "uninstall"
      /\ \/ platform = "linux" /\ pc = 4 /\ Len(Program) = 5
         \/ platform = "macos" /\ pc = 3 /\ Len(Program) = 3
  BY Places DEF ServiceInv, RemoveUnit, At
<1>2. /\ unit' = None /\ loaded' = loaded /\ enabled' = enabled /\ wanted' = wanted
      /\ proc' = proc /\ dropped' = dropped /\ cmd' = cmd /\ platform' = platform
  BY DEF RemoveUnit, managerVars, Done, Advance
<1>3. Idle'
  BY <1>2 DEF ServiceInv, Idle
<1>4. dropped \cap {"stop", "unload"} = {} => ~wanted
  BY <1>1 DEF ServiceInv, Uninstalling
<1>5. CASE platform = "linux"
  <2>1. pc = 4 /\ pc # Len(Program)
    BY <1>1, <1>5
  <2>2. pc' = 5
    BY <1>1, <2>1, Continues DEF ServiceInv, Done
  <2>3. Installing' /\ Uninstalling'
    BY <1>1, <1>2, <1>4, <1>5, <2>1, <2>2 DEF ServiceInv, Installing, Uninstalling
  <2> QED BY <1>1, <1>2, <1>3, <1>4, <2>1, <2>3, LineStep
<1>6. CASE platform = "macos"
  <2>1. pc = 3 /\ pc = Len(Program)
    BY <1>1, <1>6
  <2>2. InstallIsTrue'
    BY <1>1, <1>2 DEF InstallIsTrue, Reported
  <2>3. dropped = {} => ~wanted /\ loaded = None /\ proc = None
    BY <1>1, <1>4, <1>6, <2>1 DEF ServiceInv, Uninstalling, Idle
  <2>4. UninstallIsTrue'
    BY <1>2, <1>6, <2>3 DEF UninstallIsTrue, Reported
  <2> QED BY <1>1, <1>2, <1>3, <1>4, <2>1, <2>2, <2>4, LastStep
<1> QED BY <1>5, <1>6 DEF ServiceInv, Formed

\* A step that failed: its failure is dropped, or it ends the command.
LEMMA DropStep ==
  ASSUME ServiceInv, pc > 0, Drop, Program[pc] \in StatusIgnored
  PROVE  ServiceInv'
<1>1. /\ unit' = unit /\ loaded' = loaded /\ enabled' = enabled /\ wanted' = wanted
      /\ proc' = proc /\ dropped' = dropped \cup {Program[pc]} /\ Advance
  BY DEF Drop, managerVars
<1>2. cmd' = cmd /\ platform' = platform /\ dropped' # {}
  BY <1>1 DEF Advance
<1>3. Idle'
  BY <1>1 DEF ServiceInv, Idle
<1>4. InstallIsTrue' /\ UninstallIsTrue'
  BY <1>2 DEF InstallIsTrue, UninstallIsTrue, Reported
<1>5. CASE pc = Len(Program)
  BY <1>1, <1>3, <1>4, <1>5, Ends DEF ServiceInv, Advance
<1>6. CASE pc # Len(Program)
  <2>1. Formed' /\ pc' = pc + 1 /\ pc \in Nat
    BY <1>1, <1>6, Continues DEF ServiceInv, Formed
  <2>2. Installing'
    <3>1. cmd.name = "service" /\ pc + 1 >= 5 => pc >= 5
      BY <2>1, Places DEF ServiceInv, StatusIgnored, SpawnIgnored
    <3> QED BY <1>1, <1>2, <2>1, <3>1 DEF ServiceInv, Installing
  <2>3. Uninstalling'
    <3>1. cmd.name = "uninstall" =>
            /\ platform = "linux" /\ pc + 1 >= 5 => pc >= 5
            /\ pc + 1 >= 3 /\ pc < 3 => Program[pc] \in {"stop", "unload"}
      BY <2>1, Places DEF ServiceInv, StatusIgnored, SpawnIgnored
    <3> QED BY <1>1, <1>2, <2>1, <3>1 DEF ServiceInv, Uninstalling
  <2> QED BY <1>3, <1>4, <2>1, <2>2, <2>3 DEF ServiceInv
<1> QED BY <1>5, <1>6

\* an error or an interruption;
LEMMA EndStep ==
  ASSUME ServiceInv, Goto("failed") \/ Goto("interrupted"),
         UNCHANGED <<platform, cmd, dropped, begun, unit, managerVars, shell, repoVars>>
  PROVE  ServiceInv'
<1>1. Formed' /\ Installing' /\ Uninstalling'
  BY Ends DEF ServiceInv
<1>2. Idle'
  BY DEF ServiceInv, Idle, managerVars
<1>3. InstallIsTrue' /\ UninstallIsTrue'
  BY DEF Goto, InstallIsTrue, UninstallIsTrue, Reported
<1> QED BY <1>1, <1>2, <1>3 DEF ServiceInv

(***************************************************************************)
(* Every step.                                                             *)
(***************************************************************************)
LEMMA StartsTrue == Init => ServiceInv
<1> SUFFICES ASSUME Init PROVE ServiceInv
  OBVIOUS
<1>1. cmd.name = "install" /\ cmd.port = DEFAULT_DAEMON_PORT /\ pc = 0 /\ said = "none"
      /\ proc = None /\ platform \in Platforms
  BY DEF Init
<1>2. Len(Program) \in Nat
  BY <1>1, OtherPrograms
<1>3. Formed
  BY <1>1, <1>2, ServiceAssumption DEF Formed, Commands
<1> QED BY <1>1, <1>3 DEF ServiceInv, Idle, Installing, Uninstalling, InstallIsTrue,
                         UninstallIsTrue, Reported

\* a command begins.
LEMMA BeginStep ==
  ASSUME ServiceInv, Run
  PROVE  ServiceInv'
<1>1. PICK name \in Commands, port \in Ports : Begin(name, port)
  BY ServiceAssumption DEF Run, Commands, resolve_daemon_port
<1>2. /\ cmd' = [name |-> name, port |-> port, up |-> wanted] /\ pc' = 1 /\ said' = "running"
      /\ platform' = platform /\ unit' = unit /\ wanted' = wanted /\ proc' = proc
  BY <1>1 DEF Begin, managerVars
<1>3. cmd'.name = name /\ cmd'.port = port /\ cmd'.up = wanted
  BY <1>2
<1>4. Len(Program') \in Nat /\ Len(Program') >= 1
  <2>1. CASE name = "service" /\ platform = "linux"
    BY <1>2, <1>3, <2>1 DEF Program, install, install_service
  <2>2. CASE name = "service" /\ platform = "macos"
    BY <1>2, <1>3, <2>2 DEF Program, install, install_service
  <2>3. CASE name = "uninstall" /\ platform = "linux"
    BY <1>2, <1>3, <2>3 DEF Program, uninstall_service
  <2>4. CASE name = "uninstall" /\ platform = "macos"
    BY <1>2, <1>3, <2>4 DEF Program, uninstall_service
  <2>5. CASE name = "setup"
    BY <1>3, <2>5 DEF Program, setup_repo
  <2>6. CASE name = "clone"
    BY <1>3, <2>6 DEF Program, setup_repo, clone_repo
  <2>7. CASE name = "install"
    BY <1>3, <2>7 DEF Program, install
  <2> QED BY <2>1, <2>2, <2>3, <2>4, <2>5, <2>6, <2>7 DEF ServiceInv, Formed, Commands
<1>5. Formed'
  BY <1>2, <1>3, <1>4 DEF ServiceInv, Formed
<1>6. Idle'
  BY <1>2 DEF ServiceInv, Idle
<1>7. Installing'
  BY <1>2, <1>3 DEF Installing
<1>8. Uninstalling' /\ InstallIsTrue' /\ UninstallIsTrue'
  BY <1>2 DEF Uninstalling, InstallIsTrue, UninstallIsTrue, Reported
<1> QED BY <1>5, <1>6, <1>7, <1>8 DEF ServiceInv

\* Steps of commands.
LEMMA CommandStep ==
  ASSUME ServiceInv, Step \/ CommandFails \/ Interrupt
  PROVE  ServiceInv'
<1>1. CASE CheckTools \/ Installed
  BY <1>1, QuietStep DEF CheckTools, Installed, At
<1>2. CASE Clone \/ Checkout \/ Pull
  BY <1>2, QuietStep DEF Clone, Checkout, Pull, At
<1>3. CASE \E s \in {"url", "locksurl", "locksverify", "unset"} : GitConfig(s)
  BY <1>3, QuietStep DEF GitConfig, At
<1>4. CASE NotInstalled \/ PullFails \/ Interrupt
  BY <1>4, EndStep DEF NotInstalled, PullFails, Interrupt, Bail
<1>5. CASE NoRepository
  BY <1>5, DropStep DEF NoRepository, At, StatusIgnored, SpawnIgnored
<1>6. CASE CommandFails
  BY <1>6, DropStep, EndStep DEF CommandFails, StepFails, StatusIgnored, Bail
<1> QED
  BY <1>1, <1>2, <1>3, <1>4, <1>5, <1>6, WriteUnitStep, RemoveUnitStep, ReloadStep,
     EnableStep, StartStep, StopStep, UnloadStep, LoadStep DEF Step

\* Steps of the daemons and of the user's session.
LEMMA DaemonStep ==
  ASSUME ServiceInv, Bind \/ Exit \/ StopShell \/ Login \/ \E p \in Ports : run_daemon(p)
  PROVE  ServiceInv'
<1>1. UNCHANGED <<platform, cmd, pc, said, dropped, unit, enabled>>
  BY DEF Bind, Exit, StopShell, Login, run_daemon, cmdVars, managerVars
<1>2. Formed'
  BY <1>1, SameProgram DEF ServiceInv, Formed
<1>3. CASE Bind
  <2>1. wanted /\ proc' = loaded /\ loaded' = loaded /\ wanted' = wanted
    BY <1>3 DEF Bind
  <2>2. Idle' /\ Installing' /\ Uninstalling'
    BY <1>1, <2>1 DEF ServiceInv, Idle, Installing, Uninstalling
  <2>3. InstallIsTrue' /\ UninstallIsTrue'
    BY <1>1, <2>1 DEF ServiceInv, InstallIsTrue, UninstallIsTrue, Reported
  <2> QED BY <1>2, <2>2, <2>3 DEF ServiceInv
<1>4. CASE Exit
  <2>1. proc' = None /\ loaded' = loaded /\ wanted' = wanted
    BY <1>4 DEF Exit
  <2>2. Idle' /\ Installing' /\ Uninstalling'
    BY <1>1, <2>1 DEF ServiceInv, Idle, Installing, Uninstalling
  <2>3. InstallIsTrue' /\ UninstallIsTrue'
    BY <1>1, <2>1 DEF ServiceInv, InstallIsTrue, UninstallIsTrue, Reported
  <2> QED BY <1>2, <2>2, <2>3 DEF ServiceInv
<1>5. CASE StopShell \/ \E p \in Ports : run_daemon(p)
  <2>1. proc' = proc /\ loaded' = loaded /\ wanted' = wanted
    BY <1>5 DEF StopShell, run_daemon, managerVars
  <2>2. Idle' /\ Installing' /\ Uninstalling'
    BY <1>1, <2>1 DEF ServiceInv, Idle, Installing, Uninstalling
  <2>3. InstallIsTrue' /\ UninstallIsTrue'
    BY <1>1, <2>1 DEF ServiceInv, InstallIsTrue, UninstallIsTrue, Reported
  <2> QED BY <1>2, <2>2, <2>3 DEF ServiceInv
<1>6. CASE Login
  <2>1. /\ pc = 0 /\ proc' = None /\ loaded' = unit
        /\ wanted' = (enabled /\ unit # None)
    BY <1>6 DEF Login
  <2>2. Idle' /\ Installing' /\ Uninstalling'
    BY <1>1, <2>1 DEF Idle, Installing, Uninstalling
  <2>3. InstallIsTrue'
    <3>1. cmd.port # None
      BY ServiceAssumption DEF ServiceInv, Formed
    <3>2. Reported("service") => unit = cmd.port /\ enabled
      BY DEF ServiceInv, InstallIsTrue
    <3>3. Reported("service") => wanted'
      BY <2>1, <3>1, <3>2
    <3> QED BY <1>1, <2>1, <3>2, <3>3 DEF InstallIsTrue, Reported
  <2>4. UninstallIsTrue'
    <3>1. Reported("uninstall") => unit = None /\ (platform = "linux" => ~enabled)
      BY DEF ServiceInv, UninstallIsTrue
    <3>2. Reported("uninstall") => ~wanted'
      BY <2>1, <3>1
    <3> QED BY <1>1, <2>1, <3>1, <3>2 DEF UninstallIsTrue, Reported
  <2> QED BY <1>2, <2>2, <2>3, <2>4 DEF ServiceInv
<1> QED BY <1>3, <1>4, <1>5, <1>6

\* ServiceInv is inductive.
LEMMA StaysTrue == ServiceInv /\ [Next]_vars => ServiceInv'
<1>1. ASSUME ServiceInv, Next PROVE ServiceInv'
  BY <1>1, BeginStep, CommandStep, DaemonStep DEF Next
<1>2. ASSUME ServiceInv, UNCHANGED vars PROVE ServiceInv'
  <2>1. UNCHANGED <<platform, cmd, pc, said, dropped, unit, loaded, enabled, wanted, proc>>
    BY <1>2 DEF vars, cmdVars, managerVars
  <2>2. Formed'
    BY <1>2, <2>1, SameProgram DEF ServiceInv, Formed
  <2>3. Idle' /\ Installing' /\ Uninstalling'
    BY <1>2, <2>1 DEF ServiceInv, Idle, Installing, Uninstalling
  <2>4. InstallIsTrue' /\ UninstallIsTrue'
    BY <1>2, <2>1 DEF ServiceInv, InstallIsTrue, UninstallIsTrue, Reported
  <2> QED BY <2>2, <2>3, <2>4 DEF ServiceInv
<1> QED BY <1>1, <1>2

(***************************************************************************)
(* The theorems.                                                           *)
(***************************************************************************)
\* After an install --service that reports success and dropped no failure, the file,
\* the service manager and the daemon agree on the port asked for, and the service is
\* up and starts at login, whatever commands came before (ops.rs:96-107, 403-475).
THEOREM InstallReportsTruth == Spec => []InstallIsTrue
<1>1. ServiceInv => InstallIsTrue
  BY DEF ServiceInv
<1> QED BY StartsTrue, StaysTrue, <1>1, PTL DEF Spec

\* After an uninstall that reports success and dropped no failure, nothing of the
\* service is left (ops.rs:266-317).
THEOREM UninstallReportsTruth == Spec => []UninstallIsTrue
<1>1. ServiceInv => UninstallIsTrue
  BY DEF ServiceInv
<1> QED BY StartsTrue, StaysTrue, <1>1, PTL DEF Spec

\* Steps that make a service wanted find its file; the one that removes the file finds
\* the service stopped, unless the failure to stop it was dropped.
LEMMA OrphanStep ==
  ASSUME ServiceInv, [Next]_vars, wanted', unit' = None, ~(wanted /\ unit = None)
  PROVE  dropped \cap {"stop", "unload"} # {}
<1>1. CASE unit = None
  <2>1. ~wanted
    BY <1>1
  <2>2. Start \/ Load \/ Login
    BY <2>1 DEF Next, Run, Begin, Step, CheckTools, WriteUnit, NotInstalled, Installed, RemoveUnit,
       Reload, Enable, Stop, Unload, Clone, Checkout, Pull, PullFails, NoRepository, GitConfig,
       CommandFails, StepFails, Drop, Bail, Interrupt, Bind, Exit, StopShell, run_daemon,
       vars, managerVars
  <2>3. CASE Start
    <3>1. cmd.name = "service" /\ pc = 7
      BY <2>3, Places DEF ServiceInv, Start, At
    <3>2. unit = cmd.port /\ cmd.port # None
      BY <3>1, ServiceAssumption DEF ServiceInv, Formed, Installing
    <3> QED BY <1>1, <3>2
  <2>4. CASE Load
    <3>1. cmd.name = "service" /\ pc = 6
      BY <2>4, Places DEF ServiceInv, Load, At
    <3>2. unit = cmd.port /\ cmd.port # None
      BY <3>1, ServiceAssumption DEF ServiceInv, Formed, Installing
    <3> QED BY <1>1, <3>2
  <2>5. CASE Login
    BY <1>1, <2>5 DEF Login
  <2> QED BY <2>2, <2>3, <2>4, <2>5
<1>2. CASE unit # None
  <2>1. WriteUnit \/ RemoveUnit
    BY <1>2 DEF Next, Run, Begin, Step, CheckTools, NotInstalled, Installed, Reload, Enable,
       Start, Stop, Unload, Load, Clone, Checkout, Pull, PullFails, NoRepository, GitConfig,
       CommandFails, StepFails, Drop, Bail, Interrupt, Bind, Exit, StopShell, run_daemon,
       Login, vars
  <2>2. ~WriteUnit
    <3>1. cmd.port # None
      BY ServiceAssumption DEF ServiceInv, Formed
    <3> QED BY <3>1 DEF WriteUnit
  <2>3. wanted
    BY <2>1, <2>2 DEF RemoveUnit, managerVars
  <2> QED BY <2>1, <2>2, <2>3, RemoveUnitStep
<1> QED BY <1>1, <1>2

\* A service that nobody can uninstall any more comes about only through a dropped
\* failure to stop it, never through an interrupted or repeated command (ops.rs:287-317).
THEOREM OrphansByDropOnly == Spec => OrphanedOnlyByDrop
<1>1. ServiceInv /\ [Next]_vars
        => [wanted' /\ unit' = None /\ ~(wanted /\ unit = None)
              => dropped \cap {"stop", "unload"} # {}]_vars
  BY OrphanStep
<1> QED BY StartsTrue, StaysTrue, <1>1, PTL DEF Spec, OrphanedOnlyByDrop

(***************************************************************************)
(* The working copy.  Typing is the type invariant without the bound of    *)
(* pc, which is in Formed.                                                 *)
(***************************************************************************)
Typing ==
  /\ platform \in Platforms
  /\ cmd \in [name : Commands, port : Ports, up : BOOLEAN]
  /\ said \in {"none", "running", "ok", "failed", "interrupted"}
  /\ dropped \subseteq StatusIgnored
  /\ begun \in 0 .. MaxCommands
  /\ {unit, loaded, proc, shell} \subseteq Port
  /\ enabled \in BOOLEAN /\ wanted \in BOOLEAN
  /\ repo \in Settings /\ via \in Port \cup {"remote"}

\* The first n lines of setup_repo have been done.
Configured(n) ==
  /\ n >= 1 => repo.url = cmd.port
  /\ n >= 2 => repo.locksurl = cmd.port
  /\ n >= 3 => repo.locksverify
  /\ n >= 4 => ~repo.old

\* What setup and clone have done before line pc.
Configuring ==
  pc > 0 /\ dropped = {} =>
    /\ cmd.name = "setup" => Configured(pc - 1)
    /\ cmd.name = "clone" => Configured(pc - 2)

\* A clone knows no other address than the one that it is given.
Addressed ==
  cmd.name = "clone" =>
    /\ pc = 2 => repo.url = None
    /\ pc > 2 => repo.url = cmd.port \/ (repo.url = None /\ "url" \in dropped)

CopyInv ==
  ServiceInv /\ Typing /\ Configuring /\ Addressed /\ SetupIsTrue /\ ClonedThroughDaemon

\* The lines of setup,
LEMMA SetupPlaces ==
  ASSUME Formed, pc > 0, cmd.name = "setup"
  PROVE  /\ Len(Program) = 4
         /\ \/ pc = 1 /\ Program[pc] = "url"
            \/ pc = 2 /\ Program[pc] = "locksurl"
            \/ pc = 3 /\ Program[pc] = "locksverify"
            \/ pc = 4 /\ Program[pc] = "unset"
<1>1. /\ Len(Program) = 4 /\ Program[1] = "url" /\ Program[2] = "locksurl"
      /\ Program[3] = "locksverify" /\ Program[4] = "unset"
  BY DEF Program, setup_repo
<1>2. pc \in 1 .. 4
  BY <1>1 DEF Formed
<1> QED BY <1>1, <1>2

\* and of clone.
LEMMA ClonePlaces ==
  ASSUME Formed, pc > 0, cmd.name = "clone"
  PROVE  /\ Len(Program) = 7
         /\ \/ pc = 1 /\ Program[pc] = "clone"
            \/ pc = 2 /\ Program[pc] = "url"
            \/ pc = 3 /\ Program[pc] = "locksurl"
            \/ pc = 4 /\ Program[pc] = "locksverify"
            \/ pc = 5 /\ Program[pc] = "unset"
            \/ pc = 6 /\ Program[pc] = "checkout"
            \/ pc = 7 /\ Program[pc] = "pull"
<1>1. /\ Len(Program) = 7 /\ Program[1] = "clone" /\ Program[2] = "url"
      /\ Program[3] = "locksurl" /\ Program[4] = "locksverify" /\ Program[5] = "unset"
      /\ Program[6] = "checkout" /\ Program[7] = "pull"
  BY DEF Program, setup_repo, clone_repo
<1>2. pc \in 1 .. 7
  BY <1>1 DEF Formed
<1> QED BY <1>1, <1>2

\* Every failure that a command drops is one of those that the code ignores.
LEMMA DropsIgnored ==
  ASSUME CommandFails \/ NoRepository
  PROVE  (Drop /\ Program[pc] \in StatusIgnored) \/ Bail
BY DEF CommandFails, StepFails, NoRepository, At, StatusIgnored, SpawnIgnored

\* What a step of setup or clone may be.
LEMMA CopyLines ==
  ASSUME Formed, pc > 0, cmd.name \in {"setup", "clone"}, Step \/ CommandFails \/ Interrupt
  PROVE  \/ Goto("failed") \/ Goto("interrupted")
         \/ Drop /\ Program[pc] \in StatusIgnored
         \/ GitConfig(Program[pc]) /\ Program[pc] \in {"url", "locksurl", "locksverify", "unset"}
         \/ Clone \/ Checkout \/ Pull
<1>1. Program[pc] \in {"clone", "url", "locksurl", "locksverify", "unset", "checkout", "pull"}
  BY SetupPlaces, ClonePlaces
<1>2. Step => \/ NoRepository \/ PullFails \/ Clone \/ Checkout \/ Pull
              \/ GitConfig(Program[pc]) /\ Program[pc] \in {"url", "locksurl", "locksverify", "unset"}
  BY <1>1 DEF Step, At, CheckTools, WriteUnit, NotInstalled, Installed, RemoveUnit, Reload,
     Enable, Start, Stop, Unload, Load, GitConfig
<1>3. PullFails \/ Interrupt => Goto("failed") \/ Goto("interrupted")
  BY DEF PullFails, Interrupt, Bail
<1> QED BY <1>2, <1>3, DropsIgnored DEF Bail

\* Steps that do not belong to a command leave it, and the working copy, alone.
LEMMA OutsideSteps ==
  ASSUME Bind \/ Exit \/ StopShell \/ Login \/ (\E p \in Ports : run_daemon(p)) \/ UNCHANGED vars
  PROVE  UNCHANGED <<platform, cmdVars, repoVars>>
BY DEF Bind, Exit, StopShell, Login, run_daemon, vars

\* A step keeps its command, and only Run begins one.
LEMMA SameCommand ==
  ASSUME Step \/ CommandFails \/ Interrupt
  PROVE  pc > 0 /\ UNCHANGED <<platform, cmd, begun>>
BY DropsIgnored DEF Step, CheckTools, WriteUnit, NotInstalled, Installed, RemoveUnit, Reload,
   Enable, Start, Stop, Unload, Load, Clone, Checkout, Pull, PullFails, GitConfig,
   CommandFails, StepFails, NoRepository, Interrupt, Done, Drop, Advance, Bail, At

(***************************************************************************)
(* Types.                                                                  *)
(***************************************************************************)
\* The outcome of a command, and what it dropped.
LEMMA OutcomeTyped ==
  ASSUME Typing, [Next]_vars
  PROVE  /\ said' \in {"none", "running", "ok", "failed", "interrupted"}
         /\ dropped' \subseteq StatusIgnored
<1>1. CASE Run
  BY <1>1 DEF Run, Begin
<1>2. CASE Step \/ CommandFails \/ Interrupt
  <2>1. Done \/ Bail \/ (Drop /\ Program[pc] \in StatusIgnored) \/ Interrupt
    BY <1>2, DropsIgnored DEF Step, CheckTools, WriteUnit, NotInstalled, Installed, RemoveUnit,
       Reload, Enable, Start, Stop, Unload, Load, Clone, Checkout, Pull, PullFails, GitConfig
  <2> QED BY <2>1 DEF Typing, Done, Bail, Drop, Advance, Goto, Interrupt
<1>3. CASE UNCHANGED cmdVars
  BY <1>3 DEF Typing, cmdVars
<1> QED BY <1>1, <1>2, <1>3, OutsideSteps DEF Next

\* Types of the command,
LEMMA CommandTyped ==
  ASSUME Typing, [Next]_vars
  PROVE  /\ platform' \in Platforms
         /\ cmd' \in [name : Commands, port : Ports, up : BOOLEAN]
         /\ begun' \in 0 .. MaxCommands
<1>1. CASE Run
  <2>1. PICK name \in Commands, port \in Ports : Begin(name, port)
    BY <1>1, ServiceAssumption DEF Run, Commands, resolve_daemon_port
  <2> QED BY <2>1, ServiceAssumption DEF Begin, Typing
<1>2. CASE UNCHANGED <<platform, cmd, begun>>
  BY <1>2 DEF Typing
<1> QED BY <1>1, <1>2, SameCommand, OutsideSteps DEF Next, cmdVars

\* of the service,
LEMMA ServiceTyped ==
  ASSUME Typing, [Next]_vars
  PROVE  /\ {unit, loaded, proc, shell}' \subseteq Port
         /\ enabled' \in BOOLEAN /\ wanted' \in BOOLEAN
<1> USE DEF Typing, Port
<1>1. CASE UNCHANGED <<unit, managerVars, shell>>
  BY <1>1 DEF managerVars
<1>2. CASE WriteUnit \/ RemoveUnit
  BY <1>2 DEF WriteUnit, RemoveUnit, managerVars
<1>3. CASE Reload \/ Start \/ Stop \/ Unload \/ Load
  BY <1>3 DEF Reload, Start, Stop, Unload, Load
<1>4. CASE Enable
  <2>1. enabled' = At("enable") /\ UNCHANGED <<unit, loaded, wanted, proc, shell>>
    BY <1>4 DEF Enable
  <2>2. At("enable") \in BOOLEAN
    BY Zenon DEF At
  <2> QED BY <2>1, <2>2
<1>5. CASE Bind \/ Exit \/ StopShell \/ Login \/ \E p \in Ports : run_daemon(p)
  <2>1. CASE Login
    <3>1. wanted' = (enabled /\ unit # None) /\ enabled' = enabled /\ loaded' = unit /\ unit' = unit
          /\ proc' = None /\ shell' = None
      BY <2>1 DEF Login
    <3> QED BY <3>1
  <2>2. CASE Bind \/ Exit
    BY <2>2 DEF Bind, Exit
  <2>3. CASE StopShell \/ \E p \in Ports : run_daemon(p)
    BY <2>3 DEF StopShell, run_daemon, managerVars
  <2> QED BY <1>5, <2>1, <2>2, <2>3
<1>6. CASE Run \/ Interrupt \/ CommandFails \/ UNCHANGED vars
  BY <1>1, <1>6, DropsIgnored DEF Run, Begin, Interrupt, Drop, Bail, vars
<1>7. CASE CheckTools \/ NotInstalled \/ Installed \/ Clone \/ Checkout \/ Pull \/ PullFails
           \/ NoRepository \/ \E s \in {"url", "locksurl", "locksverify", "unset"} : GitConfig(s)
  BY <1>1, <1>7 DEF CheckTools, NotInstalled, Installed, Clone, Checkout, Pull, PullFails,
     NoRepository, GitConfig, Bail, Drop
<1> QED BY <1>2, <1>3, <1>4, <1>5, <1>6, <1>7 DEF Next, Step

\* Only setup and clone touch the working copy.
LEMMA CopySteps ==
  ASSUME [Next]_vars
  PROVE  \/ UNCHANGED repoVars
         \/ Clone \/ Checkout \/ Pull
         \/ \E s \in {"url", "locksurl", "locksverify", "unset"} : GitConfig(s)
<1>1. Run \/ CommandFails \/ Interrupt \/ NoRepository => UNCHANGED repoVars
  BY DropsIgnored DEF Run, Begin, Interrupt, Drop, Bail
<1>2. CheckTools \/ WriteUnit \/ NotInstalled \/ Installed \/ RemoveUnit \/ Reload \/ Enable
        \/ Start \/ Stop \/ Unload \/ Load \/ PullFails => UNCHANGED repoVars
  BY DEF CheckTools, WriteUnit, NotInstalled, Installed, RemoveUnit, Reload, Enable, Start,
     Stop, Unload, Load, PullFails, Bail
<1> QED BY <1>1, <1>2, OutsideSteps DEF Next, Step

\* of a working copy at its beginning,
LEMMA FreshTyped == NoRepo \in Settings /\ Fresh \in Settings /\ Legacy \in Settings
<1>1. NoRepo \in Settings
  BY DEF NoRepo, Settings, Port, Heads
<1>2. Fresh \in Settings
  BY <1>1 DEF Fresh, Settings, Heads
<1>3. Legacy \in Settings
  BY <1>2 DEF Legacy, Settings
<1> QED BY <1>1, <1>2, <1>3

\* and later.
LEMMA CopyTyped ==
  ASSUME Typing, [Next]_vars
  PROVE  repo' \in Settings /\ via' \in Port \cup {"remote"}
<1> USE DEF Typing
<1>1. CASE UNCHANGED repoVars
  BY <1>1 DEF repoVars
<1>2. CASE Clone
  BY <1>2, FreshTyped DEF Clone, Port
<1>3. CASE Checkout
  <2>1. Branches[1] \in Heads
    BY ServiceAssumption DEF Heads
  <2> QED BY <1>3, <2>1 DEF Checkout, Settings
<1>4. CASE Pull
  BY <1>4 DEF Pull, Settings
<1>5. ASSUME NEW s \in {"url", "locksurl", "locksverify", "unset"}, GitConfig(s)
      PROVE  repo' \in Settings /\ via' \in Port \cup {"remote"}
  BY <1>5 DEF GitConfig, Settings, Port
<1> QED BY <1>1, <1>2, <1>3, <1>4, <1>5, CopySteps

\* Types are kept.
LEMMA TypingKept ==
  ASSUME Typing, [Next]_vars
  PROVE  Typing'
BY OutcomeTyped, CommandTyped, ServiceTyped, CopyTyped DEF Typing

(***************************************************************************)
(* Lines of setup and clone.                                               *)
(***************************************************************************)
CopyTrue == Configuring /\ Addressed /\ SetupIsTrue /\ ClonedThroughDaemon

\* A command that has not ended well reports nothing.
LEMMA NotReported ==
  ASSUME said' # "ok"
  PROVE  SetupIsTrue' /\ ClonedThroughDaemon'
BY DEF SetupIsTrue, ClonedThroughDaemon, Reported

\* A line of setup or clone that is not the last.
LEMMA NextLine ==
  ASSUME CopyInv, pc > 0, Advance, pc # Len(Program), Configuring', Addressed'
  PROVE  CopyTrue'
<1>1. said' # "ok"
  BY DEF CopyInv, ServiceInv, Formed, Advance
<1> QED BY <1>1, NotReported DEF CopyTrue

\* A line of setup.
LEMMA SetupLine ==
  ASSUME CopyInv, pc > 0, cmd.name = "setup", Step \/ CommandFails \/ Interrupt
  PROVE  CopyTrue'
<1> USE DEF CopyInv, ServiceInv
<1>1. cmd' = cmd /\ cmd.port \in Ports /\ repo \in Settings
  BY SameCommand DEF Typing
<1>2. CASE Goto("failed") \/ Goto("interrupted")
  BY <1>1, <1>2, NotReported DEF CopyTrue, Goto, Configuring, Addressed
<1>3. Addressed' /\ ClonedThroughDaemon'
  BY <1>1 DEF Addressed, ClonedThroughDaemon
<1>4. CASE Drop /\ Program[pc] \in StatusIgnored
  <2>1. dropped' # {}
    BY <1>4 DEF Drop
  <2> QED BY <1>3, <2>1 DEF CopyTrue, Configuring, SetupIsTrue, Reported
<1>5. CASE GitConfig(Program[pc]) /\ Program[pc] \in {"url", "locksurl", "locksverify", "unset"}
  <2>1. Advance /\ dropped' = dropped
    BY <1>5 DEF GitConfig, Done
  <2>2. /\ pc = 1 => repo' = [repo EXCEPT !.url = cmd.port]
        /\ pc = 2 => repo' = [repo EXCEPT !.locksurl = cmd.port]
        /\ pc = 3 => repo' = [repo EXCEPT !.locksverify = TRUE]
        /\ pc = 4 => repo' = [repo EXCEPT !.old = FALSE]
    BY <1>5, SetupPlaces DEF GitConfig
  <2>3. pc \in 1 .. 4 /\ Len(Program) = 4
    BY SetupPlaces
  <2>4. dropped = {} => Configured(pc - 1)
    BY DEF Configuring
  <2>5. CASE pc # 4
    <3>1. pc' = pc + 1
      BY <2>1, <2>3, <2>5 DEF Advance
    <3>2. ASSUME dropped' = {} PROVE Configured(pc - 1)'
      <4>1. Configured(pc - 1)
        BY <2>1, <2>4, <3>2
      <4>2. CASE pc = 1
        BY <1>1, <2>2, <3>1, <4>2 DEF Configured, Settings
      <4>3. CASE pc = 2
        BY <1>1, <2>2, <3>1, <4>1, <4>3 DEF Configured, Settings
      <4>4. CASE pc = 3
        BY <1>1, <2>2, <3>1, <4>1, <4>4 DEF Configured, Settings
      <4> QED BY <2>3, <2>5, <4>2, <4>3, <4>4
    <3>3. Configuring'
      BY <1>1, <2>3, <3>1, <3>2 DEF Configuring, Configured
    <3> QED BY <1>3, <2>1, <2>3, <2>5, <3>3, NextLine
  <2>6. CASE pc = 4
    <3>1. pc' = 0
      BY <2>1, <2>3, <2>6 DEF Advance, Goto
    <3>2. dropped' = {} =>
            /\ repo'.url = cmd.port /\ repo'.locksurl = cmd.port
            /\ repo'.locksverify /\ ~repo'.old
      BY <1>1, <2>1, <2>2, <2>4, <2>6 DEF Configured, Settings
    <3> QED BY <1>1, <1>3, <3>1, <3>2 DEF CopyTrue, Configuring, SetupIsTrue, Reported
  <2> QED BY <2>5, <2>6
<1>6. ~(Clone \/ Checkout \/ Pull)
  BY SetupPlaces DEF Clone, Checkout, Pull, At
<1> QED BY <1>2, <1>4, <1>5, <1>6, CopyLines

\* A line of clone.
LEMMA CloneLine ==
  ASSUME CopyInv, pc > 0, cmd.name = "clone", Step \/ CommandFails \/ Interrupt
  PROVE  CopyTrue'
<1> USE DEF CopyInv, ServiceInv
<1>1. cmd' = cmd /\ cmd.port \in Ports /\ repo \in Settings
  BY SameCommand DEF Typing
<1>2. CASE Goto("failed") \/ Goto("interrupted")
  BY <1>1, <1>2, NotReported DEF CopyTrue, Goto, Configuring, Addressed
<1>3. Len(Program) = 7 /\ pc \in 1 .. 7
  BY ClonePlaces
<1>4. CASE Drop /\ Program[pc] \in StatusIgnored
  <2>1. /\ dropped' = dropped \cup {Program[pc]} /\ Advance /\ repo' = repo
    BY <1>4 DEF Drop, repoVars
  <2>2. pc \in 2 .. 6
    BY <1>4, ClonePlaces DEF StatusIgnored, SpawnIgnored
  <2>3. pc' = pc + 1
    BY <1>3, <2>1, <2>2 DEF Advance
  <2>4. pc = 2 => "url" \in dropped'
    BY <2>1, ClonePlaces
  <2>5. Addressed'
    BY <1>1, <2>1, <2>2, <2>3, <2>4 DEF Addressed
  <2>6. Configuring'
    BY <2>1 DEF Configuring
  <2> QED BY <1>3, <2>1, <2>2, <2>5, <2>6, NextLine
<1>5. CASE GitConfig(Program[pc]) /\ Program[pc] \in {"url", "locksurl", "locksverify", "unset"}
  <2>1. Advance /\ dropped' = dropped
    BY <1>5 DEF GitConfig, Done
  <2>2. /\ pc = 2 => repo' = [repo EXCEPT !.url = cmd.port]
        /\ pc = 3 => repo' = [repo EXCEPT !.locksurl = cmd.port]
        /\ pc = 4 => repo' = [repo EXCEPT !.locksverify = TRUE]
        /\ pc = 5 => repo' = [repo EXCEPT !.old = FALSE]
    BY <1>5, ClonePlaces DEF GitConfig
  <2>3. pc \in 2 .. 5
    BY <1>5, ClonePlaces
  <2>4. pc' = pc + 1
    BY <1>3, <2>1, <2>3 DEF Advance
  <2>5. dropped = {} => Configured(pc - 2)
    BY DEF Configuring
  <2>6. ASSUME dropped' = {} PROVE Configured(pc - 2)'
    <3>1. Configured(pc - 2)
      BY <2>1, <2>5, <2>6
    <3>2. CASE pc = 2
      BY <1>1, <2>2, <2>4, <3>2 DEF Configured, Settings
    <3>3. CASE pc = 3
      BY <1>1, <2>2, <2>4, <3>1, <3>3 DEF Configured, Settings
    <3>4. CASE pc = 4
      BY <1>1, <2>2, <2>4, <3>1, <3>4 DEF Configured, Settings
    <3>5. CASE pc = 5
      BY <1>1, <2>2, <2>4, <3>1, <3>5 DEF Configured, Settings
    <3> QED BY <2>3, <3>2, <3>3, <3>4, <3>5
  <2>7. Configuring'
    BY <1>1, <2>3, <2>4, <2>6 DEF Configuring, Configured
  <2>8. Addressed'
    BY <1>1, <2>1, <2>2, <2>3, <2>4 DEF Addressed, Settings
  <2> QED BY <1>3, <2>1, <2>3, <2>7, <2>8, NextLine
<1>6. CASE Clone
  <2>1. pc = 1 /\ Advance /\ dropped' = dropped /\ repo' = Fresh
    BY <1>6, ClonePlaces DEF Clone, At, Done
  <2>2. pc' = 2
    BY <1>3, <2>1 DEF Advance
  <2>3. Fresh.url = None
    BY DEF Fresh, NoRepo
  <2>4. Addressed'
    BY <2>1, <2>2, <2>3 DEF Addressed
  <2>5. Configuring'
    BY <1>1, <2>2 DEF Configuring, Configured
  <2> QED BY <1>3, <2>1, <2>4, <2>5, NextLine
<1>7. CASE Checkout
  <2>1. pc = 6 /\ Advance /\ dropped' = dropped /\ repo' = [repo EXCEPT !.head = Branches[1]]
    BY <1>7, ClonePlaces DEF Checkout, At, Done
  <2>2. pc' = 7
    BY <1>3, <2>1 DEF Advance
  <2>3. /\ repo'.url = repo.url /\ repo'.locksurl = repo.locksurl
        /\ repo'.locksverify = repo.locksverify /\ repo'.old = repo.old
    BY <1>1, <2>1 DEF Settings
  <2>4. Configuring' /\ Addressed'
    BY <1>1, <2>1, <2>2, <2>3 DEF Configuring, Configured, Addressed
  <2> QED BY <1>3, <2>1, <2>4, NextLine
<1>8. CASE Pull
  <2>1. /\ pc = 7 /\ Advance /\ dropped' = dropped /\ repo' = repo
        /\ via' = IF repo.url = None THEN "remote" ELSE repo.url
    BY <1>8, ClonePlaces DEF Pull, At, Done
  <2>2. pc' = 0
    BY <1>3, <2>1 DEF Advance, Goto
  <2>3. Configuring' /\ Addressed'
    BY <2>2 DEF Configuring, Addressed
  <2>4. dropped = {} => Configured(5)
    BY <2>1 DEF Configuring
  <2>5. SetupIsTrue'
    BY <1>1, <2>1, <2>4 DEF SetupIsTrue, Reported, Configured
  <2>6. cmd.port # None
    BY <1>1, ServiceAssumption
  <2>7. ClonedThroughDaemon'
    BY <1>1, <2>1, <2>6 DEF Addressed, ClonedThroughDaemon
  <2> QED BY <2>3, <2>5, <2>7 DEF CopyTrue
<1> QED BY <1>2, <1>4, <1>5, <1>6, <1>7, <1>8, CopyLines

\* Setup and clone tell the truth through every step.
LEMMA CopyKept == CopyInv /\ [Next]_vars => CopyInv'
<1> SUFFICES ASSUME CopyInv, [Next]_vars PROVE CopyInv'
  OBVIOUS
<1>1. ServiceInv' /\ Typing'
  BY StaysTrue, TypingKept DEF CopyInv
<1>2. CopyTrue'
  <2>1. CASE Run
    <3>1. pc' = 1 /\ said' = "running" /\ dropped' = {}
      BY <2>1 DEF Run, Begin
    <3>2. Configuring' /\ Addressed'
      BY <3>1 DEF Configuring, Configured, Addressed
    <3> QED BY <3>1, <3>2, NotReported DEF CopyTrue
  <2>2. CASE Step \/ CommandFails \/ Interrupt
    <3>1. pc > 0 /\ cmd' = cmd
      BY <2>2, SameCommand
    <3>2. CASE cmd.name \notin {"setup", "clone"}
      BY <3>1, <3>2 DEF CopyTrue, Configuring, Addressed, SetupIsTrue, ClonedThroughDaemon,
         Reported
    <3> QED BY <2>2, <3>1, <3>2, SetupLine, CloneLine
  <2>3. CASE UNCHANGED <<platform, cmdVars, repoVars>>
    BY <2>3 DEF CopyInv, CopyTrue, Configuring, Configured, Addressed, SetupIsTrue,
       ClonedThroughDaemon, Reported, cmdVars, repoVars
  <2> QED BY <2>1, <2>2, <2>3, OutsideSteps DEF Next
<1> QED BY <1>1, <1>2 DEF CopyInv, CopyTrue

\* Before any command.
LEMMA CopyStarts == Init => CopyInv
<1> SUFFICES ASSUME Init PROVE CopyInv
  OBVIOUS
<1>1. platform \in Platforms /\ pc = 0 /\ said = "none" /\ dropped = {} /\ begun = 0
  BY DEF Init
<1>2. cmd = [name |-> "install", port |-> DEFAULT_DAEMON_PORT, up |-> FALSE]
  BY DEF Init
<1>3. enabled \in BOOLEAN
  <2>1. enabled = (platform = "macos")
    BY DEF Init
  <2> QED BY <2>1
<1>4. /\ unit = None /\ loaded = None /\ wanted = FALSE /\ proc = None /\ shell = None
      /\ repo \in {NoRepo, Legacy} /\ via = None
  BY DEF Init
<1>5. Typing
  <2>1. cmd \in [name : Commands, port : Ports, up : BOOLEAN]
    BY <1>2, ServiceAssumption DEF Commands
  <2>2. begun \in 0 .. MaxCommands
    BY <1>1, ServiceAssumption
  <2>3. /\ {unit, loaded, proc, shell} \subseteq Port /\ wanted \in BOOLEAN
        /\ repo \in Settings /\ via \in Port \cup {"remote"}
    BY <1>4, FreshTyped DEF Port
  <2> QED BY <1>1, <1>3, <2>1, <2>2, <2>3 DEF Typing
<1>6. Configuring /\ Addressed /\ SetupIsTrue /\ ClonedThroughDaemon
  BY <1>1, <1>2 DEF Configuring, Addressed, SetupIsTrue, ClonedThroughDaemon, Reported
<1> QED BY <1>5, <1>6, StartsTrue DEF CopyInv

\* Commands, the service and the working copy are always of their types: no line of a
\* program leads out of it, and no step writes a port nobody named (ops.rs).
THEOREM ServiceTyping == Spec => []TypeOK
<1>1. CopyInv => TypeOK
  BY DEF CopyInv, ServiceInv, Formed, Typing, TypeOK
<1> QED BY CopyStarts, CopyKept, <1>1, PTL DEF Spec

\* A setup or clone that reports success and dropped no failure leaves both addresses
\* on the port that it was given, whatever setups were there before, for other ports or
\* interrupted at any line (ops.rs:23-83, 89-192).
THEOREM SetupReportsTruth == Spec => []SetupIsTrue
<1>1. CopyInv => SetupIsTrue
  BY DEF CopyInv
<1> QED BY CopyStarts, CopyKept, <1>1, PTL DEF Spec

\* A clone that reports success has its objects from the port it configured, unless the
\* failure of the very line that sets lfs.url was dropped (ops.rs:42, 89-192).
THEOREM ClonesComeThroughDaemon == Spec => []ClonedThroughDaemon
<1>1. CopyInv => ClonedThroughDaemon
  BY DEF CopyInv
<1> QED BY CopyStarts, CopyKept, <1>1, PTL DEF Spec

=============================================================================
