\* Three commands on either platform; any step may fail or be interrupted.
CONSTANTS
  p1 = p1  p2 = p2
  None = None
  Platforms = {"linux", "macos"}
  Ports = {p1, p2}
  DEFAULT_DAEMON_PORT = p1
  Branches <- MCBranches
  DefaultBranch = "main"
  Faults = {"status", "spawn", "interrupt", "exit"}
  MaxCommands = 3
SPECIFICATION FairSpec
INVARIANTS TypeOK InstallIsTrue UninstallIsTrue SetupIsTrue ClonedThroughDaemon
PROPERTIES OrphanedOnlyByDrop ComesUp
