\* One clone, nothing fails.
CONSTANTS
  p1 = p1  p2 = p2
  None = None
  Platforms = {"linux"}
  Ports = {p1, p2}
  DEFAULT_DAEMON_PORT = p1
  Branches <- MCBranches
  DefaultBranch = "main"
  Faults = {}
  MaxCommands = 1
SPECIFICATION Spec
INVARIANTS OnDefaultBranch
