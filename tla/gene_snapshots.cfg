SPECIFICATION Spec
CONSTANTS
  Procs = {cli, mcp}
  Versions <- MCVersions
  MaxCommands = 4
  MaxCrashes = 2
INVARIANTS
  OldCopySurvives
  NothingIsMixed
  SidecarNamesTheCopy
CHECK_DEADLOCK FALSE
CONSTRAINT Serial
SYMMETRY Symmetries
