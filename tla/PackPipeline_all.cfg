\* Two processes, one after the other or at once, and an edit at any step.
CONSTANTS
  Slots = 4
  WINDOW_BASE = 12
  SCAN_BUDGET = 1
  Regions <- MCRegions
  Tables <- MCTables
  Recorded <- MCRecorded
  Decoded <- MCDecoded
  Releases = {"r1", "r2"}
  Procs = {"p1", "p2"}
  Commands <- MCCommands
  Edits = 1
  TORN = TORN
  NONE = NONE
SPECIFICATION Spec
INVARIANTS ReleasesServe RefusedWritesNothing ReleasesAreWhole ManifestMatches
CHECK_DEADLOCK FALSE
