SPECIFICATION MCSpec
CONSTANTS
  Parts = {"install", "routing", "auto", "overlap", "files", "race"}
  Off = Off
  Files = {"weights"}
  Verifiers = {"status", "apply"}
  Probes = {}
  Limit = 1
  MaxClock = 2
  MaxRuns = 1
INVARIANTS
  GoodCopyIsKept
  VerdictsAreTrue
PROPERTIES
  SelectionIsKept
  AutoIsSteady
CHECK_DEADLOCK FALSE
