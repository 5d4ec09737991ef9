SPECIFICATION MCSpec
CONSTANTS
  Parts = {"reads", "deletes", "rules", "profiles", "upgrade", "export", "trail", "cache", "repair"}
  Off = Off
  Apps = {"a1", "a2"}
  Names = {1, 2, 3}
  Requests = {"r1", "r2"}
  Pids = {2, 3}
  MaxSweeps = 2
  MaxFaults = 1
INVARIANTS
  SavedDataStays
  ExportIsWhole
  CleaningIsSound
PROPERTIES
  RecordsAreAccountedFor
  RequestsAreServed
CHECK_DEADLOCK FALSE
