SPECIFICATION MCSpec
CONSTANTS
  Parts = {"lifecycle", "live", "speech", "windows"}
  Off = Off
  Artifact <- OwnArtifact
  NoModel = NoModel
  NoSession = NoSession
  Models = {"small", "large"}
  LiveModels = {"small", "large"}
  Sessions = {"s1", "s2"}
  Kinds = {"ready", "transcribe", "begin", "info", "shutdown", "install"}
  Capacity = 2
  MaxCalls = 2
  MaxProcesses = 3
  MaxFrames = 3
  MaxLost = 1
  Misbehaves = TRUE
  Coalesces = FALSE
INVARIANTS
  SupervisorSafety
  TranscriptsAreWhole
PROPERTIES
  NothingIsDropped
CHECK_DEADLOCK FALSE
