SPECIFICATION MCSpec
CONSTANTS
  Parts = {"lifecycle"}
  Off = Off
  Artifact <- OwnArtifact
  NoModel = NoModel
  NoSession = NoSession
  Models = {"small"}
  LiveModels = {}
  Sessions = {"s1"}
  Kinds = {"ready"}
  Capacity = 1
  MaxCalls = 1
  MaxProcesses = 1
  MaxFrames = 0
  MaxLost = 0
  Misbehaves = FALSE
  Coalesces = TRUE
INVARIANTS
  LoadedMeansLive
CHECK_DEADLOCK FALSE
