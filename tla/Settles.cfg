SPECIFICATION MCFairSpec
CONSTANTS
  Parts = {"dictation", "insertion", "supervisor", "recorder", "hold", "update", "notes", "transport", "capture", "windows", "page", "draft", "trail", "pill"}
  Off = Off
  SessionIds = {d1}
  NoId = NoId
  AudioCalls = {a1}
  MaxModelOps = 0
  NoTarget = NoTarget
  Hidden = Hidden
  Mixed = Mixed
  NoModel = NoModel
  NoSession = NoSession
  Absent = Absent
  NoPreparation = NoPreparation
PROPERTIES
  DictationEnds
  WorkSettles
  SurfacesSettle
CHECK_DEADLOCK FALSE
