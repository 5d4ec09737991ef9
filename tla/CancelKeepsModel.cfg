SPECIFICATION Spec
CONSTANTS
  SessionIds = {d1}
  NoId = NoId
  AudioCalls = {a1}
  MaxModelOps = 0
CHECK_DEADLOCK FALSE
PROPERTY CancelKeepsIdleModel
