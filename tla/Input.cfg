SPECIFICATION MCSpec
CONSTANTS
  Parts = {"transport", "hooked", "monitored", "shortcuts", "saving", "capture", "captureOne", "recording", "streaming", "interrupted", "encoder", "pill", "picker"}
  Off = Off
  MaxPending = 4
  MaxFrames = 12
INVARIANTS
  ShortcutsAgree
  KeysArePaired
  RecordingIsSound
  PillFitsItsWindow
PROPERTIES
  ToggleOrHold
  RefusalChangesNothing
  ImplementsStream
CHECK_DEADLOCK FALSE
