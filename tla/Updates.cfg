SPECIFICATION MCSpec
CONSTANTS
  Parts = {"update", "notes", "windows", "prompt"}
  Off = Off
  Editors = {"settings", "notes"}
  MaxVersion = 1
  MaxAttempts = 2
  Absent = Absent
  NoPreparation = NoPreparation
INVARIANTS
  RetiresSavedEditors
  FrozenForAReason
  InstallsReleased
  EditorsAreKept
PROPERTIES
  TypingIsKept
CHECK_DEADLOCK FALSE
