SPECIFICATION MCSpec
CONSTANTS
  Parts = {"page", "choice", "dialog", "racing", "settings", "spoken", "marks", "names"}
  Off = Off
  Fields = {"launch", "shortcut", "microphone"}
  MaxEdits = 3
  MaxOthers = 1
  MaxMessages = 3
  Racing = FALSE
INVARIANTS
  PageIsTrue
  DialogIsTrue
  SettingsAreValid
  TextIsWhatWasSaid
PROPERTIES
  OnlyWhatWasMeant
CHECK_DEADLOCK FALSE
