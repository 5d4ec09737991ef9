SPECIFICATION Spec
CONSTANTS
  NoTarget = NoTarget
  Hidden = Hidden
  Mixed = Mixed
  Insertions = {i1, i2}
  UserCopies = {u1, rich}
  Unrestorable = {rich}
  Apps = {a1}
  Windows = {w1}
  Controls = {c1}
  Together = {{a1, w1, c1}}
  Lapses = {{}}
  Injections = {"acknowledging", "injected"}
  MaxGeneration = 2
  MaxSequence = 4
INVARIANTS
  InsertionSafety
PROPERTIES
  PasteSeesOwnText
  RestoresOnlyConsumed
