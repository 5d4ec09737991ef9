SPECIFICATION Spec
CONSTANTS
  NoTarget = NoTarget
  Hidden = Hidden
  Mixed = Mixed
  Insertions = {i1}
  UserCopies = {u1}
  Unrestorable = {}
  Apps = {a1, a2}
  Windows = {w1, w2}
  Controls = {c1, c2}
  Together = {{a1, w1, c1}, {a1, w1, c2}, {a1, w2, c1}, {a2, w1, c1}}
  Lapses = {{}, {"cold", "control"}, {"editable"}}
  Injections = {"injected"}
  MaxGeneration = 2
  MaxSequence = 1
PROPERTIES
  PasteGoesWhereDictationBegan
