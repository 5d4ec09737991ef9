SPECIFICATION Spec
CONSTANTS
  SessionIds = {d1, d2}
  NoId = NoId
  AudioCalls = {a1}
  MaxModelOps = 2
SYMMETRY Symmetry
CONSTRAINT OneMatter
CHECK_DEADLOCK FALSE
INVARIANTS
  SessionInvariant
  ExclusionInvariant
PROPERTIES
  DeliversOnlyLiveDictation
  ImplementsLifecycle
