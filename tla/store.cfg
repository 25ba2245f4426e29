SPECIFICATION Spec
CONSTANTS
  Envs = {e1, e2}
  Contents = {x, y}
  MaxRevision = 2
  None = None
  Callers = {c1, c2}
  NoFile = NoFile
  ConcurrentColdReads = FALSE
SYMMETRY Symmetry
INVARIANTS MemoryTracksDisk NothingToldIsLost ReadsNeverGoBack
PROPERTY ImplementsRulesetStore
