SPECIFICATION FairSpec
CONSTANTS
  Envs = {e1}
  Contents = {x, y}
  MaxRevision = 2
  None = None
  Callers = {c1, c2}
  NoFile = NoFile
  ConcurrentColdReads = TRUE
INVARIANTS PutsAreSerial
PROPERTY EveryCallSettles
