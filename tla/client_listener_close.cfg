SPECIFICATION Spec
CONSTANTS
  Envs = {e1}
  Contents = {x, y}
  MaxRevision = 2
  None = None
  Waiters = {w1}
  Invalid = Invalid
  Environment = None
  HasCache = TRUE
  ListenersMayClose = TRUE
INVARIANT CloseClosesTheSource
