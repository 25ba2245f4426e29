SPECIFICATION Spec
CONSTANTS
  Envs = {env}
  Contents <- AllContents
  MaxRevision = 4
  None = None
  Updates = {u1, u2, u3}
  Creators = {c1}
  Retries = 1
SYMMETRY Symmetry
INVARIANTS OutcomesAreTrue ConflictMeansProgress
PROPERTY NoUpdateIsLost
CHECK_DEADLOCK FALSE
