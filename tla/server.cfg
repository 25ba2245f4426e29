SPECIFICATION FairSpec
CONSTANTS
  Responses = {r1, r2, r3}
  Envs = {e1, e2}
  MaxStarts = 2
  None = None
INVARIANTS NothingRunsUnheld OpenStreamsAreReached NoWriteAfterEnd
PROPERTIES StopWaitsOnlyForClients
CHECK_DEADLOCK FALSE
