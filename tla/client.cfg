SPECIFICATION FairSpec
CONSTANTS
  Envs = {e1, e2}
  Contents = {x, y}
  MaxRevision = 2
  None = None
  Waiters = {w1}
  Invalid = Invalid
  Environment = None
  HasCache = TRUE
  ListenersMayClose = FALSE
INVARIANTS CachedIsStale ListenersKnowTheStatus NoWaiterIsForgotten LastKnownGoodIsCached CloseClosesTheSource ProviderKeepsItsWord
PROPERTIES SnapshotsOnlyAdvance CacheNeverGoesBack CloseResolves SilenceIsReported
