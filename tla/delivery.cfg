SPECIFICATION FairDeliverySpec
CONSTANTS
  Clients = {c1}
  MaxRevision = 3
  MaxFrames = 2
  Streams = TRUE
INVARIANTS NotModifiedIsServed StreamMissesNothing
PROPERTIES DeliversStoredRulesets PollingRecovers HealthRecovers
