SPECIFICATION ThrowingSpec
CONSTANTS
  Clients = {c1}
  MaxRevision = 2
  MaxFrames = 1
  Streams = FALSE
PROPERTY PollingRecovers
