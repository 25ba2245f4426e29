SPECIFICATION FairSpec
CONSTANTS
  MaxRevision = 3
  Contents = {x, y}
  Refused = Refused
  Unreadable = Unreadable
  None = None
PROPERTIES FileIsServed BrokenFileIsReported
