SPECIFICATION FairSpec
CONSTANTS
  c1 = c1
  c2 = c2
  a = a
  b = b
  Last = 3
  Commits = {c1, c2}
  Bytes = {a, b}
  Builds <- TheBuilds
  MaxTroubles = 2
  None = None
INVARIANTS ValidatedIsOnePack OnePackInOrder
PROPERTY ResumedReleaseCompletes
