SPECIFICATION Spec
CONSTANTS
  f1 = f1
  f2 = f2
  d1 = d1
  d2 = d2
  none = none
  LocalActors <- OneFresh
  RemoteActors <- TwoRemotes
  Docs <- TwoDocs
  NoActor <- none
  MaxSeq = 2
  Infinity = 3
  RemoteDoc <- TwoWriters
  RemoteLength <- TwoLength
  PeerCursor <- TwoCursor
  MergePairs <- OursIntoTheirs
  MaxRestarts = 0
INVARIANTS
  OneDocPerFeed
CHECK_DEADLOCK FALSE
