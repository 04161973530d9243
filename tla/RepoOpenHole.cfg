SPECIFICATION FairSpec
CONSTANTS
  f1 = f1
  f2 = f2
  d1 = d1
  d2 = d2
  none = none
  LocalActors <- TheirLocals
  RemoteActors <- TheirRemotes
  Docs <- TheirDocs
  NoActor <- none
  MaxSeq = 2
  Infinity = 3
  RemoteDoc <- TheirWriters
  RemoteLength <- TheirLength
  PeerCursor <- TheirCursor
  MergePairs <- NoMerges
  MaxRestarts = 0
PROPERTIES
  OpenedLoads
CHECK_DEADLOCK FALSE
