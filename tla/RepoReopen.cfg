SPECIFICATION FairSpec
CONSTANTS
  f1 = f1
  f2 = f2
  d1 = d1
  d2 = d2
  none = none
  LocalActors <- MoreLocals
  RemoteActors <- TheirRemotes
  Docs <- TheirDocs
  NoActor <- none
  MaxSeq = 2
  Infinity = 3
  RemoteDoc <- TheirWriters
  RemoteLength <- TheirLength
  PeerCursor <- TheirCursor
  MergePairs <- NoMerges
  MaxRestarts = 1
INVARIANTS
  FeedOrder
  DurableChangesShown
PROPERTIES
  StoresGrow
  LoadingEnds
  ReadyConverges
CHECK_DEADLOCK FALSE
