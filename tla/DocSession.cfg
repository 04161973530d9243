SPECIFICATION FairSpec
CONSTANTS
  Root = root
  Old = old
  Fresh = fresh
  Spare = spare
  Remote = remote
  NoActor = none
  MaxChanges = 3
  MaxRemote = 2
  MaxDestroys = 1
INVARIANTS
  TypeOK
  ChangesConserved
  FeedInOrder
  RequestsAreTheActors
  UndisturbedShowsDocument
  WatcherUpToDate
PROPERTIES
  QueuedChangesRun
CHECK_DEADLOCK FALSE
