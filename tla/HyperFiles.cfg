SPECIFICATION FairSpec
CONSTANTS
  Files = {x, y}
  Recorded = {y}
  MaxSize = 3
  MaxQueries = 2
  BlockSize = 2
  MaxPiece = 3
  Readers = {r}
  MaxRestarts = 1
INVARIANTS
  GetsTheFile
  LedgerIsTrue
  ToldOfFiles
PROPERTIES
  QueriesAnswered
CHECK_DEADLOCK FALSE
