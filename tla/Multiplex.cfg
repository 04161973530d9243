SPECIFICATION FairSpec
CONSTANTS
  Names = {x}
  MaxChannels = 3
  MaxOpens = 2
  MaxWrites = 1
INVARIANTS
  TablesAgree
  ReadsOneChannel
PROPERTIES
  CloseResolvesUncrossed
  SettlesUnlessEarly
CHECK_DEADLOCK FALSE
