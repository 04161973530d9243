SPECIFICATION Spec
CONSTANTS
  c1 = c1
  c2 = c2
  d = d
  b = b
  none = none
  Conns <- TwoConns
  None <- none
  LateDelivery = TRUE
  Feeds <- TwoFeeds
  Docs <- OneDoc
  Owner <- Writers
  Stores <- AuthorityMayHaveIt
INVARIANTS
  TypeOK
  SharedIsReplicated
  OnlyCommonFeeds
  Meet
PROPERTIES
  ExchangeEnds
SYMMETRY ConnsAreAlike
CHECK_DEADLOCK FALSE
