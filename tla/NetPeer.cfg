SPECIFICATION FairSpec
CONSTANTS
  c1 = c1
  c2 = c2
  c3 = c3
  none = none
  Conns <- ThreeConns
  None <- none
  LateDelivery = {TRUE, FALSE}
INVARIANTS
  TypeOK
  ClosingHoldsNothing
  NothingOrphaned
PROPERTIES
  LinkSpec
  ReconnectsOnTime
CHECK_DEADLOCK FALSE
