SPECIFICATION FairSpec
CONSTANTS
  c1 = c1
  c2 = c2
  c3 = c3
  none = none
  Conns <- TwoConns
  None <- none
  LateDelivery = {TRUE}
PROPERTIES
  Reconnects
CHECK_DEADLOCK FALSE
