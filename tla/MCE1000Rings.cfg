CONSTANTS
  N = 3
  Gateways = {g1}
  Default = g1
  None = None
  LateNet = FALSE
SPECIFICATION FairSpec
INVARIANTS
  RxInOrder
  TxInOrder
  CardHasRoom
PROPERTIES
  Delivered
  OnLine
CHECK_DEADLOCK FALSE
