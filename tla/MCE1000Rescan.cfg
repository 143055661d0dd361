CONSTANTS
  N = 3
  Gateways = {g1}
  Default = g1
  None = None
  LateNet = TRUE
SPECIFICATION Spec
INVARIANTS
  Listening
CHECK_DEADLOCK FALSE
