CONSTANTS
  Urls = {u1, u2}
  Named = {u2}
  Nowhere = Nowhere
  None = None
  Ports = {p1, p2}
  Length = 2
  BufferSize = 5
  Frames = 1
  AnyMac = TRUE
  Faults = {}
  MaxFaults = 0
  MaxNet = 2
SPECIFICATION Spec
SYMMETRY Symmetry
INVARIANTS
  SavedUnderItsName
