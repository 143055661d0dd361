CONSTANTS
  Urls = {u1, u2}
  Named = {u2}
  Nowhere = Nowhere
  None = None
  Ports = {p1, p2}
  Length = 3
  BufferSize = 6
  Frames = 1
  AnyMac = TRUE
  Faults = {"lose", "duplicate", "reorder"}
  MaxFaults = 1
  MaxNet = 2
SPECIFICATION Spec
SYMMETRY Symmetry
INVARIANTS
  TypeOK
  OneStream
  NoGap
  WholeAfterFin
