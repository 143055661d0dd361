CONSTANTS
  Ports = {0, 1}
  LastSector = 1
  LastBuffer = 1
  Values = {"a", "b"}
  MaxCount = 2
  Slow = {}
SPECIFICATION Spec
INVARIANT TypeOK
PROPERTY StoreSpec
