CONSTANTS
  Ports = {0, 1}
  LastSector = 1
  LastBuffer = 1
  Values = {"a", "b"}
  MaxCount = 1
  Slow = {0}
SPECIFICATION Spec
PROPERTY TrueMeansDone
