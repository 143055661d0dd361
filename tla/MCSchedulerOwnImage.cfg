CONSTANTS
  MaxTasks = 4
  AppCalls = {"yield"}
  MaxSleep = 1
  AppSectors = 1
  MaxSpawns = 3
SPECIFICATION Spec
INVARIANTS
  OwnImage
CHECK_DEADLOCK FALSE
