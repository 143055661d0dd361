CONSTANTS
  MaxTasks = 3
  AppCalls = {"yield", "sound"}
  MaxSleep = 1
  AppSectors = 1
  MaxSpawns = 2
SPECIFICATION FairSpec
PROPERTIES
  SleepEnds
CHECK_DEADLOCK FALSE
