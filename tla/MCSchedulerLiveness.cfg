CONSTANTS
  MaxTasks = 3
  AppCalls = {"yield", "freq"}
  MaxSleep = 2
  AppSectors = 1
  MaxSpawns = 3
SPECIFICATION FairSpec
PROPERTIES
  NoStarvation
  SleepEnds

