CONSTANTS
  MaxTasks = 4
  AppCalls = {"yield", "freq", "sound"}
  MaxSleep = 1
  AppSectors = 1
  MaxSpawns = 4
SPECIFICATION Spec
INVARIANTS
  RunningIsRunnable
  LoadKeepsItsSlot
  ContextsDistinct
  NoOrphanTone
  MutedIsSilent
PROPERTIES
  TaskLifecycle
  ImplementsMultitasking
CHECK_DEADLOCK FALSE
