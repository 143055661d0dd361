CONSTANTS
  Drives = {d1}
  Kinds = {"cfs"}
  Texts = {t1, t2}
  Blank = Blank
  NoDrive = NoDrive
  NumSlots = 3
  MkdirSlots = 2
  PageFiles = 3
  FileSectors = 1
  SaveBase = 2
  AppLba = 5
  PkgBase = 6
  PkgSectors = {1, 2}
  SizeWrap = 4
  LastSector = 13
  Buttons = {"OPEN", "SAVE", "EDIT", "SAVE AS", "MKDIR", "INSTALL"}
  Faults = {}
SPECIFICATION Spec
SYMMETRY Symmetry
INVARIANTS
  SavedIsSaved
