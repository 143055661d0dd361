CONSTANTS
  Drives = {d1}
  Kinds = {"cfs"}
  Texts = {t1, t2}
  Blank = Blank
  NoDrive = NoDrive
  NumSlots = 3
  MkdirSlots = 2
  PageFiles = 3
  FileSectors = 2
  SaveBase = 2
  AppLba = 8
  PkgBase = 10
  PkgSectors = {1}
  SizeWrap = 4
  LastSector = 12
  Buttons = {"SAVE AS", "COPY", "EDIT"}
  Faults = {}
SPECIFICATION Spec
SYMMETRY Symmetry
INVARIANTS
  SavedIsSaved
