CONSTANTS
  Drives = {d1, d2}
  Kinds = {"cfs", "raw"}
  Texts = {t1}
  Blank = Blank
  NoDrive = NoDrive
  NumSlots = 2
  MkdirSlots = 2
  PageFiles = 2
  FileSectors = 2
  SaveBase = 2
  AppLba = 6
  PkgBase = 8
  PkgSectors = {1}
  SizeWrap = 4
  LastSector = 10
  Buttons = {"FORMAT", "OPEN", "EDIT", "SAVE AS", "NEW FOLDER"}
  Faults = {"crash"}
SPECIFICATION Spec
SYMMETRY Symmetry
INVARIANTS
  SavedIsSaved
  CopyAgrees
  TreeRooted
  RootWhenClosed
