CONSTANTS
  Drives = {d1, d2}
  Kinds = {"fat", "ntfs"}
  Texts = {t1}
  Blank = Blank
  NoDrive = NoDrive
  NumSlots = 2
  MkdirSlots = 2
  PageFiles = 2
  FileSectors = 2
  SaveBase = 2
  AppLba = 6
  PkgBase = 8
  PkgSectors = {1}
  SizeWrap = 4
  LastSector = 10
  Buttons = {"FORMAT", "COPY", "+ FILE", "SAVE AS"}
  Faults = {"write"}
SPECIFICATION Spec
SYMMETRY Symmetry
INVARIANTS
  TypeOK
  PasteSparesNtfs
PROPERTIES
  NothingOverwritten
