CONSTANTS
  NumDrives = 2
  Formats <- MixedDrives
  NumSlots = 2
  PerSector = 1
  KeyFiles = 1
  Texts = {"t"}
  Blank = "-"
  SaveBase = 2
  FatLba = 1
  LastSector = 3
  Sessions = {{"FORMAT", "REF"}}
SPECIFICATION Spec
CHECK_DEADLOCK FALSE
PROPERTY FormatSparesFileSystems
