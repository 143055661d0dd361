CONSTANTS
  NumDrives = 2
  Formats <- MixedDrives
  NumSlots = 2
  PerSector = 1
  KeyFiles = 1
  Texts = {"t"}
  Blank = "-"
  SaveBase = 2
  FatLba = 1
  LastSector = 3
  Sessions = {{"crash", "+ FILE", "KEYS", "DEL", "SAVE AS", "RECOVER"},
              {"crash", "+ FILE", "KEYS", "DEL", "+ DIR", "RECOVER", "FORMAT"},
              {"crash", "SAVE AS", "NEW FOLDER", "SAVE"},
              {"crash", "DRIVES", "KEYS", "COPY", "SAVE AS", "DEL"},
              {"+ FILE", "+ DIR", "RENAME", "DEL", "FORMAT", "REF"}}
SPECIFICATION Spec
CHECK_DEADLOCK FALSE
INVARIANTS SlotOwnsSector CreateSparesFiles DriveWhileOpen
PROPERTY EntryAfterText
