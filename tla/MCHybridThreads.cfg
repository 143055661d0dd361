\* Two curls, two addresses, two presses of keys, two commands.
SPECIFICATION Spec
CONSTANTS
  Workers = {w1, w2}
  Urls = {u1, u2}
  NoUrl = NoUrl
  MaxKeys = 2
  MaxGets = 2
  Wait = 1
  Cool = 1
  MaxSectors = 2
INVARIANTS
  KeysInOrder
  ActsTwice
  SavedIsAsked
PROPERTY
  GetEnds
