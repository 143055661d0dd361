\* Notepad, launcher, dialog and browser.
SPECIFICATION Spec
CONSTANTS
  Windows = {0, 1, 2, 8}
  Top = 4
  Order <- AtBoot4
  Cool = 2
INVARIANT
  KeysGoToFocus
