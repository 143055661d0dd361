\* Notepad, launcher, dialog, browser and Pong.
SPECIFICATION Spec
CONSTANTS
  Windows = {0, 1, 2, 8, 11}
  Top = 5
  Order <- AtBoot
  Cool = 2
INVARIANTS
  TypeOK
  OneGrab
  OneAct
  FrameComplete
