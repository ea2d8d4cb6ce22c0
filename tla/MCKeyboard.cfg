CONSTANTS
  HostInputs <- MCInputs
  MaxInputs = 2
  KbdSize = 3
  PasteSize = 3
  EmulateBounce = TRUE
  BounceCycles = {2}
  StepCycles = {1, 2}
  DebugModes = {FALSE, TRUE}
SPECIFICATION FairSpec
INVARIANTS TypeOK KeysTagged StagingDrains EscapeGivesUp
PROPERTIES LatchedKeyHeld RefinesQueue KeyIsLatched HostBytesConsumed
CHECK_DEADLOCK FALSE
