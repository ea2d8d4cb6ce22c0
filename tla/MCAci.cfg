SPECIFICATION Spec
CHECK_DEADLOCK FALSE
CONSTANTS
  AciClock = 50
  SampleRate = 20
  Tapes <- MCTapes
  Cycles = {2, 7}
  RewindGap = 4
  Half = 8
  FirstCapacity = 1
  MaxTime = 18
  MaxToggles = 4
  MaxBurst = 3
INVARIANTS
  TypeOK
  PlaysTheWave
  RecordingIsOutput
  SavedTapeLoads
  TornTapeIsRefused
PROPERTIES
  HeardInOrder
  HeardFromTheStart
