SPECIFICATION Spec
CHECK_DEADLOCK FALSE
CONSTANTS
  Machines <- MCMachines
  Says <- MCSays
  Rom <- MCRom
  Values = {0, 132}
  Keys = {193, 141}
  Clock = 8
INVARIANTS
  TypeOK
  InBounds
  ListingIsLoaded
  FileMeansSwitches
PROPERTIES
  IsMemory
  KeySurvives
  PolledOutputIsPaced
