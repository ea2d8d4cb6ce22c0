SPECIFICATION Spec
CHECK_DEADLOCK FALSE
CONSTANTS
  Machines <- MCVectorMachines
  Says <- MCSays
  Rom <- MCRom
  Values = {0, 132}
  Keys = {193, 141}
  Clock = 8
INVARIANT InBounds
