CONSTANTS
  Rows = 2
  Cols = 2
  Codes <- MCCodes
  MaxOut = 6
  DebugEnabled = TRUE
SPECIFICATION FairSpec
INVARIANTS TypeOK ScreenIsOutput OneCursor
PROPERTIES UpdateShowsScreen ScreenIsShown
CHECK_DEADLOCK FALSE
