CONSTANTS
  Addr = {a1, a2}
  Opts <- MCOpts
  MaxBreak = 1
  MaxWatch = 1
  MaxSignals = 1
  PassPc = a1
  NoPc = none
SPECIFICATION Spec
PROPERTY SigintBreaks
CHECK_DEADLOCK FALSE
