CONSTANTS
  Addr = {a1, a2}
  Opts <- MCOpts
  MaxBreak = 2
  MaxWatch = 1
  MaxSignals = 1
  PassPc = a1
  NoPc = none
SPECIFICATION FairSpec
INVARIANTS TypeOK StepRunsOne NoTrapTwice TerminalMatches
PROPERTIES TrapsHold SignalAnswered StepComesBack
CHECK_DEADLOCK FALSE
