\* Every opcode over boundary operands, and programs with nested interrupts.
CONSTANT Starts <- AllStarts
SPECIFICATION Spec
CHECK_DEADLOCK FALSE   \* a behaviour ends when its fuel does
INVARIANTS
  TypeOK
  CyclesFollowTheBus
  DramExact
PROPERTY ReturnsRestore
