\* The interrupt line stays asserted after the interrupt is served.
CONSTANT Starts <- Programs
SPECIFICATION Spec
CHECK_DEADLOCK FALSE
PROPERTY IrqIsLevel
