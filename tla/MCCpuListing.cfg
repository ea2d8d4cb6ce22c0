\* The debugger's listing beside the bytes the processor consumes.
CONSTANT Starts <- Alone
SPECIFICATION Spec
CHECK_DEADLOCK FALSE
PROPERTY ListingInStep
