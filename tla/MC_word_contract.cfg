CONSTANTS
  Bits = 8
  ResultReturning = {"add"}
SPECIFICATION Spec
INVARIANT CallsMeetContract
CHECK_DEADLOCK FALSE
