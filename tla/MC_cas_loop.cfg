CONSTANTS
  Threads = {a1, a2, a3}
  Increments = 2
  InitX = 1
  Bits = 2
  ResultReturning = {"add"}
SPECIFICATION Spec
INVARIANT IncrementsAccounted
PROPERTY AllLoopsTerminate
CHECK_DEADLOCK FALSE
