CONSTANTS
  T1 = T1
  T2 = T2
  T3 = T3
  T4 = T4
  X = X
  Y = Y
  Z = Z
  W = W
  NoResult = NoResult
  Threads = {T1}
  Cells = {X}
  Bits = 4
  ResultReturning = {"add"}
  InitVal <- InitTen
  Prog <- ProgFetchAdd
SPECIFICATION Spec
INVARIANT FetchAddReturnsPrior
CHECK_DEADLOCK FALSE
