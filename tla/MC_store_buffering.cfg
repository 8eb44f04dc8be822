CONSTANTS
  T1 = T1
  T2 = T2
  T3 = T3
  T4 = T4
  X = X
  Y = Y
  Z = Z
  W = W
  NoResult = NoResult
  Threads = {T1, T2, T3, T4}
  Cells = {X, Y, Z, W}
  Bits = 1
  ResultReturning = {"add"}
  InitVal <- InitZero
  Prog <- ProgSB
SPECIFICATION Spec
INVARIANT SBSeqCst
INVARIANT SBFence
CHECK_DEADLOCK FALSE
