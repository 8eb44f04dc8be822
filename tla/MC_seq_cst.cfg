CONSTANTS
  T1 = T1
  T2 = T2
  T3 = T3
  T4 = T4
  X = X
  Y = Y
  Z = Z
  W = W
  NoResult = NoResult
  Threads = {T1, T2}
  Cells = {X, Y, Z, W}
  Bits = 2
  ResultReturning = {"add"}
  InitVal <- InitZero
  Prog <- ProgSeqCst
SPECIFICATION Spec
PROPERTY SeqCstRefinesAtomicSpec
CHECK_DEADLOCK FALSE
