CONSTANTS
  Lists <- TestLists
  Requests <- SmallWords
  Junk = {0}
  MaxCalls = 3
SPECIFICATION Spec
INVARIANT TypeOK
INVARIANT StreamContinues
