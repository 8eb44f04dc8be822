CONSTANTS
  Lists <- TestLists
  Requests <- MersenneWords
  Junk = {0}
  MaxCalls = 2
SPECIFICATION Spec
INVARIANT TwoSeedingsAgree
