CONSTANTS
  Lists <- TestLists
  Requests <- LcgWords
  Junk = {}
  MaxCalls = 2
SPECIFICATION Spec
INVARIANT TwoSeedingsAgree
