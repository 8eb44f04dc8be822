CONSTANTS
  Lists <- TestLists
  Requests <- SmallWords
  Junk = {}
  MaxCalls = 1
SPECIFICATION Spec
PROPERTY ParamReproducesState
