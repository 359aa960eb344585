CONSTANTS
  MaxGen = 3
  MaxVersion = 3
  MaxCrashes = 1
SPECIFICATION FairSpec
INVARIANTS
  PromiseKept
  UnsavedHasSaver
PROPERTIES
  ImplementsSavedState
  SaveSettles
  CallsReturn
