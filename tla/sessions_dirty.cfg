CONSTANTS
  MaxGen = 2
  MaxVersion = 2
  MaxCrashes = 0
SPECIFICATION Spec
INVARIANTS
  FailedStaysDirty
