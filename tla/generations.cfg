CONSTANTS
  Clients = {c1, c2}
  MaxGeneration = 3
  MaxUnpublished = 2
SPECIFICATION FairSpec
INVARIANTS
  NeverClosedInUse
  NothingLeaks
PROPERTIES
  CleanedUpOnce
  OperationsEnd
