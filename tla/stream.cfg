CONSTANTS
  MaxTools = 2
  Held <- MCHeld
  MaxAttempts = 4
  MaxChunks = 4
  Mixed = FALSE
  Meant <- MCMeant
SPECIFICATION Spec
CHECK_DEADLOCK FALSE
INVARIANTS
  Contract
  SaidOnce
  MendedCallsAreWhole
  OneAttemptAtATime
PROPERTIES
  NeverLoops
