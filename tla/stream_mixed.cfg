CONSTANTS
  MaxTools = 2
  Held <- MCHeld
  MaxAttempts = 4
  MaxChunks = 4
  Mixed = TRUE
  Meant <- MCMeant
SPECIFICATION Spec
CHECK_DEADLOCK FALSE
INVARIANTS
  Contract
