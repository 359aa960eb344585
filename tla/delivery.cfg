CONSTANTS
  Tasks = {"worker"}
  Limit = 1
  Window = 2
  MaxTime = 4
  MaxCalls = 2
SPECIFICATION DeliverySpec
INVARIANTS
  PendingIsOwned
PROPERTIES
  SleepsOnlyWhenFull
  ImplementsQuota
  NewestWins
CHECK_DEADLOCK FALSE
