CONSTANTS
  MaxMessages = 3
  MaxCommands = 3
  MaxWork = 7
SPECIFICATION FairSpec
INVARIANTS
  TreesAreServed
  IndexMatchesGraphs
  Restorable
  StoppedStaysStopped
PROPERTIES
  CancelledIsFinal
  EveryNodeSettles
