CONSTANTS
  MaxOps = 2
  MaxSegments = 1
  MaxTrouble = 1
SPECIFICATION FairSpec
CHECK_DEADLOCK FALSE
INVARIANTS
  OwnedWhileRunning
  TerminalIsTrue
  WritesAreNotRefused
PROPERTIES
  ImplementsAnswers
  CommandsSettle
