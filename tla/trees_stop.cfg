CONSTANTS
  MaxMessages = 2
  MaxCommands = 2
  MaxWork = 6
SPECIFICATION Spec
PROPERTIES
  StopReachesEveryone
