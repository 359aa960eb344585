CONSTANTS
  Executions = {e1, e2}
  NoLeader = NoLeader
  MaxConcurrency = 2
  MaxAttempts = 2
SPECIFICATION FairSpec
PROPERTIES
  RequestsAnswered
