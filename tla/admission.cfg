CONSTANTS
  Executions = {e1, e2, e3}
  NoLeader = NoLeader
  MaxConcurrency = 2
  MaxAttempts = 2
SPECIFICATION FairSpec
INVARIANTS
  SlotsAccounted
  ProbeOwned
  ParkedIsRegistered
  AdmittedCanAttempt
PROPERTIES
  LeadershipIsHandedOver
  RequestAnsweredOrLeaderGone
