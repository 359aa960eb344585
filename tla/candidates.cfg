CONSTANTS
  MaxCandidates = 4
  Timeout = 3
  MaxDelay = 2
  MaxChunks = 3
SPECIFICATION FairSpec
CHECK_DEADLOCK FALSE
INVARIANTS
  OneVoice
  StreamsHaveLease
  AnsweredOnce
PROPERTIES
  OneTimeout
  RequestEnds
