SPECIFICATION Spec
CONSTANTS
  Requests = {"r1", "r2"}
  OldHolds = {"old"}
  Calls <- MCCalls
  Configs <- MCConfigs
  Faults = {"save"}
  Tokens = {"t1", "t2"}
  NoBearer = "none"
  TrustedProxies = {"proxy"}
CHECK_DEADLOCK FALSE
INVARIANT TypeOK
INVARIANT AnsweredChangeIsSeen
INVARIANT LiftedOnce
INVARIANT AcceptedWakeGoesOn
PROPERTY OnlyTheEntitled
PROPERTY PassFollows
PROPERTY EveryoneIsAnswered
