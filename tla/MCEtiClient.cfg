\* Two starts, a queue of two, four messages and three faults.
CONSTANTS
  MQ_HARD_LIM = 2
  StartLimitBurst = 2
  MaxMsgs = 4
  SubscribeFails = TRUE
  MaxFaults = 3
  NONE = NONE
SPECIFICATION Spec
CHECK_DEADLOCK FALSE
INVARIANTS
  ClientTypeOK
  NoStaleMessage
  HeapOwned
PROPERTIES
  NoEventVanishes
  FeedSpec
  ComesUp
