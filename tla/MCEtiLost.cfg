\* One dropped connection is enough, after a subscription that succeeded.
CONSTANTS
  MQ_HARD_LIM = 1
  StartLimitBurst = 2
  MaxMsgs = 2
  SubscribeFails = FALSE
  MaxFaults = 1
  NONE = NONE
SPECIFICATION Spec
CHECK_DEADLOCK FALSE
PROPERTIES
  EventsAreHeard
