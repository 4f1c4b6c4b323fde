\* The library reads a device it has asked to be deleted.
SPECIFICATION DriverSpec
CONSTANTS
  d1 = d1
  d2 = d2
  s1 = s1
  s2 = s2
  u1 = u1
  u2 = u2
  RO = RO
  RW = RW
  Str = Str
  NULL = NULL
  BAD = BAD
  Devs = {d1}
  Handled = {d1}
  Sto = {s1}
  Uids = {}
  Dps <- OneDp
  Address <- OneAddress
  TestMultiplier <- OneMultiplier
  Vals <- AllVals
  CDDEVLIMIT = 2
  AllocFails = FALSE
  MQ_HARD_LIM = 2
  IDI_ACTION_NORMAL_TIMEOUT = 1
  IDI_ACTION_LONG_TIMEOUT = 1
  ENABLE_SIMULATION = FALSE
  PublishRc = {0, 4}
  StringDps = {}
  EvPayloads = {}
  PollWhileDeleting = TRUE
  Calls <- DataCalls
  MaxReqs = 4
  MaxAnswers = 9
INVARIANT
  DeletedReadFindsNothing
CHECK_DEADLOCK FALSE
