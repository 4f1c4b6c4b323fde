\* Device requests on two devices, in any order.
SPECIFICATION DriverSpec
CONSTANTS
  d1 = d1
  d2 = d2
  s1 = s1
  s2 = s2
  u1 = u1
  u2 = u2
  RO = RO
  RW = RW
  Str = Str
  NULL = NULL
  BAD = BAD
  Devs = {d1, d2}
  Handled = {d1, d2}
  Sto = {s1, s2}
  Uids = {u1, u2, u3}
  Dps <- OneDp
  Address <- OneAddress
  TestMultiplier <- OneMultiplier
  Vals <- AllVals
  CDDEVLIMIT = 2
  AllocFails = FALSE
  MQ_HARD_LIM = 2
  IDI_ACTION_NORMAL_TIMEOUT = 1
  IDI_ACTION_LONG_TIMEOUT = 1
  ENABLE_SIMULATION = FALSE
  PublishRc = {0, 4}
  StringDps <- OneDp
  EvPayloads = {}
  PollWhileDeleting = FALSE
  Calls <- DeviceCalls
  MaxReqs = 5
  MaxAnswers = 9
INVARIANTS
  EventsFindDevice
  ArgsHeld
  StoredIsLinked
PROPERTIES
  ServiceSpec
CHECK_DEADLOCK FALSE
