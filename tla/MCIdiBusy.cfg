\* The simulation build: any round may be busy, a calloc may fail, the library
\* polls a device it deletes; one device is not the driver's.
SPECIFICATION DriverSpec
CONSTANTS
  d1 = d1
  d2 = d2
  s1 = s1
  s2 = s2
  u1 = u1
  u2 = u2
  RO = RO
  RW = RW
  Str = Str
  NULL = NULL
  BAD = BAD
  Devs = {d1,d2}
  Handled = {d1}
  Sto = {s1, s2}
  Uids = {u1}
  Dps <- MixDps
  Address <- MixAddress
  TestMultiplier <- MixMultiplier
  Vals <- AllVals
  CDDEVLIMIT = 2
  AllocFails = TRUE
  MQ_HARD_LIM = 2
  IDI_ACTION_NORMAL_TIMEOUT = 1
  IDI_ACTION_LONG_TIMEOUT = 2
  ENABLE_SIMULATION = TRUE
  PublishRc = {0, 4}
  StringDps = {Str}
  EvPayloads <- Disturbing
  PollWhileDeleting = TRUE
  Calls <- AllCalls
  MaxReqs = 4
  MaxAnswers = 9
INVARIANTS
  DriverTypeOK
  AnswersInOrder
  NoDanglingUse
  DpSlotsOwn
PROPERTIES
  StoreRefined
  GivenUpOnlyInTime
CHECK_DEADLOCK FALSE
