\* Four devices compete for three places; calloc may fail.
SPECIFICATION StoreSpec
CONSTANTS
  d1 = d1
  d2 = d2
  d3 = d3
  d4 = d4
  s1 = s1
  s2 = s2
  s3 = s3
  u1 = u1
  RO = RO
  NULL = NULL
  BAD = BAD
  Devs = {d1, d2, d3, d4}
  Handled = {d1, d2, d3, d4}
  Sto = {s1, s2, s3}
  Uids = {u1}
  Dps = {RO}
  Address <- OneAddress
  TestMultiplier <- OneMultiplier
  Vals = {NULL}
  CDDEVLIMIT = 3
  AllocFails = TRUE
SYMMETRY ListSymmetry
INVARIANTS
  RingConsistent
  WalkReachesAll
  StorageOwned
  DeviceCount
  StoreTypeOK
PROPERTY
  ListSpec
CHECK_DEADLOCK FALSE
