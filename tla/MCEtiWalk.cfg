\* Three devices; events may come at any time.
SPECIFICATION Spec
CONSTANTS
  s1 = s1
  s2 = s2
  s3 = s3
  u1 = u1
  u2 = u2
  u3 = u3
  NULL = NULL
  Sto = {s1, s2, s3}
  Uids = {u1, u2, u3}
  MQ_HARD_LIM = 1
  MaxMsgs = 2
INVARIANTS
  RingAtRest
  EventReachesDevice
  UndisturbedWalkIsSafe
PROPERTY
  WalkEnds
CHECK_DEADLOCK FALSE
