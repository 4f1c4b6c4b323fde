\* All topics of up to four levels after the fourth.
CONSTANTS
  CDNAME = "example"
  Empty = ""
  Names <- MCNames
  Uids <- MCUids
  Cut <- MCCut
  strtol <- MCStrtol
  RegStr <- MCRegStr
  DevDpCounts = 2
  MaxTail = 4
  NONE = NONE
SPECIFICATION Spec
CHECK_DEADLOCK FALSE
INVARIANTS
  TopicTypeOK
  ReachesItsDevice
  RegularArrives
  HeardIsHandled
  NoEcho
