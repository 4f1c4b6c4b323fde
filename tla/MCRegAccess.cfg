\* Both threads on a device of two registers, up to their first clash.
CONSTANTS
  Xif <- MCXif
  Info <- MCInfo
  Lower <- MCLower
  JsonOf <- MCJsonOf
  Writes <- MCWrites
  Messages <- MCMessages
  RegMax = 2
  UIntMod = 16
  MaxValues = 3
  NONE = NONE
SPECIFICATION Spec
CHECK_DEADLOCK FALSE
INVARIANTS
  RegTypeOK
  ApartIsSafe
  OnlyDeletionLoses
  TextsOwned
  ReadsBack
CONSTRAINT Undisturbed
