SPECIFICATION Spec
CONSTANTS
  LongBits = 5
  LongMin <- MCLongMin
  LongMax <- MCLongMax
  ULongMax <- MCULongMax
  Type <- MCType
  Magnitude <- MCMagnitude
  NoNumber = NoNumber
INVARIANT
  NegativeIsRefused
CHECK_DEADLOCK FALSE
