SPECIFICATION Spec
CONSTANTS
  LongBits = 5
  LongMin <- MCLongMin
  LongMax <- MCLongMax
  ULongMax <- MCULongMax
  Type <- MCType
  Magnitude <- MCMagnitude
  NoNumber = NoNumber
INVARIANTS
  TypeOK
  RepresentableIsConverted
  UnrepresentableIsRefused
CHECK_DEADLOCK FALSE
