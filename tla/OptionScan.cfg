SPECIFICATION Spec
CONSTANTS
  Char <- MCChar
  Prefix = "-"
  Separator = "="
  None = None
  Pending = Pending
  MaxLength = 5
  Args <- MCArgs
INVARIANTS
  TypeOK
  NoSeparatorPassed
  ScanSplitsAtFirstSeparator
  NothingLost
CHECK_DEADLOCK FALSE
