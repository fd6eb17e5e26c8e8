SPECIFICATION Spec
CONSTANTS
  Char = {"/", "=", "a"}
  Prefix = "/"
  Separator = "="
  None = None
  OptionColumn = 5
  CommandColumn = 2
  Page <- MCPage
INVARIANTS
  TypeOK
  FlagsAreUnderstood
  NothingUnlisted
CHECK_DEADLOCK FALSE
