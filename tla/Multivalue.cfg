SPECIFICATION Spec
CONSTANTS
  ValueParser = {"integer", "boolean"}
  MaxCalls = 2
  Comma = ","
  Nul = Nul
  None = None
  Char <- MCChar
  Lower <- MCLower
  Given <- MCGiven
  ParseView <- TryParseView
  ParseText <- TryParseText
INVARIANTS
  TypeOK
  ErrorLeavesNoList
  ReadsItsPartOnly
PROPERTIES
  ImplementsValueList
CHECK_DEADLOCK FALSE
