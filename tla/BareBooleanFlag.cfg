SPECIFICATION Spec
CONSTANTS
  MaxTokens = 2
  Null = Null
  None = None
  EmptyText <- MCEmptyText
  Text <- MCText
  FlagText <- MCFlagText
  NameOf <- MCNameOf
  InlineOf <- MCInlineOf
  Command = {"root", "sub", "leaf"}
  Root = "root"
  Parsers <- MCParsers
  CommandsOf <- MCCommandsOf
  ArgVectors <- MCArgVectors
  Cell = {"x", "y"}
  Datum <- MCDatum
  Initial <- MCInitial
  True <- MCTrue
  Zero <- MCZero
  Convert <- MCConvert
INVARIANT
  BareBooleanFlag
CHECK_DEADLOCK FALSE
