SPECIFICATION Spec
CONSTANTS
  MaxTokens = 4
  Null = Null
  None = None
  EmptyText <- MCEmptyText
  Text <- MCText
  FlagText <- MCFlagText
  NameOf <- MCNameOf
  InlineOf <- MCInlineOf
  Command = {"root", "sub", "leaf"}
  Root = "root"
  Parsers <- MCParsers
  CommandsOf <- MCCommandsOf
  ArgVectors <- MCArgVectors
  Cell = {"x", "y"}
  Datum <- MCDatum
  Initial <- MCInitial
  True <- MCTrue
  Zero <- MCZero
  Convert <- MCConvert
INVARIANTS
  TypeOK
  IndicesAgree
  ArgumentsFitTokens
  CallbackContract
  TokensUsedOnce
  AcceptedMeansAllUsed
  EveryBearerCalled
  ScopedToSelectedCommand
  ArgumentsInOrder
  StopsAtFirstFailure
  DestinationsHoldLastValue
PROPERTIES
  ParseAdvances
  ImplementsCommandLine
CHECK_DEADLOCK FALSE
