SPECIFICATION FairAppSpec
CONSTANTS
  MaxTokens = 4
  Null = Null
  None = None
  EmptyText <- MCEmptyText
  Text <- MCText
  FlagText <- MCFlagText
  NameOf <- MCNameOf
  InlineOf <- MCInlineOf
  Command = {"root", "sub", "leaf", "help", "version"}
  Root = "root"
  Parsers <- MCToolNames
  CommandsOf <- MCTools
  ActionOf <- MCActionOf
  ArgVectors <- MCArgVectors
  Cell = {"x", "y"}
  Datum <- MCDatum
  Initial <- MCInitial
  True <- MCTrue
  Zero <- MCZero
  Convert <- MCConvert
INVARIANTS
  AppTypeOK
  PageThenExit
  FailureIsSilent
  RunsCommandNamed
PROPERTIES
  ParseReturns
  Exits
CHECK_DEADLOCK FALSE
