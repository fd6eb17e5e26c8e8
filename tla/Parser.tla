------------------------------- MODULE Parser -------------------------------
(***************************************************************************)
(* clime::Parser::parse (src/parser.cpp): one call, from the argument      *)
(* vector to the action or the error it returns. A step is one iteration   *)
(* of a loop of the code, or one of the decisions between the loops; the   *)
(* callbacks of options and arguments (src/arguments.cpp,                  *)
(* src/helpPrinter.cpp) run inside the step that calls them.               *)
(*                                                                         *)
(* A definition marked "Slip" is no part of the model: it is the next one  *)
(* with a bug that would be easy to make, and a property is to refute it.  *)
(***************************************************************************)
EXTENDS CommandTree

-----------------------------------------------------------------------------
VARIABLES
  parser,         \* *this
  argc, argv,     \* the arguments of parse
  pc,             \* where control is
  cmd,            \* parseCommand: the command being parsed
  i,              \* parseOptions: the index of its loop
  positional,     \* firstPositionalArgument, then positionalArgument
  flagAt,         \* optCntx.offset while a flag is matched, 0 otherwise
  argName, argValue, consumeValue, numberMatched,   \* locals of the flag
  k,              \* the option that the range-for of parseOptions is at
  a,              \* parseArguments: the argument its loop is at
  cells,          \* the destination variables
  trace,          \* the callbacks called and commands selected so far
  action, error   \* what parse returns: Ok(action) or error

input == <<parser, argc, argv>>
flag  == <<flagAt, argName, argValue, consumeValue, numberMatched, k>>
vars  == <<input, pc, cmd, i, positional, flag, a, cells, trace, action, error>>

Init ==
  /\ parser \in Parsers
  /\ argv \in ArgVectors
  /\ argc = Len(argv) \/ (argv = << >> /\ argc = -1)
  /\ pc = "parse"
  /\ cmd = Root
  /\ i = 0 /\ positional = 0 /\ flagAt = 0
  /\ argName = EmptyText /\ argValue = None /\ consumeValue = FALSE
  /\ numberMatched = 0 /\ k = 1 /\ a = 1
  /\ cells = [c \in Cell |-> Initial]
  /\ trace = << >>
  /\ action = None /\ error = None

\* argv[index]: the source counts from 0.
Arg(index) == argv[index + 1]

\* The command being parsed, and its members.
command   == CommandsOf[parser][cmd]
options   == command.options
arguments == command.arguments
commands  == command.commands

Return(c) == pc' = "done" /\ action' = c /\ UNCHANGED error

Fail(e) == pc' = "done" /\ error' = e /\ UNCHANGED action

-----------------------------------------------------------------------------
(***************************************************************************)
(* Callbacks. Each returns an error or none, and stores a datum or none.   *)
(***************************************************************************)
Continue(datum) == [error |-> None, store |-> datum]

Refuse(e) == [error |-> e, store |-> None]

\* Slip: the destination is assigned before the error is looked for.
ConvertedEagerly(kind, value) ==
  LET datum == Convert[kind][View(value)]
  IN  IF value = Null /\ kind \in {"integer", "float"} THEN Refuse("Crash")
      ELSE IF datum = None THEN [error |-> "OptionParsing", store |-> Zero] ELSE Continue(datum)

\* tryParse and the assignment to *dest; strtoll and strtof read value.data().
Converted(kind, value) ==
  LET datum == Convert[kind][View(value)]
  IN  IF value = Null /\ kind \in {"integer", "float"} THEN Refuse("Crash")
      ELSE IF datum = None THEN Refuse("OptionParsing") ELSE Continue(datum)

CustomOutcomes == {Continue(None), Refuse("NoError"), Refuse("Custom")}

HelpOutcome(value) ==
  Refuse(IF value # None /\ CommandsOf[parser][Root].commands[View(value)] = None
         THEN "BasicInvalidInput" ELSE "NoError")

\* What the callback of an option may do with a value, or without one.
OptionOutcomes(kind, value) ==
  CASE kind = "custom"                   -> CustomOutcomes
    [] kind = "version"                  -> {Refuse("NoError")}
    [] kind = "help"                     -> {HelpOutcome(value)}
    [] kind = "bool" /\ value = None     -> {Continue(True)}
    [] OTHER                             -> {Converted(kind, value)}

\* The callback of a float argument assigns before it looks for an error.
ArgumentOutcomes(kind, value) ==
  CASE kind = "custom"                                   -> CustomOutcomes
    [] kind = "float" /\ Convert["float"][value] = None  ->
         {[error |-> "OptionParsing", store |-> Zero]}
    [] OTHER                                             -> {Converted(kind, value)}

\* Slip: the destination is assigned whether or not there is a datum.
StoreAlways(dest, datum) == cells' = [cells EXCEPT ![dest] = datum]

Store(dest, datum) ==
  cells' = IF datum = None THEN cells ELSE [cells EXCEPT ![dest] = datum]

\* One entry of the trace: the callback of an option or an argument, with the
\* offset of its context, or the selection of a sub-command.
Event(by, index, at, value, e) ==
  [by |-> by, command |-> cmd, index |-> index, at |-> at, value |-> value, error |-> e]

-----------------------------------------------------------------------------
(***************************************************************************)
(* Parser::parse                                                           *)
(***************************************************************************)
NegativeArgc ==
  /\ pc = "parse" /\ argc < 0
  /\ Fail("InvalidNumberOfArgs")
  /\ UNCHANGED <<input, cmd, i, positional, flag, a, cells, trace>>

EmptyArgs ==
  /\ pc = "parse" /\ argc = 0
  /\ IF arguments = << >> /\ ~HasCommands(command)
     THEN Return(cmd)
     ELSE Fail("InvalidNumberOfArgs")
  /\ UNCHANGED <<input, cmd, i, positional, flag, a, cells, trace>>

\* Slip: the options of the outer command stay in scope.
EnterInOuterScope(c, offset) ==
  /\ pc' = "options"
  /\ i' = offset /\ positional' = offset
  /\ UNCHANGED <<input, cmd, flag, a, cells, action, error>>

\* parseCommand(c, cntx), as far as the loop of its parseOptions.
EnterCommand(c, offset) ==
  /\ pc' = "options"
  /\ cmd' = c
  /\ i' = offset /\ positional' = offset
  /\ UNCHANGED <<input, flag, a, cells, action, error>>

ParseArgs ==
  /\ pc = "parse" /\ argc > 0
  /\ EnterCommand(Root, 1)
  /\ UNCHANGED trace

-----------------------------------------------------------------------------
(***************************************************************************)
(* parseOptions                                                            *)
(***************************************************************************)
IsFlag(index) == View(Arg(index)) \in FlagText

NullToken ==
  /\ pc = "options" /\ i < argc /\ Arg(i) = Null
  /\ Fail("InvalidInput")
  /\ UNCHANGED <<input, cmd, i, positional, flag, a, cells, trace>>

\* The loop ends at the end of the vector, or breaks at a token without prefix.
NoMoreFlags ==
  /\ pc = "options"
  /\ i < argc => Arg(i) # Null /\ ~IsFlag(i)
  /\ pc' = "dispatch"
  /\ UNCHANGED <<input, cmd, i, positional, flag, a, cells, trace, action, error>>

\* Slip: the next token is not asked whether it is a flag.
LooksAheadBlindly(index) == InlineOf[Arg(index)] = None /\ index + 1 < argc

\* Whether the next token may serve as the value of the flag at index.
LooksAhead(index) ==
  /\ InlineOf[Arg(index)] = None
  /\ index + 1 < argc
  /\ ~IsFlag(index + 1)

BeginFlag ==
  /\ pc = "options" /\ i < argc /\ IsFlag(i)
  /\ pc' = "match"
  /\ flagAt' = i
  /\ argName' = NameOf[Arg(i)]
  /\ argValue' = IF LooksAhead(i) THEN Arg(i + 1) ELSE InlineOf[Arg(i)]
  /\ consumeValue' = LooksAhead(i)
  /\ numberMatched' = 0 /\ k' = 1
  /\ UNCHANGED <<input, cmd, i, positional, a, cells, trace, action, error>>

\* Slip: the first option that matches ends the search.
IsFirstMatch(o) == argName \in o.names /\ numberMatched = 0

\* Option::isMatch
IsMatch(o) == argName \in o.names

\* Slip: the loop goes on without its increment.
SkipWithoutAdvance ==
  /\ pc = "match" /\ k <= Len(options) /\ ~IsMatch(options[k])
  /\ UNCHANGED vars

SkipOption ==
  /\ pc = "match" /\ k <= Len(options) /\ ~IsMatch(options[k])
  /\ k' = k + 1
  /\ UNCHANGED <<input, pc, cmd, i, positional, flagAt, argName, argValue, consumeValue,
                 numberMatched, a, cells, trace, action, error>>

LacksValue(o) == argValue = None /\ o.expects = "Required"

ValueMissing ==
  /\ pc = "match" /\ k <= Len(options)
  /\ IsMatch(options[k]) /\ LacksValue(options[k])
  /\ Fail("ValueExpected")
  /\ UNCHANGED <<input, cmd, i, positional, flag, a, cells, trace>>

\* Slip: an option that takes no value consumes one.
ConsumesAnyway(o) == consumeValue

Consumes(o) == consumeValue /\ o.expects # "NotRequired"

\* Slip: the token taken as a value is not skipped.
ConsumeInPlace(o) ==
  /\ consumeValue' = (consumeValue /\ ~Consumes(o))
  /\ UNCHANGED <<i, positional>>

\* Slip: only the loop index skips the token.
ConsumeForLoopOnly(o) ==
  /\ i' = IF Consumes(o) THEN i + 1 ELSE i
  /\ consumeValue' = (consumeValue /\ ~Consumes(o))
  /\ UNCHANGED positional

\* The first option to want the next token moves both indices past it.
ConsumeFor(o) ==
  /\ i' = IF Consumes(o) THEN i + 1 ELSE i
  /\ positional' = IF Consumes(o) THEN positional + 1 ELSE positional
  /\ consumeValue' = (consumeValue /\ ~Consumes(o))

ValueFor(o) == IF o.expects = "NotRequired" THEN None ELSE argValue

\* Slip: NoError does not stop the parse.
ProceedAfterHelp(e) ==
  \/ e \in {None, "NoError"} /\ UNCHANGED <<pc, action, error>>
  \/ e \notin {None, "NoError"} /\ Fail(e)

\* if (r.isSome()) return r.move()
Proceed(e) ==
  \/ e = None /\ UNCHANGED <<pc, action, error>>
  \/ e # None /\ Fail(e)

CallOption ==
  /\ pc = "match" /\ k <= Len(options)
  /\ IsMatch(options[k]) /\ ~LacksValue(options[k])
  /\ LET o == options[k] IN
     /\ ConsumeFor(o)
     /\ numberMatched' = numberMatched + 1
     /\ \E out \in OptionOutcomes(o.kind, ValueFor(o)) :
          /\ Store(o.dest, out.store)
          /\ trace' = Append(trace, Event("option", k, flagAt, ValueFor(o), out.error))
          /\ Proceed(out.error)
  /\ k' = k + 1
  /\ UNCHANGED <<input, cmd, flagAt, argName, argValue, a>>

EndFlag ==
  /\ pc = "match" /\ k > Len(options) /\ numberMatched > 0
  /\ pc' = "options"
  /\ i' = i + 1 /\ positional' = positional + 1
  /\ flagAt' = 0
  /\ UNCHANGED <<input, cmd, argName, argValue, consumeValue, numberMatched, k, a, cells,
                 trace, action, error>>

UnknownFlag ==
  /\ pc = "match" /\ k > Len(options) /\ numberMatched < 1
  /\ Fail("UnexpectedValue")
  /\ UNCHANGED <<input, cmd, i, positional, flag, a, cells, trace>>

-----------------------------------------------------------------------------
(***************************************************************************)
(* parseCommand, after its options                                         *)
(***************************************************************************)
\* Slip: a sub-command's parse begins at its own name.
SelectAtName ==
  /\ pc = "dispatch" /\ positional < argc /\ HasCommands(command)
  /\ commands[View(Arg(positional))] # None
  /\ EnterCommand(commands[View(Arg(positional))], positional)
  /\ trace' = Append(trace, Event("command", 0, positional, Arg(positional), None))

SelectCommand ==
  /\ pc = "dispatch" /\ positional < argc /\ HasCommands(command)
  /\ commands[View(Arg(positional))] # None
  /\ EnterCommand(commands[View(Arg(positional))], positional + 1)
  /\ trace' = Append(trace, Event("command", 0, positional, Arg(positional), None))

UnknownCommand ==
  /\ pc = "dispatch" /\ positional < argc /\ HasCommands(command)
  /\ commands[View(Arg(positional))] = None
  /\ Fail("UnexpectedValue")
  /\ UNCHANGED <<input, cmd, i, positional, flag, a, cells, trace>>

\* Slip: too many tokens are let through.
TooFew == ~EndsWithTrailing(command) /\ argc - positional < Len(arguments)

\* argv.size() - offset against the arguments declared, unless the last one
\* takes any number.
WrongNumber ==
  ~EndsWithTrailing(command) /\ argc - positional # Len(arguments)

BeginArguments ==
  /\ pc = "dispatch" /\ positional < argc /\ ~HasCommands(command) /\ arguments # << >>
  /\ IF WrongNumber
     THEN Fail("InvalidNumberOfArgs") /\ UNCHANGED a
     ELSE pc' = "arguments" /\ a' = 1 /\ UNCHANGED <<action, error>>
  /\ UNCHANGED <<input, cmd, i, positional, flag, cells, trace>>

UnexpectedArguments ==
  /\ pc = "dispatch" /\ positional < argc /\ ~HasCommands(command) /\ arguments = << >>
  /\ Fail("UnexpectedValue")
  /\ UNCHANGED <<input, cmd, i, positional, flag, a, cells, trace>>

\* Slip: a command that needs a sub-command is complete without one.
NeedsNoArgument == arguments = << >> \/ EndsWithTrailing(command)

\* No token is left: the command may need none.
NeedsNoMore ==
  \/ arguments = << >> /\ ~HasCommands(command)
  \/ EndsWithTrailing(command)

EndOfArgs ==
  /\ pc = "dispatch" /\ positional >= argc
  /\ IF NeedsNoMore THEN Return(cmd) ELSE Fail("InvalidNumberOfArgs")
  /\ UNCHANGED <<input, cmd, i, positional, flag, a, cells, trace>>

-----------------------------------------------------------------------------
(***************************************************************************)
(* parseArguments                                                          *)
(***************************************************************************)
InArguments == a <= Len(arguments) /\ positional < argc

NullArgument ==
  /\ pc = "arguments" /\ InArguments /\ Arg(positional) = Null
  /\ Fail("InvalidInput")
  /\ UNCHANGED <<input, cmd, i, positional, flag, a, cells, trace>>

\* Slip: no argument is left when the last one is trailing.
StayWithTrailing == IF EndsWithTrailing(command) THEN a ELSE a + 1

\* The last argument is not left while it is trailing.
NextArgument ==
  IF a < Len(arguments) \/ ~EndsWithTrailing(command) THEN a + 1 ELSE a

CallArgument ==
  /\ pc = "arguments" /\ InArguments /\ Arg(positional) # Null
  /\ LET arg == arguments[a] IN
     \E out \in ArgumentOutcomes(arg.kind, Arg(positional)) :
       /\ Store(arg.dest, out.store)
       /\ trace' = Append(trace, Event("argument", a, positional, Arg(positional), out.error))
       /\ \/ /\ out.error = None
             /\ a' = NextArgument
             /\ positional' = positional + 1
             /\ UNCHANGED <<pc, action, error>>
          \/ /\ out.error # None
             /\ Fail(out.error)
             /\ UNCHANGED <<a, positional>>
  /\ UNCHANGED <<input, cmd, i, flag>>

EndArguments ==
  /\ pc = "arguments" /\ ~InArguments
  /\ IF positional = argc THEN Return(cmd) ELSE Fail("InvalidNumberOfArgs")
  /\ UNCHANGED <<input, cmd, i, positional, flag, a, cells, trace>>

-----------------------------------------------------------------------------
Next ==
  \/ NegativeArgc \/ EmptyArgs \/ ParseArgs
  \/ NullToken \/ NoMoreFlags \/ BeginFlag
  \/ SkipOption \/ ValueMissing \/ CallOption \/ EndFlag \/ UnknownFlag
  \/ SelectCommand \/ UnknownCommand \/ BeginArguments \/ UnexpectedArguments \/ EndOfArgs
  \/ NullArgument \/ CallArgument \/ EndArguments

Spec == Init /\ [][Next]_vars
=============================================================================
