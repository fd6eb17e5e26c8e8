---------------------------- MODULE ParserProofs ----------------------------
(***************************************************************************)
(* Proofs about Parser, for every parser object, of any number of options, *)
(* arguments and commands, and for command lines of any length: the types, *)
(* the indices and what stops a parse; that no token is used twice and     *)
(* each option is given the value that is meant for it; and that a parse   *)
(* implements CommandLine.                                                 *)
(***************************************************************************)
EXTENDS ParserProperties, TLAPS

-----------------------------------------------------------------------------
(***************************************************************************)
(* The values that the parser handles                                      *)
(***************************************************************************)

\* A token within the vector is a text or null.
LEMMA TokenType ==
  ASSUME TypeOK, NEW index \in Nat, index < argc
  PROVE  Arg(index) \in Text \cup {Null}
<1>1. index + 1 \in 1..Len(argv)
  BY DEF TypeOK
<1>. QED BY <1>1 DEF TypeOK, Arg

\* The view of a token, null or not, is a text.
LEMMA ViewType ==
  ASSUME NEW token \in Text \cup {Null}
  PROVE  View(token) \in Text
BY TokenAssumption DEF View

\* The null token is no flag, so a flag is a text that parseOption can split.
LEMMA FlagToken ==
  ASSUME TypeOK, NEW index \in Nat, index < argc, IsFlag(index)
  PROVE  /\ Arg(index) \in FlagText /\ Arg(index) # Null
         /\ NameOf[Arg(index)] \in Text
         /\ InlineOf[Arg(index)] \in Text \cup {None}
<1>1. Arg(index) \in FlagText
  BY TokenType, TokenAssumption DEF IsFlag, View
<1>. QED BY <1>1, TokenAssumption

\* The members of the command being parsed have their types.
LEMMA CommandsTyped ==
  ASSUME TypeOK, NEW c \in Command
  PROVE  /\ CommandsOf[parser][c].options \in Seq(Option)
         /\ CommandsOf[parser][c].arguments \in Seq(Argument)
         /\ CommandsOf[parser][c].commands \in [Text -> Command \cup {None}]
BY ParserAssumption DEF TypeOK, CommandType

Outcome == [error : Errors \cup {None}, store : Datum \cup {None}]

\* A callback that goes on stores a datum or nothing.
LEMMA ContinueType == ASSUME NEW d \in Datum \cup {None} PROVE Continue(d) \in Outcome
BY DEF Continue, Outcome

\* A callback that fails stores nothing.
LEMMA RefuseType == ASSUME NEW e \in Errors PROVE Refuse(e) \in Outcome
BY DEF Refuse, Outcome

\* What a converter returns is stored, or its error is.
LEMMA ConvertedType ==
  ASSUME NEW kind \in Converters, NEW value \in Text \cup {Null}
  PROVE  Converted(kind, value) \in Outcome
<1>1. Convert[kind][View(value)] \in Datum \cup {None}
  BY ViewType, ConverterAssumption
<1>2. "Crash" \in Errors /\ "OptionParsing" \in Errors
  BY DEF Errors
<1>. QED BY <1>1, <1>2, ContinueType, RefuseType DEF Converted

\* The outcomes of a custom callback.
LEMMA CustomType == CustomOutcomes \subseteq Outcome
<1>1. "NoError" \in Errors /\ "Custom" \in Errors
  BY DEF Errors
<1>. QED BY <1>1, ContinueType, RefuseType DEF CustomOutcomes

\* The callback of an option returns what CallOption expects when it is given
\* a value, or none where its constructor does not require one.
LEMMA OptionOutcomesType ==
  ASSUME NEW o \in Option, NEW value \in Text \cup {Null, None},
         o.expects = "Required" => value # None
  PROVE  OptionOutcomes(o.kind, value) \subseteq Outcome
<1>1. CASE o.kind = "custom"
  BY <1>1, CustomType DEF OptionOutcomes
<1>2. CASE o.kind \in {"version", "help"}
  <2>1. "NoError" \in Errors /\ "BasicInvalidInput" \in Errors
    BY DEF Errors
  <2>. QED BY <1>2, <2>1, RefuseType DEF OptionOutcomes, HelpOutcome
<1>3. CASE o.kind = "bool" /\ value = None
  BY <1>3, ContinueType, ConverterAssumption DEF OptionOutcomes
<1>4. CASE o.kind \in Converters /\ ~(o.kind = "bool" /\ value = None)
  <2>1. value \in Text \cup {Null}
    BY <1>4 DEF Option, ExpectsOf, Converters
  <2>2. OptionOutcomes(o.kind, value) = {Converted(o.kind, value)}
    BY <1>4 DEF OptionOutcomes, Converters
  <2>. QED BY <1>4, <2>1, <2>2, ConvertedType
<1>. QED BY <1>1, <1>2, <1>3, <1>4 DEF Option, OptionKinds, ArgumentKinds, Converters

\* What the callback of an argument does is an outcome.
LEMMA ArgumentOutcomesType ==
  ASSUME NEW arg \in Argument, NEW value \in Text
  PROVE  ArgumentOutcomes(arg.kind, value) \subseteq Outcome
<1>1. CASE arg.kind = "custom"
  BY <1>1, CustomType DEF ArgumentOutcomes
<1>2. CASE arg.kind = "float" /\ Convert["float"][value] = None
  <2>1. [error |-> "OptionParsing", store |-> Zero] \in Outcome
    BY ConverterAssumption DEF Outcome, Errors
  <2>. QED BY <1>2, <2>1 DEF ArgumentOutcomes
<1>3. CASE arg.kind \in Converters /\ ~(arg.kind = "float" /\ Convert["float"][value] = None)
  BY <1>3, ConvertedType DEF ArgumentOutcomes, Converters
<1>. QED BY <1>1, <1>2, <1>3 DEF Argument, ArgumentKinds, Converters

-----------------------------------------------------------------------------
(***************************************************************************)
(* Type correctness, one lemma for each group of actions                   *)
(***************************************************************************)
LEMMA InitType == Init => TypeOK
<1> SUFFICES ASSUME Init PROVE TypeOK
  OBVIOUS
<1>1. argv \in Seq(Text \cup {Null})
  BY ParserAssumption DEF Init
<1>2. argName \in Text /\ cells \in [Cell -> Datum] /\ cmd \in Command
  BY TokenAssumption, ConverterAssumption, ParserAssumption DEF Init
<1>3. trace \in Seq(EventType)
  BY DEF Init
<1>4. consumeValue \in BOOLEAN
  BY DEF Init
<1>. QED BY <1>1, <1>2, <1>3, <1>4 DEF Init, TypeOK

\* An action that fails, or returns the action of the command, and does nothing
\* else.
LEMMA ReturnsType ==
  ASSUME TypeOK,
         (\E e \in Errors : Fail(e)) \/ Return(cmd),
         UNCHANGED <<input, cmd, i, positional, flag, a, cells, trace>>
  PROVE  TypeOK'
<1>1. pc' = "done" /\ action' \in Command \cup {None} /\ error' \in Errors \cup {None}
  BY DEF Fail, Return, TypeOK
<1>. QED BY <1>1 DEF TypeOK, input, flag

\* The steps that end the parse with an error keep the types.
LEMMA FailuresType ==
  ASSUME TypeOK,
         \/ NegativeArgc \/ EmptyArgs \/ NullToken \/ ValueMissing \/ UnknownFlag
         \/ UnknownCommand \/ UnexpectedArguments \/ EndOfArgs \/ NullArgument \/ EndArguments
  PROVE  TypeOK'
<1>1. {"InvalidNumberOfArgs", "ValueExpected", "UnexpectedValue", "InvalidInput"} \subseteq Errors
  BY DEF Errors
<1>. QED
  BY <1>1, ReturnsType
     DEF NegativeArgc, EmptyArgs, NullToken, ValueMissing, UnknownFlag, UnknownCommand,
         UnexpectedArguments, EndOfArgs, NullArgument, EndArguments

\* The steps that only move control keep the types.
LEMMA ScanType ==
  ASSUME TypeOK, NoMoreFlags \/ SkipOption \/ EndFlag \/ BeginArguments
  PROVE  TypeOK'
<1>1. CASE NoMoreFlags
  BY <1>1 DEF NoMoreFlags, TypeOK, input, flag
<1>2. CASE SkipOption
  BY <1>2 DEF SkipOption, TypeOK, input
<1>3. CASE EndFlag
  BY <1>3 DEF EndFlag, TypeOK, input
<1>4. CASE BeginArguments
  BY <1>4 DEF BeginArguments, Fail, Errors, TypeOK, input, flag
<1>. QED BY <1>1, <1>2, <1>3, <1>4

\* Splitting a flag off and looking at the token after it reads tokens that exist.
LEMMA BeginFlagType ==
  ASSUME TypeOK, BeginFlag
  PROVE  TypeOK'
<1>1. i \in Nat /\ i < argc /\ IsFlag(i)
  BY DEF BeginFlag, TypeOK
<1>2. NameOf[Arg(i)] \in Text /\ InlineOf[Arg(i)] \in Text \cup {None}
  BY <1>1, FlagToken
<1>3. LooksAhead(i) => Arg(i + 1) \in Text \cup {Null}
  BY <1>1, TokenType DEF LooksAhead, TypeOK
<1>4. argName' \in Text /\ argValue' \in Text \cup {Null, None}
  BY <1>2, <1>3 DEF BeginFlag
<1>5. consumeValue' \in BOOLEAN
  BY DEF BeginFlag, LooksAhead
<1>. QED BY <1>4, <1>5 DEF BeginFlag, TypeOK, input

\* What is recorded of a callback has the type of an event.
LEMMA EventIsTyped ==
  ASSUME TypeOK, NEW by \in {"option", "argument", "command"}, NEW index \in Nat, NEW at \in Nat,
         NEW value \in Text \cup {Null, None}, NEW e \in Errors \cup {None}
  PROVE  /\ Event(by, index, at, value, e) \in EventType
         /\ Append(trace, Event(by, index, at, value, e)) \in Seq(EventType)
<1>1. Event(by, index, at, value, e) \in EventType
  BY DEF Event, EventType, TypeOK
<1>. QED BY <1>1 DEF TypeOK

\* Storing what a callback returned keeps the type of the destinations.
LEMMA StoreType ==
  ASSUME TypeOK, NEW dest \in Cell, NEW datum \in Datum \cup {None}, Store(dest, datum)
  PROVE  cells' \in [Cell -> Datum]
BY DEF Store, TypeOK

\* Selecting a sub-command keeps the types.
LEMMA SelectionType ==
  ASSUME TypeOK, ParseArgs \/ SelectCommand
  PROVE  TypeOK'
<1>1. ASSUME NEW c \in Command, NEW offset \in Nat,
             EnterCommand(c, offset), trace' \in Seq(EventType)
      PROVE  TypeOK'
  BY <1>1 DEF EnterCommand, TypeOK, input, flag
<1>2. CASE ParseArgs
  <2>1. Root \in Command /\ 1 \in Nat /\ trace' \in Seq(EventType)
    BY <1>2, ParserAssumption DEF ParseArgs, TypeOK
  <2>. QED BY <1>1, <1>2, <2>1 DEF ParseArgs
<1>3. CASE SelectCommand
  <2>1. Arg(positional) \in Text \cup {Null} /\ positional \in Nat /\ positional + 1 \in Nat
    BY <1>3, TokenType DEF SelectCommand, TypeOK
  <2>2. commands[View(Arg(positional))] \in Command
    BY <1>3, <2>1, ViewType, CommandsTyped DEF SelectCommand, commands, command, TypeOK
  <2>3. Append(trace, Event("command", 0, positional, Arg(positional), None)) \in Seq(EventType)
    BY <2>1, EventIsTyped
  <2>. QED BY <1>1, <1>3, <2>1, <2>2, <2>3 DEF SelectCommand
<1>. QED BY <1>2, <1>3

\* Calling an option keeps the types.
LEMMA CallOptionType ==
  ASSUME TypeOK, CallOption
  PROVE  TypeOK'
<1> DEFINE o == options[k]
<1>1. o \in Option
  BY CommandsTyped DEF CallOption, options, command, TypeOK
<1>2. ValueFor(o) \in Text \cup {Null, None} /\ (o.expects = "Required" => ValueFor(o) # None)
  BY DEF CallOption, LacksValue, ValueFor, TypeOK
<1>3. PICK out \in OptionOutcomes(o.kind, ValueFor(o)) :
        /\ Store(o.dest, out.store)
        /\ trace' = Append(trace, Event("option", k, flagAt, ValueFor(o), out.error))
        /\ Proceed(out.error)
  BY DEF CallOption
<1>4. out \in Outcome
  BY <1>1, <1>2, <1>3, OptionOutcomesType
<1>5. cells' \in [Cell -> Datum]
  BY <1>1, <1>3, <1>4, StoreType DEF Option, Outcome
<1>6. trace' \in Seq(EventType)
  BY <1>2, <1>3, <1>4, EventIsTyped DEF Outcome, TypeOK
<1>7. /\ pc' \in {pc, "done"}
      /\ action' = action /\ error' \in Errors \cup {None}
  BY <1>3, <1>4 DEF Proceed, Fail, Outcome, TypeOK
<1>8. i' \in Nat /\ positional' \in Nat
  BY DEF CallOption, ConsumeFor, TypeOK
<1>9. consumeValue' \in BOOLEAN
  BY DEF CallOption, ConsumeFor, Consumes
<1>10. numberMatched' \in Nat /\ k' \in Nat \ {0}
  BY DEF CallOption, TypeOK
<1>11. UNCHANGED <<input, cmd, flagAt, argName, argValue, a>>
  BY DEF CallOption
<1>. QED BY <1>5, <1>6, <1>7, <1>8, <1>9, <1>10, <1>11 DEF TypeOK, input

\* Calling an argument keeps the types.
LEMMA CallArgumentType ==
  ASSUME TypeOK, CallArgument
  PROVE  TypeOK'
<1> DEFINE arg == arguments[a]
<1>1. arg \in Argument
  BY CommandsTyped DEF CallArgument, InArguments, arguments, command, TypeOK
<1>2. Arg(positional) \in Text
  BY TokenType DEF CallArgument, InArguments, TypeOK
<1>3. PICK out \in ArgumentOutcomes(arg.kind, Arg(positional)) :
        /\ Store(arg.dest, out.store)
        /\ trace' = Append(trace, Event("argument", a, positional, Arg(positional), out.error))
        /\ \/ /\ out.error = None
              /\ a' = NextArgument
              /\ positional' = positional + 1
              /\ UNCHANGED <<pc, action, error>>
           \/ /\ out.error # None
              /\ Fail(out.error)
              /\ UNCHANGED <<a, positional>>
  BY DEF CallArgument
<1>4. out \in Outcome
  BY <1>1, <1>2, <1>3, ArgumentOutcomesType
<1>5. cells' \in [Cell -> Datum]
  BY <1>1, <1>3, <1>4, StoreType DEF Argument, Outcome
<1>6. trace' \in Seq(EventType)
  BY <1>2, <1>3, <1>4, EventIsTyped DEF Outcome, TypeOK
<1>7. /\ pc' \in {pc, "done"}
      /\ action' = action /\ error' \in Errors \cup {None}
  BY <1>3, <1>4 DEF Fail, Outcome, TypeOK
<1>8. positional' \in Nat /\ a' \in Nat \ {0}
  BY <1>3 DEF NextArgument, TypeOK
<1>9. UNCHANGED <<input, cmd, i, flag>>
  BY DEF CallArgument
<1>. QED BY <1>5, <1>6, <1>7, <1>8, <1>9 DEF TypeOK, input, flag

\* Every step keeps the types.
LEMMA NextType == TypeOK /\ [Next]_vars => TypeOK'
<1>1. TypeOK /\ UNCHANGED vars => TypeOK'
  BY DEF TypeOK, vars, input, flag
<1>. QED
  BY <1>1, FailuresType, ScanType, BeginFlagType, SelectionType, CallOptionType, CallArgumentType
     DEF Next

\* No step reads a token past the end of the vector or an option, an argument
\* or a command that does not exist, and no callback that requires a value is
\* called without one: otherwise the values that follow would have no type.
THEOREM TypeCorrect == Spec => []TypeOK
BY InitType, NextType, PTL DEF Spec

-----------------------------------------------------------------------------
(***************************************************************************)
(* The loop indices                                                        *)
(***************************************************************************)
LEMMA IndicesNext ==
  ASSUME TypeOK, IndicesAgree, [Next]_vars
  PROVE  IndicesAgree'
<1>1. CASE NegativeArgc \/ EmptyArgs \/ NullToken \/ ValueMissing \/ UnknownFlag
             \/ UnknownCommand \/ UnexpectedArguments \/ EndOfArgs \/ NullArgument \/ EndArguments
  BY <1>1
     DEF NegativeArgc, EmptyArgs, NullToken, ValueMissing, UnknownFlag, UnknownCommand,
         UnexpectedArguments, EndOfArgs, NullArgument, EndArguments, Fail, Return, IndicesAgree
<1>2. CASE ParseArgs \/ SelectCommand
  BY <1>2 DEF ParseArgs, SelectCommand, EnterCommand, IndicesAgree
<1>3. CASE NoMoreFlags \/ BeginFlag \/ SkipOption \/ EndFlag
  BY <1>3 DEF NoMoreFlags, BeginFlag, SkipOption, EndFlag, IndicesAgree
<1>4. CASE CallOption
  <2>1. i = positional /\ i' = positional'
    BY <1>4 DEF CallOption, ConsumeFor, IndicesAgree
  <2>. QED BY <2>1 DEF IndicesAgree
<1>5. CASE BeginArguments
  BY <1>5 DEF BeginArguments, Fail, IndicesAgree
<1>6. CASE CallArgument
  BY <1>6 DEF CallArgument, Fail, IndicesAgree
<1>7. CASE UNCHANGED vars
  BY <1>7 DEF vars, IndicesAgree
<1>. QED BY <1>1, <1>2, <1>3, <1>4, <1>5, <1>6, <1>7 DEF Next

\* The caller of parseOptions goes on at the very token its loop stopped at.
THEOREM IndicesAlwaysAgree == Spec => []IndicesAgree
<1>1. Init => IndicesAgree
  BY DEF Init, IndicesAgree
<1>. QED BY <1>1, TypeCorrect, IndicesNext, PTL DEF Spec

\* All that ArgumentsFitTokens depends on.
LEMMA FitDepends ==
  ASSUME ArgumentsFitTokens, UNCHANGED <<input, pc, cmd, positional, a>>
  PROVE  ArgumentsFitTokens'
BY DEF ArgumentsFitTokens, EndsWithTrailing, arguments, command, input

\* Every step keeps the tokens left and the arguments left in step.
LEMMA FitNext ==
  ASSUME TypeOK, ArgumentsFitTokens, [Next]_vars
  PROVE  ArgumentsFitTokens'
<1>1. Len(arguments) \in Nat
  BY CommandsTyped DEF arguments, command, TypeOK
<1>2. CASE CallArgument
  <2>1. CASE pc' = "done"
    BY <2>1 DEF ArgumentsFitTokens
  <2>2. CASE pc' # "done"
    <3>1. a' = NextArgument /\ positional' = positional + 1 /\ UNCHANGED <<input, cmd>>
      BY <1>2, <2>2 DEF CallArgument, Fail
    <3>2. /\ pc = "arguments" /\ a <= Len(arguments) /\ positional < argc
      BY <1>2 DEF CallArgument, InArguments
    <3>3. positional \in Nat /\ a \in Nat /\ argc \in Int
      BY DEF TypeOK
    <3>4. argc' = argc /\ command' = command /\ arguments' = arguments
      BY <3>1 DEF command, arguments, input
    <3>5. CASE EndsWithTrailing(command)
      <4>1. a' \in Int /\ a' <= Len(arguments)
        BY <1>1, <3>1, <3>2, <3>3, <3>5 DEF NextArgument
      <4>2. positional' <= argc
        BY <3>1, <3>2, <3>3
      <4>. QED BY <1>1, <3>4, <3>5, <4>1, <4>2 DEF ArgumentsFitTokens
    <3>6. CASE ~EndsWithTrailing(command)
      <4>1. argc - positional = Len(arguments) + 1 - a
        BY <3>2, <3>6 DEF ArgumentsFitTokens
      <4>2. a' = a + 1
        BY <3>1, <3>6 DEF NextArgument
      <4>3. positional' <= argc /\ a' <= Len(arguments) + 1
        BY <1>1, <3>1, <3>2, <3>3, <4>2
      <4>4. argc - positional' = Len(arguments) + 1 - a'
        BY <1>1, <3>1, <3>3, <4>1, <4>2
      <4>. QED BY <3>4, <3>6, <4>3, <4>4 DEF ArgumentsFitTokens
    <3>. QED BY <3>5, <3>6
  <2>. QED BY <2>1, <2>2
<1>3. CASE BeginArguments
  <2>1. CASE WrongNumber
    BY <1>3, <2>1 DEF BeginArguments, Fail, ArgumentsFitTokens
  <2>2. CASE ~WrongNumber
    <3>1. a' = 1 /\ arguments # << >> /\ positional < argc /\ UNCHANGED <<input, cmd, positional>>
      BY <1>3, <2>2 DEF BeginArguments
    <3>2. Len(arguments) >= 1
      BY <3>1, CommandsTyped DEF arguments, command, TypeOK
    <3>3. argc' = argc /\ command' = command /\ arguments' = arguments
      BY <3>1 DEF command, arguments, input
    <3>4. positional' <= argc /\ a' <= Len(arguments) /\ a' <= Len(arguments) + 1
      BY <1>1, <3>1, <3>2 DEF TypeOK
    <3>5. ~EndsWithTrailing(command) => argc - positional' = Len(arguments) + 1 - a'
      BY <1>1, <2>2, <3>1 DEF WrongNumber, TypeOK
    <3>. QED BY <3>3, <3>4, <3>5 DEF ArgumentsFitTokens
  <2>. QED BY <2>1, <2>2
<1>4. CASE UNCHANGED vars
  BY <1>4, FitDepends DEF vars, flag
<1>5. CASE Next /\ ~CallArgument /\ ~BeginArguments
  <2>1. pc' # "arguments"
    BY <1>5
       DEF Next, NegativeArgc, EmptyArgs, ParseArgs, NullToken, NoMoreFlags, BeginFlag, SkipOption,
           ValueMissing, CallOption, EndFlag, UnknownFlag, SelectCommand, UnknownCommand,
           UnexpectedArguments, EndOfArgs, NullArgument, EndArguments, EnterCommand, Fail, Return,
           Proceed
  <2>. QED BY <2>1 DEF ArgumentsFitTokens
<1>. QED BY <1>2, <1>3, <1>4, <1>5

\* The numbers compared before the loop of parseArguments still agree at its
\* end, so that the error after it cannot be returned.
THEOREM ArgumentsAlwaysFit == Spec => []ArgumentsFitTokens
<1>1. Init => ArgumentsFitTokens
  BY DEF Init, ArgumentsFitTokens
<1>. QED BY <1>1, TypeCorrect, FitNext, PTL DEF Spec

-----------------------------------------------------------------------------
(***************************************************************************)
(* The first failure                                                       *)
(***************************************************************************)
LEMMA NoneIsNoError == None \notin Errors /\ None \notin Command
BY ParserAssumption

\* As long as parse has not returned, no callback has failed.
LEMMA RunningMeansNoFailure ==
  ASSUME StopsAtFirstFailure, pc # "done"
  PROVE  action = None /\ error = None /\ \A n \in Events : trace[n].error = None
BY DEF StopsAtFirstFailure

\* A parse that returns an action or one of its own errors has ended.
LEMMA ReturnStops ==
  ASSUME TypeOK, StopsAtFirstFailure, pc # "done", UNCHANGED trace,
         (\E e \in Errors : Fail(e)) \/ Return(cmd)
  PROVE  StopsAtFirstFailure'
BY RunningMeansNoFailure, NoneIsNoError DEF StopsAtFirstFailure, Fail, Return, Events, TypeOK

\* A step that goes on, and whose callback has not failed, keeps the property.
LEMMA RunOnStops ==
  ASSUME StopsAtFirstFailure, pc # "done", pc' # "done", UNCHANGED <<action, error>>,
         \A n \in Events' : trace'[n].error = None
  PROVE  StopsAtFirstFailure'
BY RunningMeansNoFailure DEF StopsAtFirstFailure, Events

\* A step that calls a callback ends the parse exactly if the callback failed.
LEMMA CallStops ==
  ASSUME TypeOK, StopsAtFirstFailure, pc # "done",
         NEW event \in EventType, trace' = Append(trace, event),
         \/ event.error = None /\ UNCHANGED <<pc, action, error>>
         \/ event.error # None /\ Fail(event.error)
  PROVE  StopsAtFirstFailure'
<1>1. /\ Len(trace) \in Nat /\ Events = 1..Len(trace)
      /\ Events' = 1..Len(trace) + 1 /\ Len(trace') = Len(trace) + 1
      /\ trace'[Len(trace) + 1] = event
      /\ \A n \in Events : trace'[n] = trace[n]
  BY DEF TypeOK, Events
<1>2. \A n \in Events : trace'[n].error = None
  BY <1>1, RunningMeansNoFailure
<1>3. CASE event.error = None /\ UNCHANGED <<pc, action, error>>
  <2>1. \A n \in Events' : trace'[n].error = None
    BY <1>1, <1>2, <1>3
  <2>. QED BY <1>3, <2>1, RunOnStops
<1>4. CASE event.error # None /\ Fail(event.error)
  <2>1. action' = None /\ error' = event.error /\ pc' = "done"
    BY <1>4, RunningMeansNoFailure DEF Fail
  <2>2. \A n \in Events' : trace'[n].error # None => n = Len(trace') /\ error' = trace'[n].error
    BY <1>1, <1>2, <2>1
  <2>. QED BY <1>4, <2>1, <2>2 DEF StopsAtFirstFailure
<1>. QED BY <1>3, <1>4

\* Every step keeps the first failure the last one.
LEMMA StopsNext ==
  ASSUME TypeOK, StopsAtFirstFailure, [Next]_vars
  PROVE  StopsAtFirstFailure'
<1>1. CASE NegativeArgc \/ EmptyArgs \/ NullToken \/ ValueMissing \/ UnknownFlag
             \/ UnknownCommand \/ UnexpectedArguments \/ EndOfArgs \/ NullArgument \/ EndArguments
  <2>1. {"InvalidNumberOfArgs", "ValueExpected", "UnexpectedValue", "InvalidInput"} \subseteq Errors
    BY DEF Errors
  <2>. QED
    BY <1>1, <2>1, ReturnStops
       DEF NegativeArgc, EmptyArgs, NullToken, ValueMissing, UnknownFlag, UnknownCommand,
           UnexpectedArguments, EndOfArgs, NullArgument, EndArguments
<1>2. CASE ParseArgs \/ NoMoreFlags \/ BeginFlag \/ SkipOption \/ EndFlag
  <2>1. pc # "done" /\ pc' # "done" /\ UNCHANGED <<action, error, trace>>
    BY <1>2 DEF ParseArgs, EnterCommand, NoMoreFlags, BeginFlag, SkipOption, EndFlag
  <2>. QED BY <2>1, RunningMeansNoFailure, RunOnStops DEF Events
<1>3. CASE BeginArguments
  <2>1. pc # "done" /\ UNCHANGED trace
    BY <1>3 DEF BeginArguments
  <2>2. CASE WrongNumber
    BY <1>3, <2>1, <2>2, ReturnStops DEF BeginArguments, Errors
  <2>3. CASE ~WrongNumber
    BY <1>3, <2>1, <2>3, RunningMeansNoFailure, RunOnStops DEF BeginArguments, Events
  <2>. QED BY <2>2, <2>3
<1>4. CASE SelectCommand
  <2> DEFINE event == Event("command", 0, positional, Arg(positional), None)
  <2>1. Arg(positional) \in Text \cup {Null} /\ positional \in Nat
    BY <1>4, TokenType DEF SelectCommand, TypeOK
  <2>2. event \in EventType /\ event.error = None
    BY <2>1, EventIsTyped DEF Event
  <2>3. trace' = Append(trace, event) /\ pc # "done" /\ pc' # "done" /\ UNCHANGED <<action, error>>
    BY <1>4 DEF SelectCommand, EnterCommand
  <2>4. \A n \in Events' : trace'[n].error = None
    BY <2>2, <2>3, RunningMeansNoFailure DEF Events, TypeOK
  <2>. QED BY <2>3, <2>4, RunOnStops
<1>5. CASE CallOption
  <2> DEFINE o == options[k]
  <2>1. PICK out \in OptionOutcomes(o.kind, ValueFor(o)) :
          /\ trace' = Append(trace, Event("option", k, flagAt, ValueFor(o), out.error))
          /\ Proceed(out.error)
    BY <1>5 DEF CallOption
  <2> DEFINE event == Event("option", k, flagAt, ValueFor(o), out.error)
  <2>2. o \in Option
    BY <1>5, CommandsTyped DEF CallOption, options, command, TypeOK
  <2>3. ValueFor(o) \in Text \cup {Null, None} /\ (o.expects = "Required" => ValueFor(o) # None)
    BY <1>5 DEF CallOption, LacksValue, ValueFor, TypeOK
  <2>4. out.error \in Errors \cup {None}
    BY <2>1, <2>2, <2>3, OptionOutcomesType DEF Outcome
  <2>5. event \in EventType /\ event.error = out.error
    BY <2>3, <2>4, EventIsTyped DEF Event, TypeOK
  <2>. QED BY <1>5, <2>1, <2>5, CallStops DEF CallOption, Proceed
<1>6. CASE CallArgument
  <2> DEFINE arg == arguments[a]
  <2>1. PICK out \in ArgumentOutcomes(arg.kind, Arg(positional)) :
          /\ trace' = Append(trace, Event("argument", a, positional, Arg(positional), out.error))
          /\ \/ out.error = None /\ UNCHANGED <<pc, action, error>>
             \/ out.error # None /\ Fail(out.error)
    BY <1>6 DEF CallArgument
  <2> DEFINE event == Event("argument", a, positional, Arg(positional), out.error)
  <2>2. arg \in Argument /\ Arg(positional) \in Text
    BY <1>6, CommandsTyped, TokenType DEF CallArgument, InArguments, arguments, command, TypeOK
  <2>3. out.error \in Errors \cup {None}
    BY <2>1, <2>2, ArgumentOutcomesType DEF Outcome
  <2>4. event \in EventType /\ event.error = out.error
    BY <2>2, <2>3, EventIsTyped DEF Event, TypeOK
  <2>. QED BY <1>6, <2>1, <2>4, CallStops DEF CallArgument
<1>7. CASE UNCHANGED vars
  BY <1>7 DEF vars, StopsAtFirstFailure, Events
<1>. QED BY <1>1, <1>2, <1>3, <1>4, <1>5, <1>6, <1>7 DEF Next

\* The first callback that returns an error ends the parse with that error,
\* however many options share its flag and however many tokens follow.
THEOREM FirstFailureStops == Spec => []StopsAtFirstFailure
<1>1. Init => StopsAtFirstFailure
  BY NoneIsNoError DEF Init, StopsAtFirstFailure, Events
<1>. QED BY <1>1, TypeCorrect, StopsNext, PTL DEF Spec

-----------------------------------------------------------------------------
(***************************************************************************)
(* No token of the command line is used twice, and every option is given   *)
(* the value that is meant for it. Neither property is inductive. What     *)
(* they rest on is how the locals of parseOptions relate to the vector     *)
(* while a flag is being matched (FlagState), and that the tokens of the   *)
(* past events lie before the one that the parser looks at (Frontier).     *)
(***************************************************************************)

\* The token after the flag has been taken as a value.
NextTaken == LooksAhead(flagAt) /\ ~consumeValue

FlagState ==
  pc = "match" =>
    /\ flagAt < argc /\ IsFlag(flagAt)
    /\ argName = NameOf[Arg(flagAt)]
    /\ argValue = IF LooksAhead(flagAt) THEN Arg(flagAt + 1) ELSE InlineOf[Arg(flagAt)]
    /\ consumeValue => LooksAhead(flagAt)
    /\ i = IF NextTaken THEN flagAt + 1 ELSE flagAt

\* An event of the flag that is being matched.
OfThisFlag(e) ==
  /\ e.by = "option" /\ e.at = flagAt /\ e.index < k
  /\ TookNext(e) => NextTaken

Frontier ==
  \A n \in Events :
    /\ pc = "match" => OfThisFlag(trace[n]) \/ LastToken(trace[n]) < flagAt
    /\ pc \in {"options", "dispatch", "arguments"} => LastToken(trace[n]) < positional
    /\ pc # "parse"

-----------------------------------------------------------------------------
\* Events, and what is said of them, depend on the input and the trace alone.
LEMMA EventFacts ==
  ASSUME TypeOK
  PROVE  /\ Len(trace) \in Nat /\ Events = 1..Len(trace)
         /\ \A n \in Events : trace[n] \in EventType
BY DEF TypeOK, Events

\* The last token of an event is an index.
LEMMA LastTokenType ==
  ASSUME NEW e \in EventType
  PROVE  LastToken(e) \in Nat /\ e.at \in Nat /\ LastToken(e) \in {e.at, e.at + 1}
BY DEF EventType, LastToken

\* What an event stands for does not change while the parse goes on.
LEMMA ReadingUnchanged ==
  ASSUME UNCHANGED input, NEW e \in EventType
  PROVE  (TookNext(e)' <=> TookNext(e)) /\ LastToken(e)' = LastToken(e)
BY DEF TookNext, LastToken, Arg, input

-----------------------------------------------------------------------------
(***************************************************************************)
(* The locals of a flag                                                    *)
(***************************************************************************)
LEMMA FlagStateNext ==
  ASSUME TypeOK, FlagState, IndicesAgree, [Next]_vars
  PROVE  FlagState'
<1>1. CASE BeginFlag
  BY <1>1 DEF BeginFlag, FlagState, NextTaken, LooksAhead, IsFlag, Arg, input
<1>2. CASE SkipOption
  BY <1>2 DEF SkipOption, FlagState, NextTaken, LooksAhead, IsFlag, Arg, input
<1>3. CASE CallOption
  <2>1. CASE pc' = "match"
    <3>1. pc = "match" /\ UNCHANGED <<input, flagAt, argName, argValue>> /\ ConsumeFor(options[k])
      BY <1>3 DEF CallOption
    <3>2. flagAt < argc /\ IsFlag(flagAt) /\ argName = NameOf[Arg(flagAt)]
          /\ argValue = IF LooksAhead(flagAt) THEN Arg(flagAt + 1) ELSE InlineOf[Arg(flagAt)]
      BY <3>1 DEF FlagState
    <3>3. (consumeValue' => LooksAhead(flagAt))
          /\ i' = IF LooksAhead(flagAt) /\ ~consumeValue' THEN flagAt + 1 ELSE flagAt
      BY <3>1 DEF FlagState, ConsumeFor, Consumes, NextTaken
    <3>. QED
      BY <3>1, <3>2, <3>3 DEF FlagState, NextTaken, LooksAhead, IsFlag, Arg, input
  <2>. QED BY <2>1 DEF FlagState
<1>4. CASE UNCHANGED vars
  BY <1>4 DEF vars, flag, FlagState, NextTaken, LooksAhead, IsFlag, Arg, input
<1>5. CASE Next /\ ~BeginFlag /\ ~SkipOption /\ ~CallOption
  <2>1. pc' # "match"
    BY <1>5
       DEF Next, NegativeArgc, EmptyArgs, ParseArgs, NullToken, NoMoreFlags, ValueMissing, EndFlag,
           UnknownFlag, SelectCommand, UnknownCommand, BeginArguments, UnexpectedArguments,
           EndOfArgs, NullArgument, CallArgument, EndArguments, EnterCommand, Fail, Return
  <2>. QED BY <2>1 DEF FlagState
<1>. QED BY <1>1, <1>2, <1>3, <1>4, <1>5

\* While a flag is matched, its locals are what its token and the next one say.
LEMMA FlagStateInvariant == Spec => []FlagState
<1>1. Init => FlagState
  BY DEF Init, FlagState
<1>. QED BY <1>1, TypeCorrect, IndicesAlwaysAgree, FlagStateNext, PTL DEF Spec

-----------------------------------------------------------------------------
(***************************************************************************)
(* The event that a step appends to the trace                              *)
(***************************************************************************)
LEMMA Appended ==
  ASSUME TypeOK, NEW event, trace' = Append(trace, event)
  PROVE  /\ Events' = Events \cup {Len(trace) + 1} /\ Len(trace) + 1 \notin Events
         /\ trace'[Len(trace) + 1] = event
         /\ \A n \in Events : trace'[n] = trace[n] /\ n < Len(trace) + 1
BY DEF TypeOK, Events

\* The option event of a step has the offset of the flag; if it took the next
\* token, no other option of the flag can take it any more.
LEMMA OptionEvent ==
  ASSUME TypeOK, FlagState, CallOption
  PROVE  \E event \in EventType :
           /\ trace' = Append(trace, event)
           /\ event.by = "option" /\ event.command = cmd /\ event.at = flagAt /\ event.index = k
           /\ event.value = ValueFor(options[k])
           /\ TookNext(event) => NextTaken'
<1> DEFINE o == options[k]
<1>1. PICK out \in OptionOutcomes(o.kind, ValueFor(o)) :
        trace' = Append(trace, Event("option", k, flagAt, ValueFor(o), out.error))
  BY DEF CallOption
<1> DEFINE event == Event("option", k, flagAt, ValueFor(o), out.error)
<1>2. ValueFor(o) \in Text \cup {Null, None} /\ (o.expects = "Required" => ValueFor(o) # None)
  BY DEF CallOption, LacksValue, ValueFor, TypeOK
<1>3. o \in Option
  BY CommandsTyped DEF CallOption, options, command, TypeOK
<1>4. out.error \in Errors \cup {None}
  BY <1>1, <1>2, <1>3, OptionOutcomesType DEF Outcome
<1>5. event \in EventType
  BY <1>2, <1>4, EventIsTyped DEF TypeOK
<1>6. event.at = flagAt /\ event.value = ValueFor(o)
  BY DEF Event
<1>7. ASSUME TookNext(event) PROVE NextTaken'
  <2>1. InlineOf[Arg(flagAt)] = None /\ o.expects # "NotRequired" /\ argValue # None
    BY <1>6, <1>7 DEF TookNext, ValueFor
  <2>2. LooksAhead(flagAt)
    BY <2>1 DEF CallOption, FlagState
  <2>3. ~consumeValue'
    BY <2>1 DEF CallOption, ConsumeFor, Consumes
  <2>. QED BY <2>2, <2>3 DEF CallOption, NextTaken, LooksAhead, IsFlag, Arg, input
<1>. QED BY <1>1, <1>5, <1>7 DEF Event

\* An argument is given the token at its offset.
LEMMA ArgumentEvent ==
  ASSUME TypeOK, CallArgument
  PROVE  \E event \in EventType :
           /\ trace' = Append(trace, event)
           /\ event.by = "argument" /\ event.at = positional
           /\ event.command = cmd /\ event.index = a
<1> DEFINE arg == arguments[a]
<1>1. PICK out \in ArgumentOutcomes(arg.kind, Arg(positional)) :
        trace' = Append(trace, Event("argument", a, positional, Arg(positional), out.error))
  BY DEF CallArgument
<1>2. arg \in Argument /\ Arg(positional) \in Text
  BY CommandsTyped, TokenType DEF CallArgument, InArguments, arguments, command, TypeOK
<1>3. out.error \in Errors \cup {None}
  BY <1>1, <1>2, ArgumentOutcomesType DEF Outcome
<1>4. Event("argument", a, positional, Arg(positional), out.error) \in EventType
  BY <1>2, <1>3, EventIsTyped DEF TypeOK
<1>. QED BY <1>1, <1>4 DEF Event

\* A command is selected by the token at its offset.
LEMMA CommandEvent ==
  ASSUME TypeOK, SelectCommand
  PROVE  \E event \in EventType :
           /\ trace' = Append(trace, event)
           /\ event.by = "command" /\ event.at = positional
           /\ event.command = cmd /\ event.value = Arg(positional)
<1>1. Arg(positional) \in Text \cup {Null} /\ positional \in Nat
  BY TokenType DEF SelectCommand, TypeOK
<1>2. Event("command", 0, positional, Arg(positional), None) \in EventType
  BY <1>1, EventIsTyped
<1>. QED BY <1>2 DEF SelectCommand, Event

-----------------------------------------------------------------------------
(***************************************************************************)
(* The tokens of the past events                                           *)
(***************************************************************************)

\* A step that appends nothing keeps the frontier, or moves it on.
LEMMA FrontierQuiet ==
  ASSUME TypeOK, IndicesAgree, FlagState, Frontier, UNCHANGED <<input, trace>>,
         \/ pc' = "done"
         \/ ParseArgs \/ NoMoreFlags \/ BeginFlag \/ SkipOption \/ EndFlag \/ BeginArguments
  PROVE  Frontier'
<1> SUFFICES ASSUME NEW n \in Events
             PROVE  /\ pc' = "match" => OfThisFlag(trace[n])' \/ LastToken(trace[n]) < flagAt'
                    /\ pc' \in {"options", "dispatch", "arguments"} =>
                         LastToken(trace[n]) < positional'
                    /\ pc' # "parse"
  BY EventFacts, ReadingUnchanged DEF Frontier, Events
<1> DEFINE e == trace[n]
<1>1. e \in EventType /\ LastToken(e) \in Nat /\ (TookNext(e)' <=> TookNext(e))
  BY EventFacts, LastTokenType, ReadingUnchanged
<1>2. pc # "parse"
  BY DEF Frontier
<1>3. CASE pc' = "done"
  BY <1>3
<1>4. CASE ParseArgs
  BY <1>2, <1>4 DEF ParseArgs
<1>5. CASE NoMoreFlags
  BY <1>5 DEF NoMoreFlags, Frontier
<1>6. CASE BeginFlag
  BY <1>6 DEF BeginFlag, Frontier, IndicesAgree
<1>7. CASE SkipOption
  <2>1. OfThisFlag(e) => OfThisFlag(e)'
    BY <1>1, <1>7 DEF SkipOption, OfThisFlag, NextTaken, LooksAhead, IsFlag, Arg, TypeOK, EventType, input
  <2>. QED BY <1>7, <2>1 DEF SkipOption, Frontier
<1>8. CASE EndFlag
  <2>1. pc = "match" /\ pc' = "options" /\ positional' = i + 1
    BY <1>8 DEF EndFlag, IndicesAgree
  <2>2. flagAt \in Nat /\ i \in Nat /\ flagAt <= i /\ (NextTaken => i = flagAt + 1)
    BY <2>1 DEF FlagState, TypeOK
  <2>3. OfThisFlag(e) => LastToken(e) <= i
    BY <2>2 DEF OfThisFlag, LastToken
  <2>4. LastToken(e) <= i
    BY <1>1, <2>1, <2>2, <2>3 DEF Frontier
  <2>. QED BY <1>1, <2>1, <2>2, <2>4
<1>9. CASE BeginArguments
  BY <1>9 DEF BeginArguments, Fail, Frontier
<1>. QED BY <1>3, <1>4, <1>5, <1>6, <1>7, <1>8, <1>9

\* Every step keeps the tokens used behind the one to be read next.
LEMMA FrontierNext ==
  ASSUME TypeOK, IndicesAgree, FlagState, Frontier, [Next]_vars
  PROVE  Frontier'
<1>1. CASE CallOption
  <2>1. PICK event \in EventType :
          /\ trace' = Append(trace, event)
          /\ event.by = "option" /\ event.at = flagAt /\ event.index = k
          /\ TookNext(event) => NextTaken'
    BY <1>1, OptionEvent
  <2>2. pc = "match" /\ pc' \in {"match", "done"} /\ flagAt' = flagAt /\ k' = k + 1
        /\ UNCHANGED input
    BY <1>1 DEF CallOption, Proceed, Fail
  <2>3. OfThisFlag(event)'
    BY <2>1, <2>2, ReadingUnchanged DEF OfThisFlag, TypeOK
  <2>4. NextTaken => NextTaken'
    BY <1>1, <2>2 DEF CallOption, ConsumeFor, NextTaken, LooksAhead, IsFlag, Arg, input
  <2>5. ASSUME NEW n \in Events
        PROVE  OfThisFlag(trace[n])' \/ LastToken(trace[n])' < flagAt'
    <3>1. trace[n] \in EventType
      BY EventFacts
    <3>2. OfThisFlag(trace[n]) \/ LastToken(trace[n]) < flagAt
      BY <2>2 DEF Frontier
    <3>3. trace'[n] = trace[n] /\ argv' = argv
      BY <2>1, <2>2, Appended DEF input
    <3>4. LastToken(trace[n])' = LastToken(trace[n]) /\ (TookNext(trace[n])' <=> TookNext(trace[n]))
      BY <3>3 DEF LastToken, TookNext, Arg
    <3>5. OfThisFlag(trace[n]) => OfThisFlag(trace[n])'
      BY <2>2, <2>4, <3>1, <3>3, <3>4 DEF OfThisFlag, TypeOK, EventType
    <3>. QED BY <2>2, <3>2, <3>4, <3>5
  <2>. QED BY <2>1, <2>2, <2>3, <2>5, Appended DEF Frontier
<1>2. CASE SelectCommand \/ CallArgument
  <2>1. PICK event \in EventType :
          /\ trace' = Append(trace, event)
          /\ event.by # "option" /\ event.at = positional
    BY <1>2, CommandEvent, ArgumentEvent
  <2>2. /\ pc \in {"dispatch", "arguments"} /\ pc' \in {"options", "arguments", "done"}
        /\ pc' # "done" => positional' = positional + 1
        /\ UNCHANGED input
    BY <1>2 DEF SelectCommand, EnterCommand, CallArgument, Fail
  <2>3. ASSUME NEW n \in Events
        PROVE  LastToken(trace[n])' \in Nat /\ LastToken(trace[n])' < positional
    <3>1. trace'[n] = trace[n] /\ argv' = argv
      BY <2>1, <2>2, Appended DEF input
    <3>2. LastToken(trace[n])' = LastToken(trace[n])
      BY <3>1 DEF LastToken, TookNext, Arg
    <3>. QED BY <2>2, <3>2, EventFacts, LastTokenType DEF Frontier
  <2>4. ASSUME NEW n \in Events', pc' # "done"
        PROVE  LastToken(trace[n])' < positional'
    <3>1. CASE n \in Events
      BY <2>2, <2>3, <2>4, <3>1 DEF TypeOK
    <3>2. CASE n = Len(trace) + 1
      <4>1. trace'[n] = event
        BY <2>1, <3>2, Appended
      <4>2. LastToken(trace[n])' = positional
        BY <2>1, <4>1 DEF LastToken, TookNext
      <4>. QED BY <2>2, <2>4, <4>2 DEF TypeOK
    <3>. QED BY <2>1, <3>1, <3>2, Appended
  <2>. QED BY <2>2, <2>4 DEF Frontier
<1>3. CASE UNCHANGED vars
  BY <1>3 DEF vars, flag, input, Frontier, OfThisFlag, LastToken, TookNext, NextTaken, LooksAhead,
              IsFlag, Arg, Events
<1>4. CASE Next /\ ~CallOption /\ ~SelectCommand /\ ~CallArgument
  <2>1. UNCHANGED <<input, trace>>
    BY <1>4
       DEF Next, NegativeArgc, EmptyArgs, ParseArgs, NullToken, NoMoreFlags, BeginFlag, SkipOption,
           ValueMissing, EndFlag, UnknownFlag, UnknownCommand, BeginArguments, UnexpectedArguments,
           EndOfArgs, NullArgument, EndArguments, EnterCommand
  <2>2. \/ pc' = "done"
        \/ ParseArgs \/ NoMoreFlags \/ BeginFlag \/ SkipOption \/ EndFlag \/ BeginArguments
    BY <1>4
       DEF Next, NegativeArgc, EmptyArgs, NullToken, ValueMissing, UnknownFlag, UnknownCommand,
           UnexpectedArguments, EndOfArgs, NullArgument, EndArguments, Fail, Return
  <2>. QED BY <2>1, <2>2, FrontierQuiet
<1>. QED BY <1>1, <1>2, <1>3, <1>4

\* No event uses a token at or after the one to be read next.
LEMMA FrontierInvariant == Spec => []Frontier
<1>1. Init => Frontier
  BY DEF Init, Frontier, Events
<1>. QED BY <1>1, TypeCorrect, IndicesAlwaysAgree, FlagStateInvariant, FrontierNext, PTL DEF Spec

\* Two events use different tokens, in order.
Apart(e, f) == (SameFlag(e, f) /\ e.index < f.index) \/ LastToken(e) < f.at

\* An event whose tokens lie behind all others may be added to the trace.
LEMMA AppendApart ==
  ASSUME TypeOK, TokensUsedOnce, UNCHANGED input,
         NEW event \in EventType, trace' = Append(trace, event),
         \A n \in Events : Apart(trace[n], event)
  PROVE  TokensUsedOnce'
<1>1. argv' = argv
  BY DEF input
<1>2. ASSUME NEW m \in Events', NEW n \in Events', m < n
      PROVE  Apart(trace'[m], trace'[n])
  <2>1. m \in Events /\ trace'[m] = trace[m]
    BY <1>2, Appended, EventFacts
  <2>2. CASE n \in Events
    BY <1>2, <2>1, <2>2, Appended DEF TokensUsedOnce, Apart
  <2>3. CASE n = Len(trace) + 1
    BY <2>1, <2>3, Appended
  <2>. QED BY <2>2, <2>3, Appended
<1>. QED BY <1>1, <1>2 DEF TokensUsedOnce, Apart, SameFlag, LastToken, TookNext, Arg

\* Every step keeps the events apart.
LEMMA TokensNext ==
  ASSUME TypeOK, FlagState, Frontier, TokensUsedOnce, [Next]_vars
  PROVE  TokensUsedOnce'
<1>1. CASE CallOption
  <2>1. PICK event \in EventType :
          /\ trace' = Append(trace, event)
          /\ event.by = "option" /\ event.at = flagAt /\ event.index = k
    BY <1>1, OptionEvent
  <2>2. \A n \in Events : Apart(trace[n], event)
    BY <1>1, <2>1 DEF CallOption, Frontier, OfThisFlag, Apart, SameFlag
  <2>. QED BY <1>1, <2>1, <2>2, AppendApart DEF CallOption
<1>2. CASE SelectCommand \/ CallArgument
  <2>1. PICK event \in EventType : trace' = Append(trace, event) /\ event.at = positional
    BY <1>2, CommandEvent, ArgumentEvent
  <2>2. \A n \in Events : Apart(trace[n], event)
    BY <1>2, <2>1 DEF SelectCommand, CallArgument, Frontier, Apart
  <2>. QED BY <1>2, <2>1, <2>2, AppendApart DEF SelectCommand, EnterCommand, CallArgument
<1>3. CASE ([Next]_vars) /\ ~CallOption /\ ~SelectCommand /\ ~CallArgument
  <2>1. UNCHANGED <<input, trace>>
    BY <1>3
       DEF Next, vars, NegativeArgc, EmptyArgs, ParseArgs, NullToken, NoMoreFlags, BeginFlag,
           SkipOption, ValueMissing, EndFlag, UnknownFlag, UnknownCommand, BeginArguments,
           UnexpectedArguments, EndOfArgs, NullArgument, EndArguments, EnterCommand
  <2>. QED BY <2>1 DEF TokensUsedOnce, SameFlag, LastToken, TookNext, Arg, Events, input
<1>. QED BY <1>1, <1>2, <1>3

\* Whatever the options that share a flag, and however their expectations are
\* mixed, no token of the line reaches two callbacks that are not options of one
\* flag, or reaches them out of order.
THEOREM NoTokenUsedTwice == Spec => []TokensUsedOnce
<1>1. Init => TokensUsedOnce
  BY DEF Init, TokensUsedOnce, Events
<1>. QED BY <1>1, TypeCorrect, FlagStateInvariant, FrontierInvariant, TokensNext, PTL DEF Spec

-----------------------------------------------------------------------------
(***************************************************************************)
(* The value of an option                                                  *)
(***************************************************************************)

\* What CallbackContract says of one event.
Kept(e) ==
  e.by = "option" =>
    /\ NameOf[Arg(e.at)] \in OptionOf(e).names
    /\ OptionOf(e).expects = "Required" => e.value # None
    /\ OptionOf(e).expects = "NotRequired" => e.value = None
    /\ e.value # None /\ ~TookNext(e) => e.value = InlineOf[Arg(e.at)]
    /\ TookNext(e) => /\ e.at + 1 < argc
                      /\ e.value = Arg(e.at + 1)
                      /\ View(e.value) \notin FlagText

\* A call of an option keeps the contract.
LEMMA OptionKept ==
  ASSUME TypeOK, FlagState, CallOption, NEW event \in EventType,
         event.by = "option" /\ event.command = cmd /\ event.at = flagAt /\ event.index = k,
         event.value = ValueFor(options[k])
  PROVE  Kept(event)
<1> DEFINE o == options[k]
<1>1. OptionOf(event) = o
  BY DEF OptionOf, options, command
<1>2. /\ pc = "match" /\ argName \in o.names /\ argName = NameOf[Arg(flagAt)]
      /\ o.expects = "Required" => argValue # None
      /\ argValue = IF LooksAhead(flagAt) THEN Arg(flagAt + 1) ELSE InlineOf[Arg(flagAt)]
  BY DEF CallOption, IsMatch, LacksValue, FlagState
<1>3. event.value # None => event.value = argValue /\ o.expects # "NotRequired"
  BY DEF ValueFor
<1>4. o.expects = "NotRequired" => event.value = None
  BY DEF ValueFor
<1>5. o.expects = "Required" => event.value # None
  BY <1>2 DEF ValueFor
<1>6. ASSUME event.value # None, ~TookNext(event)
      PROVE  event.value = InlineOf[Arg(flagAt)]
  BY <1>2, <1>3, <1>6 DEF TookNext, LooksAhead
<1>7. ASSUME TookNext(event)
      PROVE  flagAt + 1 < argc /\ event.value = Arg(flagAt + 1) /\ View(event.value) \notin FlagText
  <2>1. event.value # None /\ InlineOf[Arg(flagAt)] = None
    BY <1>7 DEF TookNext
  <2>2. LooksAhead(flagAt)
    BY <1>2, <1>3, <2>1
  <2>. QED BY <1>2, <1>3, <2>1, <2>2 DEF LooksAhead, IsFlag
<1>. QED BY <1>1, <1>2, <1>4, <1>5, <1>6, <1>7 DEF Kept

\* Every step keeps the contract of the callbacks already called.
LEMMA ContractNext ==
  ASSUME TypeOK, FlagState, CallbackContract, [Next]_vars
  PROVE  CallbackContract'
<1>1. \A n \in Events : Kept(trace[n])
  BY DEF CallbackContract, Kept
<1>2. ASSUME UNCHANGED input, \A n \in Events' : Kept(trace'[n])
      PROVE  CallbackContract'
  BY <1>2 DEF CallbackContract, Kept, OptionOf, TookNext, Arg, View, input
<1>3. ASSUME UNCHANGED input, NEW event, trace' = Append(trace, event), Kept(event)
      PROVE  CallbackContract'
  BY <1>1, <1>2, <1>3, Appended
<1>4. CASE CallOption
  BY <1>3, <1>4, OptionEvent, OptionKept DEF CallOption
<1>5. CASE SelectCommand \/ CallArgument
  <2>1. PICK event \in EventType : trace' = Append(trace, event) /\ event.by # "option"
    BY <1>5, CommandEvent, ArgumentEvent
  <2>. QED BY <1>3, <1>5, <2>1 DEF Kept, SelectCommand, EnterCommand, CallArgument
<1>6. CASE ([Next]_vars) /\ ~CallOption /\ ~SelectCommand /\ ~CallArgument
  <2>1. UNCHANGED <<input, trace>>
    BY <1>6
       DEF Next, vars, NegativeArgc, EmptyArgs, ParseArgs, NullToken, NoMoreFlags, BeginFlag,
           SkipOption, ValueMissing, EndFlag, UnknownFlag, UnknownCommand, BeginArguments,
           UnexpectedArguments, EndOfArgs, NullArgument, EndArguments, EnterCommand
  <2>. QED BY <1>1, <1>2, <2>1 DEF Events
<1>. QED BY <1>4, <1>5, <1>6

\* No callback that reads its value unchecked is called without one, and the
\* value an option is given is its own.
THEOREM ContractKept == Spec => []CallbackContract
<1>1. Init => CallbackContract
  BY DEF Init, CallbackContract, Events
<1>. QED BY <1>1, TypeCorrect, FlagStateInvariant, ContractNext, PTL DEF Spec

-----------------------------------------------------------------------------
(***************************************************************************)
(* A parse implements CommandLine, the left-to-right use of the tokens of  *)
(* a line.                                                                 *)
(***************************************************************************)

\* What the refinement mapping of ParserProperties makes of the state.
Rest == IF flagAt # 0 THEN flagAt ELSE positional

Phase == CASE action # None    -> "accepted"
           [] error # None     -> "rejected"
           [] pc = "parse"     -> "start"
           [] pc = "arguments" -> "positionals"
           [] OTHER            -> "flags"

\* Of the options before k, those that bear the name of the flag: they could all
\* have a value if they need one, and one that wants the next token has taken it.
Passed(o) == \E j \in DOMAIN options : j < k /\ options[j] = o /\ IsMatch(o)

FlagProgress ==
  /\ numberMatched > 0 => \E o \in Option : Passed(o)
  /\ \A o \in Option : Passed(o) => ~LacksValue(o)
  /\ NextTaken <=> LooksAhead(flagAt) /\ \E o \in Option : Passed(o) /\ o.expects # "NotRequired"

\* Where the indices are, and what the token is that ended the options.
Position ==
  /\ pc = "parse" => flagAt = 0 /\ positional = 0 /\ cmd = Root
  /\ pc \in {"options", "dispatch", "arguments"} =>
       flagAt = 0 /\ positional >= 1 /\ positional <= argc
  /\ pc = "match" => flagAt >= 1 /\ FlagProgress
  /\ pc = "dispatch" /\ positional < argc => Arg(positional) # Null /\ ~IsFlag(positional)

-----------------------------------------------------------------------------
\* The words of CommandLine in those of Parser.
LEMMA Reading ==
  /\ Line!Selected = command
  /\ \A x : Line!Token(x) = Arg(x)
  /\ \A x : Line!IsOperand(x) <=> x < argc /\ ~IsFlag(x)
  /\ \A c : Line!HasCommands(c) <=> HasCommands(c)
  /\ \A c : Line!EndsWithTrailing(c) <=> EndsWithTrailing(c)
  /\ \A c : Line!Bare(c) <=> c.arguments = << >> /\ ~HasCommands(c)
BY DEF Line!Selected, command, Line!Token, Arg, Line!IsOperand, IsFlag, Line!View, View,
       Line!HasCommands, HasCommands, Line!EndsWithTrailing, EndsWithTrailing, Line!IsTrailing,
       IsTrailing, Line!Bare

\* So for the guards of its actions.
LEMMA Guards ==
  /\ Line!Complete <=>
       /\ Rest = argc
       /\ \/ Phase = "start" /\ arguments = << >> /\ ~HasCommands(command)
          \/ /\ Phase = "flags"
             /\ (arguments = << >> /\ ~HasCommands(command)) \/ EndsWithTrailing(command)
          \/ Phase = "positionals"
  /\ Line!NamesCommand <=>
       /\ Phase = "flags" /\ Rest < argc /\ ~IsFlag(Rest)
       /\ Arg(Rest) \in Text /\ commands[Arg(Rest)] # None
  /\ Line!FitsArguments <=>
       /\ Phase = "flags" /\ Rest < argc /\ ~IsFlag(Rest) /\ Arg(Rest) # Null
       /\ ~HasCommands(command) /\ arguments # << >>
       /\ EndsWithTrailing(command) \/ argc - Rest = Len(arguments)
<1>1. Line!Complete <=>
        /\ Rest = argc
        /\ \/ Phase = "start" /\ Line!Bare(Line!Selected)
           \/ /\ Phase = "flags"
              /\ Line!Bare(Line!Selected) \/ Line!EndsWithTrailing(Line!Selected)
           \/ Phase = "positionals"
  BY DEF Line!Complete, Rest, Phase
<1>2. Line!NamesCommand <=>
        /\ Phase = "flags" /\ Line!IsOperand(Rest)
        /\ Line!Token(Rest) \in Text /\ Line!Selected.commands[Line!Token(Rest)] # None
  BY DEF Line!NamesCommand, Rest, Phase
<1>3. Line!FitsArguments <=>
        /\ Phase = "flags" /\ Line!IsOperand(Rest) /\ Line!Token(Rest) # Null
        /\ ~Line!HasCommands(Line!Selected) /\ Line!Selected.arguments # << >>
        /\ Line!EndsWithTrailing(Line!Selected) \/ argc - Rest = Len(Line!Selected.arguments)
  BY DEF Line!FitsArguments, Rest, Phase
<1>. QED BY <1>1, <1>2, <1>3, Reading DEF arguments, commands

\* The mapped index is a number.
LEMMA RestType == TypeOK => Rest \in Nat /\ argc \in Int
BY DEF Rest, TypeOK

\* The phase while the parse goes on.
LEMMA OpenPhase ==
  ASSUME action = None, error = None
  PROVE  /\ Phase = IF pc = "parse" THEN "start" ELSE IF pc = "arguments" THEN "positionals" ELSE "flags"
         /\ Phase \in {"start", "flags", "positionals"}
BY DEF Phase

\* A step that moves neither the mapped index nor the phase is a stutter.
LEMMA Stutters ==
  ASSUME UNCHANGED <<input, cmd>>, Rest' = Rest, Phase' = Phase
  PROVE  UNCHANGED Line!vars
BY DEF Line!vars, Line!line, input, Rest, Phase

\* A line may be refused when it neither is complete nor can go on.
LEMMA Rejects ==
  ASSUME action = None, error = None, NEW e \in Errors, Fail(e),
         UNCHANGED <<input, cmd>>, Rest' = Rest, pc = "parse" => argc <= 0,
         ~Line!Complete, ~Line!NamesCommand, ~Line!FitsArguments
  PROVE  Line!Reject
<1>1. Phase \in {"start", "flags", "positionals"} /\ (Phase = "start" => pc = "parse")
  BY OpenPhase
<1>2. Phase' = "rejected"
  BY NoneIsNoError DEF Fail, Phase
<1>. QED BY <1>1, <1>2 DEF Line!Reject, Line!Open, Line!line, input, Phase, Rest

\* A complete line may be accepted.
LEMMA Accepts ==
  ASSUME TypeOK, error = None, Return(cmd), UNCHANGED <<input, cmd>>, Rest' = Rest, Line!Complete
  PROVE  Line!Accept
<1>1. Phase' = "accepted"
  BY NoneIsNoError DEF Return, Phase, TypeOK
<1>. QED BY <1>1 DEF Line!Accept, Line!line, input, Phase, Rest

-----------------------------------------------------------------------------
(***************************************************************************)
(* The position                                                            *)
(***************************************************************************)

\* What Passed depends on.
LEMMA PassedDepends ==
  ASSUME UNCHANGED <<input, cmd, argName, k>>, NEW o
  PROVE  Passed(o)' <=> Passed(o)
BY DEF Passed, IsMatch, options, command, input

\* The option at k joins those passed if it bears the name.
LEMMA PassedNext ==
  ASSUME TypeOK, pc = "match", k <= Len(options), k' = k + 1, UNCHANGED <<input, cmd, argName>>,
         NEW o
  PROVE  Passed(o)' <=> Passed(o) \/ (o = options[k] /\ IsMatch(o))
<1>1. options' = options /\ options \in Seq(Option) /\ k \in Nat \ {0}
  BY CommandsTyped DEF TypeOK, options, command, input
<1>2. DOMAIN options = 1..Len(options) /\ k \in DOMAIN options
  BY <1>1
<1>3. \A j \in DOMAIN options : j < k + 1 <=> j < k \/ j = k
  BY <1>1, <1>2
<1>. QED BY <1>1, <1>2, <1>3 DEF Passed, IsMatch

\* Calling an option keeps account of it.
LEMMA ProgressCalled ==
  ASSUME TypeOK, FlagState, Position, CallOption
  PROVE  FlagProgress'
<1> DEFINE o == options[k]
<1>1. /\ pc = "match" /\ k <= Len(options) /\ k' = k + 1 /\ IsMatch(o) /\ ~LacksValue(o)
      /\ UNCHANGED <<input, cmd, flagAt, argName, argValue>>
      /\ consumeValue' = (consumeValue /\ ~Consumes(o))
  BY DEF CallOption, ConsumeFor
<1>2. o \in Option
  BY <1>1, CommandsTyped DEF options, command, TypeOK
<1>3. \A p : Passed(p)' <=> Passed(p) \/ p = o
  BY <1>1, PassedNext
<1>4. LooksAhead(flagAt)' <=> LooksAhead(flagAt)
  BY <1>1 DEF LooksAhead, IsFlag, Arg, input
<1>5. NextTaken' <=> NextTaken \/ (LooksAhead(flagAt) /\ o.expects # "NotRequired")
  BY <1>1, <1>4 DEF NextTaken, Consumes, TypeOK
<1>6. \A p \in Option : Passed(p)' => ~LacksValue(p)'
  BY <1>1, <1>3 DEF Position, FlagProgress, LacksValue
<1>7. NextTaken' <=> LooksAhead(flagAt)' /\ \E p \in Option : Passed(p)' /\ p.expects # "NotRequired"
  BY <1>1, <1>2, <1>3, <1>4, <1>5 DEF Position, FlagProgress
<1>. QED BY <1>2, <1>3, <1>6, <1>7 DEF FlagProgress

\* Each step keeps the position.
LEMMA PositionNext ==
  ASSUME TypeOK, IndicesAgree, FlagState, ArgumentsFitTokens, Position, [Next]_vars
  PROVE  Position'
<1>1. CASE pc' = "done"
  BY <1>1 DEF Position
<1>2. CASE ParseArgs
  BY <1>2 DEF ParseArgs, EnterCommand, Position, TypeOK, input, flag
<1>3. CASE NoMoreFlags
  BY <1>3 DEF NoMoreFlags, Position, IndicesAgree, Arg, IsFlag, input, flag
<1>4. CASE BeginFlag
  <2>1. k' = 1 /\ numberMatched' = 0 /\ ~NextTaken' /\ pc' = "match" /\ flagAt' >= 1
    BY <1>4 DEF BeginFlag, IndicesAgree, Position, NextTaken, LooksAhead, IsFlag, Arg, input
  <2>2. options' \in Seq(Option)
    BY <1>4, CommandsTyped DEF BeginFlag, TypeOK, options, command, input
  <2>3. \A o : ~Passed(o)'
    BY <2>1, <2>2 DEF Passed
  <2>. QED BY <2>1, <2>3 DEF Position, FlagProgress
<1>5. CASE SkipOption
  <2>1. /\ pc = "match" /\ k <= Len(options) /\ k' = k + 1 /\ ~IsMatch(options[k]) /\ pc' = "match"
        /\ UNCHANGED <<input, cmd, flagAt, argName, argValue, consumeValue, numberMatched>>
    BY <1>5 DEF SkipOption
  <2>2. \A o : Passed(o)' <=> Passed(o)
    BY <2>1, PassedNext
  <2>. QED
    BY <2>1, <2>2
       DEF Position, FlagProgress, LacksValue, NextTaken, LooksAhead, IsFlag, Arg, input
<1>6. CASE CallOption /\ pc' # "done"
  <2>1. pc = "match" /\ pc' = "match" /\ flagAt' = flagAt
    BY <1>6 DEF CallOption, Proceed, Fail
  <2>. QED BY <1>6, <2>1, ProgressCalled DEF Position
<1>7. CASE EndFlag
  <2>1. /\ pc = "match" /\ pc' = "options" /\ positional' = positional + 1 /\ flagAt' = 0
        /\ argc' = argc
    BY <1>7 DEF EndFlag, input
  <2>2. positional < argc /\ positional \in Nat /\ argc \in Int
    BY <2>1 DEF IndicesAgree, FlagState, NextTaken, LooksAhead, TypeOK
  <2>. QED BY <2>1, <2>2 DEF Position
<1>8. CASE SelectCommand
  BY <1>8 DEF SelectCommand, EnterCommand, Position, TypeOK, input, flag
<1>9. CASE BeginArguments /\ pc' # "done"
  BY <1>9 DEF BeginArguments, Fail, Position, input, flag
<1>10. CASE CallArgument /\ pc' # "done"
  BY <1>10 DEF CallArgument, InArguments, Fail, Position, TypeOK, input, flag
<1>11. CASE UNCHANGED vars
  <2>1. \A o : Passed(o)' <=> Passed(o)
    BY <1>11, PassedDepends DEF vars, flag, input
  <2>. QED
    BY <1>11, <2>1
       DEF vars, flag, input, Position, FlagProgress, LacksValue, NextTaken, LooksAhead, IsFlag, Arg
<1>. QED
  BY <1>1, <1>2, <1>3, <1>4, <1>5, <1>6, <1>7, <1>8, <1>9, <1>10, <1>11
     DEF Next, NegativeArgc, EmptyArgs, NullToken, ValueMissing, UnknownFlag, UnknownCommand,
         UnexpectedArguments, EndOfArgs, NullArgument, EndArguments, Fail, Return

\* The position is an invariant of every parse.
LEMMA PositionInvariant == Spec => []Position
<1>1. Init => Position
  BY DEF Init, Position
<1>. QED
  BY <1>1, TypeCorrect, IndicesAlwaysAgree, FlagStateInvariant, ArgumentsAlwaysFit, PositionNext, PTL
     DEF Spec

-----------------------------------------------------------------------------
(***************************************************************************)
(* The steps                                                               *)
(***************************************************************************)

\* The bearers of the name of a flag whose options have all been seen.
LEMMA AllPassed ==
  ASSUME TypeOK, FlagState, pc = "match", k > Len(options), flagAt >= 1
  PROVE  /\ Line!Bearers(flagAt) \subseteq Option
         /\ \A o \in Option : o \in Line!Bearers(flagAt) <=> Passed(o)
<1>1. options \in Seq(Option) /\ k \in Nat
  BY CommandsTyped DEF TypeOK, options, command
<1>2. \A j \in DOMAIN options : j < k /\ options[j] \in Option
  BY <1>1
<1>3. argName = NameOf[Arg(flagAt)]
  BY DEF FlagState
<1>4. \A o : o \in Line!Bearers(flagAt) <=>
              \E j \in DOMAIN options : options[j] = o /\ argName \in o.names
  BY <1>3, Reading DEF Line!Bearers, options
<1>. QED BY <1>2, <1>4 DEF Passed, IsMatch

\* A flag whose options have all been called is used.
LEMMA FlagUsed ==
  ASSUME TypeOK, IndicesAgree, FlagState, Position, action = None, error = None, EndFlag
  PROVE  Line!UseFlag
<1>1. /\ pc = "match" /\ k > Len(options) /\ numberMatched > 0 /\ flagAt >= 1 /\ flagAt \in Nat
      /\ pc' = "options" /\ positional' = positional + 1 /\ flagAt' = 0
      /\ UNCHANGED <<input, cmd, action, error>>
  BY DEF EndFlag, Position, TypeOK
<1>2. flagAt < argc /\ Arg(flagAt) \in FlagText
  BY <1>1, FlagToken DEF FlagState
<1>3. Rest = flagAt /\ Rest' = positional + 1 /\ Phase = "flags" /\ Phase' = "flags"
  BY <1>1, OpenPhase DEF Rest, Phase
<1>4. Line!Bearers(flagAt) # {}
  BY <1>1, AllPassed DEF Position, FlagProgress
<1>5. LooksAhead(flagAt) <=> InlineOf[Arg(flagAt)] = None /\ Line!IsOperand(flagAt + 1)
  BY Reading DEF LooksAhead
<1>6. \A o \in Line!Bearers(flagAt) : o.expects = "Required" => Line!HasValue(flagAt)
  <2>1. SUFFICES ASSUME NEW o \in Line!Bearers(flagAt), o.expects = "Required"
                 PROVE  InlineOf[Arg(flagAt)] # None \/ Line!IsOperand(flagAt + 1)
    BY Reading DEF Line!HasValue
  <2>2. argValue # None
    BY <1>1, <2>1, AllPassed DEF Position, FlagProgress, LacksValue
  <2>. QED BY <1>1, <1>5, <2>2 DEF FlagState
<1>7. NextTaken <=> Line!TakesOperand(flagAt)
  BY <1>1, <1>5, AllPassed, Reading DEF Position, FlagProgress, Line!TakesOperand
<1>8. Rest' = IF Line!TakesOperand(flagAt) THEN flagAt + 2 ELSE flagAt + 1
  BY <1>1, <1>3, <1>7 DEF IndicesAgree, FlagState
<1>. QED
  BY <1>1, <1>2, <1>3, <1>4, <1>6, <1>8, Reading DEF Line!UseFlag, Line!line, input, Rest, Phase

\* The steps that find nothing to go on with refuse a line that cannot go on.
LEMMA RefusalMaps ==
  ASSUME TypeOK, IndicesAgree, FlagState, Position, action = None, error = None,
         \/ NegativeArgc \/ NullToken \/ ValueMissing \/ UnknownFlag \/ UnknownCommand
         \/ UnexpectedArguments \/ NullArgument
  PROVE  Line!Reject
<1>1. PICK e \in Errors : Fail(e)
  BY DEF NegativeArgc, NullToken, ValueMissing, UnknownFlag, UnknownCommand, UnexpectedArguments,
         NullArgument, Errors
<1>2. UNCHANGED <<input, cmd>> /\ Rest' = Rest
  BY DEF NegativeArgc, NullToken, ValueMissing, UnknownFlag, UnknownCommand, UnexpectedArguments,
         NullArgument, Rest, flag
<1>3. CASE NegativeArgc
  <2>1. Phase = "start" /\ Rest = 0 /\ argc < 0 /\ pc = "parse"
    BY <1>3, OpenPhase DEF NegativeArgc, Position, Rest
  <2>2. ~Line!Complete /\ ~Line!NamesCommand /\ ~Line!FitsArguments
    BY <2>1, Guards DEF TypeOK
  <2>. QED BY <1>1, <1>2, <2>1, <2>2, Rejects DEF TypeOK
<1>4. CASE NullToken
  <2>1. Phase = "flags" /\ Rest < argc /\ Arg(Rest) = Null /\ pc = "options"
    BY <1>4, OpenPhase DEF NullToken, Position, IndicesAgree, Rest
  <2>2. Null \notin Text
    BY TokenAssumption
  <2>3. ~Line!Complete /\ ~Line!NamesCommand /\ ~Line!FitsArguments
    BY <2>1, <2>2, Guards, RestType
  <2>. QED BY <1>1, <1>2, <2>1, <2>3, Rejects
<1>5. CASE ValueMissing \/ UnknownFlag
  <2>1. Phase = "flags" /\ Rest < argc /\ IsFlag(Rest) /\ pc = "match"
    BY <1>5, OpenPhase DEF ValueMissing, UnknownFlag, Position, FlagState, Rest
  <2>2. ~Line!Complete /\ ~Line!NamesCommand /\ ~Line!FitsArguments
    BY <2>1, Guards, RestType
  <2>. QED BY <1>1, <1>2, <2>1, <2>2, Rejects
<1>6. CASE UnknownCommand
  <2>1. /\ Phase = "flags" /\ Rest < argc /\ pc = "dispatch" /\ Arg(Rest) # Null
        /\ HasCommands(command) /\ commands[Arg(Rest)] = None
    BY <1>6, OpenPhase DEF UnknownCommand, Position, Rest, View
  <2>2. ~Line!Complete /\ ~Line!NamesCommand /\ ~Line!FitsArguments
    BY <2>1, Guards, RestType
  <2>. QED BY <1>1, <1>2, <2>1, <2>2, Rejects
<1>7. CASE UnexpectedArguments
  <2>1. /\ Phase = "flags" /\ Rest < argc /\ pc = "dispatch"
        /\ ~HasCommands(command) /\ command.arguments = << >>
    BY <1>7, OpenPhase DEF UnexpectedArguments, Position, Rest, arguments
  <2>2. ~Line!Complete /\ ~Line!NamesCommand /\ ~Line!FitsArguments
    BY <2>1, Guards, RestType DEF HasCommands, commands, arguments
  <2>. QED BY <1>1, <1>2, <2>1, <2>2, Rejects
<1>8. CASE NullArgument
  <2>1. Phase = "positionals" /\ Rest < argc /\ pc = "arguments"
    BY <1>8, OpenPhase DEF NullArgument, InArguments, Position, Rest
  <2>2. ~Line!Complete /\ ~Line!NamesCommand /\ ~Line!FitsArguments
    BY <2>1, Guards, RestType
  <2>. QED BY <1>1, <1>2, <2>1, <2>2, Rejects
<1>. QED BY <1>3, <1>4, <1>5, <1>6, <1>7, <1>8

\* The steps that end the loops accept a complete line and refuse another.
LEMMA EndMaps ==
  ASSUME TypeOK, Position, ArgumentsFitTokens, action = None, error = None,
         EmptyArgs \/ EndOfArgs \/ EndArguments
  PROVE  Line!Accept \/ Line!Reject
<1>1. UNCHANGED <<input, cmd>> /\ Rest' = Rest
  BY DEF EmptyArgs, EndOfArgs, EndArguments, Rest, flag
<1>2. Return(cmd) \/ Fail("InvalidNumberOfArgs")
  BY DEF EmptyArgs, EndOfArgs, EndArguments
<1>3. Return(cmd) => action' # None
  BY NoneIsNoError DEF Return, TypeOK
<1>4. Fail("InvalidNumberOfArgs") => action' = None /\ "InvalidNumberOfArgs" \in Errors
  BY DEF Fail, Errors
<1>5. CASE EmptyArgs
  <2>1. Phase = "start" /\ Rest = 0 /\ argc = 0 /\ pc = "parse"
    BY <1>5, OpenPhase DEF EmptyArgs, Position, Rest
  <2>2. (Return(cmd) <=> Line!Complete) /\ ~Line!NamesCommand /\ ~Line!FitsArguments
    BY <1>2, <1>3, <1>4, <1>5, <2>1, Guards DEF EmptyArgs
  <2>. QED BY <1>1, <1>2, <1>4, <2>1, <2>2, Accepts, Rejects
<1>6. CASE EndOfArgs
  <2>1. Phase = "flags" /\ Rest = argc /\ ~(Rest < argc) /\ pc = "dispatch"
    BY <1>6, OpenPhase DEF EndOfArgs, Position, Rest, TypeOK
  <2>2. (Return(cmd) <=> Line!Complete) /\ ~Line!NamesCommand /\ ~Line!FitsArguments
    BY <1>2, <1>3, <1>4, <1>6, <2>1, Guards DEF EndOfArgs, NeedsNoMore
  <2>. QED BY <1>1, <1>2, <1>4, <2>1, <2>2, Accepts, Rejects
<1>7. CASE EndArguments
  <2>1. Phase = "positionals" /\ Rest = positional /\ pc = "arguments"
    BY <1>7, OpenPhase DEF EndArguments, Position, Rest
  <2>2. (Return(cmd) <=> Line!Complete) /\ ~Line!NamesCommand /\ ~Line!FitsArguments
    BY <1>2, <1>3, <1>4, <1>7, <2>1, Guards DEF EndArguments
  <2>. QED BY <1>1, <1>2, <1>4, <2>1, <2>2, Accepts, Rejects
<1>. QED BY <1>5, <1>6, <1>7

\* A callback uses its flag or its argument, or refuses it.
LEMMA CallMaps ==
  ASSUME TypeOK, FlagState, Position, StopsAtFirstFailure, CallOption \/ CallArgument
  PROVE  Line!UseArgument \/ Line!Reject \/ UNCHANGED Line!vars
<1>1. action = None /\ error = None
  BY RunningMeansNoFailure DEF CallOption, CallArgument
<1>2. UNCHANGED <<input, cmd>>
  BY DEF CallOption, CallArgument
<1>3. CASE CallOption
  <2>1. Phase = "flags" /\ Rest < argc /\ IsFlag(Rest) /\ Rest' = Rest /\ pc = "match"
    BY <1>1, <1>3, OpenPhase DEF CallOption, Position, FlagState, Rest
  <2>2. (\E e \in Errors : Fail(e)) \/ UNCHANGED <<pc, action, error>>
    <3>1. options[k] \in Option
      BY <1>3, CommandsTyped DEF CallOption, options, command, TypeOK
    <3>2. /\ ValueFor(options[k]) \in Text \cup {Null, None}
          /\ options[k].expects = "Required" => ValueFor(options[k]) # None
      BY <1>3 DEF CallOption, LacksValue, ValueFor, TypeOK
    <3>3. OptionOutcomes(options[k].kind, ValueFor(options[k])) \subseteq Outcome
      BY <3>1, <3>2, OptionOutcomesType
    <3>. QED BY <1>3, <3>3 DEF CallOption, Proceed, Outcome
  <2>3. ~Line!Complete /\ ~Line!NamesCommand /\ ~Line!FitsArguments
    BY <2>1, Guards, RestType
  <2>4. UNCHANGED <<pc, action, error>> => Phase' = Phase
    BY DEF Phase
  <2>. QED BY <1>1, <1>2, <2>1, <2>2, <2>3, <2>4, Rejects, Stutters
<1>4. CASE CallArgument
  <2>1. /\ Phase = "positionals" /\ Rest = positional /\ Rest < argc /\ pc = "arguments"
        /\ flagAt' = 0 /\ flagAt = 0 /\ Arg(positional) # Null
    BY <1>1, <1>4, OpenPhase DEF CallArgument, InArguments, Position, Rest, flag
  <2>2. \/ \E e \in Errors : Fail(e) /\ UNCHANGED positional
        \/ UNCHANGED <<pc, action, error>> /\ positional' = positional + 1
    <3>1. arguments[a] \in Argument /\ Arg(positional) \in Text
      BY <1>4, CommandsTyped, TokenType
         DEF CallArgument, InArguments, arguments, command, TypeOK
    <3>2. ArgumentOutcomes(arguments[a].kind, Arg(positional)) \subseteq Outcome
      BY <3>1, ArgumentOutcomesType
    <3>. QED BY <1>4, <3>2 DEF CallArgument, Outcome
  <2>3. CASE UNCHANGED <<pc, action, error>> /\ positional' = positional + 1
    <3>1. Rest' = Rest + 1 /\ Phase' = Phase
      BY <2>1, <2>3 DEF Rest, Phase
    <3>. QED BY <1>2, <2>1, <3>1, Reading DEF Line!UseArgument, Line!line, input, Rest, Phase
  <2>4. CASE \E e \in Errors : Fail(e) /\ UNCHANGED positional
    <3>1. ~Line!Complete /\ ~Line!NamesCommand /\ ~Line!FitsArguments
      BY <2>1, Guards, RestType
    <3>2. Rest' = Rest
      BY <2>1, <2>4 DEF Rest
    <3>. QED BY <1>1, <1>2, <2>1, <2>4, <3>1, <3>2, Rejects
  <2>. QED BY <2>2, <2>3, <2>4
<1>. QED BY <1>3, <1>4

\* The steps that select a command or begin the arguments are those of the line.
LEMMA UnitMaps ==
  ASSUME TypeOK, Position, StopsAtFirstFailure, ParseArgs \/ SelectCommand \/ BeginArguments
  PROVE  Line!UseProgramName \/ Line!UseCommand \/ Line!BeginPositionals \/ Line!Reject
<1>1. action = None /\ error = None
  BY RunningMeansNoFailure DEF ParseArgs, SelectCommand, BeginArguments
<1>2. CASE ParseArgs
  <2>1. /\ Phase = "start" /\ Rest = 0 /\ 0 < argc /\ UNCHANGED <<input, cmd>>
        /\ pc' = "options" /\ positional' = 1 /\ flagAt' = 0 /\ UNCHANGED <<action, error>>
    BY <1>1, <1>2, OpenPhase DEF ParseArgs, EnterCommand, Position, Rest, flag
  <2>2. Rest' = Rest + 1 /\ Phase' = "flags"
    BY <1>1, <2>1 DEF Rest, Phase
  <2>. QED BY <2>1, <2>2 DEF Line!UseProgramName, Line!line, input, Rest, Phase
<1>3. CASE SelectCommand
  <2>1. /\ Phase = "flags" /\ Rest = positional /\ Rest < argc /\ ~IsFlag(Rest) /\ Arg(Rest) # Null
        /\ UNCHANGED <<input, action, error>> /\ pc' = "options"
        /\ cmd' = commands[View(Arg(Rest))] /\ cmd' # None
        /\ positional' = positional + 1 /\ flagAt' = 0
    BY <1>1, <1>3, OpenPhase DEF SelectCommand, EnterCommand, Position, Rest, flag
  <2>2. Arg(Rest) \in Text /\ View(Arg(Rest)) = Arg(Rest)
    BY <2>1, TokenType DEF TypeOK, View
  <2>3. Rest' = Rest + 1 /\ Phase' = Phase
    BY <1>1, <2>1 DEF Rest, Phase
  <2>4. Line!NamesCommand /\ cmd' = Line!Selected.commands[Line!Token(Rest)]
    BY <2>1, <2>2, Guards, Reading DEF commands
  <2>. QED BY <2>1, <2>3, <2>4 DEF Line!UseCommand, Line!line, input, Rest, Phase
<1>4. CASE BeginArguments
  <2>1. /\ Phase = "flags" /\ Rest = positional /\ Rest < argc /\ ~IsFlag(Rest) /\ Arg(Rest) # Null
        /\ ~HasCommands(command) /\ arguments # << >> /\ pc = "dispatch"
        /\ UNCHANGED <<input, cmd, positional, flagAt>> /\ Rest' = Rest
    BY <1>1, <1>4, OpenPhase DEF BeginArguments, Position, Rest, flag
  <2>2. CASE WrongNumber
    <3>1. Fail("InvalidNumberOfArgs") /\ "InvalidNumberOfArgs" \in Errors
      BY <1>4, <2>2 DEF BeginArguments, Errors
    <3>2. ~Line!Complete /\ ~Line!NamesCommand /\ ~Line!FitsArguments
      BY <2>1, <2>2, Guards DEF WrongNumber, HasCommands, commands
    <3>. QED BY <1>1, <2>1, <3>1, <3>2, Rejects
  <2>3. CASE ~WrongNumber
    <3>1. pc' = "arguments" /\ UNCHANGED <<action, error>>
      BY <1>4, <2>3 DEF BeginArguments
    <3>2. Phase' = "positionals"
      BY <1>1, <3>1 DEF Phase
    <3>3. Line!FitsArguments
      BY <2>1, <2>3, Guards DEF WrongNumber
    <3>. QED BY <2>1, <3>2, <3>3 DEF Line!BeginPositionals, Line!line, input, Rest, Phase
  <2>. QED BY <2>2, <2>3
<1>. QED BY <1>2, <1>3, <1>4

\* The steps within a flag leave the line as it is.
LEMMA ScanMaps ==
  ASSUME TypeOK, IndicesAgree, Position, NoMoreFlags \/ BeginFlag \/ SkipOption \/ UNCHANGED vars
  PROVE  UNCHANGED Line!vars
<1>1. UNCHANGED <<input, cmd, action, error, positional>>
  BY DEF NoMoreFlags, BeginFlag, SkipOption, vars
<1>2. Rest' = Rest
  BY DEF NoMoreFlags, BeginFlag, SkipOption, vars, flag, Rest, Position, IndicesAgree
<1>3. Phase' = Phase
  BY <1>1 DEF NoMoreFlags, BeginFlag, SkipOption, vars, Phase
<1>. QED BY <1>1, <1>2, <1>3, Stutters

\* Each step of a parse is a step of the line, or none.
LEMMA StepMaps ==
  ASSUME TypeOK, IndicesAgree, FlagState, ArgumentsFitTokens, StopsAtFirstFailure, Position,
         [Next]_vars
  PROVE  [Line!Next]_(Line!vars)
<1>1. CASE NegativeArgc \/ NullToken \/ ValueMissing \/ UnknownFlag \/ UnknownCommand
           \/ UnexpectedArguments \/ NullArgument
  <2>1. pc # "done"
    BY <1>1 DEF NegativeArgc, NullToken, ValueMissing, UnknownFlag, UnknownCommand,
                UnexpectedArguments, NullArgument
  <2>. QED BY <1>1, <2>1, RunningMeansNoFailure, RefusalMaps DEF Line!Next
<1>2. CASE EmptyArgs \/ EndOfArgs \/ EndArguments
  <2>1. pc # "done"
    BY <1>2 DEF EmptyArgs, EndOfArgs, EndArguments
  <2>. QED BY <1>2, <2>1, RunningMeansNoFailure, EndMaps DEF Line!Next
<1>3. CASE EndFlag
  <2>1. pc # "done"
    BY <1>3 DEF EndFlag
  <2>. QED BY <1>3, <2>1, RunningMeansNoFailure, FlagUsed DEF Line!Next
<1>4. CASE CallOption \/ CallArgument
  BY <1>4, CallMaps DEF Line!Next
<1>5. CASE ParseArgs \/ SelectCommand \/ BeginArguments
  BY <1>5, UnitMaps DEF Line!Next
<1>6. CASE NoMoreFlags \/ BeginFlag \/ SkipOption \/ UNCHANGED vars
  BY <1>6, ScanMaps
<1>. QED BY <1>1, <1>2, <1>3, <1>4, <1>5, <1>6 DEF Next

\* Whatever the parser and the line, parse uses the tokens from left to right as
\* CommandLine describes: the look-ahead, the two indices of parseOptions, the
\* loop over the options and the tail call of parseCommand add nothing to that.
THEOREM ParseIsLine == Spec => ImplementsCommandLine
<1>1. Init => Line!Init
  BY ParserAssumption DEF Init, Line!Init, Rest, Phase
<1>. QED
  BY <1>1, TypeCorrect, IndicesAlwaysAgree, FlagStateInvariant, ArgumentsAlwaysFit, FirstFailureStops,
     PositionInvariant, StepMaps, PTL DEF Spec, Line!Spec, ImplementsCommandLine

-----------------------------------------------------------------------------
(***************************************************************************)
(* Progress                                                                *)
(***************************************************************************)

\* The range-for of parseOptions is at an option or at its end.
OptionInRange == pc = "match" => k <= Len(options) + 1

\* There is a number of options.
LEMMA OptionsCounted == TypeOK => Len(options) \in Nat
BY CommandsTyped DEF options, command, TypeOK

\* It stays there.
LEMMA OptionInRangeNext ==
  ASSUME TypeOK, OptionInRange, [Next]_vars
  PROVE  OptionInRange'
<1>1. Len(options) \in Nat /\ k \in Nat
  BY OptionsCounted DEF TypeOK
<1>2. CASE BeginFlag
  <2>1. k' = 1 /\ options' = options
    BY <1>2 DEF BeginFlag, options, command, input
  <2>. QED BY <1>1, <2>1 DEF OptionInRange
<1>3. CASE SkipOption \/ CallOption
  <2>1. k <= Len(options) /\ k' = k + 1 /\ options' = options
    BY <1>3 DEF SkipOption, CallOption, options, command, input
  <2>. QED BY <1>1, <2>1 DEF OptionInRange
<1>4. CASE UNCHANGED vars
  BY <1>4 DEF vars, flag, input, OptionInRange, options, command
<1>5. CASE Next /\ ~BeginFlag /\ ~SkipOption /\ ~CallOption
  <2>1. pc' # "match"
    BY <1>5
       DEF Next, NegativeArgc, EmptyArgs, ParseArgs, NullToken, NoMoreFlags, ValueMissing, EndFlag,
           UnknownFlag, SelectCommand, UnknownCommand, BeginArguments, UnexpectedArguments,
           EndOfArgs, NullArgument, CallArgument, EndArguments, EnterCommand, Fail, Return
  <2>. QED BY <2>1 DEF OptionInRange
<1>. QED BY <1>2, <1>3, <1>4, <1>5

\* So it is always there.
LEMMA OptionInRangeInvariant == Spec => []OptionInRange
<1>1. Init => OptionInRange
  BY DEF Init, OptionInRange
<1>. QED BY <1>1, TypeCorrect, OptionInRangeNext, PTL DEF Spec

\* What is left is a number.
LEMMA LeftIsNat ==
  ASSUME TypeOK, FlagState, Position, OptionInRange
  PROVE  /\ TokensLeft \in Nat /\ LoopsLeft \in 0..5 /\ OptionsLeft \in Nat
         /\ pc # "done" => LoopsLeft > 0
         /\ pc = "match" => TokensLeft = argc - flagAt /\ TokensLeft > 0
         /\ pc \in {"options", "dispatch", "arguments"} => TokensLeft = argc - positional
         /\ pc = "done" => TokensLeft = 0
<1>1. argc \in Int /\ flagAt \in Nat /\ positional \in Nat /\ k \in Nat
  BY DEF TypeOK
<1>2. Len(options) \in Nat
  BY OptionsCounted
<1>3. pc \in {"parse", "options", "match", "dispatch", "arguments", "done"}
  BY DEF TypeOK
<1>4. OptionsLeft \in Nat
  BY <1>1, <1>2 DEF OptionsLeft, OptionInRange
<1>5. LoopsLeft \in 0..5 /\ (pc # "done" => LoopsLeft > 0)
  BY <1>3 DEF LoopsLeft
<1>6. CASE pc = "match"
  <2>1. flagAt >= 1 /\ flagAt < argc
    BY <1>6 DEF FlagState, Position
  <2>. QED BY <1>1, <1>4, <1>5, <1>6, <2>1 DEF TokensLeft
<1>7. CASE pc \in {"options", "dispatch", "arguments"}
  <2>1. flagAt = 0 /\ positional <= argc
    BY <1>7 DEF Position
  <2>. QED BY <1>1, <1>4, <1>5, <1>7, <2>1 DEF TokensLeft
<1>8. CASE pc = "parse"
  <2>1. flagAt = 0 /\ positional = 0
    BY <1>8 DEF Position
  <2>. QED BY <1>1, <1>4, <1>5, <1>8, <2>1 DEF TokensLeft
<1>9. CASE pc = "done"
  BY <1>4, <1>5, <1>9 DEF TokensLeft
<1>. QED BY <1>3, <1>6, <1>7, <1>8, <1>9

\* A step is nearer to the end.
Nearer ==
  \/ TokensLeft' < TokensLeft
  \/ TokensLeft' = TokensLeft /\ LoopsLeft' < LoopsLeft
  \/ /\ TokensLeft' = TokensLeft /\ LoopsLeft' = LoopsLeft
     /\ OptionsLeft' < OptionsLeft

\* Each step is.
LEMMA StepNearer ==
  ASSUME TypeOK, IndicesAgree, FlagState, Position, OptionInRange,
         TypeOK', FlagState', Position', OptionInRange', Next
  PROVE  Nearer
<1>1. /\ argc \in Int /\ flagAt \in Nat /\ positional \in Nat /\ k \in Nat /\ argc' = argc
      /\ TokensLeft \in Nat
  <2>1. argc' = argc
    BY DEF Next, NegativeArgc, EmptyArgs, ParseArgs, NullToken, NoMoreFlags, BeginFlag, SkipOption,
           ValueMissing, CallOption, EndFlag, UnknownFlag, SelectCommand, UnknownCommand,
           BeginArguments, UnexpectedArguments, EndOfArgs, NullArgument, CallArgument, EndArguments,
           EnterCommand, input
  <2>. QED BY <2>1, LeftIsNat DEF TypeOK
<1>2. CASE pc' = "done"
  <2>1. pc # "done"
    BY DEF Next, NegativeArgc, EmptyArgs, ParseArgs, NullToken, NoMoreFlags, BeginFlag, SkipOption,
           ValueMissing, CallOption, EndFlag, UnknownFlag, SelectCommand, UnknownCommand,
           BeginArguments, UnexpectedArguments, EndOfArgs, NullArgument, CallArgument, EndArguments
  <2>2. TokensLeft' = 0 /\ LoopsLeft' = 0
    BY <1>2 DEF TokensLeft, LoopsLeft
  <2>3. LoopsLeft > 0
    BY <2>1, LeftIsNat
  <2>. QED BY <1>1, <2>2, <2>3 DEF Nearer
<1>3. CASE ParseArgs
  <2>1. pc' = "options" /\ positional' = 1 /\ flagAt' = flagAt /\ pc = "parse" /\ argc > 0
    BY <1>3 DEF ParseArgs, EnterCommand, flag
  <2>2. flagAt = 0 /\ positional = 0
    BY <2>1 DEF Position
  <2>. QED BY <1>1, <2>1, <2>2 DEF TokensLeft, Nearer
<1>4. CASE NoMoreFlags
  <2>1. pc = "options" /\ pc' = "dispatch" /\ UNCHANGED <<flagAt, positional>>
    BY <1>4 DEF NoMoreFlags, flag
  <2>. QED BY <1>1, <2>1 DEF TokensLeft, LoopsLeft, Nearer
<1>5. CASE BeginFlag
  <2>1. pc = "options" /\ pc' = "match" /\ flagAt' = i /\ i = positional
    BY <1>5 DEF BeginFlag, IndicesAgree
  <2>2. flagAt = 0 /\ positional >= 1
    BY <2>1 DEF Position
  <2>. QED BY <1>1, <2>1, <2>2 DEF TokensLeft, LoopsLeft, Nearer
<1>6. CASE (SkipOption \/ CallOption) /\ pc' # "done"
  <2>1. pc = "match" /\ pc' = "match" /\ flagAt' = flagAt /\ k' = k + 1 /\ options' = options
    BY <1>6 DEF SkipOption, CallOption, Proceed, Fail, options, command, input
  <2>2. flagAt >= 1
    BY <2>1 DEF Position
  <2>3. TokensLeft' = TokensLeft /\ LoopsLeft' = LoopsLeft
    BY <1>1, <2>1, <2>2 DEF TokensLeft, LoopsLeft
  <2>4. Len(options) \in Nat
    BY OptionsCounted
  <2>. QED BY <1>1, <2>1, <2>3, <2>4 DEF OptionsLeft, Nearer
<1>7. CASE EndFlag
  <2>1. pc = "match" /\ pc' = "options" /\ flagAt' = 0 /\ positional' = positional + 1
    BY <1>7 DEF EndFlag
  <2>2. flagAt >= 1 /\ flagAt < argc /\ positional >= flagAt
    BY <1>1, <2>1 DEF Position, FlagState, IndicesAgree
  <2>. QED BY <1>1, <2>1, <2>2 DEF TokensLeft, Nearer
<1>8. CASE SelectCommand
  <2>1. /\ pc = "dispatch" /\ positional < argc /\ pc' = "options"
        /\ positional' = positional + 1 /\ flagAt' = flagAt
    BY <1>8 DEF SelectCommand, EnterCommand, flag
  <2>2. flagAt = 0
    BY <2>1 DEF Position
  <2>. QED BY <1>1, <2>1, <2>2 DEF TokensLeft, Nearer
<1>9. CASE BeginArguments /\ pc' # "done"
  <2>1. pc = "dispatch" /\ pc' = "arguments" /\ UNCHANGED <<flagAt, positional>>
    BY <1>9 DEF BeginArguments, Fail, flag
  <2>. QED BY <1>1, <2>1 DEF TokensLeft, LoopsLeft, Nearer
<1>10. CASE CallArgument /\ pc' # "done"
  <2>1. /\ pc = "arguments" /\ pc' = pc /\ flagAt' = flagAt /\ positional' = positional + 1
        /\ positional < argc
    BY <1>10 DEF CallArgument, InArguments, Fail, flag
  <2>2. flagAt = 0
    BY <2>1 DEF Position
  <2>. QED BY <1>1, <2>1, <2>2 DEF TokensLeft, Nearer
<1>. QED
  BY <1>2, <1>3, <1>4, <1>5, <1>6, <1>7, <1>8, <1>9, <1>10
     DEF Next, NegativeArgc, EmptyArgs, NullToken, ValueMissing, UnknownFlag, UnknownCommand,
         UnexpectedArguments, EndOfArgs, NullArgument, EndArguments, Fail, Return

\* Whatever parser, line and callbacks, each step of a parse is nearer to its end,
\* in an order in which nothing gets nearer forever.
THEOREM EveryStepAdvances == Spec => ParseAdvances
<1>1. TypeOK /\ FlagState /\ Position /\ OptionInRange => {TokensLeft, LoopsLeft, OptionsLeft} \subseteq Nat
  BY LeftIsNat
<1>2. TypeOK /\ IndicesAgree /\ FlagState /\ Position /\ OptionInRange
        /\ TypeOK' /\ FlagState' /\ Position' /\ OptionInRange' /\ [Next]_vars
        => [{TokensLeft, LoopsLeft, OptionsLeft} \subseteq Nat /\ Nearer]_vars
  BY <1>1, StepNearer
<1>. QED
  BY <1>2, TypeCorrect, IndicesAlwaysAgree, FlagStateInvariant, PositionInvariant,
     OptionInRangeInvariant, PTL DEF Spec, ParseAdvances, Nearer
=============================================================================
