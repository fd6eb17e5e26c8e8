-------------------------- MODULE ApplicationProofs --------------------------
(***************************************************************************)
(* Proofs about Application: what a program prints, and how it exits,      *)
(* whatever its parser and its command line are.                           *)
(***************************************************************************)
EXTENDS Application, TraceProofs

\* The parse is a part of the program: what holds of every parse holds in it.
LEMMA ParseWithin == AppSpec => Spec
<1>1. AppInit => Init
  BY DEF AppInit
<1>2. [AppNext]_appVars => [Next]_vars
  BY DEF AppNext, ParseStep, NotParsed, Greet, RunAction, appVars
<1>. QED BY <1>1, <1>2, PTL DEF AppSpec, Spec

-----------------------------------------------------------------------------
OutputType == [by   : {"option", "action", "main"},
               what : {"help", "version", "greeting", "user"},
               of   : Command]

\* One output.
LEMMA OutputIs ==
  ASSUME NEW by, NEW what, NEW c
  PROVE  Output(by, what, c) = <<[by |-> by, what |-> what, of |-> c]>>
BY DEF Output

\* What is printed is nothing, or one page of a command that exists, and then the
\* callback has returned NoError.
LEMMA PageOfCommand ==
  ASSUME TypeOK, FlagState, Next, trace' # trace
  PROVE  LET e == trace'[Len(trace')] IN
         \/ Printed(e) = << >>
         \/ /\ \E what \in {"help", "version"}, c \in Command : Printed(e) = Output("option", what, c)
            /\ error' = "NoError" /\ pc' = "done" /\ UNCHANGED action
<1> DEFINE e == trace'[Len(trace')]
<1>1. CASE CallOption
  <2> DEFINE o == options[k]
  <2>1. o \in Option /\ UNCHANGED input
    BY <1>1, CommandsTyped DEF CallOption, options, command, TypeOK
  <2>2. /\ ValueFor(o) \in Text \cup {Null, None}
        /\ o.expects = "Required" => ValueFor(o) # None
    BY <1>1 DEF CallOption, LacksValue, ValueFor, TypeOK
  <2>3. PICK out \in OptionOutcomes(o.kind, ValueFor(o)) :
          /\ trace' = Append(trace, Event("option", k, flagAt, ValueFor(o), out.error))
          /\ Proceed(out.error)
    BY <1>1 DEF CallOption
  <2>4. e = Event("option", k, flagAt, ValueFor(o), out.error)
    BY <2>3 DEF TypeOK
  <2>5. /\ e.by = "option" /\ OptionOf(e) = o /\ e.value = ValueFor(o) /\ e.error = out.error
    BY <2>1, <2>4 DEF OptionOf, Event, options, command, input
  <2>. HIDE DEF e, o
  <2>7. Printed(e) = IF o.kind = "help" /\ out.error = "NoError"
                      THEN Output("option", "help", HelpPage(e.value))
                      ELSE IF o.kind = "version" THEN Output("option", "version", Root) ELSE << >>
    BY <2>5 DEF Printed
  <2>8. "NoError" # None
    BY NoneIsNoError DEF Errors
  <2>9. CASE o.kind = "help" /\ out.error = "NoError"
    <3>1. out = HelpOutcome(e.value)
      BY <2>3, <2>5, <2>9 DEF OptionOutcomes
    <3>2. e.value = None \/ CommandsOf[parser][Root].commands[View(e.value)] # None
      BY <2>9, <3>1 DEF HelpOutcome, Refuse
    <3>3. HelpPage(e.value) \in Command
      <4>1. CASE e.value = None
        BY <4>1, ParserAssumption DEF HelpPage
      <4>2. CASE e.value # None
        <5>1. View(e.value) \in Text
          BY <2>2, <2>5, <4>2, ViewType
        <5>2. CommandsOf[parser][Root].commands \in [Text -> Command \cup {None}]
          BY CommandsTyped, ParserAssumption
        <5>. QED BY <3>2, <4>2, <5>1, <5>2 DEF HelpPage
      <4>. QED BY <4>1, <4>2
    <3>. QED BY <2>3, <2>7, <2>8, <2>9, <3>3 DEF Proceed, Fail, e
  <2>10. CASE o.kind = "version"
    <3>1. out.error = "NoError"
      BY <2>3, <2>10 DEF OptionOutcomes, Refuse
    <3>. QED BY <2>3, <2>7, <2>8, <2>10, <3>1, ParserAssumption DEF Proceed, Fail, e
  <2>11. CASE o.kind # "version" /\ ~(o.kind = "help" /\ out.error = "NoError")
    BY <2>7, <2>11 DEF e
  <2>. QED BY <2>9, <2>10, <2>11
<1>2. CASE SelectCommand \/ CallArgument
  <2>1. PICK event \in EventType : trace' = Append(trace, event) /\ event.by # "option"
    BY <1>2, CommandEvent, ArgumentEvent
  <2>2. e = event
    BY <2>1 DEF TypeOK
  <2>3. Printed(event) = << >>
    BY <2>1 DEF Printed
  <2>. QED BY <2>2, <2>3
<1>3. CASE Quiet
  BY <1>3, QuietStep
<1>. QED BY <1>1, <1>2, <1>3 DEF Quiet

-----------------------------------------------------------------------------
\* Nothing is printed, or one page while parsing, or one line after it.
Printing ==
  \/ stdout = << >>
  \/ /\ \E what \in {"help", "version"}, c \in Command : stdout = Output("option", what, c)
     /\ error = "NoError" /\ action = None
     /\ exit # None /\ main # "package_example" => exit = "success"
  \/ /\ exit = "success" /\ action \in Command
     /\ \/ stdout = Output("main", "greeting", Root)
        \/ \E what \in {"version", "user"} : stdout = Output("action", what, action)

Exit ==
  /\ main \in Mains /\ exit \in {None, "success", "failure"}
  /\ exit # None => pc = "done"

\* What is printed stays within that.
LEMMA PrintingNext ==
  ASSUME TypeOK, FlagState, StopsAtFirstFailure, Printing, Exit, [AppNext]_appVars
  PROVE  Printing' /\ Exit'
<1>0. None \notin {"success", "failure"} /\ "NoError" # None
  BY ActionAssumption, NoneIsNoError DEF Errors
<1>1. CASE ParseStep
  <2>1. pc # "done" /\ Next /\ UNCHANGED <<main, exit>> /\ exit = None
    BY <1>1
       DEF Exit, ParseStep, Next, NegativeArgc, EmptyArgs, ParseArgs, NullToken, NoMoreFlags, BeginFlag,
           SkipOption, ValueMissing, CallOption, EndFlag, UnknownFlag, SelectCommand, UnknownCommand,
           BeginArguments, UnexpectedArguments, EndOfArgs, NullArgument, CallArgument, EndArguments
  <2>2. action = None /\ error = None
    BY <2>1, RunningMeansNoFailure
  <2>3. stdout = << >>
    BY <1>0, <2>2, NoneIsNoError DEF Printing
  <2>4. CASE trace' = trace
    BY <1>1, <2>1, <2>3, <2>4 DEF ParseStep, Printing, Exit
  <2>5. CASE trace' # trace
    <3> DEFINE e == trace'[Len(trace')]
    <3>1. stdout' = stdout \o Printed(e)
      BY <1>1, <2>5 DEF ParseStep
    <3>2. CASE Printed(e) = << >>
      BY <2>1, <2>3, <3>1, <3>2 DEF Printing, Exit
    <3>3. CASE \E what \in {"help", "version"}, c \in Command : Printed(e) = Output("option", what, c)
      <4>1. PICK what \in {"help", "version"}, c \in Command : Printed(e) = Output("option", what, c)
        BY <3>3
      <4>2. stdout' = Output("option", what, c)
        BY <2>3, <3>1, <4>1, OutputIs
      <4>3. error' = "NoError" /\ action' = None
        BY <2>1, <2>2, <2>5, <4>1, OutputIs, PageOfCommand
      <4>4. exit' # None /\ main' # "package_example" => exit' = "success"
        BY <2>1
      <4>. QED BY <2>1, <4>2, <4>3, <4>4 DEF Printing, Exit
    <3>. QED BY <2>1, <2>5, <3>2, <3>3, PageOfCommand
  <2>. QED BY <2>4, <2>5
<1>2. CASE NotParsed
  <2>1. exit = None /\ pc = "done" /\ UNCHANGED <<main, stdout, pc, error, action>> /\ exit' \in {"success", "failure"}
    BY <1>2 DEF NotParsed, vars
  <2>2. error = "NoError" /\ main # "package_example" => exit' = "success"
    BY <1>2 DEF NotParsed, IsFailure
  <2>. QED BY <1>0, <2>1, <2>2 DEF Printing, Exit
<1>3. CASE Greet \/ RunAction
  <2>1. /\ exit = None /\ action # None /\ exit' = "success"
        /\ pc = "done" /\ UNCHANGED <<main, pc, error, action, parser>>
    BY <1>3 DEF Greet, RunAction, vars, input, StopsAtFirstFailure
  <2>2. stdout = << >> /\ action \in Command
    BY <1>0, <2>1 DEF Printing, TypeOK
  <2>3. \/ stdout' = << >> \/ stdout' = Output("main", "greeting", Root)
        \/ \E what \in {"version", "user"} : stdout' = Output("action", what, action)
    <3>1. CASE Greet
      BY <2>2, <3>1, OutputIs DEF Greet
    <3>2. CASE RunAction
      <4>1. stdout' = ActionOutput(action)
        <5>1. ActionOutput(action) = << >> \/
              \E what \in {"version", "user"} : ActionOutput(action) = Output("action", what, action)
          BY <2>2, ActionAssumption DEF ActionOutput, Actions, TypeOK
        <5>. QED BY <2>2, <3>2, <5>1, OutputIs DEF RunAction
      <4>. QED BY <2>2, <4>1, ActionAssumption DEF ActionOutput, Actions, TypeOK
    <3>. QED BY <1>3, <3>1, <3>2
  <2>. QED BY <2>1, <2>2, <2>3 DEF Printing, Exit
<1>4. CASE UNCHANGED appVars
  BY <1>4 DEF appVars, vars, Printing, Exit
<1>. QED BY <1>1, <1>2, <1>3, <1>4 DEF AppNext

\* What is printed is an invariant of the program.
LEMMA PrintingInvariant == AppSpec => [](Printing /\ Exit)
<1>1. AppInit => Printing /\ Exit
  BY DEF AppInit, Printing, Exit
<1>. QED
  BY <1>1, ParseWithin, TypeCorrect, FlagStateInvariant, FirstFailureStops, PrintingNext, PTL DEF AppSpec

-----------------------------------------------------------------------------
\* Whatever the parser, a page is that of a command it has.
THEOREM PagesExist == AppSpec => []AppTypeOK
<1>1. Printing /\ Exit => AppTypeOK
  <2>. SUFFICES ASSUME Printing, Exit PROVE stdout \in Seq(OutputType)
    BY DEF AppTypeOK, OutputType, Exit
  <2>1. ASSUME NEW by \in {"option", "action", "main"}, NEW c \in Command,
               NEW what \in {"help", "version", "greeting", "user"}
        PROVE  Output(by, what, c) \in Seq(OutputType)
    BY DEF Output, OutputType
  <2>2. << >> \in Seq(OutputType)
    OBVIOUS
  <2>3. CASE \E what \in {"help", "version"}, c \in Command : stdout = Output("option", what, c)
    BY <2>1, <2>3
  <2>4. CASE stdout = Output("main", "greeting", Root)
    BY <2>1, <2>4, ParserAssumption
  <2>5. CASE action \in Command /\ \E what \in {"version", "user"} : stdout = Output("action", what, action)
    BY <2>1, <2>5
  <2>. QED BY <2>2, <2>3, <2>4, <2>5 DEF Printing
<1>. QED BY <1>1, PrintingInvariant, PTL

\* However many options ask for a page, and whatever the line has besides, one page
\* is all that is printed, and the examples then succeed.
THEOREM OnePageThenExit == AppSpec => []PageThenExit
<1>1. Printing => PageThenExit
  <2>. SUFFICES ASSUME Printing, NEW n \in DOMAIN stdout, stdout[n].by = "option"
                PROVE  /\ Len(stdout) = 1 /\ action = None
                       /\ exit # None /\ main # "package_example" => exit = "success"
    BY DEF PageThenExit
  <2>1. ASSUME NEW by, NEW what, NEW c, stdout = Output(by, what, c)
        PROVE  Len(stdout) = 1 /\ by = "option"
    BY <2>1 DEF Output
  <2>. QED BY <2>1 DEF Printing
<1>. QED BY <1>1, PrintingInvariant, PTL

\* A program that fails has printed nothing.
THEOREM FailsSilently == AppSpec => []FailureIsSilent
<1>1. Printing => FailureIsSilent
  BY ActionAssumption DEF Printing, FailureIsSilent
<1>. QED BY <1>1, PrintingInvariant, PTL

\* Whatever the tree of commands, the action that runs is that of the command named
\* last, and no callback has failed before it.
THEOREM CommandNamedRuns == AppSpec => []RunsCommandNamed
<1>1. Printing /\ TypeOK /\ StopsAtFirstFailure /\ ScopedToSelectedCommand => RunsCommandNamed
  <2>. SUFFICES ASSUME Printing, TypeOK, StopsAtFirstFailure, ScopedToSelectedCommand,
                       NEW n \in DOMAIN stdout, stdout[n].by = "action"
                PROVE  /\ n = 1 /\ stdout[n].of = ScopeOf(Len(trace) + 1)
                       /\ \A m \in Events : trace[m].error = None
    BY DEF RunsCommandNamed
  <2>1. ASSUME NEW by, NEW what, NEW c, stdout = Output(by, what, c)
        PROVE  n = 1 /\ by = "action" /\ stdout[n].of = c
    BY <2>1 DEF Output
  <2>2. n = 1 /\ action \in Command /\ stdout[n].of = action
    BY <2>1 DEF Printing
  <2>3. action # None
    BY <2>2, NoneIsNoError
  <2>. QED BY <2>2, <2>3 DEF ScopedToSelectedCommand, StopsAtFirstFailure
<1>. QED BY <1>1, PrintingInvariant, ParseWithin, TypeCorrect, FirstFailureStops, ScopeKept, PTL
=============================================================================
