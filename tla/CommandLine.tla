---------------------------- MODULE CommandLine -----------------------------
(***************************************************************************)
(* What Parser::parse promises about a command line, whatever its loops    *)
(* do (docs/cli.md, "the full example of supported syntax"): the tokens    *)
(* are used up from left to right, each exactly once, in units - a flag    *)
(* with its value, the name of a command, a positional argument - and the  *)
(* line is accepted exactly when the units use it up and leave the command *)
(* selected complete. A callback may refuse its unit; nothing else may     *)
(* stop a line that can go on.                                             *)
(***************************************************************************)
EXTENDS CommandTree

VARIABLES
  parser, argc, argv,   \* the input
  current,              \* the command selected so far
  rest,                 \* the index of the first token not yet used
  phase                 \* "start", "flags", "positionals", "accepted", "rejected"

line == <<parser, argc, argv>>
vars == <<line, current, rest, phase>>

Init ==
  /\ parser \in Parsers
  /\ argv \in ArgVectors
  /\ argc = Len(argv) \/ (argv = << >> /\ argc = -1)
  /\ current = Root
  /\ rest = 0
  /\ phase = "start"

Selected == CommandsOf[parser][current]

Token(index) == argv[index + 1]

\* A token that may serve as a value: there is one, and it is not a flag.
IsOperand(index) == index < argc /\ View(Token(index)) \notin FlagText

Bare(c) == c.arguments = << >> /\ ~HasCommands(c)

-----------------------------------------------------------------------------
UseProgramName ==
  /\ phase = "start" /\ rest < argc
  /\ phase' = "flags" /\ rest' = rest + 1
  /\ UNCHANGED <<line, current>>

\* The options of the selected command that bear the name of the flag.
Bearers(index) ==
  {o \in {Selected.options[n] : n \in DOMAIN Selected.options} :
     NameOf[Token(index)] \in o.names}

HasValue(index) == InlineOf[Token(index)] # None \/ IsOperand(index + 1)

\* The flag takes the next token with it: it has no value of its own and some
\* option that bears its name is willing to have one.
TakesOperand(index) ==
  /\ InlineOf[Token(index)] = None /\ IsOperand(index + 1)
  /\ \E o \in Bearers(index) : o.expects # "NotRequired"

UseFlag ==
  /\ phase = "flags" /\ rest < argc /\ Token(rest) \in FlagText
  /\ Bearers(rest) # {}
  /\ \A o \in Bearers(rest) : o.expects = "Required" => HasValue(rest)
  /\ rest' = IF TakesOperand(rest) THEN rest + 2 ELSE rest + 1
  /\ UNCHANGED <<line, current, phase>>

NamesCommand ==
  /\ phase = "flags" /\ IsOperand(rest)
  /\ Token(rest) \in Text
  /\ Selected.commands[Token(rest)] # None

UseCommand ==
  /\ NamesCommand
  /\ current' = Selected.commands[Token(rest)]
  /\ rest' = rest + 1
  /\ UNCHANGED <<line, phase>>

\* As many tokens are left as the command has arguments, or it takes any number.
FitsArguments ==
  /\ phase = "flags" /\ IsOperand(rest) /\ Token(rest) # Null
  /\ ~HasCommands(Selected) /\ Selected.arguments # << >>
  /\ EndsWithTrailing(Selected) \/ argc - rest = Len(Selected.arguments)

BeginPositionals ==
  /\ FitsArguments
  /\ phase' = "positionals"
  /\ UNCHANGED <<line, current, rest>>

UseArgument ==
  /\ phase = "positionals" /\ rest < argc /\ Token(rest) # Null
  /\ rest' = rest + 1
  /\ UNCHANGED <<line, current, phase>>

-----------------------------------------------------------------------------
Complete ==
  /\ rest = argc
  /\ \/ phase = "start" /\ Bare(Selected)
     \/ phase = "flags" /\ (Bare(Selected) \/ EndsWithTrailing(Selected))
     \/ phase = "positionals"

Accept ==
  /\ Complete
  /\ phase' = "accepted"
  /\ UNCHANGED <<line, current, rest>>

Open == phase \in {"start", "flags", "positionals"}

Reject ==
  /\ Open /\ ~Complete /\ ~NamesCommand /\ ~FitsArguments
  /\ phase = "start" => argc <= 0
  /\ phase' = "rejected"
  /\ UNCHANGED <<line, current, rest>>

Next ==
  \/ UseProgramName \/ UseFlag \/ UseCommand \/ BeginPositionals \/ UseArgument
  \/ Accept \/ Reject

Spec == Init /\ [][Next]_vars
=============================================================================
