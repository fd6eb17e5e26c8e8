-------------------------- MODULE ParserProperties --------------------------
(***************************************************************************)
(* The correctness of one call of Parser::parse. The properties speak of   *)
(* the trace, which is what an application observes: the callbacks called, *)
(* in order, with the offset and the value each was given.                 *)
(***************************************************************************)
EXTENDS Parser, FiniteSetsExt

EventType == [by      : {"option", "argument", "command"},
              command : Command,
              index   : Nat,
              at      : Nat,
              value   : Text \cup {Null, None},
              error   : Errors \cup {None}]

\* The type invariant. Beyond the types: whatever a step reads exists - no index
\* leaves argv, and no callback stores what a converter did not return.
TypeOK ==
  /\ parser \in Parsers
  /\ argv \in Seq(Text \cup {Null})
  /\ argc = Len(argv) \/ (argv = << >> /\ argc = -1)
  /\ pc \in {"parse", "options", "match", "dispatch", "arguments", "done"}
  /\ cmd \in Command
  /\ i \in Nat /\ positional \in Nat /\ flagAt \in Nat
  /\ argName \in Text
  /\ argValue \in Text \cup {Null, None}
  /\ consumeValue \in BOOLEAN
  /\ numberMatched \in Nat
  /\ k \in Nat \ {0} /\ a \in Nat \ {0}
  /\ cells \in [Cell -> Datum]
  /\ trace \in Seq(EventType)
  /\ action \in Command \cup {None}
  /\ error \in Errors \cup {None}

-----------------------------------------------------------------------------
(***************************************************************************)
(* Reading the trace                                                       *)
(***************************************************************************)
Events == DOMAIN trace

OptionOf(e)   == CommandsOf[parser][e.command].options[e.index]
ArgumentOf(e) == CommandsOf[parser][e.command].arguments[e.index]
TargetOf(e)   == CommandsOf[parser][e.command].commands[View(e.value)]

\* Whether an option was given the token after its flag.
TookNext(e) == e.by = "option" /\ e.value # None /\ InlineOf[Arg(e.at)] = None

\* The last token that an event stands for; e.at is the first.
LastToken(e) == IF TookNext(e) THEN e.at + 1 ELSE e.at

SameFlag(e, f) == e.by = "option" /\ f.by = "option" /\ e.at = f.at

\* The command in scope before the n-th event.
ScopeOf(n) ==
  LET selections == {m \in Events : m < n /\ trace[m].by = "command"}
  IN  IF selections = {} THEN Root ELSE TargetOf(trace[Max(selections)])

-----------------------------------------------------------------------------
(***************************************************************************)
(* Safety                                                                  *)
(***************************************************************************)

\* The two indices of parseOptions that lines 90, 132 and 133 move apart from
\* each other always meet again: the loop reads argv[i], its caller goes on at
\* firstPositionalArgument.
IndicesAgree == pc \in {"options", "match", "dispatch"} => i = positional

\* Once the number of tokens has been compared with the number of arguments
\* (parser.cpp:161-173) the loop over both ends with both used up: the error at
\* its end (parser.cpp:207) is never returned.
ArgumentsFitTokens ==
  pc = "arguments" =>
    /\ positional <= argc /\ a <= Len(arguments) + 1
    /\ IF EndsWithTrailing(command) THEN a <= Len(arguments)
       ELSE argc - positional = Len(arguments) + 1 - a

\* An option is given its own inline value, else the next token if that is no
\* flag, else nothing: never nothing when it requires a value, whose callback
\* reads value.get() unchecked (arguments.cpp:70-180), and never a value when
\* it takes none. (parser.cpp:103-141)
CallbackContract ==
  \A n \in Events : trace[n].by = "option" =>
    LET e == trace[n]
        o == OptionOf(e)
    IN  /\ NameOf[Arg(e.at)] \in o.names
        /\ o.expects = "Required" => e.value # None
        /\ o.expects = "NotRequired" => e.value = None
        /\ e.value # None /\ ~TookNext(e) => e.value = InlineOf[Arg(e.at)]
        /\ TookNext(e) => /\ e.at + 1 < argc
                          /\ e.value = Arg(e.at + 1)
                          /\ View(e.value) \notin FlagText

\* No token is used twice or out of order, even when several options bear the
\* name of one flag and only some of them take its value: what one flag,
\* command name or argument uses lies before what the next one does.
TokensUsedOnce ==
  \A m, n \in Events : m < n =>
    \/ SameFlag(trace[m], trace[n]) /\ trace[m].index < trace[n].index
    \/ LastToken(trace[m]) < trace[n].at

\* An accepted command line has no token that nobody was told of: neither the
\* look-ahead of parseOptions nor a boundary between the three loops skips one.
AcceptedMeansAllUsed ==
  action # None =>
    \A t \in 1..argc - 1 : \E n \in Events : t \in trace[n].at..LastToken(trace[n])

\* In an accepted line a flag has reached every option that bears its name, not
\* only the first of them (the loop of parser.cpp:120 has no break).
EveryBearerCalled ==
  action # None =>
    \A n \in Events : trace[n].by = "option" =>
      LET owner == CommandsOf[parser][trace[n].command] IN
      \A j \in DOMAIN owner.options :
        NameOf[Arg(trace[n].at)] \in owner.options[j].names =>
          \E m \in Events : SameFlag(trace[m], trace[n]) /\ trace[m].index = j

\* Options and arguments are those of the command named last before them, and
\* so is the action returned: the tail call of parseCommand (parser.cpp:234)
\* leaves nothing of the outer command in scope.
ScopedToSelectedCommand ==
  /\ \A n \in Events : trace[n].command = ScopeOf(n)
  /\ action # None => action = ScopeOf(Len(trace) + 1)

\* Positional arguments are filled in the order they are declared, none is
\* passed over, and only a trailing last one is called again. In an accepted line
\* they have been given its last tokens, one each. Without a trailing argument
\* each is filled; with one, the line may end before the mandatory ones are
\* (MandatoryArgumentsGiven), but no token is left over that could fill them.
ArgumentsInOrder ==
  LET calls == {n \in Events : trace[n].by = "argument"} IN
  /\ \A n \in calls :
       trace[n].index = Min({Cardinality({m \in calls : m <= n}),
                             Len(CommandsOf[parser][trace[n].command].arguments)})
  /\ action # None =>
       LET selected == CommandsOf[parser][action] IN
       /\ \A n \in calls : trace[n].at = argc - Cardinality({m \in calls : n <= m})
       /\ EndsWithTrailing(selected) \/ Cardinality(calls) = Len(selected.arguments)

\* The first callback to return an error, NoError of --help and --version
\* included, is the last to be called, and parse returns its error
\* (utils.hpp:40 and 74: "Following options will be ignored").
StopsAtFirstFailure ==
  /\ \A n \in Events : trace[n].error # None => n = Len(trace) /\ error = trace[n].error
  /\ pc = "done" <=> (action # None \/ error # None)
  /\ action = None \/ error = None

\* A variable holds what the last successful callback that writes to it made of
\* its value; a refused value leaves it alone, except that a float argument
\* assigns before it looks for an error (arguments.cpp:261 and 276).
Writes(e, c) ==
  \/ /\ e.by = "option" /\ OptionOf(e).dest = c
     /\ OptionOf(e).kind \in Converters /\ e.error = None
  \/ /\ e.by = "argument" /\ ArgumentOf(e).dest = c
     /\ ArgumentOf(e).kind \in Converters
     /\ e.error = None \/ ArgumentOf(e).kind = "float"

Written(e) ==
  LET kind == IF e.by = "option" THEN OptionOf(e).kind ELSE ArgumentOf(e).kind
  IN  CASE e.error # None -> Zero
        [] e.value = None -> True
        [] OTHER          -> Convert[kind][View(e.value)]

DestinationsHoldLastValue ==
  \A c \in Cell :
    LET writers == {n \in Events : Writes(trace[n], c)}
    IN  cells[c] = IF writers = {} THEN Initial ELSE Written(trace[Max(writers)])

-----------------------------------------------------------------------------
(***************************************************************************)
(* Progress                                                                *)
(***************************************************************************)

\* What a parse has still before it: tokens, loops over the present one, and
\* options to ask whether the flag is theirs.
TokensLeft ==
  IF pc = "done" \/ argc < 0 THEN 0 ELSE argc - (IF flagAt # 0 THEN flagAt ELSE positional)

LoopsLeft ==
  CASE pc = "parse"     -> 5
    [] pc = "options"   -> 4
    [] pc = "match"     -> 3
    [] pc = "dispatch"  -> 2
    [] pc = "arguments" -> 1
    [] pc = "done"      -> 0

OptionsLeft == IF pc = "match" THEN Len(options) + 1 - k ELSE 0

\* Every step brings a parse nearer to its end, so none goes on forever: no round
\* of the three loops (parser.cpp:88, 120, 178) and no sub-command (parser.cpp:234)
\* leaves tokens and options where they were, whatever callbacks return, and the
\* indices that tell how near it is never pass the ends they are compared with.
ParseAdvances ==
  [][/\ {TokensLeft, LoopsLeft, OptionsLeft} \subseteq Nat
     /\ \/ TokensLeft' < TokensLeft
        \/ TokensLeft' = TokensLeft /\ LoopsLeft' < LoopsLeft
        \/ /\ TokensLeft' = TokensLeft /\ LoopsLeft' = LoopsLeft
           /\ OptionsLeft' < OptionsLeft]_vars

-----------------------------------------------------------------------------
(***************************************************************************)
(* Liveness, and what the parser implements                                *)
(***************************************************************************)

\* Every call of parse returns: besides getting nearer to its end it never stops
\* before it.
ParseReturns == <>(pc = "done")

\* The whole parse is the left-to-right use of the tokens of CommandLine. Until
\* a flag is done with, its tokens count as not yet used.
Line == INSTANCE CommandLine WITH
  current <- cmd,
  rest    <- IF flagAt # 0 THEN flagAt ELSE positional,
  phase   <- CASE action # None    -> "accepted"
               [] error # None     -> "rejected"
               [] pc = "parse"     -> "start"
               [] pc = "arguments" -> "positionals"
               [] OTHER            -> "flags"

ImplementsCommandLine == Line!Spec
=============================================================================
