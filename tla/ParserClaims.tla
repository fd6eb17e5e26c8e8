---------------------------- MODULE ParserClaims ----------------------------
(***************************************************************************)
(* What the documentation says of a parse and the code does otherwise.     *)
(* Each claim is quoted from the file it is made in; TLC finds a command   *)
(* line that refutes it.                                                   *)
(***************************************************************************)
EXTENDS ParserProperties

\* "Argument is not expected. It is an error to give an option with an argument
\* value." (parser.hpp:132) A line with --flag=value for an option that expects
\* no argument is accepted, and the value dropped without a word.
UnwantedValueIsAnError ==
  action # None =>
    \A n \in Events :
      trace[n].by = "option" /\ OptionOf(trace[n]).expects = "NotRequired" =>
        InlineOf[Arg(trace[n].at)] = None

\* "In this cases it is sufficient to specify the flag itself with out following
\* value: ./my_tool --force --verbose file.txt" (docs/cli.md:35-37) A boolean
\* option takes any next token that is not a flag, so the line is refused.
BareBooleanFlag ==
  \A n \in Events :
    trace[n].by = "option" /\ OptionOf(trace[n]).kind = "bool" /\ TookNext(trace[n]) =>
      Convert["bool"][View(trace[n].value)] # None

\* "This class represent a mandatory argument to be expected by a parser. It is a
\* parsing error if no mandatory arguments is provided." (parser.hpp:211-212) A
\* trailing last argument switches the check off for all those before it.
MandatoryArgumentsGiven ==
  action # None =>
    \A j \in DOMAIN CommandsOf[parser][action].arguments :
      \/ IsTrailing(CommandsOf[parser][action].arguments[j])
      \/ \E n \in Events : trace[n].by = "argument" /\ trace[n].index = j

\* "Odd-error: null string in arguments list" (errorCategory.hpp:33), returned
\* for a null where a flag or an argument may stand; but a null after a flag is
\* taken as the empty value of that flag.
NullIsRejected ==
  action # None => \A t \in 1..argc - 1 : Arg(t) # Null
=============================================================================
