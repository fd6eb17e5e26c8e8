---------------------------- MODULE CommandTree -----------------------------
(***************************************************************************)
(* The data a parse works on: the parser object (include/clime/parser.hpp) *)
(* and the tokens of the command line.                                     *)
(*                                                                         *)
(* Tokens are opaque: what parseOption makes of them is given by NameOf    *)
(* and InlineOf, what the converters make of them by Convert. A parser is  *)
(* its tree of commands, flattened: each command has its options, its      *)
(* arguments and its named sub-commands.                                   *)
(***************************************************************************)
EXTENDS Integers, Sequences

CONSTANTS
  Text,          \* what a StringView can be
  EmptyText,     \* the empty StringView
  FlagText,      \* the texts that start with the option prefix
  NameOf,        \* parseOption(text, prefix, separator).first
  InlineOf,      \* ... and .second: the value of --name=value, or None
  Null,          \* a null pointer in the argument vector
  None,          \* an Optional without a value, the end of a map
  Command,       \* the commands of a parser, Root among them
  Root,          \* Parser::_defaultAction
  Parsers,       \* the parsers to consider
  CommandsOf,    \* the commands of each parser
  ArgVectors,    \* the argument vectors to consider
  Cell,          \* the variables that options and arguments write to
  Datum,         \* what these can hold
  Initial,       \* what they hold before the call
  True,          \* the bool true
  Zero,          \* the float that strtof returns when it converts nothing
  Convert        \* what the converter of each type makes of a text, or None

Converters == {"string", "integer", "float", "bool"}

ArgumentKinds == Converters \cup {"custom"}

OptionKinds == ArgumentKinds \cup {"help", "version"}

\* enum class ArgumentValue
ArgumentValue == {"Optional", "Required", "NotRequired"}

\* What the constructor for each kind of option declares.
ExpectsOf(kind) ==
  CASE kind \in {"string", "integer", "float"} -> {"Required"}
    [] kind \in {"bool", "help"}               -> {"Optional"}
    [] kind = "version"                        -> {"NotRequired"}
    [] kind = "custom"                         -> ArgumentValue

Option ==
  {o \in [names : SUBSET Text, expects : ArgumentValue, kind : OptionKinds, dest : Cell] :
     o.expects \in ExpectsOf(o.kind)}

Argument == [name : STRING, kind : ArgumentKinds, dest : Cell]

CommandType == [options   : Seq(Option),
                arguments : Seq(Argument),
                commands  : [Text -> Command \cup {None}]]

\* enum class ParserError; the libsolace error that printHelp returns, the
\* error of a custom callback, and a read through a null pointer.
Errors == {"NoError", "InvalidNumberOfArgs", "ValueExpected", "UnexpectedValue",
           "InvalidInput", "OptionParsing", "BasicInvalidInput", "Custom", "Crash"}

ASSUME TokenAssumption ==
  /\ FlagText \subseteq Text
  /\ EmptyText \in Text \ FlagText
  /\ Null \notin Text
  /\ None \notin Text \cup {Null}
  /\ NameOf \in [FlagText -> Text]
  /\ InlineOf \in [FlagText -> Text \cup {None}]

ASSUME ConverterAssumption ==
  /\ {Initial, True, Zero} \subseteq Datum
  /\ None \notin Datum
  /\ Convert \in [Converters -> [Text -> Datum \cup {None}]]
  /\ \A text \in Text : Convert["string"][text] # None

ASSUME ParserAssumption ==
  /\ Root \in Command
  /\ None \notin Command \cup Errors
  /\ CommandsOf \in [Parsers -> [Command -> CommandType]]
  /\ ArgVectors \subseteq Seq(Text \cup {Null})

-----------------------------------------------------------------------------
\* StringView{pointer}: libsolace makes the empty view of a null pointer.
View(token) == IF token = Null THEN EmptyText ELSE token

\* !commands().empty()
HasCommands(c) == \E name \in Text : c.commands[name] # None

\* Argument::isTrailing
IsTrailing(arg) == arg.name = "*"

\* !arguments().empty() && arguments().back().isTrailing()
EndsWithTrailing(c) == c.arguments # << >> /\ IsTrailing(c.arguments[Len(c.arguments)])
=============================================================================
