------------------------------ MODULE HelpPage ------------------------------
(***************************************************************************)
(* HelpFormatter (src/helpPrinter.cpp): the page that describes a command, *)
(* one action per option name and per line. Of a line the model keeps what *)
(* it names and how many characters fill it up to the description.         *)
(*                                                                         *)
(* A definition marked "Slip" is a bug for a property to refute.           *)
(***************************************************************************)
EXTENDS OptionSyntax

CONSTANTS
  Page,           \* the commands to describe
  OptionColumn,   \* the width of the names of an option, 26
  CommandColumn   \* the width of the name of a command, 16

Name == Seq(Char)

\* What of a command a page shows: the names of its options, its arguments, its
\* sub-commands in the order of the map.
PageType == [options : Seq(Seq(Name)), arguments : Seq(Name), commands : Seq(Name)]

ASSUME PageAssumption ==
  /\ Page \subseteq PageType
  /\ OptionColumn \in Nat /\ CommandColumn \in Nat \ {0}

VARIABLES
  cmd,    \* the command described
  pc,     \* the section being printed
  n,      \* the option or sub-command that the loop of the section is at
  s,      \* formatOption's stringstream: the flags of the option so far,
  width,  \* and its length, with the commas and blanks that chain them
  usage,  \* what the first line lists
  lines   \* the lines of options, then those of commands

vars == <<cmd, pc, n, s, width, usage, lines>>

Init ==
  /\ cmd \in Page
  /\ pc = "usage" /\ n = 1 /\ s = << >> /\ width = 0
  /\ usage = [options |-> FALSE, arguments |-> << >>, command |-> FALSE]
  /\ lines = << >>

PrintUsage ==
  /\ pc = "usage"
  /\ usage' = [options   |-> cmd.options # << >>,
               arguments |-> cmd.arguments,
               command   |-> cmd.commands # << >>]
  /\ pc' = "options"
  /\ UNCHANGED <<cmd, n, s, width, lines>>

-----------------------------------------------------------------------------
\* Slip: one prefix character for every name.
ShortFlag(name) == <<Prefix>> \o name

\* An option's name as the user is to type it. The formatter's prefix is that of
\* the parser (printHelp).
Flag(name) == IF Len(name) = 1 THEN <<Prefix>> \o name ELSE <<Prefix, Prefix>> \o name

InOptions == pc = "options" /\ n <= Len(cmd.options)

PrintName ==
  /\ InOptions /\ Len(s) < Len(cmd.options[n])
  /\ LET flag == Flag(cmd.options[n][Len(s) + 1]) IN
     /\ s' = Append(s, flag)
     /\ width' = width + Len(flag) + (IF s = << >> THEN 0 ELSE 2)
  /\ UNCHANGED <<cmd, pc, n, usage, lines>>

\* std::setw(OptionColumn) pads, and never cuts.
Setw(length) == IF length < OptionColumn THEN OptionColumn - length ELSE 0

EndOption ==
  /\ InOptions /\ Len(s) = Len(cmd.options[n])
  /\ lines' = Append(lines, [of |-> "option", names |-> s, fill |-> Setw(width)])
  /\ s' = << >> /\ width' = 0 /\ n' = n + 1
  /\ UNCHANGED <<cmd, pc, usage>>

EndOptions ==
  /\ pc = "options" /\ n > Len(cmd.options)
  /\ pc' = "commands" /\ n' = 1
  /\ UNCHANGED <<cmd, s, width, usage, lines>>

-----------------------------------------------------------------------------
\* Slip: a blank more than fillBuffer has.
OneMore(name) == IF Len(name) <= CommandColumn THEN CommandColumn + 1 - Len(name) ELSE 0

\* What output.write takes from fillBuffer: CommandColumn characters, the last a
\* zero. A name that fills the column is followed by nothing.
Fill(name) == IF Len(name) < CommandColumn THEN CommandColumn - Len(name) ELSE 0

\* Slip: the line, not the fill, depends on the length of the name.
ListIfShort ==
  /\ pc = "commands" /\ n <= Len(cmd.commands)
  /\ lines' = IF Fill(cmd.commands[n]) = 0 THEN lines
              ELSE Append(lines, [of |-> "command", names |-> <<cmd.commands[n]>>, fill |-> Fill(cmd.commands[n])])
  /\ n' = n + 1
  /\ UNCHANGED <<cmd, pc, s, width, usage>>

PrintCommand ==
  /\ pc = "commands" /\ n <= Len(cmd.commands)
  /\ lines' = Append(lines, [of |-> "command", names |-> <<cmd.commands[n]>>, fill |-> Fill(cmd.commands[n])])
  /\ n' = n + 1
  /\ UNCHANGED <<cmd, pc, s, width, usage>>

EndPage ==
  /\ pc = "commands" /\ n > Len(cmd.commands)
  /\ pc' = "done"
  /\ UNCHANGED <<cmd, n, s, width, usage, lines>>

Next == PrintUsage \/ PrintName \/ EndOption \/ EndOptions \/ PrintCommand \/ EndPage

Spec == Init /\ [][Next]_vars

-----------------------------------------------------------------------------
(***************************************************************************)
(* Properties                                                              *)
(***************************************************************************)

\* The type invariant: no loop leaves its section, and what is written of
\* fillBuffer is inside it (helpPrinter.cpp:72-75).
TypeOK ==
  /\ cmd \in PageType
  /\ pc \in {"usage", "options", "commands", "done"}
  /\ n \in 1..Len(IF pc = "options" THEN cmd.options ELSE cmd.commands) + 1
  /\ pc = "usage" => n = 1
  /\ s \in Seq(Name) /\ width \in Nat
  /\ usage \in [options : BOOLEAN, arguments : Seq(Name), command : BOOLEAN]
  /\ lines \in Seq([of : {"option", "command"}, names : Seq(Name), fill : Nat])
  /\ \A l \in DOMAIN lines : lines[l].of = "command" => lines[l].fill <= CommandColumn

\* A name that can be shown: without the separator, which would end it, and not
\* the prefix character alone, whose flag is two of them and means no name.
CanBeShown(name) == (\A p \in DOMAIN name : name[p] # Separator) /\ name # <<Prefix>>

\* What parseOptions looks for when it gets this token.
Understood(token, name) ==
  StartsWith(token, Prefix) /\ ParseOption(token) = [name |-> name, value |-> None]

\* Typing a flag as the page shows it gives that option, and without a value,
\* whatever the prefix of the parser is and even if the name begins with it: the
\* formatter chooses between one prefix character and two (helpPrinter.cpp:49-53),
\* parseOption counts them again (parser.cpp:65-69). It is so for those names
\* exactly that can be shown: they disagree on a name that is the prefix.
FlagsAreUnderstood ==
  \A l \in DOMAIN lines : lines[l].of = "option" =>
    /\ Len(lines[l].names) = Len(cmd.options[l])
    /\ \A m \in DOMAIN cmd.options[l] :
         CanBeShown(cmd.options[l][m]) <=> Understood(lines[l].names[m], cmd.options[l][m])

\* A finished page has a line for every option and every sub-command and no other
\* line, and its first line says which of the sections there are.
NothingUnlisted ==
  pc = "done" =>
    /\ Len(lines) = Len(cmd.options) + Len(cmd.commands)
    /\ \A m \in DOMAIN cmd.commands :
         lines[Len(cmd.options) + m].names = <<cmd.commands[m]>>
    /\ usage.options <=> \E l \in DOMAIN lines : lines[l].of = "option"
    /\ usage.command <=> \E l \in DOMAIN lines : lines[l].of = "command"

=============================================================================
