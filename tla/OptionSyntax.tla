---------------------------- MODULE OptionSyntax ----------------------------
(***************************************************************************)
(* What parseOption (src/parser.cpp) makes of a command line token that    *)
(* starts with the option prefix: the name between the prefix characters   *)
(* and the first value separator, and the value after that separator.      *)
(* Positions are 1-based, the source's plus one.                           *)
(***************************************************************************)
EXTENDS Integers, Sequences, FiniteSetsExt

CONSTANTS
  Char,       \* the characters of a token
  Prefix,     \* Parser::_prefix, '-' by default
  Separator,  \* Parser::_valueSeparator, '=' by default
  None        \* an Optional without a value

ASSUME CharAssumption == Prefix \in Char /\ Separator \in Char /\ None \notin Seq(Char)

\* StringView::startsWith(char), of libsolace.
StartsWith(text, char) == text # << >> /\ Head(text) = char

\* Where the name starts: after one prefix character, or after two.
NameStart(token) == IF StartsWith(Tail(token), Prefix) THEN 3 ELSE 2

\* The value separators of a token, from its name on.
Separators(token) == {p \in NameStart(token)..Len(token) : token[p] = Separator}

\* The pair that parseOption returns. A token of nothing but prefix characters
\* has the empty name.
ParseOption(token) ==
  IF Separators(token) = {}
  THEN [name |-> SubSeq(token, NameStart(token), Len(token)), value |-> None]
  ELSE LET p == Min(Separators(token))
       IN  [name  |-> SubSeq(token, NameStart(token), p - 1),
            value |-> SubSeq(token, p + 1, Len(token))]
=============================================================================
