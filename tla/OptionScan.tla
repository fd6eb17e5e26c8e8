----------------------------- MODULE OptionScan -----------------------------
(***************************************************************************)
(* The loop by which parseOption (src/parser.cpp) splits a token, one step *)
(* per iteration, and the two facts the parser relies on: it computes      *)
(* OptionSyntax!ParseOption, and no character of the token is lost. As in  *)
(* Parser, a definition marked "Slip" is a bug for a property to refute.   *)
(***************************************************************************)
EXTENDS OptionSyntax

CONSTANTS Args,     \* the tokens to split
          Pending   \* nothing returned yet

ASSUME ArgsAssumption ==
  /\ Args \subseteq {t \in Seq(Char) : StartsWith(t, Prefix)}
  /\ Pending \notin [name : Seq(Char), value : Seq(Char) \cup {None}]

VARIABLES arg, startIndex, endIndex, result

vars == <<arg, startIndex, endIndex, result>>

\* Slip: the second prefix character is part of the name.
InitSinglePrefix ==
  /\ arg \in Args
  /\ startIndex = 2
  /\ endIndex = startIndex
  /\ result = Pending

Init ==
  /\ arg \in Args
  /\ startIndex = NameStart(arg)
  /\ endIndex = startIndex
  /\ result = Pending

\* startIndex >= arg.length(): nothing but prefix characters.
NoName ==
  /\ result = Pending /\ startIndex > Len(arg)
  /\ result' = [name |-> << >>, value |-> None]
  /\ UNCHANGED <<arg, startIndex, endIndex>>

\* Slip: the scan runs to the end of the token.
InToken == endIndex <= Len(arg)

\* Slip: the first character of the name is not looked at.
InNamePastFirst == endIndex <= Len(arg) /\ (endIndex = startIndex \/ arg[endIndex] # Separator)

\* Both conditions of the while loop.
InName == endIndex <= Len(arg) /\ arg[endIndex] # Separator

NextChar ==
  /\ result = Pending /\ startIndex <= Len(arg) /\ InName
  /\ endIndex' = endIndex + 1
  /\ UNCHANGED <<arg, startIndex, result>>

\* Slip: the end counts as part of the substring.
SubstringThrough(from, to) == SubSeq(arg, from, IF to <= Len(arg) THEN to ELSE Len(arg))

\* arg.substring(from, to), the characters from..to-1.
Substring(from, to) == SubSeq(arg, from, to - 1)

ReturnPair ==
  /\ result = Pending /\ startIndex <= Len(arg) /\ ~InName
  /\ result' = IF endIndex <= Len(arg)
               THEN [name  |-> Substring(startIndex, endIndex),
                     value |-> Substring(endIndex + 1, Len(arg) + 1)]
               ELSE [name  |-> Substring(startIndex, Len(arg) + 1), value |-> None]
  /\ UNCHANGED <<arg, startIndex, endIndex>>

Next == NoName \/ NextChar \/ ReturnPair

Spec == Init /\ [][Next]_vars

-----------------------------------------------------------------------------
\* The type invariant: the loop of parseOption stays between the start of the
\* name and the end of the token.
TypeOK ==
  /\ arg \in Args
  /\ startIndex = NameStart(arg)
  /\ endIndex \in startIndex..Len(arg) + 1 \/ endIndex = startIndex
  /\ result \in {Pending} \cup [name : Seq(Char), value : Seq(Char) \cup {None}]

\* The loop has passed no separator: what makes ScanSplitsAtFirstSeparator
\* inductive.
NoSeparatorPassed ==
  \A p \in startIndex..endIndex - 1 : p <= Len(arg) /\ arg[p] # Separator

\* The pair returned is split at the first separator of the name, wherever the
\* separators, the prefix characters and the end of the token are: what the
\* loop of parser.cpp:70-77 has to compute for "--opt=a=b", "-=v", "--" and "-".
ScanSplitsAtFirstSeparator == result # Pending => result = ParseOption(arg)

\* Writing the pair back after the prefix gives the token: parseOption neither
\* drops nor invents a character, so an inline value reaches the option whole.
NothingLost ==
  result # Pending =>
    arg = SubSeq(arg, 1, startIndex - 1) \o result.name
            \o (IF result.value = None THEN << >> ELSE <<Separator>> \o result.value)
=============================================================================
