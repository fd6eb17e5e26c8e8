--------------------------- MODULE ListConverters ---------------------------
(***************************************************************************)
(* The value parsers that a MultivalueParser is given here: tryParse of an *)
(* integer type (src/parseUtils.cpp), which hands the start of the part to *)
(* strtoll and lets that find the end, and tryParseBoolean. What is        *)
(* converted stands for its number: the range checks, which see nothing of *)
(* the text, are ParseUtils'.                                              *)
(***************************************************************************)
EXTENDS MultivalueParser, BooleanText

Octal       == {"0", "1", "2", "3", "4", "5", "6", "7"}
Decimal     == Octal \cup {"8", "9"}
Hexadecimal == Decimal \cup {"a", "b", "c", "d", "e", "f", "A", "B", "C", "D", "E", "F"}

\* The digits of a number, in the base that its beginning stands for.
IsMagnitude(text) ==
  /\ text # << >>
  /\ \/ text[1] # "0" /\ ToSet(text) \subseteq Decimal
     \/ text[1] = "0" /\ ToSet(text) \subseteq Octal
     \/ /\ Len(text) > 2 /\ text[1] = "0" /\ text[2] \in {"x", "X"}
        /\ \A p \in 3..Len(text) : text[p] \in Hexadecimal

\* What strtoll with base 0 converts whole: blanks, a sign, a number.
IsNumeral(text) ==
  \E b \in 0..Len(text) - 1 :
    /\ \A p \in 1..b : text[p] = " "
    /\ \/ IsMagnitude(SubSeq(text, b + 1, Len(text)))
       \/ text[b + 1] \in {"-", "+"} /\ IsMagnitude(SubSeq(text, b + 2, Len(text)))

\* The longest numeral from the start on, wherever the view may end.
Strtoll(text, start) ==
  LET ends == {e \in start..Len(text) : IsNumeral(SubSeq(text, start, e))}
  IN  IF ends = {} THEN None ELSE SubSeq(text, start, Max(ends))

OrNone(boolean) == IF boolean = "error" THEN None ELSE boolean

TryParseView(parser, text, start, end) ==
  IF parser = "integer" THEN Strtoll(text, start) ELSE OrNone(TryParseBoolean(text, start, end))

-----------------------------------------------------------------------------
\* Reference: what they make of a text of its own.
TryParseText(parser, text) ==
  IF parser = "integer" THEN Strtoll(text, 1) ELSE OrNone(BooleanOf(text))
=============================================================================
