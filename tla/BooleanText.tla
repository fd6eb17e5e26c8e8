---------------------------- MODULE BooleanText -----------------------------
(***************************************************************************)
(* tryParseBoolean (src/parseUtils.cpp): a value is "1", "0", or compared  *)
(* with "true" and "false" by strncasecmp up to the shorter of the two. It *)
(* is a view into a token, between two indices: what comes after it may be *)
(* anything.                                                               *)
(*                                                                         *)
(* A definition marked "Slip" is a bug for a property to refute.           *)
(***************************************************************************)
EXTENDS SequencesExt, Integers

CONSTANTS
  Lower,   \* tolower, for the characters of the tokens
  Nul      \* what is read behind the end of a token

TrueWord  == <<"t", "r", "u", "e">>
FalseWord == <<"f", "a", "l", "s", "e">>

CharAt(token, p) == IF p <= Len(token) THEN Lower[token[p]] ELSE Nul

\* strncasecmp(value.data(), word, n) == 0, of the C library.
SameUpTo(token, start, word, n) == \A p \in 1..n : CharAt(token, start + p - 1) = word[p]

\* Slip: the whole word is compared, whatever the length of the value.
WholeWord(length, word) == Len(word)

\* std::min<size_t>(value.length(), the length of the word)
CommonLength(length, word) == IF length < Len(word) THEN length ELSE Len(word)

Is(token, start, end, digit, word) ==
  \/ SubSeq(token, start, end) = <<digit>>
  \/ SameUpTo(token, start, word, CommonLength(end + 1 - start, word))

TryParseBoolean(token, start, end) ==
  IF Is(token, start, end, "1", TrueWord) THEN "true"
  ELSE IF Is(token, start, end, "0", FalseWord) THEN "false"
  ELSE "error"

-----------------------------------------------------------------------------
\* Reference: one of the two is the beginning of the other, in any case of letters.
Agrees(text, word) ==
  LET lowered == [p \in DOMAIN text |-> Lower[text[p]]]
  IN  IsPrefix(lowered, word) \/ IsPrefix(word, lowered)

\* A text that agrees with a word as far as both go; the empty text, which agrees
\* with both, is true.
BooleanOf(text) ==
  IF text = <<"1">> \/ Agrees(text, TrueWord) THEN "true"
  ELSE IF text = <<"0">> \/ Agrees(text, FalseWord) THEN "false"
  ELSE "error"
=============================================================================
