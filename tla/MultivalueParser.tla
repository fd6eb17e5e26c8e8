-------------------------- MODULE MultivalueParser --------------------------
(***************************************************************************)
(* MultivalueParser (include/clime/extras/multivalueParser.hpp) as the     *)
(* callback of an option: each call splits its value at the commas, parses *)
(* the parts into a list of its own and, if all of them parse, appends the *)
(* list to its member values. The value is a token, that a zero ends; a    *)
(* part is a view into it that nothing ends, and the value parser may read *)
(* on (the FIXMEs of parseUtils.cpp).                                      *)
(*                                                                         *)
(* A definition marked "Slip" is a bug for a property to refute.           *)
(***************************************************************************)
EXTENDS Integers, SequencesExt

CONSTANTS
  Char,                  \* the characters of a value
  ValueParser,           \* the value parsers
  Given,                 \* the values that an option with each of them may be given
  Comma,
  ParseView(_, _, _, _), \* what a value parser makes of the view into a token
                         \* between two indices; None if it refuses it
  ParseText(_, _),       \* what it is to make of a text
  None,
  MaxCalls            \* bound: how often the option is given

ASSUME CallsAssumption ==
  /\ MaxCalls \in Nat
  /\ Given \in [ValueParser -> SUBSET Seq(Char)]
  /\ \A parser \in ValueParser : None \notin Given[parser]

VARIABLES
  parseValue, \* the member _parseValue
  pc,       \* "idle": not called; "split": in value.split; "merge": after it
  token,    \* the value of the call
  from,     \* where the next part starts
  result,   \* Ok(list) or Err
  values,   \* the member: all values so far
  refused,  \* whether the last call returned an error
  calls     \* how many there were

vars == <<parseValue, pc, token, from, result, values, refused, calls>>

Ok(list) == [ok |-> TRUE, list |-> list]

\* The list that result held is destroyed by the assignment of an error.
Err == [ok |-> FALSE, list |-> << >>]

Init ==
  /\ parseValue \in ValueParser
  /\ pc = "idle" /\ token = << >> /\ from = 1 /\ result = Ok(<< >>)
  /\ values = << >> /\ refused = FALSE /\ calls = 0

Call ==
  /\ pc = "idle" /\ calls < MaxCalls
  /\ \E value \in Given[parseValue] : token' = value
  /\ pc' = "split" /\ from' = 1 /\ result' = Ok(<< >>)
  /\ calls' = calls + 1
  /\ UNCHANGED <<parseValue, values, refused>>

-----------------------------------------------------------------------------
(***************************************************************************)
(* StringView::split, of libsolace                                         *)
(***************************************************************************)
Commas(text) == {p \in DOMAIN text : text[p] = Comma}

\* Where the part that starts at an index ends: before the next comma.
PartEnd(text, start) ==
  LET next == {p \in Commas(text) : p >= start}
  IN  IF next = {} THEN Len(text) ELSE Min(next) - 1

IsLastPart(text, start) == PartEnd(text, start) = Len(text)

-----------------------------------------------------------------------------
\* _parseValue(split)
ParsePart == ParseView(parseValue, token, from, PartEnd(token, from))

\* Slip: the list is used after an error took its place.
AddAfterError(rest) ==
  IF rest = None THEN Err ELSE [result EXCEPT !.list = Append(@, rest)]

\* Slip: the error of a part is not looked for.
AddUnchecked(rest) == IF ~result.ok THEN Err ELSE Ok(Append(result.list, rest))

\* if (!result) return; then the error, or the value at the end of the list.
AddTo(rest) ==
  IF ~result.ok \/ rest = None THEN Err ELSE Ok(Append(result.list, rest))

\* Slip: a value is kept as soon as it is parsed.
KeepAtOnce ==
  /\ pc = "split"
  /\ result' = AddTo(ParsePart)
  /\ values' = IF result'.ok THEN values \o <<ParsePart>> ELSE values
  /\ from' = PartEnd(token, from) + 2
  /\ pc' = IF IsLastPart(token, from) THEN "merge" ELSE "split"
  /\ UNCHANGED <<parseValue, token, refused, calls>>

\* One call of the lambda that split is given.
Visit ==
  /\ pc = "split"
  /\ result' = AddTo(ParsePart)
  /\ from' = PartEnd(token, from) + 2
  /\ pc' = IF IsLastPart(token, from) THEN "merge" ELSE "split"
  /\ UNCHANGED <<parseValue, token, values, refused, calls>>

Refuse ==
  /\ pc = "merge" /\ ~result.ok
  /\ pc' = "idle" /\ refused' = TRUE
  /\ UNCHANGED <<parseValue, token, from, result, values, calls>>

Merge ==
  /\ pc = "merge" /\ result.ok
  /\ pc' = "idle" /\ refused' = FALSE
  /\ values' = values \o result.list
  /\ UNCHANGED <<parseValue, token, from, result, calls>>

Next == Call \/ Visit \/ Refuse \/ Merge

Spec == Init /\ [][Next]_vars

-----------------------------------------------------------------------------
(***************************************************************************)
(* Reference definitions, and the properties                               *)
(***************************************************************************)
\* Where the parts of a text end: at a comma, or behind the text.
Ends(text) == Commas(text) \cup {Len(text) + 1}

\* The end that has n - 1 ends before it.
EndOf(text, n) == CHOOSE p \in Ends(text) : Cardinality({q \in Ends(text) : q <= p}) = n

StartOf(text, n) == IF n = 1 THEN 1 ELSE EndOf(text, n - 1) + 1

\* The parts of a text: what is before, between and after its commas.
PartsOf(text) ==
  [n \in 1..Cardinality(Ends(text)) |-> SubSeq(text, StartOf(text, n), EndOf(text, n) - 1)]

\* The type invariant: a part starts in the token or right after its last comma.
TypeOK ==
  /\ parseValue \in ValueParser
  /\ pc \in {"idle", "split", "merge"}
  /\ token \in Given[parseValue] \cup {<< >>}
  /\ from \in 1..Len(token) + 2 /\ (pc = "split" => from <= Len(token) + 1)
  /\ result.ok \in BOOLEAN /\ None \notin ToSet(result.list)
  /\ None \notin ToSet(values)
  /\ refused \in BOOLEAN
  /\ calls \in 0..MaxCalls

\* The list inside result is not touched once an error has taken its place: the
\* lambda keeps a reference to it (multivalueParser.hpp:43) and goes on being
\* called for the parts that follow.
ErrorLeavesNoList == ~result.ok => result.list = << >>

\* A part is converted as if it were a token of its own, although the value
\* parser does not see where it ends and may read on (parseUtils.cpp:56 and 83,
\* "not safe for substrings", and the limits of strncasecmp at 109-115).
ReadsItsPartOnly ==
  pc = "split" =>
    ParsePart = ParseText(parseValue, SubSeq(token, from, PartEnd(token, from)))

\* The values are those of every accepted list, whole and in order; nothing of a
\* refused list stays.
AllGiven == UNION {Given[parser] : parser \in ValueParser}

AllParts == UNION {ToSet(PartsOf(text)) : text \in AllGiven}

Lists == INSTANCE ValueList WITH
  list   <- IF pc = "idle" THEN None ELSE token,
  Parts  <- [text \in AllGiven |-> PartsOf(text)],
  Parsed <- [parser \in ValueParser |-> [part \in AllParts |-> ParseText(parser, part)]]

ImplementsValueList == Lists!Spec
=============================================================================
