----------------------------- MODULE ValueList ------------------------------
(***************************************************************************)
(* What a MultivalueParser promises: the values of an option given several *)
(* times, each time with a list, are all the values of all the lists, in   *)
(* order, and a list with a bad value in it adds none of them.             *)
(***************************************************************************)
EXTENDS Integers, Sequences

CONSTANTS
  ValueParser,  \* the value parsers
  Given,        \* the lists that may be given to each of them
  Parts,        \* the parts of a list: a sequence of texts
  Parsed,       \* what a value parser makes of a text, None if it refuses it
  None

VARIABLES
  parseValue,   \* the value parser
  list,         \* the list given, None between the calls
  values,       \* all values so far
  refused       \* whether the last list was refused

vars == <<parseValue, list, values, refused>>

Init == parseValue \in ValueParser /\ list = None /\ values = << >> /\ refused = FALSE

Give ==
  /\ list = None /\ list' \in Given[parseValue]
  /\ UNCHANGED <<parseValue, values, refused>>

Part(n) == Parsed[parseValue][Parts[list][n]]

AllParsed == \A n \in DOMAIN Parts[list] : Part(n) # None

Take ==
  /\ list # None /\ AllParsed
  /\ values' = values \o [n \in DOMAIN Parts[list] |-> Part(n)]
  /\ refused' = FALSE /\ list' = None
  /\ UNCHANGED parseValue

Refuse ==
  /\ list # None /\ ~AllParsed
  /\ refused' = TRUE /\ list' = None
  /\ UNCHANGED <<parseValue, values>>

Next == Give \/ Take \/ Refuse

Spec == Init /\ [][Next]_vars
=============================================================================
