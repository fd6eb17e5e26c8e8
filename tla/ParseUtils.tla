----------------------------- MODULE ParseUtils -----------------------------
(***************************************************************************)
(* Longest<T>::parse (src/parseUtils.cpp): a text converted to an integer  *)
(* of type T by way of the longest integer of T's signedness, with errno   *)
(* and two range checks. The limits of the types are parameters; the code  *)
(* has those of 64 bits.                                                   *)
(***************************************************************************)
EXTENDS Integers

CONSTANTS
  LongMin, LongMax,   \* the limits of int64, what strtoll returns
  ULongMax,           \* the limit of uint64, what strtoull returns
  Type,               \* the integer types, each with its limits
  Magnitude,          \* the numbers that a text may spell after its sign
  NoNumber            \* a text that starts with no number

ASSUME LimitsAssumption ==
  /\ LongMin \in Int /\ LongMax \in Nat /\ ULongMax \in Nat
  /\ LongMin <= 0 /\ LongMax <= ULongMax
  /\ Magnitude \subseteq Nat
  /\ NoNumber \notin Int

\* A numeric_limits<T>: no type is wider than the longest of its signedness.
ASSUME TypeAssumption ==
  /\ Type \subseteq [signed : BOOLEAN, min : Int, max : Nat]
  /\ \A T \in Type : IF T.signed THEN LongMin <= T.min /\ T.min <= 0 /\ T.max <= LongMax
                                 ELSE T.min = 0 /\ T.max <= ULongMax

\* What strtoll sees of a text: the sign and the number after it. It stops at
\* the first character of neither, and so does everything here.
Text == [negative : BOOLEAN, number : Magnitude \cup {NoNumber}]

VARIABLES type, text, errno, result, converted, outcome

vars == <<type, text, errno, result, converted, outcome>>

Init ==
  /\ type \in Type
  /\ text \in Text
  /\ errno = "none" /\ result = 0 /\ converted = FALSE
  /\ outcome = "pending"

\* The number that a text spells.
Spelled(t) == IF t.negative THEN -t.number ELSE t.number

-----------------------------------------------------------------------------
(***************************************************************************)
(* strtoll and strtoull, of the C library                                  *)
(***************************************************************************)
Clamped(n) == IF n > LongMax THEN LongMax ELSE IF n < LongMin THEN LongMin ELSE n

\* strtoull negates in its own type: -1 is its greatest value.
Wrapped(n) == IF n < 0 THEN ULongMax + 1 + n ELSE n

InLong(t) == IF type.signed THEN Spelled(t) \in LongMin..LongMax ELSE t.number <= ULongMax

Strto(t) ==
  IF type.signed THEN Clamped(Spelled(t))
  ELSE IF InLong(t) THEN Wrapped(Spelled(t)) ELSE ULongMax

\* errno = 0; result = strtoll(value.data(), &pEnd, 0)
CallStrto ==
  /\ outcome = "pending" /\ ~converted /\ text.number # NoNumber
  /\ converted' = TRUE
  /\ result' = Strto(text)
  /\ errno' = IF InLong(text) THEN "none" ELSE "ERANGE"
  /\ UNCHANGED <<type, text, outcome>>

-----------------------------------------------------------------------------
\* Slip: a limit of the type is an error, whatever errno says.
AtLimit ==
  \/ result \in (IF type.signed THEN {LongMax, LongMin} ELSE {ULongMax})
  \/ errno # "none" /\ result = 0

\* Slip: only the upper limit is looked for.
BeyondMax == errno = "ERANGE" /\ result = (IF type.signed THEN LongMax ELSE ULongMax)

\* (errno == ERANGE && (result is a limit)) || (errno != 0 && result == 0)
OutsideLongest ==
  \/ errno = "ERANGE" /\ result \in (IF type.signed THEN {LongMax, LongMin} ELSE {ULongMax})
  \/ errno # "none" /\ result = 0

\* Slip: only the upper limit is looked for.
AboveType == result > type.max

OutsideType == result > type.max \/ result < type.min

\* !pEnd || pEnd == value.data()
NoConversion ==
  /\ outcome = "pending" /\ ~converted /\ text.number = NoNumber
  /\ outcome' = "error"
  /\ UNCHANGED <<type, text, errno, result, converted>>

OutOfRange ==
  /\ outcome = "pending" /\ converted /\ (OutsideLongest \/ OutsideType)
  /\ outcome' = "error"
  /\ UNCHANGED <<type, text, errno, result, converted>>

InRange ==
  /\ outcome = "pending" /\ converted /\ ~OutsideLongest /\ ~OutsideType
  /\ outcome' = "ok"
  /\ UNCHANGED <<type, text, errno, result, converted>>

Next == CallStrto \/ NoConversion \/ OutOfRange \/ InRange

Spec == Init /\ [][Next]_vars

-----------------------------------------------------------------------------
\* The narrowing of the result to T, in the last line of parse, loses nothing:
\* whatever is not refused is a value of the type. (parseUtils.cpp:71 and 99)
TypeOK ==
  /\ type \in Type /\ text \in Text
  /\ errno \in {"none", "ERANGE"} /\ result \in Int /\ converted \in BOOLEAN
  /\ outcome \in {"pending", "ok", "error"}
  /\ outcome = "ok" => result \in type.min..type.max

Representable(t) == t.number # NoNumber /\ Spelled(t) \in type.min..type.max

\* A text that spells a number of the type is converted to that number, the
\* limits of the longest type included, which strtoll also returns for numbers
\* out of its range (parseUtils.cpp:57 and 84).
RepresentableIsConverted ==
  outcome # "pending" /\ Representable(text) => outcome = "ok" /\ result = Spelled(text)

\* A text that spells no number of the type is refused, unless it is a negative
\* number for an unsigned type (see NegativeIsRefused).
UnrepresentableIsRefused ==
  outcome = "ok" /\ ~Representable(text) => ~type.signed /\ text.negative

\* "parseUInt64_NegativeArgument": a negative number is no uint64
\* (test/test_parser.cpp:191-193). The test gives it as a token of its own, that
\* looks like a flag; given as --x=-19587446 it is converted modulo 2^64.
NegativeIsRefused ==
  ~type.signed /\ text.negative /\ text.number \notin {0, NoNumber} => outcome # "ok"
=============================================================================
