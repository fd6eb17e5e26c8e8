-------------------------- MODULE ParseUtilsProofs --------------------------
(***************************************************************************)
(* Proofs about ParseUtils, for integer types of any size.                 *)
(***************************************************************************)
EXTENDS ParseUtils, TLAPS

\* What result and errno say of the text, and why there is an outcome. The
\* properties of ParseUtils are about the text, the checks of the code about
\* result and errno: this is what connects them.
ResultExplained ==
  /\ converted =>
       /\ text.number # NoNumber
       /\ result = Strto(text)
       /\ errno = IF InLong(text) THEN "none" ELSE "ERANGE"
  /\ outcome = "ok" => converted /\ ~OutsideLongest /\ ~OutsideType
  /\ outcome = "error" =>
       IF converted THEN OutsideLongest \/ OutsideType ELSE text.number = NoNumber

IInv == TypeOK /\ ResultExplained

\* A number read from a text, and what strtoll makes of it, is an integer.
LEMMA StrtoIsInteger ==
  ASSUME TypeOK, text.number # NoNumber
  PROVE  Spelled(text) \in Int /\ Strto(text) \in Int
<1>1. text.number \in Nat
  BY LimitsAssumption DEF TypeOK, Text
<1>2. Spelled(text) \in Int
  BY <1>1 DEF Spelled
<1>3. Strto(text) \in Int
  BY <1>2, LimitsAssumption DEF Strto, Clamped, Wrapped
<1>. QED BY <1>2, <1>3

\* Nothing has been converted at first.
LEMMA InitInvariant == Init => IInv
<1> SUFFICES ASSUME Init PROVE IInv
  OBVIOUS
<1>1. TypeOK
  <2>1. type \in Type /\ text \in Text
    BY DEF Init
  <2>2. errno \in {"none", "ERANGE"} /\ result \in Int
    BY DEF Init
  <2>3. converted \in BOOLEAN /\ outcome = "pending"
    BY DEF Init
  <2>. QED BY <2>1, <2>2, <2>3 DEF TypeOK
<1>2. ResultExplained
  BY DEF Init, ResultExplained
<1>. QED BY <1>1, <1>2 DEF IInv

\* Every step keeps what is known of the result: it is what strtoll makes of
\* the text, and errno tells whether that is exact.
LEMMA NextInvariant == IInv /\ [Next]_vars => IInv'
<1> SUFFICES ASSUME IInv, [Next]_vars PROVE IInv'
  OBVIOUS
<1> USE DEF IInv
<1>1. CASE CallStrto
  <2>1. Strto(text) \in Int
    BY <1>1, StrtoIsInteger DEF CallStrto
  <2>2. TypeOK'
    BY <1>1, <2>1 DEF CallStrto, TypeOK
  <2>3. ResultExplained'
    BY <1>1 DEF CallStrto, ResultExplained, InLong, Strto
  <2>. QED BY <2>2, <2>3
<1>2. CASE NoConversion
  BY <1>2 DEF NoConversion, TypeOK, ResultExplained
<1>3. CASE OutOfRange
  BY <1>3 DEF OutOfRange, TypeOK, ResultExplained, OutsideLongest, OutsideType, InLong, Strto
<1>4. CASE InRange
  <2>1. result \in type.min..type.max
    BY <1>4, TypeAssumption DEF InRange, TypeOK, OutsideType
  <2>2. TypeOK'
    BY <1>4, <2>1 DEF InRange, TypeOK
  <2>3. ResultExplained'
    BY <1>4 DEF InRange, ResultExplained, OutsideLongest, OutsideType, InLong, Strto
  <2>. QED BY <2>2, <2>3
<1>5. CASE UNCHANGED vars
  BY <1>5 DEF vars, TypeOK, ResultExplained, OutsideLongest, OutsideType, InLong, Strto
<1>. QED BY <1>1, <1>2, <1>3, <1>4, <1>5 DEF Next

\* The inductive invariant holds throughout.
THEOREM Invariance == Spec => []IInv
BY InitInvariant, NextInvariant, PTL DEF Spec

\* The narrowing cast at the end of parse never loses anything, whatever the
\* sizes of the types.
THEOREM TypeCorrect == Spec => []TypeOK
BY Invariance, PTL DEF IInv

\* A text that spells a value of the type passes both range checks unchanged.
LEMMA RepresentableFromInvariant == IInv => RepresentableIsConverted
<1> SUFFICES ASSUME IInv, outcome # "pending", Representable(text)
             PROVE  outcome = "ok" /\ result = Spelled(text)
  BY DEF RepresentableIsConverted
<1>1. Spelled(text) \in Int /\ type.min <= Spelled(text) /\ Spelled(text) <= type.max
  BY StrtoIsInteger, TypeAssumption DEF IInv, TypeOK, Representable
<1>2. ASSUME converted
      PROVE  result = Spelled(text) /\ errno = "none"
  <2>1. CASE type.signed
    BY <1>1, <1>2, <2>1, LimitsAssumption, TypeAssumption
       DEF IInv, TypeOK, ResultExplained, InLong, Strto, Clamped
  <2>2. CASE ~type.signed
    <3>1. text.number \in Nat /\ type.min = 0 /\ type.max <= ULongMax
      BY <2>2, LimitsAssumption, TypeAssumption DEF IInv, TypeOK, Text, Representable
    <3>2. Spelled(text) = text.number /\ text.number <= ULongMax
      BY <1>1, <3>1, LimitsAssumption, TypeAssumption DEF IInv, TypeOK, Spelled
    <3>. QED BY <1>2, <2>2, <3>1, <3>2 DEF IInv, ResultExplained, InLong, Strto, Wrapped
  <2>. QED BY <2>1, <2>2
<1>3. converted => ~OutsideLongest /\ ~OutsideType
  BY <1>1, <1>2, LimitsAssumption, TypeAssumption DEF IInv, TypeOK, OutsideLongest, OutsideType
<1>. QED
  BY <1>2, <1>3 DEF IInv, TypeOK, ResultExplained, Representable

\* Every value of every type can be given on the command line, the limits of
\* the longest type included.
THEOREM RepresentableConverts == Spec => []RepresentableIsConverted
BY Invariance, RepresentableFromInvariant, PTL

\* The range checks refuse what is no number of the type, by the invariant.
LEMMA UnrepresentableFromInvariant == IInv => UnrepresentableIsRefused
<1> SUFFICES ASSUME IInv, outcome = "ok", ~Representable(text), type.signed \/ ~text.negative
             PROVE  FALSE
  BY DEF UnrepresentableIsRefused, IInv, TypeOK, Text
<1>1. /\ converted /\ text.number # NoNumber /\ ~OutsideLongest
      /\ result = Strto(text) /\ errno = IF InLong(text) THEN "none" ELSE "ERANGE"
  BY DEF IInv, ResultExplained
<1>2. Spelled(text) \in Int
  BY <1>1, StrtoIsInteger DEF IInv
<1>3. result \in type.min..type.max
  BY DEF IInv, TypeOK
<1>4. CASE type.signed
  BY <1>1, <1>2, <1>3, <1>4, LimitsAssumption
     DEF Representable, OutsideLongest, InLong, Strto, Clamped
<1>5. CASE ~type.signed
  <2>1. Spelled(text) = text.number /\ text.number \in Nat
    BY <1>1, <1>5, LimitsAssumption DEF IInv, TypeOK, Text, Spelled
  <2>. QED
    BY <1>1, <1>3, <1>5, <2>1, LimitsAssumption
       DEF Representable, OutsideLongest, InLong, Strto, Wrapped
<1>. QED BY <1>4, <1>5

\* Nothing else is converted, negative texts for unsigned types excepted.
THEOREM UnrepresentableRefused == Spec => []UnrepresentableIsRefused
BY Invariance, UnrepresentableFromInvariant, PTL
=============================================================================
