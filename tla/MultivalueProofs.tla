-------------------------- MODULE MultivalueProofs --------------------------
(***************************************************************************)
(* Proofs about MultivalueParser: for any value parsers and lists of any   *)
(* length, what stays of a list; and that the two value parsers of         *)
(* ListConverters read no further than the part they are given.            *)
(***************************************************************************)
EXTENDS ListConverters, FiniteSetTheorems, SequenceTheorems, WellFoundedInduction, TLAPS

-----------------------------------------------------------------------------
(***************************************************************************)
(* The least and the greatest of a set of numbers                          *)
(***************************************************************************)

\* The minimum of a set of numbers is the one that is not above any other.
LEMMA MinIs ==
  ASSUME NEW S \in SUBSET Nat, NEW m \in S, \A x \in S : m <= x
  PROVE  Min(S) = m
<1>1. ASSUME NEW x \in S, \A y \in S : x =< y PROVE x = m
  BY <1>1
<1>. QED BY <1>1 DEF Min

\* The maximum is the one that is not below any other.
LEMMA MaxIs ==
  ASSUME NEW S \in SUBSET Nat, NEW m \in S, \A x \in S : x <= m
  PROVE  Max(S) = m
<1>1. \A y \in S : m >= y
  OBVIOUS
<1>2. ASSUME NEW x \in S, \A y \in S : x >= y PROVE x = m
  BY <1>2
<1>. QED BY <1>1, <1>2 DEF Max

\* A set of numbers has a minimum.
LEMMA MinExists ==
  ASSUME NEW S \in SUBSET Nat, S # {}
  PROVE  Min(S) \in S /\ \A x \in S : Min(S) <= x
<1>1. PICK m \in S : \A x \in S : ~(<<x, m>> \in OpToRel(<, Nat))
  BY NatLessThanWellFounded, WFMin
<1>2. \A x \in S : ~(x < m)
  BY <1>1 DEF OpToRel
<1>3. \A x \in S : m <= x
  <2>1. ASSUME NEW x \in S PROVE m <= x
    <3>1. x \in Nat /\ m \in Nat /\ ~(x < m)
      BY <1>2
    <3>. QED BY <3>1
  <2>. QED BY <2>1
<1>. QED BY <1>3, MinIs

\* A set of numbers with a bound has a maximum.
LEMMA MaxExists ==
  ASSUME NEW S \in SUBSET Nat, S # {}, NEW b \in Nat, \A x \in S : x <= b
  PROVE  Max(S) \in S /\ \A x \in S : x <= Max(S)
<1> DEFINE above == {m \in Nat : \A x \in S : x <= m}
<1>1. above \in SUBSET Nat /\ above # {}
  OBVIOUS
<1>2. Min(above) \in above /\ \A m \in above : Min(above) <= m
  <2>. HIDE DEF above
  <2>. QED BY <1>1, MinExists
<1>3. PICK m \in above : \A n \in above : m <= n
  BY <1>2
<1>4. m \in S
  <2>1. SUFFICES ASSUME m \notin S PROVE FALSE
    OBVIOUS
  <2>2. \A x \in S : x <= m - 1
    BY <1>3, <2>1
  <2>3. m # 0
    <3>1. PICK x \in S : x <= m - 1
      BY <2>2
    <3>. QED BY <1>3, <3>1
  <2>4. m - 1 \in above
    BY <1>3, <2>2, <2>3
  <2>. QED BY <1>3, <2>4
<1>. QED BY <1>3, <1>4, MaxIs

-----------------------------------------------------------------------------
(***************************************************************************)
(* The parts of a text                                                     *)
(***************************************************************************)

\* A part ends before the next comma, or with the text.
LEMMA PartEndIs ==
  ASSUME NEW text \in Seq(Char), NEW start \in 1..Len(text) + 1
  PROVE  /\ PartEnd(text, start) \in start - 1..Len(text)
         /\ PartEnd(text, start) + 1 \in Ends(text)
         /\ \A p \in Ends(text) : p >= start => p >= PartEnd(text, start) + 1
<1> DEFINE next == {p \in Commas(text) : p >= start}
<1>1. Commas(text) \subseteq 1..Len(text) /\ Len(text) \in Nat
  BY DEF Commas
<1>2. CASE next = {}
  <2>1. PartEnd(text, start) = Len(text)
    BY <1>2 DEF PartEnd
  <2>. QED BY <1>1, <1>2, <2>1 DEF Ends
<1>3. CASE next # {}
  <2>1. Min(next) \in next /\ \A p \in next : Min(next) <= p
    <3>1. next \in SUBSET Nat
      BY <1>1
    <3>. HIDE DEF next
    <3>. QED BY <1>3, <3>1, MinExists
  <2>2. PartEnd(text, start) = Min(next) - 1
    BY <1>3 DEF PartEnd
  <2>3. Min(next) \in 1..Len(text) /\ Min(next) >= start /\ Min(next) \in Commas(text)
    BY <1>1, <2>1
  <2>4. Min(next) - 1 + 1 = Min(next)
    BY <2>3
  <2>5. PartEnd(text, start) \in start - 1..Len(text) /\ PartEnd(text, start) + 1 \in Ends(text)
    BY <1>1, <2>2, <2>3, <2>4 DEF Ends
  <2>6. ASSUME NEW p \in Ends(text), p >= start PROVE p >= Min(next)
    <3>1. CASE p \in Commas(text)
      BY <2>1, <2>6, <3>1
    <3>2. CASE p = Len(text) + 1
      BY <1>1, <2>3, <3>2
    <3>. QED BY <3>1, <3>2 DEF Ends
  <2>. QED BY <2>2, <2>4, <2>5, <2>6
<1>. QED BY <1>2, <1>3

\* How many ends of a text there are up to an index.
EndsUpTo(text, p) == {q \in Ends(text) : q <= p}

\* The ends are a finite set of numbers behind the first.
LEMMA EndsFinite ==
  ASSUME NEW text \in Seq(Char)
  PROVE  /\ Ends(text) \subseteq 1..Len(text) + 1 /\ Len(text) \in Nat
         /\ IsFiniteSet(Ends(text)) /\ Cardinality(Ends(text)) \in Nat
         /\ \A p \in Int : /\ IsFiniteSet(EndsUpTo(text, p))
                           /\ Cardinality(EndsUpTo(text, p)) \in 0..Cardinality(Ends(text))
<1>1. Ends(text) \subseteq 1..Len(text) + 1 /\ Len(text) \in Nat
  BY DEF Ends, Commas
<1>2. IsFiniteSet(1..Len(text) + 1)
  BY <1>1, FS_Interval
<1>3. IsFiniteSet(Ends(text))
  BY <1>1, <1>2, FS_Subset
<1>4. Cardinality(Ends(text)) \in Nat
  BY <1>3, FS_CardinalityType
<1>5. ASSUME NEW p \in Int
      PROVE  /\ IsFiniteSet(EndsUpTo(text, p))
             /\ Cardinality(EndsUpTo(text, p)) \in 0..Cardinality(Ends(text))
  <2>1. EndsUpTo(text, p) \in SUBSET Ends(text)
    BY DEF EndsUpTo
  <2>2. /\ IsFiniteSet(EndsUpTo(text, p))
        /\ Cardinality(EndsUpTo(text, p)) <= Cardinality(Ends(text))
    BY <1>3, <2>1, FS_Subset
  <2>3. Cardinality(EndsUpTo(text, p)) \in Nat
    BY <2>2, FS_CardinalityType
  <2>. QED BY <1>4, <2>2, <2>3
<1>. QED BY <1>1, <1>3, <1>4, <1>5

\* The end with a certain number is the one up to which there are so many.
LEMMA EndOfIs ==
  ASSUME NEW text \in Seq(Char), NEW p \in Ends(text)
  PROVE  EndOf(text, Cardinality(EndsUpTo(text, p))) = p
<1>1. ASSUME NEW a \in Ends(text), NEW b \in Ends(text), a < b
      PROVE  Cardinality(EndsUpTo(text, a)) # Cardinality(EndsUpTo(text, b))
  <2>1. /\ a \in Int /\ b \in Int /\ IsFiniteSet(EndsUpTo(text, b))
    BY EndsFinite
  <2>2. EndsUpTo(text, a) \in SUBSET EndsUpTo(text, b)
    BY <1>1, <2>1, EndsFinite DEF EndsUpTo
  <2>3. b \in EndsUpTo(text, b) /\ b \notin EndsUpTo(text, a)
    BY <1>1, <2>1 DEF EndsUpTo
  <2>. QED BY <2>1, <2>2, <2>3, FS_Subset
<1>2. ASSUME NEW q \in Ends(text), Cardinality(EndsUpTo(text, q)) = Cardinality(EndsUpTo(text, p))
      PROVE  q = p
  <2>1. q \in Int /\ p \in Int
    BY EndsFinite
  <2>2. q < p \/ p < q \/ q = p
    BY <2>1
  <2>. QED BY <1>1, <1>2, <2>2
<1>. QED BY <1>2 DEF EndOf, EndsUpTo

\* How many parts there are before the one that starts at an index.
Done(text, start) == Cardinality(EndsUpTo(text, start - 1))

\* Where a part may start: with the text, or behind an end.
Starts(text, start) == start = 1 \/ start - 1 \in Ends(text)

\* No part is before the first, and all are before what is behind the last end.
LEMMA DoneBounds ==
  ASSUME NEW text \in Seq(Char)
  PROVE  /\ Done(text, 1) = 0
         /\ Done(text, Len(text) + 2) = Cardinality(Ends(text))
         /\ \A start \in Int : Done(text, start) \in Nat
<1>1. Ends(text) \subseteq 1..Len(text) + 1 /\ Len(text) \in Nat
  BY EndsFinite
<1>2. EndsUpTo(text, 1 - 1) = {}
  BY <1>1 DEF EndsUpTo
<1>3. EndsUpTo(text, Len(text) + 2 - 1) = Ends(text)
  BY <1>1 DEF EndsUpTo
<1>4. \A start \in Int : Done(text, start) \in Nat
  BY EndsFinite DEF Done
<1>. QED BY <1>2, <1>3, <1>4, FS_EmptySet DEF Done

\* From one part to the next: it is the next of PartsOf, and its end is the only
\* one that is passed.
LEMMA NextPart ==
  ASSUME NEW text \in Seq(Char), NEW start \in 1..Len(text) + 1, Starts(text, start)
  PROVE  LET done == Done(text, start)
             end  == PartEnd(text, start) IN
         /\ Done(text, end + 2) = done + 1 /\ done + 1 \in DOMAIN PartsOf(text)
         /\ PartsOf(text)[done + 1] = SubSeq(text, start, end)
         /\ Starts(text, end + 2)
<1> DEFINE done == Done(text, start)
           end  == PartEnd(text, start)
<1>1. /\ Ends(text) \subseteq 1..Len(text) + 1 /\ Len(text) \in Nat
      /\ IsFiniteSet(EndsUpTo(text, start - 1)) /\ done \in Nat
      /\ end + 1 \in Ends(text) /\ end \in start - 1..Len(text)
      /\ \A p \in Ends(text) : p >= start => p >= end + 1
  <2>1. Len(text) \in Nat /\ start \in Int /\ start - 1 \in Int
    BY EndsFinite
  <2>. QED BY <2>1, EndsFinite, PartEndIs, DoneBounds
<1>2. end + 1 \notin EndsUpTo(text, start - 1)
  BY <1>1 DEF EndsUpTo
<1>3. EndsUpTo(text, end + 1) = EndsUpTo(text, start - 1) \cup {end + 1}
  <2>1. ASSUME NEW p \in Ends(text) PROVE p <= end + 1 <=> p <= start - 1 \/ p = end + 1
    <3>1. p \in Int /\ end \in Int /\ start \in Int
      BY <1>1
    <3>2. p >= start => p >= end + 1
      BY <1>1
    <3>3. end >= start - 1
      BY <1>1
    <3>. QED BY <3>1, <3>2, <3>3
  <2>. QED BY <1>1, <2>1 DEF EndsUpTo
<1>4. Cardinality(EndsUpTo(text, end + 1)) = done + 1
  BY <1>1, <1>2, <1>3, FS_AddElement DEF Done
<1>5. end + 2 - 1 = end + 1
  BY <1>1
<1>6. Done(text, end + 2) = done + 1 /\ Starts(text, end + 2)
  BY <1>1, <1>4, <1>5 DEF Done, Starts
<1>7. done + 1 \in 1..Cardinality(Ends(text))
  <2>1. Cardinality(EndsUpTo(text, end + 1)) \in 0..Cardinality(Ends(text))
    BY <1>1, EndsFinite
  <2>. QED BY <1>1, <1>4, <2>1, EndsFinite
<1>8. EndOf(text, done + 1) = end + 1
  BY <1>1, <1>4, EndOfIs
<1>9. StartOf(text, done + 1) = start
  <2>1. CASE start = 1
    BY <2>1, DoneBounds DEF StartOf
  <2>2. CASE start # 1
    <3>1. start - 1 \in Ends(text)
      BY <2>2 DEF Starts
    <3>2. EndOf(text, done) = start - 1
      BY <3>1, EndOfIs DEF Done
    <3>3. done # 0
      <4>1. start - 1 \in EndsUpTo(text, start - 1)
        BY <3>1 DEF EndsUpTo
      <4>. QED BY <1>1, <4>1, FS_EmptySet DEF Done
    <3>4. done \in Nat
      BY <1>1
    <3>5. \A n \in Nat : n # 0 => StartOf(text, n + 1) = EndOf(text, n) + 1
      BY DEF StartOf
    <3>6. StartOf(text, done + 1) = EndOf(text, done) + 1
      BY <3>3, <3>4, <3>5
    <3>. QED BY <1>1, <3>2, <3>6
  <2>. QED BY <2>1, <2>2
<1>10. /\ done + 1 \in DOMAIN PartsOf(text)
       /\ PartsOf(text)[done + 1] = SubSeq(text, start, end)
  <2>1. \A n \in 1..Cardinality(Ends(text)) :
          PartsOf(text)[n] = SubSeq(text, StartOf(text, n), EndOf(text, n) - 1)
    BY DEF PartsOf
  <2>2. DOMAIN PartsOf(text) = 1..Cardinality(Ends(text))
    BY DEF PartsOf
  <2>. HIDE DEF done, end
  <2>3. PartsOf(text)[done + 1] = SubSeq(text, StartOf(text, done + 1), EndOf(text, done + 1) - 1)
    BY <1>7, <2>1
  <2>4. EndOf(text, done + 1) - 1 = end
    BY <1>1, <1>8
  <2>. QED BY <1>7, <1>9, <2>2, <2>3, <2>4
<1>. QED BY <1>6, <1>10

-----------------------------------------------------------------------------
(***************************************************************************)
(* The types                                                               *)
(***************************************************************************)
\* What a value parser may make of any view.
Converted ==
  {ParseView(parser, text, start, end) :
     parser \in ValueParser, text \in Seq(Char), start \in Nat, end \in Nat} \ {None}

\* The type invariant, with what lists are made of and where they are split.
Typed ==
  /\ parseValue \in ValueParser
  /\ pc \in {"idle", "split", "merge"}
  /\ token \in Seq(Char) /\ token \in Given[parseValue] \cup {<< >>}
  /\ pc # "idle" => token \in Given[parseValue]
  /\ from \in 1..Len(token) + 2
  /\ pc = "split" => from <= Len(token) + 1
  /\ pc = "merge" => from = Len(token) + 2
  /\ result \in [ok : BOOLEAN, list : Seq(Converted)]
  /\ values \in Seq(Converted)
  /\ refused \in BOOLEAN
  /\ calls \in 0..MaxCalls

\* The values an option may be given are texts.
LEMMA GivenTyped ==
  ASSUME NEW parser \in ValueParser, NEW text \in Given[parser]
  PROVE  text \in Seq(Char) /\ text # None
BY CallsAssumption

\* A part is converted to a value of the list, or refused.
LEMMA PartTyped ==
  ASSUME Typed, pc = "split"
  PROVE  /\ ParsePart \in Converted \cup {None}
         /\ PartEnd(token, from) + 2 \in 1..Len(token) + 2
         /\ IsLastPart(token, from) => PartEnd(token, from) + 2 = Len(token) + 2
         /\ ~IsLastPart(token, from) => PartEnd(token, from) + 2 <= Len(token) + 1
<1>1. token \in Seq(Char) /\ from \in 1..Len(token) + 1 /\ Len(token) \in Nat /\ parseValue \in ValueParser
  BY DEF Typed
<1>2. PartEnd(token, from) \in from - 1..Len(token)
  BY <1>1, PartEndIs
<1>3. PartEnd(token, from) \in Nat /\ from \in Nat
  BY <1>1, <1>2
<1>4. ParsePart \in Converted \cup {None}
  BY <1>1, <1>3 DEF ParsePart, Converted
<1>. QED BY <1>1, <1>2, <1>4 DEF IsLastPart

\* What is added to a list is typed as it was.
LEMMA AddTyped ==
  ASSUME Typed, NEW rest \in Converted \cup {None}
  PROVE  AddTo(rest) \in [ok : BOOLEAN, list : Seq(Converted)]
<1>1. CASE ~result.ok \/ rest = None
  BY <1>1 DEF AddTo, Err
<1>2. CASE ~(~result.ok \/ rest = None)
  <2>1. result.list \in Seq(Converted) /\ rest \in Converted
    BY <1>2 DEF Typed
  <2>2. Append(result.list, rest) \in Seq(Converted)
    BY <2>1
  <2>. QED BY <1>2, <2>2 DEF AddTo, Ok
<1>. QED BY <1>1, <1>2

\* The types are kept by every step.
LEMMA TypedNext == Typed /\ [Next]_vars => Typed'
<1> SUFFICES ASSUME Typed, [Next]_vars PROVE Typed'
  OBVIOUS
<1>1. CASE Call
  <2>1. PICK value \in Given[parseValue] : token' = value
    BY <1>1 DEF Call
  <2>2. value \in Seq(Char) /\ Len(value) \in Nat
    BY <2>1, GivenTyped DEF Typed
  <2>3. Ok(<< >>) \in [ok : BOOLEAN, list : Seq(Converted)]
    BY DEF Ok
  <2>4. calls + 1 \in 0..MaxCalls
    BY <1>1, CallsAssumption DEF Call, Typed
  <2>. QED BY <1>1, <2>1, <2>2, <2>3, <2>4 DEF Call, Typed
<1>2. CASE Visit
  <2>1. /\ pc = "split" /\ from' = PartEnd(token, from) + 2 /\ result' = AddTo(ParsePart)
        /\ pc' = IF IsLastPart(token, from) THEN "merge" ELSE "split"
        /\ UNCHANGED <<parseValue, token, values, refused, calls>>
    BY <1>2 DEF Visit
  <2>2. AddTo(ParsePart) \in [ok : BOOLEAN, list : Seq(Converted)]
    BY <2>1, PartTyped, AddTyped
  <2>. QED BY <2>1, <2>2, PartTyped DEF Typed
<1>3. CASE Refuse
  BY <1>3 DEF Refuse, Typed
<1>4. CASE Merge
  <2>1. values \o result.list \in Seq(Converted)
    BY DEF Typed
  <2>. QED BY <1>4, <2>1 DEF Merge, Typed
<1>5. CASE UNCHANGED vars
  BY <1>5 DEF vars, Typed
<1>. QED BY <1>1, <1>2, <1>3, <1>4, <1>5 DEF Next

\* The variables always have their types.
LEMMA TypedInvariant == Spec => []Typed
<1>1. Init => Typed
  <2> SUFFICES ASSUME Init PROVE Typed
    OBVIOUS
  <2>1. << >> \in Seq(Char) /\ Len(<< >>) = 0 /\ << >> \in Seq(Converted)
    OBVIOUS
  <2>2. Ok(<< >>) \in [ok : BOOLEAN, list : Seq(Converted)]
    BY <2>1 DEF Ok
  <2>3. token = << >> /\ from = 1 /\ Len(token) = 0
    BY <2>1 DEF Init
  <2>4. from \in 1..Len(token) + 2
    BY <2>3
  <2>5. calls \in 0..MaxCalls
    BY CallsAssumption DEF Init
  <2>6. result \in [ok : BOOLEAN, list : Seq(Converted)] /\ values \in Seq(Converted)
    BY <2>1, <2>2 DEF Init
  <2>. QED BY <2>1, <2>3, <2>4, <2>5, <2>6 DEF Init, Typed
<1>. QED BY <1>1, TypedNext, PTL DEF Spec

\* No value that was refused gets into a list or into the values, and no part is
\* looked for behind the end of the token, whatever the value parsers do.
THEOREM TypeCorrect == Spec => []TypeOK
<1>1. Typed => TypeOK
  <2> SUFFICES ASSUME Typed PROVE TypeOK
    OBVIOUS
  <2>1. None \notin Converted
    BY DEF Converted
  <2>2. ASSUME NEW s \in Seq(Converted) PROVE None \notin ToSet(s)
    BY <2>1, <2>2 DEF ToSet
  <2>. QED BY <2>2 DEF Typed, TypeOK
<1>. QED BY <1>1, TypedInvariant, PTL

\* The list inside a result is not added to once an error has taken its place,
\* however many parts follow (multivalueParser.hpp:43-62).
THEOREM ErrorKeepsNoList == Spec => []ErrorLeavesNoList
<1>1. Init => ErrorLeavesNoList
  BY DEF Init, Ok, ErrorLeavesNoList
<1>2. ErrorLeavesNoList /\ [Next]_vars => ErrorLeavesNoList'
  <2> SUFFICES ASSUME ErrorLeavesNoList, [Next]_vars PROVE ErrorLeavesNoList'
    OBVIOUS
  <2>1. CASE Visit
    <3>1. \A rest : AddTo(rest).ok \/ AddTo(rest) = Err
      BY DEF AddTo, Ok
    <3>. QED BY <2>1, <3>1 DEF Visit, Err, ErrorLeavesNoList
  <2>. QED BY <2>1 DEF Next, Call, Refuse, Merge, vars, Ok, ErrorLeavesNoList
<1>. QED BY <1>1, <1>2, PTL DEF Spec

-----------------------------------------------------------------------------
(***************************************************************************)
(* Lists are taken whole or not at all                                     *)
(***************************************************************************)
\* Every value parser makes of a part of a token what it makes of it alone.
PartsReadAlone ==
  \A parser \in ValueParser : \A text \in Given[parser] : \A start \in 1..Len(text) + 1 :
    LET end == PartEnd(text, start)
    IN  ParseView(parser, text, start, end) = ParseText(parser, SubSeq(text, start, end))

\* What the parts of the token are converted to.
Texts == [n \in DOMAIN PartsOf(token) |-> ParseText(parseValue, PartsOf(token)[n])]

\* The list has the parts up to where the split is, unless one of them is refused.
SplitSoFar ==
  pc # "idle" =>
    /\ Starts(token, from)
    /\ result = IF \A n \in 1..Done(token, from) : Texts[n] # None
                THEN Ok([n \in 1..Done(token, from) |-> Texts[n]]) ELSE Err

\* A sequence that begins as a function does, made longer by its next value.
LEMMA Longer ==
  ASSUME NEW S, NEW f, NEW d \in Nat, [n \in 1..d |-> f[n]] \in Seq(S), f[d + 1] \in S
  PROVE  Append([n \in 1..d |-> f[n]], f[d + 1]) = [n \in 1..d + 1 |-> f[n]]
<1> DEFINE s == [n \in 1..d |-> f[n]]
           t == [n \in 1..d + 1 |-> f[n]]
<1>1. Len(s) = d
  OBVIOUS
<1>2. t \in Seq(S) /\ Len(t) = d + 1
  <2>1. \A n \in 1..d : s[n] \in S
    OBVIOUS
  <2>2. \A n \in 1..d + 1 : f[n] \in S
    BY <2>1
  <2>. QED BY <2>2
<1>3. Append(s, f[d + 1]) \in Seq(S) /\ Len(Append(s, f[d + 1])) = d + 1
  BY <1>1
<1>4. \A n \in 1..d + 1 : Append(s, f[d + 1])[n] = t[n]
  BY <1>1
<1>. QED BY <1>2, <1>3, <1>4

\* A part is the next one, and is converted as it is alone.
LEMMA PartIsNext ==
  ASSUME PartsReadAlone, Typed, SplitSoFar, pc = "split"
  PROVE  /\ Done(token, PartEnd(token, from) + 2) = Done(token, from) + 1
         /\ Starts(token, PartEnd(token, from) + 2)
         /\ ParsePart = Texts[Done(token, from) + 1]
<1>1. token \in Seq(Char) /\ from \in 1..Len(token) + 1 /\ parseValue \in ValueParser
      /\ token \in Given[parseValue] /\ Starts(token, from)
  BY DEF Typed, SplitSoFar
<1>2. ParsePart = ParseText(parseValue, SubSeq(token, from, PartEnd(token, from)))
  BY <1>1 DEF PartsReadAlone, ParsePart
<1>. QED BY <1>1, <1>2, NextPart DEF Texts

\* A step keeps what is known of the parts already read.
LEMMA SplitNext == PartsReadAlone /\ Typed /\ SplitSoFar /\ [Next]_vars => SplitSoFar'
<1> SUFFICES ASSUME PartsReadAlone, Typed, SplitSoFar, [Next]_vars PROVE SplitSoFar'
  OBVIOUS
<1>1. CASE Call
  <2>1. token' \in Seq(Char) /\ from' = 1 /\ result' = Ok(<< >>)
    BY <1>1, GivenTyped DEF Call, Typed
  <2>2. Done(token', from') = 0 /\ Starts(token', from')
    BY <2>1, DoneBounds DEF Starts
  <2>3. /\ \A n \in 1..Done(token', from') : Texts'[n] # None
        /\ [n \in 1..Done(token', from') |-> Texts'[n]] = << >>
    BY <2>2
  <2>4. SplitSoFar' = (pc' # "idle" =>
          /\ Starts(token', from')
          /\ result' = IF \A n \in 1..Done(token', from') : Texts'[n] # None
                       THEN Ok([n \in 1..Done(token', from') |-> Texts'[n]]) ELSE Err)
    BY DEF SplitSoFar
  <2>. QED BY <2>1, <2>2, <2>3, <2>4, Zenon
<1>2. CASE Visit
  <2> DEFINE d == Done(token, from)
             good(m) == \A n \in 1..m : Texts[n] # None
             list(m) == [n \in 1..m |-> Texts[n]]
  <2>1. /\ pc = "split" /\ from' = PartEnd(token, from) + 2 /\ result' = AddTo(ParsePart)
        /\ UNCHANGED <<parseValue, token>>
    BY <1>2 DEF Visit
  <2>2. /\ Done(token, from') = d + 1 /\ Starts(token, from')
        /\ ParsePart = Texts[d + 1] /\ ParsePart \in Converted \cup {None}
    BY <2>1, PartIsNext, PartTyped
  <2>3. d \in Nat
    BY DoneBounds DEF Typed
  <2>4. result = IF good(d) THEN Ok(list(d)) ELSE Err
    BY <2>1 DEF SplitSoFar
  <2>5. good(d + 1) <=> good(d) /\ Texts[d + 1] # None
    BY <2>3
  <2>6. AddTo(ParsePart) = IF good(d + 1) THEN Ok(list(d + 1)) ELSE Err
    <3>1. CASE good(d) /\ Texts[d + 1] # None
      <4>1. result = Ok(list(d)) /\ list(d) \in Seq(Converted)
        BY <2>4, <3>1 DEF Typed, Ok
      <4>2. Texts[d + 1] \in Converted
        BY <2>2, <3>1
      <4>3. Append(list(d), Texts[d + 1]) = list(d + 1)
        BY <2>3, <4>1, <4>2, Longer
      <4>. QED BY <2>2, <2>5, <3>1, <4>1, <4>3 DEF AddTo, Ok
    <3>2. CASE ~(good(d) /\ Texts[d + 1] # None)
      BY <2>2, <2>4, <2>5, <3>2 DEF AddTo, Err
    <3>. QED BY <3>1, <3>2
  <2>7. Texts' = Texts
    BY <2>1 DEF Texts
  <2>. QED BY <2>1, <2>2, <2>6, <2>7 DEF SplitSoFar
<1>3. CASE Refuse \/ Merge
  BY <1>3 DEF Refuse, Merge, SplitSoFar
<1>4. CASE UNCHANGED vars
  <2>1. UNCHANGED <<parseValue, pc, token, from, result>>
    BY <1>4 DEF vars
  <2>2. Texts' = Texts
    BY <2>1 DEF Texts
  <2>. QED BY <2>1, <2>2 DEF SplitSoFar
<1>. QED BY <1>1, <1>2, <1>3, <1>4 DEF Next

\* So it is always known of them.
LEMMA SplitInvariant == PartsReadAlone => (Spec => [](Typed /\ SplitSoFar))
<1> SUFFICES ASSUME PartsReadAlone PROVE Spec => [](Typed /\ SplitSoFar)
  OBVIOUS
<1>1. Init => SplitSoFar
  BY DEF Init, SplitSoFar
<1>2. Typed /\ SplitSoFar /\ [Next]_vars => SplitSoFar'
  BY SplitNext
<1>. QED BY <1>1, <1>2, TypedInvariant, PTL DEF Spec

\* What the abstract specification reads is what the state has, during a call.
LEMMA Reading ==
  ASSUME Typed, pc # "idle"
  PROVE  /\ (IF pc = "idle" THEN None ELSE token) = token /\ token # None
         /\ token \in AllGiven /\ DOMAIN Texts = DOMAIN PartsOf(token)
         /\ [text \in AllGiven |-> PartsOf(text)][token] = PartsOf(token)
         /\ \A n \in DOMAIN PartsOf(token) : Lists!Part(n) = Texts[n]
<1>1. token # None /\ token \in AllGiven /\ parseValue \in ValueParser
  BY GivenTyped DEF Typed, AllGiven
<1>2. [text \in AllGiven |-> PartsOf(text)][token] = PartsOf(token)
  BY <1>1
<1>3. ASSUME NEW n \in DOMAIN PartsOf(token) PROVE Lists!Part(n) = Texts[n]
  <2>1. PartsOf(token)[n] \in ToSet(PartsOf(token))
    BY <1>3 DEF ToSet
  <2>2. PartsOf(token)[n] \in AllParts
    BY <1>1, <2>1 DEF AllParts
  <2>3. [parser \in ValueParser |-> [part \in AllParts |-> ParseText(parser, part)]]
          [parseValue][PartsOf(token)[n]] = ParseText(parseValue, PartsOf(token)[n])
    BY <1>1, <2>2
  <2>4. Lists!Part(n) = [parser \in ValueParser |-> [part \in AllParts |-> ParseText(parser, part)]]
          [parseValue][PartsOf(token)[n]]
    BY <1>2 DEF Lists!Part
  <2>. QED BY <2>3, <2>4, <1>3 DEF Texts
<1>. QED BY <1>1, <1>2, <1>3 DEF Texts

\* At the end of the split the list is that of all parts.
LEMMA WholeList ==
  ASSUME Typed, SplitSoFar, pc = "merge"
  PROVE  /\ result.ok <=> \A n \in DOMAIN PartsOf(token) : Texts[n] # None
         /\ result.ok => result.list = [n \in DOMAIN PartsOf(token) |-> Texts[n]]
<1>1. token \in Seq(Char) /\ from = Len(token) + 2
  BY DEF Typed
<1>2. 1..Done(token, from) = DOMAIN PartsOf(token)
  BY <1>1, DoneBounds DEF PartsOf
<1>3. result = IF \A n \in 1..Done(token, from) : Texts[n] # None
               THEN Ok([n \in 1..Done(token, from) |-> Texts[n]]) ELSE Err
  BY DEF SplitSoFar
<1>4. result = IF \A n \in DOMAIN PartsOf(token) : Texts[n] # None
               THEN Ok([n \in DOMAIN PartsOf(token) |-> Texts[n]]) ELSE Err
  BY <1>2, <1>3
<1>. QED BY <1>4 DEF Ok, Err

\* Each step of a call is a step of ValueList, or splits on.
LEMMA StepMaps ==
  ASSUME Typed, SplitSoFar, [Next]_vars
  PROVE  [Lists!Next]_(Lists!vars)
<1>1. CASE Call
  <2>1. Lists!Give
    BY <1>1, GivenTyped DEF Call, Typed, Lists!Give
  <2>. QED BY <2>1 DEF Lists!Next
<1>2. CASE Visit
  BY <1>2 DEF Visit, Lists!vars
<1>3. CASE Refuse
  <2>1. pc = "merge" /\ ~result.ok /\ pc' = "idle"
    BY <1>3 DEF Refuse
  <2>2. ~Lists!AllParsed
    BY <2>1, WholeList, Reading DEF Lists!AllParsed
  <2>3. Lists!Refuse
    BY <1>3, <2>1, <2>2, Reading DEF Refuse, Lists!Refuse
  <2>. QED BY <2>3 DEF Lists!Next
<1>4. CASE Merge
  <2>1. pc = "merge" /\ result.ok /\ pc' = "idle"
    BY <1>4 DEF Merge
  <2>2. Lists!AllParsed
    BY <2>1, WholeList, Reading DEF Lists!AllParsed
  <2>3. [n \in DOMAIN PartsOf(token) |-> Lists!Part(n)] = result.list
    BY <2>1, WholeList, Reading
  <2>4. Lists!Take
    BY <1>4, <2>1, <2>2, <2>3, Reading DEF Merge, Lists!Take
  <2>. QED BY <2>4 DEF Lists!Next
<1>5. CASE UNCHANGED vars
  BY <1>5 DEF vars, Lists!vars
<1>. QED BY <1>1, <1>2, <1>3, <1>4, <1>5 DEF Next

\* The values are those of every accepted list, whole and in order, whatever the
\* value parsers are, as long as they read no further than the part they are given
\* (multivalueParser.hpp:42-83).
THEOREM ListsTakenWhole == PartsReadAlone => (Spec => ImplementsValueList)
<1> SUFFICES ASSUME PartsReadAlone PROVE Spec => ImplementsValueList
  OBVIOUS
<1>1. Init => Lists!Init
  BY DEF Init, Lists!Init
<1>2. Typed /\ SplitSoFar /\ [Next]_vars => [Lists!Next]_(Lists!vars)
  BY StepMaps
<1>. QED BY <1>1, <1>2, SplitInvariant, PTL DEF Spec, ImplementsValueList, Lists!Spec

-----------------------------------------------------------------------------
(***************************************************************************)
(* tryParse of integers and booleans reads its part only                   *)
(***************************************************************************)
\* The characters that strtoll reads on over.
InNumeral == Hexadecimal \cup {"x", "X", "-", "+", " "}

\* A number is made of such characters.
LEMMA MagnitudeChars ==
  ASSUME NEW S, NEW text \in Seq(S), IsMagnitude(text)
  PROVE  \A p \in 1..Len(text) : text[p] \in InNumeral
<1>1. Octal \subseteq InNumeral /\ Decimal \subseteq InNumeral /\ Hexadecimal \subseteq InNumeral
  BY DEF Octal, Decimal, Hexadecimal, InNumeral
<1>2. ASSUME ToSet(text) \subseteq InNumeral PROVE \A p \in 1..Len(text) : text[p] \in InNumeral
  BY <1>2 DEF ToSet
<1>3. ASSUME text[1] = "0", text[2] \in {"x", "X"}, \A p \in 3..Len(text) : text[p] \in Hexadecimal,
             NEW p \in 1..Len(text)
      PROVE  text[p] \in InNumeral
  <2>1. p = 1 \/ p = 2 \/ p \in 3..Len(text)
    OBVIOUS
  <2>2. "0" \in InNumeral /\ "x" \in InNumeral /\ "X" \in InNumeral
    BY DEF InNumeral, Hexadecimal, Decimal, Octal
  <2>. QED BY <1>1, <1>3, <2>1, <2>2
<1>. QED BY <1>1, <1>2, <1>3 DEF IsMagnitude

\* So is a numeral.
LEMMA NumeralChars ==
  ASSUME NEW S, NEW text \in Seq(S), IsNumeral(text)
  PROVE  \A p \in 1..Len(text) : text[p] \in InNumeral
<1>1. PICK b \in 0..Len(text) - 1 :
        /\ \A p \in 1..b : text[p] = " "
        /\ \/ IsMagnitude(SubSeq(text, b + 1, Len(text)))
           \/ text[b + 1] \in {"-", "+"} /\ IsMagnitude(SubSeq(text, b + 2, Len(text)))
  BY DEF IsNumeral
<1>2. ASSUME NEW m \in {b + 1, b + 2}, IsMagnitude(SubSeq(text, m, Len(text)))
      PROVE  \A p \in m..Len(text) : text[p] \in InNumeral
  <2>1. m \in 1..Len(text) + 1 /\ Len(text) \in Nat
    BY <1>2
  <2> DEFINE rest == SubSeq(text, m, Len(text))
  <2>2. /\ rest \in Seq(S) /\ Len(rest) = Len(text) - m + 1
        /\ \A q \in 1..Len(text) - m + 1 : rest[q] = text[m + q - 1]
    BY <2>1
  <2>3. \A q \in 1..Len(rest) : rest[q] \in InNumeral
    BY <1>2, <2>2, MagnitudeChars
  <2>4. ASSUME NEW p \in m..Len(text) PROVE text[p] \in InNumeral
    <3>1. p - m + 1 \in 1..Len(rest) /\ rest[p - m + 1] = text[p]
      BY <2>1, <2>2
    <3>. QED BY <2>3, <3>1
  <2>. QED BY <2>4
<1>3. " " \in InNumeral /\ "-" \in InNumeral /\ "+" \in InNumeral
  BY DEF InNumeral
<1>4. ASSUME NEW p \in 1..Len(text) PROVE text[p] \in InNumeral
  <2>1. p \in 1..b \/ p = b + 1 \/ p \in b + 2..Len(text)
    OBVIOUS
  <2>2. p \in 1..b \/ p \in b + 1..Len(text)
    OBVIOUS
  <2>3. CASE IsMagnitude(SubSeq(text, b + 1, Len(text)))
    BY <1>1, <1>2, <1>3, <2>2, <2>3
  <2>4. CASE text[b + 1] \in {"-", "+"} /\ IsMagnitude(SubSeq(text, b + 2, Len(text)))
    BY <1>1, <1>2, <1>3, <2>1, <2>4
  <2>. QED BY <1>1, <2>3, <2>4
<1>. QED BY <1>4

\* No numeral is longer than the part that it begins: a comma is in none.
LEMMA NumeralEnds ==
  ASSUME Comma \notin InNumeral, NEW text \in Seq(Char), NEW start \in 1..Len(text) + 1,
         NEW e \in start..Len(text), IsNumeral(SubSeq(text, start, e))
  PROVE  e <= PartEnd(text, start)
<1> DEFINE end == PartEnd(text, start)
           piece == SubSeq(text, start, e)
<1>1. /\ Len(text) \in Nat /\ e \in Nat /\ end \in Int /\ end \in start - 1..Len(text)
      /\ end + 1 \in Ends(text)
  <2>1. Len(text) \in Nat /\ start \in Int /\ start - 1 \in Int
    OBVIOUS
  <2>. QED BY <2>1, PartEndIs
<1>. HIDE DEF end
<1>2. SUFFICES ASSUME ~(e <= end) PROVE FALSE
  BY DEF end
<1>3. text[end + 1] = Comma
  BY <1>1, <1>2 DEF Ends, Commas
<1>4. /\ piece \in Seq(Char) /\ Len(piece) = e - start + 1
      /\ \A q \in 1..e - start + 1 : piece[q] = text[start + q - 1]
  BY <1>1
<1>5. end - start + 2 \in 1..Len(piece) /\ start + (end - start + 2) - 1 = end + 1
  BY <1>1, <1>2, <1>4
<1>6. piece[end - start + 2] = Comma
  BY <1>3, <1>4, <1>5
<1>7. Comma \in InNumeral
  <2>1. IsNumeral(piece)
    OBVIOUS
  <2>. HIDE DEF piece
  <2>. QED BY <1>4, <1>5, <1>6, <2>1, NumeralChars
<1>. QED BY <1>7

\* The beginnings of a part are those of the text from the start of the part on.
LEMMA PartBegins ==
  ASSUME NEW text \in Seq(Char), NEW start \in Nat \ {0}, NEW end \in Nat, end <= Len(text),
         NEW e \in start..end
  PROVE  SubSeq(SubSeq(text, start, end), 1, e - start + 1) = SubSeq(text, start, e)
<1> DEFINE part == SubSeq(text, start, end)
           s == SubSeq(part, 1, e - start + 1)
           t == SubSeq(text, start, e)
<1>1. /\ part \in Seq(Char) /\ Len(part) = end - start + 1
      /\ \A q \in 1..end - start + 1 : part[q] = text[start + q - 1]
  OBVIOUS
<1>2. /\ t \in Seq(Char) /\ Len(t) = e - start + 1
      /\ \A q \in 1..e - start + 1 : t[q] = text[start + q - 1]
  OBVIOUS
<1>3. /\ s \in Seq(Char) /\ Len(s) = e - start + 1
      /\ \A q \in 1..e - start + 1 : s[q] = part[q]
  <2>. HIDE DEF part
  <2>. QED BY <1>1
<1>4. \A q \in 1..e - start + 1 : s[q] = t[q]
  <2>. HIDE DEF part, s, t
  <2>. QED BY <1>1, <1>2, <1>3
<1>5. s = t
  <2>. HIDE DEF s, t, part
  <2>. QED BY <1>2, <1>3, <1>4, SeqEqual
<1>. QED BY <1>5

\* strtoll, which does not see where a part ends, finds the number that the part
\* alone begins with.
LEMMA IntegerAlone ==
  ASSUME Comma \notin InNumeral, NEW text \in Seq(Char), NEW start \in 1..Len(text) + 1
  PROVE  Strtoll(text, start) = Strtoll(SubSeq(text, start, PartEnd(text, start)), 1)
<1> DEFINE end  == PartEnd(text, start)
           part == SubSeq(text, start, end)
           A == {e \in start..Len(text) : IsNumeral(SubSeq(text, start, e))}
           B == {e \in 1..Len(part) : IsNumeral(SubSeq(part, 1, e))}
<1>1. /\ Len(text) \in Nat /\ start \in Nat \ {0} /\ end \in Nat /\ end <= Len(text)
      /\ end >= start - 1
  <2>1. Len(text) \in Nat /\ start \in Int /\ start - 1 \in Int
    OBVIOUS
  <2>2. end \in start - 1..Len(text)
    BY PartEndIs
  <2>. QED BY <2>1, <2>2
<1>. HIDE DEF end
<1>2. part \in Seq(Char) /\ Len(part) = end - start + 1
  BY <1>1
<1>3. \A e \in start..end : SubSeq(part, 1, e - start + 1) = SubSeq(text, start, e)
  BY <1>1, PartBegins
<1>4. \A e \in A : e \in start..end /\ e - start + 1 \in B
  <2>1. ASSUME NEW e \in A PROVE e \in start..end /\ e - start + 1 \in B
    <3>1. e \in start..Len(text) /\ IsNumeral(SubSeq(text, start, e))
      OBVIOUS
    <3>2. e \in start..end
      <4>1. e <= end
        BY <3>1, NumeralEnds DEF end
      <4>. QED BY <1>1, <3>1, <4>1
    <3>3. e - start + 1 \in 1..Len(part)
      BY <1>1, <1>2, <3>2
    <3>. QED BY <1>3, <3>1, <3>2, <3>3
  <2>. QED BY <2>1
<1>5. \A b \in B : b + start - 1 \in A
  <2>1. ASSUME NEW b \in B PROVE b + start - 1 \in A
    <3>1. b \in 1..Len(part) /\ IsNumeral(SubSeq(part, 1, b))
      OBVIOUS
    <3>2. b + start - 1 \in start..end /\ (b + start - 1) - start + 1 = b
      BY <1>1, <1>2, <3>1
    <3>3. SubSeq(part, 1, b) = SubSeq(text, start, b + start - 1)
      BY <1>3, <3>2
    <3>4. b + start - 1 \in start..Len(text)
      BY <1>1, <3>2
    <3>5. IsNumeral(SubSeq(text, start, b + start - 1))
      BY <3>1, <3>3
    <3>. QED BY <3>4, <3>5
  <2>. QED BY <2>1
<1>6. /\ Strtoll(text, start) = IF A = {} THEN None ELSE SubSeq(text, start, Max(A))
      /\ Strtoll(part, 1) = IF B = {} THEN None ELSE SubSeq(part, 1, Max(B))
  BY DEF Strtoll
<1>7. A \in SUBSET Nat /\ B \in SUBSET Nat
  BY <1>1, <1>2
<1>8. CASE A = {}
  <2>1. B = {}
    <3>. HIDE DEF A, B
    <3>. QED BY <1>5, <1>8
  <2>. HIDE DEF A, B, part
  <2>. QED BY <1>6, <1>8, <2>1 DEF part, end
<1>9. CASE A # {}
  <2>1. Max(A) \in A /\ \A e \in A : e <= Max(A)
    <3>1. \A e \in A : e <= end
      BY <1>1, <1>4
    <3>. HIDE DEF A, end
    <3>. QED BY <1>1, <1>7, <1>9, <3>1, MaxExists
  <2>2. Max(A) - start + 1 \in B /\ Max(A) \in start..end
    BY <1>4, <2>1
  <2>3. ASSUME NEW b \in B PROVE b <= Max(A) - start + 1
    <3>1. b + start - 1 <= Max(A) /\ b \in Nat
      BY <1>5, <1>7, <2>1
    <3>. QED BY <1>1, <2>2, <3>1
  <2>4. Max(B) = Max(A) - start + 1
    <3>. HIDE DEF A, B
    <3>. QED BY <1>7, <2>2, <2>3, MaxIs
  <2>5. B # {}
    BY <2>2
  <2>6. SubSeq(part, 1, Max(A) - start + 1) = SubSeq(text, start, Max(A))
    BY <1>3, <2>2
  <2>7. Strtoll(text, start) = Strtoll(part, 1)
    <3>. HIDE DEF A, B, part
    <3>. QED BY <1>6, <1>9, <2>4, <2>5, <2>6
  <2>. QED BY <2>7 DEF end
<1>. QED BY <1>8, <1>9

\* A prefix agrees with the sequence as far as it goes.
LEMMA PrefixIs ==
  ASSUME NEW S, NEW s \in Seq(S), NEW t \in Seq(S)
  PROVE  IsPrefix(s, t) <=> Len(s) <= Len(t) /\ \A p \in 1..Len(s) : s[p] = t[p]
<1> DEFINE n == Len(s)
           a == SubSeq(s, 1, n)
           b == SubSeq(t, 1, n)
<1>1. n \in Nat /\ Len(t) \in Nat
  OBVIOUS
<1>2. CASE n <= Len(t)
  <2>1. a \in Seq(S) /\ Len(a) = n /\ \A p \in 1..n : a[p] = s[p]
    OBVIOUS
  <2>2. b \in Seq(S) /\ Len(b) = n /\ \A p \in 1..n : b[p] = t[p]
    BY <1>2
  <2>3. a = b <=> \A p \in 1..n : a[p] = b[p]
    <3>. HIDE DEF a, b
    <3>. QED BY <2>1, <2>2, SeqEqual
  <2>. QED BY <1>2, <2>1, <2>2, <2>3 DEF IsPrefix
<1>3. CASE ~(n <= Len(t))
  BY <1>3 DEF IsPrefix
<1>. QED BY <1>2, <1>3

\* strncasecmp, limited to the shorter of the part and the word, compares the part.
LEMMA WordAlone ==
  ASSUME NEW text \in Seq(Char), NEW start \in Nat \ {0}, NEW end \in start - 1..Len(text),
         NEW W, NEW word \in Seq(W)
  PROVE  SameUpTo(text, start, word, CommonLength(end + 1 - start, word))
           <=> Agrees(SubSeq(text, start, end), word)
<1> DEFINE part == SubSeq(text, start, end)
           lowered == [p \in DOMAIN part |-> Lower[part[p]]]
           S == W \cup {Lower[char] : char \in Char}
           n == end + 1 - start
<1>1. Len(text) \in Nat /\ end \in Int /\ n \in Nat /\ Len(word) \in Nat
  OBVIOUS
<1>2. /\ part \in Seq(Char) /\ Len(part) = n
      /\ \A p \in 1..n : part[p] = text[start + p - 1]
  BY <1>1
<1>3. /\ lowered \in Seq(S) /\ Len(lowered) = n
      /\ \A p \in 1..n : lowered[p] = Lower[text[start + p - 1]]
  <2>. HIDE DEF part, n
  <2>. QED BY <1>1, <1>2
<1>4. word \in Seq(S)
  OBVIOUS
<1>5. \A p \in 1..n : CharAt(text, start + p - 1) = lowered[p]
  <2>1. \A p \in 1..n : start + p - 1 <= Len(text)
    BY <1>1
  <2>. QED BY <1>3, <2>1 DEF CharAt
<1>6. Agrees(part, word) <=> IsPrefix(lowered, word) \/ IsPrefix(word, lowered)
  BY DEF Agrees
<1>. HIDE DEF part, lowered, n, S
<1>7. /\ IsPrefix(lowered, word) <=> n <= Len(word) /\ \A p \in 1..n : lowered[p] = word[p]
      /\ IsPrefix(word, lowered) <=> Len(word) <= n /\ \A p \in 1..Len(word) : word[p] = lowered[p]
  BY <1>3, <1>4, PrefixIs
<1>8. CASE n < Len(word)
  <2>1. CommonLength(n, word) = n
    BY <1>8 DEF CommonLength
  <2>. QED BY <1>1, <1>5, <1>6, <1>7, <1>8, <2>1 DEF SameUpTo, part, n
<1>9. CASE ~(n < Len(word))
  <2>1. CommonLength(n, word) = Len(word)
    BY <1>9 DEF CommonLength
  <2>2. \A p \in 1..Len(word) : p \in 1..n
    BY <1>1, <1>9
  <2>3. n = Len(word) => (IsPrefix(lowered, word) <=> IsPrefix(word, lowered))
    BY <1>7, <1>1
  <2>4. IsPrefix(lowered, word) => n = Len(word)
    BY <1>1, <1>7, <1>9
  <2>5. SameUpTo(text, start, word, Len(word)) <=> \A p \in 1..Len(word) : lowered[p] = word[p]
    BY <1>5, <2>2 DEF SameUpTo
  <2>. QED BY <1>1, <1>6, <1>7, <1>9, <2>1, <2>3, <2>4, <2>5 DEF part, n
<1>. QED BY <1>8, <1>9

\* tryParseBoolean makes of a view into a text what it makes of the text between
\* its ends, wherever they are and whatever comes after it (parseUtils.cpp:107-120).
THEOREM BooleanAlone ==
  ASSUME NEW text \in Seq(Char), NEW start \in Nat \ {0}, NEW end \in start - 1..Len(text)
  PROVE  TryParseBoolean(text, start, end) = BooleanOf(SubSeq(text, start, end))
<1> DEFINE part == SubSeq(text, start, end)
           same(word) == SameUpTo(text, start, word, CommonLength(end + 1 - start, word))
<1>1. TrueWord \in Seq({"t", "r", "u", "e"}) /\ FalseWord \in Seq({"f", "a", "l", "s", "e"})
  BY DEF TrueWord, FalseWord
<1>2. same(TrueWord) <=> Agrees(part, TrueWord)
  BY <1>1, WordAlone
<1>3. same(FalseWord) <=> Agrees(part, FalseWord)
  BY <1>1, WordAlone
<1>4. Is(text, start, end, "1", TrueWord) <=> part = <<"1">> \/ Agrees(part, TrueWord)
  BY <1>2 DEF Is
<1>5. Is(text, start, end, "0", FalseWord) <=> part = <<"0">> \/ Agrees(part, FalseWord)
  BY <1>3 DEF Is
<1>. HIDE DEF part
<1>6. TryParseBoolean(text, start, end) = BooleanOf(part)
  BY <1>4, <1>5 DEF TryParseBoolean, BooleanOf
<1>. QED BY <1>6 DEF part

\* The value parsers are tryParse of integers and booleans, and no number goes on
\* over a comma.
UsesTryParse ==
  /\ Comma \notin InNumeral
  /\ \A parser \in ValueParser : \A text \in Seq(Char) :
       /\ \A start, end \in Nat :
            ParseView(parser, text, start, end) = TryParseView(parser, text, start, end)
       /\ ParseText(parser, text) = TryParseText(parser, text)

\* tryParse makes of a part what it makes of the part alone.
LEMMA TryParseAlone == UsesTryParse => PartsReadAlone
<1> SUFFICES ASSUME UsesTryParse,
                    NEW parser \in ValueParser, NEW text \in Given[parser], NEW start \in 1..Len(text) + 1
             PROVE  ParseView(parser, text, start, PartEnd(text, start))
                      = ParseText(parser, SubSeq(text, start, PartEnd(text, start)))
  BY DEF PartsReadAlone
<1> DEFINE end == PartEnd(text, start)
           part == SubSeq(text, start, end)
<1>1. text \in Seq(Char) /\ Len(text) \in Nat
  BY GivenTyped
<1>2. start \in Nat \ {0} /\ end \in start - 1..Len(text) /\ end \in Nat
  <2>1. start \in Nat \ {0} /\ start - 1 \in Nat
    BY <1>1
  <2>2. end \in start - 1..Len(text)
    BY <1>1, PartEndIs
  <2>. QED BY <1>1, <2>1, <2>2
<1>3. part \in Seq(Char)
  BY <1>1, <1>2
<1>4. /\ ParseView(parser, text, start, end) = TryParseView(parser, text, start, end)
      /\ ParseText(parser, part) = TryParseText(parser, part)
  BY <1>1, <1>2, <1>3 DEF UsesTryParse
<1>5. Strtoll(text, start) = Strtoll(part, 1)
  BY <1>1, IntegerAlone DEF UsesTryParse
<1>6. TryParseBoolean(text, start, end) = BooleanOf(part)
  BY <1>1, <1>2, BooleanAlone
<1>7. TryParseView(parser, text, start, end) = TryParseText(parser, part)
  BY <1>5, <1>6 DEF TryParseView, TryParseText
<1>. QED BY <1>4, <1>7

\* tryParse of an integer or boolean makes of a part of a list what it makes of it
\* alone, although it does not see where the part ends (parseUtils.cpp:56, 109-115).
THEOREM TryParseReadsItsPart == UsesTryParse => (Spec => []ReadsItsPartOnly)
<1> SUFFICES ASSUME UsesTryParse PROVE Spec => []ReadsItsPartOnly
  OBVIOUS
<1>1. Typed => ReadsItsPartOnly
  <2> SUFFICES ASSUME Typed, pc = "split"
               PROVE  ParsePart = ParseText(parseValue, SubSeq(token, from, PartEnd(token, from)))
    BY DEF ReadsItsPartOnly
  <2>1. parseValue \in ValueParser /\ token \in Given[parseValue] /\ from \in 1..Len(token) + 1
    BY DEF Typed
  <2>. QED BY <2>1, TryParseAlone DEF PartsReadAlone, ParsePart
<1>. QED BY <1>1, TypedInvariant, PTL

\* With these value parsers lists are taken whole or not at all, whatever they are.
THEOREM TryParseListsTakenWhole == UsesTryParse => (Spec => ImplementsValueList)
BY TryParseAlone, ListsTakenWhole

=============================================================================
