-------------------------- MODULE OptionScanProofs --------------------------
(***************************************************************************)
(* Proofs about OptionScan, for tokens of any length over any characters.  *)
(***************************************************************************)
EXTENDS OptionScan, SequenceTheorems, WellFoundedInduction, TLAPS

IInv == TypeOK /\ NoSeparatorPassed /\ ScanSplitsAtFirstSeparator

\* The characters of a token and the start of its name: a token of the option
\* loop starts with the prefix, so the name starts within it or right after it.
LEMMA TokenFacts ==
  ASSUME TypeOK
  PROVE  /\ arg \in Seq(Char) /\ Len(arg) \in Nat
         /\ startIndex \in {2, 3} /\ startIndex = NameStart(arg)
         /\ endIndex \in Int /\ endIndex >= startIndex
<1>1. arg \in Seq(Char)
  BY ArgsAssumption DEF TypeOK
<1>2. Len(arg) \in Nat
  BY <1>1
<1>3. startIndex \in {2, 3} /\ startIndex = NameStart(arg)
  BY DEF TypeOK, NameStart
<1>4. endIndex \in Int /\ endIndex >= startIndex
  BY <1>2, <1>3 DEF TypeOK
<1>. QED BY <1>1, <1>2, <1>3, <1>4

\* A part of a token is a text.
LEMMA PartOfToken ==
  ASSUME NEW token \in Seq(Char), NEW m \in Int, NEW n \in Int, 1 <= m, n <= Len(token)
  PROVE  SubSeq(token, m, n) \in Seq(Char)
<1>1. \A p \in m..n : token[p] \in Char
  OBVIOUS
<1>. QED BY <1>1, SubSeqProperties

\* The pair that parseOption is to return is a pair of character sequences.
LEMMA PairType ==
  ASSUME NEW n \in Seq(Char), NEW v \in Seq(Char) \cup {None}
  PROVE  [name |-> n, value |-> v] \in [name : Seq(Char), value : Seq(Char) \cup {None}]
OBVIOUS

\* The pair of a token without separator.
LEMMA SplitOfName ==
  ASSUME NEW token, Separators(token) = {}
  PROVE  ParseOption(token) = [name |-> SubSeq(token, NameStart(token), Len(token)), value |-> None]
BY DEF ParseOption

\* A separator that none precedes is the least one.
LEMMA LeastSeparator ==
  ASSUME NEW token, Len(token) \in Nat, NameStart(token) \in Int,
         NEW p \in Separators(token),
         \A q \in NameStart(token)..p - 1 : token[q] # Separator
  PROVE  Min(Separators(token)) = p
<1>1. p \in Int /\ \A q \in Separators(token) : q \in Int /\ p <= q
  BY DEF Separators
<1>2. \A r \in Separators(token) : (\A y \in Separators(token) : r <= y) => r = p
  BY <1>1
<1>. QED BY <1>1, <1>2 DEF Min

\* The loop starts at the start of the name.
LEMMA InitInvariant == Init => IInv
<1> SUFFICES ASSUME Init PROVE IInv
  OBVIOUS
<1>1. startIndex \in {2, 3}
  BY DEF Init, NameStart
<1>2. TypeOK
  BY DEF Init, TypeOK
<1>3. NoSeparatorPassed
  BY <1>1 DEF Init, NoSeparatorPassed
<1>4. ScanSplitsAtFirstSeparator
  BY DEF Init, ScanSplitsAtFirstSeparator
<1>. QED BY <1>2, <1>3, <1>4 DEF IInv

\* A token of nothing but prefix characters has no separator.
LEMMA NoNameInvariant == IInv /\ NoName => IInv'
<1> SUFFICES ASSUME IInv, NoName PROVE IInv'
  OBVIOUS
<1> USE TokenFacts DEF IInv, NoName
<1>1. << >> \in Seq(Char) /\ result' = [name |-> << >>, value |-> None]
  OBVIOUS
<1>2. TypeOK'
  BY <1>1 DEF TypeOK
<1>3. NoSeparatorPassed'
  BY DEF NoSeparatorPassed
<1>4. Separators(arg) = {}
  BY DEF Separators
<1>5. SubSeq(arg, NameStart(arg), Len(arg)) = << >>
  BY SubSeqEmpty
<1>6. result' = ParseOption(arg')
  BY <1>1, <1>4, <1>5, SplitOfName
<1>. QED BY <1>2, <1>3, <1>6 DEF ScanSplitsAtFirstSeparator

\* One iteration of the loop passes a character that is no separator.
LEMMA NextCharInvariant == IInv /\ NextChar => IInv'
<1> SUFFICES ASSUME IInv, NextChar PROVE IInv'
  OBVIOUS
<1> USE TokenFacts DEF IInv, NextChar
<1>1. TypeOK'
  BY DEF TypeOK, InName
<1>2. NoSeparatorPassed'
  BY DEF NoSeparatorPassed, InName
<1>3. ScanSplitsAtFirstSeparator'
  BY DEF ScanSplitsAtFirstSeparator
<1>. QED BY <1>1, <1>2, <1>3

\* Where the loop stops is the first separator, or the end of the token.
LEMMA ReturnPairInvariant == IInv /\ ReturnPair => IInv'
<1> SUFFICES ASSUME IInv, ReturnPair PROVE IInv'
  OBVIOUS
<1> USE TokenFacts DEF IInv, ReturnPair
<1>1. Len(arg) + 1 - 1 = Len(arg)
  OBVIOUS
<1>2. CASE endIndex <= Len(arg)
  <2>1. result' = [name  |-> SubSeq(arg, startIndex, endIndex - 1),
                   value |-> SubSeq(arg, endIndex + 1, Len(arg))]
    BY <1>1, <1>2 DEF Substring
  <2>2. endIndex \in Separators(arg)
    BY <1>2 DEF InName, Separators
  <2>3. \A q \in NameStart(arg)..endIndex - 1 : arg[q] # Separator
    BY DEF NoSeparatorPassed
  <2>4. Min(Separators(arg)) = endIndex
    BY <2>2, <2>3, LeastSeparator
  <2>5. result' = ParseOption(arg)
    BY <2>1, <2>2, <2>4 DEF ParseOption
  <2>6. result' \in [name : Seq(Char), value : Seq(Char) \cup {None}]
    <3>1. SubSeq(arg, startIndex, endIndex - 1) \in Seq(Char)
      BY <1>2, PartOfToken
    <3>2. SubSeq(arg, endIndex + 1, Len(arg)) \in Seq(Char)
      BY <1>2, PartOfToken
    <3>. QED BY <2>1, <3>1, <3>2, PairType
  <2>. QED BY <2>5, <2>6 DEF TypeOK, NoSeparatorPassed, ScanSplitsAtFirstSeparator
<1>3. CASE endIndex > Len(arg)
  <2>1. result' = [name |-> SubSeq(arg, startIndex, Len(arg)), value |-> None]
    BY <1>1, <1>3 DEF Substring
  <2>2. Separators(arg) = {}
    BY <1>3 DEF NoSeparatorPassed, Separators
  <2>3. result' = ParseOption(arg)
    BY <2>1, <2>2, SplitOfName
  <2>4. result' \in [name : Seq(Char), value : Seq(Char) \cup {None}]
    <3>1. SubSeq(arg, startIndex, Len(arg)) \in Seq(Char)
      BY PartOfToken
    <3>. QED BY <2>1, <3>1, PairType
  <2>. QED BY <2>3, <2>4 DEF TypeOK, NoSeparatorPassed, ScanSplitsAtFirstSeparator
<1>. QED BY <1>2, <1>3

\* Every step of the loop keeps the invariant.
LEMMA NextInvariant == IInv /\ [Next]_vars => IInv'
<1> SUFFICES ASSUME IInv, [Next]_vars PROVE IInv'
  OBVIOUS
<1>1. CASE UNCHANGED vars
  BY <1>1 DEF vars, IInv, TypeOK, NoSeparatorPassed, ScanSplitsAtFirstSeparator
<1>. QED BY <1>1, NoNameInvariant, NextCharInvariant, ReturnPairInvariant DEF Next

-----------------------------------------------------------------------------
\* A token of nothing but prefix characters ends before its name starts.
LEMMA NoNameLength ==
  ASSUME TypeOK, startIndex > Len(arg)
  PROVE  startIndex = Len(arg) + 1
<1>1. arg \in Seq(Char) /\ arg # << >> /\ startIndex = NameStart(arg)
  BY ArgsAssumption DEF TypeOK, StartsWith
<1>2. Len(arg) \in Nat \ {0}
  BY <1>1
<1>3. CASE StartsWith(Tail(arg), Prefix)
  <2>1. Tail(arg) \in Seq(Char) /\ Len(Tail(arg)) = Len(arg) - 1 /\ Tail(arg) # << >>
    BY <1>1, <1>3, HeadTailProperties DEF StartsWith
  <2>. QED BY <1>1, <1>2, <1>3, <2>1 DEF NameStart
<1>4. CASE ~StartsWith(Tail(arg), Prefix)
  BY <1>1, <1>2, <1>4 DEF NameStart
<1>. QED BY <1>3, <1>4

\* Whichever way the loop ends, the pair it returns and the characters it passed
\* over are the whole token.
LEMMA NothingLostNext ==
  ASSUME IInv, NothingLost, [Next]_vars
  PROVE  NothingLost'
<1> USE TokenFacts DEF IInv
<1>1. CASE NoName
  <2>1. /\ arg' = arg /\ startIndex' = startIndex /\ startIndex = Len(arg) + 1
        /\ result'.name = << >> /\ result'.value = None
    BY <1>1, NoNameLength DEF NoName
  <2>2. startIndex - 1 = Len(arg)
    BY <2>1
  <2>3. SubSeq(arg, 1, startIndex - 1) = arg
    BY <2>2, SubSeqFull
  <2>. QED BY <2>1, <2>3, ConcatEmptySeq DEF NothingLost
<1>2. CASE NextChar
  BY <1>2 DEF NextChar, NothingLost
<1>3. CASE ReturnPair
  <2> DEFINE before == SubSeq(arg, 1, startIndex - 1)
  <2>1. Len(arg) + 1 - 1 = Len(arg)
    OBVIOUS
  <2>2. arg' = arg /\ startIndex' = startIndex /\ startIndex <= Len(arg)
    BY <1>3 DEF ReturnPair
  <2>3. CASE endIndex <= Len(arg)
    <3>1. /\ result' = [name  |-> SubSeq(arg, startIndex, endIndex - 1),
                       value |-> SubSeq(arg, endIndex + 1, Len(arg))]
          /\ arg[endIndex] = Separator
      BY <1>3, <2>1, <2>3 DEF ReturnPair, Substring, InName
    <3>2. SubSeq(arg, endIndex + 1, Len(arg)) # None
      <4>1. SubSeq(arg, endIndex + 1, Len(arg)) \in Seq(Char)
        BY <2>3, PartOfToken
      <4>. QED BY <4>1, CharAssumption
    <3>3. before \o SubSeq(arg, startIndex, endIndex - 1) = SubSeq(arg, 1, endIndex - 1)
      <4>1. /\ 1 \in 1..Len(arg) + 1 /\ startIndex - 1 \in 1 - 1..Len(arg)
            /\ endIndex - 1 \in startIndex - 1..Len(arg) /\ (startIndex - 1) + 1 = startIndex
        BY <2>3
      <4>2. SubSeq(arg, 1, startIndex - 1) \o SubSeq(arg, (startIndex - 1) + 1, endIndex - 1)
              = SubSeq(arg, 1, endIndex - 1)
        BY <4>1, ConcatAdjacentSubSeq
      <4>. QED BY <4>1, <4>2
    <3>4. <<Separator>> \o SubSeq(arg, endIndex + 1, Len(arg)) = SubSeq(arg, endIndex, Len(arg))
      <4>1. endIndex \in 1..Len(arg) /\ Len(arg) \in endIndex..Len(arg)
        BY <2>3
      <4>. QED BY <3>1, <4>1, SubSeqRecursiveFirst
    <3>5. SubSeq(arg, 1, endIndex - 1) \o SubSeq(arg, endIndex, Len(arg)) = arg
      <4>1. /\ 1 \in 1..Len(arg) + 1 /\ endIndex - 1 \in 1 - 1..Len(arg)
            /\ Len(arg) \in endIndex - 1..Len(arg) /\ (endIndex - 1) + 1 = endIndex
        BY <2>3
      <4>2. SubSeq(arg, 1, endIndex - 1) \o SubSeq(arg, (endIndex - 1) + 1, Len(arg))
              = SubSeq(arg, 1, Len(arg))
        BY <4>1, ConcatAdjacentSubSeq
      <4>. QED BY <4>1, <4>2, SubSeqFull
    <3>. QED BY <2>2, <3>1, <3>2, <3>3, <3>4, <3>5 DEF NothingLost
  <2>4. CASE endIndex > Len(arg)
    <3>1. result' = [name |-> SubSeq(arg, startIndex, Len(arg)), value |-> None]
      BY <1>3, <2>1, <2>4 DEF ReturnPair, Substring
    <3>2. before \o SubSeq(arg, startIndex, Len(arg)) = arg
      <4>1. /\ 1 \in 1..Len(arg) + 1 /\ startIndex - 1 \in 1 - 1..Len(arg)
            /\ Len(arg) \in startIndex - 1..Len(arg) /\ (startIndex - 1) + 1 = startIndex
        BY <2>2
      <4>2. SubSeq(arg, 1, startIndex - 1) \o SubSeq(arg, (startIndex - 1) + 1, Len(arg))
              = SubSeq(arg, 1, Len(arg))
        BY <4>1, ConcatAdjacentSubSeq
      <4>. QED BY <4>1, <4>2, SubSeqFull
    <3>. QED BY <2>2, <3>1, <3>2, ConcatEmptySeq DEF NothingLost
  <2>. QED BY <2>3, <2>4
<1>4. CASE UNCHANGED vars
  BY <1>4 DEF vars, NothingLost
<1>. QED BY <1>1, <1>2, <1>3, <1>4 DEF Next

-----------------------------------------------------------------------------
\* The invariant holds of every scan.
LEMMA Invariant == Spec => []IInv
BY InitInvariant, NextInvariant, PTL DEF Spec

\* The loop of parseOption reads no character outside of the token, and returns a
\* pair of character sequences.
THEOREM TypeCorrect == Spec => []TypeOK
BY Invariant, PTL DEF IInv

\* No separator lies between the start of the name and the index of the loop.
THEOREM NoSeparatorEverPassed == Spec => []NoSeparatorPassed
BY Invariant, PTL DEF IInv

\* The scan of parseOption splits every token as its definition says, at the
\* first separator of the name.
THEOREM ScanCorrect == Spec => []ScanSplitsAtFirstSeparator
BY Invariant, PTL DEF IInv

\* The pair returned, written back after the prefix, is the token.
THEOREM NothingEverLost == Spec => []NothingLost
<1>1. Init => NothingLost
  BY DEF Init, NothingLost
<1>. QED BY <1>1, Invariant, NothingLostNext, PTL DEF Spec

-----------------------------------------------------------------------------
(***************************************************************************)
(* The tokens of a parse                                                   *)
(***************************************************************************)

\* The texts that are split are not empty, and the name starts behind the prefix,
\* at most one past the end.
LEMMA NameStartsInside ==
  ASSUME NEW token \in Seq(Char), StartsWith(token, Prefix)
  PROVE  Len(token) \in Nat \ {0} /\ NameStart(token) \in {2, 3} /\ NameStart(token) <= Len(token) + 1
<1>1. token # << >> /\ Len(token) \in Nat \ {0}
  BY EmptySeq DEF StartsWith
<1>2. Tail(token) # << >> => Len(token) >= 2
  <2>1. Tail(token) \in Seq(Char) /\ Len(Tail(token)) = Len(token) - 1
    BY <1>1, HeadTailProperties
  <2>. QED BY <1>1, <2>1, EmptySeq
<1>. QED BY <1>1, <1>2 DEF NameStart, StartsWith

\* Whatever the prefix, the separator and the texts are, the name of a flag is a
\* text and its value is a text or none, and the empty text is no flag: parseOption
\* gives the parser tokens such as CommandTree supposes (parser.cpp:62-78).
THEOREM FlagsSplitIntoTexts ==
  LET flags == {token \in Seq(Char) : StartsWith(token, Prefix)} IN
  /\ << >> \notin flags
  /\ [token \in flags |-> ParseOption(token).name] \in [flags -> Seq(Char)]
  /\ [token \in flags |-> ParseOption(token).value] \in [flags -> Seq(Char) \cup {None}]
<1>1. ASSUME NEW token \in Seq(Char), StartsWith(token, Prefix)
      PROVE  ParseOption(token).name \in Seq(Char) /\ ParseOption(token).value \in Seq(Char) \cup {None}
  <2>1. /\ Len(token) \in Nat \ {0} /\ NameStart(token) \in Int
        /\ NameStart(token) >= 2 /\ NameStart(token) <= Len(token) + 1
    BY <1>1, NameStartsInside
  <2>2. CASE Separators(token) = {}
    <3>1. SubSeq(token, NameStart(token), Len(token)) \in Seq(Char)
      BY <2>1, PartOfToken
    <3>2. ParseOption(token) = [name |-> SubSeq(token, NameStart(token), Len(token)), value |-> None]
      BY <2>2, SplitOfName
    <3>. QED BY <3>1, <3>2
  <2>3. CASE Separators(token) # {}
    <3> DEFINE p == Min(Separators(token))
    <3>1. Separators(token) \in SUBSET Nat
      BY <2>1 DEF Separators
    <3>2. p \in Separators(token)
      <4>1. PICK m \in Separators(token) : \A q \in Separators(token) : ~(<<q, m>> \in OpToRel(<, Nat))
        BY <2>3, <3>1, NatLessThanWellFounded, WFMin
      <4>2. ASSUME NEW q \in Separators(token) PROVE m <= q
        <5>1. q \in Nat /\ m \in Nat
          BY <3>1
        <5>2. ~(q < m)
          BY <4>1, <5>1 DEF OpToRel
        <5>. QED BY <5>1, <5>2
      <4>. QED BY <3>1, <4>2 DEF Min
    <3>3. p \in Int /\ p >= 2 /\ p <= Len(token)
      BY <2>1, <3>2 DEF Separators
    <3>. HIDE DEF p
    <3>4. SubSeq(token, NameStart(token), p - 1) \in Seq(Char)
      <4>1. p - 1 \in Int /\ p - 1 <= Len(token) /\ NameStart(token) \in Int /\ 1 <= NameStart(token)
        BY <2>1, <3>3
      <4>. QED BY <4>1, PartOfToken
    <3>5. SubSeq(token, p + 1, Len(token)) \in Seq(Char)
      <4>1. p + 1 \in Int /\ 1 <= p + 1 /\ Len(token) \in Int /\ Len(token) <= Len(token)
        BY <2>1, <3>3
      <4>. QED BY <4>1, PartOfToken
    <3>6. ParseOption(token) = [name  |-> SubSeq(token, NameStart(token), p - 1),
                                value |-> SubSeq(token, p + 1, Len(token))]
      BY <2>3 DEF ParseOption, p
    <3>. QED BY <3>4, <3>5, <3>6
  <2>. QED BY <2>2, <2>3
<1>. QED BY <1>1 DEF StartsWith
=============================================================================
