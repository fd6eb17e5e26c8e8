--------------------------- MODULE HelpPageProofs ---------------------------
(***************************************************************************)
(* Proofs about HelpPage, for options with any names, any prefix and any   *)
(* separator.                                                              *)
(***************************************************************************)
EXTENDS HelpPage, SequenceTheorems, WellFoundedInduction, TLAPS

-----------------------------------------------------------------------------
(***************************************************************************)
(* A flag and what parseOption makes of it                                 *)
(***************************************************************************)

\* What is at each place of a concatenation.
LEMMA Joined ==
  ASSUME NEW pre \in Seq(Char), NEW name \in Seq(Char)
  PROVE  /\ pre \o name \in Seq(Char) /\ Len(pre \o name) = Len(pre) + Len(name)
         /\ \A p \in 1..Len(pre) + Len(name) :
              (pre \o name)[p] = IF p <= Len(pre) THEN pre[p] ELSE name[p - Len(pre)]
BY ConcatProperties

\* What is behind the first character.
LEMMA Rest ==
  ASSUME NEW token \in Seq(Char), token # << >>
  PROVE  /\ Tail(token) \in Seq(Char) /\ Len(Tail(token)) = Len(token) - 1
         /\ \A p \in 1..Len(token) - 1 : Tail(token)[p] = token[p + 1]
BY HeadTailProperties

\* The head of a text that is not empty is its first character.
LEMMA FirstCharacter ==
  ASSUME NEW text \in Seq(Char), NEW l \in Nat, Len(text) = l + 1
  PROVE  text # << >> /\ Head(text) = text[1]
<1>1. Len(<< >>) = 0
  OBVIOUS
<1>2. text # << >>
  BY <1>1
<1>. QED BY <1>2

\* In a token of two characters the second is what follows the first.
LEMMA SecondCharacter ==
  ASSUME NEW token \in Seq(Char), Len(token) = 2
  PROVE  Head(Tail(token)) = token[2]
<1>1. token # << >>
  BY FirstCharacter
<1>2. PICK rest \in Seq(Char) :
        rest = Tail(token) /\ Len(rest) = 1 /\ \A p \in 1..1 : rest[p] = token[p + 1]
  <2>1. /\ Tail(token) \in Seq(Char) /\ Len(Tail(token)) = Len(token) - 1
        /\ \A p \in 1..Len(token) - 1 : Tail(token)[p] = token[p + 1]
    BY <1>1, Rest
  <2>2. Len(token) - 1 = 1
    OBVIOUS
  <2>. QED BY <2>1, <2>2
<1>3. rest[1] = token[2]
  BY <1>2
<1>4. Head(rest) = rest[1]
  <2>1. Len(rest) = 0 + 1
    BY <1>2
  <2>. QED BY <2>1, FirstCharacter
<1>. QED BY <1>2, <1>3, <1>4

\* A flag is a token of the characters of its name and of the prefix.
LEMMA FlagIsName ==
  ASSUME NEW name \in Name
  PROVE  Flag(name) \in Name
<1>1. <<Prefix>> \in Name /\ <<Prefix, Prefix>> \in Name
  BY CharAssumption DEF Name
<1>. QED BY <1>1, ConcatProperties DEF Flag, Name

\* A token without a separator has its name to the end, and no value.
LEMMA NameToEnd ==
  ASSUME NEW token, Separators(token) = {}
  PROVE  ParseOption(token) = [name |-> SubSeq(token, NameStart(token), Len(token)), value |-> None]
BY DEF ParseOption

\* A token of prefix characters and a name: if the name starts where they end,
\* it is what parseOption returns.
LEMMA PrefixedName ==
  ASSUME NEW name \in Name, NEW pre \in Name,
         NameStart(pre \o name) = Len(pre) + 1,
         \A p \in DOMAIN name : name[p] # Separator
  PROVE  ParseOption(pre \o name) = [name |-> name, value |-> None]
<1> DEFINE token == pre \o name
           rest  == SubSeq(token, Len(pre) + 1, Len(token))
<1>1. pre \in Seq(Char) /\ name \in Seq(Char) /\ Len(pre) \in Nat /\ Len(name) \in Nat
  BY DEF Name
<1>2. /\ token \in Seq(Char) /\ Len(token) = Len(pre) + Len(name)
      /\ \A p \in 1..Len(pre) + Len(name) :
           token[p] = IF p <= Len(pre) THEN pre[p] ELSE name[p - Len(pre)]
  BY <1>1, Joined
<1>. HIDE DEF token
<1>3. Separators(token) = {}
  BY <1>1, <1>2 DEF Separators, token
<1>4. /\ rest \in Seq(Char) /\ Len(rest) = Len(name)
      /\ \A p \in 1..Len(name) : rest[p] = token[p + Len(pre)]
  <2>1. \A p \in Len(pre) + 1..Len(token) : token[p] \in Char
    BY <1>1, <1>2
  <2>2. Len(token) \in Int /\ Len(pre) + 1 \in Int
    BY <1>1, <1>2
  <2>. QED BY <1>1, <1>2, <2>1, <2>2, SubSeqProperties
<1>5. \A p \in 1..Len(rest) : rest[p] = name[p]
  BY <1>1, <1>2, <1>4
<1>6. rest = name
  BY <1>1, <1>4, <1>5, SeqEqual
<1>. QED BY <1>3, <1>6, NameToEnd DEF token

\* The flag of a name of one character that is not the prefix.
LEMMA ShortFlagUnderstood ==
  ASSUME NEW name \in Name, Len(name) = 1, CanBeShown(name)
  PROVE  Understood(Flag(name), name)
<1> DEFINE pre == <<Prefix>>
           token == pre \o name
<1>1. pre \in Seq(Char) /\ name \in Seq(Char) /\ Len(pre) = 1 /\ pre[1] = Prefix
  BY CharAssumption DEF Name
<1>2. Flag(name) = token
  BY DEF Flag
<1>3. name[1] # Prefix
  <2>1. name = <<name[1]>>
    BY <1>1
  <2>. QED BY <2>1 DEF CanBeShown
<1>. HIDE DEF pre
<1>4. /\ token \in Seq(Char) /\ Len(token) = 2
      /\ \A p \in 1..2 : token[p] = IF p <= 1 THEN pre[p] ELSE name[p - 1]
  <2>1. /\ token \in Seq(Char) /\ Len(token) = Len(pre) + Len(name)
        /\ \A p \in 1..Len(pre) + Len(name) :
             token[p] = IF p <= Len(pre) THEN pre[p] ELSE name[p - Len(pre)]
    BY <1>1, Joined
  <2>. QED BY <1>1, <2>1
<1>. HIDE DEF token
<1>5. token # << >> /\ Head(token) = Prefix
  <2>1. token[1] = Prefix
    BY <1>1, <1>4
  <2>2. Len(token) # 0
    BY <1>4
  <2>. QED BY <1>4, <2>1, <2>2
<1>6. NameStart(token) = 2
  <2>1. Head(Tail(token)) = name[1]
    BY <1>4, SecondCharacter
  <2>. QED BY <1>3, <2>1 DEF NameStart, StartsWith
<1>7. ParseOption(token) = [name |-> name, value |-> None]
  <2>1. pre \in Name /\ NameStart(pre \o name) = Len(pre) + 1
    BY <1>1, <1>6 DEF token, Name
  <2>2. \A p \in DOMAIN name : name[p] # Separator
    BY DEF CanBeShown
  <2>. QED BY <2>1, <2>2, PrefixedName DEF token
<1>. QED BY <1>2, <1>5, <1>7 DEF Understood, StartsWith

\* The flag of any other name, the empty one included, and even if the name
\* begins with the prefix: its first two characters are the prefix.
LEMMA LongFlagUnderstood ==
  ASSUME NEW name \in Name, Len(name) # 1, CanBeShown(name)
  PROVE  Understood(Flag(name), name)
<1> DEFINE pre == <<Prefix, Prefix>>
           token == pre \o name
<1>1. pre \in Seq(Char) /\ name \in Seq(Char) /\ Len(pre) = 2 /\ pre[1] = Prefix /\ pre[2] = Prefix
  BY CharAssumption DEF Name
<1>2. Flag(name) = token
  BY DEF Flag
<1>. HIDE DEF pre
<1>3. /\ token \in Seq(Char) /\ Len(name) \in Nat /\ Len(token) = Len(name) + 2
      /\ \A p \in 1..Len(name) + 2 : token[p] = IF p <= 2 THEN pre[p] ELSE name[p - 2]
  <2>1. /\ token \in Seq(Char) /\ Len(token) = Len(pre) + Len(name)
        /\ \A p \in 1..Len(pre) + Len(name) :
             token[p] = IF p <= Len(pre) THEN pre[p] ELSE name[p - Len(pre)]
    BY <1>1, Joined
  <2>2. Len(name) \in Nat
    BY <1>1
  <2>. QED BY <1>1, <2>1, <2>2
<1>. HIDE DEF token
<1>4. token # << >> /\ Head(token) = Prefix
  BY <1>1, <1>3
<1>5. NameStart(token) = 3
  <2>1. Tail(token) \in Seq(Char) /\ Len(Tail(token)) = Len(name) + 1
        /\ \A p \in 1..Len(name) + 1 : Tail(token)[p] = token[p + 1]
    BY <1>3, <1>4, Rest
  <2>2. Tail(token)[1] = Prefix
    <3>1. Tail(token)[1] = token[2]
      BY <1>3, <2>1
    <3>2. token[2] = pre[2]
      BY <1>3
    <3>. QED BY <1>1, <3>1, <3>2
  <2>3. Len(Tail(token)) > 0
    BY <1>3, <2>1
  <2>4. Tail(token) # << >> /\ Head(Tail(token)) = Prefix
    BY <2>1, <2>2, <2>3
  <2>. QED BY <2>4 DEF NameStart, StartsWith
<1>6. ParseOption(token) = [name |-> name, value |-> None]
  <2>1. pre \in Name /\ NameStart(pre \o name) = Len(pre) + 1
    BY <1>1, <1>5 DEF token, Name
  <2>2. \A p \in DOMAIN name : name[p] # Separator
    BY DEF CanBeShown
  <2>. QED BY <2>1, <2>2, PrefixedName DEF token
<1>. QED BY <1>2, <1>4, <1>6 DEF Understood, StartsWith

\* A set of numbers has a minimum.
LEMMA MinExists ==
  ASSUME NEW S \in SUBSET Nat, S # {}
  PROVE  Min(S) \in S
<1>1. PICK m \in S : \A e \in S : ~(<<e, m>> \in OpToRel(<, Nat))
  BY NatLessThanWellFounded, WFMin
<1>2. ASSUME NEW e \in S PROVE m =< e
  <2>1. e \in Nat /\ m \in Nat
    OBVIOUS
  <2>2. ~(e < m)
    BY <1>1, <2>1 DEF OpToRel
  <2>. QED BY <2>1, <2>2
<1>. QED BY <1>2 DEF Min

\* A token with a separator has a value.
LEMMA ValueGiven ==
  ASSUME NEW token \in Name, Separators(token) # {}
  PROVE  ParseOption(token).value # None
<1> DEFINE p == Min(Separators(token))
<1>1. token \in Seq(Char) /\ Len(token) \in Nat
  BY DEF Name
<1>2. p \in Separators(token)
  <2>1. Separators(token) \in SUBSET Nat
    BY <1>1 DEF Separators, NameStart
  <2>. QED BY <2>1, MinExists
<1>3. p \in Nat /\ p + 1 \in Int /\ p + 1 >= 1
  BY <1>1, <1>2 DEF Separators, NameStart
<1>. HIDE DEF p
<1>4. SubSeq(token, p + 1, Len(token)) \in Seq(Char)
  <2>1. \A q \in p + 1..Len(token) : token[q] \in Char
    BY <1>1, <1>3
  <2>. QED BY <1>1, <1>3, <2>1, SubSeqProperties
<1>5. ParseOption(token).value = SubSeq(token, p + 1, Len(token))
  BY DEF ParseOption, p
<1>. QED BY <1>4, <1>5, CharAssumption

\* A name with a separator in it is cut there: its flag has a value.
LEMMA SeparatorMisread ==
  ASSUME NEW name \in Name, name # <<Prefix>>, NEW q \in DOMAIN name, name[q] = Separator
  PROVE  ~Understood(Flag(name), name)
<1> DEFINE pre == IF Len(name) = 1 THEN <<Prefix>> ELSE <<Prefix, Prefix>>
           token == pre \o name
<1>1. pre \in Seq(Char) /\ name \in Seq(Char) /\ Len(pre) \in {1, 2} /\ (Len(pre) = 1 <=> Len(name) = 1)
  BY CharAssumption DEF Name
<1>2. Flag(name) = token
  BY DEF Flag
<1>. HIDE DEF pre
<1>3. /\ token \in Seq(Char) /\ Len(name) \in Nat /\ Len(token) = Len(pre) + Len(name)
      /\ \A p \in 1..Len(pre) + Len(name) :
           token[p] = IF p <= Len(pre) THEN pre[p] ELSE name[p - Len(pre)]
  BY <1>1, Joined
<1>. HIDE DEF token
<1>4. q \in 1..Len(name) /\ token[q + Len(pre)] = Separator
  BY <1>1, <1>3
<1>5. NameStart(token) <= q + Len(pre)
  <2>1. CASE Len(pre) = 2
    BY <1>4, <2>1 DEF NameStart
  <2>2. CASE Len(pre) = 1
    <3>1. Len(name) = 1 /\ name = <<name[1]>>
      BY <1>1, <2>2
    <3>2. name[1] # Prefix
      BY <3>1
    <3>3. Len(token) = 2 /\ token # << >> /\ token[2] = name[1]
      BY <1>3, <2>2, <3>1
    <3>4. Head(Tail(token)) = name[1]
      BY <1>3, <3>3, SecondCharacter
    <3>5. NameStart(token) = 2
      BY <3>2, <3>4 DEF NameStart, StartsWith
    <3>. QED BY <1>4, <2>2, <3>5
  <2>. QED BY <1>1, <2>1, <2>2
<1>6. q + Len(pre) \in Separators(token)
  BY <1>1, <1>3, <1>4, <1>5 DEF Separators, NameStart
<1>7. ParseOption(token).value # None
  BY <1>3, <1>6, ValueGiven DEF Name
<1>. QED BY <1>2, <1>7 DEF Understood

\* The flag of a name that is the prefix means the empty name.
LEMMA PrefixMisread == ~Understood(Flag(<<Prefix>>), <<Prefix>>)
<1> DEFINE name == <<Prefix>>
           token == <<Prefix, Prefix>>
<1>1. Flag(name) = token /\ Prefix \in Char
  <2>1. name \in Seq(Char) /\ token \in Seq(Char) /\ Len(name) = 1 /\ Len(token) = 2
    BY CharAssumption
  <2>2. /\ name \o name \in Seq(Char) /\ Len(name \o name) = Len(name) + Len(name)
        /\ \A p \in 1..Len(name) + Len(name) :
             (name \o name)[p] = IF p <= Len(name) THEN name[p] ELSE name[p - Len(name)]
    BY <2>1, Joined
  <2>3. \A p \in 1..Len(token) : token[p] = (name \o name)[p]
    BY <2>1, <2>2
  <2>4. name \o name = token
    <3>1. Len(token) = Len(name \o name)
      BY <2>1, <2>2
    <3>. HIDE DEF name, token
    <3>. QED BY <2>1, <2>2, <2>3, <3>1, SeqEqual
  <2>. QED BY <2>1, <2>4, CharAssumption DEF Flag
<1>2. NameStart(token) = 3
  BY <1>1 DEF NameStart, StartsWith
<1>3. Separators(token) = {}
  BY <1>2 DEF Separators
<1>4. ParseOption(token).name = SubSeq(token, 3, 2)
  BY <1>2, <1>3 DEF ParseOption
<1>5. Len(SubSeq(token, 3, 2)) = 0 /\ Len(name) = 1
  OBVIOUS
<1>. QED BY <1>1, <1>4, <1>5 DEF Understood

\* A name is understood, when it is given as printed, exactly if it can be shown.
LEMMA FlagUnderstood ==
  ASSUME NEW name \in Name
  PROVE  CanBeShown(name) <=> Understood(Flag(name), name)
<1>1. CASE CanBeShown(name)
  BY <1>1, ShortFlagUnderstood, LongFlagUnderstood
<1>2. CASE ~CanBeShown(name)
  BY <1>2, SeparatorMisread, PrefixMisread DEF CanBeShown
<1>. QED BY <1>1, <1>2

-----------------------------------------------------------------------------
\* A line more, and the others where they were.
LEMMA LineAppended ==
  ASSUME NEW S, NEW seq \in Seq(S), NEW e \in S
  PROVE  /\ DOMAIN seq = 1..Len(seq) /\ Len(seq) \in Nat
         /\ Append(seq, e) \in Seq(S) /\ Len(Append(seq, e)) = Len(seq) + 1
         /\ DOMAIN Append(seq, e) = DOMAIN seq \cup {Len(seq) + 1}
         /\ \A l \in DOMAIN seq : Append(seq, e)[l] = seq[l]
         /\ Append(seq, e)[Len(seq) + 1] = e
OBVIOUS

\* A line of the page.
Line == [of : {"option", "command"}, names : Seq(Name), fill : Nat]

-----------------------------------------------------------------------------
(***************************************************************************)
(* Type correctness                                                        *)
(***************************************************************************)

\* No loop leaves its section, whatever the page, the names and the columns, and
\* what is taken of fillBuffer is inside it: TypeOK.
THEOREM TypeCorrect == Spec => []TypeOK
<1>1. Init => TypeOK
  BY PageAssumption DEF Init, TypeOK, PageType
<1>2. TypeOK /\ [Next]_vars => TypeOK'
  <2>. SUFFICES ASSUME TypeOK, [Next]_vars PROVE TypeOK'
    OBVIOUS
  <2>. USE DEF TypeOK, PageType
  <2>1. CASE PrintUsage
    BY <2>1 DEF PrintUsage
  <2>2. CASE PrintName
    <3> DEFINE name == cmd.options[n][Len(s) + 1]
    <3>1. name \in Name
      <4>1. cmd.options \in Seq(Seq(Name)) /\ n \in DOMAIN cmd.options
        BY <2>2 DEF PrintName, InOptions
      <4>2. cmd.options[n] \in Seq(Name) /\ Len(s) + 1 \in DOMAIN cmd.options[n]
        BY <2>2, <4>1 DEF PrintName
      <4>. QED BY <4>2
    <3>2. Flag(name) \in Name /\ Len(Flag(name)) \in Nat
      BY <3>1, FlagIsName DEF Name
    <3>3. s' = Append(s, Flag(name)) /\ width' = width + Len(Flag(name)) + (IF s = << >> THEN 0 ELSE 2)
      BY <2>2 DEF PrintName
    <3>. HIDE DEF name
    <3>4. s' \in Seq(Name) /\ width' \in Nat
      BY <3>2, <3>3
    <3>. QED BY <2>2, <3>4 DEF PrintName
  <2>3. CASE EndOption
    <3>1. Setw(width) \in Nat
      BY PageAssumption DEF Setw
    <3> DEFINE line == [of |-> "option", names |-> s, fill |-> Setw(width)]
    <3>2. lines' = Append(lines, line) /\ lines \in Seq(Line) /\ line \in Line
          /\ line.of = "option"
      BY <2>3, <3>1 DEF EndOption, Line
    <3>. HIDE DEF line
    <3>3. lines' \in Seq([of : {"option", "command"}, names : Seq(Name), fill : Nat])
      BY <3>2, LineAppended DEF Line
    <3>4. \A l \in DOMAIN lines' : lines'[l].of = "command" => lines'[l].fill <= CommandColumn
      <4>1. /\ DOMAIN lines' = DOMAIN lines \cup {Len(lines) + 1}
            /\ lines'[Len(lines) + 1] = line
            /\ \A l \in DOMAIN lines : lines'[l] = lines[l]
        BY <3>2, LineAppended
      <4>. QED BY <3>2, <4>1
    <3>5. s' = << >> /\ s' \in Seq(Name)
      BY <2>3 DEF EndOption
    <3>6. /\ cmd' = cmd /\ pc' = pc /\ width' = 0 /\ usage' = usage
          /\ pc = "options" /\ n' = n + 1 /\ n <= Len(cmd.options)
      BY <2>3 DEF EndOption, InOptions
    <3>7. n' \in 1..Len(cmd.options) + 1
      BY <3>6
    <3>. QED BY <3>3, <3>4, <3>5, <3>6, <3>7
  <2>4. CASE EndOptions
    BY <2>4 DEF EndOptions
  <2>5. CASE PrintCommand
    <3> DEFINE name == cmd.commands[n]
    <3>1. name \in Name
      BY <2>5 DEF PrintCommand
    <3>2. Fill(name) \in Nat /\ Fill(name) <= CommandColumn
      BY <3>1, PageAssumption DEF Fill, Name
    <3> DEFINE line == [of |-> "command", names |-> <<name>>, fill |-> Fill(name)]
    <3>3. lines' = Append(lines, line) /\ lines \in Seq(Line)
      BY <2>5 DEF PrintCommand, Line
    <3>. HIDE DEF name
    <3>4. line \in Line /\ line.fill <= CommandColumn
      BY <3>1, <3>2 DEF Line
    <3>. HIDE DEF line
    <3>5. lines' \in Seq([of : {"option", "command"}, names : Seq(Name), fill : Nat])
      BY <3>3, <3>4, LineAppended DEF Line
    <3>6. \A l \in DOMAIN lines' : lines'[l].of = "command" => lines'[l].fill <= CommandColumn
      <4>1. /\ DOMAIN lines' = DOMAIN lines \cup {Len(lines) + 1}
            /\ \A l \in DOMAIN lines : lines'[l] = lines[l]
            /\ lines'[Len(lines) + 1] = line
        BY <3>3, <3>4, LineAppended
      <4>. QED BY <3>4, <4>1
    <3>7. /\ cmd' = cmd /\ pc' = pc /\ s' = s /\ width' = width /\ usage' = usage
          /\ pc = "commands" /\ n' = n + 1 /\ n <= Len(cmd.commands)
      BY <2>5 DEF PrintCommand
    <3>8. n' \in 1..Len(cmd.commands) + 1
      BY <3>7
    <3>. QED BY <3>5, <3>6, <3>7, <3>8
  <2>6. CASE EndPage
    BY <2>6 DEF EndPage
  <2>7. CASE UNCHANGED vars
    BY <2>7 DEF vars
  <2>. QED BY <2>1, <2>2, <2>3, <2>4, <2>5, <2>6, <2>7 DEF Next
<1>. QED BY <1>1, <1>2, PTL DEF Spec

-----------------------------------------------------------------------------
(***************************************************************************)
(* What a page lists                                                       *)
(***************************************************************************)

\* How many lines the page has where the loop is.
LinesDue ==
  IF pc = "usage" THEN 0
  ELSE IF pc = "options" THEN n - 1
  ELSE Len(cmd.options) + n - 1

\* Line l is that of option l, or of the sub-command after the options.
LineListed(l) ==
  IF l <= Len(cmd.options)
  THEN /\ lines[l].of = "option"
       /\ Len(lines[l].names) = Len(cmd.options[l])
       /\ \A m \in DOMAIN cmd.options[l] : lines[l].names[m] = Flag(cmd.options[l][m])
  ELSE /\ lines[l].of = "command"
       /\ lines[l].names = <<cmd.commands[l - Len(cmd.options)]>>

\* The flags chained so far are those of the option that the loop is at.
FlagsSoFar ==
  IF InOptions
  THEN /\ Len(s) <= Len(cmd.options[n])
       /\ \A m \in DOMAIN s : s[m] = Flag(cmd.options[n][m])
  ELSE s = << >>

UsageListed ==
  pc # "usage" =>
    usage.options = (cmd.options # << >>) /\ usage.command = (cmd.commands # << >>)

\* The inductive invariant.
PageSoFar ==
  /\ Len(lines) = LinesDue
  /\ \A l \in DOMAIN lines : LineListed(l)
  /\ FlagsSoFar
  /\ UsageListed
  /\ pc = "done" => n = Len(cmd.commands) + 1

\* The lines, the flags chained and the first line are those of the command, as
\* far as the loops of HelpFormatter have come.
THEOREM PageListed == Spec => []PageSoFar
<1>1. Init => PageSoFar
  BY DEF Init, PageSoFar, LinesDue, FlagsSoFar, InOptions, UsageListed
<1>2. TypeOK /\ PageSoFar /\ [Next]_vars => PageSoFar'
  <2>. SUFFICES ASSUME TypeOK, PageSoFar, [Next]_vars PROVE PageSoFar'
    OBVIOUS
  <2>1. CASE PrintUsage
    <3>1. lines = << >> /\ s = << >> /\ n = 1
      BY <2>1 DEF PrintUsage, TypeOK, PageSoFar, LinesDue, FlagsSoFar, InOptions
    <3>. QED BY <2>1, <3>1 DEF PrintUsage, TypeOK, PageType, PageSoFar, LinesDue, FlagsSoFar, InOptions, UsageListed
  <2>2. CASE PrintName
    <3>1. cmd' = cmd /\ pc' = pc /\ n' = n /\ usage' = usage /\ lines' = lines
      BY <2>2 DEF PrintName
    <3>2. FlagsSoFar'
      <4>1. s \in Seq(Name) /\ Len(s) < Len(cmd.options[n]) /\ InOptions
        BY <2>2 DEF PrintName, TypeOK
      <4>2. s' = Append(s, Flag(cmd.options[n][Len(s) + 1]))
        BY <2>2 DEF PrintName
      <4>3. Len(cmd.options[n]) \in Nat
        BY <4>1 DEF TypeOK, PageType, InOptions
      <4>. QED BY <3>1, <4>1, <4>2, <4>3 DEF FlagsSoFar, PageSoFar, InOptions
    <3>. QED BY <3>1, <3>2 DEF PageSoFar, LinesDue, LineListed, UsageListed
  <2>3. CASE EndOption
    <3> DEFINE line == [of |-> "option", names |-> s, fill |-> Setw(width)]
    <3>1. /\ cmd' = cmd /\ pc' = pc /\ usage' = usage /\ n' = n + 1 /\ s' = << >>
          /\ lines' = Append(lines, line)
      BY <2>3 DEF EndOption
    <3>2. /\ pc = "options" /\ n \in Nat \ {0} /\ n <= Len(cmd.options) /\ Len(lines) = n - 1
          /\ Len(s) = Len(cmd.options[n]) /\ s \in Seq(Name) /\ cmd.options \in Seq(Seq(Name))
      BY <2>3 DEF EndOption, InOptions, TypeOK, PageType, PageSoFar, LinesDue
    <3>a. line \in Line /\ lines \in Seq(Line)
      BY <3>2, PageAssumption DEF TypeOK, Line, Setw
    <3>b. line.of = "option" /\ line.names = s
      OBVIOUS
    <3>. HIDE DEF line
    <3>c. /\ Len(lines') = n /\ DOMAIN lines' = DOMAIN lines \cup {n}
          /\ \A l \in DOMAIN lines : lines'[l] = lines[l]
          /\ lines'[n] = line
      <4>1. Len(lines) + 1 = n
        BY <3>2
      <4>. QED BY <3>1, <3>a, <4>1, LineAppended
    <3>3. Len(lines') = LinesDue'
      BY <3>1, <3>2, <3>c DEF LinesDue
    <3>4. \A l \in DOMAIN lines' : LineListed(l)'
      <4>1. ASSUME NEW l \in DOMAIN lines', l = n PROVE LineListed(l)'
        <5>1. Len(cmd.options[n]) \in Nat /\ DOMAIN cmd.options[n] = DOMAIN s
          BY <3>2
        <5>2. \A m \in DOMAIN s : s[m] = Flag(cmd.options[n][m])
          BY <2>3 DEF EndOption, PageSoFar, FlagsSoFar
        <5>. QED BY <3>1, <3>2, <3>b, <3>c, <4>1, <5>1, <5>2 DEF LineListed
      <4>2. ASSUME NEW l \in DOMAIN lines PROVE LineListed(l)'
        <5>1. LineListed(l) /\ lines'[l] = lines[l]
          BY <3>c DEF PageSoFar
        <5>. QED BY <3>1, <5>1 DEF LineListed
      <4>. QED BY <3>c, <4>1, <4>2
    <3>5. FlagsSoFar'
      BY <3>1, <3>2 DEF FlagsSoFar, InOptions
    <3>. QED BY <3>1, <3>2, <3>3, <3>4, <3>5 DEF PageSoFar, UsageListed
  <2>4. CASE EndOptions
    <3>1. n = Len(cmd.options) + 1 /\ Len(cmd.options) \in Nat /\ s = << >>
      <4>1. pc = "options" /\ n > Len(cmd.options) /\ n \in 1..Len(cmd.options) + 1
            /\ cmd.options \in Seq(Seq(Name))
        BY <2>4 DEF EndOptions, TypeOK, PageType
      <4>2. Len(cmd.options) \in Nat
        BY <4>1
      <4>3. ~InOptions
        BY <4>1, <4>2 DEF InOptions
      <4>4. s = << >>
        BY <4>3 DEF PageSoFar, FlagsSoFar
      <4>. QED BY <4>1, <4>2, <4>4
    <3>2. LinesDue' = LinesDue /\ FlagsSoFar'
      BY <2>4, <3>1 DEF EndOptions, LinesDue, FlagsSoFar, InOptions
    <3>. QED BY <2>4, <3>2 DEF EndOptions, PageSoFar, LineListed, UsageListed
  <2>5. CASE PrintCommand
    <3> DEFINE line == [of |-> "command", names |-> <<cmd.commands[n]>>, fill |-> Fill(cmd.commands[n])]
               k == Len(cmd.options)
    <3>1. /\ cmd' = cmd /\ pc' = pc /\ usage' = usage /\ n' = n + 1 /\ s' = s
          /\ lines' = Append(lines, line)
      BY <2>5 DEF PrintCommand
    <3>2. /\ pc = "commands" /\ n \in Nat \ {0} /\ n <= Len(cmd.commands)
          /\ k \in Nat /\ Len(lines) = k + n - 1
      BY <2>5 DEF PrintCommand, TypeOK, PageType, PageSoFar, LinesDue
    <3>a. line \in Line /\ lines \in Seq(Line)
      <4>1. cmd.commands \in Seq(Name) /\ n \in DOMAIN cmd.commands
        BY <3>2 DEF TypeOK, PageType
      <4>2. cmd.commands[n] \in Name
        BY <4>1
      <4>3. Fill(cmd.commands[n]) \in Nat
        BY <4>2, PageAssumption DEF Fill, Name
      <4>. QED BY <4>2, <4>3 DEF TypeOK, Line
    <3>b. line.of = "command" /\ line.names = <<cmd.commands[n]>>
      OBVIOUS
    <3>. HIDE DEF line
    <3>c. /\ Len(lines') = k + n /\ DOMAIN lines' = DOMAIN lines \cup {k + n}
          /\ \A l \in DOMAIN lines : lines'[l] = lines[l]
          /\ lines'[k + n] = line
      <4>1. Len(lines) + 1 = k + n
        BY <3>2
      <4>. QED BY <3>1, <3>a, <4>1, LineAppended
    <3>3. Len(lines') = LinesDue'
      BY <3>1, <3>2, <3>c DEF LinesDue
    <3>4. \A l \in DOMAIN lines' : LineListed(l)'
      <4>1. ASSUME NEW l \in DOMAIN lines', l = k + n PROVE LineListed(l)'
        <5>1. ~(k + n <= k) /\ (k + n) - k = n
          BY <3>2
        <5>. QED BY <3>1, <3>b, <3>c, <4>1, <5>1 DEF LineListed
      <4>2. ASSUME NEW l \in DOMAIN lines PROVE LineListed(l)'
        <5>1. LineListed(l) /\ lines'[l] = lines[l]
          BY <3>c DEF PageSoFar
        <5>. QED BY <3>1, <5>1 DEF LineListed
      <4>. QED BY <3>c, <4>1, <4>2
    <3>5. FlagsSoFar'
      BY <3>1, <3>2 DEF FlagsSoFar, InOptions, PageSoFar
    <3>. QED BY <3>1, <3>2, <3>3, <3>4, <3>5 DEF PageSoFar, UsageListed
  <2>6. CASE EndPage
    <3>1. /\ cmd' = cmd /\ n' = n /\ s' = s /\ usage' = usage /\ lines' = lines
          /\ pc = "commands" /\ pc' = "done" /\ n > Len(cmd.commands)
      BY <2>6 DEF EndPage
    <3>2. n = Len(cmd.commands) + 1
      <4>1. cmd.commands \in Seq(Name) /\ n \in 1..Len(cmd.commands) + 1
        BY <3>1 DEF TypeOK, PageType
      <4>. QED BY <3>1, <4>1
    <3>3. LinesDue' = LinesDue /\ FlagsSoFar'
      BY <3>1 DEF LinesDue, PageSoFar, FlagsSoFar, InOptions
    <3>. QED BY <3>1, <3>2, <3>3 DEF PageSoFar, LineListed, UsageListed
  <2>7. CASE UNCHANGED vars
    BY <2>7 DEF vars, PageSoFar, LinesDue, LineListed, FlagsSoFar, InOptions, UsageListed
  <2>. QED BY <2>1, <2>2, <2>3, <2>4, <2>5, <2>6, <2>7 DEF Next
<1>. QED BY <1>1, <1>2, TypeCorrect, PTL DEF Spec

\* Every flag of every page, typed as printed, gives the option it stands for if
\* its name can be shown, and no other: FlagsAreUnderstood, for every prefix and
\* separator.
THEOREM FlagsGiveTheirOption == Spec => []FlagsAreUnderstood
<1>1. TypeOK /\ PageSoFar => FlagsAreUnderstood
  <2>. SUFFICES ASSUME TypeOK, PageSoFar, NEW l \in DOMAIN lines, lines[l].of = "option"
                PROVE  /\ Len(lines[l].names) = Len(cmd.options[l])
                       /\ \A m \in DOMAIN cmd.options[l] :
                            CanBeShown(cmd.options[l][m]) <=>
                              Understood(lines[l].names[m], cmd.options[l][m])
    BY DEF FlagsAreUnderstood
  <2>1. l \in DOMAIN cmd.options
    <3>1. l <= Len(cmd.options)
      BY DEF PageSoFar, LineListed
    <3>. QED BY <3>1 DEF TypeOK, PageType
  <2>2. LineListed(l) /\ l <= Len(cmd.options)
    BY DEF PageSoFar, LineListed
  <2>3. ASSUME NEW m \in DOMAIN cmd.options[l]
        PROVE  CanBeShown(cmd.options[l][m]) <=>
                 Understood(lines[l].names[m], cmd.options[l][m])
    <3>1. cmd.options[l][m] \in Name
      BY <2>1 DEF TypeOK, PageType
    <3>2. lines[l].names[m] = Flag(cmd.options[l][m])
      BY <2>2 DEF LineListed
    <3>. QED BY <3>1, <3>2, FlagUnderstood
  <2>. QED BY <2>2, <2>3 DEF LineListed
<1>. QED BY <1>1, TypeCorrect, PageListed, PTL

\* A finished page lists every option and every sub-command: NothingUnlisted.
THEOREM EverythingListed == Spec => []NothingUnlisted
<1>1. TypeOK /\ PageSoFar => NothingUnlisted
  <2>. SUFFICES ASSUME TypeOK, PageSoFar, pc = "done" PROVE NothingUnlisted
    BY DEF NothingUnlisted
  <2> DEFINE k == Len(cmd.options)
             c == Len(cmd.commands)
  <2>1. k \in Nat /\ c \in Nat /\ Len(lines) = k + c /\ DOMAIN lines = 1..k + c
    BY DEF TypeOK, PageType, PageSoFar, LinesDue
  <2>a. DOMAIN cmd.commands = 1..c
    BY DEF TypeOK, PageType
  <2>b. usage.options = (k # 0) /\ usage.command = (c # 0)
    BY <2>1 DEF PageSoFar, UsageListed, TypeOK, PageType
  <2>c. \A l \in DOMAIN lines :
          /\ lines[l].of = "option" <=> l <= k
          /\ lines[l].of = "command" <=> ~(l <= k)
          /\ ~(l <= k) => lines[l].names = <<cmd.commands[l - k]>>
    BY DEF PageSoFar, LineListed
  <2>. HIDE DEF k, c
  <2>2. \A m \in DOMAIN cmd.commands : lines[k + m].names = <<cmd.commands[m]>>
    <3>. SUFFICES ASSUME NEW m \in DOMAIN cmd.commands PROVE lines[k + m].names = <<cmd.commands[m]>>
      OBVIOUS
    <3>1. k + m \in DOMAIN lines /\ ~(k + m <= k) /\ (k + m) - k = m
      BY <2>1, <2>a
    <3>. QED BY <2>c, <3>1
  <2>3. usage.options <=> \E l \in DOMAIN lines : lines[l].of = "option"
    <3>1. k # 0 <=> \E l \in DOMAIN lines : l <= k
      BY <2>1
    <3>. QED BY <2>b, <2>c, <3>1
  <2>4. usage.command <=> \E l \in DOMAIN lines : lines[l].of = "command"
    <3>1. ASSUME c # 0 PROVE k + c \in DOMAIN lines /\ ~(k + c <= k)
      BY <2>1, <3>1
    <3>2. ASSUME NEW l \in DOMAIN lines, ~(l <= k) PROVE c # 0
      BY <2>1, <3>2
    <3>. QED BY <2>b, <2>c, <3>1, <3>2
  <2>. QED BY <2>1, <2>2, <2>3, <2>4 DEF NothingUnlisted, k, c
<1>. QED BY <1>1, TypeCorrect, PageListed, PTL
=============================================================================
