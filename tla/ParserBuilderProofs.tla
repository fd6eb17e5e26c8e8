------------------------ MODULE ParserBuilderProofs -------------------------
(***************************************************************************)
(* Proofs about ParserBuilder: for any objects and any number of calls,    *)
(* each member of an object holds what it was given last.                  *)
(***************************************************************************)
EXTENDS ParserBuilder, WellFoundedInduction, TLAPS

\* The minimum of a set of numbers is the one that is not above any other.
LEMMA MinIs ==
  ASSUME NEW S \in SUBSET Nat, NEW m \in S, \A x \in S : m <= x
  PROVE  Min(S) = m
<1>1. ASSUME NEW x \in S, \A y \in S : x =< y PROVE x = m
  BY <1>1
<1>. QED BY <1>1 DEF Min

\* A set of numbers has a minimum.
LEMMA MinExists ==
  ASSUME NEW S \in SUBSET Nat, S # {}
  PROVE  Min(S) \in S /\ \A x \in S : Min(S) <= x
<1>1. PICK m \in S : \A x \in S : ~(<<x, m>> \in OpToRel(<, Nat))
  BY NatLessThanWellFounded, WFMin
<1>2. \A x \in S : ~(x < m)
  BY <1>1 DEF OpToRel
<1>3. \A x \in S : m <= x
  <2>1. ASSUME NEW x \in S PROVE m <= x
    <3>1. x \in Nat /\ m \in Nat /\ ~(x < m)
      BY <1>2
    <3>. QED BY <3>1
  <2>. QED BY <2>1
<1>. QED BY <1>3, MinIs

-----------------------------------------------------------------------------
(***************************************************************************)
(* The calls                                                               *)
(***************************************************************************)
Value ==
  {<<n>> : n \in Nat} \cup {Nothing}
    \cup Seq(CommandName \X {<<n, p>> : n \in Nat, p \in Nat})

Record ==
  [op : {"set"}, x : Object, member : AllMembers, value : Value]
    \cup [op : {"swap"}, x : Object, y : Object, members : SUBSET AllMembers]

Typed ==
  /\ log \in Seq(Record) /\ Len(log) <= MaxCalls
  /\ DOMAIN obj = Object /\ \A x \in Object : DOMAIN obj[x] = MembersOf(x)

\* A call that sets a member, and what the member then holds.
SetStep(x, m, value, held) ==
  /\ m \in MembersOf(x)
  /\ Assign(x, m, held)
  /\ Call([op |-> "set", x |-> x, member |-> m, value |-> value])
  /\ IF m = "commands" THEN FirstEntries(held, value) ELSE held = value
  /\ held = Nothing => m \in {"options", "arguments"}

\* A call that swaps some members that both objects have.
SwapStep(x, y, members) ==
  /\ x # y /\ members \subseteq MembersOf(x) /\ members \subseteq MembersOf(y)
  /\ obj' = Swapped(x, y, members)
  /\ Call([op |-> "swap", x |-> x, y |-> y, members |-> members])

\* An object has all members of each of its parts, and of the parts of those.
LEMMA PartMembers ==
  ASSUME NEW x \in Object, NEW class \in PartsOf(ClassOf[x])
  PROVE  /\ Members[class] \subseteq MembersOf(x)
         /\ UNION {Members[part] : part \in PartsOf(class)} \subseteq MembersOf(x)
         /\ MembersOf(x) \subseteq AllMembers
<1>1. Members[class] \subseteq MembersOf(x)
  BY DEF MembersOf
<1>2. PartsOf(class) \subseteq PartsOf(ClassOf[x])
  BY DEF PartsOf
<1>3. PartsOf(ClassOf[x]) \subseteq DOMAIN Members
  BY BuilderAssumption DEF PartsOf, Members
<1>. QED BY <1>1, <1>2, <1>3 DEF MembersOf, AllMembers

\* The map made of a list has the first entry of each name.
LEMMA FirstKept ==
  ASSUME NEW n \in Nat, NEW list, DOMAIN list = 1..n
  PROVE  FirstEntries(AsMap(list), list)
<1> DEFINE named(name) == {p \in DOMAIN list : list[p][1] = name}
<1>1. ASSUME NEW p \in DOMAIN list, \A q \in 1..p - 1 : list[q][1] # list[p][1]
      PROVE  AsMap(list)[list[p][1]] = list[p][2]
  <2>1. p \in named(list[p][1]) /\ named(list[p][1]) \in SUBSET Nat
    BY <1>1
  <2>2. ASSUME NEW q \in named(list[p][1]) PROVE p <= q
    <3>1. q \in 1..n /\ list[q][1] = list[p][1] /\ p \in 1..n
      BY <2>2
    <3>2. q \notin 1..p - 1
      BY <1>1, <3>1
    <3>. QED BY <3>1, <3>2
  <2>3. Min(named(list[p][1])) = p
    <3>. HIDE DEF named
    <3>. QED BY <2>1, <2>2, MinIs
  <2>. QED BY <2>3 DEF AsMap
<1>2. DOMAIN AsMap(list) = {list[p][1] : p \in DOMAIN list}
  BY DEF AsMap
<1>. QED BY <1>1, <1>2 DEF FirstEntries

\* What is passed as a list of commands: it is recorded as it is, and the map made
\* of it is something.
LEMMA ListPassed ==
  ASSUME Typed, Len(log) < MaxCalls,
         NEW len \in 0..MaxCommands, NEW names \in [1..len -> CommandName]
  PROVE  /\ NextList(names) \in Value
         /\ FirstEntries(AsMap(NextList(names)), NextList(names))
         /\ AsMap(NextList(names)) # Nothing
<1> DEFINE list == NextList(names)
           named(name) == {p \in DOMAIN list : list[p][1] = name}
           S == {list[p][1] : p \in DOMAIN list}
<1>1. len \in Nat /\ DOMAIN list = 1..len
  BY BuilderAssumption DEF NextList
<1>2. Len(log) + 1 \in 1..MaxCalls
  BY BuilderAssumption DEF Typed
<1>3. \A p \in 1..len : list[p] = <<names[p], <<Len(log) + 1, p>> >>
  BY <1>1 DEF NextList
<1>4. list \in Value
  <2> DEFINE T == CommandName \X {<<n, p>> : n \in Nat, p \in Nat}
  <2>1. \A p \in 1..len : <<names[p], <<Len(log) + 1, p>> >> \in T
    BY <1>1, <1>2
  <2>2. [p \in 1..len |-> <<names[p], <<Len(log) + 1, p>> >>] \in Seq(T)
    <3>. HIDE DEF T
    <3>. QED BY <1>1, <2>1
  <2>. QED BY <1>1, <2>2 DEF NextList, Value
<1>5. FirstEntries(AsMap(list), list)
  BY <1>1, FirstKept
<1>6. S \in SUBSET CommandName
  BY <1>1, <1>3
<1>7. ASSUME NEW name \in S
      PROVE  list[Min(named(name))][2] \in {<<n, p>> : n \in 1..MaxCalls, p \in 1..MaxCommands}
  <2>1. named(name) \in SUBSET Nat /\ named(name) # {}
    BY <1>1
  <2>2. Min(named(name)) \in named(name)
    <3>. HIDE DEF named
    <3>. QED BY <2>1, MinExists
  <2>3. Min(named(name)) \in 1..len
    BY <1>1, <2>2
  <2>4. len <= MaxCommands /\ MaxCommands \in Nat
    BY BuilderAssumption
  <2>5. Min(named(name)) \in 1..MaxCommands
    BY <1>1, <2>3, <2>4
  <2>6. \A p \in 1..len : list[p][2] = <<Len(log) + 1, p>>
    BY <1>3
  <2>7. list[Min(named(name))][2] = <<Len(log) + 1, Min(named(name))>>
    <3>. HIDE DEF named, list
    <3>. QED BY <2>3, <2>6
  <2>. HIDE DEF named, list
  <2>. QED BY <1>2, <2>5, <2>7
<1>8. AsMap(list) = [name \in S |-> list[Min(named(name))][2]]
  BY DEF AsMap
<1>9. AsMap(list) \in [S -> {<<n, p>> : n \in 1..MaxCalls, p \in 1..MaxCommands}]
  <2>. HIDE DEF S, named, list
  <2>. QED BY <1>7, <1>8
<1>. QED BY <1>4, <1>5, <1>6, <1>9, NothingAssumption

\* Every step is one of the two.
LEMMA StepShapes ==
  ASSUME Typed, Next
  PROVE  \/ \E x \in Object, m \in AllMembers, value \in Value : \E held : SetStep(x, m, value, held)
         \/ \E x, y \in Object, members \in SUBSET AllMembers : SwapStep(x, y, members)
<1>1. Len(log) < MaxCalls /\ Len(log) + 1 \in 1..MaxCalls
  BY BuilderAssumption DEF Next, Typed
<1>2. ASSUME NEW x \in Object, NEW m, m \in MembersOf(x) \ {"commands"}, SetMember(x, m)
      PROVE  \E value \in Value : \E held : m \in AllMembers /\ SetStep(x, m, value, held)
  <2>1. PICK value \in {NextGiven} \cup (IF m \in {"options", "arguments"} THEN {Nothing} ELSE {}) :
          /\ Assign(x, m, value)
          /\ Call([op |-> "set", x |-> x, member |-> m, value |-> value])
    BY <1>2 DEF SetMember
  <2>2. NextGiven \in Value /\ NextGiven # Nothing
    BY <1>1, NothingAssumption DEF NextGiven, Value
  <2>3. value \in Value /\ (value = Nothing => m \in {"options", "arguments"})
    BY <2>2 DEF Value
  <2>4. m \in AllMembers
    <3>1. ClassOf[x] \in PartsOf(ClassOf[x])
      BY DEF PartsOf
    <3>. QED BY <1>2, <3>1, PartMembers
  <2>. QED BY <1>2, <2>1, <2>3, <2>4 DEF SetStep
<1>3. ASSUME NEW x \in Object, Commands(x)
      PROVE  \E m \in AllMembers, value \in Value : \E held : SetStep(x, m, value, held)
  <2>1. PICK len \in 0..MaxCommands : \E names \in [1..len -> CommandName] :
          /\ Assign(x, "commands", AsMap(NextList(names)))
          /\ Call([op |-> "set", x |-> x, member |-> "commands", value |-> NextList(names)])
    BY <1>3 DEF Commands
  <2>2. PICK names \in [1..len -> CommandName] :
          /\ Assign(x, "commands", AsMap(NextList(names)))
          /\ Call([op |-> "set", x |-> x, member |-> "commands", value |-> NextList(names)])
    BY <2>1
  <2>3. "commands" \in MembersOf(x) /\ "commands" \in AllMembers
    <3>1. "command" \in PartsOf(ClassOf[x]) /\ "commands" \in Members["command"]
      BY <1>3 DEF Commands, Members
    <3>. QED BY <3>1, PartMembers
  <2>4. SetStep(x, "commands", NextList(names), AsMap(NextList(names)))
    BY <1>1, <2>2, <2>3, ListPassed DEF SetStep
  <2>. QED BY <1>1, <2>3, <2>4, ListPassed
<1>4. ASSUME NEW x \in Object, NEW y \in Object, Swap(x, y)
      PROVE  \E members \in SUBSET AllMembers : SwapStep(x, y, members)
  <2>1. PICK class \in DOMAIN Members : SwapParts(x, y, class) /\ x # y
    BY <1>4 DEF Swap
  <2> DEFINE members == UNION {Members[part] : part \in PartsOf(class)}
  <2>2. /\ class \in PartsOf(ClassOf[x]) /\ class \in PartsOf(ClassOf[y])
        /\ obj' = Swapped(x, y, members)
        /\ Call([op |-> "swap", x |-> x, y |-> y, members |-> members])
    BY <2>1 DEF SwapParts
  <2>3. members \subseteq MembersOf(x) /\ members \subseteq MembersOf(y) /\ members \subseteq AllMembers
    BY <2>2, PartMembers
  <2>. HIDE DEF members
  <2>. QED BY <2>1, <2>2, <2>3 DEF SwapStep
<1>5. PICK x \in Object :
        \/ OptionPrefix(x) \/ ValueSeparator(x) \/ Description(x) \/ Options(x)
        \/ Arguments(x) \/ Action(x) \/ Commands(x)
        \/ \E y \in Object : Swap(x, y)
  BY DEF Next
<1>6. "parser" \in PartsOf(ClassOf[x]) =>
        {"prefix", "valueSeparator"} \subseteq MembersOf(x) \ {"commands"}
  <2>1. {"prefix", "valueSeparator"} \subseteq Members["parser"] \ {"commands"}
    BY DEF Members
  <2>. QED BY <2>1, PartMembers
<1>7. "command" \in PartsOf(ClassOf[x]) =>
        {"description", "options", "arguments", "callback"} \subseteq MembersOf(x) \ {"commands"}
  <2>1. {"description", "options", "arguments", "callback"} \subseteq Members["command"] \ {"commands"}
    BY DEF Members
  <2>. QED BY <2>1, PartMembers
<1>8. CASE OptionPrefix(x)
  BY <1>2, <1>6, <1>8 DEF OptionPrefix
<1>9. CASE ValueSeparator(x)
  BY <1>2, <1>6, <1>9 DEF ValueSeparator
<1>10. CASE Description(x)
  BY <1>2, <1>7, <1>10 DEF Description
<1>11. CASE Options(x)
  BY <1>2, <1>7, <1>11 DEF Options
<1>12. CASE Arguments(x)
  BY <1>2, <1>7, <1>12 DEF Arguments
<1>13. CASE Action(x)
  BY <1>2, <1>7, <1>13 DEF Action
<1>. QED BY <1>3, <1>4, <1>5, <1>8, <1>9, <1>10, <1>11, <1>12, <1>13

-----------------------------------------------------------------------------
(***************************************************************************)
(* Types                                                                   *)
(***************************************************************************)
\* A call adds its record to the log and leaves the others.
LEMMA LogGrows ==
  ASSUME Typed, NEW record \in Record, Call(record)
  PROVE  /\ log' \in Seq(Record) /\ Len(log) \in Nat
         /\ Len(log') = Len(log) + 1
         /\ log'[Len(log) + 1] = record
         /\ \A j \in 1..Len(log) : log'[j] = log[j]
         /\ made' = made
BY DEF Typed, Call

\* What the calls record.
LEMMA RecordsOf ==
  ASSUME NEW x \in Object, NEW m \in AllMembers
  PROVE  /\ \A value \in Value : [op |-> "set", x |-> x, member |-> m, value |-> value] \in Record
         /\ \A y \in Object : \A members \in SUBSET AllMembers :
              [op |-> "swap", x |-> x, y |-> y, members |-> members] \in Record
BY DEF Record

\* Assign changes one member of one object.
LEMMA AssignIs ==
  ASSUME Typed, NEW x \in Object, NEW m \in MembersOf(x), NEW held, Assign(x, m, held)
  PROVE  /\ DOMAIN obj' = Object /\ \A y \in Object : DOMAIN obj'[y] = MembersOf(y)
         /\ obj'[x][m] = held
         /\ \A y \in Object : \A n \in MembersOf(y) : (y # x \/ n # m) => obj'[y][n] = obj[y][n]
BY DEF Typed, Assign

\* Swapped exchanges the members given, between the two objects.
LEMMA SwappedIs ==
  ASSUME Typed, NEW x \in Object, NEW y \in Object, x # y, NEW members,
         members \subseteq MembersOf(x), members \subseteq MembersOf(y), obj' = Swapped(x, y, members)
  PROVE  /\ DOMAIN obj' = Object /\ \A z \in Object : DOMAIN obj'[z] = MembersOf(z)
         /\ \A m \in members : obj'[x][m] = obj[y][m] /\ obj'[y][m] = obj[x][m]
         /\ \A z \in Object : \A m \in MembersOf(z) :
              (z \notin {x, y} \/ m \notin members) => obj'[z][m] = obj[z][m]
<1>1. obj' = [z \in Object |->
                IF z = y THEN [m \in MembersOf(y) |-> IF m \in members THEN obj[x][m] ELSE obj[y][m]]
                ELSE IF z = x THEN [m \in MembersOf(x) |-> IF m \in members THEN obj[y][m] ELSE obj[x][m]]
                ELSE obj[z]]
  BY DEF Typed, Swapped
<1>2. \A z \in Object : DOMAIN obj'[z] = MembersOf(z)
  BY <1>1 DEF Typed
<1>3. \A m \in MembersOf(y) : obj'[y][m] = IF m \in members THEN obj[x][m] ELSE obj[y][m]
  BY <1>1
<1>4. \A m \in MembersOf(x) : obj'[x][m] = IF m \in members THEN obj[y][m] ELSE obj[x][m]
  BY <1>1
<1>5. \A z \in Object : z \notin {x, y} => obj'[z] = obj[z]
  BY <1>1
<1>. QED BY <1>1, <1>2, <1>3, <1>4, <1>5

\* The values have the members they should, none but options and arguments empty.
Filled == \A x \in Object : \A m \in MembersOf(x) : obj[x][m] = Nothing => m \in {"options", "arguments"}

\* Members are members of some class.
LEMMA MembersAreMembers ==
  \A x \in Object : MembersOf(x) \subseteq AllMembers
<1>. SUFFICES ASSUME NEW x \in Object PROVE MembersOf(x) \subseteq AllMembers
  OBVIOUS
<1>1. ClassOf[x] \in PartsOf(ClassOf[x])
  BY DEF PartsOf
<1>. QED BY <1>1, PartMembers

\* No constructor leaves a member empty but options and arguments.
LEMMA InitFilled ==
  ASSUME Init
  PROVE  Typed /\ Filled
<1>1. PICK omitted \in SUBSET {"options", "arguments"} :
        made = [x \in Object |-> [m \in MembersOf(x) |-> Constructed(x, m, omitted)]]
  BY DEF Init
<1>2. obj = made /\ log = << >>
  BY DEF Init
<1>3. Typed
  BY <1>1, <1>2, BuilderAssumption DEF Typed
<1>4. ASSUME NEW x \in Object, NEW m \in MembersOf(x), Constructed(x, m, omitted) = Nothing
      PROVE  m \in {"options", "arguments"}
  <2>1. m \in AllMembers
    BY MembersAreMembers
  <2>2. <<0, x, m>> # Nothing /\ Default # Nothing /\ << >> # Nothing
    BY <2>1, NothingAssumption
  <2>3. CASE m \in Members.parser \/ (ClassOf[x] = "parser" /\ m = "callback")
    BY <1>4, <2>2, <2>3 DEF Constructed, SetByParser
  <2>4. CASE m = "commands" /\ m \notin Members.parser
    BY <1>4, <2>2, <2>4 DEF Constructed
  <2>5. CASE m \in omitted \/ (ClassOf[x] = "parser" /\ m = "arguments")
    BY <2>5
  <2>6. CASE /\ ~(m \in Members.parser \/ (ClassOf[x] = "parser" /\ m = "callback"))
             /\ m # "commands"
             /\ ~(m \in omitted \/ (ClassOf[x] = "parser" /\ m = "arguments"))
    BY <1>4, <2>2, <2>6 DEF Constructed
  <2>. QED BY <2>3, <2>4, <2>5, <2>6
<1>5. \A x \in Object : \A m \in MembersOf(x) : obj[x][m] = Constructed(x, m, omitted)
  BY <1>1, <1>2
<1>. QED BY <1>3, <1>4, <1>5 DEF Filled

\* Types are kept by every call.
LEMMA TypesKept ==
  ASSUME Typed, Filled, [Next]_vars
  PROVE  Typed' /\ Filled'
<1>1. CASE UNCHANGED vars
  BY <1>1 DEF vars, Typed, Filled
<1>2. CASE Next
  <2>1. Len(log) < MaxCalls /\ MaxCalls \in Nat
    BY <1>2, BuilderAssumption DEF Next
  <2>2. ASSUME NEW x \in Object, NEW m \in AllMembers, NEW value \in Value, NEW held,
               SetStep(x, m, value, held)
        PROVE  Typed' /\ Filled'
    <3>1. m \in MembersOf(x) /\ Assign(x, m, held) /\ (held = Nothing => m \in {"options", "arguments"})
      BY <2>2 DEF SetStep
    <3>2. log' \in Seq(Record) /\ Len(log') = Len(log) + 1 /\ Len(log) \in Nat
      <4>1. Call([op |-> "set", x |-> x, member |-> m, value |-> value])
        BY <2>2 DEF SetStep
      <4>. QED BY <4>1, RecordsOf, LogGrows
    <3>3. Typed'
      BY <2>1, <3>1, <3>2, AssignIs DEF Typed
    <3>4. Filled'
      BY <3>1, AssignIs DEF Filled
    <3>. QED BY <3>3, <3>4
  <2>3. ASSUME NEW x \in Object, NEW y \in Object, NEW members \in SUBSET AllMembers,
               SwapStep(x, y, members)
        PROVE  Typed' /\ Filled'
    <3>1. /\ x # y /\ members \subseteq MembersOf(x) /\ members \subseteq MembersOf(y)
          /\ obj' = Swapped(x, y, members)
      BY <2>3 DEF SwapStep
    <3>2. log' \in Seq(Record) /\ Len(log') = Len(log) + 1 /\ Len(log) \in Nat
      <4>1. Call([op |-> "swap", x |-> x, y |-> y, members |-> members])
        BY <2>3 DEF SwapStep
      <4>2. [op |-> "swap", x |-> x, y |-> y, members |-> members] \in Record
        BY DEF Record
      <4>. QED BY <4>1, <4>2, LogGrows
    <3>3. Typed'
      BY <2>1, <3>1, <3>2, SwappedIs DEF Typed
    <3>4. Filled'
      BY <3>1, SwappedIs DEF Filled
    <3>. QED BY <3>3, <3>4
  <2>. QED BY <1>2, <2>2, <2>3, StepShapes
<1>. QED BY <1>1, <1>2

\* An object always has the members of its class, and no constructor or setter
\* leaves one of them without a value that may not be empty.
THEOREM TypeCorrect == Spec => []TypeOK
<1>1. Init => Typed /\ Filled
  BY InitFilled
<1>2. Typed /\ Filled /\ [Next]_vars => Typed' /\ Filled'
  BY TypesKept
<1>3. Typed /\ Filled => TypeOK
  BY DEF Typed, Filled, TypeOK
<1>. QED BY <1>1, <1>2, <1>3, PTL DEF Spec

-----------------------------------------------------------------------------
(***************************************************************************)
(* What was given last. The path by which a member came to an object is    *)
(* that of the object that held it before the call, and one step more; or  *)
(* it begins with the call.                                                *)
(***************************************************************************)
\* The objects that may have held a member stay so, and both of a swap join them.
LEMMA HoldersGrow ==
  ASSUME Typed, NEW record \in Record, Call(record), NEW m,
         NEW x \in Object, NEW y \in Object,
         x = y \/ (record.op = "swap" /\ m \in record.members /\ {x, y} = {record.x, record.y})
  PROVE  Holders(y, m) \cup {x} \subseteq Holders(x, m)'
<1> DEFINE swaps == {n \in DOMAIN log : log[n].op = "swap" /\ m \in log[n].members}
           now == {n \in DOMAIN log' : log'[n].op = "swap" /\ m \in log'[n].members}
<1>1. /\ Len(log) \in Nat /\ Len(log') = Len(log) + 1 /\ log'[Len(log) + 1] = record
      /\ \A j \in 1..Len(log) : log'[j] = log[j]
  BY LogGrows
<1>2. DOMAIN log = 1..Len(log) /\ DOMAIN log' = 1..Len(log) + 1
  BY <1>1, LogGrows DEF Typed
<1>3. swaps \subseteq now /\ \A n \in swaps : log'[n] = log[n]
  BY <1>1, <1>2
<1>4. Holders(x, m)' = {x} \cup UNION {{log'[j].x, log'[j].y} : j \in now}
  BY DEF Holders
<1>5. Holders(y, m) = {y} \cup UNION {{log[j].x, log[j].y} : j \in swaps}
  BY DEF Holders
<1>6. UNION {{log[j].x, log[j].y} : j \in swaps} \subseteq UNION {{log'[j].x, log'[j].y} : j \in now}
  <2>. HIDE DEF swaps, now
  <2>. QED BY <1>3
<1>7. y \in Holders(x, m)'
  <2>1. CASE x = y
    BY <2>1, <1>4
  <2>2. CASE record.op = "swap" /\ m \in record.members /\ {x, y} = {record.x, record.y}
    <3>1. Len(log) + 1 \in now
      BY <1>1, <1>2, <2>2
    <3>2. y \in {log'[Len(log) + 1].x, log'[Len(log) + 1].y}
      BY <1>1, <2>2
    <3>. HIDE DEF now
    <3>. QED BY <1>4, <3>1, <3>2
  <2>. QED BY <2>1, <2>2
<1>. QED BY <1>4, <1>5, <1>6, <1>7

\* What x takes over from the object that held it has been given where the path to
\* that object begins.
LEMMA PathExtended ==
  ASSUME Typed, NEW record \in Record, Call(record), NEW m,
         NEW x \in Object, NEW y \in Object, HoldsLast(y, m),
         obj'[x][m] = obj[y][m],
         ~(record.op = "set" /\ record.x = x /\ record.member = m),
         x = y \/ (record.op = "swap" /\ m \in record.members /\ {x, y} = {record.x, record.y}),
         y = IF record.op = "swap" /\ m \in record.members /\ x \in {record.x, record.y}
             THEN IF x = record.x THEN record.y ELSE record.x
             ELSE x
  PROVE  HoldsLast(x, m)'
<1>1. PICK n : n = Len(log)
  OBVIOUS
<1>2. /\ n \in Nat /\ Len(log') = n + 1 /\ log'[n + 1] = record /\ made' = made
      /\ \A j \in 1..n : log'[j] = log[j]
  BY <1>1, LogGrows
<1>3. PICK k \in 0..n : \E path \in [k..n -> Holders(y, m)] :
        GivenBy(k, path[k], m, obj[y][m]) /\ Carried(y, m, k, path)
  BY <1>1 DEF HoldsLast
<1>4. PICK path \in [k..n -> Holders(y, m)] :
        GivenBy(k, path[k], m, obj[y][m]) /\ Carried(y, m, k, path)
  BY <1>3
<1>5. PICK longer : longer = [j \in k..n + 1 |-> IF j = n + 1 THEN x ELSE path[j]]
  OBVIOUS
<1>6. k \in Nat /\ k <= n /\ k \in 0..Len(log')
  BY <1>2, <1>3
<1>7. longer \in [k..Len(log') -> Holders(x, m)']
  <2>1. Holders(y, m) \cup {x} \subseteq Holders(x, m)'
    BY HoldersGrow
  <2>2. \A j \in k..n + 1 : j = n + 1 \/ j \in k..n
    BY <1>2, <1>6
  <2>3. \A j \in k..n + 1 : longer[j] \in Holders(x, m)'
    BY <1>5, <2>1, <2>2, <1>4
  <2>. QED BY <1>5, <1>2, <2>3
<1>8. \A j \in k..n : longer[j] = path[j]
  BY <1>5, <1>2, <1>6
<1>9. longer[n + 1] = x /\ longer[n] = y
  <2>1. n \in k..n /\ n + 1 \in k..n + 1
    BY <1>2, <1>6
  <2>2. path[n] = y
    BY <1>1, <1>4 DEF Carried
  <2>. QED BY <1>5, <1>8, <2>1, <2>2
<1>10. GivenBy(k, longer[k], m, obj[x][m])'
  <2>1. k \in k..n
    BY <1>2, <1>6
  <2>2. longer[k] = path[k]
    BY <1>8, <2>1
  <2>3. k # 0 => log'[k] = log[k]
    BY <1>2, <1>6
  <2>4. GivenBy(k, path[k], m, obj[y][m])
    BY <1>4
  <2>. QED BY <1>2, <2>2, <2>3, <2>4 DEF GivenBy, Sets
<1>11. Carried(x, m, k, longer)'
  <2>1. ASSUME NEW j \in k + 1..n
        PROVE  ~Sets(j, longer[j], m)' /\ longer[j - 1] = HeldBefore(j, longer[j], m)'
    <3>1. j \in 1..n /\ j \in k..n /\ j - 1 \in k..n
      BY <1>2, <1>6
    <3>2. longer[j] = path[j] /\ longer[j - 1] = path[j - 1] /\ log'[j] = log[j]
      BY <1>2, <1>8, <3>1
    <3>3. ~Sets(j, path[j], m) /\ path[j - 1] = HeldBefore(j, path[j], m)
      BY <1>1, <1>4 DEF Carried
    <3>. QED BY <3>2, <3>3 DEF Sets, HeldBefore
  <2>2. ~Sets(n + 1, longer[n + 1], m)' /\ longer[n] = HeldBefore(n + 1, longer[n + 1], m)'
    BY <1>2, <1>9 DEF Sets, HeldBefore
  <2>3. \A j \in k + 1..n + 1 : j \in k + 1..n \/ (j = n + 1 /\ j - 1 = n)
    BY <1>2, <1>6
  <2>. QED BY <1>2, <1>9, <2>1, <2>2, <2>3 DEF Carried
<1>. QED BY <1>6, <1>7, <1>10, <1>11 DEF HoldsLast

\* What a call has set has been given by that call.
LEMMA PathBegun ==
  ASSUME Typed, NEW x \in Object, NEW m \in AllMembers, NEW value \in Value, NEW held,
         SetStep(x, m, value, held)
  PROVE  HoldsLast(x, m)'
<1>1. PICK n : n = Len(log)
  OBVIOUS
<1>2. PICK path : path = [j \in n + 1..n + 1 |-> x]
  OBVIOUS
<1> DEFINE record == [op |-> "set", x |-> x, member |-> m, value |-> value]
<1>3. n \in Nat /\ Len(log') = n + 1 /\ log'[n + 1] = record
  <2>1. Call(record) /\ record \in Record
    BY RecordsOf DEF SetStep
  <2>. QED BY <1>1, <2>1, LogGrows
<1>4. obj'[x][m] = held
  BY AssignIs DEF SetStep
<1>5. n + 1 \in 0..Len(log') /\ n + 1 # 0
  BY <1>3
<1>6. path[n + 1] = x
  BY <1>2, <1>3
<1>7. path \in [n + 1..Len(log') -> Holders(x, m)']
  <2>1. x \in Holders(x, m)'
    BY DEF Holders
  <2>. QED BY <1>2, <1>3, <2>1
<1>8. GivenBy(n + 1, path[n + 1], m, obj[x][m])'
  BY <1>3, <1>4, <1>5, <1>6 DEF GivenBy, Sets, SetStep
<1>9. Carried(x, m, n + 1, path)'
  <2>1. (n + 1) + 1..n + 1 = {}
    BY <1>3
  <2>. QED BY <1>3, <1>6, <2>1 DEF Carried
<1>. QED BY <1>5, <1>7, <1>8, <1>9 DEF HoldsLast

\* At first each object holds what its constructor gave it.
LEMMA HeldAtFirst ==
  ASSUME Init
  PROVE  HoldsWhatWasGivenLast
<1>. SUFFICES ASSUME NEW x \in Object, NEW m \in MembersOf(x)
              PROVE  HoldsLast(x, m)
  BY DEF HoldsWhatWasGivenLast
<1> DEFINE path == [j \in 0..0 |-> x]
<1>1. log = << >> /\ obj = made /\ Len(log) = 0
  BY DEF Init
<1>2. path[0] = x /\ path \in [0..Len(log) -> Holders(x, m)]
  BY <1>1 DEF Holders
<1>3. GivenBy(0, path[0], m, obj[x][m])
  <2>. HIDE DEF path
  <2>. QED BY <1>1, <1>2 DEF GivenBy
<1>4. Carried(x, m, 0, path)
  <2>1. 0 + 1..Len(log) = {}
    BY <1>1
  <2>. HIDE DEF path
  <2>. QED BY <1>1, <1>2, <2>1 DEF Carried
<1>5. 0 \in 0..Len(log)
  BY <1>1
<1>. HIDE DEF path
<1>. QED BY <1>2, <1>3, <1>4, <1>5 DEF HoldsLast

\* A call that sets a member leaves all other members where they are.
LEMMA SetKeepsPaths ==
  ASSUME Typed, HoldsWhatWasGivenLast,
         NEW x \in Object, NEW m \in AllMembers, NEW value \in Value, NEW held,
         SetStep(x, m, value, held)
  PROVE  HoldsWhatWasGivenLast'
<1>. SUFFICES ASSUME NEW z \in Object, NEW n \in MembersOf(z)
              PROVE  HoldsLast(z, n)'
  BY DEF HoldsWhatWasGivenLast
<1> DEFINE record == [op |-> "set", x |-> x, member |-> m, value |-> value]
<1>1. CASE z = x /\ n = m
  BY <1>1, PathBegun
<1>2. CASE z # x \/ n # m
  <2>1. Call(record) /\ record \in Record
    BY RecordsOf DEF SetStep
  <2>2. obj'[z][n] = obj[z][n]
    BY <1>2, AssignIs DEF SetStep
  <2>3. /\ ~(record.op = "set" /\ record.x = z /\ record.member = n)
        /\ record.op # "swap"
    BY <1>2
  <2>4. HoldsLast(z, n)
    BY DEF HoldsWhatWasGivenLast
  <2>. HIDE DEF record
  <2>. QED BY <2>1, <2>2, <2>3, <2>4, PathExtended
<1>. QED BY <1>1, <1>2

\* A swap takes along the members of the class, each to the other object.
LEMMA SwapCarriesPaths ==
  ASSUME Typed, HoldsWhatWasGivenLast,
         NEW x \in Object, NEW y \in Object, NEW members \in SUBSET AllMembers,
         SwapStep(x, y, members)
  PROVE  HoldsWhatWasGivenLast'
<1>. SUFFICES ASSUME NEW z \in Object, NEW m \in MembersOf(z)
              PROVE  HoldsLast(z, m)'
  BY DEF HoldsWhatWasGivenLast
<1> DEFINE record == [op |-> "swap", x |-> x, y |-> y, members |-> members]
<1>1. Call(record) /\ record \in Record
  BY DEF SwapStep, Record
<1>2. record.op = "swap" /\ record.x = x /\ record.y = y /\ record.members = members
  OBVIOUS
<1>3. /\ x # y /\ members \subseteq MembersOf(x) /\ members \subseteq MembersOf(y)
      /\ obj' = Swapped(x, y, members)
  BY DEF SwapStep
<1>4. \A w \in Object : \A j \in MembersOf(w) : HoldsLast(w, j)
  BY DEF HoldsWhatWasGivenLast
<1>. HIDE DEF record
<1>5. CASE z = x /\ m \in members
  <2>1. obj'[x][m] = obj[y][m] /\ HoldsLast(y, m)
    BY <1>3, <1>4, <1>5, SwappedIs
  <2>. QED BY <1>1, <1>2, <1>3, <1>5, <2>1, PathExtended
<1>6. CASE z = y /\ m \in members
  <2>1. obj'[y][m] = obj[x][m] /\ HoldsLast(x, m)
    BY <1>3, <1>4, <1>6, SwappedIs
  <2>. QED BY <1>1, <1>2, <1>3, <1>6, <2>1, PathExtended
<1>7. CASE z \notin {x, y} \/ m \notin members
  <2>1. obj'[z][m] = obj[z][m] /\ HoldsLast(z, m)
    BY <1>3, <1>4, <1>7, SwappedIs
  <2>. QED BY <1>1, <1>2, <1>7, <2>1, PathExtended
<1>. QED BY <1>5, <1>6, <1>7

\* Through any sequence of setters and swaps, on any objects, each member of an
\* object is what the last call for it gave, wherever the value was then.
THEOREM HoldsLastGiven == Spec => []HoldsWhatWasGivenLast
<1>1. Init => Typed /\ Filled /\ HoldsWhatWasGivenLast
  BY InitFilled, HeldAtFirst
<1>2. Typed /\ Filled /\ HoldsWhatWasGivenLast /\ [Next]_vars
        => Typed' /\ Filled' /\ HoldsWhatWasGivenLast'
  <2>. SUFFICES ASSUME Typed, Filled, HoldsWhatWasGivenLast, [Next]_vars
                PROVE  HoldsWhatWasGivenLast'
    BY TypesKept
  <2>1. CASE UNCHANGED vars
    BY <2>1 DEF vars, HoldsWhatWasGivenLast, HoldsLast, Holders, GivenBy, Carried, Sets, HeldBefore
  <2>2. CASE Next
    BY <2>2, StepShapes, SetKeepsPaths, SwapCarriesPaths
  <2>. QED BY <2>1, <2>2
<1>. QED BY <1>1, <1>2, PTL DEF Spec

=============================================================================
