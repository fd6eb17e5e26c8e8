--------------------------- MODULE ParserBuilder ----------------------------
(***************************************************************************)
(* The objects that describe a command line (include/clime/parser.hpp) and *)
(* the calls that change them before a parse: constructors, setters, swap. *)
(* What a call passes is opaque, and different from what every other call  *)
(* passes: it is the number of the call. Only a list of commands, which    *)
(* becomes a map, has its names.                                           *)
(*                                                                         *)
(* A definition marked "Slip" is a bug for a property to refute.           *)
(***************************************************************************)
EXTENDS Integers, Sequences, FiniteSetsExt

CONSTANTS
  Object,        \* the objects
  ClassOf,       \* the class of each
  CommandName,
  Default,       \* DefaultPrefix, DefaultValueSeparator, idleAction
  Nothing,       \* an empty list
  MaxCommands,   \* bound: the length of a list of commands
  MaxCalls       \* bound: the calls after the constructors

\* The data members of each class. A parser has those of its _defaultAction too.
Members ==
  [parser   |-> {"prefix", "valueSeparator"},
   command  |-> {"description", "callback", "options", "commands", "arguments"},
   option   |-> {"names", "description", "callback", "expectsArgument"},
   argument |-> {"name", "description", "callback"}]

PartsOf(class) == IF class = "parser" THEN {"parser", "command"} ELSE {class}

MembersOf(x) == UNION {Members[part] : part \in PartsOf(ClassOf[x])}

ASSUME BuilderAssumption ==
  /\ ClassOf \in [Object -> DOMAIN Members]
  /\ MaxCalls \in Nat /\ MaxCommands \in Nat

AllMembers == UNION {Members[class] : class \in DOMAIN Members}

\* What is given to a constructor or by a call is told from nothing.
ASSUME NothingAssumption ==
  /\ Nothing \notin {Default, << >>} \cup {<<n>> : n \in 1..MaxCalls}
  /\ Nothing \notin {<<0, x, m>> : x \in Object, m \in AllMembers}
  /\ \A names \in SUBSET CommandName :
       Nothing \notin [names -> {<<n, p>> : n \in 1..MaxCalls, p \in 1..MaxCommands}]

VARIABLES
  made,  \* the members of each object, as its constructor left them
  obj,   \* the members of each object
  log    \* the calls made since

vars == <<made, obj, log>>

\* What the next call passes; and as a std::initializer_list of named commands.
NextGiven == <<Len(log) + 1>>

NextList(names) == [p \in DOMAIN names |-> <<names[p], <<Len(log) + 1, p>> >>]

\* Slip: the last entry of a name is kept.
ReplacingMap(list) ==
  [name \in {list[p][1] : p \in DOMAIN list} |->
     list[Max({p \in DOMAIN list : list[p][1] = name})][2]]

\* The std::map made of such a list keeps the first entry of each name.
AsMap(list) ==
  [name \in {list[p][1] : p \in DOMAIN list} |->
     list[Min({p \in DOMAIN list : list[p][1] = name})][2]]

-----------------------------------------------------------------------------
\* Slip: one of Parser's two constructors does not set the separator.
SetByOneOnly(member, omitted) ==
  IF member = "valueSeparator" /\ "options" \in omitted THEN Nothing ELSE Default

\* What both constructors of Parser initialise alike.
SetByParser(member, omitted) == Default

\* What the constructors put into a member of x. What they are given stands for
\* itself as <<0, x, member>>; the shorter ones are given no options or arguments.
Constructed(x, member, omitted) ==
  CASE \/ member \in Members.parser
       \/ ClassOf[x] = "parser" /\ member = "callback"  -> SetByParser(member, omitted)
    [] member = "commands" -> << >>
    [] \/ member \in omitted
       \/ ClassOf[x] = "parser" /\ member = "arguments" -> Nothing
    [] OTHER -> <<0, x, member>>

Init ==
  /\ \E omitted \in SUBSET {"options", "arguments"} :
       made = [x \in Object |-> [m \in MembersOf(x) |-> Constructed(x, m, omitted)]]
  /\ obj = made
  /\ log = << >>

Call(record) == log' = Append(log, record) /\ UNCHANGED made

-----------------------------------------------------------------------------
(***************************************************************************)
(* Setters. Those of a parser are its own two and those of its             *)
(* _defaultAction.                                                         *)
(***************************************************************************)
Assign(x, member, value) == obj' = [obj EXCEPT ![x][member] = value]

SetMember(x, member) ==
  \E value \in {NextGiven} \cup (IF member \in {"options", "arguments"} THEN {Nothing} ELSE {}) :
    /\ Assign(x, member, value)
    /\ Call([op |-> "set", x |-> x, member |-> member, value |-> value])

OptionPrefix(x)   == "parser" \in PartsOf(ClassOf[x]) /\ SetMember(x, "prefix")
ValueSeparator(x) == "parser" \in PartsOf(ClassOf[x]) /\ SetMember(x, "valueSeparator")
Description(x)    == "command" \in PartsOf(ClassOf[x]) /\ SetMember(x, "description")
Options(x)        == "command" \in PartsOf(ClassOf[x]) /\ SetMember(x, "options")
Arguments(x)      == "command" \in PartsOf(ClassOf[x]) /\ SetMember(x, "arguments")
Action(x)         == "command" \in PartsOf(ClassOf[x]) /\ SetMember(x, "callback")

Commands(x) ==
  /\ "command" \in PartsOf(ClassOf[x])
  /\ \E len \in 0..MaxCommands : \E names \in [1..len -> CommandName] :
       /\ Assign(x, "commands", AsMap(NextList(names)))
       /\ Call([op |-> "set", x |-> x, member |-> "commands", value |-> NextList(names)])

-----------------------------------------------------------------------------
\* Slip: the separator stays.
SwappedButSeparator(x, y, members) ==
  [obj EXCEPT ![x] = [m \in DOMAIN @ |-> IF m \in members \ {"valueSeparator"} THEN obj[y][m] ELSE @[m]],
              ![y] = [m \in DOMAIN @ |-> IF m \in members \ {"valueSeparator"} THEN obj[x][m] ELSE @[m]]]

Swapped(x, y, members) ==
  [obj EXCEPT ![x] = [m \in DOMAIN @ |-> IF m \in members THEN obj[y][m] ELSE @[m]],
              ![y] = [m \in DOMAIN @ |-> IF m \in members THEN obj[x][m] ELSE @[m]]]

\* Command::swap reaches into a parser by way of defaultAction().
SwapParts(x, y, class) ==
  /\ class \in PartsOf(ClassOf[x]) /\ class \in PartsOf(ClassOf[y])
  /\ LET members == UNION {Members[part] : part \in PartsOf(class)} IN
     /\ obj' = Swapped(x, y, members)
     /\ Call([op |-> "swap", x |-> x, y |-> y, members |-> members])

Swap(x, y) == x # y /\ \E class \in DOMAIN Members : SwapParts(x, y, class)

Next ==
  /\ Len(log) < MaxCalls
  /\ \E x \in Object :
       \/ OptionPrefix(x) \/ ValueSeparator(x) \/ Description(x) \/ Options(x)
       \/ Arguments(x) \/ Action(x) \/ Commands(x)
       \/ \E y \in Object : Swap(x, y)

Spec == Init /\ [][Next]_vars

-----------------------------------------------------------------------------
(***************************************************************************)
(* Properties                                                              *)
(***************************************************************************)
\* The type invariant: an object has the members of its class, and no constructor
\* leaves one of them without a value (parser.cpp:47-60, parser.hpp:272-311).
TypeOK ==
  /\ \A x \in Object : DOMAIN obj[x] = MembersOf(x)
  /\ \A x \in Object : \A m \in MembersOf(x) : obj[x][m] = Nothing => m \in {"options", "arguments"}
  /\ Len(log) <= MaxCalls

\* A call sets a member of an object.
Sets(j, x, m) == log[j].op = "set" /\ log[j].x = x /\ log[j].member = m

\* The object that held before a call what x holds after it: the other one of a swap.
HeldBefore(j, x, m) ==
  IF log[j].op = "swap" /\ m \in log[j].members /\ x \in {log[j].x, log[j].y}
  THEN IF x = log[j].x THEN log[j].y ELSE log[j].x
  ELSE x

\* Since call k what x holds in m has been held by one object after the other, and
\* no call has set it.
Carried(x, m, k, path) ==
  /\ path[Len(log)] = x
  /\ \A j \in k + 1..Len(log) : ~Sets(j, path[j], m) /\ path[j - 1] = HeldBefore(j, path[j], m)

\* The map has the names of the list, and of two entries with one name the first.
FirstEntries(map, list) ==
  /\ DOMAIN map = {list[p][1] : p \in DOMAIN list}
  /\ \A p \in DOMAIN list :
       (\A q \in 1..p - 1 : list[q][1] # list[p][1]) => map[list[p][1]] = list[p][2]

\* A call, or the constructor as call 0, gives this value to a member of x.
GivenBy(k, x, m, value) ==
  \/ k = 0 /\ value = made[x][m]
  \/ /\ k # 0 /\ Sets(k, x, m)
     /\ IF m = "commands" THEN FirstEntries(value, log[k].value) ELSE value = log[k].value

\* The objects among which the member m of x may have been swapped.
Holders(x, m) ==
  {x} \cup UNION {{log[j].x, log[j].y} : j \in {n \in DOMAIN log : log[n].op = "swap" /\ m \in log[n].members}}

\* What x holds in m is what was last given to it, wherever it was then.
HoldsLast(x, m) ==
  LET holders == Holders(x, m) IN
  \E k \in 0..Len(log) : \E path \in [k..Len(log) -> holders] :
    GivenBy(k, path[k], m, obj[x][m]) /\ Carried(x, m, k, path)

\* What a parser, command, option or argument holds in a member is what the last
\* call for that member gave it: setters replace what constructors and setters put
\* in before, none touches the member of another, and a swap takes all members of
\* the class along and no others - the prefix and the separator of a parser stay
\* when its default action is swapped with a command. (parser.hpp:174-182,
\* 237-245, 314-324, 405-412)
HoldsWhatWasGivenLast == \A x \in Object : \A m \in MembersOf(x) : HoldsLast(x, m)
=============================================================================
