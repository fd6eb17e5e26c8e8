----------------------------- MODULE TraceProofs -----------------------------
(***************************************************************************)
(* Proofs about Parser: what the trace of a parse says as a whole - which  *)
(* command each callback belongs to, that an accepted line is wholly used, *)
(* that every option that bears the name of a flag has been called, which  *)
(* arguments have been filled, and what the variables hold.                *)
(***************************************************************************)
EXTENDS ParserProofs, FiniteSetTheorems, WellFoundedInduction

\* The maximum of a set of numbers is the one that is not below any other.
LEMMA MaxIs ==
  ASSUME NEW S \in SUBSET Nat, NEW m \in S, \A x \in S : x <= m
  PROVE  Max(S) = m
<1>1. \A y \in S : m >= y
  OBVIOUS
<1>2. ASSUME NEW x \in S, \A y \in S : x >= y PROVE x = m
  BY <1>2
<1>. QED BY <1>1, <1>2 DEF Max

\* A set of numbers with a bound has a maximum.
LEMMA MaxExists ==
  ASSUME NEW S \in SUBSET Nat, S # {}, NEW b \in Nat, \A x \in S : x <= b
  PROVE  Max(S) \in S /\ \A x \in S : x <= Max(S)
<1> DEFINE below == {b - x : x \in S}
<1>1. below \subseteq Nat /\ below # {}
  <2>1. \A x \in S : b - x \in Nat /\ b - x \in below
    OBVIOUS
  <2>. QED BY <2>1
<1>2. PICK d \in below : \A e \in below : ~(<<e, d>> \in OpToRel(<, Nat))
  BY <1>1, NatLessThanWellFounded, WFMin
<1>3. \A e \in below : ~(e < d)
  BY <1>1, <1>2 DEF OpToRel
<1>4. PICK m \in S : d = b - m
  BY <1>2
<1>5. \A x \in S : x <= m
  <2>1. ASSUME NEW x \in S PROVE x <= m
    <3>1. b - x \in below
      OBVIOUS
    <3>2. ~(b - x < b - m)
      BY <1>3, <1>4, <3>1
    <3>. QED BY <3>2
  <2>. QED BY <2>1
<1>. QED BY <1>5, MaxIs

\* A step that calls nobody and selects nothing leaves the events alone.
Quiet == [Next]_vars /\ ~CallOption /\ ~SelectCommand /\ ~CallArgument

\* What is left alone by such a step, and what it can return.
LEMMA QuietStep ==
  ASSUME Quiet
  PROVE  /\ UNCHANGED <<input, trace, cells>>
         /\ cmd' = cmd \/ (pc = "parse" /\ cmd' = Root)
         /\ action' = action \/ (action' = cmd /\ cmd' = cmd)
BY DEF Quiet, Next, vars, NegativeArgc, EmptyArgs, ParseArgs, NullToken, NoMoreFlags, BeginFlag,
       SkipOption, ValueMissing, EndFlag, UnknownFlag, UnknownCommand, BeginArguments,
       UnexpectedArguments, EndOfArgs, NullArgument, EndArguments, EnterCommand, Fail, Return

-----------------------------------------------------------------------------
(***************************************************************************)
(* The command in scope                                                    *)
(***************************************************************************)
Selections(n) == {m \in Events : m < n /\ trace[m].by = "command"}

\* The command of each event, and the one being parsed, is that in scope.
Scope ==
  /\ \A n \in 1..Len(trace) + 1 : ScopeOf(n) = IF n \in Events THEN trace[n].command ELSE cmd
  /\ action = None \/ action = cmd

\* The scope depends on the events before, and on a new one only if that selects
\* a command.
LEMMA ScopeAppended ==
  ASSUME TypeOK, UNCHANGED input, NEW event \in EventType, trace' = Append(trace, event),
         NEW l \in 1..Len(trace) + 2
  PROVE  ScopeOf(l)' = IF l <= Len(trace) + 1 THEN ScopeOf(l)
                       ELSE IF event.by = "command" THEN TargetOf(event)
                       ELSE ScopeOf(Len(trace) + 1)
<1> DEFINE last == Len(trace) + 1
<1>1. /\ Len(trace) \in Nat /\ Events = 1..Len(trace) /\ Events' = Events \cup {last}
      /\ trace'[last] = event /\ \A n \in Events : trace'[n] = trace[n]
  BY EventFacts, Appended
<1>3. Selections(l)' = Selections(IF l <= last THEN l ELSE last) \cup
                       (IF l > last /\ event.by = "command" THEN {last} ELSE {})
  BY <1>1 DEF Selections
<1>4. CASE l <= last \/ event.by # "command"
  <2> DEFINE sel == Selections(IF l <= last THEN l ELSE last)
  <2>1. Selections(l)' = sel
    BY <1>3, <1>4
  <2>2. CASE sel = {}
    BY <1>4, <2>1, <2>2 DEF ScopeOf, Selections
  <2>3. CASE sel # {}
    <3>1. sel \in SUBSET Nat /\ sel \subseteq Events /\ \A x \in sel : x <= Len(trace)
      BY <1>1 DEF Selections
    <3>2. Max(sel) \in Events
      BY <1>1, <2>3, <3>1, MaxExists
    <3>3. ScopeOf(l)' = TargetOf(trace'[Max(sel)])
      BY <2>1, <2>3 DEF ScopeOf, Selections, TargetOf, View, input
    <3>4. ScopeOf(IF l <= last THEN l ELSE last) = TargetOf(trace[Max(sel)])
      BY <2>3 DEF ScopeOf, Selections
    <3>. QED BY <1>1, <1>4, <3>2, <3>3, <3>4
  <2>. QED BY <2>2, <2>3
<1>5. CASE l > last /\ event.by = "command"
  <2>1. Max(Selections(l)') = last
    BY <1>1, <1>3, <1>5, MaxIs DEF Selections
  <2>2. Selections(l)' # {}
    BY <1>3, <1>5
  <2>3. ScopeOf(l)' = TargetOf(trace'[last])
    BY <2>1, <2>2 DEF ScopeOf, Selections, TargetOf, View, input
  <2>. QED BY <1>1, <1>5, <2>3
<1>. QED BY <1>4, <1>5

\* The scope changes with the command parsed.
LEMMA ScopeNext ==
  ASSUME TypeOK, FlagState, Frontier, StopsAtFirstFailure, Scope, [Next]_vars
  PROVE  Scope'
<1> DEFINE last == Len(trace) + 1
<1>1. Len(trace) \in Nat /\ Events = 1..Len(trace)
  BY EventFacts
<1>2. ASSUME NEW event \in EventType, trace' = Append(trace, event), event.command = cmd,
             UNCHANGED <<input, action>>,
             cmd' = IF event.by = "command" THEN TargetOf(event) ELSE cmd,
             event.by = "command" => action = None
      PROVE  Scope'
  <2>1. /\ Len(trace') = last /\ Events' = 1..last /\ trace'[last] = event
        /\ \A n \in Events : trace'[n] = trace[n]
    <3>1. Len(trace') = last
      BY <1>2 DEF TypeOK
    <3>2. /\ Events' = Events \cup {last} /\ trace'[last] = event
          /\ \A n \in Events : trace'[n] = trace[n]
      BY <1>2, Appended
    <3>3. Events' = 1..last
      BY <1>1, <3>2
    <3>. QED BY <3>1, <3>2, <3>3
  <2>2. ASSUME NEW n \in 1..last + 1
        PROVE  ScopeOf(n)' = IF n \in 1..last THEN trace'[n].command ELSE cmd'
    <3>1. ScopeOf(n)' = IF n <= last THEN ScopeOf(n)
                        ELSE IF event.by = "command" THEN TargetOf(event) ELSE ScopeOf(last)
      BY <1>1, <1>2, ScopeAppended
    <3>2. ScopeOf(last) = cmd
      BY <1>1 DEF Scope
    <3>3. n \in Events => ScopeOf(n) = trace[n].command
      BY <1>1 DEF Scope
    <3>. QED BY <1>1, <1>2, <2>1, <3>1, <3>2, <3>3
  <2>3. action' = None \/ action' = cmd'
    BY <1>2 DEF Scope
  <2>. QED BY <1>1, <2>1, <2>2, <2>3 DEF Scope
<1>3. CASE CallOption \/ CallArgument
  <2>1. PICK event \in EventType :
          trace' = Append(trace, event) /\ event.by # "command" /\ event.command = cmd
    BY <1>3, OptionEvent, ArgumentEvent
  <2>2. UNCHANGED <<input, cmd, action>>
    BY <1>3 DEF CallOption, Proceed, CallArgument, Fail
  <2>. QED BY <1>2, <2>1, <2>2
<1>4. CASE SelectCommand
  <2>1. PICK event \in EventType :
          /\ trace' = Append(trace, event)
          /\ event.by = "command" /\ event.command = cmd /\ event.value = Arg(positional)
    BY <1>4, CommandEvent
  <2>2. UNCHANGED <<input, action>> /\ cmd' = TargetOf(event)
    BY <1>4, <2>1 DEF SelectCommand, EnterCommand, TargetOf, commands, command
  <2>3. action = None
    BY <1>4, RunningMeansNoFailure DEF SelectCommand
  <2>. QED BY <1>2, <2>1, <2>2, <2>3
<1>5. CASE Quiet
  <2>1. \A n \in 1..last : ScopeOf(n)' = ScopeOf(n)
    BY <1>5, QuietStep DEF ScopeOf, Events, TargetOf, View, input
  <2>2. CASE cmd' = cmd
    BY <1>5, <2>1, <2>2, QuietStep DEF Scope, Events
  <2>3. CASE pc = "parse" /\ cmd' = Root
    <3>1. Events = {} /\ Len(trace) = 0 /\ action = None
      BY <1>1, <2>3, RunningMeansNoFailure DEF Frontier
    <3>2. ScopeOf(1)' = Root
      BY <1>5, <3>1, QuietStep DEF ScopeOf, Events
    <3>. QED BY <1>5, <2>3, <3>1, <3>2, QuietStep DEF Scope, Events
  <2>. QED BY <1>5, <2>2, <2>3, QuietStep
<1>. QED BY <1>3, <1>4, <1>5 DEF Quiet

\* The scope is an invariant of every parse.
LEMMA ScopeInvariant == Spec => []Scope
<1>1. Init => Scope
  BY DEF Init, Scope, Events, ScopeOf
<1>. QED BY <1>1, TypeCorrect, FlagStateInvariant, FrontierInvariant, FirstFailureStops, ScopeNext, PTL DEF Spec

\* Whatever the tree of commands, no callback and no action of an outer command
\* is reached after a sub-command has been selected.
THEOREM ScopeKept == Spec => []ScopedToSelectedCommand
<1>1. TypeOK /\ Scope => ScopedToSelectedCommand
  BY EventFacts DEF Scope, ScopedToSelectedCommand
<1>. QED BY <1>1, TypeCorrect, ScopeInvariant, PTL

-----------------------------------------------------------------------------
(***************************************************************************)
(* Every token is used                                                     *)
(***************************************************************************)
Used(t) == \E n \in Events : t \in trace[n].at..LastToken(trace[n])

\* All tokens before the one to be read next are used; of a flag that is being
\* matched they will be, if some option bears its name.
Covered ==
  /\ pc \in {"options", "dispatch", "arguments"} => \A t \in 1..positional - 1 : Used(t)
  /\ pc = "match" =>
       /\ \A t \in 1..flagAt - 1 : Used(t)
       /\ numberMatched > 0 => \E n \in Events : trace[n].at = flagAt
       /\ NextTaken => \E n \in Events : trace[n].at = flagAt /\ TookNext(trace[n])
  /\ action # None => \A t \in 1..argc - 1 : Used(t)

\* A step that appends nothing leaves the tokens used as they are.
LEMMA UsedQuiet ==
  ASSUME UNCHANGED <<input, trace>>, NEW t
  PROVE  Used(t)' <=> Used(t)
BY DEF Used, Events, LastToken, TookNext, Arg, input

\* An event uses its tokens, and those of the events before it stay used.
LEMMA UsedAppended ==
  ASSUME TypeOK, UNCHANGED input, NEW event \in EventType, trace' = Append(trace, event), NEW t
  PROVE  Used(t)' <=> Used(t) \/ t \in event.at..LastToken(event)
<1>1. /\ Events' = Events \cup {Len(trace) + 1} /\ trace'[Len(trace) + 1] = event
      /\ \A n \in Events : trace'[n] = trace[n]
  BY Appended
<1>2. argv' = argv
  BY DEF input
<1>3. ASSUME NEW n \in Events PROVE LastToken(trace[n])' = LastToken(trace[n])
  BY <1>1, <1>2 DEF LastToken, TookNext, Arg
<1>4. ASSUME NEW n, n = Len(trace) + 1 PROVE LastToken(trace[n])' = LastToken(event)
  BY <1>1, <1>2, <1>4 DEF LastToken, TookNext, Arg
<1>. QED BY <1>1, <1>3, <1>4 DEF Used

\* A flag that is being matched keeps all tokens before it used.
LEMMA CoveredOption ==
  ASSUME TypeOK, FlagState, StopsAtFirstFailure, Covered, CallOption
  PROVE  Covered'
<1>1. PICK event \in EventType :
        /\ trace' = Append(trace, event)
        /\ event.by = "option" /\ event.at = flagAt /\ event.index = k
        /\ event.value = ValueFor(options[k])
  BY OptionEvent
<1>2. /\ pc = "match" /\ pc' \in {"match", "done"} /\ action' = None
      /\ UNCHANGED <<input, flagAt, argName, argValue>>
  BY RunningMeansNoFailure DEF CallOption, Proceed, Fail
<1>3. /\ Events' = Events \cup {Len(trace) + 1} /\ trace'[Len(trace) + 1] = event
      /\ \A n \in Events : trace'[n] = trace[n]
  BY <1>1, Appended
<1>4. \A t \in 1..flagAt' - 1 : Used(t)'
  BY <1>1, <1>2, UsedAppended DEF Covered
<1>5. \E n \in Events' : trace'[n].at = flagAt'
  BY <1>1, <1>2, <1>3
<1>6. ASSUME NextTaken' PROVE \E n \in Events' : trace'[n].at = flagAt' /\ TookNext(trace[n])'
  <2>1. CASE NextTaken
    <3>1. PICK n \in Events : trace[n].at = flagAt /\ TookNext(trace[n])
      BY <1>2, <2>1 DEF Covered
    <3>. QED BY <1>2, <1>3, <3>1 DEF TookNext, Arg, input
  <2>2. CASE ~NextTaken
    <3>1. LooksAhead(flagAt) /\ consumeValue /\ ~consumeValue'
      BY <1>2, <1>6, <2>2 DEF NextTaken, LooksAhead, IsFlag, Arg, input
    <3>2. options[k].expects # "NotRequired" /\ InlineOf[Arg(flagAt)] = None
      BY <3>1 DEF CallOption, ConsumeFor, Consumes, LooksAhead
    <3>3. event.value # None
      <4>1. argValue = Arg(flagAt + 1) /\ flagAt + 1 < argc
        BY <1>2, <3>1 DEF FlagState, LooksAhead
      <4>2. Arg(flagAt + 1) \in Text \cup {Null}
        BY <4>1, TokenType DEF TypeOK
      <4>. QED BY <1>1, <3>2, <4>1, <4>2, TokenAssumption DEF ValueFor
    <3>. QED BY <1>1, <1>2, <1>3, <3>2, <3>3 DEF TookNext, Arg, input
  <2>. QED BY <2>1, <2>2
<1>. QED BY <1>2, <1>4, <1>5, <1>6 DEF Covered

\* A command's name and an argument are used by the event they cause.
LEMMA CoveredUnit ==
  ASSUME TypeOK, StopsAtFirstFailure, Covered, SelectCommand \/ CallArgument
  PROVE  Covered'
<1>1. PICK event \in EventType :
        trace' = Append(trace, event) /\ event.by # "option" /\ event.at = positional
  BY CommandEvent, ArgumentEvent
<1>2. /\ pc \in {"dispatch", "arguments"} /\ pc' \in {"options", "arguments", "done"}
      /\ pc' # "done" => positional' = positional + 1
      /\ UNCHANGED input /\ action' = None
  BY RunningMeansNoFailure DEF SelectCommand, EnterCommand, CallArgument, Fail
<1>3. LastToken(event) = positional
  BY <1>1 DEF LastToken, TookNext
<1>4. ASSUME pc' # "done", NEW t \in 1..positional' - 1 PROVE Used(t)'
  <2>1. Used(t) \/ t = positional
    BY <1>2, <1>4 DEF Covered, TypeOK
  <2>. QED BY <1>1, <1>2, <1>3, <2>1, UsedAppended DEF TypeOK
<1>. QED BY <1>2, <1>4 DEF Covered

\* When the options that bear its name have been called, a flag is used, with the
\* token it took.
LEMMA CoveredEndFlag ==
  ASSUME TypeOK, FlagState, IndicesAgree, Covered, EndFlag
  PROVE  \A t \in 1..positional : Used(t)
<1>1. /\ pc = "match" /\ positional = i /\ numberMatched > 0 /\ flagAt \in Nat /\ i \in Nat
      /\ i = IF NextTaken THEN flagAt + 1 ELSE flagAt
  BY DEF EndFlag, IndicesAgree, FlagState, TypeOK
<1>2. Used(flagAt)
  <2>1. PICK n \in Events : trace[n].at = flagAt
    BY <1>1 DEF Covered
  <2>2. LastToken(trace[n]) \in Nat /\ LastToken(trace[n]) >= flagAt
    BY <1>1, <2>1, EventFacts, LastTokenType
  <2>. QED BY <1>1, <2>1, <2>2 DEF Used
<1>3. NextTaken => Used(flagAt + 1)
  <2>1. SUFFICES ASSUME NextTaken PROVE Used(flagAt + 1)
    OBVIOUS
  <2>2. PICK n \in Events : trace[n].at = flagAt /\ TookNext(trace[n])
    BY <1>1, <2>1 DEF Covered
  <2>. QED BY <1>1, <2>2 DEF Used, LastToken
<1>4. \A t \in 1..flagAt - 1 : Used(t)
  BY <1>1 DEF Covered
<1>. QED BY <1>1, <1>2, <1>3, <1>4

\* No step leaves a token behind.
LEMMA CoveredNext ==
  ASSUME TypeOK, FlagState, IndicesAgree, StopsAtFirstFailure, Covered, [Next]_vars
  PROVE  Covered'
<1>1. CASE CallOption
  BY <1>1, CoveredOption
<1>2. CASE SelectCommand \/ CallArgument
  BY <1>2, CoveredUnit
<1>3. CASE UNCHANGED vars
  BY <1>3, UsedQuiet DEF vars, flag, input, Covered, NextTaken, LooksAhead, IsFlag, TookNext, Arg, Events
<1>4. CASE EndFlag
  <2>1. UNCHANGED <<input, trace>> /\ pc' = "options" /\ positional' = positional + 1 /\ action' = None
    BY <1>4, RunningMeansNoFailure DEF EndFlag
  <2>2. \A t \in 1..positional' - 1 : Used(t)
    BY <1>4, <2>1, CoveredEndFlag DEF TypeOK
  <2>. QED BY <2>1, <2>2, UsedQuiet DEF Covered
<1>5. CASE BeginFlag \/ SkipOption
  <2>1. UNCHANGED <<input, trace>> /\ pc' = "match" /\ action' = None
    BY <1>5, RunningMeansNoFailure DEF BeginFlag, SkipOption
  <2>2. CASE BeginFlag
    <3>1. pc = "options" /\ flagAt' = positional /\ numberMatched' = 0 /\ ~NextTaken'
      BY <2>2 DEF BeginFlag, IndicesAgree, NextTaken, LooksAhead, IsFlag, Arg, input
    <3>. QED BY <2>1, <3>1, UsedQuiet DEF Covered
  <2>3. CASE SkipOption
    <3>1. pc = "match" /\ UNCHANGED <<flagAt, numberMatched>> /\ (NextTaken' <=> NextTaken)
      BY <2>3 DEF SkipOption, NextTaken, LooksAhead, IsFlag, Arg, input
    <3>. QED BY <2>1, <3>1, UsedQuiet DEF Covered, TookNext, Arg, Events, input
  <2>. QED BY <1>5, <2>2, <2>3
<1>6. CASE ParseArgs \/ NoMoreFlags \/ (BeginArguments /\ pc' # "done")
  <2>1. UNCHANGED <<input, trace>> /\ pc' \in {"options", "dispatch", "arguments"} /\ action' = None
    BY <1>6, RunningMeansNoFailure DEF ParseArgs, EnterCommand, NoMoreFlags, BeginArguments, Fail
  <2>2. positional' = 1 \/ (positional' = positional /\ pc \in {"options", "dispatch"})
    BY <1>6 DEF ParseArgs, EnterCommand, NoMoreFlags, BeginArguments
  <2>. QED BY <2>1, <2>2, UsedQuiet DEF Covered
<1>7. CASE Quiet /\ pc' = "done" /\ pc # "done"
  <2>1. UNCHANGED <<input, trace>>
    BY <1>7, QuietStep
  <2>2. action' = None \/ (EmptyArgs \/ EndOfArgs \/ EndArguments)
    BY <1>7, RunningMeansNoFailure
       DEF Quiet, Next, vars, NegativeArgc, ParseArgs, NullToken, NoMoreFlags, BeginFlag, SkipOption,
           ValueMissing, EndFlag, UnknownFlag, UnknownCommand, BeginArguments, UnexpectedArguments,
           NullArgument, EnterCommand, Fail
  <2>3. ASSUME action' # None, NEW t \in 1..argc - 1 PROVE Used(t)
    BY <2>2, <2>3 DEF EmptyArgs, EndOfArgs, EndArguments, Fail, Return, Covered, TypeOK
  <2>. QED BY <1>7, <2>1, <2>3, UsedQuiet DEF Covered, input
<1>. QED
  BY <1>1, <1>2, <1>3, <1>4, <1>5, <1>6, <1>7
     DEF Next, Quiet, NegativeArgc, EmptyArgs, NullToken, ValueMissing, UnknownFlag, UnknownCommand,
         UnexpectedArguments, EndOfArgs, NullArgument, EndArguments, BeginArguments, Fail, Return

\* So are the tokens covered.
LEMMA CoveredInvariant == Spec => []Covered
<1>1. Init => Covered
  BY DEF Init, Covered
<1>. QED
  BY <1>1, TypeCorrect, FlagStateInvariant, IndicesAlwaysAgree, FirstFailureStops, CoveredNext, PTL DEF Spec

\* However the line, the options and their expectations are mixed, no token of an
\* accepted line is passed over.
THEOREM AcceptedIsUsed == Spec => []AcceptedMeansAllUsed
<1>1. Covered => AcceptedMeansAllUsed
  BY DEF Covered, AcceptedMeansAllUsed, Used
<1>. QED BY <1>1, CoveredInvariant, PTL

-----------------------------------------------------------------------------
(***************************************************************************)
(* The options that share a name                                           *)
(***************************************************************************)
CalledAt(at, j) ==
  \E m \in Events : trace[m].by = "option" /\ trace[m].at = at /\ trace[m].index = j

AllBearersCalled(e) ==
  \A j \in DOMAIN CommandsOf[parser][e.command].options :
    NameOf[Arg(e.at)] \in CommandsOf[parser][e.command].options[j].names => CalledAt(e.at, j)

\* All bearers of past flags have been called, of the present flag those before k.
BearersSoFar ==
  error = None =>
    /\ \A n \in Events : trace[n].by = "option" =>
         IF pc = "match" /\ trace[n].at = flagAt THEN trace[n].command = cmd
         ELSE AllBearersCalled(trace[n])
    /\ pc = "match" =>
         \A j \in DOMAIN options : j < k /\ IsMatch(options[j]) => CalledAt(flagAt, j)

\* Events are not taken back.
LEMMA CalledStays ==
  ASSUME TypeOK, UNCHANGED input,
         trace' = trace \/ \E event : trace' = Append(trace, event), NEW at, NEW j
  PROVE  CalledAt(at, j) => CalledAt(at, j)'
<1>1. CASE trace' = trace
  BY <1>1 DEF CalledAt, Events
<1>2. CASE \E event : trace' = Append(trace, event)
  BY <1>2, Appended DEF CalledAt
<1>. QED BY <1>1, <1>2

\* The call of an option adds it to those called.
LEMMA BearersOption ==
  ASSUME TypeOK, FlagState, BearersSoFar, CallOption
  PROVE  BearersSoFar'
<1> SUFFICES ASSUME error' = None PROVE BearersSoFar'
  BY DEF BearersSoFar
<1>1. PICK event \in EventType :
        /\ trace' = Append(trace, event)
        /\ event.by = "option" /\ event.command = cmd /\ event.at = flagAt /\ event.index = k
  BY OptionEvent
<1>2. /\ error = None /\ pc = "match" /\ pc' = "match" /\ k' = k + 1
      /\ UNCHANGED <<input, cmd, flagAt, argName>>
  BY DEF CallOption, Proceed, Fail
<1>3. /\ Events' = Events \cup {Len(trace) + 1} /\ trace'[Len(trace) + 1] = event
      /\ \A n \in Events : trace'[n] = trace[n]
  BY <1>1, Appended
<1>4. ASSUME NEW n \in Events', trace'[n].by = "option"
      PROVE  IF trace'[n].at = flagAt THEN trace'[n].command = cmd ELSE AllBearersCalled(trace[n])'
  <2>1. CASE n = Len(trace) + 1
    BY <1>1, <1>3, <2>1
  <2>2. CASE n \in Events /\ trace[n].at = flagAt
    BY <1>2, <1>3, <1>4, <2>2 DEF BearersSoFar
  <2>3. CASE n \in Events /\ trace[n].at # flagAt
    <3>1. AllBearersCalled(trace[n]) /\ trace'[n] = trace[n]
      BY <1>2, <1>3, <1>4, <2>3 DEF BearersSoFar
    <3>. QED BY <1>1, <1>2, <2>3, <3>1, CalledStays DEF AllBearersCalled, Arg, input
  <2>. QED BY <1>3, <2>1, <2>2, <2>3
<1>5. ASSUME NEW j \in DOMAIN options, j < k', IsMatch(options[j])
      PROVE  CalledAt(flagAt, j)'
  <2>1. CASE j = k
    BY <1>1, <1>2, <1>3, <2>1 DEF CalledAt
  <2>2. CASE j < k
    BY <1>1, <1>2, <1>5, <2>2, CalledStays DEF BearersSoFar
  <2>3. j \in Nat /\ k \in Nat
    BY CommandsTyped DEF TypeOK, options, command
  <2>. QED BY <1>2, <1>5, <2>1, <2>2, <2>3
<1>. QED BY <1>2, <1>4, <1>5 DEF BearersSoFar, IsMatch, options, command, input, CalledAt

\* No step gives up a flag before the last of its options.
LEMMA BearersNext ==
  ASSUME TypeOK, FlagState, IndicesAgree, Frontier, StopsAtFirstFailure, BearersSoFar, [Next]_vars
  PROVE  BearersSoFar'
<1>1. CASE CallOption
  BY <1>1, BearersOption
<1>2. CASE SelectCommand \/ CallArgument
  <2>1. PICK event \in EventType : trace' = Append(trace, event) /\ event.by # "option"
    BY <1>2, CommandEvent, ArgumentEvent
  <2>2. UNCHANGED input /\ error = None /\ pc # "match" /\ pc' # "match"
    BY <1>2, RunningMeansNoFailure DEF SelectCommand, EnterCommand, CallArgument, Fail
  <2>3. ASSUME NEW n \in Events', trace'[n].by = "option" PROVE AllBearersCalled(trace[n])'
    <3>1. n \in Events /\ trace'[n] = trace[n]
      BY <2>1, <2>3, Appended
    <3>2. AllBearersCalled(trace[n])
      BY <2>2, <2>3, <3>1 DEF BearersSoFar
    <3>. QED BY <2>1, <2>2, <3>1, <3>2, CalledStays DEF AllBearersCalled, Arg, input
  <2>. QED BY <2>2, <2>3 DEF BearersSoFar
<1>3. CASE EndFlag
  <2>1. /\ UNCHANGED <<input, trace, cmd, error>> /\ pc = "match" /\ pc' = "options"
        /\ k > Len(options) /\ error = None
    BY <1>3, RunningMeansNoFailure DEF EndFlag
  <2>2. ASSUME NEW n \in Events, trace[n].by = "option" PROVE AllBearersCalled(trace[n])
    <3>1. CASE trace[n].at # flagAt
      BY <2>1, <2>2, <3>1 DEF BearersSoFar
    <3>2. CASE trace[n].at = flagAt
      <4>1. CommandsOf[parser][trace[n].command].options = options
        BY <2>1, <2>2, <3>2 DEF BearersSoFar, options, command
      <4>2. options \in Seq(Option) /\ k \in Nat
        BY CommandsTyped DEF TypeOK, options, command
      <4>3. \A j \in DOMAIN options : j < k
        BY <2>1, <4>2
      <4>4. argName = NameOf[Arg(flagAt)]
        BY <2>1 DEF FlagState
      <4>5. \A j \in DOMAIN options : argName \in options[j].names => CalledAt(flagAt, j)
        BY <2>1, <4>3 DEF BearersSoFar, IsMatch
      <4>. QED BY <3>2, <4>1, <4>4, <4>5 DEF AllBearersCalled
    <3>. QED BY <3>1, <3>2
  <2>. QED BY <2>1, <2>2 DEF BearersSoFar, AllBearersCalled, CalledAt, Events, Arg, input
<1>4. CASE BeginFlag
  <2>1. /\ UNCHANGED <<input, trace, cmd, error>> /\ pc = "options" /\ pc' = "match"
        /\ k' = 1 /\ flagAt' = positional /\ error = None
    BY <1>4, RunningMeansNoFailure DEF BeginFlag, IndicesAgree
  <2>2. ASSUME NEW n \in Events PROVE trace[n].at # positional
    <3>1. LastToken(trace[n]) < positional
      BY <2>1 DEF Frontier
    <3>. QED BY <3>1, EventFacts, LastTokenType DEF TypeOK
  <2>3. \A n \in Events : trace[n].by = "option" => AllBearersCalled(trace[n])
    BY <2>1 DEF BearersSoFar
  <2>4. \A j \in DOMAIN options' : ~(j < k')
    BY <2>1, CommandsTyped DEF TypeOK, options, command, input
  <2>. QED BY <2>1, <2>2, <2>3, <2>4 DEF BearersSoFar, AllBearersCalled, CalledAt, Events, Arg, input
<1>5. CASE SkipOption
  <2>1. /\ UNCHANGED <<input, trace, cmd, error, flagAt, argName, pc>> /\ pc = "match" /\ k' = k + 1
        /\ ~IsMatch(options[k])
    BY <1>5 DEF SkipOption
  <2>2. \A j \in DOMAIN options : j < k + 1 => j < k \/ j = k
    BY CommandsTyped DEF TypeOK, options, command
  <2>. QED
    BY <2>1, <2>2
       DEF BearersSoFar, AllBearersCalled, CalledAt, IsMatch, options, command, Events, Arg, input
<1>6. CASE Quiet /\ ~EndFlag /\ ~BeginFlag /\ ~SkipOption /\ ~UNCHANGED vars
  <2>1. UNCHANGED <<input, trace>>
    BY <1>6, QuietStep
  <2>2. CASE ParseArgs \/ NoMoreFlags \/ EmptyArgs \/ EndOfArgs \/ EndArguments \/ BeginArguments
    <3>1. pc \notin {"match", "done"} /\ pc' # "match"
      BY <2>2 DEF ParseArgs, NoMoreFlags, EmptyArgs, EndOfArgs, EndArguments, BeginArguments,
                  EnterCommand, Fail, Return
    <3>2. error = None
      BY <3>1, RunningMeansNoFailure
    <3>. QED BY <2>1, <3>1, <3>2 DEF BearersSoFar, AllBearersCalled, CalledAt, Events, Arg, input
  <2>3. CASE NegativeArgc \/ NullToken \/ ValueMissing \/ UnknownFlag \/ UnknownCommand
               \/ UnexpectedArguments \/ NullArgument
    <3>1. error' \in Errors
      BY <2>3 DEF NegativeArgc, NullToken, ValueMissing, UnknownFlag, UnknownCommand,
                  UnexpectedArguments, NullArgument, Fail, Errors
    <3>. QED BY <3>1, NoneIsNoError DEF BearersSoFar
  <2>. QED BY <1>6, <2>2, <2>3 DEF Quiet, Next
<1>7. CASE UNCHANGED vars
  BY <1>7
     DEF vars, flag, input, BearersSoFar, AllBearersCalled, CalledAt, IsMatch, options, command,
         Events, Arg
<1>. QED BY <1>1, <1>2, <1>3, <1>4, <1>5, <1>6, <1>7 DEF Quiet

\* Whatever options bear the name of a flag, in whatever order and with whatever
\* expectations, an accepted line has called all of them.
THEOREM BearersAllCalled == Spec => []EveryBearerCalled
<1>1. Init => BearersSoFar
  BY DEF Init, BearersSoFar, Events
<1>2. Spec => []BearersSoFar
  BY <1>1, TypeCorrect, FlagStateInvariant, IndicesAlwaysAgree, FrontierInvariant, FirstFailureStops,
     BearersNext, PTL DEF Spec
<1>3. StopsAtFirstFailure /\ BearersSoFar => EveryBearerCalled
  <2>1. SUFFICES ASSUME StopsAtFirstFailure, BearersSoFar, action # None,
                        NEW n \in Events, trace[n].by = "option"
                 PROVE  AllBearersCalled(trace[n])
    BY DEF EveryBearerCalled, AllBearersCalled, CalledAt, SameFlag
  <2>. QED BY <2>1 DEF StopsAtFirstFailure, BearersSoFar
<1>. QED BY <1>2, <1>3, FirstFailureStops, PTL

-----------------------------------------------------------------------------
(***************************************************************************)
(* What the variables hold                                                 *)
(***************************************************************************)
Writers(c) == {n \in Events : Writes(trace[n], c)}

HoldsLast(c) == cells[c] = IF Writers(c) = {} THEN Initial ELSE Written(trace[Max(Writers(c))])

\* The property, one variable at a time, before and after a step.
LEMMA HeldByCell ==
  /\ DestinationsHoldLastValue <=> \A c \in Cell : HoldsLast(c)
  /\ DestinationsHoldLastValue' <=> \A c \in Cell : HoldsLast(c)'
BY DEF DestinationsHoldLastValue, HoldsLast, Writers

\* What an event writes depends on the parser alone.
LEMMA WrittenStays ==
  ASSUME UNCHANGED input, NEW c
  PROVE  HoldsLast(c)' <=> cells'[c] = IF Writers(c)' = {} THEN Initial
                                       ELSE Written(trace'[Max(Writers(c)')])
BY DEF HoldsLast, Written, OptionOf, ArgumentOf, View, input

\* The number of one more event.
LEMMA NextEvent ==
  ASSUME TypeOK
  PROVE  /\ Len(trace) \in Nat /\ Events = 1..Len(trace) /\ Events \in SUBSET Nat
         /\ \A n \in Events : n <= Len(trace) + 1 /\ n # Len(trace) + 1
BY EventFacts

\* A variable follows its last writer when an event is appended.
LEMMA HeldAppended ==
  ASSUME TypeOK, DestinationsHoldLastValue, UNCHANGED input,
         NEW event \in EventType, trace' = Append(trace, event),
         \A c \in Cell : cells'[c] = IF Writes(event, c) THEN Written(event) ELSE cells[c]
  PROVE  DestinationsHoldLastValue'
<1> DEFINE last == Len(trace) + 1
<1>1. /\ Events' = Events \cup {last} /\ trace'[last] = event
      /\ \A n \in Events : trace'[n] = trace[n]
  BY Appended
<1>. SUFFICES ASSUME NEW c \in Cell
               PROVE  cells'[c] = IF Writers(c)' = {} THEN Initial ELSE Written(trace'[Max(Writers(c)')])
  BY HeldByCell, WrittenStays
<1>3. cells[c] = IF Writers(c) = {} THEN Initial ELSE Written(trace[Max(Writers(c))])
  BY HeldByCell DEF HoldsLast
<1>4. Writers(c)' = Writers(c) \cup (IF Writes(event, c) THEN {last} ELSE {})
  <2>1. ASSUME NEW n \in Events PROVE Writes(trace[n], c)' <=> Writes(trace[n], c)
    BY <1>1 DEF Writes, OptionOf, ArgumentOf, input
  <2>2. ASSUME NEW n, n = last PROVE Writes(trace[n], c)' <=> Writes(event, c)
    BY <1>1, <2>2 DEF Writes, OptionOf, ArgumentOf, input
  <2>. QED BY <1>1, <2>1, <2>2 DEF Writers
<1>5. CASE Writes(event, c)
  <2>1. Writers(c) \in SUBSET Nat /\ \A n \in Writers(c) : n <= last
    BY NextEvent DEF Writers
  <2>2. Writers(c)' = Writers(c) \cup {last} /\ last \in Nat
    BY <1>4, <1>5, NextEvent
  <2>3. Max(Writers(c)') = last
    BY <2>1, <2>2, MaxIs
  <2>. QED BY <1>1, <1>5, <2>2, <2>3
<1>6. CASE ~Writes(event, c) /\ Writers(c) = {}
  BY <1>3, <1>4, <1>6
<1>7. CASE ~Writes(event, c) /\ Writers(c) # {}
  <2>1. Writers(c)' = Writers(c)
    BY <1>4, <1>7
  <2>2. Max(Writers(c)) \in Events
    <3>1. Writers(c) \in SUBSET Nat /\ \A n \in Writers(c) : n <= Len(trace) + 1
      BY NextEvent DEF Writers
    <3>2. Len(trace) + 1 \in Nat
      BY NextEvent
    <3>. QED BY <1>7, <3>1, <3>2, MaxExists DEF Writers
  <2>. QED BY <1>1, <1>3, <1>7, <2>1, <2>2
<1>. QED BY <1>5, <1>6, <1>7

\* What the callback of an option stores is what Written says of its event.
LEMMA OptionStores ==
  ASSUME NEW o \in Option, NEW value \in Text \cup {Null, None},
         o.expects = "Required" => value # None,
         NEW out \in OptionOutcomes(o.kind, value)
  PROVE  IF o.kind \in Converters /\ out.error = None
         THEN /\ out.store # None
              /\ out.store = IF value = None THEN True ELSE Convert[o.kind][View(value)]
         ELSE out.store = None
<1>1. CASE o.kind \in {"custom", "version", "help"}
  BY <1>1 DEF OptionOutcomes, CustomOutcomes, HelpOutcome, Continue, Refuse, Converters
<1>2. CASE o.kind = "bool" /\ value = None
  BY <1>2, ConverterAssumption DEF OptionOutcomes, Continue, Converters
<1>3. CASE o.kind \in Converters /\ ~(o.kind = "bool" /\ value = None)
  <2>1. value # None
    BY <1>3 DEF Option, ExpectsOf, Converters
  <2>2. out = Converted(o.kind, value)
    BY <1>3 DEF OptionOutcomes, Converters
  <2>3. "Crash" # None /\ "OptionParsing" # None
    BY NoneIsNoError DEF Errors
  <2>. QED BY <1>3, <2>1, <2>2, <2>3 DEF Converted, Continue, Refuse
<1>. QED BY <1>1, <1>2, <1>3 DEF Option, OptionKinds, ArgumentKinds, Converters

\* So does the callback of an argument, which for a float assigns in any case.
LEMMA ArgumentStores ==
  ASSUME NEW arg \in Argument, NEW value \in Text, NEW out \in ArgumentOutcomes(arg.kind, value)
  PROVE  IF arg.kind \in Converters /\ (out.error = None \/ arg.kind = "float")
         THEN /\ out.store # None
              /\ out.store = IF out.error # None THEN Zero ELSE Convert[arg.kind][value]
         ELSE out.store = None
<1>1. value # Null /\ View(value) = value
  BY TokenAssumption DEF View
<1>2. "Crash" # None /\ "OptionParsing" # None
  BY NoneIsNoError DEF Errors
<1>3. CASE arg.kind = "custom"
  BY <1>3 DEF ArgumentOutcomes, CustomOutcomes, Continue, Refuse, Converters
<1>4. CASE arg.kind = "float" /\ Convert["float"][value] = None
  BY <1>2, <1>4, ConverterAssumption DEF ArgumentOutcomes, Converters
<1>5. CASE arg.kind \in Converters /\ ~(arg.kind = "float" /\ Convert["float"][value] = None)
  <2>1. out = Converted(arg.kind, value)
    BY <1>5 DEF ArgumentOutcomes, Converters
  <2>. QED BY <1>1, <1>2, <1>5, <2>1 DEF Converted, Continue, Refuse
<1>. QED BY <1>3, <1>4, <1>5 DEF Argument, ArgumentKinds, Converters

\* Storing nothing leaves a variable alone; all else is stored.
LEMMA Stored ==
  ASSUME TypeOK, NEW dest \in Cell, NEW datum, Store(dest, datum), NEW c \in Cell
  PROVE  cells'[c] = IF dest = c /\ datum # None THEN datum ELSE cells[c]
BY DEF Store, TypeOK

\* The variables follow the callback of an option.
LEMMA HeldOption ==
  ASSUME TypeOK, DestinationsHoldLastValue, CallOption
  PROVE  DestinationsHoldLastValue'
<1> DEFINE o == options[k]
           value == ValueFor(o)
<1>1. PICK out \in OptionOutcomes(o.kind, value) :
        /\ Store(o.dest, out.store)
        /\ trace' = Append(trace, Event("option", k, flagAt, value, out.error))
  BY DEF CallOption
<1> DEFINE event == Event("option", k, flagAt, value, out.error)
<1>2. o \in Option
  BY CommandsTyped DEF CallOption, options, command, TypeOK
<1>3. value \in Text \cup {Null, None} /\ (o.expects = "Required" => value # None)
  BY DEF CallOption, LacksValue, ValueFor, TypeOK
<1>4. out.error \in Errors \cup {None}
  BY <1>1, <1>2, <1>3, OptionOutcomesType DEF Outcome
<1>5. event \in EventType
  BY <1>3, <1>4, EventIsTyped DEF TypeOK
<1>6. OptionOf(event) = o /\ event.by = "option" /\ event.value = value /\ event.error = out.error
  BY DEF OptionOf, Event, options, command
<1>7. o.dest \in Cell
  BY <1>2 DEF Option
<1>. HIDE DEF event, value, o
<1>8. ASSUME NEW c \in Cell
      PROVE  cells'[c] = IF Writes(event, c) THEN Written(event) ELSE cells[c]
  <2>1. Writes(event, c) <=> o.dest = c /\ o.kind \in Converters /\ out.error = None
    BY <1>6 DEF Writes
  <2>2. cells'[c] = IF o.dest = c /\ out.store # None THEN out.store ELSE cells[c]
    BY <1>1, <1>7, Stored
  <2>3. CASE o.kind \in Converters /\ out.error = None
    <3>1. out.store # None /\ out.store = IF value = None THEN True ELSE Convert[o.kind][View(value)]
      BY <1>1, <1>2, <1>3, <2>3, OptionStores
    <3>2. Written(event) = out.store
      BY <1>6, <2>3, <3>1 DEF Written
    <3>. QED BY <2>1, <2>2, <2>3, <3>1, <3>2
  <2>4. CASE ~(o.kind \in Converters /\ out.error = None)
    <3>1. out.store = None
      BY <1>1, <1>2, <1>3, <2>4, OptionStores
    <3>. QED BY <2>1, <2>2, <2>4, <3>1
  <2>. QED BY <2>3, <2>4
<1>9. UNCHANGED input /\ trace' = Append(trace, event)
  BY <1>1 DEF CallOption, event
<1>. QED BY <1>5, <1>8, <1>9, HeldAppended

\* The variables follow the callback of an argument.
LEMMA HeldArgument ==
  ASSUME TypeOK, DestinationsHoldLastValue, CallArgument
  PROVE  DestinationsHoldLastValue'
<1> DEFINE arg == arguments[a]
           value == Arg(positional)
<1>1. PICK out \in ArgumentOutcomes(arg.kind, value) :
        /\ Store(arg.dest, out.store)
        /\ trace' = Append(trace, Event("argument", a, positional, value, out.error))
  BY DEF CallArgument
<1> DEFINE event == Event("argument", a, positional, value, out.error)
<1>2. arg \in Argument /\ value \in Text
  BY CommandsTyped, TokenType DEF CallArgument, InArguments, arguments, command, TypeOK
<1>3. out.error \in Errors \cup {None}
  BY <1>1, <1>2, ArgumentOutcomesType DEF Outcome
<1>4. event \in EventType
  BY <1>2, <1>3, EventIsTyped DEF TypeOK
<1>5. ArgumentOf(event) = arg /\ event.by = "argument" /\ event.value = value /\ event.error = out.error
  BY DEF ArgumentOf, Event, arguments, command
<1>6. arg.dest \in Cell
  BY <1>2 DEF Argument
<1>7. value # None /\ View(value) = value
  BY <1>2, TokenAssumption DEF View
<1>. HIDE DEF event, value, arg
<1>8. ASSUME NEW c \in Cell
      PROVE  cells'[c] = IF Writes(event, c) THEN Written(event) ELSE cells[c]
  <2> DEFINE stores == arg.kind \in Converters /\ (out.error = None \/ arg.kind = "float")
  <2>1. Writes(event, c) <=> arg.dest = c /\ stores
    BY <1>5 DEF Writes
  <2>2. cells'[c] = IF arg.dest = c /\ out.store # None THEN out.store ELSE cells[c]
    BY <1>1, <1>6, Stored
  <2>3. CASE stores
    <3>1. out.store # None /\ out.store = IF out.error # None THEN Zero ELSE Convert[arg.kind][value]
      BY <1>1, <1>2, <2>3, ArgumentStores
    <3>2. Written(event) = out.store
      BY <1>5, <1>7, <3>1 DEF Written
    <3>. QED BY <2>1, <2>2, <2>3, <3>1, <3>2
  <2>4. CASE ~stores
    <3>1. out.store = None
      BY <1>1, <1>2, <2>4, ArgumentStores
    <3>. QED BY <2>1, <2>2, <2>4, <3>1
  <2>. QED BY <2>3, <2>4
<1>9. UNCHANGED input /\ trace' = Append(trace, event)
  BY <1>1 DEF CallArgument, event
<1>. QED BY <1>4, <1>8, <1>9, HeldAppended

\* After every step, of a line that is refused half-way too, the variables hold
\* what the last callback to write to them made of its value.
THEOREM DestinationsHeld == Spec => []DestinationsHoldLastValue
<1>1. Init => DestinationsHoldLastValue
  BY DEF Init, DestinationsHoldLastValue, Events
<1>2. TypeOK /\ DestinationsHoldLastValue /\ [Next]_vars => DestinationsHoldLastValue'
  <2>. SUFFICES ASSUME TypeOK, DestinationsHoldLastValue, [Next]_vars
                PROVE  DestinationsHoldLastValue'
    OBVIOUS
  <2>2. CASE SelectCommand
    <3>1. PICK event \in EventType : trace' = Append(trace, event) /\ event.by = "command"
      BY <2>2, CommandEvent
    <3>2. UNCHANGED <<input, cells>>
      BY <2>2 DEF SelectCommand, EnterCommand
    <3>3. \A c \in Cell : ~Writes(event, c)
      BY <3>1 DEF Writes
    <3>. QED BY <3>1, <3>2, <3>3, HeldAppended
  <2>3. CASE Quiet
    <3>1. UNCHANGED <<input, trace, cells>>
      BY <2>3, QuietStep
    <3>2. ASSUME NEW c \in Cell PROVE Writers(c)' = Writers(c)
      BY <3>1 DEF Writers, Writes, OptionOf, ArgumentOf, Events, input
    <3>. QED BY <3>1, <3>2, HeldByCell, WrittenStays DEF HoldsLast
  <2>. QED BY <2>2, <2>3, HeldOption, HeldArgument DEF Quiet
<1>. QED BY <1>1, <1>2, TypeCorrect, PTL DEF Spec

-----------------------------------------------------------------------------
(***************************************************************************)
(* The arguments filled                                                    *)
(***************************************************************************)
Calls == {n \in Events : trace[n].by = "argument"}

Smaller(x, y) == IF x <= y THEN x ELSE y

\* The tokens given to arguments are the last ones before an index.
CallsUpTo(end) == \A n \in Calls : trace[n].at = end - (Len(trace) + 1 - n)

\* The calls of arguments are the events after the first s; each has filled the
\* next argument, or the last again, of the command being parsed, with the next
\* token, and the loop is at the argument to be filled next.
FilledFrom(s) ==
  /\ s <= Len(trace) /\ Calls = s + 1..Len(trace)
  /\ \A n \in Calls :
       trace[n].command = cmd /\ trace[n].index = Smaller(n - s, Len(arguments))
  /\ pc \notin {"arguments", "done"} => s = Len(trace)
  /\ pc = "arguments" =>
       a = IF EndsWithTrailing(command) THEN Smaller(Len(trace) - s + 1, Len(arguments))
           ELSE Len(trace) - s + 1
  /\ pc = "arguments" => CallsUpTo(positional)
  /\ action # None =>
       /\ action = cmd /\ CallsUpTo(argc)
       /\ EndsWithTrailing(command) \/ Len(trace) - s = Len(arguments)

Filled == \E s \in Nat : FilledFrom(s)

\* The minimum of a set of numbers is the one that is not above any other.
LEMMA MinIs ==
  ASSUME NEW S \in SUBSET Nat, NEW m \in S, \A x \in S : m <= x
  PROVE  Min(S) = m
<1>1. ASSUME NEW x \in S, \A y \in S : x =< y PROVE x = m
  BY <1>1
<1>. QED BY <1>1 DEF Min

\* That of two numbers is the smaller of them.
LEMMA MinPair ==
  ASSUME NEW x \in Nat, NEW y \in Nat
  PROVE  Min({x, y}) = Smaller(x, y)
<1>1. Smaller(x, y) \in {x, y} /\ \A z \in {x, y} : Smaller(x, y) <= z
  BY DEF Smaller
<1>. QED BY <1>1, MinIs

\* An event before the arguments leaves them to be filled.
LEMMA FilledBefore ==
  ASSUME TypeOK, Filled, UNCHANGED input, pc \notin {"arguments", "done"}, action' = None,
         NEW event \in EventType, trace' = Append(trace, event), event.by # "argument",
         pc' # "arguments"
  PROVE  Filled'
<1>1. PICK s \in Nat : FilledFrom(s)
  BY DEF Filled
<1>2. Len(trace) \in Nat /\ Len(trace') = Len(trace) + 1 /\ s = Len(trace)
  BY <1>1 DEF TypeOK, FilledFrom
<1>3. Calls = {}
  BY <1>1, <1>2 DEF FilledFrom
<1>4. Calls' = {}
  BY <1>3, Appended DEF Calls
<1>5. FilledFrom(s + 1)'
  BY <1>2, <1>4 DEF FilledFrom
<1>. QED BY <1>5 DEF Filled

\* The argument called is the next one.
LEMMA FilledArgument ==
  ASSUME TypeOK, Filled, StopsAtFirstFailure, CallArgument
  PROVE  Filled'
<1>1. PICK s \in Nat : FilledFrom(s)
  BY DEF Filled
<1>2. PICK event \in EventType :
        /\ trace' = Append(trace, event)
        /\ event.by = "argument" /\ event.command = cmd /\ event.index = a
        /\ event.at = positional
  BY ArgumentEvent
<1>3. /\ pc = "arguments" /\ a <= Len(arguments) /\ UNCHANGED <<input, cmd>> /\ action' = None
      /\ pc' = "done" \/ (pc' = "arguments" /\ a' = NextArgument /\ positional' = positional + 1)
  BY RunningMeansNoFailure DEF CallArgument, InArguments, Fail
<1>4. arguments' = arguments /\ command' = command
  BY <1>3 DEF arguments, command, input
<1>5. Len(trace) \in Nat /\ Len(trace') = Len(trace) + 1 /\ Len(arguments) \in Nat /\ a \in Nat
  BY <1>2, CommandsTyped DEF TypeOK, arguments, command
<1>6. a = IF EndsWithTrailing(command) THEN Smaller(Len(trace) - s + 1, Len(arguments))
          ELSE Len(trace) - s + 1
  BY <1>1, <1>3 DEF FilledFrom
<1>7. s <= Len(trace) /\ Calls = s + 1..Len(trace)
  BY <1>1 DEF FilledFrom
<1>8. Calls' = s + 1..Len(trace')
  <2>1. Calls' = Calls \cup {Len(trace) + 1}
    BY <1>2, Appended DEF Calls
  <2>. QED BY <1>5, <1>7, <2>1
<1>9. ASSUME NEW n \in Calls'
      PROVE  trace'[n].command = cmd /\ trace'[n].index = Smaller(n - s, Len(arguments))
  <2>1. CASE n = Len(trace) + 1
    BY <1>2, <1>3, <1>5, <1>6, <1>7, <2>1, Appended DEF Smaller
  <2>2. CASE n # Len(trace) + 1
    <3>1. n \in Calls /\ trace'[n] = trace[n]
      BY <1>2, <2>2, Appended DEF Calls
    <3>. QED BY <1>1, <3>1 DEF FilledFrom
  <2>. QED BY <2>1, <2>2
<1>10. pc' = "arguments" =>
         a' = IF EndsWithTrailing(command) THEN Smaller(Len(trace') - s + 1, Len(arguments))
              ELSE Len(trace') - s + 1
  BY <1>3, <1>5, <1>6, <1>7 DEF NextArgument, Smaller
<1>11. pc' = "arguments" => CallsUpTo(positional)'
  <2>. SUFFICES ASSUME pc' = "arguments", NEW n \in Calls'
                PROVE  trace'[n].at = positional' - (Len(trace') + 1 - n)
    BY DEF CallsUpTo
  <2>1. n \in Nat /\ positional \in Nat /\ positional' = positional + 1
    BY <1>3, <1>5, <1>7, <1>8 DEF TypeOK
  <2>2. CASE n = Len(trace) + 1
    BY <1>2, <1>5, <2>1, <2>2, Appended
  <2>3. CASE n # Len(trace) + 1
    <3>1. n \in Calls /\ trace'[n] = trace[n]
      BY <1>2, <2>3, Appended DEF Calls
    <3>2. trace[n].at = positional - (Len(trace) + 1 - n)
      BY <1>1, <1>3, <3>1 DEF FilledFrom, CallsUpTo
    <3>. QED BY <1>5, <2>1, <3>1, <3>2
  <2>. QED BY <2>2, <2>3
<1>12. FilledFrom(s)'
  BY <1>3, <1>4, <1>5, <1>7, <1>8, <1>9, <1>10, <1>11 DEF FilledFrom
<1>. QED BY <1>12 DEF Filled

\* Each step fills the arguments in order, and accepts a line only when all are
\* filled.
LEMMA FilledNext ==
  ASSUME TypeOK, FlagState, ArgumentsFitTokens, StopsAtFirstFailure, Filled, [Next]_vars
  PROVE  Filled'
<1>1. CASE CallArgument
  BY <1>1, FilledArgument
<1>2. CASE CallOption
  <2>1. PICK event \in EventType : trace' = Append(trace, event) /\ event.by # "argument"
    BY <1>2, OptionEvent
  <2>. QED BY <1>2, <2>1, RunningMeansNoFailure, FilledBefore DEF CallOption, Proceed, Fail
<1>3. CASE SelectCommand
  <2>1. PICK event \in EventType : trace' = Append(trace, event) /\ event.by # "argument"
    BY <1>3, CommandEvent
  <2>. QED BY <1>3, <2>1, RunningMeansNoFailure, FilledBefore DEF SelectCommand, EnterCommand
<1>4. CASE Quiet
  <2>1. PICK s \in Nat : FilledFrom(s)
    BY DEF Filled
  <2>2. UNCHANGED <<input, trace>> /\ Calls' = Calls
    BY <1>4, QuietStep DEF Calls, Events
  <2>3. Len(trace) \in Nat /\ Len(arguments) \in Nat
    BY CommandsTyped DEF TypeOK, arguments, command
  <2>4. CASE ParseArgs
    BY <2>1, <2>2, <2>3, <2>4, RunningMeansNoFailure DEF ParseArgs, EnterCommand, FilledFrom, Filled
  <2>5. CASE BeginArguments
    <3>1. s = Len(trace) /\ UNCHANGED <<input, cmd, action>> /\ arguments # << >>
      BY <2>1, <2>5, RunningMeansNoFailure DEF BeginArguments, FilledFrom, Fail
    <3>2. arguments' = arguments /\ command' = command /\ Len(arguments) >= 1
      BY <2>3, <3>1, CommandsTyped DEF arguments, command, input, TypeOK
    <3>3. pc' = "arguments" => a' = 1
      BY <2>5 DEF BeginArguments, Fail
    <3>4. pc' \in {"arguments", "done"} /\ action = None
      BY <2>5, RunningMeansNoFailure DEF BeginArguments, Fail
    <3>5. CallsUpTo(positional)'
      BY <2>1, <2>2, <2>3, <3>1 DEF FilledFrom, CallsUpTo
    <3>6. FilledFrom(s)'
      BY <2>1, <2>2, <2>3, <3>1, <3>2, <3>3, <3>4, <3>5 DEF FilledFrom, Smaller
    <3>. QED BY <3>6 DEF Filled
  <2>6. CASE EmptyArgs \/ EndOfArgs \/ EndArguments
    <3>1. UNCHANGED <<input, cmd>> /\ pc' = "done" /\ arguments' = arguments /\ command' = command
      BY <2>6 DEF EmptyArgs, EndOfArgs, EndArguments, Return, Fail, arguments, command, input
    <3>2. ASSUME action' # None
          PROVE  action' = cmd /\ (EndsWithTrailing(command) \/ Len(trace) - s = Len(arguments))
      <4>1. action' = cmd
        BY <2>6, <3>2, RunningMeansNoFailure DEF EmptyArgs, EndOfArgs, EndArguments, Return, Fail
      <4>2. CASE EmptyArgs \/ EndOfArgs
        BY <2>1, <2>3, <3>2, <4>1, <4>2, RunningMeansNoFailure
           DEF EmptyArgs, EndOfArgs, NeedsNoMore, Return, Fail, FilledFrom
      <4>3. CASE EndArguments /\ ~EndsWithTrailing(command)
        <5>1. /\ positional = argc /\ argc - positional = Len(arguments) + 1 - a
              /\ a = Len(trace) - s + 1
          BY <2>1, <3>2, <4>3, RunningMeansNoFailure
             DEF EndArguments, Fail, ArgumentsFitTokens, FilledFrom
        <5>. QED BY <2>3, <4>1, <5>1 DEF TypeOK
      <4>. QED BY <2>6, <4>1, <4>2, <4>3
    <3>3. action' # None => CallsUpTo(argc)'
      <4>1. CASE EmptyArgs \/ EndOfArgs
        <5>1. Calls = {}
          BY <2>1, <2>3, <4>1 DEF EmptyArgs, EndOfArgs, FilledFrom
        <5>. QED BY <2>2, <5>1 DEF CallsUpTo
      <4>2. CASE EndArguments
        <5>1. action' # None => argc = positional
          BY <4>2, RunningMeansNoFailure DEF EndArguments, Fail
        <5>2. CallsUpTo(positional)
          BY <2>1, <4>2 DEF FilledFrom, EndArguments
        <5>. QED BY <2>2, <5>1, <5>2 DEF CallsUpTo, input
      <4>. QED BY <2>6, <4>1, <4>2
    <3>4. FilledFrom(s)'
      BY <2>1, <2>2, <3>1, <3>2, <3>3 DEF FilledFrom
    <3>. QED BY <3>4 DEF Filled
  <2>7. CASE ~ParseArgs /\ ~BeginArguments /\ ~EmptyArgs /\ ~EndOfArgs /\ ~EndArguments
    <3>1. /\ UNCHANGED <<input, cmd, a, action>> /\ arguments' = arguments /\ command' = command
          /\ pc' = pc \/ pc' = "done" \/ (pc' # "arguments" /\ pc \notin {"arguments", "done"})
          /\ pc' = "arguments" => positional' = positional
      BY <1>4, <2>7
         DEF Quiet, Next, vars, flag, NegativeArgc, NullToken, NoMoreFlags, BeginFlag, SkipOption,
             ValueMissing, EndFlag, UnknownFlag, UnknownCommand, UnexpectedArguments, NullArgument,
             Fail, arguments, command, input
    <3>2. /\ pc' = "arguments" => CallsUpTo(positional)'
          /\ action' # None => CallsUpTo(argc)'
      BY <2>1, <2>2, <3>1 DEF FilledFrom, CallsUpTo, input
    <3>3. FilledFrom(s)'
      BY <2>1, <2>2, <3>1, <3>2 DEF FilledFrom
    <3>. QED BY <3>3 DEF Filled
  <2>. QED BY <2>4, <2>5, <2>6, <2>7
<1>. QED BY <1>1, <1>2, <1>3, <1>4 DEF Quiet

\* Whatever the arguments of the command selected, they are filled in the order
\* they are declared, by the last tokens of an accepted line and by each of them.
\* Unless the last argument takes any number of tokens an accepted line has filled
\* each; if it does, the line may have ended before (parser.cpp:246-250).
THEOREM ArgumentsTakenInOrder == Spec => []ArgumentsInOrder
<1>1. Init => Filled
  BY DEF Init, Filled, FilledFrom, Calls, Events
<1>2. Spec => []Filled
  BY <1>1, TypeCorrect, FlagStateInvariant, ArgumentsAlwaysFit, FirstFailureStops, FilledNext,
     PTL DEF Spec
<1>3. TypeOK /\ Filled => ArgumentsInOrder
  <2>. SUFFICES ASSUME TypeOK, Filled PROVE ArgumentsInOrder
    OBVIOUS
  <2>1. PICK s \in Nat : FilledFrom(s)
    BY DEF Filled
  <2>2. Len(trace) \in Nat /\ s <= Len(trace) /\ Calls = s + 1..Len(trace)
    BY <2>1 DEF FilledFrom, TypeOK
  <2>3. ASSUME NEW n \in Nat, s <= n, n <= Len(trace)
        PROVE  Cardinality({m \in Calls : m <= n}) = n - s
    <3>1. {m \in Calls : m <= n} = s + 1..n
      BY <2>2, <2>3
    <3>2. Cardinality(s + 1..n) = IF s + 1 > n THEN 0 ELSE n - (s + 1) + 1
      BY <2>3, FS_Interval
    <3>3. (IF s + 1 > n THEN 0 ELSE n - (s + 1) + 1) = n - s
      BY <2>3
    <3>. QED BY <3>1, <3>2, <3>3
  <2>4. ASSUME NEW n \in Calls
        PROVE  trace[n].index =
                 Min({Cardinality({m \in Calls : m <= n}),
                      Len(CommandsOf[parser][trace[n].command].arguments)})
    <3>1. trace[n].index = Smaller(n - s, Len(arguments)) /\ trace[n].command = cmd
      BY <2>1 DEF FilledFrom
    <3>2. Cardinality({m \in Calls : m <= n}) = n - s /\ n - s \in Nat
      BY <2>2, <2>3
    <3>3. Len(arguments) \in Nat
      BY CommandsTyped DEF TypeOK, arguments, command
    <3>. QED BY <3>1, <3>2, <3>3, MinPair DEF arguments, command
  <2>5. Cardinality(Calls) = Len(trace) - s
    <3>1. {m \in Calls : m <= Len(trace)} = Calls
      BY <2>2
    <3>. QED BY <2>2, <2>3, <3>1
  <2>6. action # None =>
          \/ EndsWithTrailing(CommandsOf[parser][action])
          \/ Cardinality(Calls) = Len(CommandsOf[parser][action].arguments)
    BY <2>1, <2>5 DEF FilledFrom, arguments, command
  <2>7. ASSUME action # None, NEW n \in Calls
        PROVE  trace[n].at = argc - Cardinality({m \in Calls : n <= m})
    <3>1. {m \in Calls : n <= m} = n..Len(trace) /\ n \in Nat /\ n <= Len(trace)
      BY <2>2
    <3>2. Cardinality(n..Len(trace)) = Len(trace) - n + 1
      BY <2>2, <3>1, FS_Interval
    <3>3. Cardinality({m \in Calls : n <= m}) = Len(trace) - n + 1
      BY <3>1, <3>2
    <3>4. trace[n].at = argc - (Len(trace) + 1 - n)
      BY <2>1, <2>7 DEF FilledFrom, CallsUpTo
    <3>5. Len(trace) + 1 - n = Len(trace) - n + 1
      BY <2>2, <3>1
    <3>. QED BY <3>3, <3>4, <3>5
  <2>. QED BY <2>4, <2>6, <2>7 DEF ArgumentsInOrder, Calls
<1>. QED BY <1>2, <1>3, TypeCorrect, PTL
=============================================================================
