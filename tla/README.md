# libclime, modelled in TLA+

libclime is a command line parser for C++. An application describes its options,
positional arguments and sub-commands in a `clime::Parser`; `Parser::parse` walks
the argument vector, calls back the options and arguments it meets (the built-in
ones convert a text and assign it to a variable of the application) and returns
the action to run, or an error. There are no threads and no I/O in a parse: what is
hard about it is the order in which tokens are used up, by loops that move several
indices by hand and look one token ahead, and what the callbacks have done by the
time the parse stops.

## The system

| Component | State | Operations | Interactions | What is hard | What makes it correct |
|---|---|---|---|---|---|
| **Option syntax**: `parseOption` (`src/parser.cpp:62-78`) | `startIndex`, `endIndex` of a token | split `--name=value` | called for every flag | tokens of prefixes only, several separators | splits at the first separator, loses nothing |
| **Parser**: `parse`, `parseCommand`, `parseOptions`, `parseArguments` (`src/parser.cpp:81-273`, `include/clime/parser.hpp:423-437`) | loop indices, current command, the locals of a flag | one loop each over flags, bearers of a flag's name, arguments; recursion into sub-commands | calls the callbacks in token order, passes them a `Context`; returns the first error | look-ahead, two indices moved in step, options that share a name, trailing arguments, a null in the vector | each token is used once and in order; nobody is called without the value they rely on; an accepted line is wholly used; the first failure stops |
| **Options and arguments** (`src/arguments.cpp`) | the destination variables, held by reference | one callback per type | called by the parser; call the converters | partial effects of a refused line | a destination holds what the last successful callback made of its value |
| **Conversion** (`src/parseUtils.cpp`) | `errno` | `tryParse` for integers, floats, booleans | the C library | limits of the types, sign, text after a number | exactly the numbers of the type are converted, without loss |
| **Help and version** (`src/helpPrinter.cpp`, `include/clime/utils.hpp`) | a reference to the application's `Version`; the text printed so far | option callbacks, commands, `HelpFormatter` | end the parse with `NoError`; look a command up in the parser; print flags that `parseOption` has to understand | `NoError` is an error; the command named by the value; names that begin with the prefix | the parse stops without an action; a flag typed as printed gives its option |
| **Builder interface** (`include/clime/parser.hpp`, `src/parser.cpp:26-58`) | options, arguments, commands, prefix, separator | constructors, setters, `swap` | makes what a parse reads | a setter replaces what an earlier call set | the parser is what the calls described |
| **MultivalueParser** (`include/clime/extras/multivalueParser.hpp`) | the values read so far | callback for `a,b,c` | is an option's callback | it accumulates over calls; a bad part in mid-list; parts that nothing ends | the values are those of every accepted list, whole and in order |
| **Errors** (`src/errorCategory.cpp`) | none | error code to message | every error of the above | - | - |
| **Applications** (`examples/`, `test_package/`) | what was printed, the exit code | `main` | parse, look at the result, run the action | success comes back as an error | a page ends the program; a failed line does nothing; the action is that of the command named |
| Tests, build | | | | | |

`docs/cli.md` is the closest thing to a specification of the syntax.

## Modules

| Module | Models |
|---|---|
| `OptionSyntax` | the pair `parseOption` returns, as a definition |
| `OptionScan` | the character loop of `parseOption`, one action per iteration |
| `CommandTree` | the data: options, arguments, commands, errors, tokens |
| `Parser` | one call of `Parser::parse`, one action per loop iteration and per decision between loops |
| `ParserProperties` | the properties of a parse, and the refinement mapping to `CommandLine` |
| `CommandLine` | the abstract specification: tokens are used up from left to right in units |
| `ParserClaims` | what the documentation says and the code does otherwise |
| `ParseUtils` | `Longest<T>::parse`: integers by way of the longest type, `errno`, and range checks |
| `BooleanText` | `tryParseBoolean` of a part of a token, and its reference definition |
| `MultivalueParser` | the callback of a list-valued option over several calls, one action per part of a list |
| `ListConverters` | the converters it is used with: `tryParse` of a part that nothing ends, and of the part alone |
| `ValueList` | the abstract specification of it: lists are taken whole, in order, or not at all |
| `ParserBuilder` | the objects of a description and every call that changes them: constructors, setters, swaps |
| `HelpPage` | `HelpFormatter`: one action per option name and per line of a page |
| `Application` | `main` of the three examples around a parse: what is printed, what runs, the exit code |
| `MCOptionScan`, `MCParser`, `MCParseUtils`, `MCMultivalueParser`, `MCParserBuilder`, `MCHelpPage`, `MCApplication` | instances for TLC |
| `OptionScanProofs`, `ParserProofs`, `TraceProofs`, `ApplicationProofs`, `ParseUtilsProofs`, `HelpPageProofs`, `MultivalueProofs`, `ParserBuilderProofs` | theorems and proofs |

`Application` extends `ParserProperties` and so composes the parse with the program
around it: each of its parse steps is a step of `Parser`. `HelpPage` and `OptionScan`
share `OptionSyntax`, the composition of what is printed with what is understood.
`ListConverters` composes `MultivalueParser` with `BooleanText` and with `strtoll`.
`Parser` takes its description, `CommandsOf`, as a constant: `ParserBuilder` is about
the calls that make one, before any parse.

### Parser and the code

The variables of `Parser` are the locals of the C++ functions: `i` and `positional`
are `i` and `firstPositionalArgument` of `parseOptions` (and then
`positionalArgument` of `parseArguments`), `k` is the position of its range-for, `a`
the `i` of `parseArguments`, `cmd` the `cmd` of `parseCommand`. The recursion of
`parseCommand` is a tail call, so it needs no stack: `EnterCommand` assigns the
parameters. `pc` says which loop control is in:

| `pc` | In the code | Actions |
|---|---|---|
| `parse` | `Parser::parse` | `NegativeArgc`, `EmptyArgs`, `ParseArgs` |
| `options` | head of the loop of `parseOptions` | `NullToken`, `NoMoreFlags`, `BeginFlag` |
| `match` | `for (auto& option : options)` | `SkipOption`, `ValueMissing`, `CallOption`, `EndFlag`, `UnknownFlag` |
| `dispatch` | `parseCommand` after `parseOptions` | `SelectCommand`, `UnknownCommand`, `BeginArguments`, `UnexpectedArguments`, `EndOfArgs` |
| `arguments` | the loop of `parseArguments` | `NullArgument`, `CallArgument`, `EndArguments` |
| `done` | returned | none: the system stops, so the runs do not look for deadlock |

`cells` are the variables of the application, `action` and `error` the result, and
`trace` a history: the callbacks called, each with the offset and the value it
was given, and the sub-commands selected. The properties speak of the trace, because
the trace is what an application sees.

A callback runs inside the step that calls it. What a converter makes of a text is
the constant `Convert`; a custom callback may succeed, fail, or return `NoError`
(as `--help` does). Reading through a null pointer (`strtoll` on the `data()` of
the view of a null token) is undefined; it is modelled as the error `Crash`, an
abrupt end of the parse.

Tokens are opaque in `CommandTree`: `NameOf` and `InlineOf` say what `parseOption`
returns for a flag. `MCParser` computes them from characters with `OptionSyntax`.

Definitions whose comment begins with "Slip" are no part of the model. Each is the
definition after it, with a bug that would be easy to make (an increment
forgotten, a guard dropped); substituted for it, it has to be caught by a
property. They document which bug each property is there to catch.

### The other modules and the code

*`MultivalueParser`.* `values` and `parseValue` are the members of the C++ class,
`result`, `token` and `from` the locals of `operator()`, `parseOption` and of the
`split` it calls. `Call` is the entry of `operator()`, `Visit` one call of the lambda,
`Refuse` and `Merge` the two ends. `split` is libsolace's and modelled by how its use
needs it: one call per part, the part after a trailing comma included. The lambda keeps
a reference into `result` that dangles after an error; `ErrorLeavesNoList` is that it
is not used any more. What a value parser makes of a part is given twice,
`ParseView` by what the code does with a view that nothing ends (read on until the C
library stops), `ParseText` by what it would do with the part alone. `ListConverters` has
both for `tryParse`: an integer is the text that `strtoll` converts, because the range
checks after it see only the number and are in `ParseUtils`.

*`ParserBuilder`.* What a call passes is opaque and differs from call to call, so that
the log of calls says where each member's value must have come from:
`HoldsWhatWasGivenLast` asks for a call, or the constructor, that gave it, and for the objects
that held it after each call since, none of which set it again. Setters that take a
value and those that take an initializer list are one action each; the setters of
`Parser` that forward to its `_defaultAction` write the members of the command part.
`Command::swap` can be reached with the default action of a parser.

*`HelpPage`.* `s` is formatOption's `stringstream` as a sequence of flags, `width` its
length, `fill` the number of characters that separate names from a description. `pc` is
the section of the page.

*`Application`.* `ParseStep` is a step of `Parser` with what the callback of that step
prints. `NotParsed`, `Greet` and `RunAction` are the branches of the three mains:
`cli_single` greets, `cli_multi` runs the action returned, the packaged example does
neither and treats every error as a failure.

### The abstract specification

`CommandLine` has four variables that matter: the command selected, the first token
not yet used, a phase, and the input. Its actions use up a whole unit (the program
name, a flag with its value, a command's name, an argument); it accepts exactly
when all is used and the command selected is complete. It may reject a line where a
unit calls back (an option or an argument can refuse it) or no unit fits; it may not
reject a complete line, nor one that goes on with the name of a command or with as
many tokens as the command has arguments, because nobody is called for these. The mapping in `ParserProperties` counts the
tokens of a flag as unused until the loop over its bearers is done, so that the loop
of `parseOptions`, its two indices, and the count checks of `parseArguments` are
stuttering steps.

## Runs

| Run | Checks | Instance |
|---|---|---|
| `option_scan` | the loop of `parseOption` computes `OptionSyntax!ParseOption` and loses no character | all tokens of up to 5 characters over prefix, separator and two others |
| `parser` | type invariant and ten safety properties of a parse; each step is nearer to its end; it implements `CommandLine` | seven parser objects, every vector of up to 4 tokens (of seven texts and null) after the program name; empty vector, `argc` negative |
| `integer_conversion` | exactly the numbers of a type are converted | 5 bits for the longest type, 2, 3 and 5 for the others; numbers past the second wrap |
| `multivalue` | two calls of one `MultivalueParser` with the converters of `ListConverters`: what stays of good and bad lists, that a part is read alone, that it implements `ValueList` | over integers and over booleans; every list of up to two of the spellings chosen (signs, bases, blanks, beginnings and continuations of the two words), some of three |
| `application` | the three mains around a parse; parse and program end | three tools (options only, arguments, commands two deep with help and version among them), every vector of up to 4 tokens |
| `help_page` | flags are understood as they are printed; nothing is left out | names of up to 2 characters over prefix, separator and another; options of up to 2 names; columns of 5 and 2 |
| `builder` | each member holds what the last call for it gave | two parsers, a command, two options, two arguments; any 3 calls; lists of up to 2 commands; objects of one class and the two names of commands are symmetric, since no definition tells them apart |
| `unwanted_value`, `bare_boolean_flag`, `mandatory_arguments`, `null_token`, `negative_unsigned` | one claim of the documentation each, which is refuted | up to 2 tokens; 5 bits |

**Why the bounds are enough.** Five characters hold two prefixes, a name, a separator
and a value, or any two separators around them. Four tokens hold a flag with its
operand followed by another flag with its operand, two sub-commands with a flag and
its operand between them, or two arguments with one token too many after a flag;
no decision of the parser looks further than one token ahead, and no parser object
of the run has more than two arguments or two levels of sub-commands. The parser
objects are chosen for the cases in which the loops interact: options of the same
name with different expectations (`namesakes`), arguments of each kind, a trailing
argument after a mandatory one, an argument named `*` that is not the last and so is
not trailing, a command with both sub-commands and arguments,
sub-commands two deep with the same option letters. The tools of `application` are
chosen for what is printed: two options that bear the name of help, a help command
next to a help option, a sub-command whose help option names a command of the root.
Conversion to a type depends only on how its limits lie to those of the longest type,
and 2, 3 and 5 bits give every case: narrower and equal, signed and unsigned. A call
of a `MultivalueParser` depends on earlier ones through `values` alone, so two calls
and two or three parts show every order of good and bad ones. The formatter chooses
between one prefix character and two at length 1, so names of 0, 1 and 2 characters
have every case, and the columns are set where such names are at, below and past
them. Three calls of a builder are a setter, a swap and a setter in any order, on objects
of the same and of different classes.

**Deadlock.** All that is modelled ends: a parse, a scan, a conversion, a page, a program,
and the calls within the bounds of `multivalue` and `builder`. So all runs say
`CHECK_DEADLOCK FALSE`. `ParseReturns` and `Exits` say what matters instead: neither a parse
nor a program stops before it is done.

**Fairness.** There is no lock, no wait and no second thread in the library, and callbacks
are assumed to return, so the thread in it goes on executing. `FairAppSpec` is
`WF_appVars(AppNext)`: the program goes on through the parse and after it (and
`ParseReturns` holds of every parse in it). No other run needs fairness: `MultivalueParser` has no
loop of its own, since the one over the parts of a value is in libsolace's `split`.

### The properties

- `IndicesAgree`: the two indices of `parseOptions` meet wherever they are used.
- `ArgumentsFitTokens`: after the count check the two ends of the loop of
  `parseArguments` coincide; its last error return is unreachable.
- `CallbackContract`: an option is given its own value, or the next token if that is
  no flag; never nothing if it requires a value (its callback dereferences it unchecked),
  never anything if it takes none.
- `TokensUsedOnce`, `AcceptedMeansAllUsed`, `EveryBearerCalled`: no token twice, none
  unnoticed in an accepted line, no option of that name left out.
- `ScopedToSelectedCommand`: callbacks and action belong to the sub-command named last.
- `ArgumentsInOrder`: arguments in declared order, only a trailing last one repeated, and given
  the last tokens of an accepted line, one each. Without a trailing argument all are filled; with
  one, mandatory ones may be missing (see `mandatory_arguments` below), but then no token is left.
- `StopsAtFirstFailure`: the first failing callback is the last called.
- `DestinationsHoldLastValue`: what the variables of the application hold, also
  after a line that was refused half-way.
- `ParseAdvances`: each step uses up a token, or else leaves one of the loops over the present
  token, or else passes an option; the three counts are numbers and compared in this order, so a
  parse cannot go on forever. It has no need of fairness, and holds for any callbacks.
- `ParseReturns`, `ImplementsCommandLine`: see above.
- `ScanSplitsAtFirstSeparator`, `NothingLost`; `NoSeparatorPassed` is the loop
  invariant of the first.
- `RepresentableIsConverted`, `UnrepresentableIsRefused`; `TypeOK` of `ParseUtils` says
  that the narrowing cast at the end loses nothing.
- `ErrorLeavesNoList`: the list inside a result is not added to after an error has replaced it.
- `ReadsItsPartOnly`: `strtoll` and `strncasecmp` see the whole rest of the token, and still
  make of a part what they would make of it alone. For booleans it hinges on the length that
  limits the comparison, for integers on the comma being no digit.
- `ImplementsValueList`: a list is taken whole and in order or leaves nothing.
- `PageThenExit`: what a help or version option prints is all that is printed, and the examples
  then exit with success (the packaged one excepted, see below).
- `FailureIsSilent`: a line an example fails on has printed nothing - in particular, a help
  option behind a mistake or one that names no command shows no page.
- `RunsCommandNamed`: what runs is the action of the command named last, after callbacks that
  all succeeded.
- `Exits`: every program ends for every command line.
- `FlagsAreUnderstood`: each flag on a page, typed as it stands, is what `parseOption` splits into
  the name it was made from; the formatter and the parser count prefix characters independently.
  It is so exactly for names without a separator other than the prefix alone (`CanBeShown`).
- `NothingUnlisted`: a page has a line for each option and sub-command, and no others.
- `HoldsWhatWasGivenLast`: through any setters and swaps each member of an object is what the last
  call for it gave; a list of commands gives the first of two entries of one name.

### Where code and documentation disagree

1. `--flag=value` for an option that takes no value is accepted and the value dropped;
   `parser.hpp:132` calls it an error (`UnwantedValueIsAnError`).
2. A boolean flag takes the next token for its value: `--force --verbose file.txt`, the
   example of `docs/cli.md:37`, is refused (`BareBooleanFlag`).
3. Mandatory arguments before a trailing one may be missing, against `parser.hpp:211`
   (`MandatoryArgumentsGiven`).
4. A null token after a flag is taken as an empty value, whereas a null at any other place
   is `InvalidInput`, "null string in arguments list" (`NullIsRejected`).
5. `--x=-1` for an unsigned integer wraps; `test/test_parser.cpp:191` expects negative
   numbers to be refused, and passes because its token looks like a flag
   (`NegativeIsRefused`).

Three more are plain in a line or two and have no run of their own:

- `test_package/example.cpp:16` takes any error for a failure, so `--help` makes it exit with
  one; `errorCategory.hpp:32` gives `NoError` the code 0 so that it is none, and the other examples
  look at it that way. `PageThenExit` excepts this main.
- The help command prints nothing: its printing call is commented out (`helpPrinter.cpp:190-191`),
  while `parser.hpp:470` says that it prints a summary. `ActionOutput` does as the code does.
- Between a command's name of 16 characters or more and its description there is no blank
  (`helpPrinter.cpp:69-75`). `Fill` does as the code does.

Also as the code has it: the usage line of a command with both arguments and sub-commands lists
arguments that the parser will not take (`parseCommand` asks for sub-commands first), and a help
option inside a sub-command looks its value up among the commands of the root. An option that is
named by the prefix character is shown as two of them, which `parseOption` takes for the empty
name; it has to be typed as three.

## Theorems

Proved by TLAPS for every value of the constants: any tree of commands, any options and
arguments, lines of any length.

| Theorem | Says | Argument |
|---|---|---|
| `ParserProofs!TypeCorrect` | `Spec => []TypeOK` | `TypeOK` is inductive. That no converter is called on a missing value needs the guard of `CallOption` (`ValueMissing` otherwise) and the expectations the constructors declare (`ExpectsOf`). |
| `ParserProofs!IndicesAlwaysAgree` | `[]IndicesAgree` | inductive with `TypeOK` |
| `ParserProofs!ArgumentsAlwaysFit` | `[]ArgumentsFitTokens` | inductive with `TypeOK`: each call moves both ends by one, or neither when trailing |
| `ParserProofs!FirstFailureStops` | `[]StopsAtFirstFailure` | inductive with `TypeOK`: while control is not at `done` no event has an error |
| `ParserProofs!ContractKept` | `[]CallbackContract` | not inductive: needs `FlagState`, what the locals of `parseOptions` say of the token at `flagAt` and the one after it |
| `ParserProofs!NoTokenUsedTwice` | `[]TokensUsedOnce` | not inductive: needs `FlagState` and `Frontier`, that all tokens of past events lie before the one to be read next (before the flag, while it is matched) |
| `TraceProofs!ScopeKept` | `[]ScopedToSelectedCommand` | `Scope`: the command in scope before the event that comes next is `cmd` |
| `TraceProofs!AcceptedIsUsed` | `[]AcceptedMeansAllUsed` | `Covered`: all tokens before the next one are used; of the flag that is being matched its own token once an option has matched, and the token after it once one has taken it |
| `TraceProofs!BearersAllCalled` | `[]EveryBearerCalled` | `BearersSoFar`: past flags have called all their options, the present one those before `k`. Past flags are told from the present one by `Frontier`. |
| `TraceProofs!DestinationsHeld` | `[]DestinationsHoldLastValue` | inductive with `TypeOK`: an event that writes is the last that does; what a callback stores is what `Written` says (`OptionStores`, `ArgumentStores`) |
| `TraceProofs!ArgumentsTakenInOrder` | `[]ArgumentsInOrder` | `Filled`: the calls of arguments are the last events, one after the other, each with the next token, and `a` is one past their number or at the trailing argument. That an accepted line has filled each comes from `ArgumentsAlwaysFit`, where there is no trailing argument; with one it need not have, as `mandatory_arguments` shows. |
| `ParserProofs!EveryStepAdvances` | `Spec => ParseAdvances` | by action, from `Position`, `FlagState` and `OptionInRange` (where the indices and `k` can be): a flag that ends lies behind `flagAt`, and what a callback returns changes no index |
| `ParserProofs!ParseIsLine` | `Spec => ImplementsCommandLine` | `Position`: where the indices are, and which options of the flag have been passed (`FlagProgress`); then each action is one action of `CommandLine` or a stutter. That `EndFlag` is `UseFlag` needs all of `FlagProgress`: a bearer exists, all have what they need, and the next token has been taken exactly if one of them wants it. |
| `ApplicationProofs!PagesExist`, `OnePageThenExit`, `FailsSilently`, `CommandNamedRuns` | the four safety properties of `Application` | its steps are steps of `Parser` or leave the parse alone (`ParseWithin`), so the theorems above hold in it; `Printing`: nothing is printed, or one page by a callback that returned `NoError`, or one line after an accepted parse |
| `OptionScanProofs!TypeCorrect`, `NoSeparatorEverPassed`, `NothingEverLost` | the invariants of the loop of `parseOption` | inductive; the second on the way to the third and to `ScanCorrect` |
| `OptionScanProofs!ScanCorrect` | `[]ScanSplitsAtFirstSeparator` | with `NoSeparatorPassed`: no character from the name's start to `endIndex` is a separator, so where the loop stops is the least one |
| `OptionScanProofs!FlagsSplitIntoTexts` | what `ParseOption` makes of flags satisfies `TokenAssumption` | by cases on whether there is a separator, and where the first one is |
| `ParseUtilsProofs!TypeCorrect`, `RepresentableConverts`, `UnrepresentableRefused` | the three properties of `ParseUtils` | with `ResultExplained`: `result` and `errno` as functions of the text, and why there is an outcome |
| `HelpPageProofs!TypeCorrect` | `[]TypeOK` of `HelpPage` | inductive: an index of a loop over options or commands stays in its section |
| `HelpPageProofs!FlagsGiveTheirOption`, `EverythingListed` | `[]FlagsAreUnderstood`, `[]NothingUnlisted` | `PageSoFar`: the lines are those of the options and commands passed, with a flag for each name; and, apart from any page, `FlagUnderstood`: `parseOption` gives back the names that can be shown (`CanBeShown`), by cases on their length, and no others: a separator makes a value (`SeparatorMisread`), and the flag of the prefix means the empty name (`PrefixMisread`) |
| `MultivalueProofs!TypeCorrect`, `ErrorKeepsNoList` | `[]TypeOK`, `[]ErrorLeavesNoList` of `MultivalueParser` | `Typed`: results and values are sequences of what value parsers return; the second is inductive |
| `MultivalueProofs!ListsTakenWhole` | `PartsReadAlone => (Spec => ImplementsValueList)` | `SplitSoFar`: `from` is the start of a part, and `result` is the list of the parts before it or, if one was bad, an error. `NextPart` has the arithmetic: the part that begins after n commas is the (n+1)st of `PartsOf` |
| `MultivalueProofs!BooleanAlone` | `TryParseBoolean` of a view is `BooleanOf` of the text in it, for every text | word by word: what `strncasecmp` compares is inside the view, and agreement up to the shorter of two is that one begins the other (`WordAlone`) |
| `MultivalueProofs!TryParseReadsItsPart`, `TryParseListsTakenWhole` | `[]ReadsItsPartOnly` and the refinement, with the converters of `ListConverters` | `IntegerAlone`: a numeral has no comma in it (`NumeralChars`), so the longest one from the start of a part ends in it |
| `ParserBuilderProofs!TypeCorrect` | `[]TypeOK` of `ParserBuilder` | `Typed` and `Filled`, with every step a setter or a swap (`StepShapes`) |
| `ParserBuilderProofs!HoldsLastGiven` | `[]HoldsWhatWasGivenLast` | inductive with `Typed`: a call that sets the member begins a path (`PathBegun`); any other adds to the path of the object that held the value before it (`PathExtended`). `FirstKept`: the map of a list has its first entries |

They rest on the assumptions of the modules: `TokenAssumption` (a null is no text, the
empty text is no flag, `NameOf` and `InlineOf` are defined for flags),
`ConverterAssumption` (a converter returns a datum or none; that of strings never
none), `ParserAssumption` (commands are well formed and distinct from `None` and the
errors), `ActionAssumption` (each command has an action; no exit code is `None`),
`CallsAssumption` (what a `MultivalueParser` is given is a text, and told from `None`),
`BuilderAssumption` and `NothingAssumption` (every object has a class; an empty list is told
from all that is given), `CharAssumption`, `ArgsAssumption` (tokens given to `parseOption` start with the
prefix: its caller has looked), `PageAssumption` (a page is made of lists of names, and
the columns have a width), `LimitsAssumption` and
`TypeAssumption` (no type is wider than the longest of its signedness). TLC evaluates each
of them in the runs.

Three theorems about lists have a hypothesis of their own. `PartsReadAlone` is what
`ListsTakenWhole` asks of a value parser: it makes of each part what it makes of the part alone.
`UsesTryParse` says that the value parsers are those of `ListConverters` and that the separator
is no character of a number; it is what makes `PartsReadAlone` a theorem. The run `multivalue`
is an instance: its cfg gives `ParseView` and `ParseText` these values, and a comma.

Every safety property, every action property and both refinements that the passing runs check are
proved. Only model-checked is liveness: that a parse and a program do not stop half-way
(`ParseReturns`, `Exits`), which needs fairness and `ENABLED` and is out of the prover's reach. `EveryStepAdvances` is the half of `ParseReturns`
that can be proved: no parse goes on forever. The longest numeral and the parts of a text are defined by where
they end rather than by recursion, so that no proof needs induction over data.

## Not modelled

- Character data past what the properties need: messages, descriptions, the layout of the
  help text beyond its columns, the remainder of a text after a number.
- Lifetimes: an `Option` keeps a reference to its destination and `printVersion` to a
  `Version`; the model has no dangling references. A functor is copied into the
  `std::function` of an `Option` (`parser.hpp:171`), so a `MultivalueParser` that is passed by
  value collects in a copy: the model has one object, the one that is called.
- Memory exhaustion and exceptions thrown by a custom callback.
- The ten integer and float types are two kinds in `Parser`: their callbacks are the same
  code, and what they convert differs only in `Convert`. `ParseUtils` has integers of every
  width; `strtof` is what `Convert` says.
- `StringView`, `Result`, `Optional` and `split` are libsolace's. They are modelled by
  how `src/` uses them and not on their own.
- The texts of `errorCategory.cpp`; its codes are the members of `Errors`.
- Tests, build files and packaging: no behaviour of the library.

## Plan

Done: the scan and the syntax of options, the parse with its abstract specification, the
converters of integers and booleans, lists of values, the builder interface, the
help page, the programs around a parse, and the theorems above.

Left:

1. Without `ENABLED` nothing is proved about where a parse may stop: guards that cover every state
   short of `done`, as an invariant, would close the distance from `ParseAdvances` to
   `ParseReturns` but for the fairness.
2. Larger instances of `builder` (four calls) where time allows.
