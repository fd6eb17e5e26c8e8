---------------------------- MODULE Application -----------------------------
(***************************************************************************)
(* A program that uses the parser: main of the examples parses its command *)
(* line, runs what the parse returned, and exits. What the help and the    *)
(* version option print, they print while the parse runs                   *)
(* (src/helpPrinter.cpp).                                                  *)
(*                                                                         *)
(* A definition marked "Slip" is a bug for a property to refute.           *)
(***************************************************************************)
EXTENDS ParserProperties

CONSTANT ActionOf   \* the action of each command of each parser

\* idleAction; the commands of printHelpCmd and printVersionCmd; the program's.
Actions == {"idle", "helpCmd", "versionCmd", "user"}

\* examples/cli_single.cpp, examples/cli_multi.cpp and test_package/example.cpp
Mains == {"cli_single", "cli_multi", "package_example"}

ASSUME ActionAssumption ==
  /\ ActionOf \in [Parsers -> [Command -> Actions]]
  /\ None \notin {"success", "failure"}

VARIABLES
  main,     \* which main it is
  stdout,   \* what was printed, and by whom
  exit      \* the exit code, None while it runs

appVars == <<vars, main, stdout, exit>>

AppInit == Init /\ main \in Mains /\ stdout = << >> /\ exit = None

Output(by, what, c) == <<[by |-> by, what |-> what, of |-> c]>>

-----------------------------------------------------------------------------
\* The command whose page a help option prints: the one its value names. It
\* looks in the parser, whatever command the option belongs to.
HelpPage(value) ==
  IF value = None THEN Root ELSE CommandsOf[parser][Root].commands[View(value)]

\* Slip: the page is printed although there is no such command.
PrintedUnchecked(e) ==
  IF e.by # "option" THEN << >>
  ELSE CASE OptionOf(e).kind = "help"    -> Output("option", "help", HelpPage(e.value))
         [] OptionOf(e).kind = "version" -> Output("option", "version", Root)
         [] OTHER                        -> << >>

\* What the callback that an event stands for prints.
Printed(e) ==
  IF e.by # "option" THEN << >>
  ELSE CASE OptionOf(e).kind = "help" /\ e.error = "NoError" ->
              Output("option", "help", HelpPage(e.value))
         [] OptionOf(e).kind = "version" -> Output("option", "version", Root)
         [] OTHER -> << >>

ParseStep ==
  /\ Next
  /\ stdout' = IF trace' = trace THEN stdout ELSE stdout \o Printed(trace'[Len(trace')])
  /\ UNCHANGED <<main, exit>>

-----------------------------------------------------------------------------
\* Slip: every error is a failure.
IsRealError == error # None

\* if (error), of the two examples: the code of NoError is 0. The package's
\* example does not ask.
IsFailure == error # "NoError" \/ main = "package_example"

NotParsed ==
  /\ exit = None /\ pc = "done" /\ error # None
  /\ exit' = IF IsFailure THEN "failure" ELSE "success"
  /\ UNCHANGED <<vars, main, stdout>>

\* cli_single and the package's example have no use for the action.
Greet ==
  /\ exit = None /\ action # None /\ main # "cli_multi"
  /\ stdout' = IF main = "cli_single" THEN stdout \o Output("main", "greeting", Root) ELSE stdout
  /\ exit' = "success"
  /\ UNCHANGED <<vars, main>>

\* The help command makes a printer and does not call it.
ActionOutput(c) ==
  CASE ActionOf[parser][c] \in {"idle", "helpCmd"} -> << >>
    [] ActionOf[parser][c] = "versionCmd"          -> Output("action", "version", c)
    [] ActionOf[parser][c] = "user"                -> Output("action", "user", c)

\* res.unwrap()()
RunAction ==
  /\ exit = None /\ action # None /\ main = "cli_multi"
  /\ stdout' = stdout \o ActionOutput(action)
  /\ exit' = "success"
  /\ UNCHANGED <<vars, main>>

AppNext == ParseStep \/ NotParsed \/ Greet \/ RunAction

AppSpec == AppInit /\ [][AppNext]_appVars

\* main is one thread, and nothing it does waits.
FairAppSpec == AppSpec /\ WF_appVars(AppNext)

-----------------------------------------------------------------------------
(***************************************************************************)
(* Properties                                                              *)
(***************************************************************************)

\* The type invariant. A page is that of a command that exists: the lookup of
\* printHelp is compared with the end before it is used (helpPrinter.cpp:154-161).
AppTypeOK ==
  /\ main \in Mains
  /\ stdout \in Seq([by   : {"option", "action", "main"},
                     what : {"help", "version", "greeting", "user"},
                     of   : Command])
  /\ exit \in {None, "success", "failure"}

\* A page asked for by an option is all that is printed, once: no option, action
\* or greeting comes after it, however many bear the name, and an example that
\* printed it has succeeded. ("to print usage info to standard output and then
\* exit. Following options will be ignored", utils.hpp:73-74)
PageThenExit ==
  (\E n \in DOMAIN stdout : stdout[n].by = "option") =>
    /\ Len(stdout) = 1 /\ action = None
    /\ exit # None /\ main # "package_example" => exit = "success"

\* A line that an example fails on has made it print nothing and do nothing,
\* even if it asks for help (cli_multi.cpp:87-96, cli_single.cpp:51-59).
FailureIsSilent == exit = "failure" /\ main # "package_example" => stdout = << >>

\* What runs is the action of the command named last, after every callback on
\* its way there has succeeded, and nothing was printed before it.
RunsCommandNamed ==
  \A n \in DOMAIN stdout : stdout[n].by = "action" =>
    /\ n = 1 /\ stdout[n].of = ScopeOf(Len(trace) + 1)
    /\ \A m \in Events : trace[m].error = None

\* The program ends, whatever its command line is.
Exits == <>(exit # None)

=============================================================================
