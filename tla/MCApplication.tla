--------------------------- MODULE MCApplication ----------------------------
(***************************************************************************)
(* Three programs: one with options only, one with any number of           *)
(* arguments and options of one name, and one with commands, in which a    *)
(* sub-command has a help option and sub-commands of its own, and two      *)
(* options bear the name h.                                                *)
(***************************************************************************)
EXTENDS MCParser, Application

VersionS == Opt("s", "NotRequired", "version", "y")

Tool(root, sub, leaf) ==
  [n \in Command |-> CASE n = "root" -> root [] n = "sub" -> sub [] n = "leaf" -> leaf [] OTHER -> Nothing]

MCTools ==
  [ single |-> Tool(Cmd(<<Help, VersionS, BoolB>>, << >>, << >>), Nothing, Nothing),
    files  |-> Tool(Cmd(<<HookB("NotRequired"), Opt("b", "Optional", "bool", "y"), StringS, Help>>,
                        <<Arg1("first", "integer", "y"), Arg1("*", "string", "x")>>, << >>),
                    Nothing, Nothing),
    multi  |-> Tool(Cmd(<<VersionS, Help, BoolB>>, << >>, (c :> "sub" @@ w :> "help" @@ one :> "version")),
                    Cmd(<<BoolB, Help, Version>>, << >>, (one :> "leaf" @@ c :> "help")),
                    Cmd(<<Opt("b", "Optional", "custom", "y"), StringS>>,
                        <<Arg1("only", "integer", "x")>>, << >>)) ]

MCToolNames == DOMAIN MCTools

MCActionOf ==
  [tool \in MCToolNames |->
    [n \in Command |-> CASE n = "help" -> "helpCmd"
                         [] n = "version" -> "versionCmd"
                         [] n = "root" /\ tool # "files" -> "idle"
                         [] OTHER -> "user"]]
=============================================================================
