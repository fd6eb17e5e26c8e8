------------------------------ MODULE MCParser ------------------------------
(***************************************************************************)
(* Parser objects and argument vectors for TLC. Tokens are sequences of    *)
(* characters, so that it is OptionSyntax that says which of them are      *)
(* flags and what their names and inline values are.                       *)
(***************************************************************************)
EXTENDS ParserClaims, SequencesExt

CONSTANT MaxTokens   \* the tokens after the program name

Syntax == INSTANCE OptionSyntax WITH
            Char <- {"-", "=", "b", "c", "h", "s", "w", "1"}, Prefix <- "-", Separator <- "="

w   == <<"w">>
one == <<"1">>
c   == <<"c">>

MCTokens == {w, one, c, <<"-", "-", "b">>, <<"-", "s">>, <<"-", "s", "=", "1">>, <<"-", "h">>}

MCEmptyText == << >>

MCText == MCTokens \cup {<< >>, <<"b">>, <<"s">>, <<"h">>}

MCFlagText == {t \in MCText : Syntax!StartsWith(t, "-")}

MCNameOf == [t \in MCFlagText |-> Syntax!ParseOption(t).name]

MCInlineOf == [t \in MCFlagText |-> Syntax!ParseOption(t).value]

\* The first is the name of the program.
MCArgVectors == {v \in BoundedSeq(MCTokens \cup {Null}, MaxTokens + 1) : v # << >> => v[1] = w}

-----------------------------------------------------------------------------
MCInitial == <<"initial">>
MCTrue    == <<"true">>
MCZero    == <<"zero">>
Stored(kind, text) == <<kind, text>>

MCDatum == {MCInitial, MCTrue, MCZero} \cup (Converters \X MCText)

\* tryParseBoolean takes "1" and every prefix of "true", the empty one too.
MCConvert ==
  [kind \in Converters |->
    [text \in MCText |->
      CASE kind = "string"                          -> Stored(kind, text)
        [] kind = "bool" /\ text \in {one, << >>}   -> MCTrue
        [] kind # "bool" /\ text = one              -> Stored(kind, text)
        [] OTHER                                    -> None]]

-----------------------------------------------------------------------------
Opt(letter, expects, kind, dest) ==
  [names |-> {<<letter>>}, expects |-> expects, kind |-> kind, dest |-> dest]

Arg1(name, kind, dest) == [name |-> name, kind |-> kind, dest |-> dest]

Cmd(opts, args, cmds) ==
  [options |-> opts, arguments |-> args,
   commands |-> [t \in MCText |-> IF t \in DOMAIN cmds THEN cmds[t] ELSE None]]

Nothing == Cmd(<< >>, << >>, << >>)

StringS == Opt("s", "Required", "string", "x")
BoolB   == Opt("b", "Optional", "bool", "y")
Help    == Opt("h", "Optional", "help", "y")
Version == Opt("h", "NotRequired", "version", "y")
HookB(expects) == Opt("b", expects, "custom", "y")

OneCommand(root) == [n \in {"root", "sub", "leaf"} |-> IF n = "root" THEN root ELSE Nothing]

MCCommandsOf ==
  [ options    |-> OneCommand(Cmd(<<StringS, BoolB, Version>>, << >>, << >>)),
    \* three options with the name b, of which the first takes no value
    namesakes  |-> OneCommand(Cmd(<<HookB("NotRequired"), Opt("b", "Required", "string", "x"),
                                    StringS, Opt("b", "Optional", "bool", "x")>>,
                                  << >>, << >>)),
    \* an argument is trailing only if it is the last one
    arguments  |-> OneCommand(Cmd(<<BoolB, Opt("s", "Required", "integer", "x")>>,
                                  <<Arg1("*", "string", "y"), Arg1("second", "float", "x")>>,
                                  << >>)),
    trailing   |-> OneCommand(Cmd(<<Opt("s", "NotRequired", "custom", "y")>>,
                                  <<Arg1("first", "bool", "y"), Arg1("*", "custom", "x")>>,
                                  << >>)),
    hooks      |-> OneCommand(Cmd(<<HookB("Optional"), Opt("s", "Required", "float", "x")>>,
                                  <<Arg1("only", "integer", "y")>>, << >>)),
    \* clime allows a command to have arguments next to its sub-commands
    both       |-> OneCommand(Cmd(<<BoolB, Help>>, <<Arg1("*", "string", "x")>>, (c :> "sub"))),
    commands   |-> [root |-> Cmd(<<BoolB, Help>>, << >>, (c :> "sub" @@ w :> "leaf")),
                    sub  |-> Cmd(<<StringS>>, << >>, (c :> "leaf")),
                    leaf |-> Cmd(<<HookB("Required")>>, <<Arg1("only", "string", "y")>>, << >>)] ]

MCParsers == DOMAIN MCCommandsOf
=============================================================================
