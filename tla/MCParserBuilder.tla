-------------------------- MODULE MCParserBuilder ---------------------------
(***************************************************************************)
(* Two parsers and a command to swap with each other, and two options and  *)
(* arguments to swap among themselves. Objects of one class and the names  *)
(* of commands can be exchanged: nothing but their class is looked at.     *)
(***************************************************************************)
EXTENDS ParserBuilder, TLC

CONSTANTS p, q, c, o1, o2, a1, a2

MCObject == {p, q, c, o1, o2, a1, a2}

MCClassOf ==
  p :> "parser" @@ q :> "parser" @@ c :> "command" @@
  o1 :> "option" @@ o2 :> "option" @@ a1 :> "argument" @@ a2 :> "argument"

MCSymmetry ==
  Permutations({p, q}) \cup Permutations({o1, o2}) \cup Permutations({a1, a2})
    \cup Permutations(CommandName)
=============================================================================
