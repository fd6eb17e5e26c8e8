------------------------- MODULE MCMultivalueParser -------------------------
(***************************************************************************)
(* Two value parsers, and the tokens an option with each may be given.     *)
(***************************************************************************)
EXTENDS ListConverters, TLC

MCChar == {"t", "r", "u", "e", "f", "a", "l", "s", "T", "A", "1", "0", "x", "8", ",", "-", "+", " "}

MCLower ==
  [char \in {"t", "r", "u", "e", "f", "a", "l", "s", "1", "0", "x", ","} |-> char]
    @@ ("T" :> "t" @@ "A" :> "a")

\* Numbers in every spelling, and what is none or goes on after one.
Numbers ==
  {<< >>, <<"1">>, <<"-", "1">>, <<"0", "x", "1">>, <<" ", "0">>, <<"0", "x">>, <<"x">>, <<"1", "x">>,
   <<"-">>, <<"0", "8">>, <<"+", "0", "x", "a">>}

\* Beginnings of the two words, with what may follow.
Booleans ==
  {<< >>, <<"1">>, <<"0">>, <<"x">>, <<"1", "1">>, <<"t", "x">>, <<"f", "a", "x">>} \cup
  {<<"T", "r", "u", "e">> \o more : more \in {<< >>, <<"x">>, <<"e">>}} \cup
  {<<"f", "A", "l", "s", "e">> \o more : more \in {<< >>, <<"x">>}} \cup
  {<<"T">>, <<"t", "r">>, <<"t", "r", "u">>, <<"f">>, <<"f", "a">>, <<"f", "a", "l", "s">>}

Lists2(texts) == {m \o <<",">> \o n : m, n \in texts}

MCGiven ==
  [integer |-> Numbers \cup Lists2(Numbers)
                 \cup {<<"1", ",">> \o n : n \in Lists2({<< >>, <<"1">>, <<"x">>, <<"0", "x", "1">>})},
   boolean |-> Booleans \cup Lists2(Booleans)]
=============================================================================
