----------------------------- MODULE MCHelpPage -----------------------------
(***************************************************************************)
(* Every option with up to two names of up to two characters, alone and    *)
(* before or after another, next to commands with names around the column. *)
(***************************************************************************)
EXTENDS HelpPage, SequencesExt

Names == BoundedSeq(Char, 2)

AnyOption == BoundedSeq(Names, 2)
PlainOption == << <<"a">>, <<"a", "a">> >>

MCPage ==
  [options   : {<< >>} \cup UNION {{<<o>>, <<o, PlainOption>>, <<PlainOption, o>>} : o \in AnyOption},
   arguments : {<< >>, << <<"a">> >>},
   commands  : {<< >>, << <<"a">> >>, << << >>, <<"a">>, <<"a", "a">>, <<"a", "a", "a">> >>}]
=============================================================================
