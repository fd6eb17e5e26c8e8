---------------------------- MODULE MCOptionScan ----------------------------
(***************************************************************************)
(* Every token of up to MaxLength characters that starts with the prefix.  *)
(***************************************************************************)
EXTENDS OptionScan, SequencesExt

CONSTANT MaxLength

MCChar == {"-", "=", "a", "b"}

MCArgs == {t \in BoundedSeq(MCChar, MaxLength) : StartsWith(t, Prefix)}
=============================================================================
