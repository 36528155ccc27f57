----------------------------- MODULE MCPlaytest -----------------------------
(* Playtest for TLC: of a suspect test only the end is followed. *)
EXTENDS Playtest

SuspectOnlyEnds == suspect => folder'.before = NotStarted
=============================================================================
