------------------------------ MODULE MCEngine ------------------------------
(***************************************************************************)
(* Engine with two voices and the shortest sample the bank allows.         *)
(***************************************************************************)
EXTENDS Engine

MCValues == {0, 1}
Order(op, v, x, d) == [op |-> op, voice |-> v, value |-> x, delay |-> d]

\* Two voices and one that does not exist, delays around the special case.
MCCommands == {Order("note", 0, 1, 0), Order("note", 1, 1, 1), Order("note", 1, 0, 2),
               Order("note", VoiceCount, 1, 0), Order("global", 0, 1, 0), Order("reset", 0, 0, 0)}
=============================================================================
