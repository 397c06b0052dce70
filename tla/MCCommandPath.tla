---------------------------- MODULE MCCommandPath ----------------------------
(***************************************************************************)
(* CommandPath on small instances.                                         *)
(***************************************************************************)
EXTENDS CommandPath

Word(op, v, s, d) == [op |-> op, voice |-> v, value |-> s, delay |-> d]

\* Notes and settings ahead of time, at once, and the ways out.
PathCommands == {Word("note_on", VoiceAny, 1, 1), Word("note_off", VoiceAny, 1, 0),
                 Word("set", VoiceAny, 0, 2),
                 Word("clear_schedule", 0, 0, 0), Word("reset", 0, 0, 0)}

\* An anchor just ahead and one just gone.
PathOffsets == {-1, 1}
=============================================================================
