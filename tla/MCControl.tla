------------------------------ MODULE MCControl ------------------------------
(***************************************************************************)
(* Control on a small instance, without times.                             *)
(***************************************************************************)
EXTENDS Control

Note(op, v, s, d) == [op |-> op, voice |-> v, value |-> s, delay |-> d]

\* Two pitches; the firmware places the notes of one and the host those of the
\* other.  Only voice 0 is ever named by the host: what happens to the others is
\* the firmware's choice.
MCSteps == {1, 2}
AllocatorCommands ==
  {Note("note_on", VoiceAny, 1, 0), Note("note_on", 0, 2, 0), Note("reset", 0, 0, 0)}
    \union {Note("note_off", VoiceAny, s, 0) : s \in MCSteps} \union {Note("note_off", 0, 2, 0)}

\* An anchor of this very sample, so that notes also come through the schedule.
AtThisSample == {0}
=============================================================================
