------------------------------ MODULE MCPlayer ------------------------------
(***************************************************************************)
(* Player on pieces that fill a small ring: a run of notes, a chord held   *)
(* under others, a note repeated, and a rest longer than a delay.          *)
(***************************************************************************)
EXTENDS Player

Line(time, duration, pitch) == [time |-> time, duration |-> duration, pitch |-> pitch]
Pieces == {<<Line(0, 2, 0), Line(2, 2, 0), Line(4, 2, 4), Line(6, 2, 0), Line(8, 1, 4), Line(9, 2, 0)>>,
           <<[setting |-> "sustain"], [setting |-> "wave"], Line(0, 8, 0), Line(0, 4, 4), Line(4, 5, 4)>>,
           <<Line(9, 2, 4), [setting |-> "master"], Line(1, 2, 0), Line(12, 4, 0)>>}
=============================================================================
