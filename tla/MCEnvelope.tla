----------------------------- MODULE MCEnvelope -----------------------------
(***************************************************************************)
(* Envelope with a sample of three bits and an accumulator of four or five.*)
(***************************************************************************)
EXTENDS Envelope

\* Still, the slowest, one in between, one below and one at the largest.
MCRates == {0, 1, 3, Range - 2, Range - 1}

\* Every level, and one that has to be clamped.
MCLevels == 0 .. Peak + 1
=============================================================================
