---------------------------- MODULE SampleCounter ----------------------------
(***************************************************************************)
(* SampleCounter of hdl/designs/control.py: the audio side counts samples, *)
(* the control side sees the count through two rows of flops.  A sink edge *)
(* that falls on a source edge samples a changing word.                    *)
(*                                                                         *)
(* The counter of the source is Gray-coded by gates, not by flops; the     *)
(* model has those gates switch without glitches.                          *)
(***************************************************************************)
EXTENDS GrayCode

VARIABLES count,      \* the source's counter
          meta,       \* the sink's first row of flops
          captured,   \* and the second
          strobed     \* whether a strobe fell since the last sink edge: the
                      \* sink's clock is hundreds of times the sample rate

vars == <<count, meta, captured, strobed>>

Init == count = {} /\ meta = {} /\ captured = {} /\ strobed = FALSE

\* A mistake: the coded word reported as it is.
NotDecoded == captured

\* What the control side reports.
synced == Decode(captured)

Strobe == /\ ~strobed
          /\ count' = Next1(count)
          /\ strobed' = TRUE
          /\ UNCHANGED <<meta, captured>>

SinkEdge == /\ meta' = Gray(count)
            /\ captured' = meta
            /\ strobed' = FALSE
            /\ UNCHANGED count

\* The sink samples while the strobe is changing the count.
SinkEdgeOnStrobe == /\ ~strobed
                    /\ count' = Next1(count)
                    /\ meta' \in Sampled(Gray(count), Gray(count'))
                    /\ captured' = meta
                    /\ strobed' = TRUE

Next == Strobe \/ SinkEdge \/ SinkEdgeOnStrobe

Spec == Init /\ [][Next]_vars

-----------------------------------------------------------------------------
\* "The control side can never read a value that was never held" (control.py
\* 78-79): what it reads is the count of at most two strobes ago, whichever
\* way each flop of each sample fell.
ReadsARecentCount == count \in {synced, Next1(synced), Next1(Next1(synced))}

\* And it reads the counts in order, none of them twice in a row apart from
\* waiting: it never runs back and never skips one (control.py 91-108).
CountsInOrder == [][synced' \in {synced, Next1(synced)}]_vars
=============================================================================
