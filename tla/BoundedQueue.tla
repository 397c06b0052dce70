---------------------------- MODULE BoundedQueue ----------------------------
(***************************************************************************)
(* What a dual-clock FIFO promises whoever stands on its two sides: a      *)
(* bounded first-in first-out queue.  One entry may go in and one may come *)
(* out in the same step, because the two clocks may tick together.         *)
(***************************************************************************)
EXTENDS Naturals, Sequences

CONSTANTS Data,    \* the entries
          Depth    \* the most entries the queue holds

VARIABLE queue

Init == queue = << >>

Push(d) == /\ Len(queue) < Depth
           /\ queue' = Append(queue, d)

Pop == /\ queue # << >>
       /\ queue' = Tail(queue)

\* Push and pop in one step: neither side sees what the other does.
PushPop(d) == /\ queue # << >>
              /\ Len(queue) < Depth
              /\ queue' = Append(Tail(queue), d)

Next == \/ \E d \in Data : Push(d) \/ PushPop(d)
        \/ Pop

Spec == Init /\ [][Next]_queue
=============================================================================
