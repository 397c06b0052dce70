---------------------------- MODULE AtomicMemory ----------------------------
(***************************************************************************)
(* What hdl/soc.py promises its processor and its loader: one memory, of   *)
(* which every access happens at one moment and every load at another.     *)
(***************************************************************************)
EXTENDS Sequences

CONSTANT Accesses      \* what may be asked: where, whether to write, and what

VARIABLES mem,
          access,      \* what the processor asks: a sequence of one access, or none
          answer       \* what it is answered: a sequence of one word, or none

vars == <<mem, access, answer>>

Init == access = << >> /\ answer = << >>

\* Its moment, which a reset of the processor may have as its last.
Perform == /\ access # << >> /\ answer = << >>
           /\ mem' = IF access[1].write THEN [mem EXCEPT ![access[1].at] = access[1].data] ELSE mem
           /\ \/ answer' = <<mem[access[1].at]>> /\ UNCHANGED access
              \/ answer' = << >> /\ access' = << >>

\* A load, of any word.
Loads == \E at \in DOMAIN mem : mem' = [mem EXCEPT ![at] = mem'[at]]
Asks == access = << >> /\ UNCHANGED answer /\ \E a \in Accesses : access' = <<a>>
Ends == access' = << >> /\ answer' = << >>

Next == Perform \/ ((Loads \/ UNCHANGED mem) /\ (Asks \/ Ends \/ UNCHANGED <<access, answer>>))

Spec == Init /\ [][Next]_vars
=============================================================================
