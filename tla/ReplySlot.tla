------------------------------ MODULE ReplySlot ------------------------------
(***************************************************************************)
(* What the control side promises about replies: one is being sent at a    *)
(* time, one more can be waiting, and what waits is the last thing asked.  *)
(***************************************************************************)
CONSTANT Kinds           \* of replies
VARIABLES slot,          \* what waits, or "none"
          answering      \* what is being sent, or "none"

vars == <<slot, answering>>

Init == slot = "none" /\ answering = "none"

Ask == slot' \in Kinds /\ UNCHANGED answering

\* Another may be asked for in the moment one is begun or finished.
Begin == /\ answering = "none" /\ slot # "none"
         /\ answering' = slot /\ slot' \in Kinds \union {"none"}
Finish == /\ answering # "none"
          /\ answering' = "none" /\ slot' \in Kinds \union {slot}

Spec == Init /\ [][Ask \/ Begin \/ Finish]_vars
=============================================================================
