---------------------------- MODULE SampleEngine ----------------------------
(***************************************************************************)
(* What the engine promises whoever fills its FIFO: commands take effect   *)
(* one at a time and in order, each on a sample boundary, each the stated  *)
(* number of samples after the one before it, and where they are meant to. *)
(* There is nothing finer than a sample here.                              *)
(***************************************************************************)
EXTENDS Naturals, Sequences

CONSTANTS Voices, Values, Commands, Depth

VARIABLES fifo,       \* the commands waiting
          holding,    \* the command counting down
          delay,      \* the samples it still waits
          valid,      \* whether there is one
          note,       \* what each voice was last told
          setting     \* what the panel was last set to

vars == <<fifo, holding, delay, valid, note, setting>>

Quiet == CHOOSE v \in Values : \A w \in Values : v <= w

Init == /\ fifo = << >> /\ valid = FALSE /\ delay = 0 /\ holding \in Commands
        /\ note = [v \in Voices |-> Quiet] /\ setting = Quiet

Push(c) == /\ Len(fifo) < Depth
           /\ fifo' = Append(fifo, c)
           /\ UNCHANGED <<holding, delay, valid, note, setting>>

\* Delays 0 and 1 both mean the next sample.
Wait(c) == IF c.delay = 0 THEN 0 ELSE c.delay - 1

Fetch == IF fifo # << >>
           THEN /\ holding' = Head(fifo) /\ delay' = Wait(Head(fifo))
                /\ valid' = TRUE /\ fifo' = Tail(fifo)
           ELSE /\ valid' = FALSE /\ UNCHANGED <<holding, delay, fifo>>

\* The effect of command c.  A voice that does not exist hears nothing.
Effect(c) ==
  /\ note' = IF c.op = "reset" THEN [v \in Voices |-> Quiet]
             ELSE IF c.op = "note" THEN [v \in Voices |-> IF v = c.voice THEN c.value ELSE note[v]]
             ELSE note
  /\ setting' = IF c.op = "global" THEN c.value ELSE setting

CountDown == /\ valid /\ delay # 0
             /\ delay' = delay - 1
             /\ UNCHANGED <<fifo, holding, valid, note, setting>>

Land == /\ valid /\ delay = 0
        /\ Effect(holding)
        /\ Fetch

Idle == /\ ~valid
        /\ Fetch
        /\ UNCHANGED <<note, setting>>

Sample == CountDown \/ Land \/ Idle

Next == Sample \/ \E c \in Commands : Push(c)

Spec == Init /\ [][Next]_vars
=============================================================================
