----------------------------- MODULE CommandPath -----------------------------
(***************************************************************************)
(* The way of a command from the firmware to its voice: Control's          *)
(* decisions, the pushes that stall while the FIFO is full (main.c 48-60), *)
(* and the scheduler that counts the samples between commands (voice.py    *)
(* 408-458).  Samples go on all the while, through dispatches and stalls.  *)
(*                                                                         *)
(* The FIFO is the queue AsyncFifo implements and the engine the engine of *)
(* samples Engine implements, down to what each voice was last told.       *)
(***************************************************************************)
EXTENDS Control

CONSTANTS Depth,      \* words the FIFO holds
          Epoch,      \* the sample count when the firmware starts
          Horizon     \* the samples looked at (a bound)

ASSUME PathAssumption == /\ Depth \in Nat /\ Depth > 0 /\ Epoch \in Time
                         /\ Horizon \in Nat /\ Horizon <= MaxPass /\ Horizon < TimeMod

VARIABLES samples,               \* strobes since the firmware started
          fifo, holding, wait, valid,   \* the FIFO and CommandScheduler's registers
          told,                  \* what the engine's voices were last told
          meant                  \* history: when each word not yet landed is due

engine == <<samples, fifo, holding, wait, valid, told>>
allVars == <<vars, engine, meant>>

\* The 48 kHz sample count, which runs from power-on and wraps.
Count == Plus(Epoch, samples, TimeMod)

\* Nobody meant an immediate command for any sample in particular.
AtOnce == TimeMod

PathInit == /\ Init /\ now = Epoch
            /\ samples = 0
            /\ fifo = << >> /\ holding = (CHOOSE c \in Commands : TRUE) /\ wait = 0 /\ valid = FALSE
            /\ told = [v \in Voice |-> [state |-> "idle", step |-> 0]]
            /\ meant = << >>

\* Every word just handed back is meant for time t.
Note(t) == meant' = meant \o [i \in 1 .. Len(out') - Len(out) |-> t]

\* A command arrives; its words, if it has any, are for at once.
Hear(c) == /\ Receive(c)
           /\ Note(AtOnce)
           /\ UNCHANGED engine
Anchor(k) == ScheduleAt(k) /\ UNCHANGED <<engine, meant>>

\* The count may have just moved on when it is read (module SampleCounter).
Dispatch == /\ \E k \in {Minus(Count, now, TimeMod) - 1, Minus(Count, now, TimeMod)} :
                 k >= 0 /\ CallDispatch(k)
            /\ UNCHANGED <<engine, meant>>
Turn == /\ DispatchNext
        /\ Note(Head(events).time)
        /\ UNCHANGED engine
Return == EndDispatch /\ UNCHANGED <<engine, meant>>

\* A mistake: a push during a dispatch.
PushEarly == /\ Len(fifo) < Depth /\ out # << >>
             /\ out' = Tail(out) /\ fifo' = Append(fifo, Head(out))
             /\ UNCHANGED <<voices, tick, schedule, calling, now>>
             /\ UNCHANGED <<samples, holding, wait, valid, told, meant>>

\* The co-processor holds the CPU in cmd_push for as long as the FIFO is full.
PushWord == /\ Len(fifo) < Depth
            /\ EmitOne
            /\ fifo' = Append(fifo, Head(out))
            /\ UNCHANGED <<samples, holding, wait, valid, told, meant>>

-----------------------------------------------------------------------------
\* What voices t do at command c.
Heard(t, c) ==
  [v \in Voice |->
     IF c.op = "reset" THEN [state |-> "idle", step |-> 0]
     ELSE IF c.op = "note_on" /\ c.voice = v THEN [state |-> "sounding", step |-> c.value]
     ELSE IF c.op = "note_off" /\ c.voice = v /\ t[v].state = "sounding"
       THEN [t[v] EXCEPT !.state = "releasing"]
     ELSE t[v]]

Lands == valid /\ wait = 0

Fetch == IF fifo # << >>
           THEN /\ holding' = Head(fifo) /\ fifo' = Tail(fifo) /\ valid' = TRUE
                /\ wait' = IF Head(fifo).delay = 0 THEN 0 ELSE Head(fifo).delay - 1
           ELSE valid' = FALSE /\ UNCHANGED <<holding, fifo, wait>>

Sample == /\ samples < Horizon
          /\ samples' = samples + 1
          /\ IF valid /\ ~Lands
               THEN wait' = wait - 1 /\ UNCHANGED <<fifo, holding, valid>>
               ELSE Fetch
          /\ told' = IF Lands THEN Heard(told, holding) ELSE told
          /\ meant' = IF Lands THEN Tail(meant) ELSE meant
          /\ UNCHANGED vars

PathNext == \/ \E c \in Commands : Hear(c)
            \/ \E k \in Offsets : Anchor(k)
            \/ Dispatch \/ Turn \/ Return \/ PushWord \/ Sample

PathSpec == PathInit /\ [][PathNext]_allVars

-----------------------------------------------------------------------------
\* The words under way, the next to land first.
UnderWay == (IF valid THEN <<holding>> ELSE << >>) \o fifo \o out

\* The decisions are Control's, however the pushes stall and the samples fall,
\* so that what is proved of Control is true of it here.
IsControl == Spec

\* No event takes effect before its sample, whatever else is in the FIFO before
\* it and however late the firmware came by (control.c 285-328).
NeverEarly == [][Sample /\ Lands /\ Head(meant) # AtOnce
                   => Minus(Count', Head(meant), TimeMod) > 0]_allVars

\* What the voices are told once the first k words under way have landed.
Future[k \in 0 .. Len(UnderWay)] == IF k = 0 THEN told ELSE Heard(Future[k - 1], UnderWay[k])

\* The shadow is the engine's future: let what is under way land, and every
\* voice does what the allocator believes of it, through steals, resets, stalls
\* and commands for voices that do not exist (control.c 66-75, 163-225).
ShadowIsTheFuture ==
  Future[Len(UnderWay)] = [v \in Voice |-> [state |-> voices[v].state, step |-> voices[v].step]]
=============================================================================
