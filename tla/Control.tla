------------------------------- MODULE Control -------------------------------
(***************************************************************************)
(* sw/control.c: the decisions of the soft core, which voice a note goes   *)
(* to and when a command is due.  One call of control_command is a step;   *)
(* control_dispatch is a step per turn of its loop, with the sample count  *)
(* it was called with in `now`, because the samples go on meanwhile.       *)
(*                                                                         *)
(* Numbers wrap as in the code, ticks at TickMod and samples at TimeMod    *)
(* (2^32 both), and are compared by the sign of their difference.  Such a  *)
(* comparison is only an order while what it compares lies within half a   *)
(* wrap; TicksInHalf and InReach keep the environment inside.              *)
(***************************************************************************)
EXTENDS Integers, Sequences

CONSTANTS VoiceCount,   \* VOICE_COUNT
          Entries,      \* SCHEDULE_ENTRIES
          MaxOut,       \* CONTROL_MAX_OUT
          Window,       \* DISPATCH_WINDOW
          MaxDelay,     \* the largest delay a command word holds
          TickMod,      \* where ticks wrap
          TimeMod,      \* where sample times wrap
          Commands,     \* the commands the host may send, anchors aside
          Offsets,      \* how far from now the host may anchor
          MaxAhead,     \* how far ahead of now an anchor may run (a bound)
          MaxPass       \* the samples from one dispatch to the next (a bound)

Voice == 0 .. VoiceCount - 1
NoSuchVoice == VoiceCount        \* any voice number the engine does not have
VoiceAny == VoiceCount + 1       \* VOICE_ANY
PerVoice == {"note_on", "note_off", "set"}
Op == PerVoice \union {"global", "reset", "clear_schedule"}
Time == 0 .. TimeMod - 1
Tick == 0 .. TickMod - 1
Delay == 0 .. MaxDelay

Command == [op : Op, voice : 0 .. VoiceCount + 1, value : Nat, delay : Delay]

ASSUME ControlAssumption ==
  /\ VoiceCount \in Nat /\ VoiceCount > 0
  /\ Entries \in Nat /\ Entries > 0
  /\ MaxOut \in Nat /\ MaxOut >= VoiceCount
  /\ Window \in Nat /\ MaxDelay \in Nat /\ Window <= MaxDelay
  /\ TickMod \in Nat /\ TickMod >= 4 /\ TickMod % 2 = 0
  /\ TimeMod \in Nat /\ TimeMod % 2 = 0
  /\ MaxAhead \in Nat /\ Window <= MaxAhead
  /\ MaxPass \in Nat
  /\ 2 * (MaxAhead + MaxDelay + MaxPass) < TimeMod /\ 4 * MaxAhead < TimeMod
  /\ Commands \subseteq Command
  /\ Offsets \subseteq Int /\ \A k \in Offsets : -TimeMod < k /\ k <= MaxAhead

VARIABLES voices,     \* the shadow: step, state and stamp of each voice
          events,     \* the schedule, the oldest first (the ring's head is
                      \* events[1], its count the length)
          tick, anchor, anchored, chain, chained,
          calling,    \* whether control_dispatch is in its loop
          now,        \* the sample count of the last call
          out         \* what the current or last call hands back

vars == <<voices, events, tick, anchor, anchored, chain, chained, calling, now, out>>
schedule == <<events, anchor, anchored, chain, chained>>

\* a + k in arithmetic that wraps at m, for -m < k < m.
Plus(a, k, m) == IF a + k >= m THEN a + k - m ELSE IF a + k < 0 THEN a + k + m ELSE a + k

\* (int)(a - b): the difference as a signed number.
Minus(a, b, m) == IF 2 * (a - b) >= m THEN a - b - m
                  ELSE IF 2 * (a - b) < -m THEN a - b + m ELSE a - b

Older(a, b, m) == Minus(a, b, m) < 0

-----------------------------------------------------------------------------
Blank == [step |-> 0, state |-> "idle", stamp |-> 0]

Voiced(st) == {v \in Voice : voices[v].state = st}

\* The voice of S whose stamp no other's is older than: where the code's scan
\* ends up, as long as StampsTellApart.
Oldest(S) == CHOOSE v \in S : \A w \in S \ {v} : Older(voices[v].stamp, voices[w].stamp, TickMod)

\* A mistake: the oldest note stolen while others are dying away.
StealSounding == IF Voiced("idle") # {} THEN CHOOSE v \in Voiced("idle") : \A w \in Voiced("idle") : v <= w
                 ELSE IF Voiced("sounding") # {} THEN Oldest(Voiced("sounding"))
                 ELSE Oldest(Voiced("releasing"))

\* A free voice, the first there is; else the oldest release; else the oldest
\* note.
Allocated == IF Voiced("idle") # {} THEN CHOOSE v \in Voiced("idle") : \A w \in Voiced("idle") : v <= w
             ELSE IF Voiced("releasing") # {} THEN Oldest(Voiced("releasing"))
             ELSE Oldest(Voiced("sounding"))

\* The voice a note-off of step s means: of those that sound it, or failing
\* them of those that release it, the oldest.
Playing(s, st) == {v \in Voiced(st) : voices[v].step = s}

\* A mistake: the oldest voice of the step, sounding or not.
FoundEither(s) == IF Playing(s, "sounding") \union Playing(s, "releasing") # {}
                    THEN Oldest(Playing(s, "sounding") \union Playing(s, "releasing"))
                  ELSE NoSuchVoice

Found(s) == IF Playing(s, "sounding") # {} THEN Oldest(Playing(s, "sounding"))
            ELSE IF Playing(s, "releasing") # {} THEN Oldest(Playing(s, "releasing"))
            ELSE NoSuchVoice

\* A command with the voice it is meant for filled in: a note can be placed,
\* because its value is its step.
Placed(c) == IF c.voice = VoiceAny /\ c.op = "note_on" THEN [c EXCEPT !.voice = Allocated]
             ELSE IF c.voice = VoiceAny /\ c.op = "note_off" THEN [c EXCEPT !.voice = Found(c.value)]
             ELSE c

\* What `apply` hands back for c.  A voice field means nothing in a global
\* command; a setting for no voice is one for every voice, and waits once.
Emitted(c) ==
  IF c.op \in PerVoice /\ Placed(c).voice = NoSuchVoice THEN << >>
  ELSE IF c.op = "set" /\ c.voice = VoiceAny
    THEN [i \in 1 .. VoiceCount |->
            [c EXCEPT !.voice = i - 1, !.delay = IF i = 1 THEN c.delay ELSE 0]]
  ELSE <<Placed(c)>>

\* A note starts on voice v; a note of voice v is let go, if it still sounds.
Take(v, s) == /\ voices' = [voices EXCEPT ![v] = [step |-> s, state |-> "sounding", stamp |-> tick]]
              /\ tick' = Plus(tick, 1, TickMod)

\* A mistake: a release that takes no tick.
LetGoUntimed(v) == /\ IF voices[v].state = "sounding"
                        THEN voices' = [voices EXCEPT ![v].state = "releasing", ![v].stamp = tick]
                        ELSE UNCHANGED voices
                   /\ UNCHANGED tick

LetGo(v) == IF voices[v].state = "sounding"
              THEN /\ voices' = [voices EXCEPT ![v].state = "releasing", ![v].stamp = tick]
                   /\ tick' = Plus(tick, 1, TickMod)
              ELSE UNCHANGED <<voices, tick>>

\* `apply`, of a command that is not a reset.
Apply(c) == /\ out' = out \o Emitted(c)
            /\ \/ c.op = "note_on" /\ Emitted(c) # << >> /\ Take(Placed(c).voice, c.value)
               \/ c.op = "note_off" /\ Emitted(c) # << >> /\ LetGo(Placed(c).voice)
               \/ /\ c.op \notin {"note_on", "note_off"} \/ Emitted(c) = << >>
                  /\ UNCHANGED <<voices, tick>>

-----------------------------------------------------------------------------
Init == /\ voices = [v \in Voice |-> Blank]
        /\ events = << >>
        /\ tick = 0 /\ anchor = 0 /\ anchored = FALSE /\ chain = 0 /\ chained = FALSE
        /\ calling = FALSE /\ now \in Time /\ out = << >>

\* How many ticks ago a voice last changed.
Age(v) == Plus(tick, -voices[v].stamp, TickMod)

\* The bounds that keep comparisons an order: no voice is left alone for half
\* a round of ticks, and no time is left behind for long.
TicksInHalf == \A v \in Voice : voices[v].state # "idle" => 2 * Age(v) < TickMod

InReach(t, n) == Minus(t, n, TimeMod) \in -MaxAhead .. MaxAhead

\* OP_SCHEDULE_AT, which hands nothing back.
ScheduleAt(k) == /\ ~calling /\ out = << >>
                 /\ anchor' = Plus(now, k, TimeMod)
                 /\ anchored' = TRUE
                 /\ UNCHANGED <<voices, events, tick, chain, chained, calling, now, out>>

\* OP_CLEAR_SCHEDULE also stops scheduling; the chain is left as it is.
ClearSchedule(c) == /\ c.op = "clear_schedule"
                    /\ events' = << >> /\ anchored' = FALSE
                    /\ UNCHANGED <<voices, tick, anchor, chain, chained, out>>

\* A mistake: a reset that leaves the shadow.
ResetScheduleOnly(c) == /\ c.op = "reset"
                        /\ events' = << >>
                        /\ anchor' = 0 /\ anchored' = FALSE
                        /\ chain' = 0 /\ chained' = FALSE
                        /\ out' = <<c>>
                        /\ UNCHANGED <<voices, tick>>

\* A reset is never scheduled.
ResetNow(c) == /\ c.op = "reset"
               /\ voices' = [v \in Voice |-> Blank]
               /\ events' = << >>
               /\ tick' = 0 /\ anchor' = 0 /\ anchored' = FALSE
               /\ chain' = 0 /\ chained' = FALSE
               /\ out' = <<c>>

\* A mistake: an event that is due before the last one is held all the same.
HoldAny(c) == LET at == Plus(anchor, c.delay, TimeMod) IN
              /\ anchored /\ c.op \notin {"clear_schedule", "reset"}
              /\ InReach(at, now)
              /\ anchor' = at
              /\ events' = IF Len(events) = Entries THEN events
                           ELSE Append(events, [time |-> at, command |-> [c EXCEPT !.delay = 0]])
              /\ UNCHANGED <<voices, tick, anchored, chain, chained, out>>

\* While anchored a command waits for its time, unless there is no room or it
\* is due before the one before it: then it is dropped.
Hold(c) == LET at == Plus(anchor, c.delay, TimeMod)
               refused == \/ Len(events) = Entries
                          \/ /\ Len(events) > 0
                             /\ Older(at, events[Len(events)].time, TimeMod) IN
           /\ anchored /\ c.op \notin {"clear_schedule", "reset"}
           /\ InReach(at, now)
           /\ anchor' = at
           /\ events' = IF refused THEN events
                        ELSE Append(events, [time |-> at, command |-> [c EXCEPT !.delay = 0]])
           /\ UNCHANGED <<voices, tick, anchored, chain, chained, out>>

ApplyNow(c) == /\ ~anchored /\ c.op \notin {"clear_schedule", "reset"}
               /\ TicksInHalf
               /\ Apply(c)
               /\ UNCHANGED schedule

\* control_command.  The caller has pushed what the last call handed back.
Receive(c) == /\ ~calling /\ out = << >>
              /\ ClearSchedule(c) \/ ResetNow(c) \/ Hold(c) \/ ApplyNow(c)
              /\ UNCHANGED <<calling, now>>

\* control_dispatch is called k samples after the last time.
CallDispatch(k) == LET n == Plus(now, k, TimeMod) IN
                   /\ ~calling /\ out = << >>
                   /\ anchored => InReach(anchor, n)
                   /\ chained => InReach(chain, n)
                   /\ \A i \in 1 .. Len(events) : InReach(events[i].time, n)
                   /\ calling' = TRUE /\ now' = n
                   /\ UNCHANGED <<voices, tick, schedule, out>>

\* A mistake: going round while there is room for one word.
RoomForOne == /\ events # << >>
              /\ Len(out) < MaxOut
              /\ Minus(Head(events).time, now, TimeMod) <= Window

\* Whether the loop goes round again: an event is due and there is room for
\* the most commands one event can become.
MoreDue == /\ events # << >>
           /\ Len(out) + VoiceCount <= MaxOut
           /\ Minus(Head(events).time, now, TimeMod) <= Window

\* What the next delay hangs off: the last landing while that is still to
\* come, else this very sample.
Base == IF chained /\ Minus(chain, now, TimeMod) > 0 THEN chain ELSE now

Least(a, b) == IF a < b THEN a ELSE b

Gap(t) == Minus(t, Base, TimeMod)
\* A mistake: a delay of at least one sample.
AtLeastOne(t) == IF Gap(t) > 0 THEN Least(Gap(t), MaxDelay) ELSE 1

DelayTo(t) == IF Gap(t) > 0 THEN Least(Gap(t), MaxDelay) ELSE 0

\* A mistake: a command that hands nothing back counted as if it had landed.
ChainAlways ==
  LET at == Head(events).time
      c == [Head(events).command EXCEPT !.delay = DelayTo(at)] IN
  /\ calling /\ MoreDue
  /\ TicksInHalf
  /\ events' = Tail(events)
  /\ Apply(c)
  /\ chain' = Plus(Base, DelayTo(at), TimeMod) /\ chained' = TRUE
  /\ UNCHANGED <<anchor, anchored, calling, now>>

\* One turn of the loop.  A command that hands nothing back breaks the chain.
DispatchNext ==
  LET at == Head(events).time
      c == [Head(events).command EXCEPT !.delay = DelayTo(at)] IN
  /\ calling /\ MoreDue
  /\ TicksInHalf
  /\ events' = Tail(events)
  /\ Apply(c)
  /\ IF Emitted(c) # << >>
       THEN chain' = Plus(Base, DelayTo(at), TimeMod) /\ chained' = TRUE
       ELSE chained' = FALSE /\ UNCHANGED chain
  /\ UNCHANGED <<anchor, anchored, calling, now>>

EndDispatch == /\ calling /\ ~MoreDue
               /\ calling' = FALSE
               /\ UNCHANGED <<voices, tick, schedule, now, out>>

\* The caller pushes what was handed back, one word at a time, and all of it
\* before the next call.
EmitOne == /\ ~calling /\ out # << >>
           /\ out' = Tail(out)
           /\ UNCHANGED <<voices, tick, schedule, calling, now>>

Next == \/ \E c \in Commands : Receive(c)
        \/ \E k \in Offsets : ScheduleAt(k)
        \/ \E k \in 0 .. MaxPass : CallDispatch(k)
        \/ DispatchNext \/ EndDispatch \/ EmitOne

Spec == Init /\ [][Next]_vars

-----------------------------------------------------------------------------
Event == [time : Time, command : Command]

TypeOK == /\ voices \in [Voice -> [step : Nat, state : {"idle", "sounding", "releasing"}, stamp : Tick]]
          /\ events \in Seq(Event)
          /\ tick \in Tick /\ anchor \in Time /\ anchored \in BOOLEAN
          /\ chain \in Time /\ chained \in BOOLEAN
          /\ calling \in BOOLEAN /\ now \in Time
          /\ out \in Seq(Command)

\* The caller's array and the ring hold what is put into them: two broadcasts
\* or MaxOut single commands, and never one more (control.h 55-58, control.c
\* 230-248 and 285-328).
NoOverrun == Len(out) <= MaxOut /\ Len(events) <= Entries

\* "The ring is drained from the front, so an event earlier than the one
\* before it would never be reached in time": the schedule is in order of time
\* whatever the host anchors, clears and sends (control.c 227-248).
ScheduleInOrder == \A i, j \in 1 .. Len(events) :
                     i < j => ~Older(events[j].time, events[i].time, TimeMod)

\* Two voices that play never carry the same stamp and every stamp is in the
\* past half round, so that "oldest" is a voice, and one voice (control.c
\* 42-47 and 66-117).
StampsTellApart ==
  \A v, w \in Voice :
    voices[v].state # "idle" => /\ Age(v) > 0 /\ 2 * Age(v) <= TickMod
                                /\ v # w /\ voices[w].state # "idle" =>
                                     voices[v].stamp # voices[w].stamp

\* A bound on the firmware's own reckoning, not on what the engine has before
\* it, and so less than control.h 50-53 says (README, section 7): while the chain
\* counts, the landing it hangs the next delay off is at most a window ahead of
\* the last call, however events, gaps and calls fall, so that (int)(chain - now)
\* keeps its sign and no gap needs the cap at 16 bits (control.c 301-311).
ChainWithinWindow == chained => Minus(chain, now, TimeMod) <= Window

\* What a dispatch hands out never asks the engine to wait longer than a
\* window, so the delay field never needs its cap (control.c 297-312).
DelaysWithinWindow == calling => \A i \in 1 .. Len(out) : out[i].delay <= Window

\* A note-off that names a note still sounding always silences one voice of
\* that step, however many releases of the same pitch are under way (control.c
\* 121-129: "the voice that is actually sounding would never be released").
NoteOffSilencesOne ==
  [][\A c \in Commands :
       c.op = "note_off" /\ c.voice = VoiceAny /\ Receive(c) /\ ~anchored
         /\ Playing(c.value, "sounding") # {} =>
           \E v \in Playing(c.value, "sounding") :
              Playing(c.value, "sounding")' = Playing(c.value, "sounding") \ {v}]_vars

\* What the host plays, and the voices as a pool.
Notes == {c \in Commands : c.op \in {"note_on", "note_off"}}
Sounding == Voiced("sounding")
Dying == Voiced("releasing")
Played == Sounding \union Dying
StepOf == [v \in Played |-> voices[v].step]
Before == {p \in Played \X Played : Age(p[1]) > Age(p[2])}
Pool == INSTANCE VoicePool WITH
          Voices <- Voice,
          Steps <- {c.value : c \in Notes},
          Named <- {c.voice : c \in Notes} \intersect Voice,
          sounding <- Sounding, releasing <- Dying, step <- StepOf, before <- Before

\* Whatever the host sends and for as long as it plays, ticks that wrap
\* included, the shadow is a pool of voices: a new note steals the voice the
\* pool says, a note-off lets go of the note the pool says (control.c 42-160).
IsVoicePool == Pool!Spec
=============================================================================
