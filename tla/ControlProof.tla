---------------------------- MODULE ControlProof ----------------------------
(***************************************************************************)
(* Proofs about Control for every number of voices, every ring and window  *)
(* size and every width of ticks and times, and then about CommandPath for *)
(* every size of FIFO and pool: however pushes stall and samples fall      *)
(* between them, the decisions taken are Control's, and what is proved of  *)
(* Control holds on the whole path.                                        *)
(*                                                                         *)
(* Two facts carry the rest.  Voices that play have distinct ages within   *)
(* half a round of ticks, so comparing stamps by a wrapping difference     *)
(* compares ages, and "the oldest" exists (StampsTellApart).  Everything   *)
(* the schedule holds lies within reach of now, so the same is true of     *)
(* times (InSight), and the landing the firmware has reckoned up to is at  *)
(* most a window ahead.                                                    *)
(***************************************************************************)
EXTENDS CommandPath, SequenceTheorems, WellFoundedInduction, TLAPS

\* Wrapping arithmetic.
LEMMA PlusType ==
  ASSUME NEW m \in Nat, NEW a \in 0 .. m - 1, NEW k \in Int, -m < k, k < m
  PROVE  Plus(a, k, m) \in 0 .. m - 1
  BY DEF Plus

LEMMA MinusType ==
  ASSUME NEW m \in Nat, NEW a \in 0 .. m - 1, NEW b \in 0 .. m - 1
  PROVE  /\ Minus(a, b, m) \in Int
         /\ -m <= 2 * Minus(a, b, m) /\ 2 * Minus(a, b, m) < m
         /\ a # b => Minus(a, b, m) # 0
         /\ Minus(a, a, m) = 0
  BY DEF Minus

\* Adding what stays within half a round adds to the difference.
LEMMA MinusPlus ==
  ASSUME NEW m \in Nat, NEW a \in 0 .. m - 1, NEW b \in 0 .. m - 1, NEW k \in Int,
         -m < k, k < m,
         -m <= 2 * (Minus(a, b, m) + k), 2 * (Minus(a, b, m) + k) < m
  PROVE  Minus(Plus(a, k, m), b, m) = Minus(a, b, m) + k
  BY DEF Minus, Plus

LEMMA MinusPlusRight ==
  ASSUME NEW m \in Nat, NEW a \in 0 .. m - 1, NEW b \in 0 .. m - 1, NEW k \in Int,
         -m < k, k < m,
         -m <= 2 * (Minus(a, b, m) - k), 2 * (Minus(a, b, m) - k) < m
  PROVE  Minus(a, Plus(b, k, m), m) = Minus(a, b, m) - k
  BY DEF Minus, Plus

\* Differences to a common third within half a round subtract.
LEMMA MinusMinus ==
  ASSUME NEW m \in Nat, NEW a \in 0 .. m - 1, NEW b \in 0 .. m - 1, NEW c \in 0 .. m - 1,
         -m <= 2 * (Minus(a, c, m) - Minus(b, c, m)),
         2 * (Minus(a, c, m) - Minus(b, c, m)) < m
  PROVE  Minus(a, b, m) = Minus(a, c, m) - Minus(b, c, m)
  BY DEF Minus

\* A nonempty set of naturals has a least element.
LEMMA LeastExists ==
  ASSUME NEW T, T \subseteq Nat, T # {}
  PROVE  \E x \in T : \A y \in T : x <= y
  <1>1. PICK x \in T : \A y \in T : ~ (<<y, x>> \in OpToRel(<, Nat))
    BY NatLessThanWellFounded, WFMin
  <1>2. \A y \in T : ~ (y < x)
    BY <1>1 DEF OpToRel
  <1>3. QED BY <1>2

-----------------------------------------------------------------------------
Playable == {v \in Voice : voices[v].state # "idle"}

Stamped == /\ voices \in [Voice -> [step : Nat, state : {"idle", "sounding", "releasing"}, stamp : Tick]]
           /\ tick \in Tick
           /\ StampsTellApart

\* Older stamps are greater ages.
LEMMA OlderIsAge ==
  ASSUME Stamped, NEW v \in Playable, NEW w \in Playable
  PROVE  /\ Age(v) \in Nat /\ Age(v) > 0 /\ 2 * Age(v) <= TickMod
         /\ Older(voices[v].stamp, voices[w].stamp, TickMod) <=> Age(v) > Age(w)
         /\ v # w => Age(v) # Age(w)
  <1>1. /\ v \in Voice /\ w \in Voice
        /\ voices[v].stamp \in Tick /\ voices[w].stamp \in Tick
        /\ voices[v].state # "idle" /\ voices[w].state # "idle"
    BY DEF Stamped, Playable
  <1>2. /\ Age(v) > 0 /\ 2 * Age(v) <= TickMod
        /\ Age(w) > 0 /\ 2 * Age(w) <= TickMod
        /\ v # w => voices[v].stamp # voices[w].stamp
    BY <1>1 DEF Stamped, StampsTellApart
  <1>3. Age(v) \in 0 .. TickMod - 1 /\ Age(w) \in 0 .. TickMod - 1
    BY <1>1, ControlAssumption DEF Age, Plus, Tick, Stamped
  <1>4. Minus(voices[v].stamp, voices[w].stamp, TickMod) = Age(w) - Age(v)
    BY <1>1, <1>2, <1>3, ControlAssumption DEF Age, Plus, Minus, Tick, Stamped
  <1>5. v # w => Age(v) # Age(w)
    BY <1>1, <1>2, ControlAssumption DEF Age, Plus, Tick, Stamped
  <1>6. QED BY <1>2, <1>3, <1>4, <1>5 DEF Older

\* Of any voices that play there is an oldest, and it is the one that has not
\* changed for the longest.
LEMMA OldestExists ==
  ASSUME Stamped, NEW S, S \subseteq Playable, S # {}
  PROVE  Oldest(S) \in S /\ \A w \in S : Age(w) <= Age(Oldest(S))
  <1> DEFINE T == {TickMod - Age(v) : v \in S}
  <1>1. \A v \in S : Age(v) \in Nat /\ TickMod - Age(v) \in Nat
    BY OlderIsAge, ControlAssumption
  <1>2. PICK x \in T : \A y \in T : x <= y
    <2>1. T \subseteq Nat /\ T # {}
      BY <1>1
    <2>2. QED BY <2>1, LeastExists
  <1>3. PICK v \in S : x = TickMod - Age(v)
    BY <1>2
  <1>4. \A w \in S : TickMod - Age(v) <= TickMod - Age(w)
    BY <1>2, <1>3
  <1>5. \A w \in S \ {v} : Older(voices[v].stamp, voices[w].stamp, TickMod)
    <2> SUFFICES ASSUME NEW w \in S \ {v}
                 PROVE  Older(voices[v].stamp, voices[w].stamp, TickMod)
      OBVIOUS
    <2>1. Age(w) <= Age(v) /\ Age(w) # Age(v)
      BY <1>1, <1>4, OlderIsAge, ControlAssumption
    <2>2. QED BY <2>1, <1>1, OlderIsAge
  <1>6. /\ Oldest(S) \in S
        /\ \A w \in S \ {Oldest(S)} : Older(voices[Oldest(S)].stamp, voices[w].stamp, TickMod)
    BY <1>5 DEF Oldest
  <1>7. QED BY <1>1, <1>6, OlderIsAge

-----------------------------------------------------------------------------
\* The voices the allocator and the search come up with.
LEMMA FirstFree == ASSUME Voiced("idle") # {} PROVE Allocated \in Voiced("idle")
  <1>1. Voiced("idle") \subseteq Nat
    BY ControlAssumption DEF Voiced, Voice
  <1>2. \E v \in Voiced("idle") : \A w \in Voiced("idle") : v <= w
    BY <1>1, LeastExists
  <1>3. QED BY <1>2 DEF Allocated

LEMMA ChosenVoices ==
  ASSUME Stamped
  PROVE  /\ Allocated \in Voice
         /\ \A s : Found(s) \in Voice \/ Found(s) = NoSuchVoice
         /\ \A s : Found(s) \in Voice => voices[Found(s)].state # "idle"
  <1>1. ASSUME Voiced("idle") # {} PROVE Allocated \in Voice
    BY <1>1, FirstFree DEF Voiced
  <1>2. ASSUME Voiced("idle") = {} PROVE Allocated \in Voice
    <2>1. Voiced("releasing") \subseteq Playable /\ Voiced("sounding") \subseteq Playable
      BY DEF Voiced, Playable
    <2>2. Voiced("releasing") # {} \/ Voiced("sounding") # {}
      <3>1. 0 \in Voice
        BY ControlAssumption DEF Voice
      <3>2. QED BY <1>2, <3>1 DEF Voiced, Stamped
    <2>3. Allocated \in Playable
      BY <1>2, <2>1, <2>2, OldestExists DEF Allocated
    <2>4. QED BY <2>3 DEF Playable
  <1>3. ASSUME NEW s
        PROVE  /\ Found(s) \in Voice \/ Found(s) = NoSuchVoice
               /\ Found(s) \in Voice => voices[Found(s)].state # "idle"
    <2>1. Playing(s, "sounding") \subseteq Playable /\ Playing(s, "releasing") \subseteq Playable
      BY DEF Playing, Voiced, Playable
    <2>2. NoSuchVoice \notin Voice
      BY ControlAssumption DEF NoSuchVoice, Voice
    <2>3. CASE Playing(s, "sounding") # {}
      BY <2>1, <2>3, OldestExists DEF Found, Playable
    <2>4. CASE Playing(s, "sounding") = {} /\ Playing(s, "releasing") # {}
      BY <2>1, <2>4, OldestExists DEF Found, Playable
    <2>5. CASE Playing(s, "sounding") = {} /\ Playing(s, "releasing") = {}
      BY <2>2, <2>5 DEF Found
    <2>6. QED BY <2>3, <2>4, <2>5
  <1>4. QED BY <1>1, <1>2, <1>3

\* A change of one voice at the present tick makes it the youngest, and lets all
\* others age by one.
LEMMA AgesGoOn ==
  ASSUME Stamped, TicksInHalf, NEW v \in Voice, NEW s \in Nat,
         NEW st \in {"sounding", "releasing"},
         voices' = [voices EXCEPT ![v] = [step |-> s, state |-> st, stamp |-> tick]],
         tick' = Plus(tick, 1, TickMod)
  PROVE  /\ voices'[v] = [step |-> s, state |-> st, stamp |-> tick]
         /\ \A w \in Voice \ {v} : voices'[w] = voices[w]
         /\ tick' \in Tick /\ Age(v)' = 1
         /\ \A w \in Voice \ {v} : voices[w].state # "idle" =>
               /\ Age(w) \in Nat /\ Age(w)' = Age(w) + 1 /\ Age(w)' > 1 /\ 2 * Age(w)' <= TickMod
               /\ voices'[w].stamp # tick
  <1>1. tick \in Tick /\ tick' \in Tick
    BY ControlAssumption DEF Stamped, Tick, Plus
  <1>2. /\ voices'[v] = [step |-> s, state |-> st, stamp |-> tick]
        /\ \A w \in Voice \ {v} : voices'[w] = voices[w]
    BY DEF Stamped
  <1>3. PICK h \in Nat : TickMod = 2 * h
    <2>1. TickMod % 2 = 0 /\ TickMod \in Nat
      BY ControlAssumption
    <2>2. QED BY <2>1
  <1>4. Age(v)' = 1
    <2>1. voices'[v].stamp = tick
      BY <1>2
    <2>2. QED BY <1>1, <2>1, ControlAssumption DEF Age, Plus, Tick
  <1>5. ASSUME NEW w \in Voice \ {v}, voices[w].state # "idle"
        PROVE  /\ Age(w) \in Nat /\ Age(w)' = Age(w) + 1 /\ Age(w)' > 1 /\ 2 * Age(w)' <= TickMod
               /\ voices'[w].stamp # tick
    <2>1. /\ voices[w].stamp \in Tick /\ voices'[w].stamp = voices[w].stamp
          /\ Age(w) > 0 /\ 2 * Age(w) < TickMod
      BY <1>2, <1>5 DEF Stamped, StampsTellApart, TicksInHalf
    <2>2. voices[w].stamp # tick
      BY <2>1, ControlAssumption DEF Age, Plus, Tick, Stamped
    <2>3. Age(w) \in 0 .. TickMod - 1
      BY <1>1, <2>1, ControlAssumption DEF Age, Plus, Tick
    <2>4. Age(w)' = Age(w) + 1
      BY <1>1, <2>1, <2>3, ControlAssumption DEF Age, Plus, Tick
    <2>5. 2 * (Age(w) + 1) <= TickMod
      BY <1>3, <2>1, <2>3
    <2>6. QED BY <2>1, <2>2, <2>3, <2>4, <2>5
  <1>6. QED BY <1>1, <1>2, <1>4, <1>5

\* So it keeps the stamps apart.
LEMMA ChangeVoice ==
  ASSUME Stamped, TicksInHalf, NEW v \in Voice, NEW s \in Nat,
         NEW st \in {"sounding", "releasing"},
         voices' = [voices EXCEPT ![v] = [step |-> s, state |-> st, stamp |-> tick]],
         tick' = Plus(tick, 1, TickMod)
  PROVE  Stamped'
  <1>1. voices' \in [Voice -> [step : Nat, state : {"idle", "sounding", "releasing"}, stamp : Tick]]
    BY DEF Stamped
  <1>2. tick' \in Tick
    BY AgesGoOn
  <1>3. /\ voices'[v].stamp = tick /\ voices'[v].state # "idle" /\ Age(v)' = 1
        /\ \A w \in Voice \ {v} : voices'[w] = voices[w]
    <2>1. /\ voices'[v] = [step |-> s, state |-> st, stamp |-> tick] /\ Age(v)' = 1
          /\ \A w \in Voice \ {v} : voices'[w] = voices[w]
      BY AgesGoOn
    <2>2. QED BY <2>1
  <1>4. \A w \in Voice \ {v} : voices[w].state # "idle" =>
           Age(w)' > 0 /\ 2 * Age(w)' <= TickMod /\ voices'[w].stamp # tick
    <2>1. \A w \in Voice \ {v} : voices[w].state # "idle" =>
             /\ Age(w) \in Nat /\ Age(w)' = Age(w) + 1 /\ 2 * Age(w)' <= TickMod
             /\ voices'[w].stamp # tick
      BY AgesGoOn
    <2>2. QED BY <2>1
  <1>5. StampsTellApart'
    <2> SUFFICES ASSUME NEW w \in Voice, NEW u \in Voice, voices'[w].state # "idle"
                 PROVE  /\ Age(w)' > 0 /\ 2 * Age(w)' <= TickMod
                        /\ w # u /\ voices'[u].state # "idle" => voices'[w].stamp # voices'[u].stamp
      BY DEF StampsTellApart
    <2>1. CASE w = v
      <3>1. 2 <= TickMod
        BY ControlAssumption
      <3>2. QED BY <1>3, <1>4, <2>1, <3>1
    <2>2. CASE w # v /\ u = v
      BY <1>3, <1>4, <2>2
    <2>3. CASE w # v /\ u # v
      BY <1>3, <1>4, <2>3 DEF Stamped, StampsTellApart
    <2>4. QED BY <2>1, <2>2, <2>3
  <1>6. QED BY <1>1, <1>2, <1>5 DEF Stamped

LEMMA SameVoices == ASSUME Stamped, UNCHANGED <<voices, tick>> PROVE Stamped'
  BY DEF Stamped, StampsTellApart, Age

\* `apply` keeps the shadow in order, and what it hands back is at most a word
\* for every voice, none of which waits longer than it was told to.
LEMMA WhatApplyEmits ==
  ASSUME Stamped, NEW c \in Command
  PROVE  /\ Emitted(c) \in Seq(Command) /\ Len(Emitted(c)) <= VoiceCount
         /\ \A i \in 1 .. Len(Emitted(c)) : Emitted(c)[i].delay <= c.delay
  <1>1. Placed(c) \in Command /\ Placed(c).delay = c.delay
    <2>1. Allocated \in 0 .. VoiceCount + 1 /\ \A s : Found(s) \in 0 .. VoiceCount + 1
      BY ChosenVoices, ControlAssumption DEF Voice, NoSuchVoice
    <2>2. QED BY <2>1 DEF Placed, Command
  <1>2. c.delay \in Nat /\ c.delay <= MaxDelay
    BY ControlAssumption DEF Command, Delay
  <1>3. CASE Emitted(c) = << >>
    BY <1>3, ControlAssumption
  <1>4. CASE Emitted(c) = <<Placed(c)>>
    BY <1>1, <1>2, <1>4, ControlAssumption
  <1>5. CASE Emitted(c) = [i \in 1 .. VoiceCount |->
                [c EXCEPT !.voice = i - 1, !.delay = IF i = 1 THEN c.delay ELSE 0]]
    <2> DEFINE word(i) == [c EXCEPT !.voice = i - 1, !.delay = IF i = 1 THEN c.delay ELSE 0]
    <2>1. ASSUME NEW i \in 1 .. VoiceCount PROVE word(i) \in Command /\ word(i).delay <= c.delay
      <3>1. i - 1 \in 0 .. VoiceCount + 1 /\ (IF i = 1 THEN c.delay ELSE 0) \in Delay
        BY <1>2, ControlAssumption DEF Delay
      <3>2. word(i) \in Command
        BY <3>1 DEF Command
      <3>3. word(i).delay = IF i = 1 THEN c.delay ELSE 0
        BY DEF Command
      <3>4. QED BY <1>2, <3>2, <3>3
    <2>2. Emitted(c) = [i \in 1 .. VoiceCount |-> word(i)]
      BY <1>5
    <2> HIDE DEF word
    <2>3. Emitted(c) \in [1 .. VoiceCount -> Command]
      BY <2>1, <2>2
    <2>4. Emitted(c) \in Seq(Command) /\ Len(Emitted(c)) = VoiceCount
      BY <2>3, ControlAssumption
    <2>5. \A i \in 1 .. VoiceCount : Emitted(c)[i].delay <= c.delay
      BY <2>1, <2>2
    <2>6. QED BY <2>4, <2>5
  <1>6. QED BY <1>3, <1>4, <1>5 DEF Emitted

\* A note that is not dropped is one word, for a voice there is.
LEMMA PlacedVoice ==
  ASSUME Stamped, NEW c \in Command, c.op \in {"note_on", "note_off"}, Emitted(c) # << >>
  PROVE  /\ Placed(c).voice \in Voice /\ Emitted(c) = <<Placed(c)>>
         /\ Placed(c).op = c.op /\ Placed(c).value = c.value
  <1>1. c.value \in Nat /\ c.voice \in 0 .. VoiceCount + 1
    BY DEF Command
  <1>2. c.voice = VoiceAny \/ c.voice \in Voice \/ c.voice = NoSuchVoice
    BY <1>1, ControlAssumption DEF Voice, NoSuchVoice, VoiceAny
  <1>3. c.voice # VoiceAny => Placed(c).voice = c.voice
    BY DEF Placed
  <1>4. c.voice = VoiceAny => Placed(c).voice = Allocated \/ Placed(c).voice = Found(c.value)
    BY DEF Placed, Command
  <1>5. Placed(c).voice \in Voice \/ Placed(c).voice = NoSuchVoice
    BY <1>2, <1>3, <1>4, ChosenVoices
  <1>6. Placed(c).voice # NoSuchVoice /\ Emitted(c) = <<Placed(c)>>
    BY DEF Emitted, PerVoice
  <1>7. Placed(c).op = c.op /\ Placed(c).value = c.value
    BY DEF Placed, Command
  <1>8. QED BY <1>5, <1>6, <1>7

LEMMA ApplyKeeps ==
  ASSUME Stamped, TicksInHalf, NEW c \in Command, out \in Seq(Command), Apply(c)
  PROVE  /\ Stamped'
         /\ out' = out \o Emitted(c) /\ out' \in Seq(Command)
         /\ Len(out') <= Len(out) + VoiceCount
  <1>1. out' = out \o Emitted(c)
    BY DEF Apply
  <1>2. out' \in Seq(Command) /\ Len(out') <= Len(out) + VoiceCount
    BY <1>1, WhatApplyEmits, ControlAssumption
  <1>3. c.value \in Nat /\ c.voice \in 0 .. VoiceCount + 1
    BY DEF Command
  <1>4. c.op \in {"note_on", "note_off"} /\ Emitted(c) # << >> => Placed(c).voice \in Voice
    BY PlacedVoice
  <1>5. ASSUME c.op = "note_on", Emitted(c) # << >>, Take(Placed(c).voice, c.value)
        PROVE  Stamped'
    BY <1>3, <1>4, <1>5, ChangeVoice DEF Take
  <1>6. ASSUME c.op = "note_off", Emitted(c) # << >>, LetGo(Placed(c).voice)
        PROVE  Stamped'
    <2> DEFINE v == Placed(c).voice
    <2>1. v \in Voice /\ voices[v] \in [step : Nat, state : {"idle", "sounding", "releasing"}, stamp : Tick]
      BY <1>4, <1>6 DEF Stamped
    <2>2. CASE voices[v].state = "sounding"
      <3>1. voices' = [voices EXCEPT ![v] =
                         [step |-> voices[v].step, state |-> "releasing", stamp |-> tick]]
        BY <1>6, <2>1, <2>2 DEF LetGo, Stamped
      <3>2. QED BY <1>6, <2>1, <2>2, <3>1, ChangeVoice DEF LetGo
    <2>3. CASE voices[v].state # "sounding"
      BY <1>6, <2>3, SameVoices DEF LetGo
    <2>4. QED BY <2>2, <2>3
  <1>7. UNCHANGED <<voices, tick>> => Stamped'
    BY SameVoices
  <1>8. QED BY <1>1, <1>2, <1>5, <1>6, <1>7 DEF Apply

-----------------------------------------------------------------------------
\* Times by how far they are from now, which orders them while all are in
\* reach.
Rel(t) == Minus(t, now, TimeMod)

InSight == /\ \A i \in 1 .. Len(events) : Rel(events[i].time) \in -MaxAhead .. MaxAhead
           /\ \A i, j \in 1 .. Len(events) : i < j => Rel(events[i].time) <= Rel(events[j].time)
           /\ chained => Rel(chain) \in -MaxAhead .. Window

Types == /\ events \in Seq(Event)
         /\ anchor \in Time /\ anchored \in BOOLEAN
         /\ chain \in Time /\ chained \in BOOLEAN
         /\ calling \in BOOLEAN /\ now \in Time
         /\ out \in Seq(Command)

IInv == Stamped /\ Types /\ InSight /\ NoOverrun /\ DelaysWithinWindow

LEMMA TimeFacts == /\ TimeMod \in Nat /\ TimeMod > 0 /\ Window \in Nat /\ MaxAhead \in Nat
                   /\ MaxPass \in Nat /\ MaxDelay \in Nat /\ Window <= MaxAhead
                   /\ 4 * MaxAhead < TimeMod
                   /\ 2 * (MaxAhead + MaxPass) < TimeMod /\ 2 * (MaxAhead + MaxDelay) < TimeMod
                   /\ 0 \in Time /\ Window <= MaxDelay
  BY ControlAssumption DEF Time

\* An event out of order is one before another by the sign of the difference.
LEMMA SightIsOrder == ASSUME Types, InSight PROVE ScheduleInOrder
  <1> SUFFICES ASSUME NEW i \in 1 .. Len(events), NEW j \in 1 .. Len(events), i < j
               PROVE  ~Older(events[j].time, events[i].time, TimeMod)
    BY DEF ScheduleInOrder
  <1>1. events[i].time \in Time /\ events[j].time \in Time /\ now \in Time
    <2>1. events[i] \in Event /\ events[j] \in Event
      BY ElementOfSeq DEF Types
    <2>2. QED BY <2>1 DEF Types, Event
  <1>2. /\ Rel(events[i].time) \in -MaxAhead .. MaxAhead
        /\ Rel(events[j].time) \in -MaxAhead .. MaxAhead
        /\ Rel(events[i].time) <= Rel(events[j].time)
    BY DEF InSight
  <1>3. Minus(events[j].time, events[i].time, TimeMod) = Rel(events[j].time) - Rel(events[i].time)
    <2>1. /\ -TimeMod <= 2 * (Rel(events[j].time) - Rel(events[i].time))
          /\ 2 * (Rel(events[j].time) - Rel(events[i].time)) < TimeMod
      BY <1>2, TimeFacts
    <2>2. QED BY <1>1, <2>1, MinusMinus, TimeFacts DEF Rel, Time
  <1>4. QED BY <1>2, <1>3, TimeFacts DEF Older

\* The landing of the event at the front of the schedule, when it is due.
LEMMA Landing ==
  ASSUME Types, InSight, NEW t \in Time, Rel(t) \in -MaxAhead .. Window
  PROVE  /\ DelayTo(t) \in Delay /\ DelayTo(t) <= Window
         /\ Plus(Base, DelayTo(t), TimeMod) \in Time
         /\ Rel(Plus(Base, DelayTo(t), TimeMod)) \in 0 .. Window
         /\ Rel(Plus(Base, DelayTo(t), TimeMod)) >= Rel(t)
         /\ Base \in Time /\ Rel(Base) \in 0 .. Window
         /\ Rel(Plus(Base, DelayTo(t), TimeMod)) = Rel(Base) + DelayTo(t)
  <1>1. Base \in Time /\ Rel(Base) \in 0 .. Window
    <2>1. Rel(now) = 0
      BY MinusType, TimeFacts DEF Rel, Types, Time
    <2>2. chained => Rel(chain) \in -MaxAhead .. Window
      BY DEF InSight
    <2>3. QED BY <2>1, <2>2, TimeFacts DEF Base, Types, Rel
  <1>2. Gap(t) = Rel(t) - Rel(Base)
    <2>1. /\ t \in 0 .. TimeMod - 1 /\ Base \in 0 .. TimeMod - 1 /\ now \in 0 .. TimeMod - 1
      BY <1>1 DEF Types, Time
    <2>2. /\ Rel(t) \in Int /\ Rel(Base) \in Int
          /\ -TimeMod <= 2 * (Rel(t) - Rel(Base)) /\ 2 * (Rel(t) - Rel(Base)) < TimeMod
      BY <1>1, TimeFacts
    <2>3. Minus(t, Base, TimeMod) = Minus(t, now, TimeMod) - Minus(Base, now, TimeMod)
      BY <2>1, <2>2, MinusMinus, TimeFacts DEF Rel
    <2>4. QED BY <2>3 DEF Gap, Rel
  <1>3. DelayTo(t) = IF Rel(t) > Rel(Base) THEN Rel(t) - Rel(Base) ELSE 0
    BY <1>1, <1>2, TimeFacts DEF DelayTo, Least
  <1>4. DelayTo(t) \in 0 .. Window /\ Rel(Base) + DelayTo(t) \in 0 .. Window
    BY <1>1, <1>3, TimeFacts
  <1>5. Rel(Plus(Base, DelayTo(t), TimeMod)) = Rel(Base) + DelayTo(t)
    <2> DEFINE d == DelayTo(t)
    <2>1. d \in Int /\ -TimeMod < d /\ d < TimeMod
      BY <1>4, TimeFacts
    <2>2. -TimeMod <= 2 * (Minus(Base, now, TimeMod) + d) /\ 2 * (Minus(Base, now, TimeMod) + d) < TimeMod
      BY <1>1, <1>4, TimeFacts DEF Rel
    <2> HIDE DEF d
    <2>3. Minus(Plus(Base, d, TimeMod), now, TimeMod) = Minus(Base, now, TimeMod) + d
      BY <1>1, <2>1, <2>2, MinusPlus, TimeFacts DEF Types, Time
    <2>4. QED BY <2>3 DEF d, Rel
  <1>6. Plus(Base, DelayTo(t), TimeMod) \in Time
    BY <1>1, <1>4, PlusType, TimeFacts DEF Time
  <1>7. QED BY <1>1, <1>3, <1>4, <1>5, <1>6, TimeFacts DEF Delay

LEMMA InitIInv == Init => IInv
  <1> SUFFICES ASSUME Init PROVE IInv
    OBVIOUS
  <1>1. Stamped
    BY ControlAssumption DEF Init, Stamped, Blank, Tick, StampsTellApart
  <1>2. Types
    <2>1. << >> \in Seq(Event) /\ << >> \in Seq(Command)
      BY EmptySeq
    <2>2. QED BY <2>1, TimeFacts DEF Init, Types
  <1>3. InSight /\ NoOverrun /\ DelaysWithinWindow
    BY ControlAssumption DEF Init, InSight, NoOverrun, DelaysWithinWindow
  <1>4. QED BY <1>1, <1>2, <1>3 DEF IInv

-----------------------------------------------------------------------------
\* The invariant across each action, one lemma for each.
LEMMA KeepSight ==
  ASSUME IInv, UNCHANGED <<events, chain, now>>, chained' = chained
  PROVE  InSight'
  BY DEF IInv, InSight, Rel

LEMMA ScheduleAtKeeps == ASSUME IInv, NEW k \in Offsets, ScheduleAt(k) PROVE IInv'
  <1>1. Stamped'
    BY SameVoices DEF IInv, ScheduleAt
  <1>2. anchor' \in Time
    <2>1. k \in Int /\ -TimeMod < k /\ k < TimeMod
      BY ControlAssumption
    <2>2. QED BY <2>1, PlusType, TimeFacts DEF ScheduleAt, IInv, Types, Time
  <1>3. Types'
    BY <1>2 DEF ScheduleAt, IInv, Types
  <1>4. InSight'
    BY KeepSight DEF ScheduleAt
  <1>5. NoOverrun' /\ DelaysWithinWindow'
    BY DEF ScheduleAt, IInv, NoOverrun, DelaysWithinWindow
  <1>6. QED BY <1>1, <1>3, <1>4, <1>5 DEF IInv

LEMMA ClearKeeps ==
  ASSUME IInv, NEW c \in Command, ClearSchedule(c), UNCHANGED <<calling, now>> PROVE IInv'
  <1>1. Stamped'
    BY SameVoices DEF IInv, ClearSchedule
  <1>2. Types'
    BY EmptySeq DEF ClearSchedule, IInv, Types
  <1>3. InSight'
    BY DEF ClearSchedule, IInv, InSight, Rel
  <1>4. NoOverrun' /\ DelaysWithinWindow'
    BY ControlAssumption DEF ClearSchedule, IInv, NoOverrun, DelaysWithinWindow
  <1>5. QED BY <1>1, <1>2, <1>3, <1>4 DEF IInv

LEMMA ResetKeeps ==
  ASSUME IInv, NEW c \in Command, ~calling, ResetNow(c), UNCHANGED <<calling, now>> PROVE IInv'
  <1>1. Stamped'
    BY ControlAssumption DEF ResetNow, Stamped, Blank, Tick, StampsTellApart
  <1>2. <<c>> \in Seq(Command) /\ Len(<<c>>) = 1
    OBVIOUS
  <1>3. Types'
    BY <1>2, EmptySeq, TimeFacts DEF ResetNow, IInv, Types
  <1>4. InSight'
    BY DEF ResetNow, InSight
  <1>5. NoOverrun' /\ DelaysWithinWindow'
    BY <1>2, ControlAssumption DEF ResetNow, IInv, NoOverrun, DelaysWithinWindow
  <1>6. QED BY <1>1, <1>3, <1>4, <1>5 DEF IInv

LEMMA HoldKeeps ==
  ASSUME IInv, NEW c \in Command, ~calling, Hold(c), UNCHANGED <<calling, now>> PROVE IInv'
  <1> DEFINE at == Plus(anchor, c.delay, TimeMod)
             e == [time |-> at, command |-> [c EXCEPT !.delay = 0]]
             n == Len(events)
  <1>1. Stamped'
    BY SameVoices DEF IInv, Hold
  <1>2. at \in Time /\ Rel(at) \in -MaxAhead .. MaxAhead
    <2>1. c.delay \in Int /\ -TimeMod < c.delay /\ c.delay < TimeMod
      BY TimeFacts DEF Command, Delay
    <2>2. QED BY <2>1, PlusType, TimeFacts DEF IInv, Types, Time, Hold, InReach, Rel
  <1>3. e \in Event
    <2>1. 0 \in Delay
      BY TimeFacts DEF Delay
    <2>2. QED BY <1>2, <2>1 DEF Event, Command
  <1>4. n \in Nat /\ events \in Seq(Event) /\ n <= Entries
    BY LenProperties DEF IInv, Types, NoOverrun
  <1>5. CASE events' = events
    <2>1. InSight'
      BY <1>5, KeepSight DEF Hold
    <2>2. QED BY <1>1, <1>2, <1>5, <2>1 DEF Hold, IInv, Types, NoOverrun, DelaysWithinWindow
  <1>6. CASE /\ events' = Append(events, e) /\ n # Entries
             /\ n > 0 => ~Older(at, events[n].time, TimeMod)
    <2>1. /\ events' \in Seq(Event) /\ Len(events') = n + 1
          /\ \A i \in 1 .. n : events'[i] = events[i]
          /\ events'[n + 1] = e /\ events'[n + 1].time = at
      BY <1>3, <1>4, <1>6, AppendProperties
    <2>2. Types'
      BY <1>2, <2>1 DEF Hold, IInv, Types
    <2>3. NoOverrun' /\ DelaysWithinWindow'
      <3>1. Len(out') <= MaxOut /\ DelaysWithinWindow'
        BY DEF Hold, IInv, NoOverrun, DelaysWithinWindow
      <3>2. Len(events') <= Entries
        BY <1>4, <1>6, <2>1, ControlAssumption
      <3>3. QED BY <3>1, <3>2 DEF NoOverrun
    <2>4. n > 0 => Rel(events[n].time) <= Rel(at)
      <3> SUFFICES ASSUME n > 0 PROVE Rel(events[n].time) <= Rel(at)
        OBVIOUS
      <3>1. n \in 1 .. n /\ events[n] \in Event /\ events[n].time \in Time
        <4>1. n \in 1 .. Len(events)
          BY <1>4
        <4>2. events[n] \in Event
          BY <1>4, <4>1, ElementOfSeq
        <4>3. QED BY <4>1, <4>2 DEF Event
      <3>2. Rel(events[n].time) \in -MaxAhead .. MaxAhead
        BY <3>1 DEF IInv, InSight
      <3>3. Minus(at, events[n].time, TimeMod) = Rel(at) - Rel(events[n].time)
        <4>1. /\ -TimeMod <= 2 * (Rel(at) - Rel(events[n].time))
              /\ 2 * (Rel(at) - Rel(events[n].time)) < TimeMod
          BY <1>2, <3>2, TimeFacts
        <4> HIDE DEF at
        <4>2. QED BY <1>2, <3>1, <4>1, MinusMinus, TimeFacts DEF Rel, Time, IInv, Types
      <3>4. QED BY <1>2, <1>6, <3>2, <3>3, TimeFacts DEF Older
    <2>5. now' = now /\ chain' = chain /\ chained' = chained
      BY DEF Hold
    <2>6. \A i \in 1 .. n : Rel(events[i].time) <= Rel(at)
      <3> SUFFICES ASSUME NEW i \in 1 .. n PROVE Rel(events[i].time) <= Rel(at)
        OBVIOUS
      <3>1. /\ i = n \/ Rel(events[i].time) <= Rel(events[n].time)
            /\ Rel(events[i].time) \in -MaxAhead .. MaxAhead
            /\ Rel(events[n].time) \in -MaxAhead .. MaxAhead
        BY <1>4 DEF IInv, InSight
      <3>2. QED BY <1>2, <1>4, <2>4, <3>1, TimeFacts
    <2>7. InSight'
      <3> HIDE DEF at, e, n
      <3>1. \A i \in 1 .. n + 1 : Rel(events[i].time)' = IF i = n + 1 THEN Rel(at) ELSE Rel(events[i].time)
        BY <1>4, <2>1, <2>5 DEF Rel
      <3>2. (Rel(chain) \in -MaxAhead .. Window)' <=> Rel(chain) \in -MaxAhead .. Window
        BY <2>5 DEF Rel
      <3>3. \A i \in 1 .. n : Rel(events[i].time) \in -MaxAhead .. MaxAhead
        BY DEF IInv, InSight, n
      <3>4. \A i, j \in 1 .. n : i < j => Rel(events[i].time) <= Rel(events[j].time)
        BY DEF IInv, InSight, n
      <3>5. chained => Rel(chain) \in -MaxAhead .. Window
        BY DEF IInv, InSight
      <3>6. \A i \in 1 .. n + 1 : Rel(events[i].time)' \in -MaxAhead .. MaxAhead
        BY <1>2, <1>4, <3>1, <3>3
      <3>7. \A i, j \in 1 .. n + 1 : i < j => Rel(events[i].time)' <= Rel(events[j].time)'
        BY <1>4, <2>6, <3>1, <3>4
      <3>8. chained' => Rel(chain)' \in -MaxAhead .. Window
        BY <2>5, <3>2, <3>5
      <3>9. Len(events)' = n + 1
        BY <2>1
      <3>10. QED BY <3>6, <3>7, <3>8, <3>9 DEF InSight
    <2>8. QED BY <1>1, <2>2, <2>3, <2>7 DEF IInv
  <1>7. QED BY <1>5, <1>6 DEF Hold

LEMMA ApplyNowKeeps ==
  ASSUME IInv, NEW c \in Command, ~calling, out = << >>, ApplyNow(c), UNCHANGED <<calling, now>>
  PROVE  IInv'
  <1>1. Len(out) = 0 /\ out \in Seq(Command)
    BY EmptySeq DEF IInv, Types
  <1>2. Stamped' /\ out' \in Seq(Command) /\ Len(out') <= VoiceCount
    BY <1>1, ApplyKeeps, ControlAssumption DEF IInv, ApplyNow
  <1>3. UNCHANGED <<events, anchor, anchored, chain, chained>>
    BY DEF ApplyNow, schedule
  <1>4. Types' /\ InSight'
    BY <1>2, <1>3, KeepSight DEF IInv, Types
  <1>5. NoOverrun' /\ DelaysWithinWindow'
    <2>1. Len(out') \in Nat
      BY <1>2, LenProperties
    <2>2. QED BY <1>2, <1>3, <2>1, ControlAssumption DEF IInv, NoOverrun, DelaysWithinWindow
  <1>6. QED BY <1>2, <1>4, <1>5 DEF IInv

LEMMA CallKeeps == ASSUME IInv, NEW k \in 0 .. MaxPass, CallDispatch(k) PROVE IInv'
  <1>1. Stamped'
    BY SameVoices DEF IInv, CallDispatch
  <1>2. UNCHANGED <<events, anchor, anchored, chain, chained, out>> /\ out = << >>
    BY DEF CallDispatch, schedule
  <1>3. now' = Plus(now, k, TimeMod) /\ now' \in Time
    <2>1. k \in Int /\ -TimeMod < k /\ k < TimeMod
      BY TimeFacts
    <2>2. QED BY <2>1, PlusType, TimeFacts DEF CallDispatch, IInv, Types, Time
  <1>4. Types'
    BY <1>2, <1>3 DEF CallDispatch, IInv, Types
  <1>5. ASSUME NEW t \in Time, Rel(t) \in -MaxAhead .. MaxAhead
        PROVE  Minus(t, now', TimeMod) = Rel(t) - k
    <2>1. -TimeMod <= 2 * (Rel(t) - k) /\ 2 * (Rel(t) - k) < TimeMod
      BY <1>5, TimeFacts
    <2>2. k \in Int /\ -TimeMod < k /\ k < TimeMod
      BY TimeFacts
    <2>3. QED BY <1>3, <2>1, <2>2, MinusPlusRight, TimeFacts DEF Rel, Time, IInv, Types
  <1>6. ASSUME NEW i \in 1 .. Len(events)
        PROVE  /\ Rel(events[i].time)' = Rel(events[i].time) - k
               /\ Rel(events[i].time)' \in -MaxAhead .. MaxAhead
               /\ Rel(events[i].time) \in -MaxAhead .. MaxAhead
    <2>1. events[i].time \in Time
      <3>1. events[i] \in Event
        BY ElementOfSeq DEF IInv, Types
      <3>2. QED BY <3>1 DEF Event
    <2>2. Rel(events[i].time) \in -MaxAhead .. MaxAhead
      BY DEF IInv, InSight
    <2>3. Minus(events[i].time, now', TimeMod) = Rel(events[i].time) - k
      BY <1>5, <2>1, <2>2
    <2>4. Minus(events[i].time, now', TimeMod) \in -MaxAhead .. MaxAhead
      BY <1>3 DEF CallDispatch, InReach
    <2>5. Rel(events[i].time)' = Minus(events[i].time, now', TimeMod)
      BY <1>2 DEF Rel
    <2>6. QED BY <2>2, <2>3, <2>4, <2>5
  <1>7. chained' => Rel(chain)' \in -MaxAhead .. Window
    <2> SUFFICES ASSUME chained PROVE Minus(chain, now', TimeMod) \in -MaxAhead .. Window
      BY <1>2 DEF Rel
    <2>1. chain \in Time /\ Rel(chain) \in -MaxAhead .. Window
      BY DEF IInv, Types, InSight
    <2>2. Minus(chain, now', TimeMod) = Rel(chain) - k
      BY <1>5, <2>1, TimeFacts
    <2>3. Minus(chain, now', TimeMod) \in -MaxAhead .. MaxAhead
      BY <1>3 DEF CallDispatch, InReach
    <2>4. QED BY <2>1, <2>2, <2>3, TimeFacts
  <1>8. InSight'
    <2>1. \A i, j \in 1 .. Len(events) : i < j => Rel(events[i].time)' <= Rel(events[j].time)'
      <3> SUFFICES ASSUME NEW i \in 1 .. Len(events), NEW j \in 1 .. Len(events), i < j
                   PROVE  Rel(events[i].time)' <= Rel(events[j].time)'
        OBVIOUS
      <3>1. Rel(events[i].time) <= Rel(events[j].time)
        BY DEF IInv, InSight
      <3>2. QED BY <1>6, <3>1, TimeFacts
    <2>2. Len(events)' = Len(events)
      BY <1>2
    <2>3. QED BY <1>6, <1>7, <2>1, <2>2 DEF InSight
  <1>9. NoOverrun' /\ DelaysWithinWindow'
    BY <1>2, EmptySeq DEF IInv, NoOverrun, DelaysWithinWindow
  <1>10. QED BY <1>1, <1>4, <1>8, <1>9 DEF IInv

LEMMA DispatchKeeps == ASSUME IInv, DispatchNext PROVE IInv'
  <1> DEFINE e == Head(events)
             d == DelayTo(e.time)
             c == [e.command EXCEPT !.delay = d]
  <1>1. events # << >> /\ events \in Seq(Event) /\ calling
    BY DEF DispatchNext, MoreDue, IInv, Types
  <1>2. /\ e \in Event /\ e = events[1] /\ Len(events) \in Nat /\ Len(events) > 0
        /\ Tail(events) \in Seq(Event) /\ Len(Tail(events)) = Len(events) - 1
        /\ \A i \in 1 .. Len(events) - 1 : Tail(events)[i] = events[i + 1]
    BY <1>1, HeadTailProperties, EmptySeq
  <1>3. e.time \in Time /\ e.command \in Command /\ Rel(e.time) \in -MaxAhead .. Window
    <2>1. Rel(e.time) <= Window
      BY DEF DispatchNext, MoreDue, Rel
    <2>2. 1 \in 1 .. Len(events)
      BY <1>2
    <2>3. Rel(events[1].time) \in -MaxAhead .. MaxAhead
      BY <2>2 DEF IInv, InSight
    <2>4. QED BY <1>2, <2>1, <2>3, TimeFacts DEF Event
  <1>4. /\ d \in Delay /\ d <= Window /\ Plus(Base, d, TimeMod) \in Time
        /\ Rel(Plus(Base, d, TimeMod)) \in 0 .. Window
    BY <1>3, Landing DEF IInv
  <1> HIDE DEF d
  <1>5. c \in Command /\ c.delay = d
    BY <1>3, <1>4 DEF Command
  <1>6. /\ TicksInHalf /\ Apply(c) /\ events' = Tail(events)
        /\ UNCHANGED <<anchor, anchored, calling, now>>
        /\ \/ chain' = Plus(Base, d, TimeMod) /\ chained' = TRUE
           \/ chained' = FALSE /\ chain' = chain
    BY DEF DispatchNext, d
  <1> HIDE DEF c, e
  <1>7. Stamped' /\ out' = out \o Emitted(c) /\ out' \in Seq(Command) /\ Len(out') <= Len(out) + VoiceCount
    BY <1>5, <1>6, ApplyKeeps DEF IInv, Types
  <1>8. Types'
    BY <1>2, <1>4, <1>6, <1>7 DEF IInv, Types
  <1>9. NoOverrun'
    <2>1. Len(out) + VoiceCount <= MaxOut /\ Len(events) <= Entries
      BY DEF DispatchNext, MoreDue, IInv, NoOverrun
    <2>2. Len(out) \in Nat /\ Len(out') \in Nat
      BY <1>7, LenProperties DEF IInv, Types
    <2>3. QED BY <1>2, <1>6, <1>7, <2>1, <2>2, ControlAssumption DEF NoOverrun
  <1>10. DelaysWithinWindow'
    <2>1. /\ Emitted(c) \in Seq(Command)
          /\ \A i \in 1 .. Len(Emitted(c)) : Emitted(c)[i].delay <= d
      BY <1>5, WhatApplyEmits DEF IInv
    <2>2. \A i \in 1 .. Len(out) : out[i].delay <= Window
      BY <1>1 DEF IInv, DelaysWithinWindow
    <2> SUFFICES ASSUME NEW i \in 1 .. Len(out') PROVE out'[i].delay <= Window
      BY DEF DelaysWithinWindow
    <2>3. out \in Seq(Command) /\ Len(out) \in Nat /\ Len(Emitted(c)) \in Nat
      BY <2>1, LenProperties DEF IInv, Types
    <2>4. /\ Len(out') = Len(out) + Len(Emitted(c))
          /\ i <= Len(out) => out'[i] = out[i]
          /\ i > Len(out) => /\ out'[i] = Emitted(c)[i - Len(out)]
                             /\ i - Len(out) \in 1 .. Len(Emitted(c))
      BY <1>7, <2>1, <2>3
    <2>5. CASE i <= Len(out)
      BY <2>2, <2>3, <2>4, <2>5
    <2>6. CASE i > Len(out)
      <3>1. Emitted(c)[i - Len(out)].delay <= d /\ Emitted(c)[i - Len(out)] \in Command
        BY <2>1, <2>4, <2>6, ElementOfSeq
      <3>2. QED BY <1>4, <2>4, <2>6, <3>1, TimeFacts DEF Command, Delay
    <2>7. QED BY <2>3, <2>5, <2>6
  <1>11. InSight'
    <2>1. Len(events') = Len(events) - 1 /\ now' = now
      BY <1>2, <1>6
    <2>2. \A i \in 1 .. Len(events) - 1 : Rel(events[i].time)' = Rel(events[i + 1].time)
      BY <1>2, <1>6 DEF Rel
    <2>3. \A i \in 1 .. Len(events) : Rel(events[i].time) \in -MaxAhead .. MaxAhead
      BY DEF IInv, InSight
    <2>4. \A i, j \in 1 .. Len(events) : i < j => Rel(events[i].time) <= Rel(events[j].time)
      BY DEF IInv, InSight
    <2>5. \A i \in 1 .. Len(events) - 1 : Rel(events[i].time)' \in -MaxAhead .. MaxAhead
      BY <1>2, <2>2, <2>3
    <2>6. \A i, j \in 1 .. Len(events) - 1 : i < j => Rel(events[i].time)' <= Rel(events[j].time)'
      BY <1>2, <2>2, <2>4
    <2>7. chained' => Rel(chain)' \in -MaxAhead .. Window
      BY <1>4, <1>6, TimeFacts DEF Rel
    <2>8. QED BY <2>1, <2>5, <2>6, <2>7 DEF InSight
  <1>12. QED BY <1>7, <1>8, <1>9, <1>10, <1>11 DEF IInv

LEMMA EndKeeps == ASSUME IInv, EndDispatch PROVE IInv'
  <1>1. Stamped' /\ InSight'
    BY SameVoices, KeepSight DEF IInv, EndDispatch, schedule
  <1>2. Types' /\ NoOverrun' /\ DelaysWithinWindow'
    BY DEF IInv, EndDispatch, schedule, Types, NoOverrun, DelaysWithinWindow
  <1>3. QED BY <1>1, <1>2 DEF IInv

LEMMA EmitKeeps == ASSUME IInv, EmitOne PROVE IInv'
  <1>1. Stamped' /\ InSight'
    BY SameVoices, KeepSight DEF IInv, EmitOne, schedule
  <1>2. out' \in Seq(Command) /\ Len(out') <= Len(out)
    BY HeadTailProperties, LenProperties, EmptySeq DEF IInv, Types, EmitOne
  <1>3. Types' /\ NoOverrun' /\ DelaysWithinWindow'
    <2>1. Len(out) \in Nat /\ Len(out') \in Nat
      BY <1>2, LenProperties DEF IInv, Types
    <2>2. QED BY <1>2, <2>1, ControlAssumption
              DEF IInv, EmitOne, schedule, Types, NoOverrun, DelaysWithinWindow
  <1>4. QED BY <1>1, <1>3 DEF IInv

LEMMA NextIInv == IInv /\ [Next]_vars => IInv'
  <1> SUFFICES ASSUME IInv, [Next]_vars PROVE IInv'
    OBVIOUS
  <1>1. ASSUME NEW c \in Commands, Receive(c) PROVE IInv'
    <2>1. c \in Command
      BY ControlAssumption
    <2>2. QED BY <1>1, <2>1, ClearKeeps, ResetKeeps, HoldKeeps, ApplyNowKeeps DEF Receive
  <1>2. ASSUME NEW k \in Offsets, ScheduleAt(k) PROVE IInv'
    BY <1>2, ScheduleAtKeeps
  <1>3. ASSUME NEW k \in 0 .. MaxPass, CallDispatch(k) PROVE IInv'
    BY <1>3, CallKeeps
  <1>4. CASE UNCHANGED vars
    <2>1. Stamped' /\ InSight'
      BY <1>4, SameVoices, KeepSight DEF IInv, vars
    <2>2. Types' /\ NoOverrun' /\ DelaysWithinWindow'
      BY <1>4 DEF vars, IInv, Types, NoOverrun, DelaysWithinWindow
    <2>3. QED BY <2>1, <2>2 DEF IInv
  <1>5. QED BY <1>1, <1>2, <1>3, <1>4, DispatchKeeps, EndKeeps, EmitKeeps DEF Next

LEMMA IInvAlways == Spec => []IInv
  BY InitIInv, NextIInv, PTL DEF Spec

\* Type correctness of the whole state.
THEOREM TypeCorrect == Spec => []TypeOK
  <1>1. IInv => TypeOK
    BY DEF IInv, Stamped, Types, TypeOK
  <1>2. QED BY <1>1, IInvAlways, PTL

\* The allocator's stamps order the voices that play, ticks that wrap
\* included, so "oldest" always names one of them (control.c 42-117).
THEOREM StampsAlwaysTellApart == Spec => []StampsTellApart
  <1>1. IInv => StampsTellApart
    BY DEF IInv, Stamped
  <1>2. QED BY <1>1, IInvAlways, PTL

\* Neither the ring nor the caller's array is ever overrun (control.h 55-58,
\* control.c 230-248 and 285-328).
THEOREM NeverOverrun == Spec => []NoOverrun
  <1>1. IInv => NoOverrun
    BY DEF IInv
  <1>2. QED BY <1>1, IInvAlways, PTL

\* The schedule stays in the order of its times across wraps (control.c
\* 227-248).
THEOREM AlwaysInOrder == Spec => []ScheduleInOrder
  <1>1. IInv => ScheduleInOrder
    BY SightIsOrder DEF IInv
  <1>2. QED BY <1>1, IInvAlways, PTL

\* The landing the firmware reckons with is never more than a window ahead of
\* the last call, and no one delay it asks for is longer, nor needs the cap at 16
\* bits (control.c 297-312).  What the delays in the FIFO add up to it does not bound.
THEOREM NeverBeyondWindow == Spec => [](ChainWithinWindow /\ DelaysWithinWindow)
  <1>1. IInv => ChainWithinWindow /\ DelaysWithinWindow
    <2> SUFFICES ASSUME IInv PROVE ChainWithinWindow /\ DelaysWithinWindow
      OBVIOUS
    <2>1. chained => Minus(chain, now, TimeMod) \in -MaxAhead .. Window
      BY DEF IInv, InSight, Rel
    <2>2. QED BY <2>1, TimeFacts DEF IInv, ChainWithinWindow
  <1>2. QED BY <1>1, IInvAlways, PTL

\* A note-off that names a note still sounding silences one voice of that step
\* and no more, whatever is dying away (control.c 121-157).
THEOREM AlwaysSilencesOne == Spec => NoteOffSilencesOne
  <1> DEFINE Off(c) == c.op = "note_off" /\ c.voice = VoiceAny /\ Receive(c) /\ ~anchored
                         /\ Playing(c.value, "sounding") # {}
             One(c) == \E v \in Playing(c.value, "sounding") :
                          Playing(c.value, "sounding")' = Playing(c.value, "sounding") \ {v}
  <1>1. IInv /\ [Next]_vars => [\A c \in Commands : Off(c) => One(c)]_vars
    <2> SUFFICES ASSUME IInv, NEW c \in Commands, Off(c) PROVE One(c)
      OBVIOUS
    <2> DEFINE S == Playing(c.value, "sounding")
               v == Found(c.value)
    <2>1. ApplyNow(c) /\ c \in Command /\ Stamped
      BY ControlAssumption DEF Receive, ClearSchedule, ResetNow, Hold, IInv
    <2>2. v \in S
      <3>1. S \subseteq Playable /\ S # {}
        BY DEF Playing, Voiced, Playable
      <3>2. v = Oldest(S)
        BY <3>1 DEF Found
      <3>3. QED BY <2>1, <3>1, <3>2, OldestExists
    <2>3. v \in Voice /\ voices[v].state = "sounding" /\ voices[v].step = c.value
      BY <2>2 DEF Playing, Voiced
    <2>4. Placed(c).voice = v
      BY <2>1 DEF Placed, Command
    <2>5. Emitted(c) # << >>
      <3>1. Placed(c).voice # NoSuchVoice
        BY <2>3, <2>4, ControlAssumption DEF Voice, NoSuchVoice
      <3>2. Emitted(c) = <<Placed(c)>>
        BY <3>1 DEF Emitted
      <3>3. QED BY <3>2
    <2>6. LetGo(v)
      BY <2>1, <2>4, <2>5 DEF ApplyNow, Apply
    <2>7. voices' = [voices EXCEPT ![v].state = "releasing", ![v].stamp = tick]
      BY <2>3, <2>6 DEF LetGo
    <2>8. /\ voices'[v].state = "releasing"
          /\ \A w \in Voice \ {v} : voices'[w] = voices[w]
      BY <2>1, <2>3, <2>7 DEF Stamped
    <2>9. S' = S \ {v}
      BY <2>3, <2>8 DEF Playing, Voiced
    <2>10. QED BY <2>2, <2>9
  <1>2. QED BY <1>1, IInvAlways, PTL DEF Spec, NoteOffSilencesOne

-----------------------------------------------------------------------------
\* What waits in the ring is what the host said, and never a reset.
Said(d) == \E c \in Commands : d.op = c.op /\ d.voice = c.voice /\ d.value = c.value
FromHost == \A i \in 1 .. Len(events) : Said(events[i].command) /\ events[i].command.op # "reset"

LEMMA StillFromHost == ASSUME IInv, FromHost, [Next]_vars PROVE FromHost'
  <1>1. events \in Seq(Event)
    BY DEF IInv, Types
  <1>2. CASE events' = events
    BY <1>2 DEF FromHost
  <1>3. CASE events' = << >>
    BY <1>3 DEF FromHost
  <1>4. ASSUME NEW c \in Commands, Hold(c) PROVE FromHost'
    <2> DEFINE e == [time |-> Plus(anchor, c.delay, TimeMod), command |-> [c EXCEPT !.delay = 0]]
    <2>1. c \in Command
      BY ControlAssumption
    <2>2. Said(e.command) /\ e.command.op # "reset"
      BY <1>4, <2>1 DEF Hold, Said, Command
    <2>3. events' = events \/ events' = Append(events, e)
      BY <1>4 DEF Hold
    <2> HIDE DEF e
    <2>4. CASE events' = Append(events, e)
      <3>1. Len(events') = Len(events) + 1 /\ events'[Len(events) + 1] = e
            /\ \A i \in 1 .. Len(events) : events'[i] = events[i]
        BY <1>1, <2>4
      <3>2. QED BY <1>1, <2>2, <3>1 DEF FromHost
    <2>5. QED BY <1>2, <2>3, <2>4
  <1>5. CASE DispatchNext
    <2>1. events # << >> /\ events' = Tail(events)
      BY <1>5 DEF DispatchNext, MoreDue
    <2>2. /\ Len(events) \in Nat /\ Len(events') = Len(events) - 1
          /\ \A i \in 1 .. Len(events) - 1 : events'[i] = events[i + 1]
      BY <1>1, <2>1, HeadTailProperties, EmptySeq
    <2>3. QED BY <2>2 DEF FromHost
  <1>6. QED BY <1>2, <1>3, <1>4, <1>5
             DEF Next, Receive, ClearSchedule, ResetNow, ApplyNow, ScheduleAt, CallDispatch, EndDispatch,
                 EmitOne, schedule, vars

\* The pool's part in what a voice is changed to.
LEMMA ChangeInPool ==
  ASSUME Stamped, TicksInHalf, NEW v \in Voice, NEW s \in Nat,
         NEW st \in {"sounding", "releasing"},
         voices' = [voices EXCEPT ![v] = [step |-> s, state |-> st, stamp |-> tick]],
         tick' = Plus(tick, 1, TickMod)
  PROVE  /\ Sounding' = IF st = "sounding" THEN Sounding \union {v} ELSE Sounding \ {v}
         /\ Dying' = IF st = "releasing" THEN Dying \union {v} ELSE Dying \ {v}
         /\ StepOf' = [w \in Played \union {v} |-> IF w = v THEN s ELSE StepOf[w]]
         /\ Pool!Change(v)
  <1>1. /\ voices'[v] = [step |-> s, state |-> st, stamp |-> tick]
        /\ \A w \in Voice \ {v} : voices'[w] = voices[w]
        /\ Age(v)' = 1
        /\ \A w \in Voice \ {v} : voices[w].state # "idle" =>
              Age(w) \in Nat /\ Age(w)' = Age(w) + 1 /\ Age(w)' > 1
    BY AgesGoOn
  <1>2. /\ Sounding' = IF st = "sounding" THEN Sounding \union {v} ELSE Sounding \ {v}
        /\ Dying' = IF st = "releasing" THEN Dying \union {v} ELSE Dying \ {v}
    BY <1>1 DEF Sounding, Dying, Voiced
  <1>3. Played' = Played \union {v}
    BY <1>2 DEF Played
  <1>4. \A w \in Played \ {v} : /\ w \in Voice \ {v} /\ voices'[w].step = StepOf[w]
                               /\ Age(w) \in Nat /\ Age(w)' = Age(w) + 1 /\ Age(w)' > 1
    BY <1>1 DEF Played, Sounding, Dying, Voiced, StepOf
  <1>5. StepOf' = [w \in Played \union {v} |-> IF w = v THEN s ELSE StepOf[w]]
    <2>1. \A w \in Played \union {v} : voices'[w].step = IF w = v THEN s ELSE StepOf[w]
      BY <1>1, <1>4
    <2>2. StepOf' = [w \in Played' |-> voices'[w].step]
      BY DEF StepOf
    <2>3. QED BY <1>3, <2>1, <2>2
  <1>6. Pool!Change(v)
    <2>1. Before' = {p \in Played' \X Played' : Age(p[1])' > Age(p[2])'}
      BY DEF Before
    <2>2. \A x, y \in Played' : Age(x)' > Age(y)' <=>
             x # v /\ (y = v \/ Age(x) > Age(y))
      <3>1. SUFFICES ASSUME NEW x \in Played', NEW y \in Played'
                     PROVE  Age(x)' > Age(y)' <=> x # v /\ (y = v \/ Age(x) > Age(y))
        OBVIOUS
      <3>2. CASE x = v
        BY <1>1, <1>3, <1>4, <3>2
      <3>3. CASE x # v /\ y = v
        BY <1>1, <1>3, <1>4, <3>3
      <3>4. CASE x # v /\ y # v
        BY <1>3, <1>4, <3>4
      <3>5. QED BY <3>2, <3>3, <3>4
    <2>3. \A x, y : <<x, y>> \in Before' <=>
             x \in Played' /\ y \in Played' /\ x # v /\ (y = v \/ Age(x) > Age(y))
      BY <2>1, <2>2
    <2> DEFINE later == {p \in Before : v \notin {p[1], p[2]}} \union ((Played \ {v}) \X {v})
    <2>4. \A x, y : <<x, y>> \in later <=> <<x, y>> \in Before'
      <3>1. \A x, y : <<x, y>> \in Before <=> x \in Played /\ y \in Played /\ Age(x) > Age(y)
        BY DEF Before
      <3>2. \A x, y : <<x, y>> \in later <=> \/ <<x, y>> \in Before /\ x # v /\ y # v
                                             \/ x \in Played /\ x # v /\ y = v
        OBVIOUS
      <3> HIDE DEF later
      <3>3. QED BY <1>3, <2>3, <3>1, <3>2
    <2>5. Before' \subseteq Played' \X Played' /\ later \subseteq Played' \X Played'
      BY <1>3, <2>1 DEF Before
    <2> HIDE DEF later
    <2>6. Before' = later
      BY <2>4, <2>5
    <2>7. QED BY <2>6 DEF later, Pool!Change, Pool!Playing, Played
  <1>7. QED BY <1>2, <1>5, <1>6

\* Older stamps come first in the pool.
LEMMA OldestIsFirst ==
  ASSUME Stamped, NEW S, S \subseteq Sounding \/ S \subseteq Dying, S # {}
  PROVE  Oldest(S) \in S /\ Pool!First(Oldest(S), S)
  <1>1. S \subseteq Playable /\ S \subseteq Played
    BY DEF Sounding, Dying, Voiced, Playable, Played
  <1>2. Oldest(S) \in S /\ \A w \in S : Age(w) <= Age(Oldest(S))
    BY <1>1, OldestExists
  <1>3. \A w \in S \ {Oldest(S)} : <<Oldest(S), w>> \in Before
    <2> SUFFICES ASSUME NEW w \in S \ {Oldest(S)} PROVE <<Oldest(S), w>> \in Before
      OBVIOUS
    <2>1. Age(w) \in Nat /\ Age(Oldest(S)) \in Nat /\ Age(w) # Age(Oldest(S))
      BY <1>1, <1>2, OlderIsAge
    <2>2. Age(w) <= Age(Oldest(S))
      BY <1>2
    <2>3. Age(Oldest(S)) > Age(w)
      BY <2>1, <2>2
    <2>4. QED BY <1>1, <1>2, <2>3 DEF Before
  <1>4. QED BY <1>2, <1>3 DEF Pool!First

LEMMA PoolUnchanged ==
  ASSUME UNCHANGED <<voices, tick>> PROVE UNCHANGED <<Sounding, Dying, StepOf, Before>>
  BY DEF Sounding, Dying, Played, StepOf, Before, Voiced, Age

LEMMA TakeInPool ==
  ASSUME Stamped, TicksInHalf, NEW v \in Voice, NEW s \in Nat, Take(v, s)
  PROVE  Pool!Start(v, s)
  <1>1. /\ Sounding' = Sounding \union {v} /\ Dying' = Dying \ {v}
        /\ StepOf' = [w \in Played \union {v} |-> IF w = v THEN s ELSE StepOf[w]]
        /\ Pool!Change(v)
    BY ChangeInPool DEF Take
  <1>2. QED BY <1>1 DEF Pool!Start, Pool!Playing, Played

LEMMA LetGoInPool ==
  ASSUME Stamped, TicksInHalf, NEW v \in Sounding, LetGo(v)
  PROVE  Pool!LetGo(v)
  <1>1. v \in Voice /\ voices[v].state = "sounding"
    BY DEF Sounding, Voiced
  <1>2. /\ voices[v].step \in Nat /\ StepOf[v] = voices[v].step /\ v \in Played
        /\ voices' = [voices EXCEPT ![v] =
                        [step |-> voices[v].step, state |-> "releasing", stamp |-> tick]]
        /\ tick' = Plus(tick, 1, TickMod)
    BY <1>1 DEF LetGo, Stamped, StepOf, Played
  <1>3. /\ Sounding' = Sounding \ {v} /\ Dying' = Dying \union {v}
        /\ StepOf' = [w \in Played \union {v} |-> IF w = v THEN voices[v].step ELSE StepOf[w]]
        /\ Pool!Change(v)
    BY <1>1, <1>2, ChangeInPool
  <1>4. StepOf' = StepOf
    BY <1>2, <1>3 DEF StepOf
  <1>5. QED BY <1>3, <1>4 DEF Pool!LetGo

\* A command applied is a step of the pool, or nothing to it.
LEMMA ApplyInPool ==
  ASSUME Stamped, TicksInHalf, NEW c \in Command, Said(c), c.op # "reset", Apply(c)
  PROVE  Pool!Next \/ UNCHANGED <<voices, tick>>
  <1> DEFINE v == Placed(c).voice
             s == c.value
             named == {d.voice : d \in Notes} \intersect Voice
             steps == {d.value : d \in Notes}
  <1>1. c.op \in {"note_on", "note_off"} => s \in steps /\ (c.voice \in Voice => c.voice \in named)
    BY DEF Said, Notes
  <1>2. CASE c.op = "note_on" /\ Emitted(c) # << >> /\ Take(v, s)
    <2>1. v \in Voice /\ s \in Nat
      BY <1>2, PlacedVoice DEF Command
    <2>2. Pool!Start(v, s)
      BY <1>2, <2>1, TakeInPool
    <2>3. CASE c.voice # VoiceAny
      <3>1. v = c.voice /\ v \in named /\ s \in steps
        BY <1>1, <1>2, <2>1, <2>3 DEF Placed
      <3>2. QED BY <2>2, <3>1 DEF Pool!Next, Pool!NoteOnAt
    <2>4. CASE c.voice = VoiceAny
      <3>1. v = Allocated
        BY <1>2, <2>4 DEF Placed, Command
      <3>2. Pool!Idle = Voiced("idle")
        BY DEF Pool!Idle, Pool!Playing, Sounding, Dying, Voiced, Stamped
      <3>3. CASE Voiced("idle") # {}
        <4>1. v \in Voiced("idle")
          BY <2>1, <3>1, <3>3, FirstFree
        <4>2. QED BY <1>1, <1>2, <2>2, <3>2, <4>1 DEF Pool!Next, Pool!NoteOn
      <3>4. CASE Voiced("idle") = {} /\ Dying # {}
        <4>1. v = Oldest(Dying)
          BY <3>1, <3>4 DEF Allocated, Dying
        <4>2. v \in Dying /\ Pool!First(v, Dying)
          BY <3>4, <4>1, OldestIsFirst
        <4>3. QED BY <1>1, <1>2, <2>2, <3>2, <3>4, <4>2 DEF Pool!Next, Pool!NoteOn
      <3>5. CASE Voiced("idle") = {} /\ Dying = {}
        <4>1. Sounding # {}
          <5>1. 0 \in Voice
            BY ControlAssumption DEF Voice
          <5>2. QED BY <3>5, <5>1 DEF Dying, Sounding, Voiced, Stamped
        <4>2. v = Oldest(Sounding)
          BY <3>1, <3>5 DEF Allocated, Dying, Sounding
        <4>3. v \in Sounding /\ Pool!First(v, Sounding)
          BY <4>1, <4>2, OldestIsFirst
        <4>4. QED BY <1>1, <1>2, <2>2, <3>2, <3>5, <4>3 DEF Pool!Next, Pool!NoteOn
      <3>6. QED BY <3>3, <3>4, <3>5
    <2>5. QED BY <2>3, <2>4
  <1>3. CASE c.op = "note_off" /\ Emitted(c) # << >> /\ LetGo(v)
    <2>1. v \in Voice
      BY <1>3, PlacedVoice
    <2>2. CASE v \notin Sounding
      BY <1>3, <2>1, <2>2 DEF LetGo, Sounding, Voiced
    <2>3. CASE v \in Sounding
      <3>1. Pool!LetGo(v)
        BY <1>3, <2>3, LetGoInPool
      <3>2. CASE c.voice # VoiceAny
        <4>1. v \in named
          BY <1>1, <1>3, <2>1, <3>2 DEF Placed
        <4>2. QED BY <2>3, <3>1, <4>1 DEF Pool!Next, Pool!NoteOffAt
      <3>3. CASE c.voice = VoiceAny
        <4>1. v = Found(s)
          BY <1>3, <3>3 DEF Placed, Command
        <4>2. Playing(s, "sounding") = {w \in Sounding : StepOf[w] = s}
          BY DEF Playing, Sounding, StepOf, Played
        <4>3. Playing(s, "sounding") # {}
          <5>1. Playing(s, "releasing") \intersect Sounding = {} /\ NoSuchVoice \notin Voice
            BY ControlAssumption DEF Playing, Sounding, Voiced, NoSuchVoice, Voice
          <5>2. Playing(s, "releasing") # {} => Oldest(Playing(s, "releasing")) \in Playing(s, "releasing")
            BY OldestIsFirst DEF Playing, Dying
          <5>3. QED BY <2>1, <2>3, <4>1, <5>1, <5>2 DEF Found
        <4>4. Pool!First(v, {w \in Sounding : StepOf[w] = s})
          <5>1. Playing(s, "sounding") \subseteq Sounding
            BY DEF Playing, Sounding
          <5>2. Pool!First(v, Playing(s, "sounding"))
            BY <4>1, <4>3, <5>1, OldestIsFirst DEF Found
          <5>3. QED BY <4>2, <5>2
        <4>5. QED BY <1>1, <1>3, <2>3, <3>1, <4>4 DEF Pool!Next, Pool!NoteOff
      <3>4. QED BY <3>2, <3>3
    <2>4. QED BY <2>2, <2>3
  <1>4. QED BY <1>2, <1>3 DEF Apply

LEMMA ResetInPool == ASSUME NEW c, ResetNow(c) PROVE Pool!Reset
  <1>1. Sounding' = {} /\ Dying' = {}
    BY DEF ResetNow, Sounding, Dying, Voiced, Blank
  <1>2. Played' = {}
    BY <1>1 DEF Played
  <1>3. StepOf' \in [{} -> {d.value : d \in Notes}] /\ Before' = {}
    BY <1>2 DEF StepOf, Before
  <1>4. QED BY <1>1, <1>3 DEF Pool!Reset

LEMMA InitInPool == Init => Pool!Init /\ FromHost
  <1> SUFFICES ASSUME Init PROVE Pool!Init /\ FromHost
    OBVIOUS
  <1>1. Sounding = {} /\ Dying = {}
    BY DEF Init, Sounding, Dying, Voiced, Blank
  <1>2. Played = {}
    BY <1>1 DEF Played
  <1>3. StepOf \in [{} -> {d.value : d \in Notes}] /\ Before = {}
    BY <1>2 DEF StepOf, Before
  <1>4. FromHost
    BY DEF Init, FromHost
  <1>5. QED BY <1>1, <1>3, <1>4 DEF Pool!Init

LEMMA NextInPool == ASSUME IInv, FromHost, [Next]_vars PROVE [Pool!Next]_(Pool!vars)
  <1>1. CASE UNCHANGED <<voices, tick>>
    BY <1>1, PoolUnchanged DEF Pool!vars
  <1>2. ASSUME NEW c \in Commands, Receive(c) PROVE [Pool!Next]_(Pool!vars)
    <2>1. c \in Command /\ Said(c)
      BY ControlAssumption DEF Said
    <2>2. CASE ResetNow(c)
      BY <2>2, ResetInPool DEF Pool!Next
    <2>3. CASE ApplyNow(c)
      BY <1>1, <2>1, <2>3, ApplyInPool DEF ApplyNow, IInv
    <2>4. QED BY <1>1, <1>2, <2>2, <2>3 DEF Receive, ClearSchedule, Hold
  <1>3. CASE DispatchNext
    <2> DEFINE e == Head(events)
               c == [e.command EXCEPT !.delay = DelayTo(e.time)]
    <2>1. events # << >> /\ events \in Seq(Event)
      BY <1>3 DEF DispatchNext, MoreDue, IInv, Types
    <2>2. e = events[1] /\ 1 \in 1 .. Len(events) /\ e \in Event
      BY <2>1, HeadTailProperties, EmptySeq
    <2>3. Said(e.command) /\ e.command.op # "reset" /\ e.command \in Command
      BY <2>2 DEF FromHost, Event
    <2>4. DelayTo(e.time) \in Delay
      <3>1. Rel(e.time) \in -MaxAhead .. MaxAhead /\ Rel(e.time) <= Window /\ e.time \in Time
        BY <1>3, <2>2 DEF IInv, InSight, DispatchNext, MoreDue, Rel, Event
      <3>2. Rel(e.time) \in -MaxAhead .. Window
        BY <3>1, TimeFacts
      <3>3. QED BY <3>1, <3>2, Landing DEF IInv
    <2>5. c \in Command /\ Said(c) /\ c.op # "reset"
      BY <2>3, <2>4 DEF Command, Said
    <2>6. TicksInHalf /\ Apply(c)
      BY <1>3 DEF DispatchNext
    <2> HIDE DEF c
    <2>7. QED BY <1>1, <2>5, <2>6, ApplyInPool DEF IInv
  <1>4. QED BY <1>1, <1>2, <1>3 DEF Next, ScheduleAt, CallDispatch, EndDispatch, EmitOne, vars

\* Whatever comes, at once or through the schedule, and however the ticks wrap,
\* the shadow is the pool of voices that VoicePool promises (control.c 42-160).
THEOREM AlwaysAPool == Spec => IsVoicePool
  <1>1. Spec => []FromHost
    <2>1. Init => FromHost
      BY InitInPool
    <2>2. IInv /\ FromHost /\ [Next]_vars => FromHost'
      BY StillFromHost
    <2>3. QED BY <2>1, <2>2, IInvAlways, PTL DEF Spec
  <1>2. Init => Pool!Init
    BY InitInPool
  <1>3. IInv /\ FromHost /\ [Next]_vars => [Pool!Next]_(Pool!vars)
    BY NextInPool
  <1>4. QED BY <1>1, <1>2, <1>3, IInvAlways, PTL DEF Spec, Pool!Spec, IsVoicePool

-----------------------------------------------------------------------------
\* How old the sample count of the last dispatch is: never older than the run.
Lag == Minus(Count, now, TimeMod)
Recent == /\ now \in Time
          /\ samples \in 0 .. Horizon
          /\ Lag \in 0 .. samples

LEMMA PathFacts == /\ Epoch \in 0 .. TimeMod - 1 /\ TimeMod \in Nat /\ Horizon \in Nat /\ MaxPass \in Nat
                   /\ Horizon <= MaxPass /\ 2 * MaxPass < TimeMod
                   /\ MaxAhead \in Nat /\ MaxDelay \in Nat
  BY ControlAssumption, PathAssumption DEF Time

LEMMA InitRecent == PathInit => Recent
  BY PathFacts DEF PathInit, Recent, Lag, Count, Plus, Minus, Time

\* A dispatch goes no further than the count, so its call is one of Control's.
LEMMA DispatchIsACall ==
  ASSUME Recent, Dispatch
  PROVE  /\ Recent'
         /\ \E k \in 0 .. MaxPass : CallDispatch(k)
  <1>1. PICK k \in {Lag - 1, Lag} : k >= 0 /\ CallDispatch(k)
    BY DEF Dispatch, Lag
  <1>2. Lag \in Int /\ k \in 0 .. Lag /\ k \in 0 .. MaxPass /\ samples \in 0 .. Horizon
    BY <1>1, PathFacts DEF Recent
  <1>3. now' = Plus(now, k, TimeMod) /\ samples' = samples
    BY <1>1 DEF CallDispatch, Dispatch, engine
  <1>4. now' \in Time /\ Lag' = Lag - k
    BY <1>2, <1>3, PathFacts DEF Recent, Lag, Count, Plus, Minus, Time
  <1>5. Recent'
    BY <1>2, <1>3, <1>4 DEF Recent
  <1>6. QED BY <1>1, <1>2, <1>5

LEMMA SampleKeeps == ASSUME Recent, Sample PROVE Recent'
  <1>1. samples' = samples + 1 /\ samples + 1 <= Horizon /\ now' = now
    BY PathFacts DEF Sample, Recent, vars
  <1>2. Lag' = Lag + 1
    BY <1>1, PathFacts DEF Recent, Lag, Count, Plus, Minus, Time
  <1>3. QED BY <1>1, <1>2, PathFacts DEF Recent

\* Every step of the path is a step of Control or none.
LEMMA PathSteps ==
  ASSUME Recent, [PathNext]_allVars
  PROVE  Recent' /\ [Next]_vars
  <1>1. ASSUME UNCHANGED <<now, samples>> PROVE Recent'
    BY <1>1 DEF Recent, Lag, Count
  <1>2. ASSUME NEW c \in Commands, Hear(c) PROVE Recent' /\ Next
    BY <1>1, <1>2 DEF Hear, Receive, engine, Next
  <1>3. ASSUME NEW k \in Offsets, Anchor(k) PROVE Recent' /\ Next
    BY <1>1, <1>3 DEF Anchor, ScheduleAt, engine, Next
  <1>4. CASE Dispatch
    BY <1>4, DispatchIsACall DEF Next
  <1>5. CASE Turn
    BY <1>1, <1>5 DEF Turn, DispatchNext, engine, Next
  <1>6. CASE Return
    BY <1>1, <1>6 DEF Return, EndDispatch, engine, Next
  <1>7. CASE PushWord
    BY <1>1, <1>7 DEF PushWord, EmitOne, Next
  <1>8. CASE Sample
    BY <1>8, SampleKeeps DEF Sample
  <1>9. CASE UNCHANGED allVars
    BY <1>1, <1>9 DEF allVars, vars, engine
  <1>10. QED BY <1>2, <1>3, <1>4, <1>5, <1>6, <1>7, <1>8, <1>9 DEF PathNext

\* The firmware on the whole path is the Control of the proofs: a stalled push
\* or a sample in the middle of anything is a stutter to it, and a dispatch
\* never looks further than a pass from the one before (main.c 48-135).
THEOREM PathIsControl == PathSpec => IsControl
  <1>1. PathInit => Init /\ Recent
    BY InitRecent DEF PathInit
  <1>2. QED BY <1>1, PathSteps, PTL DEF PathSpec, IsControl, Spec

\* Neither the ring nor the caller's array is overrun while pushes stall
\* (control.h 55-58, control.c 230-248 and 285-328).
THEOREM PathNeverOverruns == PathSpec => []NoOverrun
  BY PathIsControl, NeverOverrun, PTL DEF IsControl

\* The schedule stays in the order of its times while samples go by and the
\* count wraps (control.c 227-248).
THEOREM PathInOrder == PathSpec => []ScheduleInOrder
  BY PathIsControl, AlwaysInOrder, PTL DEF IsControl

\* The landing the firmware reckons with is never further ahead of the last
\* dispatch than a window, however pushes stall and samples fall (control.c
\* 301-325).
THEOREM PathWithinWindow == PathSpec => []ChainWithinWindow
  BY PathIsControl, NeverBeyondWindow, PTL DEF IsControl

\* The shadow stays a pool of voices while pushes stall and the commands wait
\* in the FIFO (control.c 42-160).
THEOREM PathIsAPool == PathSpec => IsVoicePool
  BY PathIsControl, AlwaysAPool DEF IsControl

-----------------------------------------------------------------------------
\* The words under way as one sequence, whichever register holds them.
VoiceState == [state : {"idle", "sounding", "releasing"}, step : Nat]

PathTypes == /\ valid \in BOOLEAN /\ wait \in Nat /\ samples \in Nat
             /\ fifo \in Seq(Command) /\ (valid => holding \in Command)
             /\ told \in [Voice -> VoiceState]
             /\ meant \in Seq(Time \union {AtOnce}) /\ Len(meant) = Len(UnderWay)

Behind == fifo \o out

LEMMA Cons ==
  ASSUME NEW S, NEW x \in S, NEW s \in Seq(S)
  PROVE  /\ <<x>> \o s \in Seq(S) /\ Len(<<x>> \o s) = Len(s) + 1 /\ Len(s) \in Nat
         /\ (<<x>> \o s)[1] = x /\ Head(<<x>> \o s) = x /\ Tail(<<x>> \o s) = s
         /\ \A i \in 1 .. Len(s) : (<<x>> \o s)[i + 1] = s[i]
  <1> DEFINE t == <<x>> \o s
  <1>1. <<x>> \in Seq(S) /\ Len(<<x>>) = 1 /\ <<x>>[1] = x
    OBVIOUS
  <1>2. /\ t \in Seq(S) /\ Len(t) = Len(s) + 1 /\ Len(s) \in Nat
        /\ \A i \in 1 .. Len(t) : t[i] = IF i <= 1 THEN <<x>>[i] ELSE s[i - 1]
    BY <1>1, ConcatProperties, LenProperties
  <1>3. t[1] = x /\ \A i \in 1 .. Len(s) : t[i + 1] = s[i]
    BY <1>1, <1>2
  <1> HIDE DEF t
  <1>4. t # << >>
    BY <1>2, EmptySeq
  <1>5. /\ Head(t) = t[1] /\ Tail(t) \in Seq(S) /\ Len(Tail(t)) = Len(s)
        /\ \A i \in 1 .. Len(s) : Tail(t)[i] = t[i + 1]
    BY <1>2, <1>4, HeadTailProperties
  <1>6. Tail(t) = s
    BY <1>3, <1>5, SeqEqual
  <1>7. QED BY <1>2, <1>3, <1>5, <1>6 DEF t

LEMMA Joined ==
  ASSUME NEW S, NEW a \in Seq(S), NEW b \in Seq(S), NEW c, c = a \o b
  PROVE  /\ c \in Seq(S) /\ Len(c) = Len(a) + Len(b) /\ Len(a) \in Nat /\ Len(b) \in Nat
         /\ \A i \in 1 .. Len(a) + Len(b) : c[i] = IF i <= Len(a) THEN a[i] ELSE b[i - Len(a)]
  BY ConcatProperties, LenProperties

LEMMA Uncons ==
  ASSUME NEW S, NEW s \in Seq(S), s # << >>
  PROVE  Head(s) \in S /\ Tail(s) \in Seq(S) /\ s = <<Head(s)>> \o Tail(s)
  <1>1. /\ Head(s) \in S /\ Head(s) = s[1] /\ Tail(s) \in Seq(S) /\ Len(Tail(s)) = Len(s) - 1
        /\ Len(s) \in Nat /\ \A i \in 1 .. Len(s) - 1 : Tail(s)[i] = s[i + 1]
    BY HeadTailProperties, LenProperties
  <1> DEFINE t == <<Head(s)>> \o Tail(s)
  <1>2. /\ t \in Seq(S) /\ Len(t) = Len(s) /\ t[1] = s[1]
        /\ \A i \in 1 .. Len(s) - 1 : t[i + 1] = s[i + 1]
    BY <1>1, Cons
  <1> HIDE DEF t
  <1>3. \A i \in 1 .. Len(s) : t[i] = s[i]
    <2> SUFFICES ASSUME NEW i \in 1 .. Len(s) PROVE t[i] = s[i]
      OBVIOUS
    <2>1. CASE i = 1
      BY <1>2, <2>1
    <2>2. CASE i # 1
      <3>1. i - 1 \in 1 .. Len(s) - 1 /\ (i - 1) + 1 = i
        BY <1>1, <2>2
      <3>2. t[(i - 1) + 1] = s[(i - 1) + 1]
        BY <1>2, <3>1
      <3>3. QED BY <3>1, <3>2
    <2>3. QED BY <2>1, <2>2
  <1>4. t = s
    BY <1>2, <1>3, SeqEqual
  <1>5. QED BY <1>1, <1>4 DEF t

LEMMA WordsShape ==
  ASSUME PathTypes, out \in Seq(Command)
  PROVE  /\ UnderWay \in Seq(Command) /\ Behind \in Seq(Command) /\ Len(UnderWay) \in Nat
         /\ UnderWay = IF valid THEN <<holding>> \o Behind ELSE Behind
  <1>1. fifo \in Seq(Command) /\ (valid => holding \in Command /\ <<holding>> \in Seq(Command))
    BY DEF PathTypes
  <1>2. Behind \in Seq(Command)
    BY <1>1, ConcatProperties DEF Behind
  <1>3. CASE valid
    <2>1. UnderWay = (<<holding>> \o fifo) \o out
      BY <1>3 DEF UnderWay
    <2>2. UnderWay = <<holding>> \o Behind
      BY <1>1, <1>3, <2>1, ConcatAssociative DEF Behind
    <2>3. QED BY <1>1, <1>2, <1>3, <2>2, Cons, LenProperties
  <1>4. CASE ~valid
    <2>1. UnderWay = Behind
      BY <1>1, <1>4, ConcatEmptySeq DEF UnderWay, Behind
    <2>2. QED BY <1>2, <1>4, <2>1, LenProperties
  <1>5. QED BY <1>3, <1>4

\* A push moves a word along; the words and their order stay.
LEMMA PushKeepsWords ==
  ASSUME PathTypes, out \in Seq(Command), PushWord
  PROVE  UnderWay' = UnderWay /\ fifo' \in Seq(Command)
  <1>1. /\ out # << >> /\ out' = Tail(out) /\ fifo' = Append(fifo, Head(out))
        /\ valid' = valid /\ holding' = holding /\ fifo \in Seq(Command)
    BY DEF PushWord, EmitOne, PathTypes
  <1>2. Head(out) \in Command /\ Tail(out) \in Seq(Command) /\ out = <<Head(out)>> \o Tail(out)
    BY <1>1, Uncons
  <1>3. <<Head(out)>> \in Seq(Command) /\ fifo' = fifo \o <<Head(out)>>
    BY <1>1, <1>2, AppendIsConcat
  <1>4. fifo' \in Seq(Command)
    BY <1>1, <1>3, ConcatProperties
  <1>5. Behind' = Behind
    <2>1. Behind' = (fifo \o <<Head(out)>>) \o Tail(out)
      BY <1>1, <1>3 DEF Behind
    <2>2. (fifo \o <<Head(out)>>) \o Tail(out) = fifo \o (<<Head(out)>> \o Tail(out))
      BY <1>1, <1>2, <1>3, ConcatAssociative
    <2>3. QED BY <1>2, <2>1, <2>2 DEF Behind
  <1>6. UnderWay = IF valid THEN <<holding>> \o Behind ELSE Behind
    BY WordsShape
  <1>7. UnderWay' = IF valid' THEN <<holding'>> \o Behind' ELSE Behind'
    <2> DEFINE V == IF valid' THEN <<holding'>> ELSE << >>
    <2>1. UnderWay' = (V \o fifo') \o out'
      BY DEF UnderWay
    <2>2. V \in Seq(Command) /\ out' \in Seq(Command)
      BY <1>1, <1>2 DEF PathTypes
    <2> HIDE DEF V
    <2>3. (V \o fifo') \o out' = V \o (fifo' \o out')
      BY <1>4, <2>2, ConcatAssociative
    <2>4. Behind' = fifo' \o out' /\ fifo' \o out' \in Seq(Command)
      BY <1>4, <2>2, ConcatProperties DEF Behind
    <2>5. UnderWay' = V \o Behind' /\ Behind' \in Seq(Command)
      BY <2>1, <2>3, <2>4
    <2>6. QED BY <2>5, ConcatEmptySeq DEF V
  <1>8. QED BY <1>1, <1>4, <1>5, <1>6, <1>7

\* A sample takes the first word away when it lands, and leaves them otherwise.
LEMMA SampleWords ==
  ASSUME PathTypes, out \in Seq(Command), Sample
  PROVE  /\ UnderWay' = IF Lands THEN Behind ELSE UnderWay
         /\ Lands => UnderWay = <<holding>> \o Behind
         /\ fifo' \in Seq(Command) /\ valid' \in BOOLEAN /\ wait' \in Nat /\ (valid' => holding' \in Command)
         /\ valid /\ ~Lands => valid' /\ holding' = holding /\ wait' = wait - 1
         /\ ~(valid /\ ~Lands) /\ valid' =>
              /\ Behind # << >> /\ holding' = Behind[1]
              /\ wait' = IF Behind[1].delay = 0 THEN 0 ELSE Behind[1].delay - 1
  <1>1. /\ out' = out /\ fifo \in Seq(Command) /\ valid \in BOOLEAN /\ wait \in Nat
        /\ (valid => holding \in Command) /\ (Lands <=> valid /\ wait = 0)
    BY DEF Sample, vars, PathTypes, Lands
  <1>2. /\ Behind \in Seq(Command)
        /\ UnderWay = IF valid THEN <<holding>> \o Behind ELSE Behind
    BY WordsShape
  <1>3. CASE valid /\ ~Lands
    <2>1. wait' = wait - 1 /\ fifo' = fifo /\ holding' = holding /\ valid' = valid
      BY <1>3 DEF Sample
    <2>2. UnderWay' = UnderWay
      BY <1>1, <2>1 DEF UnderWay
    <2>3. QED BY <1>1, <1>3, <2>1, <2>2
  <1>4. CASE ~(valid /\ ~Lands) /\ fifo # << >>
    <2>1. /\ holding' = Head(fifo) /\ fifo' = Tail(fifo) /\ valid' = TRUE
          /\ wait' = IF Head(fifo).delay = 0 THEN 0 ELSE Head(fifo).delay - 1
      BY <1>4 DEF Sample, Fetch
    <2>2. Head(fifo) \in Command /\ Tail(fifo) \in Seq(Command) /\ fifo = <<Head(fifo)>> \o Tail(fifo)
      BY <1>1, <1>4, Uncons
    <2>3. UnderWay' = (<<Head(fifo)>> \o Tail(fifo)) \o out
      BY <1>1, <2>1 DEF UnderWay
    <2>4. UnderWay' = Behind
      BY <2>2, <2>3 DEF Behind
    <2>5. Behind = <<Head(fifo)>> \o (Tail(fifo) \o out)
      BY <1>1, <2>2, ConcatAssociative DEF Behind
    <2>6. Behind[1] = Head(fifo) /\ Behind # << >>
      <3>1. Tail(fifo) \o out \in Seq(Command)
        BY <2>2, ConcatProperties
      <3>2. Behind[1] = Head(fifo) /\ Len(Behind) = Len(Tail(fifo) \o out) + 1 /\ Len(Tail(fifo) \o out) \in Nat
        BY <2>2, <2>5, <3>1, Cons
      <3>3. QED BY <3>2, EmptySeq
    <2>7. wait' \in Nat
      BY <2>1, <2>2 DEF Command, Delay
    <2>8. Lands => UnderWay = <<holding>> \o Behind
      BY <1>1, <1>2
    <2>9. UnderWay' = IF Lands THEN Behind ELSE UnderWay
      BY <1>1, <1>2, <1>4, <2>4
    <2>10. QED BY <1>4, <2>1, <2>2, <2>6, <2>7, <2>8, <2>9
  <1>5. CASE ~(valid /\ ~Lands) /\ fifo = << >>
    <2>1. holding' = holding /\ fifo' = fifo /\ valid' = FALSE /\ wait' = wait
      BY <1>5 DEF Sample, Fetch
    <2>2. Behind = out
      BY <1>5, ConcatEmptySeq DEF Behind
    <2>3. UnderWay' = out
      <3>1. UnderWay' = (<< >> \o << >>) \o out
        BY <1>1, <1>5, <2>1 DEF UnderWay
      <3>2. << >> \in Seq(Command)
        BY EmptySeq
      <3>3. QED BY <3>1, <3>2, ConcatEmptySeq
    <2>4. UnderWay' = IF Lands THEN Behind ELSE UnderWay
      BY <1>1, <1>2, <1>5, <2>2, <2>3
    <2>5. QED BY <1>1, <1>2, <1>5, <2>1, <2>4
  <1>6. QED BY <1>3, <1>4, <1>5

\* Words handed back go behind all the others.
LEMMA MoreWords ==
  ASSUME PathTypes, out \in Seq(Command), NEW E \in Seq(Command), out' = out \o E,
         UNCHANGED <<fifo, holding, valid>>
  PROVE  UnderWay' = UnderWay \o E
  <1> DEFINE V == IF valid THEN <<holding>> ELSE << >>
  <1>1. V \in Seq(Command) /\ fifo \in Seq(Command)
    BY DEF PathTypes
  <1>2. V \o fifo \in Seq(Command) /\ UnderWay = (V \o fifo) \o out
    BY <1>1, ConcatProperties DEF UnderWay
  <1>3. UnderWay' = (V \o fifo) \o (out \o E)
    BY DEF UnderWay
  <1> HIDE DEF V
  <1> DEFINE W == V \o fifo
  <1>4. W \in Seq(Command) /\ UnderWay = W \o out /\ UnderWay' = W \o (out \o E)
    BY <1>2, <1>3
  <1> HIDE DEF W
  <1>5. (W \o out) \o E = W \o (out \o E)
    BY <1>4, ConcatAssociative
  <1>6. QED BY <1>4, <1>5

-----------------------------------------------------------------------------
\* Times as samples since the firmware started.  A landing is reckoned by a
\* lower bound L[i] on the sample the i-th word under way lands at: a word takes
\* its delay and at least a sample, after the word before it has landed.
Abs(t) == Minus(t, Epoch, TimeMod)
Span(w) == IF w.delay = 0 THEN 1 ELSE w.delay
HeadAt == samples + IF valid THEN wait ELSE Span(UnderWay[1])

Reckons(L, U, M, head) ==
  /\ L \in [1 .. Len(U) -> Int]
  /\ \A i \in 1 .. Len(U) : M[i] # AtOnce => Abs(M[i]) <= L[i]
  /\ Len(U) > 0 => L[1] <= head
  /\ \A i \in 1 .. Len(U) - 1 : L[i + 1] <= L[i] + Span(U[i + 1])

\* What the firmware takes for the last landing is no later than that landing.
ChainLands(L) == chained => IF Len(UnderWay) = 0 THEN Abs(chain) < samples
                            ELSE Abs(chain) <= L[Len(UnderWay)]

MeantNear == \A i \in 1 .. Len(meant) :
               meant[i] # AtOnce => Abs(meant[i]) \in -MaxAhead .. MaxAhead + MaxPass

Timely == \E L : Reckons(L, UnderWay, meant, HeadAt) /\ ChainLands(L)

LEMMA SpanType == \A w \in Command : Span(w) \in Nat /\ Span(w) > 0 /\ Span(w) >= w.delay /\ w.delay \in Nat
  BY DEF Span, Command, Delay

LEMMA NowAbs ==
  ASSUME Recent
  PROVE  /\ Abs(now) = samples - Lag /\ Abs(now) \in 0 .. samples /\ samples \in 0 .. Horizon /\ now \in Time
         /\ Lag \in 0 .. samples
  BY PathFacts DEF Recent, Lag, Abs, Count, Plus, Minus, Time

\* What is in reach of the last dispatch keeps its distance from the start.
LEMMA ReachAbs ==
  ASSUME Recent, NEW t \in Time, Rel(t) \in -MaxAhead .. MaxAhead
  PROVE  Abs(t) = Abs(now) + Rel(t) /\ Abs(t) \in -MaxAhead .. MaxAhead + MaxPass
  <1>1. Abs(now) \in 0 .. samples /\ samples \in 0 .. Horizon /\ now \in Time
    BY NowAbs
  <1>2. 2 * (MaxAhead + MaxPass) < TimeMod /\ Horizon <= MaxPass /\ MaxPass \in Nat /\ Horizon \in Nat
    BY TimeFacts, PathFacts
  <1>3. Abs(t) = Abs(now) + Rel(t)
    BY <1>1, <1>2, PathFacts DEF Rel, Abs, Minus, Time
  <1>4. QED BY <1>1, <1>2, <1>3, PathFacts

\* A sample that is over is later than a time counted up to before it.
LEMMA LandedIsPast ==
  ASSUME Recent, samples + 1 <= Horizon, samples' = samples + 1, NEW t \in Time,
         Abs(t) \in -MaxAhead .. MaxAhead + MaxPass, Abs(t) <= samples
  PROVE  Minus(Count', t, TimeMod) > 0
  <1>1. samples \in 0 .. Horizon
    BY NowAbs
  <1>2. /\ 2 * (MaxAhead + MaxPass) < TimeMod /\ Horizon <= MaxPass /\ MaxPass \in Nat /\ Horizon \in Nat
        /\ MaxAhead \in Nat /\ Epoch \in 0 .. TimeMod - 1 /\ TimeMod \in Nat
    BY TimeFacts, PathFacts
  <1>3. Count' = Plus(Epoch, samples + 1, TimeMod) /\ samples + 1 \in 0 .. Horizon
    BY <1>1, <1>2 DEF Count
  <1>4. Minus(Plus(Epoch, samples + 1, TimeMod), t, TimeMod) = samples + 1 - Abs(t)
    BY <1>1, <1>2, <1>3 DEF Abs, Minus, Plus, Time
  <1>5. QED BY <1>1, <1>3, <1>4, <1>2

\* A word lands at this sample at the earliest, whatever was reckoned.
LEMMA RaiseReckoning ==
  ASSUME NEW U \in Seq(Command), NEW M, NEW L, NEW head \in Int, Reckons(L, U, M, head),
         samples \in Nat, samples <= head, \A i \in 1 .. Len(U) : M[i] # AtOnce => Abs(M[i]) \in Int
  PROVE  \E R : /\ Reckons(R, U, M, head)
                /\ \A i \in 1 .. Len(U) : R[i] >= L[i] /\ R[i] >= samples
  <1> DEFINE R == [i \in 1 .. Len(U) |-> IF L[i] >= samples THEN L[i] ELSE samples]
  <1>1. Len(U) \in Nat /\ L \in [1 .. Len(U) -> Int]
    BY LenProperties DEF Reckons
  <1>2. R \in [1 .. Len(U) -> Int] /\ \A i \in 1 .. Len(U) : R[i] >= L[i] /\ R[i] >= samples /\ L[i] \in Int
    BY <1>1
  <1>3. \A i \in 1 .. Len(U) : M[i] # AtOnce => Abs(M[i]) <= R[i]
    BY <1>1, <1>2 DEF Reckons
  <1>4. Len(U) > 0 => R[1] <= head
    BY <1>1 DEF Reckons
  <1>5. \A i \in 1 .. Len(U) - 1 : R[i + 1] <= R[i] + Span(U[i + 1])
    <2> SUFFICES ASSUME NEW i \in 1 .. Len(U) - 1 PROVE R[i + 1] <= R[i] + Span(U[i + 1])
      OBVIOUS
    <2>1. i \in 1 .. Len(U) /\ i + 1 \in 1 .. Len(U)
      BY <1>1
    <2>2. U[i + 1] \in Command
      BY <2>1, ElementOfSeq
    <2>3. Span(U[i + 1]) \in Nat /\ L[i] \in Int /\ L[i + 1] \in Int /\ L[i + 1] <= L[i] + Span(U[i + 1])
      BY <1>1, <2>1, <2>2, SpanType DEF Reckons
    <2>4. QED BY <2>1, <2>3
  <1> HIDE DEF R
  <1>6. Reckons(R, U, M, head)
    BY <1>2, <1>3, <1>4, <1>5 DEF Reckons
  <1>7. QED BY <1>2, <1>6

\* The words V meant for W are the words U meant for M with more behind, which
\* land from x on.
Extends(U, M, L, head, V, W, x, after) ==
  /\ Len(U) < Len(V) /\ \A i \in 1 .. Len(U) : V[i] = U[i] /\ W[i] = M[i]
  /\ \A i \in Len(U) + 1 .. Len(V) : W[i] # AtOnce => Abs(W[i]) <= x
  /\ Len(U) > 0 => x <= L[Len(U)] + Span(V[Len(U) + 1]) /\ after = head
  /\ Len(U) = 0 => x <= after

LEMMA ExtendReckoning ==
  ASSUME NEW U \in Seq(Command), NEW V \in Seq(Command), NEW M, NEW W, NEW L,
         NEW head \in Int, NEW after \in Int, NEW x \in Int,
         Reckons(L, U, M, head), Extends(U, M, L, head, V, W, x, after)
  PROVE  \E R : Reckons(R, V, W, after) /\ R[Len(V)] = x
  <1> USE DEF Extends
  <1>1. PICK n \in Nat, m \in Nat : n = Len(U) /\ m = Len(V) /\ n < m
    BY LenProperties
  <1> DEFINE R == [i \in 1 .. m |-> IF i <= n THEN L[i] ELSE x]
  <1>2. L \in [1 .. n -> Int]
    BY <1>1 DEF Reckons
  <1>3. R \in [1 .. m -> Int] /\ \A i \in 1 .. m : R[i] = IF i <= n THEN L[i] ELSE x
    BY <1>1, <1>2
  <1> HIDE DEF R
  <1>4. \A i \in 1 .. m : W[i] # AtOnce => Abs(W[i]) <= R[i]
    <2> SUFFICES ASSUME NEW i \in 1 .. m, W[i] # AtOnce PROVE Abs(W[i]) <= R[i]
      OBVIOUS
    <2>1. CASE i <= n
      <3>1. i \in 1 .. n /\ W[i] = M[i] /\ R[i] = L[i]
        BY <1>1, <1>3, <2>1
      <3>2. QED BY <1>1, <3>1 DEF Reckons
    <2>2. CASE i > n
      <3>1. i \in Len(U) + 1 .. Len(V) /\ R[i] = x
        BY <1>1, <1>3, <2>2
      <3>2. QED BY <3>1
    <2>3. QED BY <1>1, <2>1, <2>2
  <1>5. R[1] <= after
    <2>1. CASE n = 0
      <3>1. R[1] = x
        BY <1>1, <1>3, <2>1
      <3>2. QED BY <1>1, <2>1, <3>1
    <2>2. CASE n > 0
      <3>1. R[1] = L[1] /\ L[1] <= head
        BY <1>1, <1>3, <2>2 DEF Reckons
      <3>2. QED BY <1>1, <2>2, <3>1
    <2>3. QED BY <1>1, <2>1, <2>2
  <1>6. \A i \in 1 .. m - 1 : R[i + 1] <= R[i] + Span(V[i + 1])
    <2> SUFFICES ASSUME NEW i \in 1 .. m - 1 PROVE R[i + 1] <= R[i] + Span(V[i + 1])
      OBVIOUS
    <2>1. i \in 1 .. m /\ i + 1 \in 1 .. m
      BY <1>1
    <2>2. CASE i + 1 <= n
      <3>1. i \in 1 .. n - 1 /\ R[i] = L[i] /\ R[i + 1] = L[i + 1] /\ V[i + 1] = U[i + 1]
        BY <1>1, <1>3, <2>1, <2>2
      <3>2. QED BY <1>1, <3>1 DEF Reckons
    <2>3. CASE i = n
      <3>1. R[i] = L[n] /\ R[i + 1] = x /\ n > 0
        BY <1>1, <1>3, <2>1, <2>3
      <3>2. QED BY <1>1, <2>3, <3>1
    <2>4. CASE i > n
      <3>1. R[i] = x /\ R[i + 1] = x
        BY <1>1, <1>3, <2>1, <2>4
      <3>2. V[i + 1] \in Command
        BY <1>1, <2>1, ElementOfSeq
      <3>3. Span(V[i + 1]) \in Nat
        BY <3>2, SpanType
      <3>4. x <= x + Span(V[i + 1])
        BY <3>3
      <3>5. QED BY <3>1, <3>4
    <2>5. QED BY <1>1, <2>2, <2>3, <2>4
  <1>7. Reckons(R, V, W, after)
    BY <1>1, <1>3, <1>4, <1>5, <1>6 DEF Reckons
  <1>8. R[Len(V)] = x
    BY <1>1, <1>3
  <1>9. QED BY <1>7, <1>8

\* The first of the words behind is the next to land.
Follows(U, B, M, head, after) ==
  /\ Len(U) = Len(B) + 1 /\ Len(M) = Len(U) /\ \A i \in 1 .. Len(B) : U[i + 1] = B[i]
  /\ Len(B) > 0 => after >= head + Span(B[1])

LEMMA ShortenReckoning ==
  ASSUME NEW B \in Seq(Command), NEW U \in Seq(Command), NEW M \in Seq(Time \union {AtOnce}), NEW L,
         NEW head \in Int, NEW after \in Int, Reckons(L, U, M, head), Follows(U, B, M, head, after)
  PROVE  \E R : /\ Reckons(R, B, Tail(M), after)
                /\ Len(B) > 0 => R[Len(B)] = L[Len(U)]
  <1> USE DEF Follows
  <1>1. PICK n \in Nat : n = Len(B) /\ Len(U) = n + 1 /\ Len(M) = n + 1
    BY LenProperties
  <1>2. L \in [1 .. n + 1 -> Int] /\ L[1] <= head
    BY <1>1 DEF Reckons
  <1> DEFINE R == [i \in 1 .. n |-> L[i + 1]]
  <1>3. R \in [1 .. n -> Int] /\ \A i \in 1 .. n : R[i] = L[i + 1]
    BY <1>2
  <1> HIDE DEF R
  <1>4. PICK T : T = Tail(M) /\ \A i \in 1 .. n : T[i] = M[i + 1]
    <2>1. M # << >>
      BY <1>1, EmptySeq
    <2>2. PICK T : T = Tail(M)
      OBVIOUS
    <2>3. Len(T) = Len(M) - 1 /\ \A i \in 1 .. Len(T) : T[i] = M[i + 1]
      BY <2>1, <2>2, HeadTailProperties
    <2>4. Len(T) = n
      BY <1>1, <2>3
    <2>5. QED BY <2>2, <2>3, <2>4
  <1>5. \A i \in 1 .. n : T[i] # AtOnce => Abs(T[i]) <= R[i]
    <2> SUFFICES ASSUME NEW i \in 1 .. n, T[i] # AtOnce PROVE Abs(T[i]) <= R[i]
      OBVIOUS
    <2>1. i + 1 \in 1 .. Len(U) /\ T[i] = M[i + 1] /\ R[i] = L[i + 1]
      BY <1>1, <1>3, <1>4
    <2>2. QED BY <2>1 DEF Reckons
  <1>6. \A i \in 1 .. n : L[i + 1] <= L[i] + Span(B[i])
    <2> SUFFICES ASSUME NEW i \in 1 .. n PROVE L[i + 1] <= L[i] + Span(B[i])
      OBVIOUS
    <2>1. i \in 1 .. Len(U) - 1 /\ U[i + 1] = B[i]
      BY <1>1
    <2>2. QED BY <2>1 DEF Reckons
  <1>7. n > 0 => R[1] <= after
    <2> SUFFICES ASSUME n > 0 PROVE R[1] <= after
      OBVIOUS
    <2>1. R[1] = L[2] /\ L[2] <= L[1] + Span(B[1]) /\ L[1] \in Int /\ L[2] \in Int
      BY <1>2, <1>3, <1>6
    <2>2. B[1] \in Command
      BY <1>1, ElementOfSeq
    <2>3. Span(B[1]) \in Nat /\ after >= head + Span(B[1])
      BY <1>1, <2>2, SpanType
    <2>4. QED BY <1>2, <2>1, <2>3
  <1>8. \A i \in 1 .. n - 1 : R[i + 1] <= R[i] + Span(B[i + 1])
    <2> SUFFICES ASSUME NEW i \in 1 .. n - 1 PROVE R[i + 1] <= R[i] + Span(B[i + 1])
      OBVIOUS
    <2>1. i + 1 \in 1 .. n /\ i \in 1 .. n
      OBVIOUS
    <2>2. QED BY <1>3, <1>6, <2>1
  <1>9. Reckons(R, B, T, after)
    BY <1>1, <1>3, <1>5, <1>7, <1>8 DEF Reckons
  <1>10. n > 0 => R[n] = L[n + 1]
    BY <1>3
  <1>11. QED BY <1>1, <1>4, <1>9, <1>10

PathInv == IInv /\ Recent /\ PathTypes /\ MeantNear /\ Timely

LEMMA HeadIsAhead ==
  ASSUME PathTypes, out \in Seq(Command), Len(UnderWay) > 0 \/ valid
  PROVE  HeadAt \in Int /\ HeadAt >= samples /\ (~valid => HeadAt = samples + Span(UnderWay[1]))
  <1>1. CASE valid
    BY <1>1 DEF HeadAt, PathTypes
  <1>2. CASE ~valid
    <2>1. UnderWay \in Seq(Command) /\ 1 \in 1 .. Len(UnderWay)
      BY <1>2, WordsShape
    <2>2. UnderWay[1] \in Command
      BY <2>1, ElementOfSeq
    <2>3. Span(UnderWay[1]) \in Nat
      BY <2>2, SpanType
    <2>4. QED BY <1>2, <2>3 DEF HeadAt, PathTypes
  <1>3. QED BY <1>1, <1>2

\* Words handed back for time t, the first to wait its delay from b on: the
\* landing before it, or a sample that is not ahead.
LEMMA HandBack ==
  ASSUME PathTypes, Timely, MeantNear, out \in Seq(Command),
         NEW E \in Seq(Command), E # << >>, out' = out \o E,
         UNCHANGED <<samples, fifo, holding, wait, valid>>,
         NEW t \in Time \union {AtOnce}, meant' = meant \o [i \in 1 .. Len(E) |-> t],
         t # AtOnce => Abs(t) \in -MaxAhead .. MaxAhead + MaxPass,
         NEW b \in Int, b <= samples \/ (chained /\ b = Abs(chain)),
         t # AtOnce => Abs(t) <= b + E[1].delay,
         chained' => Abs(chain)' <= b + E[1].delay
  PROVE  /\ Timely' /\ MeantNear'
         /\ meant' \in Seq(Time \union {AtOnce}) /\ Len(meant') = Len(UnderWay')
  <1>1. UnderWay' = UnderWay \o E /\ UnderWay \in Seq(Command) /\ Len(UnderWay) \in Nat
    BY MoreWords, WordsShape
  <1>2. /\ meant \in Seq(Time \union {AtOnce}) /\ Len(meant) = Len(UnderWay) /\ samples \in Nat /\ wait \in Nat
        /\ valid \in BOOLEAN
    BY DEF PathTypes
  <1>3. Len(E) \in Nat /\ Len(E) > 0 /\ E[1] \in Command
    <2>1. Len(E) \in Nat /\ Len(E) > 0
      BY EmptySeq, LenProperties
    <2>2. QED BY <2>1, ElementOfSeq
  <1>4. Span(E[1]) \in Nat /\ Span(E[1]) >= E[1].delay /\ E[1].delay \in Nat
    BY <1>3, SpanType
  <1>5. PICK T : /\ T = [i \in 1 .. Len(E) |-> t] /\ T \in Seq(Time \union {AtOnce}) /\ Len(T) = Len(E)
                 /\ \A i \in 1 .. Len(E) : T[i] = t
    <2> DEFINE A == [i \in 1 .. Len(E) |-> t]
    <2>1. A \in Seq(Time \union {AtOnce}) /\ Len(A) = Len(E) /\ \A i \in 1 .. Len(E) : A[i] = t
      BY <1>3
    <2>2. QED BY <2>1
  <1>6. PICK x \in Int : x = b + E[1].delay
    BY <1>4
  <1>7. /\ meant' \in Seq(Time \union {AtOnce}) /\ Len(meant') = Len(meant) + Len(E)
        /\ \A i \in 1 .. Len(meant) + Len(E) : meant'[i] = IF i <= Len(meant) THEN meant[i] ELSE T[i - Len(meant)]
    <2>1. meant \in Seq(Time \union {AtOnce}) /\ T \in Seq(Time \union {AtOnce}) /\ meant' = meant \o T
      BY <1>2, <1>5
    <2>2. QED BY <1>5, <2>1, Joined
  <1>8. /\ UnderWay' \in Seq(Command) /\ Len(UnderWay') = Len(UnderWay) + Len(E)
        /\ \A i \in 1 .. Len(UnderWay) + Len(E) :
             UnderWay'[i] = IF i <= Len(UnderWay) THEN UnderWay[i] ELSE E[i - Len(UnderWay)]
    BY <1>1, Joined
  <1>9. PICK n \in Nat, m \in Nat : n = Len(UnderWay) /\ m = Len(E) /\ n = Len(meant) /\ m > 0
    BY <1>1, <1>2, <1>3
  <1>10. /\ \A i \in 1 .. n : UnderWay'[i] = UnderWay[i] /\ meant'[i] = meant[i]
         /\ \A i \in n + 1 .. n + m : meant'[i] = t
         /\ UnderWay'[n + 1] = E[1]
    <2>1. \A i \in n + 1 .. n + m : i - n \in 1 .. m /\ ~(i <= n) /\ i \in 1 .. n + m
      BY <1>9
    <2>2. \A i \in n + 1 .. n + m : meant'[i] = T[i - n]
      BY <1>7, <1>9, <2>1
    <2>3. \A i \in 1 .. n : i \in 1 .. n + m /\ i <= n
      BY <1>9
    <2>4. n + 1 \in 1 .. n + m /\ ~(n + 1 <= n) /\ (n + 1) - n = 1
      BY <1>9
    <2>5. UnderWay'[n + 1] = E[1]
      BY <1>8, <1>9, <2>4
    <2>6. QED BY <1>5, <1>7, <1>8, <1>9, <2>1, <2>2, <2>3, <2>5
  <1>11. MeantNear'
    <2> SUFFICES ASSUME NEW i \in 1 .. n + m, meant'[i] # AtOnce
                 PROVE  Abs(meant'[i]) \in -MaxAhead .. MaxAhead + MaxPass
      BY <1>7, <1>9 DEF MeantNear, Abs
    <2>1. CASE i <= n
      BY <1>9, <1>10, <2>1 DEF MeantNear
    <2>2. CASE i > n
      BY <1>9, <1>10, <2>2
    <2>3. QED BY <1>9, <2>1, <2>2
  <1>12. PICK L : Reckons(L, UnderWay, meant, HeadAt) /\ ChainLands(L)
    BY DEF Timely
  <1>13. \A i \in n + 1 .. n + m : meant'[i] # AtOnce => Abs(meant'[i]) <= x
    BY <1>6, <1>10
  <1>14. ASSUME NEW R, Reckons(R, UnderWay', meant', HeadAt'), R[Len(UnderWay')] = x
         PROVE  Timely'
    <2>1. Reckons(R, UnderWay, meant, HeadAt)'
      BY <1>14 DEF Reckons, Abs, Span
    <2>2. ChainLands(R)'
      BY <1>1, <1>3, <1>6, <1>8, <1>14 DEF ChainLands
    <2>3. QED BY <2>1, <2>2 DEF Timely
  <1>15. UnderWay \in Seq(Command) /\ UnderWay' \in Seq(Command)
    BY <1>1, <1>8
  <1>16. ASSUME n = 0 PROVE Timely'
    <2>1. ~valid
      <3>1. valid => Behind \in Seq(Command) /\ UnderWay = <<holding>> \o Behind /\ holding \in Command
        BY WordsShape DEF PathTypes
      <3>2. valid => Len(UnderWay) = Len(Behind) + 1 /\ Len(Behind) \in Nat
        BY <3>1, Cons
      <3>3. QED BY <1>9, <1>16, <3>2
    <2>2. b <= samples
      BY <1>2, <1>9, <1>12, <1>16 DEF ChainLands
    <2>3. HeadAt' = samples + Span(E[1])
      BY <1>10, <1>16, <2>1 DEF HeadAt, Span
    <2>4. PICK a \in Int : a = HeadAt' /\ x <= a
      BY <1>2, <1>4, <1>6, <2>2, <2>3
    <2>5. Reckons(L, UnderWay, meant, a)
      BY <1>9, <1>12, <1>16 DEF Reckons
    <2>6. \E R : Reckons(R, UnderWay', meant', a) /\ R[Len(UnderWay')] = x
      <3>1. Extends(UnderWay, meant, L, a, UnderWay', meant', x, a)
        <4>1. /\ Len(UnderWay) = 0 /\ Len(UnderWay') = m /\ n = 0 /\ n + m = m
              /\ \A i \in 1 .. Len(UnderWay) : UnderWay'[i] = UnderWay[i] /\ meant'[i] = meant[i]
          BY <1>8, <1>9, <1>10, <1>16
        <4>2. \A i \in Len(UnderWay) + 1 .. Len(UnderWay') : meant'[i] # AtOnce => Abs(meant'[i]) <= x
          BY <1>13, <4>1
        <4>3. QED BY <1>9, <2>4, <4>1, <4>2 DEF Extends
      <3>2. a \in Int /\ x \in Int
        OBVIOUS
      <3>3. QED BY <1>15, <2>5, <3>1, <3>2, ExtendReckoning, SMTT(30)
    <2>7. PICK R : Reckons(R, UnderWay', meant', HeadAt') /\ R[Len(UnderWay')] = x
      BY <2>4, <2>6
    <2>8. QED BY <1>14, <2>7
  <1>17. ASSUME n > 0 PROVE Timely'
    <2>1. HeadAt \in Int /\ HeadAt >= samples
      BY <1>9, <1>17, HeadIsAhead
    <2>2. \A i \in 1 .. Len(UnderWay) : meant[i] # AtOnce => Abs(meant[i]) \in Int
      <3> SUFFICES ASSUME NEW i \in 1 .. Len(UnderWay), meant[i] # AtOnce PROVE Abs(meant[i]) \in Int
        OBVIOUS
      <3>1. Abs(meant[i]) \in -MaxAhead .. MaxAhead + MaxPass
        BY <1>2 DEF MeantNear
      <3>2. QED BY <3>1, TimeFacts
    <2>3. PICK Q : /\ Reckons(Q, UnderWay, meant, HeadAt)
                   /\ \A i \in 1 .. Len(UnderWay) : Q[i] >= L[i] /\ Q[i] >= samples
      BY <1>1, <1>2, <1>12, <2>1, <2>2, RaiseReckoning
    <2>4. Q[n] \in Int /\ L[n] \in Int /\ Q[n] >= samples /\ Q[n] >= L[n]
      <3>1. n \in 1 .. Len(UnderWay)
        BY <1>9, <1>17
      <3>2. QED BY <1>12, <2>3, <3>1 DEF Reckons
    <2>5. b <= Q[n]
      <3>1. CASE b <= samples
        BY <1>2, <2>4, <3>1
      <3>2. CASE chained /\ b = Abs(chain)
        <4>1. b <= L[n]
          BY <1>9, <1>12, <1>17, <3>2 DEF ChainLands
        <4>2. QED BY <2>4, <4>1
      <3>3. QED BY <3>1, <3>2
    <2>6. x <= Q[n] + Span(E[1])
      BY <1>4, <1>6, <2>4, <2>5
    <2>7. HeadAt' = HeadAt
      <3>1. UnderWay'[1] = UnderWay[1]
        BY <1>9, <1>10, <1>17
      <3>2. QED BY <3>1 DEF HeadAt, Span
    <2>8. \E R : Reckons(R, UnderWay', meant', HeadAt) /\ R[Len(UnderWay')] = x
      <3>1. Len(UnderWay) > 0 => x <= Q[Len(UnderWay)] + Span(UnderWay'[Len(UnderWay) + 1])
        BY <1>9, <1>10, <2>6
      <3>2. \A i \in Len(UnderWay) + 1 .. Len(UnderWay') : meant'[i] # AtOnce => Abs(meant'[i]) <= x
        BY <1>8, <1>9, <1>13
      <3>3. /\ Len(UnderWay) < Len(UnderWay')
            /\ \A i \in 1 .. Len(UnderWay) : UnderWay'[i] = UnderWay[i] /\ meant'[i] = meant[i]
            /\ (Len(UnderWay) = 0 => x <= HeadAt)
        BY <1>8, <1>9, <1>10, <1>17
      <3>4. Extends(UnderWay, meant, Q, HeadAt, UnderWay', meant', x, HeadAt)
        BY <3>1, <3>2, <3>3 DEF Extends
      <3>5. QED BY <1>15, <2>1, <2>3, <3>4, ExtendReckoning, SMTT(30)
    <2>9. PICK R : Reckons(R, UnderWay', meant', HeadAt') /\ R[Len(UnderWay')] = x
      BY <2>7, <2>8
    <2>10. QED BY <1>14, <2>9
  <1>18. meant' \in Seq(Time \union {AtOnce}) /\ Len(meant') = Len(UnderWay')
    BY <1>2, <1>7, <1>8
  <1>19. QED BY <1>9, <1>11, <1>16, <1>17, <1>18

-----------------------------------------------------------------------------
\* The reckoning across each action.
LEMMA SameWords ==
  ASSUME PathTypes, MeantNear, Timely, UnderWay' = UnderWay, fifo' \in Seq(Command),
         UNCHANGED <<samples, holding, wait, valid, told, meant>>,
         chained' => chained /\ chain' = chain
  PROVE  PathTypes' /\ MeantNear' /\ Timely'
  <1>1. PathTypes' /\ MeantNear'
    BY DEF PathTypes, MeantNear, Abs
  <1>2. PICK L : Reckons(L, UnderWay, meant, HeadAt) /\ ChainLands(L)
    BY DEF Timely
  <1>3. HeadAt' = HeadAt
    BY DEF HeadAt, Span
  <1>4. Reckons(L, UnderWay, meant, HeadAt)'
    BY <1>2, <1>3 DEF Reckons, Abs, Span
  <1>5. ChainLands(L)'
    BY <1>2 DEF ChainLands, Abs
  <1>6. QED BY <1>1, <1>4, <1>5 DEF Timely

LEMMA QuietKeeps ==
  ASSUME PathTypes, MeantNear, Timely, UNCHANGED <<engine, out, meant>>,
         chained' => chained /\ chain' = chain
  PROVE  PathTypes' /\ MeantNear' /\ Timely'
  <1>1. UNCHANGED <<samples, holding, wait, valid, told, fifo, out, meant>>
    BY DEF engine
  <1>2. UnderWay' = UnderWay /\ fifo' \in Seq(Command)
    BY <1>1 DEF UnderWay, PathTypes
  <1>3. QED BY <1>1, <1>2, SameWords

\* What is handed back is noted: nothing, or words for time t.
LEMMA Noted ==
  ASSUME PathTypes, out \in Seq(Command), NEW E \in Seq(Command), out' = out \o E,
         NEW t, Note(t)
  PROVE  /\ meant' = meant \o [i \in 1 .. Len(E) |-> t]
         /\ E = << >> => meant' = meant /\ out' = out
  <1>1. Len(out') - Len(out) = Len(E)
    <2>1. Len(out') = Len(out) + Len(E) /\ Len(out) \in Nat /\ Len(E) \in Nat
      BY Joined
    <2>2. QED BY <2>1
  <1>2. meant' = meant \o [i \in 1 .. Len(E) |-> t]
    BY <1>1 DEF Note
  <1>3. ASSUME E = << >> PROVE meant' = meant /\ out' = out
    <2>1. PICK T : T = [i \in 1 .. Len(E) |-> t]
      OBVIOUS
    <2>2. T = << >>
      BY <1>3, <2>1
    <2>3. meant' = meant \o << >> /\ out' = out \o << >> /\ meant \in Seq(Time \union {AtOnce})
      BY <1>2, <1>3, <2>1, <2>2 DEF PathTypes
    <2>4. QED BY <2>3, ConcatEmptySeq
  <1>4. QED BY <1>2, <1>3

\* What `apply` hands back waits the delay of the command, its first word does.
LEMMA FirstDelay ==
  ASSUME Stamped, NEW c \in Command, Emitted(c) # << >>
  PROVE  Emitted(c)[1].delay = c.delay
  <1>1. Placed(c).delay = c.delay
    BY DEF Placed, Command
  <1>2. CASE Emitted(c) = <<Placed(c)>>
    BY <1>1, <1>2
  <1>3. CASE Emitted(c) = [i \in 1 .. VoiceCount |->
                [c EXCEPT !.voice = i - 1, !.delay = IF i = 1 THEN c.delay ELSE 0]]
    <2>1. 1 \in 1 .. VoiceCount
      BY ControlAssumption
    <2>2. Emitted(c)[1] = [c EXCEPT !.voice = 1 - 1, !.delay = c.delay]
      BY <1>3, <2>1
    <2>3. QED BY <2>2 DEF Command
  <1>4. QED BY <1>2, <1>3 DEF Emitted

LEMMA HearTimely == ASSUME PathInv, NEW c \in Commands, Hear(c) PROVE Timely' /\ MeantNear' /\ PathTypes'
  <1>1. /\ c \in Command /\ out \in Seq(Command) /\ Stamped /\ out = << >> /\ now' = now
        /\ Note(AtOnce) /\ UNCHANGED <<samples, fifo, holding, wait, valid, told>>
        /\ PathTypes /\ MeantNear /\ Timely
    BY ControlAssumption DEF PathInv, IInv, Types, Hear, Receive, engine
  <1>2. samples \in Nat /\ c.delay \in Nat
    BY <1>1 DEF PathTypes, Command, Delay
  <1>3. ASSUME NEW E \in Seq(Command), out' = out \o E, E = << >>, chained' => chained /\ chain' = chain
        PROVE  Timely' /\ MeantNear' /\ PathTypes'
    <2>1. meant' = meant /\ out' = out
      BY <1>1, <1>3, Noted
    <2>2. UNCHANGED <<engine, out, meant>>
      BY <1>1, <2>1 DEF engine
    <2>3. QED BY <1>1, <1>3, <2>2, QuietKeeps
  <1>4. ASSUME NEW E \in Seq(Command), E # << >>, out' = out \o E, E[1].delay = c.delay,
               chained' => chained /\ chain' = chain
        PROVE  Timely' /\ MeantNear' /\ PathTypes'
    <2>1. meant' = meant \o [i \in 1 .. Len(E) |-> AtOnce]
      BY <1>1, <1>4, Noted
    <2>2. chained => Abs(chain) \in Int
      BY MinusType, PathFacts DEF PathInv, IInv, Types, Abs, Time
    <2>3. PICK b \in Int : /\ b <= samples \/ (chained /\ b = Abs(chain))
                           /\ chained => Abs(chain) <= b
      <3>1. CASE chained /\ Abs(chain) > samples
        BY <2>2, <3>1
      <3>2. CASE ~chained \/ ~(Abs(chain) > samples)
        BY <1>2, <2>2, <3>2
      <3>3. QED BY <3>1, <3>2
    <2>4. chained' => Abs(chain)' <= b + E[1].delay
      BY <1>2, <1>4, <2>2, <2>3 DEF Abs
    <2>5. /\ Timely' /\ MeantNear'
          /\ meant' \in Seq(Time \union {AtOnce}) /\ Len(meant') = Len(UnderWay')
      BY <1>1, <1>4, <2>1, <2>3, <2>4, HandBack
    <2>6. QED BY <1>1, <2>5 DEF PathTypes
  <1>5. CASE ClearSchedule(c) \/ Hold(c)
    <2>1. << >> \in Seq(Command) /\ out' = out \o << >>
      <3>1. out' = out
        BY <1>5 DEF ClearSchedule, Hold
      <3>2. QED BY <1>1, <3>1, ConcatEmptySeq, EmptySeq
    <2>2. chained' => chained /\ chain' = chain
      BY <1>5 DEF ClearSchedule, Hold
    <2>3. QED BY <1>3, <2>1, <2>2
  <1>6. CASE ResetNow(c)
    <2>1. <<c>> \in Seq(Command) /\ <<c>>[1] = c /\ <<c>> # << >>
      BY <1>1
    <2>2. out' = out \o <<c>> /\ chained' = FALSE
      BY <1>1, <1>6, <2>1, ConcatEmptySeq DEF ResetNow
    <2>3. QED BY <1>4, <2>1, <2>2
  <1>7. CASE ApplyNow(c)
    <2>1. Emitted(c) \in Seq(Command) /\ out' = out \o Emitted(c) /\ chained' = chained /\ chain' = chain
      BY <1>1, <1>7, WhatApplyEmits DEF ApplyNow, Apply, schedule
    <2>2. Emitted(c) # << >> => Emitted(c)[1].delay = c.delay
      BY <1>1, FirstDelay
    <2>3. QED BY <1>3, <1>4, <2>1, <2>2
  <1>8. QED BY <1>5, <1>6, <1>7 DEF Hear, Receive

LEMMA TurnTimely == ASSUME PathInv, Turn PROVE Timely' /\ MeantNear' /\ PathTypes'
  <1> DEFINE e == Head(events)
             d == DelayTo(e.time)
             c == [e.command EXCEPT !.delay = d]
  <1>1. /\ events # << >> /\ events \in Seq(Event) /\ out \in Seq(Command) /\ Stamped /\ Types /\ InSight
        /\ Note(e.time) /\ UNCHANGED <<samples, fifo, holding, wait, valid, told>>
        /\ PathTypes /\ MeantNear /\ Timely /\ Recent /\ now' = now
    BY DEF PathInv, IInv, Types, Turn, DispatchNext, MoreDue, engine
  <1>2. e \in Event /\ e = events[1] /\ 1 \in 1 .. Len(events)
    BY <1>1, HeadTailProperties, EmptySeq
  <1>3. /\ e.time \in Time /\ e.command \in Command
        /\ Rel(e.time) \in -MaxAhead .. MaxAhead /\ Rel(e.time) \in -MaxAhead .. Window
    <2>1. Rel(e.time) <= Window
      BY DEF Turn, DispatchNext, MoreDue, Rel
    <2>2. Rel(e.time) \in -MaxAhead .. MaxAhead
      BY <1>1, <1>2 DEF InSight
    <2>3. QED BY <1>2, <2>1, <2>2, TimeFacts DEF Event
  <1>4. /\ d \in Delay /\ Base \in Time /\ Rel(Base) \in 0 .. Window /\ Plus(Base, d, TimeMod) \in Time
        /\ Rel(Plus(Base, d, TimeMod)) = Rel(Base) + d /\ Rel(Plus(Base, d, TimeMod)) >= Rel(e.time)
        /\ Rel(Plus(Base, d, TimeMod)) \in 0 .. Window
    BY <1>1, <1>3, Landing
  <1>5. PICK land \in Time : land = Plus(Base, d, TimeMod)
    BY <1>4
  <1> HIDE DEF d
  <1>6. c \in Command /\ c.delay = d /\ d \in Nat
    BY <1>3, <1>4 DEF Command, Delay
  <1>7. /\ Apply(c)
        /\ IF Emitted(c) # << >> THEN chain' = land /\ chained' = TRUE
           ELSE chained' = FALSE /\ chain' = chain
    BY <1>5 DEF Turn, DispatchNext, d
  <1>8. Emitted(c) \in Seq(Command) /\ out' = out \o Emitted(c)
    BY <1>1, <1>6, <1>7, WhatApplyEmits DEF Apply
  <1>9. CASE Emitted(c) = << >>
    <2>1. meant' = meant /\ out' = out
      BY <1>1, <1>8, <1>9, Noted
    <2>2. UNCHANGED <<engine, out, meant>>
      BY <1>1, <2>1 DEF engine
    <2>3. QED BY <1>1, <1>7, <1>9, <2>2, QuietKeeps
  <1>10. CASE Emitted(c) # << >>
    <2>1. Emitted(c)[1].delay = d
      BY <1>1, <1>6, <1>10, FirstDelay
    <2>2. /\ Abs(e.time) = Abs(now) + Rel(e.time) /\ Abs(e.time) \in -MaxAhead .. MaxAhead + MaxPass
          /\ Abs(Base) = Abs(now) + Rel(Base) /\ Abs(land) = Abs(now) + Rel(land)
          /\ Abs(now) \in Int /\ Abs(now) <= samples
      <3>1. Rel(Base) \in -MaxAhead .. MaxAhead /\ Rel(land) \in -MaxAhead .. MaxAhead
        BY <1>4, <1>5, TimeFacts
      <3>2. Abs(now) \in Int /\ Abs(now) <= samples
        BY <1>1, NowAbs
      <3>3. QED BY <1>1, <1>3, <1>4, <3>1, <3>2, ReachAbs
    <2>3. /\ Abs(Base) \in Int /\ Abs(land) = Abs(Base) + d /\ Abs(e.time) <= Abs(Base) + d
      BY <1>3, <1>4, <1>5, <1>6, <2>2, TimeFacts
    <2>4. Abs(Base) <= samples \/ (chained /\ Abs(Base) = Abs(chain))
      BY <2>2 DEF Base
    <2>5. meant' = meant \o [i \in 1 .. Len(Emitted(c)) |-> e.time]
      BY <1>1, <1>8, Noted
    <2>6. Abs(chain)' = Abs(land)
      BY <1>7, <1>10 DEF Abs
    <2> HIDE DEF c, e
    <2>7. PICK b \in Int, t \in Time, E \in Seq(Command) : b = Abs(Base) /\ t = e.time /\ E = Emitted(c)
      BY <1>3, <1>8, <2>3
    <2>8. /\ E # << >> /\ out' = out \o E /\ meant' = meant \o [i \in 1 .. Len(E) |-> t]
          /\ (t # AtOnce => Abs(t) \in -MaxAhead .. MaxAhead + MaxPass)
          /\ (t # AtOnce => Abs(t) <= b + E[1].delay)
          /\ (chained' => Abs(chain)' <= b + E[1].delay)
          /\ (b <= samples \/ (chained /\ b = Abs(chain)))
      BY <1>6, <1>8, <1>10, <2>1, <2>2, <2>3, <2>4, <2>5, <2>6, <2>7
    <2>9. /\ Timely' /\ MeantNear'
          /\ meant' \in Seq(Time \union {AtOnce}) /\ Len(meant') = Len(UnderWay')
      BY <1>1, <2>8, HandBack
    <2>10. QED BY <1>1, <2>9 DEF PathTypes
  <1>11. QED BY <1>9, <1>10

LEMMA HeardType ==
  ASSUME NEW t \in [Voice -> VoiceState], NEW c \in Command
  PROVE  Heard(t, c) \in [Voice -> VoiceState]
  <1> SUFFICES ASSUME NEW v \in Voice
               PROVE  (IF c.op = "reset" THEN [state |-> "idle", step |-> 0]
                       ELSE IF c.op = "note_on" /\ c.voice = v THEN [state |-> "sounding", step |-> c.value]
                       ELSE IF c.op = "note_off" /\ c.voice = v /\ t[v].state = "sounding"
                         THEN [t[v] EXCEPT !.state = "releasing"]
                       ELSE t[v]) \in VoiceState
    BY DEF Heard
  <1>1. t[v] \in VoiceState /\ c.value \in Nat
    BY DEF Command
  <1>2. [t[v] EXCEPT !.state = "releasing"] \in VoiceState
    BY <1>1 DEF VoiceState
  <1>3. QED BY <1>1, <1>2 DEF VoiceState

LEMMA SampleTimely == ASSUME PathInv, Sample PROVE Timely' /\ MeantNear' /\ PathTypes'
  <1>1. /\ out \in Seq(Command) /\ PathTypes /\ MeantNear /\ Timely
        /\ samples \in Nat /\ samples' = samples + 1 /\ valid \in BOOLEAN /\ wait \in Nat
        /\ meant \in Seq(Time \union {AtOnce}) /\ Len(meant) = Len(UnderWay)
        /\ UNCHANGED <<chain, chained, out>> /\ (Lands <=> valid /\ wait = 0)
    BY DEF PathInv, IInv, Types, PathTypes, Sample, vars, Lands
  <1>2. /\ UnderWay \in Seq(Command) /\ Behind \in Seq(Command) /\ Len(UnderWay) \in Nat
        /\ UnderWay = IF valid THEN <<holding>> \o Behind ELSE Behind
    BY <1>1, WordsShape
  <1>3. /\ UnderWay' = IF Lands THEN Behind ELSE UnderWay
        /\ Lands => UnderWay = <<holding>> \o Behind
        /\ fifo' \in Seq(Command) /\ valid' \in BOOLEAN /\ wait' \in Nat /\ (valid' => holding' \in Command)
        /\ valid /\ ~Lands => valid' /\ holding' = holding /\ wait' = wait - 1
        /\ ~(valid /\ ~Lands) /\ valid' =>
              /\ Behind # << >> /\ holding' = Behind[1]
              /\ wait' = IF Behind[1].delay = 0 THEN 0 ELSE Behind[1].delay - 1
    BY <1>1, SampleWords
  <1>4. told' \in [Voice -> VoiceState]
    <2>1. told \in [Voice -> VoiceState] /\ (valid => holding \in Command)
      BY DEF PathInv, PathTypes
    <2>2. QED BY <1>1, <2>1, HeardType DEF Sample
  <1>5. PICK L : Reckons(L, UnderWay, meant, HeadAt) /\ ChainLands(L)
    BY <1>1 DEF Timely
  <1>6. ASSUME NEW w \in Command
        PROVE  1 + (IF w.delay = 0 THEN 0 ELSE w.delay - 1) = Span(w) /\ Span(w) \in Nat
    BY <1>6 DEF Span, Command, Delay
  <1>7. ~(valid /\ ~Lands) /\ Len(Behind) > 0 =>
           samples + Span(Behind[1]) <= samples' + IF valid' THEN wait' ELSE Span(Behind[1])
    <2> SUFFICES ASSUME ~(valid /\ ~Lands), Len(Behind) > 0
                 PROVE  samples + Span(Behind[1]) <= samples' + IF valid' THEN wait' ELSE Span(Behind[1])
      OBVIOUS
    <2>1. Behind[1] \in Command
      <3>1. 1 \in 1 .. Len(Behind)
        BY <1>2, LenProperties
      <3>2. QED BY <1>2, <3>1, ElementOfSeq
    <2>2. PICK span \in Nat : span = Span(Behind[1])
      BY <1>6, <2>1
    <2>3. valid' => 1 + wait' = span
      BY <1>3, <1>6, <2>1, <2>2
    <2>4. QED BY <1>1, <1>3, <2>2, <2>3
  <1>8. CASE Lands
    <2>1. /\ Len(UnderWay) = Len(Behind) + 1 /\ Len(Behind) \in Nat
          /\ \A i \in 1 .. Len(Behind) : UnderWay[i + 1] = Behind[i]
      <3>1. holding \in Command /\ UnderWay = <<holding>> \o Behind
        BY <1>1, <1>3, <1>8 DEF PathTypes
      <3>2. QED BY <1>2, <3>1, Cons
    <2>2. UnderWay' = Behind /\ meant' = Tail(meant) /\ HeadAt = samples
      BY <1>1, <1>3, <1>8 DEF Sample, HeadAt
    <2>3. /\ meant' \in Seq(Time \union {AtOnce}) /\ Len(meant') = Len(UnderWay')
          /\ \A i \in 1 .. Len(meant') : meant'[i] = meant[i + 1] /\ i + 1 \in 1 .. Len(meant)
      <3>1. meant # << >>
        BY <1>1, <2>1, EmptySeq
      <3>2. PICK T : T = Tail(meant)
        OBVIOUS
      <3>3. T \in Seq(Time \union {AtOnce}) /\ Len(T) = Len(meant) - 1 /\ \A i \in 1 .. Len(T) : T[i] = meant[i + 1]
        BY <1>1, <3>1, <3>2, HeadTailProperties
      <3>4. Len(T) = Len(Behind) /\ \A i \in 1 .. Len(T) : i + 1 \in 1 .. Len(meant)
        BY <1>1, <2>1, <3>3
      <3>5. QED BY <2>2, <3>2, <3>3, <3>4
    <2>4. MeantNear'
      <3> SUFFICES ASSUME NEW i \in 1 .. Len(meant'), meant'[i] # AtOnce
                   PROVE  Abs(meant'[i]) \in -MaxAhead .. MaxAhead + MaxPass
        BY DEF MeantNear, Abs
      <3>1. QED BY <1>1, <2>3 DEF MeantNear
    <2>5. PICK after \in Int : /\ after = HeadAt' \/ Len(Behind) = 0
                               /\ Len(Behind) > 0 => after >= samples + Span(Behind[1])
      <3>1. CASE Len(Behind) = 0
        BY <3>1
      <3>2. CASE Len(Behind) > 0
        <4>1. HeadAt' = samples' + IF valid' THEN wait' ELSE Span(Behind[1])
          BY <2>2 DEF HeadAt, Span
        <4>2. Behind[1] \in Command
          <5>1. 1 \in 1 .. Len(Behind)
            BY <2>1, <3>2
          <5>2. QED BY <1>2, <5>1, ElementOfSeq
        <4>3. Span(Behind[1]) \in Nat
          BY <4>2, SpanType
        <4>4. HeadAt' \in Int /\ HeadAt' >= samples + Span(Behind[1])
          BY <1>1, <1>3, <1>7, <1>8, <3>2, <4>1, <4>3
        <4>5. QED BY <4>4
      <3>3. QED BY <2>1, <3>1, <3>2
    <2>6. \E R : Reckons(R, Behind, Tail(meant), after) /\ (Len(Behind) > 0 => R[Len(Behind)] = L[Len(UnderWay)])
      <3>1. HeadAt \in Int /\ Follows(UnderWay, Behind, meant, HeadAt, after)
        BY <1>1, <2>1, <2>2, <2>5 DEF Follows
      <3>2. /\ Behind \in Seq(Command) /\ UnderWay \in Seq(Command)
            /\ meant \in Seq(Time \union {AtOnce}) /\ after \in Int
            /\ Reckons(L, UnderWay, meant, HeadAt)
        BY <1>1, <1>2, <1>5, <2>5
      <3>3. QED BY <3>1, <3>2, ShortenReckoning, SMTT(30)
    <2>7. PICK R : /\ Reckons(R, UnderWay', meant', after)
                   /\ Len(Behind) > 0 => R[Len(Behind)] = L[Len(UnderWay)]
      BY <2>2, <2>6
    <2>8. Reckons(R, UnderWay', meant', HeadAt')
      <3>1. Reckons(R, Behind, meant', after) /\ UnderWay' = Behind
        BY <2>2, <2>7
      <3>2. CASE after = HeadAt'
        BY <3>1, <3>2
      <3>3. CASE Len(Behind) = 0
        BY <3>1, <3>3 DEF Reckons
      <3>4. QED BY <2>5, <3>2, <3>3
    <2>9. Reckons(R, UnderWay, meant, HeadAt)'
      BY <2>8 DEF Reckons, Abs, Span
    <2>10. ChainLands(R)'
      <3>1. chained => Abs(chain) <= L[Len(UnderWay)]
        BY <1>5, <2>1 DEF ChainLands
      <3>2. Len(UnderWay) = 1 => L[Len(UnderWay)] <= samples /\ L[Len(UnderWay)] \in Int
        BY <1>5, <2>2 DEF Reckons
      <3>3. chained => Abs(chain) \in Int
        BY MinusType, PathFacts DEF PathInv, IInv, Types, Abs, Time
      <3>4. Len(UnderWay) = 1 /\ chained => Abs(chain) < samples'
        BY <1>1, <3>1, <3>2, <3>3
      <3>5. QED BY <1>1, <2>1, <2>2, <2>7, <3>1, <3>4 DEF ChainLands, Abs
    <2>11. PathTypes'
      BY <1>1, <1>3, <1>4, <2>3 DEF PathTypes
    <2>12. QED BY <2>4, <2>9, <2>10, <2>11 DEF Timely
  <1>9. CASE ~Lands
    <2>1. UnderWay' = UnderWay /\ meant' = meant
      BY <1>3, <1>9 DEF Sample
    <2>2. MeantNear' /\ PathTypes'
      BY <1>1, <1>3, <1>4, <2>1 DEF MeantNear, PathTypes, Abs
    <2>3. Len(UnderWay) > 0 => HeadAt' >= HeadAt /\ HeadAt' \in Int /\ HeadAt \in Int
      <3> SUFFICES ASSUME Len(UnderWay) > 0 PROVE HeadAt' >= HeadAt /\ HeadAt' \in Int /\ HeadAt \in Int
        OBVIOUS
      <3>1. CASE valid
        BY <1>1, <1>3, <1>9, <3>1 DEF HeadAt
      <3>2. CASE ~valid
        <4>1. UnderWay = Behind /\ HeadAt = samples + Span(Behind[1])
              /\ HeadAt' = samples' + IF valid' THEN wait' ELSE Span(Behind[1])
          BY <1>2, <2>1, <3>2 DEF HeadAt, Span
        <4>2. Behind[1] \in Command
          <5>1. 1 \in 1 .. Len(Behind)
            BY <1>2, <4>1
          <5>2. QED BY <1>2, <5>1, ElementOfSeq
        <4>3. Span(Behind[1]) \in Nat
          BY <4>2, SpanType
        <4>4. QED BY <1>1, <1>3, <1>7, <3>2, <4>1, <4>3
      <3>3. QED BY <3>1, <3>2
    <2>4. Reckons(L, UnderWay', meant', HeadAt')
      <3>1. Len(UnderWay) > 0 => L[1] \in Int /\ L[1] <= HeadAt
        BY <1>2, <1>5 DEF Reckons
      <3>2. Len(UnderWay) > 0 => L[1] <= HeadAt'
        BY <2>3, <3>1
      <3>3. QED BY <1>5, <2>1, <3>2 DEF Reckons
    <2>5. Reckons(L, UnderWay, meant, HeadAt)'
      BY <2>4 DEF Reckons, Abs, Span
    <2>6. ChainLands(L)'
      <3>1. chained => Abs(chain) \in Int
        BY MinusType, PathFacts DEF PathInv, IInv, Types, Abs, Time
      <3>2. QED BY <1>1, <1>5, <2>1, <3>1 DEF ChainLands, Abs
    <2>7. QED BY <2>2, <2>5, <2>6 DEF Timely
  <1>10. QED BY <1>8, <1>9

LEMMA InitPath == PathInit => PathInv
  <1> SUFFICES ASSUME PathInit PROVE PathInv
    OBVIOUS
  <1>1. IInv /\ Recent /\ Init
    BY InitIInv, InitRecent DEF PathInit
  <1>2. /\ valid = FALSE /\ fifo = << >> /\ out = << >> /\ samples = 0 /\ wait = 0 /\ meant = << >>
        /\ chained = FALSE /\ told = [v \in Voice |-> [state |-> "idle", step |-> 0]]
    BY DEF PathInit, Init
  <1>3. UnderWay = << >>
    <2>1. UnderWay = (<< >> \o << >>) \o << >>
      BY <1>2 DEF UnderWay
    <2>2. << >> \in Seq(Command)
      BY EmptySeq
    <2>3. QED BY <2>1, <2>2, ConcatEmptySeq
  <1>4. told \in [Voice -> VoiceState]
    BY <1>2 DEF VoiceState
  <1>5. PathTypes /\ MeantNear
    <2>1. << >> \in Seq(Command) /\ << >> \in Seq(Time \union {AtOnce}) /\ Len(<< >>) = 0
      BY EmptySeq
    <2>2. PathTypes
      BY <1>2, <1>3, <1>4, <2>1 DEF PathTypes
    <2>3. MeantNear
      BY <1>2, <2>1 DEF MeantNear
    <2>4. QED BY <2>2, <2>3
  <1>6. Reckons([i \in 1 .. 0 |-> 0], UnderWay, meant, HeadAt)
    BY <1>3, EmptySeq DEF Reckons
  <1>7. Timely
    BY <1>2, <1>6 DEF Timely, ChainLands
  <1>8. QED BY <1>1, <1>5, <1>7 DEF PathInv

LEMMA NextPath == ASSUME PathInv, [PathNext]_allVars PROVE PathInv'
  <1>1. IInv' /\ Recent'
    BY PathSteps, NextIInv DEF PathInv
  <1>2. PathTypes /\ MeantNear /\ Timely /\ out \in Seq(Command)
    BY DEF PathInv, IInv, Types
  <1>3. ASSUME UNCHANGED <<engine, out, meant>>, chained' => chained /\ chain' = chain
        PROVE  Timely' /\ MeantNear' /\ PathTypes'
    BY <1>2, <1>3, QuietKeeps
  <1>4. ASSUME NEW c \in Commands, Hear(c) PROVE Timely' /\ MeantNear' /\ PathTypes'
    BY <1>4, HearTimely
  <1>5. ASSUME NEW k \in Offsets, Anchor(k) PROVE Timely' /\ MeantNear' /\ PathTypes'
    BY <1>3, <1>5 DEF Anchor, ScheduleAt
  <1>6. ASSUME Dispatch PROVE Timely' /\ MeantNear' /\ PathTypes'
    <2>1. UNCHANGED <<engine, out, meant, chained, chain>>
      BY <1>6 DEF Dispatch, CallDispatch, schedule
    <2>2. QED BY <1>3, <2>1
  <1>7. ASSUME Turn PROVE Timely' /\ MeantNear' /\ PathTypes'
    BY <1>7, TurnTimely
  <1>8. ASSUME Return PROVE Timely' /\ MeantNear' /\ PathTypes'
    <2>1. UNCHANGED <<engine, out, meant, chained, chain>>
      BY <1>8 DEF Return, EndDispatch, schedule
    <2>2. QED BY <1>3, <2>1
  <1>9. ASSUME PushWord PROVE Timely' /\ MeantNear' /\ PathTypes'
    <2>1. UnderWay' = UnderWay /\ fifo' \in Seq(Command)
      BY <1>2, <1>9, PushKeepsWords
    <2>2. UNCHANGED <<samples, holding, wait, valid, told, meant, chain, chained>>
      BY <1>9 DEF PushWord, EmitOne, schedule
    <2>3. QED BY <1>2, <2>1, <2>2, SameWords
  <1>10. ASSUME Sample PROVE Timely' /\ MeantNear' /\ PathTypes'
    BY <1>10, SampleTimely
  <1>11. ASSUME UNCHANGED allVars PROVE Timely' /\ MeantNear' /\ PathTypes'
    <2>1. UNCHANGED <<engine, out, meant, chained, chain>>
      BY <1>11 DEF allVars, vars, schedule
    <2>2. QED BY <1>3, <2>1
  <1>12. QED BY <1>1, <1>4, <1>5, <1>6, <1>7, <1>8, <1>9, <1>10, <1>11 DEF PathNext, PathInv

LEMMA PathAlways == PathSpec => []PathInv
  BY InitPath, NextPath, PTL DEF PathSpec

\* No event takes effect before its sample, whatever else is under way before
\* it, however late the firmware came by and however many words the FIFO holds
\* (control.c 285-328).
THEOREM NeverTooEarly == PathSpec => NeverEarly
  <1>1. ASSUME PathInv, Sample, Lands, Head(meant) # AtOnce
        PROVE  Minus(Count', Head(meant), TimeMod) > 0
    <2>1. /\ PathTypes /\ MeantNear /\ Recent /\ out \in Seq(Command) /\ holding \in Command
          /\ samples' = samples + 1 /\ samples + 1 <= Horizon /\ valid /\ wait = 0
      BY <1>1, PathFacts DEF PathInv, IInv, Types, PathTypes, Sample, Lands, Recent
    <2>2. UnderWay = <<holding>> \o Behind /\ Behind \in Seq(Command)
      BY <2>1, WordsShape
    <2>3. Len(UnderWay) > 0 /\ 1 \in 1 .. Len(UnderWay)
      <3>1. Len(UnderWay) = Len(Behind) + 1 /\ Len(Behind) \in Nat
        BY <2>1, <2>2, Cons
      <3>2. QED BY <3>1
    <2>4. /\ meant \in Seq(Time \union {AtOnce}) /\ 1 \in 1 .. Len(meant) /\ Head(meant) = meant[1]
          /\ meant[1] \in Time
      <3>1. meant \in Seq(Time \union {AtOnce}) /\ 1 \in 1 .. Len(meant)
        BY <2>1, <2>3 DEF PathTypes
      <3>2. meant[1] \in Time \union {AtOnce} /\ meant # << >> /\ Head(meant) = meant[1]
        BY <3>1, ElementOfSeq, EmptySeq, HeadTailProperties
      <3>3. QED BY <1>1, <3>1, <3>2
    <2>5. PICK L : Reckons(L, UnderWay, meant, HeadAt)
      BY <1>1 DEF PathInv, Timely
    <2>6. Abs(meant[1]) <= L[1] /\ L[1] <= HeadAt /\ L[1] \in Int /\ HeadAt = samples /\ samples \in Nat
      <3>1. HeadAt = samples /\ samples \in Nat
        BY <2>1 DEF HeadAt, PathTypes
      <3>2. L[1] \in Int /\ L[1] <= HeadAt
        BY <2>3, <2>5 DEF Reckons
      <3>3. meant[1] # AtOnce
        BY <1>1, <2>4
      <3>4. Abs(meant[1]) <= L[1]
        BY <2>3, <2>5, <3>3 DEF Reckons
      <3>5. QED BY <3>1, <3>2, <3>4
    <2>7. Abs(meant[1]) \in -MaxAhead .. MaxAhead + MaxPass
      BY <1>1, <2>1, <2>4 DEF MeantNear
    <2>8. Abs(meant[1]) <= samples
      BY <2>6, <2>7, TimeFacts
    <2>9. QED BY <2>1, <2>4, <2>7, <2>8, LandedIsPast
  <1>2. PathInv /\ [PathNext]_allVars =>
          [Sample /\ Lands /\ Head(meant) # AtOnce => Minus(Count', Head(meant), TimeMod) > 0]_allVars
    BY <1>1
  <1>3. QED BY <1>2, PathAlways, PTL DEF PathSpec, NeverEarly
-----------------------------------------------------------------------------
\* The shadow and what the words under way will tell the voices: F[k] is what
\* they are told once the first k words have landed.
Shadow == [v \in Voice |-> [state |-> voices[v].state, step |-> voices[v].step]]

Tells(F, t, U, s) == /\ F = [k \in 0 .. Len(U) |-> F[k]]
                     /\ F[0] = t /\ F[Len(U)] = s
                     /\ \A k \in 1 .. Len(U) : F[k] = Heard(F[k - 1], U[k])

Foretold == \E F : Tells(F, told, UnderWay, Shadow)

\* No event is a reset, which is applied as it arrives (control.c 331-346).
NoResets == \A i \in 1 .. Len(events) : events[i].command.op # "reset"

FutureInv == PathInv /\ NoResets /\ Foretold

\* There is one such F, and it is the function the property is stated by.
LEMMA FutureIs ==
  ASSUME UnderWay \in Seq(Command), NEW F, NEW s, Tells(F, told, UnderWay, s)
  PROVE  Future[Len(UnderWay)] = s
  <1>1. PICK n \in Nat : n = Len(UnderWay)
    BY LenProperties
  <1> DEFINE Step(f, i) == IF i = 0 THEN told ELSE Heard(f[i - 1], UnderWay[i])
  <1>2. F = [i \in 0 .. n |-> Step(F, i)]
    <2>1. \A i \in 0 .. n : F[i] = Step(F, i)
      <3> SUFFICES ASSUME NEW i \in 0 .. n PROVE F[i] = Step(F, i)
        OBVIOUS
      <3>1. CASE i = 0
        BY <3>1 DEF Tells
      <3>2. CASE i # 0
        <4>1. i \in 1 .. Len(UnderWay)
          BY <1>1, <3>2
        <4>2. QED BY <3>2, <4>1 DEF Tells
      <3>3. QED BY <3>1, <3>2
    <2>2. F = [i \in 0 .. n |-> F[i]]
      BY <1>1 DEF Tells
    <2>3. QED BY <2>1, <2>2, Zenon
  <1>3. Future = [i \in 0 .. n |-> Step(Future, i)]
    <2>1. Future = CHOOSE f : f = [i \in 0 .. n |-> Step(f, i)]
      BY <1>1 DEF Future
    <2> HIDE DEF Step
    <2>2. QED BY <1>2, <2>1, Zenon
  <1>4. \A i \in 0 .. n : Future[i] = F[i]
    <2> SUFFICES ASSUME \E i \in 0 .. n : Future[i] # F[i] PROVE FALSE
      OBVIOUS
    <2> DEFINE D == {i \in 0 .. n : Future[i] # F[i]}
    <2>1. PICK d \in D : \A e \in D : d <= e
      <3>1. D \subseteq Nat /\ D # {}
        OBVIOUS
      <3>2. QED BY <3>1, LeastExists
    <2>2. d \in 0 .. n /\ Future[d] # F[d]
      OBVIOUS
    <2>3. Future[d] = Step(Future, d) /\ F[d] = Step(F, d)
      BY <1>2, <1>3, <2>2
    <2>4. d # 0
      BY <2>2, <2>3
    <2>5. d - 1 \in 0 .. n /\ ~(d <= d - 1)
      BY <2>2, <2>4
    <2>6. Future[d - 1] = F[d - 1]
      BY <2>1, <2>5
    <2>7. QED BY <2>2, <2>3, <2>4, <2>6
  <1>5. Future[n] = F[n]
    BY <1>4
  <1>6. QED BY <1>1, <1>5 DEF Tells

\* Words behind the others: the first of them takes the voices from s to r, and
\* the rest leave them there.
Adds(U, V, s, r) ==
  /\ Len(U) < Len(V) /\ \A i \in 1 .. Len(U) : V[i] = U[i]
  /\ r = Heard(s, V[Len(U) + 1])
  /\ \A i \in Len(U) + 2 .. Len(V) : Heard(r, V[i]) = r

LEMMA TellMore ==
  ASSUME NEW U \in Seq(Command), NEW V \in Seq(Command), NEW F, NEW t, NEW s, NEW r,
         Tells(F, t, U, s), Adds(U, V, s, r)
  PROVE  \E G : Tells(G, t, V, r)
  <1>1. PICK n \in Nat, m \in Nat : n = Len(U) /\ m = Len(V) /\ n < m
    BY LenProperties DEF Adds
  <1> DEFINE G == [i \in 0 .. m |-> IF i <= n THEN F[i] ELSE r]
  <1>2. /\ G = [i \in 0 .. m |-> G[i]]
        /\ \A i \in 0 .. m : G[i] = IF i <= n THEN F[i] ELSE r
    OBVIOUS
  <1> HIDE DEF G
  <1>3. G[0] = t /\ G[m] = r
    <2>1. G[0] = F[0] /\ G[m] = r
      BY <1>1, <1>2
    <2>2. QED BY <2>1 DEF Tells
  <1>4. ASSUME NEW i \in 1 .. m PROVE G[i] = Heard(G[i - 1], V[i])
    <2>1. i \in 0 .. m /\ i - 1 \in 0 .. m
      BY <1>1
    <2>2. CASE i <= n
      <3>1. i \in 1 .. Len(U) /\ G[i] = F[i] /\ G[i - 1] = F[i - 1]
        BY <1>1, <1>2, <2>1, <2>2
      <3>2. F[i] = Heard(F[i - 1], U[i]) /\ V[i] = U[i]
        BY <3>1 DEF Tells, Adds
      <3>3. QED BY <3>1, <3>2
    <2>3. CASE i = n + 1
      <3>1. G[i] = r /\ G[i - 1] = F[n]
        BY <1>1, <1>2, <2>1, <2>3
      <3>2. F[n] = s /\ r = Heard(s, V[i])
        BY <1>1, <2>3 DEF Tells, Adds
      <3>3. QED BY <3>1, <3>2
    <2>4. CASE i > n + 1
      <3>1. G[i] = r /\ G[i - 1] = r
        BY <1>1, <1>2, <2>1, <2>4
      <3>2. i \in Len(U) + 2 .. Len(V)
        BY <1>1, <2>4
      <3>3. QED BY <3>1, <3>2 DEF Adds
    <2>5. QED BY <1>1, <2>2, <2>3, <2>4
  <1>5. Tells(G, t, V, r)
    BY <1>1, <1>2, <1>3, <1>4 DEF Tells
  <1>6. QED BY <1>5

\* The first word lands.
LEMMA TellLanded ==
  ASSUME NEW B \in Seq(Command), NEW U \in Seq(Command), Len(U) = Len(B) + 1,
         \A i \in 1 .. Len(B) : U[i + 1] = B[i],
         NEW F, NEW t, NEW s, Tells(F, t, U, s)
  PROVE  \E G : Tells(G, Heard(t, U[1]), B, s)
  <1>1. PICK n \in Nat : n = Len(B) /\ Len(U) = n + 1
    BY LenProperties
  <1> DEFINE G == [i \in 0 .. n |-> F[i + 1]]
  <1>2. G = [i \in 0 .. n |-> G[i]] /\ \A i \in 0 .. n : G[i] = F[i + 1]
    OBVIOUS
  <1> HIDE DEF G
  <1>3. G[0] = Heard(t, U[1])
    <2>1. 1 \in 1 .. Len(U) /\ G[0] = F[1]
      BY <1>1, <1>2
    <2>2. F[1] = Heard(F[1 - 1], U[1]) /\ F[0] = t
      BY <2>1 DEF Tells
    <2>3. QED BY <2>1, <2>2
  <1>4. G[n] = s
    <2>1. G[n] = F[n + 1]
      BY <1>2
    <2>2. QED BY <1>1, <2>1 DEF Tells
  <1>5. ASSUME NEW i \in 1 .. n PROVE G[i] = Heard(G[i - 1], B[i])
    <2>1. i + 1 \in 1 .. Len(U) /\ i \in 0 .. n /\ i - 1 \in 0 .. n /\ (i + 1) - 1 = i /\ (i - 1) + 1 = i
      BY <1>1
    <2>2. F[i + 1] = Heard(F[(i + 1) - 1], U[i + 1])
      BY <2>1 DEF Tells
    <2>3. G[i] = F[i + 1] /\ G[i - 1] = F[i] /\ U[i + 1] = B[i]
      <3>1. G[i] = F[i + 1] /\ G[i - 1] = F[(i - 1) + 1]
        BY <1>2, <2>1
      <3>2. QED BY <1>1, <2>1, <3>1
    <2>4. QED BY <2>1, <2>2, <2>3
  <1>6. Tells(G, Heard(t, U[1]), B, s)
    BY <1>1, <1>2, <1>3, <1>4, <1>5 DEF Tells
  <1>7. QED BY <1>6
\* Only notes and resets tell a voice anything.
LEMMA QuietWord ==
  ASSUME NEW t \in [Voice -> VoiceState], NEW c, c.op \notin {"note_on", "note_off", "reset"}
  PROVE  Heard(t, c) = t
  <1>1. Heard(t, c) = [v \in Voice |-> t[v]]
    BY DEF Heard
  <1>2. QED BY <1>1

LEMMA ShadowType == Stamped => Shadow \in [Voice -> VoiceState]
  BY DEF Stamped, Shadow, VoiceState

\* `apply` does to the shadow what its words will do to the voices: the first of
\* them all of it, the others of a broadcast nothing more.
LEMMA ApplyTells ==
  ASSUME Stamped, NEW c \in Command, c.op # "reset", Apply(c)
  PROVE  /\ Emitted(c) = << >> => Shadow' = Shadow
         /\ Emitted(c) # << >> => Shadow' = Heard(Shadow, Emitted(c)[1])
         /\ \A i \in 2 .. Len(Emitted(c)) : Heard(Shadow', Emitted(c)[i]) = Shadow'
  <1>1. Shadow \in [Voice -> VoiceState] /\ \A v \in Voice : Shadow[v] = [state |-> voices[v].state, step |-> voices[v].step]
    BY ShadowType DEF Shadow
  <1>2. CASE c.op \notin {"note_on", "note_off"} \/ Emitted(c) = << >>
    <2>1. Shadow' = Shadow
      BY <1>2 DEF Apply, Shadow, Take, LetGo
    <2>2. CASE Emitted(c) = << >>
      BY <2>1, <2>2
    <2>3. CASE Emitted(c) # << >>
      <3>1. Len(Emitted(c)) \in Nat /\ Len(Emitted(c)) > 0
        BY <2>3, WhatApplyEmits, EmptySeq, LenProperties
      <3>2. ASSUME NEW i \in 1 .. Len(Emitted(c)) PROVE Emitted(c)[i].op = c.op
        <4>1. CASE Emitted(c) = <<Placed(c)>>
          BY <3>2, <4>1 DEF Placed, Command
        <4>2. CASE Emitted(c) = [j \in 1 .. VoiceCount |->
                      [c EXCEPT !.voice = j - 1, !.delay = IF j = 1 THEN c.delay ELSE 0]]
          <5>1. i \in 1 .. VoiceCount
            <6>1. DOMAIN Emitted(c) = 1 .. VoiceCount
              BY <4>2
            <6>2. DOMAIN Emitted(c) = 1 .. Len(Emitted(c))
              BY WhatApplyEmits, LenProperties
            <6>3. QED BY <3>2, <6>1, <6>2
          <5>2. Emitted(c)[i] = [c EXCEPT !.voice = i - 1, !.delay = IF i = 1 THEN c.delay ELSE 0]
            BY <4>2, <5>1
          <5>3. QED BY <5>2 DEF Command
        <4>3. QED BY <2>3, <4>1, <4>2 DEF Emitted
      <3>3. ASSUME NEW i \in 1 .. Len(Emitted(c)) PROVE Heard(Shadow, Emitted(c)[i]) = Shadow
        BY <1>1, <1>2, <2>3, <3>2, QuietWord
      <3>4. 1 \in 1 .. Len(Emitted(c)) /\ \A i \in 2 .. Len(Emitted(c)) : i \in 1 .. Len(Emitted(c))
        BY <3>1
      <3>5. QED BY <2>1, <2>3, <3>3, <3>4
    <2>4. QED BY <2>2, <2>3
  <1>3. CASE c.op \in {"note_on", "note_off"} /\ Emitted(c) # << >>
    <2> DEFINE w == Placed(c)
    <2>1. w.voice \in Voice /\ Emitted(c) = <<w>> /\ w.op = c.op /\ w.value = c.value
      BY <1>3, PlacedVoice
    <2>2. Emitted(c)[1] = w /\ ~\E i \in 2 .. Len(Emitted(c)) : TRUE
      BY <2>1
    <2>3. Shadow' = [v \in Voice |-> [state |-> voices'[v].state, step |-> voices'[v].step]]
      BY DEF Shadow
    <2>4. CASE c.op = "note_on"
      <3>1. voices' = [voices EXCEPT ![w.voice] = [step |-> c.value, state |-> "sounding", stamp |-> tick]]
        BY <1>3, <2>4 DEF Apply, Take
      <3> HIDE DEF w
      <3>2. ASSUME NEW v \in Voice
            PROVE  [state |-> voices'[v].state, step |-> voices'[v].step]
                   = IF w.voice = v THEN [state |-> "sounding", step |-> w.value] ELSE Shadow[v]
        BY <1>1, <2>1, <3>1 DEF Stamped
      <3>3. Heard(Shadow, w) = [v \in Voice |-> IF w.voice = v THEN [state |-> "sounding", step |-> w.value]
                                                ELSE Shadow[v]]
        BY <2>1, <2>4 DEF Heard
      <3>4. QED BY <1>3, <2>2, <2>3, <3>2, <3>3
    <2>5. CASE c.op = "note_off"
      <3>1. LetGo(w.voice)
        BY <1>3, <2>5 DEF Apply
      <3> HIDE DEF w
      <3>2. ASSUME NEW v \in Voice
            PROVE  [state |-> voices'[v].state, step |-> voices'[v].step]
                   = IF w.voice = v /\ Shadow[v].state = "sounding"
                       THEN [Shadow[v] EXCEPT !.state = "releasing"] ELSE Shadow[v]
        <4>1. CASE voices[w.voice].state = "sounding"
          <5>1. voices' = [voices EXCEPT ![w.voice].state = "releasing", ![w.voice].stamp = tick]
            BY <3>1, <4>1 DEF LetGo
          <5>2. CASE v = w.voice
            <6>1. voices'[v].state = "releasing" /\ voices'[v].step = voices[v].step
              BY <2>1, <5>1, <5>2 DEF Stamped
            <6>2. [Shadow[v] EXCEPT !.state = "releasing"] = [state |-> "releasing", step |-> voices[v].step]
                  /\ Shadow[v].state = "sounding"
              BY <1>1, <4>1, <5>2
            <6>3. QED BY <5>2, <6>1, <6>2
          <5>3. CASE v # w.voice
            BY <1>1, <5>1, <5>3 DEF Stamped
          <5>4. QED BY <5>2, <5>3
        <4>2. CASE voices[w.voice].state # "sounding"
          <5>1. voices' = voices
            BY <3>1, <4>2 DEF LetGo
          <5>2. ~(w.voice = v /\ Shadow[v].state = "sounding")
            BY <1>1, <4>2
          <5>3. QED BY <1>1, <5>1, <5>2
        <4>3. QED BY <4>1, <4>2
      <3>3. Heard(Shadow, w) = [v \in Voice |-> IF w.voice = v /\ Shadow[v].state = "sounding"
                                                  THEN [Shadow[v] EXCEPT !.state = "releasing"] ELSE Shadow[v]]
        BY <2>1, <2>5 DEF Heard
      <3>4. QED BY <1>3, <2>2, <2>3, <3>2, <3>3
    <2>6. QED BY <1>3, <2>4, <2>5
  <1>4. QED BY <1>2, <1>3

\* Words handed back tell the voices what has just become of the shadow.
LEMMA ToldMore ==
  ASSUME PathTypes, Foretold, out \in Seq(Command), NEW E \in Seq(Command), out' = out \o E,
         UNCHANGED <<fifo, holding, valid, told>>,
         E = << >> => Shadow' = Shadow,
         E # << >> => Shadow' = Heard(Shadow, E[1]),
         \A i \in 2 .. Len(E) : Heard(Shadow', E[i]) = Shadow'
  PROVE  Foretold'
  <1>1. PICK U \in Seq(Command), V \in Seq(Command) : U = UnderWay /\ V = UnderWay' /\ V = U \o E
    <2>1. UnderWay' = UnderWay \o E /\ UnderWay \in Seq(Command)
      BY MoreWords, WordsShape
    <2>2. UnderWay \o E \in Seq(Command)
      BY <2>1, ConcatProperties
    <2>3. QED BY <2>1, <2>2
  <1>2. PICK s, r : s = Shadow /\ r = Shadow'
    OBVIOUS
  <1>3. PICK F : Tells(F, told, U, s)
    BY <1>1, <1>2 DEF Foretold
  <1>4. ASSUME NEW G, Tells(G, told, V, r) PROVE Foretold'
    <2>1. Tells(G, told', UnderWay', Shadow')
      BY <1>1, <1>2, <1>4
    <2>2. Tells(G, told, UnderWay, Shadow)'
      BY <2>1 DEF Tells, Heard
    <2>3. QED BY <2>2 DEF Foretold
  <1>5. CASE E = << >>
    <2>1. V = U
      BY <1>1, <1>5, ConcatEmptySeq
    <2>2. QED BY <1>2, <1>3, <1>4, <1>5, <2>1
  <1>6. CASE E # << >>
    <2>1. /\ Len(V) = Len(U) + Len(E) /\ Len(U) \in Nat /\ Len(E) \in Nat
          /\ \A i \in 1 .. Len(U) + Len(E) : V[i] = IF i <= Len(U) THEN U[i] ELSE E[i - Len(U)]
      BY <1>1, Joined
    <2>2. PICK n \in Nat, m \in Nat : n = Len(U) /\ m = Len(E) /\ m > 0
      BY <1>6, <2>1, EmptySeq
    <2>3. ASSUME NEW i \in 1 .. m PROVE V[n + i] = E[i]
      <3>1. n + i \in 1 .. n + m /\ ~(n + i <= n) /\ (n + i) - n = i
        BY <2>2
      <3>2. QED BY <2>1, <2>2, <3>1
    <2>4. r = Heard(s, V[n + 1])
      <3>1. 1 \in 1 .. m
        BY <2>2
      <3>2. V[n + 1] = E[1]
        BY <2>3, <3>1
      <3>3. QED BY <1>2, <1>6, <3>2
    <2>5. ASSUME NEW i \in n + 2 .. n + m PROVE Heard(r, V[i]) = r
      <3>1. i - n \in 1 .. m /\ i - n \in 2 .. m /\ n + (i - n) = i
        BY <2>2
      <3>2. V[n + (i - n)] = E[i - n]
        BY <2>3, <3>1
      <3>3. QED BY <1>2, <2>2, <3>1, <3>2
    <2>6. \A i \in 1 .. n : V[i] = U[i]
      BY <2>1, <2>2
    <2>7. Adds(U, V, s, r)
      BY <2>1, <2>2, <2>4, <2>5, <2>6 DEF Adds
    <2>8. \E G : Tells(G, told, V, r)
      BY <1>3, <2>7, TellMore
    <2>9. QED BY <1>4, <2>8
  <1>7. QED BY <1>5, <1>6
LEMMA SameTold ==
  ASSUME Foretold, UnderWay' = UnderWay, told' = told, voices' = voices PROVE Foretold'
  <1>1. PICK F : Tells(F, told, UnderWay, Shadow)
    BY DEF Foretold
  <1>2. Shadow' = Shadow
    BY DEF Shadow
  <1>3. Tells(F, told', UnderWay', Shadow')
    BY <1>1, <1>2
  <1>4. Tells(F, told, UnderWay, Shadow)'
    BY <1>3 DEF Tells, Heard
  <1>5. QED BY <1>4 DEF Foretold

LEMMA HearForetold == ASSUME FutureInv, NEW c \in Commands, Hear(c) PROVE Foretold'
  <1>1. /\ c \in Command /\ out = << >> /\ Stamped /\ PathTypes /\ Foretold /\ << >> \in Seq(Command)
        /\ UNCHANGED <<fifo, holding, valid, told>> /\ out \in Seq(Command)
    BY ControlAssumption, EmptySeq DEF FutureInv, PathInv, IInv, Hear, Receive, engine
  <1>2. CASE ClearSchedule(c) \/ Hold(c)
    <2>1. voices' = voices /\ out' = out
      BY <1>2 DEF ClearSchedule, Hold
    <2>2. UnderWay' = UnderWay
      BY <1>1, <2>1 DEF UnderWay
    <2>3. QED BY <1>1, <2>1, <2>2, SameTold
  <1>3. CASE ResetNow(c)
    <2>1. out' = <<c>> /\ c.op = "reset" /\ voices' = [v \in Voice |-> Blank]
      BY <1>3 DEF ResetNow
    <2>2. PICK E \in Seq(Command) : E = <<c>> /\ E # << >> /\ E[1] = c /\ Len(E) = 1
      <3>1. <<c>> \in Seq(Command) /\ <<c>>[1] = c /\ Len(<<c>>) = 1
        BY <1>1
      <3>2. <<c>> # << >>
        BY <3>1, EmptySeq
      <3>3. QED BY <3>1, <3>2
    <2>3. out' = out \o E
      BY <1>1, <2>1, <2>2, ConcatEmptySeq
    <2>4. Shadow' = [v \in Voice |-> [state |-> "idle", step |-> 0]]
      BY <2>1 DEF Shadow, Blank
    <2>5. Heard(Shadow, c) = [v \in Voice |-> [state |-> "idle", step |-> 0]]
      BY <2>1 DEF Heard
    <2>6. ~\E i \in 2 .. Len(E) : TRUE
      BY <2>2
    <2>7. E # << >> /\ Shadow' = Heard(Shadow, E[1])
      BY <2>2, <2>4, <2>5
    <2>8. QED BY <1>1, <2>3, <2>6, <2>7, ToldMore
  <1>4. CASE ApplyNow(c)
    <2>1. Apply(c) /\ c.op # "reset"
      BY <1>4 DEF ApplyNow
    <2>2. Emitted(c) \in Seq(Command) /\ out' = out \o Emitted(c)
      BY <1>1, <2>1, WhatApplyEmits DEF Apply
    <2>3. /\ Emitted(c) = << >> => Shadow' = Shadow
          /\ Emitted(c) # << >> => Shadow' = Heard(Shadow, Emitted(c)[1])
          /\ \A i \in 2 .. Len(Emitted(c)) : Heard(Shadow', Emitted(c)[i]) = Shadow'
      BY <1>1, <2>1, ApplyTells
    <2>4. QED BY <1>1, <2>2, <2>3, ToldMore
  <1>5. QED BY <1>2, <1>3, <1>4 DEF Hear, Receive

LEMMA TurnForetold == ASSUME FutureInv, Turn PROVE Foretold'
  <1> DEFINE e == Head(events)
             c == [e.command EXCEPT !.delay = DelayTo(e.time)]
  <1>1. /\ events # << >> /\ events \in Seq(Event) /\ out \in Seq(Command) /\ Stamped /\ Types /\ InSight
        /\ UNCHANGED <<fifo, holding, valid, told>> /\ PathTypes /\ Foretold /\ NoResets
    BY DEF FutureInv, PathInv, IInv, Types, Turn, DispatchNext, MoreDue, engine
  <1>2. e \in Event /\ e = events[1] /\ 1 \in 1 .. Len(events)
    BY <1>1, HeadTailProperties, EmptySeq
  <1>3. e.time \in Time /\ e.command \in Command /\ e.command.op # "reset" /\ Rel(e.time) \in -MaxAhead .. Window
    <2>1. Rel(e.time) <= Window
      BY DEF Turn, DispatchNext, MoreDue, Rel
    <2>2. Rel(e.time) \in -MaxAhead .. MaxAhead
      BY <1>1, <1>2 DEF InSight
    <2>3. e.command.op # "reset"
      BY <1>1, <1>2 DEF NoResets
    <2>4. QED BY <1>2, <2>1, <2>2, <2>3, TimeFacts DEF Event
  <1>4. DelayTo(e.time) \in Delay
    BY <1>1, <1>3, Landing
  <1>5. c \in Command /\ c.op # "reset"
    BY <1>3, <1>4 DEF Command
  <1>6. Apply(c)
    BY DEF Turn, DispatchNext
  <1> HIDE DEF c, e
  <1>7. Emitted(c) \in Seq(Command) /\ out' = out \o Emitted(c)
    BY <1>1, <1>5, <1>6, WhatApplyEmits DEF Apply
  <1>8. /\ Emitted(c) = << >> => Shadow' = Shadow
        /\ Emitted(c) # << >> => Shadow' = Heard(Shadow, Emitted(c)[1])
        /\ \A i \in 2 .. Len(Emitted(c)) : Heard(Shadow', Emitted(c)[i]) = Shadow'
    BY <1>1, <1>5, <1>6, ApplyTells
  <1>9. QED BY <1>1, <1>7, <1>8, ToldMore

LEMMA SampleForetold == ASSUME FutureInv, Sample PROVE Foretold'
  <1>1. /\ PathTypes /\ Foretold /\ out \in Seq(Command) /\ voices' = voices
        /\ told' = IF Lands THEN Heard(told, holding) ELSE told
    BY DEF FutureInv, PathInv, IInv, Types, Sample, vars
  <1>2. /\ UnderWay \in Seq(Command) /\ Behind \in Seq(Command)
        /\ UnderWay' = IF Lands THEN Behind ELSE UnderWay
        /\ Lands => UnderWay = <<holding>> \o Behind /\ holding \in Command
    BY <1>1, WordsShape, SampleWords DEF PathTypes, Lands
  <1>3. CASE ~Lands
    BY <1>1, <1>2, <1>3, SameTold
  <1>4. CASE Lands
    <2>1. PICK F, s : Tells(F, told, UnderWay, s) /\ s = Shadow
      BY <1>1 DEF Foretold
    <2>2. /\ Len(UnderWay) = Len(Behind) + 1 /\ UnderWay[1] = holding
          /\ \A i \in 1 .. Len(Behind) : UnderWay[i + 1] = Behind[i]
      BY <1>2, <1>4, Cons
    <2>3. PICK G : Tells(G, Heard(told, UnderWay[1]), Behind, s)
      BY <1>2, <2>1, <2>2, TellLanded
    <2>4. Shadow' = Shadow
      BY <1>1 DEF Shadow
    <2>5. Tells(G, told', UnderWay', Shadow')
      BY <1>1, <1>2, <1>4, <2>1, <2>2, <2>3, <2>4
    <2>6. Tells(G, told, UnderWay, Shadow)'
      BY <2>5 DEF Tells, Heard
    <2>7. QED BY <2>6 DEF Foretold
  <1>5. QED BY <1>3, <1>4

LEMMA ResetsUnheld == ASSUME FutureInv, [PathNext]_allVars PROVE NoResets'
  <1>1. events \in Seq(Event) /\ NoResets /\ Len(events) \in Nat
    BY LenProperties DEF FutureInv, PathInv, IInv, Types
  <1>2. ASSUME events' = events PROVE NoResets'
    BY <1>1, <1>2 DEF NoResets
  <1>3. ASSUME events' = << >> PROVE NoResets'
    BY <1>3 DEF NoResets
  <1>4. ASSUME NEW c \in Commands, Hear(c) PROVE NoResets'
    <2>1. c \in Command
      BY ControlAssumption
    <2>2. CASE ClearSchedule(c) \/ ResetNow(c)
      BY <1>3, <2>2 DEF ClearSchedule, ResetNow
    <2>3. CASE Hold(c)
      <3> DEFINE e == [time |-> Plus(anchor, c.delay, TimeMod), command |-> [c EXCEPT !.delay = 0]]
      <3>1. events' = events \/ events' = Append(events, e)
        BY <2>3 DEF Hold
      <3>2. e.command.op # "reset"
        BY <2>1, <2>3 DEF Hold, Command
      <3> HIDE DEF e
      <3>3. ASSUME events' = Append(events, e) PROVE NoResets'
        <4>1. Len(events') = Len(events) + 1 /\ events'[Len(events) + 1] = e
              /\ \A i \in 1 .. Len(events) : events'[i] = events[i]
          BY <1>1, <3>3, AppendProperties
        <4>2. QED BY <1>1, <3>2, <4>1 DEF NoResets
      <3>4. QED BY <1>2, <3>1, <3>3
    <2>4. CASE ApplyNow(c)
      BY <1>2, <2>4 DEF ApplyNow, schedule
    <2>5. QED BY <1>4, <2>2, <2>3, <2>4 DEF Hear, Receive
  <1>5. ASSUME Turn PROVE NoResets'
    <2>1. events # << >> /\ events' = Tail(events)
      BY <1>5 DEF Turn, DispatchNext, MoreDue
    <2>2. Len(events') = Len(events) - 1 /\ \A i \in 1 .. Len(events') : events'[i] = events[i + 1]
      BY <1>1, <2>1, HeadTailProperties
    <2>3. \A i \in 1 .. Len(events') : i + 1 \in 1 .. Len(events)
      BY <1>1, <2>2
    <2>4. QED BY <1>1, <2>2, <2>3 DEF NoResets
  <1>6. ASSUME \/ \E k \in Offsets : Anchor(k)
               \/ Dispatch \/ Return \/ PushWord \/ Sample \/ UNCHANGED allVars
        PROVE  events' = events
    BY <1>6 DEF Anchor, ScheduleAt, Dispatch, CallDispatch, Return, EndDispatch, PushWord, EmitOne, Sample,
                allVars, vars, schedule
  <1>7. QED BY <1>2, <1>4, <1>5, <1>6 DEF PathNext

LEMMA InitFuture == PathInit => FutureInv
  <1> SUFFICES ASSUME PathInit PROVE FutureInv
    OBVIOUS
  <1>1. /\ valid = FALSE /\ fifo = << >> /\ out = << >> /\ events = << >>
        /\ told = [v \in Voice |-> [state |-> "idle", step |-> 0]] /\ voices = [v \in Voice |-> Blank]
    BY DEF PathInit, Init
  <1>2. UnderWay = << >> /\ Len(<< >>) = 0
    <2>1. UnderWay = (<< >> \o << >>) \o << >>
      BY <1>1 DEF UnderWay
    <2>2. << >> \in Seq(Command)
      BY EmptySeq
    <2>3. QED BY <2>1, <2>2, ConcatEmptySeq, EmptySeq
  <1>3. Shadow = told
    BY <1>1 DEF Shadow, Blank
  <1> DEFINE F == [i \in 0 .. 0 |-> told]
  <1>4. F[0] = told /\ F = [i \in 0 .. 0 |-> F[i]]
    OBVIOUS
  <1> HIDE DEF F
  <1>5. Tells(F, told, UnderWay, Shadow)
    BY <1>2, <1>3, <1>4 DEF Tells
  <1>6. NoResets
    BY <1>1 DEF NoResets
  <1>7. QED BY <1>5, <1>6, InitPath DEF FutureInv, Foretold

LEMMA NextFuture == ASSUME FutureInv, [PathNext]_allVars PROVE FutureInv'
  <1>1. PathInv' /\ NoResets'
    BY NextPath, ResetsUnheld DEF FutureInv
  <1>2. PathTypes /\ Foretold /\ out \in Seq(Command)
    BY DEF FutureInv, PathInv, IInv, Types
  <1>3. ASSUME \/ \E k \in Offsets : Anchor(k)
               \/ Dispatch \/ Return \/ UNCHANGED allVars
        PROVE  Foretold'
    <2>1. UNCHANGED <<valid, holding, fifo, out, told, voices>>
      BY <1>3 DEF Anchor, ScheduleAt, Dispatch, CallDispatch, Return, EndDispatch, allVars, vars, engine
    <2>2. UnderWay' = UnderWay
      BY <2>1 DEF UnderWay
    <2>3. QED BY <1>2, <2>1, <2>2, SameTold
  <1>4. ASSUME NEW c \in Commands, Hear(c) PROVE Foretold'
    BY <1>4, HearForetold
  <1>5. ASSUME Turn PROVE Foretold'
    BY <1>5, TurnForetold
  <1>6. ASSUME PushWord PROVE Foretold'
    <2>1. UnderWay' = UnderWay
      BY <1>2, <1>6, PushKeepsWords
    <2>2. told' = told /\ voices' = voices
      BY <1>6 DEF PushWord, EmitOne
    <2>3. QED BY <1>2, <2>1, <2>2, SameTold
  <1>7. ASSUME Sample PROVE Foretold'
    BY <1>7, SampleForetold
  <1>8. QED BY <1>1, <1>3, <1>4, <1>5, <1>6, <1>7 DEF PathNext, FutureInv

\* What the allocator believes of every voice is what the voice does once all
\* that is under way has landed, for every pool and FIFO (control.c 66-75,
\* 163-225).
THEOREM AlwaysTheFuture == PathSpec => []ShadowIsTheFuture
  <1>1. PathInit => FutureInv
    BY InitFuture
  <1>2. FutureInv /\ [PathNext]_allVars => FutureInv'
    BY NextFuture
  <1>3. FutureInv => ShadowIsTheFuture
    <2> SUFFICES ASSUME FutureInv PROVE ShadowIsTheFuture
      OBVIOUS
    <2>1. PICK F, s : Tells(F, told, UnderWay, s) /\ s = Shadow
      BY DEF FutureInv, Foretold
    <2>2. UnderWay \in Seq(Command)
      BY WordsShape DEF FutureInv, PathInv, IInv, Types
    <2>3. Future[Len(UnderWay)] = s
      BY <2>1, <2>2, FutureIs
    <2>4. QED BY <2>1, <2>3 DEF ShadowIsTheFuture, Shadow
  <1>4. QED BY <1>1, <1>2, <1>3, PTL DEF PathSpec
=============================================================================
