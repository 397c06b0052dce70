----------------------------- MODULE EngineProof -----------------------------
(***************************************************************************)
(* Engine's invariants and its refinement of SampleEngine, for any number  *)
(* of voices and any sample longer than the walk: the design's 8 and 525   *)
(* are out of a model checker's reach.                                     *)
(***************************************************************************)
EXTENDS Engine, WellFoundedInduction, TLAPS

\* What is parked for a voice there is, is parked for one still to be walked.
StillAhead == pendValid /\ pend.voice \in Voice => At <= 2 * pend.voice

IInv == TypeOK /\ InStep /\ StillAhead

-----------------------------------------------------------------------------
LEMMA QuietIsAValue == Quiet \in Values
<1>1. \E v \in Values : \A w \in Values : v <= w
  <2>1. \A w \in Values : w \in Nat /\ 0 <= w
    BY EngineAssumption
  <2> QED
    BY <2>1, EngineAssumption
<1> QED
  BY <1>1 DEF Quiet

LEMMA CommandFields ==
  ASSUME NEW c \in Commands
  PROVE  c.value \in Values /\ c.delay \in Nat /\ c.voice \in Nat /\ LoadDelay(c) \in Nat
BY EngineAssumption DEF Command, LoadDelay

\* A walk under way at a strobe is in its last half.
LEMMA OverByTheStrobe ==
  ASSUME TypeOK, InStep, busy, clock = 0
  PROVE  LastHalf
<1>1. slot \in Nat /\ slot <= VoiceCount - 1 /\ sub \in {0, 1} /\ 2 * slot + sub + 2 = Period
  BY EngineAssumption DEF TypeOK, InStep, At, Voice
<1> QED
  BY <1>1, EngineAssumption DEF LastHalf

LEMMA InitIInv == Init => IInv
<1> SUFFICES ASSUME Init PROVE IInv
  OBVIOUS
<1>1. << >> \in Seq(Commands) /\ Len(<< >>) = 0 /\ 0 \in Voice
  BY EngineAssumption DEF Voice
<1>2. holding \in Commands /\ command \in Commands /\ pend \in Commands
  BY DEF Init
<1>3. voices \in [Voice -> Values] /\ setting \in Values
  BY QuietIsAValue DEF Init
<1>4. TypeOK
  <2>1. clock \in 0 .. Period - 1 /\ delay \in Nat /\ sub \in {0, 1} /\ slot \in Voice
    BY <1>1 DEF Init
  <2>2. fifo \in Seq(Commands) /\ Len(fifo) <= Depth
    BY <1>1, EngineAssumption DEF Init
  <2>3. /\ valid \in BOOLEAN /\ apply \in BOOLEAN /\ start \in BOOLEAN
        /\ busy \in BOOLEAN /\ pendValid \in BOOLEAN
    BY DEF Init
  <2>4. hold \in Nat /\ acc \in Nat /\ sample \in 0 .. Peak /\ before \in [Voice -> Values]
    BY <1>3, EngineAssumption DEF Init
  <2> QED
    BY <1>2, <1>3, <2>1, <2>2, <2>3, <2>4 DEF TypeOK
<1>5. InStep /\ StillAhead
  BY DEF Init, InStep, StillAhead
<1> QED
  BY <1>4, <1>5 DEF IInv

LEMMA PushIInv ==
  ASSUME IInv, NEW c \in Commands, Push(c)
  PROVE  IInv'
<1>1. Append(fifo, c) \in Seq(Commands) /\ Len(Append(fifo, c)) <= Depth
  BY EngineAssumption DEF IInv, TypeOK, Push
<1> QED
  BY <1>1 DEF IInv, TypeOK, InStep, StillAhead, Push, walk, mix, At

LEMMA CycleType ==
  ASSUME IInv, Cycle
  PROVE  TypeOK'
<1> USE DEF IInv, TypeOK
<1>1. clock' \in 0 .. Period - 1
  BY EngineAssumption DEF Cycle
<1>2. /\ apply' \in BOOLEAN /\ command' \in Commands /\ holding' \in Commands
      /\ delay' \in Nat /\ valid' \in BOOLEAN
      /\ fifo' \in Seq(Commands) /\ Len(fifo') <= Depth
  <2>1. CASE Due /\ fifo # << >>
    <3>1. Head(fifo) \in Commands /\ Tail(fifo) \in Seq(Commands) /\ Len(Tail(fifo)) <= Depth
      BY <2>1, EngineAssumption
    <3> QED
      BY <2>1, <3>1, CommandFields DEF Cycle, SchedulerCycle, Due
  <2>2. CASE ~(Due /\ fifo # << >>)
    <3>1. /\ delay' = IF Strobe /\ valid /\ delay # 0 THEN delay - 1 ELSE delay
          /\ valid' = IF Due THEN FALSE ELSE valid
          /\ fifo' = fifo /\ holding' = holding
          /\ apply' = (Due /\ valid) /\ command' = IF Due /\ valid THEN holding ELSE command
      BY <2>2 DEF Cycle, SchedulerCycle
    <3>2. delay' \in Nat
      BY <3>1
    <3> QED
      BY <3>1, <3>2
  <2> QED
    BY <2>1, <2>2
<1>3. start' \in BOOLEAN /\ busy' \in BOOLEAN /\ slot' \in Voice /\ sub' \in {0, 1}
  <2>1. start' \in BOOLEAN /\ busy' \in BOOLEAN
    BY DEF Cycle, WalkCycle
  <2>2. sub' \in {0, 1}
    BY DEF Cycle, WalkCycle
  <2>3. slot' \in Voice
    BY EngineAssumption DEF Cycle, WalkCycle, Begin, LastHalf, Voice
  <2> QED
    BY <2>1, <2>2, <2>3
<1>4. pendValid' \in BOOLEAN /\ pend' \in Commands
  BY DEF Cycle, ParkCycle
<1>5. voices' \in [Voice -> Values] /\ setting' \in Values
  BY QuietIsAValue, CommandFields DEF Cycle, BankCycle
<1>6. hold' \in Nat /\ acc' \in Nat /\ sample' \in 0 .. Peak /\ before' \in [Voice -> Values]
  <2>1. voices[slot] \in Nat /\ Total \in Nat /\ Total * setting \in Nat
    <3>1. voices[slot] \in Values /\ Values \subseteq Nat
      BY EngineAssumption
    <3>2. setting \in Values /\ acc \in Nat /\ hold \in Nat
      OBVIOUS
    <3>4. Total \in Nat
      BY <3>2 DEF Total
    <3>3. \A a, b \in Nat : a * b \in Nat
      OBVIOUS
    <3> QED
      BY <3>1, <3>2, <3>3, <3>4
  <2>2. Clipped(Total * setting) \in 0 .. Peak
    BY <2>1, EngineAssumption DEF Clipped
  <2>3. hold' \in Nat /\ acc' \in Nat /\ sample' \in 0 .. Peak
    BY <2>1, <2>2 DEF Cycle, MixCycle
  <2>4. before' \in [Voice -> Values]
    BY <1>5 DEF Cycle, MixCycle
  <2> QED
    BY <2>3, <2>4
<1> QED
  BY <1>1, <1>2, <1>3, <1>4, <1>5, <1>6

LEMMA CycleInStep ==
  ASSUME IInv, Cycle
  PROVE  InStep' /\ StillAhead'
<1> USE DEF IInv
<1>0. /\ clock \in Nat /\ clock <= Period - 1 /\ slot \in Nat /\ slot <= VoiceCount - 1
      /\ sub \in {0, 1} /\ VoiceCount \in Nat /\ Period \in Nat /\ Period > 2 * VoiceCount
      /\ VoiceCount > 0
      /\ busy \in BOOLEAN /\ start \in BOOLEAN /\ apply \in BOOLEAN /\ pendValid \in BOOLEAN
  BY EngineAssumption DEF TypeOK, Voice
<1>1. /\ clock' = IF clock = Period - 1 THEN 0 ELSE clock + 1
      /\ start' = IF Begin THEN FALSE ELSE IF clock = 0 THEN TRUE ELSE start
      /\ busy' = IF LastHalf THEN FALSE ELSE IF Begin THEN TRUE ELSE busy
      /\ sub' = IF busy THEN 1 - sub ELSE IF Begin THEN 0 ELSE sub
      /\ slot' = IF busy /\ sub = 1 /\ ~LastHalf THEN slot + 1 ELSE IF Begin THEN 0 ELSE slot
      /\ apply' = (clock = 0 /\ (~valid \/ delay = 0) /\ valid)
  BY DEF Cycle, WalkCycle, SchedulerCycle, Due, Strobe
<1>2. busy' => At' + 2 = clock' \/ (At' + 2 = Period /\ clock' = 0)
  <2>1. CASE busy
    BY <1>0, <1>1, <2>1, OverByTheStrobe DEF InStep, At, LastHalf, Begin
  <2>2. CASE ~busy
    <3>1. SUFFICES ASSUME Begin PROVE At' + 2 = clock'
      BY <1>1, <2>2
    <3>2. slot' = 0 /\ sub' = 0 /\ clock = 1
      BY <1>1, <2>2, <3>1 DEF Begin, InStep
    <3>3. clock' = 2
      BY <1>0, <1>1, <3>2
    <3> QED
      BY <3>2, <3>3 DEF At
  <2> QED
    BY <2>1, <2>2
<1>3. start' => clock' = 1 /\ ~busy'
  <2>1. CASE clock = 0
    <3>1. ~Begin /\ ~busy' /\ clock' = 1
      BY <1>0, <1>1, <2>1, OverByTheStrobe DEF InStep, Begin
    <3> QED
      BY <3>1
  <2>2. CASE clock # 0
    BY <1>0, <1>1, <2>2 DEF InStep, Begin
  <2> QED
    BY <2>1, <2>2
<1>4. apply' => clock' = 1 /\ start'
  BY <1>0, <1>1 DEF InStep, Begin
<1>5. pendValid' => busy'
  BY <1>0, <1>1 DEF InStep, Begin, Cycle, ParkCycle, LastHalf
<1>6. StillAhead'
  <2>1. CASE apply
    BY <1>0, <1>1, <2>1 DEF InStep, Begin, StillAhead, At, Cycle, ParkCycle, Voice, LastHalf
  <2>2. CASE ~apply
    <3> SUFFICES ASSUME pendValid', pend'.voice \in Voice PROVE At' <= 2 * pend'.voice
      BY DEF StillAhead, Voice
    <3>1. pend' = pend /\ pendValid /\ ~Meets /\ ~LastHalf /\ busy
      BY <2>2 DEF Cycle, ParkCycle, InStep, TypeOK
    <3>2. At <= 2 * pend.voice /\ pend.voice \in Nat
      BY <3>1 DEF StillAhead, Voice
    <3>3. At' = At + 1
      <4>1. CASE sub = 0
        BY <1>0, <1>1, <3>1, <4>1 DEF At, Begin
      <4>2. CASE sub = 1
        BY <1>0, <1>1, <3>1, <4>2 DEF At, Begin
      <4> QED
        BY <1>0, <4>1, <4>2
    <3>4. At # 2 * pend.voice
      BY <1>0, <3>1, <3>2 DEF At, Meets
    <3> QED
      BY <1>0, <3>1, <3>2, <3>3, <3>4 DEF At
  <2> QED
    BY <2>1, <2>2
<1> QED
  BY <1>2, <1>3, <1>4, <1>5, <1>6 DEF InStep

LEMMA NextIInv == IInv /\ [Next]_vars => IInv'
<1> SUFFICES ASSUME IInv, [Next]_vars PROVE IInv'
  OBVIOUS
<1>1. CASE Cycle
  BY <1>1, CycleType, CycleInStep DEF IInv
<1>2. ASSUME NEW c \in Commands, Push(c) PROVE IInv'
  BY <1>2, PushIInv
<1>3. CASE UNCHANGED vars
  BY <1>3 DEF IInv, TypeOK, InStep, StillAhead, At, vars
<1> QED
  BY <1>1, <1>2, <1>3 DEF Next

LEMMA Inductive == Spec => []IInv
<1> QED
  BY InitIInv, NextIInv, PTL DEF Spec

-----------------------------------------------------------------------------
\* The registers keep their ranges and the walk its step with the strobe.
THEOREM StaysInStep == Spec => [](TypeOK /\ InStep)
<1>1. IInv => TypeOK /\ InStep
  BY DEF IInv
<1> QED
  BY <1>1, Inductive, PTL

\* No command reaches the bank while a walk is under way (voice.py 115-120).
THEOREM NeverARace == Spec => []NoRace
<1>1. IInv => NoRace
  BY DEF IInv, NoRace, InStep
<1> QED
  BY <1>1, Inductive, PTL

\* At a strobe nothing that names a voice is still on its way to it.
LEMMA ClearAtTheStrobe ==
  ASSUME IInv, Strobe
  PROVE  ~apply /\ (pendValid => pend.voice \notin Voice)
<1>1. ~apply
  BY DEF IInv, InStep, Strobe
<1>2. ASSUME pendValid, pend.voice \in Voice PROVE FALSE
  <2>1. busy /\ LastHalf
    BY <1>2, OverByTheStrobe DEF IInv, InStep, Strobe
  <2>2. pend.voice \in Nat /\ pend.voice <= VoiceCount - 1 /\ VoiceCount \in Nat
    BY <1>2, EngineAssumption DEF Voice
  <2> QED
    BY <1>2, <2>1, <2>2 DEF IInv, StillAhead, At, LastHalf
<1> QED
  BY <1>1, <1>2

\* Every command takes effect in the walk of its own sample (voice.py 334-342,
\* 386-432), however many voices there are.
THEOREM LandsInTime == Spec => []LandsInItsSample
<1>1. IInv => LandsInItsSample
  BY ClearAtTheStrobe DEF LandsInItsSample
<1> QED
  BY <1>1, Inductive, PTL

-----------------------------------------------------------------------------
\* The abstract engine's steps, for what each kind of cycle does.
LEMMA InitRefines == Init => S!Init
BY DEF Init, S!Init, Told, SetTo, Quiet, S!Quiet

LEMMA PushRefines ==
  ASSUME NEW c \in Commands, Push(c)
  PROVE  S!Push(c)
BY DEF Push, S!Push, Told, SetTo, walk

LEMMA StrobeRefines ==
  ASSUME IInv, Cycle, Strobe
  PROVE  S!Sample
<1>1. ~apply /\ (pendValid => pend.voice \notin Voice)
  BY ClearAtTheStrobe
<1>2. busy => sub = 1 /\ LastHalf
  BY OverByTheStrobe DEF IInv, Strobe, LastHalf
<1>3. voices' = voices /\ setting' = setting /\ pend' = pend /\ (pendValid' => pendValid)
  BY <1>1, <1>2 DEF Cycle, BankCycle, ParkCycle, Meets, IInv, TypeOK
<1>4. Told = voices /\ SetTo = setting
  BY <1>1 DEF Told, SetTo, IInv, TypeOK
<1>5. /\ Told' = [v \in Voice |->
                    IF apply' /\ command'.op = "reset" THEN Quiet
                    ELSE IF apply' /\ command'.op = "note" /\ command'.voice = v THEN command'.value
                    ELSE voices[v]]
      /\ SetTo' = IF apply' /\ command'.op = "global" THEN command'.value ELSE setting
  BY <1>1, <1>3 DEF Told, SetTo
<1>6. CASE valid /\ delay # 0
  <2>1. ~Due /\ ~apply'
    BY <1>6 DEF Cycle, SchedulerCycle, Due
  <2>2. Told' = Told /\ SetTo' = SetTo
    BY <1>4, <1>5, <2>1 DEF IInv, TypeOK
  <2>3. S!CountDown
    BY <1>6, <2>1, <2>2 DEF S!CountDown, Cycle, SchedulerCycle, Strobe
  <2> QED
    BY <2>3 DEF S!Sample
<1>7. CASE valid /\ delay = 0
  <2>1. Due /\ apply' /\ command' = holding
    BY <1>7 DEF Cycle, SchedulerCycle, Due
  <2>2. S!Effect(holding)
    <3>1. Quiet = S!Quiet
      BY DEF Quiet, S!Quiet
    <3>2. /\ Told' = [v \in Voice |->
                        IF holding.op = "reset" THEN Quiet
                        ELSE IF holding.op = "note" /\ holding.voice = v THEN holding.value
                        ELSE Told[v]]
          /\ SetTo' = IF holding.op = "global" THEN holding.value ELSE SetTo
      BY <1>4, <1>5, <2>1
    <3>3. Told = [v \in Voice |-> Told[v]]
      BY <1>4 DEF IInv, TypeOK
    <3>4. CASE holding.op = "reset"
      BY <3>1, <3>2, <3>4 DEF S!Effect
    <3>5. CASE holding.op = "note"
      BY <3>2, <3>5 DEF S!Effect
    <3>6. CASE holding.op # "reset" /\ holding.op # "note"
      BY <3>2, <3>3, <3>6 DEF S!Effect
    <3> QED
      BY <3>4, <3>5, <3>6
  <2>3. S!Fetch
    BY <1>7, <2>1 DEF S!Fetch, S!Wait, Cycle, SchedulerCycle, LoadDelay
  <2>4. S!Land
    BY <1>7, <2>2, <2>3 DEF S!Land
  <2> QED
    BY <2>4 DEF S!Sample
<1>8. CASE ~valid
  <2>1. Due /\ ~apply'
    BY <1>8 DEF Cycle, SchedulerCycle, Due
  <2>2. Told' = Told /\ SetTo' = SetTo
    BY <1>4, <1>5, <2>1 DEF IInv, TypeOK
  <2>3. S!Fetch
    BY <1>8, <2>1 DEF S!Fetch, S!Wait, Cycle, SchedulerCycle, LoadDelay
  <2>4. S!Idle
    BY <1>8, <2>2, <2>3 DEF S!Idle
  <2> QED
    BY <2>4 DEF S!Sample
<1> QED
  BY <1>6, <1>7, <1>8 DEF IInv, TypeOK

LEMMA BetweenStrobes ==
  ASSUME IInv, Cycle, ~Strobe
  PROVE  UNCHANGED S!vars
<1>1. UNCHANGED <<fifo, holding, delay, valid, command>> /\ ~apply'
  BY DEF Cycle, SchedulerCycle, Due
<1>2. SetTo' = SetTo
  BY <1>1 DEF SetTo, Cycle, BankCycle
<1>3. Told' = Told
  <2> SUFFICES ASSUME NEW v \in Voice PROVE Told'[v] = Told[v]
    BY DEF Told
  <2>1. /\ Told[v] = IF apply /\ command.op = "reset" THEN Quiet
                     ELSE IF apply /\ command.op = "note" /\ command.voice = v THEN command.value
                     ELSE IF pendValid /\ pend.op = "note" /\ pend.voice = v THEN pend.value
                     ELSE voices[v]
        /\ Told'[v] = IF pendValid' /\ pend'.op = "note" /\ pend'.voice = v THEN pend'.value
                      ELSE voices'[v]
        /\ voices'[v] = IF Meets /\ pend.op = "note" /\ v = slot THEN pend.value
                        ELSE IF apply /\ command.op = "reset" THEN Quiet
                        ELSE voices[v]
    BY <1>1 DEF Told, Cycle, BankCycle
  <2>2. CASE apply
    <3>1. ~busy /\ ~pendValid
      BY <2>2 DEF IInv, InStep
    <3>2. pendValid' /\ pend' = command
      BY <2>2, <3>1 DEF Cycle, ParkCycle, LastHalf, Meets
    <3>3. command.op = "reset" => command.op # "note"
      OBVIOUS
    <3> QED
      BY <2>1, <2>2, <3>1, <3>2, <3>3 DEF Meets
  <2>3. CASE ~apply /\ Meets
    BY <2>1, <2>3 DEF Cycle, ParkCycle, Meets
  <2>4. CASE ~apply /\ ~Meets /\ LastHalf
    <3>1. ASSUME pendValid, pend.voice \in Voice PROVE FALSE
      BY <2>4, <3>1, EngineAssumption DEF IInv, TypeOK, StillAhead, At, LastHalf, Voice
    <3> QED
      BY <2>1, <2>4, <3>1 DEF Cycle, ParkCycle
  <2>5. CASE ~apply /\ ~Meets /\ ~LastHalf
    BY <2>1, <2>5 DEF Cycle, ParkCycle
  <2> QED
    BY <2>2, <2>3, <2>4, <2>5
<1> QED
  BY <1>1, <1>2, <1>3 DEF S!vars

\* The engine, cycle by cycle, implements the engine of samples: commands land
\* once, in order, the stated gap apart, where they are meant to.
THEOREM Refinement == Spec => IsSampleEngine
<1>1. IInv /\ [Next]_vars => [S!Next]_(S!vars)
  <2> SUFFICES ASSUME IInv, [Next]_vars PROVE [S!Next]_(S!vars)
    OBVIOUS
  <2>1. CASE Cycle
    BY <2>1, StrobeRefines, BetweenStrobes DEF S!Next
  <2>2. ASSUME NEW c \in Commands, Push(c) PROVE S!Next
    BY <2>2, PushRefines DEF S!Next
  <2>3. CASE UNCHANGED vars
    BY <2>3 DEF S!vars, Told, SetTo, vars
  <2> QED
    BY <2>1, <2>2, <2>3 DEF Next
<1> QED
  BY <1>1, InitRefines, Inductive, PTL DEF Spec, S!Spec, IsSampleEngine

-----------------------------------------------------------------------------
\* A nonempty set of naturals has a least element.
LEMMA LeastExists ==
  ASSUME NEW T, T \subseteq Nat, T # {}
  PROVE  \E x \in T : \A y \in T : x <= y
<1>1. PICK x \in T : \A y \in T : ~ (<<y, x>> \in OpToRel(<, Nat))
  BY NatLessThanWellFounded, WFMin
<1>2. \A y \in T : ~ (y < x)
  BY <1>1 DEF OpToRel
<1> QED
  BY <1>2

\* The sums of the first voices of b.
Sums(b, s, m) == /\ s \in [0 .. m -> Nat] /\ s[0] = 0
                 /\ \A n \in 1 .. m : s[n] = s[n - 1] + b[n - 1]

LEMMA SumsExist ==
  ASSUME NEW b \in [Voice -> Nat]
  PROVE  \A m \in 0 .. VoiceCount : \E s : Sums(b, s, m)
<1> SUFFICES ASSUME \E m \in 0 .. VoiceCount : ~\E s : Sums(b, s, m) PROVE FALSE
  OBVIOUS
<1> DEFINE D == {m \in 0 .. VoiceCount : ~\E s : Sums(b, s, m)}
<1>1. PICK m \in D : \A n \in D : m <= n
  <2>1. D \subseteq Nat /\ D # {}
    OBVIOUS
  <2> QED
    BY <2>1, LeastExists
<1>2. m \in 0 .. VoiceCount /\ VoiceCount \in Nat /\ ~\E s : Sums(b, s, m)
  BY EngineAssumption
<1>3. m # 0
  <2>1. [n \in 0 .. 0 |-> 0] \in [0 .. 0 -> Nat]
    OBVIOUS
  <2>2. Sums(b, [n \in 0 .. 0 |-> 0], 0)
    BY <2>1 DEF Sums
  <2> QED
    BY <1>2, <2>2
<1>4. PICK s : Sums(b, s, m - 1)
  <2>1. m - 1 \in 0 .. VoiceCount /\ ~(m <= m - 1)
    BY <1>2, <1>3
  <2> QED
    BY <1>1, <2>1
<1> DEFINE t == [n \in 0 .. m |-> IF n = m THEN s[m - 1] + b[m - 1] ELSE s[n]]
<1>5. s \in [0 .. m - 1 -> Nat] /\ s[m - 1] \in Nat /\ b[m - 1] \in Nat
  BY <1>2, <1>3, <1>4 DEF Sums, Voice
<1>6. t \in [0 .. m -> Nat] /\ \A n \in 0 .. m : t[n] = IF n = m THEN s[m - 1] + b[m - 1] ELSE s[n]
  BY <1>2, <1>3, <1>5
<1> HIDE DEF t
<1>7. t[0] = 0
  BY <1>2, <1>3, <1>4, <1>6 DEF Sums
<1>8. ASSUME NEW n \in 1 .. m PROVE t[n] = t[n - 1] + b[n - 1]
  <2>1. n \in 0 .. m /\ n - 1 \in 0 .. m /\ n - 1 # m
    BY <1>2
  <2>2. t[n - 1] = s[n - 1]
    BY <1>6, <2>1
  <2>3. CASE n = m
    BY <1>6, <2>1, <2>2, <2>3
  <2>4. CASE n # m
    <3>1. n \in 1 .. m - 1 /\ t[n] = s[n]
      BY <1>2, <1>6, <2>1, <2>4
    <3> QED
      BY <1>4, <2>2, <3>1 DEF Sums
  <2> QED
    BY <2>3, <2>4
<1>9. Sums(b, t, m)
  BY <1>6, <1>7, <1>8 DEF Sums
<1> QED
  BY <1>2, <1>9

LEMMA SumOfIsASum ==
  ASSUME NEW b \in [Voice -> Nat]
  PROVE  \E s : Sums(b, s, VoiceCount) /\ SumOf(b) = s[VoiceCount]
<1>1. VoiceCount \in Nat
  BY EngineAssumption
<1> DEFINE Step(f, n) == IF n = 0 THEN 0 ELSE f[n - 1] + b[n - 1]
           sum == CHOOSE f : f = [n \in 0 .. VoiceCount |-> Step(f, n)]
<1>2. PICK s : Sums(b, s, VoiceCount)
  BY <1>1, SumsExist
<1>3. s = [n \in 0 .. VoiceCount |-> Step(s, n)]
  BY <1>1, <1>2 DEF Sums
<1>4. SumOf(b) = sum[VoiceCount]
  BY DEF SumOf
<1>5. sum = [n \in 0 .. VoiceCount |-> Step(sum, n)]
  <2> HIDE DEF Step
  <2> QED
    BY <1>3, Zenon
<1> HIDE DEF sum
<1>6. \A n \in 0 .. VoiceCount : sum[n] = s[n]
  <2> SUFFICES ASSUME \E n \in 0 .. VoiceCount : sum[n] # s[n] PROVE FALSE
    OBVIOUS
  <2> DEFINE D == {n \in 0 .. VoiceCount : sum[n] # s[n]}
  <2>1. PICK n \in D : \A k \in D : n <= k
    <3>1. D \subseteq Nat /\ D # {}
      OBVIOUS
    <3> QED
      BY <3>1, LeastExists
  <2>2. n \in 0 .. VoiceCount /\ sum[n] # s[n] /\ sum[n] = Step(sum, n) /\ s[n] = Step(s, n)
    BY <1>3, <1>5
  <2>3. n # 0
    BY <2>2
  <2>4. n - 1 \in 0 .. VoiceCount /\ ~(n <= n - 1)
    BY <1>1, <2>2, <2>3
  <2>5. sum[n - 1] = s[n - 1]
    BY <2>1, <2>4
  <2> QED
    BY <2>2, <2>3, <2>5
<1> QED
  BY <1>1, <1>2, <1>4, <1>6

\* Where the mix stands.  The voices still to be walked are as the walk found
\* them, and those walked are in the accumulator.
Mixing == \E s : /\ Sums(before, s, VoiceCount) /\ SumOf(before) = s[VoiceCount]
                 /\ busy => /\ acc = s[slot]
                            /\ sub = 1 => hold = before[slot]
                            /\ \A v \in Voice : v > slot \/ (v = slot /\ sub = 0) => voices[v] = before[v]
                 /\ ~busy => sample = Clipped(SumOf(before) * setting)

LEMMA Primed ==
  ASSUME NEW s
  PROVE  SumOf(before)' = SumOf(before') /\ (Sums(before, s, VoiceCount)' <=> Sums(before', s, VoiceCount))
BY DEF SumOf, Sums

LEMMA CycleMixing == ASSUME IInv, Mixing, Cycle PROVE Mixing'
<1>0. /\ VoiceCount \in Nat /\ VoiceCount > 0 /\ slot \in Nat /\ slot <= VoiceCount - 1 /\ slot \in Voice
      /\ sub \in {0, 1} /\ busy \in BOOLEAN /\ (apply => start /\ ~busy)
      /\ before \in [Voice -> Nat] /\ voices \in [Voice -> Values] /\ before' \in [Voice -> Nat]
      /\ acc \in Nat /\ hold \in Nat
  <2>1. before \in [Voice -> Values] /\ before' \in [Voice -> Values] /\ Values \subseteq Nat
    BY CycleType, EngineAssumption DEF IInv, TypeOK
  <2>2. before \in [Voice -> Nat] /\ before' \in [Voice -> Nat]
    BY <2>1
  <2> QED
    BY <2>2, EngineAssumption DEF IInv, TypeOK, InStep, Voice
<1>1. /\ busy' = IF LastHalf THEN FALSE ELSE IF Begin THEN TRUE ELSE busy
      /\ sub' = IF busy THEN 1 - sub ELSE IF Begin THEN 0 ELSE sub
      /\ slot' = IF busy /\ sub = 1 /\ ~LastHalf THEN slot + 1 ELSE IF Begin THEN 0 ELSE slot
      /\ hold' = IF busy /\ sub = 0 THEN voices[slot] ELSE hold
      /\ acc' = IF busy /\ sub = 1 THEN acc + hold ELSE IF Begin THEN 0 ELSE acc
      /\ sample' = IF LastHalf THEN Clipped((acc + hold) * setting) ELSE sample
      /\ before' = IF Begin THEN voices' ELSE before
      /\ setting' = IF apply /\ command.op = "global" THEN command.value ELSE setting
      /\ voices' = [v \in Voice |-> IF Meets /\ pend.op = "note" /\ v = slot THEN pend.value
                                    ELSE IF apply /\ command.op = "reset" THEN Quiet
                                    ELSE voices[v]]
  BY DEF Cycle, WalkCycle, MixCycle, BankCycle, Total
<1>2. PICK s : /\ Sums(before, s, VoiceCount) /\ SumOf(before) = s[VoiceCount]
               /\ busy => /\ acc = s[slot]
                          /\ sub = 1 => hold = before[slot]
                          /\ \A v \in Voice : v > slot \/ (v = slot /\ sub = 0) => voices[v] = before[v]
               /\ ~busy => sample = Clipped(SumOf(before) * setting)
  BY DEF Mixing
<1>3. CASE Begin
  <2>1. ~busy /\ busy' /\ slot' = 0 /\ sub' = 0 /\ acc' = 0 /\ before' = voices'
    BY <1>1, <1>3 DEF Begin, LastHalf
  <2>2. PICK t : Sums(before', t, VoiceCount) /\ SumOf(before') = t[VoiceCount]
    BY <1>0, SumOfIsASum
  <2>3. Mixing'
    <3>1. t[0] = 0
      BY <2>2 DEF Sums
    <3> QED
      BY <2>1, <2>2, <3>1, Primed DEF Mixing
  <2> QED
    BY <2>3
<1>4. CASE ~Begin /\ ~busy
  <2>1. ~busy' /\ before' = before /\ sample' = sample /\ setting' = setting
    BY <1>0, <1>1, <1>4 DEF Begin, LastHalf
  <2>2. Sums(before', s, VoiceCount) /\ SumOf(before') = s[VoiceCount]
    BY <1>2, <2>1
  <2>3. sample' = Clipped(SumOf(before') * setting')
    BY <1>2, <1>4, <2>1
  <2> QED
    BY <2>1, <2>2, <2>3, Primed DEF Mixing, Clipped
<1>5. CASE busy
  <2>1. /\ ~Begin /\ ~apply /\ before' = before /\ setting' = setting
        /\ Sums(before', s, VoiceCount) /\ SumOf(before') = s[VoiceCount]
    BY <1>0, <1>1, <1>2, <1>5 DEF Begin
  <2>2. \A v \in Voice : v # slot => voices'[v] = voices[v]
    BY <1>1, <2>1
  <2>3. sub = 1 => \A v \in Voice : voices'[v] = voices[v]
    BY <1>1, <2>1 DEF Meets
  <2>4. CASE sub = 0
    <3>1. busy' /\ sub' = 1 /\ slot' = slot /\ acc' = acc /\ hold' = before[slot]
      BY <1>0, <1>1, <1>2, <1>5, <2>1, <2>4 DEF LastHalf
    <3>2. \A v \in Voice : v > slot => voices'[v] = before[v]
      BY <1>0, <1>2, <1>5, <2>2 DEF Voice
    <3>3. acc' = s[slot'] /\ hold' = before'[slot']
      BY <1>2, <1>5, <2>1, <3>1
    <3>4. \A v \in Voice : v > slot' \/ (v = slot' /\ sub' = 0) => voices'[v] = before'[v]
      BY <2>1, <3>1, <3>2
    <3> QED
      BY <2>1, <3>1, <3>3, <3>4, Primed DEF Mixing
  <2>5. CASE sub = 1 /\ ~LastHalf
    <3>1. busy' /\ sub' = 0 /\ slot' = slot + 1 /\ acc' = s[slot] + before[slot]
      BY <1>0, <1>1, <1>2, <1>5, <2>1, <2>5
    <3>2. slot + 1 \in 1 .. VoiceCount /\ (slot + 1) - 1 = slot
      BY <1>0
    <3>3. acc' = s[slot']
      BY <1>2, <3>1, <3>2 DEF Sums
    <3>4. \A v \in Voice : v > slot' \/ (v = slot' /\ sub' = 0) => voices'[v] = before'[v]
      BY <1>0, <1>2, <1>5, <2>1, <2>3, <2>5, <3>1 DEF Voice
    <3> QED
      BY <2>1, <3>1, <3>3, <3>4, Primed DEF Mixing
  <2>6. CASE LastHalf
    <3>1. ~busy' /\ slot = VoiceCount - 1 /\ sample' = Clipped((s[slot] + before[slot]) * setting)
      BY <1>1, <1>2, <1>5, <2>6 DEF LastHalf
    <3>2. VoiceCount \in 1 .. VoiceCount
      BY <1>0
    <3>3. s[slot] + before[slot] = s[VoiceCount]
      BY <1>2, <3>1, <3>2 DEF Sums
    <3>4. sample' = Clipped(SumOf(before') * setting')
      BY <2>1, <3>1, <3>3
    <3> QED
      BY <2>1, <3>1, <3>4, Primed DEF Mixing, Clipped
  <2> QED
    BY <1>0, <2>4, <2>5, <2>6
<1> QED
  BY <1>0, <1>3, <1>4, <1>5

\* The sample is the mix of every voice once, as the walk found them, for any
\* number of voices and whatever lands meanwhile (voice.py 7-13, 264-294,
\* 376-393).
THEOREM AlwaysMixesEveryVoice == Spec => []MixesEveryVoice
<1>1. Init => Mixing
  <2> SUFFICES ASSUME Init PROVE Mixing
    OBVIOUS
  <2>1. VoiceCount \in Nat /\ VoiceCount > 0 /\ Quiet = 0 /\ Peak \in Nat
    <3>1. \E v \in Values : \A w \in Values : v <= w
      <4>1. \A w \in Values : w \in Nat /\ 0 <= w
        BY EngineAssumption
      <4> QED
        BY <4>1, EngineAssumption
    <3>2. Quiet \in Values /\ \A w \in Values : Quiet <= w
      BY <3>1 DEF Quiet
    <3>3. Quiet <= 0 /\ Quiet \in Nat
      BY <3>2, EngineAssumption
    <3> QED
      BY <3>3, EngineAssumption
  <2>2. before = [v \in Voice |-> 0] /\ setting = 0 /\ sample = 0 /\ busy = FALSE
    BY <2>1 DEF Init
  <2>3. before \in [Voice -> Nat]
    BY <2>2
  <2>4. PICK s : Sums(before, s, VoiceCount) /\ SumOf(before) = s[VoiceCount]
    BY <2>3, SumOfIsASum
  <2>5. s[VoiceCount] \in Nat
    BY <2>1, <2>4 DEF Sums
  <2>6. s[VoiceCount] * 0 = 0
    BY <2>5
  <2>7. sample = Clipped(SumOf(before) * setting)
    BY <2>1, <2>2, <2>4, <2>6 DEF Clipped
  <2> QED
    BY <2>2, <2>4, <2>7 DEF Mixing
<1>2. IInv /\ Mixing /\ [Next]_vars => Mixing'
  <2> SUFFICES ASSUME IInv, Mixing, [Next]_vars PROVE Mixing'
    OBVIOUS
  <2>1. CASE Cycle
    BY <2>1, CycleMixing
  <2>2. CASE UNCHANGED <<before, busy, acc, slot, sub, hold, voices, sample, setting>>
    <3>1. SumOf(before') = SumOf(before) /\ \A s : Sums(before', s, VoiceCount) <=> Sums(before, s, VoiceCount)
      BY <2>2
    <3> QED
      BY <2>2, <3>1, Primed DEF Mixing, Clipped
  <2> QED
    BY <2>1, <2>2 DEF Next, Push, vars, mix, walk
<1>3. Mixing => MixesEveryVoice
  BY DEF Mixing, MixesEveryVoice
<1> QED
  BY <1>1, <1>2, <1>3, Inductive, PTL DEF Spec
=============================================================================
