------------------------------- MODULE Engine -------------------------------
(***************************************************************************)
(* hdl/voice.py, clock cycle by clock cycle: CommandScheduler and the walk *)
(* of VoiceBank.  Every Period cycles a strobe marks a sample; the         *)
(* scheduler may then hand a command to the bank, which parks it until the *)
(* walk over the voices reaches the voice it names.                        *)
(*                                                                         *)
(* A voice's registers are one value here, what the voice was last told    *)
(* and what it adds to the mix; what the walk computes with them is module *)
(* Envelope.  The setting is the master gain, or any other.                *)
(***************************************************************************)
EXTENDS Naturals, Sequences

CONSTANTS VoiceCount,  \* VOICES
          Period,      \* cycles from one strobe to the next: 525 in the design
          Depth,       \* entries of the FIFO
          Values,      \* what a voice or a setting may be set to
          Peak,        \* PEAK: the largest sample
          Commands     \* the commands there are

Voice == 0 .. VoiceCount - 1
Quiet == CHOOSE v \in Values : \A w \in Values : v <= w
Command == [op : {"note", "global", "reset"}, voice : Nat, value : Values, delay : Nat]

ASSUME EngineAssumption ==
  /\ VoiceCount \in Nat /\ VoiceCount > 0
  /\ Period \in Nat /\ Period > 2 * VoiceCount   \* "the strobe has to be slower"
  /\ Depth \in Nat /\ Peak \in Nat
  /\ Values \subseteq Nat /\ 0 \in Values     \* a voice at rest adds nothing
  /\ Commands \subseteq Command /\ Commands # {}

VARIABLES clock,                         \* cycles since the last strobe's
          fifo,                          \* what the scheduler's read side sees
          holding, delay, valid,         \* CommandScheduler's registers
          apply, command,                \* what it hands to the bank
          start, busy, slot, sub,        \* the walk
          pendValid, pend,               \* the parked command
          voices,                        \* what each voice's registers say
          setting,                       \* the global settings
          hold, acc, sample,             \* env_hold, the accumulator and the output
          before                         \* history: the voices as the walk found them

scheduler == <<fifo, holding, delay, valid, apply, command>>
walk == <<start, busy, slot, sub>>
mix == <<hold, acc, sample, before>>
vars == <<clock, fifo, holding, delay, valid, apply, command,
          start, busy, slot, sub, pendValid, pend, voices, setting,
          hold, acc, sample, before>>

Strobe == clock = 0

Init == /\ clock \in 0 .. Period - 1
        /\ fifo = << >> /\ delay = 0 /\ valid = FALSE
        /\ holding \in Commands /\ command = holding /\ pend = holding
        /\ apply = FALSE /\ start = FALSE /\ busy = FALSE /\ slot = 0 /\ sub = 0
        /\ pendValid = FALSE
        /\ voices = [v \in Voice |-> Quiet] /\ setting = Quiet
        /\ hold = 0 /\ acc = 0 /\ sample = 0 /\ before = voices

\* The write side of the FIFO, as the read side comes to see it.
Push(c) == /\ Len(fifo) < Depth
           /\ fifo' = Append(fifo, c)
           /\ UNCHANGED <<clock, holding, delay, valid, apply, command, walk,
                          pendValid, pend, voices, setting, mix>>

-----------------------------------------------------------------------------
\* A mistake: the sample a delay is loaded on not counted.
FullDelay(c) == c.delay

LoadDelay(c) == IF c.delay = 0 THEN 0 ELSE c.delay - 1

\* A mistake: commands landing between samples.
AnyCycle == ~valid \/ delay = 0

\* The sample the scheduler may land a command on, and fetch the next.
Due == Strobe /\ (~valid \/ delay = 0)

SchedulerCycle ==
  /\ apply' = (Due /\ valid)
  /\ command' = IF Due /\ valid THEN holding ELSE command
  /\ IF Due /\ fifo # << >>
       THEN /\ holding' = Head(fifo) /\ delay' = LoadDelay(Head(fifo))
            /\ valid' = TRUE /\ fifo' = Tail(fifo)
       ELSE /\ delay' = IF Strobe /\ valid /\ delay # 0 THEN delay - 1 ELSE delay
            /\ valid' = IF Due THEN FALSE ELSE valid
            /\ UNCHANGED <<fifo, holding>>

\* The walk: two cycles a voice, started by a strobe when it is not under way.
Begin == ~busy /\ start
LastHalf == busy /\ sub = 1 /\ slot = VoiceCount - 1

WalkCycle ==
  /\ start' = IF Begin THEN FALSE ELSE IF Strobe THEN TRUE ELSE start
  /\ busy' = IF LastHalf THEN FALSE ELSE IF Begin THEN TRUE ELSE busy
  /\ sub' = IF busy THEN 1 - sub ELSE IF Begin THEN 0 ELSE sub
  /\ slot' = IF busy /\ sub = 1 /\ ~LastHalf THEN slot + 1
             ELSE IF Begin THEN 0 ELSE slot

\* A mistake: the voice met in the slot before its own.
MeetsEarly == busy /\ sub = 0 /\ pendValid /\ pend.voice = slot + 1

\* The parked command meets its voice in the first half of the voice's slot.
Meets == busy /\ sub = 0 /\ pendValid /\ pend.voice = slot

ParkCycle ==
  /\ pend' = IF apply THEN command ELSE pend
  /\ pendValid' = IF LastHalf \/ Meets THEN FALSE ELSE IF apply THEN TRUE ELSE pendValid

\* Settings and resets take effect as they arrive, the rest at the meeting.
BankCycle ==
  /\ setting' = IF apply /\ command.op = "global" THEN command.value ELSE setting
  /\ voices' = [v \in Voice |-> IF Meets /\ pend.op = "note" /\ v = slot THEN pend.value
                                ELSE IF apply /\ command.op = "reset" THEN Quiet
                                ELSE voices[v]]

\* A mistake: the mix taken before the last voice is in it.
WithoutTheLast == acc
Total == acc + hold

\* Eight voices saturate rather than wrap.
Clipped(x) == IF x > Peak THEN Peak ELSE x

\* The multiplier takes a voice in the second half of its slot, as it was in the
\* first: a command that meets the voice there is heard from the next sample on.
MixCycle ==
  /\ hold' = IF busy /\ sub = 0 THEN voices[slot] ELSE hold
  /\ acc' = IF busy /\ sub = 1 THEN Total ELSE IF Begin THEN 0 ELSE acc
  /\ sample' = IF LastHalf THEN Clipped(Total * setting) ELSE sample
  /\ before' = IF Begin THEN voices' ELSE before

Cycle == /\ clock' = IF clock = Period - 1 THEN 0 ELSE clock + 1
         /\ SchedulerCycle /\ WalkCycle /\ ParkCycle /\ BankCycle /\ MixCycle

Next == Cycle \/ \E c \in Commands : Push(c)

Spec == Init /\ [][Next]_vars

-----------------------------------------------------------------------------
TypeOK == /\ clock \in 0 .. Period - 1
          /\ fifo \in Seq(Commands) /\ Len(fifo) <= Depth
          /\ holding \in Commands /\ delay \in Nat /\ valid \in BOOLEAN
          /\ apply \in BOOLEAN /\ command \in Commands
          /\ start \in BOOLEAN /\ busy \in BOOLEAN /\ slot \in Voice /\ sub \in {0, 1}
          /\ pendValid \in BOOLEAN /\ pend \in Commands
          /\ voices \in [Voice -> Values] /\ setting \in Values
          /\ hold \in Nat /\ acc \in Nat /\ sample \in 0 .. Peak /\ before \in [Voice -> Values]

\* Where the walk is, in halves of a slot.
At == 2 * slot + sub

\* The walk keeps step with the strobe: it is under way in the cycles that
\* follow the two it takes to start, and over when the next one starts.
InStep == /\ busy => At + 2 = clock \/ (At + 2 = Period /\ clock = 0)
          /\ start => clock = 1 /\ ~busy
          /\ apply => clock = 1 /\ start
          /\ pendValid => busy

\* "That keeps the two writers from racing" (voice.py 115-120): a command
\* arrives only while no walk is under way, so a reset or a parking never falls
\* on a cycle in which the walk writes a voice back or drops what is parked.
NoRace == apply => ~busy /\ ~pendValid

\* Every command finds its voice in the walk of its own sample: by the next
\* strobe nothing is on the way but a command for a voice that does not exist
\* (voice.py 334-342 and 386-432).
LandsInItsSample == Strobe => /\ ~apply
                              /\ pendValid /\ pend.op = "note" => pend.voice \notin Voice

\* One port, one multiplier and one accumulator do for every voice: the sample is
\* the mix of each voice once, the first and the last included, as the walk
\* found them, whatever lands meanwhile (voice.py 7-13, 264-294, 376-393).
SumOf(b) == LET sum[n \in 0 .. VoiceCount] == IF n = 0 THEN 0 ELSE sum[n - 1] + b[n - 1]
            IN  sum[VoiceCount]
MixesEveryVoice == ~busy => sample = Clipped(SumOf(before) * setting)

\* The engine implements the engine of samples: what is handed over counts as
\* done, and is never lost, delayed to another sample or done to another voice.
Told == [v \in Voice |->
           IF apply /\ command.op = "reset" THEN Quiet
           ELSE IF apply /\ command.op = "note" /\ command.voice = v THEN command.value
           ELSE IF pendValid /\ pend.op = "note" /\ pend.voice = v THEN pend.value
           ELSE voices[v]]
SetTo == IF apply /\ command.op = "global" THEN command.value ELSE setting

S == INSTANCE SampleEngine WITH Voices <- Voice, note <- Told, setting <- SetTo
IsSampleEngine == S!Spec
=============================================================================
