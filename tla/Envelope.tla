------------------------------ MODULE Envelope ------------------------------
(***************************************************************************)
(* The envelope of one voice of hdl/voice.py, sample by sample: what       *)
(* VoiceBank's walk does to a voice's stage and accumulator, after the     *)
(* command that lands in that sample, if one does, has changed the voice   *)
(* or the panel.  A command counts before the write-back of its own        *)
(* sample: module Engine shows that is where it lands.                     *)
(*                                                                         *)
(* The accumulator has Fine times the resolution of a sample, and its      *)
(* width is what a signed sample's is: Range values, the upper half of     *)
(* which the multiplier reads as negative.                                 *)
(***************************************************************************)
EXTENDS Integers

CONSTANTS Peak,       \* PEAK: the largest sample
          Fine,       \* 2^env_shift: envelope units in one unit of a sample
          Rates,      \* the increments the host may set
          Levels      \* the levels it may ask for, before they are clamped

Half == (Peak + 1) * Fine
Range == 2 * Half

ASSUME EnvelopeAssumption == /\ Peak \in Nat
                             /\ Fine \in Nat /\ Fine > 0
                             /\ Rates \subseteq 0 .. Range - 1 /\ Range - 1 \in Rates
                             /\ Levels \subseteq Nat

VARIABLES voice,      \* this voice's stage, env and level
          panel,      \* attack, decay, release and sustain: one set for every voice
          loudest     \* history: the highest level the note has had

vars == <<voice, panel, loudest>>

Stage == {"idle", "attack", "decay", "sustain", "release"}

\* A signed number of one bit more than the accumulator, and what of it is kept.
Signed(x) == IF x >= Range THEN x - 2 * Range ELSE x
Kept(x) == IF x < 0 THEN x + Range ELSE x

Clamped(x) == IF x > Peak THEN Peak ELSE x

Init == /\ voice = [stage |-> "idle", env |-> 0, level |-> Peak]
        /\ panel = [attack |-> Range - 1, decay |-> Range - 1, release |-> Range - 1,
                    sustain |-> Peak]
        /\ loudest = Peak

-----------------------------------------------------------------------------
\* The two ends of the envelope of voice v under panel p.
Top(v) == v.level * Fine
\* A mistake: the panel's sustain level for every note.
PanelFloor(v, p) == p.sustain * Fine

Floor(v, p) == IF p.sustain * Fine > Top(v) THEN Top(v) ELSE p.sustain * Fine

\* A mistake: an attack that never stops.
Unbounded(v, p) == [v EXCEPT !.env = Kept(Signed(v.env + p.attack))]

\* The walk's write-back.
Attacked(v, p) == LET sum == Signed(v.env + p.attack)
                  IN  IF sum >= Top(v) THEN [v EXCEPT !.env = Top(v), !.stage = "decay"]
                      ELSE [v EXCEPT !.env = Kept(sum)]
Decayed(v, p) == LET diff == v.env - p.decay
                 IN  IF diff <= Floor(v, p) THEN [v EXCEPT !.env = Floor(v, p), !.stage = "sustain"]
                     ELSE [v EXCEPT !.env = diff]

\* A mistake: a release that stops at nothing only.
ExactZero(v, p) == LET diff == v.env - p.release
                   IN  IF diff = 0 THEN [v EXCEPT !.env = 0, !.stage = "idle"]
                       ELSE [v EXCEPT !.env = Kept(diff)]

Released(v, p) == LET diff == v.env - p.release
                  IN  IF diff <= 0 THEN [v EXCEPT !.env = 0, !.stage = "idle"]
                      ELSE [v EXCEPT !.env = diff]

WrittenBack(v, p) == CASE v.stage = "attack"  -> Attacked(v, p)
                       [] v.stage = "decay"   -> Decayed(v, p)
                       [] v.stage = "sustain" -> [v EXCEPT !.env = Floor(v, p)]
                       [] v.stage = "release" -> Released(v, p)
                       [] OTHER               -> [v EXCEPT !.env = 0]

\* A sample in which v and p are what the command has left.
Walk(v, p) == voice' = WrittenBack(v, p) /\ panel' = p

\* The samples there are, by the command that lands in them.  Frequencies,
\* waveforms and the master gain leave the envelope alone.
Undisturbed == Walk(voice, panel) /\ UNCHANGED loudest
NoteOn == /\ Walk([voice EXCEPT !.env = 0, !.stage = "attack"], panel)
          /\ loudest' = voice.level
NoteOff == Walk([voice EXCEPT !.stage = "release"], panel) /\ UNCHANGED loudest
Reset == Walk([voice EXCEPT !.env = 0, !.stage = "idle"], panel) /\ UNCHANGED loudest
SetAmp(x) == /\ Walk([voice EXCEPT !.level = Clamped(x)], panel)
             /\ loudest' = IF Clamped(x) > loudest THEN Clamped(x) ELSE loudest
SetSustain(x) == /\ Walk(voice, [panel EXCEPT !.sustain = Clamped(x)])
                 /\ UNCHANGED loudest
SetRate(knob, r) == /\ Walk(voice, [panel EXCEPT ![knob] = r])
                    /\ UNCHANGED loudest

Next == \/ Undisturbed \/ NoteOn \/ NoteOff \/ Reset
        \/ \E x \in Levels : SetAmp(x) \/ SetSustain(x)
        \/ \E r \in Rates, knob \in {"attack", "decay", "release"} : SetRate(knob, r)

Spec == Init /\ [][Next]_vars

\* Samples go on for as long as the pixel clock does.
FairSpec == Spec /\ WF_vars(Next)

-----------------------------------------------------------------------------
TypeOK == /\ voice \in [stage : Stage, env : 0 .. Range - 1, level : 0 .. Peak]
          /\ panel \in [attack : Rates, decay : Rates, release : Rates, sustain : 0 .. Peak]
          /\ loudest \in 0 .. Peak

\* The top of the accumulator is multiplied as a signed number (voice.py
\* 269-280): were the envelope ever to reach the upper half, the voice would
\* come out inverted.  Because every note stays under its peak (below), no order
\* of commands and no rate gets it there.
NeverInverts == voice.env < Half

\* "Velocity is the envelope's peak" (voice.py 19-22): through every stage, and
\* whatever is done to the panel, a note stays under the highest level it had.
UnderItsPeak == voice.env <= loudest * Fine

\* Sample after sample a stage ends: a release, unless the rate is set to
\* nothing or a note takes the voice; and an attack left alone, however high the
\* rate it meets half way (voice.py 237-257).
LeftAlone == Undisturbed \/ NoteOff \/ Reset
StagesEnd == /\ voice.stage = "release" ~> voice.stage # "release" \/ panel.release = 0
             /\ <>[][LeftAlone]_vars => []<>(voice.stage # "attack" \/ panel.attack = 0)
=============================================================================
