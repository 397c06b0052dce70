---------------------------- MODULE EnvelopeProof ----------------------------
(***************************************************************************)
(* Envelope's safety for samples and accumulators of every width: the      *)
(* design's 16 and 24 bits are out of a model checker's reach.             *)
(***************************************************************************)
EXTENDS Envelope, TLAPS

\* A voice that is under the peak of a note whose loudest level is h.
Under(v, h) == /\ v \in [stage : Stage, env : 0 .. Range - 1, level : 0 .. Peak]
               /\ v.env <= h * Fine
               /\ v.level <= h

IInv == TypeOK /\ UnderItsPeak /\ voice.level <= loudest

-----------------------------------------------------------------------------
LEMMA Ranges == Half \in Nat /\ Half > 0 /\ Range \in Nat /\ Range = 2 * Half
BY EnvelopeAssumption DEF Half, Range

\* A higher level is a higher envelope, and every level stays in the lower half.
LEMMA Scaled ==
  ASSUME NEW a \in Nat, NEW b \in Nat, a <= b
  PROVE  a * Fine \in Nat /\ a * Fine <= b * Fine
BY EnvelopeAssumption

LEMMA LevelsFit ==
  ASSUME NEW a \in 0 .. Peak
  PROVE  a * Fine \in Nat /\ a * Fine < Half
<1>1. a * Fine <= Peak * Fine
  BY Scaled, EnvelopeAssumption
<1>2. Half = Peak * Fine + Fine
  BY EnvelopeAssumption DEF Half
<1>3. a * Fine \in Nat /\ Peak * Fine \in Nat
  BY Scaled, EnvelopeAssumption
<1> QED
  BY <1>1, <1>2, <1>3, EnvelopeAssumption

LEMMA FloorFits ==
  ASSUME NEW v \in [stage : Stage, env : 0 .. Range - 1, level : 0 .. Peak],
         NEW p \in [attack : Rates, decay : Rates, release : Rates, sustain : 0 .. Peak]
  PROVE  Floor(v, p) \in Nat /\ Floor(v, p) <= Top(v)
<1>1. Top(v) \in Nat /\ p.sustain * Fine \in Nat
  BY LevelsFit DEF Top
<1> QED
  BY <1>1 DEF Floor

\* The write-back keeps a voice under the peak it was under.
LEMMA WriteBackStaysUnder ==
  ASSUME NEW h \in 0 .. Peak, NEW v, Under(v, h),
         NEW p \in [attack : Rates, decay : Rates, release : Rates, sustain : 0 .. Peak]
  PROVE  Under(WrittenBack(v, p), h)
<1>1. /\ v.stage \in Stage /\ v.level \in 0 .. Peak
      /\ v.env \in Nat /\ v.env < Range /\ v.env <= h * Fine
      /\ v \in [stage : Stage, env : 0 .. Range - 1, level : 0 .. Peak]
  BY Ranges DEF Under
<1>2. /\ p.attack \in Nat /\ p.attack < Range /\ p.decay \in Nat /\ p.release \in Nat
  <2>1. /\ p.attack \in Rates /\ p.decay \in Rates /\ p.release \in Rates
        /\ Rates \subseteq 0 .. Range - 1
    BY EnvelopeAssumption
  <2>2. p.attack \in 0 .. Range - 1 /\ p.decay \in 0 .. Range - 1 /\ p.release \in 0 .. Range - 1
    BY <2>1
  <2> QED
    BY <2>2, Ranges
<1>3. /\ Top(v) \in Nat /\ Top(v) <= h * Fine /\ h * Fine \in Nat /\ h * Fine < Half
      /\ Top(v) < Range
  BY Scaled, LevelsFit, Ranges DEF Top, Under
<1>4. Floor(v, p) \in Nat /\ Floor(v, p) <= h * Fine /\ Floor(v, p) < Range
  BY <1>1, <1>3, FloorFits, Ranges
<1>5. ASSUME NEW s \in Stage, NEW e \in Nat, e <= h * Fine
      PROVE  Under([v EXCEPT !.env = e, !.stage = s], h)
  <2>1. e \in 0 .. Range - 1
    BY <1>3, <1>5, Ranges
  <2>2. [v EXCEPT !.env = e, !.stage = s] \in [stage : Stage, env : 0 .. Range - 1, level : 0 .. Peak]
    BY <1>1, <2>1
  <2>3. [v EXCEPT !.env = e, !.stage = s].env = e /\ [v EXCEPT !.env = e, !.stage = s].level = v.level
    BY <1>1
  <2>4. v.level <= h
    BY DEF Under
  <2> QED
    BY <1>5, <2>2, <2>3, <2>4 DEF Under
<1>6. ASSUME NEW e \in Nat, e <= h * Fine
      PROVE  Under([v EXCEPT !.env = e], h)
  BY <1>1, <1>3, <1>6, Ranges DEF Under
<1>7. CASE v.stage = "attack"
  <2> DEFINE sum == v.env + p.attack
  <2>1. CASE Signed(sum) >= Top(v)
    BY <1>3, <1>5, <1>7, <2>1 DEF WrittenBack, Attacked, Stage
  <2>2. CASE ~(Signed(sum) >= Top(v))
    <3>1. sum \in Nat /\ sum < 2 * Range
      BY <1>1, <1>2, Ranges
    <3>2. Kept(Signed(sum)) \in Nat /\ Kept(Signed(sum)) <= h * Fine
      <4>1. CASE sum >= Range
        <5>1. Kept(Signed(sum)) = sum - Range
          BY <3>1, <4>1, Ranges DEF Kept, Signed
        <5> QED
          BY <1>1, <1>2, <1>3, <4>1, <5>1, Ranges
      <4>2. CASE sum < Range
        <5>1. Kept(Signed(sum)) = sum /\ Signed(sum) = sum
          BY <3>1, <4>2, Ranges DEF Kept, Signed
        <5> QED
          BY <1>3, <2>2, <3>1, <5>1
      <4> QED
        BY <3>1, <4>1, <4>2, Ranges
    <3> QED
      BY <1>6, <1>7, <2>2, <3>2 DEF WrittenBack, Attacked
  <2> QED
    BY <2>1, <2>2
<1>8. CASE v.stage = "decay"
  <2>1. CASE v.env - p.decay <= Floor(v, p)
    BY <1>4, <1>5, <1>8, <2>1 DEF WrittenBack, Decayed, Stage
  <2>2. CASE ~(v.env - p.decay <= Floor(v, p))
    <3>1. v.env - p.decay \in Nat /\ v.env - p.decay <= h * Fine
      BY <1>1, <1>2, <1>3, <1>4, <2>2
    <3> QED
      BY <1>6, <1>8, <2>2, <3>1 DEF WrittenBack, Decayed
  <2> QED
    BY <2>1, <2>2
<1>9. CASE v.stage = "sustain"
  BY <1>4, <1>6, <1>9 DEF WrittenBack
<1>10. CASE v.stage = "release"
  <2>1. CASE v.env - p.release <= 0
    <3>1. WrittenBack(v, p) = [v EXCEPT !.env = 0, !.stage = "idle"]
      BY <1>1, <1>2, <1>10, <2>1 DEF WrittenBack, Released
    <3>2. 0 \in Nat /\ 0 <= h * Fine /\ "idle" \in Stage
      BY <1>3 DEF Stage
    <3>3. Under([v EXCEPT !.env = 0, !.stage = "idle"], h)
      BY <1>5, <3>2
    <3> QED
      BY <3>1, <3>3
  <2>2. CASE ~(v.env - p.release <= 0)
    <3>1. v.env - p.release \in Nat /\ v.env - p.release <= h * Fine
      BY <1>1, <1>2, <1>3, <2>2
    <3> QED
      BY <1>6, <1>10, <2>2, <3>1 DEF WrittenBack, Released
  <2> QED
    BY <2>1, <2>2
<1>11. CASE v.stage = "idle"
  BY <1>3, <1>6, <1>11 DEF WrittenBack
<1> QED
  BY <1>1, <1>7, <1>8, <1>9, <1>10, <1>11 DEF Stage

LEMMA InitIInv == Init => IInv
<1> SUFFICES ASSUME Init PROVE IInv
  OBVIOUS
<1>1. Range - 1 \in Rates /\ Peak \in 0 .. Peak /\ 0 \in 0 .. Range - 1
  BY Ranges, EnvelopeAssumption
<1>2. voice.env = 0 /\ voice.level = Peak /\ loudest = Peak /\ 0 <= Peak * Fine
  BY LevelsFit, <1>1 DEF Init
<1>3. TypeOK
  BY <1>1 DEF Init, TypeOK, Stage
<1> QED
  BY <1>2, <1>3, EnvelopeAssumption DEF IInv, UnderItsPeak

LEMMA ClampedLevel ==
  ASSUME NEW x \in Levels
  PROVE  Clamped(x) \in 0 .. Peak
BY EnvelopeAssumption DEF Clamped

\* A sample of a voice that the command has left under h keeps the invariant.
LEMMA WalkIInv ==
  ASSUME NEW h \in 0 .. Peak, NEW v, Under(v, h),
         NEW p \in [attack : Rates, decay : Rates, release : Rates, sustain : 0 .. Peak],
         Walk(v, p), loudest' = h
  PROVE  IInv'
<1>1. Under(voice', h) /\ panel' = p
  BY WriteBackStaysUnder DEF Walk
<1> QED
  BY <1>1 DEF Under, IInv, TypeOK, UnderItsPeak

LEMMA NextIInv == IInv /\ [Next]_vars => IInv'
<1> SUFFICES ASSUME IInv, [Next]_vars PROVE IInv'
  OBVIOUS
<1>1. /\ voice \in [stage : Stage, env : 0 .. Range - 1, level : 0 .. Peak]
      /\ panel \in [attack : Rates, decay : Rates, release : Rates, sustain : 0 .. Peak]
      /\ loudest \in 0 .. Peak /\ voice.level \in 0 .. Peak
      /\ Under(voice, loudest)
  BY DEF IInv, TypeOK, UnderItsPeak, Under
<1>2. 0 \in 0 .. Range - 1
  BY Ranges
<1>3. CASE Undisturbed
  BY <1>1, <1>3, WalkIInv DEF Undisturbed
<1>4. CASE NoteOn
  <2>1. 0 <= voice.level * Fine /\ voice.level <= voice.level
    BY <1>1, LevelsFit DEF Under
  <2>2. [voice EXCEPT !.env = 0, !.stage = "attack"]
          \in [stage : Stage, env : 0 .. Range - 1, level : 0 .. Peak]
    BY <1>1, <1>2 DEF Stage
  <2>3. Under([voice EXCEPT !.env = 0, !.stage = "attack"], voice.level)
    BY <1>1, <2>1, <2>2 DEF Under
  <2> QED
    BY <1>1, <1>4, <2>3, WalkIInv DEF NoteOn
<1>5. CASE NoteOff
  <2>1. Under([voice EXCEPT !.stage = "release"], loudest)
    BY <1>1 DEF Under, Stage
  <2> QED
    BY <1>1, <1>5, <2>1, WalkIInv DEF NoteOff
<1>6. CASE Reset
  <2>1. 0 <= loudest * Fine /\ voice.level <= loudest
    BY <1>1, LevelsFit DEF Under
  <2>2. [voice EXCEPT !.env = 0, !.stage = "idle"]
          \in [stage : Stage, env : 0 .. Range - 1, level : 0 .. Peak]
    BY <1>1, <1>2 DEF Stage
  <2>3. Under([voice EXCEPT !.env = 0, !.stage = "idle"], loudest)
    BY <1>1, <2>1, <2>2 DEF Under
  <2> QED
    BY <1>1, <1>6, <2>3, WalkIInv DEF Reset
<1>7. ASSUME NEW x \in Levels, SetAmp(x) PROVE IInv'
  <2> DEFINE l == Clamped(x)
             h == IF l > loudest THEN l ELSE loudest
  <2>1. l \in 0 .. Peak /\ h \in 0 .. Peak /\ loudest <= h /\ l <= h
    BY <1>1, ClampedLevel, EnvelopeAssumption
  <2>2. voice.env <= h * Fine
    <3>1. voice.env <= loudest * Fine /\ loudest * Fine <= h * Fine /\ voice.env \in Nat
      BY <1>1, <2>1, Scaled, Ranges DEF Under
    <3>2. loudest * Fine \in Nat /\ h * Fine \in Nat
      BY <1>1, <2>1, LevelsFit
    <3> HIDE DEF h, l
    <3> QED
      BY <3>1, <3>2
  <2>3. Under([voice EXCEPT !.level = l], h)
    <3> HIDE DEF h, l
    <3> QED
      BY <1>1, <2>1, <2>2 DEF Under
  <2> QED
    BY <1>1, <1>7, <2>1, <2>3, WalkIInv DEF SetAmp
<1>8. ASSUME NEW x \in Levels, SetSustain(x) PROVE IInv'
  BY <1>1, <1>8, ClampedLevel, WalkIInv DEF SetSustain
<1>9. ASSUME NEW r \in Rates, NEW knob \in {"attack", "decay", "release"}, SetRate(knob, r)
      PROVE  IInv'
  <2>1. [panel EXCEPT ![knob] = r]
          \in [attack : Rates, decay : Rates, release : Rates, sustain : 0 .. Peak]
    BY <1>1
  <2> QED
    BY <1>1, <1>9, <2>1, WalkIInv DEF SetRate
<1>10. CASE UNCHANGED vars
  BY <1>10 DEF IInv, TypeOK, UnderItsPeak, vars
<1> QED
  BY <1>3, <1>4, <1>5, <1>6, <1>7, <1>8, <1>9, <1>10 DEF Next

LEMMA Inductive == Spec => []IInv
BY InitIInv, NextIInv, PTL DEF Spec

-----------------------------------------------------------------------------
\* The registers of a voice and of the panel keep to their widths.
THEOREM TypeCorrect == Spec => []TypeOK
<1>1. IInv => TypeOK
  BY DEF IInv
<1> QED
  BY <1>1, Inductive, PTL

\* A note stays under the highest level it was given, at any rate and whatever
\* the panel does (voice.py 19-22).
THEOREM AlwaysUnderItsPeak == Spec => []UnderItsPeak
<1>1. IInv => UnderItsPeak
  BY DEF IInv
<1> QED
  BY <1>1, Inductive, PTL

\* The envelope never reaches the half the multiplier reads as negative, though
\* an attack may run past the end of its adder (voice.py 218-233, 269-280).
THEOREM NeverInverted == Spec => []NeverInverts
<1>1. IInv => NeverInverts
  <2> SUFFICES ASSUME IInv PROVE NeverInverts
    OBVIOUS
  <2>1. loudest * Fine \in Nat /\ loudest * Fine < Half /\ voice.env <= loudest * Fine
    BY LevelsFit DEF IInv, TypeOK, UnderItsPeak
  <2>2. voice.env \in Nat
    BY Ranges DEF IInv, TypeOK
  <2> QED
    BY <2>1, <2>2, Ranges DEF NeverInverts
<1> QED
  BY <1>1, Inductive, PTL
=============================================================================
