------------------------------ MODULE VoicePool ------------------------------
(***************************************************************************)
(* What the firmware's voice allocator promises, without ticks: the notes  *)
(* that sound and the notes that are dying away, and which of them came to *)
(* be so before which.  A new note takes a voice nobody plays, else the    *)
(* one dying longest, else the one sounding longest; a note-off means the  *)
(* oldest note of its step that still sounds.                              *)
(***************************************************************************)
CONSTANTS Voices, Steps,
          Named       \* the voices the host plays by their number

VARIABLES sounding,    \* the voices whose note sounds
          releasing,   \* and those whose note is dying away
          step,        \* the step of each of these notes
          before       \* the pairs of these voices of which the first has been
                       \* as it is for longer

vars == <<sounding, releasing, step, before>>

Playing == sounding \union releasing
Idle == Voices \ Playing

\* v is the first of S.
First(v, S) == v \in S /\ \A w \in S \ {v} : <<v, w>> \in before

Init == /\ sounding = {} /\ releasing = {}
        /\ step \in [{} -> Steps] /\ before = {}

\* v changes, and so is the last of those that play.
Change(v) == before' = {p \in before : v \notin {p[1], p[2]}} \union ((Playing \ {v}) \X {v})

\* The note starts on voice v, whatever v was doing.
Start(v, s) == /\ sounding' = sounding \union {v}
               /\ releasing' = releasing \ {v}
               /\ step' = [w \in Playing \union {v} |-> IF w = v THEN s ELSE step[w]]
               /\ Change(v)

NoteOn(s) == \/ \E v \in Idle : Start(v, s)
             \/ /\ Idle = {}
                /\ \E v \in releasing : First(v, releasing) /\ Start(v, s)
             \/ /\ Idle = {} /\ releasing = {}
                /\ \E v \in sounding : First(v, sounding) /\ Start(v, s)

\* The note of voice v begins its release.
LetGo(v) == /\ sounding' = sounding \ {v}
            /\ releasing' = releasing \union {v}
            /\ Change(v)
            /\ UNCHANGED step

NoteOff(s) == \E v \in sounding : First(v, {w \in sounding : step[w] = s}) /\ LetGo(v)

\* The host may name the voice instead.
NoteOnAt(v, s) == Start(v, s)
NoteOffAt(v) == v \in sounding /\ LetGo(v)

Reset == /\ sounding' = {} /\ releasing' = {}
         /\ step' \in [{} -> Steps] /\ before' = {}

Next == \/ \E s \in Steps : NoteOn(s) \/ NoteOff(s)
        \/ \E v \in Named : NoteOffAt(v) \/ \E s \in Steps : NoteOnAt(v, s)
        \/ Reset

Spec == Init /\ [][Next]_vars
=============================================================================
