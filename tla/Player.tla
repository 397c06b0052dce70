------------------------------- MODULE Player -------------------------------
(***************************************************************************)
(* host/player.py plays a score through host/client.py: it keeps the       *)
(* firmware's ring filled ahead of a sample count it asks for, and the     *)
(* delays it sends mirror the firmware's anchor.  Time is in samples; the  *)
(* firmware and the engine are what control.c and voice.py come to, voices *)
(* and the settings all of them share.                                     *)
(***************************************************************************)
EXTENDS Integers, SequencesExt

CONSTANTS Scores,        \* the files played: lines, each a setting or a note
          Capacity, Margin, MaxDelay, Horizon, LeadIn,
          Refill,        \* samples between two looks at the count, at most
          WireTime,      \* and from sending a batch to its being heard
          Voices,        \* of the engine
          MaxTime,       \* bound: samples, more than any of the scores takes
          Late,          \* samples an event may land late
          Torn           \* how far ahead of the count a reply may be (StatusCount)

VARIABLES score, events,     \* the notes and settings, and the events they make
          pc, origin,
          sent, acc,         \* Player's: events sent, and the firmware's anchor as it mirrors it
          reading,           \* the count in the last reply
          asked,             \* samples since that was asked for
          wire, aged,        \* commands on their way, and for how long
          now,
          anchor, ring,      \* the firmware's
          dropped,           \* history: an event the ring had no place for
          sounding,          \* the pitches that sound, oldest first
          panel              \* where each setting is from: before, the reset or the score

host == <<score, events, pc, origin, sent, acc, reading, asked>>
board == <<anchor, ring, dropped, sounding, panel>>
vars == <<host, wire, aged, now, board>>

-----------------------------------------------------------------------------
\* list.sort: the members of I by their keys, and those of one key as they are.
Below(a, b) == a[1] < b[1] \/ (a[1] = b[1] /\ a[2] < b[2])
Precedes(key, i, j) == Below(key[i], key[j]) \/ (key[i] = key[j] /\ i < j)
Place(key, I, i) == Cardinality({j \in I : Precedes(key, j, i)}) + 1
InOrder(I, key) == [k \in 1 .. Cardinality(I) |-> CHOOSE i \in I : Place(key, I, i) = k]

\* parse_score: a line of two fields names a setting, one of three is a note;
\* the notes by time and pitch.
HEADER == {"wave", "attack", "decay", "sustain", "release", "master"}
SettingLine == [setting : HEADER]
NoteLine == [time : Nat, duration : Nat, pitch : Nat]
IsNote(line) == "time" \in DOMAIN line
Ends(note) == note.time + note.duration
Notes(file) == LET lines == {i \in DOMAIN file : IsNote(file[i])}
                   order == InOrder(lines, [i \in lines |-> <<file[i].time, file[i].pitch>>])
               IN  [k \in DOMAIN order |-> file[order[k]]]
Patch(file) == {line.setting : line \in {l \in Range(file) : ~IsNote(l)}}
ParseScore(file) == [notes |-> Notes(file), patch |-> Patch(file)]

\* A mistake: starts before releases.
StartsFirst(e) == <<e.sample, IF e.on THEN 0 ELSE 1>>
Key(e) == <<e.sample, IF e.on THEN 1 ELSE 0>>

\* events: a start and a release of each note, releases first.
StartOf(note) == [sample |-> note.time, on |-> TRUE, pitch |-> note.pitch]
ReleaseOf(note) == [sample |-> Ends(note), on |-> FALSE, pitch |-> note.pitch]
Events(notes) ==
  LET built == [i \in 1 .. 2 * Len(notes) |->
                  LET note == notes[(i + 1) \div 2] IN IF i % 2 = 1 THEN StartOf(note) ELSE ReleaseOf(note)]
      order == InOrder(DOMAIN built, [i \in DOMAIN built |-> Key(built[i])])
  IN  [k \in DOMAIN order |-> built[order[k]]]
SampleOf(e) == origin + e.sample
Done == sent >= Len(events)

\* A mistake: what has been played is not taken off.
EverSent == sent

\* outstanding: the firmware may have played fewer of them than that.
Outstanding == sent - Cardinality({i \in DOMAIN events : SampleOf(events[i]) <= reading})

\* A mistake: all of the ring used.
WholeRing == Capacity - Outstanding
Room == Capacity - Margin - Outstanding

Anchor(at) == [op |-> "at", sample |-> at]
NoteCommand(e, delay) == [op |-> "note", on |-> e.on, pitch |-> e.pitch, delay |-> delay]

\* apply_patch: what the score does not name is left alone; set_envelope has an
\* order of its own.
SetCommand(name) == [op |-> "set", name |-> name]
SetNamed(name, patch) == IF name \in patch THEN <<SetCommand(name)>> ELSE << >>
SetEnvelope(patch) == SetNamed("attack", patch) \o SetNamed("decay", patch)
                        \o SetNamed("release", patch) \o SetNamed("sustain", patch)
ApplyPatch(patch) == SetNamed("wave", patch) \o SetEnvelope(patch) \o SetNamed("master", patch)

\* One more event in a batch: an anchor first when the gap does not fit a delay.
WithEvent(b, e) == IF SampleOf(e) - b.acc > MaxDelay
                     THEN [commands |-> b.commands \o <<Anchor(SampleOf(e)), NoteCommand(e, 0)>>,
                           acc |-> SampleOf(e), sent |-> b.sent + 1]
                     ELSE [commands |-> Append(b.commands, NoteCommand(e, SampleOf(e) - b.acc)),
                           acc |-> SampleOf(e), sent |-> b.sent + 1]

\* next_batch, event by event while there is room and the horizon allows.
NextBatch ==
  LET room == Room
      Takes(b, k) == b.sent = k - 1 /\ Len(b.commands) < room /\ SampleOf(events[k]) <= reading + Horizon
      after[k \in sent .. Len(events)] ==
        IF k = sent THEN [commands |-> << >>, acc |-> acc, sent |-> sent]
        ELSE LET b == after[k - 1] IN IF Takes(b, k) THEN WithEvent(b, events[k]) ELSE b
  IN  after[Len(events)]

-----------------------------------------------------------------------------
\* How far beyond the count a look at it has to reach, for what it leaves out to
\* be in time after the next: as long as the next may be in coming, in being
\* answered and in being heard, and no less than the count may move meanwhile.
Lead == LET answer == 2 * Refill + WireTime - Late - 1
        IN  IF answer > Refill + Torn THEN answer ELSE Refill + Torn

\* "Well inside the ring for any sane note density": no more commands in a lead
\* than the host fills the ring with, no more events while a count may be wrong
\* or an event late than it leaves free.
Stretch(es, i, span) == {j \in DOMAIN es : es[i].sample <= es[j].sample /\ es[j].sample < es[i].sample + span}
GapBefore(es, j) == es[j].sample - (IF j = 1 THEN 0 ELSE es[j - 1].sample)
Anchored(es, J) == {j \in J : GapBefore(es, j) > MaxDelay}
SaneDensity(es) ==
  \A i \in DOMAIN es :
    /\ Cardinality(Stretch(es, i, Late + Torn + 1)) <= Margin
    /\ LET J == Stretch(es, i, Lead) IN Cardinality(J) + Cardinality(Anchored(es, J)) <= Capacity - Margin

\* No more notes at a time than there are voices, and none of no length.
Held(notes, t) == {j \in DOMAIN notes : notes[j].time <= t /\ t < Ends(notes[j])}
SaneNotes(notes) == \A i \in DOMAIN notes : /\ notes[i].duration > 0
                                            /\ Cardinality(Held(notes, notes[i].time)) <= Voices

ASSUME PlayerAssumption == /\ {Capacity, MaxDelay, Horizon, Refill, Voices, MaxTime} \subseteq Nat \ {0}
                           /\ {Margin, LeadIn, WireTime, Late, Torn} \subseteq Nat /\ Margin < Capacity

\* The count is asked for often enough, and the piece starts late enough.
ASSUME PaceAssumption == /\ Lead <= Horizon
                         /\ Refill + Torn < LeadIn /\ 2 * Refill + WireTime <= LeadIn + Late

ASSUME ScoreAssumption == \A file \in Scores : /\ file \in Seq(SettingLine \cup NoteLine) /\ Notes(file) # << >>
                                               /\ SaneNotes(Notes(file)) /\ SaneDensity(Events(Notes(file)))

-----------------------------------------------------------------------------
Init == /\ score \in {ParseScore(file) : file \in Scores} /\ events = Events(score.notes)
        /\ pc = "reset" /\ origin = 0 /\ sent = 0 /\ acc = 0 /\ reading = 0 /\ asked = 0
        /\ wire = << >> /\ aged = 0 /\ now = 0
        /\ anchor = -1 /\ ring = << >> /\ dropped = FALSE
        /\ sounding \in {<< >>, <<score.notes[1].pitch>>}
        /\ panel = [name \in HEADER |-> "before"]

Sends(commands) == wire' = wire \o commands /\ UNCHANGED <<aged, now, board>>
Keeps == UNCHANGED <<wire, aged, now, board>>

\* play: reset and patch, then the count, then the anchor at the piece's start.
Reset == /\ pc = "reset" /\ pc' = "start" /\ asked' = 0
         /\ Sends(<<[op |-> "reset"]>> \o ApplyPatch(score.patch))
         /\ UNCHANGED <<score, events, origin, sent, acc, reading>>

Start == /\ pc = "start" /\ wire = << >>
         /\ \E torn \in {0, Torn} : origin' = now + torn + LeadIn
         /\ acc' = origin' /\ pc' = "ask" /\ asked' = 0
         /\ Sends(<<Anchor(origin')>>)
         /\ UNCHANGED <<score, events, sent, reading>>

\* now(): the reply is of this moment, and used at a later one.
Ask == /\ pc = "ask" /\ ~Done
       /\ \E torn \in {0, Torn} : reading' = now + torn
       /\ pc' = "batch" /\ asked' = 0
       /\ Keeps /\ UNCHANGED <<score, events, origin, sent, acc>>

Batch == /\ pc = "batch" /\ pc' = "ask"
         /\ LET batch == NextBatch IN sent' = batch.sent /\ acc' = batch.acc /\ Sends(batch.commands)
         /\ UNCHANGED <<score, events, origin, reading, asked>>

\* The firmware hears a command.  The ring takes no event when it is full.
Holds(at, e) == IF Len(ring) = Capacity \/ (ring # << >> /\ Last(ring).at > at)
                  THEN dropped' = TRUE /\ UNCHANGED ring
                  ELSE ring' = Append(ring, [at |-> at, on |-> e.on, pitch |-> e.pitch]) /\ UNCHANGED dropped

\* A reset silences the voices and takes back their waveform, and no other of
\* the settings.
ResetBoard == /\ ring' = << >> /\ anchor' = -1 /\ sounding' = << >>
              /\ panel' = [panel EXCEPT !["wave"] = "reset"] /\ UNCHANGED dropped

Hear == /\ wire # << >> /\ wire' = Tail(wire) /\ aged' = IF Len(wire) = 1 THEN 0 ELSE aged
        /\ LET c == Head(wire) IN
             \/ c.op = "reset" /\ ResetBoard
             \/ c.op = "set" /\ panel' = [panel EXCEPT ![c.name] = "score"] /\ UNCHANGED <<anchor, ring, dropped, sounding>>
             \/ c.op = "at" /\ anchor' = c.sample /\ UNCHANGED <<ring, dropped, sounding, panel>>
             \/ c.op = "note" /\ anchor' = anchor + c.delay /\ Holds(anchor', c) /\ UNCHANGED <<sounding, panel>>
        /\ UNCHANGED <<host, now>>

\* An event lands: a start takes the oldest voice when there is no other, and a
\* release that finds no note of its pitch does nothing.
Started(p) == Append(IF Len(sounding) = Voices THEN Tail(sounding) ELSE sounding, p)
Land == /\ ring # << >> /\ Head(ring).at <= now
        /\ ring' = Tail(ring)
        /\ sounding' = IF Head(ring).on THEN Started(Head(ring).pitch) ELSE RemoveFirst(sounding, Head(ring).pitch)
        /\ UNCHANGED <<host, wire, aged, now, anchor, dropped, panel>>

\* A sample passes: none of what has its time waits longer than that.
Over == Done /\ pc = "ask" /\ ring = << >> /\ wire = << >>
Tick == /\ ring # << >> => now < Head(ring).at + Late
        /\ wire # << >> => aged < WireTime
        /\ Done \/ asked < Refill
        /\ pc # "reset" /\ ~Over /\ now < MaxTime
        /\ now' = now + 1
        /\ aged' = IF wire = << >> THEN 0 ELSE aged + 1
        /\ asked' = IF Done THEN 0 ELSE asked + 1
        /\ UNCHANGED <<score, events, pc, origin, sent, acc, reading, wire, board>>

Next == Reset \/ Start \/ Ask \/ Batch \/ Hear \/ Land \/ Tick

Spec == Init /\ [][Next]_vars

\* The host, the line, the firmware and the clock all go on.
FairSpec == /\ Spec /\ WF_vars(Reset) /\ WF_vars(Start) /\ WF_vars(Ask) /\ WF_vars(Batch)
            /\ WF_vars(Hear) /\ WF_vars(Land) /\ WF_vars(Tick)

-----------------------------------------------------------------------------
\* The ring drops what does not fit without telling anyone: what the host sends
\* always fits, although the count it reckons with is old, or ahead by a carry,
\* and events may be late (player.py 44-47, 106-141).
NothingDropped == ~dropped

\* While no event is due, what sounds is what the score has sounding at that
\* time, nothing left over from before, in the sound the score names: every event
\* is placed on its sample through delays, anchors and rests too long for a delay
\* (player.py 9-17, 181-193).
Due == \E i \in DOMAIN events : now - SampleOf(events[i]) \in 0 .. Late
Written(p) == {i \in Held(score.notes, now - origin) : score.notes[i].pitch = p}
Sounds(p) == {i \in DOMAIN sounding : sounding[i] = p}
InItsSound == \A name \in score.patch : panel[name] = "score"
AsWritten == sent > 0 /\ ~Due =>
               /\ \A p \in Range(sounding) \cup {n.pitch : n \in Range(score.notes)} :
                    Cardinality(Sounds(p)) = Cardinality(Written(p))
               /\ sounding # << >> => InItsSound

\* A score is played to its end, and then nothing sounds.
PlayedToTheEnd == <>(Over /\ sounding = << >>)
=============================================================================
