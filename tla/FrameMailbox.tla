---------------------------- MODULE FrameMailbox ----------------------------
(***************************************************************************)
(* The way of a frame's bytes to the firmware: hdl/mailbox.py around its   *)
(* FIFO, cycle by cycle, and the parser in main.c's loop behind it.        *)
(*                                                                         *)
(* Both sides of the FIFO are on the system clock, and a flush pulses both *)
(* resets in one cycle.  The decoder replays a frame a byte a cycle and    *)
(* waits for nobody.  The processor comes by when it likes: it looks at    *)
(* the status, then flushes or takes one word.                             *)
(***************************************************************************)
EXTENDS AsyncFifo, FiniteSets

CONSTANTS CommandBytes,   \* COMMAND_BYTES
          Bodies,         \* the lengths of the frames sent, less the type
          Frames          \* names to tell frames apart by

\* A body byte is known by its frame and its place in it, counted from 0.
HeaderOf(f, body) == <<f, "header", body>>
ByteOf(f, i) == <<f, "byte", i>>
Words == {HeaderOf(f, b) : f \in Frames, b \in Bodies}
           \union {ByteOf(f, i) : f \in Frames, i \in 0 .. 63}

\* The FIFO has room for any one frame, as 64 words have for 32.  Its word is
\* 16 bits, so that a body is less than 64 bytes.
ASSUME MailboxAssumption == /\ CommandBytes \in Nat \ {0}
                            /\ \A b \in Bodies : b \in Nat /\ b < 64 /\ b + 1 <= Depth
                            /\ Data = Words /\ Frames # {}

\* No frame is being replayed.
NoFrame == [name |-> CHOOSE f \in Frames : TRUE, ours |-> FALSE, body |-> 0, index |-> -1]

VARIABLES feed,         \* the frame the decoder replays and the byte it is at
          forwarding, overflow,      \* FrameMailbox's registers
          next,         \* the bus access the processor makes next
          rest,         \* cycles until it can make it
          length, index, slot,       \* the parser's variables
          gathered,     \* lo and hi: the bytes or-ed into each place
          sizes,        \* history: how long each frame still alive is
          cut,          \* history: the program was restarted, and has had no header since
          lost,         \* history: frames a word of which was refused
          ran,          \* history: frames a command of which was executed
          last          \* history: the command just executed

mailbox == <<feed, forwarding, overflow>>
parser == <<length, index, slot, gathered>>
mailVars == <<vars, mailbox, next, rest, parser, sizes, cut, lost, ran, last>>

MailInit == /\ memory = [a \in Address |-> CHOOSE w \in Words : TRUE] /\ Init
            /\ feed = NoFrame /\ forwarding = FALSE /\ overflow = FALSE
            /\ next = "status" /\ rest = 0
            /\ length = 0 /\ index = 0 /\ slot = 0 /\ gathered = {} /\ cut = FALSE
            /\ sizes = [f \in {} |-> 0]
            /\ lost = {} /\ ran = {} /\ last = {}

-----------------------------------------------------------------------------
\* The mailbox's side of a cycle.
Strobe == feed.index >= 0
Header == Strobe /\ feed.index = 0 /\ feed.ours
\* A mistake: the last byte taken for one past the end.
PushShort == Header \/ (Strobe /\ forwarding /\ feed.index > 0 /\ feed.index < feed.body)

Push == Header \/ (Strobe /\ forwarding /\ feed.index > 0)
Pushed == IF Header THEN HeaderOf(feed.name, feed.body) ELSE ByteOf(feed.name, feed.index - 1)

TellOverflow(flush) == overflow' = (~flush /\ (overflow \/ (Push /\ Full)))
Forward(flush) == forwarding' = (~flush /\ IF Strobe /\ feed.index = 0 THEN feed.ours ELSE forwarding)

\* The names of frames some word or the decoder still has; of those, and of
\* the frames of the bytes gathered.
Alive == {w[1] : w \in {Contents[i] : i \in DOMAIN Contents}}
           \union (IF Strobe THEN {feed.name} ELSE {})
InUse == Alive \union {g[2][1] : g \in gathered}
Unused == Frames \ InUse

\* The name of the next frame.  There is one if Frames has names enough.
Fresh == Unused \intersect {CHOOSE f \in Unused : TRUE}

\* The decoder goes on with the frame, or begins another whenever it likes.
Replay ==
  \/ /\ Strobe
     /\ feed' = IF feed.index = feed.body THEN NoFrame ELSE [feed EXCEPT !.index = @ + 1]
  \/ /\ ~Strobe
     /\ feed' \in {NoFrame} \union [name : Fresh, ours : BOOLEAN,
                                    body : Bodies, index : {0}]

\* One cycle, in which the processor flushes, pops or neither and completes the
\* command `done` or none.
MailCycle(flush, pop, done) ==
  /\ WriteClocked(Push, flush, Pushed)
  /\ ReadClocked(pop, flush)
  /\ TellOverflow(flush) /\ Forward(flush)
  /\ Replay
  /\ sizes' = [f \in Alive' |-> IF Strobe' /\ f = feed'.name THEN feed'.body ELSE sizes[f]]
  /\ lost' = (lost \ Unused) \union (IF Push /\ Full THEN {feed.name} ELSE {})
  /\ ran' = (ran \ Unused) \union {g[2][1] : g \in done}
  /\ last' = done

-----------------------------------------------------------------------------
\* main.c's loop.  A header starts the parser afresh; a byte with no frame
\* around it is ignored; others are or-ed into lo and hi at the slot's place.
Announces(w) == w[2] = "header"
Ignored(w) == ~Announces(w) /\ index >= length
Filled(w) == gathered \union {<<slot, w>>}
Completes(w) == ~Announces(w) /\ ~Ignored(w) /\ slot + 1 = CommandBytes

\* A mistake: a header that leaves the slot where it was.
KeepSlot(w) == length' = w[3] /\ index' = 0 /\ UNCHANGED slot /\ gathered' = {}
Announced(w) == length' = w[3] /\ index' = 0 /\ slot' = 0 /\ gathered' = {}

Parse(w) == IF Announces(w) THEN Announced(w)
            ELSE IF Ignored(w) THEN UNCHANGED parser
            ELSE /\ index' = index + 1 /\ UNCHANGED length
                 /\ slot' = IF Completes(w) THEN 0 ELSE slot + 1
                 /\ gathered' = IF Completes(w) THEN {} ELSE Filled(w)

\* Elsewhere: dispatching, pushing, stalled by a full command FIFO.
Away == /\ MailCycle(FALSE, FALSE, {})
        /\ rest' = IF rest = 0 THEN 0 ELSE rest - 1
        /\ UNCHANGED <<next, parser, cut>>

Look == /\ next = "status" /\ rest = 0
        /\ MailCycle(FALSE, FALSE, {})
        /\ next' = IF overflow THEN "flush" ELSE IF Empty THEN "status" ELSE "data"
        /\ UNCHANGED <<rest, parser, cut>>

\* The next access is more cycles away than the pointers take to follow.
Flush == /\ next = "flush" /\ rest = 0
         /\ MailCycle(TRUE, FALSE, {})
         /\ next' = "status" /\ rest' = 2
         /\ length' = 0 /\ index' = 0 /\ slot' = 0 /\ cut' = FALSE /\ UNCHANGED gathered

\* A mistake: to take words for as long as there are any.
TakeAll == /\ next = "data" /\ rest = 0
           /\ MailCycle(FALSE, TRUE, IF Completes(ReadData) THEN Filled(ReadData) ELSE {})
           /\ Parse(ReadData)
           /\ next' = IF Occupancy > 1 THEN "data" ELSE "status"
           /\ cut' = (cut /\ ~Announces(ReadData)) /\ UNCHANGED rest

Pop == /\ next = "data" /\ rest = 0
       /\ MailCycle(FALSE, TRUE, IF Completes(ReadData) THEN Filled(ReadData) ELSE {})
       /\ Parse(ReadData)
       /\ next' = "status" /\ cut' = (cut /\ ~Announces(ReadData))
       /\ UNCHANGED rest

\* The host has the CPU reset and started again.  The mailbox knows nothing of
\* it: an access under way takes its word or flushes, and nobody hears of it.
Restart == /\ rest = 0
           /\ \E access \in BOOLEAN :
                /\ MailCycle(access /\ next = "flush", access /\ next = "data", {})
                /\ cut' = ~(access /\ next = "flush")
           /\ next' = "status" /\ rest' = 2
           /\ length' = 0 /\ index' = 0 /\ slot' = 0 /\ gathered' = {}

MailNext == Away \/ Look \/ Flush \/ Pop \/ Restart

MailSpec == MailInit /\ [][MailNext]_mailVars

-----------------------------------------------------------------------------
\* Whatever is lost, refused or flushed in mid-frame, malformed frames and
\* restarts among it, every command the firmware executes is one command of one frame, its
\* bytes all there and each in its place (mailbox.py 19-22, main.c 87-134).
NeverMisSliced ==
  last # {} => \E f \in Frames, k \in 0 .. 63 :
                 last = {<<s, ByteOf(f, k * CommandBytes + s)>> : s \in 0 .. CommandBytes - 1}

\* "A frame that does not fit is dropped whole" (mailbox.py 20): no command is
\* executed, before or after, of a frame that had a word refused.
DroppedWhole == ran \intersect lost = {}

\* Where in its frame a word is: the header first, then the bytes.
PlaceOf(w) == IF Announces(w) THEN 0 ELSE w[3] + 1
EndsFrame(w) == PlaceOf(w) = sizes[w[1]]

\* The decoder is about to send the word at place p of frame f.
ComingIs(f, p) == Strobe /\ forwarding /\ feed.name = f /\ feed.index = p
Inside == ~cut /\ index < length

\* Word w follows on word u in what the firmware has yet to take.
Follows(w, u) == \/ w[1] = u[1] /\ PlaceOf(w) = PlaceOf(u) + 1
                 \/ Announces(w) /\ EndsFrame(u)

\* Unless an overflow is told, what the firmware has yet to take is the rest of
\* the frame it is in and then whole frames: each header gives the number of
\* bytes the decoder was sent, that many bytes follow it in order, and only
\* then the next header; what the last frame lacks, the decoder still has to
\* send (mailbox.py 68-103, 114-115).  Only what is left of a frame at a restart
\* has no frame around it.
StreamIsFrames ==
  LET words == Contents
      n == Len(words)
  IN ~overflow =>
       /\ \A i \in 1 .. n : LET w == words[i] IN
            /\ PlaceOf(w) <= sizes[w[1]] /\ (Announces(w) => w[3] = sizes[w[1]])
            /\ i > 1 => Follows(w, words[i - 1])
       /\ n > 0 /\ ~cut => LET w == words[1] IN
            IF Announces(w) THEN index >= length
            ELSE w[3] = index /\ index < length /\ length = sizes[w[1]]
       /\ n > 0 => LET w == words[n] IN EndsFrame(w) \/ ComingIs(w[1], PlaceOf(w) + 1)
       /\ n = 0 /\ Inside => feed.body = length /\ ComingIs(feed.name, index + 1)
=============================================================================
