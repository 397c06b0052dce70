# xsynth: TLA+ models, checks and proofs

xsynth is a polyphonic synthesiser on an FPGA.  A host sends frames over a serial
line; a soft processor decides which voice plays which note and when; a voice
bank turns that into samples, 48 000 a second, for an HDMI sink.  Sound leaves no
trace of what went wrong, and most of what can go wrong here needs two clocks, a
counter at its wrap or three commands in an unlucky order.  That is what these
models are for.

Line numbers below and in the modules' comments are of the files under
`src/xsynth/`.

## 1. The system

```
 host (python)          pixel/system clock                              audio side
 score -> player -> client ==UART==> FrameDecoder -+-> PacketHandler -> FrameTx ==UART==> host
                                                   +-> ProgramLoader -> firmware memory
                                                   +-> FrameMailbox -> PicoRV32: main.c, control.c
                                                                          | cmd_push (stalls)
                                                                          v
                                                       AsyncFifo, 16 words of 64 bits
                                                                          v
                                                  CommandScheduler -> VoiceBank (8 voices) -> HDMI
                    SampleCounter <---------------------------------- sample strobe
```

| Part | Source | State | Operations | What makes it correct | Model |
|---|---|---|---|---|---|
| Command FIFO | `hdl/fifo.py` | storage, a pointer per side, a two-flop view of the other's | write, read, at edges of two unrelated clocks | it is a queue: nothing lost, repeated, reordered; the level never understates | `AsyncFifo`, `FifoProof`, `BoundedQueue` |
| Sample counter | `hdl/designs/control.py` 70-111 | count; two rows of flops | strobe, sink edge | only counts that were held, in order | `SampleCounter`, `GrayCode`, `SerialProof` |
| Firmware decisions | `sw/control.c`, `control.h` | shadow of the voices, ring of events, anchor, chain | `control_command`, `control_dispatch` | oldest-first allocation, no stuck note; events in order, no delay beyond the window, no buffer overrun | `Control`, `ControlProof`, `VoicePool` |
| Voice bank, scheduler | `hdl/voice.py` | scheduler's counter, walk, parked command, voices, the mix | a clock cycle | every command in its own sample, one writer per cycle, every voice once in every sample | `Engine`, `EngineProof`, `SampleEngine` |
| Envelope | `hdl/voice.py` 209-280 | stage, accumulator, level; the panel | a sample, with one command or none | never negative, never above its peak, ends | `Envelope`, `EnvelopeProof` |
| Command path | `sw/main.c` 48-60, `hdl/pcpi.py`, `hdl/voice.py` | all of firmware, FIFO and engine | all of them interleaved with samples | the shadow is what the engine will be; never early | `CommandPath`, `ControlProof` |
| Mailbox, parser | `hdl/mailbox.py`, `sw/main.c` 62-135 | FIFO, `forwarding`, `overflow`; length, index, slot | a cycle; a bus access; a restart | a command is never cut from the wrong bytes | `FrameMailbox`, `FifoProof` |
| Frame decoder, CRC | `hdl/framing.py` 27-146, `hdl/crc.py`, `protocol.py` | state, buffer, checksum | a byte, a replay cycle | agrees with the reference decoder byte for byte | `FrameDecoder`, `ReferenceDecoder`, `Crc`, `SerialProof` |
| UART | `hdl/uart.py` | bit counters, shift registers, synchroniser | an edge of either clock | a byte sent is the byte received, clocks adrift | `Uart`, `SerialLine`, `SerialProof` |
| Packet handler, frame sender | `hdl/designs/control.py` 166-308, `hdl/framing.py` 149-239 | one pending reply, sticky flags; state, index, length | a cycle | a whole reply for each request, the command words right | `Replies`, `RepliesProof`, `ReplySlot` |
| Loader, SoC memory | `hdl/loader.py`, `hdl/soc.py` | base, count, written; port, run, halt | a cycle | no write outside the memory, one memory for two masters, a clean start | `Loader`, `Soc`, `SocProof`, `AtomicMemory` |
| Host client | `host/client.py` | buffered bytes, open request | request, timeout, load | an answer belongs to its question | `StatusCount`, `SerialProof`, `Loader`, `Player` |
| Player, score | `host/player.py`, `host/score.py` | events, what is outstanding, mirrored anchor | batch, poll | ring never overrun, what is heard is what is written | `Player`, `PlayerProof` |
| Wavetables, analysis | `hdl/voice.py`, `host/analysis.py`, `host/listen.py` | | | arithmetic on samples, no control | not modelled |
| Clocks, video, HDMI | `hdl/clock.py`, `video*.py`, `hdmi.py`, `audio.py` | | | vendor primitives and a vendored core | not modelled, but for the strobe (in `Engine`) |
| Build and simulation | `cli.py`, `firmware.py`, `platform/`, `sim/` | | | invokes toolchains | not modelled, but for `host load` (in `Soc`) |

How they meet.  The decoder offers each good frame as a burst of bytes, one a
cycle, to whoever wants it, and waits for nobody.  The mailbox is the firmware's
copy of the command frames.  Firmware and engine share nothing but the command
FIFO (one way) and the sample count (the other); the firmware never reads a
voice back, it *believes* its shadow.  The host in turn believes in the firmware's
anchor, ring and sample count, and hears of none of them but the last.

What is hard, by kind (each at its line under "hazards" in `PROJECT.json`):

- *interleaving*: two clocks in the FIFO and the counter, replay against flush in
  the mailbox, the scheduler's write against the walk's, the loader's access against
  the processor's;
- *ordering and staleness*: pointers, counts and a chain that are all old by the
  time they are used; a shadow ahead of the engine by everything in the FIFO; a count
  taken byte by byte while it runs;
- *limits*: FIFO, ring, mailbox and output buffer full, a stalled processor;
- *numbers*: ticks, samples, pointers and envelopes wrap; delays 0 and 1 are one;
- *protocol*: noise, cut frames, notes stolen between their on and their off,
  requests while a reply is sent;
- *failure*: a processor stopped and started between any two steps, load frames lost;
- *time*: releases, attacks, replays and replies that have to end, answers that come
  after the host has stopped waiting.

## 2. The plan

Order of work, the most consequential first.

1. `BoundedQueue` / `AsyncFifo`: done, refinement proved.
2. `SampleCounter` on `GrayCode`: done, in the run of `StatusCount`, which extends it; safety proved.
3. `Control` and the pool it implements, `VoicePool`: done, refinement and invariants proved.
4. `SampleEngine` / `Engine`, with the mix: done, refinement and safety proved.
5. `Envelope`: done, safety proved.
6. `CommandPath`: `Control` + FIFO + engine of samples: done, safety proved.
7. `FrameMailbox`: `AsyncFifo` + mailbox + parser + restarts: done, safety proved.
8. `ReferenceDecoder` / `FrameDecoder`: done, refinement proved.
9. `Uart`, and `SerialLine`, with the decoder behind it: done, safety and refinement proved.
10. `Replies` and the slot it implements, `ReplySlot`: done, refinement and safety proved.
11. `Loader`, `Soc` and the memory they implement, `AtomicMemory`: done, refinement and safety proved.
12. `StatusCount`: the count in a reply, and questions given up: done, safety proved.
13. `Player`: host, line, ring and voices: done, safety proved.

What remains for proof is out of the provers' reach: liveness (end of section 5).

Compositions: `CommandPath` EXTENDS `Control` and takes the FIFO and the engine as
the abstract modules that `AsyncFifo` and `Engine` are shown to implement;
`FrameMailbox` EXTENDS `AsyncFifo`, because there it is the pointers themselves that are
at stake; `SerialLine` EXTENDS `Uart` and `FrameDecoder`, `FrameDecoder` stands on `Crc`;
`StatusCount` EXTENDS `SampleCounter`; `Soc` EXTENDS `Loader`.

Abstract specifications, each a PROPERTY of the detailed one: `BoundedQueue` of
`AsyncFifo`, `VoicePool` of `Control`, `SampleEngine` of `Engine`, `ReferenceDecoder` of
`SerialLine`, `ReplySlot` of `Replies`, `AtomicMemory` of `Soc`, and `Control` itself of
`CommandPath`.

## 3. How the modules correspond to the code

**AsyncFifo** (`hdl/fifo.py`).  A step is an edge of the write clock, the read clock or
both at once.  `wBin`, `wMeta`, `wRptr` are `w_bin` and the two flops behind it, likewise the
read side; a pointer is the number its Gray word stands for.  That this is a fair
reading (a flop that samples a changing word gets the old or the new one, decoding inverts
coding) is shown on the words themselves, by `GrayCode`, `SampleCounter` and the proofs about them.
`WriteClocked` and `ReadClocked` take the resets as parameters: `ControlCore`
ties them low, the mailbox pulses them.

**GrayCode, SampleCounter** (`hdl/fifo.py` 20-27, 69-74, 103-109, `designs/control.py` 70-111).  A word is the
set of its bits that are one: `Xor` is `^`, `Down` is `>>`, `Undone` one round of the decoder and
`wordOf` all five, tabulated so that TLC computes each once; `Sampled` is what a row of flops can
capture while the source goes from a to b.  The Gray encoder
sits between counter and flops as gates; the model has these switch without glitches.

**StatusCount** (`host/client.py` 195-261, `designs/control.py` 196-242).  The counter, a reply
that takes `status_samples[8i : 8i + 8]` when its byte's turn comes, and a host that asks,
waits, gives up and asks again.  Questions are numbered and typed (ping or status); on the
wire nothing says which a reply belongs to, and the host reads the first whole frame.  A
frame may be lost.  `began` keeps of a reply the count at its first digit, and `AheadBy(w, k)` is
a count and 2^k more, the Gray code's `Next1` from bit k up.

**Control** (`sw/control.c`).  `Receive` is `control_command` with every path: clear, reset,
hold (full ring and out-of-order events dropped, with the anchor already moved, as
in the code), apply.  `ScheduleAt` is the anchor command.  `control_dispatch` is `CallDispatch`, a
`DispatchNext` per turn of its loop and `EndDispatch`; `EmitOne` is the caller pushing what
was handed back.  `events` is the ring from its head on.  A scan for "the oldest" is
`Oldest(S)`, the voice no other is older than, which exists and is unique because stamps tell
voices apart (proved).  Numbers wrap at `TickMod` and `TimeMod`, and order is the sign of the
difference, as in the code.

**VoicePool** is the allocator without ticks: the sounding notes, the dying notes, and which of them
has been so for longer than which; under the mapping in `Control` that order is the order of
ages.  `Named` are the voices the host plays itself; for the others the pool leaves no choice.

**Engine** (`hdl/voice.py`).  One `Cycle` updates every register as the synchronous block does:
`SchedulerCycle` is `CommandScheduler`; `WalkCycle`, `ParkCycle`, `BankCycle` and `MixCycle` are the
bank.  A voice's registers are one value, what it was last told and what it adds to the mix,
nothing at rest; the one setting is the master gain.  `hold`, `acc` and `sample` are `env_hold`, the accumulator and
the output: the multiplier works half a slot behind the walk, so that a command that meets its
voice is heard from the next sample on.  `SampleEngine` has one step per sample.

**Envelope** (`hdl/voice.py`).  A step is a sample of one voice: the command that lands in it,
then the walk's write-back.  `Signed` and `Kept` are the 25-bit sum and its truncation.

**CommandPath**.  The word is pushed by `PushWord`, guarded by room as `cmd_push` stalls the
processor; `Sample` is a strobe: count down, land, fetch.  `meant` is history: the
sample each word on its way was scheduled for.  `Future` is what a voice will have been told once
so many of the words on their way have landed.

**FrameMailbox** (`hdl/mailbox.py`, `sw/main.c`).  One step per system clock cycle.  The
decoder is at some byte of some frame or between frames; the processor is away, looks at
the status, flushes, or takes a word.  A byte is known by its frame and its place in
it, so that a command put together wrongly is seen to be.  A name is given to a new frame when no word,
no gathered byte and no decoder has it any more (`Fresh`), so that a few names do for frames without end.  After a flush the processor's
next access is at least two cycles away; a PicoRV32 load takes more.  `Restart` is the run bit
going down and up: the parser's variables begin anew, the access under way takes its word or
flushes unheard or does not, and the mailbox itself, which is on no reset, goes on.  `cut` remembers
that what is at the head of the FIFO may be the rest of a frame whose header is gone, `sizes` how long the
decoder's frames are, so that a body in the FIFO can be held against its header.  Unless an overflow is told, then
(`StreamIsFrames`), a header follows only the last byte of the frame before it, and a frame that ends the
FIFO short of its length is the one the decoder is going on with.

**FrameDecoder** (`hdl/framing.py`, `hdl/crc.py`).  `ByteCycle` is a cycle with `in_stb`, `QuietCycle` one
without, `Drain` a cycle of the replay, in which a byte that comes is lost (`Dropped`): the decoder does not
look at it, the reference is fed it.  The checksum unit works a cycle behind.  `Crc` is the bitwise sum,
as recursive functions over the bits of a byte and the bytes of a frame.  `ReferenceDecoder` is `protocol.py`'s.

**Uart, SerialLine** (`hdl/uart.py`).  Steps are edges of the transmitter's clock, of the receiver's or of
both; `skew` is how far the one has run ahead of the other in the byte, `Slack` at most, which is
what two crystals and a rounded divisor can come to in ten bits.  `Receives` is `UartRx` with the
two flops in front of it, `Sends` is `UartTx`.  A `Glitch` is a cycle of noise on the idle line.  In `SerialLine` the decoder takes `stb` and `data` from the receiver.

**Replies** (`designs/control.py` 166-308, `hdl/framing.py` 149-239).  A cycle is what
`Decoder`, `Fifo`, `Handles` and `Transmitter` do in it.  Every branch of the handler is a
disjunct of `Handles`; `Slot` and `Raise` are what each does to the pending reply and to the sticky flags,
in the order the statements override one another.  `forward` is the design whose soft core
owns the FIFO.  Payload bytes are names, the checksum is the sequence of bytes it has taken in.  A byte of a command is its
number in the frame, which is how `OneCommand` tells a command word put together wrongly.
`ReplySlot` has a slot and a reply under way.

**Loader, Soc** (`hdl/loader.py`, `hdl/soc.py`, `protocol.py` 225-260, `cli.py` 286-319).  A cycle of the loader
(a byte of a replayed frame or none), of the memory port, the halt flop and the mailbox's
registers; every frame is the byte sequence `encode_load` makes.  `Host` is `host load`: run bit
off, the image in frames of `MaxLoadWords`, run bit on; any frame may be lost.  The loader's registers are
kept as their bytes, lowest first, and `Value` is the number they make; `Sendable` is what `encode_load`
checks, that the numbers of a frame fit in their bytes.  The
processor is external: any access at any time, kept up until it is ready, taken back by its reset.
`got` is the word the program should read next.

**Player** (`host/player.py`, `host/score.py`).  `ParseScore`, `Events`, `NextBatch` and `ApplyPatch`
are the functions of those names; time is in samples.  A sort is by places: that of a member is the
number of those before it and one, and of two with the same key the earlier stays before.  `Ask` reads a count that may be
torn (`Torn`, see `StatusCount`), and the batch made from it is sent later; commands take up to
`WireTime` to be heard.  The firmware is its anchor and its ring, which drops what does not
fit; an event lands within `Late` samples of its time.  `sounding` and `panel` are what the engine
plays and with which settings; `OP_RESET` takes back the waveform and leaves the rest.  What the code
takes for granted of its numbers and of the scores is `PaceAssumption` and `ScoreAssumption` (section 5).

Operators introduced by the comment "A mistake" are deliberately broken variants of
the operator next to them.  No specification uses one.  Put in its neighbour's place,
each makes the property named for it in `PROJECT.json` ("mutants") fail: that is how one
knows that the property says something.

## 4. What TLC checks

Each run finishes in about two minutes or less with two workers.

| Run | Checks | Bounds and why they are enough |
|---|---|---|
| `AsyncFifo` | `LevelIsCautious`, refinement of `BoundedQueue`; `EachSideSees` under fair clocks | Depth 4, the smallest the code allows; the pointers go round many times, every phase of the two clocks occurs. Safety is proved for every depth. Two entry values tell order. |
| `Control_allocator` | `StampsTellApart`, `NoteOffSilencesOne`, refinement of `VoicePool` | 3 voices and 2 pitches: a voice free, one dying and one sounding at once, and two of a pitch. The host names voice 0 only, so that what happens to 1 and 2 is the allocator's doing. Commands come at once or through the schedule, at this very sample. Ticks wrap at 10. |
| `CommandPath` | `NoOverrun`, `ScheduleInOrder`, `ChainWithinWindow`, `ShadowIsTheFuture`, `NeverEarly`, refinement of `Control` | 2 voices, FIFO of 1 word (so that a broadcast stalls in the middle), ring of 2, anchors one sample back and ahead, delays to 2, window 2, the count wrapping in the second sample. 3.1 million states. |
| `Engine` | `NoRace`, `LandsInItsSample`, `MixesEveryVoice`, refinement of `SampleEngine` | 2 voices, 5 cycles a sample: the tightest the code admits (`2*VOICES < period`). Peak 1, so that two voices clip. |
| `Envelope` | `UnderItsPeak`; `StagesEnd` | samples of 3 bits, accumulators of 4: every level, rates at both ends and in between, so that sums wrap. |
| `FrameMailbox` | `NeverMisSliced`, `DroppedWhole`, `StreamIsFrames` | FIFO of 4, commands of 2 bytes, frames of one command and of one and a half: gap, refusal, flush and restart at every byte. Five names tell all frames alive apart. 3.2 million states. |
| `SerialLine` | `BytesArrive`, refinement of `ReferenceDecoder` | bytes of 2 bits of 4 cycles, the clocks up to a cycle apart in a byte, a CRC of 4 bits, payloads to 2: every byte in every state of the decoder, both start bytes as data, good and bad checksums. The gap between bytes is longer than a replay, as 2340 cycles are than 32. |
| `StatusCount` | `ReadsARecentCount`, `TornByOneCarry`, `FreshAnswer`, `CountsInOrder` | counts of 6 bits in 3 digits of 2, one strobe between digits (`Pace * (Digits - 1) + 2 <= 2^DigitBits`, as 4 bytes at 4 and a bit strobes each are under 2^8): a carry out of either digit, and out of both, between any two; the count wraps. Three questions: one answered, one given up, one after it. |
| `Replies` | `WholeFrames`, `WritesLand`, `FlagsOutlast`, refinement of `ReplySlot`; `AlwaysAnswers` under a fair clock | commands and statuses of 2 bytes; frames of every kind, of right and wrong lengths; a line of one cycle a byte and a pause of two cycles between frames, much shorter than the real ones, so that frames come at every moment of a reply. FIFO of 1: full at every other command. |
| `Soc` | `AnsweredSoon`, `WrittenWhole`, `StartsClean`, `ReadsEachWord`, refinement of `AtomicMemory` | memory of 3 words of 2 bytes, an image of two frames at two places, at one of which neither frame fits; frames 3 cycles apart, so that a load starts in every phase of an access. |
| `Player` | `NothingDropped`, `AsWritten`; `PlayedToTheEnd` | ring of 8 of which 4 are kept free, delays to 3: scores with a chord, a pitch repeated, more notes than the ring has room for and a rest longer than a delay. The scores fill the ring to the margin, and are of a sane density; events are late and counts a carry ahead at every moment. Two voices, as many as the scores need. |
| `FrameDecoder_empty` | that `ReplayEnds` fails | see section 7. |

Other bounds.  `MaxAhead`, `MaxPass`: how far anchors and calls go, and with them that what is
compared lies within half a wrap (6.2 hours of samples on either side in the
code); `TicksInHalf`: no voice left alone for 2^31 ticks.  Both are guards on
the environment: section 6 says what lies beyond.  `Horizon`: samples looked at in
`CommandPath`.  `MaxTime` in `Player`: longer than any of the scores takes; `Marks` in `Soc`: mailbox
words are numbered modulo this.  Deadlock is not checked where the model really
stops: in `CommandPath` at the horizon, in `Control_allocator` when only the bound on ticks is left to stop a
dispatch, in `Player` when the piece is over.

**Fairness.**  `AsyncFifo`: weak fairness of either side's edges: both clocks run for ever; nothing
is assumed of who reads or writes.  `Envelope`: weak fairness of a sample, not of any
command: the pixel clock does not stop.  Its attack ends if it is from some
point on left to itself but for releases and resets, for a host that keeps changing the rate can keep it from
ending.  `Replies`: weak fairness of a cycle.  `Player`: weak fairness of each step of the host, of the
line and the firmware, and of the sample clock: the host program runs, bytes arrive, the firmware's loop goes
round.  `FrameDecoder`: weak fairness of a cycle without a byte and of the replay: the clock runs, bytes need not
come.

## 5. What is proved

With TLAPS, for every value of the constants that the assumptions named in the modules
allow.

| Module | Theorem | Says |
|---|---|---|
| `FifoProof` | `Safety`, `CautiousAlways`, `Refinement` | type and `Views`; `LevelIsCautious`; the FIFO implements `BoundedQueue`; any depth from 4, any words |
| `ControlProof` | `AlwaysSilencesOne` | a note-off played at once takes one voice off its note, for any number of voices |
| `ControlProof` | `TypeCorrect`, `StampsAlwaysTellApart`, `NeverOverrun`, `AlwaysInOrder`, `NeverBeyondWindow` | the firmware's invariants for any number of voices, ring, window and word width |
| `ControlProof` | `AlwaysAPool` | the firmware implements `VoicePool`, for any number of voices, any commands and any ring, across wraps of ticks and times |
| `ControlProof` | `PathIsControl`, and from it `PathNeverOverruns`, `PathInOrder`, `PathWithinWindow`, `PathIsAPool` | the same firmware on the whole path, for any FIFO, however pushes stall and samples fall (`NeverBeyondWindow` and `PathWithinWindow` bound what the firmware reckons with, not what waits in the FIFO: section 7) |
| `ControlProof` | `NeverTooEarly` | no scheduled command is heard before the sample it was scheduled for, whatever is in its way |
| `ControlProof` | `AlwaysTheFuture` | what the firmware believes of a voice is what the voice will have been told when all on its way has landed |
| `EngineProof` | `StaysInStep`, `NeverARace`, `LandsInTime`, `Refinement` | any number of voices whose walk is shorter than a sample: 8 and 525 are an instance |
| `EngineProof` | `AlwaysMixesEveryVoice` | a sample is the sum of every voice once, as each was at the strobe, clipped |
| `EnvelopeProof` | `TypeCorrect`, `AlwaysUnderItsPeak`, `NeverInverted` | any sample and accumulator width: 16 and 24 are an instance |
| `RepliesProof` | `OneSlot`, `AlwaysWholeFrames` | the handler is a slot before a transmitter, and every reply is one whole frame; any lengths, line and set of requests |
| `RepliesProof` | `AlwaysWritesLand`, `AlwaysFlagsOutlast` | each word put in the FIFO is the bytes of one command in order, and finds room; no status is taken back but by a reset |
| `FifoProof` | `AlwaysSlicedRight`, `AlwaysDroppedWhole`, `AlwaysFrames` | no command is cut from bytes of two frames or out of place; of a frame refused a word no command runs; the FIFO holds the rest of a frame and whole frames, each as long as its header says; any depth from 4, command length, frame lengths and supply of names, flushes and restarts at any time |
| `SerialProof` | `AlwaysARecentCount`, `AlwaysCountsInOrder` | the count read is of at most two strobes ago, and no count is skipped or comes back; any width from 2 to the 32 bits the decoder serves, every way the flops may fall |
| `SerialProof` | `AlwaysTornByOneCarry` | a reply's count is the one at its first digit or that and a carry out of exactly one digit; any width and number of digits, provided the lowest does not go round while a reply is sent (`StatusAssumption`) |
| `SerialProof` | `AlwaysBytesArrive` | the receiver hands on every byte begun, once, in order and as it was; every byte width, every divisor from 4, every drift up to a quarter of a bit |
| `SerialProof` | `AlwaysArriveOnTheLine` | the same with the decoder behind the receiver (`LineSpec`) |
| `SerialProof` | `DecoderIsReference`, `AlwaysReference` | on every stream of bytes, and on what comes down the line, the hardware decoder is the reference decoder: it replays the payloads that one returns, and nothing else; any width of a byte, largest payload and polynomial, if a byte takes longer than a replay and no frame is empty |
| `SerialProof` | `AlwaysFreshAnswer` | no count is taken from a reply that lay in the input when the host asked; any number of questions, lost replies and time-outs |
| `SocProof` | `OneMemory`, `AlwaysAnsweredSoon`, `AlwaysReadsEachWord` | one memory for loader and processor, an access put off by a cycle at most, each mailbox word read once; any memory, images and words of more than a byte |
| `SocProof` | `AlwaysWrittenWhole`, `AlwaysStartsClean` | a load is written whole or not at all; a program starts unhalted, with its image in place and no access of the old one under way; any widths of word, address and count, any memory, images of any number of frames |
| `PlayerProof` | `NeverDrops` | nothing the host sends is dropped by the ring: any ring, margin, delay, horizon, wait between two looks at the count and time on the line, counts that are old or a carry ahead, any scores of a sane density |
| `PlayerProof` | `PlaysAsWritten`, `SilentAtTheEnd` | while no event is due, what sounds is what the score has sounding then, in the sound it names, and at the end nothing; any scores that need no more voices than there are |

*AsyncFifo.*  One lap is a picture: from the writer's oldest view of the reader on, one meets
`wRptr, wMeta, rBin, rWptr, rMeta, wBin` in that order.  `Views` says the distances between
neighbours add up to a depth at most.  It is inductive with the types: each edge moves each pointer
no further than the next, and the full test stops `wBin` a lap after `wRptr`.  The status
level is then a distance that contains the true one, and the entries between `rBin` and `wBin` are a
queue that no write touches.

*Control.*  The stated invariants are not inductive: "the oldest voice" is only a
voice if stamps are distinct and a wrapping comparison is an order on them, and a comparison of times
only if all lie near each other.  The strengthening says that the ages of playing
voices are distinct and positive and within half a round (`Stamped`), that everything in the schedule,
the anchor and the chain lie within reach of `now` (`InSight`), and that an event in the loop leaves room
for a voice's worth of output.  That `Oldest` exists is by well-founded induction on ages,
and with it a note-off finds the one voice it silences.  A change of a voice makes it the youngest and lets
the others age by one (`AgesGoOn`), so that the order of ages changes as the pool's does; for the refinement
one has to know besides that what waits in the ring is what the host once said (`FromHost`).

*CommandPath.*  A push or a sample is a stutter of `Control` or one of its steps.  The one thing to show is
that a dispatch goes no further than a pass: the count it last read is never older than the samples
looked at (`Recent`).

`NeverEarly` needs a reckoning of the whole pipe.  `Timely` says that there is a lower bound on the sample
each word under way lands at, of which the first follows from the count that runs, each next is a delay
later, none is before the sample its word was meant for, and the last is not before the chain.  That is
kept by a push, which lengthens it by what the firmware reckoned with; by a sample, which shortens it at the
head; and by the dispatch, which starts its chain from the old one or from a count that is in the past
(`Recent`).  A stalled push only makes landings later.  `Foretold` is the same shape for what is
said in place of when: a sequence of states of the voices, from what the engine was told, by way of each word
under way, to the shadow.  It takes one fact more, that no reset is in the ring (`NoResets`), for a reset is
applied as it comes.

*Engine.*  The position of the walk follows from the clock (`InStep`); so a strobe finds it
over, a command is handed over in a cycle in which no walk is under way, and what is parked is
for a voice not yet passed (`StillAhead`).  Under the mapping that counts a handed-over command as
done, a cycle with a strobe is a sample and any other a stutter.  For the mix, `Mixing` says that the accumulator
holds the sum of the voices already walked, as they were at the strobe, and that those still to come have
not changed since; that such partial sums exist and that the last of them is the sum is by well-founded
induction on the slots, as a statement on sets of naturals.

*Envelope.*  `loudest`, the highest level of the note, bounds both the level and the
accumulator; the attack is the one place that could pass it and either clamps or wraps downwards.
That the level is never read as negative (`NeverInverted`) follows.

*Replies.*  While a reply is sent, or about to be, its kind and its length do not change (`Steady`): the
handler's slot is emptied into `sending` only when the transmitter is free and not already started.  What
has been sent is then, state by state, as much of that reply's frame as the transmitter's state says
(`Progress`), and at the end all of it.  `AlwaysWholeFrames` needs no assumption on when requests come.  The words of the FIFO come from what
the handler's register holds: in a frame of commands the last bytes of it, as many as there have been
(`Assembled`).  `full` is a register, a cycle late; that its word is good a cycle later rests on a command
having more than one byte, so that no write is followed by another at once (`Room`).

*Soc.*  Two facts about time.  The loader's strobe is never high for two cycles, because it comes with the
last byte of a word and words have more than one (`Spaced`); so an access put off once is not put off
again.  And a processor stopped in the middle of an access has let go of the port before the next frame
can start it again (`LetGo`); so what a reset takes unread it takes in the cycle it comes, once
(`Together`).  For the refinement, an address phase in memory is the abstract step that performs the
access; a strobe is a load, alone or with an access beginning or ending.

What the loader writes follows from what its registers hold (`Following`, with `Holds` and `Filling`): the
bytes of the frame that have come, each in its place, so that the address and the count are the frame's when
the range is checked and a word is the frame's when it is written.  The frames still to come are
the last of the flow (`Scripted`), so the `k`-th load frame puts its words where the image has
them (`LoadFacts`).  From the byte that clears the run bit to the one that
sets it (`Underway`), if no frame was lost, every word that has come is in memory or on the port
(`Delivered`).  The processor cannot disturb that: an access it had begun is over before the
next frame can come (`Quiet`).

*FrameMailbox.*  Between flushes the pointers are `AsyncFifo`'s, and with one clock the writer's view is a
word behind at most (`Following`); the two cycles after a flush are the other case (`Flushed`), and the
processor's next access comes after them.  About the words, nothing can be said of where frames begin and end
without saying what went before: so `Stream` says of every byte in the FIFO that all bytes of its frame
before it precede it, back to the header, or else back to the head of the FIFO, and then the parser is
in that frame and waits for just the byte at the head, or was restarted and ignores what comes (`Placed`,
`Expects`).  The decoder's own byte stands so to the end of the FIFO, which is what a push needs.  A refused word
breaks this, and then `overflow` is up until the flush that empties the FIFO; what may still be taken before it is
one word, chosen before the overflow was seen (`Headed`).  `DroppedWhole` follows from `Named`: a frame of which a
command has run has fewer words left than the FIFO had room for, as the parser took them from it, so
that none of these is refused.  Where the parser is in a command follows from where it is in a frame (`Aligned`).
For `StreamIsFrames` there is a second chain, from each word to the next and from the last to the decoder
(`Linked`): each word is the next of its frame, or a header after the last byte of another, where the last byte is
the one at the frame's length.  A pop moves the parser on by what the chain loses (`HeardPlace`), a push adds the word the chain
was waiting for (`PushedLinked`), and the length of a frame does not change while it has a word left or the
decoder is at it, because its name is not given away before (`SizesKept`).

*SampleCounter, StatusCount.*  On words as sets of ones the Gray code is linear, so what changes in it when the
count goes on is the Gray code of what changes in the count: of the bits up to the first zero, which is
the one bit they end at (`OneBitChanges`).  A row of flops that catches the change therefore has the old word
or the new (`SampledIs`).  Each round of the decoder doubles the distance between the word and its copy
(`Doubles`), and at 32 the copy is empty.  `Counted` then says that each row is a count at
most one behind the one before it, and that there is no lag but after a strobe.  `Numbered` says that a question
on its way to being an answer is in one place, the slot, the reply or the input, and that none of those was
heard of when the last was asked.

For `TornByOneCarry` the lowest digit has to be a number: `ValuesExist` says that words of any width have
values of which each is one more than the last, by induction on the width as a statement on a set of
naturals, and `OneMore` that a count goes on either in its lowest digit or by a carry into the rest.  While a
reply is being sent (`Torn`) the count is `n` strobes from the one it began with, less than a round, so that there
has been no carry or one (`On`, `OnGoes`); the digits so far are those of the first count up to the
carry and those of the count above it from there on (`Content`), which put together is the count plus
a power of two (`AllDigits`).  How far the rows of flops are behind is two strobes of the
round (`Lags`, `LagSteps`).

*Uart.*  While a byte is being received the transmitter is two cycles of synchroniser and the skew ahead of the
receiver (`Aligned`), so that what leaves the synchroniser is what was on the line about that long ago (`Seen`),
and in the middle of a bit that is the bit: half a divisor is at least two cycles and twice the
drift.  What has been collected and what is left of the byte after that many halvings make up the byte
(`Collected`, `Parts`).  The two ends are where the machines are not both in a byte: the receiver has yet
to see a start bit (`Unseen`), the transmitter has yet to finish the stop bit (`Ending`), or has done
with it and may have begun the next before the receiver samples it (`Tailing`, `Overlap`).  A glitch is
over before the line may be used again (`Noisy`).

*FrameDecoder.*  `Reads` holds the decoder against the reference state by state: the length register and as many bytes
of the buffer as have come are the reference's body, and what the checksum unit has, once it has done what it
was told in the last cycle, is the checksum of that body (`ChecksumGoesOn`), at the second checksum byte
without that once.  A byte that is taken is one feed of the reference; but the last of a frame that matches
is fed only when the replay is over, and what has been replayed by then is the reference's payload.
Meanwhile another byte would be fed and never seen: `Replays` says that there are as many cycles left
to the next byte as bytes to replay.  That is where `Gap > MaxPayload` comes in (`DecoderAssumption`: 2340 cycles
against 32), and a frame of no bytes, whose replay never ends, is the exception the theorem names and section 7
tells of.  Behind the receiver nothing else is needed than that what is handed on is a byte (`InFlight`).  That
bytes come down the line no faster than `Gap` is not proved: the run would deadlock if one did.

*Player.*  `NothingDropped` is not inductive: the ring drops an event when it is full, and also when the event is
before the last one in it, so that one has to know of every event where it is and when it will be
heard.  The events are in three parts (`InPlay`): `l` have landed, the ring holds those up to `h`, the wire
the rest of those sent, each as the command that puts it on its sample given the anchor that the commands before it
leave behind (`Says`).  An event with its time and the lateness past has landed (`Landed`); one on the wire is heard
before it is late (`OnTheWay`); one not yet sent is far enough ahead for the next look at the count and the answer
to it (`Ahead`).  A batch is what keeps the last: it stops at the end of the horizon, which is further than a
lead, or because it has filled the ring, which then holds more commands than a lead of the score has
(`Reaches`).  The room it reckons with is wrong by the events up to a carry ahead, or late; those are no
more than the margin (`WithinTheMargin`), so that whatever is on the wire finds a place (`WithinTheRoom`).

What sounds depends then only on which `l` events have landed (`Sound`): the sort puts each note's start
before its release (`EventsAre`, for notes of some length), the notes started and not released are those held at the
last event landed, and there is a voice for each of them, so that none is stolen (`StartSounds`,
`ReleaseSounds`).  While no event is due, the events landed are exactly those before now.  That a sort is a sort,
each member once, in order, equal ones as they were, follows from counting: places are an injection of a
finite set into as many numbers (`Sorting`).

Two assumptions carry the weight.  `PaceAssumption` is what the host's times are chosen for: a lead is
within the horizon (2 s, `player.py` 43), and the lead-in (0.5 s, line 47) is longer than a wait with the carry a
count may be ahead by, and than two waits (0.05 s and a reply each, line 55) with the time on the line.
`ScoreAssumption` is "any sane note density" (`player.py` 40-42), which the code does not check:
no more commands in a lead than the ring holds above its margin (240 in the 0.1 s or so of a lead), no more events
than the margin (16) in the samples by which a count or an event may be off, notes of some
length, and no more of them at a time than voices.  Sixteen are the releases and starts of a chord of eight
that follows another at once, the most that eight voices can be asked for at one time.

Only model-checked: liveness, which is `EachSideSees`, `StagesEnd`, `AlwaysAnswers`, `PlayedToTheEnd` and the finding `ReplayEnds`
(fairness and ENABLED are out of the prover's reach).  Every safety property of the passing runs is proved.

## 6. What is left out

- Beyond the bounds on wraps: `chained` is cleared only by a reset or an
  event that hands nothing back, so that after 2^31 samples (12.4 hours) without an event a stale chain looks like one
  in the future (`control.c` 305).  `InReach` keeps the environment from going there.
- What a restart of the processor does to the shadow (`control.c` 49): it forgets it while the engine plays
  on and the FIFO still holds words.  Nothing in the code repairs that but the next `OP_RESET`, and
  `ShadowIsTheFuture` holds from there.  `FrameMailbox` has the restart, `CommandPath` has not.
- In `Engine` waveforms and phases, in `Envelope` frequency, waveform and gain.
- In `FrameMailbox` the counters that only the host reads; in `Soc` the registers that only
  report and writes of single bytes; in `Replies` the status fields' values but for the sample count's,
  which is in `StatusCount`.
- The wait at the end of `play`, from the last command sent to the last event played (`player.py` 176-178).
- The command line's calls that send a single command and keep no state (`cli.py`); finding and
  opening the port.
- Metastability beyond old-or-new: a flop that has not settled by its next edge.
- Everything marked not modelled in section 1.

## 7. Where the code and its text disagree, and what one meets on the way

With a run of its own:

- **`FrameDecoder_empty`.**  `framing.py` 33-35: a replay "takes a few hundred nanoseconds".  A frame of length
  0 with a matching checksum reaches the replay with `index == length - 1` (line 130) never true: it replays
  for ever and hears no further byte.  The reference decoder returns the empty payload.  (No host sends such
  a frame; `SerialLine` leaves its last byte out.)

Disagreements the models show without a run for each:

- `voice.py` 63-65: "the fastest [attack] is instant".  At the largest rate the sum of 25 signed bits (line 232)
  wraps negative once the envelope is above zero: a note part of the way up a slower attack when the panel is
  set to the fastest sinks by one a sample, all the way down, before it gets to its peak.  `StagesEnd` holds all
  the same.
- `control.h` 50-53: a command arriving now "never waits behind more than 1.3 ms of schedule", which is the
  window.  A dispatched event that emits nothing, a note-off of a pitch that is not playing, clears
  `chained` (`control.c` 323) although earlier words are still in the FIFO; the next event is measured
  from now and queued behind them with its whole gap again.  In `CommandPath` with a ring of 3 a note, such a note-off and
  another note, all due a window ahead and dispatched at once, leave two windows of delay under way; the second
  note, and all that hangs off it, is a window late.  Keeping the chain over such an event (`ChainAlways`) would
  not mend it: then events land early (`NeverEarly`).  So `ChainWithinWindow` is no form of that promise: it bounds
  the landing the firmware reckons with, and says nothing of what waits in the FIFO.
- `score.py` 81-84: a setting a score does not mention stays as it is.  `play` sends `OP_RESET` first, which
  takes back the waveform (`voice.py` 332-339) and none of the others; `Player` has it so, and
  `AsWritten` asks only for what the score names.
- `player.py` 87: releases are sorted before starts of the same sample, so that of a note of no length
  the release comes first and finds nothing, and the start is never taken back.  The scores of
  `Player` have no such notes.

Limits worth knowing, which the properties hold within:

- A count in a status reply may be ahead of any the counter held, by one carry (`TornByOneCarry`); a schedule
  anchored at it starts late by up to 2^24 samples.  `Player` allows for carries shorter than the lead-in
  (`PaceAssumption`: one out of the lowest digit, 256 samples, is; one out of the next, 65536, is not): by
  a longer one, the host may send what the ring has no room for.
- An answer may be that of an earlier question, whose reply had not come when the last was asked
  (`FreshAnswer`): nothing in a frame says which question it is for.
- `error_code` is a register beside the slot of replies, so that an error that comes while another is being
  sent may put its code into that one's frame.  `WholeFrames` asks for some error's code.
- The ring margin has to cover the events within `Torn + Late + 1` samples, and the host does not know how many
  these are, nor the commands within a lead (`NothingDropped` holds for scores of a sane density, `ScoreAssumption`).
- A score with more notes at a time than voices plays on with the oldest stolen, and the release of a stolen note
  may then let go of another of its pitch; `PlaysAsWritten` is about scores that fit.
- A command frame lost on the line is not asked for again: the events after it in its chain of
  delays come early, until the next anchor.  Load frames are not acknowledged either; `StartsClean` speaks of loads
  of which no frame was lost.
- The word an access has taken from the mailbox when the processor is stopped is lost, and overflow and status stay
  as they were through a reload.
- A mailbox flush drops the rest of a frame of which commands have been executed; "dropped whole"
  is true of frames the mailbox refused a byte of (`DroppedWhole`).
- A load frame with more words than its count announces would write past the range that was checked; no
  host makes one, and `WrittenWhole` is about the frames hosts make.
- The player's times are unbounded integers, the sample count wraps at 2^32 (25 hours).
