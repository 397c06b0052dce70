---------------------------- MODULE FrameDecoder ----------------------------
(***************************************************************************)
(* hdl/framing.py's FrameDecoder with its checksum unit, cycle by cycle.   *)
(* A payload is kept while it arrives and replayed a byte a cycle once the *)
(* checksum matches; the decoder does not look at bytes meanwhile.         *)
(***************************************************************************)
EXTENDS Crc

CONSTANTS MaxPayload, SOF0, SOF1,
          Gap,        \* the cycles from a byte to the next, at least
          Empty       \* whether a frame of no bytes may come with its checksum

\* 2340 cycles between bytes at 115200 baud, 32 bytes to replay.
ASSUME DecoderAssumption == /\ MaxPayload \in Byte \ {0} /\ SOF0 \in Byte /\ SOF1 \in Byte
                            /\ Gap \in Nat /\ Gap > MaxPayload
                            /\ Empty \in BOOLEAN

VARIABLES state, length, crcLo, index, buffer,
          outLength, crcError, lengthError,
          crc,          \* Crc16: its value and the inputs registered for it
          wait,         \* cycles until the next byte can arrive
          came,         \* history: the last byte that came
          replayed,     \* history: the bytes replayed of this frame
          returned      \* history: the payload the last byte made, if it did

registers == <<state, length, crcLo, index, buffer>>
decoderVars == <<registers, outLength, crcError, lengthError, crc, wait, came, replayed, returned>>

DecoderInit == /\ state = "idle" /\ length = 0 /\ crcLo = 0 /\ index = 0
               /\ buffer = [i \in 0 .. MaxPayload - 1 |-> 0]
               /\ outLength = 0 /\ crcError = FALSE /\ lengthError = FALSE
               /\ crc = [value |-> InitialCrc, start |-> FALSE, stb |-> FALSE, byte |-> 0]
               /\ wait = 0 /\ came = 0 /\ replayed = << >> /\ returned = << >>

\* The checksum unit does in a cycle what it was told in the one before.
CrcValue == IF crc.start THEN InitialCrc ELSE IF crc.stb THEN Absorb(crc.value, crc.byte) ELSE crc.value
CrcRests == crc' = [crc EXCEPT !.value = CrcValue, !.start = FALSE, !.stb = FALSE]
CrcStarts == crc' = [crc EXCEPT !.value = CrcValue, !.start = TRUE, !.stb = FALSE]
CrcTakes(byte) == crc' = [value |-> CrcValue, start |-> FALSE, stb |-> TRUE, byte |-> byte]

\* `index` has as many bits as MaxPayload needs and wraps.
Following(i) == IF i = MaxPayload - 1 THEN 0 ELSE i + 1
Matches(byte) == crcLo + byte * 2^ByteBits = crc.value

Become(st) == state' = st /\ UNCHANGED <<length, crcLo, index, buffer>>
NoFault == crcError' = FALSE /\ lengthError' = FALSE

-----------------------------------------------------------------------------
\* What a byte does in each state.
Idle(byte) == /\ state = "idle"
              /\ Become(IF byte = SOF0 THEN "sof1" ELSE "idle")
              /\ CrcRests /\ NoFault /\ UNCHANGED outLength

\* A mistake: a second first byte is not taken for one.
Sof1Strict(byte) == /\ state = "sof1"
                    /\ Become(IF byte = SOF1 THEN "len" ELSE "idle")
                    /\ IF byte = SOF1 THEN CrcStarts ELSE CrcRests
                    /\ NoFault /\ UNCHANGED outLength

Sof1(byte) == /\ state = "sof1"
              /\ Become(IF byte = SOF1 THEN "len" ELSE IF byte = SOF0 THEN "sof1" ELSE "idle")
              /\ IF byte = SOF1 THEN CrcStarts ELSE CrcRests
              /\ NoFault /\ UNCHANGED outLength

BadLength(byte) == /\ state = "len" /\ byte > MaxPayload
                   /\ Become("idle")
                   /\ CrcRests /\ crcError' = FALSE /\ lengthError' = TRUE /\ UNCHANGED outLength

Length(byte) == /\ state = "len" /\ byte <= MaxPayload
                /\ length' = byte /\ index' = 0
                /\ state' = IF byte = 0 THEN "crc_lo" ELSE "payload"
                /\ CrcTakes(byte) /\ NoFault /\ UNCHANGED <<crcLo, buffer, outLength>>

Payload(byte) == /\ state = "payload"
                 /\ buffer' = [buffer EXCEPT ![index] = byte]
                 /\ IF index = length - 1
                      THEN state' = "crc_lo" /\ UNCHANGED index
                      ELSE index' = Following(index) /\ UNCHANGED state
                 /\ CrcTakes(byte) /\ NoFault /\ UNCHANGED <<length, crcLo, outLength>>

CrcLo(byte) == /\ state = "crc_lo"
               /\ crcLo' = byte /\ state' = "crc_hi"
               /\ CrcRests /\ NoFault /\ UNCHANGED <<length, index, buffer, outLength>>

CrcHi(byte) == /\ state = "crc_hi"
               /\ IF Matches(byte)
                    THEN state' = "drain" /\ index' = 0 /\ outLength' = length /\ crcError' = FALSE
                    ELSE state' = "idle" /\ crcError' = TRUE /\ UNCHANGED <<index, outLength>>
               /\ CrcRests /\ lengthError' = FALSE /\ UNCHANGED <<length, crcLo, buffer>>

-----------------------------------------------------------------------------
\* Where the input is without an empty frame that passes, 1 in 2^16 of those.
Comes(byte) == Empty \/ ~(state = "crc_hi" /\ length = 0 /\ Matches(byte))

ByteCycle(byte) ==
  /\ wait = 0 /\ wait' = Gap - 1
  /\ Comes(byte)
  /\ \/ Idle(byte) \/ Sof1(byte) \/ BadLength(byte) \/ Length(byte)
     \/ Payload(byte) \/ CrcLo(byte) \/ CrcHi(byte)
  /\ came' = byte /\ returned' = << >> /\ replayed' = << >>

Passes == wait' = IF wait = 0 THEN 0 ELSE wait - 1

QuietCycle == /\ state # "drain"
              /\ Passes
              /\ CrcRests /\ NoFault /\ UNCHANGED <<registers, outLength, came, replayed, returned>>

\* The bytes replayed so far are remembered up to one too many (a bound).
Replayed == IF Len(replayed) > MaxPayload THEN replayed ELSE Append(replayed, <<index, buffer[index]>>)

ReplayDone == index = length - 1

\* A byte that comes during a replay is dropped.
Dropped == wait = 0 /\ wait' = Gap - 1 /\ came' \in Byte

\* A cycle of the replay: out_stb is high and out_byte is the byte at index.
Drain == /\ state = "drain"
         /\ (Passes /\ UNCHANGED came) \/ Dropped
         /\ IF ReplayDone THEN state' = "idle" /\ UNCHANGED index
                          ELSE index' = Following(index) /\ UNCHANGED state
         /\ replayed' = Replayed
         /\ returned' = IF ReplayDone THEN <<[i \in 1 .. Len(Replayed) |-> Replayed[i][2]]>>
                                      ELSE << >>
         /\ CrcRests /\ NoFault /\ UNCHANGED <<length, crcLo, buffer, outLength>>

DecoderNext == QuietCycle \/ Drain \/ \E byte \in Byte : ByteCycle(byte)

DecoderSpec == DecoderInit /\ [][DecoderNext]_decoderVars

\* The clock does not stop.
DecoderFairSpec == DecoderSpec /\ WF_decoderVars(QuietCycle \/ Drain)

-----------------------------------------------------------------------------
\* The frame as the reference decoder would have it: the replay is the end of
\* its last feed.
Body == CASE state = "payload" -> <<length>> \o [i \in 1 .. index |-> buffer[i - 1]]
               [] state \in {"crc_lo", "crc_hi", "drain"} -> <<length>> \o [i \in 1 .. length |-> buffer[i - 1]]
               [] OTHER -> << >>

R == INSTANCE ReferenceDecoder WITH
       state <- IF state = "drain" THEN "crc_hi" ELSE state,
       body <- Body,
       fed <- IF state = "drain" THEN crcLo ELSE came,
       crcLo <- IF state \in {"crc_hi", "drain"} THEN crcLo ELSE 0

\* On every stream of bytes, noise and frames cut short included, the hardware
\* replays the payloads the reference decoder returns, byte for byte and in
\* order, and nothing else (framing.py 24-36, protocol.py 270-325): no byte is
\* dropped by a replay and no checksum is compared before it is complete.
IsReference == R!Spec

\* "A replay takes a few hundred nanoseconds" (framing.py 34): it ends.
ReplayEnds == state = "drain" ~> state # "drain"
=============================================================================
