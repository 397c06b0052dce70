-------------------------- MODULE ReferenceDecoder --------------------------
(***************************************************************************)
(* protocol.py's FrameDecoder, what hdl/framing.py's is the counterpart    *)
(* of: fed a byte, it returns a payload or nothing.                        *)
(***************************************************************************)
EXTENDS Crc

CONSTANTS MaxPayload, SOF0, SOF1

VARIABLES state, body, crcLo,
          fed,          \* the byte it was last fed
          returned      \* a sequence of what that returned, if anything

refVars == <<state, body, crcLo, fed, returned>>

Reset == state' = "idle" /\ body' = << >> /\ crcLo' = 0
Init == state = "idle" /\ body = << >> /\ crcLo = 0 /\ fed = 0 /\ returned = << >>

Become(st) == state' = st /\ UNCHANGED <<body, crcLo>>

Collect(byte) ==
  \/ state = "idle" /\ Become(IF byte = SOF0 THEN "sof1" ELSE "idle")
  \/ state = "sof1" /\ Become(IF byte = SOF1 THEN "len" ELSE IF byte = SOF0 THEN "sof1" ELSE "idle")
  \/ state = "len" /\ byte > MaxPayload /\ Reset
  \/ /\ state = "len" /\ byte <= MaxPayload
     /\ body' = <<byte>> /\ state' = IF byte = 0 THEN "crc_lo" ELSE "payload"
     /\ UNCHANGED crcLo
  \/ /\ state = "payload"
     /\ body' = Append(body, byte)
     /\ state' = IF Len(body) = body[1] THEN "crc_lo" ELSE "payload"
     /\ UNCHANGED crcLo
  \/ state = "crc_lo" /\ crcLo' = byte /\ state' = "crc_hi" /\ UNCHANGED body

Feed(byte) ==
  /\ fed' = byte
  /\ \/ Collect(byte) /\ returned' = << >>
     \/ /\ state = "crc_hi"
        /\ Reset
        /\ returned' = IF Checksum(body) = crcLo + byte * 2^ByteBits THEN <<Tail(body)>> ELSE << >>

Next == \E byte \in Byte : Feed(byte)

Spec == Init /\ [][Next]_refVars
=============================================================================
