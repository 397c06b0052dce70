------------------------------- MODULE Replies -------------------------------
(***************************************************************************)
(* hdl/designs/control.py's PacketHandler and the FrameTx of               *)
(* hdl/framing.py it answers through, cycle by cycle.  The decoder replays *)
(* a good frame a byte a cycle; the transmitter takes a byte whenever the  *)
(* UART is free.  Both designs: with `forward` the commands are the soft   *)
(* core's, without it they are written to the command FIFO from here.      *)
(***************************************************************************)
EXTENDS Integers, Sequences

CONSTANTS CommandBytes,    \* COMMAND_BYTES
          StatusBytes,     \* STATUS_BYTES
          Requests,        \* the frames that come: a type and a length each
          Faults,          \* the errors the decoder tells of: "crc", "length"
          ByteTime,        \* cycles the UART takes to send a byte
          Depth,           \* words the command FIFO holds
          Gap              \* cycles between two replays, at least

Types == {"commands", "ping", "status", "load", "other"}

\* Six bytes at the least lie between two replays, 2340 cycles each.
ASSUME RepliesAssumption == /\ CommandBytes \in Nat /\ CommandBytes > 1
                            /\ StatusBytes \in Nat /\ StatusBytes > 1
                            /\ Depth \in Nat /\ Depth > 0 /\ ByteTime \in Nat
                            /\ Faults \subseteq {"crc", "length"}
                            /\ Requests \subseteq [type : Types, length : Nat \ {0}]
                            /\ Gap \in Nat /\ Gap > 1

ErrorBytes == 3
Kinds == {"pong", "status", "error"}
Codes == {"bad_length", "unknown_packet", "fifo_overflow", "bad_command"}
Flags == {"crc", "length", "overflow", "bad_command", "unknown"}

\* A body byte matters as the opcode of a reset or as any other.
NoByte == [type |-> "other", length |-> 1, index |-> -1, byte |-> "any"]

VARIABLES forward,                       \* which design this is
          rx, fault,                     \* this cycle's inputs from the decoder
          rest,                          \* cycles until the next replay can begin
          frameState, accum, flags,      \* PacketHandler's registers
          pending, sending, errorCode,
          write,                         \* the word w_inc is high for, if it is
          level, full,                   \* the FIFO, as its writer has it
          tx, uart,                      \* FrameTx, and cycles until UartTx is free
          hashed,                        \* what the checksum has taken in
          sent                           \* history: the frame as it was sent

input == <<forward, rx, fault, rest>>
handler == <<frameState, accum, flags, pending, sending, errorCode>>
vars == <<input, handler, write, level, full, tx, uart, hashed, sent>>

Init == /\ forward \in BOOLEAN
        /\ rx = NoByte /\ fault = {} /\ rest = 0
        /\ frameState = "ignore" /\ accum = [i \in 1 .. CommandBytes |-> 0] /\ flags = {}
        /\ pending = "none" /\ sending = "none" /\ errorCode = "none"
        /\ write = << >> /\ level = 0 /\ full = FALSE
        /\ tx = [state |-> "idle", index |-> 0, length |-> 0, start |-> FALSE]
        /\ uart = 0 /\ hashed = << >> /\ sent = << >>

-----------------------------------------------------------------------------
\* The decoder: replays apart from one another, a byte a cycle, and one fault
\* between them now and then.
Strobe == rx.index >= 0
Decoder ==
  /\ UNCHANGED forward
  /\ \/ /\ Strobe /\ rx.index < rx.length - 1
        /\ rx' \in {[rx EXCEPT !.index = @ + 1, !.byte = b] : b \in {"reset", "any"}}
        /\ fault' = {} /\ UNCHANGED rest
     \/ /\ Strobe /\ rx.index = rx.length - 1
        /\ rx' = NoByte /\ fault' = {} /\ rest' = Gap
     \/ /\ ~Strobe
        /\ rest' = IF rest = 0 THEN 0 ELSE rest - 1
        /\ \/ rx' = NoByte /\ fault' \in {{}} \union {{f} : f \in Faults}
           \/ /\ rest = 0 /\ fault' = {}
              /\ rx' \in {[type |-> r.type, length |-> r.length, index |-> 0, byte |-> "any"] : r \in Requests}

\* The FIFO: full shows at once, room some time after the reader made it.
Fifo == \E room \in {0, 1} :
          /\ level' = level + Len(write) - (IF level > 0 THEN room ELSE 0)
          /\ full' \in IF level' >= Depth THEN {TRUE} ELSE IF full THEN BOOLEAN ELSE {FALSE}

-----------------------------------------------------------------------------
\* FrameTx: SOF, SOF, length, payload, checksum.
Busy == tx.state # "idle"
\* A mistake: busy taken for ready.
WhileBusy == Busy /\ uart > 0
Takes == Busy /\ uart = 0

StatusByte(i) == IF i = 0 THEN "status_reply" ELSE <<"field", i>>
ErrorByte(i) == CASE i = 0 -> "error" [] i = 1 -> errorCode [] OTHER -> "zero"

\* A mistake: the payload chosen by what is asked for next.
ByPending == IF pending = "status" THEN StatusByte(tx.index)
             ELSE IF pending = "error" THEN ErrorByte(tx.index) ELSE "pong"

ByteIn == IF sending = "status" THEN StatusByte(tx.index)
          ELSE IF sending = "error" THEN ErrorByte(tx.index) ELSE "pong"

TxData == CASE tx.state = "sof0" -> "SOF0"
            [] tx.state = "sof1" -> "SOF1"
            [] tx.state = "len" -> tx.length
            [] tx.state = "payload" -> ByteIn
            [] tx.state = "crc_lo" -> <<"lo", hashed>>
            [] OTHER -> <<"hi", hashed>>

LastByte == tx.index = tx.length - 1
TxFollowing == CASE tx.state = "sof0" -> "sof1"
                 [] tx.state = "sof1" -> "len"
                 [] tx.state = "len" -> IF tx.length = 0 THEN "crc_lo" ELSE "payload"
                 [] tx.state = "payload" -> IF LastByte THEN "crc_lo" ELSE "payload"
                 [] tx.state = "crc_lo" -> "crc_hi"
                 [] OTHER -> "idle"

TxNext == [state |-> IF Takes THEN TxFollowing
                     ELSE IF ~Busy /\ tx.start THEN "sof0" ELSE tx.state,
           index |-> IF ~Busy /\ tx.start THEN 0
                     ELSE IF Takes /\ tx.state = "payload" /\ ~LastByte THEN tx.index + 1
                     ELSE tx.index]

LengthOf(kind) == CASE kind = "status" -> StatusBytes [] kind = "error" -> ErrorBytes [] OTHER -> 1

\* A mistake: a reply begun over the one being sent.
BeginsAnyhow == pending # "none"
Begins == ~Busy /\ pending # "none"

Transmitter ==
  /\ tx' = [state |-> TxNext.state, index |-> TxNext.index,
            length |-> IF Begins THEN LengthOf(pending) ELSE tx.length, start |-> Begins]
  /\ sending' = IF Begins THEN pending ELSE sending
  /\ hashed' = IF tx.start THEN << >>
               ELSE IF Takes /\ tx.state \in {"len", "payload"} THEN Append(hashed, TxData) ELSE hashed
  /\ sent' = IF tx.start /\ ~Busy THEN << >> ELSE IF Takes THEN Append(sent, TxData) ELSE sent
  /\ uart' = IF Takes THEN ByteTime ELSE IF uart > 0 THEN uart - 1 ELSE 0

\* What a cycle leaves in the slot: what its byte asks for before anything else.
Slot(ask) == pending' = IF ask # "none" THEN ask ELSE IF Begins THEN "none" ELSE pending
Raise(new) == flags' = flags \union fault \union new

Refuse(code, flag) == Slot("error") /\ errorCode' = code /\ Raise({flag})

-----------------------------------------------------------------------------
\* What PacketHandler does in a cycle.
First == Strobe /\ rx.index = 0
NoWrite == write' = << >>
Cleared == accum' = [i \in 1 .. CommandBytes |-> 0]
Shifted == [i \in 1 .. CommandBytes |-> IF i = CommandBytes THEN rx.index ELSE accum[i + 1]]

Quiet == /\ ~Strobe
         /\ Slot("none") /\ Raise({}) /\ NoWrite
         /\ UNCHANGED <<frameState, accum, errorCode>>

Commands == /\ First /\ rx.type = "commands"
            /\ Cleared /\ NoWrite
            /\ IF rx.length > CommandBytes /\ (rx.length - 1) % CommandBytes = 0
                 THEN frameState' = "commands" /\ Slot("none") /\ Raise({}) /\ UNCHANGED errorCode
                 ELSE frameState' = "ignore" /\ Refuse("bad_command", "bad_command")

Request == /\ First /\ rx.type \in {"ping", "status"}
           /\ Cleared /\ NoWrite /\ frameState' = "ignore"
           /\ IF rx.length = 1
                THEN /\ Slot(IF rx.type = "ping" THEN "pong" ELSE "status")
                     /\ Raise({}) /\ UNCHANGED errorCode
                ELSE Refuse("bad_length", "bad_command")

ForTheLoader == /\ First /\ rx.type = "load"
                /\ Cleared /\ NoWrite /\ frameState' = "ignore"
                /\ Slot("none") /\ Raise({}) /\ UNCHANGED errorCode

Unknown == /\ First /\ rx.type = "other"
           /\ Cleared /\ NoWrite /\ frameState' = "ignore"
           /\ Refuse("unknown_packet", "unknown")

BodyByte == Strobe /\ rx.index > 0
Ignored == /\ BodyByte /\ frameState = "ignore"
           /\ Slot("none") /\ Raise({}) /\ NoWrite
           /\ UNCHANGED <<frameState, accum, errorCode>>

\* A mistake: a command taken for complete a byte early.
OneEarly == rx.index % CommandBytes = CommandBytes - 1
Complete == rx.index % CommandBytes = 0
Overflows == Complete /\ ~forward /\ full

\* A mistake: any byte of a command may be a reset.
AnyByteResets == rx.byte = "reset"
Resets == Complete /\ rx.byte = "reset"

CommandByte ==
  /\ BodyByte /\ frameState = "commands"
  /\ accum' = Shifted
  /\ write' = IF Complete /\ ~forward /\ ~full THEN <<Shifted>> ELSE << >>
  /\ IF Overflows THEN Slot("error") /\ errorCode' = "fifo_overflow"
                  ELSE Slot("none") /\ UNCHANGED errorCode
  /\ IF Resets THEN flags' = {} ELSE Raise(IF Overflows THEN {"overflow"} ELSE {})
  /\ UNCHANGED frameState

Handles == \/ Quiet \/ Commands \/ Request \/ ForTheLoader \/ Unknown \/ Ignored \/ CommandByte

Next == Decoder /\ Fifo /\ Transmitter /\ Handles

Spec == Init /\ [][Next]_vars

\* The clock does not stop.
FairSpec == Spec /\ WF_vars(Next)

-----------------------------------------------------------------------------
\* A frame of n bytes as the protocol has it.
Frame(payload) == LET body == <<Len(payload)>> \o payload
                  IN  <<"SOF0", "SOF1">> \o body \o <<<<"lo", body>>, <<"hi", body>>>>
Payloads == {<<"pong">>, [i \in 1 .. StatusBytes |-> StatusByte(i - 1)]}
              \union {<<"error", code, "zero">> : code \in Codes}

\* Whatever is asked or goes wrong while a reply is being sent, what goes out is
\* one well-formed reply: its length that of its kind, its bytes all of that
\* kind, its checksum over what was sent (control.py 229-245, framing.py 182-237).
WholeFrames == ~Busy /\ sent # << >> => \E p \in Payloads : sent = Frame(p)

\* A command written to the FIFO is the bytes of one command in their order, and
\* there is room for it: `full` was looked at a cycle before the write
\* (control.py 289-299).
OneCommand(bytes) == /\ bytes[1] > 0 /\ bytes[CommandBytes] % CommandBytes = 0
                     /\ \A i \in 1 .. CommandBytes : bytes[i] = bytes[1] + i - 1
WritesLand == write # << >> => level < Depth /\ OneCommand(write[1])

\* A status or an error never takes back an earlier one: a flag that was raised
\* is there until the last byte of a command, the opcode, in a frame of whole
\* commands, says reset, whatever bytes its value has (control.py 247-249,
\* 300-306).
FlagsOutlast == [][~(flags \subseteq flags') =>
                     /\ rx.type = "commands" /\ (rx.length - 1) % CommandBytes = 0
                     /\ rx.index > 0 /\ rx.index % CommandBytes = 0 /\ rx.byte = "reset"]_vars

\* The handler is one slot of replies in front of a transmitter: nothing asked
\* is lost but to what was asked after it, nothing is answered twice and a reply
\* under way is finished (control.py 222-245, 256-286).
SlotIs == INSTANCE ReplySlot WITH
            slot <- IF pending = "none" /\ tx.start /\ ~Busy THEN sending ELSE pending,
            answering <- IF Busy THEN sending ELSE "none"
IsReplySlot == SlotIs!Spec

\* Whatever was asked for, something is answered: the frame under way ends and
\* the slot is emptied (framing.py 189-215).
AlwaysAnswers == pending # "none" ~> tx.state = "crc_hi"
=============================================================================
