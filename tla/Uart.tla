-------------------------------- MODULE Uart --------------------------------
(***************************************************************************)
(* hdl/uart.py: a transmitter and a receiver on one line, cycle by cycle,  *)
(* each on a clock of its own.  The clocks are of one rate but for a few   *)
(* cycles in a byte, and a byte may follow another without a pause.        *)
(***************************************************************************)
EXTENDS Integers, Sequences

CONSTANTS DataBits,    \* of a byte: 8
          Divisor,     \* cycles of a bit: 234 at 115200 baud
          Slack        \* cycles the clocks may come apart in a byte

ASSUME UartAssumption == /\ DataBits \in Nat \ {0}
                         /\ Divisor \in Nat /\ Divisor >= 4
                         /\ Slack \in Nat /\ 4 * Slack <= Divisor

half == Divisor \div 2

VARIABLES tx,        \* the transmitter's state, counter, bit and shift register
          rx,        \* the receiver's, and its synchroniser
          stb, data, \* what the receiver hands on
          calm,      \* cycles the line is left alone after a glitch
          skew,      \* cycles the transmitter's clock is ahead in this byte
          flying     \* history: the bytes begun and not yet received

uartVars == <<tx, rx, stb, data, calm, skew, flying>>

UartInit == /\ tx = [state |-> "idle", counter |-> 0, bit |-> 0, shift |-> 0]
            /\ rx = [state |-> "idle", counter |-> 0, bit |-> 0, shift |-> 0, sync |-> <<1, 1>>]
            /\ stb = FALSE /\ data = 0 /\ calm = 0 /\ skew = 0 /\ flying = << >>

Line == CASE tx.state = "start" -> 0 [] tx.state = "data" -> tx.shift % 2 [] OTHER -> 1

\* Of both machines: the end of a bit, and where the last one was.
Elapsed(u) == u.counter = 0
LastBit(u) == u.bit = DataBits - 1
Waits(u) == [u EXCEPT !.counter = @ - 1]
Goes(u, st) == [u EXCEPT !.state = st, !.counter = Divisor - 1]

-----------------------------------------------------------------------------
\* The transmitter's edge: nothing to send, a byte begun, or one going on.
Rests == tx.state = "idle" /\ UNCHANGED tx
Starts(byte) == tx.state = "idle" /\ calm = 0 /\ tx' = [Goes(tx, "start") EXCEPT !.shift = byte]

Shifted1 == [tx EXCEPT !.shift = @ \div 2, !.counter = Divisor - 1]
Sends == /\ tx.state # "idle"
         /\ tx' = IF ~Elapsed(tx) THEN Waits(tx)
                  ELSE CASE tx.state = "start" -> [Goes(tx, "data") EXCEPT !.bit = 0]
                         [] tx.state = "data" -> IF LastBit(tx) THEN [Shifted1 EXCEPT !.state = "stop"]
                                                 ELSE [Shifted1 EXCEPT !.bit = @ + 1]
                         [] OTHER -> [tx EXCEPT !.state = "idle"]

\* The receiver: `level` is the line two of its cycles ago.
level == rx.sync[2]

\* A mistake: the start bit sampled a whole bit after its edge, and not half.
FromTheEdge == IF level = 0 THEN Goes(rx, "start") ELSE rx
Hears == IF level = 0 THEN [rx EXCEPT !.state = "start", !.counter = half - 1] ELSE rx

Taken == [rx EXCEPT !.shift = @ + 2^rx.bit * level, !.counter = Divisor - 1]
Receives == CASE rx.state = "idle" -> Hears
              [] rx.state # "idle" /\ ~Elapsed(rx) -> Waits(rx)
              [] rx.state = "start" /\ Elapsed(rx) ->
                   IF level = 1 THEN [rx EXCEPT !.state = "idle"]
                   ELSE [Goes(rx, "data") EXCEPT !.bit = 0, !.shift = 0]
              [] rx.state = "data" /\ Elapsed(rx) ->
                   IF LastBit(rx) THEN [Taken EXCEPT !.state = "stop"] ELSE [Taken EXCEPT !.bit = @ + 1]
              [] OTHER -> [rx EXCEPT !.state = "idle"]

\* A byte is handed on if there is a one where its stop bit should be.
GoodStop == rx.state = "stop" /\ Elapsed(rx) /\ level = 1

RxEdge(line) == /\ rx' = [Receives EXCEPT !.sync = <<line, rx.sync[1]>>]
                /\ stb' = GoodStop
                /\ data' = IF GoodStop THEN rx.shift ELSE data
                /\ calm' = IF calm > 0 THEN calm - 1 ELSE 0

-----------------------------------------------------------------------------
\* The edges of the two clocks: at once, or one of them once more than the other
\* at the end of a bit, in a byte always the same one.
Arrived == IF stb THEN Tail(flying) ELSE flying

Together == /\ Rests \/ Sends
            /\ RxEdge(Line) /\ flying' = Arrived /\ UNCHANGED skew
Begins(byte) == Starts(byte) /\ RxEdge(Line) /\ flying' = Append(Arrived, byte) /\ skew' = 0
RxAlone == /\ tx.state # "idle" /\ Elapsed(tx)
           /\ skew \in 1 - Slack .. 0 /\ skew' = skew - 1
           /\ RxEdge(Line) /\ flying' = Arrived /\ UNCHANGED tx
TxAlone == /\ Elapsed(tx) /\ skew \in 0 .. Slack - 1 /\ skew' = skew + 1
           /\ Sends /\ UNCHANGED <<rx, stb, data, calm, flying>>

\* A cycle of noise on a line at rest.
Glitch == /\ tx.state = "idle" /\ rx.state = "idle" /\ rx.sync = <<1, 1>> /\ calm = 0
          /\ rx' = [rx EXCEPT !.sync = <<0, 1>>] /\ stb' = GoodStop /\ calm' = Divisor
          /\ flying' = Arrived /\ UNCHANGED <<tx, data, skew>>

\* The two with whatever is behind the receiver.
Bytes == 0 .. 2^DataBits - 1
UartNext == \/ Together \/ RxAlone \/ TxAlone \/ Glitch
            \/ \E byte \in Bytes : Begins(byte)
UartSpec == UartInit /\ [][UartNext]_uartVars

\* What is handed on are the bytes sent, each once and in their order, whatever
\* the phase and drift of the clocks, without a pause between bytes and with
\* noise on the idle line: at most one byte waits for its stop bit to be seen
\* while the next begins (uart.py 48-53, 75-123).
BytesArrive == /\ Len(flying) <= 2
               /\ stb => flying # << >> /\ data = Head(flying)
=============================================================================
