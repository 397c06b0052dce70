----------------------------- MODULE StatusCount -----------------------------
(***************************************************************************)
(* How a host learns the sample count (host/client.py's request, ping,     *)
(* status and now): a question goes out, and a status reply's count is     *)
(* taken digit by digit as the bytes are sent, while the counter runs on.  *)
(* Questions are numbered here; on the wire nothing says which a reply     *)
(* belongs to.                                                             *)
(***************************************************************************)
EXTENDS SampleCounter, SequencesExt

CONSTANTS DigitBits,    \* of a digit: 8, a byte
          Digits,       \* of a count: 4
          Pace,         \* strobes between two digits at most: 4 and a bit
          MaxAsked      \* bound: questions

\* While its digits are sent the count does not go once round the lowest.
ASSUME StatusAssumption == /\ DigitBits \in Nat \ {0} /\ Digits \in Nat \ {0}
                           /\ Bits = DigitBits * Digits
                           /\ Pace \in Nat /\ Pace * (Digits - 1) + 2 <= 2^DigitBits
                           /\ MaxAsked \in Nat

Packets == {"ping", "status"}     \* of a question and of its reply
Nothing == [of |-> 0, kind |-> "ping"]
None == [of |-> 0, kind |-> "ping", began |-> {}, count |-> {}, digits |-> 0]

VARIABLES question,     \* the last one asked, and its kind
          waiting,      \* the host is in read_frame
          slot,         \* the question to be answered next, or Nothing
          reply,        \* the reply being sent, or None, with the count as sent so
                        \* far; history: the count it began with
          passed,       \* strobes since its last digit
          unread,       \* whole replies the host has not read: whose and of which
                        \* kind each is
          heard,        \* history: the replies that were there when it last asked
          answer        \* the question whose count it took, or 0

host == <<question, waiting, heard, answer>>
board == <<slot, reply, passed>>
statusVars == <<vars, host, board, unread>>

StatusInit == /\ Init
              /\ question = Nothing /\ waiting = FALSE /\ heard = {} /\ answer = 0
              /\ slot = Nothing /\ reply = None /\ passed = 0 /\ unread = << >>

Asks(kind) == /\ ~waiting /\ question.of < MaxAsked
              /\ question' = [of |-> question.of + 1, kind |-> kind]
              /\ waiting' = TRUE /\ slot' = question' /\ answer' = 0
              /\ heard' = {r.of : r \in Range(unread)}
              /\ UNCHANGED <<vars, reply, passed>>

\* A mistake: asking without emptying the input.
AskOnTop(kind) == Asks(kind) /\ UNCHANGED unread

\* request: the input is emptied, and the board's slot holds the newest question.
Ask(kind) == Asks(kind) /\ unread' = << >>

\* Status.parse takes no other packet for a status.
Parsed(r) == IF question.kind = "status" /\ r.kind = "status" THEN r.of ELSE 0

\* The first whole reply is the answer; what was read along with it is gone.
Receive == /\ waiting /\ unread # << >>
           /\ answer' = Parsed(Head(unread)) /\ waiting' = FALSE
           /\ unread' \in {Tail(unread), << >>}
           /\ UNCHANGED <<vars, board, question, heard>>

TimeOut == /\ waiting /\ unread = << >>
           /\ waiting' = FALSE
           /\ UNCHANGED <<vars, board, unread, question, heard, answer>>

Begin == /\ reply = None /\ slot # Nothing
         /\ reply' = [None EXCEPT !.of = slot.of, !.kind = slot.kind] /\ slot' = Nothing
         /\ UNCHANGED <<vars, host, unread, passed>>

\* A mistake: the digits sent from the top.
FromTheTop(i) == i \in DigitBits * (Digits - 1 - reply.digits) .. DigitBits * (Digits - reply.digits) - 1
InDigit(i) == i \in DigitBits * reply.digits .. DigitBits * (reply.digits + 1) - 1

\* status_samples[8 i : 8 i + 8], when its turn comes.
SendDigit == /\ reply.kind = "status" /\ reply.digits < Digits
             /\ reply' = [reply EXCEPT !.digits = @ + 1,
                                       !.began = IF reply.digits = 0 THEN synced ELSE @,
                                       !.count = @ \union {i \in synced : InDigit(i)}]
             /\ passed' = 0
             /\ UNCHANGED <<vars, host, slot, unread>>

\* The frame ends, and reaches the host unless noise breaks its checksum.
Sent == /\ reply # None /\ (reply.kind = "status" => reply.digits = Digits)
        /\ reply' = None
        /\ \/ unread' = Append(unread, [of |-> reply.of, kind |-> reply.kind])
           \/ UNCHANGED unread
        /\ UNCHANGED <<vars, host, slot, passed>>

\* The clocks: between two digits the count moves on by a few.
Runs == /\ Next
        /\ passed' = IF reply.digits \in 1 .. Digits - 1 /\ count' # count THEN passed + 1 ELSE passed
        /\ passed' <= Pace
        /\ UNCHANGED <<host, slot, reply, unread>>

StatusNext == \/ \E kind \in Packets : Ask(kind)
              \/ Receive \/ TimeOut \/ Begin \/ SendDigit \/ Sent \/ Runs

StatusSpec == StatusInit /\ [][StatusNext]_statusVars

-----------------------------------------------------------------------------
\* A word and 2^k more.
AheadBy(w, k) == Xor(w, {i \in Index : k <= i /\ k .. i - 1 \subseteq w})

\* The digits of a reply are of different moments, so that it may hold a count
\* that never was; it is then ahead of the count at its first digit by exactly
\* one carry, which a schedule anchored at it starts late by, and never behind
\* it (control.py 202-220, client.py 361-365).
TornByOneCarry ==
  reply.kind = "status" /\ reply.digits = Digits =>
    reply.count \in {reply.began} \union {AheadBy(reply.began, DigitBits * i) : i \in 1 .. Digits - 1}

\* A count that is taken is that of the question or of an earlier question for
\* the status whose reply had not come when the last was asked, because the host
\* had given it up (client.py 195-196, 226-256).
FreshAnswer == answer # 0 => answer <= question.of /\ answer \notin heard
=============================================================================
