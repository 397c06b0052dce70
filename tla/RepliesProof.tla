---------------------------- MODULE RepliesProof ----------------------------
(***************************************************************************)
(* Proofs about Replies for every length of commands and replies, every    *)
(* speed of the line and every set of requests.                            *)
(***************************************************************************)
EXTENDS Replies, SequenceTheorems, TLAPS

Slots == Kinds \union {"none"}
States == {"idle", "sof0", "sof1", "len", "payload", "crc_lo", "crc_hi"}

\* What is being sent, or about to be, stays what it is, and its length with it.
Steady == /\ pending \in Slots /\ sending \in Slots
          /\ tx \in [state : States, index : Nat, length : Nat, start : BOOLEAN]
          /\ Busy \/ tx.start => sending \in Kinds /\ tx.length = LengthOf(sending)
          /\ tx.start => tx.state \in {"idle", "sof0"}
          /\ errorCode \in Codes \union {"none"}
          /\ "error" \in {pending, sending} => errorCode \in Codes

\* Whatever the handler does with its byte, it asks for one reply or for none,
\* and an error comes with its code.
LEMMA Asking ==
  ASSUME Handles
  PROVE  \E ask \in Slots : /\ Slot(ask)
                            /\ errorCode' \in Codes \/ (ask # "error" /\ errorCode' = errorCode)
  <1>1. CASE Quiet
    BY <1>1 DEF Quiet, Slots
  <1>2. CASE Commands
    BY <1>2 DEF Commands, Refuse, Slots, Kinds, Codes
  <1>3. CASE Request
    BY <1>3 DEF Request, Refuse, Slots, Kinds, Codes
  <1>4. CASE ForTheLoader
    BY <1>4 DEF ForTheLoader, Slots
  <1>5. CASE Unknown
    BY <1>5 DEF Unknown, Refuse, Slots, Kinds, Codes
  <1>6. CASE Ignored
    BY <1>6 DEF Ignored, Slots
  <1>7. CASE CommandByte
    BY <1>7 DEF CommandByte, Slots, Kinds, Codes
  <1>8. QED
    BY <1>1, <1>2, <1>3, <1>4, <1>5, <1>6, <1>7 DEF Handles

LEMMA LengthType == \A kind \in Kinds : LengthOf(kind) \in Nat \ {0}
  BY RepliesAssumption DEF LengthOf, ErrorBytes

LEMMA InitSteady == Init => Steady
  BY DEF Init, Steady, Slots, States, Busy

LEMMA NextSteady == ASSUME Steady, [Next]_vars PROVE Steady'
  <1>1. CASE UNCHANGED vars
    BY <1>1 DEF vars, input, handler, Steady, Busy
  <1>2. CASE Next
    <2>1. PICK ask \in Slots : /\ Slot(ask)
                               /\ errorCode' \in Codes \/ (ask # "error" /\ errorCode' = errorCode)
      BY <1>2, Asking DEF Next
    <2>2. Transmitter
      BY <1>2 DEF Next
    <2>3. pending' \in Slots /\ sending' \in Slots
      BY <2>1, <2>2 DEF Steady, Slot, Transmitter, Slots
    <2>4. TxNext.state \in States /\ TxNext.index \in Nat
      BY DEF Steady, TxNext, TxFollowing, States
    <2>5. tx' \in [state : States, index : Nat, length : Nat, start : BOOLEAN]
      BY <2>2, <2>4, LengthType DEF Steady, Transmitter, Begins, Slots
    <2>6. (Busy \/ tx.start => sending \in Kinds /\ tx.length = LengthOf(sending))'
      BY <2>2 DEF Steady, Transmitter, Begins, Slots, Busy, TxNext, Takes
    <2>7. (tx.start => tx.state \in {"idle", "sof0"})'
      BY <2>2 DEF Transmitter, Begins, Busy, TxNext, Takes
    <2>8. (errorCode \in Codes \union {"none"})' /\ ("error" \in {pending, sending} => errorCode \in Codes)'
      BY <2>1, <2>2 DEF Steady, Slot, Transmitter, Begins
    <2>9. QED BY <2>3, <2>5, <2>6, <2>7, <2>8 DEF Steady
  <1>3. QED BY <1>1, <1>2

LEMMA SteadyAlways == Spec => []Steady
  BY InitSteady, NextSteady, PTL DEF Spec

-----------------------------------------------------------------------------
Waiting == IF pending = "none" /\ tx.start /\ ~Busy THEN sending ELSE pending
Answering == IF Busy THEN sending ELSE "none"

\* A cycle asks, begins or finishes, or leaves the slot and the transmitter.
LEMMA SlotSteps ==
  ASSUME Steady, Next
  PROVE  SlotIs!Ask \/ SlotIs!Begin \/ SlotIs!Finish \/ UNCHANGED <<Waiting, Answering>>
  <1>1. PICK ask \in Slots : Slot(ask)
    BY Asking DEF Next
  <1>2. /\ tx'.state = TxNext.state /\ tx'.start = Begins
        /\ sending' = IF Begins THEN pending ELSE sending
    BY DEF Next, Transmitter
  <1>3. CASE Busy /\ ~Busy'
    <2>1. ~Begins /\ Answering = sending /\ Answering' = "none" /\ sending \in Kinds
      BY <1>3 DEF Answering, Begins, Steady
    <2>2. Waiting = pending /\ Waiting' = pending' /\ pending' \in Kinds \union {pending}
      BY <1>1, <1>2, <1>3, <2>1 DEF Waiting, Slot, Slots
    <2>3. QED BY <2>1, <2>2 DEF SlotIs!Finish, Waiting, Answering, Kinds
  <1>4. CASE Busy /\ Busy'
    <2>1. ~Begins /\ Answering' = Answering
      BY <1>2, <1>4 DEF Answering, Begins
    <2>2. Waiting = pending /\ Waiting' = pending' /\ pending' \in Kinds \union {pending}
      BY <1>1, <1>2, <1>4, <2>1 DEF Waiting, Slot, Slots
    <2>3. QED BY <2>1, <2>2 DEF SlotIs!Ask, Waiting, Answering
  <1>5. CASE ~Busy /\ tx.start
    <2>1. Busy' /\ Answering = "none" /\ Answering' = sending'
      BY <1>2, <1>5 DEF Busy, TxNext, Takes, Answering
    <2>2. Waiting # "none" /\ sending' = Waiting
      BY <1>2, <1>5 DEF Waiting, Begins, Steady, Kinds
    <2>3. Waiting' = pending' /\ pending' \in Kinds \union {"none"}
      BY <1>1, <1>5, <2>1 DEF Waiting, Slot, Slots, Begins
    <2>4. QED BY <2>1, <2>2, <2>3 DEF SlotIs!Begin, Waiting, Answering
  <1>6. CASE ~Busy /\ ~tx.start
    <2>1. ~Busy' /\ Answering = "none" /\ Answering' = "none"
      BY <1>2, <1>6 DEF Busy, TxNext, Takes, Answering
    <2>2. Waiting = pending
      BY <1>6 DEF Waiting
    <2>3. Waiting' = IF ask # "none" THEN ask ELSE pending
      BY <1>1, <1>2, <1>6, <2>1 DEF Waiting, Slot, Begins
    <2>4. QED BY <2>1, <2>2, <2>3 DEF SlotIs!Ask, Waiting, Answering, Slots
  <1>7. QED BY <1>3, <1>4, <1>5, <1>6

\* Nothing asked is lost but to what was asked after it, nothing is answered
\* twice, and a reply under way is finished (control.py 222-245, 256-286).
THEOREM OneSlot == Spec => IsReplySlot
  <1>1. Init => SlotIs!Init
    BY DEF Init, SlotIs!Init, Busy
  <1>2. Steady /\ [Next]_vars => [SlotIs!Ask \/ SlotIs!Begin \/ SlotIs!Finish]_SlotIs!vars
    <2>1. CASE Next
      BY <2>1, SlotSteps DEF SlotIs!vars, Waiting, Answering
    <2>2. CASE UNCHANGED vars
      BY <2>2 DEF vars, input, handler, SlotIs!vars, Busy
    <2>3. QED BY <2>1, <2>2
  <1>3. QED BY <1>1, <1>2, SteadyAlways, PTL DEF Spec, IsReplySlot, SlotIs!Spec

-----------------------------------------------------------------------------
Values == Nat \union {"status_reply", "error", "zero", "pong"} \union Codes \union ({"field"} \X Nat)
Wire == Values \union {"SOF0", "SOF1"} \union ({"lo", "hi"} \X Seq(Values))
Sof == <<"SOF0", "SOF1">>

\* What the i-th byte of a reply may be, whenever it is taken.
BytesOf(kind, i) == IF kind = "status" THEN {StatusByte(i)}
                    ELSE IF kind = "error" THEN (IF i = 0 THEN {"error"} ELSE IF i = 1 THEN Codes ELSE {"zero"})
                    ELSE {"pong"}

\* The checksum has taken in the length and n bytes of the payload.
Hashed(n) == /\ Len(hashed) = n + 1 /\ hashed[1] = tx.length
             /\ \A i \in 1 .. n : hashed[i + 1] \in BytesOf(sending, i - 1)

\* How far the frame is, in each state of the transmitter.
Progress == /\ hashed \in Seq(Values)
            /\ tx.state \in {"sof0", "sof1", "len"} => hashed = << >> /\ tx.index = 0
            /\ tx.state = "sof0" => sent = << >>
            /\ tx.state = "sof1" => sent = <<"SOF0">>
            /\ tx.state = "len" => sent = Sof
            /\ tx.state = "payload" => tx.index < tx.length /\ sent = Sof \o hashed /\ Hashed(tx.index)
            /\ tx.state = "crc_lo" => sent = Sof \o hashed /\ Hashed(tx.length)
            /\ tx.state = "crc_hi" => sent = (Sof \o hashed) \o <<<<"lo", hashed>>>> /\ Hashed(tx.length)
            /\ WholeFrames

LEMMA OneLong == \A p \in Seq(Values) : Len(p) = 1 => p = <<p[1]>>
  OBVIOUS

LEMMA ThreeLong == \A p \in Seq(Values) : Len(p) = 3 => p = <<p[1], p[2], p[3]>>
  OBVIOUS

LEMMA Pair == ASSUME NEW x, NEW y PROVE <<x>> \o <<y>> = <<x, y>>
  <1>1. <<x>> \in Seq({x, y}) /\ <<y>> \in Seq({x, y}) /\ <<x, y>> \in Seq({x, y})
    OBVIOUS
  <1>2. /\ <<x>> \o <<y>> \in Seq({x, y}) /\ Len(<<x>> \o <<y>>) = 2
        /\ \A i \in 1 .. 2 : (<<x>> \o <<y>>)[i] = IF i <= 1 THEN <<x>>[i] ELSE <<y>>[i - 1]
    BY <1>1, ConcatProperties
  <1>3. (<<x>> \o <<y>>)[1] = x /\ (<<x>> \o <<y>>)[2] = y
    BY <1>2
  <1>4. \A i \in 1 .. 2 : (<<x>> \o <<y>>)[i] = <<x, y>>[i]
    BY <1>3
  <1>5. Len(<<x, y>>) = 2
    OBVIOUS
  <1>6. QED BY <1>1, <1>2, <1>4, <1>5, SeqEqual

\* A complete payload is one of the replies.
LEMMA WholePayload ==
  ASSUME hashed \in Seq(Values), sending \in Kinds, tx.length = LengthOf(sending), Hashed(tx.length)
  PROVE  \E p \in Payloads : hashed = <<Len(p)>> \o p /\ Len(p) \in Nat /\ p \in Seq(Values)
  <1> DEFINE p == Tail(hashed)
             n == tx.length
  <1>1. n \in Nat \ {0} /\ Len(hashed) = n + 1 /\ hashed # << >>
    BY LengthType, EmptySeq DEF Hashed
  <1>2. p \in Seq(Values) /\ Len(p) = n /\ \A i \in 1 .. n : p[i] = hashed[i + 1]
    BY <1>1, HeadTailProperties
  <1>3. \A i \in 1 .. n : p[i] \in BytesOf(sending, i - 1)
    BY <1>1, <1>2 DEF Hashed
  <1>4. p \in [1 .. n -> Values]
    BY <1>2, LenProperties
  <1>5. p \in Payloads
    <2>1. CASE sending = "pong"
      <3>1. n = 1 /\ p[1] \in BytesOf(sending, 0)
        BY <1>1, <1>3, <2>1 DEF LengthOf
      <3>2. p[1] = "pong"
        BY <2>1, <3>1 DEF BytesOf
      <3>3. p = <<"pong">>
        BY <1>2, <3>1, <3>2, OneLong
      <3>4. QED BY <3>3 DEF Payloads
    <2>2. CASE sending = "status"
      <3>1. n = StatusBytes /\ \A i \in 1 .. n : p[i] = StatusByte(i - 1)
        BY <1>1, <1>3, <2>2 DEF LengthOf, BytesOf
      <3>2. p = [i \in 1 .. StatusBytes |-> StatusByte(i - 1)]
        BY <1>4, <3>1
      <3>3. QED BY <3>2 DEF Payloads
    <2>3. CASE sending = "error"
      <3>1. n = 3
        BY <2>3 DEF LengthOf, ErrorBytes
      <3>2. p[1] \in BytesOf(sending, 0) /\ p[2] \in BytesOf(sending, 1) /\ p[3] \in BytesOf(sending, 2)
        <4>1. ASSUME NEW i \in 1 .. n PROVE p[i] \in BytesOf(sending, i - 1)
          BY <1>3
        <4>2. 1 \in 1 .. n /\ 2 \in 1 .. n /\ 3 \in 1 .. n
          BY <3>1
        <4>3. p[1] \in BytesOf(sending, 1 - 1) /\ p[2] \in BytesOf(sending, 2 - 1) /\ p[3] \in BytesOf(sending, 3 - 1)
          BY <4>1, <4>2
        <4>4. 1 - 1 = 0 /\ 2 - 1 = 1 /\ 3 - 1 = 2
          OBVIOUS
        <4>5. QED BY <4>3, <4>4
      <3>3. p[1] = "error" /\ p[2] \in Codes /\ p[3] = "zero"
        <4>1. BytesOf("error", 0) = {"error"} /\ BytesOf("error", 1) = Codes /\ BytesOf("error", 2) = {"zero"}
          BY DEF BytesOf
        <4>2. QED BY <2>3, <3>2, <4>1
      <3>4. p = <<"error", p[2], "zero">>
        BY <1>2, <3>1, <3>3, ThreeLong
      <3>5. QED BY <3>3, <3>4 DEF Payloads
    <2>4. QED BY <2>1, <2>2, <2>3 DEF Kinds
  <1>6. hashed = <<Len(p)>> \o p
    <2>1. <<n>> \in Seq(Values) /\ Len(<<n>>) = 1 /\ <<n>>[1] = n
      BY <1>1 DEF Values
    <2>2. <<n>> \o p \in Seq(Values) /\ Len(<<n>> \o p) = n + 1
          /\ \A i \in 1 .. n + 1 : (<<n>> \o p)[i] = IF i <= 1 THEN <<n>>[i] ELSE p[i - 1]
      BY <1>1, <1>2, <2>1, ConcatProperties
    <2>3. \A i \in 1 .. n + 1 : (<<n>> \o p)[i] = hashed[i]
      BY <1>1, <1>2, <2>1, <2>2 DEF Hashed
    <2>4. QED BY <1>1, <1>2, <2>2, <2>3, SeqEqual
  <1>7. QED BY <1>1, <1>2, <1>5, <1>6

\* What is taken in a payload is a byte of the reply under way.
LEMMA PayloadByte ==
  ASSUME Steady, tx.state = "payload"
  PROVE  ByteIn \in BytesOf(sending, tx.index) /\ ByteIn \in Values
  <1>1. tx.index \in Nat /\ sending \in Kinds /\ (sending = "error" => errorCode \in Codes)
    BY DEF Steady, Busy
  <1>2. QED BY <1>1 DEF ByteIn, BytesOf, StatusByte, ErrorByte, Values, Kinds

LEMMA SameBytes == sending' = sending => \A i : BytesOf(sending, i)' = BytesOf(sending, i)
  BY DEF BytesOf, StatusByte

LEMMA InitProgress == Init => Progress
  BY EmptySeq DEF Init, Progress, WholeFrames, Busy

\* A cycle in which the transmitter takes no byte.
LEMMA StillProgress ==
  ASSUME Steady, Progress, Next, ~Takes
  PROVE  Progress'
  <1>1. /\ tx'.state = TxNext.state /\ tx'.index = TxNext.index
        /\ hashed' = IF tx.start THEN << >> ELSE hashed
        /\ sent' = IF tx.start /\ ~Busy THEN << >> ELSE sent
        /\ Busy => sending' = sending /\ tx'.length = tx.length
    BY DEF Next, Transmitter, Begins
  <1>2. CASE Busy
    <2>1. tx'.state = tx.state /\ tx'.index = tx.index /\ sent' = sent
      BY <1>1, <1>2 DEF TxNext
    <2>2. hashed' = hashed
      BY <1>1, <1>2 DEF Steady, Progress, Busy
    <2>3. QED BY <1>1, <1>2, <2>1, <2>2 DEF Progress, Hashed, WholeFrames, Busy
  <1>3. CASE ~Busy /\ tx.start
    <2>1. tx'.state = "sof0" /\ tx'.index = 0 /\ hashed' = << >> /\ sent' = << >>
      BY <1>1, <1>3 DEF TxNext, Takes
    <2>2. QED BY <2>1, EmptySeq DEF Progress, WholeFrames, Busy
  <1>4. CASE ~Busy /\ ~tx.start
    <2>1. tx'.state = "idle" /\ hashed' = hashed /\ sent' = sent
      BY <1>1, <1>4 DEF TxNext, Takes, Busy
    <2>2. QED BY <1>4, <2>1 DEF Progress, WholeFrames, Busy
  <1>5. QED BY <1>2, <1>3, <1>4

LEMMA SofSeq == /\ <<"SOF0">> \in Seq(Wire) /\ Sof \in Seq(Wire)
                /\ Append(<< >>, "SOF0") = <<"SOF0">> /\ Append(<<"SOF0">>, "SOF1") = Sof
                /\ Seq(Values) \subseteq Seq(Wire)
  <1>1. "SOF0" \in Wire /\ "SOF1" \in Wire /\ Values \subseteq Wire
    BY DEF Wire
  <1>2. Seq(Values) \subseteq Seq(Wire)
    BY <1>1, SeqMonotonic
  <1>3. <<"SOF0">> \in Seq(Wire) /\ Sof \in Seq(Wire)
    BY <1>1 DEF Sof
  <1>4. Append(<< >>, "SOF0") = <<"SOF0">> /\ Append(<<"SOF0">>, "SOF1") = Sof
    <2>1. Append(<< >>, "SOF0") = << >> \o <<"SOF0">> /\ Append(<<"SOF0">>, "SOF1") = <<"SOF0">> \o <<"SOF1">>
      BY <1>1, <1>3, EmptySeq, AppendIsConcat
    <2>2. QED BY <1>3, <2>1, ConcatEmptySeq, Pair DEF Sof
  <1>5. QED BY <1>2, <1>3, <1>4

\* A cycle in which it takes one.
LEMMA TakenProgress ==
  ASSUME Steady, Progress, Next, Takes
  PROVE  Progress'
  <1>1. /\ tx'.state = TxFollowing /\ tx'.index = TxNext.index
        /\ sent' = Append(sent, TxData)
        /\ hashed' = IF tx.start THEN << >>
                     ELSE IF tx.state \in {"len", "payload"} THEN Append(hashed, TxData) ELSE hashed
        /\ sending' = sending /\ tx'.length = tx.length /\ Busy
    BY DEF Next, Transmitter, Begins, Takes, TxNext
  <1>2. /\ sending \in Kinds /\ tx.length = LengthOf(sending) /\ tx.length \in Nat \ {0}
        /\ hashed \in Seq(Values) /\ tx.index \in Nat /\ tx.state \in States \ {"idle"}
        /\ tx.start => tx.state = "sof0"
    BY <1>1, LengthType DEF Steady, Progress, Busy
  <1>3. CASE tx.state = "sof0"
    <2>1. /\ tx'.state = "sof1" /\ tx'.index = 0 /\ hashed' = << >> /\ sent' = <<"SOF0">>
      BY <1>1, <1>3, SofSeq DEF Progress, TxFollowing, TxNext, TxData
    <2>2. QED BY <2>1, EmptySeq DEF Progress, WholeFrames, Busy
  <1>4. CASE tx.state = "sof1"
    <2>1. /\ tx'.state = "len" /\ tx'.index = 0 /\ hashed' = << >> /\ sent' = Sof
      BY <1>1, <1>2, <1>4, SofSeq DEF Progress, TxFollowing, TxNext, TxData
    <2>2. QED BY <2>1, EmptySeq DEF Progress, WholeFrames, Busy
  <1>5. CASE tx.state = "len"
    <2>1. /\ tx'.state = "payload" /\ tx'.index = 0 /\ hashed = << >> /\ sent = Sof
          /\ hashed' = Append(<< >>, tx.length) /\ sent' = Append(Sof, tx.length)
      BY <1>1, <1>2, <1>5 DEF Progress, TxFollowing, TxNext, TxData
    <2>2. tx.length \in Values /\ tx.length \in Wire
      BY <1>2 DEF Values, Wire
    <2>3. hashed' = <<tx.length>> /\ sent' = Sof \o <<tx.length>>
      <3>1. Append(Sof, tx.length) = Sof \o <<tx.length>>
        BY <2>2, SofSeq, AppendIsConcat
      <3>2. Append(<< >>, tx.length) = << >> \o <<tx.length>>
        BY <2>2, EmptySeq, AppendIsConcat
      <3>3. <<tx.length>> \in Seq(Values)
        BY <2>2
      <3>4. << >> \o <<tx.length>> = <<tx.length>>
        BY <3>3, ConcatEmptySeq
      <3>5. QED BY <2>1, <3>1, <3>2, <3>4
    <2>4. hashed' \in Seq(Values) /\ Len(hashed') = 1 /\ hashed'[1] = tx.length
      BY <2>2, <2>3
    <2>5. QED BY <1>1, <1>2, <2>1, <2>3, <2>4 DEF Progress, Hashed, WholeFrames, Busy
  <1>6. CASE tx.state = "payload"
    <2>1. /\ tx.index < tx.length /\ sent = Sof \o hashed /\ Hashed(tx.index)
          /\ hashed' = Append(hashed, ByteIn) /\ sent' = Append(sent, ByteIn)
      BY <1>1, <1>2, <1>6 DEF Progress, TxData
    <2>2. ByteIn \in BytesOf(sending, tx.index) /\ ByteIn \in Values /\ ByteIn \in Wire
      BY <1>6, PayloadByte DEF Wire
    <2>3. /\ hashed' \in Seq(Values) /\ Len(hashed') = tx.index + 2
          /\ \A i \in 1 .. tx.index + 1 : hashed'[i] = hashed[i]
          /\ hashed'[tx.index + 2] = ByteIn
      BY <1>2, <2>1, <2>2, AppendProperties DEF Hashed
    <2>4. /\ hashed'[1] = tx.length
          /\ \A i \in 1 .. tx.index + 1 : hashed'[i + 1] \in BytesOf(sending, i - 1)
      <3>1. hashed'[1] = tx.length
        BY <1>2, <2>1, <2>3 DEF Hashed
      <3>2. \A i \in 1 .. tx.index : hashed'[i + 1] \in BytesOf(sending, i - 1)
        <4> SUFFICES ASSUME NEW i \in 1 .. tx.index PROVE hashed'[i + 1] \in BytesOf(sending, i - 1)
          OBVIOUS
        <4>1. i + 1 \in 1 .. tx.index + 1
          BY <1>2
        <4>2. hashed'[i + 1] = hashed[i + 1]
          BY <2>3, <4>1
        <4>3. hashed[i + 1] \in BytesOf(sending, i - 1)
          BY <2>1 DEF Hashed
        <4>4. QED BY <4>2, <4>3
      <3>3. hashed'[(tx.index + 1) + 1] \in BytesOf(sending, (tx.index + 1) - 1)
        BY <1>2, <2>2, <2>3
      <3>4. QED BY <1>2, <3>1, <3>2, <3>3
    <2>5. sent' = Sof \o hashed'
      <3>1. hashed \in Seq(Wire) /\ <<ByteIn>> \in Seq(Wire) /\ Sof \o hashed \in Seq(Wire)
        BY <1>2, <2>2, SofSeq, ConcatProperties
      <3>2. hashed' = hashed \o <<ByteIn>> /\ sent' = (Sof \o hashed) \o <<ByteIn>>
        BY <2>1, <2>2, <3>1, AppendIsConcat
      <3>3. (Sof \o hashed) \o <<ByteIn>> = Sof \o (hashed \o <<ByteIn>>)
        BY <3>1, SofSeq, ConcatAssociative
      <3>4. QED BY <3>2, <3>3
    <2>6. CASE LastByte
      <3>1. tx'.state = "crc_lo" /\ tx.index + 1 = tx.length
        BY <1>1, <1>2, <1>6, <2>6 DEF TxFollowing, LastByte
      <3>2. Hashed(tx.length)'
        <4>1. Len(hashed') = tx'.length + 1 /\ hashed'[1] = tx'.length
          BY <1>1, <1>2, <2>3, <2>4, <3>1
        <4>2. \A i \in 1 .. tx'.length : hashed'[i + 1] \in BytesOf(sending, i - 1)
          BY <1>1, <2>4, <3>1
        <4>3. \A i : BytesOf(sending, i)' = BytesOf(sending, i)
          BY <1>1, SameBytes
        <4>4. QED BY <4>1, <4>2, <4>3 DEF Hashed
      <3>3. QED BY <1>1, <2>3, <2>5, <3>1, <3>2 DEF Progress, WholeFrames, Busy
    <2>7. CASE ~LastByte
      <3>1. tx'.state = "payload" /\ tx'.index = tx.index + 1 /\ tx.index + 1 < tx.length
        BY <1>1, <1>2, <1>6, <2>1, <2>7 DEF TxFollowing, LastByte, TxNext, Takes
      <3>2. Hashed(tx.index)'
        <4>1. Len(hashed') = tx'.index + 1 /\ hashed'[1] = tx'.length
          BY <1>1, <1>2, <2>3, <2>4, <3>1
        <4>2. \A i \in 1 .. tx'.index : hashed'[i + 1] \in BytesOf(sending, i - 1)
          BY <2>4, <3>1
        <4>3. \A i : BytesOf(sending, i)' = BytesOf(sending, i)
          BY <1>1, SameBytes
        <4>4. QED BY <4>1, <4>2, <4>3 DEF Hashed
      <3>3. QED BY <1>1, <2>3, <2>5, <3>1, <3>2 DEF Progress, WholeFrames, Busy
    <2>8. QED BY <2>6, <2>7
  <1>7. CASE tx.state = "crc_lo"
    <2>1. /\ tx'.state = "crc_hi" /\ hashed' = hashed /\ sent = Sof \o hashed
          /\ sent' = Append(Sof \o hashed, <<"lo", hashed>>) /\ Hashed(tx.length)
      BY <1>1, <1>2, <1>7 DEF Progress, TxFollowing, TxData
    <2>2. Sof \o hashed \in Seq(Wire) /\ <<"lo", hashed>> \in Wire
      BY <1>2, SofSeq, ConcatProperties DEF Wire
    <2>3. sent' = (Sof \o hashed) \o <<<<"lo", hashed>>>>
      BY <2>1, <2>2, AppendIsConcat
    <2>4. QED BY <1>1, <1>2, <2>1, <2>3 DEF Progress, Hashed, WholeFrames, Busy
  <1>8. CASE tx.state = "crc_hi"
    <2>1. /\ tx'.state = "idle" /\ hashed' = hashed /\ Hashed(tx.length)
          /\ sent' = Append((Sof \o hashed) \o <<<<"lo", hashed>>>>, <<"hi", hashed>>)
      BY <1>1, <1>2, <1>8 DEF Progress, TxFollowing, TxData
    <2>2. PICK p \in Payloads : hashed = <<Len(p)>> \o p
      BY <1>2, <2>1, WholePayload
    <2>3. /\ Sof \o hashed \in Seq(Wire) /\ <<"hi", hashed>> \in Wire
          /\ <<<<"lo", hashed>>>> \in Seq(Wire) /\ <<<<"hi", hashed>>>> \in Seq(Wire)
      <3>1. <<"lo", hashed>> \in Wire /\ <<"hi", hashed>> \in Wire
        BY <1>2 DEF Wire
      <3>2. QED BY <1>2, <3>1, SofSeq, ConcatProperties
    <2>4. sent' = ((Sof \o hashed) \o <<<<"lo", hashed>>>>) \o <<<<"hi", hashed>>>>
      BY <2>1, <2>3, ConcatProperties, AppendIsConcat
    <2>5. sent' = (Sof \o hashed) \o (<<<<"lo", hashed>>>> \o <<<<"hi", hashed>>>>)
      BY <2>3, <2>4, ConcatAssociative
    <2>6. <<<<"lo", hashed>>>> \o <<<<"hi", hashed>>>> = <<<<"lo", hashed>>, <<"hi", hashed>>>>
      BY Pair
    <2>7. sent' = Frame(p)
      BY <2>2, <2>5, <2>6 DEF Frame, Sof
    <2>8. WholeFrames'
      BY <2>2, <2>7 DEF WholeFrames, Payloads
    <2>9. QED BY <1>2, <2>1, <2>8 DEF Progress
  <1>9. QED BY <1>2, <1>3, <1>4, <1>5, <1>6, <1>7, <1>8 DEF States

\* Whatever is asked or goes wrong while a reply is being sent, what goes out is
\* one well-formed reply (control.py 229-245, framing.py 182-237).
THEOREM AlwaysWholeFrames == Spec => []WholeFrames
  <1>1. Steady /\ Progress /\ [Next]_vars => Progress'
    <2>1. CASE UNCHANGED vars
      BY <2>1 DEF vars, input, handler, Progress, Hashed, WholeFrames, Busy
    <2>2. QED BY <2>1, StillProgress, TakenProgress
  <1>2. Progress => WholeFrames
    BY DEF Progress
  <1>3. QED BY <1>1, <1>2, InitProgress, SteadyAlways, PTL DEF Spec

-----------------------------------------------------------------------------
\* What the decoder shows: a byte of a frame, or none.
Shown == /\ rx \in [type : Types, length : Nat \ {0}, index : Int, byte : {"reset", "any"}]
         /\ rx.index >= -1 /\ rx.index < rx.length

\* In the body of a frame of commands, and only there: the frame is of whole
\* commands, and the last bytes of it are in the register, zeros before them.
InCommands == rx.index > 0 /\ frameState = "commands"
Before(i) == LET n == rx.index - 1 - CommandBytes + i IN IF n > 0 THEN n ELSE 0
Assembled == /\ InCommands => rx.type = "commands" /\ (rx.length - 1) % CommandBytes = 0
             /\ InCommands => accum = [i \in 1 .. CommandBytes |-> Before(i)]

\* There is room where `full` is low, and no write in the cycle before a write.
Room == /\ level \in Nat /\ (~full => level < Depth)
        /\ write # << >> => Len(write) = 1 /\ level < Depth /\ OneCommand(write[1])
        /\ write # << >> /\ rx.index > 0 => (rx.index - 1) % CommandBytes = 0

Received == Shown /\ Assembled /\ Room

LEMMA Multiple == ASSUME NEW n \in Nat, n > 0, n % CommandBytes = 0 PROVE n >= CommandBytes
  BY RepliesAssumption

LEMMA NotTwice == ASSUME NEW n \in Nat, n % CommandBytes = 0 PROVE (n - 1) % CommandBytes # 0
  BY RepliesAssumption

LEMMA InitReceived == Init => Received
  BY RepliesAssumption DEF Init, Received, Shown, Assembled, Room, InCommands, NoByte, Types

\* A byte that is shown is the next of its frame, the first of one, or none.
LEMMA NextByte ==
  ASSUME Shown, Next
  PROVE  \/ /\ rx.index >= 0 /\ rx.index < rx.length - 1
            /\ \E b \in {"reset", "any"} : rx' = [rx EXCEPT !.index = rx.index + 1, !.byte = b]
         \/ rx' = NoByte
         \/ \E r \in Requests : rx' = [type |-> r.type, length |-> r.length, index |-> 0, byte |-> "any"]
  BY DEF Next, Decoder, Shown, Strobe

LEMMA NextShown == ASSUME Shown, Next PROVE Shown'
  <1>1. CASE rx' = NoByte
    BY <1>1 DEF Shown, NoByte, Types
  <1>2. ASSUME NEW r \in Requests, rx' = [type |-> r.type, length |-> r.length, index |-> 0, byte |-> "any"]
        PROVE  Shown'
    BY <1>2, RepliesAssumption DEF Shown
  <1>3. ASSUME rx.index >= 0, rx.index < rx.length - 1, NEW b \in {"reset", "any"},
               rx' = [rx EXCEPT !.index = rx.index + 1, !.byte = b]
        PROVE  Shown'
    <2>1. /\ rx' = [type |-> rx.type, length |-> rx.length, index |-> rx.index + 1, byte |-> b]
          /\ rx.type \in Types /\ rx.length \in Nat \ {0} /\ rx.index \in Int
      BY <1>3 DEF Shown
    <2>2. QED BY <1>3, <2>1 DEF Shown
  <1>4. QED BY <1>1, <1>2, <1>3, NextByte

\* The byte after this one is the next of the same frame, or the first, or none.
LEMMA Following ==
  ASSUME Shown, Next, rx'.index > 0
  PROVE  rx.index >= 0 /\ rx'.index = rx.index + 1 /\ rx'.type = rx.type /\ rx'.length = rx.length
  <1>1. PICK b \in {"reset", "any"} : rx.index >= 0 /\ rx' = [rx EXCEPT !.index = rx.index + 1, !.byte = b]
    BY NextByte DEF NoByte
  <1>2. QED BY <1>1 DEF Shown

LEMMA NextAssembled == ASSUME Received, Next PROVE Assembled'
  <1> SUFFICES ASSUME InCommands'
               PROVE  /\ rx'.type = "commands" /\ (rx'.length - 1) % CommandBytes = 0
                      /\ accum' = [i \in 1 .. CommandBytes |-> Before(i)']
    BY DEF Assembled
  <1>1. /\ rx.index \in Nat /\ rx'.index = rx.index + 1 /\ rx'.type = rx.type /\ rx'.length = rx.length
        /\ frameState' = "commands"
    BY Following DEF InCommands, Received, Shown
  <1>2. \A i \in 1 .. CommandBytes :
          Before(i)' = LET n == rx.index - CommandBytes + i IN IF n > 0 THEN n ELSE 0
    BY <1>1, RepliesAssumption DEF Before
  <1>3. CASE First
    <2>1. Commands
      BY <1>1, <1>3 DEF Next, Handles, Quiet, Request, ForTheLoader, Unknown, Ignored, CommandByte, BodyByte,
                        First, Strobe
    <2>2. rx.type = "commands" /\ (rx.length - 1) % CommandBytes = 0 /\ accum' = [i \in 1 .. CommandBytes |-> 0]
      BY <1>1, <2>1 DEF Commands, Cleared
    <2>3. \A i \in 1 .. CommandBytes : Before(i)' = 0
      BY <1>2, <1>3, RepliesAssumption DEF First
    <2>4. QED BY <1>1, <2>2, <2>3
  <1>4. CASE ~First
    <2>1. rx.index > 0
      BY <1>1, <1>4 DEF First, Strobe
    <2>2. CommandByte
      BY <1>1, <2>1 DEF Next, Handles, Quiet, Commands, Request, ForTheLoader, Unknown, Ignored, First, Strobe
    <2>3. InCommands /\ accum' = Shifted
      BY <2>1, <2>2 DEF CommandByte, InCommands
    <2>4. /\ rx.type = "commands" /\ (rx.length - 1) % CommandBytes = 0
          /\ accum = [i \in 1 .. CommandBytes |-> Before(i)]
      BY <2>3 DEF Received, Assembled
    <2>5. \A i \in 1 .. CommandBytes : Shifted[i] = Before(i)'
      <3> SUFFICES ASSUME NEW i \in 1 .. CommandBytes PROVE Shifted[i] = Before(i)'
        OBVIOUS
      <3>1. CASE i = CommandBytes
        BY <1>1, <1>2, <2>1, <3>1, RepliesAssumption DEF Shifted
      <3>2. CASE i # CommandBytes
        <4>1. i + 1 \in 1 .. CommandBytes /\ Shifted[i] = accum[i + 1]
          BY <3>2, RepliesAssumption DEF Shifted
        <4>2. accum[i + 1] = Before(i + 1)
          BY <2>4, <4>1
        <4>3. Before(i + 1) = Before(i)'
          BY <1>1, <1>2, RepliesAssumption DEF Before
        <4>4. QED BY <4>1, <4>2, <4>3
      <3>3. QED BY <3>1, <3>2
    <2>6. Shifted = [i \in 1 .. CommandBytes |-> Before(i)']
      BY <2>5 DEF Shifted
    <2>7. QED BY <1>1, <2>3, <2>4, <2>6
  <1>5. QED BY <1>3, <1>4

\* What is written is a command: the byte of this cycle after those before it.
LEMMA Written ==
  ASSUME Received, Next, write' # << >>
  PROVE  InCommands /\ Complete /\ ~full /\ write' = <<Shifted>>
  <1>1. CommandByte
    BY DEF Next, Handles, Quiet, Commands, Request, ForTheLoader, Unknown, Ignored, NoWrite
  <1>2. QED BY <1>1 DEF CommandByte, InCommands, BodyByte

LEMMA ShiftedCommand == ASSUME Received, InCommands, Complete PROVE OneCommand(Shifted)
  <1>1. rx.index \in Nat /\ rx.index > 0 /\ rx.index >= CommandBytes
    BY Multiple DEF Received, Shown, InCommands, Complete
  <1>2. \A i \in 1 .. CommandBytes : Shifted[i] = rx.index - CommandBytes + i
    <2> SUFFICES ASSUME NEW i \in 1 .. CommandBytes PROVE Shifted[i] = rx.index - CommandBytes + i
      OBVIOUS
    <2>1. CASE i = CommandBytes
      BY <1>1, <2>1, RepliesAssumption DEF Shifted
    <2>2. CASE i # CommandBytes
      <3>1. i + 1 \in 1 .. CommandBytes /\ Shifted[i] = accum[i + 1]
        BY <2>2, RepliesAssumption DEF Shifted
      <3>2. accum[i + 1] = Before(i + 1)
        BY <3>1 DEF Received, Assembled
      <3>3. Before(i + 1) = rx.index - CommandBytes + i
        BY <1>1, RepliesAssumption DEF Before
      <3>4. QED BY <3>1, <3>2, <3>3
    <2>3. QED BY <2>1, <2>2
  <1>3. 1 \in 1 .. CommandBytes /\ CommandBytes \in 1 .. CommandBytes
    BY RepliesAssumption
  <1>4. Shifted[CommandBytes] = rx.index /\ Shifted[1] = rx.index - CommandBytes + 1
    BY <1>1, <1>2, <1>3, RepliesAssumption
  <1>5. QED BY <1>1, <1>2, <1>4, RepliesAssumption DEF OneCommand, Complete

LEMMA NextRoom == ASSUME Received, Next PROVE Room'
  <1>1. PICK room \in {0, 1} : /\ level' = level + Len(write) - (IF level > 0 THEN room ELSE 0)
                               /\ full' \in IF level' >= Depth THEN {TRUE} ELSE IF full THEN BOOLEAN ELSE {FALSE}
    BY DEF Next, Fifo
  <1>2. level \in Nat /\ Len(write) \in {0, 1} /\ (write = << >> => Len(write) = 0) /\ (~full => level < Depth)
    <2>1. write = << >> => Len(write) = 0
      BY EmptySeq
    <2>2. QED BY <2>1 DEF Received, Room
  <1>3. level' \in Nat /\ (~full' => level' < Depth)
    <2>1. level' \in Nat
      BY <1>1, <1>2
    <2>2. CASE level' >= Depth
      <3>1. full' \in {TRUE}
        BY <1>1, <2>2
      <3>2. QED BY <2>1, <3>1
    <2>3. CASE ~(level' >= Depth)
      BY <2>1, <2>3, RepliesAssumption
    <2>4. QED BY <2>1, <2>2, <2>3
  <1>4. ASSUME write' # << >>
        PROVE  /\ Len(write') = 1 /\ level' < Depth /\ OneCommand(write'[1])
               /\ rx'.index > 0 => (rx'.index - 1) % CommandBytes = 0
    <2>1. InCommands /\ Complete /\ ~full /\ write' = <<Shifted>> /\ OneCommand(Shifted)
      BY <1>4, Written, ShiftedCommand
    <2>2. Len(write') = 1 /\ write'[1] = Shifted
      BY <2>1
    <2>3. write = << >>
      BY <2>1, NotTwice DEF Received, Room, Shown, InCommands, Complete
    <2>4. level' < Depth
      BY <1>1, <1>2, <2>1, <2>3, RepliesAssumption
    <2>5. rx'.index > 0 => rx'.index - 1 = rx.index
      BY Following DEF Received, Shown
    <2>6. QED BY <2>1, <2>2, <2>4, <2>5 DEF Complete
  <1>5. (write # << >> => Len(write) = 1 /\ level < Depth /\ OneCommand(write[1]))'
    BY <1>4 DEF OneCommand
  <1>6. QED BY <1>3, <1>4, <1>5 DEF Room

LEMMA ReceivedAlways == Spec => []Received
  <1>1. Received /\ [Next]_vars => Received'
    <2>1. CASE Next
      BY <2>1, NextShown, NextAssembled, NextRoom DEF Received
    <2>2. CASE UNCHANGED vars
      BY <2>2 DEF vars, input, handler, Received, Shown, Assembled, InCommands, Before, Room, OneCommand
    <2>3. QED BY <2>1, <2>2
  <1>2. QED BY <1>1, InitReceived, PTL DEF Spec

\* A command written to the FIFO is the bytes of one command in their order, and
\* there is room for it a cycle after `full` was looked at (control.py 289-299).
THEOREM AlwaysWritesLand == Spec => []WritesLand
  <1>1. Received => WritesLand
    BY DEF Received, Room, WritesLand
  <1>2. QED BY <1>1, ReceivedAlways, PTL

\* A flag that was raised is there until the opcode of a whole command, in a
\* frame of whole commands, says reset (control.py 247-249, 300-306).
THEOREM AlwaysFlagsOutlast == Spec => FlagsOutlast
  <1>1. ASSUME Received, Next, ~(flags \subseteq flags')
        PROVE  /\ rx.type = "commands" /\ (rx.length - 1) % CommandBytes = 0
               /\ rx.index > 0 /\ rx.index % CommandBytes = 0 /\ rx.byte = "reset"
    <2>1. CommandByte /\ Resets
      BY <1>1 DEF Next, Handles, Quiet, Commands, Request, ForTheLoader, Unknown, Ignored, CommandByte, Refuse, Raise
    <2>2. InCommands
      BY <2>1 DEF CommandByte, BodyByte, InCommands
    <2>3. QED BY <1>1, <2>1, <2>2 DEF Received, Assembled, InCommands, Resets, Complete
  <1>2. Received /\ [Next]_vars => [~(flags \subseteq flags') =>
                     /\ rx.type = "commands" /\ (rx.length - 1) % CommandBytes = 0
                     /\ rx.index > 0 /\ rx.index % CommandBytes = 0 /\ rx.byte = "reset"]_vars
    BY <1>1
  <1>3. QED BY <1>2, ReceivedAlways, PTL DEF Spec, FlagsOutlast
=============================================================================
