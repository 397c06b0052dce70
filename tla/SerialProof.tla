----------------------------- MODULE SerialProof -----------------------------
(***************************************************************************)
(* Proofs about what goes over the serial line: a count, digit by digit,   *)
(* and the counter it is taken from (StatusCount), each byte, bit by bit   *)
(* (Uart), and the frames the decoder makes of them (FrameDecoder); for    *)
(* every width of the count, of its digits and of a byte, every number of  *)
(* questions, every divisor and drift, payload and polynomial allowed.     *)
(*                                                                         *)
(* On words as sets of ones the Gray code is linear, so that what changes  *)
(* in it when a count goes on is the Gray code of what changes in the      *)
(* count: of the bits up to the first zero, and that is the one bit at     *)
(* which they end (OneBitChanges).                                         *)
(*                                                                         *)
(* The receiver is a fixed number of cycles behind the transmitter but for *)
(* the skew of the clocks (InStep): where it samples a bit is then within  *)
(* that bit, half a bit from its edges give or take a quarter.             *)
(*                                                                         *)
(* The decoder behind it holds the body the reference holds, and the       *)
(* checksum of that, or will when its unit has done what it was told       *)
(* (Reads); a replay still has more cycles until the next byte than bytes  *)
(* to go, so that none is dropped (Replays).                               *)
(***************************************************************************)
EXTENDS StatusCount, SerialLine, FiniteSetTheorems, SequenceTheorems, WellFoundedInduction, TLAPS

LEMMA Width == Bits \in Nat /\ Bits >= 2 /\ Bits <= 32
  BY BitsAssumption

LEMMA LeastExists ==
  ASSUME NEW T, T \subseteq Nat, T # {}
  PROVE  \E x \in T : \A y \in T : x <= y
  <1>1. PICK x \in T : \A y \in T : ~ (<<y, x>> \in OpToRel(<, Nat))
    BY NatLessThanWellFounded, WFMin
  <1>2. \A y \in T : ~ (y < x)
    BY <1>1 DEF OpToRel
  <1>3. QED BY <1>2

-----------------------------------------------------------------------------
\* Each round of the decoder doubles the distance of the two copies of the word.
LEMMA Doubles ==
  ASSUME NEW b \in Word, NEW s \in Nat, s > 0
  PROVE  Undone(Xor(b, Down(b, s)), s) = Xor(b, Down(b, s + s))
  <1>1. CASE s < Bits
    <2> DEFINE x == Xor(b, Down(b, s))
    <2>1. Undone(x, s) = Xor(x, Down(x, s))
      BY <1>1 DEF Undone
    <2>2. \A i \in Index : i \in x <=> (i \in b) # (i + s \in b)
      BY DEF Xor, Down
    <2>3. \A i \in Index : i \in Down(x, s) <=> (i + s \in b) # (i + (s + s) \in b)
      <3>1. SUFFICES ASSUME NEW i \in Index
                     PROVE  i \in Down(x, s) <=> (i + s \in b) # (i + (s + s) \in b)
        OBVIOUS
      <3>2. i \in Down(x, s) <=> i + s \in x
        BY DEF Down
      <3>3. CASE i + s \in Index
        <4>1. (i + s) + s = i + (s + s)
          BY Width DEF Index
        <4>2. QED BY <2>2, <3>2, <3>3, <4>1
      <3>4. CASE i + s \notin Index
        <4>1. i + s \notin b /\ i + (s + s) \notin b
          BY <3>4, Width DEF Index, Word
        <4>2. i + s \notin x
          BY <3>4, <4>1 DEF Xor, Down
        <4>3. QED BY <3>2, <4>1, <4>2
      <3>5. QED BY <3>3, <3>4
    <2>4. x \subseteq Index /\ Down(x, s) \subseteq Index /\ Down(b, s + s) \subseteq Index
      BY DEF Xor, Down, Word
    <2>5. \A i \in Index : i \in Down(b, s + s) <=> i + (s + s) \in b
      BY DEF Down
    <2> HIDE DEF x
    <2>6. \A i \in Index : i \in Xor(x, Down(x, s)) <=> i \in Xor(b, Down(b, s + s))
      BY <2>2, <2>3, <2>5 DEF Xor
    <2>7. Xor(x, Down(x, s)) \subseteq Index /\ Xor(b, Down(b, s + s)) \subseteq Index
      BY <2>4 DEF Xor, Word
    <2>8. QED BY <2>1, <2>6, <2>7 DEF x
  <1>2. CASE ~(s < Bits)
    <2>1. Down(b, s) = {} /\ Down(b, s + s) = {}
      BY <1>2, Width DEF Down, Index, Word
    <2>2. QED BY <1>2, <2>1 DEF Undone
  <1>3. QED BY <1>1, <1>2

\* The decoding undoes the encoding.
LEMMA DecodeGray ==
  ASSUME NEW b \in Word
  PROVE  Gray(b) \in Word /\ Decode(Gray(b)) = b
  <1> DEFINE w(s) == Xor(b, Down(b, s))
  <1>1. Undone(w(1), 1) = w(2)
    BY Doubles, 1 + 1 = 2
  <1>2. Undone(w(2), 2) = w(4)
    BY Doubles, 2 + 2 = 4
  <1>3. Undone(w(4), 4) = w(8)
    BY Doubles, 4 + 4 = 8
  <1>4. Undone(w(8), 8) = w(16)
    BY Doubles, 8 + 8 = 16
  <1>5. Undone(w(16), 16) = w(32)
    BY Doubles, 16 + 16 = 32
  <1>6. w(32) = b
    <2>1. Down(b, 32) = {}
      BY Width DEF Down, Index, Word
    <2>2. QED BY <2>1 DEF Xor
  <1>7. Gray(b) = w(1) /\ w(1) \in Word
    BY DEF Gray, Xor, Down, Word
  <1> HIDE DEF w
  <1>8. Decode(w(1)) = Undone(Undone(Undone(Undone(Undone(w(1), 1), 2), 4), 8), 16)
    BY <1>7 DEF Decode, wordOf
  <1>9. QED BY <1>1, <1>2, <1>3, <1>4, <1>5, <1>6, <1>7, <1>8

\* The bits that change when a count goes on are those up to its first zero.
Changing(b) == {i \in Index : 0 .. i - 1 \subseteq b}

LEMMA ChangingIs ==
  ASSUME NEW b \in Word
  PROVE  \E t \in Index : Changing(b) = 0 .. t
  <1> DEFINE T == {i \in 0 .. Bits : i \notin Changing(b)}
  <1>1. PICK m \in T : \A y \in T : m <= y
    <2>1. Bits \in T
      BY Width DEF Changing, Index
    <2>2. T \subseteq Nat /\ T # {}
      BY <2>1, Width
    <2>3. QED BY <2>2, LeastExists
  <1>2. 0 \in Changing(b)
    BY Width DEF Changing, Index
  <1>3. m \in 1 .. Bits /\ m \notin Changing(b)
    BY <1>1, <1>2, Width
  <1>4. \A i \in 0 .. m - 1 : i \in Changing(b)
    BY <1>1, <1>3, Width
  <1>5. \A i \in Changing(b) : i \in 0 .. m - 1
    <2>1. SUFFICES ASSUME NEW i \in Changing(b), i >= m PROVE FALSE
      BY <1>3, Width DEF Changing, Index
    <2>2. i \in Index /\ 0 .. i - 1 \subseteq b
      BY DEF Changing
    <2>3. m \in Index /\ 0 .. m - 1 \subseteq 0 .. i - 1
      BY <1>3, <2>1, <2>2, Width DEF Index
    <2>4. m \in Changing(b)
      BY <2>2, <2>3 DEF Changing
    <2>5. QED BY <1>3, <2>4
  <1>6. m - 1 \in Index /\ Changing(b) = 0 .. m - 1
    <2>1. m - 1 \in Index
      BY <1>3, Width DEF Index
    <2>2. QED BY <1>4, <1>5, <2>1
  <1>7. QED BY <1>6

\* Going on changes one bit of the Gray code and no other.
LEMMA OneBitChanges ==
  ASSUME NEW b \in Word
  PROVE  /\ Next1(b) \in Word
         /\ \E t \in Index : Xor(Gray(b), Gray(Next1(b))) = {t}
  <1>1. PICK t \in Index : Changing(b) = 0 .. t
    BY ChangingIs
  <1>2. PICK c : c = Next1(b)
    OBVIOUS
  <1>3. c = Xor(b, 0 .. t)
    BY <1>1, <1>2 DEF Next1, Changing
  <1>4. 0 .. t \subseteq Index
    BY Width DEF Index
  <1>5. c \in Word
    BY <1>3, <1>4 DEF Xor, Word
  <1>6. \A i \in Int : i \in c <=> (i \in b) # (i \in 0 .. t)
    BY <1>3 DEF Xor
  <1>7. \A i \in Index : /\ i \in Gray(b) <=> (i \in b) # (i + 1 \in b)
                         /\ i \in Gray(c) <=> (i \in c) # (i + 1 \in c)
    BY DEF Gray, Xor, Down
  <1>8. \A i \in Index : (i \in 0 .. t) # (i + 1 \in 0 .. t) <=> i = t
    BY Width DEF Index
  <1>9. \A i \in Index : (i \in Gray(b)) # (i \in Gray(c)) <=> i = t
    <2>1. SUFFICES ASSUME NEW i \in Index PROVE (i \in Gray(b)) # (i \in Gray(c)) <=> i = t
      OBVIOUS
    <2>2. i \in Int /\ i + 1 \in Int
      BY Width DEF Index
    <2>3. QED BY <1>6, <1>7, <1>8, <2>2
  <1>10. Gray(b) \subseteq Index /\ Gray(c) \subseteq Index
    BY <1>5, DecodeGray DEF Word
  <1>11. Xor(Gray(b), Gray(c)) = {t}
    BY <1>9, <1>10 DEF Xor
  <1>12. QED BY <1>2, <1>5, <1>11

\* So a row of flops that catches it changing has the old or the new word.
LEMMA SampledIs ==
  ASSUME NEW b \in Word, NEW w \in Sampled(Gray(b), Gray(Next1(b)))
  PROVE  w = Gray(b) \/ w = Gray(Next1(b))
  <1>1. PICK g, h, t : g = Gray(b) /\ h = Gray(Next1(b)) /\ Xor(g, h) = {t}
    BY OneBitChanges
  <1>2. PICK x \in SUBSET {t} : w = (g \intersect h) \union x
    BY <1>1 DEF Sampled
  <1>3. \/ g = g \intersect h /\ h = (g \intersect h) \union {t}
        \/ h = g \intersect h /\ g = (g \intersect h) \union {t}
    BY <1>1 DEF Xor
  <1>4. x = {} \/ x = {t}
    OBVIOUS
  <1>5. QED BY <1>1, <1>2, <1>3, <1>4

-----------------------------------------------------------------------------
\* Each row of flops is a count, at most one behind the one before it.
Rows(b, c) == /\ b \in Word /\ c \in Word
              /\ captured = Gray(b) /\ meta = Gray(c)
              /\ c \in {b, Next1(b)}
              /\ count \in {c, Next1(c)}
              /\ ~strobed => count = c
Counted == strobed \in BOOLEAN /\ \E b, c : Rows(b, c)

LEMMA InitCounted == Init => Counted
  <1> SUFFICES ASSUME Init PROVE Counted
    OBVIOUS
  <1>1. {} \in Word /\ Gray({}) = {}
    BY DEF Word, Gray, Xor, Down
  <1>2. Rows({}, {})
    BY <1>1 DEF Rows, Init
  <1>3. QED BY <1>2 DEF Counted, Init

\* A step of the clocks, and what is read before and after it.
LEMMA CountSteps ==
  ASSUME Counted, [Next]_vars
  PROVE  Counted' /\ synced' \in {synced, Next1(synced)}
  <1>1. PICK b, c : Rows(b, c)
    BY DEF Counted
  <1>2. b \in Word /\ c \in Word /\ Next1(c) \in Word /\ synced = b
    BY <1>1, OneBitChanges, DecodeGray DEF Rows, synced
  <1>3. ASSUME NEW d, NEW e, Rows(d, e)', d \in {b, Next1(b)}, strobed' \in BOOLEAN
        PROVE  Counted' /\ synced' \in {synced, Next1(synced)}
    <2>1. d \in Word /\ captured' = Gray(d)
      BY <1>3 DEF Rows
    <2>2. synced' = d
      BY <2>1, DecodeGray DEF synced
    <2>3. QED BY <1>2, <1>3, <2>2 DEF Counted
  <1>4. CASE UNCHANGED vars
    <2>1. Rows(b, c)' /\ strobed' \in BOOLEAN
      BY <1>1, <1>4 DEF vars, Rows, Counted
    <2>2. QED BY <1>3, <2>1
  <1>5. CASE Strobe
    <2>1. Rows(b, c)' /\ strobed' \in BOOLEAN
      BY <1>1, <1>5 DEF Strobe, Rows
    <2>2. QED BY <1>3, <2>1
  <1>6. CASE SinkEdge
    <2>1. count \in Word
      BY <1>1, <1>2 DEF Rows
    <2>2. Rows(c, count)' /\ strobed' \in BOOLEAN
      BY <1>1, <1>2, <1>6, <2>1 DEF SinkEdge, Rows
    <2>3. c \in {b, Next1(b)}
      BY <1>1 DEF Rows
    <2>4. PICK e : e = count
      OBVIOUS
    <2>5. Rows(c, e)'
      BY <1>6, <2>2, <2>4 DEF SinkEdge, Rows
    <2>6. QED BY <1>3, <2>2, <2>3, <2>5
  <1>7. CASE SinkEdgeOnStrobe
    <2>1. count = c /\ count' = Next1(c) /\ captured' = Gray(c)
      BY <1>1, <1>7 DEF SinkEdgeOnStrobe, Rows
    <2>2. meta' = Gray(c) \/ meta' = Gray(Next1(c))
      BY <1>2, <1>7, <2>1, SampledIs DEF SinkEdgeOnStrobe
    <2>3. strobed' = TRUE
      BY <1>7 DEF SinkEdgeOnStrobe
    <2>4. Rows(c, c)' \/ Rows(c, Next1(c))'
      BY <1>2, <2>1, <2>2, <2>3 DEF Rows
    <2>5. c \in {b, Next1(b)}
      BY <1>1 DEF Rows
    <2>6. QED BY <1>3, <2>3, <2>4, <2>5
  <1>8. QED BY <1>4, <1>5, <1>6, <1>7 DEF Next

\* The clocks run under the protocol as they do alone.
LEMMA StatusSteps == [StatusNext]_statusVars => [Next]_vars
  BY DEF StatusNext, statusVars, Ask, Asks, Receive, TimeOut, Begin, SendDigit, Sent, Runs

LEMMA CountedAlways == StatusSpec => []Counted
  <1>1. StatusInit => Counted
    BY InitCounted DEF StatusInit
  <1>2. Counted /\ [StatusNext]_statusVars => Counted'
    BY CountSteps, StatusSteps
  <1>3. QED BY <1>1, <1>2, PTL DEF StatusSpec

\* "The control side can never read a value that was never held" (control.py
\* 78-79): it reads the count of at most two strobes ago.
THEOREM AlwaysARecentCount == StatusSpec => []ReadsARecentCount
  <1>1. Counted => ReadsARecentCount
    <2> SUFFICES ASSUME Counted PROVE ReadsARecentCount
      OBVIOUS
    <2>1. PICK b, c : Rows(b, c)
      BY DEF Counted
    <2>2. synced = b
      BY <2>1, DecodeGray DEF Rows, synced
    <2>3. QED BY <2>1, <2>2 DEF Rows, ReadsARecentCount
  <1>2. QED BY <1>1, CountedAlways, PTL

\* And it reads the counts in order, one by one (control.py 91-108).
THEOREM AlwaysCountsInOrder == StatusSpec => CountsInOrder
  <1>1. Counted /\ [StatusNext]_statusVars => [synced' \in {synced, Next1(synced)}]_vars
    BY CountSteps, StatusSteps
  <1>2. QED BY <1>1, CountedAlways, PTL DEF StatusSpec, CountsInOrder

-----------------------------------------------------------------------------
\* Questions on their way to being answers are each in one place, and none of
\* them was there when the last one was asked.
Pending == {r.of : r \in Range(unread)}
Numbered == /\ question.of \in Nat
            /\ heard \subseteq 1 .. question.of
            /\ unread \in Seq(Range(unread))
            /\ Pending \subseteq 1 .. question.of /\ Pending \intersect heard = {}
            /\ reply # None => reply.of \in (1 .. question.of) \ (Pending \union heard)
            /\ slot # Nothing => slot.of \in (1 .. question.of) \ (Pending \union heard \union {reply.of})
            /\ answer # 0 => answer \in (1 .. question.of) \ heard

LEMMA RangeIs ==
  ASSUME NEW S, NEW s \in Seq(S)
  PROVE  s \in Seq(Range(s)) /\ Range(s) \subseteq S
  <1>1. \A i \in 1 .. Len(s) : s[i] \in Range(s) /\ s[i] \in S
    BY DEF Range
  <1>2. s \in [1 .. Len(s) -> Range(s)] /\ Len(s) \in Nat
    BY <1>1
  <1>3. Range(s) \subseteq S
    BY <1>1 DEF Range
  <1>4. QED BY <1>2, <1>3

LEMMA QueueIs ==
  ASSUME NEW s, s \in Seq(Range(s))
  PROVE  /\ s # << >> => /\ Head(s) \in Range(s)
                         /\ Tail(s) \in Seq(Range(Tail(s))) /\ Range(Tail(s)) \subseteq Range(s)
         /\ \A x : /\ Append(s, x) \in Seq(Range(Append(s, x)))
                   /\ Range(Append(s, x)) \subseteq Range(s) \union {x}
  <1>1. ASSUME s # << >>
        PROVE  /\ Head(s) \in Range(s)
               /\ Tail(s) \in Seq(Range(Tail(s))) /\ Range(Tail(s)) \subseteq Range(s)
    <2>1. Tail(s) \in Seq(Range(s)) /\ Head(s) \in Range(s)
      BY <1>1
    <2>2. QED BY <2>1, RangeIs
  <1>2. ASSUME NEW x
        PROVE  /\ Append(s, x) \in Seq(Range(Append(s, x)))
               /\ Range(Append(s, x)) \subseteq Range(s) \union {x}
    <2>1. s \in Seq(Range(s) \union {x})
      OBVIOUS
    <2>2. Append(s, x) \in Seq(Range(s) \union {x})
      BY <2>1
    <2>3. QED BY <2>2, RangeIs
  <1>3. QED BY <1>1, <1>2

LEMMA InitNumbered == StatusInit => Numbered
  <1> SUFFICES ASSUME StatusInit PROVE Numbered
    OBVIOUS
  <1>1. Range(<< >>) = {} /\ << >> \in Seq({})
    BY DEF Range
  <1>2. QED BY <1>1 DEF StatusInit, Numbered, Pending, Nothing

LEMMA NextNumbered == ASSUME Numbered, [StatusNext]_statusVars PROVE Numbered'
  <1>1. CASE UNCHANGED <<question, heard, answer, unread, slot, reply>>
    BY <1>1 DEF Numbered, Pending, None, Nothing
  <1>2. ASSUME NEW kind \in Packets, Ask(kind) PROVE Numbered'
    <2>1. PICK n : n = question.of
      OBVIOUS
    <2>2. n \in Nat /\ question' = [of |-> n + 1, kind |-> kind] /\ slot' = question' /\ answer' = 0
          /\ heard' = Pending /\ unread' = << >> /\ reply' = reply
      BY <1>2, <2>1 DEF Ask, Asks, Numbered, Pending
    <2>3. question'.of = n + 1 /\ slot'.of = n + 1
      BY <2>2
    <2>4. Pending' = {} /\ unread' \in Seq(Range(unread'))
      <3>1. Range(<< >>) = {} /\ << >> \in Seq({})
        BY DEF Range
      <3>2. QED BY <2>2, <3>1 DEF Pending
    <2>5. Pending \subseteq 1 .. n + 1 /\ n + 1 \notin Pending /\ n + 1 \in 1 .. n + 1
      BY <2>1, <2>2 DEF Numbered
    <2>6. reply # None => reply.of \in (1 .. n) \ Pending
      BY <2>1 DEF Numbered
    <2>7. reply # None => reply.of \in (1 .. n + 1) \ Pending /\ reply.of # n + 1
      BY <2>2, <2>6
    <2>8. reply = None => reply.of # n + 1
      BY <2>2 DEF None
    <2>9. QED BY <2>2, <2>3, <2>4, <2>5, <2>7, <2>8 DEF Numbered, None
  <1>3. CASE Receive
    <2>1. /\ unread # << >> /\ unread' \in {Tail(unread), << >>}
          /\ answer' \in {0, Head(unread).of}
          /\ UNCHANGED <<slot, reply, question, heard>>
      BY <1>3 DEF Receive, Parsed, board
    <2>2. /\ Head(unread) \in Range(unread)
          /\ unread' \in Seq(Range(unread')) /\ Range(unread') \subseteq Range(unread)
      <3>1. << >> \in Seq(Range(<< >>)) /\ Range(<< >>) = {}
        BY DEF Range
      <3>2. unread \in Seq(Range(unread))
        BY DEF Numbered
      <3>3. /\ Head(unread) \in Range(unread)
            /\ Tail(unread) \in Seq(Range(Tail(unread))) /\ Range(Tail(unread)) \subseteq Range(unread)
        BY <2>1, <3>2, QueueIs
      <3>4. CASE unread' = Tail(unread)
        BY <3>3, <3>4
      <3>5. CASE unread' = << >>
        BY <3>1, <3>3, <3>5
      <3>6. QED BY <2>1, <3>4, <3>5
    <2>3. Head(unread).of \in Pending /\ Pending' \subseteq Pending
      BY <2>2 DEF Pending
    <2>4. QED BY <2>1, <2>2, <2>3 DEF Numbered, None, Nothing
  <1>4. CASE Begin
    <2>1. /\ slot # Nothing /\ reply' = [None EXCEPT !.of = slot.of, !.kind = slot.kind] /\ slot' = Nothing
          /\ UNCHANGED <<question, heard, answer, unread>>
      BY <1>4 DEF Begin, host
    <2>2. reply'.of = slot.of
      BY <2>1 DEF None
    <2>3. Pending' = Pending /\ slot.of \in (1 .. question.of) \ (Pending \union heard)
      BY <2>1 DEF Numbered, Pending
    <2>4. QED BY <2>1, <2>2, <2>3 DEF Numbered, Nothing
  <1>5. CASE SendDigit
    <2>1. UNCHANGED <<question, heard, answer, unread, slot>> /\ reply # None
      BY <1>5 DEF SendDigit, host, None
    <2>2. reply'.of = reply.of
      BY <1>5 DEF SendDigit
    <2>3. QED BY <2>1, <2>2 DEF Numbered, Pending, Nothing
  <1>6. CASE Sent
    <2>1. PICK x : x.of = reply.of /\ (unread' = Append(unread, x) \/ unread' = unread)
      BY <1>6 DEF Sent
    <2>2. reply # None /\ reply' = None /\ UNCHANGED <<question, heard, answer, slot>>
      BY <1>6 DEF Sent, host
    <2>3. unread' \in Seq(Range(unread')) /\ Range(unread') \subseteq Range(unread) \union {x}
      <3>1. unread \in Seq(Range(unread))
        BY DEF Numbered
      <3>2. /\ Append(unread, x) \in Seq(Range(Append(unread, x)))
            /\ Range(Append(unread, x)) \subseteq Range(unread) \union {x}
        BY <3>1, QueueIs
      <3>3. CASE unread' = Append(unread, x)
        BY <3>2, <3>3
      <3>4. CASE unread' = unread
        BY <3>1, <3>4
      <3>5. QED BY <2>1, <3>3, <3>4
    <2>4. Pending' \subseteq Pending \union {reply.of}
      BY <2>1, <2>3 DEF Pending
    <2>5. slot # Nothing => slot.of \in 1 .. question.of /\ slot.of # 0
      BY DEF Numbered
    <2>6. reply'.of = 0
      BY <2>2 DEF None
    <2>7. QED BY <2>2, <2>3, <2>4, <2>5, <2>6 DEF Numbered, Nothing
  <1>7. CASE TimeOut \/ Runs
    BY <1>1, <1>7 DEF TimeOut, Runs, board, host
  <1>8. CASE UNCHANGED statusVars
    BY <1>1, <1>8 DEF statusVars, host, board
  <1>9. QED BY <1>2, <1>3, <1>4, <1>5, <1>6, <1>7, <1>8 DEF StatusNext

\* A count that is taken is that of the question, or of an earlier one whose
\* reply had not come when the last was asked (client.py 195-196, 226-256).
THEOREM AlwaysFreshAnswer == StatusSpec => []FreshAnswer
  <1>1. Numbered => FreshAnswer
    BY DEF Numbered, FreshAnswer
  <1>2. QED BY <1>1, InitNumbered, NextNumbered, PTL DEF StatusSpec

-----------------------------------------------------------------------------
\* The values of a digit of k bits: they go up by one until all bits are ones.
Ones(k) == 0 .. k - 1
Bump(w, k) == Xor(w, {i \in Ones(k) : 0 .. i - 1 \subseteq w})
Range2(k) == Cardinality(SUBSET Ones(k))
Valued(v, k) == /\ v \in [SUBSET Ones(k) -> 0 .. Range2(k) - 1]
                /\ v[{}] = 0 /\ v[Ones(k)] = Range2(k) - 1
                /\ \A w \in SUBSET Ones(k) : w # Ones(k) => v[Bump(w, k)] = v[w] + 1

LEMMA RangeDoubles ==
  ASSUME NEW k \in Nat
  PROVE  /\ Range2(0) = 1 /\ Range2(k) \in Nat /\ Range2(k + 1) = 2 * Range2(k)
  <1> DEFINE S == SUBSET Ones(k)
             T == {w \union {k} : w \in S}
  <1>1. IsFiniteSet(S) /\ Cardinality(S) \in Nat
    <2>1. IsFiniteSet(Ones(k))
      BY FS_Interval DEF Ones
    <2>2. IsFiniteSet(S)
      BY <2>1, FS_SUBSET
    <2> HIDE DEF S
    <2>3. QED BY <2>2, FS_CardinalityType
  <1>2. IsFiniteSet(T) /\ Cardinality(T) = Cardinality(S)
    <2> DEFINE f == [w \in S |-> w \union {k}]
    <2>1. f \in Bijection(S, T)
      <3>1. \A w \in S : k \notin w
        BY DEF Ones
      <3>2. \A a, b \in S : f[a] = f[b] => a = b
        BY <3>1
      <3>3. f \in [S -> T] /\ \A t \in T : \E w \in S : f[w] = t
        OBVIOUS
      <3> HIDE DEF f, S, T
      <3>4. IsInjective(f)
        BY <3>2, <3>3 DEF IsInjective
      <3>5. QED BY <3>3, <3>4 DEF Bijection, Injection, Surjection
    <2>2. ExistsBijection(S, T)
      BY <2>1 DEF ExistsBijection
    <2> HIDE DEF S, T
    <2>3. QED BY <1>1, <2>2, FS_Bijection
  <1>3. S \intersect T = {}
    BY DEF Ones
  <1>4. SUBSET Ones(k + 1) = S \union T
    <2>1. Ones(k + 1) = Ones(k) \union {k} /\ k \notin Ones(k)
      BY DEF Ones
    <2>2. ASSUME NEW w \in SUBSET Ones(k + 1) PROVE w \in S \union T
      <3>1. w \ {k} \in S
        BY <2>1
      <3>2. CASE k \in w
        <4>1. w = (w \ {k}) \union {k}
          BY <3>2
        <4>2. QED BY <3>1, <4>1
      <3>3. CASE k \notin w
        BY <2>1, <3>3
      <3>4. QED BY <3>2, <3>3
    <2>3. QED BY <2>1, <2>2
  <1>5. Range2(0) = 1
    <2>1. SUBSET Ones(0) = {{}}
      BY DEF Ones
    <2>2. QED BY <2>1, FS_Singleton DEF Range2
  <1>6. Range2(k + 1) = Cardinality(S) + Cardinality(T)
    <2>1. Range2(k + 1) = Cardinality(S \union T)
      BY <1>4 DEF Range2
    <2> HIDE DEF S, T
    <2>2. Cardinality(S \union T) = Cardinality(S) + Cardinality(T) - Cardinality({})
      <3>1. Cardinality(S \union T) = Cardinality(S) + Cardinality(T) - Cardinality(S \intersect T)
        BY <1>1, <1>2, FS_Union
      <3>2. QED BY <1>3, <3>1
    <2>3. QED BY <1>1, <1>2, <2>1, <2>2, FS_EmptySet
  <1>7. QED BY <1>1, <1>2, <1>5, <1>6 DEF Range2

LEMMA OneBitMore ==
  ASSUME NEW k \in Nat, NEW v, Valued(v, k)
  PROVE  \E u : Valued(u, k + 1)
  <1> DEFINE n == Range2(k)
             u == [w \in SUBSET Ones(k + 1) |-> IF k \in w THEN v[w \ {k}] + n ELSE v[w]]
  <1>1. n \in Nat /\ Range2(k + 1) = 2 * n
    BY RangeDoubles
  <1>2. Ones(k + 1) = Ones(k) \union {k} /\ k \notin Ones(k)
    BY DEF Ones
  <1>3. /\ v \in [SUBSET Ones(k) -> 0 .. n - 1] /\ v[{}] = 0 /\ v[Ones(k)] = n - 1
        /\ \A w \in SUBSET Ones(k) : w # Ones(k) => v[Bump(w, k)] = v[w] + 1
    BY DEF Valued
  <1>4. ASSUME NEW w \in SUBSET Ones(k + 1)
        PROVE  w \ {k} \in SUBSET Ones(k) /\ (k \notin w => w \ {k} = w)
    BY <1>2
  <1>5. \A w \in SUBSET Ones(k) : v[w] \in 0 .. n - 1
    BY <1>3
  <1> HIDE DEF n
  <1>6. \A w \in SUBSET Ones(k + 1) : u[w] = IF k \in w THEN v[w \ {k}] + n ELSE v[w \ {k}]
    BY <1>4
  <1>7. u \in [SUBSET Ones(k + 1) -> 0 .. 2 * n - 1]
    <2>1. \A w \in SUBSET Ones(k + 1) : u[w] \in 0 .. 2 * n - 1
      <3>1. SUFFICES ASSUME NEW w \in SUBSET Ones(k + 1) PROVE u[w] \in 0 .. 2 * n - 1
        OBVIOUS
      <3>2. v[w \ {k}] \in 0 .. n - 1
        BY <1>4, <1>5
      <3>3. u[w] = v[w \ {k}] + n \/ u[w] = v[w \ {k}]
        BY <1>6
      <3>4. QED BY <1>1, <3>2, <3>3
    <2>2. QED BY <2>1
  <1> HIDE DEF u
  <1>8. u[{}] = 0 /\ u[Ones(k + 1)] = 2 * n - 1
    <2>1. {} \ {k} = {} /\ Ones(k + 1) \ {k} = Ones(k) /\ k \in Ones(k + 1)
      BY <1>2
    <2>2. u[{}] = v[{}]
      BY <1>6, <2>1
    <2>3. u[Ones(k + 1)] = v[Ones(k)] + n
      BY <1>6, <2>1
    <2>4. QED BY <1>1, <1>3, <2>2, <2>3
  <1>9. ASSUME NEW w \in SUBSET Ones(k + 1), w # Ones(k + 1)
        PROVE  u[Bump(w, k + 1)] = u[w] + 1
    <2> DEFINE x == w \ {k}
               c == {i \in Ones(k) : 0 .. i - 1 \subseteq x}
               d == {i \in Ones(k + 1) : 0 .. i - 1 \subseteq w}
    <2>1. x \in SUBSET Ones(k) /\ v[x] \in 0 .. n - 1
      BY <1>4, <1>5
    <2>2. \A i \in Ones(k) : i \in d <=> i \in c
      <3>1. \A i \in Ones(k) : k \notin 0 .. i - 1
        BY DEF Ones
      <3>2. QED BY <1>2, <3>1
    <2>3. k \in d <=> x = Ones(k)
      <3>1. 0 .. k - 1 = Ones(k)
        BY DEF Ones
      <3>2. QED BY <1>2, <2>1, <3>1
    <2>4. c \subseteq Ones(k) /\ d \subseteq Ones(k) \union {k}
      BY <1>2
    <2>5. Bump(w, k + 1) = Xor(w, d) /\ Bump(x, k) = Xor(x, c)
      BY DEF Bump
    <2>6. k \in w => x # Ones(k)
      BY <1>2, <1>9
    <2> HIDE DEF c, d
    <2>7. Xor(w, d) \in SUBSET Ones(k + 1) /\ Xor(w, d) \ {k} = Xor(x, c)
      BY <1>2, <2>2, <2>4 DEF Xor
    <2>8. k \in Xor(w, d) <=> (k \in w) # (k \in d)
      BY DEF Xor
    <2>9. CASE x # Ones(k)
      <3>1. v[Xor(x, c)] = v[x] + 1
        BY <1>3, <2>1, <2>5, <2>9
      <3>2. k \in Xor(w, d) <=> k \in w
        BY <2>3, <2>8, <2>9
      <3>3. u[Xor(w, d)] = IF k \in Xor(w, d) THEN v[Xor(x, c)] + n ELSE v[Xor(x, c)]
        BY <1>6, <2>7
      <3>4. u[w] = IF k \in w THEN v[x] + n ELSE v[x]
        BY <1>6
      <3> HIDE DEF x
      <3>5. QED BY <1>1, <2>1, <2>5, <3>1, <3>2, <3>3, <3>4
    <2>10. CASE x = Ones(k)
      <3>1. k \notin w /\ k \in Xor(w, d) /\ c = Ones(k)
        <4>1. k \notin w
          BY <2>6, <2>10
        <4>2. c = Ones(k)
          BY <2>10 DEF c, Ones
        <4>3. QED BY <2>3, <2>8, <2>10, <4>1, <4>2
      <3>2. Xor(x, c) = {}
        BY <2>10, <3>1 DEF Xor
      <3>3. u[Xor(w, d)] = v[{}] + n
        BY <1>6, <2>7, <3>1, <3>2
      <3>4. u[w] = v[Ones(k)]
        BY <1>6, <2>10, <3>1
      <3>5. QED BY <1>1, <1>3, <2>5, <3>3, <3>4
    <2>11. QED BY <2>9, <2>10
  <1>10. Valued(u, k + 1)
    BY <1>1, <1>7, <1>8, <1>9 DEF Valued
  <1>11. QED BY <1>10

LEMMA ValuesExist == \A k \in Nat : \E v : Valued(v, k)
  <1> SUFFICES ASSUME \E k \in Nat : ~\E v : Valued(v, k) PROVE FALSE
    OBVIOUS
  <1> DEFINE T == {k \in Nat : ~\E v : Valued(v, k)}
  <1>1. PICK k \in T : \A j \in T : k <= j
    <2>1. T \subseteq Nat /\ T # {}
      OBVIOUS
    <2>2. QED BY <2>1, LeastExists
  <1>2. Valued([w \in {{}} |-> 0], 0)
    <2>1. Ones(0) = {} /\ SUBSET Ones(0) = {{}}
      BY DEF Ones
    <2>2. Range2(0) = 1
      BY RangeDoubles
    <2> DEFINE v == [w \in {{}} |-> 0]
    <2>3. v[{}] = 0 /\ v \in [{{}} -> 0 .. 0]
      OBVIOUS
    <2> HIDE DEF v
    <2>4. Valued(v, 0)
      <3>1. Range2(0) - 1 = 0
        BY <2>2
      <3>2. v \in [SUBSET Ones(0) -> 0 .. Range2(0) - 1]
        BY <2>1, <2>3, <3>1
      <3>3. v[{}] = 0 /\ v[Ones(0)] = Range2(0) - 1
        BY <2>1, <2>3, <3>1
      <3>4. \A w \in SUBSET Ones(0) : w = Ones(0)
        BY <2>1
      <3>5. QED BY <3>2, <3>3, <3>4 DEF Valued
    <2>5. QED BY <2>4 DEF v
  <1>3. k \in Nat \ {0} /\ k - 1 \in Nat /\ k - 1 \notin T
    BY <1>1, <1>2
  <1>4. PICK v : Valued(v, k - 1)
    BY <1>3
  <1>5. \E u : Valued(u, (k - 1) + 1)
    BY <1>3, <1>4, OneBitMore
  <1>6. QED BY <1>1, <1>3, <1>5

-----------------------------------------------------------------------------
\* The lowest digit of a word, its value, and what is above it.
Low(w) == w \intersect Ones(DigitBits)
High(w) == w \ Ones(DigitBits)
value == CHOOSE v : Valued(v, DigitBits)
Round == 2^DigitBits

LEMMA Digit == /\ DigitBits \in Nat /\ DigitBits > 0 /\ Digits \in Nat /\ Digits > 0
               /\ Bits = DigitBits * Digits /\ DigitBits <= Bits
               /\ Pace \in Nat
  <1>1. /\ DigitBits \in Nat /\ DigitBits > 0 /\ Digits \in Nat /\ Digits > 0
        /\ Bits = DigitBits * Digits /\ Pace \in Nat
    BY StatusAssumption
  <1>2. DigitBits * 1 <= DigitBits * Digits
    BY <1>1
  <1>3. QED BY <1>1, <1>2

LEMMA ValueIs ==
  /\ Round \in Nat /\ Round > 0
  /\ Valued(value, DigitBits) /\ Range2(DigitBits) = Round
  <1>1. DigitBits \in Nat
    BY Digit
  <1>2. Range2(DigitBits) = Round
    <2>1. IsFiniteSet(Ones(DigitBits)) /\ Cardinality(Ones(DigitBits)) = DigitBits
      BY <1>1, FS_Interval DEF Ones
    <2>2. Cardinality(SUBSET Ones(DigitBits)) = 2^Cardinality(Ones(DigitBits))
      BY <2>1, FS_SUBSET
    <2>3. QED BY <2>1, <2>2 DEF Range2, Round
  <1>3. Valued(value, DigitBits)
    BY <1>1, ValuesExist DEF value
  <1>4. Round \in Nat
    BY <1>1, <1>2, RangeDoubles
  <1>5. Round > 0
    <2>1. value[{}] \in 0 .. Round - 1
      BY <1>2, <1>3 DEF Valued
    <2>2. QED BY <1>4, <2>1
  <1>6. QED BY <1>2, <1>3, <1>4, <1>5

\* One more: either the lowest digit goes up by one, or it goes from its
\* greatest value to 0 and the rest of the word up.
LEMMA OneMore ==
  ASSUME NEW s \in Word
  PROVE  /\ value[Low(s)] \in 0 .. Round - 1
         /\ Low(s) # Ones(DigitBits) => /\ High(Next1(s)) = High(s)
                                        /\ value[Low(Next1(s))] = value[Low(s)] + 1
         /\ Low(s) = Ones(DigitBits) => /\ High(Next1(s)) = High(AheadBy(s, DigitBits))
                                        /\ value[Low(Next1(s))] = 0 /\ value[Low(s)] = Round - 1
  <1> DEFINE L == Ones(DigitBits)
             c == {i \in Index : 0 .. i - 1 \subseteq s}
  <1>1. /\ DigitBits \in Nat /\ DigitBits > 0 /\ DigitBits <= Bits /\ Bits \in Nat
        /\ L \subseteq Index
    BY Digit, Width DEF Ones, Index
  <1>2. Low(s) \in SUBSET L
    BY DEF Low
  <1>3. /\ value \in [SUBSET L -> 0 .. Round - 1]
        /\ value[{}] = 0 /\ value[L] = Round - 1
        /\ \A w \in SUBSET L : w # L => value[Bump(w, DigitBits)] = value[w] + 1
    BY ValueIs DEF Valued
  <1>4. Next1(s) = Xor(s, c)
    BY DEF Next1
  <1>5. \A i \in L : i \in c <=> 0 .. i - 1 \subseteq Low(s)
    <2>1. \A i \in L : 0 .. i - 1 \subseteq L
      BY <1>1 DEF Ones
    <2>2. QED BY <1>1, <2>1 DEF Low
  <1>6. Low(Next1(s)) = Bump(Low(s), DigitBits)
    <2>1. \A i \in L : i \in Xor(s, c) <=> i \in Bump(Low(s), DigitBits)
      BY <1>5 DEF Xor, Bump, Low
    <2>2. Bump(Low(s), DigitBits) \subseteq L
      BY <1>2 DEF Bump, Xor
    <2>3. QED BY <1>4, <2>1, <2>2 DEF Low
  <1>7. CASE Low(s) # L
    <2>1. c \subseteq L
      <3>1. SUFFICES ASSUME NEW i \in c, i \notin L PROVE FALSE
        OBVIOUS
      <3>2. L \subseteq 0 .. i - 1
        BY <1>1, <3>1 DEF Index, Ones
      <3>3. QED BY <1>7, <3>1, <3>2 DEF Low
    <2>2. High(Next1(s)) = High(s)
      BY <1>4, <2>1 DEF High, Xor
    <2>3. QED BY <1>2, <1>3, <1>6, <1>7, <2>2
  <1>8. CASE Low(s) = L
    <2>1. L \subseteq s
      BY <1>8 DEF Low
    <2> DEFINE d == {i \in Index : DigitBits <= i /\ DigitBits .. i - 1 \subseteq s}
    <2>2. \A i \in Index \ L : i \in c <=> i \in d
      <3>1. SUFFICES ASSUME NEW i \in Index \ L PROVE i \in c <=> i \in d
        OBVIOUS
      <3>2. DigitBits <= i /\ 0 .. i - 1 = L \union (DigitBits .. i - 1)
        BY <1>1 DEF Index, Ones
      <3>3. QED BY <2>1, <3>2
    <2>3. s \subseteq Index /\ c \subseteq Index /\ d \subseteq Index
      BY DEF Word
    <2>4. AheadBy(s, DigitBits) = Xor(s, d)
      BY DEF AheadBy
    <2> HIDE DEF c, d
    <2>5. High(Xor(s, c)) = High(Xor(s, d))
      BY <2>2, <2>3 DEF High, Xor
    <2>6. Bump(L, DigitBits) = {}
      <3>1. \A i \in L : 0 .. i - 1 \subseteq L
        BY <1>1 DEF Ones
      <3>2. QED BY <3>1 DEF Bump, Xor
    <2>7. value[Low(Next1(s))] = 0 /\ value[Low(s)] = Round - 1
      BY <1>3, <1>6, <1>8, <2>6
    <2>8. QED BY <1>2, <1>3, <1>4, <1>8, <2>4, <2>5, <2>7
  <1>9. QED BY <1>7, <1>8

\* s is n more than b, and there has been a carry out of the lowest digit or not.
On(b, s, n, carried) ==
  IF carried THEN High(s) = High(AheadBy(b, DigitBits)) /\ value[Low(s)] = value[Low(b)] + n - Round
             ELSE High(s) = High(b) /\ value[Low(s)] = value[Low(b)] + n

\* What is above the lowest digit says what a carry makes of it.
LEMMA CarryIs ==
  ASSUME NEW b \in Word, NEW s \in Word, High(s) = High(b)
  PROVE  High(AheadBy(s, DigitBits)) = High(AheadBy(b, DigitBits))
  <1>1. \A i \in Index : DigitBits .. i - 1 \subseteq s <=> DigitBits .. i - 1 \subseteq b
    <2>1. SUFFICES ASSUME NEW i \in Index
                   PROVE  DigitBits .. i - 1 \subseteq s <=> DigitBits .. i - 1 \subseteq b
      OBVIOUS
    <2>2. \A j \in DigitBits .. i - 1 : j \notin Ones(DigitBits)
      BY Digit DEF Ones
    <2>3. \A j : j \notin Ones(DigitBits) => (j \in s <=> j \in b)
      BY DEF High
    <2>4. QED BY <2>2, <2>3
  <1>2. {i \in Index : DigitBits <= i /\ DigitBits .. i - 1 \subseteq s}
          = {i \in Index : DigitBits <= i /\ DigitBits .. i - 1 \subseteq b}
    BY <1>1
  <1>3. QED BY <1>2 DEF AheadBy, High, Xor

LEMMA OnGoes ==
  ASSUME NEW b \in Word, NEW s \in Word, NEW n \in Nat, NEW f \in BOOLEAN, On(b, s, n, f), n < Round
  PROVE  \E g \in BOOLEAN : On(b, Next1(s), n + 1, g) /\ (f => g)
  <1>1. Round \in Nat /\ value[Low(b)] \in 0 .. Round - 1
    BY ValueIs, OneMore
  <1>2. CASE Low(s) # Ones(DigitBits)
    <2>1. High(Next1(s)) = High(s) /\ value[Low(Next1(s))] = value[Low(s)] + 1
      BY <1>2, OneMore
    <2>2. CASE f
      <3>1. On(b, Next1(s), n + 1, TRUE)
        BY <1>1, <2>1, <2>2 DEF On
      <3>2. QED BY <3>1
    <2>3. CASE ~f
      <3>1. On(b, Next1(s), n + 1, FALSE)
        BY <1>1, <2>1, <2>3 DEF On
      <3>2. QED BY <2>3, <3>1
    <2>4. QED BY <2>2, <2>3
  <1>3. CASE Low(s) = Ones(DigitBits)
    <2>1. /\ High(Next1(s)) = High(AheadBy(s, DigitBits))
          /\ value[Low(Next1(s))] = 0 /\ value[Low(s)] = Round - 1
      BY <1>3, OneMore
    <2>2. ~f /\ High(s) = High(b) /\ Round - 1 = value[Low(b)] + n
      BY <1>1, <2>1 DEF On
    <2>3. High(Next1(s)) = High(AheadBy(b, DigitBits))
      BY <2>1, <2>2, CarryIs
    <2>4. value[Low(b)] + (n + 1) - Round = 0
      BY <1>1, <2>2
    <2>5. On(b, Next1(s), n + 1, TRUE)
      BY <2>1, <2>3, <2>4 DEF On
    <2>6. QED BY <2>5
  <1>4. QED BY <1>2, <1>3

-----------------------------------------------------------------------------
\* What d digits of b are, of which those from the m-th on saw a carry.
Content(b, w, m, d) ==
  w = {i \in b : i < DigitBits * m}
        \union {i \in AheadBy(b, DigitBits) : DigitBits * m <= i /\ i < DigitBits * d}

\* All digits together: b, or b and a carry into the m-th digit.
LEMMA AllDigits ==
  ASSUME NEW b \in Word, NEW w, NEW m \in 1 .. Digits, Content(b, w, m, Digits)
  PROVE  w \in {b} \union {AheadBy(b, DigitBits * i) : i \in 1 .. Digits - 1}
  <1> DEFINE p == DigitBits * m
             low == {i \in Index : DigitBits <= i /\ DigitBits .. i - 1 \subseteq b}
             cut == {i \in Index : p <= i /\ p .. i - 1 \subseteq b}
  <1>1. /\ p \in Nat /\ DigitBits \in Nat /\ DigitBits <= p /\ p <= Bits /\ Bits \in Nat
        /\ Bits = DigitBits * Digits
    <2>1. DigitBits * 1 <= DigitBits * m /\ DigitBits * m <= DigitBits * Digits /\ DigitBits * m \in Nat
      BY Digit
    <2>2. QED BY <2>1, Digit
  <1>2. /\ b \subseteq Index /\ low \subseteq Index /\ cut \subseteq Index
        /\ \A i \in Index : i \in Nat /\ i < Bits
    BY <1>1 DEF Word, Index
  <1>3. AheadBy(b, DigitBits) = Xor(b, low) /\ AheadBy(b, p) = Xor(b, cut)
    BY DEF AheadBy
  <1>4. w = {i \in b : i < p} \union {i \in Xor(b, low) : p <= i /\ i < Bits}
    BY <1>1, <1>3 DEF Content
  <1>5. \A i \in cut : p <= i
    OBVIOUS
  <1>6. CASE DigitBits .. p - 1 \subseteq b
    <2>1. \A i \in Index : p <= i => (i \in low <=> i \in cut)
      <3>1. SUFFICES ASSUME NEW i \in Index, p <= i PROVE i \in low <=> i \in cut
        OBVIOUS
      <3>2. DigitBits .. i - 1 = (DigitBits .. p - 1) \union (p .. i - 1) /\ DigitBits <= i
        BY <1>1, <1>2, <3>1
      <3>3. QED BY <1>6, <3>1, <3>2
    <2> HIDE DEF p, low, cut
    <2>2. \A i \in Index : i \in w <=> i \in Xor(b, cut)
      BY <1>1, <1>2, <1>4, <1>5, <2>1 DEF Xor
    <2>3. w \subseteq Index /\ Xor(b, cut) \subseteq Index
      BY <1>2, <1>4 DEF Xor
    <2>4. w = AheadBy(b, p)
      BY <1>3, <2>2, <2>3
    <2>5. CASE m = Digits
      <3>1. p = Bits
        BY <1>1, <2>5 DEF p
      <3>2. w = b
        <4>1. \A i \in b : i < p
          BY <1>2, <3>1
        <4>2. \A i \in Xor(b, low) : ~(p <= i)
          <5>1. Xor(b, low) \subseteq Index
            BY <1>2 DEF Xor
          <5>2. \A i \in Index : ~(p <= i)
            BY <1>1, <1>2, <3>1
          <5>3. QED BY <5>1, <5>2
        <4>3. QED BY <1>4, <4>1, <4>2
      <3>3. QED BY <3>2
    <2>6. CASE m # Digits
      <3>1. m \in 1 .. Digits - 1
        BY <2>6, Digit
      <3>2. QED BY <2>4, <3>1 DEF p
    <2>7. QED BY <2>5, <2>6
  <1>7. CASE ~(DigitBits .. p - 1 \subseteq b)
    <2>1. \A i \in Index : p <= i => i \notin low
      <3>1. SUFFICES ASSUME NEW i \in Index, p <= i, i \in low PROVE FALSE
        OBVIOUS
      <3>2. DigitBits .. p - 1 \subseteq DigitBits .. i - 1
        BY <1>1, <1>2, <3>1
      <3>3. QED BY <1>7, <3>1, <3>2
    <2> HIDE DEF p, low, cut
    <2>2. \A i \in Index : i \in w <=> i \in b
      BY <1>1, <1>2, <1>4, <2>1 DEF Xor
    <2>3. w \subseteq Index
      BY <1>2, <1>4 DEF Xor
    <2>4. w = b
      BY <1>2, <2>2, <2>3
    <2>5. QED BY <2>4
  <1>8. QED BY <1>6, <1>7

\* The next digit, from a word that is a little more than b.
LEMMA NextDigit ==
  ASSUME NEW b \in Word, NEW w, NEW d \in 1 .. Digits - 1, NEW m \in 1 .. d, Content(b, w, m, d),
         NEW s \in Word, NEW n \in Nat, NEW f \in BOOLEAN, On(b, s, n, f), m < d => f
  PROVE  \E k \in 1 .. d + 1 :
            /\ Content(b, w \union {i \in s : i \in DigitBits * d .. DigitBits * (d + 1) - 1}, k, d + 1)
            /\ k < d + 1 => f
  <1> DEFINE p == DigitBits * m
             q == DigitBits * d
             r == DigitBits * (d + 1)
             x == {i \in s : i \in q .. r - 1}
             a == AheadBy(b, DigitBits)
  <1>1. /\ p \in Nat /\ q \in Nat /\ r = q + DigitBits /\ p <= q /\ DigitBits <= q
        /\ DigitBits \in Nat /\ DigitBits > 0
    <2>1. DigitBits * 1 <= DigitBits * d /\ DigitBits * m <= DigitBits * d
      BY Digit
    <2>2. DigitBits * (d + 1) = DigitBits * d + DigitBits /\ DigitBits * m \in Nat /\ DigitBits * d \in Nat
      BY Digit
    <2>3. QED BY <2>1, <2>2, Digit
  <1>2. b \subseteq Int /\ s \subseteq Int /\ a \subseteq Int
    <2>1. Index \subseteq Int /\ b \subseteq Index /\ s \subseteq Index
      BY Width DEF Word, Index
    <2>2. a \subseteq Index
      BY <2>1 DEF AheadBy, Xor
    <2>3. QED BY <2>1, <2>2
  <1>3. \A i \in q .. r - 1 : i \notin Ones(DigitBits)
    BY <1>1 DEF Ones
  <1>4. w = {i \in b : i < p} \union {i \in a : p <= i /\ i < q}
    BY DEF Content
  <1>5. CASE f
    <2>1. \A i \in q .. r - 1 : i \in s <=> i \in a
      BY <1>3, <1>5 DEF On, High
    <2> HIDE DEF p, q, r, a
    <2>2. w \union x = {i \in b : i < p} \union {i \in a : p <= i /\ i < r}
      <3>1. \A i \in Int : i \in x <=> i \in a /\ q <= i /\ i < r
        BY <1>1, <1>2, <2>1
      <3>2. x \subseteq Int
        BY <1>2
      <3> HIDE DEF x
      <3>3. x = {i \in a : q <= i /\ i < r}
        BY <1>2, <3>1, <3>2
      <3>4. \A i \in Int : p <= i /\ i < r <=> (p <= i /\ i < q) \/ (q <= i /\ i < r)
        BY <1>1
      <3>5. QED BY <1>2, <1>4, <3>3, <3>4
    <2>3. Content(b, w \union x, m, d + 1)
      BY <2>2 DEF Content, p, q, r, a
    <2>4. m \in 1 .. d + 1
      BY Digit
    <2>5. QED BY <1>5, <2>3, <2>4 DEF q, r
  <1>6. CASE ~f
    <2>1. \A i \in q .. r - 1 : i \in s <=> i \in b
      BY <1>3, <1>6 DEF On, High
    <2>2. m = d /\ p = q
      BY <1>6
    <2> HIDE DEF p, q, r, a
    <2>3. w \union x = {i \in b : i < r} \union {i \in a : r <= i /\ i < r}
      <3>1. \A i \in Int : i \in x <=> i \in b /\ q <= i /\ i < r
        BY <1>1, <1>2, <2>1
      <3>2. x \subseteq Int
        BY <1>2
      <3> HIDE DEF x
      <3>3. x = {i \in b : q <= i /\ i < r}
        BY <1>2, <3>1, <3>2
      <3>4. \A i \in Int : /\ i < r <=> i < q \/ (q <= i /\ i < r)
                          /\ ~(q <= i /\ i < q) /\ ~(r <= i /\ i < r)
        BY <1>1
      <3>5. QED BY <1>2, <1>4, <2>2, <3>3, <3>4
    <2>4. Content(b, w \union x, d + 1, d + 1)
      BY <2>3 DEF Content, p, q, r, a
    <2>5. d + 1 \in 1 .. d + 1 /\ ~(d + 1 < d + 1)
      BY Digit
    <2>6. QED BY <2>4, <2>5 DEF q, r
  <1>7. QED BY <1>5, <1>6

-----------------------------------------------------------------------------
\* The rows of flops once more, with how far each is behind the next.
Further(w, k) == IF k = 0 THEN w ELSE Next1(w)
Lags(x, c, l, k) == /\ x \in Word /\ c \in Word /\ l \in {0, 1} /\ k \in {0, 1}
                    /\ captured = Gray(x) /\ meta = Gray(c)
                    /\ c = Further(x, l) /\ count = Further(c, k)
                    /\ ~strobed => k = 0

LEMMA LagsExist ==
  ASSUME Counted PROVE \E x, c, l, k : Lags(x, c, l, k)
  <1>1. PICK x, c : Rows(x, c)
    BY DEF Counted
  <1>2. PICK l \in {0, 1} : c = Further(x, l)
    BY <1>1 DEF Rows, Further
  <1>3. PICK k \in {0, 1} : count = Further(c, k) /\ (~strobed => k = 0)
    <2>1. CASE ~strobed
      BY <1>1, <2>1 DEF Rows, Further
    <2>2. CASE strobed
      BY <1>1, <2>2 DEF Rows, Further
    <2>3. QED BY <2>1, <2>2
  <1>4. Lags(x, c, l, k)
    BY <1>1, <1>2, <1>3 DEF Rows, Lags
  <1>5. QED BY <1>4

\* What is read goes on by what the rows are less behind.
LEMMA LagSteps ==
  ASSUME NEW x, NEW c, NEW l, NEW k, Lags(x, c, l, k), Next
  PROVE  \E d \in Word, j \in {0, 1}, h \in {0, 1}, y \in {0, 1}, z \in {0, 1} :
            /\ Lags(Further(x, y), d, j, h)'
            /\ y + j + h = l + k + z
            /\ z = 1 => count' # count
  <1>1. /\ x \in Word /\ c \in Word /\ l \in {0, 1} /\ k \in {0, 1}
        /\ captured = Gray(x) /\ meta = Gray(c) /\ c = Further(x, l) /\ count = Further(c, k)
        /\ ~strobed => k = 0
    BY DEF Lags
  <1>2. Next1(x) \in Word /\ Next1(c) \in Word
    BY <1>1, OneBitChanges
  <1>3. Next1(c) # c
    <2>1. 0 \in {i \in Index : 0 .. i - 1 \subseteq c}
      BY Width DEF Index
    <2>2. QED BY <2>1 DEF Next1, Xor
  <1>4. CASE Strobe
    <2>1. k = 0 /\ count = c /\ count' = Next1(c)
      BY <1>1, <1>4 DEF Strobe, Further
    <2>2. Further(x, 0) = x
      BY DEF Further
    <2>3. Lags(Further(x, 0), c, l, 1)'
      BY <1>1, <1>2, <1>4, <2>1, <2>2 DEF Strobe, Lags, Further
    <2>4. count' # count /\ 0 + l + 1 = l + k + 1
      BY <1>1, <1>3, <2>1
    <2>5. QED BY <1>1, <2>3, <2>4
  <1>5. CASE SinkEdge
    <2>1. captured' = Gray(c) /\ meta' = Gray(count) /\ count' = count
      BY <1>1, <1>5 DEF SinkEdge
    <2>2. count \in Word
      BY <1>1, <1>2 DEF Further
    <2>3. PICK e : e = count
      OBVIOUS
    <2>4. Lags(Further(x, l), e, k, 0)'
      BY <1>1, <2>1, <2>2, <2>3 DEF Lags, Further
    <2>5. l + k + 0 = l + k + 0
      BY <1>1
    <2>6. QED BY <1>1, <2>2, <2>3, <2>4, <2>5
  <1>6. CASE SinkEdgeOnStrobe
    <2>1. k = 0 /\ count = c /\ count' = Next1(c) /\ captured' = Gray(c) /\ strobed' = TRUE
      BY <1>1, <1>6 DEF SinkEdgeOnStrobe, Further
    <2>2. meta' = Gray(c) \/ meta' = Gray(Next1(c))
      BY <1>1, <1>6, <2>1, SampledIs DEF SinkEdgeOnStrobe
    <2>3. CASE meta' = Gray(c)
      <3>1. Lags(Further(x, l), c, 0, 1)'
        BY <1>1, <1>2, <2>1, <2>3 DEF Lags, Further
      <3>2. l + 0 + 1 = l + k + 1 /\ count' # count
        BY <1>1, <1>3, <2>1
      <3>3. QED BY <1>1, <3>1, <3>2
    <2>4. CASE meta' = Gray(Next1(c))
      <3>1. Lags(Further(x, l), Next1(c), 1, 0)'
        BY <1>1, <1>2, <2>1, <2>4 DEF Lags, Further
      <3>2. l + 1 + 0 = l + k + 1 /\ count' # count
        BY <1>1, <1>3, <2>1
      <3>3. QED BY <1>1, <1>2, <3>1, <3>2
    <2>5. QED BY <2>2, <2>3, <2>4
  <1>7. QED BY <1>4, <1>5, <1>6 DEF Next

\* While a reply's digits are sent, the count is n more than the one at the
\* first digit, n less than a round, and the digits so far tell of a carry only
\* if there was one.
Torn(x, c, l, k, n, f, m) ==
  /\ Lags(x, c, l, k)
  /\ n \in Nat /\ f \in BOOLEAN /\ On(reply.began, x, n, f)
  /\ n + l + k <= Pace * (reply.digits - 1) + passed + 2
  /\ m \in 1 .. reply.digits /\ (m < reply.digits => f)
  /\ Content(reply.began, reply.count, m, reply.digits)
Question == [of : Nat, kind : Packets]
Sending == /\ question \in Question /\ slot \in Question
           /\ reply \in [of : Nat, kind : Packets, began : Word, count : SUBSET Int, digits : 0 .. Digits]
           /\ passed \in 0 .. Pace
           /\ reply.digits = 0 => reply.count = {}
           /\ reply.kind # "status" => reply.digits = 0
           /\ reply.digits \in 1 .. Digits - 1 => \E x, c, l, k, n, f, m : Torn(x, c, l, k, n, f, m)
           /\ TornByOneCarry

LEMMA InitSends == StatusInit => Sending
  <1> SUFFICES ASSUME StatusInit PROVE Sending
    OBVIOUS
  <1>1. {} \in Word /\ {} \in SUBSET Int
    BY DEF Word
  <1>2. question \in Question /\ slot \in Question
    BY DEF StatusInit, Nothing, Question, Packets
  <1>3. reply \in [of : Nat, kind : Packets, began : Word, count : SUBSET Int, digits : 0 .. Digits]
        /\ reply.kind = "ping" /\ reply.digits = 0 /\ reply.count = {}
    BY <1>1, Digit DEF StatusInit, None, Packets
  <1>4. passed \in 0 .. Pace
    BY Digit DEF StatusInit
  <1>5. QED BY <1>2, <1>3, <1>4, Digit DEF Sending, TornByOneCarry

\* What is between the flops is not touched by what the host and the board do.
LEMMA LagsStay ==
  ASSUME NEW x, NEW c, NEW l, NEW k, Lags(x, c, l, k), UNCHANGED vars
  PROVE  Lags(x, c, l, k)'
  BY DEF Lags, vars

LEMMA FirstDigit ==
  ASSUME NEW x \in Word
  PROVE  /\ On(x, x, 0, FALSE)
         /\ Content(x, {} \union {i \in x : i \in DigitBits * 0 .. DigitBits * (0 + 1) - 1}, 1, 1)
  <1>1. x \subseteq Nat /\ DigitBits * 0 = 0 /\ DigitBits * (0 + 1) = DigitBits /\ DigitBits * 1 = DigitBits
    BY Width, Digit DEF Word, Index
  <1>2. value[Low(x)] \in Int
    BY OneMore, ValueIs
  <1>3. {i \in x : i \in 0 .. DigitBits - 1} = {i \in x : i < DigitBits}
    <2>1. \A i \in Nat : i \in 0 .. DigitBits - 1 <=> i < DigitBits
      BY Digit
    <2>2. QED BY <1>1, <2>1
  <1>4. \A i \in Int : ~(DigitBits <= i /\ i < DigitBits)
    BY Digit
  <1>5. AheadBy(x, DigitBits) \subseteq Int
    <2>1. Index \subseteq Int /\ x \subseteq Index
      BY Width DEF Index, Word
    <2>2. AheadBy(x, DigitBits) \subseteq Index
      BY <2>1 DEF AheadBy, Xor
    <2>3. QED BY <2>1, <2>2
  <1>6. {i \in AheadBy(x, DigitBits) : DigitBits <= i /\ i < DigitBits} = {}
    BY <1>4, <1>5
  <1>7. Content(x, {i \in x : i \in 0 .. DigitBits - 1}, 1, 1)
    BY <1>1, <1>3, <1>6 DEF Content
  <1>8. On(x, x, 0, FALSE)
    BY <1>2 DEF On
  <1>9. {} \union {i \in x : i \in DigitBits * 0 .. DigitBits * (0 + 1) - 1}
          = {i \in x : i \in 0 .. DigitBits - 1}
    BY <1>1
  <1>10. QED BY <1>7, <1>8, <1>9

LEMMA DigitSends == ASSUME Sending, Counted, SendDigit PROVE Sending'
  <1> DEFINE d == reply.digits
             sent == {i \in synced : i \in DigitBits * d .. DigitBits * (d + 1) - 1}
             more == reply.count \union sent
             b == IF d = 0 THEN synced ELSE reply.began
  <1>1. /\ reply.kind = "status" /\ d \in 0 .. Digits - 1 /\ d + 1 \in 1 .. Digits /\ d \in Int
        /\ UNCHANGED <<vars, question, slot>> /\ passed' = 0
    BY Digit DEF Sending, SendDigit, host
  <1>2. reply' = [reply EXCEPT !.digits = d + 1, !.began = b, !.count = more]
    BY DEF SendDigit, InDigit
  <1>3. /\ reply \in [of : Nat, kind : Packets, began : Word, count : SUBSET Int, digits : 0 .. Digits]
        /\ reply.count \in SUBSET Int /\ Pace \in Nat
    BY Digit DEF Sending
  <1>4. \A x, c, l, k : Lags(x, c, l, k) => synced = x /\ x \in Word /\ l + k <= 2 /\ l + k \in Nat
    BY DecodeGray DEF Lags, synced
  <1>5. synced \in Word /\ sent \in SUBSET Int
    <2>1. synced \in Word
      BY <1>4, LagsExist
    <2>2. synced \subseteq Int
      BY <2>1, Width DEF Word, Index
    <2>3. QED BY <2>1, <2>2
  <1>6. reply'.began = b /\ reply'.count = more /\ reply'.digits = d + 1
        /\ reply' \in [of : Nat, kind : Packets, began : Word, count : SUBSET Int, digits : 0 .. Digits]
        /\ reply'.kind = "status"
    <2>1. b \in Word /\ more \in SUBSET Int /\ d + 1 \in 0 .. Digits
      BY <1>1, <1>3, <1>5
    <2> HIDE DEF b, more, d
    <2>2. QED BY <1>1, <1>2, <1>3, <2>1
  <1>7. \E x, c, l, k, n, f, m : Torn(x, c, l, k, n, f, m)'
    <2>1. CASE d = 0
      <3>1. PICK x, c, l, k : Lags(x, c, l, k)
        BY LagsExist
      <3>2. synced = x /\ x \in Word /\ l + k <= 2 /\ l + k \in Nat /\ l \in Int /\ k \in Int
        BY <1>4, <3>1 DEF Lags
      <3>3. reply.count = {}
        BY <2>1 DEF Sending
      <3>4. On(reply'.began, x, 0, FALSE) /\ Content(reply'.began, reply'.count, 1, 1)
        BY <1>6, <2>1, <3>2, <3>3, FirstDigit
      <3>5. 0 + l + k <= Pace * (1 - 1) + 0 + 2
        BY <1>3, <3>2
      <3>6. reply'.digits = 1
        BY <1>6, <2>1
      <3>7. Lags(x, c, l, k)'
        BY <1>1, <3>1, LagsStay
      <3>8. 0 \in Nat /\ FALSE \in BOOLEAN /\ 1 \in 1 .. 1 /\ ~(1 < 1)
        OBVIOUS
      <3> HIDE DEF d, b, more, sent
      <3>9. Torn(x, c, l, k, 0, FALSE, 1)'
        BY <1>1, <3>4, <3>5, <3>6, <3>7, <3>8 DEF Torn
      <3>10. QED BY <3>9
    <2>2. CASE d # 0
      <3>1. d \in 1 .. Digits - 1
        BY <1>1, <2>2
      <3>2. PICK x, c, l, k, n, f, m : Torn(x, c, l, k, n, f, m)
        BY <3>1 DEF Sending
      <3>3. /\ Lags(x, c, l, k) /\ n \in Nat /\ f \in BOOLEAN /\ On(reply.began, x, n, f)
            /\ n + l + k <= Pace * (d - 1) + passed + 2
            /\ m \in 1 .. d /\ (m < d => f) /\ Content(reply.began, reply.count, m, d)
        BY <3>2 DEF Torn
      <3>4. synced = x /\ x \in Word /\ l \in Int /\ k \in Int
        BY <1>4, <3>3 DEF Lags
      <3>5. b = reply.began /\ reply.began \in Word
        BY <1>3, <2>2
      <3>6. PICK i \in 1 .. d + 1 : Content(b, more, i, d + 1) /\ (i < d + 1 => f)
        <4>1. more = reply.count \union {i \in x : i \in DigitBits * d .. DigitBits * (d + 1) - 1}
          BY <3>4
        <4> HIDE DEF d, more, b
        <4>2. \E i \in 1 .. d + 1 :
                 /\ Content(reply.began,
                            reply.count \union {j \in x : j \in DigitBits * d .. DigitBits * (d + 1) - 1},
                            i, d + 1)
                 /\ i < d + 1 => f
          BY <3>1, <3>3, <3>4, <3>5, NextDigit, Zenon
        <4>3. QED BY <3>5, <4>1, <4>2
      <3>7. n + l + k <= Pace * (d + 1 - 1) + 0 + 2
        <4>1. Pace * (d + 1 - 1) = Pace * (d - 1) + Pace /\ Pace * (d - 1) \in Int
          BY <1>1, <1>3
        <4>2. passed \in Nat /\ passed <= Pace
          BY <1>3 DEF Sending
        <4>3. QED BY <1>1, <1>3, <3>3, <3>4, <4>1, <4>2
      <3>8. Lags(x, c, l, k)'
        BY <1>1, <3>3, LagsStay
      <3> HIDE DEF d, b, more, sent
      <3>9. Torn(x, c, l, k, n, f, i)'
        BY <1>1, <1>6, <3>3, <3>5, <3>6, <3>7, <3>8 DEF Torn
      <3>10. QED BY <3>9
    <2>3. QED BY <2>1, <2>2
  <1>8. TornByOneCarry'
    <2>1. SUFFICES ASSUME reply'.digits = Digits
                   PROVE  reply'.count \in {reply'.began}
                            \union {AheadBy(reply'.began, DigitBits * i) : i \in 1 .. Digits - 1}
      BY DEF TornByOneCarry
    <2>2. PICK x, c, l, k, n, f, m : Torn(x, c, l, k, n, f, m)'
      BY <1>7
    <2>3. m \in 1 .. Digits /\ Content(reply'.began, reply'.count, m, Digits) /\ reply'.began \in Word
      BY <1>6, <2>1, <2>2 DEF Torn
    <2>4. QED BY <2>3, AllDigits
  <1> HIDE DEF d, b, more, sent
  <1>9. reply'.digits # 0
    BY <1>1, <1>6
  <1>10. passed' \in 0 .. Pace /\ question' \in Question /\ slot' \in Question
    BY <1>1, <1>3 DEF Sending
  <1>11. QED BY <1>6, <1>7, <1>8, <1>9, <1>10 DEF Sending

\* What the count is ahead by is bounded by what has passed, as it was.
LEMMA Totals ==
  ASSUME NEW n \in Nat, NEW e \in Nat, NEW p \in Nat, NEW q \in Nat, NEW t \in Nat,
         NEW l \in {0, 1}, NEW k \in {0, 1}, NEW y \in {0, 1}, NEW j \in {0, 1}, NEW h \in {0, 1},
         NEW z \in {0, 1}, y + j + h = l + k + z,
         n + l + k <= e + p + 2, p + z <= q, e + q + 2 <= t
  PROVE  (n + y) + j + h <= e + q + 2 /\ (y = 1 => n < t)
  <1>1. n + (l + k + z) <= e + q + 2
    OBVIOUS
  <1>2. n + (y + j + h) <= e + q + 2
    BY <1>1
  <1>3. QED BY <1>2

LEMMA RunSends == ASSUME Sending, Counted, Runs PROVE Sending'
  <1>1. /\ Next /\ UNCHANGED <<question, slot, reply>>
        /\ passed' \in {passed, passed + 1} /\ passed' <= Pace /\ passed' \in 0 .. Pace
        /\ reply.digits \in 1 .. Digits - 1 /\ count' # count => passed' = passed + 1
    BY DEF Runs, host, Sending
  <1>2. ASSUME reply.digits \in 1 .. Digits - 1
        PROVE  \E x, c, l, k, n, f, m : Torn(x, c, l, k, n, f, m)'
    <2>1. PICK x, c, l, k, n, f, m : Torn(x, c, l, k, n, f, m)
      BY <1>2 DEF Sending
    <2>2. PICK d \in Word, j \in {0, 1}, h \in {0, 1}, y \in {0, 1}, z \in {0, 1} :
             /\ Lags(Further(x, y), d, j, h)'
             /\ y + j + h = l + k + z
             /\ z = 1 => count' # count
      BY <1>1, <2>1, LagSteps DEF Torn
    <2>3. /\ n \in Nat /\ f \in BOOLEAN /\ l \in {0, 1} /\ k \in {0, 1} /\ x \in Word
          /\ reply.began \in Word /\ passed \in Nat /\ passed' \in Nat /\ passed' <= Pace /\ Pace \in Nat
          /\ On(reply.began, x, n, f)
      BY <1>1, <2>1, Digit DEF Torn, Lags, Sending
    <2>4. PICK e \in Nat : /\ e = Pace * (reply.digits - 1)
                           /\ e + Pace + 2 <= Round /\ n + l + k <= e + passed + 2
      <3>1. Pace * ((reply.digits - 1) + 1) = Pace * (reply.digits - 1) + Pace
        BY <1>2, Digit
      <3>2. Pace * ((reply.digits - 1) + 1) <= Pace * (Digits - 1)
        BY <1>2, Digit
      <3>3. Pace * (Digits - 1) + 2 <= Round
        BY StatusAssumption DEF Round
      <3>4. Pace * (reply.digits - 1) \in Nat /\ Pace * (Digits - 1) \in Nat
        BY <1>2, Digit
      <3>5. QED BY <2>1, <3>1, <3>2, <3>3, <3>4, ValueIs, Digit DEF Torn
    <2>5. passed + z <= passed'
      BY <1>1, <1>2, <2>2, <2>3
    <2>6. /\ y \in {0, 1} /\ j \in {0, 1} /\ h \in {0, 1} /\ z \in {0, 1}
          /\ y + j + h = l + k + z
      BY <2>2
    <2>7. (n + y) + j + h <= e + passed' + 2 /\ (y = 1 => n < Round)
      <3>1. Round \in Nat /\ e + passed' + 2 <= Round
        BY <2>3, <2>4, ValueIs
      <3>2. QED BY <2>3, <2>4, <2>5, <2>6, <3>1, Totals
    <2>8. PICK g \in BOOLEAN : On(reply.began, Further(x, y), n + y, g) /\ (f => g)
      <3>1. CASE y = 0
        BY <2>3, <3>1 DEF Further
      <3>2. CASE y = 1
        BY <2>3, <2>7, <3>2, OnGoes DEF Further
      <3>3. QED BY <2>2, <3>1, <3>2
    <2>9. reply' = reply
      BY <1>1
    <2>10. n + y \in Nat /\ (n + y) + j + h <= (Pace * (reply.digits - 1))' + passed' + 2
      BY <2>3, <2>4, <2>6, <2>7, <2>9
    <2>11. /\ m \in 1 .. reply.digits /\ (m < reply.digits => f)
           /\ Content(reply.began, reply.count, m, reply.digits)
      BY <2>1 DEF Torn
    <2>12. Torn(Further(x, y), d, j, h, n + y, g, m)'
      BY <2>2, <2>8, <2>9, <2>10, <2>11 DEF Torn
    <2>13. QED BY <2>12
  <1>3. QED BY <1>1, <1>2 DEF Sending, TornByOneCarry

LEMMA OtherSends ==
  ASSUME Sending, \/ \E kind \in Packets : Ask(kind)
                \/ Receive \/ TimeOut \/ Begin \/ Sent \/ UNCHANGED statusVars
  PROVE  Sending'
  <1>1. /\ question \in Question /\ slot \in Question /\ passed \in 0 .. Pace
        /\ reply \in [of : Nat, kind : Packets, began : Word, count : SUBSET Int, digits : 0 .. Digits]
    BY DEF Sending
  <1>2. UNCHANGED <<vars, passed>>
    BY DEF Ask, Asks, Receive, TimeOut, Begin, Sent, statusVars, board
  <1>3. question' \in Question /\ slot' \in Question
    <2>1. ASSUME NEW kind \in Packets, Ask(kind) PROVE question' \in Question /\ slot' \in Question
      BY <1>1, <2>1 DEF Ask, Asks, Question
    <2>2. Nothing \in Question
      BY DEF Nothing, Question, Packets
    <2>3. QED BY <1>1, <2>1, <2>2 DEF Receive, TimeOut, Begin, Sent, statusVars, host, board
  <1>4. CASE reply' = reply
    <2>1. ASSUME NEW x, NEW c, NEW l, NEW k, NEW n, NEW f, NEW m, Torn(x, c, l, k, n, f, m)
          PROVE  Torn(x, c, l, k, n, f, m)'
      <3>1. Lags(x, c, l, k)'
        BY <1>2, <2>1, LagsStay DEF Torn
      <3>2. QED BY <1>2, <1>4, <2>1, <3>1 DEF Torn
    <2>2. reply.digits \in 1 .. Digits - 1 => \E x, c, l, k, n, f, m : Torn(x, c, l, k, n, f, m)'
      BY <2>1 DEF Sending
    <2>3. QED BY <1>1, <1>2, <1>3, <1>4, <2>2 DEF Sending, TornByOneCarry
  <1>5. CASE reply' # reply
    <2>1. /\ reply' \in [of : Nat, kind : Packets, began : Word, count : SUBSET Int, digits : 0 .. Digits]
          /\ reply'.digits = 0 /\ reply'.count = {}
      <3>1. /\ None \in [of : Nat, kind : Packets, began : Word, count : SUBSET Int, digits : 0 .. Digits]
            /\ None.digits = 0 /\ None.count = {}
        BY Digit DEF None, Packets, Word
      <3>2. CASE Begin
        BY <1>1, <3>1, <3>2 DEF Begin, Question, None
      <3>3. CASE Sent
        BY <3>1, <3>3 DEF Sent
      <3>4. QED BY <1>5, <3>2, <3>3 DEF Ask, Asks, Receive, TimeOut, statusVars, board
    <2>2. QED BY <1>1, <1>2, <1>3, <2>1, Digit DEF Sending, TornByOneCarry
  <1>6. QED BY <1>4, <1>5

LEMMA NextSends == ASSUME Sending, Counted, [StatusNext]_statusVars PROVE Sending'
  BY DigitSends, RunSends, OtherSends DEF StatusNext

\* A reply holds the count at its first digit, or one ahead of it by exactly one
\* carry between digits (control.py 202-220).
THEOREM AlwaysTornByOneCarry == StatusSpec => []TornByOneCarry
  <1>1. Sending => TornByOneCarry
    BY DEF Sending
  <1>2. StatusSpec => []Sending
    BY InitSends, NextSends, CountedAlways, PTL DEF StatusSpec
  <1>3. QED BY <1>1, <1>2, PTL

-----------------------------------------------------------------------------
\* The serial line.
LEMMA Sizes == /\ DataBits \in Nat /\ DataBits > 0
               /\ Divisor \in Nat /\ Divisor >= 4 /\ Slack \in Nat /\ 4 * Slack <= Divisor
               /\ half \in Nat /\ 2 * half <= Divisor /\ Divisor <= 2 * half + 1 /\ half >= 2
  BY UartAssumption DEF half

\* What is left of a byte after each of its bits.
Quotients(q, byte, n) == /\ q \in [0 .. n -> Nat] /\ q[0] = byte
                         /\ \A i \in 0 .. n - 1 : q[i + 1] = q[i] \div 2
Parts(byte) == CHOOSE q : Quotients(q, byte, DataBits)

LEMMA QuotientsExist ==
  ASSUME NEW byte \in Nat, NEW n \in Nat
  PROVE  \E q : Quotients(q, byte, n)
  <1> DEFINE T == {k \in Nat : ~ \E q : Quotients(q, byte, k)}
  <1> SUFFICES ASSUME n \in T PROVE FALSE
    OBVIOUS
  <1>1. PICK k \in T : \A j \in T : k <= j
    <2>1. T \subseteq Nat /\ T # {}
      OBVIOUS
    <2>2. QED BY <2>1, LeastExists
  <1>2. CASE k = 0
    <2> DEFINE q == [i \in 0 .. 0 |-> byte]
    <2>1. Quotients(q, byte, 0)
      BY DEF Quotients
    <2>2. QED BY <1>2, <2>1
  <1>3. CASE k # 0
    <2>1. k \in Nat /\ k - 1 \in Nat /\ k - 1 \notin T
      BY <1>1, <1>3
    <2>2. PICK q : Quotients(q, byte, k - 1)
      BY <2>1
    <2> DEFINE r == [i \in 0 .. k |-> IF i = k THEN q[k - 1] \div 2 ELSE q[i]]
    <2>3. Quotients(r, byte, k)
      <3>1. q[k - 1] \div 2 \in Nat
        BY <2>1, <2>2 DEF Quotients
      <3>2. r \in [0 .. k -> Nat]
        BY <2>1, <2>2, <3>1 DEF Quotients
      <3>3. r[0] = byte
        BY <1>3, <2>1, <2>2 DEF Quotients
      <3>4. ASSUME NEW i \in 0 .. k - 1 PROVE r[i + 1] = r[i] \div 2
        <4>1. i \in 0 .. k /\ i + 1 \in 0 .. k /\ i # k /\ (i + 1 = k <=> i = k - 1)
          BY <2>1
        <4>2. CASE i = k - 1
          BY <2>1, <4>1, <4>2
        <4>3. CASE i # k - 1
          <5>1. i \in 0 .. (k - 1) - 1
            BY <2>1, <4>3
          <5>2. q[i + 1] = q[i] \div 2
            BY <2>2, <5>1 DEF Quotients
          <5>3. QED BY <4>1, <4>3, <5>2
        <4>4. QED BY <4>2, <4>3
      <3>5. QED BY <3>2, <3>3, <3>4 DEF Quotients
    <2>4. QED BY <1>1, <2>3
  <1>4. QED BY <1>2, <1>3

LEMMA PartsAre ==
  ASSUME NEW byte \in Nat
  PROVE  /\ Parts(byte) \in [0 .. DataBits -> Nat] /\ Parts(byte)[0] = byte
         /\ \A i \in 0 .. DataBits - 1 : Parts(byte)[i + 1] = Parts(byte)[i] \div 2
  <1>1. Quotients(Parts(byte), byte, DataBits)
    BY Sizes, QuotientsExist DEF Parts
  <1>2. QED BY <1>1 DEF Quotients

-----------------------------------------------------------------------------
\* The line while bit i of a byte is on it: a start bit, the data and a stop bit.
Bit(byte, i) == IF i = 0 THEN 0 ELSE IF i <= DataBits THEN Parts(byte)[i - 1] % 2 ELSE 1

\* Which bit a machine is at; `counter` cycles are left of it.
Place(u) == CASE u.state = "start" -> 0 [] u.state = "data" -> u.bit + 1 [] OTHER -> DataBits + 1
Onward(u, w) == /\ w.state # "idle"
                /\ \/ u.counter > 0 /\ w.counter = u.counter - 1 /\ Place(w) = Place(u)
                   \/ u.counter = 0 /\ w.counter = Divisor - 1 /\ Place(w) = Place(u) + 1
Over(u, w) == u.state = "stop" /\ u.counter = 0 /\ w.state = "idle"

States == {"idle", "start", "data", "stop"}
Wire == {0, 1}
Transmitters == [state : States, counter : 0 .. Divisor - 1, bit : 0 .. DataBits - 1, shift : Nat]
Receivers == [state : States, counter : 0 .. Divisor - 1, bit : 0 .. DataBits - 1, shift : Nat,
              sync : Wire \X Wire]
Machines == /\ tx \in Transmitters
            /\ rx \in Receivers
            /\ stb \in BOOLEAN /\ calm \in 0 .. Divisor /\ skew \in -Slack .. Slack

\* What is in the shift registers of a byte on its way.
Saying(byte) == /\ tx.state # "idle"
                /\ tx.state = "start" => tx.shift = byte
                /\ tx.state = "data" => tx.shift = Parts(byte)[tx.bit]
Collected(byte) == /\ rx.state # "idle"
                   /\ rx.state = "data" => rx.shift + Parts(byte)[rx.bit] * 2^rx.bit = byte
                   /\ rx.state = "stop" => rx.shift = byte

\* The transmitter, o cycles into bit i, and the receiver, r cycles before it
\* samples bit j: two cycles of synchroniser apart, and k of skew.
Aligned(i, o, j, r, k) == \/ i = j /\ o = half - r + 2 + k
                          \/ i = j + 1 /\ o + Divisor = half - r + 2 + k
                          \/ i = j - 1 /\ o - Divisor = half - r + 2 + k

\* A level that was on the line x cycles after the beginning of bit j.
Seen(v, byte, j, x) == /\ x \in 0 .. Divisor - 1 => v = Bit(byte, j)
                       /\ x >= Divisor => v = Bit(byte, j + 1)
InStep(byte) ==
  /\ Saying(byte) /\ Collected(byte) /\ calm = 0 /\ ~stb /\ flying = <<byte>>
  /\ Aligned(Place(tx), Divisor - 1 - tx.counter, Place(rx), rx.counter, skew)
  /\ \E s \in -Slack .. Slack : Seen(rx.sync[1], byte, Place(rx), half - rx.counter + 1 + s)
  /\ \E s \in -Slack .. Slack : Seen(rx.sync[2], byte, Place(rx), half - rx.counter + s)

\* The history, but for a byte handed on in the last cycle.
Left == flying = IF stb THEN <<data>> ELSE << >>
LeftAnd(byte) == flying = IF stb THEN <<data, byte>> ELSE <<byte>>

\* The other moments: nothing on the line, or noise; a start bit not seen yet;
\* a stop bit sampled before the transmitter has done with it, or after.
Quiet == tx.state = "idle" /\ rx.state = "idle" /\ rx.sync = <<1, 1>> /\ Left
Noisy == /\ tx.state = "idle" /\ ~stb /\ flying = << >>
         /\ \/ rx.state = "idle" /\ rx.sync = <<0, 1>> /\ calm = Divisor
            \/ rx.state = "idle" /\ rx.sync = <<1, 0>> /\ calm = Divisor - 1
            \/ rx.state = "start" /\ rx.sync = <<1, 1>> /\ calm = rx.counter + Divisor - 1 - half
Unseen(byte) == /\ tx.state = "start" /\ tx.shift = byte /\ rx.state = "idle"
                /\ calm = 0 /\ skew = 0 /\ LeftAnd(byte)
                /\ \/ tx.counter = Divisor - 1 /\ rx.sync = <<1, 1>>
                   \/ tx.counter = Divisor - 2 /\ rx.sync = <<0, 1>>
                   \/ tx.counter = Divisor - 3 /\ rx.sync = <<0, 0>> /\ ~stb
Ending == tx.state = "stop" /\ rx.state = "idle" /\ rx.sync = <<1, 1>> /\ calm = 0 /\ Left
Tail1(byte) == /\ rx.state = "stop" /\ rx.shift = byte /\ rx.sync = <<1, 1>> /\ calm = 0 /\ ~stb
Tailing(byte) == Tail1(byte) /\ tx.state = "idle" /\ rx.counter <= 1 /\ flying = <<byte>>
Overlap(byte, next) == /\ Tail1(byte) /\ rx.counter = 0
                       /\ tx.state = "start" /\ tx.shift = next /\ tx.counter = Divisor - 1 /\ skew = 0
                       /\ flying = <<byte, next>>

Conveys == /\ Machines
           /\ \/ Quiet \/ Noisy \/ Ending
              \/ \E byte \in Bytes : \/ InStep(byte) \/ Unseen(byte) \/ Tailing(byte)
                                     \/ \E next \in Bytes : Overlap(byte, next)

-----------------------------------------------------------------------------
\* Alignment is kept by both machines moving on and by either alone, when the
\* skew changes with it.  Here c and d are the counters before and after.
Step(i, c, i2, c2) == \/ c > 0 /\ c2 = c - 1 /\ i2 = i
                      \/ c = 0 /\ c2 = Divisor - 1 /\ i2 = i + 1

LEMMA BothGo ==
  ASSUME NEW i \in Nat, NEW c \in 0 .. Divisor - 1, NEW j \in Nat, NEW r \in 0 .. Divisor - 1,
         NEW k \in -Slack .. Slack, Aligned(i, Divisor - 1 - c, j, r, k),
         NEW i2, NEW c2, NEW j2, NEW r2, Step(i, c, i2, c2), Step(j, r, j2, r2)
  PROVE  Aligned(i2, Divisor - 1 - c2, j2, r2, k)
  BY Sizes DEF Aligned, Step

LEMMA TxGoes ==
  ASSUME NEW i \in Nat, NEW j \in Nat, NEW r \in 0 .. Divisor - 1,
         NEW k \in -Slack .. Slack - 1, Aligned(i, Divisor - 1, j, r, k)
  PROVE  Aligned(i + 1, 0, j, r, k + 1)
  BY Sizes DEF Aligned

LEMMA RxGoes ==
  ASSUME NEW i \in Nat, NEW c \in 0 .. Divisor - 1, NEW j \in Nat, NEW r \in 0 .. Divisor - 1,
         NEW k \in 1 - Slack .. Slack, Aligned(i, Divisor - 1 - c, j, r, k),
         NEW j2, NEW r2, Step(j, r, j2, r2)
  PROVE  Aligned(i, Divisor - 1 - c, j2, r2, k - 1)
  BY Sizes DEF Aligned, Step

\* What is in the synchroniser moves on with the receiver.
LEMMA SeenGoes ==
  ASSUME NEW v, NEW byte, NEW j \in Nat, NEW r \in 0 .. Divisor - 1, NEW s \in -Slack .. Slack,
         Seen(v, byte, j, half - r + 1 + s), NEW j2, NEW r2, Step(j, r, j2, r2)
  PROVE  Seen(v, byte, j2, half - r2 + s)
  BY Sizes DEF Seen, Step

LEMMA SeenNow ==
  ASSUME NEW byte, NEW i \in Nat, NEW c \in 0 .. Divisor - 1, NEW j \in Nat, NEW r \in 0 .. Divisor - 1,
         NEW k \in -Slack .. Slack, Aligned(i, Divisor - 1 - c, j, r, k),
         NEW j2, NEW r2, Step(j, r, j2, r2)
  PROVE  Seen(Bit(byte, i), byte, j2, half - r2 + 1 + k)
  BY Sizes DEF Seen, Step, Aligned

\* In the middle of a bit it is that bit.
LEMMA SeenInTheMiddle ==
  ASSUME NEW v, NEW byte, NEW j \in Nat, NEW s \in -Slack .. Slack, Seen(v, byte, j, half - 0 + s)
  PROVE  v = Bit(byte, j)
  BY Sizes DEF Seen

-----------------------------------------------------------------------------
LEMMA Powers ==
  ASSUME NEW k \in Nat
  PROVE  2^0 = 1 /\ 2^k \in Nat /\ 2^k > 0 /\ 2^(k + 1) = 2 * 2^k
  <1>1. ASSUME NEW n \in Nat PROVE Range2(n) = 2^n
    <2>1. IsFiniteSet(Ones(n)) /\ Cardinality(Ones(n)) = n
      BY FS_Interval DEF Ones
    <2>2. QED BY <2>1, FS_SUBSET DEF Range2
  <1>2. Range2(0) = 1 /\ Range2(k) \in Nat /\ Range2(k + 1) = 2 * Range2(k)
    BY RangeDoubles
  <1>3. Range2(k) > 0
    <2>1. Cardinality(SUBSET Ones(k)) # 0
      <3>1. IsFiniteSet(SUBSET Ones(k)) /\ SUBSET Ones(k) # {}
        <4>1. IsFiniteSet(Ones(k))
          BY FS_Interval DEF Ones
        <4>2. {} \in SUBSET Ones(k)
          OBVIOUS
        <4>3. QED BY <4>1, <4>2, FS_SUBSET
      <3>2. QED BY <3>1, FS_EmptySet
    <2>2. QED BY <1>2, <2>1 DEF Range2
  <1>4. 2^0 = 1 /\ 2^k = Range2(k) /\ 2^(k + 1) = Range2(k + 1)
    BY <1>1, <1>2
  <1>5. QED BY <1>2, <1>3, <1>4

\* One more bit of what is collected.
LEMMA OneBit ==
  ASSUME NEW byte \in Nat, NEW i \in 0 .. DataBits - 1, NEW shift \in Nat,
         shift + Parts(byte)[i] * 2^i = byte
  PROVE  /\ shift + 2^i * (Parts(byte)[i] % 2) \in Nat
         /\ shift + 2^i * (Parts(byte)[i] % 2) + Parts(byte)[i + 1] * 2^(i + 1) = byte
  <1>1. PICK q \in Nat : q = Parts(byte)[i]
    <2>1. i \in 0 .. DataBits
      BY Sizes
    <2>2. QED BY <2>1, PartsAre
  <1>2. Parts(byte)[i + 1] = q \div 2
    BY <1>1, PartsAre
  <1>3. PICK h \in Nat, m \in {0, 1} : q = 2 * h + m /\ h = q \div 2 /\ m = q % 2
    OBVIOUS
  <1>4. PICK p \in Nat : p = 2^i /\ 2^(i + 1) = 2 * p
    BY Powers
  <1>5. q * p = (2 * h) * p + m * p /\ (2 * h) * p = h * (2 * p) /\ m * p = p * m
    BY <1>3
  <1>6. p * m \in Nat /\ h * (2 * p) \in Nat /\ q * p \in Nat
    BY <1>3
  <1>7. shift + q * p = byte
    BY <1>1, <1>4
  <1>8. shift + p * m + h * (2 * p) = byte
    BY <1>5, <1>6, <1>7
  <1>9. QED BY <1>1, <1>2, <1>3, <1>4, <1>6, <1>8

\* After the last bit, there is nothing left.
LEMMA AllBits ==
  ASSUME NEW byte \in Bytes, NEW shift \in Nat, shift + Parts(byte)[DataBits] * 2^DataBits = byte
  PROVE  shift = byte
  <1>1. PICK p \in Nat : p = 2^DataBits /\ p > 0
    BY Powers, Sizes
  <1>2. byte \in Nat /\ byte < p
    BY <1>1 DEF Bytes
  <1>3. PICK q \in Nat : q = Parts(byte)[DataBits]
    <2>1. DataBits \in 0 .. DataBits
      BY Sizes
    <2>2. QED BY <1>2, <2>1, PartsAre
  <1>4. shift + q * p = byte
    BY <1>1, <1>3
  <1>5. CASE q = 0
    BY <1>1, <1>2, <1>4, <1>5
  <1>6. CASE q # 0
    <2>1. q * p = p + (q - 1) * p /\ (q - 1) * p \in Nat
      BY <1>1, <1>6
    <2>2. QED BY <1>1, <1>2, <1>4, <2>1
  <1>7. QED BY <1>5, <1>6

LEMMA Placed ==
  ASSUME Machines
  PROVE  /\ Place(tx) \in 0 .. DataBits + 1 /\ Place(rx) \in 0 .. DataBits + 1
         /\ tx.counter \in 0 .. Divisor - 1 /\ rx.counter \in 0 .. Divisor - 1
  BY Sizes DEF Machines, Place, Transmitters, Receivers

LEMMA LineIs ==
  ASSUME Machines, NEW byte \in Nat, Saying(byte)
  PROVE  Line = Bit(byte, Place(tx)) /\ Line \in Wire
  <1>1. tx.bit \in 0 .. DataBits - 1 /\ tx.state \in States /\ tx.shift \in Nat
    BY DEF Machines, Transmitters, Receivers
  <1>2. CASE tx.state = "start"
    BY <1>2 DEF Line, Bit, Place, Wire
  <1>3. CASE tx.state = "data"
    <2>1. tx.shift = Parts(byte)[tx.bit]
      BY <1>3 DEF Saying
    <2>2. Place(tx) = tx.bit + 1 /\ Line = tx.shift % 2
      BY <1>3 DEF Place, Line
    <2>3. tx.bit + 1 # 0 /\ tx.bit + 1 <= DataBits /\ (tx.bit + 1) - 1 = tx.bit
      BY <1>1, Sizes
    <2>4. QED BY <1>1, <2>1, <2>2, <2>3 DEF Bit, Wire
  <1>4. CASE tx.state = "stop"
    BY <1>4, Sizes DEF Line, Bit, Place, Wire
  <1>5. QED BY <1>1, <1>2, <1>3, <1>4 DEF Saying, States, Transmitters, Receivers

\* What a cycle of the transmitter makes of its byte.
LEMMA SendsOn ==
  ASSUME Machines, NEW byte \in Nat, Saying(byte), Sends
  PROVE  /\ tx' \in Transmitters
         /\ (Onward(tx, tx') /\ Saying(byte)') \/ Over(tx, tx')
  <1>1. /\ tx \in Transmitters
        /\ tx.state \in {"start", "data", "stop"}
    BY DEF Machines, Saying, States, Transmitters, Receivers
  <1>2. tx.shift \div 2 \in Nat /\ Divisor - 1 \in 0 .. Divisor - 1 /\ 0 \in 0 .. DataBits - 1
    BY <1>1, Sizes DEF Transmitters
  <1>3. CASE tx.counter > 0
    <2>1. tx' = [tx EXCEPT !.counter = tx.counter - 1]
      BY <1>1, <1>3 DEF Sends, Elapsed, Waits
    <2>2. tx.counter - 1 \in 0 .. Divisor - 1
      BY <1>1, <1>3, Sizes DEF Transmitters
    <2>3. QED BY <1>1, <1>3, <2>1, <2>2 DEF Onward, Place, Saying, States, Transmitters, Receivers
  <1>4. CASE tx.counter = 0 /\ tx.state = "start"
    <2>1. tx' = [tx EXCEPT !.state = "data", !.counter = Divisor - 1, !.bit = 0]
      BY <1>1, <1>4 DEF Sends, Elapsed, Goes
    <2>2. Parts(byte)[0] = byte /\ tx.shift = byte
      BY <1>4, PartsAre DEF Saying
    <2>3. QED BY <1>1, <1>2, <1>4, <2>1, <2>2 DEF Onward, Place, Saying, States, Transmitters, Receivers
  <1>5. CASE tx.counter = 0 /\ tx.state = "data" /\ tx.bit = DataBits - 1
    <2>1. tx' = [tx EXCEPT !.shift = tx.shift \div 2, !.counter = Divisor - 1, !.state = "stop"]
      BY <1>1, <1>5 DEF Sends, Elapsed, LastBit, Shifted1
    <2>2. (DataBits - 1) + 1 + 1 = DataBits + 1
      BY Sizes
    <2>3. QED BY <1>1, <1>2, <1>5, <2>1, <2>2 DEF Onward, Place, Saying, States, Transmitters, Receivers
  <1>6. CASE tx.counter = 0 /\ tx.state = "data" /\ tx.bit # DataBits - 1
    <2>1. tx' = [tx EXCEPT !.shift = tx.shift \div 2, !.counter = Divisor - 1, !.bit = tx.bit + 1]
      BY <1>1, <1>6 DEF Sends, Elapsed, LastBit, Shifted1
    <2>2. tx.bit + 1 \in 0 .. DataBits - 1
      BY <1>1, <1>6, Sizes DEF Transmitters
    <2>3. Parts(byte)[tx.bit + 1] = tx.shift \div 2
      BY <1>1, <1>6, PartsAre DEF Saying, Transmitters
    <2>4. QED BY <1>1, <1>2, <1>6, <2>1, <2>2, <2>3
                 DEF Onward, Place, Saying, States, Transmitters, Receivers
  <1>7. CASE tx.counter = 0 /\ tx.state = "stop"
    <2>1. tx' = [tx EXCEPT !.state = "idle"]
      BY <1>1, <1>7 DEF Sends, Elapsed
    <2>2. QED BY <1>1, <1>7, <2>1 DEF Over, States, Transmitters, Receivers
  <1>8. tx.counter > 0 \/ tx.counter = 0
    BY <1>1, Sizes DEF Transmitters
  <1>9. QED BY <1>1, <1>3, <1>4, <1>5, <1>6, <1>7, <1>8

\* What a cycle of the receiver makes of the byte it is in, if at the samples the
\* level is the bit's.
LEMMA ReceivesOn ==
  ASSUME Machines, NEW byte \in Bytes, Collected(byte), NEW v \in Wire, RxEdge(v),
         rx.counter = 0 => level = Bit(byte, Place(rx))
  PROVE  /\ rx' \in Receivers
         /\ rx'.sync = <<v, rx.sync[1]>>
         /\ \/ Onward(rx, rx') /\ Collected(byte)' /\ ~stb'
            \/ Over(rx, rx') /\ stb' /\ data' = byte
  <1> DEFINE two == <<v, rx.sync[1]>>
  <1>1. /\ rx \in Receivers /\ rx.state \in {"start", "data", "stop"} /\ two \in Wire \X Wire
        /\ byte \in Nat /\ level \in Wire
    <2>1. rx \in Receivers /\ rx.state \in {"start", "data", "stop"}
      BY DEF Machines, Collected, States, Transmitters, Receivers
    <2>2. byte \in Nat
      BY Powers, Sizes DEF Bytes
    <2>3. QED BY <2>1, <2>2 DEF level, Receivers
  <1>2. rx' = [Receives EXCEPT !.sync = two] /\ stb' = GoodStop /\ data' = IF GoodStop THEN rx.shift ELSE data
    BY DEF RxEdge
  <1>3. Divisor - 1 \in 0 .. Divisor - 1 /\ 0 \in 0 .. DataBits - 1 /\ 0 \in Nat
    BY Sizes
  <1>4. CASE rx.counter > 0
    <2>1. Receives = [rx EXCEPT !.counter = rx.counter - 1]
      BY <1>1, <1>4 DEF Receives, Elapsed, Waits
    <2>2. rx.counter - 1 \in 0 .. Divisor - 1
      BY <1>1, <1>4, Sizes DEF Receivers
    <2>3. ~GoodStop
      BY <1>1, <1>4 DEF GoodStop, Elapsed
    <2>4. rx' = [rx EXCEPT !.counter = rx.counter - 1, !.sync = two]
      BY <1>1, <1>2, <2>1
    <2>5. QED BY <1>1, <1>2, <1>4, <2>2, <2>3, <2>4
                 DEF Onward, Place, Collected, States, Transmitters, Receivers
  <1>5. CASE rx.counter = 0 /\ rx.state = "start"
    <2>1. level = 0
      BY <1>5 DEF Place, Bit
    <2>2. Receives = [rx EXCEPT !.state = "data", !.counter = Divisor - 1, !.bit = 0, !.shift = 0]
      BY <1>1, <1>5, <2>1 DEF Receives, Elapsed, Goes
    <2>3. rx' = [rx EXCEPT !.state = "data", !.counter = Divisor - 1, !.bit = 0, !.shift = 0, !.sync = two]
      BY <1>1, <1>2, <2>2
    <2>4. 0 + Parts(byte)[0] * 2^0 = byte
      <3>1. Parts(byte)[0] = byte /\ 2^0 = 1
        BY <1>1, PartsAre, Powers, Sizes
      <3>2. QED BY <1>1, <3>1
    <2>5. ~GoodStop
      BY <1>5 DEF GoodStop
    <2>6. QED BY <1>1, <1>2, <1>3, <1>5, <2>3, <2>4, <2>5
                 DEF Onward, Place, Collected, States, Transmitters, Receivers
  <1>6. CASE rx.counter = 0 /\ rx.state = "data"
    <2> DEFINE more == rx.shift + 2^rx.bit * level
    <2>1. level = Parts(byte)[rx.bit] % 2
      <3>1. Place(rx) = rx.bit + 1
        BY <1>6 DEF Place
      <3>2. rx.bit + 1 # 0 /\ rx.bit + 1 <= DataBits /\ (rx.bit + 1) - 1 = rx.bit
        BY <1>1, Sizes DEF Receivers
      <3>3. QED BY <1>6, <3>1, <3>2 DEF Bit
    <2>2. more \in Nat /\ more + Parts(byte)[rx.bit + 1] * 2^(rx.bit + 1) = byte
      BY <1>1, <1>6, <2>1, OneBit DEF Collected, Receivers
    <2>3. ~GoodStop
      BY <1>6 DEF GoodStop
    <2>4. CASE rx.bit = DataBits - 1
      <3>1. Receives = [rx EXCEPT !.shift = more, !.counter = Divisor - 1, !.state = "stop"]
        BY <1>1, <1>6, <2>4 DEF Receives, Elapsed, LastBit, Taken
      <3>2. rx' = [rx EXCEPT !.shift = more, !.counter = Divisor - 1, !.state = "stop", !.sync = two]
        BY <1>1, <1>2, <3>1
      <3>3. more = byte
        <4>1. rx.bit + 1 = DataBits
          BY <2>4, Sizes
        <4>2. QED BY <2>2, <4>1, AllBits
      <3>4. (DataBits - 1) + 1 + 1 = DataBits + 1
        BY Sizes
      <3> HIDE DEF more
      <3>5. QED BY <1>1, <1>2, <1>3, <1>6, <2>2, <2>3, <2>4, <3>2, <3>3, <3>4
               DEF Onward, Place, Collected, States, Transmitters, Receivers
    <2>5. CASE rx.bit # DataBits - 1
      <3>1. Receives = [rx EXCEPT !.shift = more, !.counter = Divisor - 1, !.bit = rx.bit + 1]
        BY <1>1, <1>6, <2>5 DEF Receives, Elapsed, LastBit, Taken
      <3>2. rx' = [rx EXCEPT !.shift = more, !.counter = Divisor - 1, !.bit = rx.bit + 1, !.sync = two]
        BY <1>1, <1>2, <3>1
      <3>3. rx.bit + 1 \in 0 .. DataBits - 1
        BY <1>1, <2>5, Sizes DEF Receivers
      <3> HIDE DEF more
      <3>4. QED BY <1>1, <1>2, <1>3, <1>6, <2>2, <2>3, <3>2, <3>3
                   DEF Onward, Place, Collected, States, Transmitters, Receivers
    <2>6. QED BY <2>4, <2>5
  <1>7. CASE rx.counter = 0 /\ rx.state = "stop"
    <2>1. level = 1
      BY <1>7, Sizes DEF Place, Bit
    <2>2. Receives = [rx EXCEPT !.state = "idle"]
      BY <1>1, <1>7 DEF Receives, Elapsed
    <2>3. rx' = [rx EXCEPT !.state = "idle", !.sync = two]
      BY <1>1, <1>2, <2>2
    <2>4. GoodStop /\ rx.shift = byte
      BY <1>7, <2>1 DEF GoodStop, Elapsed, Collected
    <2>5. QED BY <1>1, <1>2, <1>7, <2>3, <2>4 DEF Over, States, Transmitters, Receivers
  <1>8. rx.counter > 0 \/ rx.counter = 0
    BY <1>1, Sizes DEF Receivers
  <1>9. QED BY <1>1, <1>4, <1>5, <1>6, <1>7, <1>8

\* Where both are when one of them comes to its end.
LEMMA AtTheEnd ==
  ASSUME NEW i \in 0 .. DataBits + 1, NEW c \in 0 .. Divisor - 1,
         NEW j \in 0 .. DataBits + 1, NEW r \in 0 .. Divisor - 1,
         NEW k \in -Slack .. Slack, Aligned(i, Divisor - 1 - c, j, r, k)
  PROVE  /\ j = DataBits + 1 /\ r = 0 => i = DataBits + 1
         /\ i = DataBits + 1 /\ c = 0 =>
              /\ j = DataBits + 1 /\ r <= 2 /\ (k < Slack => r <= 1)
              /\ \A s \in -Slack .. Slack : half - r + 1 + s >= 0 /\ (k < Slack => half - r + s >= 0)
  BY Sizes DEF Aligned

LEMMA StopSeen ==
  ASSUME NEW v, NEW byte, NEW x \in Nat, Seen(v, byte, DataBits + 1, x)
  PROVE  v = 1
  <1>1. Bit(byte, DataBits + 1) = 1 /\ Bit(byte, DataBits + 1 + 1) = 1
    BY Sizes DEF Bit
  <1>2. QED BY <1>1, Sizes DEF Seen

LEMMA StopPlace ==
  ASSUME Machines
  PROVE  /\ tx.state # "idle" /\ Place(tx) = DataBits + 1 => tx.state = "stop"
         /\ rx.state # "idle" /\ Place(rx) = DataBits + 1 => rx.state = "stop"
         /\ tx.state = "stop" => Place(tx) = DataBits + 1
         /\ rx.state = "stop" => Place(rx) = DataBits + 1
  BY Sizes DEF Machines, Place, States, Transmitters, Receivers

-----------------------------------------------------------------------------
LEMMA Calms ==
  ASSUME Machines, NEW v, RxEdge(v)
  PROVE  /\ stb' \in BOOLEAN /\ calm' \in 0 .. Divisor
         /\ calm = 0 => calm' = 0
         /\ calm > 0 => calm' = calm - 1
  BY Sizes DEF Machines, RxEdge, GoodStop, Transmitters, Receivers

\* An idle receiver.
LEMMA Idles ==
  ASSUME Machines, NEW v \in Wire, RxEdge(v), rx.state = "idle"
  PROVE  /\ rx' \in Receivers
         /\ rx'.sync = <<v, rx.sync[1]>> /\ ~stb'
         /\ level = 1 => rx'.state = "idle"
         /\ level = 0 => rx'.state = "start" /\ rx'.counter = half - 1
  <1> DEFINE two == <<v, rx.sync[1]>>
  <1>1. /\ two \in Wire \X Wire /\ half - 1 \in 0 .. Divisor - 1
        /\ rx \in Receivers
    BY Sizes DEF Machines, Transmitters, Receivers
  <1>2. rx' = [Receives EXCEPT !.sync = two] /\ ~stb'
    BY DEF RxEdge, GoodStop
  <1>3. Receives = Hears
    BY DEF Receives
  <1>4. CASE level = 0
    <2>1. rx' = [rx EXCEPT !.state = "start", !.counter = half - 1, !.sync = two]
      BY <1>1, <1>2, <1>3, <1>4 DEF Hears
    <2>2. /\ rx' \in Receivers
          /\ rx'.sync = two /\ rx'.state = "start" /\ rx'.counter = half - 1
      BY <1>1, <2>1 DEF States, Transmitters, Receivers
    <2>3. QED BY <1>2, <1>4, <2>2
  <1>5. CASE level # 0
    <2>1. rx' = [rx EXCEPT !.sync = two]
      BY <1>1, <1>2, <1>3, <1>5 DEF Hears
    <2>2. QED BY <1>1, <1>2, <1>5, <2>1 DEF Receivers
  <1>6. QED BY <1>4, <1>5

\* A byte begun.
LEMMA StartsIs ==
  ASSUME Machines, NEW byte \in Bytes, Starts(byte)
  PROVE  /\ tx' \in Transmitters
         /\ tx'.state = "start" /\ tx'.counter = Divisor - 1 /\ tx'.shift = byte
         /\ tx.state = "idle" /\ calm = 0
  <1>1. byte \in Nat /\ Divisor - 1 \in 0 .. Divisor - 1
    BY Powers, Sizes DEF Bytes
  <1>2. tx' = [tx EXCEPT !.state = "start", !.counter = Divisor - 1, !.shift = byte]
    BY DEF Starts, Goes, Machines, Transmitters, Receivers
  <1>3. QED BY <1>1, <1>2 DEF Machines, States, Starts, Transmitters, Receivers

LEMMA ArrivedIs ==
  /\ Machines /\ Left => Arrived = << >>
  /\ \A byte : Machines /\ LeftAnd(byte) => Arrived = <<byte>>
  <1>1. ASSUME Machines, Left PROVE Arrived = << >>
    BY <1>1 DEF Machines, Left, Arrived, Transmitters, Receivers
  <1>2. ASSUME NEW byte, Machines, LeftAnd(byte) PROVE Arrived = <<byte>>
    <2>1. CASE stb
      <3>1. Arrived = Tail(<<data, byte>>)
        BY <1>2, <2>1 DEF LeftAnd, Arrived
      <3>2. QED BY <3>1
    <2>2. CASE ~stb
      BY <1>2, <2>2 DEF LeftAnd, Arrived
    <2>3. QED BY <2>1, <2>2
  <1>3. QED BY <1>1, <1>2

LEMMA QuietNext == ASSUME Machines, Quiet, UartNext PROVE Conveys'
  <1>1. Line = 1 /\ Line \in Wire /\ level = 1 /\ Arrived = << >> /\ ~GoodStop
    BY ArrivedIs DEF Quiet, Line, level, Wire, GoodStop
  <1>2. CASE Together
    <2>1. tx' = tx /\ RxEdge(Line) /\ flying' = << >> /\ skew' = skew
      BY <1>1, <1>2 DEF Together, Rests, Sends, Quiet
    <2>2. /\ rx'.sync = <<1, 1>> /\ ~stb' /\ rx'.state = "idle"
          /\ rx' \in Receivers
      BY <1>1, <2>1, Idles DEF Quiet
    <2>3. Machines'
      BY <2>1, <2>2, Calms DEF Machines, Transmitters, Receivers
    <2>4. Quiet'
      BY <2>1, <2>2 DEF Quiet, Left
    <2>5. QED BY <2>3, <2>4 DEF Conveys
  <1>3. ASSUME NEW byte \in Bytes, Begins(byte) PROVE Conveys'
    <2>1. Starts(byte) /\ RxEdge(Line) /\ flying' = <<byte>> /\ skew' = 0
      BY <1>1, <1>3 DEF Begins
    <2>2. /\ rx'.sync = <<1, 1>> /\ ~stb' /\ rx'.state = "idle"
          /\ rx' \in Receivers
      BY <1>1, <2>1, Idles DEF Quiet
    <2>3. calm' = 0 /\ skew' \in -Slack .. Slack
      BY <2>1, StartsIs, Calms, Sizes
    <2>4. Machines'
      BY <2>1, <2>2, <2>3, Calms, StartsIs DEF Machines, Transmitters, Receivers
    <2>5. Unseen(byte)'
      BY <2>1, <2>2, <2>3, StartsIs DEF Unseen, LeftAnd
    <2>6. QED BY <2>4, <2>5 DEF Conveys
  <1>4. CASE Glitch
    <2>1. /\ rx' = [rx EXCEPT !.sync = <<0, 1>>] /\ ~stb' /\ calm' = Divisor /\ flying' = << >>
          /\ UNCHANGED <<tx, data, skew>> /\ stb' \in BOOLEAN
      <3>1. stb' = FALSE
        BY <1>4 DEF Glitch, GoodStop, Quiet
      <3>2. QED BY <1>1, <1>4, <3>1 DEF Glitch
    <2>2. /\ rx' \in Receivers
          /\ rx'.sync = <<0, 1>> /\ rx'.state = "idle"
      BY <2>1 DEF Machines, Wire, Quiet, Transmitters, Receivers
    <2>3. Machines'
      BY <2>1, <2>2, Sizes DEF Machines, Transmitters, Receivers
    <2>4. Noisy'
      BY <2>1, <2>2 DEF Noisy, Quiet
    <2>5. QED BY <2>3, <2>4 DEF Conveys
  <1>5. ~RxAlone /\ ~TxAlone
    BY DEF Quiet, RxAlone, TxAlone, Sends
  <1>6. QED BY <1>2, <1>3, <1>4, <1>5 DEF UartNext

LEMMA NoisyNext == ASSUME Machines, Noisy, UartNext PROVE Conveys'
  <1>1. Line = 1 /\ Line \in Wire /\ calm > 0 /\ tx.state = "idle" /\ Arrived = << >> /\ ~GoodStop
    <2>1. calm > 0
      BY Sizes DEF Noisy, Machines, Transmitters, Receivers
    <2>2. QED BY <2>1 DEF Noisy, Line, Wire, Arrived, GoodStop
  <1>2. tx' = tx /\ RxEdge(1) /\ flying' = << >> /\ skew' = skew
    BY <1>1 DEF UartNext, Together, Rests, Sends, Begins, Starts, RxAlone, TxAlone, Glitch
  <1>3. calm' = calm - 1 /\ calm' \in 0 .. Divisor /\ stb' \in BOOLEAN /\ ~stb' /\ 1 \in Wire
    BY <1>1, <1>2, Calms DEF RxEdge, Wire
  <1>4. CASE rx.state = "idle" /\ rx.sync = <<0, 1>> /\ calm = Divisor
    <2>1. /\ rx'.sync = <<1, 0>> /\ rx'.state = "idle"
          /\ rx' \in Receivers
      BY <1>2, <1>3, <1>4, Idles DEF level
    <2>2. Machines' /\ Noisy'
      BY <1>1, <1>2, <1>3, <1>4, <2>1 DEF Machines, Noisy, Transmitters, Receivers
    <2>3. QED BY <2>2 DEF Conveys
  <1>5. CASE rx.state = "idle" /\ rx.sync = <<1, 0>> /\ calm = Divisor - 1
    <2>1. /\ rx'.sync = <<1, 1>> /\ rx'.state = "start" /\ rx'.counter = half - 1
          /\ rx' \in Receivers
      BY <1>2, <1>3, <1>5, Idles DEF level
    <2>2. calm' = rx'.counter + Divisor - 1 - half
      BY <1>3, <1>5, <2>1, Sizes
    <2>3. Machines' /\ Noisy'
      BY <1>1, <1>2, <1>3, <2>1, <2>2 DEF Machines, Noisy, Transmitters, Receivers
    <2>4. QED BY <2>3 DEF Conveys
  <1>6. CASE rx.state = "start" /\ rx.sync = <<1, 1>> /\ calm = rx.counter + Divisor - 1 - half
    <2>1. level = 1 /\ <<1, rx.sync[1]>> = <<1, 1>> /\ <<1, 1>> \in Wire \X Wire
      BY <1>6 DEF level, Wire
    <2>2. rx' = [Receives EXCEPT !.sync = <<1, 1>>]
      BY <1>2, <2>1 DEF RxEdge
    <2>3. CASE rx.counter > 0
      <3>1. Receives = [rx EXCEPT !.counter = rx.counter - 1]
        BY <1>6, <2>3 DEF Receives, Elapsed, Waits
      <3>2. rx.counter - 1 \in 0 .. Divisor - 1 /\ calm' = (rx.counter - 1) + Divisor - 1 - half
        BY <1>3, <1>6, <2>3, Sizes DEF Machines, Transmitters, Receivers
      <3>3. rx' = [rx EXCEPT !.counter = rx.counter - 1, !.sync = <<1, 1>>]
        BY <2>2, <3>1 DEF Machines, Transmitters, Receivers
      <3>4. /\ rx'.sync = <<1, 1>> /\ rx'.state = "start" /\ rx'.counter = rx.counter - 1
            /\ rx' \in Receivers
        BY <1>6, <2>1, <3>2, <3>3 DEF Machines, Transmitters, Receivers
      <3>5. Machines' /\ Noisy'
        BY <1>1, <1>2, <1>3, <3>2, <3>4 DEF Machines, Noisy, Transmitters, Receivers
      <3>6. QED BY <3>5 DEF Conveys
    <2>4. CASE rx.counter = 0
      <3>1. Receives = [rx EXCEPT !.state = "idle"]
        BY <1>6, <2>1, <2>4 DEF Receives, Elapsed
      <3>2. rx' = [rx EXCEPT !.state = "idle", !.sync = <<1, 1>>]
        BY <2>2, <3>1 DEF Machines, Transmitters, Receivers
      <3>3. /\ rx'.sync = <<1, 1>> /\ rx'.state = "idle"
            /\ rx' \in Receivers
        BY <2>1, <3>2 DEF Machines, States, Transmitters, Receivers
      <3>4. Machines' /\ Quiet'
        BY <1>1, <1>2, <1>3, <3>3 DEF Machines, Quiet, Left, Transmitters, Receivers
      <3>5. QED BY <3>4 DEF Conveys
    <2>5. QED BY <2>3, <2>4, Sizes DEF Machines, Transmitters, Receivers
  <1>7. QED BY <1>4, <1>5, <1>6 DEF Noisy

LEMMA EndingNext == ASSUME Machines, Ending, UartNext PROVE Conveys'
  <1>1. Line = 1 /\ Line \in Wire /\ level = 1 /\ Arrived = << >> /\ tx.state = "stop"
    BY ArrivedIs DEF Ending, Line, level, Wire
  <1>2. ASSUME RxEdge(Line)
        PROVE  /\ rx'.sync = <<1, 1>> /\ ~stb' /\ rx'.state = "idle" /\ calm' = 0 /\ stb' \in BOOLEAN
               /\ rx' \in Receivers
    BY <1>1, <1>2, Idles, Calms DEF Ending
  <1>3. ASSUME Sends
        PROVE  /\ tx' \in Transmitters
               /\ tx'.state \in {"stop", "idle"}
    <2>1. tx' = IF tx.counter = 0 THEN [tx EXCEPT !.state = "idle"] ELSE [tx EXCEPT !.counter = tx.counter - 1]
      BY <1>1, <1>3 DEF Sends, Elapsed, Waits
    <2>2. tx.counter # 0 => tx.counter - 1 \in 0 .. Divisor - 1
      BY Sizes DEF Machines, Transmitters, Receivers
    <2>3. QED BY <1>1, <2>1, <2>2 DEF Machines, States, Transmitters, Receivers
  <1>4. CASE Together
    <2>1. Sends /\ RxEdge(Line) /\ flying' = << >> /\ skew' = skew
      BY <1>1, <1>4 DEF Together, Rests
    <2>2. Machines' /\ calm' \in 0 .. Divisor
      BY <1>2, <1>3, <2>1, Sizes DEF Machines, Transmitters, Receivers
    <2>3. Quiet' \/ Ending'
      BY <1>2, <1>3, <2>1 DEF Quiet, Ending, Left
    <2>4. QED BY <2>2, <2>3 DEF Conveys
  <1>5. CASE RxAlone
    <2>1. RxEdge(Line) /\ flying' = << >> /\ skew' \in -Slack .. Slack /\ tx' = tx
      BY <1>1, <1>5, Sizes DEF RxAlone
    <2>2. Machines' /\ Ending'
      BY <1>1, <1>2, <2>1, Sizes DEF Machines, Ending, Left, Transmitters, Receivers
    <2>3. QED BY <2>2 DEF Conveys
  <1>6. CASE TxAlone
    <2>1. Sends /\ UNCHANGED <<rx, stb, data, calm, flying>> /\ skew' \in -Slack .. Slack
      BY <1>6, Sizes DEF TxAlone
    <2>2. Machines' /\ (Quiet' \/ Ending')
      BY <1>3, <2>1 DEF Machines, Quiet, Ending, Left, Transmitters, Receivers
    <2>3. QED BY <2>2 DEF Conveys
  <1>7. ~Glitch /\ \A byte : ~Begins(byte)
    BY <1>1 DEF Glitch, Begins, Starts
  <1>8. QED BY <1>4, <1>5, <1>6, <1>7 DEF UartNext

LEMMA UnseenNext ==
  ASSUME Machines, NEW byte \in Bytes, Unseen(byte), UartNext
  PROVE  Conveys'
  <1>1. /\ Line = 0 /\ Line \in Wire /\ tx.state = "start" /\ Arrived = <<byte>> /\ tx.counter > 0
        /\ tx.shift = byte /\ rx.state = "idle"
    BY ArrivedIs, Sizes DEF Unseen, Line, Wire
  <1>2. Sends /\ RxEdge(Line) /\ flying' = <<byte>> /\ skew' = 0 /\ skew = 0
    <2>1. ~RxAlone /\ ~TxAlone /\ ~Glitch /\ \A b : ~Begins(b)
      BY <1>1 DEF RxAlone, TxAlone, Elapsed, Glitch, Begins, Starts
    <2>2. QED BY <1>1, <2>1 DEF UartNext, Together, Rests, Unseen
  <1>3. tx' = [tx EXCEPT !.counter = tx.counter - 1]
    BY <1>1, <1>2 DEF Sends, Elapsed, Waits
  <1>4. /\ tx' \in Transmitters
        /\ tx'.state = "start" /\ tx'.shift = byte /\ tx'.counter = tx.counter - 1
    BY <1>1, <1>3, Sizes DEF Machines, Transmitters, Receivers
  <1>5. /\ rx'.sync = <<0, rx.sync[1]>> /\ ~stb' /\ calm' = 0 /\ stb' \in BOOLEAN
        /\ rx' \in Receivers
        /\ rx.sync[2] = 1 => rx'.state = "idle"
        /\ rx.sync[2] = 0 => rx'.state = "start" /\ rx'.counter = half - 1
    <2>1. calm = 0
      BY DEF Unseen
    <2>2. QED BY <1>1, <1>2, <2>1, Idles, Calms DEF level
  <1>6. Machines'
    BY <1>2, <1>4, <1>5, Sizes DEF Machines, Transmitters, Receivers
  <1>7. LeftAnd(byte)'
    BY <1>2, <1>5 DEF LeftAnd
  <1>8. CASE tx.counter = Divisor - 1 /\ rx.sync = <<1, 1>>
    <2>1. rx'.sync = <<0, 1>> /\ rx'.state = "idle" /\ tx'.counter = Divisor - 2
      BY <1>4, <1>5, <1>8, Sizes
    <2>2. Unseen(byte)'
      BY <1>2, <1>4, <1>5, <1>7, <2>1 DEF Unseen
    <2>3. QED BY <1>6, <2>2 DEF Conveys
  <1>9. CASE tx.counter = Divisor - 2 /\ rx.sync = <<0, 1>>
    <2>1. rx'.sync = <<0, 0>> /\ rx'.state = "idle" /\ tx'.counter = Divisor - 3
      BY <1>4, <1>5, <1>9, Sizes
    <2>2. Unseen(byte)'
      BY <1>2, <1>4, <1>5, <1>7, <2>1 DEF Unseen
    <2>3. QED BY <1>6, <2>2 DEF Conveys
  <1>10. CASE tx.counter = Divisor - 3 /\ rx.sync = <<0, 0>>
    <2>1. /\ rx'.sync = <<0, 0>> /\ rx'.state = "start" /\ rx'.counter = half - 1
          /\ tx'.counter = Divisor - 4
      BY <1>4, <1>5, <1>10, Sizes
    <2>2. Place(tx') = 0 /\ Place(rx') = 0 /\ Saying(byte)' /\ Collected(byte)'
      BY <1>4, <2>1 DEF Place, Saying, Collected
    <2>3. Aligned(0, Divisor - 1 - (Divisor - 4), 0, half - 1, 0)
      BY Sizes DEF Aligned
    <2>4. Seen(0, byte, 0, half - (half - 1) + 1 + 0) /\ Seen(0, byte, 0, half - (half - 1) + 0)
      <3>1. Bit(byte, 0) = 0
        BY DEF Bit
      <3>2. QED BY <3>1, Sizes DEF Seen
    <2>5. 0 \in -Slack .. Slack
      BY Sizes
    <2>6. rx'.sync[1] = 0 /\ rx'.sync[2] = 0
      BY <2>1
    <2>7. /\ \E s \in -Slack .. Slack : Seen(rx.sync[1], byte, Place(rx), half - rx.counter + 1 + s)'
          /\ \E s \in -Slack .. Slack : Seen(rx.sync[2], byte, Place(rx), half - rx.counter + s)'
      BY <2>1, <2>2, <2>4, <2>5, <2>6 DEF Seen
    <2>8. InStep(byte)'
      BY <1>2, <1>5, <2>1, <2>2, <2>3, <2>7 DEF InStep
    <2>9. QED BY <1>6, <2>8 DEF Conveys
  <1>11. QED BY <1>8, <1>9, <1>10 DEF Unseen

\* The rest of a stop bit that the receiver has yet to sample.
LEMMA TailGoes ==
  ASSUME Machines, NEW byte \in Bytes, Tail1(byte), NEW v \in Wire, RxEdge(v)
  PROVE  /\ rx' \in Receivers
         /\ rx'.sync = <<v, 1>> /\ calm' = 0 /\ stb' \in BOOLEAN
         /\ rx.counter > 0 => /\ rx'.state = "stop" /\ rx'.shift = byte
                              /\ rx'.counter = rx.counter - 1 /\ ~stb'
         /\ rx.counter = 0 => rx'.state = "idle" /\ stb' /\ data' = byte
  <1>1. level = Bit(byte, Place(rx)) /\ Collected(byte) /\ rx.sync[1] = 1
    BY Sizes DEF Tail1, level, Bit, Place, Collected
  <1>2. /\ rx' \in Receivers
        /\ rx'.sync = <<v, rx.sync[1]>>
        /\ \/ Onward(rx, rx') /\ Collected(byte)' /\ ~stb'
           \/ Over(rx, rx') /\ stb' /\ data' = byte
    BY <1>1, ReceivesOn
  <1>3. calm' = 0 /\ stb' \in BOOLEAN
    BY Calms DEF Tail1
  <1>4. Place(rx) = DataBits + 1 /\ rx.counter \in 0 .. Divisor - 1
    BY StopPlace, Placed DEF Tail1
  <1>5. Place(rx') = DataBits + 1 /\ rx'.state # "idle" => rx'.state = "stop"
    BY <1>2, Sizes DEF Place, States, Transmitters, Receivers
  <1>6. Place(rx') <= DataBits + 1
    BY <1>2, Sizes DEF Place, Receivers
  <1>7. ASSUME Onward(rx, rx'), Collected(byte)'
        PROVE  /\ rx.counter > 0 /\ rx'.state = "stop" /\ rx'.shift = byte
               /\ rx'.counter = rx.counter - 1
    <2>1. Place(rx') = Place(rx) /\ rx.counter > 0 /\ rx'.counter = rx.counter - 1 /\ rx'.state # "idle"
      BY <1>4, <1>6, <1>7, Sizes DEF Onward
    <2>2. QED BY <1>4, <1>5, <1>7, <2>1 DEF Collected
  <1>8. CASE Onward(rx, rx') /\ Collected(byte)' /\ ~stb'
    BY <1>1, <1>2, <1>3, <1>4, <1>7, <1>8
  <1>9. CASE Over(rx, rx') /\ stb' /\ data' = byte
    BY <1>1, <1>2, <1>3, <1>9 DEF Over
  <1>10. QED BY <1>2, <1>8, <1>9

LEMMA TwoOf ==
  ASSUME NEW a \in Bytes, NEW b \in Bytes
  PROVE  Append(<<a>>, b) = <<a, b>>
  <1>1. <<a>> \in Seq(Bytes) /\ <<a, b>> \in Seq(Bytes) /\ Len(<<a>>) = 1
    OBVIOUS
  <1>2. /\ Append(<<a>>, b) \in Seq(Bytes) /\ Len(Append(<<a>>, b)) = 2
        /\ Append(<<a>>, b)[1] = a /\ Append(<<a>>, b)[2] = b
    BY <1>1, AppendProperties
  <1>3. \A i \in 1 .. Len(<<a, b>>) : Append(<<a>>, b)[i] = <<a, b>>[i]
    BY <1>2
  <1>4. Len(Append(<<a>>, b)) = Len(<<a, b>>)
    BY <1>2
  <1>5. QED BY <1>1, <1>2, <1>3, <1>4, SeqEqual

LEMMA TailingNext ==
  ASSUME Machines, NEW byte \in Bytes, Tailing(byte), UartNext
  PROVE  Conveys'
  <1>1. /\ Line = 1 /\ 1 \in Wire /\ tx.state = "idle" /\ Arrived = <<byte>> /\ Tail1(byte)
        /\ rx.counter \in {0, 1} /\ rx.state = "stop"
    BY DEF Tailing, Tail1, Line, Wire, Arrived, Machines, Transmitters, Receivers
  <1>2. ASSUME RxEdge(Line)
        PROVE  /\ rx' \in Receivers
               /\ rx'.sync = <<1, 1>> /\ calm' = 0 /\ calm' \in 0 .. Divisor /\ stb' \in BOOLEAN
               /\ rx.counter = 1 => rx'.state = "stop" /\ rx'.shift = byte /\ rx'.counter = 0 /\ ~stb'
               /\ rx.counter = 0 => rx'.state = "idle" /\ stb' /\ data' = byte
    BY <1>1, <1>2, TailGoes, Sizes
  <1>3. CASE Together
    <2>1. tx' = tx /\ RxEdge(Line) /\ flying' = <<byte>> /\ skew' = skew
      BY <1>1, <1>3 DEF Together, Rests, Sends
    <2>2. Machines'
      BY <1>2, <2>1 DEF Machines, Transmitters, Receivers
    <2>3. rx.counter = 1 => Tailing(byte)'
      BY <1>1, <1>2, <2>1 DEF Tailing, Tail1
    <2>4. rx.counter = 0 => Quiet'
      BY <1>1, <1>2, <2>1 DEF Quiet, Left
    <2>5. QED BY <1>1, <2>2, <2>3, <2>4 DEF Conveys
  <1>4. ASSUME NEW next \in Bytes, Begins(next) PROVE Conveys'
    <2>1. Starts(next) /\ RxEdge(Line) /\ flying' = <<byte, next>> /\ skew' = 0 /\ 0 \in -Slack .. Slack
      <3>1. Append(<<byte>>, next) = <<byte, next>>
        BY TwoOf
      <3>2. 0 \in -Slack .. Slack
        BY Sizes
      <3>3. QED BY <1>1, <1>4, <3>1, <3>2 DEF Begins
    <2>2. Machines'
      BY <1>2, <2>1, StartsIs DEF Machines, Transmitters, Receivers
    <2>3. rx.counter = 1 => Overlap(byte, next)'
      BY <1>2, <2>1, StartsIs DEF Overlap, Tail1
    <2>4. rx.counter = 0 => Unseen(next)'
      BY <1>2, <2>1, StartsIs DEF Unseen, LeftAnd
    <2>5. QED BY <1>1, <2>2, <2>3, <2>4 DEF Conveys
  <1>5. ~RxAlone /\ ~TxAlone /\ ~Glitch
    BY <1>1 DEF RxAlone, TxAlone, Sends, Glitch
  <1>6. QED BY <1>3, <1>4, <1>5 DEF UartNext

LEMMA OverlapNext ==
  ASSUME Machines, NEW byte \in Bytes, NEW next \in Bytes, Overlap(byte, next), UartNext
  PROVE  Conveys'
  <1>1. /\ Line = 0 /\ 0 \in Wire /\ tx.state = "start" /\ Arrived = <<byte, next>> /\ Tail1(byte)
        /\ rx.counter = 0 /\ rx.state = "stop" /\ tx.counter = Divisor - 1 /\ tx.shift = next
    BY DEF Overlap, Tail1, Line, Wire, Arrived
  <1>2. Sends /\ RxEdge(Line) /\ flying' = <<byte, next>> /\ skew' = 0 /\ skew = 0
    <2>1. ~RxAlone /\ ~TxAlone /\ ~Glitch /\ \A b : ~Begins(b)
      BY <1>1, Sizes DEF RxAlone, TxAlone, Elapsed, Glitch, Begins, Starts
    <2>2. QED BY <1>1, <2>1 DEF UartNext, Together, Rests, Overlap
  <1>3. tx' = [tx EXCEPT !.counter = tx.counter - 1]
    BY <1>1, <1>2, Sizes DEF Sends, Elapsed, Waits
  <1>4. /\ tx' \in Transmitters
        /\ tx'.state = "start" /\ tx'.shift = next /\ tx'.counter = Divisor - 2
    BY <1>1, <1>3, Sizes DEF Machines, Transmitters, Receivers
  <1>5. /\ rx' \in Receivers
        /\ rx'.sync = <<0, 1>> /\ calm' = 0 /\ stb' \in BOOLEAN
        /\ rx'.state = "idle" /\ stb' /\ data' = byte
    BY <1>1, <1>2, TailGoes
  <1>6. Machines'
    BY <1>2, <1>4, <1>5, Sizes DEF Machines, Transmitters, Receivers
  <1>7. Unseen(next)'
    BY <1>2, <1>4, <1>5 DEF Unseen, LeftAnd
  <1>8. QED BY <1>6, <1>7 DEF Conveys

LEMMA InStepNext ==
  ASSUME Machines, NEW byte \in Bytes, InStep(byte), UartNext
  PROVE  Conveys'
  <1> DEFINE i == Place(tx)
             c == tx.counter
             j == Place(rx)
             r == rx.counter
  <1>1. /\ byte \in Nat /\ i \in 0 .. DataBits + 1 /\ j \in 0 .. DataBits + 1
        /\ c \in 0 .. Divisor - 1 /\ r \in 0 .. Divisor - 1 /\ skew \in -Slack .. Slack
        /\ Aligned(i, Divisor - 1 - c, j, r, skew) /\ Saying(byte) /\ Collected(byte)
        /\ Line = Bit(byte, i) /\ Line \in Wire /\ Arrived = <<byte>>
        /\ tx.state # "idle" /\ rx.state # "idle"
    <2>1. byte \in Nat
      BY Powers, Sizes DEF Bytes
    <2>2. Saying(byte) /\ Collected(byte) /\ Arrived = <<byte>>
      BY DEF InStep, Arrived
    <2>3. QED BY <2>1, <2>2, Placed, LineIs
                 DEF InStep, Saying, Collected, Machines, Transmitters, Receivers
  <1>2. PICK s \in -Slack .. Slack : Seen(rx.sync[1], byte, j, half - r + 1 + s)
    BY DEF InStep
  <1>3. PICK t \in -Slack .. Slack : Seen(rx.sync[2], byte, j, half - r + t)
    BY DEF InStep
  <1>4. r = 0 => level = Bit(byte, j)
    BY <1>1, <1>3, SeenInTheMiddle DEF level
  <1>5. ASSUME RxEdge(Line)
        PROVE  /\ rx' \in Receivers /\ rx'.sync[1] = Line /\ rx'.sync[2] = rx.sync[1]
               /\ rx'.sync = <<Line, rx.sync[1]>>
               /\ calm' = 0 /\ calm' \in 0 .. Divisor /\ stb' \in BOOLEAN
               /\ \/ Onward(rx, rx') /\ Collected(byte)' /\ ~stb'
                  \/ Over(rx, rx') /\ stb' /\ data' = byte
    <2>1. calm = 0
      BY DEF InStep
    <2>2. calm' = 0 /\ calm' \in 0 .. Divisor /\ stb' \in BOOLEAN
      BY <1>5, <2>1, Calms
    <2>3. /\ rx' \in Receivers /\ rx'.sync = <<Line, rx.sync[1]>>
          /\ \/ Onward(rx, rx') /\ Collected(byte)' /\ ~stb'
             \/ Over(rx, rx') /\ stb' /\ data' = byte
      <3>1. rx.counter = 0 => level = Bit(byte, Place(rx))
        BY <1>4
      <3>2. Line \in Wire /\ Collected(byte)
        BY <1>1
      <3>3. /\ rx' \in Receivers
            /\ rx'.sync = <<Line, rx.sync[1]>>
            /\ \/ Onward(rx, rx') /\ Collected(byte)' /\ ~stb'
               \/ Over(rx, rx') /\ stb' /\ data' = byte
        BY <1>5, <3>1, <3>2, ReceivesOn
      <3>4. QED BY <3>3
    <2>4. rx'.sync[1] = Line /\ rx'.sync[2] = rx.sync[1]
      BY <2>3
    <2>5. QED BY <2>2, <2>3, <2>4
  <1>6. ASSUME Onward(tx, tx') PROVE Step(i, c, Place(tx'), tx'.counter)
    BY <1>6 DEF Onward, Step
  <1>7. ASSUME Onward(rx, rx') PROVE Step(j, r, Place(rx'), rx'.counter)
    BY <1>7 DEF Onward, Step
  <1>8. ASSUME RxEdge(Line), Onward(rx, rx')
        PROVE  /\ \E k \in -Slack .. Slack : Seen(rx'.sync[1], byte, Place(rx'), half - rx'.counter + 1 + k)
               /\ \E k \in -Slack .. Slack : Seen(rx'.sync[2], byte, Place(rx'), half - rx'.counter + k)
    <2>1. Seen(rx'.sync[1], byte, Place(rx'), half - rx'.counter + 1 + skew)
      BY <1>1, <1>5, <1>7, <1>8, SeenNow
    <2>2. Seen(rx'.sync[2], byte, Place(rx'), half - rx'.counter + s)
      BY <1>1, <1>2, <1>5, <1>7, <1>8, SeenGoes
    <2>3. QED BY <1>1, <2>1, <2>2
  \* The receiver is done, and what follows a stop bit is a stop bit.
  <1>9. ASSUME RxEdge(Line), Over(rx, rx')
        PROVE  i = DataBits + 1 /\ tx.state = "stop" /\ rx'.sync = <<1, 1>> /\ rx'.state = "idle"
    <2>1. j = DataBits + 1 /\ r = 0
      BY <1>9, StopPlace DEF Over
    <2>2. i = DataBits + 1
      BY <1>1, <2>1, AtTheEnd
    <2>3. Line = 1
      BY <1>1, <2>2, Sizes DEF Bit
    <2>4. half - r + 1 + s \in Nat
      BY <2>1, Sizes
    <2>5. rx.sync[1] = 1
      BY <1>2, <2>1, <2>4, StopSeen
    <2>6. QED BY <1>1, <1>5, <1>9, <2>2, <2>3, <2>5, StopPlace DEF Over
  \* The transmitter is done, and the receiver is about to sample the stop bit.
  <1>10. ASSUME Over(tx, tx')
         PROVE  /\ j = DataBits + 1 /\ rx.state = "stop" /\ rx.shift = byte /\ r <= 2 /\ rx.sync[1] = 1
                /\ Line = 1 /\ (skew < Slack => r <= 1 /\ rx.sync[2] = 1)
    <2>1. i = DataBits + 1 /\ c = 0
      BY <1>10, StopPlace DEF Over
    <2>2. /\ j = DataBits + 1 /\ r <= 2 /\ (skew < Slack => r <= 1)
          /\ half - r + 1 + s >= 0 /\ (skew < Slack => half - r + t >= 0)
      BY <1>1, <2>1, AtTheEnd
    <2>3. half - r + 1 + s \in Nat /\ (skew < Slack => half - r + t \in Nat)
      BY <1>1, <2>2, Sizes
    <2>4. rx.sync[1] = 1 /\ (skew < Slack => rx.sync[2] = 1)
      BY <1>2, <1>3, <2>2, <2>3, StopSeen
    <2>5. Line = 1
      BY <1>1, <2>1, Sizes DEF Bit
    <2>6. rx.state = "stop"
      BY <1>1, <2>2, StopPlace
    <2>7. QED BY <1>1, <2>2, <2>4, <2>5, <2>6 DEF Collected
  <1> HIDE DEF i, j, c, r
  <1>11. CASE Together
    <2>1. Sends /\ RxEdge(Line) /\ flying' = <<byte>> /\ skew' = skew
      BY <1>1, <1>11 DEF Together, Rests
    <2>2. tx' \in Transmitters /\ ((Onward(tx, tx') /\ Saying(byte)') \/ Over(tx, tx'))
      BY <1>1, <2>1, SendsOn
    <2>3. Machines'
      BY <1>1, <1>5, <2>1, <2>2 DEF Machines, Transmitters, Receivers
    <2>4. CASE Onward(tx, tx') /\ Saying(byte)' /\ Onward(rx, rx') /\ Collected(byte)' /\ ~stb'
      <3>1. Aligned(Place(tx'), Divisor - 1 - tx'.counter, Place(rx'), rx'.counter, skew')
        BY <1>1, <1>6, <1>7, <2>1, <2>4, BothGo
      <3>2. InStep(byte)'
        BY <1>5, <1>8, <2>1, <2>4, <3>1 DEF InStep
      <3>3. QED BY <2>3, <3>2 DEF Conveys
    <2>5. CASE Onward(tx, tx') /\ Saying(byte)' /\ Over(rx, rx') /\ stb' /\ data' = byte
      <3>1. tx'.state = "stop"
        <4>1. Place(tx') \in {i, i + 1} /\ Place(tx') \in 0 .. DataBits + 1 /\ tx'.state # "idle"
          <5>1. Place(tx') \in {i, i + 1} /\ tx'.state # "idle"
            BY <2>5 DEF Onward, i
          <5>2. Place(tx') \in 0 .. DataBits + 1
            BY <2>2, Sizes DEF Place, Transmitters
          <5>3. QED BY <5>1, <5>2
        <4>2. Place(tx') = DataBits + 1
          BY <1>9, <2>1, <2>5, <4>1, Sizes
        <4>3. QED BY <2>2, <4>1, <4>2, Sizes DEF Place, States, Transmitters, Receivers
      <3>2. Ending'
        BY <1>5, <1>9, <2>1, <2>5, <3>1 DEF Ending, Left
      <3>3. QED BY <2>3, <3>2 DEF Conveys
    <2>6. CASE Over(tx, tx') /\ Onward(rx, rx') /\ Collected(byte)' /\ ~stb'
      <3>1. rx.counter \in 0 .. 2 /\ Place(rx) = DataBits + 1
        BY <1>1, <1>10, <2>6 DEF r, j
      <3>2. /\ Place(rx') <= DataBits + 1 /\ rx'.state # "idle"
            /\ Place(rx') = DataBits + 1 => rx'.state = "stop"
        BY <1>5, <2>1, <2>6, Sizes DEF Place, States, Onward, Transmitters, Receivers
      <3>3. rx'.state = "stop" /\ rx'.counter <= 1
        BY <2>6, <3>1, <3>2, Sizes DEF Onward
      <3>4. rx'.shift = byte /\ rx'.sync = <<1, 1>> /\ tx'.state = "idle"
        BY <1>5, <1>10, <2>1, <2>6, <3>3 DEF Collected, Over
      <3>5. Tailing(byte)'
        BY <1>5, <2>1, <2>6, <3>3, <3>4 DEF Tailing, Tail1
      <3>6. QED BY <2>3, <3>5 DEF Conveys
    <2>7. CASE Over(tx, tx') /\ Over(rx, rx') /\ stb' /\ data' = byte
      <3>1. Quiet'
        BY <1>9, <2>1, <2>7 DEF Quiet, Left, Over
      <3>2. QED BY <2>3, <3>1 DEF Conveys
    <2>8. QED BY <1>5, <2>1, <2>2, <2>4, <2>5, <2>6, <2>7
  <1>12. CASE RxAlone
    <2>1. /\ RxEdge(Line) /\ flying' = <<byte>> /\ tx' = tx
          /\ skew \in 1 - Slack .. 0 /\ skew' = skew - 1 /\ skew' \in -Slack .. Slack
      BY <1>1, <1>12, Sizes DEF RxAlone
    <2>2. Machines'
      BY <1>5, <2>1 DEF Machines, Transmitters, Receivers
    <2>3. CASE Onward(rx, rx') /\ Collected(byte)' /\ ~stb'
      <3>1. skew \in 1 - Slack .. Slack
        BY <2>1, Sizes
      <3>2. Aligned(i, Divisor - 1 - c, Place(rx'), rx'.counter, skew')
        BY <1>1, <1>7, <2>1, <2>3, <3>1, RxGoes
      <3>3. Saying(byte)'
        BY <1>1, <2>1 DEF Saying
      <3>4. InStep(byte)'
        BY <1>5, <1>8, <2>1, <2>3, <3>2, <3>3 DEF InStep, i, c
      <3>5. QED BY <2>2, <3>4 DEF Conveys
    <2>4. CASE Over(rx, rx') /\ stb' /\ data' = byte
      <3>1. Ending'
        BY <1>5, <1>9, <2>1, <2>4 DEF Ending, Left
      <3>2. QED BY <2>2, <3>1 DEF Conveys
    <2>5. QED BY <1>5, <2>1, <2>3, <2>4
  <1>13. CASE TxAlone
    <2>1. /\ Sends /\ UNCHANGED <<rx, stb, data, calm, flying>> /\ c = 0
          /\ skew \in -Slack .. Slack - 1 /\ skew' = skew + 1 /\ skew' \in -Slack .. Slack
      BY <1>13, Sizes DEF TxAlone, Elapsed, c
    <2>2. tx' \in Transmitters /\ ((Onward(tx, tx') /\ Saying(byte)') \/ Over(tx, tx'))
      BY <1>1, <2>1, SendsOn
    <2>3. Machines' /\ ~stb /\ flying = <<byte>> /\ calm = 0
      BY <2>1, <2>2 DEF Machines, InStep, Transmitters, Receivers
    <2>4. CASE Onward(tx, tx') /\ Saying(byte)'
      <3>1. Place(tx') = i + 1 /\ tx'.counter = Divisor - 1
        BY <1>6, <2>1, <2>4 DEF Step
      <3>2. Aligned(i + 1, 0, j, r, skew + 1)
        <4>1. Aligned(i, Divisor - 1, j, r, skew)
          <5>1. Divisor - 1 - c = Divisor - 1
            BY <2>1, Sizes
          <5>2. QED BY <1>1, <5>1
        <4>2. QED BY <1>1, <2>1, <4>1, TxGoes
      <3>3. Divisor - 1 - (Divisor - 1) = 0
        BY Sizes
      <3>4. Aligned(Place(tx'), Divisor - 1 - tx'.counter, j, r, skew')
        BY <2>1, <3>1, <3>2, <3>3
      <3>5. rx' = rx /\ Place(rx') = j /\ rx'.counter = r /\ Collected(byte)'
        BY <1>1, <2>1 DEF j, r, Collected
      <3>6. /\ \E k \in -Slack .. Slack : Seen(rx'.sync[1], byte, Place(rx'), half - rx'.counter + 1 + k)
            /\ \E k \in -Slack .. Slack : Seen(rx'.sync[2], byte, Place(rx'), half - rx'.counter + k)
        BY <1>2, <1>3, <3>5
      <3>7. InStep(byte)'
        BY <2>1, <2>3, <2>4, <3>4, <3>5, <3>6 DEF InStep
      <3>8. QED BY <2>3, <3>7 DEF Conveys
    <2>5. CASE Over(tx, tx')
      <3>1. skew < Slack
        BY <2>1, Sizes
      <3>2. rx.state = "stop" /\ rx.shift = byte /\ r <= 1 /\ rx.sync[1] = 1 /\ rx.sync[2] = 1
        BY <1>10, <2>5, <3>1
      <3>3. rx.sync = <<1, 1>>
        BY <3>2 DEF Machines, Transmitters, Receivers
      <3>4. Tailing(byte)'
        BY <2>1, <2>3, <2>5, <3>2, <3>3 DEF Tailing, Tail1, Over, r
      <3>5. QED BY <2>3, <3>4 DEF Conveys
    <2>6. QED BY <2>2, <2>4, <2>5
  <1>14. ~Glitch /\ \A b : ~Begins(b)
    BY <1>1 DEF Glitch, Begins, Starts
  <1>15. QED BY <1>11, <1>12, <1>13, <1>14 DEF UartNext

LEMMA InitConveys == UartInit => Conveys
  <1> SUFFICES ASSUME UartInit PROVE Conveys
    OBVIOUS
  <1>1. Machines
    <2>1. /\ "idle" \in States /\ 0 \in 0 .. Divisor - 1 /\ 0 \in 0 .. DataBits - 1 /\ 0 \in Nat
          /\ <<1, 1>> \in Wire \X Wire /\ 0 \in 0 .. Divisor /\ 0 \in -Slack .. Slack
      BY Sizes DEF States, Wire, Transmitters, Receivers
    <2>2. QED BY <2>1 DEF UartInit, Machines, Transmitters, Receivers
  <1>2. Quiet
    BY DEF UartInit, Quiet, Left
  <1>3. QED BY <1>1, <1>2 DEF Conveys

LEMMA StutterConveys == Conveys /\ UNCHANGED uartVars => Conveys'
  BY DEF Conveys, uartVars, Machines, Quiet, Noisy, Ending, InStep, Unseen, Tailing, Overlap, Tail1,
         Left, LeftAnd, Saying, Collected, Place, Seen

LEMMA NextConveys == Conveys /\ [UartNext]_uartVars => Conveys'
  <1>1. ASSUME Conveys, UartNext PROVE Conveys'
    <2>1. Machines
      BY <1>1 DEF Conveys
    <2>2. CASE Quiet \/ Noisy \/ Ending
      BY <1>1, <2>1, <2>2, QuietNext, NoisyNext, EndingNext
    <2>3. ASSUME NEW byte \in Bytes, InStep(byte) \/ Unseen(byte) \/ Tailing(byte) PROVE Conveys'
      BY <1>1, <2>1, <2>3, InStepNext, UnseenNext, TailingNext
    <2>4. ASSUME NEW byte \in Bytes, NEW next \in Bytes, Overlap(byte, next) PROVE Conveys'
      BY <1>1, <2>1, <2>4, OverlapNext
    <2>5. QED BY <1>1, <2>2, <2>3, <2>4 DEF Conveys
  <1>2. QED BY <1>1, StutterConveys

LEMMA ConveyedArrive == Conveys => BytesArrive
  <1> SUFFICES ASSUME Conveys PROVE BytesArrive
    OBVIOUS
  <1>1. CASE Quiet \/ Noisy \/ Ending
    <2>1. CASE stb
      <3>1. flying = <<data>>
        BY <1>1, <2>1 DEF Quiet, Noisy, Ending, Left
      <3>2. QED BY <3>1 DEF BytesArrive
    <2>2. CASE ~stb
      <3>1. flying = << >>
        BY <1>1, <2>2 DEF Quiet, Noisy, Ending, Left
      <3>2. QED BY <2>2, <3>1 DEF BytesArrive
    <2>3. QED BY <2>1, <2>2
  <1>2. ASSUME NEW byte \in Bytes, InStep(byte) \/ Unseen(byte) \/ Tailing(byte) PROVE BytesArrive
    <2>1. CASE stb
      <3>1. flying = <<data, byte>>
        BY <1>2, <2>1 DEF InStep, Unseen, Tailing, Tail1, LeftAnd
      <3>2. QED BY <3>1 DEF BytesArrive
    <2>2. CASE ~stb
      <3>1. flying = <<byte>>
        BY <1>2, <2>2 DEF InStep, Unseen, Tailing, LeftAnd
      <3>2. QED BY <2>2, <3>1 DEF BytesArrive
    <2>3. QED BY <2>1, <2>2
  <1>3. ASSUME NEW byte \in Bytes, NEW next \in Bytes, Overlap(byte, next) PROVE BytesArrive
    BY <1>3 DEF Overlap, Tail1, BytesArrive
  <1>4. QED BY <1>1, <1>2, <1>3 DEF Conveys

\* Every byte begun is handed on, once, in order and as it was, whatever the phase
\* and the drift of the two clocks (uart.py 75-123).
THEOREM AlwaysBytesArrive == UartSpec => []BytesArrive
  <1>1. UartSpec => []Conveys
    BY InitConveys, NextConveys, PTL DEF UartSpec
  <1>2. QED BY <1>1, ConveyedArrive, PTL

-----------------------------------------------------------------------------
\* The checksum of a sequence, byte by byte.
NextSum(f, s, n) == IF n = 0 THEN InitialCrc ELSE Absorb(f[n - 1], s[n])
Sums(f, s, k) == f = [n \in 0 .. k |-> NextSum(f, s, n)]

LEMMA SumsExist ==
  ASSUME NEW s, NEW n \in Nat
  PROVE  \E f : Sums(f, s, n)
  <1> DEFINE T == {k \in Nat : ~ \E f : Sums(f, s, k)}
  <1> SUFFICES ASSUME n \in T PROVE FALSE
    OBVIOUS
  <1>1. PICK k \in T : \A j \in T : k <= j
    <2>1. T \subseteq Nat /\ T # {}
      OBVIOUS
    <2>2. QED BY <2>1, LeastExists
  <1>2. CASE k = 0
    <2> DEFINE f == [i \in 0 .. 0 |-> InitialCrc]
    <2>1. \A g, i \in 0 .. 0 : i = 0 /\ NextSum(g, s, i) = InitialCrc
      BY DEF NextSum
    <2>2. Sums(f, s, 0)
      BY <2>1 DEF Sums, NextSum
    <2>3. QED BY <1>2, <2>2
  <1>3. CASE k # 0
    <2>1. k \in Nat /\ k - 1 \in Nat /\ k - 1 \notin T
      BY <1>1, <1>3
    <2>2. PICK f : Sums(f, s, k - 1)
      BY <2>1
    <2> DEFINE g == [i \in 0 .. k |-> IF i = k THEN Absorb(f[k - 1], s[k]) ELSE f[i]]
    <2>3. ASSUME NEW i \in 0 .. k PROVE g[i] = NextSum(g, s, i)
      <3>1. CASE i = 0
        <4>1. 0 \in 0 .. k - 1 /\ 0 \in 0 .. k
          BY <2>1
        <4>2. f[0] = NextSum(f, s, 0)
          BY <2>2, <4>1 DEF Sums
        <4>3. g[0] = f[0]
          BY <1>3, <4>1
        <4>4. QED BY <3>1, <4>2, <4>3 DEF NextSum
      <3>2. CASE i # 0
        <4>1. i - 1 \in 0 .. k /\ i - 1 # k /\ i - 1 \in 0 .. k - 1
          BY <2>1, <3>2
        <4>2. g[i - 1] = f[i - 1]
          BY <4>1
        <4>3. g[i] = Absorb(f[i - 1], s[i])
          <5>1. CASE i = k
            BY <5>1
          <5>2. CASE i # k
            <6>1. i \in 0 .. k - 1
              BY <2>1, <5>2
            <6>2. f[i] = NextSum(f, s, i)
              BY <2>2, <6>1 DEF Sums
            <6>3. g[i] = f[i]
              BY <5>2
            <6>4. QED BY <3>2, <6>2, <6>3 DEF NextSum
          <5>3. QED BY <5>1, <5>2
        <4> HIDE DEF g
        <4>4. QED BY <3>2, <4>2, <4>3 DEF NextSum
      <3>3. QED BY <3>1, <3>2
    <2>4. g = [i \in 0 .. k |-> g[i]]
      OBVIOUS
    <2> HIDE DEF g
    <2>5. Sums(g, s, k)
      BY <2>3, <2>4 DEF Sums
    <2>6. QED BY <1>1, <2>5
  <1>4. QED BY <1>2, <1>3

LEMMA ChecksumIs ==
  ASSUME NEW s, Len(s) \in Nat
  PROVE  \E f : Sums(f, s, Len(s)) /\ Checksum(s) = f[Len(s)]
  <1> DEFINE after == CHOOSE f : Sums(f, s, Len(s))
  <1>1. Sums(after, s, Len(s))
    BY SumsExist
  <1>2. Checksum(s) = after[Len(s)]
    BY DEF Checksum, Sums, NextSum
  <1>3. QED BY <1>1, <1>2

\* Two such reckonings agree as far as their sequences do.
LEMMA SumsAgree ==
  ASSUME NEW s, NEW t, NEW m \in Nat, NEW n \in Nat, NEW f, NEW g, Sums(f, s, m), Sums(g, t, n),
         m <= n, \A i \in 1 .. m : s[i] = t[i]
  PROVE  f[m] = g[m]
  <1> DEFINE T == {k \in 0 .. m : f[k] # g[k]}
  <1> SUFFICES ASSUME T # {} PROVE FALSE
    OBVIOUS
  <1>1. PICK k \in T : \A j \in T : k <= j
    <2>1. T \subseteq Nat
      OBVIOUS
    <2>2. QED BY <2>1, LeastExists
  <1>2. f[k] = NextSum(f, s, k) /\ g[k] = NextSum(g, t, k)
    <2>1. k \in 0 .. m /\ k \in 0 .. n
      OBVIOUS
    <2>2. QED BY <2>1 DEF Sums
  <1>3. k # 0
    <2>1. NextSum(f, s, 0) = NextSum(g, t, 0)
      BY DEF NextSum
    <2>2. f[k] # g[k]
      BY <1>1
    <2>3. QED BY <1>2, <2>1, <2>2
  <1>4. k - 1 \in 0 .. m /\ k - 1 \notin T /\ k \in 1 .. m
    BY <1>1, <1>3
  <1>5. f[k - 1] = g[k - 1] /\ s[k] = t[k]
    BY <1>4
  <1>6. f[k] = g[k]
    BY <1>2, <1>3, <1>5 DEF NextSum
  <1>7. QED BY <1>1, <1>6

LEMMA ChecksumOfNothing == ASSUME NEW s, Len(s) = 0 PROVE Checksum(s) = InitialCrc
  <1>1. PICK f : Sums(f, s, 0) /\ Checksum(s) = f[0]
    BY ChecksumIs
  <1>2. 0 \in 0 .. 0
    OBVIOUS
  <1>3. f[0] = NextSum(f, s, 0)
    BY <1>1, <1>2 DEF Sums
  <1>4. QED BY <1>1, <1>3 DEF NextSum

LEMMA ChecksumGoesOn ==
  ASSUME NEW s \in Seq(Byte), NEW byte \in Byte
  PROVE  Checksum(Append(s, byte)) = Absorb(Checksum(s), byte)
  <1> DEFINE t == Append(s, byte) n == Len(s)
  <1>1. /\ n \in Nat /\ Len(t) = n + 1 /\ t[n + 1] = byte
        /\ \A i \in 1 .. n : s[i] = t[i]
    BY AppendProperties, LenProperties
  <1> HIDE DEF t, n
  <1>2. PICK f : Sums(f, s, n) /\ Checksum(s) = f[n]
    BY <1>1, ChecksumIs DEF n
  <1>3. PICK g : Sums(g, t, n + 1) /\ Checksum(t) = g[n + 1]
    <2>1. Len(t) \in Nat
      BY <1>1
    <2>2. \E g : Sums(g, t, Len(t)) /\ Checksum(t) = g[Len(t)]
      BY <2>1, ChecksumIs
    <2>3. QED BY <1>1, <2>2
  <1>4. f[n] = g[n]
    <2>1. n + 1 \in Nat /\ n <= n + 1
      BY <1>1
    <2>2. QED BY <1>1, <1>2, <1>3, <2>1, SumsAgree
  <1>5. g[n + 1] = Absorb(g[n], byte)
    <2>1. n + 1 \in 0 .. n + 1 /\ n + 1 # 0 /\ (n + 1) - 1 = n
      BY <1>1
    <2>2. g[n + 1] = NextSum(g, t, n + 1)
      BY <1>3, <2>1 DEF Sums
    <2>3. QED BY <1>1, <2>1, <2>2 DEF NextSum
  <1>6. QED BY <1>2, <1>3, <1>4, <1>5 DEF t

\* The reference reckons with the same sum.
LEMMA SameSum == ASSUME NEW s PROVE R!Checksum(s) = Checksum(s)
  BY DEF R!Checksum, Checksum, R!Absorb, Absorb, R!Shifted, Shifted, R!ExclusiveOr, ExclusiveOr,
         R!Differ, Differ, R!InitialCrc, InitialCrc

-----------------------------------------------------------------------------
\* The body of a frame: its length and the first k bytes of the buffer.
Kept(b, k) == [i \in 1 .. k |-> b[i - 1]]
Opening(b, n, k) == <<n>> \o Kept(b, k)
Buffers == [0 .. MaxPayload - 1 -> Byte]

LEMMA FrameSizes == /\ MaxPayload \in Nat /\ MaxPayload > 0 /\ Gap \in Nat /\ Gap > MaxPayload
                    /\ \A byte \in Byte : byte \in Nat
  BY DecoderAssumption DEF Byte

LEMMA OpeningIs ==
  ASSUME NEW b \in Buffers, NEW n \in Byte, NEW k \in 0 .. MaxPayload
  PROVE  /\ Opening(b, n, k) \in Seq(Byte) /\ Len(Opening(b, n, k)) = k + 1 /\ Opening(b, n, k)[1] = n
         /\ \A i \in 1 .. k : Opening(b, n, k)[i + 1] = b[i - 1]
         /\ Tail(Opening(b, n, k)) = Kept(b, k)
  <1> DEFINE s == Kept(b, k) t == Opening(b, n, k)
  <1>1. k \in Nat /\ k <= MaxPayload
    BY FrameSizes
  <1>2. s \in Seq(Byte) /\ Len(s) = k /\ \A i \in 1 .. k : s[i] = b[i - 1]
    <2>1. \A i \in 1 .. k : i - 1 \in 0 .. MaxPayload - 1
      BY <1>1, FrameSizes
    <2>2. \A i \in 1 .. k : b[i - 1] \in Byte
      BY <2>1 DEF Buffers
    <2>3. s \in [1 .. k -> Byte] /\ \A i \in 1 .. k : s[i] = b[i - 1]
      BY <2>2 DEF Kept
    <2> HIDE DEF s
    <2>4. s \in Seq(Byte)
      BY <1>1, <2>3, SeqDef
    <2>5. Len(s) \in Nat /\ 1 .. Len(s) = 1 .. k
      BY <2>3, <2>4, LenProperties
    <2>6. Len(s) = k
      BY <1>1, <2>5
    <2>7. QED BY <2>3, <2>4, <2>6
  <1>3. t = <<n>> \o s
    BY DEF Opening
  <1> HIDE DEF s, t
  <1>4. <<n>> \in Seq(Byte) /\ Len(<<n>>) = 1 /\ <<n>>[1] = n
    OBVIOUS
  <1>5. /\ t \in Seq(Byte) /\ Len(t) = 1 + k
        /\ \A i \in 1 .. 1 + k : t[i] = IF i <= 1 THEN <<n>>[i] ELSE s[i - 1]
    BY <1>2, <1>3, <1>4, ConcatProperties
  <1>6. t[1] = n
    BY <1>1, <1>4, <1>5
  <1>7. ASSUME NEW i \in 1 .. k PROVE t[i + 1] = s[i]
    <2>1. i + 1 \in 1 .. 1 + k /\ ~(i + 1 <= 1) /\ (i + 1) - 1 = i
      BY <1>1
    <2>2. QED BY <1>5, <2>1
  <1>8. Tail(t) = s
    <2>1. t # << >>
      BY <1>1, <1>5, EmptySeq
    <2>2. Tail(t) \in Seq(Byte) /\ Len(Tail(t)) = k /\ \A i \in 1 .. Len(Tail(t)) : Tail(t)[i] = t[i + 1]
      <3>1. /\ Tail(t) \in Seq(Byte) /\ Len(Tail(t)) = Len(t) - 1
            /\ \A i \in 1 .. Len(Tail(t)) : Tail(t)[i] = t[i + 1]
        BY <1>5, <2>1, HeadTailProperties
      <3>2. QED BY <1>1, <1>5, <3>1
    <2>3. \A i \in 1 .. Len(Tail(t)) : Tail(t)[i] = s[i]
      BY <1>7, <2>2
    <2>4. QED BY <1>2, <2>2, <2>3, SeqEqual
  <1>9. Len(t) = k + 1
    BY <1>1, <1>5
  <1>10. \A i \in 1 .. k : t[i + 1] = b[i - 1]
    BY <1>2, <1>7
  <1>11. QED BY <1>5, <1>6, <1>8, <1>9, <1>10 DEF s, t

LEMMA OpeningGrows ==
  ASSUME NEW b \in Buffers, NEW n \in Byte, NEW k \in 0 .. MaxPayload - 1, NEW byte \in Byte
  PROVE  /\ [b EXCEPT ![k] = byte] \in Buffers
         /\ Opening([b EXCEPT ![k] = byte], n, k + 1) = Append(Opening(b, n, k), byte)
  <1> DEFINE c == [b EXCEPT ![k] = byte] s == Opening(b, n, k) t == Opening(c, n, k + 1) u == Append(s, byte)
  <1>1. k \in Nat /\ k + 1 \in 0 .. MaxPayload /\ k \in 0 .. MaxPayload
    BY FrameSizes
  <1>2. c \in Buffers /\ c[k] = byte /\ \A i \in 0 .. MaxPayload - 1 : i # k => c[i] = b[i]
    BY DEF Buffers
  <1> HIDE DEF c
  <1>3. /\ s \in Seq(Byte) /\ Len(s) = k + 1 /\ s[1] = n /\ \A i \in 1 .. k : s[i + 1] = b[i - 1]
    BY <1>1, OpeningIs
  <1>4. /\ t \in Seq(Byte) /\ Len(t) = (k + 1) + 1 /\ t[1] = n /\ \A i \in 1 .. k + 1 : t[i + 1] = c[i - 1]
    BY <1>1, <1>2, OpeningIs
  <1> HIDE DEF s, t
  <1>5. /\ u \in Seq(Byte) /\ Len(u) = (k + 1) + 1 /\ u[(k + 1) + 1] = byte
        /\ \A i \in 1 .. k + 1 : u[i] = s[i]
    BY <1>3, AppendProperties
  <1> HIDE DEF u
  <1>6. ASSUME NEW i \in 1 .. (k + 1) + 1 PROVE t[i] = u[i]
    <2>1. CASE i = 1
      <3>1. 1 \in 1 .. k + 1
        BY <1>1
      <3>2. QED BY <1>3, <1>4, <1>5, <2>1, <3>1
    <2>2. CASE i = (k + 1) + 1
      <3>1. k + 1 \in 1 .. k + 1 /\ (k + 1) - 1 = k
        BY <1>1
      <3>2. t[(k + 1) + 1] = c[k]
        BY <1>4, <3>1
      <3>3. QED BY <1>2, <1>5, <2>2, <3>2
    <2>3. CASE i # 1 /\ i # (k + 1) + 1
      <3> DEFINE j == i - 1
      <3>1. j \in 1 .. k /\ j \in 1 .. k + 1 /\ j + 1 = i /\ i \in 1 .. k + 1
            /\ j - 1 \in 0 .. MaxPayload - 1 /\ j - 1 # k
        BY <1>1, <2>3, FrameSizes
      <3> HIDE DEF j
      <3>2. t[j + 1] = c[j - 1] /\ s[j + 1] = b[j - 1] /\ c[j - 1] = b[j - 1]
        BY <1>2, <1>3, <1>4, <3>1
      <3>3. QED BY <1>5, <3>1, <3>2
    <2>4. QED BY <2>1, <2>2, <2>3
  <1>7. t = u
    BY <1>4, <1>5, <1>6, SeqEqual
  <1>8. QED BY <1>2, <1>7 DEF c, s, t, u

-----------------------------------------------------------------------------
\* The checksum unit, one cycle behind what it is told.
Unit == crc = [value |-> crc.value, start |-> crc.start, stb |-> crc.stb, byte |-> crc.byte]

LEMMA UnitSteps ==
  ASSUME Unit
  PROVE  /\ CrcRests => /\ Unit' /\ CrcValue' = CrcValue
                        /\ crc'.value = CrcValue /\ crc'.start = FALSE /\ crc'.stb = FALSE
         /\ CrcStarts => Unit' /\ CrcValue' = InitialCrc
         /\ \A byte : CrcTakes(byte) => Unit' /\ CrcValue' = Absorb(CrcValue, byte)
  <1> DEFINE v == CrcValue
  <1>1. ASSUME CrcRests
        PROVE  /\ Unit' /\ CrcValue' = v
               /\ crc'.value = v /\ crc'.start = FALSE /\ crc'.stb = FALSE
    <2>1. crc' = [value |-> v, start |-> FALSE, stb |-> FALSE, byte |-> crc.byte]
      <3> HIDE DEF v
      <3>1. crc' = [crc EXCEPT !.value = v, !.start = FALSE, !.stb = FALSE]
        BY <1>1 DEF CrcRests, v
      <3>2. QED BY <3>1 DEF Unit
    <2> HIDE DEF v
    <2>2. QED BY <2>1 DEF Unit, CrcValue
  <1>2. ASSUME CrcStarts PROVE Unit' /\ CrcValue' = InitialCrc
    <2>1. crc' = [value |-> v, start |-> TRUE, stb |-> FALSE, byte |-> crc.byte]
      <3> HIDE DEF v
      <3>1. crc' = [crc EXCEPT !.value = v, !.start = TRUE, !.stb = FALSE]
        BY <1>2 DEF CrcStarts, v
      <3>2. QED BY <3>1 DEF Unit
    <2> HIDE DEF v
    <2>2. QED BY <2>1 DEF Unit, CrcValue
  <1>3. ASSUME NEW byte, CrcTakes(byte) PROVE Unit' /\ CrcValue' = Absorb(v, byte)
    <2>1. crc' = [value |-> v, start |-> FALSE, stb |-> TRUE, byte |-> byte]
      BY <1>3 DEF CrcTakes
    <2> HIDE DEF v
    <2>2. QED BY <2>1 DEF Unit, CrcValue
  <1>4. QED BY <1>1, <1>2, <1>3 DEF v

\* What the decoder has of a frame, state by state: the reference's body, the
\* checksum of that, at the latest a cycle later, and in a replay the time for it.
BodyOf(st, n, k, b) == IF st = "payload" THEN Opening(b, n, k)
                       ELSE IF st \in {"crc_lo", "crc_hi", "drain"} THEN Opening(b, n, n) ELSE << >>
DecoderStates == {"idle", "sof1", "len", "payload", "crc_lo", "crc_hi", "drain"}
Replays == /\ index \in 0 .. length - 1 /\ wait >= length - index /\ came \in Byte
           /\ crc.value = crcLo + came * 2^ByteBits
           /\ returned = << >> /\ replayed = [i \in 1 .. index |-> <<i - 1, buffer[i - 1]>>]
Reads == /\ wait \in 0 .. Gap - 1 /\ buffer \in Buffers /\ Unit /\ state \in DecoderStates
         /\ state = "len" => CrcValue = InitialCrc
         /\ state \in {"payload", "crc_lo", "crc_hi", "drain"} => length \in Byte /\ length <= MaxPayload
         /\ state = "payload" => index \in 0 .. length - 1
         /\ state \in {"payload", "crc_lo"} => CrcValue = Checksum(Body)
         /\ state \in {"crc_hi", "drain"} => crc.value = Checksum(Body) /\ crc.start = FALSE /\ crc.stb = FALSE
         /\ state = "crc_hi" => came = crcLo /\ returned = << >>
         /\ state = "drain" => Replays

LEMMA BodyIs == Body = BodyOf(state, length, index, buffer) /\ Body' = BodyOf(state', length', index', buffer')
  BY DEF Body, BodyOf, Opening, Kept

LEMMA InitReads == DecoderInit => Reads /\ R!Init
  <1> SUFFICES ASSUME DecoderInit PROVE Reads /\ R!Init
    OBVIOUS
  <1>1. buffer \in Buffers
    <2>1. 0 \in Byte
      BY DecoderAssumption, CrcAssumption DEF Byte
    <2>2. QED BY <2>1 DEF DecoderInit, Buffers
  <1>2. Unit
    BY DEF DecoderInit, Unit
  <1>3. Reads
    BY <1>1, <1>2, FrameSizes DEF DecoderInit, Reads, DecoderStates
  <1>4. R!Init
    BY DEF DecoderInit, R!Init, Body
  <1>5. QED BY <1>3, <1>4

LEMMA IdleFollows ==
  ASSUME Reads, NEW byte \in Byte, ByteCycle(byte), Idle(byte) \/ Sof1(byte) \/ BadLength(byte)
  PROVE  Reads' /\ R!Feed(byte)
  <1>1. wait' \in 0 .. Gap - 1 /\ came' = byte /\ returned' = << >> /\ crcLo' = crcLo /\ buffer' = buffer
    BY FrameSizes DEF ByteCycle, Idle, Sof1, BadLength, Become
  <1>2. Unit' /\ (state' = "len" => CrcValue' = InitialCrc)
    BY UnitSteps DEF Reads, Idle, Sof1, BadLength, Become
  <1>3. state \in {"idle", "sof1", "len"} /\ state' \in {"idle", "sof1", "len"}
    BY DEF Idle, Sof1, BadLength, Become
  <1>4. Body = << >> /\ Body' = << >>
    BY <1>3, BodyIs DEF BodyOf
  <1>5. Reads'
    BY <1>1, <1>2, <1>3 DEF Reads, DecoderStates
  <1>6. R!Collect(byte)
    <2>1. CASE Idle(byte)
      BY <1>3, <1>4, <2>1 DEF Idle, Become, R!Collect, R!Become
    <2>2. CASE Sof1(byte)
      BY <1>3, <1>4, <2>2 DEF Sof1, Become, R!Collect, R!Become
    <2>3. CASE BadLength(byte)
      BY <1>3, <1>4, <2>3 DEF BadLength, Become, R!Collect, R!Reset
    <2>4. QED BY <2>1, <2>2, <2>3
  <1>7. QED BY <1>1, <1>3, <1>5, <1>6 DEF R!Feed

LEMMA LengthFollows ==
  ASSUME Reads, NEW byte \in Byte, ByteCycle(byte), Length(byte)
  PROVE  Reads' /\ R!Feed(byte)
  <1>1. wait' \in 0 .. Gap - 1 /\ came' = byte /\ returned' = << >> /\ buffer' = buffer
    BY FrameSizes DEF ByteCycle, Length
  <1>2. /\ state = "len" /\ byte <= MaxPayload /\ length' = byte /\ index' = 0
        /\ state' = IF byte = 0 THEN "crc_lo" ELSE "payload"
    BY DEF Length
  <1>3. byte \in Nat /\ 0 \in 0 .. MaxPayload /\ buffer \in Buffers
    BY FrameSizes DEF Reads
  <1>4. /\ Opening(buffer, byte, 0) \in Seq(Byte) /\ Len(Opening(buffer, byte, 0)) = 1
        /\ Opening(buffer, byte, 0)[1] = byte
    <2>1. PICK k \in 0 .. MaxPayload : k = 0
      BY <1>3
    <2>2. /\ Opening(buffer, byte, k) \in Seq(Byte) /\ Len(Opening(buffer, byte, k)) = k + 1
          /\ Opening(buffer, byte, k)[1] = byte
      BY <1>3, OpeningIs
    <2>3. QED BY <2>1, <2>2
  <1>5. Opening(buffer, byte, 0) = <<byte>>
    <2>1. <<byte>> \in Seq(Byte) /\ Len(<<byte>>) = 1 /\ <<byte>>[1] = byte
      OBVIOUS
    <2>2. \A i \in 1 .. 1 : Opening(buffer, byte, 0)[i] = <<byte>>[i]
      BY <1>4, <2>1
    <2>3. QED BY <1>4, <2>1, <2>2, SeqEqual
  <1>6. Body = << >> /\ Body' = <<byte>>
    <2>1. byte = 0 => Opening(buffer, byte, byte) = Opening(buffer, byte, 0)
      OBVIOUS
    <2>2. QED BY <1>1, <1>2, <1>5, <2>1, BodyIs DEF BodyOf
  <1>7. Unit' /\ CrcValue' = Checksum(<<byte>>)
    <2>1. Unit' /\ CrcValue' = Absorb(InitialCrc, byte)
      BY <1>2, UnitSteps DEF Reads, Length
    <2>2. << >> \in Seq(Byte) /\ Len(<< >>) = 0 /\ Append(<< >>, byte) = <<byte>>
      OBVIOUS
    <2>3. Checksum(<<byte>>) = Absorb(InitialCrc, byte)
      BY <2>2, ChecksumGoesOn, ChecksumOfNothing
    <2>4. QED BY <2>1, <2>3
  <1>8. Reads'
    BY <1>1, <1>2, <1>3, <1>6, <1>7 DEF Reads, DecoderStates
  <1>9. R!Collect(byte)
    BY <1>2, <1>3, <1>6 DEF R!Collect
  <1>10. QED BY <1>1, <1>2, <1>8, <1>9 DEF R!Feed

LEMMA PayloadFollows ==
  ASSUME Reads, NEW byte \in Byte, ByteCycle(byte), Payload(byte)
  PROVE  Reads' /\ R!Feed(byte)
  <1>1. wait' \in 0 .. Gap - 1 /\ came' = byte /\ returned' = << >> /\ length' = length
    BY FrameSizes DEF ByteCycle, Payload
  <1>2. /\ state = "payload" /\ buffer' = [buffer EXCEPT ![index] = byte]
        /\ \/ index = length - 1 /\ state' = "crc_lo" /\ index' = index
           \/ index # length - 1 /\ state' = state /\ index' = Following(index)
    BY DEF Payload
  <1>3. /\ length \in Byte /\ length \in Nat /\ length <= MaxPayload /\ index \in 0 .. length - 1
        /\ index \in 0 .. MaxPayload - 1 /\ index \in 0 .. MaxPayload /\ buffer \in Buffers
    BY <1>2, FrameSizes DEF Reads
  <1>4. Body = Opening(buffer, length, index)
    BY <1>2, BodyIs DEF BodyOf
  <1>5. buffer' \in Buffers /\ Opening(buffer', length, index + 1) = Append(Body, byte)
    BY <1>2, <1>3, <1>4, OpeningGrows
  <1>6. Body \in Seq(Byte) /\ Len(Body) = index + 1 /\ Body[1] = length
    BY <1>3, <1>4, OpeningIs
  <1>7. /\ index # length - 1 => index' = index + 1 /\ index' \in 0 .. length - 1 /\ state' = "payload"
        /\ index = length - 1 => index + 1 = length /\ state' = "crc_lo"
    BY <1>2, <1>3, FrameSizes DEF Following
  <1>8. Body' = Append(Body, byte)
    BY <1>1, <1>5, <1>7, BodyIs DEF BodyOf
  <1>9. Unit' /\ CrcValue' = Checksum(Body')
    <2>1. Unit' /\ CrcValue' = Absorb(Checksum(Body), byte)
      BY <1>2, UnitSteps DEF Reads, Payload
    <2>2. QED BY <1>6, <1>8, <2>1, ChecksumGoesOn
  <1>10. Reads'
    BY <1>1, <1>3, <1>5, <1>7, <1>9 DEF Reads, DecoderStates
  <1>11. state' = IF Len(Body) = Body[1] THEN "crc_lo" ELSE "payload"
    BY <1>2, <1>3, <1>6, <1>7
  <1>12. R!Collect(byte)
    BY <1>2, <1>7, <1>8, <1>11 DEF R!Collect
  <1>13. QED BY <1>1, <1>2, <1>7, <1>10, <1>12 DEF R!Feed

LEMMA CrcLoFollows ==
  ASSUME Reads, NEW byte \in Byte, ByteCycle(byte), CrcLo(byte)
  PROVE  Reads' /\ R!Feed(byte)
  <1>1. /\ wait' \in 0 .. Gap - 1 /\ came' = byte /\ returned' = << >>
        /\ length' = length /\ index' = index /\ buffer' = buffer
    BY FrameSizes DEF ByteCycle, CrcLo
  <1>2. state = "crc_lo" /\ crcLo' = byte /\ state' = "crc_hi"
    BY DEF CrcLo
  <1>3. Body = Opening(buffer, length, length) /\ Body' = Body
    BY <1>1, <1>2, BodyIs DEF BodyOf
  <1>4. Unit' /\ crc'.value = Checksum(Body) /\ crc'.start = FALSE /\ crc'.stb = FALSE
    BY <1>2, UnitSteps DEF Reads, CrcLo
  <1>5. Reads'
    BY <1>1, <1>2, <1>3, <1>4 DEF Reads, DecoderStates
  <1>6. R!Collect(byte)
    BY <1>2, <1>3 DEF R!Collect
  <1>7. QED BY <1>1, <1>2, <1>5, <1>6 DEF R!Feed

\* The last byte of a frame that does not match is a feed that returns nothing;
\* one that matches leaves the reference waiting until the replay is over.
LEMMA CrcHiFollows ==
  ASSUME Reads, Empty = FALSE, NEW byte \in Byte, ByteCycle(byte), CrcHi(byte)
  PROVE  Reads' /\ (R!Feed(byte) \/ UNCHANGED R!refVars)
  <1>1. /\ wait' = Gap - 1 /\ wait' \in 0 .. Gap - 1 /\ came' = byte /\ returned' = << >> /\ replayed' = << >>
        /\ length' = length /\ buffer' = buffer /\ crcLo' = crcLo /\ state = "crc_hi"
    BY FrameSizes DEF ByteCycle, CrcHi
  <1>2. /\ length \in Byte /\ length \in Nat /\ length <= MaxPayload /\ buffer \in Buffers
        /\ came = crcLo /\ returned = << >> /\ crc.value = Checksum(Body)
    BY <1>1, FrameSizes DEF Reads
  <1>3. Body = Opening(buffer, length, length)
    BY <1>1, BodyIs DEF BodyOf
  <1>4. Unit' /\ crc'.value = crc.value /\ crc'.start = FALSE /\ crc'.stb = FALSE
    BY <1>1, UnitSteps DEF Reads, CrcHi, CrcValue
  <1>5. CASE Matches(byte)
    <2>1. length # 0
      BY <1>1, <1>5 DEF ByteCycle, Comes
    <2>2. state' = "drain" /\ index' = 0
      BY <1>5 DEF CrcHi
    <2>3. Body' = Body
      BY <1>1, <1>3, <2>2, BodyIs DEF BodyOf
    <2>4. Replays'
      <3>1. index' \in 0 .. length' - 1 /\ wait' >= length' - index'
        BY <1>1, <1>2, <2>1, <2>2, FrameSizes
      <3>2. replayed' = [i \in 1 .. index' |-> <<i - 1, buffer'[i - 1]>>]
        BY <1>1, <2>2
      <3>3. crc'.value = crcLo' + came' * 2^ByteBits
        BY <1>1, <1>4, <1>5 DEF Matches
      <3>4. QED BY <1>1, <3>1, <3>2, <3>3 DEF Replays
    <2>5. Reads'
      BY <1>1, <1>2, <1>4, <2>2, <2>3, <2>4 DEF Reads, DecoderStates
    <2>6. UNCHANGED R!refVars
      BY <1>1, <1>2, <2>2, <2>3 DEF R!refVars
    <2>7. QED BY <2>5, <2>6
  <1>6. CASE ~Matches(byte)
    <2>1. state' = "idle"
      BY <1>6 DEF CrcHi
    <2>2. Body' = << >>
      BY <2>1, BodyIs DEF BodyOf
    <2>3. Reads'
      BY <1>1, <1>2, <1>4, <2>1 DEF Reads, DecoderStates
    <2>4. R!Checksum(Body) # crcLo + byte * 2^ByteBits
      BY <1>2, <1>6, SameSum DEF Matches
    <2>5. R!Feed(byte)
      BY <1>1, <2>1, <2>2, <2>4 DEF R!Feed, R!Reset
    <2>6. QED BY <2>3, <2>5
  <1>7. QED BY <1>5, <1>6

LEMMA QuietFollows ==
  ASSUME Reads, QuietCycle
  PROVE  Reads' /\ UNCHANGED R!refVars
  <1>1. /\ state # "drain" /\ state' = state /\ length' = length /\ crcLo' = crcLo /\ index' = index
        /\ buffer' = buffer /\ came' = came /\ returned' = returned /\ replayed' = replayed
    BY DEF QuietCycle, registers
  <1>2. wait' \in 0 .. Gap - 1
    BY FrameSizes DEF QuietCycle, Passes, Reads
  <1>3. Body' = Body
    BY <1>1, BodyIs
  <1>4. Unit' /\ CrcValue' = CrcValue /\ crc'.value = CrcValue /\ crc'.start = FALSE /\ crc'.stb = FALSE
    BY UnitSteps DEF QuietCycle, Reads
  <1>5. state = "crc_hi" => CrcValue = crc.value
    BY DEF Reads, CrcValue
  <1>6. Reads'
    BY <1>1, <1>2, <1>3, <1>4, <1>5 DEF Reads
  <1>7. UNCHANGED R!refVars
    BY <1>1, <1>3 DEF R!refVars
  <1>8. QED BY <1>6, <1>7

LEMMA DrainFollows ==
  ASSUME Reads, Drain
  PROVE  Reads' /\ (R!Next \/ UNCHANGED R!refVars)
  <1>1. /\ state = "drain" /\ length' = length /\ crcLo' = crcLo /\ buffer' = buffer
        /\ replayed' = Replayed
    BY DEF Drain
  <1>2. /\ length \in Byte /\ length \in Nat /\ length <= MaxPayload /\ buffer \in Buffers
        /\ crc.value = Checksum(Body) /\ crc.start = FALSE /\ crc.stb = FALSE /\ wait \in 0 .. Gap - 1
        /\ index \in 0 .. length - 1 /\ wait >= length - index /\ came \in Byte
        /\ crc.value = crcLo + came * 2^ByteBits
        /\ returned = << >> /\ replayed = [i \in 1 .. index |-> <<i - 1, buffer[i - 1]>>]
    BY <1>1, FrameSizes DEF Reads, Replays
  <1>3. wait # 0 /\ wait' = wait - 1 /\ wait' \in 0 .. Gap - 1 /\ came' = came
    BY <1>2, FrameSizes DEF Drain, Dropped, Passes
  <1>4. Unit' /\ crc'.value = crc.value /\ crc'.start = FALSE /\ crc'.stb = FALSE
    BY <1>2, UnitSteps DEF Reads, Drain, CrcValue
  <1>5. Body = Opening(buffer, length, length)
    BY <1>1, BodyIs DEF BodyOf
  <1>6. Replayed = [i \in 1 .. index + 1 |-> <<i - 1, buffer[i - 1]>>]
    <2>1. index \in Nat /\ index <= MaxPayload
      BY <1>2, FrameSizes
    <2> DEFINE s == [i \in 1 .. index |-> <<i - 1, buffer[i - 1]>>]
               t == [i \in 1 .. index + 1 |-> <<i - 1, buffer[i - 1]>>]
               T == {<<i - 1, buffer[i - 1]>> : i \in 1 .. index + 1}
    <2>2. s \in Seq(T) /\ Len(s) = index
      <3>1. s \in [1 .. index -> T]
        BY <2>1
      <3> HIDE DEF s, T
      <3>2. s \in Seq(T)
        BY <2>1, <3>1, SeqDef
      <3>3. Len(s) \in Nat /\ 1 .. Len(s) = 1 .. index
        BY <3>1, <3>2, LenProperties
      <3>4. QED BY <2>1, <3>2, <3>3
    <2>3. t \in Seq(T) /\ Len(t) = index + 1
      <3>1. t \in [1 .. index + 1 -> T] /\ index + 1 \in Nat
        BY <2>1
      <3> HIDE DEF t, T
      <3>2. t \in Seq(T)
        BY <3>1, SeqDef
      <3>3. Len(t) \in Nat /\ 1 .. Len(t) = 1 .. index + 1
        BY <3>1, <3>2, LenProperties
      <3>4. QED BY <3>1, <3>2, <3>3
    <2>4. \A i \in 1 .. index : s[i] = <<i - 1, buffer[i - 1]>>
      OBVIOUS
    <2>5. \A i \in 1 .. index + 1 : t[i] = <<i - 1, buffer[i - 1]>>
      OBVIOUS
    <2>6. <<index, buffer[index]>> \in T
      <3>1. index + 1 \in 1 .. index + 1 /\ (index + 1) - 1 = index
        BY <2>1
      <3>2. QED BY <3>1
    <2> DEFINE u == Append(s, <<index, buffer[index]>>)
    <2>7. Replayed = u
      <3> HIDE DEF u
      <3>1. ~(Len(replayed) > MaxPayload)
        BY <1>2, <2>1, <2>2, FrameSizes
      <3>2. replayed = s
        BY <1>2
      <3> HIDE DEF s
      <3>3. QED BY <3>1, <3>2 DEF Replayed, u
    <2> HIDE DEF s, t, T
    <2>8. /\ u \in Seq(T) /\ Len(u) = index + 1 /\ u[index + 1] = <<index, buffer[index]>>
          /\ \A i \in 1 .. index : u[i] = s[i]
      BY <2>2, <2>6, AppendProperties
    <2> HIDE DEF u
    <2>9. ASSUME NEW i \in 1 .. index + 1 PROVE u[i] = t[i]
      <3>1. CASE i = index + 1
        <4>1. (index + 1) - 1 = index
          BY <2>1
        <4>2. t[i] = <<index, buffer[index]>>
          BY <2>5, <3>1, <4>1
        <4>3. QED BY <2>8, <3>1, <4>2
      <3>2. CASE i # index + 1
        <4>1. i \in 1 .. index
          BY <2>1, <3>2
        <4>2. QED BY <2>4, <2>5, <2>8, <4>1
      <3>3. QED BY <3>1, <3>2
    <2>10. u = t
      BY <2>3, <2>8, <2>9, SeqEqual
    <2>11. QED BY <2>7, <2>10 DEF t
  <1>7. CASE ReplayDone
    <2>1. index + 1 = length /\ index = length - 1
      BY <1>2, <1>7 DEF ReplayDone
    <2>2. state' = "idle" /\ returned' = <<[i \in 1 .. Len(Replayed) |-> Replayed[i][2]]>>
      BY <1>7 DEF Drain
    <2>3. [i \in 1 .. Len(Replayed) |-> Replayed[i][2]] = Kept(buffer, length)
      <3> DEFINE t == [i \in 1 .. length |-> <<i - 1, buffer[i - 1]>>]
      <3>1. Replayed = t
        BY <1>6, <2>1
      <3>2. \A i \in 1 .. length : t[i][2] = buffer[i - 1]
        OBVIOUS
      <3>3. Len(t) = length
        <4> DEFINE T == {<<i - 1, buffer[i - 1]>> : i \in 1 .. length}
        <4>1. t \in [1 .. length -> T]
          OBVIOUS
        <4> HIDE DEF t, T
        <4>2. t \in Seq(T)
          BY <1>2, <4>1, SeqDef
        <4>3. Len(t) \in Nat /\ 1 .. Len(t) = 1 .. length
          BY <4>1, <4>2, LenProperties
        <4>4. QED BY <1>2, <4>3
      <3> HIDE DEF t
      <3>4. QED BY <3>1, <3>2, <3>3 DEF Kept
    <2>4. length \in 0 .. MaxPayload
      BY <1>2, FrameSizes
    <2>5. Tail(Body) = Kept(buffer, length)
      BY <1>2, <1>5, <2>4, OpeningIs
    <2>6. returned' = <<Tail(Body)>>
      BY <2>2, <2>3, <2>5
    <2>7. Body' = << >>
      BY <2>2, BodyIs DEF BodyOf
    <2>8. Reads'
      BY <1>1, <1>2, <1>3, <1>4, <2>2 DEF Reads, DecoderStates
    <2>9. R!Checksum(Body) = crcLo + came * 2^ByteBits
      BY <1>2, SameSum
    <2>10. R!Feed(came)
      BY <1>1, <1>3, <2>2, <2>6, <2>7, <2>9 DEF R!Feed, R!Reset
    <2>11. came \in R!Byte
      BY <1>2 DEF R!Byte, Byte
    <2>12. QED BY <2>8, <2>10, <2>11 DEF R!Next
  <1>8. CASE ~ReplayDone
    <2>1. index' = index + 1 /\ index' \in 0 .. length - 1
      BY <1>2, <1>8, FrameSizes DEF Drain, ReplayDone, Following
    <2>2. state' = "drain" /\ returned' = << >>
      BY <1>1, <1>8 DEF Drain
    <2>3. Body' = Body
      BY <1>1, <1>5, <2>2, BodyIs DEF BodyOf
    <2>4. Replays'
      <3>1. wait' >= length' - index'
        BY <1>1, <1>2, <1>3, <2>1, FrameSizes
      <3>2. replayed' = [i \in 1 .. index' |-> <<i - 1, buffer'[i - 1]>>]
        BY <1>1, <1>6, <2>1
      <3>3. crc'.value = crcLo' + came' * 2^ByteBits /\ came' \in Byte /\ index' \in 0 .. length' - 1
        BY <1>1, <1>2, <1>3, <1>4, <2>1
      <3>4. QED BY <2>2, <3>1, <3>2, <3>3 DEF Replays
    <2>5. Reads'
      BY <1>1, <1>2, <1>3, <1>4, <2>2, <2>3, <2>4 DEF Reads, DecoderStates
    <2>6. UNCHANGED R!refVars
      BY <1>1, <1>2, <2>2, <2>3 DEF R!refVars
    <2>7. QED BY <2>5, <2>6
  <1>9. QED BY <1>7, <1>8

LEMMA ReadsFollow ==
  ASSUME Reads, Empty = FALSE, [DecoderNext]_decoderVars
  PROVE  Reads' /\ [R!Next]_R!refVars
  <1>1. CASE QuietCycle
    BY <1>1, QuietFollows
  <1>2. CASE Drain
    BY <1>2, DrainFollows
  <1>3. ASSUME NEW byte \in Byte, ByteCycle(byte) PROVE Reads' /\ (R!Feed(byte) \/ UNCHANGED R!refVars)
    BY <1>3, IdleFollows, LengthFollows, PayloadFollows, CrcLoFollows, CrcHiFollows DEF ByteCycle
  <1>4. Byte = R!Byte
    BY DEF Byte, R!Byte
  <1>5. CASE UNCHANGED decoderVars
    <2>1. /\ state' = state /\ length' = length /\ crcLo' = crcLo /\ index' = index /\ buffer' = buffer
          /\ crc' = crc /\ wait' = wait /\ came' = came /\ returned' = returned /\ replayed' = replayed
      BY <1>5 DEF decoderVars, registers
    <2>2. Body' = Body /\ CrcValue' = CrcValue
      BY <2>1, BodyIs DEF CrcValue
    <2>3. Reads'
      BY <2>1, <2>2 DEF Reads, Replays, Unit
    <2>4. UNCHANGED R!refVars
      BY <2>1, <2>2 DEF R!refVars
    <2>5. QED BY <2>3, <2>4
  <1>6. QED BY <1>1, <1>2, <1>3, <1>4, <1>5 DEF DecoderNext, R!Next

-----------------------------------------------------------------------------
\* The decoder behind the receiver: what is handed on is a byte, and a cycle of
\* the line is one of each of the two or of the transmitter only.
InFlight == flying \in Seq(Bytes)
Conveyed == Conveys /\ InFlight

LEMMA StillInFlight == Conveys /\ InFlight /\ [UartNext]_uartVars => InFlight'
  <1> SUFFICES ASSUME Conveys, InFlight, [UartNext]_uartVars PROVE InFlight'
    OBVIOUS
  <1>1. Arrived \in Seq(Bytes)
    <2>1. CASE stb
      <3>1. flying \in Seq(Bytes) /\ flying # << >>
        BY <2>1, ConveyedArrive DEF BytesArrive, InFlight
      <3>2. Tail(flying) \in Seq(Bytes)
        BY <3>1, HeadTailProperties
      <3>3. QED BY <2>1, <3>2 DEF Arrived
    <2>2. CASE ~stb
      BY <2>2 DEF Arrived, InFlight
    <2>3. QED BY <2>1, <2>2
  <1>2. CASE Together \/ RxAlone \/ Glitch
    BY <1>1, <1>2 DEF Together, RxAlone, Glitch, InFlight
  <1>3. ASSUME NEW byte \in Bytes, Begins(byte) PROVE InFlight'
    <2>1. flying' = Append(Arrived, byte)
      BY <1>3 DEF Begins
    <2>2. Append(Arrived, byte) \in Seq(Bytes)
      BY <1>1, AppendProperties
    <2>3. QED BY <2>1, <2>2 DEF InFlight
  <1>4. CASE TxAlone \/ UNCHANGED uartVars
    BY <1>4 DEF TxAlone, uartVars, InFlight
  <1>5. QED BY <1>2, <1>3, <1>4 DEF UartNext

LEMMA LineSteps ==
  ASSUME Conveys, InFlight, [LineNext]_lineVars
  PROVE  [UartNext]_uartVars /\ [DecoderNext]_decoderVars
  <1>1. Byte = Bytes
    BY LineAssumption DEF Byte, Bytes
  <1>2. stb => data \in Byte
    <2>1. SUFFICES ASSUME stb PROVE data \in Byte
      OBVIOUS
    <2>2. flying \in Seq(Bytes) /\ flying # << >> /\ data = Head(flying)
      BY <2>1, ConveyedArrive DEF BytesArrive, InFlight
    <2>3. Head(flying) \in Bytes
      BY <2>2, HeadTailProperties
    <2>4. QED BY <1>1, <2>2, <2>3
  <1>3. Decodes => DecoderNext
    BY <1>2 DEF Decodes, DecoderNext
  <1>4. LineNext => UartNext /\ (DecoderNext \/ UNCHANGED decoderVars)
    BY <1>1, <1>3 DEF LineNext, BothEdges, Begun, RxEdgeAlone, TxEdgeAlone, Noise, UartNext
  <1>5. QED BY <1>4 DEF lineVars

LEMMA InitConveyed == LineInit => Conveyed
  <1>1. UartInit => InFlight
    BY DEF UartInit, InFlight
  <1>2. QED BY <1>1, InitConveys DEF LineInit, Conveyed

LEMMA StillConveyed == Conveyed /\ [LineNext]_lineVars => Conveyed'
  BY LineSteps, NextConveys, StillInFlight DEF Conveyed

\* With a decoder behind it the line hands on every byte as it was sent too
\* (uart.py 75-123).
THEOREM AlwaysArriveOnTheLine == LineSpec => []BytesArrive
  <1>1. LineSpec => []Conveyed
    BY InitConveyed, StillConveyed, PTL DEF LineSpec
  <1>2. Conveyed => BytesArrive
    BY ConveyedArrive DEF Conveyed
  <1>3. QED BY <1>1, <1>2, PTL

\* Whatever bytes it is given, the hardware decoder replays exactly the payloads
\* that protocol.py's decoder returns for them, for every size of a byte and of a
\* payload and every polynomial of the checksum, as long as bytes are further apart
\* than a replay is long (framing.py 24-36) and no frame is empty.
THEOREM DecoderIsReference == Empty = FALSE /\ DecoderSpec => IsReference
  <1>1. DecoderInit => Reads /\ R!Init
    BY InitReads
  <1>2. CASE Empty = FALSE
    <2>1. Reads /\ [DecoderNext]_decoderVars => Reads' /\ [R!Next]_R!refVars
      BY <1>2, ReadsFollow
    <2>2. QED BY <1>1, <2>1, PTL DEF DecoderSpec, IsReference, R!Spec
  <1>3. QED BY <1>2

\* And so it does behind the receiver, with the bytes that come down the line.
THEOREM AlwaysReference == Empty = FALSE /\ LineSpec => IsReference
  <1>1. LineInit => DecoderInit
    BY DEF LineInit
  <1>2. Conveyed /\ [LineNext]_lineVars => [DecoderNext]_decoderVars
    BY LineSteps DEF Conveyed
  <1>3. LineSpec => DecoderSpec
    BY <1>1, <1>2, InitConveyed, StillConveyed, PTL DEF LineSpec, DecoderSpec
  <1>4. QED BY <1>3, DecoderIsReference
=============================================================================
