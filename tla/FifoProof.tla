------------------------------ MODULE FifoProof ------------------------------
(***************************************************************************)
(* Proofs about AsyncFifo and about FrameMailbox, which extends it.        *)
(***************************************************************************)
EXTENDS FrameMailbox, SequenceTheorems, TLAPS

(***************************************************************************)
(* The FIFO of hdl/fifo.py is a bounded queue for every depth, not only    *)
(* for the one TLC checks.  The argument is one picture: going round the   *)
(* ring of pointers from the writer's oldest view of the reader, one meets *)
(*      wRptr, wMeta, rBin, rWptr, rMeta, wBin                             *)
(* in that order within one lap.  Each edge moves each of them at most up  *)
(* to the next one, and the full test stops wBin a lap after wRptr.        *)
(***************************************************************************)

Inv == TypeOK /\ Views

\* Pointer arithmetic, one fact at a time.
LEMMA DistType == ASSUME NEW p \in Pointer, NEW q \in Pointer
                  PROVE  /\ Dist(p, q) \in 0 .. 2 * Depth - 1
                         /\ Dist(p, q) = 0 <=> p = q
  BY DepthAssumption DEF Pointer, Dist

LEMMA AheadType == ASSUME NEW p \in Pointer, NEW k \in Pointer
                   PROVE  /\ Ahead(p, k) \in Pointer
                          /\ Addr(Ahead(p, k)) \in Address
  BY DepthAssumption DEF Pointer, Address, Ahead, Addr

\* Moving a pointer up by one takes it further from what is behind it, and
\* nearer to what is ahead of it.
LEMMA StepDist == ASSUME NEW p \in Pointer, NEW q \in Pointer
                  PROVE  /\ Dist(p, q) < 2 * Depth - 1 => Dist(p, Ahead(q, 1)) = Dist(p, q) + 1
                         /\ p # q => Dist(Ahead(p, 1), q) = Dist(p, q) - 1
  BY DepthAssumption DEF Pointer, Dist, Ahead

\* Distances add up within a lap.
LEMMA AddDist == ASSUME NEW p \in Pointer, NEW q \in Pointer, NEW r \in Pointer,
                        Dist(p, q) + Dist(q, r) < 2 * Depth
                 PROVE  Dist(p, q) + Dist(q, r) = Dist(p, r)
  BY DepthAssumption DEF Pointer, Dist

-----------------------------------------------------------------------------
\* The lap in between is exactly the level the writer computes.
LEMMA RoundIsLevel == ASSUME Inv
                      PROVE  /\ Round = Level
                             /\ Dist(rBin, rWptr) + Dist(rWptr, rMeta) + Dist(rMeta, wBin)
                                  = Occupancy
  <1> DEFINE a == Dist(wRptr, wMeta)   b == Dist(wMeta, rBin)   c == Dist(rBin, rWptr)
             d == Dist(rWptr, rMeta)   e == Dist(rMeta, wBin)
  <1>1. /\ a \in 0 .. 2 * Depth - 1 /\ b \in 0 .. 2 * Depth - 1 /\ c \in 0 .. 2 * Depth - 1
        /\ d \in 0 .. 2 * Depth - 1 /\ e \in 0 .. 2 * Depth - 1
    BY DistType DEF Inv, TypeOK
  <1>2. a + b + c + d + e <= Depth
    BY DEF Inv, Views, Round
  <1> HIDE DEF a, b, c, d, e
  <1>3. c + d = Dist(rBin, rMeta)
    <2>1. c + d < 2 * Depth BY <1>1, <1>2, DepthAssumption
    <2>2. QED BY <2>1, AddDist DEF c, d, Inv, TypeOK
  <1>4. c + d + e = Dist(rBin, wBin)
    <2>1. Dist(rBin, rMeta) + e < 2 * Depth BY <1>1, <1>2, <1>3, DepthAssumption
    <2>2. QED BY <2>1, <1>3, AddDist DEF e, Inv, TypeOK
  <1>5. b + Dist(rBin, wBin) = Dist(wMeta, wBin)
    <2>1. b + Dist(rBin, wBin) < 2 * Depth BY <1>1, <1>2, <1>4, DepthAssumption
    <2>2. QED BY <2>1, AddDist DEF b, Inv, TypeOK
  <1>6. a + Dist(wMeta, wBin) = Dist(wRptr, wBin)
    <2>1. a + Dist(wMeta, wBin) < 2 * Depth BY <1>1, <1>2, <1>4, <1>5, DepthAssumption
    <2>2. QED BY <2>1, AddDist DEF a, Inv, TypeOK
  <1>7. a + b + c + d + e = Level
    BY <1>1, <1>4, <1>5, <1>6 DEF Level
  <1>8. QED
    BY <1>4, <1>7 DEF Round, Occupancy, a, b, c, d, e

\* What one clock edge does to one side's pointers, and to their distances.
LEMMA WriteMoves ==
  ASSUME Inv, NEW inc \in BOOLEAN, NEW d \in Data, WriteClocked(inc, FALSE, d)
  PROVE  /\ memory' \in [Address -> Data]
         /\ wBin' \in Pointer /\ wMeta' = rBin /\ wRptr' = wMeta
         /\ \/ wBin' = wBin
            \/ wBin' = Ahead(wBin, 1) /\ Round < Depth
  <1>1. Addr(wBin) \in Address
    BY DepthAssumption DEF Inv, TypeOK, Pointer, Address, Addr
  <1>2. Ahead(wBin, 1) \in Pointer
    BY DepthAssumption, AheadType DEF Inv, TypeOK, Pointer
  <1>3. memory' \in [Address -> Data]
    BY <1>1 DEF WriteClocked, Inv, TypeOK
  <1>4. ~Full => Round < Depth
    <2>1. Level \in 0 .. 2 * Depth - 1
      BY DistType DEF Level, Inv, TypeOK
    <2>2. ~Full => Level # Depth
      BY DEF Full, Level
    <2>3. Level <= Depth
      BY RoundIsLevel DEF Inv, Views
    <2>4. QED BY <2>1, <2>2, <2>3, RoundIsLevel, DepthAssumption
  <1>5. QED
    BY <1>2, <1>3, <1>4 DEF WriteClocked, Inv, TypeOK

LEMMA ReadMoves ==
  ASSUME Inv, NEW inc \in BOOLEAN, ReadClocked(inc, FALSE)
  PROVE  /\ rBin' \in Pointer /\ rMeta' = wBin /\ rWptr' = rMeta
         /\ \/ rBin' = rBin
            \/ rBin' = Ahead(rBin, 1) /\ rBin # rWptr
  BY DepthAssumption, AheadType DEF Inv, TypeOK, ReadClocked, Empty, Pointer

LEMMA InitInv == Init => Inv
  <1> SUFFICES ASSUME Init PROVE Inv
    OBVIOUS
  <1>1. 0 \in Pointer
    BY DepthAssumption DEF Pointer
  <1>2. Dist(0, 0) = 0
    BY <1>1, DistType
  <1>3. QED
    BY <1>1, <1>2, DepthAssumption DEF Init, Inv, TypeOK, Views, Round

\* The reader's own part of the way, after a step of its pointer.
LEMMA ReaderPart ==
  ASSUME Inv, NEW r \in Pointer,
         r = rBin \/ (r = Ahead(rBin, 1) /\ rBin # rWptr)
  PROVE  /\ Dist(wMeta, r) + Dist(r, rMeta)
              = Dist(wMeta, rBin) + Dist(rBin, rWptr) + Dist(rWptr, rMeta)
         /\ Dist(rBin, r) + Dist(r, rMeta) = Dist(rBin, rWptr) + Dist(rWptr, rMeta)
  <1> DEFINE a == Dist(wRptr, wMeta)   b == Dist(wMeta, rBin)   c == Dist(rBin, rWptr)
             d == Dist(rWptr, rMeta)   e == Dist(rMeta, wBin)
  <1>1. /\ a \in 0 .. 2 * Depth - 1 /\ b \in 0 .. 2 * Depth - 1 /\ c \in 0 .. 2 * Depth - 1
        /\ d \in 0 .. 2 * Depth - 1 /\ e \in 0 .. 2 * Depth - 1
    BY DistType DEF Inv, TypeOK
  <1>2. a + b + c + d + e <= Depth
    BY DEF Inv, Views, Round
  <1>3. Dist(rBin, rBin) = 0
    BY DistType DEF Inv, TypeOK
  <1>4. c + d = Dist(rBin, rMeta)
    BY <1>1, <1>2, AddDist, DepthAssumption DEF Inv, TypeOK
  <1> HIDE DEF a, b, c, d, e
  <1>5. CASE r = rBin
    BY <1>1, <1>3, <1>4, <1>5 DEF b, c, d
  <1>6. CASE r = Ahead(rBin, 1) /\ rBin # rWptr
    <2>1. c > 0 /\ Dist(r, rWptr) = c - 1
      BY <1>1, <1>6, StepDist, DistType DEF c, Inv, TypeOK
    <2>2. Dist(wMeta, r) = b + 1
      <3>1. b < 2 * Depth - 1 BY <1>1, <1>2, <2>1, DepthAssumption
      <3>2. QED BY <1>6, <3>1, StepDist DEF b, Inv, TypeOK
    <2>3. Dist(r, rMeta) = c - 1 + d
      <3>1. Dist(r, rWptr) + d < 2 * Depth
        BY <1>1, <1>2, <2>1, DepthAssumption
      <3>2. QED BY <3>1, <2>1, AddDist DEF d, Inv, TypeOK
    <2>4. Dist(rBin, r) = 1
      <3>1. 0 < 2 * Depth - 1 BY DepthAssumption
      <3>2. QED BY <1>3, <1>6, <3>1, StepDist DEF Inv, TypeOK
    <2>5. QED BY <1>1, <2>1, <2>2, <2>3, <2>4 DEF b, c, d
  <1>7. QED BY <1>5, <1>6

\* The writer's own part of the way, after a step of its pointer.
LEMMA WriterPart ==
  ASSUME Inv, NEW w \in Pointer,
         w = wBin \/ (w = Ahead(wBin, 1) /\ Round < Depth)
  PROVE  /\ Dist(rMeta, w) = Dist(rMeta, wBin) + Dist(wBin, w)
         /\ Dist(wBin, w) \in {0, 1}
         /\ Dist(wBin, w) = 1 => Round < Depth
  <1>1. Dist(wBin, wBin) = 0 /\ Dist(rMeta, wBin) \in 0 .. 2 * Depth - 1
    BY DistType DEF Inv, TypeOK
  <1>2. Dist(rMeta, wBin) <= Round
    <2>1. /\ Dist(wRptr, wMeta) \in 0 .. 2 * Depth - 1 /\ Dist(wMeta, rBin) \in 0 .. 2 * Depth - 1
          /\ Dist(rBin, rWptr) \in 0 .. 2 * Depth - 1 /\ Dist(rWptr, rMeta) \in 0 .. 2 * Depth - 1
      BY DistType DEF Inv, TypeOK
    <2>2. QED BY <2>1, <1>1 DEF Round
  <1>3. CASE w = wBin
    BY <1>1, <1>3
  <1>4. CASE w = Ahead(wBin, 1) /\ Round < Depth
    <2>1. Dist(rMeta, wBin) < 2 * Depth - 1 /\ 0 < 2 * Depth - 1
      BY <1>1, <1>2, <1>4, RoundIsLevel, DistType, DepthAssumption DEF Level, Inv, TypeOK
    <2>2. Dist(rMeta, w) = Dist(rMeta, wBin) + 1
      BY <1>4, <2>1, StepDist DEF Inv, TypeOK
    <2>3. Dist(wBin, w) = 0 + 1
      BY <1>1, <1>4, <2>1, StepDist DEF Inv, TypeOK
    <2>4. QED BY <1>4, <2>2, <2>3
  <1>5. QED BY <1>3, <1>4

LEMMA NextInv == Inv /\ [Next]_vars => Inv'
  <1> SUFFICES ASSUME Inv, [Next]_vars PROVE Inv'
    OBVIOUS
  <1> USE DepthAssumption
  <1>1. CASE WriteEdge
    <2>1. PICK inc \in BOOLEAN, d \in Data : WriteClocked(inc, FALSE, d)
      BY <1>1 DEF WriteEdge
    <2>2. UNCHANGED readSide
      BY <1>1 DEF WriteEdge
    <2>3. TypeOK'
      BY <2>1, <2>2, WriteMoves DEF Inv, TypeOK, readSide
    <2>4. Views'
      <3>1. Round' = Dist(wMeta, rBin) + Dist(rBin, rBin) + Dist(rBin, rWptr)
                       + Dist(rWptr, rMeta) + Dist(rMeta, wBin')
        BY <2>1, <2>2, WriteMoves DEF Round, readSide, Dist
      <3>2. /\ Dist(rMeta, wBin') = Dist(rMeta, wBin) + Dist(wBin, wBin')
            /\ Dist(wBin, wBin') \in {0, 1}
            /\ Dist(wBin, wBin') = 1 => Round < Depth
        BY <2>1, WriteMoves, WriterPart
      <3>3. QED BY <2>3, <3>1, <3>2, DistType DEF Inv, TypeOK, Views, Round
    <2>5. QED BY <2>3, <2>4 DEF Inv
  <1>2. CASE ReadEdge
    <2>1. PICK inc \in BOOLEAN : ReadClocked(inc, FALSE)
      BY <1>2 DEF ReadEdge
    <2>2. UNCHANGED writeSide
      BY <1>2 DEF ReadEdge
    <2>3. TypeOK'
      BY <2>1, <2>2, ReadMoves DEF Inv, TypeOK, writeSide
    <2>4. Views'
      <3>1. Round' = Dist(wRptr, wMeta) + Dist(wMeta, rBin') + Dist(rBin', rMeta)
                       + Dist(rMeta, wBin) + Dist(wBin, wBin)
        BY <2>1, <2>2, ReadMoves DEF Round, writeSide, Dist
      <3>2. Dist(wMeta, rBin') + Dist(rBin', rMeta)
              = Dist(wMeta, rBin) + Dist(rBin, rWptr) + Dist(rWptr, rMeta)
        BY <2>1, ReadMoves, ReaderPart
      <3>3. QED BY <2>3, <3>1, <3>2, DistType DEF Inv, TypeOK, Views, Round
    <2>5. QED BY <2>3, <2>4 DEF Inv
  <1>3. CASE BothEdges
    <2>1. PICK wInc \in BOOLEAN, rInc \in BOOLEAN, d \in Data :
            WriteClocked(wInc, FALSE, d) /\ ReadClocked(rInc, FALSE)
      BY <1>3 DEF BothEdges
    <2>2. TypeOK'
      BY <2>1, WriteMoves, ReadMoves DEF Inv, TypeOK
    <2>3. Views'
      <3>1. Round' = Dist(wMeta, rBin) + Dist(rBin, rBin') + Dist(rBin', rMeta)
                       + Dist(rMeta, wBin) + Dist(wBin, wBin')
        BY <2>1, WriteMoves, ReadMoves DEF Round, Dist
      <3>2. Dist(rBin, rBin') + Dist(rBin', rMeta) = Dist(rBin, rWptr) + Dist(rWptr, rMeta)
        BY <2>1, ReadMoves, ReaderPart
      <3>3. /\ Dist(wBin, wBin') \in {0, 1}
            /\ Dist(wBin, wBin') = 1 => Round < Depth
        BY <2>1, WriteMoves, WriterPart
      <3>4. QED BY <2>2, <3>1, <3>2, <3>3, DistType DEF Inv, TypeOK, Views, Round
    <2>4. QED BY <2>2, <2>3 DEF Inv
  <1>4. CASE UNCHANGED vars
    BY <1>4 DEF vars, Inv, TypeOK, Views, Round, Dist
  <1>5. QED BY <1>1, <1>2, <1>3, <1>4 DEF Next

\* Every reachable state keeps the picture: pointers stay in ptr_bits bits,
\* the views stay in order and the way round stays within a lap (fifo.py
\* 62-119).
LEMMA InvAlways == Spec => []Inv
  BY InitInv, NextInv, PTL DEF Spec

\* The same, part by part: every pointer keeps its type, and the order holds.
THEOREM Safety == Spec => [](TypeOK /\ Views)
  <1>1. Inv => TypeOK /\ Views
    BY DEF Inv
  <1>2. QED BY <1>1, InvAlways, PTL

\* The level the host is told never falls short of what is waiting, and what
\* looks readable is there.
THEOREM CautiousAlways == Spec => []LevelIsCautious
  <1>1. Inv => LevelIsCautious
    <2> SUFFICES ASSUME Inv PROVE LevelIsCautious
      OBVIOUS
    <2>1. /\ Dist(wRptr, wMeta) \in 0 .. 2 * Depth - 1 /\ Dist(wMeta, rBin) \in 0 .. 2 * Depth - 1
          /\ Dist(rBin, rWptr) \in 0 .. 2 * Depth - 1 /\ Dist(rWptr, rMeta) \in 0 .. 2 * Depth - 1
          /\ Dist(rMeta, wBin) \in 0 .. 2 * Depth - 1
          /\ rBin # rWptr => Dist(rBin, rWptr) # 0
      BY DistType DEF Inv, TypeOK
    <2>2. /\ Round = Level
          /\ Dist(rBin, rWptr) + Dist(rWptr, rMeta) + Dist(rMeta, wBin) = Occupancy
      BY RoundIsLevel
    <2>3. Level <= Depth
      BY <2>2 DEF Inv, Views
    <2>4. Occupancy <= Level
      BY <2>1, <2>2 DEF Round
    <2>5. ~Empty => Occupancy > 0
      BY <2>1, <2>2 DEF Empty
    <2>6. QED BY <2>3, <2>4, <2>5 DEF LevelIsCautious
  <1>2. QED BY <1>1, InvAlways, PTL

-----------------------------------------------------------------------------
(***************************************************************************)
(* The refinement.  What a queue operation does to a sequence, said with   *)
(* the indices the FIFO's storage has.                                     *)
(***************************************************************************)
LEMMA AppendIs ==
  ASSUME NEW n \in Nat, NEW s \in [1 .. n -> Data], NEW t \in [1 .. n + 1 -> Data],
         NEW x \in Data, t[n + 1] = x, \A i \in 1 .. n : t[i] = s[i]
  PROVE  t = Append(s, x) /\ Len(s) = n
  <1>1. s \in Seq(Data) /\ Len(s) = n
    OBVIOUS
  <1>2. /\ Append(s, x) \in Seq(Data) /\ Len(Append(s, x)) = n + 1
        /\ \A i \in 1 .. n : Append(s, x)[i] = s[i]
        /\ Append(s, x)[n + 1] = x
    BY <1>1, AppendProperties
  <1>3. \A i \in 1 .. n + 1 : Append(s, x)[i] = t[i]
    BY <1>2
  <1>4. Append(s, x) \in [1 .. n + 1 -> Data]
    BY <1>2, LenProperties
  <1>5. QED BY <1>1, <1>3, <1>4

LEMMA TailIs ==
  ASSUME NEW n \in Nat, NEW s \in [1 .. n + 1 -> Data], NEW t \in [1 .. n -> Data],
         \A i \in 1 .. n : t[i] = s[i + 1]
  PROVE  t = Tail(s) /\ s # << >> /\ Len(s) = n + 1
  <1>1. s \in Seq(Data) /\ Len(s) = n + 1
    OBVIOUS
  <1>2. /\ Tail(s) \in [1 .. n -> Data]
        /\ \A i \in 1 .. n : Tail(s)[i] = s[i + 1]
    <2>1. s # << >>
      BY <1>1
    <2>2. /\ Tail(s) \in Seq(Data) /\ Len(Tail(s)) = n
          /\ \A i \in 1 .. n : Tail(s)[i] = s[i + 1]
      BY <1>1, <2>1, HeadTailProperties
    <2>3. QED BY <2>2, LenProperties
  <1>3. \A i \in 1 .. n : Tail(s)[i] = t[i]
    BY <1>2
  <1>4. t = Tail(s)
    BY <1>2, <1>3
  <1>5. QED BY <1>1, <1>4

\* Where the entries lie: the free slot is after the last of them, and it is
\* none of them unless the FIFO is full.
LEMMA Slots ==
  ASSUME NEW r \in Pointer, NEW w \in Pointer, Dist(r, w) <= Depth
  PROVE  /\ Ahead(r, Dist(r, w)) = w
         /\ \A k \in 0 .. Dist(r, w) : Ahead(r, k) \in Pointer /\ Addr(Ahead(r, k)) \in Address
         /\ Dist(r, w) < Depth =>
              \A k \in 0 .. Dist(r, w) - 1 : Addr(Ahead(r, k)) # Addr(w)
         /\ \A k \in 0 .. Dist(r, w) - 1 : Ahead(Ahead(r, 1), k) = Ahead(r, k + 1)
  BY DepthAssumption DEF Pointer, Address, Dist, Ahead, Addr

\* Contents of a memory m between two pointers.
Between(m, r, w) == [i \in 1 .. Dist(r, w) |-> m[Addr(Ahead(r, i - 1))]]

LEMMA BetweenType ==
  ASSUME NEW m \in [Address -> Data], NEW r \in Pointer, NEW w \in Pointer, Dist(r, w) <= Depth
  PROVE  Between(m, r, w) \in [1 .. Dist(r, w) -> Data]
  <1>1. Dist(r, w) \in Nat
    BY DistType
  <1>2. \A i \in 1 .. Dist(r, w) : Addr(Ahead(r, i - 1)) \in Address
    BY <1>1, Slots
  <1>3. QED BY <1>1, <1>2 DEF Between

LEMMA BetweenPush ==
  ASSUME NEW m \in [Address -> Data], NEW r \in Pointer, NEW w \in Pointer, NEW x \in Data,
         Dist(r, w) < Depth
  PROVE  /\ Between([m EXCEPT ![Addr(w)] = x], r, Ahead(w, 1)) = Append(Between(m, r, w), x)
         /\ Len(Between(m, r, w)) = Dist(r, w)
  <1> DEFINE n == Dist(r, w)
             m2 == [m EXCEPT ![Addr(w)] = x]
             s == Between(m, r, w)
             t == Between(m2, r, Ahead(w, 1))
  <1>1. n \in Nat /\ n + 1 <= Depth /\ n < 2 * Depth - 1
    BY DistType, DepthAssumption
  <1>2. Dist(r, Ahead(w, 1)) = n + 1 /\ Ahead(w, 1) \in Pointer
    BY <1>1, StepDist, AheadType, DepthAssumption DEF Pointer
  <1>3. Addr(w) \in Address /\ m2 \in [Address -> Data]
    BY DepthAssumption DEF Addr, Address, Pointer
  <1>4. s \in [1 .. n -> Data]
    <2>1. Dist(r, w) <= Depth
      BY <1>1, DepthAssumption
    <2>2. QED BY <2>1, BetweenType
  <1>5. t \in [1 .. n + 1 -> Data]
    <2>1. t \in [1 .. Dist(r, Ahead(w, 1)) -> Data]
      BY <1>1, <1>2, <1>3, BetweenType
    <2>2. QED BY <2>1, <1>2
  <1>6. t[n + 1] = x
    <2>1. Ahead(r, n) = w
      BY <1>1, Slots, DepthAssumption
    <2>2. (n + 1) - 1 = n /\ n + 1 \in 1 .. Dist(r, Ahead(w, 1))
      BY <1>1, <1>2
    <2>3. t[n + 1] = m2[Addr(Ahead(r, n))]
      BY <2>2 DEF Between
    <2>4. QED BY <1>3, <2>1, <2>3
  <1>7. ASSUME NEW i \in 1 .. n PROVE t[i] = s[i]
    <2>1. i \in 1 .. n + 1 /\ i - 1 \in 0 .. n - 1
      BY <1>1
    <2>2. Dist(r, w) <= Depth /\ i - 1 \in 0 .. Dist(r, w)
      BY <1>1, <2>1, DepthAssumption
    <2>3. Addr(Ahead(r, i - 1)) # Addr(w) /\ Addr(Ahead(r, i - 1)) \in Address
      BY <2>1, <2>2, Slots
    <2>4. QED BY <1>2, <2>1, <2>3 DEF Between
  <1> HIDE DEF n, s, t
  <1>8. t = Append(s, x) /\ Len(s) = n
    BY <1>1, <1>4, <1>5, <1>6, <1>7, AppendIs
  <1>9. QED BY <1>8 DEF n, s, t

LEMMA BetweenPop ==
  ASSUME NEW m \in [Address -> Data], NEW r \in Pointer, NEW w \in Pointer, r # w,
         Dist(r, w) <= Depth
  PROVE  /\ Between(m, Ahead(r, 1), w) = Tail(Between(m, r, w))
         /\ Between(m, r, w) # << >>
         /\ Dist(Ahead(r, 1), w) < Depth
         /\ Dist(Ahead(r, 1), w) = Dist(r, w) - 1
         /\ Len(Between(m, r, w)) = Dist(r, w)
  <1> DEFINE n == Dist(r, w) - 1
             s == Between(m, r, w)
             t == Between(m, Ahead(r, 1), w)
  <1>1. n \in Nat /\ Dist(r, w) = n + 1 /\ n < Depth
    BY DistType, DepthAssumption
  <1>2. Dist(Ahead(r, 1), w) = n /\ Ahead(r, 1) \in Pointer
    BY StepDist, AheadType, DepthAssumption DEF Pointer
  <1>3. s \in [1 .. n + 1 -> Data]
    BY <1>1, BetweenType
  <1>4. t \in [1 .. n -> Data]
    <2>1. Dist(Ahead(r, 1), w) <= Depth
      BY <1>1, <1>2, DepthAssumption
    <2>2. t \in [1 .. Dist(Ahead(r, 1), w) -> Data]
      BY <1>2, <2>1, BetweenType
    <2>3. QED BY <2>2, <1>2
  <1>5. ASSUME NEW i \in 1 .. n PROVE t[i] = s[i + 1]
    <2>1. i - 1 \in 0 .. Dist(r, w) - 1 /\ i + 1 \in 1 .. Dist(r, w) /\ (i + 1) - 1 = (i - 1) + 1
      BY <1>1
    <2>2. Ahead(Ahead(r, 1), i - 1) = Ahead(r, (i - 1) + 1)
      BY <2>1, Slots
    <2>3. QED BY <1>2, <2>1, <2>2 DEF Between
  <1> HIDE DEF n, s, t
  <1>6. t = Tail(s) /\ s # << >> /\ Len(s) = n + 1
    BY <1>1, <1>3, <1>4, <1>5, TailIs
  <1>7. QED BY <1>1, <1>2, <1>6 DEF n, s, t

\* An edge's effect on the queue: what the write side adds, what the read
\* side takes.
LEMMA PushEffect ==
  ASSUME Inv, NEW inc \in BOOLEAN, NEW x \in Data, WriteClocked(inc, FALSE, x),
         NEW r \in Pointer, Dist(r, wBin) <= Occupancy
  PROVE  \/ Between(memory', r, wBin') = Between(memory, r, wBin)
         \/ /\ Between(memory', r, wBin') = Append(Between(memory, r, wBin), x)
            /\ Occupancy < Depth
            /\ Len(Between(memory, r, wBin)) < Depth
  <1>1. CASE inc /\ ~Full
    <2>1. Occupancy < Depth
      <3>1. Level \in 0 .. 2 * Depth - 1 /\ Occupancy \in 0 .. 2 * Depth - 1
        BY DistType DEF Level, Occupancy, Inv, TypeOK
      <3>2. /\ Dist(wRptr, wMeta) \in 0 .. 2 * Depth - 1 /\ Dist(wMeta, rBin) \in 0 .. 2 * Depth - 1
            /\ Dist(rBin, rWptr) \in 0 .. 2 * Depth - 1 /\ Dist(rWptr, rMeta) \in 0 .. 2 * Depth - 1
            /\ Dist(rMeta, wBin) \in 0 .. 2 * Depth - 1
        BY DistType DEF Inv, TypeOK
      <3>3. Occupancy <= Level /\ Level <= Depth
        BY <3>1, <3>2, RoundIsLevel DEF Round, Inv, Views
      <3>4. Level # Depth
        BY <1>1 DEF Full, Level
      <3>5. QED BY <3>1, <3>3, <3>4, DepthAssumption
    <2>2. Dist(r, wBin) \in Nat /\ Dist(r, wBin) < Depth
      BY <2>1, DistType, DepthAssumption DEF Inv, TypeOK, Occupancy
    <2>3. memory' = [memory EXCEPT ![Addr(wBin)] = x] /\ wBin' = Ahead(wBin, 1)
      BY <1>1 DEF WriteClocked
    <2>4. wBin \in Pointer /\ memory \in [Address -> Data]
      BY DEF Inv, TypeOK
    <2>5. QED BY <2>1, <2>2, <2>3, <2>4, BetweenPush
  <1>2. CASE ~(inc /\ ~Full)
    <2>1. memory' = memory /\ wBin' = wBin
      BY <1>2 DEF WriteClocked
    <2>2. QED BY <2>1
  <1>3. QED BY <1>1, <1>2

LEMMA PopEffect ==
  ASSUME Inv, NEW inc \in BOOLEAN, ReadClocked(inc, FALSE)
  PROVE  /\ rBin' \in Pointer
         /\ \/ rBin' = rBin
            \/ /\ Between(memory, rBin', wBin) = Tail(Contents)
               /\ Contents # << >>
               /\ Dist(rBin', wBin) < Occupancy
               /\ Occupancy \in Nat
               /\ Len(Contents) = Occupancy
  <1>1. Contents = Between(memory, rBin, wBin)
    BY DEF Contents, Between, Occupancy
  <1>2. rBin' \in Pointer
    BY ReadMoves
  <1>3. Occupancy \in Nat /\ Occupancy <= Depth
    <2>1. /\ Dist(wRptr, wMeta) \in 0 .. 2 * Depth - 1 /\ Dist(wMeta, rBin) \in 0 .. 2 * Depth - 1
          /\ Dist(rBin, rWptr) \in 0 .. 2 * Depth - 1 /\ Dist(rWptr, rMeta) \in 0 .. 2 * Depth - 1
          /\ Dist(rMeta, wBin) \in 0 .. 2 * Depth - 1 /\ Dist(rBin, wBin) \in 0 .. 2 * Depth - 1
      BY DistType DEF Inv, TypeOK
    <2>2. QED BY <2>1, RoundIsLevel, DepthAssumption DEF Round, Inv, Views, Occupancy
  <1>4. CASE rBin' = rBin
    BY <1>2, <1>4
  <1>5. CASE rBin' = Ahead(rBin, 1) /\ rBin # rWptr
    <2>1. rBin # wBin
      <3>1. /\ Dist(rBin, rWptr) \in 0 .. 2 * Depth - 1 /\ Dist(rWptr, rMeta) \in 0 .. 2 * Depth - 1
            /\ Dist(rMeta, wBin) \in 0 .. 2 * Depth - 1 /\ Dist(rBin, rWptr) # 0
        BY <1>5, DistType DEF Inv, TypeOK
      <3>2. Occupancy # 0
        BY <3>1, RoundIsLevel
      <3>3. QED BY <3>2, DistType DEF Inv, TypeOK, Occupancy
    <2>2. QED BY <1>1, <1>2, <1>3, <1>5, <2>1, BetweenPop DEF Inv, TypeOK, Occupancy
  <1>6. QED BY <1>4, <1>5, ReadMoves

LEMMA ContentsIs == /\ Contents = Between(memory, rBin, wBin)
                    /\ Contents' = Between(memory', rBin', wBin')
  BY DEF Contents, Between, Occupancy, Dist, Ahead, Addr

LEMMA InitQueue == Init => Q!Init
  <1> SUFFICES ASSUME Init PROVE Contents = << >>
    BY DEF Q!Init
  <1>1. Occupancy = 0
    BY DepthAssumption DEF Init, Occupancy, Dist
  <1>2. QED BY <1>1 DEF Contents

LEMMA NextQueue == Inv /\ Inv' /\ [Next]_vars => [Q!Next]_Contents
  <1> SUFFICES ASSUME Inv, Inv', [Next]_vars PROVE [Q!Next]_Contents
    OBVIOUS
  <1>1. Occupancy \in Nat /\ rBin \in Pointer
    BY DistType DEF Inv, TypeOK, Occupancy
  <1>2. CASE WriteEdge
    <2>1. PICK inc \in BOOLEAN, d \in Data : WriteClocked(inc, FALSE, d)
      BY <1>2 DEF WriteEdge
    <2>2. rBin' = rBin
      BY <1>2 DEF WriteEdge, readSide
    <2>3. \/ Contents' = Contents
          \/ Contents' = Append(Contents, d) /\ Len(Contents) < Depth
      <3>1. Dist(rBin, wBin) <= Occupancy
        BY <1>1 DEF Occupancy
      <3>2. QED BY <1>1, <2>1, <2>2, <3>1, ContentsIs, PushEffect
    <2>4. QED BY <2>3 DEF Q!Next, Q!Push
  <1>3. CASE ReadEdge
    <2>1. PICK inc \in BOOLEAN : ReadClocked(inc, FALSE)
      BY <1>3 DEF ReadEdge
    <2>2. wBin' = wBin /\ memory' = memory
      BY <1>3 DEF ReadEdge, writeSide
    <2>3. \/ Contents' = Contents
          \/ Contents' = Tail(Contents) /\ Contents # << >>
      BY <2>1, <2>2, ContentsIs, PopEffect
    <2>4. QED BY <2>3 DEF Q!Next, Q!Pop
  <1>4. CASE BothEdges
    <2>1. PICK wInc \in BOOLEAN, rInc \in BOOLEAN, d \in Data :
            WriteClocked(wInc, FALSE, d) /\ ReadClocked(rInc, FALSE)
      BY <1>4 DEF BothEdges
    <2>2. /\ rBin' \in Pointer
          /\ \/ rBin' = rBin
             \/ /\ Between(memory, rBin', wBin) = Tail(Contents)
                /\ Contents # << >>
                /\ Dist(rBin', wBin) < Occupancy
                /\ Len(Contents) = Occupancy
      BY <2>1, PopEffect
    <2>3. Dist(rBin', wBin) <= Occupancy
      <3>1. Dist(rBin', wBin) \in Nat
        BY <2>2, DistType DEF Inv, TypeOK
      <3>2. QED BY <1>1, <2>2, <3>1 DEF Occupancy
    <2>4. \/ Contents' = Between(memory, rBin', wBin)
          \/ /\ Contents' = Append(Between(memory, rBin', wBin), d)
             /\ Occupancy < Depth
             /\ Len(Between(memory, rBin', wBin)) < Depth
      BY <2>1, <2>2, <2>3, ContentsIs, PushEffect
    <2>5. CASE rBin' = rBin
      <3>1. \/ Contents' = Contents
            \/ Contents' = Append(Contents, d) /\ Len(Contents) < Depth
        BY <2>4, <2>5, ContentsIs
      <3>2. QED BY <3>1 DEF Q!Next, Q!Push
    <2>6. CASE rBin' # rBin
      <3>1. \/ Contents' = Tail(Contents) /\ Contents # << >>
            \/ /\ Contents' = Append(Tail(Contents), d)
               /\ Contents # << >>
               /\ Len(Contents) < Depth
        BY <2>2, <2>4, <2>6
      <3>2. QED BY <3>1 DEF Q!Next, Q!Pop, Q!PushPop
    <2>7. QED BY <2>5, <2>6
  <1>5. CASE UNCHANGED vars
    <2>1. memory' = memory /\ rBin' = rBin /\ wBin' = wBin
      BY <1>5 DEF vars
    <2>2. QED BY <2>1, ContentsIs
  <1>6. QED BY <1>2, <1>3, <1>4, <1>5 DEF Next

\* For every depth and whatever the two clocks do, the FIFO is a bounded
\* queue: what is written comes out once, whole and in order, and no more
\* than Depth entries wait (fifo.py 62-119).
THEOREM Refinement == Spec => IsBoundedQueue
  BY InitQueue, NextQueue, InvAlways, PTL DEF Spec, Q!Spec, IsBoundedQueue

-----------------------------------------------------------------------------
(***************************************************************************)
(* Whatever is refused, flushed or cut off by a restart, the firmware      *)
(* makes a command of one command's bytes and of no others, for every      *)
(* depth of the FIFO, every length of command and every set of frames it   *)
(* has room for.                                                           *)
(*                                                                         *)
(* The argument: unless an overflow has been told, every byte in the FIFO  *)
(* has the bytes before it and the header of its own frame before it in    *)
(* the FIFO, as far back as the FIFO goes; and where it does not go back   *)
(* as far as the header, the parser is in that frame and waits for just    *)
(* the byte that is at the head.  The byte the decoder is at stands in the *)
(* same relation to the end of the FIFO.                                   *)
(***************************************************************************)

\* What the parser knows, as one value.
Parser == [length |-> length, index |-> index, slot |-> slot, gathered |-> gathered, cut |-> cut]

\* n bytes of frame f from byte q on, each in its place.
Run(f, q, n) == {<<s, ByteOf(f, q + s)>> : s \in 0 .. n - 1}

\* The parser is in frame f, whose length is one of B, waits for its byte q and
\* has the bytes before it of the same command.
Expects(P, f, q, B) == /\ P.index = q /\ P.length \in B
                       /\ P.gathered = Run(f, q - P.slot, P.slot)

\* At place i of the words c, byte q of frame f, whose length is one of B, has
\* before it what it should.
Placed(c, i, f, q, B, P) ==
  /\ \A j \in 1 .. q : j < i => c[i - j] = ByteOf(f, q - j)
  /\ q + 1 < i => /\ \E b \in B : c[i - q - 1] = HeaderOf(f, b)
                  /\ \A j \in 1 .. i - q - 2 : c[j][1] # f
  /\ q + 1 >= i => P.cut \/ Expects(P, f, q - i + 1, B)

Longer(q) == {b \in Bodies : q < b}

\* The same of a word w that is at place i of c.
InPlace(c, i, w, P) == w[2] = "byte" => Placed(c, i, w[1], w[3], Longer(w[3]), P)

\* The byte the decoder is at will be in its place.
Going == Strobe /\ forwarding /\ feed.index > 0

Stream == /\ \A i \in 1 .. Len(Contents) : /\ InPlace(Contents, i, Contents[i], Parser)
                                           /\ Contents[i][1] \notin lost
          /\ Going => /\ Placed(Contents, Len(Contents) + 1, feed.name, feed.index - 1,
                                {feed.body}, Parser)
                      /\ feed.name \notin lost
                      /\ feed.name \in ran => Len(Contents) + 2 <= feed.index

\* A word that was chosen before the overflow was told is still to be taken.
Headed == /\ Contents # << >> /\ InPlace(Contents, 1, Contents[1], Parser)
          /\ (Contents[1][2] = "byte" /\ ~cut) =>
                /\ Contents[1][1] \notin lost
                /\ Strobe => feed.name # Contents[1][1]

Told == /\ ~overflow => Stream
        /\ (overflow /\ next = "data") => Headed

\* A name that is given to a frame is nowhere else.
Named == /\ (Strobe /\ feed.index = 0) =>
              /\ feed.name \notin ran \union lost
              /\ \A i \in 1 .. Len(Contents) : Contents[i][1] # feed.name
         /\ (Strobe /\ overflow) => feed.name \notin ran
         /\ DroppedWhole

\* The pointers are what AsyncFifo says of them, and the writer is at most one
\* word behind the reader; or a flush was one or two cycles ago.
Following == Views /\ Dist(wRptr, wMeta) + Dist(wMeta, rBin) <= 1
Flushed == \/ rest = 2 /\ wBin = 0 /\ rBin = 0 /\ ~forwarding
           \/ rest = 1 /\ wBin \in {0, 1} /\ rBin = 0 /\ wMeta = 0 /\ rMeta = 0
                /\ (Going => feed.index = 1)
Pointers == /\ TypeOK
            /\ Following \/ Flushed
            /\ next = "data" => ~Empty /\ wMeta = rBin

Aligned == \E k \in Nat : index = k * CommandBytes + slot

MailTypes == /\ feed \in [name : Frames, ours : BOOLEAN, body : Nat, index : Int]
             /\ feed.index >= -1 /\ feed.index <= feed.body
             /\ Strobe => feed.body \in Bodies
             /\ forwarding \in BOOLEAN /\ overflow \in BOOLEAN /\ cut \in BOOLEAN
             /\ next \in {"status", "data", "flush"} /\ rest \in 0 .. 2
             /\ length \in 0 .. 63 /\ index \in Nat /\ slot \in 0 .. CommandBytes - 1
             /\ rest > 0 => next = "status"
             /\ next = "flush" => overflow
             /\ cut => length = 0 /\ index = 0

\* A word is within its frame, as long as z says; follows on the word before it;
\* is what the parser waits for.
Fits(w, z) == PlaceOf(w) <= z[w[1]] /\ (Announces(w) => w[3] = z[w[1]])
After(w, u, z) == \/ w[1] = u[1] /\ PlaceOf(w) = PlaceOf(u) + 1
                  \/ Announces(w) /\ PlaceOf(u) = z[u[1]]
Opens(w, P, z) == IF Announces(w) THEN P.index >= P.length
                  ELSE P.index < P.length /\ w[3] = P.index /\ P.length = z[w[1]]

\* The words c are the rest of the parser's frame and whole frames.  What the
\* last lacks is still to come, from where the decoder d is if it is `on` it.
Linked(c, P, z, on, d) ==
  /\ \A i \in 1 .. Len(c) : Fits(c[i], z) /\ (i > 1 => After(c[i], c[i - 1], z))
  /\ Len(c) > 0 => /\ P.cut \/ Opens(c[1], P, z)
                   /\ on \/ PlaceOf(c[Len(c)]) = z[c[Len(c)][1]]
                   /\ on => d.name = c[Len(c)][1] /\ d.index = PlaceOf(c[Len(c)]) + 1
  /\ (Len(c) = 0 /\ ~P.cut) => /\ P.index < P.length => on
                               /\ on => d.index = P.index + 1 /\ d.body = P.length

Framed == /\ Strobe => sizes[feed.name] = feed.body
          /\ ~overflow => Linked(Contents, Parser, sizes, Going, feed)

MailInv == MailTypes /\ Pointers /\ Aligned /\ Told /\ Named /\ NeverMisSliced /\ Framed

-----------------------------------------------------------------------------
\* What a word is.
LEMMA WordIs ==
  ASSUME NEW w \in Words
  PROVE  \/ \E f \in Frames, b \in Bodies : w = HeaderOf(f, b)
         \/ \E f \in Frames, q \in 0 .. 63 : w = ByteOf(f, q)
  BY DEF Words

LEMMA ByteIs ==
  ASSUME NEW w \in Words, w[2] # "header"
  PROVE  /\ w[1] \in Frames /\ w[3] \in 0 .. 63 /\ w[3] \in Nat
         /\ w = ByteOf(w[1], w[3]) /\ w[2] = "byte"
  BY WordIs DEF HeaderOf, ByteOf

LEMMA HeaderIs ==
  ASSUME NEW w \in Words, w[2] = "header"
  PROVE  w[1] \in Frames /\ w[3] \in Bodies /\ w = HeaderOf(w[1], w[3])
  BY WordIs DEF HeaderOf, ByteOf

LEMMA Different ==
  ASSUME NEW f, NEW g, NEW q, NEW r
  PROVE  /\ HeaderOf(f, q) = HeaderOf(g, r) <=> f = g /\ q = r
         /\ ByteOf(f, q) = ByteOf(g, r) <=> f = g /\ q = r
         /\ ByteOf(f, q) # HeaderOf(g, r)
         /\ ByteOf(f, q)[1] = f /\ ByteOf(f, q)[2] = "byte" /\ ByteOf(f, q)[3] = q
         /\ HeaderOf(f, q)[1] = f /\ HeaderOf(f, q)[2] = "header" /\ HeaderOf(f, q)[3] = q
  BY DEF HeaderOf, ByteOf

\* A run of bytes grows by one, and the next is then one further.
LEMMA RunGrows ==
  ASSUME NEW f, NEW q \in Int, NEW n \in Nat
  PROVE  /\ Run(f, q, n) \union {<<n, ByteOf(f, q + n)>>} = Run(f, q, n + 1)
         /\ \A g \in Run(f, q, n) : g[2][1] = f
         /\ Run(f, q, 0) = {}
  <1>1. \A s : s \in 0 .. n <=> s \in 0 .. n - 1 \/ s = n
    OBVIOUS
  <1>2. (n + 1) - 1 = n
    OBVIOUS
  <1>3. \A g \in Run(f, q, n) : g[2][1] = f
    BY DEF Run, ByteOf
  <1>4. Run(f, q, n) \union {<<n, ByteOf(f, q + n)>>} = Run(f, q, n + 1)
    <2> DEFINE T(s) == <<s, ByteOf(f, q + s)>>
    <2> HIDE DEF T
    <2>1. {T(s) : s \in 0 .. n - 1} \union {T(n)} = {T(s) : s \in 0 .. n}
      BY <1>1
    <2>2. QED BY <1>2, <2>1 DEF T, Run
  <1>5. Run(f, q, 0) = {}
    BY DEF Run
  <1>6. QED BY <1>3, <1>4, <1>5

-----------------------------------------------------------------------------
(***************************************************************************)
(* Placed, through the operations on the FIFO.                             *)
(***************************************************************************)
\* What the parser does with a word.
Heard(P, w, P2) ==
  IF w[2] = "header"
    THEN P2.length = w[3] /\ P2.index = 0 /\ P2.slot = 0 /\ P2.gathered = {} /\ ~P2.cut
  ELSE IF P.index >= P.length THEN P2 = P
  ELSE /\ P2.length = P.length /\ P2.index = P.index + 1 /\ P2.cut = P.cut
       /\ IF P.slot + 1 = CommandBytes THEN P2.slot = 0 /\ P2.gathered = {}
          ELSE P2.slot = P.slot + 1 /\ P2.gathered = P.gathered \union {<<P.slot, w>>}

Places(c, i, f, q, B) == /\ c \in Seq(Words) /\ i \in 1 .. Len(c) + 1 /\ f \in Frames
                         /\ q \in Nat /\ \A b \in B : b \in Nat /\ q < b

Knows(P) == /\ P.length \in Nat /\ P.index \in Nat /\ P.slot \in Nat
            /\ P.cut => P.index >= P.length

LEMMA TakenPlaced ==
  ASSUME NEW c, NEW i, NEW f, NEW q, NEW B, NEW P, NEW P2, Knows(P), Places(c, i, f, q, B),
         i > 1, Placed(c, i, f, q, B, P), Heard(P, c[1], P2) \/ P2.cut
  PROVE  Placed(Tail(c), i - 1, f, q, B, P2)
  <1>1. c \in Seq(Words) /\ c # << >> /\ Len(c) \in Nat /\ i \in 2 .. Len(c) + 1 /\ q \in Nat
    BY EmptySeq DEF Places
  <1>2. Len(Tail(c)) = Len(c) - 1 /\ \A j \in 1 .. Len(c) - 1 : Tail(c)[j] = c[j + 1]
    BY <1>1, HeadTailProperties
  <1>3. ASSUME NEW j \in 1 .. q, j < i - 1 PROVE Tail(c)[i - 1 - j] = ByteOf(f, q - j)
    <2>1. i - 1 - j \in 1 .. Len(c) - 1 /\ (i - 1 - j) + 1 = i - j /\ j < i
      BY <1>1, <1>3
    <2>2. QED BY <1>2, <2>1 DEF Placed
  <1>4. ASSUME q + 1 < i - 1
        PROVE  /\ \E b \in B : Tail(c)[(i - 1) - q - 1] = HeaderOf(f, b)
               /\ \A j \in 1 .. (i - 1) - q - 2 : Tail(c)[j][1] # f
    <2>1. /\ (i - 1) - q - 1 \in 1 .. Len(c) - 1 /\ ((i - 1) - q - 1) + 1 = i - q - 1
          /\ q + 1 < i
      BY <1>1, <1>4
    <2>2. \A j \in 1 .. (i - 1) - q - 2 : j \in 1 .. Len(c) - 1 /\ j + 1 \in 1 .. i - q - 2
      BY <1>1, <1>4
    <2>3. QED BY <1>2, <2>1, <2>2 DEF Placed
  <1>5. ASSUME q + 1 >= i - 1, ~P2.cut PROVE Expects(P2, f, q - (i - 1) + 1, B)
    <2>1. CASE q + 1 = i - 1
      <3>1. PICK b \in B : c[i - q - 1] = HeaderOf(f, b)
        BY <1>1, <2>1 DEF Placed
      <3>2. i - q - 1 = 1 /\ q - (i - 1) + 1 = 0
        BY <1>1, <2>1
      <3>3. c[1] = HeaderOf(f, b)
        BY <3>1, <3>2
      <3>4. P2.length = b /\ P2.index = 0 /\ P2.slot = 0 /\ P2.gathered = {}
        BY <3>3, <1>5, Different DEF Heard
      <3>5. Run(f, 0 - 0, 0) = {}
        BY RunGrows
      <3>6. QED BY <3>2, <3>4, <3>5 DEF Expects
    <2>2. CASE q + 1 >= i
      <3>1. i - 1 \in 1 .. q /\ i - 1 < i /\ i - (i - 1) = 1 /\ q - (i - 1) = q - i + 1
            /\ q - i + 1 \in Nat /\ q - (i - 1) + 1 = (q - i + 1) + 1
        BY <1>1, <2>2
      <3>2. c[1] = ByteOf(f, q - i + 1)
        BY <3>1 DEF Placed
      <3>3. Heard(P, c[1], P2) /\ c[1][2] # "header"
        BY <1>5, <3>2, Different
      <3>4. ~P.cut
        BY <1>5, <3>3 DEF Heard, Knows
      <3>5. /\ P.index = q - i + 1 /\ P.length \in B
            /\ P.gathered = Run(f, (q - i + 1) - P.slot, P.slot)
        BY <2>2, <3>4 DEF Placed, Expects
      <3>6. ~(P.index >= P.length)
        <4>1. q < P.length /\ P.length \in Nat
          BY <3>5 DEF Places
        <4>2. QED BY <1>1, <3>5, <4>1
      <3>7. P2.length = P.length /\ P2.index = (q - i + 1) + 1
        BY <3>3, <3>5, <3>6 DEF Heard
      <3>8. P2.gathered = Run(f, ((q - i + 1) + 1) - P2.slot, P2.slot)
        <4>1. CASE P.slot + 1 = CommandBytes
          <5>1. P2.slot = 0 /\ P2.gathered = {}
            BY <3>3, <3>6, <4>1 DEF Heard
          <5>2. Run(f, ((q - i + 1) + 1) - 0, 0) = {}
            BY <3>1, RunGrows
          <5>3. QED BY <5>1, <5>2
        <4>2. CASE P.slot + 1 # CommandBytes
          <5>1. P2.slot = P.slot + 1 /\ P2.gathered = P.gathered \union {<<P.slot, c[1]>>}
            BY <3>3, <3>6, <4>2 DEF Heard
          <5>2. P.slot \in Nat /\ (q - i + 1) - P.slot \in Int
                /\ ((q - i + 1) - P.slot) + P.slot = q - i + 1
                /\ ((q - i + 1) + 1) - (P.slot + 1) = (q - i + 1) - P.slot
            BY <3>1 DEF Knows
          <5>3. Run(f, (q - i + 1) - P.slot, P.slot) \union {<<P.slot, ByteOf(f, q - i + 1)>>}
                  = Run(f, (q - i + 1) - P.slot, P.slot + 1)
            <6> DEFINE r == (q - i + 1) - P.slot   n == P.slot
            <6>1. r \in Int /\ n \in Nat /\ r + n = q - i + 1
              BY <5>2
            <6> HIDE DEF r, n
            <6>2. ASSUME NEW a \in Int, NEW m \in Nat
                  PROVE  Run(f, a, m) \union {<<m, ByteOf(f, a + m)>>} = Run(f, a, m + 1)
              BY RunGrows
            <6>3. Run(f, r, n) \union {<<n, ByteOf(f, r + n)>>} = Run(f, r, n + 1)
              BY ONLY <6>1, <6>2
            <6>4. QED BY <6>1, <6>3 DEF r, n
          <5>4. QED BY <3>2, <3>5, <5>1, <5>2, <5>3
        <4>3. QED BY <4>1, <4>2
      <3>9. QED BY <3>1, <3>5, <3>7, <3>8 DEF Expects
    <2>3. QED BY <1>1, <1>5, <2>1, <2>2
  <1>6. QED BY <1>3, <1>4, <1>5 DEF Placed

\* What comes after a word does not matter to its place.
LEMMA KeptPlaced ==
  ASSUME NEW c, NEW i, NEW f, NEW q, NEW B, NEW P, NEW x \in Words, Places(c, i, f, q, B),
         Placed(c, i, f, q, B, P)
  PROVE  Placed(Append(c, x), i, f, q, B, P)
  <1>1. c \in Seq(Words) /\ Len(c) \in Nat /\ i \in 1 .. Len(c) + 1 /\ q \in Nat
    BY DEF Places
  <1>2. \A j \in 1 .. Len(c) : Append(c, x)[j] = c[j]
    BY <1>1, AppendProperties
  <1>3. \A j \in 1 .. q : j < i => i - j \in 1 .. Len(c)
    BY <1>1
  <1>4. q + 1 < i => /\ i - q - 1 \in 1 .. Len(c)
                     /\ \A j \in 1 .. i - q - 2 : j \in 1 .. Len(c)
    BY <1>1
  <1>5. QED BY <1>2, <1>3, <1>4 DEF Placed

\* After a byte of a frame comes the next of it.
LEMMA NextPlaced ==
  ASSUME NEW c, NEW f, NEW q, NEW B, NEW P, ByteOf(f, q) \in Words,
         Places(c, Len(c) + 1, f, q, B), Placed(c, Len(c) + 1, f, q, B, P)
  PROVE  Placed(Append(c, ByteOf(f, q)), (Len(c) + 1) + 1, f, q + 1, B, P)
  <1> DEFINE n == Len(c)   x == ByteOf(f, q)   d == Append(c, x)
  <1>1. c \in Seq(Words) /\ n \in Nat /\ q \in Nat
    BY DEF Places
  <1>2. (\A j \in 1 .. n : d[j] = c[j]) /\ d[n + 1] = x
    BY <1>1, AppendProperties
  <1> HIDE DEF n, d, x
  <1>3. ASSUME NEW j \in 1 .. q + 1, j < (n + 1) + 1
        PROVE  d[((n + 1) + 1) - j] = ByteOf(f, (q + 1) - j)
    <2>1. CASE j = 1
      <3>1. ((n + 1) + 1) - j = n + 1 /\ (q + 1) - j = q
        BY <1>1, <2>1
      <3>2. QED BY <1>2, <3>1 DEF x
    <2>2. CASE j # 1
      <3>1. /\ j - 1 \in 1 .. q /\ j - 1 < n + 1 /\ ((n + 1) + 1) - j = (n + 1) - (j - 1)
            /\ (q + 1) - j = q - (j - 1) /\ (n + 1) - (j - 1) \in 1 .. n
        BY <1>1, <1>3, <2>2
      <3>2. c[(n + 1) - (j - 1)] = ByteOf(f, q - (j - 1))
        BY <3>1 DEF Placed, n
      <3>3. QED BY <1>2, <3>1, <3>2
    <2>3. QED BY <2>1, <2>2
  <1>4. ASSUME (q + 1) + 1 < (n + 1) + 1
        PROVE  /\ \E b \in B : d[((n + 1) + 1) - (q + 1) - 1] = HeaderOf(f, b)
               /\ \A j \in 1 .. ((n + 1) + 1) - (q + 1) - 2 : d[j][1] # f
    <2>1. /\ q + 1 < n + 1 /\ ((n + 1) + 1) - (q + 1) - 1 = (n + 1) - q - 1
          /\ ((n + 1) + 1) - (q + 1) - 2 = (n + 1) - q - 2 /\ (n + 1) - q - 1 \in 1 .. n
          /\ \A j \in 1 .. (n + 1) - q - 2 : j \in 1 .. n
      BY <1>1, <1>4
    <2>2. /\ \E b \in B : c[(n + 1) - q - 1] = HeaderOf(f, b)
          /\ \A j \in 1 .. (n + 1) - q - 2 : c[j][1] # f
      BY <2>1 DEF Placed, n
    <2>3. QED BY <1>2, <2>1, <2>2
  <1>5. ASSUME (q + 1) + 1 >= (n + 1) + 1, ~P.cut
        PROVE  Expects(P, f, (q + 1) - ((n + 1) + 1) + 1, B)
    <2>1. q + 1 >= n + 1 /\ (q + 1) - ((n + 1) + 1) + 1 = q - (n + 1) + 1
      BY <1>1, <1>5
    <2>2. QED BY <1>5, <2>1 DEF Placed, n
  <1>6. Placed(d, (n + 1) + 1, f, q + 1, B, P)
    <2> DEFINE i == (n + 1) + 1   r == q + 1
    <2>1. \A j \in 1 .. r : j < i => d[i - j] = ByteOf(f, r - j)
      BY <1>3
    <2>2. r + 1 < i => /\ \E b \in B : d[i - r - 1] = HeaderOf(f, b)
                       /\ \A j \in 1 .. i - r - 2 : d[j][1] # f
      BY <1>4, Zenon
    <2>3. r + 1 >= i => P.cut \/ Expects(P, f, r - i + 1, B)
      BY <1>5, Zenon
    <2> HIDE DEF i, r
    <2>4. Placed(d, i, f, r, B, P)
      BY <2>1, <2>2, <2>3 DEF Placed
    <2>5. QED BY <2>4 DEF i, r
  <1>7. QED BY <1>6 DEF n, d, x

\* The first byte comes after the header.
LEMMA FirstPlaced ==
  ASSUME NEW c \in Seq(Words), NEW f \in Frames, NEW b \in Bodies, NEW P,
         \A i \in 1 .. Len(c) : c[i][1] # f, HeaderOf(f, b) \in Words
  PROVE  Placed(Append(c, HeaderOf(f, b)), (Len(c) + 1) + 1, f, 0, {b}, P)
  <1> DEFINE n == Len(c)   x == HeaderOf(f, b)   d == Append(c, x)
  <1>1. n \in Nat /\ (\A j \in 1 .. n : d[j] = c[j]) /\ d[n + 1] = x
    BY AppendProperties
  <1> HIDE DEF d, x
  <1>2. ((n + 1) + 1) - 0 - 1 = n + 1 /\ ((n + 1) + 1) - 0 - 2 = n /\ ~(0 + 1 >= (n + 1) + 1)
    BY <1>1
  <1>3. \A j \in 1 .. n : d[j][1] # f
    BY <1>1
  <1>4. d[((n + 1) + 1) - 0 - 1] = HeaderOf(f, b)
    BY <1>1, <1>2 DEF x
  <1>5. Placed(d, (n + 1) + 1, f, 0, {b}, P)
    BY <1>2, <1>3, <1>4 DEF Placed
  <1>6. QED BY <1>5 DEF d, x

LEMMA WiderPlaced ==
  ASSUME NEW c, NEW i, NEW f, NEW q, NEW B, NEW B2, NEW P, B \subseteq B2,
         Placed(c, i, f, q, B, P)
  PROVE  Placed(c, i, f, q, B2, P)
  BY DEF Placed, Expects

-----------------------------------------------------------------------------
(***************************************************************************)
(* The pointers, and what a cycle does to the queue between them.          *)
(***************************************************************************)
LEMMA PushedIsWord == ASSUME MailTypes, Push PROVE Pushed \in Words /\ Strobe
  <1>1. Strobe /\ feed.name \in Frames /\ feed.body \in Bodies /\ feed.index \in Int
    BY DEF MailTypes, Push, Header
  <1>2. feed.body \in Nat /\ feed.body < 64 /\ feed.index >= 0 /\ feed.index <= feed.body
    BY <1>1, MailboxAssumption DEF MailTypes, Strobe
  <1>3. CASE Header
    BY <1>1, <1>3 DEF Pushed, Words
  <1>4. CASE ~Header
    <2>1. feed.index > 0
      BY <1>4 DEF Push
    <2>2. feed.index - 1 \in 0 .. 63
      BY <1>1, <1>2, <2>1
    <2>3. QED BY <1>1, <1>4, <2>2 DEF Pushed, Words
  <1>5. QED BY <1>1, <1>3, <1>4

LEMMA SomeWord == \E w \in Words : TRUE
  <1>1. PICK f \in Frames : TRUE
    BY MailboxAssumption
  <1>2. ByteOf(f, 0) \in Words
    BY DEF Words
  <1>3. QED BY <1>2

LEMMA IsBothEdges ==
  ASSUME MailTypes, NEW pop \in BOOLEAN, WriteClocked(Push, FALSE, Pushed), ReadClocked(pop, FALSE)
  PROVE  BothEdges
  <1>1. CASE Push
    <2>1. WriteClocked(TRUE, FALSE, Pushed)
      BY <1>1 DEF WriteClocked
    <2>2. Pushed \in Data
      BY <1>1, PushedIsWord, MailboxAssumption
    <2>3. QED BY <2>1, <2>2 DEF BothEdges
  <1>2. CASE ~Push
    <2>1. PICK w \in Words : TRUE
      BY SomeWord
    <2>2. WriteClocked(FALSE, FALSE, w)
      BY <1>2 DEF WriteClocked
    <2>3. QED BY <2>1, <2>2, MailboxAssumption DEF BothEdges
  <1>3. QED BY <1>1, <1>2

\* How full the FIFO is, as the two sides see it.
Bounded == /\ Occupancy \in 0 .. Depth
           /\ ~Full => Occupancy < Depth

LEMMA FollowingBounds ==
  ASSUME TypeOK, Following
  PROVE  /\ Bounded
         /\ ~Empty => Occupancy > 0
         /\ Full => Occupancy >= Depth - 1
  <1> DEFINE a == Dist(wRptr, wMeta)   b == Dist(wMeta, rBin)   c == Dist(rBin, rWptr)
             d == Dist(rWptr, rMeta)   e == Dist(rMeta, wBin)
  <1>1. /\ a \in Nat /\ b \in Nat /\ c \in Nat /\ d \in Nat /\ e \in Nat
        /\ c = 0 <=> rBin = rWptr
    BY DistType DEF TypeOK
  <1>2. a + b + c + d + e = Level /\ c + d + e = Occupancy
    BY RoundIsLevel DEF Following, Inv, Round
  <1>3. a + b <= 1 /\ Level <= Depth /\ Depth \in Nat
    BY <1>2, DepthAssumption DEF Following, Views, Round
  <1> HIDE DEF a, b, c, d, e
  <1>4. Full <=> Level = Depth
    BY DEF Full, Level
  <1>5. QED BY <1>1, <1>2, <1>3, <1>4 DEF Bounded, Empty

LEMMA FlushedBounds ==
  ASSUME TypeOK, Flushed
  PROVE  Bounded /\ Occupancy <= 1
  BY DepthAssumption DEF Flushed, Bounded, Occupancy, Dist, TypeOK

\* A cycle without a flush takes the oldest word if it pops, and then adds the
\* word pushed if it is not refused.
Rest(pop) == IF pop THEN Tail(Contents) ELSE Contents

LEMMA QueueStep ==
  ASSUME TypeOK, MailTypes, Bounded, NEW pop \in BOOLEAN, pop => ~Empty /\ Occupancy > 0,
         WriteClocked(Push, FALSE, Pushed), ReadClocked(pop, FALSE)
  PROVE  Contents' = IF Push /\ ~Full THEN Append(Rest(pop), Pushed) ELSE Rest(pop)
  <1>1. Contents = Between(memory, rBin, wBin) /\ Contents' = Between(memory', rBin', wBin')
    BY ContentsIs
  <1>2. /\ memory \in [Address -> Data] /\ rBin \in Pointer /\ wBin \in Pointer
        /\ Occupancy \in Nat /\ Occupancy = Dist(rBin, wBin) /\ Occupancy <= Depth
    BY DEF TypeOK, Bounded, Occupancy
  <1>3. /\ rBin' \in Pointer /\ Between(memory, rBin', wBin) = Rest(pop)
        /\ Dist(rBin', wBin) \in Nat /\ Dist(rBin', wBin) <= Occupancy
    <2>1. CASE pop
      <3>1. rBin' = Ahead(rBin, 1)
        BY <2>1 DEF ReadClocked
      <3>2. rBin # wBin
        BY <1>2, <2>1, DistType
      <3>3. Ahead(rBin, 1) \in Pointer
        <4>1. 1 \in Pointer
          BY DepthAssumption DEF Pointer
        <4>2. QED BY <1>2, <4>1, AheadType
      <3>4. QED BY <1>1, <1>2, <2>1, <3>1, <3>2, <3>3, BetweenPop, DistType DEF Rest
    <2>2. CASE ~pop
      BY <1>1, <1>2, <2>2 DEF ReadClocked, Rest
    <2>3. QED BY <2>1, <2>2
  <1>4. CASE Push /\ ~Full
    <2>1. memory' = [memory EXCEPT ![Addr(wBin)] = Pushed] /\ wBin' = Ahead(wBin, 1)
      BY <1>4 DEF WriteClocked
    <2>2. Dist(rBin', wBin) < Depth
      BY <1>2, <1>3, <1>4, DepthAssumption DEF Bounded
    <2>3. Pushed \in Data
      BY <1>4, PushedIsWord, MailboxAssumption
    <2>4. Between(memory', rBin', wBin') = Append(Between(memory, rBin', wBin), Pushed)
      <3>1. PICK r \in Pointer : r = rBin'
        BY <1>3
      <3>2. Dist(r, wBin) < Depth
        BY <2>2, <3>1
      <3>3. Between([memory EXCEPT ![Addr(wBin)] = Pushed], r, Ahead(wBin, 1))
              = Append(Between(memory, r, wBin), Pushed)
        BY <1>2, <2>3, <3>2, BetweenPush
      <3>4. QED BY <2>1, <3>1, <3>3
    <2>5. QED BY <1>1, <1>3, <1>4, <2>4
  <1>5. CASE ~(Push /\ ~Full)
    <2>1. memory' = memory /\ wBin' = wBin
      BY <1>5 DEF WriteClocked
    <2>2. QED BY <1>1, <1>3, <1>5, <2>1
  <1>6. QED BY <1>4, <1>5

\* The words between the pointers are words.
LEMMA ContentsType ==
  ASSUME TypeOK, Bounded
  PROVE  /\ Contents \in Seq(Words) /\ Len(Contents) = Occupancy
         /\ Occupancy > 0 => ReadData = Contents[1] /\ Contents # << >>
  <1>1. rBin \in Pointer /\ wBin \in Pointer /\ Occupancy = Dist(rBin, wBin) /\ Occupancy \in Nat
        /\ Occupancy <= Depth /\ memory \in [Address -> Data] /\ Data = Words
    BY MailboxAssumption DEF TypeOK, Occupancy, Bounded
  <1>2. Contents \in [1 .. Occupancy -> Words]
    BY <1>1, ContentsIs, BetweenType
  <1>3. Contents \in Seq(Words) /\ Len(Contents) = Occupancy
    BY <1>1, <1>2
  <1>4. ASSUME Occupancy > 0 PROVE ReadData = Contents[1]
    <2>1. Ahead(rBin, 0) = rBin
      BY <1>1, DepthAssumption DEF Ahead, Pointer
    <2>2. 1 \in 1 .. Occupancy /\ 1 - 1 = 0
      BY <1>1, <1>4
    <2>3. QED BY <2>1, <2>2 DEF Contents, ReadData
  <1>5. QED BY <1>1, <1>3, <1>4

\* A cycle of a FIFO whose pointers follow one another.
LEMMA FollowingStep ==
  ASSUME TypeOK, MailTypes, Following, NEW pop \in BOOLEAN, pop => ~Empty /\ wMeta = rBin,
         WriteClocked(Push, FALSE, Pushed), ReadClocked(pop, FALSE)
  PROVE  /\ TypeOK' /\ Following'
         /\ ~pop => wMeta' = rBin' /\ (~Empty => ~Empty')
  <1>1. Inv /\ BothEdges
    BY IsBothEdges DEF Inv, Following
  <1>2. Inv'
    BY <1>1, NextInv DEF Next
  <1>3. wMeta' = rBin /\ wRptr' = wMeta /\ rBin' = IF pop THEN Ahead(rBin, 1) ELSE rBin
    BY DEF WriteClocked, ReadClocked
  <1>4. Dist(wMeta, rBin) \in Nat /\ Dist(wRptr, wMeta) \in Nat /\ Dist(rBin, rBin) = 0
    BY DistType DEF TypeOK
  <1>5. Dist(wRptr', wMeta') + Dist(wMeta', rBin') <= 1
    <2>1. CASE pop
      <3>1. Dist(wMeta, rBin) = 0
        BY <1>4, <2>1
      <3>2. Dist(rBin, Ahead(rBin, 1)) = 1
        <4>1. Dist(rBin, rBin) < 2 * Depth - 1
          BY <1>4, DepthAssumption
        <4>2. QED BY <1>4, <4>1, StepDist DEF TypeOK
      <3>3. QED BY <1>3, <2>1, <3>1, <3>2
    <2>2. CASE ~pop
      BY <1>3, <1>4, <2>2 DEF Following
    <2>3. QED BY <2>1, <2>2
  <1>6. ASSUME ~pop, ~Empty PROVE ~Empty'
    <2>1. rBin' = rBin /\ rWptr' = rMeta
      BY <1>3, <1>6 DEF ReadClocked
    <2>2. /\ Dist(rBin, rWptr) \in Nat /\ Dist(rWptr, rMeta) \in Nat /\ Dist(rMeta, wBin) \in Nat
          /\ Dist(rBin, rWptr) # 0 /\ rBin \in Pointer /\ rMeta \in Pointer
          /\ rWptr \in Pointer
      BY <1>6, DistType DEF TypeOK, Empty
    <2>3. Dist(rBin, rWptr) + Dist(rWptr, rMeta) < 2 * Depth
      BY <1>4, <2>2, DepthAssumption DEF Following, Views, Round
    <2>4. Dist(rBin, rMeta) # 0
      BY <2>2, <2>3, AddDist
    <2>5. QED BY <2>1, <2>2, <2>4, DistType DEF Empty
  <1>7. Following'
    BY <1>2, <1>5 DEF Following, Inv, Dist
  <1>8. QED BY <1>2, <1>3, <1>6, <1>7 DEF Inv

\* A flush, and the two cycles after it.
LEMMA FlushPointers ==
  ASSUME TypeOK, MailTypes, NEW pop \in BOOLEAN, NEW done, MailCycle(TRUE, pop, done), rest' = 2
  PROVE  TypeOK' /\ Flushed' /\ Contents' = << >>
  <1>1. wBin' = 0 /\ rBin' = 0 /\ wMeta' = rBin /\ wRptr' = wMeta /\ rMeta' = wBin
        /\ rWptr' = rMeta /\ ~forwarding'
    BY DEF MailCycle, WriteClocked, ReadClocked, Forward
  <1>2. memory' \in [Address -> Data]
    <2>1. CASE Push /\ ~Full
      <3>1. Pushed \in Data /\ memory' = [memory EXCEPT ![Addr(wBin)] = Pushed]
        BY <2>1, PushedIsWord, MailboxAssumption DEF MailCycle, WriteClocked
      <3>2. QED BY <3>1 DEF TypeOK
    <2>2. CASE ~(Push /\ ~Full)
      BY <2>2 DEF MailCycle, WriteClocked, TypeOK
    <2>3. QED BY <2>1, <2>2
  <1>3. 0 \in Pointer
    BY DepthAssumption DEF Pointer
  <1>4. Occupancy' = 0
    BY <1>1 DEF Occupancy, Dist
  <1>5. QED BY <1>1, <1>2, <1>3, <1>4 DEF TypeOK, Flushed, Contents

LEMMA FlushedStep ==
  ASSUME TypeOK, MailTypes, Flushed, NEW done, MailCycle(FALSE, FALSE, done), rest' = rest - 1
  PROVE  TypeOK' /\ (Following' \/ Flushed')
  <1>1. /\ wBin' = IF Push /\ ~Full THEN Ahead(wBin, 1) ELSE wBin
        /\ rBin' = 0 /\ wMeta' = 0 /\ wRptr' = wMeta /\ rMeta' = wBin /\ rWptr' = rMeta
        /\ wBin \in {0, 1}
    BY DEF MailCycle, WriteClocked, ReadClocked, Flushed
  <1>2. Ahead(wBin, 1) = wBin + 1 /\ 0 \in Pointer /\ 1 \in Pointer /\ 2 \in Pointer
    BY <1>1, DepthAssumption DEF Ahead, Pointer
  <1>3. memory' \in [Address -> Data]
    <2>1. CASE Push /\ ~Full
      <3>1. Pushed \in Data /\ memory' = [memory EXCEPT ![Addr(wBin)] = Pushed]
        BY <2>1, PushedIsWord, MailboxAssumption DEF MailCycle, WriteClocked
      <3>2. QED BY <3>1 DEF TypeOK
    <2>2. CASE ~(Push /\ ~Full)
      BY <2>2 DEF MailCycle, WriteClocked, TypeOK
    <2>3. QED BY <2>1, <2>2
  <1>4. TypeOK'
    BY <1>1, <1>2, <1>3 DEF TypeOK
  <1>5. CASE rest = 2
    <2>1. wBin' \in {0, 1} /\ rMeta' = 0 /\ rest' = 1
      BY <1>1, <1>2, <1>5 DEF Flushed
    <2>2. Going' => feed'.index = 1
      <3>1. ASSUME Going' PROVE feed'.index = 1
        <4>1. forwarding' /\ ~forwarding
          BY <1>5, <3>1 DEF Going, Flushed
        <4>2. Strobe /\ feed.index = 0
          BY <4>1 DEF MailCycle, Forward
        <4>3. feed' = IF feed.index = feed.body THEN NoFrame ELSE [feed EXCEPT !.index = @ + 1]
          BY <4>2 DEF MailCycle, Replay
        <4>4. QED BY <3>1, <4>2, <4>3 DEF Going, Strobe, NoFrame, MailTypes
      <3>2. QED BY <3>1
    <2>3. QED BY <1>1, <1>4, <2>1, <2>2 DEF Flushed
  <1>6. CASE rest = 1
    <2>1. wRptr' = 0 /\ rWptr' = 0 /\ rMeta' \in {0, 1} /\ wBin' \in {rMeta', rMeta' + 1}
      BY <1>1, <1>2, <1>6 DEF Flushed
    <2>2. /\ Dist(0, 0) = 0 /\ Dist(0, rMeta') = rMeta' /\ Dist(rMeta', wBin') = wBin' - rMeta'
      <3>1. PICK m, w : m = rMeta' /\ w = wBin'
        OBVIOUS
      <3>2. m \in {0, 1} /\ w \in {m, m + 1}
        BY <2>1, <3>1
      <3>3. Dist(0, 0) = 0 /\ Dist(0, m) = m /\ Dist(m, w) = w - m
        BY <3>2 DEF Dist
      <3>4. QED BY <3>1, <3>3
    <2>3. Round' = wBin'
      BY <1>1, <2>1, <2>2 DEF Round, Dist
    <2>4. QED BY <1>1, <1>4, <2>1, <2>2, <2>3, DepthAssumption DEF Following, Views, Dist
  <1>7. QED BY <1>5, <1>6 DEF Flushed

-----------------------------------------------------------------------------
(***************************************************************************)
(* The stream of words, through a cycle without a flush.                   *)
(***************************************************************************)
\* A cycle in which the processor pops or does not, begins anew or does not, and
\* makes a command of the word at the head or none.
Turns(pop, done) ==
  /\ pop \in BOOLEAN /\ MailCycle(FALSE, pop, done)
  /\ pop => next = "data"
  /\ \/ pop /\ Heard(Parser, Contents[1], Parser')
     \/ ~pop /\ Parser' = Parser
     \/ Parser'.cut
  /\ \/ done = {}
     \/ pop /\ ~cut /\ Contents[1][2] = "byte" /\ \A g \in done : g[2][1] = Contents[1][1]
  /\ next' = "data" => ~pop /\ rest = 0 /\ (next = "data" \/ (~overflow /\ ~Empty))

\* What holds of the state as such, before anything is said of the words.
Sound == MailTypes /\ Pointers

LEMMA SoundFacts ==
  ASSUME Sound
  PROVE  /\ Bounded /\ Contents \in Seq(Words) /\ Len(Contents) = Occupancy /\ Occupancy \in Nat
         /\ (rest = 0 /\ ~Empty) => Following /\ Occupancy > 0
         /\ next = "data" => /\ Following /\ ~Empty /\ Occupancy > 0 /\ wMeta = rBin
                             /\ ReadData = Contents[1] /\ Contents # << >>
         /\ Knows(Parser)
  <1>1. TypeOK /\ (Following \/ Flushed) /\ MailTypes
    BY DEF Sound, Pointers
  <1>2. Bounded
    BY <1>1, FollowingBounds, FlushedBounds
  <1>3. rest = 0 => Following
    BY <1>1 DEF Flushed
  <1>4. (rest = 0 /\ ~Empty) => Occupancy > 0
    BY <1>1, <1>3, FollowingBounds
  <1>5. next = "data" => rest = 0 /\ ~Empty /\ wMeta = rBin
    BY DEF Sound, Pointers, MailTypes
  <1>6. Knows(Parser)
    BY <1>1, MailboxAssumption DEF Knows, Parser, MailTypes
  <1>7. Occupancy \in Nat
    BY <1>2 DEF Bounded
  <1>8. QED BY <1>1, <1>2, <1>3, <1>4, <1>5, <1>6, <1>7, ContentsType

\* What is at hand about the end of the queue, once it is known what is taken.
LEMMA TurnQueue ==
  ASSUME Sound, NEW pop, NEW done, Turns(pop, done)
  PROVE  /\ Contents' = IF Push /\ ~Full THEN Append(Rest(pop), Pushed) ELSE Rest(pop)
         /\ Rest(pop) \in Seq(Words) /\ Len(Rest(pop)) = IF pop THEN Len(Contents) - 1 ELSE Len(Contents)
         /\ \A i \in 1 .. Len(Rest(pop)) : Rest(pop)[i] = Contents[IF pop THEN i + 1 ELSE i]
         /\ \A i \in 1 .. Len(Rest(pop)) : \E j \in 1 .. Len(Contents) : Rest(pop)[i] = Contents[j]
         /\ pop \in BOOLEAN /\ (pop => Contents # << >> /\ Len(Contents) > 0)
         /\ Len(Contents) \in Nat /\ Len(Rest(pop)) <= Len(Contents)
  <1>1. pop \in BOOLEAN
        /\ (pop => ~Empty /\ Occupancy > 0 /\ Contents # << >> /\ Len(Contents) > 0)
    BY SoundFacts DEF Turns
  <1>2. Contents' = IF Push /\ ~Full THEN Append(Rest(pop), Pushed) ELSE Rest(pop)
    BY <1>1, SoundFacts, QueueStep DEF Turns, MailCycle, Sound, Pointers
  <1>3. CASE pop
    <2>1. /\ Tail(Contents) \in Seq(Words) /\ Len(Tail(Contents)) = Len(Contents) - 1
          /\ \A i \in 1 .. Len(Tail(Contents)) : Tail(Contents)[i] = Contents[i + 1]
      BY <1>1, <1>3, SoundFacts, HeadTailProperties
    <2>2. \A i \in 1 .. Len(Tail(Contents)) : i + 1 \in 1 .. Len(Contents)
      BY <2>1, SoundFacts
    <2>3. QED BY <1>1, <1>2, <1>3, <2>1, <2>2, SoundFacts DEF Rest
  <1>4. CASE ~pop
    BY <1>1, <1>2, <1>4, SoundFacts DEF Rest
  <1>5. QED BY <1>1, <1>3, <1>4

\* A word stays in its place when the head is taken.
LEMMA RestPlaced ==
  ASSUME Sound, NEW pop, NEW done, Turns(pop, done), NEW i, NEW j, NEW f, NEW q, NEW B,
         Places(Contents, i, f, q, B), Placed(Contents, i, f, q, B, Parser),
         pop => i > 1, j = IF pop THEN i - 1 ELSE i
  PROVE  Placed(Rest(pop), j, f, q, B, Parser')
  <1>1. CASE pop
    <2>1. Heard(Parser, Contents[1], Parser') \/ Parser'.cut
      BY <1>1 DEF Turns
    <2>2. Placed(Tail(Contents), i - 1, f, q, B, Parser')
      BY <1>1, <2>1, SoundFacts, TakenPlaced
    <2>3. QED BY <1>1, <2>2 DEF Rest
  <1>2. CASE ~pop
    <2>1. Parser' = Parser \/ Parser'.cut
      BY <1>2 DEF Turns
    <2>2. Placed(Contents, i, f, q, B, Parser')
      BY <2>1 DEF Placed
    <2>3. QED BY <1>2, <2>2 DEF Rest
  <1>3. QED BY <1>1, <1>2

\* A frame whose bytes are at the head has its header gone: fewer of its words
\* are in the FIFO than the decoder has replayed bytes of it.
LEMMA HeaderGone ==
  ASSUME NEW c \in Seq(Words), NEW f, NEW q \in Nat, NEW B, NEW P, Len(c) > 0,
         Placed(c, Len(c) + 1, f, q, B, P), c[1][2] = "byte", c[1][1] = f
  PROVE  Len(c) <= q
  <1> DEFINE n == Len(c)   h == (n + 1) - q - 1
  <1>1. n \in Nat /\ n > 0
    OBVIOUS
  <1>2. q + 1 < n + 1 => /\ \E b \in B : c[h] = HeaderOf(f, b)
                         /\ \A j \in 1 .. (n + 1) - q - 2 : c[j][1] # f
    BY DEF Placed
  <1>3. \A b \in B : c[1] # HeaderOf(f, b)
    BY Different
  <1> HIDE DEF n, h
  <1>4. q + 1 < n + 1 => h # 1
    BY <1>2, <1>3
  <1>5. ~(1 \in 1 .. (n + 1) - q - 2) \/ ~(q + 1 < n + 1)
    BY <1>2
  <1>6. n <= q
    BY <1>1, <1>4, <1>5 DEF h
  <1>7. QED BY <1>6 DEF n

\* Where the byte under way goes, if it goes anywhere.
LEMMA GoingPlaces ==
  ASSUME Sound, Going
  PROVE  /\ feed.index \in Nat /\ feed.index - 1 \in Nat
         /\ feed.index <= feed.body /\ feed.body \in Bodies
         /\ feed.body \in Nat /\ feed.body + 1 <= Depth
         /\ Places(Contents, Len(Contents) + 1, feed.name, feed.index - 1, {feed.body})
         /\ Push /\ Pushed = ByteOf(feed.name, feed.index - 1)
  <1>1. /\ feed.name \in Frames /\ feed.index \in Int /\ feed.index <= feed.body
        /\ feed.body \in Bodies /\ feed.index > 0 /\ Strobe
    BY DEF Sound, MailTypes, Going
  <1>2. feed.body \in Nat /\ feed.body + 1 <= Depth
    BY <1>1, MailboxAssumption
  <1>3. feed.index \in Nat /\ feed.index - 1 \in Nat /\ feed.index - 1 < feed.body
    BY <1>1, <1>2
  <1>4. Contents \in Seq(Words) /\ Len(Contents) + 1 \in 1 .. Len(Contents) + 1
    BY SoundFacts
  <1>5. Push /\ Pushed = ByteOf(feed.name, feed.index - 1)
    BY <1>1 DEF Push, Pushed, Going, Header
  <1>6. QED BY <1>1, <1>2, <1>3, <1>4, <1>5 DEF Places

\* A word refused is of no frame that has begun to leave the FIFO.
LEMMA Refused ==
  ASSUME Sound, Told, Named, ~overflow, Push, Full
  PROVE  /\ feed.name \notin ran
         /\ (Following /\ Contents # << >> /\ Contents[1][2] = "byte") =>
               Contents[1][1] # feed.name
  <1>1. Stream /\ Strobe
    BY DEF Told, Push, Header
  <1>2. CASE feed.index = 0
    <2>1. Contents # << >> => 1 \in 1 .. Len(Contents)
      BY SoundFacts, EmptySeq
    <2>2. QED BY <1>1, <1>2, <2>1 DEF Named
  <1>3. CASE feed.index # 0
    <2>1. Going
      BY <1>1, <1>3 DEF Push, Header, Going, Strobe, Sound, MailTypes
    <2>2. /\ Placed(Contents, Len(Contents) + 1, feed.name, feed.index - 1, {feed.body}, Parser)
          /\ feed.name \in ran => Len(Contents) + 2 <= feed.index
      BY <1>1, <2>1 DEF Stream
    <2>3. Len(Contents) = Occupancy /\ Occupancy \in Nat /\ Contents \in Seq(Words) /\ TypeOK
      BY SoundFacts DEF Sound, Pointers
    <2>4. Following => Occupancy >= Depth - 1
      BY <2>3, FollowingBounds
    <2>5. ~Following => feed.index = 1
      <3>1. ~Following => Flushed
        BY DEF Sound, Pointers
      <3>2. QED BY <2>1, <3>1 DEF Flushed, Going
    <2>6. /\ feed.index \in Nat /\ feed.index - 1 \in Nat
          /\ feed.index <= feed.body /\ feed.body \in Nat /\ feed.body + 1 <= Depth
      BY <2>1, GoingPlaces
    <2>7. feed.name \notin ran
      BY <2>2, <2>3, <2>4, <2>5, <2>6, DepthAssumption
    <2>8. ASSUME Following, Contents # << >>, Contents[1][2] = "byte", Contents[1][1] = feed.name
          PROVE  FALSE
      <3>1. Len(Contents) > 0
        BY <2>3, <2>8, EmptySeq
      <3>2. Len(Contents) <= feed.index - 1
        BY <2>2, <2>3, <2>6, <2>8, <3>1, HeaderGone
      <3>3. QED BY <2>3, <2>4, <2>6, <2>8, <3>2, DepthAssumption
    <2>9. QED BY <2>7, <2>8
  <1>4. QED BY <1>2, <1>3

\* The queue that is left is in its place, and what a cycle's command is made of
\* was at its head.
LEMMA RestInPlace ==
  ASSUME Sound, NEW pop, NEW done, Turns(pop, done), Stream
  PROVE  /\ \A i \in 1 .. Len(Rest(pop)) : /\ InPlace(Rest(pop), i, Rest(pop)[i], Parser')
                                           /\ Rest(pop)[i][1] \notin lost
         /\ Going => Placed(Rest(pop), Len(Rest(pop)) + 1, feed.name, feed.index - 1,
                            {feed.body}, Parser')
  <1> DEFINE d == IF pop THEN 1 ELSE 0
  <1>1. /\ Contents \in Seq(Words) /\ Len(Contents) \in Nat /\ Rest(pop) \in Seq(Words)
        /\ Len(Rest(pop)) = Len(Contents) - d
        /\ \A i \in 1 .. Len(Rest(pop)) : Rest(pop)[i] = Contents[i + d]
        /\ pop \in BOOLEAN /\ (pop => Len(Contents) > 0)
    <2>1. CASE pop
      BY <2>1, SoundFacts, TurnQueue
    <2>2. CASE ~pop
      <3>1. \A i \in 1 .. Len(Contents) : i + 0 = i
        OBVIOUS
      <3>2. QED BY <2>2, <3>1, SoundFacts, TurnQueue DEF Rest
    <2>3. QED BY <2>1, <2>2
  <1>2. ASSUME NEW i \in 1 .. Len(Rest(pop))
        PROVE  InPlace(Rest(pop), i, Rest(pop)[i], Parser') /\ Rest(pop)[i][1] \notin lost
    <2> DEFINE w == Contents[i + d]
    <2>1. i + d \in 1 .. Len(Contents) /\ Rest(pop)[i] = w /\ w \in Words
          /\ (pop => i + d > 1) /\ i = IF pop THEN (i + d) - 1 ELSE i + d
      BY <1>1, <1>2
    <2>2. InPlace(Contents, i + d, w, Parser) /\ w[1] \notin lost
      BY <2>1 DEF Stream
    <2> HIDE DEF w, d
    <2>3. ASSUME w[2] = "byte" PROVE Placed(Rest(pop), i, w[1], w[3], Longer(w[3]), Parser')
      <3>1. w[1] \in Frames /\ w[3] \in Nat
        BY <2>1, <2>3, ByteIs
      <3>2. Places(Contents, i + d, w[1], w[3], Longer(w[3]))
        <4>1. \A b \in Longer(w[3]) : b \in Nat /\ w[3] < b
          BY MailboxAssumption DEF Longer
        <4>2. QED BY <1>1, <2>1, <3>1, <4>1 DEF Places
      <3>3. Placed(Contents, i + d, w[1], w[3], Longer(w[3]), Parser)
        BY <2>2, <2>3 DEF InPlace
      <3>4. QED BY <2>1, <3>2, <3>3, RestPlaced
    <2>4. QED BY <2>1, <2>2, <2>3 DEF InPlace
  <1>3. ASSUME Going
        PROVE  Placed(Rest(pop), Len(Rest(pop)) + 1, feed.name, feed.index - 1, {feed.body}, Parser')
    <2>1. Places(Contents, Len(Contents) + 1, feed.name, feed.index - 1, {feed.body})
      BY <1>3, GoingPlaces
    <2>2. Placed(Contents, Len(Contents) + 1, feed.name, feed.index - 1, {feed.body}, Parser)
      BY <1>3 DEF Stream
    <2>3. /\ Len(Rest(pop)) + 1 = IF pop THEN (Len(Contents) + 1) - 1 ELSE Len(Contents) + 1
          /\ pop => Len(Contents) + 1 > 1
      BY <1>1
    <2>4. QED BY <2>1, <2>2, <2>3, RestPlaced
  <1>4. QED BY <1>2, <1>3

\* Where a byte will be in its place next cycle, it or the header before it was
\* pushed in this one.
LEMMA WasGoing ==
  ASSUME Sound, NEW flush \in BOOLEAN, NEW pop, NEW done, MailCycle(flush, pop, done), Going'
  PROVE  /\ ~flush /\ Strobe /\ feed.body \in Bodies /\ feed.name \in Frames /\ feed.index \in Nat
         /\ feed'.name = feed.name /\ feed'.body = feed.body /\ feed'.index = feed.index + 1
         /\ (feed.index = 0 /\ Header) \/ Going
  <1>1. Strobe' /\ forwarding' /\ feed'.index > 0
    BY DEF Going
  <1>2. Strobe
    <2>1. ~Strobe => feed' \in {NoFrame} \union [name : Fresh, ours : BOOLEAN, body : Bodies, index : {0}]
      BY DEF MailCycle, Replay
    <2>2. QED BY <1>1, <2>1 DEF NoFrame, Strobe
  <1>3. feed' = IF feed.index = feed.body THEN NoFrame ELSE [feed EXCEPT !.index = @ + 1]
    BY <1>2 DEF MailCycle, Replay
  <1>4. feed' = [feed EXCEPT !.index = @ + 1]
    BY <1>1, <1>3 DEF NoFrame, Strobe
  <1>5. /\ feed \in [name : Frames, ours : BOOLEAN, body : Nat, index : Int]
        /\ feed.body \in Bodies /\ feed.index \in Nat
    BY <1>2 DEF Sound, MailTypes, Strobe
  <1>6. ~flush /\ IF feed.index = 0 THEN feed.ours ELSE forwarding
    BY <1>1, <1>2 DEF MailCycle, Forward
  <1>7. (feed.index = 0 /\ Header) \/ Going
    BY <1>2, <1>5, <1>6 DEF Header, Going
  <1>8. QED BY <1>2, <1>4, <1>5, <1>6, <1>7

LEMMA StreamStep ==
  ASSUME Sound, NEW pop, NEW done, Turns(pop, done), Stream, Named, ~(Push /\ Full)
  PROVE  Stream'
  <1> DEFINE c == Rest(pop)   f == feed.name   k == feed.index
  <1>1. Contents' = IF Push THEN Append(c, Pushed) ELSE c
    BY TurnQueue
  <1>2. c \in Seq(Words) /\ Len(c) \in Nat
    BY TurnQueue
  <1>3. \A i \in 1 .. Len(c) : InPlace(c, i, c[i], Parser') /\ c[i][1] \notin lost
    BY RestInPlace
  <1>4. Going => Placed(c, Len(c) + 1, f, k - 1, {feed.body}, Parser')
    BY RestInPlace
  <1>5. Push => /\ Pushed \in Words /\ Strobe /\ Len(Append(c, Pushed)) = Len(c) + 1
                /\ \A i \in 1 .. Len(c) : Append(c, Pushed)[i] = c[i]
                /\ Append(c, Pushed)[Len(c) + 1] = Pushed
                /\ (k = 0 /\ Header) \/ Going
    <2>1. ASSUME Push PROVE (k = 0 /\ Header) \/ Going
      BY <2>1 DEF Push, Header, Going
    <2>2. Push => Pushed \in Words /\ Strobe
      BY PushedIsWord DEF Sound
    <2>3. QED BY <1>2, <2>1, <2>2, AppendProperties
  <1>6. lost' \subseteq lost
    BY DEF Turns, MailCycle
  <1>7. Going => Len(c) + 1 \in Nat /\ Places(c, Len(c) + 1, f, k - 1, {feed.body})
                 /\ Pushed = ByteOf(f, k - 1) /\ Push /\ k \in Nat
    BY <1>2, GoingPlaces DEF Places
  <1> HIDE DEF c
  <1>8. ASSUME NEW i \in 1 .. Len(Contents')
        PROVE  InPlace(Contents', i, Contents'[i], Parser') /\ Contents'[i][1] \notin lost'
    <2>1. CASE i \in 1 .. Len(c)
      <3>1. Contents'[i] = c[i] /\ InPlace(c, i, c[i], Parser') /\ c[i][1] \notin lost'
        BY <1>1, <1>3, <1>5, <1>6, <2>1
      <3>2. ASSUME c[i][2] = "byte", Push
            PROVE  Placed(Append(c, Pushed), i, c[i][1], c[i][3], Longer(c[i][3]), Parser')
        <4>1. c[i] \in Words
          BY <1>2, <2>1
        <4>2. c[i][1] \in Frames /\ c[i][3] \in Nat
          BY <3>2, <4>1, ByteIs
        <4>3. Places(c, i, c[i][1], c[i][3], Longer(c[i][3]))
          <5>1. \A b \in Longer(c[i][3]) : b \in Nat /\ c[i][3] < b
            BY MailboxAssumption DEF Longer
          <5>2. QED BY <1>2, <2>1, <4>2, <5>1 DEF Places
        <4>4. Placed(c, i, c[i][1], c[i][3], Longer(c[i][3]), Parser')
          BY <3>1, <3>2 DEF InPlace
        <4>5. Pushed \in Words
          BY <1>5, <3>2
        <4>6. QED BY <4>3, <4>4, <4>5, KeptPlaced
      <3>3. QED BY <1>1, <3>1, <3>2 DEF InPlace
    <2>2. CASE i \notin 1 .. Len(c)
      <3>1. Push /\ i = Len(c) + 1 /\ Contents' = Append(c, Pushed) /\ Contents'[i] = Pushed
        BY <1>1, <1>2, <1>5, <1>8, <2>2
      <3>2. CASE k = 0 /\ Header
        <4>1. Pushed[2] = "header" /\ Pushed[1] = f
          BY <3>2, Different DEF Pushed
        <4>2. f \notin lost
          BY <1>5, <3>1, <3>2 DEF Named
        <4>3. QED BY <1>6, <3>1, <4>1, <4>2 DEF InPlace
      <3>3. CASE Going
        <4>1. Pushed = ByteOf(f, k - 1) /\ Places(c, Len(c) + 1, f, k - 1, {feed.body}) /\ k \in Nat
          BY <1>7, <3>3
        <4>2. Pushed[1] = f /\ Pushed[3] = k - 1
          BY <4>1, Different
        <4>3. {feed.body} \subseteq Longer(k - 1)
          BY <3>3, <4>1, GoingPlaces DEF Longer, Places
        <4>4. Placed(c, i, f, k - 1, Longer(k - 1), Parser')
          BY <1>4, <3>1, <3>3, <4>3, WiderPlaced
        <4>5. Places(c, i, f, k - 1, Longer(k - 1))
          <5>1. \A b \in Longer(k - 1) : b \in Nat /\ k - 1 < b
            BY MailboxAssumption DEF Longer
          <5>2. QED BY <3>1, <4>1, <5>1 DEF Places
        <4>6. Placed(Append(c, Pushed), i, f, k - 1, Longer(k - 1), Parser')
          BY <1>5, <3>1, <4>4, <4>5, KeptPlaced
        <4>7. f \notin lost
          BY <3>3 DEF Stream
        <4>8. QED BY <1>6, <3>1, <4>2, <4>6, <4>7 DEF InPlace
      <3>4. QED BY <1>5, <3>1, <3>2, <3>3
    <2>3. QED BY <2>1, <2>2
  <1>9. ASSUME Going'
        PROVE  /\ Placed(Contents', Len(Contents') + 1, feed'.name, feed'.index - 1, {feed'.body}, Parser')
               /\ feed'.name \notin lost'
               /\ feed'.name \in ran' => Len(Contents') + 2 <= feed'.index
    <2>1. /\ Strobe /\ feed.body \in Bodies /\ f \in Frames /\ k \in Nat
          /\ feed'.name = f /\ feed'.body = feed.body /\ feed'.index = k + 1
          /\ (k = 0 /\ Header) \/ Going
      BY <1>9, WasGoing DEF Turns
    <2>2. Push /\ (k + 1) - 1 = k
      BY <1>7, <2>1 DEF Push
    <2>3. Contents' = Append(c, Pushed) /\ Pushed \in Words /\ Len(Contents') = Len(c) + 1
      BY <1>1, <1>5, <2>2
    <2>4. f \in ran' => f \in ran \/ (pop /\ Contents[1][2] = "byte" /\ Contents[1][1] = f)
      BY DEF Turns, MailCycle
    <2>5. /\ Len(c) <= Len(Contents) /\ (pop => Len(c) + 1 = Len(Contents) /\ Len(Contents) > 0)
          /\ Contents \in Seq(Words) /\ Len(Contents) \in Nat
      BY SoundFacts, TurnQueue DEF c
    <2>6. CASE k = 0 /\ Header
      <3>1. /\ f \notin ran \union lost
            /\ \A i \in 1 .. Len(Contents) : Contents[i][1] # f
        BY <2>1, <2>6 DEF Named
      <3>2. \A i \in 1 .. Len(c) : c[i][1] # f
        <4>1. \A i \in 1 .. Len(c) : \E j \in 1 .. Len(Contents) : c[i] = Contents[j]
          BY TurnQueue DEF c
        <4>2. QED BY <3>1, <4>1
      <3>3. Pushed = HeaderOf(f, feed.body)
        BY <2>6 DEF Pushed
      <3>4. Placed(Contents', (Len(c) + 1) + 1, f, 0, {feed.body}, Parser')
        BY <1>2, <2>1, <2>3, <3>2, <3>3, FirstPlaced
      <3>5. ~(pop /\ Contents[1][1] = f)
        <4>1. pop => 1 \in 1 .. Len(Contents)
          BY <2>5
        <4>2. QED BY <3>1, <4>1
      <3>6. QED BY <1>6, <2>1, <2>2, <2>3, <2>4, <2>6, <3>1, <3>4, <3>5
    <2>7. CASE Going
      <3>1. Pushed = ByteOf(f, k - 1) /\ Places(c, Len(c) + 1, f, k - 1, {feed.body})
            /\ (k - 1) + 1 = k /\ k - 1 \in Nat
        BY <1>7, <2>1, <2>7, GoingPlaces
      <3>2. Placed(Contents', (Len(c) + 1) + 1, f, (k - 1) + 1, {feed.body}, Parser')
        BY <1>4, <2>3, <2>7, <3>1, NextPlaced
      <3>3. /\ Placed(Contents, Len(Contents) + 1, f, k - 1, {feed.body}, Parser)
            /\ f \notin lost /\ (f \in ran => Len(Contents) + 2 <= k)
        BY <2>7 DEF Stream
      <3>4. (pop /\ Contents[1][2] = "byte" /\ Contents[1][1] = f) => Len(Contents) <= k - 1
        BY <2>5, <3>1, <3>3, HeaderGone
      <3>5. f \in ran' => Len(Contents') + 2 <= k + 1
        BY <1>2, <2>1, <2>3, <2>4, <2>5, <3>3, <3>4
      <3>6. QED BY <1>6, <2>1, <2>2, <2>3, <3>1, <3>2, <3>3, <3>5
    <2>8. QED BY <2>1, <2>6, <2>7
  <1>10. QED BY <1>8, <1>9 DEF Stream

\* The name of the next frame: the same, or one that is nowhere in use.
LEMMA NextName ==
  ASSUME Sound, NEW flush, NEW pop, NEW done, MailCycle(flush, pop, done), Strobe'
  PROVE  \/ Strobe /\ feed'.name = feed.name /\ feed'.index # 0
         \/ ~Strobe /\ feed'.name \in Unused /\ feed'.index = 0
  <1>1. CASE Strobe
    <2>1. feed' = IF feed.index = feed.body THEN NoFrame ELSE [feed EXCEPT !.index = @ + 1]
      BY <1>1 DEF MailCycle, Replay
    <2>2. feed' = [feed EXCEPT !.index = @ + 1]
      BY <2>1 DEF NoFrame, Strobe
    <2>3. QED BY <1>1, <2>2 DEF Sound, MailTypes, Strobe
  <1>2. CASE ~Strobe
    <2>1. feed' \in {NoFrame} \union [name : Fresh, ours : BOOLEAN, body : Bodies, index : {0}]
      BY <1>2 DEF MailCycle, Replay
    <2>2. QED BY <1>2, <2>1 DEF NoFrame, Strobe, Fresh
  <1>3. QED BY <1>1, <1>2

LEMMA WordsInUse == ASSUME Sound, NEW i \in 1 .. Len(Contents)
                    PROVE  Contents[i][1] \in InUse
  <1>1. i \in DOMAIN Contents
    BY SoundFacts
  <1>2. QED BY <1>1 DEF InUse, Alive

\* What a command is made of in a cycle is neither of a frame refused nor of the
\* one the decoder has just had a word of refused.
LEMMA DoneNames ==
  ASSUME Sound, Told, Named, NEW pop, NEW done, Turns(pop, done), NEW g \in done
  PROVE  /\ g[2][1] \in InUse /\ g[2][1] = Contents[1][1] /\ Len(Contents) > 0
         /\ g[2][1] \notin lost
         /\ (Push /\ (Full \/ overflow)) => g[2][1] # feed.name
         /\ (Strobe /\ overflow) => g[2][1] # feed.name
  <1>1. pop /\ ~cut /\ Contents[1][2] = "byte" /\ g[2][1] = Contents[1][1] /\ next = "data"
    BY DEF Turns
  <1>2. Following /\ Contents # << >> /\ Contents \in Seq(Words) /\ Len(Contents) > 0
    BY <1>1, SoundFacts, TurnQueue
  <1>3. 1 \in 1 .. Len(Contents)
    BY <1>2
  <1>4. g[2][1] \in InUse
    BY <1>1, <1>3, WordsInUse
  <1>5. CASE overflow
    BY <1>1, <1>2, <1>4, <1>5, PushedIsWord DEF Told, Headed, Sound
  <1>6. CASE ~overflow
    BY <1>1, <1>2, <1>3, <1>4, <1>6, Refused DEF Told, Stream
  <1>7. QED BY <1>5, <1>6

LEMMA TurnTold ==
  ASSUME Sound, Told, Named, NEW pop, NEW done, Turns(pop, done)
  PROVE  Told'
  <1>1. overflow' = (overflow \/ (Push /\ Full))
    BY DEF Turns, MailCycle, TellOverflow
  <1>2. ASSUME ~overflow' PROVE Stream'
    BY <1>1, <1>2, StreamStep DEF Told
  <1>3. ASSUME overflow', next' = "data" PROVE Headed'
    <2>1. ~pop /\ rest = 0 /\ (next = "data" \/ (~overflow /\ ~Empty))
      BY <1>3 DEF Turns
    <2>2. Following /\ Occupancy > 0 /\ Len(Contents) = Occupancy /\ Contents \in Seq(Words)
          /\ Len(Contents) \in Nat
      BY <2>1, SoundFacts
    <2>3. Contents # << >> /\ 1 \in 1 .. Len(Contents) /\ Contents[1] \in Words
      BY <2>2
    <2>4. Contents' = IF Push /\ ~Full THEN Append(Contents, Pushed) ELSE Contents
      BY <2>1, TurnQueue DEF Rest
    <2>5. Parser' = Parser \/ Parser'.cut
      BY <2>1 DEF Turns
    <2>6. InPlace(Contents, 1, Contents[1], Parser)
      BY <2>1, <2>3 DEF Told, Stream, Headed
    <2>7. (Contents[1][2] = "byte" /\ ~cut) =>
             /\ Contents[1][1] \notin lost
             /\ (Push /\ Full) => feed.name # Contents[1][1]
             /\ (Strobe /\ overflow) => feed.name # Contents[1][1]
      <3>1. CASE overflow
        BY <2>1, <3>1, PushedIsWord DEF Told, Headed, Sound
      <3>2. CASE ~overflow
        BY <2>2, <2>3, <3>2, Refused DEF Told, Stream
      <3>3. QED BY <3>1, <3>2
    <2>8. Contents' # << >> /\ Contents'[1] = Contents[1]
      <3>1. CASE Push /\ ~Full
        <4>1. Pushed \in Words
          BY <3>1, PushedIsWord DEF Sound
        <4>2. Append(Contents, Pushed) # << >> /\ Append(Contents, Pushed)[1] = Contents[1]
          BY <2>2, <2>3, <4>1, AppendProperties
        <4>3. QED BY <2>4, <3>1, <4>2
      <3>2. CASE ~(Push /\ ~Full)
        BY <2>3, <2>4, <3>2
      <3>3. QED BY <3>1, <3>2
    <2>9. InPlace(Contents', 1, Contents[1], Parser')
      <3> DEFINE w == Contents[1]
      <3>1. SUFFICES ASSUME w[2] = "byte" PROVE Placed(Contents', 1, w[1], w[3], Longer(w[3]), Parser')
        BY DEF InPlace
      <3>2. Places(Contents, 1, w[1], w[3], Longer(w[3]))
        <4>1. \A b \in Longer(w[3]) : b \in Nat /\ w[3] < b
          BY MailboxAssumption DEF Longer
        <4>2. w[1] \in Frames /\ w[3] \in Nat
          BY <2>3, <3>1, ByteIs
        <4>3. QED BY <2>2, <2>3, <4>1, <4>2 DEF Places
      <3>3. Placed(Contents, 1, w[1], w[3], Longer(w[3]), Parser)
        BY <2>6, <3>1 DEF InPlace
      <3>4. Placed(Contents, 1, w[1], w[3], Longer(w[3]), Parser')
        BY <2>5, <3>3 DEF Placed
      <3> HIDE DEF w
      <3>5. CASE Push /\ ~Full
        <4>1. Pushed \in Words
          BY <3>5, PushedIsWord DEF Sound
        <4>2. Placed(Append(Contents, Pushed), 1, w[1], w[3], Longer(w[3]), Parser')
          BY <3>2, <3>4, <4>1, KeptPlaced
        <4>3. QED BY <2>4, <3>5, <4>2
      <3>6. CASE ~(Push /\ ~Full)
        BY <2>4, <3>4, <3>6
      <3>7. QED BY <3>5, <3>6
    <2>10. ASSUME Contents'[1][2] = "byte", ~cut'
           PROVE  /\ Contents'[1][1] \notin lost'
                  /\ Strobe' => feed'.name # Contents'[1][1]
      <3>1. ~cut
        BY <2>5, <2>10 DEF Parser
      <3>2. /\ Contents[1][1] \notin lost /\ ((Push /\ Full) => feed.name # Contents[1][1])
            /\ ((Strobe /\ overflow) => feed.name # Contents[1][1])
            /\ Contents[1][1] \in InUse
        BY <2>3, <2>7, <2>8, <2>10, <3>1, WordsInUse
      <3>3. lost' = (lost \ Unused) \union (IF Push /\ Full THEN {feed.name} ELSE {})
        BY DEF Turns, MailCycle
      <3>4. Strobe' => (Strobe /\ feed'.name = feed.name) \/ feed'.name \in Unused
        BY NextName DEF Turns
      <3>5. QED BY <1>1, <1>3, <2>8, <3>2, <3>3, <3>4 DEF Unused
    <2>11. QED BY <2>8, <2>9, <2>10 DEF Headed
  <1>4. QED BY <1>2, <1>3 DEF Told

LEMMA TurnNamed ==
  ASSUME Sound, Told, Named, NEW pop, NEW done, Turns(pop, done)
  PROVE  Named'
  <1>1. /\ lost' = (lost \ Unused) \union (IF Push /\ Full THEN {feed.name} ELSE {})
        /\ ran' = (ran \ Unused) \union {g[2][1] : g \in done}
        /\ overflow' = (overflow \/ (Push /\ Full))
    BY DEF Turns, MailCycle, TellOverflow
  <1>2. (Push => Strobe) /\ ran \intersect lost = {}
    BY PushedIsWord DEF Sound, Named, DroppedWhole
  <1>3. \A g \in done : /\ g[2][1] \in InUse /\ g[2][1] \notin lost
                        /\ (Push /\ Full) => g[2][1] # feed.name
                        /\ (Strobe /\ overflow) => g[2][1] # feed.name
    BY DoneNames
  <1>4. ((Strobe /\ overflow) \/ (Push /\ Full)) => feed.name \notin ran
    <2>1. CASE overflow
      BY <1>2, <2>1 DEF Named
    <2>2. CASE ~overflow
      BY <2>2, Refused
    <2>3. QED BY <2>1, <2>2
  <1>5. ASSUME Strobe', feed'.index = 0
        PROVE  /\ feed'.name \notin ran' \union lost'
               /\ \A i \in 1 .. Len(Contents') : Contents'[i][1] # feed'.name
    <2>1. ~Strobe /\ feed'.name \in Unused
      BY <1>5, NextName DEF Turns
    <2>2. ~Push
      BY <1>2, <2>1
    <2>3. Contents' = Rest(pop)
      BY <2>2, TurnQueue
    <2>4. \A i \in 1 .. Len(Contents') : Contents'[i][1] \in InUse
      BY <2>3, TurnQueue, WordsInUse
    <2>5. QED BY <1>1, <1>3, <2>1, <2>2, <2>4 DEF Unused
  <1>6. ASSUME Strobe', overflow' PROVE feed'.name \notin ran'
    <2>1. CASE Strobe /\ feed'.name = feed.name
      BY <1>1, <1>3, <1>4, <1>6, <2>1
    <2>2. CASE feed'.name \in Unused
      BY <1>1, <1>3, <2>2 DEF Unused
    <2>3. QED BY <1>6, <2>1, <2>2, NextName DEF Turns
  <1>7. DroppedWhole'
    BY <1>1, <1>2, <1>3, <1>4 DEF DroppedWhole
  <1>8. QED BY <1>5, <1>6, <1>7 DEF Named

\* A flush leaves nothing to be out of place.
LEMMA FlushTold ==
  ASSUME Sound, Told, Named, overflow, NEW done, done = {}, MailCycle(TRUE, FALSE, done), rest' = 2
  PROVE  Told' /\ Named'
  <1>1. /\ lost' = (lost \ Unused) \union (IF Push /\ Full THEN {feed.name} ELSE {})
        /\ ran' = ran \ Unused /\ ~overflow' /\ ~forwarding'
    BY DEF MailCycle, TellOverflow, Forward
  <1>2. Contents' = << >>
    BY FlushPointers DEF Sound, Pointers
  <1>3. Told'
    <2>1. \A i \in 1 .. Len(Contents') : FALSE
      BY <1>2
    <2>2. ~Going'
      BY <1>1 DEF Going
    <2>3. QED BY <1>1, <2>1, <2>2 DEF Told, Stream
  <1>4. ASSUME Strobe', feed'.index = 0
        PROVE  feed'.name \notin ran' \union lost'
    <2>1. ~Strobe /\ feed'.name \in Unused
      BY <1>4, NextName
    <2>2. ~Push
      BY <2>1, PushedIsWord DEF Sound
    <2>3. QED BY <1>1, <2>1, <2>2
  <1>5. DroppedWhole'
    <2>1. Push => feed.name \notin ran
      BY PushedIsWord DEF Named, Sound
    <2>2. QED BY <1>1, <2>1 DEF Named, DroppedWhole
  <1>6. \A i \in 1 .. Len(Contents') : Contents'[i][1] # feed'.name
    BY <1>2
  <1>7. QED BY <1>1, <1>3, <1>4, <1>5, <1>6 DEF Named

-----------------------------------------------------------------------------
(***************************************************************************)
(* Frames as long as their headers say, through a cycle.                   *)
(***************************************************************************)
LEMMA PlaceIs ==
  ASSUME NEW w \in Words
  PROVE  /\ PlaceOf(w) \in Nat
         /\ Announces(w) => PlaceOf(w) = 0 /\ w[3] \in Nat
         /\ ~Announces(w) => PlaceOf(w) = w[3] + 1 /\ w[3] \in Nat
  <1>1. CASE Announces(w)
    <2>1. w[3] \in Nat
      BY <1>1, HeaderIs, MailboxAssumption DEF Announces
    <2>2. QED BY <1>1, <2>1 DEF PlaceOf
  <1>2. CASE ~Announces(w)
    <2>1. w[3] \in Nat
      BY <1>2, ByteIs DEF Announces
    <2>2. QED BY <1>2, <2>1 DEF PlaceOf
  <1>3. QED BY <1>1, <1>2

\* The parser, having heard a word, is at that word's place in its frame.
LEMMA HeardPlace ==
  ASSUME NEW w \in Words, NEW P, NEW P2, NEW z, Knows(P), Fits(w, z),
         P.cut \/ Opens(w, P, z), Heard(P, w, P2), ~P2.cut
  PROVE  P2.index = PlaceOf(w) /\ P2.length = z[w[1]] /\ P2.length \in Nat
  <1>1. CASE Announces(w)
    BY <1>1, PlaceIs DEF Heard, Fits, Announces
  <1>2. CASE ~Announces(w)
    <2>1. ~P.cut
      BY <1>2 DEF Heard, Knows, Announces
    <2>2. P.index < P.length /\ w[3] = P.index /\ P.length = z[w[1]]
      BY <1>2, <2>1 DEF Opens
    <2>3. ~(P.index >= P.length)
      BY <2>2 DEF Knows
    <2>4. P2.length = P.length /\ P2.index = P.index + 1
      BY <1>2, <2>3 DEF Heard, Announces
    <2>5. QED BY <1>2, <2>2, <2>4, PlaceIs DEF Knows
  <1>3. QED BY <1>1, <1>2

\* The word after it is then what the parser waits for.
LEMMA HeardOpens ==
  ASSUME NEW w \in Words, NEW u \in Words, NEW P, NEW z, Fits(w, z), After(w, u, z),
         P.index = PlaceOf(u), P.length = z[u[1]], P.length \in Nat
  PROVE  Opens(w, P, z)
  <1>1. CASE Announces(w)
    <2>1. PlaceOf(w) # PlaceOf(u) + 1
      BY <1>1, PlaceIs
    <2>2. PlaceOf(u) = z[u[1]]
      BY <2>1 DEF After
    <2>3. QED BY <1>1, <2>2 DEF Opens
  <1>2. CASE ~Announces(w)
    <2>1. w[1] = u[1] /\ PlaceOf(w) = PlaceOf(u) + 1 /\ PlaceOf(w) <= z[w[1]]
      BY <1>2 DEF After, Fits
    <2>2. w[3] = P.index /\ P.index < P.length
      BY <1>2, <2>1, PlaceIs
    <2>3. QED BY <1>2, <2>1, <2>2 DEF Opens
  <1>3. QED BY <1>1, <1>2

LEMMA TakenLinked ==
  ASSUME NEW c \in Seq(Words), NEW P, NEW P2, NEW z, NEW on \in BOOLEAN, NEW d, Len(c) > 0,
         Knows(P), Linked(c, P, z, on, d), on => z[d.name] = d.body,
         Heard(P, c[1], P2) \/ P2.cut
  PROVE  Linked(Tail(c), P2, z, on, d)
  <1> DEFINE t == Tail(c)   n == Len(c)
  <1>1. /\ t \in Seq(Words) /\ Len(t) = n - 1 /\ n \in Nat /\ n > 0
        /\ \A i \in 1 .. n - 1 : t[i] = c[i + 1]
    BY EmptySeq, HeadTailProperties
  <1>2. \A i \in 1 .. n : c[i] \in Words /\ Fits(c[i], z) /\ (i > 1 => After(c[i], c[i - 1], z))
    BY DEF Linked
  <1>3. /\ P.cut \/ Opens(c[1], P, z)
        /\ on \/ PlaceOf(c[n]) = z[c[n][1]]
        /\ on => d.name = c[n][1] /\ d.index = PlaceOf(c[n]) + 1
    BY <1>1 DEF Linked
  <1>4. c[1] \in Words /\ Fits(c[1], z)
    BY <1>1, <1>2
  <1>5. ~P2.cut => P2.index = PlaceOf(c[1]) /\ P2.length = z[c[1][1]] /\ P2.length \in Nat
    BY <1>3, <1>4, HeardPlace
  <1> HIDE DEF t, n
  <1>6. ASSUME NEW i \in 1 .. Len(t)
        PROVE  Fits(t[i], z) /\ (i > 1 => After(t[i], t[i - 1], z))
    <2>1. i + 1 \in 1 .. n /\ (i + 1) - 1 = i /\ i + 1 > 1 /\ t[i] = c[i + 1]
      BY <1>1
    <2>2. Fits(c[i + 1], z) /\ After(c[i + 1], c[i], z)
      BY <1>2, <2>1
    <2>3. i > 1 => t[i - 1] = c[i]
      <3>1. i > 1 => i - 1 \in 1 .. n - 1 /\ (i - 1) + 1 = i
        BY <1>1
      <3>2. QED BY <1>1, <3>1
    <2>4. QED BY <2>1, <2>2, <2>3
  <1>7. ASSUME Len(t) > 0
        PROVE  /\ P2.cut \/ Opens(t[1], P2, z)
               /\ t[Len(t)] = c[n]
    <2>1. /\ 2 \in 1 .. n /\ 2 > 1 /\ 2 - 1 = 1 /\ 1 + 1 = 2 /\ 1 \in 1 .. n - 1
          /\ Len(t) \in 1 .. n - 1 /\ Len(t) + 1 = n
      BY <1>1, <1>7
    <2>2. t[1] = c[2] /\ c[2] \in Words /\ Fits(c[2], z) /\ After(c[2], c[1], z)
      BY <1>1, <1>2, <2>1
    <2>3. t[Len(t)] = c[n]
      BY <1>1, <2>1
    <2>4. QED BY <1>4, <1>5, <2>2, <2>3, HeardOpens
  <1>8. ASSUME Len(t) = 0, ~P2.cut
        PROVE  /\ P2.index < P2.length => on
               /\ on => d.index = P2.index + 1 /\ d.body = P2.length
    <2>1. n = 1
      BY <1>1, <1>8
    <2>2. QED BY <1>3, <1>5, <1>8, <2>1
  <1>9. Linked(t, P2, z, on, d)
    BY <1>3, <1>6, <1>7, <1>8 DEF Linked
  <1>10. QED BY <1>9 DEF t

\* The decoder pushes the word x, or none, and goes on.
LEMMA KeptLinked ==
  ASSUME NEW c \in Seq(Words), NEW P, NEW z, NEW y, NEW d, NEW e, Linked(c, P, z, FALSE, d),
         \A i \in 1 .. Len(c) : y[c[i][1]] = z[c[i][1]]
  PROVE  Linked(c, P, y, FALSE, e)
  <1>1. \A i \in 1 .. Len(c) : Fits(c[i], y) /\ (i > 1 => After(c[i], c[i - 1], y))
    <2> TAKE i \in 1 .. Len(c)
    <2>1. Fits(c[i], z) /\ (i > 1 => After(c[i], c[i - 1], z))
      BY DEF Linked
    <2>2. i > 1 => i - 1 \in 1 .. Len(c)
      OBVIOUS
    <2>3. QED BY <2>1, <2>2 DEF Fits, After
  <1>2. Len(c) > 0 => 1 \in 1 .. Len(c) /\ Len(c) \in 1 .. Len(c)
    OBVIOUS
  <1>3. Len(c) > 0 => (P.cut \/ Opens(c[1], P, y)) /\ PlaceOf(c[Len(c)]) = y[c[Len(c)][1]]
    BY <1>2 DEF Linked, Opens
  <1>4. QED BY <1>1, <1>3 DEF Linked

LEMMA PushedLinked ==
  ASSUME NEW c \in Seq(Words), NEW P, NEW z, NEW y, NEW on \in BOOLEAN, NEW on2 \in BOOLEAN,
         NEW d, NEW e, NEW x \in Words, Linked(c, P, z, on, d), Knows(P),
         \A i \in 1 .. Len(c) : y[c[i][1]] = z[c[i][1]],
         d.body \in Nat, d.index \in Nat, d.index <= d.body,
         x[1] = d.name, PlaceOf(x) = d.index, y[x[1]] = d.body,
         Announces(x) => ~on /\ x[3] = d.body,
         ~Announces(x) => on,
         on2 <=> d.index # d.body,
         on2 => e.name = d.name /\ e.index = d.index + 1
  PROVE  Linked(Append(c, x), P, y, on2, e)
  <1> DEFINE n == Len(c)   a == Append(c, x)
  <1>1. /\ n \in Nat /\ Len(a) = n + 1 /\ a[n + 1] = x
        /\ \A i \in 1 .. n : a[i] = c[i]
    BY AppendProperties
  <1>2. \A i \in 1 .. n : Fits(c[i], z) /\ (i > 1 => After(c[i], c[i - 1], z))
    BY DEF Linked
  <1>3. n > 0 => /\ P.cut \/ Opens(c[1], P, z)
                 /\ on \/ PlaceOf(c[n]) = z[c[n][1]]
                 /\ on => d.name = c[n][1] /\ d.index = PlaceOf(c[n]) + 1
    BY DEF Linked
  <1>4. (n = 0 /\ ~P.cut) => /\ P.index < P.length => on
                             /\ on => d.index = P.index + 1 /\ d.body = P.length
    BY DEF Linked
  <1>5. \A i \in 1 .. n : y[c[i][1]] = z[c[i][1]]
    OBVIOUS
  <1> HIDE DEF n, a
  <1>6. Fits(x, y)
    BY DEF Fits
  <1>7. n > 0 => After(x, c[n], y)
    <2>1. n > 0 => n \in 1 .. n
      BY <1>1
    <2>2. QED BY <1>3, <1>5, <2>1 DEF After
  <1>8. ASSUME NEW i \in 1 .. Len(a)
        PROVE  Fits(a[i], y) /\ (i > 1 => After(a[i], a[i - 1], y))
    <2>1. CASE i \in 1 .. n
      <3>1. Fits(c[i], z) /\ (i > 1 => After(c[i], c[i - 1], z)) /\ a[i] = c[i]
        BY <1>1, <1>2, <2>1
      <3>2. i > 1 => i - 1 \in 1 .. n /\ a[i - 1] = c[i - 1]
        BY <1>1, <2>1
      <3>3. QED BY <1>5, <2>1, <3>1, <3>2 DEF Fits, After
    <2>2. CASE i \notin 1 .. n
      <3>1. i = n + 1 /\ a[i] = x /\ i - 1 = n
        BY <1>1, <1>8, <2>2
      <3>2. i > 1 => n > 0 /\ a[i - 1] = c[n]
        BY <1>1, <3>1
      <3>3. QED BY <1>6, <1>7, <3>1, <3>2
    <2>3. QED BY <2>1, <2>2
  <1>9. P.cut \/ Opens(a[1], P, y)
    <2>1. CASE n > 0
      <3>1. 1 \in 1 .. n /\ a[1] = c[1] /\ y[c[1][1]] = z[c[1][1]]
        BY <1>1, <1>5, <2>1
      <3>2. QED BY <1>3, <2>1, <3>1 DEF Opens
    <2>2. CASE n = 0
      <3>1. a[1] = x
        BY <1>1, <2>2
      <3>2. CASE Announces(x)
        BY <1>4, <2>2, <3>1, <3>2 DEF Opens, Knows
      <3>3. ASSUME ~Announces(x), ~P.cut PROVE Opens(x, P, y)
        <4>1. d.index = P.index + 1 /\ d.body = P.length
          BY <1>4, <2>2, <3>3
        <4>2. d.index = x[3] + 1 /\ x[3] \in Nat
          BY <3>3, PlaceIs
        <4>3. P.index < P.length /\ x[3] = P.index /\ P.length = y[x[1]]
          BY <4>1, <4>2 DEF Knows
        <4>4. QED BY <3>3, <4>3 DEF Opens
      <3>4. QED BY <3>1, <3>2, <3>3
    <2>3. n > 0 \/ n = 0
      BY <1>1
    <2>4. QED BY <2>1, <2>2, <2>3
  <1>10. Len(a) > 0 /\ a[Len(a)] = x
    BY <1>1
  <1>11. Linked(a, P, y, on2, e)
    BY <1>8, <1>9, <1>10 DEF Linked
  <1>12. QED BY <1>11 DEF a

\* How long a frame is does not change while it is alive.
LEMMA SizesKept ==
  ASSUME Sound, Framed, NEW flush, NEW pop, NEW done, MailCycle(flush, pop, done)
  PROVE  /\ Strobe' => sizes'[feed'.name] = feed'.body
         /\ \A f \in Alive \intersect Alive' : sizes'[f] = sizes[f]
  <1>1. sizes' = [f \in Alive' |-> IF Strobe' /\ f = feed'.name THEN feed'.body ELSE sizes[f]]
    BY DEF MailCycle
  <1>2. Strobe' => feed'.name \in Alive'
    BY DEF Alive
  <1>3. ASSUME NEW f \in Alive \intersect Alive', Strobe', f = feed'.name
        PROVE  feed'.body = sizes[f]
    <2>1. f \notin Unused
      BY <1>3 DEF Unused, InUse
    <2>2. Strobe /\ feed'.name = feed.name /\ feed'.index # 0
      BY <1>3, <2>1, NextName
    <2>3. feed' = IF feed.index = feed.body THEN NoFrame ELSE [feed EXCEPT !.index = @ + 1]
      BY <2>2 DEF MailCycle, Replay
    <2>4. feed'.body = feed.body
      BY <1>3, <2>3 DEF NoFrame, Strobe, Sound, MailTypes
    <2>5. QED BY <1>3, <2>2, <2>4 DEF Framed
  <1>4. QED BY <1>1, <1>2, <1>3

LEMMA AliveWords ==
  ASSUME Contents \in Seq(Words), NEW i \in 1 .. Len(Contents)
  PROVE  Contents[i][1] \in Alive
  <1>1. i \in DOMAIN Contents
    OBVIOUS
  <1>2. QED BY <1>1 DEF Alive

LEMMA TurnLinked ==
  ASSUME Sound, Framed, NEW pop, NEW done, Turns(pop, done), ~overflow, ~(Push /\ Full),
         Knows(Parser')
  PROVE  Linked(Contents', Parser', sizes', Going', feed')
  <1> DEFINE c == Rest(pop)
  <1>1. /\ Contents' = IF Push THEN Append(c, Pushed) ELSE c
        /\ c \in Seq(Words) /\ Len(c) \in Nat
        /\ \A i \in 1 .. Len(c) : \E j \in 1 .. Len(Contents) : c[i] = Contents[j]
    BY TurnQueue
  <1>2. c \in Seq(Words) /\ Going \in BOOLEAN
    <2>1. Going \in BOOLEAN
      BY DEF Going, Strobe, Sound, MailTypes
    <2>2. QED BY <1>1, <2>1
  <1>3. Linked(c, Parser', sizes, Going, feed)
    <2>1. Linked(Contents, Parser, sizes, Going, feed) /\ (Going => sizes[feed.name] = feed.body)
      BY DEF Framed, Going
    <2>2. CASE pop
      <3>1. Heard(Parser, Contents[1], Parser') \/ Parser'.cut
        BY <2>2 DEF Turns
      <3>2. Linked(Tail(Contents), Parser', sizes, Going, feed)
        BY <1>2, <2>1, <2>2, <3>1, SoundFacts, TurnQueue, TakenLinked
      <3>3. QED BY <2>2, <3>2 DEF Rest
    <2>3. CASE ~pop
      <3>1. Parser' = Parser \/ Parser'.cut
        BY <2>3 DEF Turns
      <3>2. Linked(Contents, Parser', sizes, Going, feed)
        BY <2>1, <3>1 DEF Linked
      <3>3. QED BY <2>3, <3>2 DEF Rest
    <2>4. QED BY <2>2, <2>3
  <1>4. MailCycle(FALSE, pop, done) /\ Contents' \in Seq(Words)
    <2>1. Push => Pushed \in Words
      BY PushedIsWord DEF Sound
    <2>2. QED BY <1>1, <2>1, AppendProperties DEF Turns
  <1>5. \A i \in 1 .. Len(Contents') : Contents'[i][1] \in Alive'
    <2>1. \A i \in 1 .. Len(Contents') : i \in DOMAIN Contents'
      BY <1>4
    <2>2. QED BY <2>1 DEF Alive
  <1>6. \A i \in 1 .. Len(c) : Contents'[i] = c[i] /\ i \in 1 .. Len(Contents')
    <2>1. CASE Push
      BY <1>1, <2>1, PushedIsWord, AppendProperties DEF Sound
    <2>2. CASE ~Push
      BY <1>1, <2>2
    <2>3. QED BY <2>1, <2>2
  <1>7. \A i \in 1 .. Len(c) : sizes'[c[i][1]] = sizes[c[i][1]]
    <2> TAKE i \in 1 .. Len(c)
    <2>1. c[i][1] \in Alive'
      BY <1>5, <1>6
    <2>2. c[i][1] \in Alive
      BY <1>1, SoundFacts, AliveWords
    <2>3. QED BY <1>4, <2>1, <2>2, SizesKept
  <1> HIDE DEF c
  <1>8. CASE Push
    <2>1. Pushed \in Words /\ Strobe
      BY <1>8, PushedIsWord DEF Sound
    <2>2. /\ feed.body \in Nat /\ feed.index \in Nat /\ feed.index <= feed.body
      BY <2>1, MailboxAssumption DEF Sound, MailTypes, Strobe
    <2>3. /\ Pushed[1] = feed.name /\ PlaceOf(Pushed) = feed.index
          /\ Announces(Pushed) => ~Going /\ Pushed[3] = feed.body
          /\ ~Announces(Pushed) => Going
      <3>1. CASE Header
        <4>1. Pushed = HeaderOf(feed.name, feed.body) /\ feed.index = 0
          BY <3>1 DEF Pushed, Header
        <4>2. QED BY <4>1, Different DEF PlaceOf, Announces, Going
      <3>2. CASE ~Header
        <4>1. Pushed = ByteOf(feed.name, feed.index - 1) /\ Going
          BY <1>8, <3>2 DEF Pushed, Push, Going
        <4>2. ~Announces(Pushed) /\ Pushed[3] = feed.index - 1 /\ Pushed[1] = feed.name
          BY <4>1, Different DEF Announces
        <4>3. QED BY <2>2, <4>1, <4>2 DEF PlaceOf
      <3>3. QED BY <3>1, <3>2
    <2>4. Contents' = Append(c, Pushed) /\ Contents'[Len(c) + 1] = Pushed
          /\ Len(c) + 1 \in 1 .. Len(Contents')
      BY <1>1, <1>8, <2>1, AppendProperties
    <2>5. sizes'[Pushed[1]] = feed.body
      <3>1. feed.name \in Alive' /\ feed.name \in Alive
        BY <1>5, <2>1, <2>3, <2>4 DEF Alive
      <3>2. QED BY <1>4, <2>1, <2>3, <3>1, SizesKept DEF Framed
    <2>6. feed' = IF feed.index = feed.body THEN NoFrame ELSE [feed EXCEPT !.index = @ + 1]
      BY <1>4, <2>1 DEF MailCycle, Replay
    <2>7. forwarding'
      <3>1. IF feed.index = 0 THEN feed.ours ELSE forwarding
        BY <1>8 DEF Push, Header
      <3>2. QED BY <1>4, <2>1, <3>1, Zenon DEF MailCycle, Forward
    <2>8. CASE feed.index = feed.body
      <3>1. ~Going'
        BY <2>6, <2>8 DEF Going, Strobe, NoFrame
      <3>2. Linked(Append(c, Pushed), Parser', sizes', FALSE, feed')
        BY <1>2, <1>3, <1>7, <2>1, <2>2, <2>3, <2>5, <2>8, PushedLinked
      <3>3. Going' = FALSE
        BY <3>1
      <3>4. QED BY <2>4, <3>2, <3>3
    <2>9. CASE feed.index # feed.body
      <3>1. feed'.index = feed.index + 1 /\ feed'.name = feed.name
        BY <2>6, <2>9 DEF Sound, MailTypes
      <3>2. Going'
        BY <2>2, <2>7, <3>1 DEF Going, Strobe
      <3>3. Linked(Append(c, Pushed), Parser', sizes', TRUE, feed')
        BY <1>2, <1>3, <1>7, <2>1, <2>2, <2>3, <2>5, <2>9, <3>1, PushedLinked
      <3>4. Going' = TRUE
        BY <3>2
      <3>5. QED BY <2>4, <3>3, <3>4
    <2>10. QED BY <2>8, <2>9
  <1>9. CASE ~Push
    <2>1. ~Going
      BY <1>9 DEF Push, Going
    <2>2. ~Going'
      <3>1. ASSUME Going' PROVE FALSE
        <4>1. (feed.index = 0 /\ Header) \/ Going
          BY <1>4, <3>1, WasGoing
        <4>2. QED BY <1>9, <2>1, <4>1 DEF Push
      <3>2. QED BY <3>1
    <2>3. Contents' = c
      BY <1>1, <1>9
    <2>4. Going = FALSE /\ Going' = FALSE
      BY <2>1, <2>2
    <2>5. Linked(c, Parser', sizes, FALSE, feed)
      BY <1>3, <2>4
    <2>6. Linked(c, Parser', sizes', FALSE, feed')
      BY <1>1, <1>7, <2>5, KeptLinked
    <2>7. QED BY <2>3, <2>4, <2>6
  <1>10. QED BY <1>8, <1>9

-----------------------------------------------------------------------------
(***************************************************************************)
(* The parser, the types and the actions.                                  *)
(***************************************************************************)
LEMMA Multiples == ASSUME NEW k \in Nat, NEW c \in Nat \ {0}
                   PROVE  (k + 1) * c = k * c + c /\ k * c \in Nat /\ k <= k * c
  OBVIOUS

LEMMA FeedType ==
  ASSUME Sound, NEW flush \in BOOLEAN, NEW pop, NEW done, MailCycle(flush, pop, done)
  PROVE  /\ feed' \in [name : Frames, ours : BOOLEAN, body : Nat, index : Int]
         /\ feed'.index >= -1 /\ feed'.index <= feed'.body
         /\ Strobe' => feed'.body \in Bodies
         /\ forwarding' \in BOOLEAN /\ overflow' \in BOOLEAN
         /\ ~flush /\ overflow => overflow'
  <1>1. forwarding' \in BOOLEAN /\ overflow' \in BOOLEAN /\ (~flush /\ overflow => overflow')
    BY DEF MailCycle, TellOverflow, Forward, Sound, MailTypes
  <1>2. NoFrame \in [name : Frames, ours : BOOLEAN, body : Nat, index : Int]
        /\ NoFrame.index = -1 /\ NoFrame.body = 0
    BY MailboxAssumption DEF NoFrame
  <1>3. CASE feed' = NoFrame
    BY <1>1, <1>2, <1>3 DEF Strobe
  <1>4. CASE feed' # NoFrame /\ Strobe
    <2>1. feed' = [feed EXCEPT !.index = @ + 1] /\ feed.index # feed.body
      BY <1>4 DEF MailCycle, Replay
    <2>2. /\ feed \in [name : Frames, ours : BOOLEAN, body : Nat, index : Int]
          /\ feed.index >= -1 /\ feed.index <= feed.body /\ feed.body \in Bodies
      BY <1>4 DEF Sound, MailTypes
    <2>3. /\ feed' \in [name : Frames, ours : BOOLEAN, body : Nat, index : Int]
          /\ feed'.index = feed.index + 1 /\ feed'.body = feed.body
      BY <2>1, <2>2
    <2>4. QED BY <1>1, <2>1, <2>2, <2>3
  <1>5. CASE feed' # NoFrame /\ ~Strobe
    <2>1. feed' \in [name : Fresh, ours : BOOLEAN, body : Bodies, index : {0}]
      BY <1>5 DEF MailCycle, Replay
    <2>2. Fresh \subseteq Frames /\ Bodies \subseteq Nat
      BY MailboxAssumption DEF Fresh, Unused
    <2>3. /\ feed' \in [name : Frames, ours : BOOLEAN, body : Nat, index : Int]
          /\ feed'.body \in Bodies /\ feed'.body \in Nat /\ feed'.index = 0
      <3>1. PICK f \in Fresh, o \in BOOLEAN, b \in Bodies :
              feed' = [name |-> f, ours |-> o, body |-> b, index |-> 0]
        BY <2>1
      <3>2. f \in Frames /\ b \in Nat
        BY <2>2
      <3>3. QED BY <3>1, <3>2
    <2>4. QED BY <1>1, <2>3
  <1>6. QED BY <1>3, <1>4, <1>5

LEMMA HeadInPlace ==
  ASSUME Sound, Told, next = "data"
  PROVE  /\ InPlace(Contents, 1, Contents[1], Parser) /\ Contents[1] \in Words
         /\ ReadData = Contents[1]
  <1>1. Contents # << >> /\ Contents \in Seq(Words) /\ 1 \in 1 .. Len(Contents)
        /\ ReadData = Contents[1]
    BY SoundFacts
  <1>2. QED BY <1>1 DEF Told, Stream, Headed

\* A command that is complete is of the bytes of one frame.
LEMMA HeadCommand ==
  ASSUME Sound, Told, Aligned, next = "data", Completes(ReadData)
  PROVE  /\ ~cut /\ Contents[1][2] = "byte"
         /\ \A g \in Filled(ReadData) : g[2][1] = Contents[1][1]
         /\ \E f \in Frames, k \in 0 .. 63 : Filled(ReadData) = Run(f, k * CommandBytes, CommandBytes)
  <1> DEFINE w == Contents[1]
  <1>1. w \in Words /\ InPlace(Contents, 1, w, Parser) /\ ReadData = w
    BY HeadInPlace
  <1>2. w[2] # "header" /\ ~(index >= length) /\ slot + 1 = CommandBytes
    BY <1>1 DEF Completes, Ignored, Announces
  <1>3. w[1] \in Frames /\ w[3] \in Nat /\ w = ByteOf(w[1], w[3]) /\ w[2] = "byte"
    BY <1>1, <1>2, ByteIs
  <1>4. /\ length \in 0 .. 63 /\ index \in Nat /\ slot \in Nat /\ ~cut
        /\ CommandBytes \in Nat \ {0}
    BY <1>2, MailboxAssumption DEF Sound, MailTypes
  <1>5. Expects(Parser, w[1], w[3] - 1 + 1, Longer(w[3]))
    BY <1>1, <1>3, <1>4 DEF InPlace, Placed, Parser
  <1>6. index = w[3] /\ gathered = Run(w[1], index - slot, slot)
    BY <1>3, <1>5 DEF Expects, Parser
  <1>7. PICK k \in Nat : index = k * CommandBytes + slot
    BY DEF Aligned
  <1>8. k * CommandBytes \in Nat /\ k <= k * CommandBytes
    BY <1>4, Multiples
  <1>9. k \in 0 .. 63 /\ index - slot = k * CommandBytes /\ (index - slot) + slot = index
    BY <1>2, <1>4, <1>7, <1>8
  <1>10. Filled(w) = Run(w[1], k * CommandBytes, CommandBytes)
    <2> DEFINE q == index - slot   f == w[1]
    <2>1. q \in Int /\ w = ByteOf(f, q + slot)
      BY <1>3, <1>4, <1>6, <1>9
    <2> HIDE DEF q, f
    <2>2. ASSUME NEW a \in Int, NEW m \in Nat
          PROVE  Run(f, a, m) \union {<<m, ByteOf(f, a + m)>>} = Run(f, a, m + 1)
      BY RunGrows
    <2>3. Run(f, q, slot) \union {<<slot, ByteOf(f, q + slot)>>} = Run(f, q, slot + 1)
      BY ONLY <1>4, <2>1, <2>2
    <2>4. Filled(w) = Run(f, q, slot) \union {<<slot, ByteOf(f, q + slot)>>}
      BY <1>6, <2>1 DEF Filled, q, f
    <2>5. QED BY <1>2, <1>9, <2>3, <2>4 DEF q, f
  <1>11. \A g \in Filled(w) : g[2][1] = w[1]
    <2>1. k * CommandBytes \in Int /\ CommandBytes \in Nat
      BY <1>4, <1>8
    <2>2. QED BY <1>10, <2>1, RunGrows
  <1>12. QED BY <1>1, <1>3, <1>4, <1>9, <1>10, <1>11

LEMMA CommandIsSliced ==
  ASSUME \/ last' = {}
         \/ \E f \in Frames, k \in 0 .. 63 : last' = Run(f, k * CommandBytes, CommandBytes)
  PROVE  NeverMisSliced'
  BY DEF NeverMisSliced, Run

\* What the parser does with the word at the head, as a whole.
LEMMA ParseIsHeard ==
  ASSUME Sound, Aligned, NEW w \in Words, Parse(w), cut' = (cut /\ ~Announces(w))
  PROVE  /\ Heard(Parser, w, Parser') /\ Aligned'
         /\ length' \in 0 .. 63 /\ index' \in Nat /\ slot' \in 0 .. CommandBytes - 1
         /\ cut' \in BOOLEAN /\ (cut' => length' = 0 /\ index' = 0)
  <1>1. /\ length \in 0 .. 63 /\ index \in Nat /\ slot \in 0 .. CommandBytes - 1
        /\ CommandBytes \in Nat \ {0} /\ cut \in BOOLEAN /\ (cut => length = 0 /\ index = 0)
    BY MailboxAssumption DEF Sound, MailTypes
  <1>2. CASE Announces(w)
    <2>1. length' = w[3] /\ index' = 0 /\ slot' = 0 /\ gathered' = {} /\ ~cut'
      BY <1>2 DEF Parse, Announced
    <2>2. w[3] \in 0 .. 63
      <3>1. w[3] \in Bodies
        BY <1>2, HeaderIs DEF Announces
      <3>2. QED BY <3>1, MailboxAssumption
    <2>3. 0 = 0 * CommandBytes + 0 /\ 0 \in Nat /\ 0 \in 0 .. CommandBytes - 1
      BY <1>1
    <2>4. Aligned'
      BY <2>1, <2>3 DEF Aligned
    <2>5. QED BY <1>2, <2>1, <2>2, <2>3, <2>4 DEF Heard, Parser, Announces
  <1>3. CASE Ignored(w)
    <2>1. UNCHANGED parser /\ cut' = cut
      BY <1>1, <1>3 DEF Parse, Ignored
    <2>2. length' = length /\ index' = index /\ slot' = slot /\ gathered' = gathered
      BY <2>1 DEF parser
    <2>3. Heard(Parser, w, Parser')
      BY <1>3, <2>1, <2>2 DEF Heard, Parser, Ignored, Announces
    <2>4. QED BY <1>1, <2>1, <2>2, <2>3 DEF Aligned
  <1>4. CASE ~Announces(w) /\ ~Ignored(w)
    <2>1. /\ index' = index + 1 /\ length' = length /\ cut' = cut
          /\ slot' = (IF slot + 1 = CommandBytes THEN 0 ELSE slot + 1)
          /\ gathered' = (IF slot + 1 = CommandBytes THEN {} ELSE gathered \union {<<slot, w>>})
      BY <1>1, <1>4 DEF Parse, Completes, Filled
    <2>2. Heard(Parser, w, Parser')
      BY <1>4, <2>1 DEF Heard, Parser, Ignored, Announces
    <2>3. Aligned'
      <3>1. PICK k \in Nat : index = k * CommandBytes + slot
        BY DEF Aligned
      <3>2. (k + 1) * CommandBytes = k * CommandBytes + CommandBytes /\ k * CommandBytes \in Nat
            /\ k + 1 \in Nat
        BY <1>1, Multiples
      <3>3. CASE slot + 1 = CommandBytes
        <4>1. index' = (k + 1) * CommandBytes + slot'
          BY <1>1, <2>1, <3>1, <3>2, <3>3
        <4>2. QED BY <3>2, <4>1 DEF Aligned
      <3>4. CASE slot + 1 # CommandBytes
        <4>1. index' = k * CommandBytes + slot'
          BY <1>1, <2>1, <3>1, <3>2, <3>4
        <4>2. QED BY <4>1 DEF Aligned
      <3>5. QED BY <3>3, <3>4
    <2>4. ~cut'
      BY <1>1, <1>4, <2>1 DEF Ignored
    <2>5. QED BY <1>1, <2>1, <2>2, <2>3, <2>4
  <1>5. QED BY <1>2, <1>3, <1>4

\* The pointers, in a cycle without a flush.
LEMMA TurnPointers ==
  ASSUME Sound, NEW pop, NEW done, Turns(pop, done),
         rest > 0 => ~pop /\ rest' = rest - 1
  PROVE  Pointers'
  <1>1. /\ pop \in BOOLEAN /\ (pop => next = "data")
        /\ next' = "data" => ~pop /\ rest = 0 /\ (next = "data" \/ (~overflow /\ ~Empty))
        /\ MailCycle(FALSE, pop, done)
    BY DEF Turns
  <1>2. WriteClocked(Push, FALSE, Pushed) /\ ReadClocked(pop, FALSE)
    BY <1>1 DEF MailCycle
  <1>3. TypeOK /\ MailTypes /\ (Following \/ Flushed)
    BY DEF Sound, Pointers
  <1>4. CASE Following
    <2>1. pop => ~Empty /\ wMeta = rBin
      BY <1>1, SoundFacts
    <2>2. TypeOK' /\ Following' /\ (~pop => wMeta' = rBin' /\ (~Empty => ~Empty'))
      BY <1>1, <1>2, <1>3, <1>4, <2>1, FollowingStep
    <2>3. next = "data" => ~Empty
      BY SoundFacts
    <2>4. QED BY <1>1, <2>2, <2>3 DEF Pointers
  <1>5. CASE ~Following
    <2>1. Flushed /\ rest > 0
      BY <1>3, <1>5 DEF Flushed
    <2>2. ~pop /\ rest' = rest - 1 /\ next' # "data"
      BY <1>1, <2>1
    <2>3. MailCycle(FALSE, FALSE, done)
      BY <1>1, <2>2
    <2>4. TypeOK' /\ (Following' \/ Flushed')
      BY <1>3, <2>1, <2>2, <2>3, FlushedStep
    <2>5. QED BY <2>2, <2>4 DEF Pointers
  <1>6. QED BY <1>4, <1>5

\* Where the loop goes next and what the parser is left with, as far as types go.
Onward == /\ rest' \in 0 .. 2 /\ (rest' > 0 => next' = "status")
          /\ next' \in {"status", "data", "flush"} /\ (next' = "flush" => overflow)
          /\ length' \in 0 .. 63 /\ index' \in Nat /\ slot' \in 0 .. CommandBytes - 1
          /\ cut' \in BOOLEAN /\ (cut' => length' = 0 /\ index' = 0)

\* What is the same for every step without a flush.
LEMMA TurnInv ==
  ASSUME MailInv, NEW pop, NEW done, Turns(pop, done),
         rest > 0 => ~pop /\ rest' = rest - 1,
         Onward, Aligned', NeverMisSliced'
  PROVE  MailInv'
  <1>1. Sound /\ Told /\ Named /\ Framed
    BY DEF MailInv, Sound
  <1>2. MailCycle(FALSE, pop, done)
    BY DEF Turns
  <1>3. MailTypes'
    BY <1>1, <1>2, FeedType DEF MailTypes, Onward
  <1>4. Framed'
    <2>1. Strobe' => sizes'[feed'.name] = feed'.body
      BY <1>1, <1>2, SizesKept
    <2>2. ~overflow' => ~overflow /\ ~(Push /\ Full)
      BY <1>2 DEF MailCycle, TellOverflow
    <2>3. Knows(Parser')
      BY MailboxAssumption DEF Knows, Parser, Onward
    <2>4. QED BY <1>1, <2>1, <2>2, <2>3, TurnLinked DEF Framed
  <1>5. QED BY <1>1, <1>3, <1>4, TurnPointers, TurnTold, TurnNamed DEF MailInv

LEMMA AwayInv == MailInv /\ Away => MailInv'
  <1> SUFFICES ASSUME MailInv, Away PROVE MailInv'
    OBVIOUS
  <1>1. /\ MailCycle(FALSE, FALSE, {}) /\ rest' = (IF rest = 0 THEN 0 ELSE rest - 1)
        /\ next' = next /\ cut' = cut /\ length' = length /\ index' = index /\ slot' = slot
        /\ gathered' = gathered /\ last' = {}
    BY DEF Away, MailCycle, parser
  <1>2. MailTypes /\ Aligned
    BY DEF MailInv
  <1>3. Parser' = Parser /\ (next' = "data" => next = "data" /\ rest = 0)
    BY <1>1, <1>2 DEF Parser, MailTypes
  <1>4. Turns(FALSE, {})
    BY <1>1, <1>3 DEF Turns
  <1>5. NeverMisSliced' /\ Aligned'
    BY <1>1, <1>2, CommandIsSliced DEF Aligned
  <1>6. Onward
    BY <1>1, <1>2 DEF Onward, MailTypes
  <1>7. rest > 0 => rest' = rest - 1
    BY <1>1, <1>2 DEF MailTypes
  <1>8. QED BY <1>4, <1>5, <1>6, <1>7, TurnInv

LEMMA LookInv == MailInv /\ Look => MailInv'
  <1> SUFFICES ASSUME MailInv, Look PROVE MailInv'
    OBVIOUS
  <1>1. /\ MailCycle(FALSE, FALSE, {}) /\ rest = 0 /\ rest' = 0
        /\ next' = (IF overflow THEN "flush" ELSE IF Empty THEN "status" ELSE "data")
        /\ cut' = cut /\ length' = length /\ index' = index /\ slot' = slot
        /\ gathered' = gathered /\ last' = {}
    BY DEF Look, MailCycle, parser
  <1>2. MailTypes /\ Aligned
    BY DEF MailInv
  <1>3. Turns(FALSE, {})
    BY <1>1, <1>2 DEF Turns, Parser, MailTypes
  <1>4. NeverMisSliced' /\ Aligned'
    BY <1>1, <1>2, CommandIsSliced DEF Aligned
  <1>5. Onward
    BY <1>1, <1>2 DEF Onward, MailTypes
  <1>6. ~(rest > 0)
    BY <1>1
  <1>7. QED BY <1>3, <1>4, <1>5, <1>6, TurnInv

LEMMA PopInv == MailInv /\ Pop => MailInv'
  <1> SUFFICES ASSUME MailInv, Pop PROVE MailInv'
    OBVIOUS
  <1> DEFINE done == IF Completes(ReadData) THEN Filled(ReadData) ELSE {}
  <1>1. /\ next = "data" /\ rest = 0 /\ MailCycle(FALSE, TRUE, done) /\ Parse(ReadData)
        /\ next' = "status" /\ cut' = (cut /\ ~Announces(ReadData)) /\ rest' = 0 /\ last' = done
    BY DEF Pop, MailCycle
  <1>2. Sound /\ Told /\ Aligned /\ ReadData \in Words /\ ReadData = Contents[1]
    BY <1>1, HeadInPlace DEF MailInv, Sound
  <1>3. /\ Heard(Parser, Contents[1], Parser') /\ Aligned'
        /\ length' \in 0 .. 63 /\ index' \in Nat /\ slot' \in 0 .. CommandBytes - 1
        /\ cut' \in BOOLEAN /\ (cut' => length' = 0 /\ index' = 0)
    BY <1>1, <1>2, ParseIsHeard
  <1>4. Completes(ReadData) =>
          /\ ~cut /\ Contents[1][2] = "byte"
          /\ \A g \in Filled(ReadData) : g[2][1] = Contents[1][1]
          /\ \E f \in Frames, k \in 0 .. 63 :
                Filled(ReadData) = Run(f, k * CommandBytes, CommandBytes)
    BY <1>1, <1>2, HeadCommand
  <1>5. \/ done = {}
        \/ /\ ~cut /\ Contents[1][2] = "byte" /\ \A g \in done : g[2][1] = Contents[1][1]
           /\ \E f \in Frames, k \in 0 .. 63 : done = Run(f, k * CommandBytes, CommandBytes)
    BY <1>4
  <1> HIDE DEF done
  <1>6. Turns(TRUE, done)
    BY <1>1, <1>3, <1>5 DEF Turns
  <1>7. NeverMisSliced'
    BY <1>1, <1>5, CommandIsSliced
  <1>8. Onward
    BY <1>1, <1>3 DEF Onward
  <1>9. ~(rest > 0)
    BY <1>1
  <1>10. QED BY <1>3, <1>6, <1>7, <1>8, <1>9, TurnInv

\* A flush, by the loop or by an access under way at a restart.
LEMMA FlushInv ==
  ASSUME MailInv, next = "flush", MailCycle(TRUE, FALSE, {}), rest' = 2, next' = "status",
         length' = 0, index' = 0, slot' = 0, ~cut', cut' \in BOOLEAN
  PROVE  MailInv'
  <1>1. Sound /\ Told /\ Named /\ Framed /\ overflow
    BY DEF MailInv, Sound, MailTypes
  <1>2. MailTypes'
    <2>1. 0 \in 0 .. 63 /\ 0 \in 0 .. CommandBytes - 1 /\ 2 \in 0 .. 2
      BY MailboxAssumption
    <2>2. /\ feed' \in [name : Frames, ours : BOOLEAN, body : Nat, index : Int]
          /\ feed'.index >= -1 /\ feed'.index <= feed'.body
          /\ Strobe' => feed'.body \in Bodies
          /\ forwarding' \in BOOLEAN /\ overflow' \in BOOLEAN
      BY <1>1, FeedType
    <2>3. QED BY <2>1, <2>2 DEF MailTypes
  <1>3. Pointers'
    BY <1>1, FlushPointers DEF Pointers, Sound
  <1>4. Told' /\ Named'
    BY <1>1, FlushTold
  <1>5. Aligned'
    <2>1. 0 = 0 * CommandBytes + 0 /\ 0 \in Nat
      BY MailboxAssumption
    <2>2. QED BY <2>1 DEF Aligned
  <1>6. NeverMisSliced'
    BY CommandIsSliced DEF MailCycle
  <1>7. Framed'
    <2>1. Contents' = << >> /\ ~Going'
      <3>1. ~forwarding'
        BY DEF MailCycle, Forward
      <3>2. QED BY <1>1, <3>1, FlushPointers DEF Sound, Pointers, Going
    <2>2. Parser'.index = 0 /\ Parser'.length = 0
      BY DEF Parser
    <2>3. Linked(Contents', Parser', sizes', Going', feed')
      BY <2>1, <2>2 DEF Linked
    <2>4. QED BY <1>1, <2>3, SizesKept DEF Framed
  <1>8. QED BY <1>2, <1>3, <1>4, <1>5, <1>6, <1>7 DEF MailInv

LEMMA RestartInv == MailInv /\ Restart => MailInv'
  <1> SUFFICES ASSUME MailInv, Restart PROVE MailInv'
    OBVIOUS
  <1>1. PICK access \in BOOLEAN :
          /\ MailCycle(access /\ next = "flush", access /\ next = "data", {})
          /\ cut' = ~(access /\ next = "flush")
    BY DEF Restart
  <1>2. /\ rest = 0 /\ next' = "status" /\ rest' = 2
        /\ length' = 0 /\ index' = 0 /\ slot' = 0 /\ gathered' = {} /\ last' = {}
    BY DEF Restart, MailCycle
  <1>3. CASE access /\ next = "flush"
    <2>1. MailCycle(TRUE, FALSE, {})
      <3>1. (access /\ next = "flush") = TRUE /\ (access /\ next = "data") = FALSE
        BY <1>3
      <3>2. QED BY <1>1, <3>1
    <2>2. ~cut' /\ cut' \in BOOLEAN
      BY <1>1, <1>3
    <2>3. QED BY <1>2, <1>3, <2>1, <2>2, FlushInv
  <1>4. CASE ~(access /\ next = "flush")
    <2>1. PICK pop \in BOOLEAN : pop = (access /\ next = "data")
      OBVIOUS
    <2>2. MailCycle(FALSE, pop, {}) /\ cut'
      <3>1. (access /\ next = "flush") = FALSE
        BY <1>4
      <3>2. QED BY <1>1, <2>1, <3>1
    <2>3. Turns(pop, {})
      BY <1>2, <2>1, <2>2 DEF Turns, Parser
    <2>4. NeverMisSliced'
      BY <1>2, CommandIsSliced
    <2>5. Aligned'
      <3>1. 0 = 0 * CommandBytes + 0 /\ 0 \in Nat /\ 0 \in 0 .. CommandBytes - 1
        BY MailboxAssumption
      <3>2. QED BY <1>2, <3>1 DEF Aligned
    <2>6. 0 \in 0 .. 63 /\ 0 \in Nat /\ 0 \in 0 .. CommandBytes - 1 /\ 2 \in 0 .. 2
      BY MailboxAssumption
    <2>7. cut' \in BOOLEAN
      BY <1>1, <1>4
    <2>8. Onward
      BY <1>2, <2>6, <2>7 DEF Onward
    <2>9. QED BY <1>2, <2>3, <2>4, <2>5, <2>8, TurnInv
  <1>5. QED BY <1>3, <1>4

LEMMA MailInitInv == MailInit => MailInv
  <1> SUFFICES ASSUME MailInit PROVE MailInv
    OBVIOUS
  <1>1. Inv
    BY InitInv DEF MailInit
  <1>2. /\ wBin = 0 /\ wMeta = 0 /\ wRptr = 0 /\ rBin = 0 /\ Dist(0, 0) = 0
        /\ feed = NoFrame /\ forwarding = FALSE /\ overflow = FALSE
        /\ next = "status" /\ rest = 0 /\ length = 0 /\ index = 0 /\ slot = 0 /\ cut = FALSE
        /\ lost = {} /\ ran = {} /\ last = {}
    BY DEF MailInit, Init, Dist
  <1>3. NoFrame \in [name : Frames, ours : BOOLEAN, body : Nat, index : Int]
        /\ NoFrame.index = -1 /\ NoFrame.body = 0
    BY MailboxAssumption DEF NoFrame
  <1>4. ~Strobe
    BY <1>2, <1>3 DEF Strobe
  <1>5. MailTypes
    <2>1. 0 \in 0 .. 63 /\ 0 \in 0 .. CommandBytes - 1 /\ 0 \in 0 .. 2
      BY MailboxAssumption
    <2>2. feed \in [name : Frames, ours : BOOLEAN, body : Nat, index : Int]
          /\ feed.index = -1 /\ feed.body = 0
      BY <1>2, <1>3
    <2>3. feed.index >= -1 /\ feed.index <= feed.body
      BY <2>2
    <2>4. QED BY <1>2, <1>4, <2>1, <2>2, <2>3 DEF MailTypes
  <1>6. Pointers
    BY <1>1, <1>2 DEF Pointers, Following, Inv
  <1>7. Aligned
    <2>1. 0 = 0 * CommandBytes + 0 /\ 0 \in Nat
      BY MailboxAssumption
    <2>2. QED BY <1>2, <2>1 DEF Aligned
  <1>8. Told
    <2>1. \A i \in 1 .. Len(Contents) : FALSE
      BY <1>2 DEF Contents, Occupancy
    <2>2. QED BY <1>2, <1>4, <2>1 DEF Told, Stream, Going
  <1>9. Named
    BY <1>2, <1>4 DEF Named, DroppedWhole
  <1>10. NeverMisSliced
    BY <1>2 DEF NeverMisSliced
  <1>11. Framed
    <2>1. Contents = << >> /\ ~Going
      BY <1>2, <1>4 DEF Contents, Occupancy, Going
    <2>2. Parser.index = 0 /\ Parser.length = 0
      BY <1>2 DEF Parser
    <2>3. QED BY <1>4, <2>1, <2>2 DEF Framed, Linked
  <1>12. QED BY <1>5, <1>6, <1>7, <1>8, <1>9, <1>10, <1>11 DEF MailInv

LEMMA StutterInv == MailInv /\ UNCHANGED mailVars => MailInv'
  <1> SUFFICES ASSUME MailInv, UNCHANGED mailVars PROVE MailInv'
    OBVIOUS
  <1> USE DEF mailVars, vars, mailbox, parser
  <1>1. Contents' = Contents /\ Parser' = Parser /\ Strobe' = Strobe /\ Going' = Going
    BY ContentsIs DEF Parser, Strobe, Going
  <1>2. Stream' = Stream /\ Headed' = Headed
    BY <1>1 DEF Stream, Headed, InPlace, Placed, Expects, Longer
  <1>3. Told' /\ Named'
    BY <1>1, <1>2 DEF MailInv, Told, Named, DroppedWhole
  <1>4. MailTypes'
    BY <1>1 DEF MailInv, MailTypes
  <1>5. Following' = Following /\ Flushed' = Flushed /\ Empty' = Empty /\ TypeOK' = TypeOK
    BY <1>1 DEF Following, Flushed, Views, Round, Dist, Empty, TypeOK
  <1>6. Pointers'
    BY <1>5 DEF MailInv, Pointers
  <1>7. Aligned' /\ NeverMisSliced'
    BY DEF MailInv, Aligned, NeverMisSliced
  <1>8. Framed'
    <2>1. Framed
      BY DEF MailInv
    <2>2. feed' = feed /\ sizes' = sizes /\ overflow' = overflow
      OBVIOUS
    <2>3. QED BY <1>1, <2>1, <2>2 DEF Framed
  <1>9. QED BY <1>3, <1>4, <1>6, <1>7, <1>8 DEF MailInv

LEMMA MailInvAlways == MailSpec => []MailInv
  <1>1. MailInv /\ [MailNext]_mailVars => MailInv'
    BY AwayInv, LookInv, PopInv, RestartInv, StutterInv, FlushInv DEF MailNext, Flush
  <1>2. QED BY <1>1, MailInitInv, PTL DEF MailSpec

\* Whatever is refused or flushed in mid-frame, malformed frames and restarts
\* among it, a command the firmware executes is one command of one frame
\* (mailbox.py 19-22, main.c 87-134).
THEOREM AlwaysSlicedRight == MailSpec => []NeverMisSliced
  <1>1. MailInv => NeverMisSliced
    BY DEF MailInv
  <1>2. QED BY <1>1, MailInvAlways, PTL

\* A frame that had a word refused has no command executed, neither before nor
\* after (mailbox.py 20).
THEOREM AlwaysDroppedWhole == MailSpec => []DroppedWhole
  <1>1. MailInv => DroppedWhole
    BY DEF MailInv, Named
  <1>2. QED BY <1>1, MailInvAlways, PTL

\* Unless an overflow is told, what is in the FIFO is the rest of the frame the
\* parser is in and then whole frames, each as many bytes as its header says and
\* as the decoder replays, the next header only after the last of them; what the
\* last frame lacks is still to be pushed (mailbox.py 68-103, 114-115).
THEOREM AlwaysFrames == MailSpec => []StreamIsFrames
  <1>1. MailInv => StreamIsFrames
    <2> SUFFICES ASSUME MailInv, ~overflow PROVE StreamIsFrames
      BY DEF StreamIsFrames
    <2> DEFINE c == Contents   n == Len(c)
    <2>1. /\ c \in Seq(Words) /\ n \in Nat /\ Linked(c, Parser, sizes, Going, feed)
          /\ index \in Nat /\ length \in Nat
      BY SoundFacts DEF MailInv, Sound, Framed, MailTypes
    <2>2. ASSUME NEW i \in 1 .. n
          PROVE  /\ PlaceOf(c[i]) <= sizes[c[i][1]] /\ (Announces(c[i]) => c[i][3] = sizes[c[i][1]])
                 /\ i > 1 => Follows(c[i], c[i - 1])
      BY <2>1 DEF Linked, Fits, After, Follows, EndsFrame
    <2>3. n > 0 /\ ~cut =>
            IF Announces(c[1]) THEN index >= length
            ELSE c[1][3] = index /\ index < length /\ length = sizes[c[1][1]]
      BY <2>1 DEF Linked, Opens, Parser
    <2>4. n > 0 => EndsFrame(c[n]) \/ ComingIs(c[n][1], PlaceOf(c[n]) + 1)
      BY <2>1 DEF Linked, EndsFrame, ComingIs, Going
    <2>5. n = 0 /\ Inside => feed.body = length /\ ComingIs(feed.name, index + 1)
      BY <2>1 DEF Linked, Inside, ComingIs, Going, Parser
    <2> HIDE DEF c, n
    <2>6. n = Len(c) /\ c = Contents
      BY DEF c, n
    <2>7. QED BY <2>2, <2>3, <2>4, <2>5, <2>6 DEF StreamIsFrames
  <1>2. QED BY <1>1, MailInvAlways, PTL
=============================================================================
