------------------------------ MODULE AsyncFifo ------------------------------
(***************************************************************************)
(* hdl/fifo.py: the FIFO with one clock on each side.                      *)
(*                                                                         *)
(* Each side owns a pointer of one bit more than an address and sees the   *)
(* other side's through a two-flop synchroniser.  A step is a clock edge:  *)
(* of the write side, of the read side, or of both at the same instant, in *)
(* which case each samples what the other held before it.  The two clocks  *)
(* have no phase relationship, so the edges come in any order.             *)
(*                                                                         *)
(* A pointer crosses in Gray code, of which a sampling flop takes the old  *)
(* or the new word and no other (SerialProof, on the words of module       *)
(* GrayCode), and decoding undoes it; here a pointer is the number it      *)
(* stands for, in 0..2*Depth-1.                                            *)
(***************************************************************************)
EXTENDS Integers, Sequences

CONSTANTS Data,     \* what an entry may hold
          Depth     \* entries; the code takes powers of two from 4 up

ASSUME DepthAssumption == Depth \in Nat /\ Depth >= 4

VARIABLES memory,   \* the storage, written by the write side only
          wBin,     \* w_bin: where the next entry goes
          wMeta,    \* the write side's synchroniser of rBin: its first flop
          wRptr,    \* w_rptr: and its second
          rBin,     \* r_bin: where the next entry is read
          rMeta,    \* the read side's synchroniser of wBin: its first flop
          rWptr     \* r_wptr: and its second

writeSide == <<memory, wBin, wMeta, wRptr>>
readSide == <<rBin, rMeta, rWptr>>
vars == <<memory, wBin, wMeta, wRptr, rBin, rMeta, rWptr>>

Pointer == 0 .. 2 * Depth - 1
Address == 0 .. Depth - 1

\* The pointer k entries after p, in ptr_bits bits.
Ahead(p, k) == IF p + k >= 2 * Depth THEN p + k - 2 * Depth ELSE p + k

\* The address bits of a pointer.
Addr(p) == IF p >= Depth THEN p - Depth ELSE p

\* How far pointer p is behind pointer q: q - p in ptr_bits bits.
Dist(p, q) == IF q >= p THEN q - p ELSE q - p + 2 * Depth

\* w_full: the write pointer is a whole lap ahead of where the read pointer
\* was last seen.
Full == Dist(wRptr, wBin) = Depth

\* r_empty: nothing is seen to have been written.
Empty == rBin = rWptr

\* A mistake: a level of address bits only, for which full is empty.
NarrowLevel == Addr(Dist(wRptr, wBin))

\* w_level: the occupancy as the write side sees it.
Level == Dist(wRptr, wBin)

\* r_data: the read port is combinational.
ReadData == memory[Addr(rBin)]

Init == /\ memory \in [Address -> Data]
        /\ wBin = 0 /\ wMeta = 0 /\ wRptr = 0
        /\ rBin = 0 /\ rMeta = 0 /\ rWptr = 0

\* A mistake: a write enable that ignores full.
WriteWhenFull(inc, rst, d) ==
  /\ memory' = IF inc THEN [memory EXCEPT ![Addr(wBin)] = d] ELSE memory
  /\ wBin' = IF rst THEN 0 ELSE IF inc /\ ~Full THEN Ahead(wBin, 1) ELSE wBin
  /\ wMeta' = rBin
  /\ wRptr' = wMeta

\* What an edge of the write clock does with w_inc, w_rst and w_data at inc,
\* rst and d.  Only the pointer is reset: the storage and the synchroniser
\* carry on.
WriteClocked(inc, rst, d) ==
  /\ memory' = IF inc /\ ~Full THEN [memory EXCEPT ![Addr(wBin)] = d] ELSE memory
  /\ wBin' = IF rst THEN 0 ELSE IF inc /\ ~Full THEN Ahead(wBin, 1) ELSE wBin
  /\ wMeta' = rBin
  /\ wRptr' = wMeta

\* A mistake: a synchroniser that waits for something to read.
ReadChainStalls(inc, rst) ==
  /\ rBin' = IF rst THEN 0 ELSE IF inc /\ ~Empty THEN Ahead(rBin, 1) ELSE rBin
  /\ rMeta' = IF Empty THEN rMeta ELSE wBin
  /\ rWptr' = rMeta

ReadClocked(inc, rst) ==
  /\ rBin' = IF rst THEN 0 ELSE IF inc /\ ~Empty THEN Ahead(rBin, 1) ELSE rBin
  /\ rMeta' = wBin
  /\ rWptr' = rMeta

WriteEdge == /\ \E inc \in BOOLEAN, d \in Data : WriteClocked(inc, FALSE, d)
             /\ UNCHANGED readSide

ReadEdge == /\ \E inc \in BOOLEAN : ReadClocked(inc, FALSE)
            /\ UNCHANGED writeSide

BothEdges == \E wInc, rInc \in BOOLEAN, d \in Data :
               /\ WriteClocked(wInc, FALSE, d)
               /\ ReadClocked(rInc, FALSE)

\* The command FIFO of ControlCore: both resets are tied low.
Next == WriteEdge \/ ReadEdge \/ BothEdges

Spec == Init /\ [][Next]_vars

-----------------------------------------------------------------------------
\* How many entries there are, which neither side ever knows exactly.
Occupancy == Dist(rBin, wBin)

\* The entries still to be read, the oldest first.
Contents == [i \in 1 .. Occupancy |-> memory[Addr(Ahead(rBin, i - 1))]]

\* Pointers stay in ptr_bits bits and entries are whole: a pointer that ran
\* past the lap would read as a different occupancy on the other side.
TypeOK == /\ memory \in [Address -> Data]
          /\ wBin \in Pointer /\ wMeta \in Pointer /\ wRptr \in Pointer
          /\ rBin \in Pointer /\ rMeta \in Pointer /\ rWptr \in Pointer

\* Round the ring from the oldest view of the read pointer to the write
\* pointer, every stale view stands between the truths it is a view of, and
\* the whole way is at most a lap.
Round == Dist(wRptr, wMeta) + Dist(wMeta, rBin) + Dist(rBin, rWptr)
           + Dist(rWptr, rMeta) + Dist(rMeta, wBin)

Views == Round <= Depth

\* Each side errs on the side of caution: the level a host is told is never
\* less than what is waiting, whatever the synchronisers lag, and a FIFO that
\* looks readable has an entry (fifo.py 98-109, the status reply's level).
LevelIsCautious == /\ Occupancy <= Level
                   /\ Level <= Depth
                   /\ ~Empty => Occupancy > 0

\* The FIFO implements a bounded queue of Depth entries: nothing is lost,
\* duplicated or reordered between the two clocks (fifo.py 62-119).
Q == INSTANCE BoundedQueue WITH queue <- Contents
IsBoundedQueue == Q!Spec

-----------------------------------------------------------------------------
\* Both clocks run for ever, so each side's edges never stop for good.
FairSpec == /\ Spec
            /\ WF_vars(WriteEdge \/ BothEdges)
            /\ WF_vars(ReadEdge \/ BothEdges)

\* A side that waits, waits on the synchronisers only: an entry that was
\* written is seen by the reader (or is gone already), and a full FIFO that
\* has room again, or gets it, is seen to have room by the writer.
EachSideSees == /\ (Occupancy > 0) ~> (~Empty \/ Occupancy = 0)
                /\ (Full /\ Occupancy < Depth) ~> ~Full
=============================================================================
