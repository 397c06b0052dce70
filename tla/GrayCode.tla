------------------------------ MODULE GrayCode ------------------------------
(***************************************************************************)
(* The Gray code that carries counters across clocks (hdl/fifo.py and      *)
(* SampleCounter in hdl/designs/control.py): the encoding, the decoding by *)
(* shifts, counting on, and what a row of flops catches of a change.  A    *)
(* word of Bits bits is the set of the bits that are one, 0 the lowest.    *)
(***************************************************************************)
EXTENDS Integers

CONSTANT Bits

\* The decoder's shifts, up to 16, serve words of up to 32 bits.
ASSUME BitsAssumption == Bits \in 2 .. 32

Index == 0 .. Bits - 1
Word == SUBSET Index

\* v ^ w, and w >> s.
Xor(v, w) == (v \ w) \union (w \ v)
Down(w, s) == {i \in Index : i + s \in w}

\* A mistake: a shift of two, after which neighbours differ in several bits.
WrongGray(b) == Xor(b, Down(b, 2))
Gray(b) == Xor(b, Down(b, 1))

\* The decoder doubles its shift while that is less than the width.
Undone(w, s) == IF s < Bits THEN Xor(w, Down(w, s)) ELSE w
wordOf == [g \in Word |-> Undone(Undone(Undone(Undone(Undone(g, 1), 2), 4), 8), 16)]
Decode(g) == wordOf[g]

\* One more: a bit changes when all the bits below it are ones.
Next1(c) == Xor(c, {i \in Index : 0 .. i - 1 \subseteq c})

\* What a row of flops may hold when the word it samples is changing from a
\* to b: each bit the old or the new one, on its own.
Sampled(a, b) == {(a \intersect b) \union w : w \in SUBSET Xor(a, b)}
=============================================================================
