--------------------------------- MODULE Crc ---------------------------------
(***************************************************************************)
(* hdl/crc.py: the checksum of a frame, for bytes of ByteBits bits and a   *)
(* remainder of twice as many (8 and 16 in the code).                      *)
(***************************************************************************)
EXTENDS Integers, Sequences

CONSTANTS ByteBits, Poly

Byte == 0 .. 2^ByteBits - 1
Remainder == 0 .. 2^(2 * ByteBits) - 1

ASSUME CrcAssumption == ByteBits \in Nat \ {0} /\ Poly \in Remainder

InitialCrc == 2^(2 * ByteBits) - 1

\* a ^ b, by the bits in which they differ.
Differ(a, b, i) == (a \div 2^i) % 2 # (b \div 2^i) % 2
ExclusiveOr(a, b) ==
  LET below[i \in 0 .. 2 * ByteBits] ==
        IF i = 0 THEN 0 ELSE below[i - 1] + IF Differ(a, b, i - 1) THEN 2^(i - 1) ELSE 0
  IN  below[2 * ByteBits]

Shifted(crc) == IF 2 * crc > InitialCrc THEN ExclusiveOr(2 * crc - InitialCrc - 1, Poly) ELSE 2 * crc

\* A byte is absorbed most significant bit first.
Absorb(crc, byte) ==
  LET after[i \in 0 .. ByteBits] ==
        IF i = 0 THEN ExclusiveOr(crc, byte * 2^ByteBits) ELSE Shifted(after[i - 1])
  IN  after[ByteBits]

Checksum(bytes) ==
  LET after[n \in 0 .. Len(bytes)] ==
        IF n = 0 THEN InitialCrc ELSE Absorb(after[n - 1], bytes[n])
  IN  after[Len(bytes)]
=============================================================================
