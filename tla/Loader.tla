------------------------------- MODULE Loader -------------------------------
(***************************************************************************)
(* hdl/loader.py's ProgramLoader, a byte of a replayed frame a cycle, and  *)
(* the frames host/client.py's load and run send it through protocol.py.   *)
(***************************************************************************)
EXTENDS Integers, SequencesExt

CONSTANTS MemWords,      \* mem_words
          AddressBytes, CountBytes, WordBytes,
          Radix,         \* values of a byte
          MaxLoadWords   \* words in a frame at most

ASSUME LoaderAssumption == /\ MemWords \in Nat \ {0} /\ Radix \in Nat /\ Radix > 1
                           /\ {AddressBytes, CountBytes, WordBytes, MaxLoadWords} \subseteq Nat \ {0}

Header == 1 + AddressBytes + CountBytes      \* LOAD_HEADER

VARIABLES frame, index,     \* the frame replayed last, and its byte this cycle or -1
          packet, address, count, base, word, written,
          stb, addr, data,  \* the loader's port
          run,
          loaded            \* history: what this frame has had written

registers == <<packet, address, count, base, word, written>>
loaderVars == <<frame, index, registers, stb, addr, data, run, loaded>>

-----------------------------------------------------------------------------
\* A number's bytes, low byte first, and the number a register's bytes make.
LowFirst(n, size) == [i \in 1 .. size |-> (n \div Radix^(i - 1)) % Radix]
Value(bytes) == SumFunction([i \in DOMAIN bytes |-> bytes[i] * Radix^(i - 1)])
Fits(n, size) == n \in Nat /\ Value(LowFirst(n, size)) = n

\* encode_load, which refuses numbers that do not fit, and encode_run.
Sendable(f) == Fits(f.at, AddressBytes) /\ Fits(Len(f.words), CountBytes)
Joined(words) == [i \in 1 .. WordBytes * Len(words) |-> words[(i - 1) \div WordBytes + 1][((i - 1) % WordBytes) + 1]]
Bytes(f) == IF f.type = "run" THEN <<"run", IF f.on THEN 1 ELSE 0>>
            ELSE <<"load">> \o LowFirst(f.at, AddressBytes) \o LowFirst(Len(f.words), CountBytes)
                   \o Joined(f.words)

RunFrame(on) == [type |-> "run", on |-> on]

\* load_packets: an image from an address on, MaxLoadWords words to a frame.
LoadFrames(image, at) ==
  [k \in 1 .. (Len(image) + MaxLoadWords - 1) \div MaxLoadWords |->
     LET first == (k - 1) * MaxLoadWords
     IN  [type |-> "load", at |-> at + WordBytes * first,
          words |-> SubSeq(image, first + 1, IF first + MaxLoadWords < Len(image) THEN first + MaxLoadWords ELSE Len(image))]]

-----------------------------------------------------------------------------
Zeros(size) == [i \in 1 .. size |-> 0]

LoaderInit == /\ frame = RunFrame(FALSE) /\ index = -1
              /\ packet = "none" /\ address = Zeros(AddressBytes) /\ count = Zeros(CountBytes)
              /\ base = 0 /\ word = Zeros(WordBytes) /\ written = 0
              /\ stb = FALSE /\ addr = 0 /\ data = word /\ run = FALSE /\ loaded = << >>

Strobe == index >= 0
Byte == Bytes(frame)[index + 1]
LastByte == index = Len(Bytes(frame)) - 1

\* The oldest byte is shifted out at the bottom.
Shifted(register) == Append(Tail(register), Byte)

\* A mistake: the first word in range for the whole frame.
BaseOutside == base >= MemWords
OutOfRange == base + Value(count) > MemWords

NoWrite == stb' = FALSE /\ UNCHANGED <<addr, data, loaded>>

TypeByte == /\ Strobe /\ index = 0
            /\ packet' = Byte /\ written' = 0 /\ word' = Zeros(WordBytes)
            /\ address' = Zeros(AddressBytes) /\ count' = Zeros(CountBytes)
            /\ stb' = FALSE /\ loaded' = << >> /\ UNCHANGED <<base, addr, data, run>>

HeaderByte == /\ Strobe /\ index \in 1 .. Header - 1 /\ packet = "load"
              /\ IF index <= AddressBytes
                   THEN address' = Shifted(address) /\ UNCHANGED count
                   ELSE count' = Shifted(count) /\ UNCHANGED address
              /\ base' = IF index = Header - 1 THEN Value(address) \div WordBytes ELSE base
              /\ NoWrite /\ UNCHANGED <<packet, word, written, run>>

WordDone == (index - Header) % WordBytes = WordBytes - 1
DataByte == /\ Strobe /\ index >= Header /\ packet = "load"
            /\ word' = Shifted(word)
            /\ IF WordDone /\ ~OutOfRange
                 THEN /\ stb' = TRUE /\ addr' = (base + written) % MemWords /\ data' = Shifted(word)
                      /\ written' = written + 1
                      /\ loaded' = Append(loaded, <<base + written, Shifted(word)>>)
                 ELSE NoWrite /\ UNCHANGED written
            /\ UNCHANGED <<packet, address, count, base, run>>

RunByte == /\ Strobe /\ index > 0 /\ packet = "run"
           /\ run' = IF index = 1 THEN Byte = 1 ELSE run
           /\ NoWrite /\ UNCHANGED registers

\* A mistake: a strobe that lasts until the next byte.
StrobeStays == /\ ~Strobe
               /\ UNCHANGED <<registers, run, stb, addr, data, loaded>>

LoaderRests == /\ ~Strobe
               /\ NoWrite /\ UNCHANGED <<registers, run>>

LoaderCycle == TypeByte \/ HeaderByte \/ DataByte \/ RunByte \/ LoaderRests
=============================================================================
