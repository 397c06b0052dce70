------------------------------ MODULE SocProof ------------------------------
(***************************************************************************)
(* Proofs about Soc for every size of memory and word, every width of the  *)
(* loader's fields, every set of images and every gap of more than two     *)
(* cycles between frames.                                                  *)
(*                                                                         *)
(* What carries the first ones is when a byte of a frame can come.  The    *)
(* loader's strobe is never high for two cycles together, because words    *)
(* have more than one byte.  And a processor that has been stopped in an   *)
(* access has let go of the port before the next frame can start it again  *)
(* (LetGo).  What carries the others is where the frame's bytes are: the   *)
(* registers hold those that have come (Following), the frames still to    *)
(* come are the flow's last (Scripted), and while a flow is under way the  *)
(* memory holds the words that have come (Delivered).                      *)
(***************************************************************************)
EXTENDS Soc, TLAPS, SequenceTheorems

Addresses == 0 .. MemWords - 1
Access == [valid : BOOLEAN, at : Addresses \union {CONTROL, RX_DATA}, write : BOOLEAN]

\* What the processor and the loader hold.
Typed == /\ cpu \in Access
         /\ ready \in BOOLEAN /\ stb \in BOOLEAN /\ run \in BOOLEAN /\ halted \in BOOLEAN
         /\ mem = [a \in Addresses |-> mem[a]]
         /\ index \in Int /\ rest \in Int

LEMMA Sizes == /\ MemWords \in Nat /\ MemWords > 0 /\ CONTROL = -1 /\ RX_DATA = -2
               /\ WordBytes \in Nat /\ WordBytes > 1 /\ Gap \in Nat /\ Gap > 2
               /\ Header \in Nat /\ Header > 1
  BY LoaderAssumption, SocAssumption DEF CONTROL, RX_DATA, Header

LEMMA InitTyped == SocInit => Typed
  <1>1. SocInit => cpu \in Access
    BY Sizes DEF SocInit, Access, Addresses, Nothing
  <1>2. SocInit => mem = [a \in Addresses |-> mem[a]]
    BY DEF SocInit, Addresses
  <1>3. SocInit => /\ ready = FALSE /\ stb = FALSE /\ run = FALSE /\ halted = FALSE
                   /\ index = -1 /\ rest = 0
    BY Zenon DEF SocInit, LoaderInit
  <1>4. SocInit => ready \in BOOLEAN /\ stb \in BOOLEAN /\ run \in BOOLEAN /\ halted \in BOOLEAN
    BY <1>3, Zenon
  <1>5. SocInit => index \in Int /\ rest \in Int
    BY <1>3, SMT
  <1>6. QED BY <1>1, <1>2, <1>4, <1>5 DEF Typed

\* What a cycle does to the run bit and to the strobe.
LEMMA LoaderSteps ==
  ASSUME LoaderCycle, Typed
  PROVE  /\ run' \in BOOLEAN /\ stb' \in BOOLEAN
         /\ run' # run => index = 1
         /\ stb' => index \in Int /\ index >= Header /\ WordDone
  <1>1. CASE TypeByte
    BY <1>1 DEF TypeByte, Typed
  <1>2. CASE HeaderByte
    BY <1>2 DEF HeaderByte, NoWrite, Typed
  <1>3. CASE DataByte
    <2>1. run' = run /\ index >= Header
      BY <1>3 DEF DataByte
    <2>2. CASE WordDone /\ ~OutOfRange
      BY <1>3, <2>1, <2>2 DEF DataByte, Typed
    <2>3. CASE ~(WordDone /\ ~OutOfRange)
      BY <1>3, <2>1, <2>3 DEF DataByte, NoWrite, Typed
    <2>4. QED BY <2>2, <2>3
  <1>4. CASE RunByte
    BY <1>4 DEF RunByte, NoWrite, Typed
  <1>5. CASE LoaderRests
    BY <1>5 DEF LoaderRests, NoWrite, Typed
  <1>6. QED BY <1>1, <1>2, <1>3, <1>4, <1>5 DEF LoaderCycle

\* What a cycle does to the frame on its way.
LEMMA HostSteps ==
  ASSUME Host, Typed
  PROVE  /\ index' \in Int /\ rest' \in Int
         /\ Strobe => \/ index' = index + 1
                      \/ index' = -1 /\ rest' = Gap
         /\ ~Strobe => \/ index' = index /\ (rest' = Gap \/ rest' = rest - 1 \/ rest <= 0)
                       \/ index' = 0 /\ rest = 0
  BY Sizes DEF Host, Typed, Strobe

\* What a cycle does to the processor.
LEMMA ProcessorSteps ==
  ASSUME Processor, Typed
  PROVE  /\ cpu' \in Access
         /\ \/ /\ ~resetn \/ (cpu.valid /\ ready)
               /\ ~cpu'.valid
            \/ /\ resetn /\ cpu.valid /\ ~ready
               /\ cpu' = cpu
            \/ /\ resetn /\ ~cpu.valid
               /\ cpu' = cpu \/ cpu'.valid
         /\ cpu.valid => cpu'.at = cpu.at /\ cpu'.write = cpu.write
  BY Sizes DEF Processor, Typed, Access, Addresses

LEMMA NextTyped == ASSUME Typed, [SocNext]_socVars PROVE Typed'
  <1>1. CASE UNCHANGED socVars
    BY <1>1 DEF socVars, loaderVars, flow, Typed
  <1>2. CASE SocNext
    <2>1. cpu' \in Access /\ index' \in Int /\ rest' \in Int /\ run' \in BOOLEAN /\ stb' \in BOOLEAN
      BY <1>2, LoaderSteps, HostSteps, ProcessorSteps DEF SocNext
    <2>2. ready' \in BOOLEAN /\ halted' \in BOOLEAN
      BY <1>2 DEF SocNext, Memory, Halt, AddressPhase
    <2>3. (mem = [a \in Addresses |-> mem[a]])'
      BY <1>2 DEF SocNext, Memory, Typed
    <2>4. QED BY <2>1, <2>2, <2>3 DEF Typed
  <1>3. QED BY <1>1, <1>2

LEMMA TypedAlways == SocSpec => []Typed
  BY InitTyped, NextTyped, PTL DEF SocSpec

-----------------------------------------------------------------------------
\* The processor's access and its answer.
Asked == IF cpu.valid /\ InMemory THEN <<[at |-> cpu.at, write |-> cpu.write, data |-> Scribble]>> ELSE << >>
Answered == IF cpu.valid /\ InMemory /\ ready THEN <<readData>> ELSE << >>

\* One cycle of the memory is one step of the atomic memory, or none.
LEMMA MemorySteps ==
  ASSUME Typed, SocNext
  PROVE  Shared!Next \/ UNCHANGED <<mem, Asked, Answered>>
  <1>1. /\ ready' = AddressPhase
        /\ readData' = IF cpu.valid /\ InMemory THEN mem[cpu.at] ELSE readData
        /\ mem' = IF stb THEN [mem EXCEPT ![addr] = data]
                  ELSE IF AddressPhase /\ cpu.write /\ InMemory THEN [mem EXCEPT ![cpu.at] = Scribble]
                  ELSE mem
    BY DEF SocNext, Memory
  <1>2. /\ cpu \in Access /\ cpu' \in Access /\ DOMAIN mem = Addresses
    BY ProcessorSteps DEF Typed, SocNext
  <1>3. CASE AddressPhase /\ InMemory
    <2>1. /\ Asked = <<[at |-> cpu.at, write |-> cpu.write, data |-> Scribble]>> /\ Answered = << >>
          /\ cpu.valid /\ ~ready /\ ~stb
      BY <1>3 DEF Asked, Answered, AddressPhase
    <2>2. mem' = IF cpu.write THEN [mem EXCEPT ![cpu.at] = Scribble] ELSE mem
      BY <1>1, <1>3, <2>1
    <2>3. \/ Answered' = <<mem[cpu.at]>> /\ Asked' = Asked
          \/ Answered' = << >> /\ Asked' = << >>
      <3>1. CASE ~cpu'.valid
        BY <3>1 DEF Asked, Answered
      <3>2. CASE cpu'.valid
        <4>1. cpu' = cpu
          BY <2>1, <3>2, ProcessorSteps DEF SocNext
        <4>2. QED BY <1>1, <1>3, <2>1, <4>1 DEF Asked, Answered, InMemory
      <3>3. QED BY <3>1, <3>2
    <2>4. Asked # << >> /\ Asked[1].at = cpu.at /\ Asked[1].write = cpu.write /\ Asked[1].data = Scribble
      BY <2>1
    <2>5. Shared!Perform
      BY <2>1, <2>2, <2>3, <2>4 DEF Shared!Perform, Asked, Answered
    <2>6. QED BY <2>5 DEF Shared!Next
  <1>4. CASE ~(AddressPhase /\ InMemory)
    <2>1. Shared!Loads \/ UNCHANGED mem
      <3>1. CASE stb /\ addr \in Addresses
        <4>1. mem' = [mem EXCEPT ![addr] = mem'[addr]]
          BY <1>1, <1>2, <3>1
        <4>2. QED BY <1>2, <3>1, <4>1 DEF Shared!Loads
      <3>2. CASE stb /\ addr \notin Addresses
        BY <1>1, <1>2, <3>2 DEF Typed
      <3>3. CASE ~stb
        BY <1>1, <1>4, <3>3
      <3>4. QED BY <3>1, <3>2, <3>3
    <2>2. Shared!Asks \/ Shared!Ends \/ UNCHANGED <<Asked, Answered>>
      <3>1. CASE ~cpu'.valid
        <4>1. Asked' = << >> /\ Answered' = << >>
          BY <3>1 DEF Asked, Answered
        <4>2. QED BY <4>1 DEF Shared!Ends, Asked, Answered
      <3>2. CASE cpu'.valid /\ cpu.valid
        <4>1. cpu' = cpu /\ ~ready
          BY <3>2, ProcessorSteps DEF SocNext
        <4>2. Asked' = Asked /\ Answered = << >>
          BY <4>1 DEF Asked, Answered, InMemory
        <4>3. Answered' = << >>
          BY <1>1, <1>4, <4>1 DEF Answered, InMemory
        <4>4. QED BY <4>2, <4>3
      <3>3. CASE cpu'.valid /\ ~cpu.valid
        <4>1. Asked = << >> /\ Answered = << >> /\ ~ready'
          BY <1>1, <3>3 DEF Asked, Answered, AddressPhase
        <4>2. Answered' = << >>
          BY <4>1 DEF Answered
        <4>3. CASE InMemory'
          <5>1. cpu'.at \in Addresses /\ cpu'.write \in BOOLEAN
            BY <1>2, <4>3, Sizes DEF Access, InMemory
          <5>2. Asked' = <<[at |-> cpu'.at, write |-> cpu'.write, data |-> Scribble]>>
            BY <3>3, <4>3 DEF Asked, Scribble
          <5>3. [at |-> cpu'.at, write |-> cpu'.write, data |-> Scribble]
                  \in [at : 0 .. MemWords - 1, write : BOOLEAN, data : {Scribble}]
            BY <5>1 DEF Addresses
          <5>4. QED BY <4>1, <4>2, <5>2, <5>3 DEF Shared!Asks, Asked, Answered
        <4>4. CASE ~InMemory'
          BY <4>1, <4>2, <4>4 DEF Asked
        <4>5. QED BY <4>3, <4>4
      <3>4. QED BY <3>1, <3>2, <3>3
    <2>3. QED BY <2>1, <2>2 DEF Shared!Next, Asked, Answered
  <1>5. QED BY <1>3, <1>4

\* An access put off by a load still happens once, whole, and is answered with
\* what was there at that moment (soc.py 9-12, 236-268).
THEOREM OneMemory == SocSpec => IsAtomicMemory
  <1>1. SocInit => Shared!Init
    BY DEF SocInit, Shared!Init, Nothing
  <1>2. Typed /\ [SocNext]_socVars => [Shared!Next]_Shared!vars
    <2>1. CASE SocNext
      BY <2>1, MemorySteps DEF Shared!vars, Asked, Answered
    <2>2. CASE UNCHANGED socVars
      BY <2>2 DEF socVars, loaderVars, flow, Shared!vars, InMemory
    <2>3. QED BY <2>1, <2>2
  <1>3. QED BY <1>1, <1>2, TypedAlways, PTL DEF SocSpec, IsAtomicMemory, Shared!Spec

-----------------------------------------------------------------------------
\* The strobe comes with the last byte of a word, and a byte later is another
\* byte of the next word.
Spaced == stb => index = -1 \/ index < Header \/ ~WordDone

LEMMA OneApart ==
  ASSUME NEW a \in Nat, NEW w \in Nat, w > 1, a % w = w - 1
  PROVE  (a + 1) % w # w - 1
  OBVIOUS

LEMMA StrobesApart ==
  ASSUME Typed, SocNext
  PROVE  /\ Spaced'
         /\ stb /\ Spaced => ~stb'
  <1>1. stb' => index >= Header /\ WordDone
    BY LoaderSteps DEF SocNext
  <1>2. Spaced'
    <2>1. SUFFICES ASSUME stb', index' # -1, ~(index' < Header) PROVE ~WordDone'
      BY DEF Spaced
    <2>2. index' = index + 1 /\ index \in Int /\ index >= Header
      BY <1>1, <2>1, HostSteps, Sizes DEF SocNext, Strobe, Typed
    <2>3. index - Header \in Nat /\ (index - Header) % WordBytes = WordBytes - 1
      BY <1>1, <2>1, <2>2, Sizes DEF WordDone
    <2>4. ((index - Header) + 1) % WordBytes # WordBytes - 1
      BY <2>3, OneApart, Sizes
    <2>5. index' - Header = (index - Header) + 1
      BY <2>2, Sizes
    <2>6. QED BY <2>4, <2>5 DEF WordDone
  <1>3. stb /\ Spaced => ~stb'
    BY <1>1, Sizes DEF Spaced, Typed
  <1>4. QED BY <1>2, <1>3

\* An access that has waited was put off by a strobe, and is not again.
Put == /\ waited \in 0 .. 2
       /\ waited = 1 => ready \/ ~stb
       /\ waited = 2 => ready

LEMMA NextPut == ASSUME Typed, Spaced, Put, SocNext PROVE Put'
  <1>1. ready' = (cpu.valid /\ ~ready /\ ~stb)
    BY DEF SocNext, Memory, AddressPhase
  <1>2. waited' = IF cpu.valid /\ ~ready THEN waited + 1 ELSE 0
    BY DEF SocNext, History
  <1>3. stb => ~stb'
    BY StrobesApart
  <1>4. CASE ~(cpu.valid /\ ~ready)
    BY <1>2, <1>4 DEF Put
  <1>5. CASE cpu.valid /\ ~ready
    <2>1. waited = 0 \/ (waited = 1 /\ ~stb)
      BY <1>5 DEF Put
    <2>2. CASE waited = 0
      <3>1. waited' = 1
        BY <1>2, <1>5, <2>2
      <3>2. ready' \/ ~stb'
        BY <1>1, <1>3, <1>5
      <3>3. QED BY <3>1, <3>2 DEF Put
    <2>3. CASE waited = 1 /\ ~stb
      <3>1. waited' = 2
        BY <1>2, <1>5, <2>3
      <3>2. ready'
        BY <1>1, <1>5, <2>3
      <3>3. QED BY <3>1, <3>2 DEF Put
    <2>4. QED BY <2>1, <2>2, <2>3
  <1>6. QED BY <1>4, <1>5

\* "Every access takes exactly one cycle", one more when a load comes first
\* (soc.py 236-238, loader.py 84).
THEOREM AlwaysAnsweredSoon == SocSpec => []AnsweredSoon
  <1>1. SocInit => Spaced /\ Put
    BY DEF SocInit, LoaderInit, Spaced, Put
  <1>2. Typed /\ Spaced /\ Put /\ [SocNext]_socVars => Spaced' /\ Put'
    <2>1. CASE SocNext
      BY <2>1, StrobesApart, NextPut
    <2>2. CASE UNCHANGED socVars
      BY <2>2 DEF socVars, loaderVars, Spaced, Put, WordDone
    <2>3. QED BY <2>1, <2>2
  <1>3. Put => AnsweredSoon
    BY DEF Put, AnsweredSoon
  <1>4. QED BY <1>1, <1>2, <1>3, TypedAlways, PTL DEF SocSpec

-----------------------------------------------------------------------------
\* A processor stopped by the run bit is let go of before another frame's first
\* argument, which alone can set the bit again.
LetGo == /\ cpu.valid /\ ~run => index = 2 \/ (index = -1 /\ rest = Gap)
         /\ ready /\ ~run => index \in {2, 3} \/ (index = -1 /\ rest >= Gap - 1)
         /\ ready /\ ~cpu.valid => ~resetn

LEMMA NextLetGo ==
  ASSUME Typed, LetGo, SocNext
  PROVE  /\ LetGo'
         /\ ready /\ ~resetn => ~resetn'
  <1>1. /\ ready' = AddressPhase
        /\ halted' = (run /\ (halted \/ MmioWrite(CONTROL)))
        /\ run' # run => index = 1
    BY LoaderSteps DEF SocNext, Memory, Halt
  <1>2. index \in Int /\ rest \in Int /\ index' \in Int /\ rest' \in Int
        /\ run \in BOOLEAN /\ run' \in BOOLEAN /\ ready \in BOOLEAN /\ halted \in BOOLEAN
    BY HostSteps, LoaderSteps DEF SocNext, Typed
  <1>3. /\ index >= 0 => index' = index + 1 \/ (index' = -1 /\ rest' = Gap)
        /\ index < 0 => \/ index' = index /\ (rest' = Gap \/ rest' = rest - 1 \/ rest <= 0)
                        \/ index' = 0 /\ rest = 0
    BY <1>2, HostSteps DEF SocNext, Strobe
  <1>4. cpu.valid' => resetn
    BY ProcessorSteps DEF SocNext
  <1>5. (cpu.valid /\ ~run => index = 2 \/ (index = -1 /\ rest = Gap))'
    <2>1. SUFFICES ASSUME cpu'.valid, ~run' PROVE index' = 2 \/ (index' = -1 /\ rest' = Gap)
      OBVIOUS
    <2>2. run /\ index = 1
      BY <1>1, <1>2, <1>4, <2>1 DEF resetn
    <2>3. QED BY <1>2, <1>3, <2>2
  <1>6. (ready /\ ~run => index \in {2, 3} \/ (index = -1 /\ rest >= Gap - 1))'
    <2>1. SUFFICES ASSUME cpu.valid, ~run'
                   PROVE  index' \in {2, 3} \/ (index' = -1 /\ rest' >= Gap - 1)
      BY <1>1 DEF AddressPhase
    <2>2. index = 1 \/ index = 2 \/ (index = -1 /\ rest = Gap)
      BY <1>1, <2>1 DEF LetGo
    <2>3. QED BY <1>2, <1>3, <2>2, Sizes
  <1>7. (~resetn /\ (ready \/ cpu.valid)) => ~resetn'
    <2>1. SUFFICES ASSUME ~resetn, ready \/ cpu.valid PROVE ~resetn'
      OBVIOUS
    <2>2. CASE run
      BY <1>1, <2>1, <2>2 DEF resetn
    <2>3. CASE ~run
      <3>1. index # 1
        BY <1>2, <2>1, <2>3 DEF LetGo
      <3>2. QED BY <1>1, <1>2, <2>3, <3>1 DEF resetn
    <2>4. QED BY <1>2, <2>2, <2>3
  <1>8. (ready /\ ~cpu.valid => ~resetn)'
    <2>1. SUFFICES ASSUME AddressPhase, ~cpu'.valid PROVE ~resetn'
      BY <1>1
    <2>2. cpu.valid /\ ~ready /\ ~resetn
      BY <2>1, ProcessorSteps DEF SocNext, AddressPhase, Typed, Access
    <2>3. QED BY <1>7, <2>2
  <1>9. QED BY <1>5, <1>6, <1>7, <1>8 DEF LetGo

\* What a reset takes unread it takes in the cycle it comes, once.
Together == head = got \/ (~resetn /\ ~ready /\ head = Next1(got))

LEMMA NextTogether == ASSUME Typed, LetGo, Together, SocNext PROVE Together'
  <1>1. /\ head' = IF flush THEN 0 ELSE IF Pop THEN Next1(head) ELSE head
        /\ got' = IF flush THEN 0 ELSE IF Reads THEN Next1(got) ELSE IF ~resetn /\ ~ready THEN head ELSE got
        /\ ready' = (cpu.valid /\ ~ready /\ ~stb)
    BY DEF SocNext, Mailbox, History, Memory, AddressPhase
  <1>2. CASE flush
    BY <1>1, <1>2 DEF Together
  <1>3. CASE ~flush /\ Reads
    <2>1. Pop /\ head = got
      BY <1>3 DEF Reads, Pop, Together
    <2>2. QED BY <1>1, <1>3, <2>1 DEF Together
  <1>4. CASE ~flush /\ ~Reads /\ Pop
    <2>1. ready /\ ~resetn
      BY <1>4 DEF Reads, Pop, LetGo
    <2>2. head = got /\ got' = got /\ head' = Next1(head)
      BY <1>1, <1>4, <2>1 DEF Together
    <2>3. ~resetn' /\ ~ready'
      BY <1>1, <2>1, NextLetGo
    <2>4. QED BY <2>2, <2>3 DEF Together, Next1
  <1>5. CASE ~flush /\ ~Reads /\ ~Pop
    BY <1>1, <1>5 DEF Together
  <1>6. QED BY <1>2, <1>3, <1>4, <1>5

\* The program reads the mailbox's words one by one, none twice and none left
\* out: only a reset can take a word it has not read, and one at most (soc.py
\* 326-335).
THEOREM AlwaysReadsEachWord == SocSpec => []ReadsEachWord
  <1>1. SocInit => LetGo /\ Together
    BY DEF SocInit, LoaderInit, Nothing, LetGo, Together
  <1>2. Typed /\ LetGo /\ Together /\ [SocNext]_socVars => LetGo' /\ Together'
    <2>1. CASE SocNext
      BY <2>1, NextLetGo, NextTogether
    <2>2. CASE UNCHANGED socVars
      BY <2>2 DEF socVars, loaderVars, flow, LetGo, Together, resetn, Next1
    <2>3. QED BY <2>1, <2>2
  <1>3. Together => ReadsEachWord
    BY DEF Together, ReadsEachWord
  <1>4. QED BY <1>1, <1>2, <1>3, TypedAlways, PTL DEF SocSpec

-----------------------------------------------------------------------------
(***************************************************************************)
(* What the loader's registers hold, byte by byte of a load frame.         *)
(***************************************************************************)
Word == [1 .. WordBytes -> 0 .. Radix - 1]
IsLoad(f) == f.type = "load" /\ f.words \in Seq(Word) /\ Sendable(f)
IsFrame(f) == f = RunFrame(FALSE) \/ f = RunFrame(TRUE) \/ IsLoad(f)

\* The last k places of a register hold the first k of d.
Filling(r, size, d, k) == /\ r = [i \in 1 .. size |-> r[i]]
                          /\ \A i \in 1 .. size : i + k > size => r[i] = d[i + k - size]

LEMMA ShiftIs ==
  ASSUME NEW n \in Nat, n > 0, NEW r, r = [i \in 1 .. n |-> r[i]], NEW e
  PROVE  Append(Tail(r), e) = [i \in 1 .. n |-> IF i = n THEN e ELSE r[i + 1]]
  <1> DEFINE S == {r[i] : i \in 1 .. n} \union {e}
  <1>1. r \in [1 .. n -> S]
    OBVIOUS
  <1>2. r \in Seq(S) /\ Len(r) = n /\ r # << >> /\ e \in S
    BY <1>1
  <1>3. Tail(r) \in Seq(S) /\ Len(Tail(r)) = n - 1 /\ \A i \in 1 .. n - 1 : Tail(r)[i] = r[i + 1]
    BY <1>2, HeadTailProperties, ElementOfSeq
  <1>4. /\ Append(Tail(r), e) \in Seq(S) /\ Len(Append(Tail(r), e)) = n
        /\ \A i \in 1 .. n - 1 : Append(Tail(r), e)[i] = Tail(r)[i]
        /\ Append(Tail(r), e)[n] = e
    BY <1>2, <1>3, AppendProperties
  <1> HIDE DEF S
  <1>5. Append(Tail(r), e) = [i \in 1 .. n |-> Append(Tail(r), e)[i]]
    BY <1>4
  <1>6. \A i \in 1 .. n : Append(Tail(r), e)[i] = IF i = n THEN e ELSE r[i + 1]
    BY <1>3, <1>4
  <1>7. QED BY <1>5, <1>6

LEMMA FillOne ==
  ASSUME NEW n \in Nat, n > 0, NEW r, NEW d, NEW k \in Nat, k < n, Filling(r, n, d, k)
  PROVE  Filling(Append(Tail(r), d[k + 1]), n, d, k + 1)
  <1> DEFINE q == [i \in 1 .. n |-> IF i = n THEN d[k + 1] ELSE r[i + 1]]
  <1>1. Append(Tail(r), d[k + 1]) = q
    BY ShiftIs DEF Filling
  <1>2. \A i \in 1 .. n : i + (k + 1) > n => q[i] = d[i + (k + 1) - n]
    BY DEF Filling
  <1>3. q = [i \in 1 .. n |-> q[i]]
    OBVIOUS
  <1> HIDE DEF q
  <1>4. QED BY <1>1, <1>2, <1>3 DEF Filling

LEMMA FillAll ==
  ASSUME NEW n \in Nat, NEW r, NEW d, d = [i \in 1 .. n |-> d[i]], Filling(r, n, d, n)
  PROVE  r = d
  <1>1. ASSUME NEW i \in 1 .. n PROVE r[i] = d[i]
    <2>1. i + n > n /\ i + n - n = i
      OBVIOUS
    <2>2. r[i] = d[i + n - n]
      BY <2>1 DEF Filling
    <2>3. QED BY <2>1, <2>2
  <1>2. QED BY <1>1 DEF Filling

LEMMA LoaderSizes ==
  /\ AddressBytes \in Nat \ {0} /\ CountBytes \in Nat \ {0} /\ MaxLoadWords \in Nat \ {0}
  /\ Header = 1 + AddressBytes + CountBytes /\ Radix \in Nat
  BY LoaderAssumption DEF Header

\* A load frame's bytes are its type's, its numbers' and its words' in turn.
LEMMA ConcatIs ==
  ASSUME NEW s, NEW t, NEW m \in Nat, NEW n \in Nat,
         s = [i \in 1 .. m |-> s[i]], t = [i \in 1 .. n |-> t[i]]
  PROVE  /\ s \o t = [i \in 1 .. m + n |-> (s \o t)[i]]
         /\ \A i \in 1 .. m : (s \o t)[i] = s[i]
         /\ \A i \in 1 .. n : (s \o t)[m + i] = t[i]
         /\ Len(s \o t) = m + n
  <1> DEFINE S == {s[i] : i \in 1 .. m} \union {t[i] : i \in 1 .. n}
  <1>1. s \in Seq(S) /\ t \in Seq(S) /\ Len(s) = m /\ Len(t) = n
    <2>1. \A i \in 1 .. m : s[i] \in S
      OBVIOUS
    <2>2. \A i \in 1 .. n : t[i] \in S
      OBVIOUS
    <2> HIDE DEF S
    <2>3. s \in [1 .. m -> S]
      BY ONLY <2>1, s = [i \in 1 .. m |-> s[i]]
    <2>4. t \in [1 .. n -> S]
      BY ONLY <2>2, t = [i \in 1 .. n |-> t[i]]
    <2>5. s \in Seq(S)
      BY ONLY <2>3, m \in Nat
    <2>6. t \in Seq(S)
      BY ONLY <2>4, n \in Nat
    <2>7. Len(s) = m
      BY <2>3, <2>5, LenProperties
    <2>8. Len(t) = n
      BY <2>4, <2>6, LenProperties
    <2>9. QED BY <2>5, <2>6, <2>7, <2>8
  <1> HIDE DEF S
  <1>2. PICK c : c = s \o t
    OBVIOUS
  <1>3. /\ c \in Seq(S) /\ Len(c) = m + n
        /\ \A i \in 1 .. m : c[i] = s[i]
        /\ \A i \in 1 .. n : c[m + i] = t[i]
    <2>1. /\ c \in Seq(S) /\ Len(c) = Len(s) + Len(t)
          /\ \A i \in 1 .. Len(s) + Len(t) : c[i] = IF i <= Len(s) THEN s[i] ELSE t[i - Len(s)]
      <3>1. s \in Seq(S) /\ t \in Seq(S)
        BY <1>1
      <3>2. s \o t \in Seq(S)
        BY ONLY <3>1, ConcatProperties, Zenon
      <3>3. Len(s \o t) = Len(s) + Len(t)
        BY ONLY <3>1, ConcatProperties, Zenon
      <3>4. \A i \in 1 .. Len(s) + Len(t) : (s \o t)[i] = IF i <= Len(s) THEN s[i] ELSE t[i - Len(s)]
        BY ONLY <3>1, ConcatProperties, Zenon
      <3>5. QED BY ONLY <1>2, <3>2, <3>3, <3>4, Zenon
    <2>2. \A i \in 1 .. m : i \in 1 .. m + n /\ i <= m
      OBVIOUS
    <2>3. \A i \in 1 .. n : m + i \in 1 .. m + n /\ ~(m + i <= m) /\ (m + i) - m = i
      OBVIOUS
    <2>4. QED BY <1>1, <2>1, <2>2, <2>3
  <1>4. c = [i \in 1 .. m + n |-> c[i]]
    BY <1>3
  <1>5. QED BY <1>2, <1>3, <1>4

LEMMA LoadBytes ==
  ASSUME NEW f, IsLoad(f)
  PROVE  /\ Len(Bytes(f)) = Header + WordBytes * Len(f.words)
         /\ Bytes(f)[1] = "load"
         /\ \A i \in 1 .. AddressBytes : Bytes(f)[1 + i] = LowFirst(f.at, AddressBytes)[i]
         /\ \A i \in 1 .. CountBytes :
              Bytes(f)[1 + AddressBytes + i] = LowFirst(Len(f.words), CountBytes)[i]
         /\ \A i \in 1 .. WordBytes * Len(f.words) : Bytes(f)[Header + i] = Joined(f.words)[i]
  <1> DEFINE A == LowFirst(f.at, AddressBytes)
             C == LowFirst(Len(f.words), CountBytes)
             J == Joined(f.words)
             n == WordBytes * Len(f.words)
  <1>1. Len(f.words) \in Nat /\ n \in Nat
    BY Sizes DEF IsLoad
  <1>2. /\ A = [i \in 1 .. AddressBytes |-> A[i]] /\ C = [i \in 1 .. CountBytes |-> C[i]]
        /\ J = [i \in 1 .. n |-> J[i]]
    BY DEF LowFirst, Joined
  <1>3. Bytes(f) = ((<<"load">> \o A) \o C) \o J
    BY DEF Bytes, IsLoad
  <1>4. <<"load">> = [i \in 1 .. 1 |-> <<"load">>[i]] /\ <<"load">>[1] = "load"
    OBVIOUS
  <1> HIDE DEF A, C, J, n
  <1> DEFINE X == <<"load">> \o A
             Y == X \o C
  <1>5. /\ X = [i \in 1 .. 1 + AddressBytes |-> X[i]]
        /\ \A i \in 1 .. 1 : X[i] = <<"load">>[i]
        /\ \A i \in 1 .. AddressBytes : X[1 + i] = A[i]
    BY <1>2, <1>4, LoaderSizes, ConcatIs, SMTT(30)
  <1> HIDE DEF X
  <1>6. /\ Y = [i \in 1 .. (1 + AddressBytes) + CountBytes |-> Y[i]]
        /\ \A i \in 1 .. 1 + AddressBytes : Y[i] = X[i]
        /\ \A i \in 1 .. CountBytes : Y[(1 + AddressBytes) + i] = C[i]
    <2>1. 1 + AddressBytes \in Nat /\ CountBytes \in Nat
      BY LoaderSizes
    <2>2. X = [i \in 1 .. 1 + AddressBytes |-> X[i]] /\ C = [i \in 1 .. CountBytes |-> C[i]]
      BY <1>2, <1>5
    <2>3. QED BY <2>1, <2>2, ConcatIs, SMTT(30)
  <1> HIDE DEF Y
  <1>7. /\ Len(Y \o J) = Header + n
        /\ \A i \in 1 .. Header : (Y \o J)[i] = Y[i]
        /\ \A i \in 1 .. n : (Y \o J)[Header + i] = J[i]
    <2>1. Header \in Nat /\ Y = [i \in 1 .. Header |-> Y[i]]
      BY <1>6, LoaderSizes
    <2>2. n \in Nat /\ J = [i \in 1 .. n |-> J[i]]
      BY <1>1, <1>2
    <2>3. QED BY <2>1, <2>2, ConcatIs, SMTT(30)
  <1>8. Bytes(f) = Y \o J
    BY <1>3 DEF X, Y
  <1>9. Bytes(f)[1] = "load"
    <2>1. 1 \in 1 .. Header /\ 1 \in 1 .. 1 + AddressBytes /\ 1 \in 1 .. 1
      BY LoaderSizes
    <2>2. Bytes(f)[1] = X[1]
      <3>1. ASSUME NEW i \in 1 .. 1 + AddressBytes, i \in 1 .. Header PROVE Bytes(f)[i] = X[i]
        BY ONLY <1>6, <1>7, <1>8, i \in 1 .. 1 + AddressBytes, i \in 1 .. Header
      <3>2. QED BY <2>1, <3>1
    <2>3. X[1] = "load"
      BY <1>5
    <2>4. QED BY <2>2, <2>3
  <1>10. ASSUME NEW i \in 1 .. AddressBytes PROVE Bytes(f)[1 + i] = A[i]
    <2>1. 1 + i \in 1 .. Header /\ 1 + i \in 1 .. 1 + AddressBytes
      BY LoaderSizes
    <2>2. Bytes(f)[1 + i] = Y[1 + i] /\ Y[1 + i] = X[1 + i] /\ X[1 + i] = A[i]
      BY ONLY <1>5, <1>6, <1>7, <1>8, <2>1, i \in 1 .. AddressBytes
    <2>3. QED BY <2>2
  <1>11. ASSUME NEW i \in 1 .. CountBytes PROVE Bytes(f)[1 + AddressBytes + i] = C[i]
    <2>1. (1 + AddressBytes) + i \in 1 .. Header /\ 1 + AddressBytes + i = (1 + AddressBytes) + i
      BY LoaderSizes
    <2>2. /\ Bytes(f)[(1 + AddressBytes) + i] = Y[(1 + AddressBytes) + i]
          /\ Y[(1 + AddressBytes) + i] = C[i]
      BY ONLY <1>6, <1>7, <1>8, <2>1, i \in 1 .. CountBytes
    <2>3. QED BY <2>1, <2>2
  <1>12. QED BY <1>7, <1>8, <1>9, <1>10, <1>11 DEF A, C, J, n

LEMMA RunBytes == \A on \in BOOLEAN : /\ Len(Bytes(RunFrame(on))) = 2
                                      /\ (Bytes(RunFrame(on))[2] = 1) = on
  BY DEF Bytes, RunFrame

-----------------------------------------------------------------------------
(***************************************************************************)
(* The frames a load is made of.                                           *)
(***************************************************************************)
LoadCount(words) == (Len(words) + MaxLoadWords - 1) \div MaxLoadWords
Before(k) == (k - 1) * MaxLoadWords          \* words in the frames before the k-th
Upto(words, k) == IF Before(k) + MaxLoadWords < Len(words) THEN Before(k) + MaxLoadWords ELSE Len(words)

LEMMA Product == \A a \in Nat, b \in Nat, m \in Nat : a <= b => a * m <= b * m
  <1>1. ASSUME NEW a \in Nat, NEW b \in Nat, NEW m \in Nat, a <= b PROVE a * m <= b * m
    <2>1. b * m = a * m + (b - a) * m /\ (b - a) * m >= 0
      BY <1>1
    <2>2. QED BY <2>1
  <1>2. QED BY <1>1

\* How many words there are up to a frame's end: as many as fit, or all.
LEMMA UptoIs ==
  ASSUME NEW words, Len(words) \in Nat
  PROVE  /\ LoadCount(words) \in Nat /\ (Len(words) = 0 <=> LoadCount(words) = 0)
         /\ \A k \in 1 .. LoadCount(words) :
              /\ Before(k) \in 0 .. Len(words) - 1 /\ Before(k + 1) = Before(k) + MaxLoadWords
              /\ Upto(words, k) \in Before(k) + 1 .. Len(words)
              /\ Upto(words, k) = IF k < LoadCount(words) THEN Before(k + 1) ELSE Len(words)
  <1> DEFINE n == Len(words)
             m == MaxLoadWords
             c == LoadCount(words)
  <1>1. m \in Nat /\ m > 0 /\ n \in Nat
    BY LoaderSizes
  <1>2. c = (n + m - 1) \div m
    BY DEF LoadCount
  <1> HIDE DEF m, n, c
  <1>3. c \in Nat /\ c * m <= n + m - 1 /\ n + m - 1 < c * m + m
    BY <1>1, <1>2
  <1>4. n = 0 <=> c = 0
    BY <1>1, <1>2, <1>3
  <1>5. ASSUME NEW k \in 1 .. c
        PROVE  /\ (k - 1) * m \in 0 .. n - 1 /\ ((k + 1) - 1) * m = (k - 1) * m + m
               /\ k < c => (k - 1) * m + m < n
               /\ k = c => (k - 1) * m + m >= n
    <2>1. k \in Nat /\ k - 1 \in Nat /\ (k - 1) * m + m = k * m /\ (c - 1) * m + m = c * m
          /\ (k - 1) * m \in Nat /\ k * m \in Nat /\ c * m \in Nat
      BY <1>1, <1>3
    <2>2. k * m <= c * m
      BY <1>1, <1>3, <2>1, Product
    <2>3. k < c => k * m <= (c - 1) * m /\ (c - 1) * m \in Nat
      BY <1>1, <1>3, <2>1, Product
    <2>4. (k + 1) - 1 = k
      BY <2>1
    <2>5. QED BY <1>1, <1>3, <2>1, <2>2, <2>3, <2>4
  <1>6. ASSUME NEW k \in 1 .. c
        PROVE  /\ Before(k) = (k - 1) * m /\ Before(k + 1) = ((k + 1) - 1) * m
               /\ Upto(words, k) = IF (k - 1) * m + m < n THEN (k - 1) * m + m ELSE n
    BY DEF Before, Upto, m, n
  <1>7. ASSUME NEW k \in 1 .. c
        PROVE  /\ Before(k) \in 0 .. n - 1 /\ Before(k + 1) = Before(k) + m
               /\ Upto(words, k) \in Before(k) + 1 .. n
               /\ Upto(words, k) = IF k < c THEN Before(k + 1) ELSE n
    <2>1. k < c \/ k = c
      BY <1>3
    <2>2. PICK p, b, d, u : p = (k - 1) * m /\ b = Before(k) /\ d = Before(k + 1) /\ u = Upto(words, k)
      OBVIOUS
    <2>3. /\ p \in 0 .. n - 1 /\ b = p /\ d = p + m /\ u = IF p + m < n THEN p + m ELSE n
          /\ k < c => p + m < n
          /\ k = c => p + m >= n
      BY <1>5, <1>6, <2>2
    <2>4. b \in 0 .. n - 1 /\ d = b + m /\ u \in b + 1 .. n /\ u = IF k < c THEN d ELSE n
      BY ONLY <1>1, <2>1, <2>3
    <2>5. QED BY <2>2, <2>4
  <1>8. QED BY <1>3, <1>4, <1>7 DEF m, n, c

LEMMA LoadFramesAre ==
  ASSUME NEW words \in Seq(Word), NEW at \in Nat
  PROVE  /\ LoadFrames(words, at) = [k \in 1 .. LoadCount(words) |-> LoadFrames(words, at)[k]]
         /\ \A k \in 1 .. LoadCount(words) : LET f == LoadFrames(words, at)[k] IN
              /\ f.type = "load" /\ f.at = at + WordBytes * Before(k) /\ f.words \in Seq(Word)
              /\ Len(f.words) = Upto(words, k) - Before(k)
              /\ \A j \in 1 .. Len(f.words) : f.words[j] = words[Before(k) + j]
  <1>1. LoadFrames(words, at) =
          [k \in 1 .. LoadCount(words) |-> [type |-> "load", at |-> at + WordBytes * Before(k),
                                            words |-> SubSeq(words, Before(k) + 1, Upto(words, k))]]
    BY DEF LoadFrames, LoadCount, Before, Upto
  <1>2. ASSUME NEW k \in 1 .. LoadCount(words)
        PROVE  LET s == SubSeq(words, Before(k) + 1, Upto(words, k)) IN
                 /\ s \in Seq(Word) /\ Len(s) = Upto(words, k) - Before(k)
                 /\ \A j \in 1 .. Len(s) : s[j] = words[Before(k) + j]
    <2>1. /\ Before(k) + 1 \in 1 .. Len(words) /\ Upto(words, k) \in Before(k) + 1 .. Len(words)
          /\ Len(words) \in Nat
      BY UptoIs
    <2>2. PICK a, b : a = Before(k) + 1 /\ b = Upto(words, k)
      OBVIOUS
    <2>3. a \in 1 .. Len(words) /\ b \in a .. Len(words)
      BY <2>1, <2>2
    <2>7. Before(k) = a - 1
      <3>1. Before(k) \in Int
        BY <2>1, UptoIs
      <3>2. QED BY <2>2, <3>1
    <2>4. /\ SubSeq(words, a, b) \in Seq(Word) /\ Len(SubSeq(words, a, b)) = b - a + 1
          /\ \A j \in 1 .. b - a + 1 : SubSeq(words, a, b)[j] = words[a + j - 1]
      BY <2>1, <2>3, SubSeqProperties
    <2>5. Len(SubSeq(words, a, b)) = b - Before(k) /\ \A j \in 1 .. b - a + 1 : Before(k) + j = a + j - 1
      BY <2>1, <2>3, <2>4, <2>7
    <2>6. QED BY <2>2, <2>4, <2>5
  <1>3. ASSUME NEW k \in 1 .. LoadCount(words)
        PROVE  LoadFrames(words, at)[k] = [type |-> "load", at |-> at + WordBytes * Before(k),
                                           words |-> SubSeq(words, Before(k) + 1, Upto(words, k))]
    BY <1>1
  <1>4. ASSUME NEW k \in 1 .. LoadCount(words)
        PROVE  LET f == LoadFrames(words, at)[k] IN
                 /\ f.type = "load" /\ f.at = at + WordBytes * Before(k) /\ f.words \in Seq(Word)
                 /\ Len(f.words) = Upto(words, k) - Before(k)
                 /\ \A j \in 1 .. Len(f.words) : f.words[j] = words[Before(k) + j]
    <2>1. PICK f : f = LoadFrames(words, at)[k]
      OBVIOUS
    <2>2. /\ f.type = "load" /\ f.at = at + WordBytes * Before(k)
          /\ f.words = SubSeq(words, Before(k) + 1, Upto(words, k))
      <3>1. PICK x, y : x = at + WordBytes * Before(k) /\ y = SubSeq(words, Before(k) + 1, Upto(words, k))
        OBVIOUS
      <3>2. f = [type |-> "load", at |-> x, words |-> y]
        BY <1>3, <2>1, <3>1, Zenon
      <3>3. f.type = "load" /\ f.at = x /\ f.words = y
        BY <3>2
      <3>4. QED BY <3>1, <3>3, Zenon
    <2>3. /\ f.words \in Seq(Word) /\ Len(f.words) = Upto(words, k) - Before(k)
          /\ \A j \in 1 .. Len(f.words) : f.words[j] = words[Before(k) + j]
      BY <1>2, <2>2
    <2>4. QED BY <2>1, <2>2, <2>3
  <1>5. LoadFrames(words, at) = [k \in 1 .. LoadCount(words) |-> LoadFrames(words, at)[k]]
    BY <1>1
  <1>6. QED BY <1>4, <1>5

FlowLength(words) == LoadCount(words) + 2

LEMMA FlowIs ==
  ASSUME NEW words \in Seq(Word), NEW at \in Nat
  PROVE  /\ LoadFlow(words, at) \in Seq(Range(LoadFlow(words, at)))
         /\ Len(LoadFlow(words, at)) = FlowLength(words) /\ FlowLength(words) \in Nat
         /\ LoadFlow(words, at)[1] = RunFrame(FALSE)
         /\ LoadFlow(words, at)[FlowLength(words)] = RunFrame(TRUE)
         /\ \A k \in 1 .. LoadCount(words) : LoadFlow(words, at)[1 + k] = LoadFrames(words, at)[k]
  <1> DEFINE L == LoadFrames(words, at)
             c == LoadCount(words)
             F == LoadFlow(words, at)
             A == <<RunFrame(FALSE)>>
             B == <<RunFrame(TRUE)>>
  <1>1. c \in Nat /\ L = [k \in 1 .. c |-> L[k]]
    <2>1. Len(words) \in Nat
      OBVIOUS
    <2>2. QED BY <2>1, UptoIs, LoadFramesAre
  <1>2. /\ A = [i \in 1 .. 1 |-> A[i]] /\ A[1] = RunFrame(FALSE)
        /\ B = [i \in 1 .. 1 |-> B[i]] /\ B[1] = RunFrame(TRUE)
    OBVIOUS
  <1>3. F = (A \o L) \o B
    BY DEF LoadFlow
  <1> HIDE DEF L, c, F, A, B
  <1> DEFINE X == A \o L
  <1>4. /\ X = [i \in 1 .. 1 + c |-> X[i]]
        /\ \A i \in 1 .. 1 : X[i] = A[i]
        /\ \A i \in 1 .. c : X[1 + i] = L[i]
    BY <1>1, <1>2, ConcatIs
  <1>5. F = X \o B
    BY <1>3
  <1> HIDE DEF X
  <1>6. /\ F = [i \in 1 .. (1 + c) + 1 |-> F[i]] /\ Len(F) = (1 + c) + 1
        /\ \A i \in 1 .. 1 + c : F[i] = X[i]
        /\ \A i \in 1 .. 1 : F[(1 + c) + i] = B[i]
    <2>1. 1 + c \in Nat
      BY <1>1
    <2>2. QED BY <1>2, <1>4, <1>5, <2>1, ConcatIs
  <1>7. FlowLength(words) = c + 2 /\ c + 2 \in Nat /\ (1 + c) + 1 = c + 2
    BY <1>1 DEF FlowLength, c
  <1>8. F[1] = RunFrame(FALSE)
    <2>1. 1 \in 1 .. 1 + c
      BY <1>1
    <2>2. F[1] = X[1]
      BY <1>6, <2>1
    <2>3. X[1] = A[1]
      BY <1>4
    <2>4. QED BY <1>2, <2>2, <2>3
  <1>9. F[c + 2] = RunFrame(TRUE)
    <2>1. F[(1 + c) + 1] = B[1]
      BY <1>6
    <2>2. QED BY <1>2, <1>7, <2>1
  <1>10. ASSUME NEW k \in 1 .. c PROVE F[1 + k] = L[k]
    <2>1. 1 + k \in 1 .. 1 + c
      BY <1>1
    <2>2. F[1 + k] = X[1 + k] /\ X[1 + k] = L[k]
      BY ONLY <1>4, <1>6, <2>1, k \in 1 .. c
    <2>3. QED BY <2>2
  <1>11. F \in Seq(Range(F))
    <2>1. DOMAIN F = 1 .. c + 2
      BY <1>6, <1>7
    <2>2. F \in [1 .. c + 2 -> Range(F)]
      BY <1>6, <1>7, <2>1 DEF Range
    <2>3. QED BY <1>7, <2>2
  <1>12. QED BY <1>6, <1>7, <1>8, <1>9, <1>10, <1>11 DEF F, L, c
\* Where the host is in its flow: the frames still to come are the flow's last.
Flow == LoadFlow(image, place)
Done == FlowLength(image) - Len(script)

Scripted == /\ image \in Seq(Word) /\ place \in Nat
            /\ \A k \in 1 .. LoadCount(image) : Sendable(LoadFrames(image, place)[k])
            /\ script \in Seq(Range(Flow)) /\ Len(script) <= FlowLength(image)
            /\ \A i \in 1 .. Len(script) : script[i] = Flow[Done + i]

LEMMA FlowFrames ==
  ASSUME Scripted, NEW i \in 1 .. FlowLength(image)
  PROVE  /\ IsFrame(Flow[i])
         /\ Flow[i].type = "load" => /\ i - 1 \in 1 .. LoadCount(image)
                                     /\ Flow[i] = LoadFrames(image, place)[i - 1]
         /\ Flow[i].type # "load" => i = 1 \/ i = FlowLength(image)
  <1>1. image \in Seq(Word) /\ place \in Nat /\ LoadCount(image) \in Nat
    <2>1. Len(image) \in Nat
      BY DEF Scripted
    <2>2. QED BY <2>1, UptoIs DEF Scripted
  <1>2. /\ Flow[1] = RunFrame(FALSE) /\ Flow[FlowLength(image)] = RunFrame(TRUE)
        /\ FlowLength(image) = LoadCount(image) + 2
        /\ \A k \in 1 .. LoadCount(image) : Flow[1 + k] = LoadFrames(image, place)[k]
    BY <1>1, FlowIs DEF Flow, FlowLength
  <1>3. CASE i = 1 \/ i = FlowLength(image)
    BY <1>2, <1>3 DEF IsFrame, RunFrame
  <1>4. CASE ~(i = 1 \/ i = FlowLength(image))
    <2>1. i - 1 \in 1 .. LoadCount(image) /\ 1 + (i - 1) = i
      BY <1>1, <1>2, <1>4
    <2>2. Flow[i] = LoadFrames(image, place)[i - 1]
      BY <1>2, <2>1
    <2>3. /\ LoadFrames(image, place)[i - 1].type = "load"
          /\ LoadFrames(image, place)[i - 1].words \in Seq(Word)
      BY <1>1, <2>1, LoadFramesAre
    <2>4. IsLoad(Flow[i])
      BY <2>1, <2>2, <2>3 DEF Scripted, IsLoad
    <2>5. QED BY <2>1, <2>2, <2>3, <2>4 DEF IsFrame
  <1>5. QED BY <1>3, <1>4

LEMMA InitScripted == SocInit => Scripted /\ Done = 2
  <1> SUFFICES ASSUME SocInit PROVE Scripted /\ Done = 2
    OBVIOUS
  <1>1. image = << >> /\ place = 0 /\ script = << >>
    BY Zenon DEF SocInit
  <1>2. image \in Seq(Word) /\ place \in Nat /\ Len(image) = 0 /\ Len(script) = 0
    BY <1>1
  <1>3. LoadCount(image) = 0
    BY <1>2, UptoIs
  <1>4. FlowLength(image) = 2
    BY <1>3 DEF FlowLength
  <1>5. script \in Seq(Range(Flow))
    BY <1>1
  <1>6. QED BY <1>2, <1>3, <1>4, <1>5 DEF Scripted, Done

\* What a cycle of the host does to the flow.
Begins == /\ ~Strobe /\ Done' = 0 /\ ~lost' /\ script' # << >> /\ frame' = frame /\ index' = index
Continues == /\ ~Strobe /\ script # << >> /\ image' = image /\ place' = place /\ Done' = Done + 1
             /\ \/ frame' = Flow[Done'] /\ index' = 0 /\ lost' = lost
                \/ lost' /\ frame' = frame /\ index' = index
             /\ Done' \in 1 .. FlowLength(image)
Waits == /\ UNCHANGED <<script, image, place, lost, frame>>
         /\ ~Strobe => index' = index

LEMMA FlowSteps ==
  ASSUME Scripted, Host
  PROVE  Scripted' /\ (Begins \/ Continues \/ Waits) /\ (Strobe => Waits)
  <1>1. CASE UNCHANGED <<script, image, place, lost, frame>> /\ (~Strobe => index' = index)
    BY <1>1 DEF Scripted, Done, Flow, Waits
  <1>2. CASE /\ ~Strobe /\ script = << >> /\ image' \in Images /\ place' \in Places /\ lost' = FALSE
             /\ script' = LoadFlow(image', place') /\ UNCHANGED <<rest, frame, index>>
    <2>1. image' \in Seq(Word) /\ place' \in Nat
      BY <1>2, HostAssumption DEF Word
    <2>2. \A f \in Range(LoadFrames(image', place')) : Sendable(f)
      BY <1>2, HostAssumption
    <2>3. PICK im, at, L : im = image' /\ at = place' /\ L = LoadFrames(image', place')
      OBVIOUS
    <2>4. L = [k \in 1 .. LoadCount(im) |-> L[k]]
      BY <2>1, <2>3, LoadFramesAre
    <2>5. \A k \in 1 .. LoadCount(im) : Sendable(L[k])
      BY <2>2, <2>3, <2>4 DEF Range
    <2>6. /\ script' \in Seq(Range(script')) /\ Len(script') = FlowLength(im) /\ FlowLength(im) \in Nat
          /\ FlowLength(im) >= 2
      <3>1. LoadCount(im) \in Nat
        <4>1. Len(im) \in Nat
          BY <2>1, <2>3
        <4>2. QED BY <4>1, UptoIs
      <3>2. im \in Seq(Word) /\ at \in Nat /\ script' = LoadFlow(im, at)
        BY <1>2, <2>1, <2>3
      <3>3. /\ LoadFlow(im, at) \in Seq(Range(LoadFlow(im, at)))
            /\ Len(LoadFlow(im, at)) = FlowLength(im) /\ FlowLength(im) \in Nat
        BY <3>2, FlowIs
      <3>4. FlowLength(im) >= 2
        BY <3>1 DEF FlowLength
      <3>5. QED BY <3>2, <3>3, <3>4
    <2>7. Done' = 0 /\ Flow' = script'
      BY <1>2, <2>3, <2>6 DEF Done, Flow
    <2>8. Scripted'
      <3>1. \A i \in 1 .. Len(script') : 0 + i = i
        BY <2>6
      <3>2. QED BY <2>1, <2>3, <2>5, <2>6, <2>7, <3>1 DEF Scripted
    <2>9. script' # << >>
      BY <2>6
    <2>10. QED BY <1>2, <2>7, <2>8, <2>9 DEF Begins
  <1>3. CASE /\ ~Strobe /\ script # << >> /\ script' = Tail(script) /\ UNCHANGED <<image, place>>
             /\ \/ frame' = Head(script) /\ index' = 0 /\ UNCHANGED lost
                \/ lost' = TRUE /\ UNCHANGED <<frame, index>>
    <2>1. PICK n, R : n = FlowLength(image) /\ R = Range(Flow)
      OBVIOUS
    <2>2. n \in Nat /\ script \in Seq(R) /\ Len(script) \in 1 .. n /\ Done = n - Len(script)
      <3>1. FlowLength(image) \in Nat
        BY FlowIs DEF Scripted
      <3>2. script \in Seq(R) /\ script # << >> /\ Len(script) <= n
        BY <1>3, <2>1 DEF Scripted
      <3>3. QED BY <2>1, <3>1, <3>2 DEF Done
    <2>3. /\ script' \in Seq(R) /\ Len(script') = Len(script) - 1
          /\ \A i \in 1 .. Len(script') : script'[i] = script[i + 1]
          /\ Head(script) = script[1]
      BY <1>3, <2>2
    <2>4. Done' = Done + 1 /\ Done' \in 1 .. n
      BY <1>3, <2>1, <2>2, <2>3 DEF Done
    <2>5. Head(script) = Flow[Done + 1]
      BY <2>2, <2>3 DEF Scripted
    <2>6. \A i \in 1 .. Len(script') : script'[i] = Flow[Done' + i]
      <3>1. ASSUME NEW i \in 1 .. Len(script') PROVE script'[i] = Flow[Done' + i]
        <4>1. i + 1 \in 1 .. Len(script) /\ Done + (i + 1) = Done' + i
          BY <2>2, <2>3, <2>4
        <4>2. script[i + 1] = Flow[Done + (i + 1)]
          BY <4>1 DEF Scripted
        <4>3. QED BY <2>3, <4>1, <4>2
      <3>2. QED BY <3>1
    <2>7. Flow' = Flow
      BY <1>3 DEF Flow
    <2>8. Scripted'
      BY <1>3, <2>1, <2>2, <2>3, <2>6, <2>7 DEF Scripted
    <2>9. QED BY <1>3, <2>1, <2>4, <2>5, <2>8 DEF Continues
  <1>4. QED BY <1>1, <1>2, <1>3 DEF Host


-----------------------------------------------------------------------------
\* The bytes of the frame the loader has had, and the words they complete.
Taken == IF Strobe THEN index ELSE Len(Bytes(frame))
WordsIn(n) == IF n > Header THEN (n - Header) \div WordBytes ELSE 0
AtMost(n, most) == IF n < 0 THEN 0 ELSE IF n > most THEN most ELSE n

Base(f) == f.at \div WordBytes
InRange(f) == Base(f) + Len(f.words) <= MemWords

\* What the registers hold of a load frame of which n bytes have come.
Holds(f, n) ==
  /\ packet = "load"
  /\ Filling(address, AddressBytes, LowFirst(f.at, AddressBytes), AtMost(n - 1, AddressBytes))
  /\ Filling(count, CountBytes, LowFirst(Len(f.words), CountBytes), AtMost(n - 1 - AddressBytes, CountBytes))
  /\ n >= Header => base = Base(f)
  /\ n >= Header => Filling(word, WordBytes, f.words[WordsIn(n) + 1], (n - Header) % WordBytes)
  /\ n < Header => Filling(word, WordBytes, << >>, 0)
  /\ written = IF InRange(f) THEN WordsIn(n) ELSE 0
  /\ loaded = IF InRange(f) THEN [i \in 1 .. WordsIn(n) |-> <<Base(f) + i - 1, f.words[i]>>] ELSE << >>

\* The loader has what has come, and its strobe is about the last whole word.
Following == /\ IsFrame(frame) /\ index \in -1 .. Len(Bytes(frame)) - 1
             /\ Strobe /\ index > 0 => packet = frame.type
             /\ frame.type = "load" /\ Taken > 0 => Holds(frame, Taken)
             /\ stb => /\ frame.type = "load" /\ InRange(frame) /\ WordsIn(Taken) > 0
                       /\ addr = Base(frame) + WordsIn(Taken) - 1 /\ data = frame.words[WordsIn(Taken)]

LEMMA FrameLength ==
  ASSUME NEW f, IsFrame(f)
  PROVE  /\ Len(Bytes(f)) \in Nat /\ Len(Bytes(f)) >= 2
         /\ f.type = "load" => /\ IsLoad(f) /\ Len(f.words) \in Nat
                               /\ Len(Bytes(f)) = Header + WordBytes * Len(f.words)
         /\ f.type # "load" => f.type = "run" /\ Len(Bytes(f)) = 2
  <1>1. CASE IsLoad(f)
    <2>1. Len(f.words) \in Nat /\ Len(Bytes(f)) = Header + WordBytes * Len(f.words)
      BY <1>1, LoadBytes DEF IsLoad
    <2>2. WordBytes * Len(f.words) \in Nat
      BY <2>1, Sizes
    <2>3. QED BY <1>1, <2>1, <2>2, Sizes DEF IsLoad
  <1>2. CASE f = RunFrame(FALSE) \/ f = RunFrame(TRUE)
    <2>1. PICK on \in BOOLEAN : f = RunFrame(on)
      BY <1>2
    <2>2. Len(Bytes(f)) = 2
      BY <2>1, RunBytes
    <2>3. f.type = "run"
      BY <2>1 DEF RunFrame
    <2>4. QED BY <2>2, <2>3
  <1>3. QED BY <1>1, <1>2 DEF IsFrame

LEMMA FrameSteps ==
  ASSUME Scripted, Following, Host
  PROVE  /\ IsFrame(frame') /\ index' \in -1 .. Len(Bytes(frame')) - 1
         /\ Strobe => /\ frame' = frame /\ Taken' = Taken + 1 /\ Taken = index
                      /\ index' = index + 1 \/ index' = -1
         /\ ~Strobe => \/ frame' = frame /\ index' = -1 /\ Taken' = Taken
                       \/ index' = 0 /\ Taken' = 0
  <1>1. IsFrame(frame) /\ index \in -1 .. Len(Bytes(frame)) - 1 /\ Len(Bytes(frame)) \in Nat
    BY FrameLength DEF Following
  <1>2. CASE Strobe
    <2>1. index >= 0 /\ index' = (IF LastByte THEN -1 ELSE index + 1) /\ frame' = frame
      BY <1>2 DEF Host, Strobe
    <2>2. CASE LastByte
      BY <1>1, <1>2, <2>1, <2>2 DEF LastByte, Taken, Strobe
    <2>3. CASE ~LastByte
      BY <1>1, <1>2, <2>1, <2>3 DEF LastByte, Taken, Strobe
    <2>4. QED BY <2>2, <2>3
  <1>3. CASE ~Strobe
    <2>1. index = -1
      BY <1>1, <1>3 DEF Strobe
    <2>2. CASE frame' = frame /\ index' = index
      BY <1>1, <1>3, <2>1, <2>2 DEF Taken, Strobe
    <2>3. CASE Continues /\ frame' = Flow[Done'] /\ index' = 0
      <3>1. IsFrame(frame')
        BY <2>3, FlowFrames DEF Continues
      <3>2. Len(Bytes(frame')) \in Nat /\ Len(Bytes(frame')) >= 2
        BY <3>1, FrameLength
      <3>3. Taken' = 0
        BY <2>3 DEF Taken, Strobe
      <3>4. QED BY <1>3, <2>3, <3>1, <3>2, <3>3
    <2>4. QED BY <1>3, <2>2, <2>3, FlowSteps DEF Begins, Continues, Waits
  <1>4. QED BY <1>2, <1>3

LEMMA DivNext ==
  ASSUME NEW d \in Nat, NEW w \in Nat, w > 1
  PROVE  /\ d \div w \in Nat /\ d % w \in 0 .. w - 1 /\ d = (w * (d \div w)) + (d % w)
         /\ d % w = w - 1 => (d + 1) \div w = d \div w + 1 /\ (d + 1) % w = 0
         /\ d % w # w - 1 => (d + 1) \div w = d \div w /\ (d + 1) % w = (d % w) + 1
  <1>1. PICK q, r : q = d \div w /\ r = d % w
    OBVIOUS
  <1>2. q \in Nat /\ r \in 0 .. w - 1 /\ d = w * q + r
    BY <1>1
  <1>3. r = w - 1 => (d + 1) \div w = q + 1 /\ (d + 1) % w = 0
    <2>1. SUFFICES ASSUME r = w - 1 PROVE (d + 1) \div w = q + 1 /\ (d + 1) % w = 0
      OBVIOUS
    <2>2. d + 1 = w * (q + 1)
      BY <1>2, <2>1
    <2>3. QED BY <1>2, <2>2
  <1>4. r # w - 1 => (d + 1) \div w = q /\ (d + 1) % w = r + 1
    <2>1. SUFFICES ASSUME r # w - 1 PROVE (d + 1) \div w = q /\ (d + 1) % w = r + 1
      OBVIOUS
    <2>2. d + 1 = w * q + (r + 1) /\ r + 1 \in 0 .. w - 1
      BY <1>2, <2>1
    <2>3. QED BY <1>2, <2>2
  <1>5. d \div w \in Nat /\ d % w \in 0 .. w - 1
    BY ONLY <1>1, <1>2
  <1>6. d = (w * (d \div w)) + (d % w)
    BY ONLY <1>1, <1>2
  <1>7. d % w = w - 1 => (d + 1) \div w = d \div w + 1 /\ (d + 1) % w = 0
    BY ONLY <1>1, <1>3, Zenon
  <1>8. d % w # w - 1 => (d + 1) \div w = d \div w /\ (d + 1) % w = (d % w) + 1
    BY ONLY <1>1, <1>4, Zenon
  <1>9. QED BY ONLY <1>5, <1>6, <1>7, <1>8, Zenon

\* Where in its frame a byte is, and what it is there.
LEMMA ByteIs ==
  ASSUME IsLoad(frame), Strobe, index \in 0 .. Len(Bytes(frame)) - 1
  PROVE  /\ index = 0 => Byte = "load"
         /\ index \in 1 .. AddressBytes => Byte = LowFirst(frame.at, AddressBytes)[index]
         /\ index \in AddressBytes + 1 .. Header - 1 =>
              Byte = LowFirst(Len(frame.words), CountBytes)[index - AddressBytes]
         /\ index >= Header =>
              LET d == index - Header IN
              /\ d \in Nat /\ (d \div WordBytes) + 1 \in 1 .. Len(frame.words)
              /\ Byte = frame.words[(d \div WordBytes) + 1][(d % WordBytes) + 1]
  <1>1. PICK f, t : f = frame /\ t = index
    OBVIOUS
  <1>2. /\ IsLoad(f) /\ t \in 0 .. Len(Bytes(f)) - 1 /\ Byte = Bytes(f)[t + 1]
        /\ Len(f.words) \in Nat /\ Len(Bytes(f)) = Header + WordBytes * Len(f.words)
    BY <1>1, LoadBytes DEF Byte, IsLoad
  <1>3. t = 0 => Byte = "load"
    BY <1>2, LoadBytes
  <1>4. ASSUME t \in 1 .. AddressBytes PROVE Byte = LowFirst(f.at, AddressBytes)[t]
    <2>1. 1 + t = t + 1
      BY <1>2
    <2>2. Bytes(f)[1 + t] = LowFirst(f.at, AddressBytes)[t]
      BY <1>2, <1>4, LoadBytes
    <2>3. QED BY <1>2, <2>1, <2>2
  <1>5. ASSUME t \in AddressBytes + 1 .. Header - 1
        PROVE  Byte = LowFirst(Len(f.words), CountBytes)[t - AddressBytes]
    <2>1. t - AddressBytes \in 1 .. CountBytes /\ 1 + AddressBytes + (t - AddressBytes) = t + 1
      BY <1>5, LoaderSizes
    <2>2. \A i \in 1 .. CountBytes : Bytes(f)[1 + AddressBytes + i] = LowFirst(Len(f.words), CountBytes)[i]
      BY <1>2, LoadBytes
    <2>3. Bytes(f)[1 + AddressBytes + (t - AddressBytes)] = LowFirst(Len(f.words), CountBytes)[t - AddressBytes]
      BY <2>1, <2>2
    <2>4. QED BY <1>2, <2>1, <2>3
  <1>6. ASSUME t >= Header
        PROVE  LET d == t - Header IN
               /\ d \in Nat /\ (d \div WordBytes) + 1 \in 1 .. Len(f.words)
               /\ Byte = f.words[(d \div WordBytes) + 1][(d % WordBytes) + 1]
    <2>7. PICK d, n, l : d = t - Header /\ l = Len(f.words) /\ n = WordBytes * l
      OBVIOUS
    <2>1. /\ d = t - Header /\ l = Len(f.words) /\ n = WordBytes * l
          /\ d \in Nat /\ n \in Nat /\ l \in Nat
      BY <1>2, <1>6, <2>7, Sizes
    <2>2. d < n /\ Header + (d + 1) = t + 1 /\ d + 1 \in 1 .. n /\ d + 1 - 1 = d
      BY <1>2, <2>1, Sizes
    <2>3. Byte = Joined(f.words)[d + 1]
      <3>1. \A i \in 1 .. WordBytes * Len(f.words) : Bytes(f)[Header + i] = Joined(f.words)[i]
        BY <1>2, LoadBytes
      <3>2. Bytes(f)[Header + (d + 1)] = Joined(f.words)[d + 1]
        BY <2>1, <2>2, <3>1
      <3>3. QED BY <1>2, <2>2, <3>2
    <2>4. Joined(f.words)[d + 1] = f.words[(d \div WordBytes) + 1][(d % WordBytes) + 1]
      BY <2>1, <2>2 DEF Joined
    <2>5. d \div WordBytes < l /\ d \div WordBytes \in Nat
      <3>1. PICK q \in Nat : q = d \div WordBytes
        BY <2>1, Sizes
      <3>2. q * WordBytes <= d
        <4>1. d = (WordBytes * q) + (d % WordBytes) /\ d % WordBytes \in 0 .. WordBytes - 1
          BY <2>1, <3>1, Sizes, DivNext
        <4>2. q * WordBytes = WordBytes * q /\ q * WordBytes \in Nat
          BY <3>1, Sizes
        <4>3. PICK x, y : x = WordBytes * q /\ y = d % WordBytes
          OBVIOUS
        <4>4. d = x + y /\ y >= 0 /\ x \in Nat /\ y \in Nat
          BY <4>1, <4>2, <4>3, Sizes
        <4>5. QED BY <4>2, <4>3, <4>4
      <3>3. ~(l <= q)
        <4>1. l <= q => l * WordBytes <= q * WordBytes
          BY <2>1, Product, Sizes
        <4>2. l * WordBytes = n
          BY <2>1, Sizes
        <4>3. PICK p : p = q * WordBytes
          OBVIOUS
        <4>4. p <= d /\ (l <= q => n <= p) /\ p \in Int
          BY <3>1, <3>2, <4>1, <4>2, <4>3, Sizes
        <4>5. QED BY ONLY <2>1, <2>2, <4>4
      <3>4. QED BY <2>1, <3>1, <3>3
    <2>6. QED BY <2>1, <2>3, <2>4, <2>5
  <1>7. QED BY <1>1, <1>3, <1>4, <1>5, <1>6

LEMMA WordsInIs ==
  ASSUME NEW n \in Nat
  PROVE  /\ n <= Header => WordsIn(n) = 0
         /\ n >= Header => /\ n - Header \in Nat /\ WordsIn(n) = (n - Header) \div WordBytes
                           /\ WordsIn(n) \in Nat
                           /\ (n - Header) % WordBytes \in 0 .. WordBytes - 1
  <1>1. n >= Header => n - Header \in Nat
    BY Sizes
  <1>2. n >= Header => (n - Header) \div WordBytes \in Nat /\ (n - Header) % WordBytes \in 0 .. WordBytes - 1
    BY <1>1, DivNext, Sizes
  <1>3. n = Header => (n - Header) \div WordBytes = 0
    BY Sizes
  <1>4. QED BY <1>1, <1>2, <1>3, Sizes DEF WordsIn

LEMMA FillNone ==
  ASSUME NEW size \in Nat, NEW r, r = [i \in 1 .. size |-> r[i]], NEW d
  PROVE  Filling(r, size, d, 0)
  BY DEF Filling

LEMMA ZerosFill ==
  ASSUME NEW size \in Nat, NEW d
  PROVE  Filling(Zeros(size), size, d, 0)
  <1>1. Zeros(size) = [i \in 1 .. size |-> Zeros(size)[i]]
    BY DEF Zeros
  <1>2. QED BY <1>1, FillNone

LEMMA NumbersAre ==
  ASSUME NEW f, IsLoad(f)
  PROVE  /\ LowFirst(f.at, AddressBytes) = [i \in 1 .. AddressBytes |-> LowFirst(f.at, AddressBytes)[i]]
         /\ LowFirst(Len(f.words), CountBytes) = [i \in 1 .. CountBytes |-> LowFirst(Len(f.words), CountBytes)[i]]
         /\ Value(LowFirst(f.at, AddressBytes)) = f.at /\ f.at \in Nat
         /\ Value(LowFirst(Len(f.words), CountBytes)) = Len(f.words) /\ Len(f.words) \in Nat
         /\ Base(f) \in Nat
  <1>1. /\ Value(LowFirst(f.at, AddressBytes)) = f.at /\ f.at \in Nat
        /\ Value(LowFirst(Len(f.words), CountBytes)) = Len(f.words) /\ Len(f.words) \in Nat
    BY DEF IsLoad, Sendable, Fits
  <1>2. Base(f) \in Nat
    BY <1>1, Sizes DEF Base
  <1>3. QED BY <1>1, <1>2 DEF LowFirst

\* The type byte: nothing of the frame before is left.
LEMMA TypeHolds ==
  ASSUME NEW f, IsLoad(f), f = frame, index = 0, Strobe, index <= Len(Bytes(f)) - 1, Len(Bytes(f)) \in Nat, TypeByte
  PROVE  Holds(f, 1)'
  <1>1. /\ packet' = "load" /\ written' = 0 /\ loaded' = << >>
        /\ word' = Zeros(WordBytes) /\ address' = Zeros(AddressBytes) /\ count' = Zeros(CountBytes)
    BY ByteIs DEF TypeByte
  <1>2. WordsIn(1) = 0 /\ 1 < Header /\ AtMost(1 - 1, AddressBytes) = 0
        /\ AtMost(1 - 1 - AddressBytes, CountBytes) = 0
    BY Sizes, LoaderSizes, WordsInIs DEF AtMost
  <1>3. [i \in 1 .. 0 |-> <<Base(f) + i - 1, f.words[i]>>] = << >>
    OBVIOUS
  <1>4. /\ Filling(address', AddressBytes, LowFirst(f.at, AddressBytes), 0)
        /\ Filling(count', CountBytes, LowFirst(Len(f.words), CountBytes), 0)
        /\ Filling(word', WordBytes, << >>, 0)
    BY <1>1, ZerosFill, LoaderSizes, Sizes
  <1>5. ~(1 >= Header)
    BY <1>2, Sizes
  <1>6. QED BY <1>1, <1>2, <1>3, <1>4, <1>5 DEF Holds

\* A byte of the header goes to the address, then to the count.
LEMMA HeaderHolds ==
  ASSUME NEW f, IsLoad(f), f = frame, NEW t \in Nat, t = index, t > 0, Strobe,
         t <= Len(Bytes(f)) - 1, Len(Bytes(f)) \in Nat, HeaderByte, Holds(f, t)
  PROVE  Holds(f, t + 1)'
  <1>1. t \in 1 .. Header - 1 /\ t \in 1 .. AddressBytes + CountBytes
    BY LoaderSizes DEF HeaderByte
  <1>2. /\ packet' = "load" /\ word' = word /\ written' = written /\ loaded' = loaded
        /\ base' = IF t = Header - 1 THEN Value(address) \div WordBytes ELSE base
    BY DEF HeaderByte, NoWrite
  <1>3. Filling(address', AddressBytes, LowFirst(f.at, AddressBytes), AtMost(t, AddressBytes))
    <2>1. CASE t <= AddressBytes
      <3>1. AtMost(t - 1, AddressBytes) = t - 1 /\ AtMost(t, AddressBytes) = t /\ t - 1 \in Nat
            /\ t - 1 < AddressBytes /\ (t - 1) + 1 = t
        BY <1>1, <2>1, LoaderSizes DEF AtMost
      <3>2. address' = Append(Tail(address), LowFirst(f.at, AddressBytes)[t])
        <4>1. address' = Append(Tail(address), Byte)
          BY <2>1 DEF HeaderByte, Shifted
        <4>2. Byte = LowFirst(f.at, AddressBytes)[t]
          BY <1>1, <2>1, ByteIs
        <4>3. QED BY <4>1, <4>2
      <3>3. Filling(address, AddressBytes, LowFirst(f.at, AddressBytes), t - 1)
        BY <3>1 DEF Holds
      <3>4. Filling(Append(Tail(address), LowFirst(f.at, AddressBytes)[(t - 1) + 1]), AddressBytes,
                    LowFirst(f.at, AddressBytes), (t - 1) + 1)
        BY <3>1, <3>3, FillOne, LoaderSizes
      <3>5. QED BY <3>1, <3>2, <3>4
    <2>2. CASE t > AddressBytes
      <3>1. AtMost(t - 1, AddressBytes) = AddressBytes /\ AtMost(t, AddressBytes) = AddressBytes
        BY <1>1, <2>2, LoaderSizes DEF AtMost
      <3>2. address' = address
        BY <1>1, <2>2, LoaderSizes DEF HeaderByte
      <3>3. QED BY <3>1, <3>2 DEF Holds
    <2>3. QED BY <1>1, <2>1, <2>2, LoaderSizes
  <1>4. Filling(count', CountBytes, LowFirst(Len(f.words), CountBytes), AtMost(t - AddressBytes, CountBytes))
    <2>1. CASE t <= AddressBytes
      <3>1. AtMost(t - 1 - AddressBytes, CountBytes) = 0 /\ AtMost(t - AddressBytes, CountBytes) = 0
        BY <1>1, <2>1, LoaderSizes DEF AtMost
      <3>2. count' = count
        BY <2>1 DEF HeaderByte
      <3>3. QED BY <3>1, <3>2 DEF Holds
    <2>2. CASE t > AddressBytes
      <3>1. PICK k : k = t - 1 - AddressBytes
        OBVIOUS
      <3>2. /\ AtMost(t - 1 - AddressBytes, CountBytes) = k /\ AtMost(t - AddressBytes, CountBytes) = k + 1
            /\ k \in Nat /\ k < CountBytes /\ k + 1 = t - AddressBytes
        BY <1>1, <2>2, <3>1, LoaderSizes DEF AtMost
      <3>3. count' = Append(Tail(count), LowFirst(Len(f.words), CountBytes)[k + 1])
        <4>1. count' = Append(Tail(count), Byte)
          BY <1>1, <2>2, LoaderSizes DEF HeaderByte, Shifted
        <4>2. t \in AddressBytes + 1 .. Header - 1
          BY <1>1, <2>2, LoaderSizes
        <4>3. Byte = LowFirst(Len(f.words), CountBytes)[t - AddressBytes]
          BY <1>1, <4>2, ByteIs
        <4>4. QED BY <3>2, <4>1, <4>3
      <3>4. Filling(count, CountBytes, LowFirst(Len(f.words), CountBytes), k)
        BY <3>2 DEF Holds
      <3>5. Filling(Append(Tail(count), LowFirst(Len(f.words), CountBytes)[k + 1]), CountBytes,
                    LowFirst(Len(f.words), CountBytes), k + 1)
        BY <3>2, <3>4, FillOne, LoaderSizes
      <3>6. QED BY <3>2, <3>3, <3>5
    <2>3. QED BY <1>1, <2>1, <2>2, LoaderSizes
  <1>5. t + 1 >= Header => base' = Base(f)
    <2>1. SUFFICES ASSUME t + 1 >= Header PROVE base' = Base(f)
      OBVIOUS
    <2>2. t = Header - 1 /\ AtMost(t - 1, AddressBytes) = AddressBytes
      BY <1>1, <2>1, LoaderSizes DEF AtMost
    <2>3. address = LowFirst(f.at, AddressBytes)
      BY <2>2, FillAll, NumbersAre, LoaderSizes DEF Holds
    <2>4. QED BY <1>2, <2>2, <2>3, NumbersAre DEF Base
  <1>6. WordsIn(t) = 0 /\ WordsIn(t + 1) = 0 /\ t < Header
    BY <1>1, WordsInIs, Sizes
  <1>7. /\ t + 1 < Header => Filling(word', WordBytes, << >>, 0)
        /\ t + 1 >= Header => Filling(word', WordBytes, f.words[WordsIn(t + 1) + 1], ((t + 1) - Header) % WordBytes)
    <2>1. Filling(word', WordBytes, << >>, 0)
      BY <1>2, <1>6 DEF Holds
    <2>2. Filling(word', WordBytes, f.words[WordsIn(t + 1) + 1], 0)
      BY <2>1, FillNone, Sizes DEF Filling
    <2>3. t + 1 >= Header => ((t + 1) - Header) % WordBytes = 0
      <3>1. t + 1 >= Header => (t + 1) - Header = 0
        BY <1>1, Sizes
      <3>2. 0 % WordBytes = 0
        BY Sizes
      <3>3. QED BY <3>1, <3>2
    <2>4. QED BY <2>1, <2>2, <2>3
  <1>8. (t + 1) - 1 = t /\ ((t + 1) - 1) - AddressBytes = t - AddressBytes
    BY LoaderSizes
  <1>9. QED BY <1>2, <1>3, <1>4, <1>5, <1>6, <1>7, <1>8 DEF Holds

\* A byte of a word: the last writes it, and alone does.
LEMMA DataHolds ==
  ASSUME NEW f, IsLoad(f), f = frame, NEW t \in Nat, t = index, t > 0, Strobe,
         t <= Len(Bytes(f)) - 1, Len(Bytes(f)) \in Nat, DataByte, Holds(f, t)
  PROVE  /\ Holds(f, t + 1)'
         /\ stb' => /\ InRange(f) /\ WordsIn(t + 1) > 0 /\ addr' = Base(f) + WordsIn(t + 1) - 1
                    /\ data' = f.words[WordsIn(t + 1)]
         /\ ~stb' /\ InRange(f) => WordsIn(t + 1) = WordsIn(t)
         /\ stb' => WordsIn(t + 1) = WordsIn(t) + 1
  <1>1. /\ t >= Header /\ packet' = "load" /\ address' = address /\ count' = count /\ base' = base
        /\ word' = Append(Tail(word), Byte)
    BY DEF DataByte, Shifted
  <1>2. PICK d, q, r : d = t - Header /\ q = d \div WordBytes /\ r = d % WordBytes
    OBVIOUS
  <1>3. d \in Nat /\ q \in Nat /\ r \in 0 .. WordBytes - 1 /\ (t + 1) - Header = d + 1
    <2>1. d \in Nat /\ (t + 1) - Header = d + 1
      BY <1>1, <1>2, Sizes
    <2>2. WordBytes \in Nat /\ WordBytes > 1
      BY Sizes
    <2>3. d \div WordBytes \in Nat /\ d % WordBytes \in 0 .. WordBytes - 1
      BY <2>1, <2>2, DivNext
    <2>4. QED BY <1>2, <2>1, <2>3
  <1>4. /\ r = WordBytes - 1 => (d + 1) \div WordBytes = q + 1 /\ (d + 1) % WordBytes = 0
        /\ r # WordBytes - 1 => (d + 1) \div WordBytes = q /\ (d + 1) % WordBytes = r + 1
    <2>1. WordBytes \in Nat /\ WordBytes > 1 /\ d \in Nat
      BY <1>3, Sizes
    <2>2. /\ d % WordBytes = WordBytes - 1 =>
               (d + 1) \div WordBytes = d \div WordBytes + 1 /\ (d + 1) % WordBytes = 0
          /\ d % WordBytes # WordBytes - 1 =>
               (d + 1) \div WordBytes = d \div WordBytes /\ (d + 1) % WordBytes = (d % WordBytes) + 1
      BY <2>1, DivNext
    <2>3. QED BY ONLY <1>2, <2>2, Zenon
  <1>5. /\ WordsIn(t) = q /\ WordsIn(t + 1) = (d + 1) \div WordBytes
        /\ t + 1 >= Header /\ ~(t + 1 < Header)
    BY <1>1, <1>2, <1>3, WordsInIs, Sizes
  <1>6. q + 1 \in 1 .. Len(f.words) /\ Byte = f.words[q + 1][r + 1] /\ Len(f.words) \in Nat
    BY <1>1, <1>2, ByteIs, NumbersAre
  <1>7. Filling(word, WordBytes, f.words[q + 1], r)
    BY <1>1, <1>2, <1>5 DEF Holds
  <1>8. Filling(word', WordBytes, f.words[q + 1], r + 1)
    BY <1>1, <1>3, <1>6, <1>7, FillOne, Sizes
  <1>9. WordDone <=> r = WordBytes - 1
    BY <1>2 DEF WordDone
  <1>10. base = Base(f) /\ Base(f) \in Nat
    BY <1>1, NumbersAre DEF Holds
  <1>11. OutOfRange <=> ~InRange(f)
    <2>1. AtMost(t - 1 - AddressBytes, CountBytes) = CountBytes
      BY <1>1, LoaderSizes DEF AtMost
    <2>2. count = LowFirst(Len(f.words), CountBytes)
      BY <2>1, FillAll, NumbersAre, LoaderSizes DEF Holds
    <2>3. Value(count) = Len(f.words)
      BY <2>2, NumbersAre
    <2>4. QED BY <1>6, <1>10, <2>3, Sizes DEF OutOfRange, InRange
  <1>12. /\ AtMost((t + 1) - 1, AddressBytes) = AtMost(t - 1, AddressBytes)
         /\ AtMost(((t + 1) - 1) - AddressBytes, CountBytes) = AtMost(t - 1 - AddressBytes, CountBytes)
    BY <1>1, LoaderSizes DEF AtMost
  <1>13. /\ written = IF InRange(f) THEN q ELSE 0
         /\ loaded = IF InRange(f) THEN [i \in 1 .. q |-> <<Base(f) + i - 1, f.words[i]>>] ELSE << >>
    BY <1>5 DEF Holds
  <1>14. CASE r # WordBytes - 1
    <2>1. stb' = FALSE /\ written' = written /\ loaded' = loaded
      BY <1>9, <1>14 DEF DataByte, NoWrite
    <2>2. WordsIn(t + 1) = q /\ ((t + 1) - Header) % WordBytes = r + 1
      BY <1>3, <1>4, <1>5, <1>14
    <2>3. QED BY <1>1, <1>5, <1>8, <1>10, <1>12, <1>13, <2>1, <2>2 DEF Holds
  <1>15. CASE r = WordBytes - 1
    <2>1. WordsIn(t + 1) = q + 1 /\ ((t + 1) - Header) % WordBytes = 0
      BY <1>3, <1>4, <1>5, <1>15
    <2>2. Filling(word', WordBytes, f.words[WordsIn(t + 1) + 1], 0)
      BY <1>8, FillNone, Sizes DEF Filling
    <2>3. CASE ~InRange(f)
      <3>1. stb' = FALSE /\ written' = written /\ loaded' = loaded
        BY <1>11, <2>3 DEF DataByte, NoWrite
      <3>2. QED BY <1>1, <1>5, <1>10, <1>12, <1>13, <2>1, <2>2, <2>3, <3>1 DEF Holds
    <2>4. CASE InRange(f)
      <3>1. /\ stb' = TRUE /\ addr' = (base + written) % MemWords /\ data' = Append(Tail(word), Byte)
            /\ written' = written + 1 /\ loaded' = Append(loaded, <<base + written, Append(Tail(word), Byte)>>)
        BY <1>9, <1>11, <1>15, <2>4 DEF DataByte, Shifted
      <3>2. Append(Tail(word), Byte) = f.words[q + 1]
        <4>1. f.words[q + 1] = [i \in 1 .. WordBytes |-> f.words[q + 1][i]]
          <5>1. f.words[q + 1] \in Word
            BY <1>6, ElementOfSeq DEF IsLoad
          <5>2. QED BY <5>1 DEF Word
        <4>2. r + 1 = WordBytes
          BY <1>3, <1>15, Sizes
        <4>3. QED BY <1>1, <1>8, <4>1, <4>2, FillAll, Sizes
      <3>3. addr' = Base(f) + q
        <4>1. written = q /\ Base(f) + q \in 0 .. MemWords - 1
          <5>1. PICK b, l : b = Base(f) /\ l = Len(f.words)
            OBVIOUS
          <5>2. written = q /\ b \in Nat /\ l \in Nat /\ q + 1 <= l /\ b + l <= MemWords
            BY <1>3, <1>6, <1>10, <1>13, <2>4, <5>1 DEF InRange
          <5>3. b + q \in 0 .. MemWords - 1
            BY <1>3, <5>2, Sizes
          <5>4. QED BY <5>1, <5>2, <5>3
        <4>2. \A a \in 0 .. MemWords - 1 : a % MemWords = a
          BY Sizes
        <4>3. QED BY <1>10, <3>1, <4>1, <4>2
      <3>4. loaded' = [i \in 1 .. q + 1 |-> <<Base(f) + i - 1, f.words[i]>>]
        <4>1. loaded' = Append([i \in 1 .. q |-> <<Base(f) + i - 1, f.words[i]>>], <<Base(f) + q, f.words[q + 1]>>)
          BY <1>10, <1>13, <2>4, <3>1, <3>2
        <4>2. PICK T : T = [i \in 1 .. q + 1 |-> <<Base(f) + i - 1, f.words[i]>>]
          OBVIOUS
        <4>3. PICK S : S = {T[i] : i \in 1 .. q + 1}
          OBVIOUS
        <4>4. /\ \A i \in 1 .. q : T[i] = <<Base(f) + i - 1, f.words[i]>>
              /\ T[q + 1] = <<Base(f) + (q + 1) - 1, f.words[q + 1]>> /\ Base(f) + (q + 1) - 1 = Base(f) + q
              /\ \A i \in 1 .. q + 1 : T[i] \in S
          <5>1. q + 1 \in 1 .. q + 1 /\ \A i \in 1 .. q : i \in 1 .. q + 1
            BY <1>3
          <5>2. Base(f) + (q + 1) - 1 = Base(f) + q
            BY <1>3, <1>10
          <5>3. \A i \in 1 .. q + 1 : T[i] \in S
            BY <4>3
          <5>4. /\ \A i \in 1 .. q : T[i] = <<Base(f) + i - 1, f.words[i]>>
                /\ T[q + 1] = <<Base(f) + (q + 1) - 1, f.words[q + 1]>>
            BY ONLY <4>2, <5>1
          <5>5. QED BY <5>2, <5>3, <5>4
        <4>5. PICK U : U = [i \in 1 .. q |-> <<Base(f) + i - 1, f.words[i]>>]
          OBVIOUS
        <4>6. U = [i \in 1 .. q |-> T[i]] /\ T = [i \in 1 .. q + 1 |-> T[i]]
          BY <4>2, <4>4, <4>5
        <4>7. U \in Seq(S) /\ Len(U) = q /\ T[q + 1] \in S
          <5>1. \A i \in 1 .. q + 1 : T[i] \in S
            BY <4>4
          <5>2. q + 1 \in 1 .. q + 1 /\ \A i \in 1 .. q : i \in 1 .. q + 1
            BY <1>3
          <5>3. U \in [1 .. q -> S] /\ T[q + 1] \in S
            BY ONLY <4>6, <5>1, <5>2
          <5>4. U \in Seq(S)
            BY <5>3, <1>3
          <5>5. Len(U) = q
            BY <5>3, <5>4, <1>3, LenProperties
          <5>6. QED BY <5>3, <5>4, <5>5
        <4>8. /\ Append(U, T[q + 1]) \in Seq(S) /\ Len(Append(U, T[q + 1])) = q + 1
              /\ \A i \in 1 .. q : Append(U, T[q + 1])[i] = U[i]
              /\ Append(U, T[q + 1])[q + 1] = T[q + 1]
          BY <4>7, AppendProperties
        <4>9. Append(U, T[q + 1]) = T
          <5>1. Append(U, T[q + 1]) = [i \in 1 .. q + 1 |-> Append(U, T[q + 1])[i]]
            BY <1>3, <4>8
          <5>2. \A i \in 1 .. q + 1 : Append(U, T[q + 1])[i] = T[i]
            BY <1>3, <4>6, <4>8
          <5>3. QED BY <4>6, <5>1, <5>2
        <4>10. QED BY <4>1, <4>2, <4>4, <4>5, <4>9
      <3>5. written' = q + 1 /\ q + 1 > 0 /\ Base(f) + (q + 1) - 1 = Base(f) + q
        BY <1>3, <1>10, <1>13, <2>4, <3>1
      <3>6. Holds(f, t + 1)'
        BY <1>1, <1>5, <1>10, <1>12, <1>13, <2>1, <2>2, <2>4, <3>4, <3>5 DEF Holds
      <3>7. QED BY <1>5, <2>1, <2>4, <3>1, <3>2, <3>3, <3>5, <3>6
    <2>5. QED BY <2>3, <2>4
  <1>16. QED BY <1>14, <1>15

LEMMA InitFollowing == SocInit => Following
  <1> SUFFICES ASSUME SocInit PROVE Following
    OBVIOUS
  <1>1. frame = RunFrame(FALSE) /\ index = -1 /\ stb = FALSE
    BY Zenon DEF SocInit, LoaderInit
  <1>2. IsFrame(frame) /\ frame.type = "run" /\ ~Strobe
    BY <1>1 DEF IsFrame, RunFrame, Strobe
  <1>3. index \in -1 .. Len(Bytes(frame)) - 1
    <2>1. Len(Bytes(frame)) \in Nat /\ Len(Bytes(frame)) >= 2
      BY <1>2, FrameLength
    <2>2. PICK n : n = Len(Bytes(frame))
      OBVIOUS
    <2>3. n \in Nat /\ n >= 2 /\ index = -1
      BY <1>1, <2>1, <2>2
    <2>4. index \in -1 .. n - 1
      BY ONLY <2>3
    <2>5. QED BY <2>2, <2>4, Zenon
  <1>4. QED BY <1>1, <1>2, <1>3 DEF Following

LEMMA SteadyHolds ==
  ASSUME NEW f, NEW t, Holds(f, t), UNCHANGED <<packet, address, count, base, word, written, loaded>>
  PROVE  Holds(f, t)'
  BY DEF Holds

LEMMA NextFollowing == ASSUME Scripted, Following, [SocNext]_socVars PROVE Following'
  <1>1. CASE UNCHANGED socVars
    <2>1. UNCHANGED <<frame, index, packet, address, count, base, word, written, loaded, stb, addr, data>>
      BY <1>1 DEF socVars, loaderVars, registers
    <2>2. PICK f, t : f = frame /\ t = Taken
      OBVIOUS
    <2>3. frame' = f /\ Taken' = t /\ Strobe' = Strobe
      BY <2>1, <2>2 DEF Taken, Strobe
    <2>4. Holds(f, t) => Holds(f, t)'
      BY <2>1, SteadyHolds
    <2>5. QED BY <2>1, <2>2, <2>3, <2>4 DEF Following
  <1>2. CASE SocNext
    <2>1. Host /\ LoaderCycle
      BY <1>2 DEF SocNext
    <2>2. PICK f, t : f = frame /\ t = Taken
      OBVIOUS
    <2>3. IsFrame(f) /\ Len(Bytes(f)) \in Nat /\ index \in -1 .. Len(Bytes(f)) - 1
      BY <2>2, FrameLength DEF Following
    <2>4. IsFrame(frame') /\ index' \in -1 .. Len(Bytes(frame')) - 1
      BY <2>1, FrameSteps
    <2>5. CASE ~Strobe
      <3>1. LoaderRests /\ UNCHANGED <<packet, address, count, base, word, written, loaded>> /\ stb' = FALSE
        BY <2>1, <2>3, <2>5
           DEF LoaderCycle, LoaderRests, TypeByte, HeaderByte, DataByte, RunByte, NoWrite, registers
      <3>2. CASE frame' = frame /\ index' = -1 /\ Taken' = Taken
        <4>1. Holds(f, t) => Holds(f, t)'
          BY <3>1, SteadyHolds
        <4>2. ~Strobe'
          BY <3>2 DEF Strobe
        <4>3. QED BY <2>2, <2>4, <3>1, <3>2, <4>1, <4>2 DEF Following
      <3>3. CASE index' = 0 /\ Taken' = 0
        BY <2>4, <3>1, <3>3 DEF Following
      <3>4. QED BY <2>1, <2>5, <3>2, <3>3, FrameSteps
    <2>6. CASE Strobe
      <3>1. /\ frame' = f /\ Taken' = t + 1 /\ t = index /\ t \in Nat /\ t <= Len(Bytes(f)) - 1
            /\ index' = t + 1 \/ index' = -1
        BY <2>1, <2>2, <2>3, <2>6, FrameSteps DEF Strobe
      <3>2. TypeByte \/ HeaderByte \/ DataByte \/ RunByte
        BY <2>1, <2>6 DEF LoaderCycle, LoaderRests
      <3>3. t = 0 => TypeByte
        BY <3>1, <3>2, Sizes DEF HeaderByte, DataByte, RunByte
      <3>4. t > 0 => ~TypeByte /\ packet = f.type
        BY <2>2, <2>6, <3>1 DEF TypeByte, Following
      <3>5. CASE f.type = "load"
        <4>1. IsLoad(f)
          BY <2>3, <3>5, FrameLength
        <4>2. t > 0 => Holds(f, t)
          BY <2>2, <3>5 DEF Following
        <4>3. /\ Holds(f, t + 1)'
              /\ stb' => /\ InRange(f) /\ WordsIn(t + 1) > 0 /\ addr' = Base(f) + WordsIn(t + 1) - 1
                         /\ data' = f.words[WordsIn(t + 1)]
          <5>1. CASE t = 0
            <6>1. Holds(f, 1)' /\ stb' = FALSE /\ t + 1 = 1
              <7>1. index = 0 /\ index <= Len(Bytes(f)) - 1 /\ TypeByte /\ f = frame /\ Len(Bytes(f)) \in Nat
                BY <2>2, <2>3, <3>1, <3>3, <5>1
              <7>2. Holds(f, 1)'
                BY <2>6, <4>1, <7>1, TypeHolds
              <7>3. QED BY <5>1, <7>1, <7>2 DEF TypeByte
            <6>2. QED BY <6>1
          <5>2. CASE t > 0 /\ HeaderByte
            <6>1. Holds(f, t + 1)' /\ stb' = FALSE
              BY <2>2, <2>3, <2>6, <3>1, <4>1, <4>2, <5>2, HeaderHolds DEF HeaderByte, NoWrite
            <6>2. QED BY <6>1
          <5>3. CASE t > 0 /\ DataByte
            BY <2>2, <2>3, <2>6, <3>1, <4>1, <4>2, <5>3, DataHolds
          <5>4. ~(t > 0 /\ RunByte)
            BY <3>4, <3>5 DEF RunByte
          <5>5. QED BY <3>1, <3>2, <3>4, <5>1, <5>2, <5>3, <5>4
        <4>4. packet' = "load"
          BY <4>3 DEF Holds
        <4>5. QED BY <2>4, <3>1, <3>5, <4>3, <4>4 DEF Following
      <3>6. CASE f.type # "load"
        <4>1. f.type = "run" /\ Bytes(f)[1] = "run"
          BY <2>3, <3>6, FrameLength DEF Bytes
        <4>2. packet' = "run" /\ stb' = FALSE
          <5>1. CASE t = 0
            <6>1. packet' = Byte /\ stb' = FALSE /\ Byte = Bytes(f)[1]
              BY <2>2, <3>1, <3>3, <5>1 DEF TypeByte, Byte
            <6>2. QED BY <4>1, <6>1
          <5>2. CASE t > 0
            <6>1. RunByte /\ packet = "run"
              BY <3>2, <3>4, <4>1, <5>2 DEF HeaderByte, DataByte
            <6>2. QED BY <6>1 DEF RunByte, NoWrite, registers
          <5>3. t = 0 \/ t > 0
            BY <3>1
          <5>4. QED BY <5>1, <5>2, <5>3
        <4>3. QED BY <2>4, <3>1, <4>1, <4>2 DEF Following
      <3>7. QED BY <3>5, <3>6
    <2>7. QED BY <2>5, <2>6
  <1>3. QED BY <1>1, <1>2

LEMMA FollowingAlways == SocSpec => [](Scripted /\ Following)
  <1>1. Scripted /\ Following /\ [SocNext]_socVars => Scripted' /\ Following'
    <2>1. SocNext /\ Scripted => Scripted'
      BY FlowSteps DEF SocNext
    <2>2. UNCHANGED socVars /\ Scripted => Scripted'
      BY DEF socVars, flow, Scripted, Done, Flow
    <2>3. QED BY <2>1, <2>2, NextFollowing
  <1>2. SocInit => Scripted /\ Following
    BY InitScripted, InitFollowing
  <1>3. QED BY <1>1, <1>2, PTL DEF SocSpec

LEMMA FullWords == ASSUME NEW f, IsLoad(f) PROVE WordsIn(Len(Bytes(f))) = Len(f.words)
  <1>1. PICK n, l : n = Len(Bytes(f)) /\ l = Len(f.words)
    OBVIOUS
  <1>2. l \in Nat /\ n = Header + WordBytes * l /\ WordBytes * l \in Nat
    <2>1. l \in Nat /\ n = Header + WordBytes * l
      BY <1>1, LoadBytes, NumbersAre, Sizes
    <2>2. QED BY <2>1, Sizes
  <1>3. n - Header = WordBytes * l /\ n >= Header /\ n \in Nat
    BY <1>2, Sizes
  <1>4. (WordBytes * l) \div WordBytes = l
    BY <1>2, Sizes
  <1>5. QED BY <1>1, <1>3, <1>4, WordsInIs

\* A frame is written whole or, if any of it lies outside the memory, not at all
\* (loader.py 34-37, 75-109).
THEOREM AlwaysWrittenWhole == SocSpec => []WrittenWhole
  <1>1. Following => WrittenWhole
    <2> SUFFICES ASSUME Following, ~Strobe, frame.type = "load" PROVE loaded = Wanted(frame)
      BY DEF WrittenWhole
    <2>1. PICK f, n, l : f = frame /\ n = Len(Bytes(f)) /\ l = Len(f.words)
      OBVIOUS
    <2>2. /\ IsLoad(f) /\ l \in Nat /\ n = Header + WordBytes * l /\ n \in Nat /\ n >= 2
      BY <2>1, FrameLength DEF Following
    <2>3. Holds(f, n)
      BY <2>1, <2>2 DEF Following, Taken
    <2>4. WordsIn(n) = l
      BY <2>1, <2>2, FullWords
    <2>5. loaded = IF InRange(f) THEN [i \in 1 .. l |-> <<Base(f) + i - 1, f.words[i]>>] ELSE << >>
      BY <2>3, <2>4 DEF Holds
    <2>6. InRange(f) <=> ~(Base(f) + l > MemWords)
      <3>1. PICK b : b = Base(f)
        OBVIOUS
      <3>2. b \in Nat /\ (InRange(f) <=> b + l <= MemWords)
        BY <2>1, <2>2, <3>1, NumbersAre DEF InRange
      <3>3. b + l <= MemWords <=> ~(b + l > MemWords)
        BY <2>2, <3>2, Sizes
      <3>4. QED BY <3>1, <3>2, <3>3
    <2>7. QED BY <2>1, <2>5, <2>6 DEF Wanted, Base
  <1>2. QED BY <1>1, FollowingAlways, PTL

-----------------------------------------------------------------------------
(***************************************************************************)
(* What is in the memory when a program starts.  From the run bit's going  *)
(* down until its going up the processor writes nothing, and each frame    *)
(* that has come without one before it lost has left its words.            *)
(***************************************************************************)
\* A processor that was stopped has the port for one cycle more, and no longer.
Quiet == cpu.valid /\ ~run => ~Strobe /\ rest = Gap /\ frame.type = "run"

\* The frame on its way is the one the flow has come to.
Current == /\ Strobe => Done >= 1
           /\ ~lost /\ Done >= 1 /\ (script # << >> \/ Strobe) => frame = Flow[Done]

\* From the end of the frame that stops to the byte that starts.
Underway == ~lost /\ \/ Done = 1 /\ ~Strobe
                     \/ Done >= 2 /\ (script # << >> \/ (Strobe /\ index <= 1))

\* The words of the image that have come, and where each of them goes.
Arrived == IF Done = 1 THEN 0
           ELSE IF script = << >> THEN Len(image) ELSE Before(Done - 1) + WordsIn(Taken)
PlaceOf(i) == place \div WordBytes + i - 1

Delivered == Underway => /\ ~run
                         /\ InPlace => \A i \in 1 .. Arrived :
                              mem[PlaceOf(i)] = image[i] \/ (stb /\ addr = PlaceOf(i))

CleanInv == Quiet /\ Current /\ Delivered /\ StartsClean

LEMMA DoneIs ==
  ASSUME Scripted
  PROVE  /\ Done \in 0 .. FlowLength(image) /\ FlowLength(image) = LoadCount(image) + 2
         /\ LoadCount(image) \in Nat /\ Len(image) \in Nat /\ place \in Nat
         /\ script = << >> <=> Done = FlowLength(image)
         /\ Flow[1] = RunFrame(FALSE)
  <1>1. LoadCount(image) \in Nat /\ Len(image) \in Nat
    <2>1. Len(image) \in Nat
      BY DEF Scripted
    <2>2. QED BY <2>1, UptoIs
  <1>2. Len(script) \in 0 .. FlowLength(image) /\ (script = << >> <=> Len(script) = 0)
    BY <1>1 DEF Scripted, FlowLength
  <1>3. Flow[1] = RunFrame(FALSE)
    BY FlowIs DEF Scripted, Flow
  <1>4. QED BY <1>1, <1>2, <1>3 DEF Scripted, Done, FlowLength

\* The second byte of a frame that runs or stops, and nothing else, is heard by
\* the run bit.
LEMMA RunSteps ==
  ASSUME Scripted, Following, SocNext
  PROVE  /\ Strobe /\ index = 1 /\ frame.type = "run" =>
              /\ index' = -1 /\ rest' = Gap /\ frame' = frame /\ run' = (frame = RunFrame(TRUE))
         /\ ~(Strobe /\ index = 1 /\ frame.type = "run") => run' = run
  <1>1. Host /\ LoaderCycle
    BY DEF SocNext
  <1>2. IsFrame(frame)
    BY DEF Following
  <1>3. ASSUME Strobe, index = 1, frame.type = "run"
        PROVE  index' = -1 /\ rest' = Gap /\ frame' = frame /\ run' = (frame = RunFrame(TRUE))
    <2>1. Len(Bytes(frame)) = 2 /\ packet = "run"
      BY <1>2, <1>3, FrameLength DEF Following
    <2>2. LastByte
      BY <1>3, <2>1 DEF LastByte
    <2>3. index' = -1 /\ rest' = Gap /\ frame' = frame
      BY <1>1, <1>3, <2>2 DEF Host
    <2>4. RunByte
      BY <1>1, <1>3, <2>1 DEF LoaderCycle, TypeByte, HeaderByte, DataByte, LoaderRests
    <2>5. run' = (Byte = 1) /\ Byte = Bytes(frame)[2]
      BY <1>3, <2>4 DEF RunByte, Byte
    <2>6. PICK on \in BOOLEAN : frame = RunFrame(on)
      BY <1>2, <1>3 DEF IsFrame, IsLoad
    <2>7. (Byte = 1) = on
      BY <2>5, <2>6, RunBytes
    <2>8. (frame = RunFrame(TRUE)) = on
      BY <2>6 DEF RunFrame
    <2>9. QED BY <2>3, <2>5, <2>7, <2>8
  <1>4. ASSUME ~(Strobe /\ index = 1 /\ frame.type = "run") PROVE run' = run
    <2>1. CASE RunByte
      <3>1. index # 1
        BY <1>4, <2>1 DEF RunByte, Following
      <3>2. QED BY <2>1, <3>1 DEF RunByte
    <2>2. CASE ~RunByte
      BY <1>1, <2>2 DEF LoaderCycle, TypeByte, HeaderByte, DataByte, LoaderRests, NoWrite
    <2>3. QED BY <2>1, <2>2
  <1>5. QED BY <1>3, <1>4

LEMMA NextQuiet == ASSUME Typed, Scripted, Following, SocNext PROVE Quiet'
  <1>1. SUFFICES ASSUME cpu'.valid, ~run' PROVE ~Strobe' /\ rest' = Gap /\ frame'.type = "run"
    BY DEF Quiet
  <1>2. resetn
    BY <1>1, ProcessorSteps DEF SocNext
  <1>3. run' # run
    BY <1>1, <1>2 DEF resetn
  <1>4. /\ index' = -1 /\ rest' = Gap /\ frame' = frame /\ frame.type = "run"
    BY <1>3, RunSteps
  <1>5. QED BY <1>4 DEF Strobe

LEMMA NextCurrent == ASSUME Scripted, Current, Host PROVE Current'
  <1>1. CASE Begins
    <2>1. ~Strobe' /\ Done' = 0
      BY <1>1 DEF Begins, Strobe
    <2>2. QED BY <2>1 DEF Current
  <1>2. CASE Continues
    <2>1. Done' \in 1 .. FlowLength(image) /\ Flow' = Flow
      BY <1>2 DEF Continues, Flow
    <2>2. Done' >= 1
      BY <2>1, DoneIs
    <2>3. ~lost' => frame' = Flow'[Done']
      BY <1>2, <2>1 DEF Continues
    <2>4. QED BY <2>2, <2>3 DEF Current
  <1>3. CASE Waits
    <2>1. Done' = Done /\ Flow' = Flow /\ frame' = frame /\ lost' = lost /\ script' = script
          /\ (Strobe' => Strobe)
      BY <1>3 DEF Waits, Done, Flow, Strobe
    <2>2. QED BY <2>1 DEF Current
  <1>4. QED BY <1>1, <1>2, <1>3, FlowSteps

LEMMA DivShift == ASSUME NEW p \in Nat, NEW b \in Nat, NEW w \in Nat, w > 0
                  PROVE  (p + w * b) \div w = (p \div w) + b
  <1>1. PICK q, r : q = p \div w /\ r = p % w
    OBVIOUS
  <1>2. q \in Nat /\ r \in 0 .. w - 1 /\ p = w * q + r
    BY <1>1
  <1>3. p + w * b = w * (q + b) + r
    BY <1>2
  <1>4. (p + w * b) \div w = q + b
    BY <1>2, <1>3
  <1>5. QED BY <1>1, <1>4

\* The load frame the flow has come to.
LEMMA LoadFacts ==
  ASSUME Scripted, Following, Current, Underway, frame.type = "load" \/ (Done >= 2 /\ script # << >>)
  PROVE  /\ Done >= 2 /\ script # << >> /\ Done - 1 \in 1 .. LoadCount(image) /\ IsLoad(frame)
         /\ frame.type = "load"
         /\ Base(frame) = (place \div WordBytes) + Before(Done - 1)
         /\ Len(frame.words) = Upto(image, Done - 1) - Before(Done - 1)
         /\ \A j \in 1 .. Len(frame.words) : frame.words[j] = image[Before(Done - 1) + j]
         /\ InPlace => InRange(frame)
  <1>1. frame = Flow[Done] /\ Done \in 1 .. FlowLength(image)
    BY DoneIs DEF Current, Underway
  <1>2. Done >= 2 /\ script # << >> /\ frame.type = "load"
    <2>1. CASE frame.type = "load"
      <3>1. Done # 1
        BY <1>1, <2>1, DoneIs DEF RunFrame
      <3>2. Done # FlowLength(image)
        BY <1>1, <2>1, FlowIs DEF Scripted, Flow, RunFrame
      <3>3. QED BY <1>1, <2>1, <3>1, <3>2, DoneIs
    <2>2. CASE Done >= 2 /\ script # << >>
      <3>1. Done # 1 /\ Done # FlowLength(image)
        BY <2>2, DoneIs
      <3>2. QED BY <1>1, <2>2, <3>1, FlowFrames
    <2>3. QED BY <2>1, <2>2
  <1>3. PICK k : k = Done - 1
    OBVIOUS
  <1>4. k \in 1 .. LoadCount(image) /\ frame = LoadFrames(image, place)[k]
    BY <1>1, <1>2, <1>3, FlowFrames
  <1>5. IsLoad(frame)
    BY <1>2, FrameLength DEF Following
  <1>6. /\ frame.at = place + WordBytes * Before(k)
        /\ Len(frame.words) = Upto(image, k) - Before(k)
        /\ \A j \in 1 .. Len(frame.words) : frame.words[j] = image[Before(k) + j]
    BY <1>4, LoadFramesAre DEF Scripted
  <1>7. PICK b, u, n : b = Before(k) /\ u = Upto(image, k) /\ n = Len(image)
    OBVIOUS
  <1>8. b \in Nat /\ u \in Nat /\ u <= n /\ n \in Nat
    BY <1>4, <1>7, UptoIs, DoneIs
  <1>9. PICK p : p = place \div WordBytes
    OBVIOUS
  <1>10. p \in Nat /\ Base(frame) = p + b
    <2>1. place \in Nat /\ WordBytes \in Nat /\ WordBytes > 0
      BY DoneIs, Sizes
    <2>2. (place + WordBytes * b) \div WordBytes = (place \div WordBytes) + b
      BY <1>8, <2>1, DivShift
    <2>3. place \div WordBytes \in Nat
      BY <2>1
    <2>4. QED BY <1>6, <1>7, <1>9, <2>2, <2>3 DEF Base
  <1>11. InPlace => InRange(frame)
    <2>1. InPlace <=> p + n <= MemWords
      BY <1>7, <1>9 DEF InPlace
    <2>2. InRange(frame) <=> (p + b) + (u - b) <= MemWords
      BY <1>6, <1>7, <1>10 DEF InRange
    <2>3. QED BY <1>8, <1>10, <2>1, <2>2, Sizes
  <1>12. QED BY <1>2, <1>3, <1>4, <1>5, <1>6, <1>7, <1>9, <1>10, <1>11

\* A word more has come just when the loader's strobe says so.
LEMMA WordSteps ==
  ASSUME Scripted, Following, SocNext, Strobe, IsLoad(frame), InRange(frame)
  PROVE  WordsIn(Taken') = IF stb' THEN WordsIn(Taken) + 1 ELSE WordsIn(Taken)
  <1>1. Host /\ LoaderCycle
    BY DEF SocNext
  <1>2. PICK f, t : f = frame /\ t = Taken
    OBVIOUS
  <1>3. Len(Bytes(f)) \in Nat /\ index \in -1 .. Len(Bytes(f)) - 1
    BY <1>2, FrameLength DEF Following
  <1>4. t = index /\ t \in Nat /\ t <= Len(Bytes(f)) - 1 /\ Taken' = t + 1
    BY <1>1, <1>2, <1>3, FrameSteps DEF Strobe
  <1>5. t > 0 => packet = "load" /\ Holds(f, t)
    BY <1>2, <1>4 DEF Following, IsLoad
  <1>6. CASE t < Header
    <2>1. WordsIn(t) = 0 /\ WordsIn(t + 1) = 0
      BY <1>4, <1>6, WordsInIs, Sizes
    <2>2. stb' = FALSE
      BY <1>1, <1>4, <1>5, <1>6, Sizes
         DEF LoaderCycle, TypeByte, HeaderByte, DataByte, RunByte, LoaderRests, NoWrite
    <2>3. QED BY <1>2, <1>4, <2>1, <2>2
  <1>7. CASE t >= Header
    <2>1. DataByte /\ t > 0
      BY <1>1, <1>4, <1>5, <1>7, Sizes
         DEF LoaderCycle, TypeByte, HeaderByte, RunByte, LoaderRests
    <2>2. stb' \in BOOLEAN
      BY <2>1 DEF DataByte, NoWrite
    <2>3. /\ ~stb' => WordsIn(t + 1) = WordsIn(t)
          /\ stb' => WordsIn(t + 1) = WordsIn(t) + 1
      BY <1>2, <1>3, <1>4, <1>5, <2>1, DataHolds
    <2>4. QED BY <1>2, <1>4, <2>2, <2>3
  <1>8. QED BY <1>4, <1>6, <1>7, Sizes

\* Loading goes on, or the frame that stops the processor has just ended.
LEMMA UnderwaySteps ==
  ASSUME Scripted, Following, Current, SocNext, Underway'
  PROVE  /\ ~lost /\ image' = image /\ place' = place
         /\ Underway \/ (Done' = 1 /\ ~run')
  <1>1. Host
    BY DEF SocNext
  <1>2. CASE Begins
    BY <1>2 DEF Begins, Underway
  <1>3. CASE Continues
    <2>1. ~lost /\ ~Strobe /\ script # << >> /\ image' = image /\ place' = place /\ Done' = Done + 1
      BY <1>3 DEF Continues, Underway
    <2>2. Done >= 1 \/ Done = 0
      BY DoneIs
    <2>3. CASE Done >= 1
      BY <2>1, <2>3, DoneIs DEF Underway
    <2>4. CASE Done = 0
      <3>1. index' = 0
        BY <1>3, <2>1 DEF Continues, Underway
      <3>2. QED BY <2>1, <2>4, <3>1 DEF Underway, Strobe
    <2>5. QED BY <2>2, <2>3, <2>4
  <1>4. CASE Waits
    <2>1. /\ ~lost /\ image' = image /\ place' = place /\ script' = script /\ Done' = Done /\ frame' = frame
      BY <1>4 DEF Waits, Underway, Done
    <2>2. CASE ~Strobe
      <3>1. ~Strobe'
        BY <1>4, <2>2 DEF Waits, Strobe
      <3>2. QED BY <2>1, <2>2, <3>1 DEF Underway
    <2>3. CASE Strobe
      <3>1. index' = index + 1 \/ index' = -1
        BY <1>1, <2>3, FrameSteps
      <3>2. index \in Int /\ index >= 0
        BY <2>3 DEF Following, Strobe
      <3>3. CASE Done >= 2
        BY <2>1, <2>3, <3>1, <3>2, <3>3 DEF Underway, Strobe
      <3>4. CASE Done = 1
        <4>1. index' = -1
          BY <2>1, <3>1, <3>2, <3>4 DEF Underway, Strobe
        <4>2. frame = RunFrame(FALSE)
          BY <2>1, <2>3, <3>4, DoneIs DEF Current
        <4>3. Len(Bytes(frame)) = 2
          BY <4>2, RunBytes
        <4>4. LastByte
          BY <2>3, <3>2, <4>1, <1>1 DEF Host, Strobe
        <4>5. index = 1 /\ frame.type = "run" /\ ~(frame = RunFrame(TRUE))
          BY <4>2, <4>3, <4>4 DEF LastByte, RunFrame
        <4>6. ~run'
          BY <2>3, <4>5, RunSteps
        <4>7. QED BY <2>1, <3>4, <4>6
      <3>5. QED BY <2>1, <3>3, <3>4, DoneIs DEF Underway
    <2>4. QED BY <2>2, <2>3
  <1>5. QED BY <1>1, <1>2, <1>3, <1>4, FlowSteps

LEMMA WordsInMost ==
  ASSUME NEW f, IsLoad(f), NEW n \in Nat, n <= Len(Bytes(f))
  PROVE  WordsIn(n) \in 0 .. Len(f.words)
  <1>1. PICK l, w : l = Len(f.words) /\ w = WordBytes
    OBVIOUS
  <1>2. l \in Nat /\ Len(Bytes(f)) = Header + w * l /\ w \in Nat /\ w > 0 /\ w * l \in Nat
    <2>1. l \in Nat /\ Len(Bytes(f)) = Header + WordBytes * l
      BY <1>1, LoadBytes, NumbersAre, Sizes
    <2>2. w \in Nat /\ w > 0
      BY <1>1, Sizes
    <2>3. QED BY <1>1, <2>1, <2>2
  <1>3. CASE n <= Header
    BY <1>1, <1>2, <1>3, WordsInIs
  <1>4. CASE n > Header
    <2>1. PICK d, q : d = n - Header /\ q = d \div w
      OBVIOUS
    <2>2. d \in Nat /\ d <= w * l /\ WordsIn(n) = q /\ q \in Nat
      BY <1>1, <1>2, <1>4, <2>1, WordsInIs, Sizes
    <2>3. w * q <= d
      <3>1. w > 1
        BY <1>1, Sizes
      <3>2. d = (w * (d \div w)) + (d % w) /\ d % w \in 0 .. w - 1
        BY <1>2, <2>2, <3>1, DivNext
      <3>3. PICK m, x : m = d % w /\ x = w * q
        OBVIOUS
      <3>4. d = x + m /\ m \in 0 .. w - 1
        BY <2>1, <3>2, <3>3
      <3>5. x \in Nat
        BY <1>2, <2>2, <3>3
      <3>6. x <= d
        BY <1>2, <2>2, <3>4, <3>5
      <3>7. QED BY <3>3, <3>6
    <2>4. q <= l
      <3>1. SUFFICES ASSUME q >= l + 1 PROVE FALSE
        BY <1>2, <2>2
      <3>2. (l + 1) * w <= q * w
        BY <1>2, <2>2, <3>1, Product
      <3>3. (l + 1) * w = (w * l) + w /\ q * w = w * q
        BY <1>2, <2>2
      <3>4. w * q \in Nat
        BY <1>2, <2>2
      <3>5. QED BY <1>2, <2>2, <2>3, <3>2, <3>3, <3>4
    <2>5. QED BY <1>1, <1>2, <2>2, <2>4
  <1>5. QED BY <1>3, <1>4, Sizes

\* What has come is a part of the image, and the strobe is about its last word.
LEMMA ArrivedIs ==
  ASSUME Scripted, Following, Current, Underway
  PROVE  /\ Arrived \in 0 .. Len(image)
         /\ stb => /\ addr = PlaceOf(Arrived) /\ data = image[Arrived] /\ Arrived >= 1
                   /\ frame.type = "load"
  <1>1. CASE ~stb /\ (Done = 1 \/ script = << >>)
    BY <1>1, DoneIs DEF Arrived
  <1>2. CASE stb \/ ~(Done = 1 \/ script = << >>)
    <2>1. stb => frame.type = "load"
      BY DEF Following
    <2>2. Done = 1 \/ Done >= 2
      BY DEF Underway
    <2>3. frame.type = "load" \/ (Done >= 2 /\ script # << >>)
      BY <1>2, <2>1, <2>2
    <2>4. PICK k, b, t, p : k = Done - 1 /\ b = Before(k) /\ t = WordsIn(Taken) /\ p = place \div WordBytes
      OBVIOUS
    <2>5. /\ Done >= 2 /\ script # << >> /\ k \in 1 .. LoadCount(image) /\ IsLoad(frame)
          /\ Base(frame) = p + b /\ Len(frame.words) = Upto(image, k) - b
          /\ \A j \in 1 .. Len(frame.words) : frame.words[j] = image[b + j]
      BY <2>3, <2>4, LoadFacts
    <2>6. b \in Nat /\ Upto(image, k) \in b + 1 .. Len(image) /\ Len(image) \in Nat
      BY <2>4, <2>5, DoneIs, UptoIs
    <2>7. Taken \in Nat /\ Taken <= Len(Bytes(frame))
      BY <2>5, FrameLength DEF Following, Taken, Strobe
    <2>8. t \in 0 .. Len(frame.words)
      BY <2>4, <2>5, <2>7, WordsInMost
    <2>9. Arrived = b + t
      BY <2>4, <2>5 DEF Arrived
    <2>10. Arrived \in 0 .. Len(image)
      BY <2>5, <2>6, <2>8, <2>9
    <2>11. ASSUME stb PROVE addr = PlaceOf(Arrived) /\ data = image[Arrived] /\ Arrived >= 1
      <3>1. t > 0 /\ addr = p + b + t - 1 /\ data = frame.words[t]
        BY <2>4, <2>5, <2>11 DEF Following
      <3>2. t \in 1 .. Len(frame.words)
        BY <2>5, <2>6, <2>8, <3>1
      <3>3. data = image[b + t]
        BY <2>5, <3>1, <3>2
      <3>4. PlaceOf(Arrived) = p + (b + t) - 1
        BY <2>4, <2>9 DEF PlaceOf
      <3>5. p \in Nat
        BY <2>4, DoneIs, Sizes
      <3>6. p + b + t - 1 = p + (b + t) - 1
        BY <2>6, <2>8, <3>5
      <3>7. QED BY <2>6, <2>8, <2>9, <3>1, <3>2, <3>3, <3>4, <3>6
    <2>12. QED BY <2>1, <2>10, <2>11
  <1>3. QED BY <1>1, <1>2

\* As much has come as before, or the word the strobe is about to write.
LEMMA ArrivedSteps ==
  ASSUME Scripted, Following, Current, Underway, Underway', SocNext
  PROVE  /\ Done = 1 => Arrived' = 0
         /\ InPlace => \/ Arrived' = Arrived
                       \/ Arrived' = Arrived + 1 /\ stb' /\ addr' = PlaceOf(Arrived')
  <1>1. Host /\ Scripted' /\ Following'
    BY FlowSteps, NextFollowing DEF SocNext
  <1>2. ~Begins
    BY DEF Begins, Underway
  <1>3. CASE Waits
    <2>1. /\ Done' = Done /\ script' = script /\ image' = image /\ place' = place /\ frame' = frame
      BY <1>3 DEF Waits, Done
    <2>2. CASE Done = 1 \/ script = << >>
      BY <2>1, <2>2 DEF Arrived
    <2>3. CASE ~(Done = 1 \/ script = << >>)
      <3>1. Done >= 2 /\ script # << >>
        BY <2>3 DEF Underway
      <3>2. PICK b, t, u, p : b = Before(Done - 1) /\ t = WordsIn(Taken) /\ u = WordsIn(Taken') /\ p = place \div WordBytes
        OBVIOUS
      <3>3. /\ IsLoad(frame) /\ frame.type = "load" /\ Base(frame) = p + b /\ Done - 1 \in 1 .. LoadCount(image)
            /\ InPlace => InRange(frame)
        BY <3>1, <3>2, LoadFacts
      <3>4. Arrived = b + t /\ Arrived' = b + u
        BY <2>1, <2>3, <3>2 DEF Arrived
      <3>5. CASE ~Strobe
        <4>1. Taken' = Taken
          BY <1>3, <2>1, <3>5 DEF Waits, Taken, Strobe
        <4>2. QED BY <2>3, <3>2, <3>4, <4>1
      <3>6. CASE Strobe
        <4>1. SUFFICES ASSUME InPlace
                       PROVE  \/ Arrived' = Arrived
                              \/ Arrived' = Arrived + 1 /\ stb' /\ addr' = PlaceOf(Arrived')
          BY <2>3
        <4>2. u = IF stb' THEN t + 1 ELSE t
          BY <3>2, <3>3, <3>6, <4>1, WordSteps
        <4>3. CASE ~stb'
          <5>1. u = t
            BY <4>2, <4>3
          <5>2. Arrived' = Arrived
            BY <3>4, <5>1
          <5>3. QED BY <5>2
        <4>4. CASE stb'
          <5>1. addr' = p + b + u - 1
            BY <1>1, <2>1, <3>2, <3>3, <4>4 DEF Following, Base
          <5>2. b \in Nat /\ p \in Nat
            <6>1. b \in 0 .. Len(image) - 1 /\ Len(image) \in Nat
              BY <3>2, <3>3, DoneIs, UptoIs
            <6>2. QED BY <3>2, <6>1, DoneIs, Sizes, SMTT(30)
          <5>3. t \in Nat
            <6>1. Taken \in Nat /\ Taken <= Len(Bytes(frame))
              BY <3>3, FrameLength DEF Following, Taken, Strobe
            <6>2. QED BY <3>2, <3>3, <6>1, WordsInMost, FrameLength DEF IsLoad
          <5>4. PlaceOf(Arrived') = p + (b + u) - 1
            BY <3>2, <3>4 DEF PlaceOf
          <5>5. u = t + 1
            BY <4>2, <4>4
          <5>6. b + u = b + t + 1 /\ p + b + u - 1 = p + (b + u) - 1
            BY <5>2, <5>3, <5>5
          <5>7. QED BY <3>4, <4>4, <5>1, <5>4, <5>6
        <4>5. QED BY <4>3, <4>4
      <3>7. QED BY <3>5, <3>6
    <2>4. QED BY <2>2, <2>3
  <1>4. CASE Continues
    <2>1. /\ ~Strobe /\ script # << >> /\ image' = image /\ Done' = Done + 1 /\ Done' \in 1 .. FlowLength(image)
          /\ Taken' = 0
      BY <1>4 DEF Continues, Underway, Taken, Strobe
    <2>2. script' = << >> <=> Done' = FlowLength(image)
      <3>1. PICK n, L : n = FlowLength(image) /\ L = Len(script')
        OBVIOUS
      <3>2. n \in Nat /\ L \in Nat /\ Done' = n - L /\ (script' = << >> <=> L = 0)
        <4>1. n \in Nat
          BY <3>1, DoneIs
        <4>2. script' \in Seq(Range(Flow')) /\ Done' = FlowLength(image') - Len(script')
          BY <1>1 DEF Scripted, Done
        <4>3. QED BY <2>1, <3>1, <4>1, <4>2
      <3>3. QED BY <3>1, <3>2
    <2>3. WordsIn(Taken') = 0
      BY <2>1, WordsInIs, Sizes
    <2>4. Arrived' = IF script' = << >> THEN Len(image) ELSE Before(Done) + 0
      <3>1. Done' # 1 /\ Done' - 1 = Done
        BY <2>1, DoneIs DEF Underway
      <3>2. QED BY <2>1, <2>3, <3>1 DEF Arrived
    <2>5. CASE Done = 1
      <3>1. Before(1) = 0
        BY LoaderSizes DEF Before
      <3>2. script' = << >> => Len(image) = 0
        BY <2>1, <2>2, <2>5, DoneIs, UptoIs
      <3>3. Arrived' = 0 /\ Arrived = 0
        BY <2>4, <2>5, <3>1, <3>2 DEF Arrived
      <3>4. QED BY <3>3
    <2>6. CASE Done # 1
      <3>1. Done >= 2
        BY <2>6 DEF Underway
      <3>2. PICK k : k = Done - 1
        OBVIOUS
      <3>3. /\ IsLoad(frame) /\ k \in 1 .. LoadCount(image)
            /\ Len(frame.words) = Upto(image, k) - Before(k)
        BY <2>1, <3>1, <3>2, LoadFacts
      <3>4. /\ Before(k) \in Nat /\ Upto(image, k) \in Nat
            /\ Upto(image, k) = IF k < LoadCount(image) THEN Before(k + 1) ELSE Len(image)
        <4>1. /\ Before(k) \in 0 .. Len(image) - 1 /\ Upto(image, k) \in Before(k) + 1 .. Len(image)
              /\ Upto(image, k) = IF k < LoadCount(image) THEN Before(k + 1) ELSE Len(image)
              /\ Len(image) \in Nat
          BY <3>3, DoneIs, UptoIs
        <4>2. QED BY <4>1
      <3>5. Arrived = Before(k) + (Upto(image, k) - Before(k))
        BY <2>1, <2>6, <3>2, <3>3, FullWords DEF Arrived, Taken
      <3>6. k < LoadCount(image) <=> ~(script' = << >>)
        BY <2>1, <2>2, <3>2, <3>3, DoneIs
      <3>7. k + 1 = Done
        BY <3>1, <3>2, DoneIs
      <3>8. Arrived' = Upto(image, k)
        BY <2>4, <3>3, <3>4, <3>6, <3>7, LoaderSizes, DoneIs DEF Before
      <3>9. Arrived = Upto(image, k)
        BY <3>4, <3>5
      <3>10. QED BY <2>6, <3>8, <3>9
    <2>7. QED BY <2>5, <2>6
  <1>5. QED BY <1>1, <1>2, <1>3, <1>4, FlowSteps

\* Between the frame that stops and the one that starts the processor is stopped,
\* and its last access has ended before a word comes.
LEMMA PortIsFree ==
  ASSUME Scripted, Following, Quiet, Current, Delivered, Underway, Done # 1
  PROVE  ~cpu.valid
  <1>1. ~run /\ Done >= 2 /\ (~Strobe => script # << >>)
    BY DEF Delivered, Underway
  <1>2. SUFFICES ASSUME cpu.valid PROVE FALSE
    OBVIOUS
  <1>3. ~Strobe /\ frame.type = "run"
    BY <1>1, <1>2 DEF Quiet
  <1>4. frame.type = "load"
    BY <1>1, <1>3, LoadFacts
  <1>5. QED BY <1>3, <1>4

LEMMA StaysStopped ==
  ASSUME Scripted, Following, Current, Delivered, SocNext, Underway'
  PROVE  ~run'
  <1>1. Underway \/ ~run'
    BY UnderwaySteps
  <1>2. SUFFICES ASSUME Underway, run' PROVE FALSE
    BY <1>1
  <1>3. ~run
    BY <1>2 DEF Delivered
  <1>4. Strobe /\ index = 1 /\ frame.type = "run" /\ index' = -1
    BY <1>2, <1>3, RunSteps
  <1>5. Waits
    BY <1>4, FlowSteps DEF SocNext
  <1>6. Done >= 2 /\ Done' = Done /\ script' = script
    BY <1>2, <1>4, <1>5 DEF Underway, Waits, Done
  <1>7. script # << >>
    BY <1>4, <1>6 DEF Underway, Strobe
  <1>8. frame.type = "load"
    BY <1>2, <1>6, <1>7, LoadFacts
  <1>9. QED BY <1>4, <1>8

LEMMA NextDelivered ==
  ASSUME Typed, Scripted, Following, Quiet, Current, Delivered, SocNext
  PROVE  Delivered'
  <1>1. SUFFICES ASSUME Underway'
                 PROVE  /\ ~run'
                        /\ InPlace' => \A i \in 1 .. Arrived' :
                             mem'[PlaceOf(i)'] = image'[i] \/ (stb' /\ addr' = PlaceOf(i)')
    BY DEF Delivered
  <1>2. ~run'
    BY <1>1, StaysStopped
  <1>3. /\ image' = image /\ place' = place /\ InPlace' = InPlace
        /\ \A i : PlaceOf(i)' = PlaceOf(i)
    BY <1>1, UnderwaySteps DEF InPlace, PlaceOf
  <1>4. CASE ~Underway \/ Done = 1
    <2>1. Arrived' = 0
      <3>1. CASE Underway /\ Done = 1
        BY <1>1, <3>1, ArrivedSteps
      <3>2. CASE ~Underway
        BY <1>1, <3>2, UnderwaySteps DEF Arrived
      <3>3. QED BY <1>4, <3>1, <3>2
    <2>2. QED BY <1>2, <2>1
  <1>5. CASE Underway /\ Done # 1
    <2>1. SUFFICES ASSUME InPlace, NEW i \in 1 .. Arrived'
                   PROVE  mem'[PlaceOf(i)] = image[i] \/ (stb' /\ addr' = PlaceOf(i))
      BY <1>2, <1>3
    <2>2. \/ Arrived' = Arrived
          \/ Arrived' = Arrived + 1 /\ stb' /\ addr' = PlaceOf(Arrived')
      BY <1>1, <1>5, <2>1, ArrivedSteps
    <2>3. /\ Arrived \in 0 .. Len(image) /\ Len(image) \in Nat
          /\ stb => addr = PlaceOf(Arrived) /\ data = image[Arrived] /\ Arrived >= 1
      BY <1>5, ArrivedIs, DoneIs
    <2>4. CASE i \in 1 .. Arrived
      <3>1. mem' = IF stb THEN [mem EXCEPT ![addr] = data] ELSE mem
        BY <1>5, PortIsFree DEF SocNext, Memory, AddressPhase
      <3>2. mem[PlaceOf(i)] = image[i] \/ (stb /\ addr = PlaceOf(i))
        BY <1>5, <2>1, <2>4 DEF Delivered
      <3>3. PICK p : p = place \div WordBytes
        OBVIOUS
      <3>4. p \in Nat /\ p + Len(image) <= MemWords
        BY <2>1, <3>3, DoneIs, Sizes DEF InPlace
      <3>5. \A j \in 1 .. Arrived : PlaceOf(j) = p + j - 1 /\ PlaceOf(j) \in Addresses
        BY <2>3, <3>3, <3>4, Sizes DEF PlaceOf, Addresses
      <3>6. DOMAIN mem = Addresses
        BY DEF Typed
      <3>7. CASE ~stb
        BY <3>1, <3>2, <3>7
      <3>8. CASE stb
        <4>1. Arrived \in 1 .. Arrived
          BY <2>3, <3>8
        <4>2. addr \in Addresses /\ addr = p + Arrived - 1 /\ data = image[Arrived]
          BY <2>3, <3>5, <3>8, <4>1
        <4>3. mem' = [mem EXCEPT ![addr] = data]
          BY <3>1, <3>8
        <4>4. CASE addr = PlaceOf(i)
          <5>1. i = Arrived
            BY <2>3, <2>4, <3>4, <3>5, <4>2, <4>4
          <5>2. mem'[addr] = data
            BY <3>6, <4>2, <4>3
          <5>3. QED BY <4>2, <4>4, <5>1, <5>2
        <4>5. CASE addr # PlaceOf(i)
          <5>1. mem'[PlaceOf(i)] = mem[PlaceOf(i)]
            BY <2>4, <3>5, <3>6, <4>3, <4>5
          <5>2. QED BY <3>2, <4>5, <5>1
        <4>6. QED BY <4>4, <4>5
      <3>9. stb \in BOOLEAN
        BY DEF Typed
      <3>10. QED BY <3>7, <3>8, <3>9
    <2>5. CASE i \notin 1 .. Arrived
      <3>1. i = Arrived' /\ stb' /\ addr' = PlaceOf(Arrived')
        BY <2>2, <2>3, <2>5
      <3>2. QED BY <3>1
    <2>6. QED BY <2>4, <2>5
  <1>6. QED BY <1>4, <1>5

\* A program starts in the cycle after its run frame's second byte.
LEMMA NextStartsClean ==
  ASSUME Typed, Scripted, Following, Quiet, Current, Delivered, SocNext
  PROVE  StartsClean'
  <1>1. SUFFICES ASSUME fresh'
                 PROVE  /\ ~halted' /\ ~cpu'.valid /\ ~ready'
                        /\ ~lost' /\ InPlace' =>
                             \A i \in 1 .. Len(image') : mem'[PlaceOf(i)'] = image'[i]
    BY DEF StartsClean, PlaceOf
  <1>2. run' /\ ~run
    BY <1>1 DEF SocNext, History
  <1>3. Strobe /\ index = 1 /\ frame.type = "run" /\ frame = RunFrame(TRUE)
    BY <1>2, RunSteps
  <1>4. ~cpu.valid
    BY <1>2, <1>3 DEF Quiet
  <1>5. ~halted'
    BY <1>2 DEF SocNext, Halt
  <1>6. ~cpu'.valid
    BY <1>2, ProcessorSteps DEF SocNext, resetn
  <1>7. ~ready'
    BY <1>4 DEF SocNext, Memory, AddressPhase
  <1>8. /\ lost' = lost /\ InPlace' = InPlace /\ image' = image
        /\ \A i : PlaceOf(i)' = PlaceOf(i)
    <2>1. Waits
      BY <1>3, FlowSteps DEF SocNext
    <2>2. QED BY <2>1 DEF Waits, InPlace, PlaceOf
  <1>9. ASSUME ~lost, InPlace, NEW i \in 1 .. Len(image)
        PROVE  mem'[PlaceOf(i)] = image[i]
    <2>1. Done >= 1 /\ frame = Flow[Done]
      BY <1>3, <1>9 DEF Current
    <2>2. Done # 1
      BY <1>3, <2>1, DoneIs DEF RunFrame
    <2>3. Done >= 2 /\ Underway
      BY <1>3, <1>9, <2>1, <2>2, DoneIs DEF Underway
    <2>4. script = << >>
      <3>1. SUFFICES ASSUME script # << >> PROVE FALSE
        OBVIOUS
      <3>2. frame.type = "load"
        BY <2>3, <3>1, LoadFacts
      <3>3. QED BY <1>3, <3>2
    <2>5. Arrived = Len(image) /\ ~stb
      BY <1>3, <2>2, <2>3, <2>4, ArrivedIs DEF Arrived
    <2>6. mem' = mem
      BY <1>4, <2>5 DEF SocNext, Memory, AddressPhase
    <2>7. mem[PlaceOf(i)] = image[i]
      BY <1>9, <2>3, <2>5 DEF Delivered
    <2>8. QED BY <2>6, <2>7
  <1>10. QED BY <1>5, <1>6, <1>7, <1>8, <1>9

\* A program starts with nothing of the one before under way, not halted, and
\* with the image the host has sent in its place, unless the line lost a frame:
\* nothing the old program did last is in it (cli.py 286-304, soc.py 296-303).
THEOREM AlwaysStartsClean == SocSpec => []StartsClean
  <1>1. SocInit => CleanInv
    <2> SUFFICES ASSUME SocInit PROVE CleanInv
      OBVIOUS
    <2>1. /\ ~cpu.valid /\ index = -1 /\ fresh = FALSE /\ script = << >> /\ stb = FALSE
      BY Zenon DEF SocInit, LoaderInit, Nothing
    <2>2. ~Strobe
      BY <2>1 DEF Strobe
    <2>3. Done = 2
      BY InitScripted
    <2>4. Quiet /\ Current /\ ~Underway /\ StartsClean
      BY <2>1, <2>2, <2>3 DEF Quiet, Current, Underway, StartsClean
    <2>5. QED BY <2>4 DEF CleanInv, Delivered
  <1>2. Typed /\ Scripted /\ Following /\ CleanInv /\ [SocNext]_socVars => CleanInv'
    <2> SUFFICES ASSUME Typed, Scripted, Following, CleanInv, [SocNext]_socVars PROVE CleanInv'
      OBVIOUS
    <2>1. CASE SocNext
      BY <2>1, NextQuiet, NextCurrent, NextDelivered, NextStartsClean DEF CleanInv, SocNext
    <2>2. CASE UNCHANGED socVars
      <3>1. /\ UNCHANGED <<frame, index, stb, addr, run, script, lost, image, place, rest>>
            /\ UNCHANGED <<mem, ready, halted, cpu, fresh>>
        BY <2>2 DEF socVars, loaderVars, flow, registers
      <3>2. Strobe' = Strobe /\ Done' = Done /\ Flow' = Flow /\ Taken' = Taken
        BY <3>1 DEF Strobe, Done, Flow, Taken
      <3>3. Quiet' /\ Current'
        BY <3>1, <3>2 DEF CleanInv, Quiet, Current
      <3>4. /\ Underway' = Underway /\ Arrived' = Arrived /\ InPlace' = InPlace
            /\ \A i : PlaceOf(i)' = PlaceOf(i)
        BY <3>1, <3>2 DEF Underway, Arrived, InPlace, PlaceOf
      <3>5. Delivered'
        BY <3>1, <3>4 DEF CleanInv, Delivered
      <3>6. StartsClean'
        BY <3>1, <3>4 DEF CleanInv, StartsClean
      <3>7. QED BY <3>3, <3>5, <3>6 DEF CleanInv
    <2>3. QED BY <2>1, <2>2
  <1>3. CleanInv => StartsClean
    BY DEF CleanInv
  <1>4. QED BY <1>1, <1>2, <1>3, TypedAlways, FollowingAlways, PTL DEF SocSpec

=============================================================================
