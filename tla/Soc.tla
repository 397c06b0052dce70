--------------------------------- MODULE Soc ---------------------------------
(***************************************************************************)
(* hdl/soc.py: the memory one processor and the loader share, the halt and *)
(* the mailbox's registers, cycle by cycle, under a host that loads images *)
(* the way cli.py does: stop, load, run.  The processor is external and    *)
(* may access anything; a frame may be lost on the line.                   *)
(***************************************************************************)
EXTENDS Loader

CONSTANTS Images,      \* the images hosts load, each a sequence of words
          Places,      \* and the addresses they load them to
          Marks,       \* bound: words of the mailbox are numbered modulo this
          Gap          \* cycles between two frames, at least

\* With words of one byte the loader would have the port in every cycle.
ASSUME SocAssumption == Marks \in Nat /\ Marks > 1 /\ Gap \in Nat /\ Gap > 2 /\ WordBytes > 1

\* The host only makes frames whose numbers fit (protocol.py 231-232).
ASSUME HostAssumption ==
  /\ Images \subseteq Seq([1 .. WordBytes -> 0 .. Radix - 1]) /\ Places \subseteq Nat
  /\ \A i \in Images, p \in Places : \A f \in Range(LoadFrames(i, p)) : Sendable(f)

\* Addresses below MMIO_BASE are words of the memory; of the registers these do
\* something.
CONTROL == -1
RX_DATA == -2
Scribble == Zeros(WordBytes)     \* what programs write
Nothing == [valid |-> FALSE, at |-> 0, write |-> FALSE]

VARIABLES script, lost,       \* frames still to come in this flow, and whether any was lost
          image, place,       \* what it loads, and where to
          rest,               \* cycles until the next frame can come
          mem, ready, readData, halted, flush,
          cpu,                \* the processor's memory interface
          head, empty,        \* the mailbox: its next word's number, and r_empty
          fresh,              \* history: the program has just been started
          waited,             \* history: cycles an access has waited
          got                 \* history: the word the program should read next

flow == <<script, lost, image, place, rest>>
socVars == <<loaderVars, flow, mem, ready, readData, halted, flush, cpu, head, empty, fresh, waited, got>>

SocInit == /\ LoaderInit
           /\ script = << >> /\ lost = FALSE /\ image = << >> /\ place = 0 /\ rest = 0
           /\ mem = [a \in 0 .. MemWords - 1 |-> Scribble]
           /\ ready = FALSE /\ readData = Scribble /\ halted = FALSE /\ flush = FALSE
           /\ cpu = Nothing /\ head = 0 /\ empty = TRUE
           /\ fresh = FALSE /\ waited = 0 /\ got = 0

-----------------------------------------------------------------------------
LoadFlow(words, at) == <<RunFrame(FALSE)>> \o LoadFrames(words, at) \o <<RunFrame(TRUE)>>

\* cli.py's host load, frame by frame; the next may come Gap cycles after one.
Host == \/ /\ ~Strobe /\ rest = 0 /\ script = << >>
           /\ image' \in Images /\ place' \in Places /\ lost' = FALSE
           /\ script' = LoadFlow(image', place')
           /\ UNCHANGED <<rest, frame, index>>
        \/ /\ ~Strobe /\ rest = 0 /\ script # << >>
           /\ script' = Tail(script)
           /\ \/ frame' = Head(script) /\ index' = 0 /\ UNCHANGED <<lost, rest>>
              \/ lost' = TRUE /\ rest' = Gap /\ UNCHANGED <<frame, index>>
           /\ UNCHANGED <<image, place>>
        \/ /\ ~Strobe /\ rest' = IF rest > 0 THEN rest - 1 ELSE 0
           /\ UNCHANGED <<frame, index, script, lost, image, place>>
        \/ /\ Strobe
           /\ index' = IF LastByte THEN -1 ELSE index + 1
           /\ rest' = IF LastByte THEN Gap ELSE rest
           /\ UNCHANGED <<frame, script, lost, image, place>>

-----------------------------------------------------------------------------
resetn == run /\ ~halted
InMemory == cpu.at >= 0

\* A mistake: the loader's strobe does not put the access off.
WithoutTheLoader == cpu.valid /\ ~ready
AddressPhase == cpu.valid /\ ~ready /\ ~stb

MmioWrite(at) == AddressPhase /\ cpu.write /\ cpu.at = at

\* A mistake: popped when the address is presented.
PopsEarly == AddressPhase /\ ~empty /\ cpu.at = RX_DATA
Pop == ready /\ ~empty /\ cpu.at = RX_DATA

Memory ==
  /\ ready' = AddressPhase
  /\ readData' = IF cpu.valid /\ InMemory THEN mem[cpu.at] ELSE readData
  /\ mem' = IF stb THEN [mem EXCEPT ![addr] = data]
            ELSE IF AddressPhase /\ cpu.write /\ InMemory THEN [mem EXCEPT ![cpu.at] = Scribble]
            ELSE mem

\* A mistake: a halt that outlasts the run it came in.
HaltStays == halted' = (halted \/ MmioWrite(CONTROL))
Halt == halted' = (run /\ (halted \/ MmioWrite(CONTROL)))

\* The processor keeps an access up until it is ready; its reset takes it back.
Processor == cpu' \in IF ~resetn \/ (cpu.valid /\ ready) THEN {[cpu EXCEPT !.valid = FALSE]}
                      ELSE IF cpu.valid THEN {cpu}
                      ELSE {cpu} \union [valid : {TRUE}, at : (0 .. MemWords - 1) \union {CONTROL, RX_DATA}, write : BOOLEAN]

\* Words come when they like; a flush or a pop takes them.
Next1(k) == (k + 1) % Marks
Mailbox == /\ flush' = MmioWrite(RX_DATA)
           /\ head' = IF flush THEN 0 ELSE IF Pop THEN Next1(head) ELSE head
           /\ empty' \in IF flush THEN {TRUE} ELSE IF empty \/ Pop THEN BOOLEAN ELSE {FALSE}

Reads == resetn /\ cpu.valid /\ ready /\ cpu.at = RX_DATA /\ ~empty
History == /\ fresh' = (run' /\ ~run)
           /\ waited' = IF cpu.valid /\ ~ready THEN waited + 1 ELSE 0
           /\ got' = IF flush THEN 0 ELSE IF Reads THEN Next1(got) ELSE IF ~resetn /\ ~ready THEN head ELSE got

SocNext == Host /\ LoaderCycle /\ Memory /\ Halt /\ Processor /\ Mailbox /\ History

SocSpec == SocInit /\ [][SocNext]_socVars

-----------------------------------------------------------------------------
\* The loader and the processor have one memory between them: an access put off
\* by a load still happens once, whole, and is answered with what was there at
\* that moment ("a mistimed load can never silently corrupt a running program",
\* soc.py 9-12, 236-268).
Shared == INSTANCE AtomicMemory WITH
            Accesses <- [at : 0 .. MemWords - 1, write : BOOLEAN, data : {Scribble}],
            access <- IF cpu.valid /\ InMemory THEN <<[at |-> cpu.at, write |-> cpu.write, data |-> Scribble]>> ELSE << >>,
            answer <- IF cpu.valid /\ InMemory /\ ready THEN <<readData>> ELSE << >>
IsAtomicMemory == Shared!Spec

\* "Every access takes exactly one cycle", one more when a load comes first: the
\* loader never has the port for two cycles together (soc.py 236-238, loader.py 84).
AnsweredSoon == waited <= 2

\* A frame is written whole or, if any of it lies outside the memory, not at all
\* (loader.py 34-37, 75-109).
Wanted(f) == IF f.at \div WordBytes + Len(f.words) > MemWords THEN << >>
             ELSE [i \in 1 .. Len(f.words) |-> <<f.at \div WordBytes + i - 1, f.words[i]>>]
WrittenWhole == ~Strobe /\ frame.type = "load" => loaded = Wanted(frame)

\* A program starts with nothing of the one before under way, not halted, and
\* with the image the host has sent in its place, unless the line lost a frame:
\* nothing the old program did last is in it (cli.py 286-304, soc.py 296-303).
InPlace == place \div WordBytes + Len(image) <= MemWords
StartsClean == fresh => /\ ~halted /\ ~cpu.valid /\ ~ready
                        /\ ~lost /\ InPlace => \A i \in 1 .. Len(image) : mem[place \div WordBytes + i - 1] = image[i]

\* The program reads the mailbox's words one by one, none twice and none left
\* out: only a reset can take a word it has not read, and one at most
\* (soc.py 326-335).
ReadsEachWord == head = got \/ (~resetn /\ head = Next1(got))
=============================================================================
