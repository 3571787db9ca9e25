---------------------------------- MODULE Dmac ---------------------------------
(***************************************************************************)
(* The DMA controller (core/dmac.cpp) between memory, the command port of    *)
(* the GPU and the interrupt controller, with the software that uses them.   *)
(*                                                                         *)
(* Dmac::Write does a whole transfer before it returns, and the CPU waits.   *)
(* Here each turn of its loops is a step, since nothing in the code bounds   *)
(* them; pc says which loop runs.  In between software draws: it sends       *)
(* packets word by word, by block transfers or through an ordering table,    *)
(* moves pictures, sets DICR and I_MASK, and handles interrupts.             *)
(*                                                                         *)
(* Software keeps to what the hardware asks for: it sends whole packets, it  *)
(* moves all of a picture, it walks a table that it has cleared, and it has  *)
(* a place in memory for each of these.                                      *)
(***************************************************************************)
EXTENDS Gpu, Intc, FiniteSets, SequencesExt

CONSTANTS
    RamWords,       \* words of memory
    AddressWords,   \* words that the 24 bits of an address reach
    Table,          \* the addresses of the ordering table
    Node,           \* the packets that can be put in it, by the addresses of their
                    \* entries: the words after these, and the commands they are
    Packet,         \* the packets that software sends itself, by the addresses of
                    \* their first words: the same, whether they are stored upwards or
                    \* downwards, and the words to read after them
    Buffer,         \* where transfers put what they read
    DicrSetting     \* what software writes to DICR

Address == 0..(AddressWords - 1)
Channel == {"MdecIn", "Gpu", "Cdrom", "Spu", "Otc"}

\* Where the words of a packet are.
Place(at, i) == at + (i - 1) * Packet[at].step

ASSUME DmacAssumption ==
    /\ RamWords \in Nat \ {0} /\ AddressWords \in Nat /\ AddressWords >= 2 * RamWords
    /\ \E low, high \in 0..(RamWords - 1) : low <= high /\ Table = low..high
    /\ \A at \in DOMAIN Node : at \in 0..(RamWords - 1) /\ Node[at].words \in Seq(Word)
    /\ \A at \in DOMAIN Packet :
         /\ at \in 0..(RamWords - 1)
         /\ Packet[at].words \in Seq(Word) /\ Packet[at].reads \in Nat /\ Packet[at].step \in {1, -1}
         /\ \A i \in DOMAIN Packet[at].words : Place(at, i) \in 0..(RamWords - 1)
    /\ Buffer \in Address
    /\ DicrSetting \subseteq [force : BOOLEAN, enable : SUBSET Channel, master : BOOLEAN]
    /\ "Dma" \in Interrupt

\* The slots of the table are walked from the highest to the lowest.
Top == CHOOSE a \in Table : \A b \in Table : b <= a

VARIABLES
    gpu, intc,
    dicr,           \* m_dicr
    ram,            \* m_ram
    pc,             \* the loop that Dmac::Write is in
    failed,         \* whether an Error has ended the core thread
    dma,            \* the locals of its loops
    handler,        \* how far the interrupt handler is
    todo,           \* the addresses of the words that software has still to send
    toread,         \* how many words of a picture it has still to read
    due,            \* the commands sent that the GPU has still to take
    table           \* the entries that a walk of the table is to meet, in their order

vars == <<gpu, intc, dicr, ram, pc, failed, dma, handler, todo, toread, due, table>>
software == <<handler, todo, toread, due, table>>

\* A word of memory, as GP0 takes it and as an entry of a list.
Memory == [gp0 : Word, count : Nat, next : Address]

Pixels == [command |-> "None", x |-> 0, y |-> 0]
Data(word) == [gp0 |-> word, count |-> 0, next |-> 0]
Entry(count, next) == [gp0 |-> Pixels, count |-> count, next |-> next]

\* Bit 23 of an entry, which is a part of its address.
IsLast(next) == next >= AddressWords \div 2

\* The lowest 21 bits of an address.
InRam(addr) == addr % RamWords

NoDma == [channel |-> "Gpu", addr |-> 0, words |-> 0, step |-> 1, toRam |-> FALSE, next |-> 0]

\* What software has put in memory.
Stored(a) ==
    IF \E at \in DOMAIN Node : a - at \in DOMAIN Node[at].words
    THEN LET at == CHOOSE at \in DOMAIN Node : a - at \in DOMAIN Node[at].words
         IN  Node[at].words[a - at]
    ELSE IF \E at \in DOMAIN Packet : \E i \in DOMAIN Packet[at].words : Place(at, i) = a
    THEN LET at == CHOOSE at \in DOMAIN Packet : \E i \in DOMAIN Packet[at].words : Place(at, i) = a
         IN  Packet[at].words[(a - at) * Packet[at].step + 1]
    ELSE Pixels

-----------------------------------------------------------------------------
(* What software keeps to.                                                  *)

\* The words that the pixels of a picture are, by the word with its size.
PicturePairs(size) == (Extent(size.x, VramWidth) * Extent(size.y, VramHeight) + 1) \div 2

\* The words that belong to the command that words[i] is.
Following(words, i) ==
    Parameters[words[i].command] + IF words[i].command = "Load" THEN PicturePairs(words[i + 2]) ELSE 0

\* From the word `first' on, words are these commands, each with all that belongs to it.
Framed(words, first, commands) ==
    \E start \in [1..(Len(commands) + 1) -> 1..(Len(words) + 1)] :
        /\ start[1] = first /\ start[Len(commands) + 1] = Len(words) + 1
        /\ \A j \in DOMAIN commands :
             /\ start[j] + Parameters[commands[j]] < start[j + 1]
             /\ words[start[j]].command = commands[j]
             /\ start[j + 1] = start[j] + 1 + Following(words, start[j])

\* What has been asked for is read before anything else is sent.
StoresLast(commands) == \A j \in DOMAIN commands : commands[j] = "Store" => j = Len(commands)

EndsInStore(commands) == commands # << >> /\ Last(commands) = "Store"

ASSUME PacketAssumption ==
    /\ \A at \in DOMAIN Packet :
         LET p == Packet[at]
         IN  /\ p.commands \in Seq(Command) /\ Framed(p.words, 1, p.commands)
             /\ StoresLast(p.commands)
             /\ p.reads = IF EndsInStore(p.commands) THEN PicturePairs(Last(p.words)) ELSE 0
    /\ \A at \in DOMAIN Node :
         /\ Node[at].commands \in Seq(Command)
         /\ Framed(Node[at].words, 1, Node[at].commands)
         /\ \A j \in DOMAIN Node[at].commands : Node[at].commands[j] # "Store"

\* What stays as it is, ...
NodeWords == UNION {{at + k : k \in DOMAIN Node[at].words} : at \in DOMAIN Node}
PacketWords == UNION {{Place(at, i) : i \in DOMAIN Packet[at].words} : at \in DOMAIN Packet}
Fixed == NodeWords \cup PacketWords

\* ... and what transfers write.
BufferWords ==
    {Buffer, Buffer + 1} \cup UNION {Buffer..(Buffer + Packet[at].reads - 1) : at \in DOMAIN Packet}

ASSUME LayoutAssumption ==
    /\ NodeWords \subseteq 0..(RamWords - 1) /\ BufferWords \subseteq 0..(RamWords - 1)
    /\ \A at \in DOMAIN Node : \A k \in DOMAIN Node[at].words : Stored(at + k) = Node[at].words[k]
    /\ \A at \in DOMAIN Packet : \A i \in DOMAIN Packet[at].words :
         Stored(Place(at, i)) = Packet[at].words[i]
    /\ Table \cap DOMAIN Node = {} /\ Fixed \cap BufferWords = {}
    /\ (Table \cup DOMAIN Node) \cap (Fixed \cup BufferWords) = {}

-----------------------------------------------------------------------------
Init ==
    /\ gpu = BootGpu /\ intc = BootIntc
    /\ dicr = [force |-> FALSE, enable |-> {}, master |-> FALSE, flag |-> {}, irq |-> FALSE]
    /\ ram = [a \in 0..(RamWords - 1) |-> Data(Stored(a))]
    /\ pc = "software" /\ failed = FALSE /\ dma = NoDma /\ handler = "no"
    /\ todo = << >> /\ toread = 0 /\ due = << >>
    /\ table = << >>

-----------------------------------------------------------------------------
(* Interrupts of the controller.                                            *)

\* UpdateInterrupts: the irq bit of DICR, whose rise asserts the interrupt.
Irq(d) == d.force \/ (d.master /\ d.enable \cap d.flag # {})

UpdateInterrupts(d) ==
    /\ dicr' = [d EXCEPT !.irq = Irq(d)]
    /\ intc' = IF ~dicr.irq /\ Irq(d) THEN AssertInterrupt(intc, "Dma") ELSE intc

\* Fault: what the flags were still counts.
WriteDicrStale(setting, acknowledged) ==
    UpdateInterrupts([dicr EXCEPT !.force = setting.force, !.enable = setting.enable,
                                  !.master = setting.master])

\* Dmac::Write, DICR.
WriteDicr(setting, acknowledged) ==
    UpdateInterrupts([dicr EXCEPT !.force = setting.force, !.enable = setting.enable,
                                  !.master = setting.master, !.flag = @ \ acknowledged])

\* The end of Dmac::Write, after a transfer.
Complete(channel) ==
    /\ pc' = "software" /\ dma' = NoDma
    /\ IF channel \in dicr.enable
       THEN UpdateInterrupts([dicr EXCEPT !.flag = @ \cup {channel}])
       ELSE UNCHANGED <<dicr, intc>>

-----------------------------------------------------------------------------
(* What GP0 does with a word that software or a transfer sends.             *)

\* A command that is taken leaves `due'; one that was not due stays there as "None".
Taken(word) ==
    IF ~TakesCommand(gpu) THEN due
    ELSE IF due # << >> /\ Head(due) = word.command THEN Tail(due)
    ELSE <<"None">> \o due

SendGp0(word) ==
    IF Gp0Fails(gpu, word)
    THEN failed' = TRUE /\ UNCHANGED <<gpu, due>>
    ELSE gpu' = Gp0(gpu, word) /\ due' = Taken(word) /\ UNCHANGED failed

\* Emulator::WriteWord, when addr is not masked: above memory there is nothing that a
\* transfer may write.
WriteRam(addr, value) ==
    /\ failed' = (addr >= RamWords)
    /\ ram' = [a \in DOMAIN ram |-> IF a = addr THEN value ELSE ram[a]]

-----------------------------------------------------------------------------
(* The loops of Dmac::Write.                                                *)

\* Fault: the last entry is like the others.
OtcStepEndless ==
    /\ pc = "otc"
    /\ WriteRam(dma.addr, Entry(0, (dma.addr - 1) % AddressWords))
    /\ IF dma.words = 1
       THEN Complete("Otc")
       ELSE /\ dma' = [dma EXCEPT !.addr = (@ - 1) % AddressWords, !.words = @ - 1]
            /\ UNCHANGED <<pc, dicr, intc>>
    /\ UNCHANGED <<gpu, software>>

\* StartTransferOtc, one turn.
OtcStep ==
    /\ pc = "otc"
    /\ IF dma.words = 1
       THEN /\ WriteRam(dma.addr, Entry(0, AddressWords - 1))
            /\ Complete("Otc")
       ELSE /\ WriteRam(dma.addr, Entry(0, (dma.addr - 1) % AddressWords))
            /\ dma' = [dma EXCEPT !.addr = (@ - 1) % AddressWords, !.words = @ - 1]
            /\ UNCHANGED <<pc, dicr, intc>>
    /\ UNCHANGED <<gpu, software>>

\* Whether a block is over after a word, or goes on.
NextWord ==
    IF dma.words = 1
    THEN Complete(dma.channel)
    ELSE /\ dma' = [dma EXCEPT !.addr = (@ + dma.step) % AddressWords, !.words = @ - 1]
         /\ UNCHANGED <<pc, dicr, intc>>

\* StartTransferGpu, Block: one turn of a transfer to the GPU ...
BlockToGpu ==
    /\ pc = "block" /\ dma.channel = "Gpu" /\ ~dma.toRam
    /\ SendGp0(ram[InRam(dma.addr)].gp0)
    /\ NextWord
    /\ UNCHANGED <<ram, handler, todo, toread, table>>

\* ... and from it.
BlockFromGpu ==
    /\ pc = "block" /\ dma.channel = "Gpu" /\ dma.toRam
    /\ gpu' = GpuRead(gpu)
    /\ ram' = [ram EXCEPT ![InRam(dma.addr)] = Data(Pixels)]
    /\ NextWord
    /\ UNCHANGED <<failed, software>>

\* StartTransferCdrom and StartTransferSpu, one turn.
BlockOther ==
    /\ pc = "block" /\ dma.channel \in {"Cdrom", "Spu"}
    /\ IF dma.channel = "Cdrom"
       THEN WriteRam(dma.addr, Data(Pixels))
       ELSE UNCHANGED <<failed, ram>>
    /\ NextWord
    /\ UNCHANGED <<gpu, software>>

\* StartTransferGpu, LinkedList: an entry is read, ...
ListEntry ==
    /\ pc = "entry"
    /\ LET entry == ram[InRam(dma.addr)]
       IN  dma' = [dma EXCEPT !.words = entry.count, !.next = entry.next]
    /\ pc' = "list"
    /\ UNCHANGED <<gpu, intc, dicr, ram, failed, software>>

\* ... the words after it are sent, ...
ListWord ==
    /\ pc = "list" /\ dma.words # 0
    /\ SendGp0(ram[InRam(dma.addr + 1)].gp0)
    /\ dma' = [dma EXCEPT !.addr = (@ + 1) % AddressWords, !.words = @ - 1]
    /\ UNCHANGED <<intc, dicr, ram, pc, handler, todo, toread, table>>

\* ... and the walk goes on, unless the entry was the last.
ListNext ==
    /\ pc = "list" /\ dma.words = 0
    /\ IF IsLast(dma.next)
       THEN Complete("Gpu")
       ELSE pc' = "entry" /\ dma' = [dma EXCEPT !.addr = dma.next] /\ UNCHANGED <<dicr, intc>>
    /\ UNCHANGED <<gpu, ram, failed, software>>

DmaStep ==
    OtcStep \/ BlockToGpu \/ BlockFromGpu \/ BlockOther \/ ListEntry \/ ListWord \/ ListNext

-----------------------------------------------------------------------------
(* Software, between its interrupts.                                        *)

Running == pc = "software" /\ handler = "no"

\* Software starts with a packet.
TakePacket ==
    /\ Running /\ todo = << >> /\ toread = 0
    /\ \E at \in DOMAIN Packet :
         /\ todo' = [i \in DOMAIN Packet[at].words |-> Place(at, i)]
         /\ toread' = Packet[at].reads
         /\ due' = Packet[at].commands
    /\ UNCHANGED <<gpu, intc, dicr, ram, pc, failed, dma, handler, table>>

\* It writes a word of it to GP0, ...
WriteGp0 ==
    /\ Running /\ todo # << >>
    /\ SendGp0(ram[Head(todo)].gp0)
    /\ todo' = Tail(todo)
    /\ UNCHANGED <<intc, dicr, ram, pc, dma, handler, toread, table>>

\* ... reads a word of the picture it has asked for, ...
ReadGpu ==
    /\ Running /\ todo = << >> /\ toread > 0
    /\ gpu' = GpuRead(gpu) /\ toread' = toread - 1
    /\ UNCHANGED <<intc, dicr, ram, pc, failed, dma, handler, todo, due, table>>

Block(channel, addr, words, step, toRam) ==
    /\ pc' = "block"
    /\ dma' = [channel |-> channel, addr |-> addr, words |-> words, step |-> step,
               toRam |-> toRam, next |-> 0]

\* ... or has all of the rest moved by a transfer, from memory ...
SendBlock ==
    /\ Running /\ todo # << >>
    /\ Block("Gpu", Head(todo), Len(todo), IF Last(todo) < Head(todo) THEN -1 ELSE 1, FALSE)
    /\ todo' = << >>
    /\ UNCHANGED <<gpu, intc, dicr, ram, failed, handler, toread, due, table>>

\* ... or to it.
ReadBlock ==
    /\ Running /\ todo = << >> /\ toread > 0
    /\ Block("Gpu", Buffer, toread, 1, TRUE)
    /\ toread' = 0
    /\ UNCHANGED <<gpu, intc, dicr, ram, failed, handler, todo, due, table>>

\* The other channels: the Mdec moves nothing.
StartOther ==
    /\ Running
    /\ \/ Complete("MdecIn")
       \/ \E channel \in {"Cdrom", "Spu"} :
            Block(channel, Buffer, 2, 1, channel = "Cdrom") /\ UNCHANGED <<dicr, intc>>
    /\ UNCHANGED <<gpu, ram, failed, software>>

\* The ordering table is cleared, for packets that are made anew.
ClearTable ==
    /\ Running
    /\ pc' = "otc"
    /\ dma' = [NoDma EXCEPT !.channel = "Otc", !.addr = Top, !.words = Cardinality(Table)]
    /\ ram' = [a \in DOMAIN ram |-> IF a \in DOMAIN Node THEN Data(Pixels) ELSE ram[a]]
    /\ table' = [i \in 1..Cardinality(Table) |-> Top + 1 - i]
    /\ UNCHANGED <<gpu, intc, dicr, failed, handler, todo, toread, due>>

\* A packet is put first in a slot.
AddPacket ==
    /\ Running
    /\ \E i \in DOMAIN table, at \in DOMAIN Node :
         /\ table[i] \in Table /\ at \notin ToSet(table)
         /\ ram' = [a \in DOMAIN ram |->
                      IF a = table[i] THEN [ram[a] EXCEPT !.next = at]
                      ELSE IF a = at THEN Entry(Len(Node[at].words), ram[table[i]].next)
                      ELSE ram[a]]
         /\ table' = InsertAt(table, i + 1, at)
    /\ UNCHANGED <<gpu, intc, dicr, pc, failed, dma, handler, todo, toread, due>>

\* The commands of the table, in the order of the walk.
Commands(a) == IF a \in DOMAIN Node THEN Node[a].commands ELSE << >>
Drawing == FlattenSeq([i \in DOMAIN table |-> Commands(table[i])])

\* The table is sent.
SendTable ==
    /\ Running /\ table # << >> /\ todo = << >> /\ toread = 0
    /\ pc' = "entry" /\ dma' = [NoDma EXCEPT !.addr = Top]
    /\ due' = Drawing
    /\ UNCHANGED <<gpu, intc, dicr, ram, failed, handler, todo, toread, table>>

\* GP1(00h) gives up what was being sent or read, and GP1(01h) a command.
GiveUp ==
    /\ Running
    /\ \/ gpu' = Reset(gpu)
       \/ gpu.mode = "Fifo" /\ gpu' = ClearFifo(gpu)
    /\ todo' = << >> /\ toread' = 0 /\ due' = << >>
    /\ UNCHANGED <<intc, dicr, ram, pc, failed, dma, handler, table>>

SetDicr ==
    /\ Running
    /\ \E setting \in DicrSetting : WriteDicr(setting, {})
    /\ UNCHANGED <<gpu, ram, pc, failed, dma, software>>

SetMask ==
    /\ Running
    /\ \E mask \in {{}, Interrupt} : intc' = WriteMask(intc, mask)
    /\ UNCHANGED <<gpu, dicr, ram, pc, failed, dma, software>>

Software ==
    \/ TakePacket \/ WriteGp0 \/ ReadGpu \/ SendBlock \/ ReadBlock \/ StartOther
    \/ ClearTable \/ AddPacket \/ SendTable \/ GiveUp \/ SetDicr \/ SetMask

-----------------------------------------------------------------------------
(* Interrupts.                                                              *)

\* Other devices, while the CPU runs.
OtherInterrupt ==
    /\ pc = "software"
    /\ \E i \in Interrupt \ {"Dma"} : intc' = AssertInterrupt(intc, i)
    /\ UNCHANGED <<gpu, dicr, ram, pc, failed, dma, software>>

\* The CPU looks at the line between instructions.
EnterHandler ==
    /\ Running /\ intc.line
    /\ handler' = "entered"
    /\ UNCHANGED <<gpu, intc, dicr, ram, pc, failed, dma, todo, toread, due, table>>

\* The handler acknowledges all that it sees, ...
AcknowledgeStatus ==
    /\ handler = "entered"
    /\ LET seen == intc.status \cap intc.mask
       IN  /\ intc' = WriteStatus(intc, Interrupt \ seen)
           /\ handler' = IF "Dma" \in seen THEN "acknowledged" ELSE "no"
    /\ UNCHANGED <<gpu, dicr, ram, pc, failed, dma, todo, toread, due, table>>

\* ... and for Dma then the channels.
AcknowledgeDicr ==
    /\ handler = "acknowledged"
    /\ WriteDicr([force |-> FALSE, enable |-> dicr.enable, master |-> dicr.master], dicr.flag)
    /\ handler' = "no"
    /\ UNCHANGED <<gpu, ram, pc, failed, dma, todo, toread, due, table>>

Handler == EnterHandler \/ AcknowledgeStatus \/ AcknowledgeDicr

Next == ~failed /\ (DmaStep \/ Software \/ OtherInterrupt \/ Handler)

Spec == Init /\ [][Next]_vars

\* The CPU runs, and so a transfer gets on, an interrupt is taken, and its handler
\* comes to its end.
FairSpec ==
    /\ Spec
    /\ WF_vars(~failed /\ DmaStep)
    /\ SF_vars(~failed /\ EnterHandler)
    /\ WF_vars(~failed /\ AcknowledgeStatus) /\ WF_vars(~failed /\ AcknowledgeDicr)

-----------------------------------------------------------------------------
(* Properties.                                                              *)

DicrState ==
    [force : BOOLEAN, enable : SUBSET Channel, master : BOOLEAN, flag : SUBSET Channel, irq : BOOLEAN]

TypeOK ==
    /\ gpu \in GpuState /\ intc \in IntcState /\ dicr \in DicrState
    /\ ram \in [0..(RamWords - 1) -> Memory]
    /\ pc \in {"software", "otc", "block", "entry", "list"} /\ failed \in BOOLEAN
    /\ dma \in [channel : Channel, addr : Address, words : Nat, step : {1, -1}, toRam : BOOLEAN,
                next : Address]
    /\ handler \in {"no", "entered", "acknowledged"}
    /\ todo \in Seq(0..(RamWords - 1)) /\ toread \in Nat
    /\ table \in Seq(Table \cup DOMAIN Node)

\* Gp0 knows the words of a command only from its counts.  Whatever way software's
\* packets take, GP0 by word, a block in either direction, the ordering table, pictures of
\* an odd number of pixels or of size 0 in between, it has taken exactly the commands that
\* were sent, in their order, and is between two of them when nothing is left to send.
InStep ==
    /\ ~failed
    /\ pc = "software" /\ todo = << >> /\ toread = 0 =>
         due = << >> /\ gpu.mode = "Fifo" /\ ~gpu.receiving

\* The transfers of Gp0 and GpuRead go through their rectangle row by row, from wherever
\* the transfer before was left.
RectanglesInOrder == InRasterOrder(gpu)

\* Only a rise of the irq bit asserts the interrupt: while the bit is set, the interrupt is
\* asserted until a handler acknowledges it, so that no completion goes unnoticed.
SignalledUntilHandled == dicr.irq /\ handler # "acknowledged" => "Dma" \in intc.status

\* Dmac::Write, for which the whole emulator waits, comes to its end: the table that
\* StartTransferOtc builds has an end for every packet that was put in.
TransfersEnd == pc # "software" ~> pc = "software"

\* An interrupt of the controller is handled, unless software masks it.
CompletionsAreHandled == dicr.irq ~> (~dicr.irq \/ "Dma" \notin intc.mask)

\* ReadVram asserts that its column and its row are in VRAM: those of the two pixels that
\* GpuRead reads next have to be.
ReadsWithinVram ==
    gpu.mode = "Read" =>
        \A pixel \in {gpu, NextPixel(gpu, 0)} :
            Column(pixel) < VramWidth /\ Row(pixel) < VramHeight
=============================================================================
