# btpsx: a TLA+ model of the emulator

btpsx emulates a PlayStation. These modules model the parts of it that depend on
time, on the order of events and on threads; TLC checks them on small
instances and TLAPS proves the main results for every value of the constants.
Paths are relative to the repository; `core/x` means `src/core/x`.

## 1. The system

### Threads

| thread | runs | shares |
|---|---|---|
| main (SDL) | `main.cpp` 242-324: one SDL event, then one picture, for ever | `running` (atomic), the swapchain, the key state of the pad, and, on a dropped file, all of RAM and the CPU |
| core | `RunCoreThread`: `Emulator::RunFrame` while `running` | the swapchain, the sound ring |
| audio (SDL) | `AudioCallback`, whenever the device wants samples | the sound ring |

Everything else, the CPU, the devices and the scheduler, belongs to the core
thread and is sequential: there the difficulty is not interleaving but the order
in which callbacks fire and what they do to the queue they were called from.

### Components

| component | state | operations | what makes it correct |
|---|---|---|---|
| event scheduler (`core/scheduler.*`) | sorted list of queued events, one entry per type, the present time, a cached distance to the next event | `Tick`, `AddEvent`, `RemoveEvent`, `RescheduleEvent`, `UpdateEvents` | no event late, none lost, `Idle` never reached |
| run loop (`core/emulator.cpp`) | `m_frame_finished` | `RunFrame`, callbacks of `Vblank` and `Spu` | every frame ends; a stop request is noticed |
| CD controller (`core/cdc.*`) | status, drive state, mode, three FIFOs, pending command and second response, two timecodes, interrupt enables and flags | register reads and writes, `ReadDma`, three callbacks | registers agree with what is queued; every command is answered; software that keeps the protocol meets no Error |
| picture hand-over (`common/swapchain.hpp`) | two buffers, an index, a mutex | `ProducerBuffer`, `Swap`, `WithConsumer` | no data race, no torn picture |
| sound ring (`common/cbuf.hpp`) | array, two atomic indices | `Enqueue`, `Dequeue`, `Size`, `Availible` | no byte written while it is read; samples taken in order |
| interrupt controller (`core/intc.*`) | status, mask | assert, acknowledge, mask | the CPU's line is the disjunction of the enabled status bits |
| joypad port and pad (`core/io.*`, `core/joypad/`) | status, transfer in progress; position in the poll, keys | `Tx`, `Rx`, control; `Transmit`, `SetKeystate` | every byte acknowledged; software and pad at the same position |
| DMA (`core/dmac.*`) | seven channels, DICR | register writes that run whole transfers | interrupt on the rising edge; transfers end |
| timers (`core/timer.*`) | counter, prescaler, mode, target | `Tick`, reads and writes | one interrupt per match. Not ticked by `RunFrame` |
| SPU voices (`core/spu.*`) | 24 voices, sound RAM, the transfer address | key on and off, writes to sound RAM, `Tick` | no voice reads outside sound RAM; the envelope goes through its phases; every note ends |
| GPU port (`core/gpu.*`) | command FIFO, transfer, drawing state | `Gp0`, `Gp1`, `GpuRead` | each command executed with all its parameters; transfers end |
| block cache (`core/cpu/recompiler.cpp`, `code_buffer.*`) | blocks, a list of blocks per page, code buffer | look-up, compile, invalidate | no stale block is entered |
| CPU (`core/cpu/core.*`, `interpreter.cpp`, `decode.*`) | registers, program counters, delay slot, COP0 | one instruction of the interpreter, exceptions, the interrupt line | it is the reference for the next one |
| recompiler emitters (`core/cpu/recompiler.cpp`) | none of their own: x86 code that works on the CPU's object | one emitter for each instruction | recompiled code does what the interpreter does |
| GTE, decoder, disassembler, disc image, SDL set-up, bit helpers | | | pure functions or input/output |

Components call each other directly. Guest code, in blocks, reaches the devices
through the bus (`core/emulator.cpp` 238-639); devices queue events in the
scheduler and raise interrupt bits; the scheduler calls back into the devices
between two blocks. `Error()` throws, nothing catches it on the core thread,
and the process ends: in the models `pc = "crashed"`.

### What is hard here

 * `UpdateEvents` pops a `Once` event without recomputing the cached target. The
   loop goes on with a target that is too early and fires the next event before
   its time, and the next, until a periodic event's reschedule recomputes the
   cache. Whether that chain can reach `Idle`, how early an event can be, and
   whether one can be lost when a callback queues another event, is not visible
   in any one function.
 * The CD controller keeps the same facts twice: in its registers and in the
   scheduler's queue.
 * The core thread copies a picture without the mutex and swaps with it.
 * The sound ring has no lock, wraps in two places, and counts bytes in one place
   and elements in another.
 * The CPU exists twice. The recompiler, which is the one that runs, has an emitter with
   two to five paths for every instruction, depending on which registers are
   `zero` or the same; in a block `m_pc`, `m_next_pc` and `m_branch_delay` are stale; and what depends on the
   place of an instruction is computed when it is compiled. Nothing compares it with the interpreter.
 * A voice follows marks in memory that software writes while it plays, and nothing checks its
   address.

PROJECT.json lists each of these at its line with the properties that watch it, or says why none does.

### Assertions

The build files set no build type, so that `assert` is compiled in where the
build does not say otherwise. But the program cannot be built or run that way:
`core/cpu/recompiler.cpp` 143 asserts something of `OpFlags::NONE`, which does not exist;
`Recompiler::Run` and `AddEvent` make assertions that fail, see the
findings. The models therefore take the program as built with `NDEBUG`, and treat
what an assertion claims as a property to check.

## 2. Modules

| module | models | |
|---|---|---|
| `Scheduler` | `core/scheduler.*` | operators on a scheduler record, called by the two modules below |
| `Emulator` | `RunCoreThread`, `RunFrame`, `UpdateEvents`, all callbacks | devices reduced to the scheduler calls they make |
| `Cdc` | the CD controller, on the scheduler and the run loop | shown to be an implementation of `Emulator` |
| `FrameRegister` | what the swapchain promises | abstract |
| `Swapchain` | the swapchain, the `Vblank` callback, the picture loop | implements `FrameRegister` |
| `BoundedFifo` | what the ring promises about places | abstract |
| `Cbuf` | the ring, its producer `Spu::Tick`, its consumer `AudioCallback` | implements `BoundedFifo` |
| `Io` | joypad port, digital pad, polling software, the key events of `main.cpp` | the scheduler reduced to the acknowledges that are queued |
| `Gpu` | GP0 and GP1 as parsers, transfers to and from VRAM | operators on a record, called by `Dmac` |
| `Intc` | the interrupt controller | operators on a record, called by `Dmac` |
| `Dmac` | the DMA controller, between memory, `Gpu` and `Intc`, with software that draws and handles interrupts | what is drawn is left out |
| `CodeCache` | the recompiler's blocks, pages and code buffer, the stores that invalidate | instructions reduced to whether they end a block |
| `Word` | integers of four bytes, signed and unsigned | operators, with the width of a byte as a constant |
| `Core` | the state of the processor, exceptions, addresses, the bus as instructions see it | operators on a record, called by the four modules below |
| `Interpreter` | `Core::Run` and the `Op` functions | the abstract specification of `Recompiled` |
| `X86` | the x86 instructions that the recompiler emits | external |
| `Recompiler` | the emitters | operators that return x86 code |
| `Recompiled` | `RunRecompiler` and blocks whose code `X86` executes | implements `Interpreter` |
| `Spu` | the voices, with software that keys them and writes sound RAM | what a sample sounds like is left out |
| `MC...` | instances for TLC | |
| `...Proofs` | theorems | |

Definitions called a *fault* in their comments are changed forms of the
definition below them, as a plausible bug would have it; nothing refers to them.
They show that the property named for them in PROJECT.json can fail.

### Scheduler

State: `[list, events, next]` for `m_event_list`, `m_events` and
`m_next_event_target`. Times are relative to `m_current_time`: `Tick` lowers
the target of every queued event and the cached target, which is the same as
raising the present, and gives TLC a finite state space for a system that
never stops. `list` holds types, since the code's list holds pointers into an
array with one entry per type; an event queued twice shares its entry.
`Horizon` stands for INT64_MAX.

### Emulator

`pc` is where the core thread is: `"cpu"` (the inner `while` of `RunFrame`),
`"events"` (`UpdateEvents`), `"returned"` (between frames), `"stopped"`,
`"crashed"`. One action per callback; each is the callback followed by
`AfterCallback`, the code of the loop after it. Guest code is `RunTicks` (a bus access or a finished
block), `Transmit` and `SendCommand`. `CommandOutcomes` is everything
`ExecuteCommand` can do to the queue.

The module assumes (`EmulatorAssumption`) that no delay is shorter than an SPU
period. For the CD controller the code's constants satisfy it (20000 against
768 cycles); for the joypad it means a baud rate of at least 96, and games use
136. The callback that pops the front of the list depends on this: with a shorter delay
an event queued by a callback could be ahead of the one that is firing.

### Cdc

The registers under their names. The software modelled keeps the protocol of
the drive (see the module's head), because outside of it the code answers with
`Error` by design. `CdcAssumption` says of the delays what `EmulatorAssumption` does, above; that they
keep their order to the period of `Spu` is all that is needed of them. Timecodes are sector numbers of a short disc whose sector 0
lies in the pre-gap; parameters stand for all the bytes a command takes. All
operations of the controller that the bus can reach are there except the
volume registers, which only log, and `Cdc::Tick`, which only the unused
`Emulator::Run` calls.

### Swapchain

`CopyRow` is one row of the 1 MiB `memcpy`, without lock; `FetchRow` one row of
the main thread's copy, under the lock. `target` and `source` are the references
that `ProducerBuffer()` returned and `WithConsumer` passed on: they stay what they are
when the index changes, which is the whole point.

### Cbuf

The ring byte by byte, since `memcpy(&m_buffer[m_write], data, length1)` copies
`length1` bytes where `length1` counts elements. `PlaceOf` and `SampleOf` give the k-th
byte that the pair of copies touches and the sample it comes from. `put` and `taken` are
history variables, for the refinement and for naming samples.

### Io

One poll at a time: `StartPoll`, then for each byte `Tx`, the callback (`Acknowledge`),
`Rx`, and, if the interrupt bit says that the pad acknowledged, `WriteControl` and `WriteStatus` in
either order. `NextState`, `PadAnswer` and `PadAcknowledges` are the three things
that `Digital::Transmit` computes. Of the scheduler there is only `queued`; that an event which is queued
fires, and fires once, is what `Emulator` shows (`RequestsAreAnswered`, and the theorem
`OnlyTheFiredEventLeavesHolds`). In return `TypeOK` shows here that a second transfer never begins before
the first is acknowledged, which `Emulator` has as the guard of `Transmit`.

The software modelled finishes every poll. The pad cannot notice that one was abandoned (there is no deselect: bit 1
of the control register is ignored), so that software that gives up half way finds the pad in the middle of the
sequence afterwards, where the next select byte is taken for a command and raises an `Error`.

The keys are written by the main thread without a lock. `SetKeystate` is two actions because
`BitField::SetValue` writes twice, and the first write says *pressed*; that a compiler may
join the two writes only removes behaviours. `IoAssumption` says what it sends: a poll that selects the pad gives it a command it knows, and
all the bytes that the pad will acknowledge. Positions of the hat switch
between two directions change no key (`main.cpp` 258-289), and are left out; since the switch may come back from one, an
event can repeat the position of the last.

### CodeCache

One block for each word, as in `gRecompilerBlocks`, and a list of words for each page, as in
`gRecompilerPages`. `Run` looks a block up and compiles it if it is not valid;
`Store` is a write to RAM by the block that runs, with the beginning of
`InvalidateAddress`; each round of its loop is one `InvalidateBlock`, and
`ClearPage` its end. Of an instruction matters only whether it ends a block, and whether
behind a delay slot; `"Plain"` and `"Other"` are two that do not, so that one can
be overwritten by another without moving the end.

The loop is a range-`for`, whose `end()` is taken once, over a vector from which
`InvalidateBlock` erases. `walk` is this loop: `at` is its position, `stop` the `end()`
it was started with, and `rest` what the array still holds between the present `end()` and that one:
the elements that were last when something was erased, because `erase` moves the others down and leaves
the last where it was. Reading there is undefined by the standard;
pointers in an array that is not given back are what the build reads. `InvalidateBlock` takes a virtual address
for the page: for code at a `Kseg` address the list it looks at lies outside the array,
and finds nothing there or ends the program (`pc' \in {"invalidating", "crashed"}`).
`LoadExe` and the DMA controller write RAM too: the first without invalidating, the other through the same
`WriteWord`, which is `Store`. `ClearCache` is never called.

### Gpu, Intc and Dmac

`Gpu` is GP0 as a parser: a word is a parameter, a pair of pixels or a command, and which of these only
the counts of the words before it tell. Of a command matters how many words it takes and whether it
starts a transfer; what it draws changes pixels, which nothing here reads. A word is the
command its high byte stands for and its two halves, so that pixels can look like commands.
`Over` forgets the place and size of a transfer that has ended, which `ExecuteCommand` sets before anything reads them again;
`tx` and `ty` stay as they are left, since that they are reset is one of the things to check. `moved`
counts the pixels of a transfer, for `RectanglesInOrder`.

`Dmac::Write` does a whole transfer before it returns. In `Dmac` each turn of its loops is a step
(`pc` says which loop runs, `dma` has its locals), since nothing in the code bounds them. No
other thread and no callback comes in between, so that these steps add no interleavings; they show where
a transfer stands when one of its words raises an `Error`, and make it a property that it ends. Every
register write of the software is an action: to GP0 (`WriteGp0`) and GP1 (`GiveUp`), the start of each channel (`SendBlock`, `ReadBlock`,
`SendTable`, `ClearTable`, `StartOther`), DICR and I_MASK. `todo` and `toread` are what software still wants to
move, `due` the commands it has sent and the GPU has not taken. A packet that was begun word by word can be finished by a block
transfer, forwards or backwards.

The software walks a table only after it has cleared it and has only put packets in front of a slot's, as the
libraries of the console do. A ring in a list is an endless loop in the code. `table` is the order in which a walk is
to meet the entries, as software means it; what the walk does meet it reads from `ram`.

What the software keeps to is assumed, and evaluated by TLC for the packets of the runs. `PacketAssumption`: a packet
is some commands, each with all its parameters and, for a picture that is loaded, all its pixels (`Framed`); after a
command that asks for a picture comes no other, and as many words are read as the picture has; none of the table's packets asks for
one, since nobody could read it during the walk. `LayoutAssumption`: the words of packets, the entries of the table and what transfers write are in
different places of memory. The code checks none of this, and with a packet that is a word short
`InStep` is false. `OtherInterrupt` stands
for all devices that assert other bits. The interrupt handler acknowledges I_STAT and then
DICR; in the other order a completion between the two would be lost, but nothing completes while a
handler runs.

Found on the way, and not stated as properties because they concern what is drawn: the rectangles 0x60 and
0x62 take two parameters and read a third (`core/gpu.cpp` 352-353), which is what an earlier command
has left there; the copy 0x80 takes its size from the destination instead of its last parameter (419-420).

### Word, Core, Interpreter

`Core` has the processor as a record with the fields of the class: `pc`, `current_pc`,
`next_pc`, `branch`, `branch_delay`, `hi`, `lo`, `status`, `cause`, `epc`, and the
general registers `zero`, `t0`, `t1`, `ra` and `k0` under their names. `status` and `cause` are
the sets of their bits. `ram` and `intc` (a record of `Intc`, with one device) are what the bus leads to.
`running` is FALSE after an `Error`.

Words have four bytes of `ByteBits` bits. The code's 32 bits are
out of TLC's integers, and operands at the edges of a word of 8 bits meet each other in every pair.
The constants 8, 16, 24 and 32 of the code are one, two, three and four bytes in the model; addresses keep the
three bits of the segment on top, and jumps the four bits of the region.
`k0` holds what goes to and from COP0, so that these registers keep their 32 bits, and the layout that the code's masks
are made for.

`Interpreter!Run` is one call of `Core::Run`. The functions of arithmetic, which differ in an operator, are one operator with a
`CASE`; `Execute` is the big `switch`, with its slip: `Sllv`, `Srlv` and `Srav` call `OpSll`, `OpSrl` and `OpSra`
(`core/cpu/core.cpp` 68-70), which take the count from the shift field.
`Raise` is a device that asserts its bit.

### X86, Recompiler, Recompiled

`Recompiler` has an operator for each emitter with its name; it returns the code as a sequence of records,
one for each call of Xbyak, and chooses among the emitter's paths as the emitter does. `X86!Exec` executes such a
sequence on the core's record with six registers and the flags. A call of a member function loses the
registers that the ABI lets it lose; they are `Garbage` until they are written.

`Recompiled` is the emulator's loop at the grain of instructions: `Begin` is `Core::RunRecompiler` and the look-up, `RunInstruction`
is the code of one instruction, `phase` is where in a block it is, as `CompileBlock`'s loop laid it out. `address` is
the emitter's parameter. `Interpreted` is the refinement mapping: the core as the interpreter would have it there,
whose `pc`, `current_pc`, `next_pc` and `branch_delay` follow from `address`, `retired` and `taken` inside of a block and
from the core's between blocks.

`Agrees` has the cases in which the two do not do the same; the model goes on to `apart` there, and compares no further. Each is
a difference between `recompiler.cpp` and the interpreter that the refinement stumbled on:

 * `Add` and `Addi` do not overflow; `Sub` and `Break` cannot be compiled and end the program.
 * `Sllv`, `Srlv`, `Srav`: here the interpreter is wrong, see above.
 * `Nor` of a register with itself gives all ones for every value (876).
 * `Div` and `Divu` execute the host's instruction, which traps for 0 and, signed, for the least number by -1;
   the interpreter has the results of the console for these.
 * `Bltzal` and `Bgezal` write `ra` before they test, so that a test of `ra` is one of the link (959).
 * Loads and stores do not check the alignment of their address, which the interpreter does.
 * `Lwc2` and `Swc2` call the interpreter's functions, whose exception is overwritten when the block ends.
 * `Mfc0` to `zero` writes register 0, and ends the program for a register that the interpreter reads (`prid`) or reports;
   `Mtc0` to `epc` ends it.
 * `Mtc0` to the cause lets bit 0 through.
 * `Syscall` tests `bev` in the cause instead of the status, and leaves bits 4 to 6 of the code before (580-588).
 * `J` and `Jal` take their region from their own address, the interpreter from their slot's.
 * `Rfe` ends a block and sets no program counter: outside of a delay slot the block starts again, for ever.
 * A branch or a `Syscall` in a delay slot.
 * An interrupt that becomes pending inside of a block (by a write to status, cause or the interrupt controller) waits for its end.
 * `pc` that is not aligned: `epc` is the address of the last block and not of the last instruction.

For everything else `ImplementsInterpreter` shows that the emitters are right, and with them delay slots, the
entry of exceptions, interrupts between blocks, and returns from both.

### Spu

`Tick` goes over the voices as the code does; since voices do not touch each other, all are done at once, but one that
fails ends the program. A voice has the fields of the code under their names. A halfword
of sound RAM is what it means as a header: the marks `start`, `loop`, `end`, and whether range and filter are in
their ranges (`known`). `adsr_counter` is a `size_t` that is decremented before it is compared: from 0 it wraps and is not back in 2^64 ticks,
which is `Never`.

The fields `decay_shift`, `attack_shift`, `release_shift` and `sustain_shift` have the type `int`, and `BitField` sign-extends those
(`common/bitfield.hpp`); so they are -8 to 7 and -16 to 15 where the console has 0 to 15 and 0 to 31. What follows from that, in the code
and in the model:

 * the shift of the decay is never above 11, so that the first period of it, `(1 * volume) >> 15`
   (40), is 0, the counter wraps, and no voice that reached the top of its attack takes another step:
   `DecayStep` and `SustainStep` are translated, but are never reached;
 * a voice that is released after that stands still as well, and ends only with an end mark;
 * negative shifts make steps of up to 2^30, and the product with the volume overflows in 32 bits (`Upper`).

Other things that are as the code has them: the sustain takes its step from `attack_step` (80; `sustain_step` is never read); a sustain
level of 15 overflows 16 bits (62); `Reset` leaves all voices in `Release`, so that they play address 0 from the first tick (18);
`KeyOff` revives a voice that is off (375); nothing wraps the address of a voice; and the `Error` of line 124 is
reached when a voice ends in the tick in which its counter ends.

The software modelled puts samples at multiples of a block, keeps an end mark in the last one and does not
write headers that a voice has to refuse except where it is asked to (`Odd`).

## 3. Runs

| run | states | bounds | shows |
|---|---|---|---|
| `emulator` | 152,079 | Vblank every 6 units, Spu every 2, delays 3 to 6, blocks of 1 unit that end at most 1 late, each device's events once | the run loop's seven properties |
| `cdc` | 466,990 | eight commands, one target, a disc of three sectors, FIFOs of one parameter and one word, delays of 1 and 2 | the controller's seven properties |
| `cdc_addevent` | | as `cdc` | the assertion of `AddEvent` fails |
| `swapchain` | 12,075 | three pictures of three rows | the hand-over's three properties |
| `cbuf` | 55,726 | ring of 8 two-byte samples, chunks of 3, requests of 5, 26 samples | the ring's six properties |
| `io` | 301,624 | three polls, four positions of the hat, one button | the joypad's four properties |
| `codecache` | 1,591,200 | two pages of four words, a BIOS of two, six entry points, three words that are written, room for 15 units of host code | the block cache's two properties |
| `codecache_bios` | | as `codecache` | the assertion of `Run` fails |
| `dmac` | 495,416 | VRAM of 3 by 3, 25 words of memory, a table of two slots, two packets for it and three others, two settings of DICR, one other interrupt | the six properties of the DMA controller, the port and the interrupt |
| `dmac_reads` | | as `dmac`, with one packet, which reads two pixels at the right edge | the assertion of `ReadVram` fails |
| `recompiled` | 470,188 | words of 8 bits, two words of RAM, four registers; single instructions, branches with slots, programs with a handler | recompiled code does what the interpreter does |
| `spu` | 181,260 | two voices, one in each half of the key registers, sound RAM of three blocks, two set-ups, two writes while they play | the voices' four properties |

Why the bounds are enough. In `emulator` the order of periods and delays is the
code's order, two Spu periods fit in the shortest second response, and all event types can be queued at
the same time, so that every chain of early events the code can make occurs. In
`cdc` the commands left out (`GetStat`, `Demute`, `GetTn`) change nothing that
`Test` does not; a FIFO of one element has the states empty and full, and a
disc of three sectors the pre-gap, a sector and the end. In `swapchain` two
pictures tell a torn one from a whole one and three tell old from new; three rows have a first,
a middle and a last. In `cbuf` 3 does not divide 8, so that the copies wrap at every
offset, chunks are cut short when the ring is nearly full, and 26 samples are
three laps. In `io` the polls are the
two commands the pad knows and one that addresses another device; three
directions cover both pairs of one axis and a turn, and the button is in the other byte.
In `codecache` blocks lie inside a page, end on its last word, reach over into the
next one, and are longer than a page, on one list and on two; the page
whose code runs at its physical address has two overlapping blocks, so that one is erased while
the other is due; and the buffer has room to compile some blocks twice, so that lists hold a block twice,
and is full in the end.
In `dmac` the packets have commands of no, one and two parameters; pictures that are written of one and of six
pixels, so that they end in the middle of a word and with one, in one row and in several; one of three that is read, so that
`GpuRead` runs over its end; a size of 0, which is all of the height; a place
outside VRAM that wraps; and pixels that look like a command, so that a transfer that ends too early is noticed. Three rows and three
columns have a first, a middle and a last, and the smallest table with an inner and a last entry has two slots.
Memory of 25 words with addresses of 64 tells a masked address from one that is not. `GiveUp` leaves transfers of all these in every
position.
In `recompiled` every instruction occurs with every choice of `zero`, of equal and of different registers,
which is what its emitter chooses its path by; its operands are 0, 1, the greatest and least signed number and the greatest word,
where flags, overflow and shifts change. Branches have every kind of slot that is allowed, and targets before and behind; the
programs have a handler that acknowledges the interrupt and returns, and start with interrupts pending, masked, off, or asserted at any moment
between blocks.
In `spu` the voices begin in the first, the second and the last block, loop, and end; the attacks take one step, several and
many with pauses, the releases halve, fall and fade, and the writes of two
registers, keys, a transfer or a DMA word come at any moment between ticks. That is enough to key a voice in the middle
of a block, to move a loop, to overwrite a header that has been read, and to release, key and release.

Three bounds are in the guards: `MaxSectorCopies` (a `ReadN` during a read queues
`CdSector` again, without end) and `MaxSamples` (numbers of samples are not
reused). `MaxWrites` bounds how often software writes to the SPU; after that it leaves the voices alone, which `NotesEnd` needs. `MaxTicks` and `MaxLate` bound how far a block runs past an event; in the
code that is the length of a block.

### Properties that are not obvious

 * `NoEventOverlooked`, `IdleNeverFires`, `SpuAtMostOnePeriodEarly`: the stale cache
   only makes events early, by at most one Spu period for `Spu`, and the chain always
   ends at a periodic event. That the cached target *equals* the distance to
   the front, as one would expect, does not hold.
 * `SecondResponsesArrive` excludes `Pause`: with an idle drive its early `break`
   (`core/cdc.cpp` 288-291) sets `m_command2` and schedules nothing, so software that waits for the
   second response waits for ever. The unused `counter = 7500` next to it suggests that this is
   a leftover of the time when `Cdc::Tick` counted down.
 * `OnlyTheDiscEnds`: software that goes by the status bits and waits for responses
   never meets an `Error` other than reading before or past the disc. Such software has at most one second response outstanding:
   there is one `m_command2`, and with two the later one finds `Sync` there and raises an `Error` (`core/cdc.cpp` 469).
 * `RefinesEmulator`: the controller makes only the scheduler calls
   `Emulator` was checked and proved with; so what is proved there holds with the
   real controller, until it raises an `Error`.
 * `NothingOverwritten` says less than one would like: because only the first part of
   a chunk is copied, a place can hold what an earlier lap left there, or nothing.
   It never holds a later sample.
 * `KeysAreReported` speaks only of keys that nobody writes during the poll. For the others
   there is no promise: in the middle of a hat event opposite directions can be
   pressed, and a key that is released once more can be seen pressed.
 * `NoStaleBlock` is what a code cache is for, and holds with two exemptions that
   are faults of the code; with either one taken out TLC finds a stale block.
   `ReachesOver`: `AddBlockRange` (98) counts pages from the size alone, so a block of two words at the
   last word of a page is not on the list of the next page, and a store there leaves it valid (four states).
   `spared`: the block that slides to the position the loop is done with is never invalidated, and `clear()`
   then takes it off the list (eleven states: two blocks of one page entered, a store, the two rounds, and
   the second block entered again). In the machine this needs code that runs at `Kuseg` addresses.
   What the property shows is that nothing else goes wrong, with blocks on several
   lists, listed twice, erased from a list by the loop over another, or found by the loop behind the end of a list.
 * `InStep` and `RectanglesInOrder`: GP0 has no framing, so that one word counted wrongly makes it take pixels for commands
   from there on. Checked is that it does not, whatever path the words take and whatever a transfer
   that was given up has left behind.
 * `SignalledUntilHandled`: only a rise of DICR's irq bit asserts the interrupt, so that a bit that stayed set
   over an acknowledged status would silence the controller for good. The exception is the moment
   between the handler's two writes.
 * `ImplementsInterpreter` compares every state of the recompiled code with the interpreter's, registers, COP0, RAM and interrupt
   controller. What it excludes is in `Agrees`, above; all of it is in the core that the emulator runs.
 * `ReadsStayInside`: that samples are taken from the block whose header was read, and that the last block's header is
   never skipped, is what keeps a voice in sound RAM. The fault `KeyedMidBlock`, a key that keeps the place inside of the block, breaks it
   only after several blocks, or never, depending on the pitch.
 * `EnvelopeFollowsPhase` and `NotesEnd` say what the envelope does, with the consequences of the sign-extended rates
   as their exceptions: above all that it stands still at the top.
 * `NoShortRead`: the branches of `AudioCallback` for a short read are dead code: 53 has made `length` what the ring holds, so that when it runs dry the rest of the device's stream is
   left as it was. The property shows that, and not what is heard.

### The findings

`AddEvent` asserts that the event is not active (`core/scheduler.cpp` 41);
`UpdateEvents` pops a `Once` event and leaves the flag set (26). The run `cdc_addevent` shows a
state in which software may send a command and the flag is set: the second
command fails the assertion in a build that has assertions (once 143 of the recompiler is repaired, see Assertions).

`Recompiler::Run` asserts that an address in the BIOS is at least 0x1fc00000 and
below it plus 512 KiB (`core/cpu/recompiler.cpp` 48), but is given the virtual address, 0xbfc00000 at reset
(`core/cpu/core.cpp` 27). The run `codecache_bios` enters the BIOS there.

`ReadVram` asserts that its column lies in VRAM (`core/gpu.hpp` 38). `GpuRead` does not wrap the column (`core/gpu.cpp` 43), while `Gp0` does
(74): the run `dmac_reads` reads a picture of two pixels at the last column, and the second pixel is
outside.

### Fairness

 * Core thread: `WF(CpuStep)`, a block of guest code ends (it is straight-line code) and
   accounts for at least one tick; and while it is the turn of `UpdateEvents` or of
   `RunCoreThread`, the thread takes a step. The second is written with
   `CoreTurn` instead of `WF` on the disjunction of the callbacks: whenever the thread is in one of these
   places exactly its own steps change its variables, and TLC need not evaluate
   `ENABLED` of all callbacks. Nothing is assumed of what the guest asks for, and nothing of the user.
 * `Cbuf`: a copy that was begun ends, and the device keeps calling; that the SPU produces is
   not assumed.
 * `Io`: the callback that is queued fires, and software goes on with a poll it has begun; nothing of the player.
 * `Dmac`: a loop of `Dmac::Write` goes on, since the core thread does nothing else; so do the two writes of a handler
   that was entered. `EnterHandler` is strongly fair: transfers that software starts switch it off
   and on again, but the CPU looks at the line before every instruction (`core/cpu/core.cpp` 49-56), so
   also between two of them. Nothing is assumed of what software asks for.
 * `Spu`: `WF(Tick)`, since the scheduler keeps calling it (`Emulator`); nothing of software.
 * `Swapchain`, `CodeCache`, `Recompiled`: none; only safety is checked. That the core thread ever gets the mutex is something
   that `std::mutex` does not promise.

Deadlock is not checked in three runs, in which the system may stop: in `codecache` when the code buffer is full or the loop ends
the program, in `recompiled` when a program comes to its `Break`, to an `Error` or to a case of `Agrees`, and in `spu` after an `Error`.

## 4. Proofs

| theorem | module | argument |
|---|---|---|
| `TypeCorrect`, `NoEventOverlookedHolds`, `IdleNeverFiresHolds`, `SpuAtMostOnePeriodEarlyHolds`, `OnlyTheFiredEventLeavesHolds` | `EmulatorProofs` | the invariant `IInv` |
| `TypeCorrect`, `EventsMatchRegistersHolds`, `StatusMatchesFifosHolds`, `OnlyTheDiscEndsHolds`, `RefinesEmulatorHolds`, `RunLoopStaysSafe` | `CdcProofs` | the invariant `IInv` there, and what `EmulatorProofs` has of the scheduler |
| `TypeCorrect`, `PadWaitsBetweenPollsHolds`, `KeysAreReportedHolds` | `IoProofs` | the invariant `IInv` there |
| `TypeCorrect`, `NoRaceHolds`, `NoTearingHolds`, `RefinesFrameRegisterHolds` | `SwapchainProofs` | the invariant `IInv` there |
| `TypeCorrect`, `NoShortReadHolds`, `NoRaceHolds`, `RefinesBoundedFifoHolds`, `NothingOverwrittenHolds` | `CbufProofs` | the invariant `IInv` there, and with it `Content` |
| `TypeCorrect`, `NoStaleBlockHolds` | `CodeCacheProofs` | the invariant `IInv` there |
| `TypeCorrect`, `RectanglesInOrderHolds`, `SignalledUntilHandledHolds`, `InStepHolds` | `DmacProofs` | the invariant `IInv` there, and for the last one `FrameInv` with it |
| `ReadsStayInsideHolds`, `TypeCorrect`, `EnvelopeFollowsPhaseHolds` | `SpuProofs` | the invariants `IInv` and `AllWhole` there |

They hold for every value of the constants that satisfies the named assumptions
(`HorizonAssumption`, `EmulatorAssumption`, `CdcAssumption`, `IoAssumption`, `SwapchainAssumption`, `CbufAssumption`, `CodeCacheAssumption`, `GpuAssumption`, `DmacAssumption`, `PacketAssumption`, `LayoutAssumption`, `SoundRamAssumption`, `ProgramsAssumption`, `PlacesAssumption`, `WritesAssumption`).

The first part of `EmulatorProofs` has the facts about the scheduler's operators: that sorting by
rank is a permutation that is sorted and stable enough for the rest, what
`AddEvent`, `RemoveEvent`, `RescheduleEvent` and `PopFront` do to the set of queued types and to the
cached target.

*Emulator.* None of the three invariants is inductive. `Consistent` adds that the list is
sorted; that `Idle`, `Vblank` and `Spu` are always queued, with the modes and periods they were given, and each `Once` type
at most once; that the cached target is no later than any queued target; and that
`Spu` is due at most one of its periods after the cached target and at most two from now.
The last is the heart of it. An event that fires is due within one SPU
period, because `Spu` is queued and the front is not later; a new event is due
no sooner than that and is sorted behind its equals; so the front that is
popped is the event that fired. And `Idle` never is the front while `Spu` is queued before it.

*Cdc.* `EventsMatchRegisters` is half of the invariant `Outstanding`. The other half is what `WriteCommand`
found when the software wrote a command, and `ExecuteCommand` needs when the event fires: no second response is
due, a `Test` still has its sub-command, a `ReadN` still has room for a stream of sectors; and a second response that is
due belongs to a command that has one. It holds until the callback because nothing else touches these registers while
the busy bit is set, the sectors that fire in between included: so no `Error` but the disc's is reached.
`CommandCallsFacts` goes through `ExecuteCommand`: each command queues and removes just the events that `DriveAfter` says. The
refinement is proved with it, step by step (`CoreStep`): what `ExecuteCommand` asks of the scheduler is among
`CommandOutcomes`, in the order it is asked for, `SeekL` stopping the read before it queues its response and `Init` and
`Pause` after. `CdcProofs` has `EmulatorProofs` as an `INSTANCE`, `Loop`; the lemmas called `Same...` say that
the operators of the three instances of the scheduler are the same, and the ones after them give its lemmas in the
terms of `Cdc`. `RunLoopStaysSafe` is the outcome: what was proved for devices reduced to their calls holds with the
controller in full.

*Io.* `Taken` ties what the pad waits for to the length of the reply, and `Fits` says that the byte under way and those
after it are what the pad will take from there to its end; with the four places a byte can be at (`Sending`, `InFlight`, `Answering`,
`Acknowledging`) this is where port, pad and interrupt controller are, by what software does next. The interrupt bit is set if and only if the
pad has more to say, so that software stops when the pad does. `Reported` follows the keys: those of `held` are in `keystate`
at every moment and those of `untouched` at none, which is what the two writes of `SetKeystate` cannot undo, since a key leaves
`untouched` with the first of them and `held` with the second.

*Swapchain.* While the producer copies, `target` is its index, and
only it changes the index; while the consumer copies, it holds the mutex, so that the index
stands still and `source` is the other buffer. `NoRace` follows, and that the published
buffer is a whole picture.

*Cbuf.* The history ties the indices to the counts: `Size = put - taken`, and the chunk
being copied in fits in what is free, the chunk being copied out in what is there. The bytes
of two disjoint ranges of places are disjoint, wrap-around included. `Content` is what the bytes hold: `m_write` is `put`
modulo the capacity, and a byte of the p-th place holds nothing or the number of a sample whose remainder is p and whose
copy has begun. All that is in the ring or on its way there is less than a lap ahead of `taken`, so that no sample later than an unread
one has its remainder: that is `NothingOverwritten`.

*CodeCache.* `Listed` says that a valid block is on the list of each of its
pages, and on the one that a loop walks, where the loop has yet to come; `FreshOrDoomed`
that a valid block is what memory holds unless the loop that walks one of its pages
is yet to invalidate it; `WalkInRange` that the loop ends where the list did. A store makes
stale only blocks that lie over the word (`CodeStable`), and all of these are on the list of its
page (`PageReached`, which needs that the block does not reach over).
A round of the loop moves the blocks to come back by at most one, all of them
behind the loop's position but the next, which is `spared` (`ErasedUnderLoop`): so when the loop ends no block of the page
is valid, and the list can be cleared. The arithmetic is that of quotients and remainders, for any size of a page.

*Dmac.* `FifoCounts` ties what the FIFO holds to the parameters that are still to come, so that a
command is executed with exactly its words: only then are the fields that `ExecuteCommand` sets of their types, whatever
the words hold (`ExtentType`, `WrapType`). `InRasterOrder` is inductive
with it: the lemmas for `NextPixel` show that a pixel more is the next column, the first of the next row, or
the end, and `GpuRead`'s second pixel after the end is outside a transfer. `Signalled` is kept by
`UpdateInterrupts` and so by all that ends with it; acknowledging I_STAT disturbs it, and writing DICR in the handler
restores it.

`InStep` speaks only of moments in which nothing is on its way; `FrameInv` of all others. Its heart is `InFrame`, about a port and the
words still to be sent to it, wherever they are: the first of these are what the port waits for (`Left`: the rest of the
parameters, and then the pixels of a `Load`, or the rest of the pixels), the others are whole commands, those of `due`, and
what is to be read is what has been asked for (`Owed`). `FrameSend` says that a word sent in this situation is not
refused, is taken for a command just where one is due, and leaves `InFrame` with the words after it; `FrameRead` the same of a word
that is read. They rest on `LastPixel`, that `Gp0` and `GpuRead`, which count columns and rows, stop at the pixel at which a
count of the words does, for a picture of an odd number of pixels as well. The rest of `FrameInv` says which words these are: those at `todo`; those of
a block, which goes up or down as the packet was stored (`PacketSteps`); those behind an entry of the table, and then those of the
entries after it (`Later`). That the links in memory lead to these, and end where `IsLast` is true and not before, is
`TableOK`, through the clearing of the table, of which each turn links one entry more (`Built`), and through `AddPacket` (`LinksKept`). `StoredOK`
says that no transfer has written over a packet. `FlattenFirst`, which takes the first sequence off
`FlattenSeq`, is the one fact about a fold; it is proved from the well-foundedness of the numbers, with a set in place
of the predicate that the library's induction theorems take.

*Spu.* `ReadsStayInside` is not inductive: where a voice goes next depends on where it repeats from and on what it has
read. `Placed` adds that the voice and its repeat address are at the start of a block of the grid that ends with the last
one, and that a sample position is below 28; `Knows`, that a voice in the last block that has read its header knows the end
mark. Then a voice that leaves the last block goes to its repeat address, and any other goes one block on, which is at most the last
(`NextIsAtBlock`); and since a key or a header that is not yet read leaves `header_processed` clear, a write
to the header of the last block never makes `Knows` false.
`AllWhole` is the other invariant: a voice has its type, is never in `Sustain`, and in `Decay` its counter is 0 or `Never`, because
it is 0 at the top of the attack and wraps. From it follow the types, for which the arithmetic of the envelope has to be
bounded: products and shifts by powers of two, which the prover knows only one by one (`PowerFacts`, for the 28
that occur), and the quotient of an exponential release, which fits in 17 bits where the product does not
overflow (`ShareFacts`). `EnvelopeFollowsPhase` is an action property and follows from both.

Only model-checked: all liveness (TLAPS has no backend for it here); and `ImplementsInterpreter`, since `X86!Exec` is recursive
and the bit operations are those of `Bitwise`, which no backend knows. Every other invariant and action property of a
passing run is a theorem.

## 5. Plan

In order of what matters most for the running system:

 1. done: `Scheduler`, `Emulator`, `Cdc`, `Swapchain`, `Cbuf`, and the proofs above
 2. done: `Io`, the joypad port, the digital pad and the main thread's key events
 3. done: `Intc`, `Gpu` and `Dmac`: status and mask, DICR and its edge, command lengths, the transfers between
    the port and RAM, with their proof; the line of `Intc` at the CPU is in `Core`
 4. done: `CodeCache`, blocks, pages and invalidation, with its proof
 5. done: `Core`, `Interpreter` and `Recompiled`: delay slots, exceptions and the interrupt line, every emitter
 6. done: `Spu`, the voices, with the proof that they stay inside sound RAM
 7. `Timer`, once something ticks it
 8. done: proofs of `Cdc`'s invariants and of its refinement of `Emulator`, of those of `Io`, of what the bytes of the ring hold,
    and of the envelopes
 9. done: `InStep`: what a well-formed packet is, as an assumption, the order of a table as a sequence, and the proof that GP0 keeps in
    step with packets that are sent word by word, by blocks and by the table

## 6. Not modelled

Rasterisation, the commands of the geometry engine, sample decoding and mixing: arithmetic of one call, better tested against
vectors; the geometry engine computes in 44 bits, which TLC's integers do not have. The timers, which nothing in the scheduled run loop ticks. The
instruction cache, which only the interpreter uses, and the encoding of guest and host instructions. The
registers of devices that are stored and read back. The disassembler. SDL set-up and configuration. `Emulator::Run` and `BenchFrame`, which
nothing calls. `LoadExe`, which writes RAM and the CPU's registers from the main thread
while the core thread runs: every access of it is a data race, and no property of the
result could hold.
