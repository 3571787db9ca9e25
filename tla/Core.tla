--------------------------------- MODULE Core ---------------------------------
(***************************************************************************)
(* The state of the MIPS processor and what the interpreter and the          *)
(* recompiled code share of it: registers, exceptions and the way to the bus *)
(* (core/cpu/core.cpp, core.hpp) with RAM and the interrupt controller, the  *)
(* part of the memory map that instructions can tell apart                   *)
(* (core/emulator.cpp).  One device is on the controller, on bit 0.          *)
(*                                                                         *)
(* A state is a record c.  The general registers are zero, four more of      *)
(* which ra is the 31st, and k0, which holds what goes to and from COP0's    *)
(* status and cause.  These two are 32 bits for words of any width: the set  *)
(* of the bits that are set.  Addresses keep their shape: the top three bits *)
(* are the segment, the top four the region of a jump.                       *)
(***************************************************************************)
EXTENDS Word

CONSTANTS
    Vector, BootVector,     \* 0x80000080, 0xbfc00180
    Istat, Imask,           \* 0x1f801070, 0x1f801074
    RamWords                \* where RAM has words: their addresses

INTC == INSTANCE Intc WITH Interrupt <- {0}

Gpr == {"zero", "t0", "t1", "ra"}

Bit == 0..31
iec == 0
im == 8..15
isc == 16
bev == 22
bt == 30
bd == 31
ip2 == 10

\* The bits of exc_code, in place.
ExcCode ==
    [Interrupt |-> {}, AddressLoad |-> {4}, AddressStore |-> {2, 4}, Syscall |-> {5},
     Breakpoint |-> {2, 5}, Overflow |-> {4, 5}]

CoreFields ==
    Gpr \cup {"k0", "hi", "lo", "pc", "next_pc", "current_pc", "branch", "branch_delay",
              "status", "cause", "epc", "ram", "intc", "running", "mac0", "dqb"}

-----------------------------------------------------------------------------
(* Registers and exceptions.                                                *)

ReadRegister(c, r) == c[r]
WriteRegister(c, r, value) == [[c EXCEPT ![r] = value] EXCEPT !.zero = 0]

Branch(c, address) == [c EXCEPT !.next_pc = address, !.branch = TRUE]

\* Bus errors, unknown registers and unknown opcodes end the program.
Error(c) == [c EXCEPT !.running = FALSE]

\* An enabled interrupt is pending: im & ip under iec.
Pending(c) == iec \in c.status /\ c.status \cap c.cause \cap im # {}

ExceptionVector(c) == IF bev \in c.status THEN BootVector ELSE Vector

\* iep and kup go to ieo and kuo, iec and kuc to iep and kup.
PushMode(status) == {b + 2 : b \in status \cap 0..3} \cup (status \ 0..5)

EnterException(c, e) ==
    [c EXCEPT
        !.epc = IF c.branch_delay THEN Wrap(c.current_pc - 4) ELSE c.current_pc,
        !.status = PushMode(@),
        !.cause = (@ \ ((2..6) \cup {bt, bd})) \cup ExcCode[e]
                  \cup (IF c.branch_delay THEN {bd} ELSE {}),
        !.pc = ExceptionVector(c),
        !.next_pc = Wrap(ExceptionVector(c) + 4),
        !.branch = FALSE,
        !.branch_delay = FALSE]

\* The controller changes, and Core::AssertInterrupt takes its line.
Interrupted(c, intc) ==
    [c EXCEPT !.intc = intc, !.cause = IF intc.line THEN @ \cup {ip2} ELSE @ \ {ip2}]

-----------------------------------------------------------------------------
(* The bus.                                                                 *)

\* Kseg0 and kseg1 are windows on the first eighth of the addresses.
TranslateAddress(address) ==
    LET segment == 2^(WordBits - 3)
    IN  IF address \div segment \in {4, 5} THEN address % segment ELSE address

Aligned(address, size) == address - (address % size)

\* The bits of a word below the part of it at an address.
Below(address, size) == ByteBits * (Aligned(address, size) % 4)

InRam(address) == Aligned(TranslateAddress(address), 4) \in RamWords

\* What RAM holds at an address, size bytes of it.
RamAt(c, address, size) ==
    LET p == TranslateAddress(address)
    IN  ShiftRight(c.ram[Aligned(p, 4)], Below(p, size)) % 2^(size * ByteBits)

\* The controller has no byte accesses, and bits above the first are not connected.
InIntc(address, size) == size > 1 /\ TranslateAddress(address) \in {Istat, Imask}

IntcAt(c, address) ==
    Truth(0 \in IF TranslateAddress(address) = Istat THEN c.intc.status ELSE c.intc.mask)

\* Core::ReadByte, ReadHalf and ReadWord: with isc set memory reads as 0.
Read(c, address, size) ==
    CASE isc \in c.status -> 0
      [] isc \notin c.status /\ InIntc(address, size) -> IntcAt(c, address)
      [] isc \notin c.status /\ InRam(address) -> RamAt(c, address, size)

Readable(c, address, size) == isc \in c.status \/ InIntc(address, size) \/ InRam(address)

\* A word with one part of it replaced.
Replaced(word, address, size, data) ==
    LET old == ShiftRight(word, Below(address, size)) % 2^(size * ByteBits)
        new == data % 2^(size * ByteBits)
    IN  word + (new - old) * 2^Below(address, size)

\* Core::WriteByte, WriteHalf and WriteWord.
Write(c, address, size, data) ==
    LET p == TranslateAddress(address)
        bits == {b \in {0} : data % 2 = 1}
    IN  IF isc \in c.status THEN c
        ELSE IF InIntc(address, size)
             THEN Interrupted(c, IF p = Istat THEN INTC!WriteStatus(c.intc, bits)
                                 ELSE INTC!WriteMask(c.intc, bits))
        ELSE IF InRam(address)
             THEN [c EXCEPT !.ram[Aligned(p, 4)] = Replaced(@, p, size, data)]
             ELSE Error(c)
-----------------------------------------------------------------------------
(* The Op functions of the geometry engine's registers, which the recompiled *)
(* code calls too.  The registers are one of its data and one of its control *)
(* registers of a word, in rt for loads and stores and in rd otherwise.      *)

GteOp == {"Mfc2", "Cfc2", "Mtc2", "Ctc2", "Lwc2", "Swc2"}

EffectiveAddress(c, i) == Wrap(c[i.rs] + SignExtend(i.imm, HalfBits))

OpGte(c, i) ==
    LET address == EffectiveAddress(c, i)
    IN  CASE i.op \in {"Mfc2", "Cfc2"} -> WriteRegister(c, i.rt, c[i.rd])
          [] i.op \in {"Mtc2", "Ctc2"} -> [c EXCEPT ![i.rd] = c[i.rt]]
          [] i.op = "Lwc2" ->
                IF address % 4 # 0 THEN EnterException(c, "AddressLoad")
                ELSE IF Readable(c, address, 4) THEN [c EXCEPT ![i.rt] = Read(c, address, 4)]
                ELSE Error(c)
          [] i.op = "Swc2" ->
                IF address % 4 # 0 THEN EnterException(c, "AddressStore")
                ELSE Write(c, address, 4, c[i.rt])
=============================================================================
