------------------------------ MODULE Recompiled ------------------------------
(***************************************************************************)
(* The processor as the run loop drives it: Core::RunRecompiler runs a block  *)
(* of recompiled code at a time (core/cpu/core.cpp, recompiler.cpp), and      *)
(* interrupts are looked at between blocks.  A step runs the code of one      *)
(* guest instruction.                                                        *)
(*                                                                         *)
(* The recompiled code has to do what the interpreter does.  It has no pc     *)
(* while it is in a block: the mapping to the interpreter's state gives it    *)
(* the address of the instruction that comes next.  The two differ in the     *)
(* cases that Agrees leaves out, and what happens after one of them is not    *)
(* compared.                                                                *)
(*                                                                         *)
(* The code does not change (CodeCache is about code that does), and a block  *)
(* that starts in it ends in it.                                            *)
(***************************************************************************)
EXTENDS Recompiler

VARIABLES
    code,               \* the instructions, by their physical address
    core,               \* the processor
    phase,              \* "between" blocks, in a "block" or in its "slot"
    address,            \* the next instruction of the block
    retired, taken,     \* the last instruction; whether it was a taken branch
    apart               \* whether the two have come to a case in which they differ

vars == <<code, core, phase, address, retired, taken, apart>>

\* The core as the interpreter would have it.
Interpreted ==
    [core EXCEPT
        !.pc = IF phase \in {"block", "slot"} THEN address ELSE @,
        !.next_pc =
            CASE phase = "block" -> Wrap(address + 4)
              [] phase = "slot" -> core.pc
              [] OTHER -> @,
        !.current_pc = retired,
        !.branch_delay = phase = "slot" /\ taken]

Interp == INSTANCE Interpreter WITH core <- Interpreted

Running == core.running /\ ~apart
InBlock == Running /\ phase \in {"block", "slot"}
Mapped == TranslateAddress(address) \in DOMAIN code
Current == code[TranslateAddress(address)]

-----------------------------------------------------------------------------
\* OpTable's flags: the branches that have a delay slot, and what else ends a block.
Delay ==
    {"Jr", "Jalr", "Bltz", "Bgez", "Bltzal", "Bgezal", "J", "Jal", "Beq", "Bne", "Blez",
     "Bgtz"}
Ends == {"Syscall", "Break", "Rfe", "Illegal"}

\* CompileBlock's loop.
Following(i) ==
    IF phase = "slot" \/ i.op \in Ends THEN "between"
    ELSE IF i.op \in Delay THEN "slot" ELSE "block"

\* Where the recompiled code does what the interpreter does.
Agrees(i) ==
    LET a == core[i.rs]
        b == core[i.rt]
    IN  \* There is no overflow exception, and no Sub and no Break.
        /\ i.op = "Add" => ~Interp!Overflows("Add", a, b)
        /\ i.op = "Addi" => ~Interp!Overflows("Add", a, SignExtend(i.imm, HalfBits))
        /\ i.op \notin {"Sub", "Break"}
        \* The interpreter takes the constant of the instruction for the count.
        /\ i.op \in {"Sllv", "Srlv", "Srav"} => a % WordBits = i.imm
        \* The complement of a register with itself forgets the register.
        /\ i.op = "Nor" /\ i.rs = i.rt => a = 0
        \* The host traps.
        /\ i.op \in {"Div", "Divu"} => b # 0
        /\ i.op = "Div" => ~(a = 2^(WordBits - 1) /\ b = Complement(0))
        \* The link comes before the test.
        /\ i.op \in {"Bltzal", "Bgezal"} => i.rs # "ra"
        \* Loads and stores do not look at their address.
        /\ i.op \in DOMAIN Interp!Size => ~Interp!Misaligned(i, EffectiveAddress(core, i))
        \* An exception in a function that the block calls does not end the block.
        /\ i.op \in {"Lwc2", "Swc2"} => EffectiveAddress(core, i) % 4 = 0
        \* Mfc0 writes register 0; an Mtc0 of the cause lets bit 0 through.
        /\ i.op = "Mfc0" => i.rt # "zero" /\ i.rd \in {"status", "cause", "epc"}
        /\ i.op = "Mtc0" => i.rd \in {"ignored", "status", "cause"}
        /\ i.op = "Mtc0" /\ i.rd = "cause" => 0 \notin b
        \* A system call tests bev in the cause, and leaves bits 4 to 6 of it.
        /\ i.op = "Syscall" => bev \notin core.status /\ core.cause \cap 4..6 = {}
        \* The region of a jump is the slot's in one and the jump's in the other.
        /\ i.op \in {"J", "Jal"} => Wrap(address + 4) % 2^(WordBits - 4) # 0
        \* Rfe goes back to the start of its block unless it is in a delay slot;
        \* nothing else that ends a block can be in one.
        /\ (i.op = "Rfe") => (phase = "slot")
        /\ phase = "slot" => i.op \notin Delay \cup (Ends \ {"Rfe"})

\* Interrupts that become pending in a block wait for its end.
Late(c, i) == Pending(c) /\ Following(i) # "between"

-----------------------------------------------------------------------------
\* RunRecompiler, up to the block.
Begin ==
    LET c == [core EXCEPT !.current_pc = core.pc]
        entered == IF Pending(c) THEN EnterException(c, "Interrupt") ELSE c
    IN  /\ Running
        /\ phase = "between"
        /\ core.pc % 4 = 0
        /\ core' = entered
        /\ address' = entered.pc
        /\ retired' = IF Pending(c) THEN core.pc ELSE retired
        /\ phase' = "block"
        /\ UNCHANGED <<code, taken, apart>>

\* The state after the code of the instruction, with what of it is the core's.
Emulated ==
    LET h == Exec(Entered(core), CompileInstruction(address, Current))
    IN  IF h.running THEN [f \in CoreFields |-> h[f]] ELSE Error(core)

RunInstruction ==
    /\ InBlock
    /\ Mapped
    /\ Agrees(Current)
    /\ LET done == Emulated
       IN  /\ ~Late(done, Current)
           /\ core' = done
           /\ IF done.running
              THEN /\ phase' = Following(Current)
                   /\ taken' = (Current.op \in Delay /\ Interp!Taken(core, Current))
                   /\ retired' = address
                   /\ address' = Wrap(address + 4)
              ELSE UNCHANGED <<phase, taken, retired, address>>
    /\ UNCHANGED <<code, apart>>

\* ReadCode ends the program where there is nothing to read.
NoCode ==
    /\ InBlock
    /\ ~Mapped
    /\ core' = Error(core)
    /\ UNCHANGED <<code, phase, address, retired, taken, apart>>

\* The two part, and an interrupt that becomes pending in a block is one of the cases.
Part ==
    /\ \/ /\ Running
          /\ Mapped
          /\ Agrees(Current) => Late(Emulated, Current)
       \/ /\ Running
          /\ phase = "between"
          /\ core.pc % 4 # 0    \* epc is the block's and not the last instruction's
    /\ apart' = TRUE
    /\ UNCHANGED <<code, core, phase, address, retired, taken>>

\* The scheduler fires a device's event between two blocks.
Raise ==
    /\ Running
    /\ phase = "between"
    /\ core' = Interrupted(core, INTC!AssertInterrupt(core.intc, 0))
    /\ UNCHANGED <<code, phase, address, retired, taken, apart>>

\* A program whose blocks end in it, and a core that is about to begin one.
Init ==
    /\ \A a \in DOMAIN code : code[a].op # "Break" => a + 4 \in DOMAIN code
    /\ core.running /\ ~core.branch /\ ~core.branch_delay
    /\ core.next_pc = Wrap(core.pc + 4)
    /\ phase = "between"
    /\ address = 0 /\ retired = 0 /\ taken = FALSE /\ apart = FALSE

Next == Begin \/ RunInstruction \/ NoCode \/ Part \/ Raise

Spec == Init /\ [][Next]_vars

-----------------------------------------------------------------------------
(* Properties.                                                              *)

\* Whatever the guest runs, the recompiled code takes its core through the states in
\* which the interpreter would have it, instruction by instruction and interrupt by
\* interrupt, as long as no instruction is one on which the two differ.
ImplementsInterpreter == Interp!Spec
=============================================================================
