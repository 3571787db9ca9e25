------------------------------ MODULE Interpreter ------------------------------
(***************************************************************************)
(* The interpreter: Core::Run and the Op functions (core/cpu/core.cpp and    *)
(* interpreter.cpp).  It is what the recompiled code has to agree with.      *)
(*                                                                         *)
(* An instruction i is decoded: op, the registers rs, rt, rd, and imm, which *)
(* is the shift amount, the 16 bits of an immediate, or the target of a jump.*)
(* Bcond is four operations, of its bits 16 and 20.                          *)
(***************************************************************************)
EXTENDS Core

VARIABLES
    code,               \* the instructions, by their physical address
    core                \* the processor

-----------------------------------------------------------------------------
(* Arithmetic.                                                              *)

Shift(op, w, n) ==
    CASE op = "Sll" -> ShiftLeft(w, n)
      [] op = "Srl" -> ShiftRight(w, n)
      [] op = "Sra" -> ShiftRightSigned(w, n)

OpShift(c, i, op) == WriteRegister(c, i.rd, Shift(op, c[i.rt], i.imm))

Arithmetic(op, a, b) ==
    CASE op \in {"Add", "Addu"} -> Wrap(a + b)
      [] op \in {"Sub", "Subu"} -> Wrap(a - b)
      [] op = "And" -> (a & b)
      [] op = "Or" -> (a | b)
      [] op = "Xor" -> (a ^^ b)
      [] op = "Nor" -> Complement(a | b)
      [] op = "Slt" -> Truth(Signed(a) < Signed(b))
      [] op = "Sltu" -> Truth(a < b)

Overflows(op, a, b) ==
    /\ op \in {"Add", "Sub"}
    /\ (Negative(a) = Negative(b)) = (op = "Add")
    /\ Negative(Arithmetic(op, a, b)) # Negative(a)

\* The operation on two registers that one with an immediate is like.
RegisterOp ==
    [Addi |-> "Add", Addiu |-> "Addu", Slti |-> "Slt", Sltiu |-> "Sltu",
     Andi |-> "And", Ori |-> "Or", Xori |-> "Xor"]

Immediate(i) ==
    IF i.op \in {"Andi", "Ori", "Xori"} THEN i.imm ELSE SignExtend(i.imm, HalfBits)

Compute(c, target, op, a, b) ==
    IF Overflows(op, a, b) THEN EnterException(c, "Overflow")
    ELSE WriteRegister(c, target, Arithmetic(op, a, b))

OpArithmetic(c, i) == Compute(c, i.rd, i.op, c[i.rs], c[i.rt])
OpImmediate(c, i) == Compute(c, i.rt, RegisterOp[i.op], c[i.rs], Immediate(i))
OpLui(c, i) == WriteRegister(c, i.rt, ShiftLeft(i.imm, HalfBits))

HiLo(c, hi, lo) == [c EXCEPT !.hi = Wrap(hi), !.lo = Wrap(lo)]

\* C++ division rounds to zero.
Quotient(n, d) ==
    LET Magnitude(x) == IF x < 0 THEN 0 - x ELSE x
        q == Magnitude(n) \div Magnitude(d)
    IN  IF (n < 0) = (d < 0) THEN q ELSE -q

Divide(c, n, d) == HiLo(c, n - d * Quotient(n, d), Quotient(n, d))

OpMult(c, i) == LET p == Signed(c[i.rs]) * Signed(c[i.rt]) IN HiLo(c, p \div 2^WordBits, p)
OpMultu(c, i) == LET p == c[i.rs] * c[i.rt] IN HiLo(c, p \div 2^WordBits, p)
OpDiv(c, i) ==
    LET n == Signed(c[i.rs])
        d == Signed(c[i.rt])
    IN  IF d = 0 THEN HiLo(c, n, IF n >= 0 THEN -1 ELSE 1)
        ELSE IF n = -(2^(WordBits - 1)) /\ d = -1 THEN HiLo(c, 0, n)
        ELSE Divide(c, n, d)
OpDivu(c, i) ==
    IF c[i.rt] = 0 THEN HiLo(c, c[i.rs], -1) ELSE Divide(c, c[i.rs], c[i.rt])

OpMove(c, i) ==
    CASE i.op = "Mfhi" -> WriteRegister(c, i.rd, c.hi)
      [] i.op = "Mflo" -> WriteRegister(c, i.rd, c.lo)
      [] i.op = "Mthi" -> [c EXCEPT !.hi = c[i.rs]]
      [] i.op = "Mtlo" -> [c EXCEPT !.lo = c[i.rs]]

-----------------------------------------------------------------------------
(* Branches and jumps.  The program counter is already at the delay slot.   *)

Taken(c, i) ==
    CASE i.op = "Beq" -> c[i.rs] = c[i.rt]
      [] i.op = "Bne" -> c[i.rs] # c[i.rt]
      [] i.op = "Blez" -> Signed(c[i.rs]) <= 0
      [] i.op = "Bgtz" -> Signed(c[i.rs]) > 0
      [] i.op \in {"Bltz", "Bltzal"} -> Negative(c[i.rs])
      [] i.op \in {"Bgez", "Bgezal"} -> ~Negative(c[i.rs])
      [] i.op \in {"J", "Jal", "Jr", "Jalr"} -> TRUE

Links(i) == i.op \in {"Bltzal", "Bgezal", "Jal"}

Target(c, i) ==
    CASE i.op \in {"Jr", "Jalr"} -> c[i.rs]
      [] i.op \in {"J", "Jal"} -> (c.pc - (c.pc % 2^(WordBits - 4))) + (4 * i.imm)
      [] OTHER -> Wrap(c.pc + 4 * SignExtend(i.imm, HalfBits))

OpBranch(c, i) ==
    LET linked == IF i.op = "Jalr" THEN WriteRegister(c, i.rd, c.next_pc)
                  ELSE IF Links(i) THEN WriteRegister(c, "ra", c.next_pc) ELSE c
    IN  IF Taken(c, i) THEN Branch(linked, Target(c, i)) ELSE linked

-----------------------------------------------------------------------------
(* Loads and stores.                                                        *)

Size ==
    [Lb |-> 1, Lbu |-> 1, Sb |-> 1, Lh |-> 2, Lhu |-> 2, Sh |-> 2, Lw |-> 4, Sw |-> 4,
     Lwl |-> 4, Lwr |-> 4, Swl |-> 4, Swr |-> 4]

\* Lwl, Lwr, Swl and Swr go to the word their address is in.
Misaligned(i, address) ==
    i.op \notin {"Lwl", "Lwr", "Swl", "Swr"} /\ address % Size[i.op] # 0

Loaded(c, i, address) ==
    LET data == Read(c, Aligned(address, Size[i.op]), Size[i.op])
        below == ByteBits * (address % 4)
        above == ByteBits * (3 - (address % 4))
    IN  CASE i.op = "Lb" -> SignExtend(data, ByteBits)
          [] i.op = "Lh" -> SignExtend(data, HalfBits)
          [] i.op \in {"Lbu", "Lhu", "Lw"} -> data
          [] i.op = "Lwl" -> (c[i.rt] % 2^above) + ShiftLeft(data, above)
          [] i.op = "Lwr" ->
                (c[i.rt] - (c[i.rt] % 2^(WordBits - below))) + ShiftRight(data, below)

OpLoad(c, i) ==
    LET address == EffectiveAddress(c, i)
    IN  IF Misaligned(i, address) THEN EnterException(c, "AddressLoad")
        ELSE IF Readable(c, Aligned(address, Size[i.op]), Size[i.op])
             THEN WriteRegister(c, i.rt, Loaded(c, i, address))
        ELSE Error(c)

\* What Swl and Swr leave of the word in memory, and put in it.
Merged(c, i, address) ==
    LET data == Read(c, Aligned(address, 4), 4)
        below == ByteBits * (address % 4)
        above == ByteBits * (3 - (address % 4))
    IN  CASE i.op = "Swl" ->
                (data - (data % 2^(WordBits - above))) + ShiftRight(c[i.rt], above)
          [] i.op = "Swr" -> (data % 2^below) + ShiftLeft(c[i.rt], below)

OpStore(c, i) ==
    LET address == EffectiveAddress(c, i)
    IN  IF Misaligned(i, address) THEN EnterException(c, "AddressStore")
        ELSE IF i.op \notin {"Swl", "Swr"} THEN Write(c, address, Size[i.op], c[i.rt])
        ELSE IF Readable(c, Aligned(address, 4), 4)
             THEN Write(c, Aligned(address, 4), 4, Merged(c, i, address))
             ELSE Error(c)

-----------------------------------------------------------------------------
(* COP0.                                                                    *)

OpMfc0(c, i) ==
    WriteRegister(c, i.rt,
        CASE i.rd \in {"status", "cause", "epc"} -> c[i.rd]
          [] i.rd = "prid" -> 2
          [] OTHER -> 0)

\* 0xf055ff3f
StatusMask == (0..5) \cup (8..15) \cup {16, 18, 20, 22} \cup (28..31)

OpMtc0(c, i) ==
    CASE i.rd = "ignored" -> c
      [] i.rd = "status" -> [c EXCEPT !.status = c[i.rt] \cap StatusMask]
      [] i.rd = "cause" -> [c EXCEPT !.cause = (@ \ {8, 9}) \cup (c[i.rt] \cap {8, 9})]
      [] i.rd = "epc" -> [c EXCEPT !.epc = c[i.rt]]
      [] OTHER -> Error(c)

\* iep and kup go back to iec and kuc, ieo and kuo to iep and kup.
OpRfe(c) ==
    [c EXCEPT !.status = {b - 2 : b \in @ \cap 2..5} \cup (@ \ 0..3)]

-----------------------------------------------------------------------------
(* Core::Run.                                                               *)

Fetch(c) ==
    [c EXCEPT !.current_pc = c.pc, !.pc = c.next_pc, !.next_pc = Wrap(@ + 4)]

\* The dispatch.  The shifts by a register go to those by a constant.
Execute(c, i) ==
    CASE i.op = "Nop" -> c
      [] i.op \in {"Sll", "Sllv"} -> OpShift(c, i, "Sll")
      [] i.op \in {"Srl", "Srlv"} -> OpShift(c, i, "Srl")
      [] i.op \in {"Sra", "Srav"} -> OpShift(c, i, "Sra")
      [] i.op \in {"Add", "Addu", "Sub", "Subu", "And", "Or", "Xor", "Nor", "Slt", "Sltu"} ->
            OpArithmetic(c, i)
      [] i.op \in DOMAIN RegisterOp -> OpImmediate(c, i)
      [] i.op = "Lui" -> OpLui(c, i)
      [] i.op = "Mult" -> OpMult(c, i)
      [] i.op = "Multu" -> OpMultu(c, i)
      [] i.op = "Div" -> OpDiv(c, i)
      [] i.op = "Divu" -> OpDivu(c, i)
      [] i.op \in {"Mfhi", "Mflo", "Mthi", "Mtlo"} -> OpMove(c, i)
      [] i.op \in {"Beq", "Bne", "Blez", "Bgtz", "Bltz", "Bgez", "Bltzal", "Bgezal",
                   "J", "Jal", "Jr", "Jalr"} -> OpBranch(c, i)
      [] i.op \in {"Lb", "Lbu", "Lh", "Lhu", "Lw", "Lwl", "Lwr"} -> OpLoad(c, i)
      [] i.op \in {"Sb", "Sh", "Sw", "Swl", "Swr"} -> OpStore(c, i)
      [] i.op = "Mfc0" -> OpMfc0(c, i)
      [] i.op = "Mtc0" -> OpMtc0(c, i)
      [] i.op = "Rfe" -> OpRfe(c)
      [] i.op \in GteOp -> OpGte(c, i)
      [] i.op = "Syscall" -> EnterException(c, "Syscall")
      [] i.op = "Break" -> EnterException(c, "Breakpoint")
      [] OTHER -> Error(c)

\* An interrupt takes the place of the instruction that was fetched.
RunFetched(c) ==
    IF Pending(c) THEN EnterException(c, "Interrupt")
    ELSE LET done == Execute(c, code[TranslateAddress(c.current_pc)])
         IN  [done EXCEPT !.branch_delay = done.branch, !.branch = FALSE]

\* After an Error nothing looks at the rest of the state.
Run ==
    LET c == IF core.pc % 4 # 0 THEN EnterException(core, "AddressLoad") ELSE core
        fetched == Fetch(c)
        mapped == TranslateAddress(fetched.current_pc) \in DOMAIN code
        done == IF mapped THEN RunFetched(fetched) ELSE Error(fetched)
    IN  /\ core.running
        /\ core' = IF done.running THEN done ELSE Error(core)
        /\ UNCHANGED code

\* A device raises its interrupt.
Raise ==
    /\ core' = Interrupted(core, INTC!AssertInterrupt(core.intc, 0))
    /\ UNCHANGED code

Next == Run \/ Raise

Spec == core.running /\ [][Next]_<<code, core>>
=============================================================================
