------------------------------ MODULE Recompiler ------------------------------
(***************************************************************************)
(* The recompiler's emitters (core/cpu/recompiler.cpp): the x86 code that     *)
(* stands for one guest instruction.  Get is the idiom (r == 0) ? xor : mov   *)
(* with which most of them read a register.  The constants that are 8 and 24  *)
(* in the code are the bits of one byte and of three.                        *)
(***************************************************************************)
EXTENDS X86

Get(host, r) == IF r = "zero" THEN R("xor", host, host) ELSE R("mov", host, r)
Put(r, host) == R("mov", r, host)

\* An instruction that is emitted under a condition.
When(condition, e) == IF condition THEN <<e>> ELSE <<>>

Zeroed(r) == <<R("xor", "eax", "eax"), Put(r, "eax")>>
Copied(to, from) == <<R("mov", "eax", from), Put(to, "eax")>>

-----------------------------------------------------------------------------
(* Shifts.                                                                  *)

\* CompileSll, CompileSrl and CompileSra, with shl, shr and sar.
CompileShift(op, i) ==
    IF i.rd = "zero" \/ (i.rd = i.rt /\ i.imm = 0) THEN <<>>
    ELSE IF i.rt = "zero" THEN Zeroed(i.rd)
    ELSE IF i.imm = 0 THEN Copied(i.rd, i.rt)
    ELSE IF i.rd = i.rt THEN <<I(op, i.rd, i.imm)>>
    ELSE <<R("mov", "eax", i.rt), I(op, "eax", i.imm), Put(i.rd, "eax")>>

\* CompileSllv, CompileSrlv and CompileSrav.
CompileShiftVariable(op, i) ==
    IF i.rd = "zero" THEN <<>>
    ELSE IF i.rt = "zero" THEN Zeroed(i.rd)
    ELSE <<R("mov", "ecx", i.rs), I("and", "ecx", WordBits - 1)>> \o
         IF i.rd = i.rt THEN <<R(op, i.rd, "cl")>>
         ELSE <<R("mov", "eax", i.rt), R(op, "eax", "cl"), Put(i.rd, "eax")>>

-----------------------------------------------------------------------------
(* Jumps through a register, and system calls.                              *)

Goto(host) == <<R("mov", "pc", host), I("add", host, 4), R("mov", "next_pc", host)>>

CompileJr(i) == <<Get("eax", i.rs)>> \o Goto("eax")

\* Fault: the link comes first, and a jump through the register that gets it goes on
\* after its slot.
CompileJalrLinkFirst(address, i) ==
    When(i.rd # "zero", I("mov", i.rd, Wrap(address + 8))) \o
    <<Get("eax", i.rs)>> \o Goto("eax")

CompileJalr(address, i) ==
    <<Get("eax", i.rs)>> \o
    When(i.rd # "zero", I("mov", i.rd, Wrap(address + 8))) \o
    Goto("eax")

\* The masks are 0x3f, ~0x3f and 0x3fffff73; bit 22 is tested in eax, which holds
\* the cause by then.
CompileSyscall(address) ==
    <<I("mov", "epc", address),
      R("mov", "eax", "status"), R("mov", "ecx", "eax"),
      I("shlbits", "ecx", 2), I("andbits", "ecx", 0..5),
      I("andbits", "eax", Bit \ 0..5), R("orbits", "eax", "ecx"), R("mov", "status", "eax"),
      R("mov", "eax", "cause"),
      I("andbits", "eax", {0, 1} \cup (4..6) \cup (8..29)), I("orbits", "eax", {5}),
      R("mov", "cause", "eax"),
      I("mov", "ecx", Vector), I("mov", "edx", BootVector),
      I("bt", "eax", bev), [op |-> "cmov", condition |-> "c", dst |-> "ecx", src |-> "edx"]>>
    \o Goto("ecx")

-----------------------------------------------------------------------------
(* Arithmetic on registers.                                                 *)

CompileMoveFrom(special, i) == IF i.rd = "zero" THEN <<>> ELSE Copied(i.rd, special)
CompileMoveTo(special, i) == <<Get("eax", i.rs), R("mov", special, "eax")>>

HiLoOperation(i, emitted) ==
    <<R("mov", "eax", i.rs), R("mov", "ecx", i.rt)>> \o emitted \o
    <<R("mov", "lo", "eax"), R("mov", "hi", "edx")>>

CompileMult(i) == HiLoOperation(i, <<[op |-> "imul", src |-> "ecx"]>>)
CompileMultu(i) == HiLoOperation(i, <<[op |-> "mul", src |-> "ecx"]>>)
CompileDiv(i) == HiLoOperation(i, <<[op |-> "cdq"], [op |-> "idiv", src |-> "ecx"]>>)
CompileDivu(i) ==
    HiLoOperation(i, <<R("xor", "edx", "edx"), [op |-> "div", src |-> "ecx"]>>)

\* In place where the result goes to one of the operands.
Accumulate(op, i) ==
    IF i.rd = i.rs THEN <<R("mov", "eax", i.rt), R(op, i.rd, "eax")>>
    ELSE IF i.rd = i.rt THEN <<R("mov", "eax", i.rs), R(op, i.rd, "eax")>>
    ELSE <<R("mov", "eax", i.rs), R("mov", "ecx", i.rt), R(op, "eax", "ecx"),
           Put(i.rd, "eax")>>

\* With an operand that is zero, for the operations that return the other one.
OrOther(i, otherwise) ==
    IF i.rs = "zero" /\ i.rt = "zero" THEN Zeroed(i.rd)
    ELSE IF i.rs = "zero" THEN Copied(i.rd, i.rt)
    ELSE IF i.rt = "zero" THEN Copied(i.rd, i.rs)
    ELSE otherwise

CompileAddu(i) ==
    IF i.rd = "zero" THEN <<>>
    ELSE OrOther(i,
        IF i.rs = i.rt /\ i.rd # i.rs
        THEN <<R("mov", "eax", i.rs), R("add", "eax", "eax"), Put(i.rd, "eax")>>
        ELSE Accumulate("add", i))

CompileSubu(i) ==
    IF i.rd = "zero" THEN <<>>
    ELSE <<R("mov", "eax", i.rs), R("mov", "ecx", i.rt), R("sub", "eax", "ecx"),
           Put(i.rd, "eax")>>

CompileAnd(i) ==
    IF i.rd = "zero" \/ (i.rd = i.rs /\ i.rd = i.rt) THEN <<>>
    ELSE IF "zero" \in {i.rs, i.rt} THEN Zeroed(i.rd)
    ELSE Accumulate("and", i)

CompileOr(i) ==
    IF i.rd = "zero" \/ (i.rd = i.rs /\ i.rd = i.rt) THEN <<>>
    ELSE OrOther(i, Accumulate("or", i))

CompileXor(i) ==
    IF i.rd = "zero" THEN <<>>
    ELSE IF i.rs = i.rt THEN Zeroed(i.rd)
    ELSE OrOther(i, Accumulate("xor", i))

\* Rs and Rt equal gives the complement of 0, whatever the register holds.
CompileNor(i) ==
    IF i.rd = "zero" THEN <<>>
    ELSE (IF i.rs = i.rt THEN <<R("xor", "eax", "eax")>>
          ELSE IF i.rs = "zero" THEN <<R("mov", "eax", i.rt)>>
          ELSE IF i.rt = "zero" THEN <<R("mov", "eax", i.rs)>>
          ELSE <<R("mov", "eax", i.rs), R("mov", "ecx", i.rt), R("or", "eax", "ecx")>>)
         \o <<I("not", "eax", 0), Put(i.rd, "eax")>>

\* The comparison that came before, as a word.
SetBy(setcc, r) == <<[op |-> setcc], R("movzx", "eax", "al"), Put(r, "eax")>>

CompileSlt(i) ==
    IF i.rd = "zero" THEN <<>>
    ELSE IF i.rs = i.rt THEN Zeroed(i.rd)
    ELSE <<Get("eax", i.rs), Get("ecx", i.rt), R("cmp", "eax", "ecx")>> \o SetBy("setl", i.rd)

CompileSltu(i) ==
    IF i.rd = "zero" THEN <<>>
    ELSE IF i.rs = i.rt \/ i.rt = "zero" THEN Zeroed(i.rd)
    ELSE <<Get("eax", i.rs), R("mov", "ecx", i.rt), R("cmp", "eax", "ecx")>>
         \o SetBy("setb", i.rd)
-----------------------------------------------------------------------------
(* Branches.  They leave pc and next_pc behind for the next block, and do not *)
(* touch them if they are not taken.                                        *)

Cmov(condition, dst, src) ==
    [op |-> "cmov", condition |-> condition, dst |-> dst, src |-> src]

Offset(i) == Wrap(4 * SignExtend(i.imm, HalfBits) - 4)

PastSlot(address) ==
    <<I("mov", "pc", Wrap(address + 8)), I("mov", "next_pc", Wrap(address + 12))>>

AddToBoth(host) == <<R("add", "pc", host), R("add", "next_pc", host)>>
Always(i) == <<I("mov", "eax", Offset(i))>> \o AddToBoth("eax")
Link(address) == I("mov", "ra", Wrap(address + 8))

\* Bits 16 and 20 to 17 of the instruction make it one of four operations.
CompileBcond(address, i) ==
    LET bgez == i.op \in {"Bgez", "Bgezal"}
        link == i.op \in {"Bltzal", "Bgezal"}
    IN  PastSlot(address) \o When(link, Link(address)) \o
        IF i.rs = "zero" /\ bgez
        THEN <<I("add", "pc", Offset(i)), I("add", "next_pc", Offset(i))>>
        ELSE IF i.rs = "zero" THEN <<>>
        ELSE <<R("mov", "eax", i.rs), R("xor", "ecx", "ecx"), I("mov", "esi", Offset(i)),
               R("cmp", "eax", "ecx"), Cmov(IF bgez THEN "ge" ELSE "l", "ecx", "esi")>>
             \o AddToBoth("ecx")

Absolute(address, i) ==
    LET target == (address - (address % 2^(WordBits - 4))) + (4 * i.imm)
    IN  <<I("mov", "pc", target), I("mov", "next_pc", Wrap(target + 4))>>

CompileJ(address, i) == Absolute(address, i)
CompileJal(address, i) == <<Link(address)>> \o Absolute(address, i)

CompareTwo(i, condition) ==
    <<Get("eax", i.rs), Get("ecx", i.rt), R("xor", "edx", "edx"),
      I("mov", "esi", Offset(i)), R("cmp", "eax", "ecx"), Cmov(condition, "edx", "esi")>>
    \o AddToBoth("edx")

CompileBeq(address, i) ==
    PastSlot(address) \o IF i.rs = i.rt THEN Always(i) ELSE CompareTwo(i, "e")
CompileBne(address, i) ==
    PastSlot(address) \o IF i.rs = i.rt THEN <<>> ELSE CompareTwo(i, "ne")

CompareWithZero(i, condition) ==
    <<R("mov", "eax", i.rs), R("xor", "ecx", "ecx"), I("mov", "edx", Offset(i)),
      I("cmp", "eax", 0), Cmov(condition, "ecx", "edx")>> \o AddToBoth("ecx")

CompileBlez(address, i) ==
    PastSlot(address) \o IF i.rs = "zero" THEN Always(i) ELSE CompareWithZero(i, "le")
CompileBgtz(address, i) ==
    PastSlot(address) \o IF i.rs = "zero" THEN <<>> ELSE CompareWithZero(i, "g")

-----------------------------------------------------------------------------
(* Arithmetic with an immediate.                                            *)

\* For the operations that return their operand for an immediate of 0 and the
\* immediate for an operand that is zero.
WithImmediate(op, i, imm) ==
    IF i.rt = i.rs THEN When(imm # 0, I(op, i.rt, imm))
    ELSE IF i.rs = "zero" THEN <<I("mov", i.rt, imm)>>
    ELSE <<R("mov", "eax", i.rs)>> \o When(imm # 0, I(op, "eax", imm)) \o <<Put(i.rt, "eax")>>

CompileAddiu(i) ==
    IF i.rt = "zero" THEN <<>> ELSE WithImmediate("add", i, SignExtend(i.imm, HalfBits))

CompareWithImmediate(setcc, i) ==
    IF i.rt = "zero" THEN <<>>
    ELSE <<Get("eax", i.rs), I("cmp", "eax", SignExtend(i.imm, HalfBits))>>
         \o SetBy(setcc, i.rt)

CompileSlti(i) == CompareWithImmediate("setl", i)
CompileSltiu(i) == CompareWithImmediate("setb", i)

CompileAndi(i) ==
    IF i.rt = "zero" THEN <<>>
    ELSE IF i.rt = i.rs THEN <<I("and", i.rt, i.imm)>>
    ELSE IF i.rs = "zero" \/ i.imm = 0 THEN Zeroed(i.rt)
    ELSE <<R("mov", "eax", i.rs), I("and", "eax", i.imm), Put(i.rt, "eax")>>

CompileOri(i) == IF i.rt = "zero" THEN <<>> ELSE WithImmediate("or", i, i.imm)
CompileXori(i) == IF i.rt = "zero" THEN <<>> ELSE WithImmediate("xor", i, i.imm)

CompileLui(i) ==
    IF i.rt = "zero" THEN <<>> ELSE <<I("mov", i.rt, ShiftLeft(i.imm, HalfBits))>>

-----------------------------------------------------------------------------
(* COP0.                                                                    *)

\* There is no test for register 0, and other registers end the program.
CompileMfc0(i) == Copied(i.rt, i.rd)

\* 0xf055ff3f, and 0xfffffcff, whose negation is 0x301.
CompileMtc0(i) ==
    CASE i.rd = "ignored" -> <<>>
      [] i.rd = "status" ->
            <<R("mov", "eax", i.rt),
              I("andbits", "eax",
                (0..5) \cup (8..15) \cup {16, 18, 20, 22} \cup (28..31)),
              R("mov", "status", "eax")>>
      [] i.rd = "cause" ->
            <<I("mov", "ecx", Bit \ {8, 9}), R("andbits", "cause", "ecx"),
              R("mov", "edx", i.rt), I("negbits", "ecx", 0), R("andbits", "edx", "ecx"),
              R("orbits", "cause", "edx")>>

CompileRfe ==
    <<R("mov", "eax", "status"), R("mov", "ecx", "eax"), I("shrbits", "ecx", 2),
      I("andbits", "ecx", 0..3), I("andbits", "eax", Bit \ 0..3),
      R("orbits", "eax", "ecx"), R("mov", "status", "eax")>>
-----------------------------------------------------------------------------
(* Loads and stores.  None tests that its address is aligned.                *)

GuestAddress(i) ==
    LET imm == SignExtend(i.imm, HalfBits)
    IN  <<Get("esi", i.rs)>> \o When(imm # 0, I("add", "esi", imm))

\* CompileLb, CompileLh, CompileLw, CompileLbu and CompileLhu.
CompileLoad(i) ==
    LET function ==
            [Lb |-> "ReadByte", Lbu |-> "ReadByte", Lh |-> "ReadHalf", Lhu |-> "ReadHalf",
             Lw |-> "ReadWord"]
        extend ==
            [Lb |-> <<R("movsx8", "eax", "al")>>, Lbu |-> <<R("movzx", "eax", "al")>>,
             Lh |-> <<R("movsx16", "eax", "ax")>>, Lhu |-> <<R("movzx", "eax", "ax")>>,
             Lw |-> <<>>]
    IN  GuestAddress(i) \o <<Call(function[i.op])>> \o
        IF i.rt = "zero" THEN <<>> ELSE extend[i.op] \o <<Put(i.rt, "eax")>>

\* shl by 3: the bytes below the address become bits.
BitsBelow ==
    <<R("mov", "r12d", "esi"), I("and", "r12d", 3),
      I("shl", "r12d", CHOOSE n \in 0..ByteBits : 2^n = ByteBits)>>

WordOf == <<I("and", "esi", Complement(3))>>
Ones == <<R("xor", "esi", "esi"), I("not", "esi", 0)>>
BitsAbove == <<I("mov", "ecx", 3 * ByteBits), R("sub", "ecx", "r12d")>>

CompileLwl(i) ==
    GuestAddress(i) \o BitsBelow \o WordOf \o <<Call("ReadWord")>> \o
    IF i.rt = "zero" THEN <<>>
    ELSE <<R("mov", "edx", i.rt), R("mov", "ecx", "r12d")>>
         \o Ones \o <<I("shr", "esi", ByteBits), R("shr", "esi", "cl")>>
         \o BitsAbove \o <<R("shl", "eax", "cl"),
            R("and", "edx", "esi"), R("or", "eax", "edx"), Put(i.rt, "eax")>>

CompileLwr(i) ==
    GuestAddress(i) \o BitsBelow \o WordOf \o <<Call("ReadWord")>> \o
    IF i.rt = "zero" THEN <<>>
    ELSE <<R("mov", "edx", i.rt)>> \o BitsAbove
         \o Ones \o <<I("shl", "esi", ByteBits), R("shl", "esi", "cl")>>
         \o <<R("mov", "ecx", "r12d"), R("shr", "eax", "cl"),
              R("and", "edx", "esi"), R("or", "eax", "edx"), Put(i.rt, "eax")>>

\* CompileSb, CompileSh and CompileSw.
CompileStore(i) ==
    LET function == [Sb |-> "WriteByte", Sh |-> "WriteHalf", Sw |-> "WriteWord"]
    IN  GuestAddress(i) \o <<Get("edx", i.rt), Call(function[i.op])>>

\* The address and the shift survive the call in registers that are the caller's.
ReadBeforeStore(i) ==
    GuestAddress(i) \o BitsBelow \o WordOf
    \o <<R("mov", "r13d", "esi"), Call("ReadWord"), Get("edx", i.rt)>>

WriteMerged ==
    <<R("or", "edx", "eax"), R("mov", "esi", "r13d"), Call("WriteWord")>>

CompileSwl(i) ==
    ReadBeforeStore(i)
    \o <<R("mov", "ecx", "r12d")>> \o Ones
    \o <<I("shl", "esi", ByteBits), R("shl", "esi", "cl"), R("and", "eax", "esi")>>
    \o BitsAbove \o <<R("shr", "edx", "cl")>> \o WriteMerged

CompileSwr(i) ==
    ReadBeforeStore(i) \o BitsAbove \o Ones
    \o <<I("shr", "esi", ByteBits), R("shr", "esi", "cl"), R("and", "eax", "esi"),
         R("mov", "ecx", "r12d"), R("shl", "edx", "cl")>> \o WriteMerged

\* The address of the function and the instruction as its argument.
CompileGte(i) == <<[op |-> "OpGte", instruction |-> i]>>

-----------------------------------------------------------------------------
(* The dispatch.  The recompiler has no Sub and no Break.                    *)

CompileInstruction(address, i) ==
    CASE i.op = "Nop" -> <<>>
      [] i.op = "Sll" -> CompileShift("shl", i)
      [] i.op = "Srl" -> CompileShift("shr", i)
      [] i.op = "Sra" -> CompileShift("sar", i)
      [] i.op = "Sllv" -> CompileShiftVariable("shl", i)
      [] i.op = "Srlv" -> CompileShiftVariable("shr", i)
      [] i.op = "Srav" -> CompileShiftVariable("sar", i)
      [] i.op = "Jr" -> CompileJr(i)
      [] i.op = "Jalr" -> CompileJalr(address, i)
      [] i.op = "Syscall" -> CompileSyscall(address)
      [] i.op = "Mfhi" -> CompileMoveFrom("hi", i)
      [] i.op = "Mflo" -> CompileMoveFrom("lo", i)
      [] i.op = "Mthi" -> CompileMoveTo("hi", i)
      [] i.op = "Mtlo" -> CompileMoveTo("lo", i)
      [] i.op = "Mult" -> CompileMult(i)
      [] i.op = "Multu" -> CompileMultu(i)
      [] i.op = "Div" -> CompileDiv(i)
      [] i.op = "Divu" -> CompileDivu(i)
      [] i.op \in {"Add", "Addu"} -> CompileAddu(i)
      [] i.op = "Subu" -> CompileSubu(i)
      [] i.op = "And" -> CompileAnd(i)
      [] i.op = "Or" -> CompileOr(i)
      [] i.op = "Xor" -> CompileXor(i)
      [] i.op = "Nor" -> CompileNor(i)
      [] i.op = "Slt" -> CompileSlt(i)
      [] i.op = "Sltu" -> CompileSltu(i)
      [] i.op \in {"Bltz", "Bgez", "Bltzal", "Bgezal"} -> CompileBcond(address, i)
      [] i.op = "J" -> CompileJ(address, i)
      [] i.op = "Jal" -> CompileJal(address, i)
      [] i.op = "Beq" -> CompileBeq(address, i)
      [] i.op = "Bne" -> CompileBne(address, i)
      [] i.op = "Blez" -> CompileBlez(address, i)
      [] i.op = "Bgtz" -> CompileBgtz(address, i)
      [] i.op \in {"Addi", "Addiu"} -> CompileAddiu(i)
      [] i.op = "Slti" -> CompileSlti(i)
      [] i.op = "Sltiu" -> CompileSltiu(i)
      [] i.op = "Andi" -> CompileAndi(i)
      [] i.op = "Ori" -> CompileOri(i)
      [] i.op = "Xori" -> CompileXori(i)
      [] i.op = "Lui" -> CompileLui(i)
      [] i.op = "Mfc0" -> CompileMfc0(i)
      [] i.op = "Mtc0" -> CompileMtc0(i)
      [] i.op = "Rfe" -> CompileRfe
      [] i.op \in {"Lb", "Lh", "Lw", "Lbu", "Lhu"} -> CompileLoad(i)
      [] i.op = "Lwl" -> CompileLwl(i)
      [] i.op = "Lwr" -> CompileLwr(i)
      [] i.op \in {"Sb", "Sh", "Sw"} -> CompileStore(i)
      [] i.op = "Swl" -> CompileSwl(i)
      [] i.op = "Swr" -> CompileSwr(i)
      [] i.op \in GteOp -> CompileGte(i)
=============================================================================
