----------------------------- MODULE MCRecompiled -----------------------------
(***************************************************************************)
(* Words of four two-bit bytes: 256 of them, with room for a RAM of two words *)
(* at 0, the exception handler at 8 (seen at 136 and 168) and programs at 32. *)
(* Every instruction with every choice of its registers, on words at the      *)
(* boundaries of their ranges; every branch with a set of slots; and programs *)
(* that interrupts and system calls break in on.                             *)
(***************************************************************************)
EXTENDS Recompiled

In(op, rs, rt, rd, imm) == [op |-> op, rs |-> rs, rt |-> rt, rd |-> rd, imm |-> imm]
Break == In("Break", "zero", "zero", "zero", 0)
Nop == In("Nop", "zero", "zero", "zero", 0)
XoriT0 == In("Xori", "t0", "t0", "zero", 1)

Quiet == [status |-> {}, mask |-> {}, line |-> FALSE]

Core(t0, t1, status, cause, intc) ==
    [zero |-> 0, t0 |-> t0, t1 |-> t1, ra |-> 44, k0 |-> {0, 10, 16, 27}, hi |-> 3, lo |-> 5, mac0 |-> 71, dqb |-> 200,
     pc |-> 32, next_pc |-> 36, current_pc |-> 0, branch |-> FALSE, branch_delay |-> FALSE,
     status |-> status, cause |-> IF intc.line THEN cause \cup {ip2} ELSE cause, epc |-> 36,
     ram |-> (0 :> 156) @@ (4 :> 227), intc |-> intc, running |-> TRUE]

Handler ==
    (8 :> In("Mfc0", "zero", "t1", "epc", 0)) @@ (12 :> In("Mfc0", "zero", "k0", "cause", 0)) @@
    (16 :> In("Sw", "zero", "zero", "zero", 8)) @@ (20 :> In("Jr", "t1", "zero", "zero", 0)) @@
    (24 :> In("Rfe", "zero", "zero", "zero", 0)) @@ (28 :> Break)

\* An instruction, and a branch with its slot.
Single(i) == (32 :> i) @@ (36 :> Break)
WithSlot(i, slot) == (32 :> i) @@ (36 :> slot) @@ (40 :> Break) @@ (44 :> Break) @@ Handler

-----------------------------------------------------------------------------
Reg == {"zero", "t0", "t1"}
Boundary == {0, 1, 127, 128, 255}

Run1(instructions, t0s, t1s, statuses) ==
    \E i \in instructions, a \in t0s, b \in t1s, status \in statuses :
        code = Single(i) /\ core = Core(a, b, status, {}, Quiet)

ThreeRegister ==
    {In(op, rs, rt, rd, 0) :
        op \in {"Add", "Addu", "Subu", "And", "Or", "Xor", "Nor", "Slt", "Sltu", "Sub"},
        rs \in Reg, rt \in Reg, rd \in Reg}
ShiftVariable ==
    {In(op, "t0", rt, rd, 3) : op \in {"Sllv", "Srlv", "Srav"}, rt \in Reg, rd \in Reg}
ShiftConstant ==
    {In(op, "zero", rt, rd, sa) :
        op \in {"Sll", "Srl", "Sra"}, rt \in Reg, rd \in Reg, sa \in {0, 1, 7}}
HiLoInstruction ==
    {In(op, rs, rt, "zero", 0) :
        op \in {"Mult", "Multu", "Div", "Divu"}, rs \in Reg, rt \in Reg}
Move ==
    {In(op, r, "zero", r, 0) : op \in {"Mfhi", "Mflo", "Mthi", "Mtlo"}, r \in Reg}
WithConstant ==
    {In(op, rs, rt, "zero", imm) :
        op \in {"Addi", "Addiu", "Slti", "Sltiu", "Andi", "Ori", "Xori", "Lui"},
        rs \in Reg, rt \in Reg, imm \in {0, 1, 7, 8, 15}}
Memory ==
    {In(op, rs, rt, "zero", imm) :
        op \in DOMAIN Interp!Size, rs \in {"zero", "t0"}, rt \in Reg,
        imm \in (0..3) \cup {6, 8, 12, 15}}
GteInstruction ==
    {In(op, "t0", rt, "mac0", 0) : op \in {"Mfc2", "Mtc2"}, rt \in Reg} \cup
    {In(op, "t0", rt, "dqb", 0) : op \in {"Cfc2", "Ctc2"}, rt \in Reg} \cup
    {In(op, rs, "mac0", "zero", imm) :
        op \in {"Lwc2", "Swc2"}, rs \in {"zero", "t0"}, imm \in {0, 2, 4, 8}}

Singles ==
    \/ Run1(ThreeRegister, Boundary, Boundary, {{}})
    \/ Run1(ShiftVariable, {3, 8, 251}, Boundary, {{}})
    \/ Run1(ShiftConstant, Boundary, {85}, {{}})
    \/ Run1(HiLoInstruction, Boundary \cup {7, 200}, Boundary \cup {3, 253}, {{}})
    \/ Run1(Move, {9}, {85}, {{}})
    \/ Run1(WithConstant, Boundary, {85}, {{}})
    \/ Run1(Memory, {1, 132, 160, 64}, {173}, {{}, {isc}})
    \/ Run1(GteInstruction, {0, 4, 130, 64}, {173}, {{}, {isc}})
    \/ Run1(Memory, {1}, {173}, {{iec, 10}})

-----------------------------------------------------------------------------
Branches ==
    {In(op, rs, rt, "zero", imm) :
        op \in {"Beq", "Bne"}, rs \in Reg, rt \in Reg, imm \in {2, 15}} \cup
    {In(op, rs, "zero", "zero", imm) :
        op \in {"Blez", "Bgtz", "Bltz", "Bgez", "Bltzal", "Bgezal"},
        rs \in {"zero", "t0", "ra"}, imm \in {2, 15}} \cup
    {In(op, rs, "zero", rd, 0) : op \in {"Jr", "Jalr"}, rs \in {"zero", "t0", "ra"},
        rd \in {"zero", "t0", "ra"}} \cup
    {In(op, "zero", "zero", "zero", imm) : op \in {"J", "Jal"}, imm \in {0, 2, 3}}

Slots ==
    {Nop, In("Addiu", "t0", "t0", "zero", 15), In("Lw", "zero", "t0", "zero", 4),
     In("Or", "ra", "zero", "t1", 0), In("Rfe", "zero", "zero", "zero", 0),
     In("Jr", "ra", "zero", "zero", 0)}

Branching ==
    \E i \in Branches, slot \in Slots, a \in {0, 1, 3, 42, 44, 128, 136, 255},
       b \in {1, 128}, ra \in {44, 172} :
        /\ code = WithSlot(i, slot)
        /\ core = [Core(a, b, {1, 2, 5}, {}, Quiet) EXCEPT !.ra = ra]

\* A jump in the last word of a region.
AtTheEnd ==
    \E op \in {"J", "Jal"}, imm \in {0, 2} :
        /\ code = (44 :> In(op, "zero", "zero", "zero", imm)) @@ (48 :> Nop) @@
                  (52 :> Break) @@ (56 :> Break)
        /\ core = [Core(0, 1, {}, {}, Quiet) EXCEPT !.pc = 44, !.next_pc = 48]

-----------------------------------------------------------------------------
Mtc0(rd) == In("Mtc0", "zero", "k0", rd, 0)
Syscall == In("Syscall", "zero", "zero", "zero", 0)
Loop == In("J", "zero", "zero", "zero", 1)

Mains ==
    {(32 :> i) @@ (36 :> Loop) @@ (40 :> slot) @@ (44 :> Break) @@ Handler :
        i \in {Nop, Syscall, Mtc0("status"), Mtc0("cause"), Mtc0("ignored"), Mtc0("epc"),
               In("Mfc0", "zero", "zero", "epc", 0),
               In("Sw", "zero", "t0", "zero", 12)},
        slot \in {XoriT0, Mtc0("status"), In("Sw", "zero", "t0", "zero", 12),
                  In("Mfc0", "zero", "k0", "status", 0)}}

Pendings ==
    {[status |-> s, mask |-> m, line |-> s \cap m # {}] : s \in {{}, {0}}, m \in {{}, {0}}}

Interrupting ==
    \E main \in Mains, status \in {{}, {0, 1, 10}, {0, 3, 10, 22}, {8}},
       cause \in {{}, {4}, {8, 28}}, intc \in Pendings, k0 \in {{0, 10, 27}, {8, 9, 10, 16}, {}} :
        code = main /\ core = [Core(1, 85, status, cause, intc) EXCEPT !.k0 = k0]

MCInit == (Singles \/ Branching \/ AtTheEnd \/ Interrupting) /\ Init
MCSpec == MCInit /\ [][Next]_vars
=============================================================================
