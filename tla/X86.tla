---------------------------------- MODULE X86 ----------------------------------
(***************************************************************************)
(* The host: what the x86 instructions that the recompiler emits do.  Code is *)
(* a sequence of records with an operation, a destination and a source, which *)
(* is a register, a field of the processor's object (memory at rbx) or a      *)
(* constant.  The state is that of Core with the host's registers; flags      *)
(* holds the two values that cmp compared, or what bt found.                  *)
(*                                                                         *)
(* Registers hold words, and sets of bits where they pass a COP0 register on: *)
(* the operations on these have names of their own.                          *)
(***************************************************************************)
EXTENDS Core, Sequences, TLC

CONSTANT Garbage        \* what registers hold that nobody has written

R(op, dst, src) == [op |-> op, dst |-> dst, src |-> src]
I(op, dst, n) == [op |-> op, dst |-> dst, imm |-> n]

\* Calls of Core's functions, with their arguments in esi and edx.
Call(function) == [op |-> function]

HostRegister == {"eax", "ecx", "edx", "esi", "r12d", "r13d"}

\* At the start of a guest instruction nothing is known of the host's registers.
Entered(c) == c @@ [r \in HostRegister |-> Garbage] @@ [flags |-> <<Garbage, 0>>]

-----------------------------------------------------------------------------
\* The partial registers, and cl as the count of a shift, which is taken modulo
\* the width of a word.
Value(h, e) ==
    IF "imm" \in DOMAIN e THEN e.imm
    ELSE CASE e.src = "al" -> h.eax % 2^ByteBits
           [] e.src = "ax" -> h.eax % 2^HalfBits
           [] e.src = "cl" -> h.ecx % WordBits
           [] OTHER -> h[e.src]

Result(op, a, b) ==
    CASE op \in {"mov", "movzx"} -> b
      [] op = "movsx8" -> SignExtend(b, ByteBits)
      [] op = "movsx16" -> SignExtend(b, HalfBits)
      [] op = "add" -> Wrap(a + b)
      [] op = "sub" -> Wrap(a - b)
      [] op = "and" -> (a & b)
      [] op = "or" -> (a | b)
      [] op = "xor" -> (a ^^ b)
      [] op = "not" -> Complement(a)
      [] op = "shl" -> ShiftLeft(a, b)
      [] op = "shr" -> ShiftRight(a, b)
      [] op = "sar" -> ShiftRightSigned(a, b)
      \* The same on sets of bits.
      [] op = "andbits" -> a \cap b
      [] op = "orbits" -> a \cup b
      [] op = "shlbits" -> {n + b : n \in a} \cap Bit
      [] op = "shrbits" -> {n - b : n \in a} \cap Bit
      [] op = "negbits" ->
            LET lowest == CHOOSE n \in a : \A m \in a : n <= m
            IN  {lowest} \cup {n \in Bit \ a : n > lowest}

Holds(flags, condition) ==
    CASE condition = "e" -> flags[1] = flags[2]
      [] condition = "ne" -> flags[1] # flags[2]
      [] condition = "b" -> flags[1] < flags[2]
      [] condition = "l" -> Signed(flags[1]) < Signed(flags[2])
      [] condition = "le" -> Signed(flags[1]) <= Signed(flags[2])
      [] condition = "g" -> Signed(flags[1]) > Signed(flags[2])
      [] condition = "ge" -> Signed(flags[1]) >= Signed(flags[2])
      [] condition = "c" -> flags[1]

Pair(h, low, high) == [h EXCEPT !.eax = Wrap(low), !.edx = Wrap(high)]

Truncated(n, d) ==
    LET q == (IF n < 0 THEN -n ELSE n) \div (IF d < 0 THEN -d ELSE d)
    IN  IF (n < 0) = (d < 0) THEN q ELSE -q

\* A division by zero and one whose quotient has no place raise a fault.
Quotient(h, n, d, places) ==
    IF d = 0 \/ Truncated(n, d) \notin places THEN Error(h)
    ELSE Pair(h, Truncated(n, d), n - (d * Truncated(n, d)))

Multiply(h, e, product) == Pair(h, product, product \div 2^WordBits)

\* The function returns a byte or a half in a register whose other bits are
\* anything; the registers that are not the caller's to keep are lost.
Lost(h) == [h EXCEPT !.eax = Garbage, !.ecx = Garbage, !.edx = Garbage, !.esi = Garbage]

Returned(h, size) ==
    IF Readable(h, h.esi, size)
    THEN [Lost(h) EXCEPT !.eax = (Garbage - (Garbage % 2^(size * ByteBits)))
                                 + Read(h, h.esi, size)]
    ELSE Error(h)

Step(h, e) ==
    CASE e.op \in {"setl", "setb"} ->
            LET condition == IF e.op = "setl" THEN "l" ELSE "b"
            IN  [h EXCEPT !.eax = (@ - (@ % 2^ByteBits)) + Truth(Holds(h.flags, condition))]
      [] e.op = "cmov" ->
            IF Holds(h.flags, e.condition) THEN [h EXCEPT ![e.dst] = h[e.src]] ELSE h
      [] e.op = "cmp" -> [h EXCEPT !.flags = <<h[e.dst], Wrap(Value(h, e))>>]
      [] e.op = "bt" -> [h EXCEPT !.flags = <<e.imm \in h[e.dst]>>]
      [] e.op = "imul" -> Multiply(h, e, Signed(h.eax) * Signed(h[e.src]))
      [] e.op = "mul" -> Multiply(h, e, h.eax * h[e.src])
      [] e.op = "cdq" -> [h EXCEPT !.edx = IF Negative(h.eax) THEN Complement(0) ELSE 0]
      [] e.op = "idiv" ->
            Quotient(h, (Signed(h.edx) * 2^WordBits) + h.eax, Signed(h[e.src]),
                     -(2^(WordBits - 1))..(2^(WordBits - 1) - 1))
      [] e.op = "div" -> Quotient(h, (h.edx * 2^WordBits) + h.eax, h[e.src], Word)
      [] e.op = "ReadByte" -> Returned(h, 1)
      [] e.op = "ReadHalf" -> Returned(h, 2)
      [] e.op = "ReadWord" -> Returned(h, 4)
      [] e.op = "WriteByte" -> Lost(Write(h, h.esi, 1, h.edx))
      [] e.op = "WriteHalf" -> Lost(Write(h, h.esi, 2, h.edx))
      [] e.op = "WriteWord" -> Lost(Write(h, h.esi, 4, h.edx))
      [] e.op = "OpGte" -> Lost(OpGte(h, e.instruction))
      [] OTHER -> [h EXCEPT ![e.dst] = Result(e.op, @, Value(h, e))]

\* An instruction after one that ended the program does not run.
RECURSIVE Exec(_, _)
Exec(h, emitted) ==
    IF emitted = <<>> \/ ~h.running THEN h ELSE Exec(Step(h, Head(emitted)), Tail(emitted))
=============================================================================
