------------------------------- MODULE DmacProofs ------------------------------
(***************************************************************************)
(* Types, the order of transfers, the interrupt and the framing of commands  *)
(* of Dmac, for VRAM, memory, tables and packets of every size.              *)
(*                                                                         *)
(* Two invariants: IInv says what each part of the state is by itself, and   *)
(* FrameInv, relative to it, how what is on its way to the command port      *)
(* divides into commands, in each loop that can be on the way.               *)
(***************************************************************************)
EXTENDS Dmac, FiniteSetTheorems, TLAPS

-----------------------------------------------------------------------------
(* Sequences.                                                               *)

\* What Tail and Head return.
LEMMA TailFacts ==
    ASSUME NEW S, NEW s \in Seq(S), s # << >>
    PROVE  /\ Tail(s) \in Seq(S) /\ Len(s) \in Nat /\ Len(s) >= 1 /\ Len(Tail(s)) = Len(s) - 1
           /\ \A i \in 1..(Len(s) - 1) : Tail(s)[i] = s[i + 1]
           /\ Head(s) = s[1] /\ s[1] \in S
           /\ Len(s) >= 2 => Last(Tail(s)) = Last(s)
<1>1. /\ Tail(s) \in Seq(S) /\ Len(s) \in Nat /\ Len(s) >= 1 /\ Len(Tail(s)) = Len(s) - 1
      /\ \A i \in 1..(Len(s) - 1) : Tail(s)[i] = s[i + 1]
      /\ Head(s) = s[1] /\ s[1] \in S
    OBVIOUS
<1>2. Len(s) >= 2 => Last(Tail(s)) = Last(s)
    <2> SUFFICES ASSUME Len(s) >= 2 PROVE Last(Tail(s)) = Last(s)
        OBVIOUS
    <2>1. Len(s) - 1 \in 1..(Len(s) - 1) /\ (Len(s) - 1) + 1 = Len(s)
        BY <1>1
    <2>2. Tail(s)[Len(s) - 1] = s[Len(s)]
        BY <1>1, <2>1
    <2>3. Tail(s)[Len(Tail(s))] = s[Len(s)]
        BY <1>1, <2>2
    <2> QED
        BY <2>3, Zenon DEF Last
<1> QED
    BY <1>1, <1>2

\* A sequence is the function of its elements.
LEMMA SequenceIs == ASSUME NEW S, NEW s \in Seq(S) PROVE s = [i \in 1..Len(s) |-> s[i]]
OBVIOUS

\* A sequence is determined by its elements.
LEMMA SameSequence ==
    ASSUME NEW S, NEW s \in Seq(S), NEW t \in Seq(S), Len(s) = Len(t),
           \A i \in 1..Len(s) : s[i] = t[i]
    PROVE  s = t
OBVIOUS

LEMMA Joined ==
    ASSUME NEW S, NEW a \in Seq(S), NEW b \in Seq(S)
    PROVE  a \o b \in Seq(S) /\ Len(a \o b) = Len(a) + Len(b)
OBVIOUS

\* What InsertAt returns.
LEMMA InsertAtFacts ==
    ASSUME NEW S, NEW s \in Seq(S), NEW i \in DOMAIN s, NEW e \in S
    PROVE  /\ InsertAt(s, i + 1, e) \in Seq(S) /\ Len(InsertAt(s, i + 1, e)) = Len(s) + 1
           /\ \A j \in 1..(Len(s) + 1) :
                InsertAt(s, i + 1, e)[j] =
                    IF j <= i THEN s[j] ELSE IF j = i + 1 THEN e ELSE s[j - 1]
<1> DEFINE before == SubSeq(s, 1, i)
           behind == SubSeq(s, i + 1, Len(s))
           t == InsertAt(s, i + 1, e)
<1>1. i \in Nat /\ Len(s) \in Nat /\ i >= 1 /\ i <= Len(s) /\ i + 1 - 1 = i
    OBVIOUS
<1>2. before \in Seq(S) /\ Len(before) = i /\ \A j \in 1..i : before[j] = s[j]
    BY <1>1
<1>3. behind \in Seq(S) /\ Len(behind) = Len(s) - i /\ \A j \in 1..(Len(s) - i) : behind[j] = s[i + j]
    BY <1>1
<1>4. t = before \o <<e>> \o behind
    <2>1. (i + 1) - 1 = i
        OBVIOUS
    <2> QED
        BY <2>1, Zenon DEF InsertAt
<1>5. <<e>> \in Seq(S) /\ Len(<<e>>) = 1 /\ <<e>>[1] = e
    OBVIOUS
<1> HIDE DEF before, behind, t
<1> DEFINE front == before \o <<e>>
<1>6. front \in Seq(S) /\ Len(front) = i + 1
    BY <1>1, <1>2, <1>5
<1>7. \A j \in 1..(i + 1) : front[j] = IF j <= i THEN s[j] ELSE e
    BY <1>1, <1>2, <1>5
<1>8. t = front \o behind
    BY <1>4
<1> HIDE DEF front
<1>9. t \in Seq(S) /\ Len(t) = Len(s) + 1
    <2>1. front \o behind \in Seq(S) /\ Len(front \o behind) = Len(front) + Len(behind)
        BY <1>3, <1>6, Joined
    <2> QED
        BY <1>1, <1>3, <1>6, <1>8, <2>1
<1>10. ASSUME NEW j \in 1..(Len(s) + 1)
      PROVE  t[j] = IF j <= i THEN s[j] ELSE IF j = i + 1 THEN e ELSE s[j - 1]
    <2>1. CASE j <= i + 1
        <3>1. t[j] = front[j]
            BY <1>1, <1>3, <1>6, <1>8, <2>1
        <3> QED
            BY <1>1, <1>7, <2>1, <3>1
    <2>2. CASE j > i + 1
        <3>1. t[j] = behind[j - (i + 1)]
            BY <1>1, <1>3, <1>6, <1>8, <2>2, SMTT(30)
        <3>2. j - (i + 1) \in 1..(Len(s) - i) /\ i + (j - (i + 1)) = j - 1
            BY <1>1, <2>2
        <3>3. behind[j - (i + 1)] = s[j - 1]
            BY <1>3, <3>2
        <3> QED
            BY <1>1, <2>2, <3>1, <3>3
    <2>3. j <= i + 1 \/ j > i + 1
        BY <1>1
    <2> QED
        BY <2>1, <2>2, <2>3, Zenon
<1> QED
    BY <1>9, <1>10 DEF t

\* Induction over the numbers, for a set of them.
LEMMA Induction ==
    ASSUME NEW S, 0 \in S, \A n \in Nat : n \in S => n + 1 \in S
    PROVE  Nat \subseteq S
<1> DEFINE R == OpToRel(<, Nat)
           T == Nat \ S
<1>1. IsWellFoundedOn(R, Nat)
    BY NatLessThanWellFounded
<1>2. \A m, n \in Nat : m < n => <<m, n>> \in R
    BY DEF OpToRel
<1> SUFFICES ASSUME T # {} PROVE FALSE
    OBVIOUS
<1>3. T \subseteq Nat
    OBVIOUS
<1> HIDE DEF R, T
<1>4. PICK n \in T : \A m \in T : <<m, n>> \notin R
    BY <1>1, <1>3, WFMin
<1>5. n \in Nat /\ n # 0 /\ n \notin S
    BY <1>4 DEF T
<1>6. n - 1 \in Nat /\ n - 1 < n /\ (n - 1) + 1 = n
    BY <1>5
<1>7. n - 1 \in S
    BY <1>2, <1>4, <1>5, <1>6 DEF T
<1> QED
    BY <1>5, <1>6, <1>7

Flattening(f, s) == f = [i \in 1..Len(s) |-> IF i = 1 THEN s[i] ELSE f[i - 1] \o s[i]]

\* The function that joins more and more sequences exists, ...
LEMMA FlattenExists ==
    ASSUME NEW S, NEW s \in Seq(Seq(S))
    PROVE  \E f : Flattening(f, s)
<1> DEFINE Upto(f, n) == f = [i \in 1..n |-> IF i = 1 THEN s[i] ELSE f[i - 1] \o s[i]]
           T == {n \in Nat : \E f : Upto(f, n)}
<1>1. 0 \in T
    <2> DEFINE f == << >>
    <2>1. Upto(f, 0)
        OBVIOUS
    <2> QED
        BY <2>1
<1>2. ASSUME NEW n \in Nat, n \in T PROVE n + 1 \in T
    <2>1. PICK f : Upto(f, n)
        BY <1>2
    <2> DEFINE last == IF n = 0 THEN s[1] ELSE f[n] \o s[n + 1]
               g == [i \in 1..(n + 1) |-> IF i = n + 1 THEN last ELSE f[i]]
    <2>2. ASSUME NEW i \in 1..n PROVE f[i] = IF i = 1 THEN s[i] ELSE f[i - 1] \o s[i]
        BY <2>1, Zenon
    <2>3. ASSUME NEW i \in 1..(n + 1) PROVE g[i] = IF i = 1 THEN s[i] ELSE g[i - 1] \o s[i]
        <3>1. i # 1 => i - 1 \in 1..(n + 1) /\ i - 1 # n + 1
            OBVIOUS
        <3>2. i # 1 => g[i - 1] = f[i - 1]
            BY <3>1
        <3>3. CASE i = n + 1
            <4>1. g[i] = last
                BY <3>3
            <4>2. n = 0 <=> i = 1
                BY <3>3
            <4>3. i - 1 = n
                BY <3>3
            <4> HIDE DEF g
            <4> QED
                BY <3>2, <3>3, <4>1, <4>2, <4>3
        <3>4. CASE i # n + 1
            <4>1. i \in 1..n
                BY <3>4
            <4>2. g[i] = f[i]
                BY <3>4
            <4> HIDE DEF g
            <4> QED
                BY <2>2, <3>2, <4>1, <4>2
        <3> QED
            BY <3>3, <3>4
    <2>4. Upto(g, n + 1)
        <3>1. g = [i \in 1..(n + 1) |-> g[i]]
            OBVIOUS
        <3> HIDE DEF g
        <3> QED
            BY <2>3, <3>1
    <2> HIDE DEF g, Upto
    <2>5. n + 1 \in Nat
        OBVIOUS
    <2> QED
        BY <2>4, <2>5, Zenon
<1> HIDE DEF T
<1>3. Nat \subseteq T
    BY <1>1, <1>2, Induction
<1>4. Len(s) \in T
    BY <1>3
<1> QED
    BY <1>4 DEF T, Flattening

\* ... and FlattenSeq is its last value, ...
LEMMA FlattenSeqIs ==
    ASSUME NEW S, NEW s \in Seq(Seq(S)), s # << >>
    PROVE  \E f : Flattening(f, s) /\ FlattenSeq(s) = f[Len(s)]
<1> DEFINE f == CHOOSE f : f = [i \in 1..Len(s) |-> IF i = 1 THEN s[i] ELSE f[i - 1] \o s[i]]
<1>1. Flattening(f, s)
    BY FlattenExists DEF Flattening
<1>2. FlattenSeq(s) = f[Len(s)]
    <2>1. Len(s) # 0
        OBVIOUS
    <2> QED
        BY <2>1 DEF FlattenSeq
<1> QED
    BY <1>1, <1>2

\* ... which is a sequence.
LEMMA FlattenTypes ==
    ASSUME NEW S, NEW s \in Seq(Seq(S)), NEW f, Flattening(f, s)
    PROVE  \A i \in 1..Len(s) :
             f[i] \in Seq(S) /\ f[i] = IF i = 1 THEN s[i] ELSE f[i - 1] \o s[i]
<1>1. \A i \in 1..Len(s) : f[i] = IF i = 1 THEN s[i] ELSE f[i - 1] \o s[i]
    BY DEF Flattening
<1> DEFINE T == {n \in Nat : n + 1 <= Len(s) => f[n + 1] \in Seq(S)}
<1>2. 0 \in T
    <2>1. 1 <= Len(s) => s[1] \in Seq(S) /\ f[1] = s[1]
        BY <1>1
    <2> QED
        BY <2>1
<1>3. ASSUME NEW n \in Nat, n \in T PROVE n + 1 \in T
    <2> SUFFICES ASSUME n + 2 <= Len(s) PROVE f[n + 2] \in Seq(S)
        OBVIOUS
    <2>1. n + 2 \in 1..Len(s) /\ n + 2 # 1 /\ (n + 2) - 1 = n + 1
        OBVIOUS
    <2>2. f[n + 2] = f[n + 1] \o s[n + 2]
        BY <1>1, <2>1
    <2>3. f[n + 1] \in Seq(S) /\ s[n + 2] \in Seq(S)
        BY <1>3, <2>1
    <2> QED
        BY <2>2, <2>3
<1> HIDE DEF T
<1>4. Nat \subseteq T
    BY <1>2, <1>3, Induction
<1>5. ASSUME NEW i \in 1..Len(s) PROVE f[i] \in Seq(S)
    <2>1. i - 1 \in T /\ i - 1 \in Nat /\ (i - 1) + 1 = i
        BY <1>4
    <2> QED
        BY <2>1 DEF T
<1> QED
    BY <1>1, <1>5

\* Joining is associative.
LEMMA Associative ==
    ASSUME NEW S, NEW a \in Seq(S), NEW b \in Seq(S), NEW c \in Seq(S)
    PROVE  (a \o b) \o c = a \o (b \o c)
OBVIOUS

\* FlattenSeq begins with the first of the sequences.
LEMMA FlattenFirst ==
    ASSUME NEW S, NEW s \in Seq(Seq(S))
    PROVE  /\ FlattenSeq(s) \in Seq(S)
           /\ s = << >> => FlattenSeq(s) = << >>
           /\ s # << >> => FlattenSeq(s) = s[1] \o FlattenSeq(Tail(s))
<1>1. CASE s = << >>
    <2>1. FlattenSeq(s) = s
        BY <1>1 DEF FlattenSeq
    <2>2. << >> \in Seq(S)
        OBVIOUS
    <2> QED
        BY <1>1, <2>1, <2>2, Zenon
<1>2. CASE s # << >>
    <2>1. PICK f : Flattening(f, s) /\ FlattenSeq(s) = f[Len(s)]
        BY <1>2, FlattenSeqIs
    <2>2. \A i \in 1..Len(s) : f[i] \in Seq(S) /\ f[i] = IF i = 1 THEN s[i] ELSE f[i - 1] \o s[i]
        BY <2>1, FlattenTypes
    <2>3. Len(s) \in Nat /\ Len(s) >= 1 /\ s[1] \in Seq(S) /\ Tail(s) \in Seq(Seq(S))
        BY <1>2
    <2>4. CASE Tail(s) = << >>
        <3>1. Len(s) = 1
            <4>1. Len(Tail(s)) = Len(s) - 1
                BY <1>2
            <4>2. Len(Tail(s)) = 0
                <5>1. Len(<< >>) = 0
                    OBVIOUS
                <5> QED
                    BY <2>4, <5>1, Zenon
            <4>3. Len(s) \in Nat
                OBVIOUS
            <4> QED
                BY <4>1, <4>2, <4>3
        <3>2. FlattenSeq(s) = s[1]
            BY <2>1, <2>2, <3>1
        <3>3. FlattenSeq(Tail(s)) = << >>
            BY <2>4 DEF FlattenSeq
        <3> QED
            BY <1>2, <2>3, <3>2, <3>3
    <2>5. CASE Tail(s) # << >>
        <3> DEFINE t == Tail(s)
        <3>0. t \in Seq(Seq(S)) /\ t # << >> /\ Len(t) = Len(s) - 1 /\ Len(t) >= 1
              /\ \A i \in 1..Len(t) : t[i] = s[i + 1]
            BY <1>2, <2>5
        <3> HIDE DEF t
        <3>1. PICK g : Flattening(g, t) /\ FlattenSeq(t) = g[Len(t)]
            BY <3>0, FlattenSeqIs
        <3>2. \A i \in 1..Len(t) : g[i] \in Seq(S) /\ g[i] = IF i = 1 THEN t[i] ELSE g[i - 1] \o t[i]
            <4>1. t \in Seq(Seq(S)) /\ Flattening(g, t)
                BY <3>0, <3>1
            <4> QED
                BY <4>1, FlattenTypes
        <3> DEFINE T == {n \in Nat : n \in 1..Len(t) => f[n + 1] = s[1] \o g[n]}
        <3>3. 0 \in T
            OBVIOUS
        <3>4. ASSUME NEW n \in Nat, n \in T PROVE n + 1 \in T
            <4> SUFFICES ASSUME n + 1 \in 1..Len(t) PROVE f[(n + 1) + 1] = s[1] \o g[n + 1]
                <5>1. n + 1 \in Nat
                    OBVIOUS
                <5> QED
                    BY <5>1, Zenon
            <4>1. f[(n + 1) + 1] = f[n + 1] \o s[(n + 1) + 1]
                <5>1. (n + 1) + 1 \in 1..Len(s) /\ (n + 1) + 1 # 1 /\ ((n + 1) + 1) - 1 = n + 1
                    BY <2>3, <3>0
                <5> HIDE DEF T
                <5> QED
                    BY <2>2, <5>1
            <4>2. t[n + 1] = s[(n + 1) + 1] /\ t[n + 1] \in Seq(S)
                BY <3>0, SMTT(30)
            <4>3. CASE n = 0
                <5>1. f[n + 1] = s[1] /\ g[n + 1] = t[n + 1]
                    BY <2>2, <2>3, <3>0, <3>2, <4>3
                <5> HIDE DEF T
                <5> QED
                    BY <4>1, <4>2, <5>1
            <4>4. CASE n # 0
                <5>1. n + 1 # 1 /\ (n + 1) - 1 = n /\ n \in 1..Len(t)
                    BY <4>4, <3>0
                <5>2. g[n + 1] = g[n] \o t[n + 1] /\ g[n] \in Seq(S)
                    BY <3>2, <5>1
                <5>3. f[n + 1] = s[1] \o g[n]
                    BY <3>4, <5>1
                <5>4. f[(n + 1) + 1] = (s[1] \o g[n]) \o t[n + 1]
                    BY <4>1, <4>2, <5>3
                <5>5. (s[1] \o g[n]) \o t[n + 1] = s[1] \o (g[n] \o t[n + 1])
                    <6> DEFINE a == s[1]
                               b == g[n]
                               c == t[n + 1]
                    <6>1. a \in Seq(S) /\ b \in Seq(S) /\ c \in Seq(S)
                        BY <2>3, <4>2, <5>2
                    <6> HIDE DEF a, b, c, T
                    <6>2. (a \o b) \o c = a \o (b \o c)
                        BY <6>1, Associative, SMTT(30)
                    <6> QED
                        BY <6>2 DEF a, b, c
                <5> HIDE DEF T
                <5> QED
                    BY <5>2, <5>4, <5>5
            <4> QED
                BY <4>3, <4>4
        <3> HIDE DEF T
        <3>5. Nat \subseteq T
            BY <3>3, <3>4, Induction
        <3>6. Len(t) \in T /\ Len(t) \in 1..Len(t) /\ Len(t) + 1 = Len(s)
            BY <2>3, <3>0, <3>5
        <3>7. f[Len(s)] = s[1] \o g[Len(t)]
            BY <3>6 DEF T
        <3>8. f[Len(s)] \in Seq(S)
            BY <2>2, <2>3
        <3> QED
            BY <1>2, <2>1, <3>1, <3>7, <3>8 DEF t
    <2> QED
        BY <2>4, <2>5
<1> QED
    BY <1>1, <1>2

-----------------------------------------------------------------------------
(* The command port.                                                        *)

\* The FIFO holds a command and the parameters received, and what remains makes them
\* complete: Gp0 resets it whenever it stops receiving.
FifoCounts(g) ==
    /\ g.receiving =>
         /\ Len(g.fifo) >= 1 /\ g.fifo[1].command \in Command /\ g.remaining >= 1
         /\ Len(g.fifo) + g.remaining = Parameters[g.fifo[1].command] + 1
    /\ ~g.receiving => g.fifo = << >>

Port(g) == g \in GpuState /\ FifoCounts(g) /\ InRasterOrder(g)

\* What a transfer leaves alone.
SameFifo(g, h) == h.fifo = g.fifo /\ h.receiving = g.receiving /\ h.remaining = g.remaining

LEMMA ParameterCounts ==
    /\ \A c \in Command : Parameters[c] \in Nat
    /\ Parameters["Load"] = 2 /\ Parameters["Store"] = 2
BY DEF Command, Parameters

\* An extent is at least 1 and at most the limit.
LEMMA ExtentType ==
    ASSUME NEW n \in Nat, NEW limit \in Nat \ {0}
    PROVE  Extent(n, limit) \in 1..limit
<1>1. (n - 1) % limit \in 0..(limit - 1)
    OBVIOUS
<1> QED
    BY <1>1 DEF Extent

LEMMA WrapType ==
    ASSUME NEW n \in Int, NEW limit \in Nat \ {0}
    PROVE  n % limit \in 0..(limit - 1)
OBVIOUS

\* The fields of a transfer, and those of the FIFO, can be set to what their types allow.
LEMMA TransferType ==
    ASSUME NEW g \in GpuState, NEW mode \in {"Fifo", "Write", "Read"},
           NEW x \in 0..(VramWidth - 1), NEW y \in 0..(VramHeight - 1),
           NEW w \in 1..VramWidth, NEW h \in 1..VramHeight,
           NEW tx \in Nat, NEW ty \in Nat, NEW moved \in Nat
    PROVE  [g EXCEPT !.mode = mode, !.x = x, !.y = y, !.w = w, !.h = h,
                     !.tx = tx, !.ty = ty, !.moved = moved] \in GpuState
BY DEF GpuState

LEMMA FifoType ==
    ASSUME NEW g \in GpuState, NEW receiving \in BOOLEAN, NEW fifo \in Seq(Word),
           NEW remaining \in Nat
    PROVE  [g EXCEPT !.receiving = receiving, !.fifo = fifo, !.remaining = remaining] \in GpuState
BY DEF GpuState

\* Whatever mode it is in, a pixel more keeps the types.
LEMMA PixelType ==
    ASSUME NEW g \in GpuState, NEW last \in Nat
    PROVE  /\ NextPixel(g, last) \in GpuState
           /\ SameFifo(g, NextPixel(g, last))
           /\ g.mode = "Fifo" => NextPixel(g, last).mode = "Fifo"
<1> DEFINE h == NextPixel(g, last)
           column == g.tx + 1 = g.w
           row == g.ty + 1 = g.h
           tx == IF column THEN 0 ELSE g.tx + 1
           ty == IF ~column THEN g.ty ELSE IF row THEN last ELSE g.ty + 1
           mode == IF column /\ row THEN "Fifo" ELSE g.mode
<1>1. h = [g EXCEPT !.moved = g.moved + 1, !.tx = tx, !.ty = ty, !.mode = mode]
    BY DEF NextPixel, GpuState
<1>2. g.tx \in Nat /\ g.ty \in Nat /\ g.moved \in Nat /\ g.mode \in {"Fifo", "Write", "Read"}
    BY DEF GpuState
<1>3. tx \in Nat /\ ty \in Nat /\ g.moved + 1 \in Nat /\ mode \in {"Fifo", "Write", "Read"}
    BY <1>2
<1>4. g.mode = "Fifo" => mode = "Fifo"
    OBVIOUS
<1> HIDE DEF h, tx, ty, mode
<1>5. h \in GpuState
    BY <1>1, <1>3 DEF GpuState
<1>6. SameFifo(g, h) /\ h.mode = mode
    BY <1>1 DEF GpuState, SameFifo
<1> QED
    BY <1>4, <1>5, <1>6 DEF h

\* The next pixel is the next in the row, the first of the next row, or there is none.
LEMMA PixelInOrder ==
    ASSUME NEW g \in GpuState, g.mode # "Fifo", InRasterOrder(g), NEW last \in Nat
    PROVE  InRasterOrder(NextPixel(g, last))
<1> DEFINE h == NextPixel(g, last)
<1>0. /\ g.tx \in Nat /\ g.ty \in Nat /\ g.w \in Nat /\ g.h \in Nat /\ g.w > 0 /\ g.moved \in Nat
      /\ g.tx < g.w /\ g.ty < g.h
    BY GpuAssumption, SMTT(30) DEF GpuState, InRasterOrder
<1>1. g.moved = g.ty * g.w + g.tx
    BY DEF InRasterOrder
<1>2. CASE g.tx + 1 # g.w
    <2>1. h.tx = g.tx + 1 /\ h.ty = g.ty /\ h.w = g.w /\ h.h = g.h /\ h.moved = g.moved + 1
        BY <1>2 DEF NextPixel, GpuState
    <2> QED
        BY <1>0, <1>1, <1>2, <2>1 DEF InRasterOrder
<1>3. CASE g.tx + 1 = g.w /\ g.ty + 1 # g.h
    <2>1. h.tx = 0 /\ h.ty = g.ty + 1 /\ h.w = g.w /\ h.h = g.h /\ h.moved = g.moved + 1
        BY <1>3 DEF NextPixel, GpuState
    <2>2. (g.ty + 1) * g.w = g.ty * g.w + g.w /\ g.ty * g.w \in Int
        BY <1>0
    <2>3. h.moved = (g.ty + 1) * g.w + 0
        BY <1>0, <1>1, <1>3, <2>1, <2>2
    <2>4. 0 < g.w /\ g.ty + 1 < g.h
        BY <1>0, <1>3
    <2> HIDE DEF h
    <2>5. InRasterOrder(h)
        BY <2>1, <2>3, <2>4 DEF InRasterOrder
    <2> QED
        BY <2>5 DEF h
<1>4. CASE g.tx + 1 = g.w /\ g.ty + 1 = g.h
    <2>1. h.mode = "Fifo"
        BY <1>4 DEF NextPixel, GpuState
    <2> QED
        BY <2>1 DEF InRasterOrder
<1> QED
    BY <1>2, <1>3, <1>4

LEMMA OverKeeps ==
    ASSUME NEW g \in GpuState, InRasterOrder(g)
    PROVE  Over(g) \in GpuState /\ SameFifo(g, Over(g)) /\ InRasterOrder(Over(g))
<1>1. 0 \in 0..(VramWidth - 1) /\ 0 \in 0..(VramHeight - 1) /\ 1 \in 1..VramWidth /\ 1 \in 1..VramHeight
    BY GpuAssumption
<1>2. CASE g.mode = "Fifo"
    <2>1. Over(g) = [g EXCEPT !.x = 0, !.y = 0, !.w = 1, !.h = 1, !.moved = 0]
        BY <1>2 DEF Over
    <2>2. Over(g) \in GpuState
        <3>1. [g EXCEPT !.x = 0, !.y = 0, !.w = 1, !.h = 1, !.moved = 0] \in GpuState
            BY <1>1 DEF GpuState
        <3> QED
            BY <2>1, <3>1
    <2>3. SameFifo(g, Over(g)) /\ Over(g).mode = "Fifo"
        BY <1>2, <2>1 DEF GpuState, SameFifo
    <2> QED
        BY <2>2, <2>3 DEF InRasterOrder
<1>3. CASE g.mode # "Fifo"
    BY <1>3 DEF Over, SameFifo
<1> QED
    BY <1>2, <1>3

LEMMA PortFromSameFifo ==
    ASSUME NEW g, Port(g), NEW h \in GpuState, SameFifo(g, h), InRasterOrder(h)
    PROVE  Port(h)
BY DEF Port, SameFifo, FifoCounts

LEMMA WritePixelsKeeps ==
    ASSUME NEW g, Port(g), g.mode = "Write"
    PROVE  Port(WritePixels(g))
<1> DEFINE one == NextPixel(g, g.h)
           two == NextPixel(one, g.h)
           both == IF one.mode = "Fifo" THEN one ELSE two
<1>1. g \in GpuState /\ InRasterOrder(g) /\ g.h \in Nat
    BY DEF Port, GpuState
<1>2. one \in GpuState /\ SameFifo(g, one) /\ InRasterOrder(one)
    BY <1>1, PixelType, PixelInOrder
<1>3. two \in GpuState /\ SameFifo(one, two)
    BY <1>1, <1>2, PixelType
<1>4. one.mode # "Fifo" => InRasterOrder(two)
    BY <1>1, <1>2, PixelInOrder
<1>5. both \in GpuState /\ SameFifo(g, both) /\ InRasterOrder(both)
    BY <1>2, <1>3, <1>4 DEF SameFifo
<1> HIDE DEF one, two
<1>6. Over(both) \in GpuState /\ SameFifo(both, Over(both)) /\ InRasterOrder(Over(both))
    BY <1>5, OverKeeps
<1>7. SameFifo(g, Over(both))
    BY <1>5, <1>6 DEF SameFifo
<1>8. WritePixels(g) = Over(both)
    BY DEF WritePixels, one, two
<1> QED
    BY <1>6, <1>7, <1>8, PortFromSameFifo

LEMMA GpuReadKeeps ==
    ASSUME NEW g, Port(g)
    PROVE  Port(GpuRead(g))
<1> SUFFICES ASSUME g.mode = "Read" PROVE Port(Over(NextPixel(NextPixel(g, 0), 0)))
    BY DEF GpuRead
<1> DEFINE one == NextPixel(g, 0)
           two == NextPixel(one, 0)
<1>1. g \in GpuState /\ InRasterOrder(g)
    BY DEF Port
<1>2. one \in GpuState /\ SameFifo(g, one) /\ InRasterOrder(one)
    BY <1>1, PixelType, PixelInOrder
<1>3. two \in GpuState /\ SameFifo(one, two) /\ (one.mode = "Fifo" => two.mode = "Fifo")
    BY <1>2, PixelType
<1>4. InRasterOrder(two)
    <2>1. CASE one.mode = "Fifo"
        BY <1>3, <2>1 DEF InRasterOrder
    <2>2. CASE one.mode # "Fifo"
        BY <1>2, <2>2, PixelInOrder
    <2> QED
        BY <2>1, <2>2
<1> HIDE DEF two
<1>5. Over(two) \in GpuState /\ SameFifo(two, Over(two)) /\ InRasterOrder(Over(two))
    BY <1>3, <1>4, OverKeeps
<1>6. SameFifo(g, Over(two))
    BY <1>2, <1>3, <1>5 DEF SameFifo
<1>7. Port(Over(two))
    BY <1>5, <1>6, PortFromSameFifo
<1> QED
    BY <1>7 DEF two

LEMMA TakeCommandKeeps ==
    ASSUME NEW g, Port(g), NEW word \in Word, TakesCommand(g), word.command # "None"
    PROVE  Port(TakeCommand(g, word))
<1>1. g \in GpuState /\ ~g.receiving /\ g.fifo = << >> /\ InRasterOrder(g) /\ word.command \in Command
    BY DEF Port, FifoCounts, TakesCommand, Word
<1>2. Parameters[word.command] \in Nat
    BY <1>1, ParameterCounts
<1>3. CASE Parameters[word.command] = 0
    BY <1>3 DEF TakeCommand
<1>4. CASE Parameters[word.command] # 0
    <2> DEFINE h == TakeCommand(g, word)
    <2>1. h = [g EXCEPT !.fifo = <<word>>, !.receiving = TRUE, !.remaining = Parameters[word.command]]
        BY <1>1, <1>4 DEF TakeCommand, GpuState
    <2>2. <<word>> \in Seq(Word) /\ Len(<<word>>) = 1 /\ <<word>>[1] = word
        OBVIOUS
    <2> HIDE DEF h
    <2>3. h \in GpuState
        BY <1>1, <1>2, <2>1, <2>2 DEF GpuState
    <2>4. h.fifo = <<word>> /\ h.receiving /\ h.remaining = Parameters[word.command]
        BY <1>1, <2>1 DEF GpuState
    <2>5. FifoCounts(h)
        BY <1>1, <1>2, <1>4, <2>2, <2>4 DEF FifoCounts
    <2>6. InRasterOrder(h)
        BY <1>1, <2>1 DEF InRasterOrder, GpuState
    <2> QED
        BY <2>3, <2>5, <2>6 DEF Port, h
<1> QED
    BY <1>3, <1>4

\* A transfer begins in the first column of the first row.
LEMMA ExecuteCommandKeeps ==
    ASSUME NEW g \in GpuState, InRasterOrder(g), NEW fifo \in Seq(Word), Len(fifo) >= 1,
           fifo[1].command \in {"Load", "Store"} => g.mode = "Fifo" /\ Len(fifo) = 3
    PROVE  ExecuteCommand(g, fifo) \in GpuState /\ InRasterOrder(ExecuteCommand(g, fifo))
<1>1. CASE fifo[1].command \notin {"Load", "Store"}
    BY <1>1 DEF ExecuteCommand
<1>2. CASE fifo[1].command \in {"Load", "Store"}
    <2> DEFINE mode == IF fifo[1].command = "Load" THEN "Write" ELSE "Read"
               x == fifo[2].x % VramWidth
               y == fifo[2].y % VramHeight
               w == Extent(fifo[3].x, VramWidth)
               h == Extent(fifo[3].y, VramHeight)
    <2>1. fifo[2] \in Word /\ fifo[3] \in Word
        BY <1>2
    <2>2. fifo[2].x \in Nat /\ fifo[2].y \in Nat /\ fifo[3].x \in Nat /\ fifo[3].y \in Nat
        BY <2>1 DEF Word
    <2>3. x \in 0..(VramWidth - 1) /\ y \in 0..(VramHeight - 1)
        <3>1. fifo[2].x \in Int /\ fifo[2].y \in Int
            BY <2>2
        <3> QED
            BY <3>1, WrapType, GpuAssumption
    <2>4. w \in 1..VramWidth /\ h \in 1..VramHeight
        BY <2>2, ExtentType, GpuAssumption
    <2>5. ExecuteCommand(g, fifo) = [g EXCEPT !.mode = mode, !.x = x, !.y = y, !.w = w, !.h = h,
                                              !.tx = 0, !.ty = 0, !.moved = 0]
        BY <1>2 DEF ExecuteCommand
    <2>6. mode \in {"Write", "Read"}
        OBVIOUS
    <2> HIDE DEF mode, x, y, w, h
    <2> DEFINE e == ExecuteCommand(g, fifo)
    <2>7. e \in GpuState
        <3>1. [g EXCEPT !.mode = mode, !.x = x, !.y = y, !.w = w, !.h = h, !.tx = 0, !.ty = 0,
                        !.moved = 0] \in GpuState
            BY <2>3, <2>4, <2>6 DEF GpuState
        <3> QED
            BY <2>5, <3>1
    <2>8. e.tx = 0 /\ e.ty = 0 /\ e.moved = 0 /\ e.w = w /\ e.h = h
        BY <2>5 DEF GpuState
    <2>9. w \in Nat /\ h \in Nat /\ 0 < w /\ 0 < h /\ 0 = 0 * w + 0
        BY <2>4, GpuAssumption
    <2> HIDE DEF e
    <2>10. InRasterOrder(e)
        BY <2>8, <2>9 DEF InRasterOrder
    <2> QED
        BY <2>7, <2>10 DEF e
<1> QED
    BY <1>1, <1>2

LEMMA TakeParameterKeeps ==
    ASSUME NEW g, Port(g), NEW word \in Word, g.receiving, g.mode # "Write", ~Gp0Fails(g, word)
    PROVE  Port(TakeParameter(g, word))
<1> DEFINE fifo == Append(g.fifo, word)
<1>1. g \in GpuState /\ InRasterOrder(g) /\ g.fifo \in Seq(Word) /\ g.remaining \in Nat
    BY DEF Port, GpuState
<1>2. /\ Len(g.fifo) >= 1 /\ g.fifo[1].command \in Command /\ g.remaining >= 1
      /\ Len(g.fifo) + g.remaining = Parameters[g.fifo[1].command] + 1
    BY DEF Port, FifoCounts
<1>3. fifo \in Seq(Word) /\ Len(fifo) = Len(g.fifo) + 1 /\ fifo[1] = g.fifo[1] /\ Len(fifo) >= 1
    BY <1>1, <1>2
<1>4. Len(g.fifo) \in Nat /\ Parameters[g.fifo[1].command] \in Nat
    BY <1>1, <1>2, ParameterCounts
<1> HIDE DEF fifo
<1>5. CASE g.remaining = 1
    <2>1. fifo[1].command \in {"Load", "Store"} => g.mode = "Fifo" /\ Len(fifo) = 3
        <3>1. fifo[1].command \in {"Load", "Store"} => g.mode # "Read"
            BY <1>3, <1>5 DEF Gp0Fails
        <3>2. fifo[1].command \in {"Load", "Store"} => Len(g.fifo) + 1 = 3
            BY <1>2, <1>3, <1>4, <1>5, ParameterCounts
        <3> QED
            BY <1>1, <1>3, <3>1, <3>2 DEF GpuState
    <2> DEFINE e == ExecuteCommand(g, fifo)
               h == [e EXCEPT !.receiving = FALSE, !.fifo = << >>, !.remaining = 0]
    <2>2. e \in GpuState /\ InRasterOrder(e)
        BY <1>1, <1>3, <2>1, ExecuteCommandKeeps
    <2>3. TakeParameter(g, word) = h
        BY <1>5 DEF TakeParameter, fifo
    <2> HIDE DEF e
    <2>4. h \in GpuState
        <3>1. << >> \in Seq(Word)
            OBVIOUS
        <3> QED
            BY <2>2, <3>1, FifoType
    <2>5. FifoCounts(h) /\ InRasterOrder(h)
        BY <2>2 DEF GpuState, FifoCounts, InRasterOrder
    <2> QED
        BY <2>3, <2>4, <2>5 DEF Port
<1>6. CASE g.remaining # 1
    <2> DEFINE h == [g EXCEPT !.fifo = fifo, !.remaining = g.remaining - 1]
    <2>1. TakeParameter(g, word) = h
        BY <1>1, <1>6 DEF TakeParameter, fifo, GpuState
    <2>2. g.remaining - 1 \in Nat /\ g.remaining - 1 >= 1
        BY <1>1, <1>2, <1>6
    <2>3. h \in GpuState
        BY <1>1, <1>3, <2>2 DEF GpuState
    <2>4. h.fifo = fifo /\ h.remaining = g.remaining - 1 /\ h.receiving
        BY <1>1 DEF GpuState
    <2>5. InRasterOrder(h)
        BY <1>1 DEF GpuState, InRasterOrder
    <2> HIDE DEF h
    <2>6. Len(fifo) + (g.remaining - 1) = Parameters[fifo[1].command] + 1
        <3>1. \A n, m, r, p \in Nat : m = n + 1 /\ n + r = p + 1 => m + (r - 1) = p + 1
            OBVIOUS
        <3>2. Len(fifo) \in Nat /\ Len(fifo) = Len(g.fifo) + 1 /\ g.remaining \in Nat
            BY <1>1, <1>3
        <3>3. Parameters[fifo[1].command] = Parameters[g.fifo[1].command]
            BY <1>3
        <3>4. Len(g.fifo) + g.remaining = Parameters[fifo[1].command] + 1
            BY <1>2, <3>3
        <3>5. Parameters[fifo[1].command] \in Nat /\ Len(g.fifo) \in Nat
            BY <1>4, <3>3
        <3> QED
            BY <3>1, <3>2, <3>4, <3>5, SMTT(30)
    <2>7. FifoCounts(h)
        BY <1>2, <1>3, <2>2, <2>4, <2>6 DEF FifoCounts
    <2> QED
        BY <2>1, <2>3, <2>5, <2>7 DEF Port
<1> QED
    BY <1>5, <1>6

LEMMA Gp0Keeps ==
    ASSUME NEW g, Port(g), NEW word \in Word, ~Gp0Fails(g, word)
    PROVE  Port(Gp0(g, word))
<1>1. CASE g.mode = "Write"
    BY <1>1, WritePixelsKeeps DEF Gp0
<1>2. CASE g.mode # "Write" /\ g.receiving
    BY <1>2, TakeParameterKeeps DEF Gp0
<1>3. CASE g.mode # "Write" /\ ~g.receiving
    <2>1. TakesCommand(g) /\ word.command # "None"
        BY <1>3 DEF TakesCommand, Gp0Fails
    <2> QED
        BY <1>3, <2>1, TakeCommandKeeps DEF Gp0
<1> QED
    BY <1>1, <1>2, <1>3

LEMMA ResetKeeps ==
    ASSUME NEW g, Port(g)
    PROVE  Port(Reset(g)) /\ Port(ClearFifo(g))
<1> DEFINE c == ClearFifo(g)
           r == [g EXCEPT !.receiving = FALSE, !.fifo = << >>, !.mode = "Fifo"]
<1>1. g \in GpuState /\ InRasterOrder(g)
    BY DEF Port
<1>2. c \in GpuState /\ FifoCounts(c) /\ InRasterOrder(c)
    <2>1. c = [g EXCEPT !.receiving = FALSE, !.fifo = << >>, !.remaining = g.remaining]
        BY <1>1 DEF ClearFifo, GpuState
    <2>2. c \in GpuState
        <3>1. << >> \in Seq(Word) /\ g.remaining \in Nat
            BY <1>1 DEF GpuState
        <3>2. [g EXCEPT !.receiving = FALSE, !.fifo = << >>, !.remaining = g.remaining] \in GpuState
            BY <1>1, <3>1, FifoType
        <3> QED
            BY <2>1, <3>2
    <2>3. ~c.receiving /\ c.fifo = << >>
        BY <1>1 DEF ClearFifo, GpuState
    <2>4. InRasterOrder(c)
        BY <1>1 DEF ClearFifo, GpuState, InRasterOrder
    <2> QED
        BY <2>2, <2>3, <2>4 DEF FifoCounts
<1>3. r \in GpuState /\ FifoCounts(r) /\ r.mode = "Fifo"
    <2>1. r = [c EXCEPT !.mode = "Fifo", !.x = c.x, !.y = c.y, !.w = c.w, !.h = c.h,
                        !.tx = c.tx, !.ty = c.ty, !.moved = c.moved]
        BY <1>1 DEF ClearFifo, GpuState
    <2> HIDE DEF c
    <2>2. /\ c.x \in 0..(VramWidth - 1) /\ c.y \in 0..(VramHeight - 1)
          /\ c.w \in 1..VramWidth /\ c.h \in 1..VramHeight
          /\ c.tx \in Nat /\ c.ty \in Nat /\ c.moved \in Nat
        BY <1>2 DEF GpuState
    <2>3. r \in GpuState
        <3>1. [c EXCEPT !.mode = "Fifo", !.x = c.x, !.y = c.y, !.w = c.w, !.h = c.h,
                        !.tx = c.tx, !.ty = c.ty, !.moved = c.moved] \in GpuState
            BY <1>2, <2>2, TransferType, ZenonT(60)
        <3> QED
            BY <2>1, <3>1
    <2>4. ~r.receiving /\ r.fifo = << >> /\ r.mode = "Fifo"
        BY <1>1 DEF GpuState
    <2> QED
        BY <2>3, <2>4 DEF FifoCounts
<1>4. InRasterOrder(r)
    BY <1>3 DEF InRasterOrder
<1> HIDE DEF r
<1>5. Over(r) \in GpuState /\ SameFifo(r, Over(r)) /\ InRasterOrder(Over(r))
    BY <1>3, <1>4, OverKeeps
<1>6. Port(Over(r))
    BY <1>3, <1>4, <1>5, PortFromSameFifo DEF Port
<1> QED
    BY <1>2, <1>6 DEF Reset, Port, r

-----------------------------------------------------------------------------
(* What a word that is sent, or read, leaves to be sent and read.           *)

Pairs(g) == (g.w * g.h - g.moved + 1) \div 2

\* Two pixels to a word, the last of which may be half empty.
LEMMA HalfFacts ==
    ASSUME NEW n \in Nat, NEW m \in Nat, m < n
    PROVE  /\ (n - m + 1) \div 2 \in Nat /\ (n - m + 1) \div 2 >= 1
           /\ (n - m + 1) \div 2 = 1 <=> (m + 1 = n \/ m + 2 = n)
           /\ (n - (m + 2) + 1) \div 2 = (n - m + 1) \div 2 - 1
OBVIOUS

\* A pixel is the last when all of the rectangle has been moved.
LEMMA LastPixel ==
    ASSUME NEW g \in GpuState, g.mode # "Fifo", InRasterOrder(g), NEW last \in Nat
    PROVE  /\ g.w * g.h \in Nat /\ g.moved \in Nat /\ g.moved < g.w * g.h
           /\ NextPixel(g, last).moved = g.moved + 1
           /\ NextPixel(g, last).w = g.w /\ NextPixel(g, last).h = g.h
           /\ NextPixel(g, last).mode = IF g.moved + 1 = g.w * g.h THEN "Fifo" ELSE g.mode
<1>1. /\ g.tx \in Nat /\ g.ty \in Nat /\ g.w \in Nat /\ g.h \in Nat /\ g.w > 0 /\ g.h > 0
      /\ g.moved \in Nat /\ g.tx < g.w /\ g.ty < g.h /\ g.moved = g.ty * g.w + g.tx
    BY GpuAssumption DEF GpuState, InRasterOrder
<1>2. /\ NextPixel(g, last).moved = g.moved + 1
      /\ NextPixel(g, last).w = g.w /\ NextPixel(g, last).h = g.h
      /\ NextPixel(g, last).mode = IF g.tx + 1 = g.w /\ g.ty + 1 = g.h THEN "Fifo" ELSE g.mode
    BY DEF NextPixel, GpuState
<1>3. \A w, h, x, y \in Nat : x < w /\ y < h =>
        w * h \in Nat /\ y * w + x < w * h /\ (y * w + x + 1 = w * h <=> x + 1 = w /\ y + 1 = h)
    <2> SUFFICES ASSUME NEW w \in Nat, NEW h \in Nat, NEW x \in Nat, NEW y \in Nat, x < w, y < h
                 PROVE  /\ w * h \in Nat /\ y * w + x < w * h
                        /\ y * w + x + 1 = w * h <=> x + 1 = w /\ y + 1 = h
        OBVIOUS
    <2>1. PICK r \in Nat : h = y + 1 + r
        <3>1. h - y - 1 \in Nat /\ h = y + 1 + (h - y - 1)
            OBVIOUS
        <3> QED
            BY <3>1
    <2>2. w * h = y * w + w + r * w /\ y * w \in Nat /\ r * w \in Nat /\ w * h \in Nat
        BY <2>1
    <2>3. r * w = 0 <=> r = 0
        OBVIOUS
    <2>4. r # 0 => r * w >= w
        OBVIOUS
    <2> DEFINE a == y * w
               b == r * w
    <2> HIDE DEF a, b
    <2>5. a + x < w * h
        BY <2>2 DEF a, b
    <2> QED
        BY <2>1, <2>2, <2>3, <2>4
<1>4. g.w * g.h \in Nat /\ g.moved < g.w * g.h
      /\ (g.moved + 1 = g.w * g.h <=> g.tx + 1 = g.w /\ g.ty + 1 = g.h)
    BY <1>1, <1>3, SMTT(30)
<1> QED
    BY <1>1, <1>2, <1>4

\* A transfer that is not over stays as it is.
LEMMA OverFacts ==
    ASSUME NEW g \in GpuState
    PROVE  Over(g).mode = g.mode /\ (g.mode # "Fifo" => Over(g) = g)
BY DEF Over, GpuState

\* Two pixels are one pair less, in whatever direction.
LEMMA PairMoved ==
    ASSUME NEW g \in GpuState, g.mode # "Fifo", InRasterOrder(g), NEW last \in Nat,
           NEW both, NextPixel(g, last).mode # "Fifo" => both = NextPixel(NextPixel(g, last), last),
           both \in GpuState, NextPixel(g, last).mode = "Fifo" => both.mode = "Fifo"
    PROVE  /\ Pairs(g) \in Nat /\ Pairs(g) >= 1
           /\ Over(both).mode = IF Pairs(g) = 1 THEN "Fifo" ELSE g.mode
           /\ Pairs(g) # 1 => Pairs(Over(both)) = Pairs(g) - 1
<1> DEFINE one == NextPixel(g, last)
<1>1. /\ g.w * g.h \in Nat /\ g.moved \in Nat /\ g.moved < g.w * g.h
      /\ one.moved = g.moved + 1 /\ one.w = g.w /\ one.h = g.h
      /\ one.mode = IF g.moved + 1 = g.w * g.h THEN "Fifo" ELSE g.mode
    BY LastPixel
<1>2. one \in GpuState /\ InRasterOrder(one)
    BY PixelType, PixelInOrder
<1> HIDE DEF one
<1>3. Pairs(g) \in Nat /\ Pairs(g) >= 1
    BY <1>1, HalfFacts DEF Pairs
<1>4. CASE g.moved + 1 = g.w * g.h
    <2>1. Pairs(g) = 1
        BY <1>1, <1>4, HalfFacts DEF Pairs
    <2>2. both.mode = "Fifo"
        BY <1>1, <1>4 DEF one
    <2> QED
        BY <1>3, <2>1, <2>2, OverFacts
<1>5. CASE g.moved + 1 # g.w * g.h
    <2>1. one.mode = g.mode /\ both = NextPixel(one, last)
        BY <1>1, <1>5 DEF one
    <2>2. /\ both.moved = g.moved + 2 /\ both.w = g.w /\ both.h = g.h
          /\ both.mode = IF g.moved + 2 = g.w * g.h THEN "Fifo" ELSE g.mode
        <3>1. /\ both.moved = one.moved + 1 /\ both.w = one.w /\ both.h = one.h
              /\ both.mode = IF one.moved + 1 = one.w * one.h THEN "Fifo" ELSE one.mode
            BY <1>2, <2>1, LastPixel
        <3> QED
            BY <1>1, <2>1, <3>1
    <2>3. Pairs(g) = 1 <=> g.moved + 2 = g.w * g.h
        BY <1>1, <1>5, HalfFacts DEF Pairs
    <2>4. both.mode = IF Pairs(g) = 1 THEN "Fifo" ELSE g.mode
        BY <2>2, <2>3
    <2>5. Pairs(both) = Pairs(g) - 1
        BY <1>1, <2>2, HalfFacts DEF Pairs
    <2> QED
        BY <1>3, <2>4, <2>5, OverFacts
<1> QED
    BY <1>4, <1>5

\* Gp0 during a transfer to VRAM takes one of its words, ...
LEMMA WritePixelsFrame ==
    ASSUME NEW g, Port(g), g.mode = "Write"
    PROVE  /\ SameFifo(g, WritePixels(g)) /\ Pairs(g) \in Nat /\ Pairs(g) >= 1
           /\ WritePixels(g).mode = IF Pairs(g) = 1 THEN "Fifo" ELSE "Write"
           /\ Pairs(g) # 1 => Pairs(WritePixels(g)) = Pairs(g) - 1
<1> DEFINE one == NextPixel(g, g.h)
           both == IF one.mode = "Fifo" THEN one ELSE NextPixel(one, g.h)
<1>1. g \in GpuState /\ InRasterOrder(g) /\ g.h \in Nat /\ g.mode # "Fifo"
    BY DEF Port, GpuState
<1>2. one \in GpuState /\ SameFifo(g, one)
    BY <1>1, PixelType
<1>3. both \in GpuState /\ SameFifo(one, both)
    BY <1>1, <1>2, PixelType DEF SameFifo
<1>4. WritePixels(g) = Over(both)
    BY DEF WritePixels
<1>5. SameFifo(both, Over(both))
    BY <1>3 DEF Over, GpuState, SameFifo
<1>6. /\ one.mode # "Fifo" => both = NextPixel(one, g.h)
      /\ one.mode = "Fifo" => both.mode = "Fifo"
    OBVIOUS
<1>7. SameFifo(g, Over(both))
    BY <1>2, <1>3, <1>5 DEF SameFifo
<1> HIDE DEF both
<1>8. /\ Pairs(g) \in Nat /\ Pairs(g) >= 1
      /\ Over(both).mode = IF Pairs(g) = 1 THEN "Fifo" ELSE g.mode
      /\ Pairs(g) # 1 => Pairs(Over(both)) = Pairs(g) - 1
    BY <1>1, <1>3, <1>6, PairMoved
<1> QED
    BY <1>4, <1>7, <1>8

\* ... and GpuRead gives one.
LEMMA GpuReadFrame ==
    ASSUME NEW g, Port(g), g.mode = "Read"
    PROVE  /\ SameFifo(g, GpuRead(g)) /\ Pairs(g) \in Nat /\ Pairs(g) >= 1
           /\ GpuRead(g).mode = IF Pairs(g) = 1 THEN "Fifo" ELSE "Read"
           /\ Pairs(g) # 1 => Pairs(GpuRead(g)) = Pairs(g) - 1
<1> DEFINE one == NextPixel(g, 0)
           both == NextPixel(one, 0)
<1>1. g \in GpuState /\ InRasterOrder(g) /\ g.mode # "Fifo"
    BY DEF Port
<1>2. one \in GpuState /\ SameFifo(g, one)
    BY <1>1, PixelType
<1>3. both \in GpuState /\ SameFifo(one, both) /\ (one.mode = "Fifo" => both.mode = "Fifo")
    BY <1>2, PixelType
<1>4. GpuRead(g) = Over(both)
    BY DEF GpuRead
<1>5. SameFifo(both, Over(both))
    BY <1>3 DEF Over, GpuState, SameFifo
<1>6. one.mode # "Fifo" => both = NextPixel(one, 0)
    OBVIOUS
<1>7. SameFifo(g, Over(both))
    BY <1>2, <1>3, <1>5 DEF SameFifo
<1> HIDE DEF both
<1>8. /\ Pairs(g) \in Nat /\ Pairs(g) >= 1
      /\ Over(both).mode = IF Pairs(g) = 1 THEN "Fifo" ELSE g.mode
      /\ Pairs(g) # 1 => Pairs(Over(both)) = Pairs(g) - 1
    BY <1>1, <1>3, <1>6, PairMoved
<1> QED
    BY <1>4, <1>7, <1>8

\* The words that belong to the transfer to VRAM, or to the command, that has begun.
Left(g, rest) ==
    IF g.mode = "Write" THEN Pairs(g)
    ELSE IF ~g.receiving THEN 0
    ELSE g.remaining + IF g.fifo[1].command = "Load" THEN PicturePairs(rest[g.remaining]) ELSE 0

\* The words to be read, when all is sent.
Owed(g, rest, commands) ==
    IF g.mode = "Read" THEN Pairs(g)
    ELSE IF (g.receiving /\ g.fifo[1].command = "Store") \/ EndsInStore(commands)
    THEN PicturePairs(Last(rest))
    ELSE 0

\* What is still to be sent to a port are the words it waits for and then these commands, and
\* so many words are to be read from it.
InFrame(g, rest, commands, reads) ==
    /\ rest \in Seq(Word) /\ commands \in Seq(Command)
    /\ g.mode = "Write" => ~g.receiving
    /\ g.mode = "Read" => ~g.receiving /\ rest = << >>
    /\ g.receiving => g.remaining <= Len(rest)
    /\ Framed(rest, Left(g, rest) + 1, commands)
    /\ StoresLast(commands)
    /\ g.receiving /\ g.fifo[1].command = "Store" => commands = << >>
    /\ reads = Owed(g, rest, commands)

Idle(g) == g.mode = "Fifo" /\ ~g.receiving

\* A picture is a number of words.
LEMMA PairsType == ASSUME NEW size \in Word PROVE PicturePairs(size) \in Nat
<1>1. Extent(size.x, VramWidth) \in 1..VramWidth /\ Extent(size.y, VramHeight) \in 1..VramHeight
    BY ExtentType, GpuAssumption DEF Word
<1>2. \A w, h \in Nat : (w * h + 1) \div 2 \in Nat
    <2>1. \A w, h \in Nat : w * h \in Nat
        OBVIOUS
    <2>2. \A n \in Nat : (n + 1) \div 2 \in Nat
        OBVIOUS
    <2> QED
        BY <2>1, <2>2
<1>3. Extent(size.x, VramWidth) \in Nat /\ Extent(size.y, VramHeight) \in Nat
    BY <1>1, GpuAssumption
<1> QED
    BY <1>2, <1>3 DEF PicturePairs

\* What the first command says of a read after the last.
LEMMA StoresLastTail ==
    ASSUME NEW commands \in Seq(Command), commands # << >>, StoresLast(commands)
    PROVE  /\ StoresLast(Tail(commands))
           /\ commands[1] = "Store" => Tail(commands) = << >> /\ EndsInStore(commands)
           /\ EndsInStore(Tail(commands)) => EndsInStore(commands) /\ commands[1] # "Store"
           /\ EndsInStore(commands) => commands[1] = "Store" \/ EndsInStore(Tail(commands))
<1> DEFINE n == Len(commands)
           t == Tail(commands)
<1>1. n \in Nat /\ n >= 1 /\ Len(t) = n - 1 /\ t \in Seq(Command)
    BY TailFacts
<1>2. (\A i \in 1..(n - 1) : t[i] = commands[i + 1]) /\ (n >= 2 => Last(t) = Last(commands))
    BY TailFacts
<1>3. DOMAIN commands = 1..n /\ DOMAIN t = 1..(n - 1)
    BY <1>1
<1> HIDE DEF n, t
<1>4. \A j \in 1..n : commands[j] = "Store" => j = n
    BY <1>3, Zenon DEF StoresLast, n
<1>5. StoresLast(t)
    <2> SUFFICES ASSUME NEW j \in 1..(n - 1), t[j] = "Store" PROVE j = n - 1
        BY <1>1, <1>3, Zenon DEF StoresLast
    <2>1. j + 1 \in 1..n
        BY <1>1
    <2>2. commands[j + 1] = "Store"
        BY <1>2
    <2>3. j + 1 = n
        BY <1>4, <2>1, <2>2, Zenon
    <2> QED
        BY <1>1, <2>3
<1>6. n = 1 <=> t = << >>
    BY <1>1
<1>7. commands[1] = "Store" => n = 1
    <2>1. 1 \in 1..n
        BY <1>1
    <2> QED
        BY <1>4, <2>1, Zenon
<1>8. n = 1 => Last(commands) = commands[1]
    BY Zenon DEF Last, n
<1>9. n # 1 => n >= 2
    BY <1>1
<1> QED
    BY <1>2, <1>5, <1>6, <1>7, <1>8, <1>9, Zenon DEF EndsInStore, n, t

\* With the first word gone, the commands begin a word earlier.
LEMMA FollowingTail ==
    ASSUME NEW words \in Seq(Word), words # << >>, NEW i \in 2..Len(words),
           i + Parameters[words[i].command] <= Len(words), words[i].command \in Command
    PROVE  /\ Tail(words)[i - 1].command = words[i].command
           /\ Following(Tail(words), i - 1) = Following(words, i)
           /\ Following(words, i) \in Nat
<1>1. /\ Len(words) \in Nat /\ \A j \in 1..(Len(words) - 1) : Tail(words)[j] = words[j + 1]
    BY TailFacts
<1>2. i - 1 \in 1..(Len(words) - 1) /\ (i - 1) + 1 = i /\ i \in Nat
    BY <1>1
<1>3. Tail(words)[i - 1] = words[i]
    BY <1>1, <1>2
<1>4. CASE words[i].command = "Load"
    <2>1. (i - 1) + 2 \in 1..(Len(words) - 1) /\ ((i - 1) + 2) + 1 = i + 2 /\ i + 2 \in 1..Len(words)
        BY <1>1, <1>2, <1>4, ParameterCounts
    <2>2. Tail(words)[(i - 1) + 2] = words[i + 2]
        BY <1>1, <2>1
    <2>3. Following(Tail(words), i - 1) = 2 + PicturePairs(words[i + 2])
        BY <1>3, <1>4, <2>2, ParameterCounts DEF Following
    <2>4. Following(words, i) = 2 + PicturePairs(words[i + 2])
        BY <1>4, ParameterCounts DEF Following
    <2>5. PicturePairs(words[i + 2]) \in Nat
        <3>1. words[i + 2] \in Word
            BY <2>1
        <3> QED
            BY <3>1, PairsType, Zenon
    <2> QED
        BY <1>3, <2>3, <2>4, <2>5
<1>5. CASE words[i].command # "Load"
    <2>1. Following(words, i) = Parameters[words[i].command] + 0
        BY <1>5 DEF Following
    <2>2. Following(Tail(words), i - 1) = Parameters[words[i].command] + 0
        BY <1>3, <1>5 DEF Following
    <2> QED
        BY <1>3, <2>1, <2>2, ParameterCounts
<1> QED
    BY <1>4, <1>5

\* Where the commands begin.
Starts(words, commands, start) ==
    /\ start \in [1..(Len(commands) + 1) -> 1..(Len(words) + 1)]
    /\ start[Len(commands) + 1] = Len(words) + 1
    /\ \A j \in 1..Len(commands) :
         /\ start[j] + Parameters[commands[j]] < start[j + 1]
         /\ words[start[j]].command = commands[j]
         /\ start[j + 1] = start[j] + 1 + Following(words, start[j])

\* Where the commands of some words start.
LEMMA FramedStarts ==
    ASSUME NEW words, NEW first, NEW commands \in Seq(Command)
    PROVE  Framed(words, first, commands) <=> \E start : Starts(words, commands, start) /\ start[1] = first
<1>1. DOMAIN commands = 1..Len(commands)
    OBVIOUS
<1> QED
    BY <1>1, Zenon DEF Framed, Starts

\* Each command starts in the words, with its parameters in them.
LEMMA StartsFacts ==
    ASSUME NEW words \in Seq(Word), NEW commands \in Seq(Command), NEW start,
           Starts(words, commands, start)
    PROVE  /\ Len(words) \in Nat /\ Len(commands) \in Nat
           /\ \A j \in 1..(Len(commands) + 1) : start[j] \in 1..(Len(words) + 1)
           /\ \A j \in 1..Len(commands) :
                /\ commands[j] \in Command /\ Parameters[commands[j]] \in Nat
                /\ start[j] \in 1..Len(words) /\ start[j] + Parameters[commands[j]] <= Len(words)
                /\ start[j + 1] \in 2..(Len(words) + 1)
<1>1. /\ Len(words) \in Nat /\ Len(commands) \in Nat
      /\ \A j \in 1..Len(commands) : commands[j] \in Command /\ Parameters[commands[j]] \in Nat
    BY ParameterCounts
<1>2. \A j \in 1..(Len(commands) + 1) : start[j] \in 1..(Len(words) + 1)
    BY DEF Starts
<1>3. ASSUME NEW j \in 1..Len(commands)
      PROVE  /\ start[j] \in 1..Len(words) /\ start[j] + Parameters[commands[j]] <= Len(words)
             /\ start[j + 1] \in 2..(Len(words) + 1)
    <2>1. j \in 1..(Len(commands) + 1) /\ j + 1 \in 1..(Len(commands) + 1)
        BY <1>1
    <2>2. start[j] \in 1..(Len(words) + 1) /\ start[j + 1] \in 1..(Len(words) + 1)
        BY <1>2, <2>1
    <2>3. start[j] + Parameters[commands[j]] < start[j + 1]
        BY DEF Starts
    <2>4. Parameters[commands[j]] \in Nat
        BY <1>1
    <2> QED
        BY <1>1, <2>2, <2>3, <2>4, SMTT(30)
<1> QED
    BY <1>1, <1>2, <1>3

\* What a command that begins later asks of the rest.
LEMMA StartTail ==
    ASSUME NEW words \in Seq(Word), words # << >>, NEW commands \in Seq(Command), NEW start,
           Starts(words, commands, start), NEW j \in 1..Len(commands), start[j] >= 2
    PROVE  /\ (start[j] - 1) + Parameters[commands[j]] < start[j + 1] - 1
           /\ Tail(words)[start[j] - 1].command = commands[j]
           /\ start[j + 1] - 1 = (start[j] - 1) + 1 + Following(Tail(words), start[j] - 1)
<1> DEFINE i == start[j]
           k == start[j + 1]
           p == Parameters[commands[j]]
<1>1. i \in 2..Len(words) /\ i + p <= Len(words) /\ k \in Nat /\ p \in Nat /\ Len(words) \in Nat
      /\ commands[j] \in Command
    BY StartsFacts
<1>2. i + p < k /\ words[i].command = commands[j] /\ k = i + 1 + Following(words, i)
    BY DEF Starts
<1> HIDE DEF i, k
<1>3. /\ Tail(words)[i - 1].command = commands[j]
      /\ Following(Tail(words), i - 1) = Following(words, i) /\ Following(words, i) \in Nat
    BY <1>1, <1>2, FollowingTail
<1> HIDE DEF p
<1> DEFINE f == Following(words, i)
<1>4. f \in Nat /\ k = i + 1 + f /\ i \in Nat
    BY <1>1, <1>2, <1>3
<1> HIDE DEF f
<1>5. (i - 1) + p < k - 1 /\ k - 1 = (i - 1) + 1 + f
    BY <1>1, <1>2, <1>4, SMTT(30)
<1>6. Following(Tail(words), i - 1) = f
    BY <1>3 DEF f
<1> QED
    BY <1>3, <1>5, <1>6 DEF i, k, p

\* A word of the command before is taken, ...
LEMMA FramedTail ==
    ASSUME NEW words \in Seq(Word), words # << >>, NEW commands \in Seq(Command),
           NEW first \in Nat, first >= 2, Framed(words, first, commands)
    PROVE  Framed(Tail(words), first - 1, commands)
<1>1. PICK start : Starts(words, commands, start) /\ start[1] = first
    BY FramedStarts
<1> DEFINE n == Len(commands)
           later == [j \in 1..(n + 1) |-> start[j] - 1]
<1>2. n \in Nat /\ Len(words) \in Nat /\ Len(Tail(words)) = Len(words) - 1
    BY TailFacts
<1>3. \A j \in 1..(n + 1) : start[j] \in 2..(Len(words) + 1)
    <2> SUFFICES ASSUME NEW j \in 1..(n + 1) PROVE start[j] \in 2..(Len(words) + 1)
        OBVIOUS
    <2>1. CASE j = 1
        BY <1>1, <1>2, <2>1, StartsFacts
    <2>2. CASE j # 1
        <3>1. j - 1 \in 1..n /\ (j - 1) + 1 = j
            BY <1>2, <2>2
        <3>2. \A i \in 1..n : start[i + 1] \in 2..(Len(words) + 1)
            BY <1>1, StartsFacts
        <3> QED
            BY <3>1, <3>2
    <2> QED
        BY <2>1, <2>2
<1> HIDE DEF n
<1>4. later \in [1..(n + 1) -> 1..(Len(Tail(words)) + 1)]
    BY <1>2, <1>3
<1>5. \A j \in 1..n : j \in 1..(n + 1) /\ j + 1 \in 1..(n + 1)
    BY <1>2
<1>6. 1 \in 1..(n + 1) /\ n + 1 \in 1..(n + 1)
    BY <1>2
<1>7. later[1] = first - 1 /\ later[n + 1] = Len(Tail(words)) + 1
    <2>1. start[n + 1] = Len(words) + 1
        BY <1>1 DEF Starts, n
    <2> QED
        BY <1>1, <1>2, <1>6, <2>1
<1>8. ASSUME NEW j \in 1..n
      PROVE  /\ later[j] + Parameters[commands[j]] < later[j + 1]
             /\ Tail(words)[later[j]].command = commands[j]
             /\ later[j + 1] = later[j] + 1 + Following(Tail(words), later[j])
    <2>1. later[j] = start[j] - 1 /\ later[j + 1] = start[j + 1] - 1 /\ start[j] >= 2
        BY <1>3, <1>5
    <2>2. /\ (start[j] - 1) + Parameters[commands[j]] < start[j + 1] - 1
          /\ Tail(words)[start[j] - 1].command = commands[j]
          /\ start[j + 1] - 1 = (start[j] - 1) + 1 + Following(Tail(words), start[j] - 1)
        BY <1>1, <2>1, StartTail DEF n
    <2> HIDE DEF later
    <2> QED
        BY <2>1, <2>2
<1> HIDE DEF later
<1>9. Starts(Tail(words), commands, later)
    BY <1>4, <1>7, <1>8, Zenon DEF Starts, n
<1> QED
    BY <1>7, <1>9, FramedStarts

\* The first command.
LEMMA FramedFirst ==
    ASSUME NEW words \in Seq(Word), words # << >>, NEW commands \in Seq(Command),
           Framed(words, 1, commands)
    PROVE  /\ commands # << >> /\ words[1].command = commands[1] /\ commands[1] \in Command
           /\ Parameters[commands[1]] < Len(words) /\ Following(words, 1) \in Nat
           /\ Framed(Tail(words), Following(words, 1) + 1, Tail(commands))
<1>1. PICK start : Starts(words, commands, start) /\ start[1] = 1
    BY FramedStarts
<1> DEFINE n == Len(commands)
           later == [j \in 1..n |-> start[j + 1] - 1]
<1>2. /\ n \in Nat /\ Len(words) \in Nat /\ Len(Tail(words)) = Len(words) - 1 /\ Len(words) >= 1
      /\ Tail(words) \in Seq(Word)
    BY TailFacts
<1>3. n # 0
    <2>1. n = 0 => start[1] = Len(words) + 1
        BY <1>1 DEF Starts
    <2> QED
        BY <1>1, <1>2, <2>1
<1>4. n >= 1 /\ 1 \in 1..n /\ n \in 1..n
    BY <1>2, <1>3
<1>5. commands # << >> /\ commands[1] \in Command /\ Tail(commands) \in Seq(Command)
      /\ Len(Tail(commands)) = n - 1 /\ \A i \in 1..(n - 1) : Tail(commands)[i] = commands[i + 1]
    <2>1. commands # << >>
        BY <1>3
    <2> QED
        BY <1>4, <2>1, TailFacts
<1>6. \A j \in 1..n : start[j + 1] \in 2..(Len(words) + 1)
    BY <1>1, StartsFacts
<1>7. /\ start[1] + Parameters[commands[1]] < start[2] /\ words[start[1]].command = commands[1]
      /\ start[2] = start[1] + 1 + Following(words, start[1])
    <2>1. /\ start[1] + Parameters[commands[1]] < start[1 + 1] /\ words[start[1]].command = commands[1]
          /\ start[1 + 1] = start[1] + 1 + Following(words, start[1])
        BY <1>1, <1>4, Zenon DEF Starts
    <2> QED
        BY <2>1
<1>8. /\ words[1].command = commands[1] /\ start[2] \in 2..(Len(words) + 1)
      /\ Parameters[commands[1]] \in Nat /\ Parameters[commands[1]] < Len(words)
    <2>1. start[1 + 1] \in 2..(Len(words) + 1)
        BY <1>4, <1>6
    <2> QED
        BY <1>1, <1>2, <1>5, <1>7, <2>1, ParameterCounts
<1>9. Following(words, 1) \in Nat
    <2>1. CASE commands[1] = "Load"
        <3>1. 1 + 2 \in 1..Len(words)
            BY <1>2, <1>8, <2>1, ParameterCounts
        <3>2. PicturePairs(words[1 + 2]) \in Nat
            BY <3>1, PairsType
        <3> QED
            BY <1>8, <2>1, <3>2 DEF Following
    <2>2. CASE commands[1] # "Load"
        BY <1>8, <2>2 DEF Following
    <2> QED
        BY <2>1, <2>2
<1>10. start[2] - 1 = Following(words, 1) + 1
    BY <1>1, <1>7, <1>9
<1> HIDE DEF n
<1>11. later \in [1..(Len(Tail(commands)) + 1) -> 1..(Len(Tail(words)) + 1)]
    <2>1. Len(Tail(commands)) + 1 = n
        BY <1>2, <1>5
    <2>2. \A j \in 1..n : start[j + 1] - 1 \in 1..(Len(Tail(words)) + 1)
        BY <1>2, <1>6
    <2> QED
        BY <2>1, <2>2
<1>12. later[1] = Following(words, 1) + 1 /\ later[Len(Tail(commands)) + 1] = Len(Tail(words)) + 1
    <2>1. start[n + 1] = Len(words) + 1
        BY <1>1 DEF Starts, n
    <2>2. later[n] = Len(Tail(words)) + 1
        BY <1>2, <1>4, <2>1
    <2>3. Len(Tail(commands)) + 1 = n
        BY <1>2, <1>5
    <2>4. later[1] = start[1 + 1] - 1
        BY <1>4
    <2> QED
        BY <1>10, <2>2, <2>3, <2>4
<1>13. ASSUME NEW j \in 1..Len(Tail(commands))
       PROVE  /\ later[j] + Parameters[Tail(commands)[j]] < later[j + 1]
              /\ Tail(words)[later[j]].command = Tail(commands)[j]
              /\ later[j + 1] = later[j] + 1 + Following(Tail(words), later[j])
    <2>1. j \in 1..(n - 1) /\ j \in 1..n /\ j + 1 \in 1..n
        BY <1>2, <1>5
    <2>2. later[j] = start[j + 1] - 1 /\ later[j + 1] = start[(j + 1) + 1] - 1 /\ start[j + 1] >= 2
        BY <1>2, <1>6, <2>1
    <2>3. Tail(commands)[j] = commands[j + 1]
        BY <1>5, <2>1
    <2>4. /\ (start[j + 1] - 1) + Parameters[commands[j + 1]] < start[(j + 1) + 1] - 1
          /\ Tail(words)[start[j + 1] - 1].command = commands[j + 1]
          /\ start[(j + 1) + 1] - 1 = (start[j + 1] - 1) + 1 + Following(Tail(words), start[j + 1] - 1)
        <3> DEFINE m == j + 1
        <3>1. m \in 1..Len(commands) /\ start[m] >= 2
            BY <2>1, <2>2 DEF n
        <3> HIDE DEF m
        <3>2. /\ (start[m] - 1) + Parameters[commands[m]] < start[m + 1] - 1
              /\ Tail(words)[start[m] - 1].command = commands[m]
              /\ start[m + 1] - 1 = (start[m] - 1) + 1 + Following(Tail(words), start[m] - 1)
            BY <1>1, <3>1, StartTail, ZenonT(30)
        <3> QED
            BY <3>2 DEF m
    <2> HIDE DEF later
    <2> QED
        BY <2>2, <2>3, <2>4
<1> HIDE DEF later
<1>14. Starts(Tail(words), Tail(commands), later)
    BY <1>11, <1>12, <1>13, Zenon DEF Starts
<1>15. Framed(Tail(words), Following(words, 1) + 1, Tail(commands))
    BY <1>5, <1>12, <1>14, FramedStarts
<1> QED
    BY <1>5, <1>8, <1>9, <1>15

\* Where nothing is left there are no commands.
LEMMA FramedEmpty ==
    /\ \A first : \A commands \in Seq(Command) :
         Framed(<< >>, first, commands) => first = 1 /\ commands = << >>
    /\ Framed(<< >>, 1, << >>)
<1>1. ASSUME NEW commands \in Seq(Command), NEW first, Framed(<< >>, first, commands)
      PROVE  first = 1 /\ commands = << >>
    <2>1. PICK start : Starts(<< >>, commands, start) /\ start[1] = first
        BY <1>1, FramedStarts
    <2>2. << >> \in Seq(Word) /\ Len(<< >>) = 0
        OBVIOUS
    <2>3. Len(commands) \in Nat /\ \A j \in 1..Len(commands) : start[j] \in 1..0
        BY <2>1, <2>2, StartsFacts
    <2>4. Len(commands) = 0
        <3>1. Len(commands) # 0 => 1 \in 1..Len(commands)
            BY <2>3
        <3> QED
            BY <2>3, <3>1
    <2>5. start[0 + 1] = 0 + 1
        BY <2>1, <2>2, <2>4, Zenon DEF Starts
    <2> QED
        BY <2>1, <2>4, <2>5
<1>2. Framed(<< >>, 1, << >>)
    <2> DEFINE start == [j \in 1..(0 + 1) |-> 1]
    <2>1. start \in [1..(0 + 1) -> 1..(0 + 1)] /\ start[1] = 1 /\ start[0 + 1] = 0 + 1
        OBVIOUS
    <2>2. Len(<< >>) = 0 /\ << >> \in Seq(Command) /\ \A j \in 1..0 : FALSE
        OBVIOUS
    <2> HIDE DEF start
    <2>3. Starts(<< >>, << >>, start)
        BY <2>1, <2>2, Zenon DEF Starts
    <2> QED
        BY <2>1, <2>2, <2>3, FramedStarts
<1> QED
    BY <1>1, <1>2

\* A command that asks for a picture has two parameters.
LEMMA FramedStore ==
    ASSUME NEW words \in Seq(Word), NEW commands \in Seq(Command), NEW first,
           Framed(words, first, commands), EndsInStore(commands)
    PROVE  Len(words) \in Nat /\ Len(words) >= 3
<1>1. PICK start : Starts(words, commands, start)
    BY FramedStarts
<1> DEFINE n == Len(commands)
<1>2. n \in 1..n /\ commands[n] = "Store"
    <2>1. n \in Nat /\ n # 0
        BY DEF EndsInStore
    <2> QED
        BY <2>1 DEF EndsInStore, Last
<1>3. /\ Len(words) \in Nat /\ start[n] \in 1..Len(words)
      /\ start[n] + Parameters[commands[n]] <= Len(words)
    BY <1>1, <1>2, StartsFacts
<1> HIDE DEF n
<1> QED
    BY <1>2, <1>3, ParameterCounts

\* Without commands there are no words of any.
LEMMA FramedNone ==
    ASSUME NEW words \in Seq(Word), NEW first, Framed(words, first, << >>)
    PROVE  first = Len(words) + 1
<1>1. << >> \in Seq(Command) /\ Len(<< >>) = 0
    OBVIOUS
<1>2. PICK start : Starts(words, << >>, start) /\ start[1] = first
    BY <1>1, FramedStarts
<1>3. start[0 + 1] = Len(words) + 1
    BY <1>1, <1>2, Zenon DEF Starts
<1> QED
    BY <1>2, <1>3

\* A port that is between two commands, with nothing asked for.
LEMMA FrameEmpty ==
    ASSUME NEW g, Port(g), NEW commands, InFrame(g, << >>, commands, 0)
    PROVE  Idle(g) /\ commands = << >>
<1>1. g \in GpuState /\ g.mode \in {"Fifo", "Write", "Read"} /\ g.remaining \in Nat /\ g.receiving \in BOOLEAN
    BY DEF Port, GpuState
<1>2. ~g.receiving
    <2>1. g.receiving => g.remaining <= Len(<< >>) /\ g.remaining >= 1
        BY DEF InFrame, Port, FifoCounts
    <2>2. Len(<< >>) = 0
        OBVIOUS
    <2> QED
        BY <1>1, <2>1, <2>2
<1>3. Left(g, << >>) + 1 = 1 /\ commands = << >>
    BY FramedEmpty DEF InFrame
<1>4. g.mode # "Write"
    <2> SUFFICES ASSUME g.mode = "Write" PROVE FALSE
        OBVIOUS
    <2>1. Pairs(g) \in Nat /\ Pairs(g) >= 1
        BY WritePixelsFrame
    <2> QED
        BY <1>3, <2>1 DEF Left
<1>5. g.mode # "Read"
    <2> SUFFICES ASSUME g.mode = "Read" PROVE FALSE
        OBVIOUS
    <2>1. Pairs(g) \in Nat /\ Pairs(g) >= 1
        BY GpuReadFrame
    <2>2. 0 = Pairs(g)
        BY DEF InFrame, Owed
    <2> QED
        BY <2>1, <2>2
<1> QED
    BY <1>1, <1>2, <1>3, <1>4, <1>5 DEF Idle

\* A packet that is started, ...
LEMMA FrameStart ==
    ASSUME NEW g, Idle(g), NEW words \in Seq(Word), NEW commands \in Seq(Command),
           Framed(words, 1, commands), StoresLast(commands)
    PROVE  InFrame(g, words, commands, IF EndsInStore(commands) THEN PicturePairs(Last(words)) ELSE 0)
<1>1. g.mode = "Fifo" /\ ~g.receiving
    BY DEF Idle
<1>2. Left(g, words) + 1 = 1
    BY <1>1 DEF Left
<1> QED
    BY <1>1, <1>2 DEF InFrame, Owed

\* ... and one of no words.
LEMMA FrameIdle ==
    ASSUME NEW g, Idle(g)
    PROVE  InFrame(g, << >>, << >>, 0)
<1>1. << >> \in Seq(Word) /\ << >> \in Seq(Command)
    OBVIOUS
<1>2. StoresLast(<< >>) /\ ~EndsInStore(<< >>)
    BY DEF StoresLast, EndsInStore
<1> QED
    BY <1>1, <1>2, FrameStart, FramedEmpty

\* What sending a word, and reading one, do to the frame.
Sent(g, commands) == IF TakesCommand(g) THEN Tail(commands) ELSE commands

\* A word of a picture.
LEMMA SendPixels ==
    ASSUME NEW g, Port(g), NEW rest, NEW commands, NEW reads, InFrame(g, rest, commands, reads),
           rest # << >>, g.mode = "Write"
    PROVE  /\ ~TakesCommand(g) /\ ~Gp0Fails(g, Head(rest))
           /\ InFrame(Gp0(g, Head(rest)), Tail(rest), commands, reads)
<1> DEFINE h == WritePixels(g)
           p == Pairs(g)
<1>1. rest \in Seq(Word) /\ commands \in Seq(Command) /\ ~g.receiving
    BY DEF InFrame
<1>2. /\ SameFifo(g, h) /\ p \in Nat /\ p >= 1 /\ h.mode = IF p = 1 THEN "Fifo" ELSE "Write"
      /\ p # 1 => Pairs(h) = p - 1
    BY WritePixelsFrame
<1>3. /\ Tail(rest) \in Seq(Word) /\ Len(rest) >= 2 => Last(Tail(rest)) = Last(rest)
    BY <1>1, TailFacts
<1>4. ~TakesCommand(g) /\ ~Gp0Fails(g, Head(rest)) /\ Gp0(g, Head(rest)) = h
    BY DEF TakesCommand, Gp0Fails, Gp0
<1>5. Framed(rest, p + 1, commands)
    BY DEF InFrame, Left
<1> HIDE DEF h, p
<1>6. ~h.receiving
    BY <1>1, <1>2 DEF SameFifo
<1>7. Left(h, Tail(rest)) = p - 1
    BY <1>2, <1>6 DEF Left
<1>8. Framed(Tail(rest), Left(h, Tail(rest)) + 1, commands)
    <2>1. p + 1 \in Nat /\ p + 1 >= 2 /\ (p + 1) - 1 = (p - 1) + 1
        BY <1>2
    <2>2. Framed(Tail(rest), (p + 1) - 1, commands)
        BY <1>1, <1>5, <2>1, FramedTail
    <2> QED
        BY <1>7, <2>1, <2>2
<1>9. Tail(rest) \in Seq(Word)
    BY <1>1, TailFacts
<1>10. reads = Owed(h, Tail(rest), commands)
    <2>1. reads = IF EndsInStore(commands) THEN PicturePairs(Last(rest)) ELSE 0
        BY <1>1 DEF InFrame, Owed
    <2>2. Owed(h, Tail(rest), commands) =
             IF EndsInStore(commands) THEN PicturePairs(Last(Tail(rest))) ELSE 0
        BY <1>2, <1>6 DEF Owed
    <2>3. EndsInStore(commands) => Len(rest) >= 2
        <3>1. EndsInStore(commands) => Len(rest) \in Nat /\ Len(rest) >= 3
            BY <1>1, <1>5, FramedStore
        <3> QED
            BY <3>1
    <2> QED
        BY <1>1, <2>1, <2>2, <2>3, TailFacts
<1>11. StoresLast(commands)
    BY DEF InFrame
<1>12. h.mode # "Read"
    BY <1>2
<1>13. InFrame(h, Tail(rest), commands, reads)
    BY <1>1, <1>6, <1>8, <1>9, <1>10, <1>11, <1>12, Zenon DEF InFrame
<1> QED
    BY <1>4, <1>13

\* The port waits for a parameter.
LEMMA ReceivingFacts ==
    ASSUME NEW g, Port(g), NEW rest, NEW commands, NEW reads, InFrame(g, rest, commands, reads),
           rest # << >>, g.receiving
    PROVE  /\ g \in GpuState /\ g.mode = "Fifo" /\ g.remaining \in Nat /\ g.remaining >= 1
           /\ g.remaining <= Len(rest) /\ Len(rest) \in Nat
           /\ g.fifo \in Seq(Word) /\ Len(g.fifo) \in Nat /\ Len(g.fifo) >= 1
           /\ g.fifo[1].command \in Command
           /\ Len(g.fifo) + g.remaining = Parameters[g.fifo[1].command] + 1
           /\ ~TakesCommand(g) /\ ~Gp0Fails(g, Head(rest))
           /\ Gp0(g, Head(rest)) = TakeParameter(g, Head(rest))
<1>1. /\ g \in GpuState /\ g.mode = "Fifo" /\ g.remaining \in Nat /\ g.remaining >= 1
      /\ g.remaining <= Len(rest) /\ rest \in Seq(Word)
      /\ g.fifo \in Seq(Word) /\ Len(g.fifo) >= 1 /\ g.fifo[1].command \in Command
      /\ Len(g.fifo) + g.remaining = Parameters[g.fifo[1].command] + 1
    BY DEF Port, FifoCounts, GpuState, InFrame
<1>2. Len(rest) \in Nat /\ Len(g.fifo) \in Nat
    BY <1>1
<1>3. Parameters[g.fifo[1].command] \in 0..8
    <2>1. \A c \in Command : Parameters[c] \in 0..8
        BY DEF Command, Parameters
    <2> QED
        BY <1>1, <2>1
<1>4. ~TakesCommand(g)
    BY DEF TakesCommand
<1>5. Len(g.fifo) < CommandFifoSize
    BY <1>1, <1>2, <1>3, SMTT(30) DEF CommandFifoSize
<1>6. ~Gp0Fails(g, Head(rest))
    <2>1. ~(Len(g.fifo) >= CommandFifoSize)
        BY <1>2, <1>5 DEF CommandFifoSize
    <2> QED
        BY <1>1, <1>4, <2>1, Zenon DEF Gp0Fails
<1>7. Gp0(g, Head(rest)) = TakeParameter(g, Head(rest))
    BY <1>1 DEF Gp0
<1> QED
    BY <1>1, <1>2, <1>4, <1>6, <1>7

\* A parameter, ...
LEMMA SendParameter ==
    ASSUME NEW g, Port(g), NEW rest, NEW commands, NEW reads, InFrame(g, rest, commands, reads),
           rest # << >>, g.receiving, g.remaining # 1
    PROVE  InFrame(TakeParameter(g, Head(rest)), Tail(rest), commands, reads)
<1> DEFINE h == TakeParameter(g, Head(rest))
           r == g.remaining
           c == g.fifo[1].command
           t == Tail(rest)
<1>1. /\ g \in GpuState /\ g.mode = "Fifo" /\ r \in Nat /\ r >= 2 /\ r <= Len(rest) /\ Len(rest) \in Nat
      /\ g.fifo \in Seq(Word) /\ Len(g.fifo) >= 1 /\ Len(g.fifo) \in Nat
    BY ReceivingFacts
<1>2. rest \in Seq(Word) /\ commands \in Seq(Command) /\ StoresLast(commands)
      /\ Framed(rest, Left(g, rest) + 1, commands) /\ (c = "Store" => commands = << >>)
    BY DEF InFrame
<1>3. /\ t \in Seq(Word) /\ Len(t) = Len(rest) - 1 /\ Head(rest) \in Word
      /\ \A i \in 1..(Len(rest) - 1) : t[i] = rest[i + 1]
      /\ Last(t) = Last(rest)
    BY <1>1, <1>2, TailFacts
<1>4. h = [g EXCEPT !.fifo = Append(g.fifo, Head(rest)), !.remaining = r - 1]
    BY <1>1 DEF TakeParameter, GpuState
<1>5. Append(g.fifo, Head(rest))[1] = g.fifo[1]
    BY <1>1, <1>3
<1> HIDE DEF h
<1>6. h.mode = "Fifo" /\ h.receiving /\ h.remaining = r - 1 /\ h.fifo[1].command = c
    BY <1>1, <1>4, <1>5 DEF GpuState
<1> DEFINE extra == IF c = "Load" THEN PicturePairs(rest[r]) ELSE 0
<1>7. extra \in Nat
    <2>1. rest[r] \in Word
        BY <1>1, <1>2
    <2> QED
        BY <2>1, PairsType
<1>8. Left(g, rest) = r + extra
    BY <1>1 DEF Left
<1>9. t[r - 1] = rest[r]
    <2>1. r - 1 \in 1..(Len(rest) - 1) /\ (r - 1) + 1 = r
        BY <1>1
    <2> QED
        BY <1>3, <2>1
<1>10. Left(h, t) = (r - 1) + extra
    BY <1>6, <1>9 DEF Left
<1> HIDE DEF r, c, t, extra
<1>11. Framed(t, Left(h, t) + 1, commands)
    <2>1. Left(g, rest) + 1 \in Nat /\ Left(g, rest) + 1 >= 2
          /\ (Left(g, rest) + 1) - 1 = Left(h, t) + 1
        BY <1>1, <1>7, <1>8, <1>10
    <2>2. Framed(t, (Left(g, rest) + 1) - 1, commands)
        BY <1>2, <2>1, FramedTail DEF t
    <2> QED
        BY <2>1, <2>2
<1>12. reads = Owed(h, t, commands)
    <2>1. reads = Owed(g, rest, commands)
        BY DEF InFrame
    <2>2. Owed(g, rest, commands) =
             IF c = "Store" \/ EndsInStore(commands) THEN PicturePairs(Last(rest)) ELSE 0
        BY <1>1 DEF Owed, c
    <2>3. Owed(h, t, commands) =
             IF c = "Store" \/ EndsInStore(commands) THEN PicturePairs(Last(t)) ELSE 0
        BY <1>6 DEF Owed
    <2> QED
        BY <1>3, <2>1, <2>2, <2>3
<1>13. h.remaining <= Len(t)
    BY <1>1, <1>3, <1>6
<1>14. InFrame(h, t, commands, reads)
    BY <1>2, <1>3, <1>6, <1>11, <1>12, <1>13 DEF InFrame
<1> QED
    BY <1>14 DEF h, t

\* With the last parameter a transfer begins, or the port is between two commands.
LEMMA SendLastParameter ==
    ASSUME NEW g, Port(g), NEW rest, NEW commands, NEW reads, InFrame(g, rest, commands, reads),
           rest # << >>, g.receiving, g.remaining = 1
    PROVE  InFrame(TakeParameter(g, Head(rest)), Tail(rest), commands, reads)
<1> DEFINE word == Head(rest)
           fifo == Append(g.fifo, word)
           e == ExecuteCommand(g, fifo)
           h == TakeParameter(g, word)
           c == g.fifo[1].command
           t == Tail(rest)
<1>1. /\ g \in GpuState /\ g.mode = "Fifo" /\ Len(rest) \in Nat /\ c \in Command
      /\ g.fifo \in Seq(Word) /\ Len(g.fifo) >= 1 /\ Len(g.fifo) \in Nat
      /\ Len(g.fifo) + 1 = Parameters[c] + 1 /\ InRasterOrder(g)
    BY ReceivingFacts DEF Port
<1>2. rest \in Seq(Word) /\ commands \in Seq(Command) /\ StoresLast(commands)
      /\ Framed(rest, Left(g, rest) + 1, commands) /\ (c = "Store" => commands = << >>)
    BY DEF InFrame
<1>3. /\ t \in Seq(Word) /\ Len(t) = Len(rest) - 1 /\ word \in Word /\ word = rest[1]
      /\ Len(rest) >= 1 /\ (Len(rest) >= 2 => Last(t) = Last(rest))
    BY <1>2, TailFacts
<1>4. fifo \in Seq(Word) /\ fifo[1] = g.fifo[1] /\ Len(fifo) >= 1 /\ Len(fifo) = Len(g.fifo) + 1
      /\ fifo[Len(g.fifo) + 1] = word
    BY <1>1, <1>3
<1>5. c \in {"Load", "Store"} => Len(fifo) = 3 /\ fifo[3] = word
    BY <1>1, <1>4, ParameterCounts
<1>6. e \in GpuState
    BY <1>1, <1>4, <1>5, ExecuteCommandKeeps
<1>7. h = [e EXCEPT !.receiving = FALSE, !.fifo = << >>, !.remaining = 0]
    BY DEF TakeParameter
<1>8. /\ c \in {"Load", "Store"} =>
           /\ e.mode = IF c = "Load" THEN "Write" ELSE "Read"
           /\ e.w = Extent(word.x, VramWidth) /\ e.h = Extent(word.y, VramHeight) /\ e.moved = 0
      /\ c \notin {"Load", "Store"} => e.mode = "Fifo"
    BY <1>1, <1>4, <1>5 DEF ExecuteCommand, GpuState
<1> HIDE DEF word, fifo, e, h, t
<1>9. ~h.receiving /\ h.mode = e.mode /\ h.w = e.w /\ h.h = e.h /\ h.moved = e.moved
    BY <1>6, <1>7 DEF GpuState
<1>10. c \in {"Load", "Store"} => Pairs(h) = PicturePairs(word)
    <2> SUFFICES ASSUME c \in {"Load", "Store"} PROVE Pairs(h) = PicturePairs(word)
        OBVIOUS
    <2> DEFINE x == Extent(word.x, VramWidth)
               y == Extent(word.y, VramHeight)
    <2>1. x \in Nat /\ y \in Nat
        <3>1. x \in 1..VramWidth /\ y \in 1..VramHeight
            BY <1>3, ExtentType, GpuAssumption DEF Word
        <3> QED
            BY <3>1, GpuAssumption
    <2>2. Pairs(h) = (x * y - 0 + 1) \div 2
        BY <1>8, <1>9 DEF Pairs
    <2>3. PicturePairs(word) = (x * y + 1) \div 2
        BY DEF PicturePairs
    <2> HIDE DEF x, y
    <2>4. x * y \in Nat
        BY <2>1
    <2>5. x * y - 0 = x * y
        BY <2>4
    <2> QED
        BY <2>2, <2>3, <2>5
<1> HIDE DEF c
<1>11. PicturePairs(word) \in Nat
    BY <1>3, PairsType
<1>12. Left(g, rest) = 1 + IF c = "Load" THEN PicturePairs(word) ELSE 0
    BY <1>1, <1>3 DEF Left, c
<1>13. Left(h, t) = IF c = "Load" THEN PicturePairs(word) ELSE 0
    BY <1>8, <1>9, <1>10 DEF Left
<1>14. Framed(t, Left(h, t) + 1, commands)
    <2>1. Left(g, rest) + 1 \in Nat /\ Left(g, rest) + 1 >= 2
          /\ (Left(g, rest) + 1) - 1 = Left(h, t) + 1
        BY <1>11, <1>12, <1>13
    <2>2. Framed(t, (Left(g, rest) + 1) - 1, commands)
        BY <1>2, <2>1, FramedTail DEF t
    <2> QED
        BY <2>1, <2>2
<1>15. c = "Store" => t = << >> /\ commands = << >> /\ Last(rest) = word
    <2> SUFFICES ASSUME c = "Store" PROVE t = << >> /\ commands = << >> /\ Last(rest) = word
        OBVIOUS
    <2>1. commands = << >> /\ Left(g, rest) + 1 = 2
        BY <1>2, <1>12
    <2>2. 2 = Len(rest) + 1
        BY <1>2, <2>1, FramedNone
    <2>3. Len(rest) = 1
        <3>1. Len(rest) \in Nat
            BY <1>1
        <3>2. \A n \in Nat : 2 = n + 1 => n = 1
            OBVIOUS
        <3> QED
            BY <2>2, <3>1, <3>2, Zenon
    <2>4. Len(t) = 0
        BY <1>3, <2>3
    <2> QED
        BY <1>3, <2>1, <2>3, <2>4 DEF Last
<1>16. reads = Owed(h, t, commands)
    <2>1. reads = IF c = "Store" \/ EndsInStore(commands) THEN PicturePairs(Last(rest)) ELSE 0
        BY <1>1 DEF InFrame, Owed, c
    <2>2. CASE c = "Store"
        BY <1>8, <1>9, <1>10, <1>15, <2>1, <2>2 DEF Owed
    <2>3. CASE c # "Store"
        <3>1. h.mode # "Read"
            BY <1>8, <1>9, <2>3
        <3>2. Owed(h, t, commands) = IF EndsInStore(commands) THEN PicturePairs(Last(t)) ELSE 0
            BY <1>9, <3>1 DEF Owed
        <3>3. EndsInStore(commands) => Len(rest) >= 3
            BY <1>2, FramedStore
        <3>4. EndsInStore(commands) => Last(t) = Last(rest)
            BY <1>1, <1>3, <3>3
        <3> QED
            BY <2>1, <2>3, <3>2, <3>4
    <2> QED
        BY <2>2, <2>3
<1>17. h.mode = "Read" => c = "Store"
    BY <1>8, <1>9
<1>18. InFrame(h, t, commands, reads)
    BY <1>2, <1>3, <1>9, <1>14, <1>15, <1>16, <1>17, Zenon DEF InFrame
<1> QED
    BY <1>18 DEF h, t, word

\* A command, which is the one that is due.
LEMMA SendCommand ==
    ASSUME NEW g, Port(g), NEW rest, NEW commands, NEW reads, InFrame(g, rest, commands, reads),
           rest # << >>, g.mode # "Write", ~g.receiving
    PROVE  /\ TakesCommand(g) /\ ~Gp0Fails(g, Head(rest))
           /\ commands # << >> /\ Head(commands) = Head(rest).command
           /\ InFrame(Gp0(g, Head(rest)), Tail(rest), Tail(commands), reads)
<1> DEFINE word == Head(rest)
           h == TakeCommand(g, word)
           t == Tail(rest)
           p == Parameters[word.command]
           following == Following(rest, 1)
<1>1. /\ rest \in Seq(Word) /\ commands \in Seq(Command) /\ StoresLast(commands)
      /\ g \in GpuState /\ g.mode = "Fifo" /\ g.fifo = << >>
    BY DEF InFrame, Port, FifoCounts, GpuState
<1>2. Framed(rest, 1, commands)
    <2>1. Left(g, rest) + 1 = 1
        BY <1>1 DEF Left
    <2> QED
        BY <2>1 DEF InFrame
<1>3. /\ t \in Seq(Word) /\ Len(rest) \in Nat /\ Len(t) = Len(rest) - 1 /\ word \in Word /\ word = rest[1]
      /\ \A i \in 1..(Len(rest) - 1) : t[i] = rest[i + 1]
      /\ (Len(rest) >= 2 => Last(t) = Last(rest))
    BY <1>1, TailFacts
<1>4. /\ commands # << >> /\ rest[1].command = commands[1] /\ commands[1] \in Command
      /\ Parameters[commands[1]] < Len(rest) /\ following \in Nat
      /\ Framed(t, following + 1, Tail(commands))
    BY <1>1, <1>2, FramedFirst
<1>5. Head(commands) = commands[1] /\ Tail(commands) \in Seq(Command)
    BY <1>1, <1>4, TailFacts
<1>6. word.command = commands[1] /\ word.command \in Command /\ word.command # "None"
    <2>1. "None" \notin Command
        BY DEF Command, Parameters
    <2> QED
        BY <1>3, <1>4, <2>1
<1>7. /\ StoresLast(Tail(commands))
      /\ commands[1] = "Store" => Tail(commands) = << >> /\ EndsInStore(commands)
      /\ EndsInStore(Tail(commands)) => EndsInStore(commands) /\ commands[1] # "Store"
      /\ EndsInStore(commands) => commands[1] = "Store" \/ EndsInStore(Tail(commands))
    BY <1>1, <1>4, StoresLastTail
<1>8. TakesCommand(g) /\ ~Gp0Fails(g, word) /\ Gp0(g, word) = h
    <2>1. TakesCommand(g) /\ Gp0(g, word) = h
        BY <1>1 DEF TakesCommand, Gp0
    <2> QED
        BY <1>1, <1>6, <2>1, Zenon DEF Gp0Fails
<1>9. reads = IF EndsInStore(commands) THEN PicturePairs(Last(rest)) ELSE 0
    BY <1>1 DEF InFrame, Owed
<1>10. EndsInStore(commands) => Last(t) = Last(rest)
    <2>1. EndsInStore(commands) => Len(rest) >= 3
        BY <1>1, <1>2, FramedStore
    <2> QED
        BY <1>3, <2>1
<1>11. p \in Nat /\ p <= Len(t)
    BY <1>3, <1>4, <1>6, ParameterCounts
<1>12. following = p + IF word.command = "Load" THEN PicturePairs(rest[1 + 2]) ELSE 0
    BY <1>3 DEF Following
<1>13. CASE p = 0
    <2>1. h = g
        BY <1>13 DEF TakeCommand
    <2>2. word.command \notin {"Load", "Store"}
        BY <1>13, ParameterCounts
    <2>3. following = 0
        BY <1>12, <1>13, <2>2
    <2>4. Left(g, t) = 0
        BY <1>1 DEF Left
    <2>5. Framed(t, Left(g, t) + 1, Tail(commands))
        BY <1>4, <2>3, <2>4
    <2>6. EndsInStore(Tail(commands)) <=> EndsInStore(commands)
        BY <1>6, <1>7, <2>2
    <2>7. Owed(g, t, Tail(commands)) =
             IF EndsInStore(Tail(commands)) THEN PicturePairs(Last(t)) ELSE 0
        BY <1>1 DEF Owed
    <2>8. reads = Owed(g, t, Tail(commands))
        BY <1>9, <1>10, <2>6, <2>7
    <2> HIDE DEF t, h, p, following
    <2>9. InFrame(g, t, Tail(commands), reads)
        BY <1>1, <1>3, <1>5, <1>7, <2>5, <2>8 DEF InFrame
    <2>10. InFrame(h, t, Tail(commands), reads)
        BY <2>1, <2>9
    <2> QED
        BY <1>4, <1>5, <1>6, <1>8, <2>10 DEF t
<1>14. CASE p # 0
    <2>1. h = [g EXCEPT !.fifo = Append(<< >>, word), !.receiving = TRUE, !.remaining = p]
        BY <1>1, <1>14 DEF TakeCommand, GpuState
    <2>2. Append(<< >>, word)[1] = word
        OBVIOUS
    <2> HIDE DEF h, word
    <2>3. h.mode = "Fifo" /\ h.receiving /\ h.remaining = p /\ h.fifo[1] = word
        BY <1>1, <2>1, <2>2 DEF GpuState
    <2>4. Left(h, t) = following
        <3>1. CASE word.command = "Load"
            <4>1. p = 2
                BY <3>1, ParameterCounts
            <4>2. 2 \in 1..(Len(rest) - 1)
                BY <1>3, <1>11, <4>1
            <4>3. t[2] = rest[1 + 2]
                <5>1. t[2] = rest[2 + 1]
                    BY <1>3, <4>2
                <5>2. 2 + 1 = 1 + 2
                    OBVIOUS
                <5> QED
                    BY <5>1, <5>2, Zenon
            <4> HIDE DEF t, p, following
            <4> QED
                BY <1>12, <2>3, <3>1, <4>1, <4>3 DEF Left
        <3>2. CASE word.command # "Load"
            BY <1>12, <2>3, <3>2 DEF Left
        <3> QED
            BY <3>1, <3>2
    <2>5. Owed(h, t, Tail(commands)) =
             IF word.command = "Store" \/ EndsInStore(Tail(commands)) THEN PicturePairs(Last(t)) ELSE 0
        BY <2>3 DEF Owed
    <2>6. EndsInStore(commands) <=> word.command = "Store" \/ EndsInStore(Tail(commands))
        BY <1>6, <1>7
    <2>7. reads = Owed(h, t, Tail(commands))
        BY <1>9, <1>10, <2>5, <2>6
    <2> HIDE DEF t, p, following
    <2>8. word.command = "Store" => Tail(commands) = << >>
        BY <1>6, <1>7
    <2>9. InFrame(h, t, Tail(commands), reads)
        BY <1>3, <1>4, <1>5, <1>7, <1>11, <2>3, <2>4, <2>7, <2>8 DEF InFrame
    <2> QED
        BY <1>4, <1>5, <1>6, <1>8, <2>9 DEF t, word
<1> QED
    BY <1>13, <1>14

\* A word that is sent is what the port takes it for.
LEMMA FrameSend ==
    ASSUME NEW g, Port(g), NEW rest, NEW commands, NEW reads, InFrame(g, rest, commands, reads),
           rest # << >>
    PROVE  /\ ~Gp0Fails(g, Head(rest))
           /\ TakesCommand(g) => commands # << >> /\ Head(commands) = Head(rest).command
           /\ InFrame(Gp0(g, Head(rest)), Tail(rest), Sent(g, commands), reads)
<1>1. CASE g.mode = "Write"
    BY <1>1, SendPixels DEF Sent
<1>2. CASE g.mode # "Write" /\ ~g.receiving
    BY <1>2, SendCommand DEF Sent
<1>3. CASE g.mode # "Write" /\ g.receiving
    <2>1. ~TakesCommand(g) /\ ~Gp0Fails(g, Head(rest)) /\ Gp0(g, Head(rest)) = TakeParameter(g, Head(rest))
        BY <1>3, ReceivingFacts
    <2>2. InFrame(TakeParameter(g, Head(rest)), Tail(rest), commands, reads)
        BY <1>3, SendParameter, SendLastParameter
    <2> QED
        BY <2>1, <2>2 DEF Sent
<1> QED
    BY <1>1, <1>2, <1>3

\* A word that is read leaves one less to read.
LEMMA FrameRead ==
    ASSUME NEW g, Port(g), NEW commands, NEW reads, InFrame(g, << >>, commands, reads),
           reads # 0
    PROVE  reads \in Nat /\ reads >= 1 /\ InFrame(GpuRead(g), << >>, commands, reads - 1)
<1> DEFINE h == GpuRead(g)
           p == Pairs(g)
<1>1. /\ commands = << >> /\ g \in GpuState /\ ~g.receiving
      /\ g.mode \in {"Fifo", "Write", "Read"}
    <2>1. commands = << >>
        BY FramedEmpty DEF InFrame
    <2>2. g \in GpuState /\ g.mode \in {"Fifo", "Write", "Read"} /\ g.remaining \in Nat /\ g.receiving \in BOOLEAN
        BY DEF Port, GpuState
    <2>3. g.receiving => g.remaining <= Len(<< >>) /\ g.remaining >= 1
        BY DEF InFrame, Port, FifoCounts
    <2>4. Len(<< >>) = 0
        OBVIOUS
    <2> QED
        BY <2>1, <2>2, <2>3, <2>4
<1>2. g.mode = "Read" /\ reads = p
    <2>1. ~EndsInStore(<< >>)
        BY DEF EndsInStore
    <2>2. reads = Owed(g, << >>, << >>)
        BY <1>1 DEF InFrame
    <2> QED
        BY <1>1, <2>1, <2>2 DEF Owed
<1>3. /\ SameFifo(g, h) /\ p \in Nat /\ p >= 1 /\ h.mode = IF p = 1 THEN "Fifo" ELSE "Read"
      /\ p # 1 => Pairs(h) = p - 1
    BY <1>2, GpuReadFrame
<1> HIDE DEF h, p
<1>4. ~h.receiving
    BY <1>1, <1>3 DEF SameFifo
<1>5. CASE p = 1
    <2>1. Idle(h)
        BY <1>3, <1>4, <1>5 DEF Idle
    <2>2. InFrame(h, << >>, << >>, 0)
        BY <2>1, FrameIdle
    <2>3. reads - 1 = 0
        BY <1>2, <1>5
    <2> QED
        BY <1>1, <1>2, <1>3, <2>2, <2>3 DEF h
<1>6. CASE p # 1
    <2>1. Left(h, << >>) + 1 = 1 /\ Owed(h, << >>, << >>) = reads - 1
        BY <1>2, <1>3, <1>4, <1>6 DEF Left, Owed
    <2>2. << >> \in Seq(Word) /\ << >> \in Seq(Command) /\ StoresLast(<< >>)
        BY DEF StoresLast
    <2>3. InFrame(h, << >>, << >>, reads - 1)
        BY <1>3, <1>4, <1>6, <2>1, <2>2, FramedEmpty, SMTT(30) DEF InFrame
    <2> QED
        BY <1>1, <1>2, <1>3, <2>3 DEF h
<1> QED
    BY <1>5, <1>6

-----------------------------------------------------------------------------
(* The interrupt.                                                           *)

\* What all operations of the interrupt controller keep.
LEMMA IntcType ==
    ASSUME NEW b \in IntcState, NEW i \in Interrupt, NEW set \in SUBSET Interrupt
    PROVE  /\ AssertInterrupt(b, i) \in IntcState /\ i \in AssertInterrupt(b, i).status
           /\ b.status \subseteq AssertInterrupt(b, i).status
           /\ WriteStatus(b, set) \in IntcState /\ WriteMask(b, set) \in IntcState
           /\ WriteStatus(b, set).status = b.status \cap set
           /\ WriteMask(b, set).status = b.status
BY DEF IntcState, AssertInterrupt, WriteStatus, WriteMask, Update

\* Wherever DICR is written, its interrupt bit is set only with the interrupt asserted, if
\* that was so before; or if the write clears the bit.
Signalled(d, b) == d.irq => "Dma" \in b.status

LEMMA UpdateInterruptsSignals ==
    ASSUME NEW d \in DicrState, UpdateInterrupts(d), dicr \in DicrState, intc \in IntcState
    PROVE  /\ dicr' \in DicrState /\ intc' \in IntcState /\ intc.status \subseteq intc'.status
           /\ Signalled(dicr, intc) => Signalled(dicr', intc')
<1>1. Irq(d) \in BOOLEAN
    BY DEF Irq, DicrState
<1>2. dicr' \in DicrState /\ (dicr'.irq <=> Irq(d))
    BY <1>1 DEF UpdateInterrupts, DicrState
<1>3. intc' \in IntcState /\ intc.status \subseteq intc'.status
    BY IntcType, DmacAssumption DEF UpdateInterrupts
<1>4. ~dicr.irq /\ Irq(d) => "Dma" \in intc'.status
    BY IntcType, DmacAssumption DEF UpdateInterrupts
<1> QED
    BY <1>2, <1>3, <1>4 DEF Signalled

LEMMA CompleteSignals ==
    ASSUME NEW channel \in Channel, Complete(channel), dicr \in DicrState, intc \in IntcState
    PROVE  /\ dicr' \in DicrState /\ intc' \in IntcState /\ pc' = "software" /\ dma' = NoDma
           /\ Signalled(dicr, intc) => Signalled(dicr', intc')
<1>1. CASE channel \in dicr.enable
    <2> DEFINE d == [dicr EXCEPT !.flag = @ \cup {channel}]
    <2>1. d \in DicrState
        BY DEF DicrState
    <2>2. UpdateInterrupts(d) /\ pc' = "software" /\ dma' = NoDma
        BY <1>1 DEF Complete
    <2> QED
        BY <2>1, <2>2, UpdateInterruptsSignals
<1>2. CASE channel \notin dicr.enable
    BY <1>2 DEF Complete, Signalled
<1> QED
    BY <1>1, <1>2

LEMMA WriteDicrSignals ==
    ASSUME NEW setting \in [force : BOOLEAN, enable : SUBSET Channel, master : BOOLEAN],
           NEW acknowledged \in SUBSET Channel,
           WriteDicr(setting, acknowledged), dicr \in DicrState, intc \in IntcState
    PROVE  /\ dicr' \in DicrState /\ intc' \in IntcState
           /\ Signalled(dicr, intc) => Signalled(dicr', intc')
<1> DEFINE d == [dicr EXCEPT !.force = setting.force, !.enable = setting.enable,
                             !.master = setting.master, !.flag = @ \ acknowledged]
<1>1. d \in DicrState
    BY DEF DicrState
<1>2. UpdateInterrupts(d)
    BY DEF WriteDicr
<1> QED
    BY <1>1, <1>2, UpdateInterruptsSignals

-----------------------------------------------------------------------------
(* The invariant.                                                           *)

MemoryOK == ram \in [0..(RamWords - 1) -> Memory]

Dma == [channel : Channel, addr : Address, words : Nat, step : {1, -1}, toRam : BOOLEAN,
        next : Address]

\* A transfer that goes on has a word left.
DmaOK ==
    /\ pc \in {"software", "otc", "block", "entry", "list"} /\ dma \in Dma
    /\ pc \in {"otc", "block"} => dma.words >= 1

SoftwareOK ==
    /\ handler \in {"no", "entered", "acknowledged"}
    /\ todo \in Seq(0..(RamWords - 1)) /\ toread \in Nat
    /\ table \in Seq(Table \cup DOMAIN Node)

InterruptOK == dicr \in DicrState /\ intc \in IntcState /\ SignalledUntilHandled

IInv ==
    Port(gpu) /\ MemoryOK /\ DmaOK /\ SoftwareOK /\ InterruptOK /\ failed \in BOOLEAN

LEMMA AddressFacts ==
    /\ AddressWords \in Nat \ {0} /\ RamWords \in Nat \ {0}
    /\ 0 \in Address /\ AddressWords - 1 \in Address
    /\ \A a \in 0..(RamWords - 1) : a \in Address
BY DmacAssumption DEF Address

\* The table has slots, and these are in memory.
LEMMA TableFacts ==
    /\ Cardinality(Table) \in Nat /\ Cardinality(Table) >= 1
    /\ \A a \in Table : a \in 0..(RamWords - 1)
    /\ Top \in Table
<1>1. PICK low \in 0..(RamWords - 1), high \in 0..(RamWords - 1) : low <= high /\ Table = low..high
    BY DmacAssumption
<1>2. low \in Int /\ high \in Int /\ RamWords \in Nat
    BY <1>1, DmacAssumption
<1>3. Cardinality(Table) = high - low + 1
    BY <1>1, <1>2, FS_Interval
<1>4. high \in Table /\ \A b \in Table : b <= high
    BY <1>1, <1>2
<1>5. Top \in Table
    BY <1>4 DEF Top
<1>6. \A a \in Table : a \in 0..(RamWords - 1)
    BY <1>1, <1>2
<1> QED
    BY <1>1, <1>2, <1>3, <1>5, <1>6

\* A cleared table is walked downwards, from its highest slot to its lowest.
Cleared == [i \in 1..Cardinality(Table) |-> Top + 1 - i]

LEMMA ClearedFacts ==
    /\ Cleared \in Seq(Table \cup DOMAIN Node) /\ Len(Cleared) = Cardinality(Table)
    /\ \A i \in 1..Cardinality(Table) : Cleared[i] \in Table /\ Cleared[i] = Top + 1 - i
    /\ Cardinality(Table) \in Nat /\ Cardinality(Table) >= 1 /\ Top \in Int
<1>1. PICK low \in 0..(RamWords - 1), high \in 0..(RamWords - 1) : low <= high /\ Table = low..high
    BY DmacAssumption
<1>2. low \in Int /\ high \in Int /\ RamWords \in Nat
    BY <1>1, DmacAssumption
<1>3. Cardinality(Table) = high - low + 1
    BY <1>1, <1>2, FS_Interval
<1>4. Top = high
    <2>1. \A a \in Table : (\A b \in Table : b <= a) <=> a = high
        BY <1>1, <1>2
    <2>2. high \in Table
        BY <1>1, <1>2
    <2> QED
        BY <2>1, <2>2 DEF Top
<1>5. \A i \in 1..Cardinality(Table) : Top + 1 - i \in Table
    BY <1>1, <1>2, <1>3, <1>4
<1>6. Cardinality(Table) \in Nat /\ Cardinality(Table) >= 1
    BY <1>1, <1>2, <1>3
<1> QED
    BY <1>2, <1>4, <1>5, <1>6 DEF Cleared

LEMMA MemoryTypes ==
    /\ Pixels \in Word
    /\ \A word \in Word : Data(word) \in Memory
    /\ \A count \in Nat, next \in Address : Entry(count, next) \in Memory
BY AddressFacts DEF Pixels, Word, Data, Entry, Memory

LEMMA WordInRam ==
    ASSUME MemoryOK, NEW addr \in Int
    PROVE  ram[InRam(addr)] \in Memory /\ ram[InRam(addr)].gp0 \in Word
<1>1. InRam(addr) \in 0..(RamWords - 1)
    BY WrapType, AddressFacts DEF InRam
<1> QED
    BY <1>1 DEF MemoryOK, Memory

LEMMA SendGp0Keeps ==
    ASSUME Port(gpu), failed \in BOOLEAN, NEW word \in Word, SendGp0(word)
    PROVE  Port(gpu') /\ failed' \in BOOLEAN
BY Gp0Keeps DEF SendGp0

LEMMA WriteRamKeeps ==
    ASSUME MemoryOK, NEW addr \in Int, NEW value \in Memory, WriteRam(addr, value)
    PROVE  MemoryOK' /\ failed' \in BOOLEAN
BY AddressFacts DEF MemoryOK, WriteRam

LEMMA NoDmaType == NoDma \in Dma
BY AddressFacts DEF NoDma, Dma, Channel

\* With the handler as it was, an interrupt that was signalled still is.
LEMMA StillSignalled ==
    ASSUME InterruptOK, UNCHANGED handler, dicr' \in DicrState, intc' \in IntcState,
           Signalled(dicr, intc) => Signalled(dicr', intc')
    PROVE  InterruptOK'
BY DEF InterruptOK, SignalledUntilHandled, Signalled

LEMMA CompleteKeeps ==
    ASSUME NEW channel \in Channel, Complete(channel), InterruptOK, UNCHANGED handler
    PROVE  InterruptOK' /\ DmaOK'
<1>1. /\ dicr' \in DicrState /\ intc' \in IntcState /\ pc' = "software" /\ dma' = NoDma
      /\ Signalled(dicr, intc) => Signalled(dicr', intc')
    BY CompleteSignals DEF InterruptOK
<1> QED
    BY <1>1, StillSignalled, NoDmaType DEF DmaOK

LEMMA NextWordKeeps ==
    ASSUME NextWord, pc = "block", DmaOK, InterruptOK, UNCHANGED handler
    PROVE  InterruptOK' /\ DmaOK'
<1>1. CASE dma.words = 1
    <2>1. Complete(dma.channel) /\ dma.channel \in Channel
        BY <1>1 DEF NextWord, DmaOK, Dma
    <2> QED
        BY <2>1, CompleteKeeps
<1>2. CASE dma.words # 1
    <2> DEFINE addr == (dma.addr + dma.step) % AddressWords
    <2>1. dma \in Dma /\ dma.addr \in Int /\ dma.step \in Int /\ dma.words \in Nat /\ dma.words >= 1
        BY DEF DmaOK, Dma, Address
    <2>2. addr \in Address
        <3>1. dma.addr + dma.step \in Int
            BY <2>1
        <3>2. addr \in 0..(AddressWords - 1)
            BY <3>1, WrapType, AddressFacts
        <3> QED
            BY <3>2 DEF Address
    <2>3. dma.words - 1 \in Nat /\ dma.words - 1 >= 1
        BY <1>2, <2>1
    <2> HIDE DEF addr
    <2>4. dma' = [dma EXCEPT !.addr = addr, !.words = dma.words - 1]
        BY <1>2, <2>1 DEF NextWord, addr, Dma
    <2>5. dma' \in Dma /\ dma'.words = dma.words - 1
        BY <2>1, <2>2, <2>3, <2>4 DEF Dma
    <2>6. UNCHANGED <<pc, dicr, intc>>
        BY <1>2 DEF NextWord
    <2> QED
        BY <2>3, <2>5, <2>6 DEF DmaOK, InterruptOK, SignalledUntilHandled
<1> QED
    BY <1>1, <1>2

-----------------------------------------------------------------------------
(* The initial states.                                                      *)

LEMMA StoredType == ASSUME NEW a \in 0..(RamWords - 1) PROVE Stored(a) \in Word
<1>1. CASE \E at \in DOMAIN Node : a - at \in DOMAIN Node[at].words
    <2> DEFINE at == CHOOSE at \in DOMAIN Node : a - at \in DOMAIN Node[at].words
    <2>1. at \in DOMAIN Node /\ a - at \in DOMAIN Node[at].words
        BY <1>1
    <2>2. Node[at].words \in Seq(Word)
        BY <2>1, DmacAssumption
    <2>3. Stored(a) = Node[at].words[a - at]
        BY <1>1 DEF Stored
    <2> HIDE DEF at
    <2> QED
        BY <2>1, <2>2, <2>3
<1>2. CASE /\ ~\E at \in DOMAIN Node : a - at \in DOMAIN Node[at].words
           /\ \E at \in DOMAIN Packet : \E i \in DOMAIN Packet[at].words : Place(at, i) = a
    <2> DEFINE at == CHOOSE at \in DOMAIN Packet : \E i \in DOMAIN Packet[at].words : Place(at, i) = a
    <2>1. at \in DOMAIN Packet /\ \E i \in DOMAIN Packet[at].words : Place(at, i) = a
        BY <1>2
    <2>2. Stored(a) = Packet[at].words[(a - at) * Packet[at].step + 1]
        BY <1>2 DEF Stored
    <2> HIDE DEF at
    <2>3. PICK i \in DOMAIN Packet[at].words : Place(at, i) = a
        BY <2>1
    <2>4. Packet[at].words \in Seq(Word) /\ Packet[at].step \in {1, -1}
        BY <2>1, DmacAssumption
    <2>5. i \in Nat
        BY <2>3, <2>4
    <2>6. a - at = (i - 1) * Packet[at].step
        <3>1. a = at + (i - 1) * Packet[at].step
            BY <2>3 DEF Place
        <3>2. at \in Int
            BY <2>1, DmacAssumption
        <3> QED
            BY <2>4, <2>5, <3>1, <3>2, SMTT(30)
    <2>7. (a - at) * Packet[at].step + 1 = i
        BY <2>4, <2>5, <2>6
    <2> QED
        BY <2>2, <2>3, <2>4, <2>7
<1>3. CASE /\ ~\E at \in DOMAIN Node : a - at \in DOMAIN Node[at].words
           /\ ~\E at \in DOMAIN Packet : \E i \in DOMAIN Packet[at].words : Place(at, i) = a
    BY <1>3, MemoryTypes DEF Stored
<1> QED
    BY <1>1, <1>2, <1>3

LEMMA InitEstablishes == Init => IInv
<1> SUFFICES ASSUME Init PROVE IInv
    OBVIOUS
<1>1. Port(gpu)
    <2>1. 0 \in 0..(VramWidth - 1) /\ 0 \in 0..(VramHeight - 1) /\ 1 \in 1..VramWidth /\ 1 \in 1..VramHeight
        BY GpuAssumption
    <2>2. << >> \in Seq(Word)
        OBVIOUS
    <2>3. BootGpu \in GpuState
        BY <2>1, <2>2 DEF BootGpu, GpuState
    <2> QED
        BY <2>3 DEF Init, Port, BootGpu, FifoCounts, InRasterOrder
<1>2. MemoryOK
    BY StoredType, MemoryTypes DEF Init, MemoryOK
<1>3. DmaOK
    BY NoDmaType DEF Init, DmaOK
<1>4. SoftwareOK
    BY DEF Init, SoftwareOK
<1>5. InterruptOK
    BY DEF Init, InterruptOK, SignalledUntilHandled, BootIntc, IntcState, DicrState
<1> QED
    BY <1>1, <1>2, <1>3, <1>4, <1>5 DEF IInv, Init

-----------------------------------------------------------------------------
(* The steps of a transfer.                                                 *)

LEMMA SoftwareWaits ==
    ASSUME SoftwareOK, UNCHANGED <<handler, todo, toread, table>>
    PROVE  SoftwareOK'
BY DEF SoftwareOK

LEMMA OtcStepKeeps == ASSUME IInv, OtcStep PROVE IInv'
<1> DEFINE below == (dma.addr - 1) % AddressWords
<1>1. dma \in Dma /\ dma.addr \in Int /\ dma.words \in Nat /\ dma.words >= 1 /\ pc = "otc"
    BY DEF IInv, DmaOK, OtcStep, Dma, Address
<1>2. below \in Address
    <2>1. dma.addr - 1 \in Int
        BY <1>1
    <2>2. below \in 0..(AddressWords - 1)
        BY <2>1, WrapType, AddressFacts
    <2> QED
        BY <2>2 DEF Address
<1>3. Entry(0, AddressWords - 1) \in Memory /\ Entry(0, below) \in Memory
    BY <1>2, MemoryTypes, AddressFacts
<1>4. SoftwareOK' /\ Port(gpu)' /\ UNCHANGED handler
    BY SoftwareWaits DEF IInv, OtcStep, software
<1>5. CASE dma.words = 1
    <2>1. WriteRam(dma.addr, Entry(0, AddressWords - 1)) /\ Complete("Otc")
        BY <1>5 DEF OtcStep
    <2>2. MemoryOK' /\ failed' \in BOOLEAN
        BY <1>1, <1>3, <2>1, WriteRamKeeps DEF IInv
    <2>3. InterruptOK' /\ DmaOK'
        BY <1>4, <2>1, CompleteKeeps DEF IInv, Channel
    <2> QED
        BY <1>4, <2>2, <2>3 DEF IInv
<1>6. CASE dma.words # 1
    <2>1. WriteRam(dma.addr, Entry(0, below)) /\ UNCHANGED <<pc, dicr, intc>>
        BY <1>6 DEF OtcStep
    <2>2. MemoryOK' /\ failed' \in BOOLEAN
        BY <1>1, <1>3, <2>1, WriteRamKeeps DEF IInv
    <2>3. dma.words - 1 \in Nat /\ dma.words - 1 >= 1
        BY <1>1, <1>6
    <2> HIDE DEF below
    <2>4. dma' = [dma EXCEPT !.addr = below, !.words = dma.words - 1]
        BY <1>1, <1>6 DEF OtcStep, below, Dma
    <2>5. dma' \in Dma /\ dma'.words = dma.words - 1
        BY <1>1, <1>2, <2>3, <2>4 DEF Dma
    <2>6. DmaOK' /\ InterruptOK'
        BY <1>1, <1>4, <2>1, <2>3, <2>5 DEF IInv, DmaOK, InterruptOK, SignalledUntilHandled
    <2> QED
        BY <1>4, <2>2, <2>6 DEF IInv
<1> QED
    BY <1>5, <1>6

LEMMA BlockStepKeeps ==
    ASSUME IInv, BlockToGpu \/ BlockFromGpu \/ BlockOther
    PROVE  IInv'
<1>1. NextWord /\ pc = "block" /\ UNCHANGED handler /\ SoftwareOK'
    BY SoftwareWaits DEF IInv, BlockToGpu, BlockFromGpu, BlockOther, software
<1>2. InterruptOK' /\ DmaOK'
    BY <1>1, NextWordKeeps DEF IInv
<1>3. dma.addr \in Int
    BY DEF IInv, DmaOK, Dma, Address
<1>4. CASE BlockToGpu
    <2>1. ram[InRam(dma.addr)].gp0 \in Word
        BY <1>3, WordInRam DEF IInv
    <2>2. Port(gpu') /\ failed' \in BOOLEAN
        BY <1>4, <2>1, SendGp0Keeps DEF IInv, BlockToGpu
    <2>3. MemoryOK'
        BY <1>4 DEF IInv, BlockToGpu, MemoryOK
    <2> QED
        BY <1>1, <1>2, <2>2, <2>3 DEF IInv
<1>5. CASE BlockFromGpu
    <2>1. Port(gpu') /\ failed' \in BOOLEAN
        BY <1>5, GpuReadKeeps DEF IInv, BlockFromGpu
    <2>2. MemoryOK'
        BY <1>5, MemoryTypes DEF IInv, BlockFromGpu, MemoryOK
    <2> QED
        BY <1>1, <1>2, <2>1, <2>2 DEF IInv
<1>6. CASE BlockOther
    <2>1. Port(gpu')
        BY <1>6 DEF IInv, BlockOther
    <2>2. MemoryOK' /\ failed' \in BOOLEAN
        <3>1. CASE dma.channel = "Cdrom"
            <4>1. WriteRam(dma.addr, Data(Pixels)) /\ Data(Pixels) \in Memory
                BY <1>6, <3>1, MemoryTypes DEF BlockOther
            <4> QED
                BY <1>3, <4>1, WriteRamKeeps DEF IInv
        <3>2. CASE dma.channel # "Cdrom"
            BY <1>6, <3>2 DEF BlockOther, IInv, MemoryOK
        <3> QED
            BY <3>1, <3>2
    <2> QED
        BY <1>1, <1>2, <2>1, <2>2 DEF IInv
<1> QED
    BY <1>4, <1>5, <1>6

LEMMA ListStepKeeps ==
    ASSUME IInv, ListEntry \/ ListWord \/ ListNext
    PROVE  IInv'
<1>1. UNCHANGED handler /\ SoftwareOK' /\ MemoryOK'
    BY SoftwareWaits DEF IInv, ListEntry, ListWord, ListNext, software, MemoryOK
<1>2. dma \in Dma /\ dma.addr \in Int /\ dma.words \in Nat /\ dma.next \in Address
    BY DEF IInv, DmaOK, Dma, Address
<1>3. CASE ListEntry
    <2> DEFINE entry == ram[InRam(dma.addr)]
    <2>1. entry \in Memory
        BY <1>2, WordInRam DEF IInv
    <2>2. entry.count \in Nat /\ entry.next \in Address
        BY <2>1 DEF Memory
    <2>3. dma' = [dma EXCEPT !.words = entry.count, !.next = entry.next]
        BY <1>3 DEF ListEntry
    <2> HIDE DEF entry
    <2>4. dma' \in Dma
        BY <1>2, <2>2, <2>3 DEF Dma
    <2> QED
        BY <1>1, <1>3, <2>4 DEF IInv, ListEntry, DmaOK, InterruptOK, SignalledUntilHandled
<1>4. CASE ListWord
    <2> DEFINE addr == (dma.addr + 1) % AddressWords
    <2>1. dma.addr + 1 \in Int
        BY <1>2
    <2>2. addr \in Address
        <3>1. addr \in 0..(AddressWords - 1)
            BY <2>1, WrapType, AddressFacts
        <3> QED
            BY <3>1 DEF Address
    <2>3. ram[InRam(dma.addr + 1)].gp0 \in Word
        BY <2>1, WordInRam DEF IInv
    <2>4. Port(gpu') /\ failed' \in BOOLEAN
        BY <1>4, <2>3, SendGp0Keeps DEF IInv, ListWord
    <2>5. dma.words - 1 \in Nat
        BY <1>2, <1>4 DEF ListWord
    <2> HIDE DEF addr
    <2>6. dma' = [dma EXCEPT !.addr = addr, !.words = dma.words - 1]
        BY <1>2, <1>4 DEF ListWord, addr, Dma
    <2>7. dma' \in Dma
        BY <1>2, <2>2, <2>5, <2>6 DEF Dma
    <2> QED
        BY <1>1, <1>4, <2>4, <2>7 DEF IInv, ListWord, DmaOK, InterruptOK, SignalledUntilHandled
<1>5. CASE ListNext
    <2>1. Port(gpu') /\ failed' \in BOOLEAN
        BY <1>5 DEF IInv, ListNext
    <2>2. CASE IsLast(dma.next)
        <3>1. Complete("Gpu")
            BY <1>5, <2>2 DEF ListNext
        <3>2. InterruptOK' /\ DmaOK'
            BY <1>1, <3>1, CompleteKeeps DEF IInv, Channel
        <3> QED
            BY <1>1, <2>1, <3>2 DEF IInv
    <2>3. CASE ~IsLast(dma.next)
        <3>1. pc' = "entry" /\ dma' = [dma EXCEPT !.addr = dma.next] /\ UNCHANGED <<dicr, intc>>
            BY <1>5, <2>3 DEF ListNext
        <3>2. dma' \in Dma
            BY <1>2, <3>1 DEF Dma
        <3> QED
            BY <1>1, <2>1, <3>1, <3>2 DEF IInv, DmaOK, InterruptOK, SignalledUntilHandled
    <2> QED
        BY <2>2, <2>3
<1> QED
    BY <1>3, <1>4, <1>5

-----------------------------------------------------------------------------
(* The steps of software.                                                   *)

\* What a block transfer begins with.
LEMMA BlockType ==
    ASSUME NEW channel \in Channel, NEW addr \in Address, NEW words \in Nat, words >= 1,
           NEW step \in {1, -1}, NEW toRam \in BOOLEAN, Block(channel, addr, words, step, toRam)
    PROVE  DmaOK'
BY AddressFacts DEF Block, DmaOK, Dma

\* Software that only sends, reads or gives up.
LEMMA SendStepKeeps ==
    ASSUME IInv, TakePacket \/ WriteGp0 \/ ReadGpu \/ GiveUp
    PROVE  IInv'
<1>1. /\ UNCHANGED <<intc, dicr, ram, pc, dma, handler, table>>
      /\ failed' \in BOOLEAN \/ WriteGp0
    BY DEF IInv, TakePacket, WriteGp0, ReadGpu, GiveUp
<1>2. MemoryOK' /\ DmaOK' /\ InterruptOK'
    BY <1>1 DEF IInv, MemoryOK, DmaOK, InterruptOK, SignalledUntilHandled
<1>3. CASE TakePacket
    <2>1. PICK at \in DOMAIN Packet :
            /\ todo' = [i \in DOMAIN Packet[at].words |-> Place(at, i)]
            /\ toread' = Packet[at].reads
        BY <1>3 DEF TakePacket
    <2>2. /\ Packet[at].words \in Seq(Word) /\ Packet[at].reads \in Nat
          /\ \A i \in DOMAIN Packet[at].words : Place(at, i) \in 0..(RamWords - 1)
        BY DmacAssumption
    <2>3. DOMAIN Packet[at].words = 1..Len(Packet[at].words) /\ Len(Packet[at].words) \in Nat
        BY <2>2
    <2>4. todo' \in Seq(0..(RamWords - 1))
        BY <2>1, <2>2, <2>3
    <2>5. SoftwareOK'
        BY <1>1, <2>1, <2>2, <2>4 DEF IInv, SoftwareOK
    <2> QED
        BY <1>1, <1>2, <1>3, <2>5 DEF IInv, TakePacket
<1>4. CASE WriteGp0
    <2>1. todo \in Seq(0..(RamWords - 1)) /\ todo # << >>
        BY <1>4 DEF IInv, SoftwareOK, WriteGp0
    <2>2. Head(todo) \in 0..(RamWords - 1) /\ Tail(todo) \in Seq(0..(RamWords - 1))
        BY <2>1, TailFacts
    <2>3. ram[Head(todo)].gp0 \in Word
        BY <2>2 DEF IInv, MemoryOK, Memory
    <2>4. Port(gpu') /\ failed' \in BOOLEAN
        BY <1>4, <2>3, SendGp0Keeps DEF IInv, WriteGp0
    <2>5. SoftwareOK'
        BY <1>4, <2>2 DEF IInv, SoftwareOK, WriteGp0
    <2> QED
        BY <1>2, <2>4, <2>5 DEF IInv
<1>5. CASE ReadGpu
    <2>1. Port(gpu') /\ failed' \in BOOLEAN
        BY <1>5, GpuReadKeeps DEF IInv, ReadGpu
    <2>2. SoftwareOK'
        BY <1>5 DEF IInv, SoftwareOK, ReadGpu
    <2> QED
        BY <1>2, <2>1, <2>2 DEF IInv
<1>6. CASE GiveUp
    <2>1. Port(gpu') /\ failed' \in BOOLEAN
        BY <1>6, ResetKeeps DEF IInv, GiveUp
    <2>2. << >> \in Seq(0..(RamWords - 1)) /\ 0 \in Nat
        OBVIOUS
    <2>3. SoftwareOK'
        BY <1>6, <2>2 DEF IInv, SoftwareOK, GiveUp
    <2> QED
        BY <1>2, <2>1, <2>3 DEF IInv
<1> QED
    BY <1>3, <1>4, <1>5, <1>6

\* Software that starts a transfer.
LEMMA StartStepKeeps ==
    ASSUME IInv, SendBlock \/ ReadBlock \/ StartOther \/ ClearTable \/ SendTable
    PROVE  IInv'
<1>1. UNCHANGED <<gpu, failed, handler>>
    BY DEF SendBlock, ReadBlock, StartOther, ClearTable, SendTable, software
<1>2. CASE SendBlock
    <2>1. todo \in Seq(0..(RamWords - 1)) /\ todo # << >>
        BY <1>2 DEF IInv, SoftwareOK, SendBlock
    <2>2. Head(todo) \in 0..(RamWords - 1) /\ Len(todo) \in Nat /\ Len(todo) >= 1
        BY <2>1, TailFacts
    <2> DEFINE step == IF Last(todo) < Head(todo) THEN -1 ELSE 1
    <2>3. Head(todo) \in Address /\ step \in {1, -1} /\ "Gpu" \in Channel
        BY <2>2, AddressFacts DEF Channel
    <2>4. Block("Gpu", Head(todo), Len(todo), step, FALSE)
        BY <1>2 DEF SendBlock
    <2> HIDE DEF step
    <2>5. DmaOK'
        BY <2>2, <2>3, <2>4, BlockType
    <2>6. << >> \in Seq(0..(RamWords - 1))
        OBVIOUS
    <2> QED
        BY <1>1, <1>2, <2>5, <2>6
        DEF IInv, SendBlock, MemoryOK, SoftwareOK, InterruptOK, SignalledUntilHandled
<1>3. CASE ReadBlock
    <2>1. toread \in Nat /\ toread > 0 /\ Block("Gpu", Buffer, toread, 1, TRUE)
        BY <1>3 DEF IInv, SoftwareOK, ReadBlock
    <2>2. DmaOK'
        <3>1. toread >= 1 /\ 1 \in {1, -1} /\ TRUE \in BOOLEAN /\ "Gpu" \in Channel
            BY <2>1 DEF Channel
        <3>2. Buffer \in Address
            BY DmacAssumption
        <3> QED
            BY <2>1, <3>1, <3>2, BlockType
    <2> QED
        BY <1>1, <1>3, <2>2
        DEF IInv, ReadBlock, MemoryOK, SoftwareOK, InterruptOK, SignalledUntilHandled
<1>4. CASE StartOther
    <2>1. MemoryOK' /\ SoftwareOK'
        BY <1>4 DEF IInv, StartOther, MemoryOK, SoftwareOK, software
    <2>2. CASE Complete("MdecIn")
        <3>1. InterruptOK' /\ DmaOK'
            BY <1>1, <2>2, CompleteKeeps DEF IInv, Channel
        <3> QED
            BY <1>1, <2>1, <3>1 DEF IInv
    <2>3. CASE \E channel \in {"Cdrom", "Spu"} :
                 Block(channel, Buffer, 2, 1, channel = "Cdrom") /\ UNCHANGED <<dicr, intc>>
        <3>1. PICK channel \in {"Cdrom", "Spu"} :
                Block(channel, Buffer, 2, 1, channel = "Cdrom") /\ UNCHANGED <<dicr, intc>>
            BY <2>3
        <3> DEFINE toRam == channel = "Cdrom"
        <3>2. /\ channel \in Channel /\ toRam \in BOOLEAN /\ Buffer \in Address
              /\ 2 \in Nat /\ 2 >= 1 /\ 1 \in {1, -1}
            BY DmacAssumption DEF Channel
        <3>3. DmaOK'
            <4>1. Block(channel, Buffer, 2, 1, toRam)
                BY <3>1
            <4> HIDE DEF toRam
            <4> QED
                BY <3>2, <4>1, BlockType
        <3> QED
            BY <1>1, <2>1, <3>1, <3>3 DEF IInv, InterruptOK, SignalledUntilHandled
    <2> QED
        BY <1>4, <2>2, <2>3 DEF StartOther
<1>5. CASE ClearTable
    <2>1. Cardinality(Table) \in Nat /\ Cardinality(Table) >= 1 /\ Top \in Address
        BY TableFacts, AddressFacts
    <2>2. dma' = [NoDma EXCEPT !.channel = "Otc", !.addr = Top, !.words = Cardinality(Table)]
          /\ pc' = "otc"
        BY <1>5 DEF ClearTable
    <2>3. dma' \in Dma /\ dma'.words = Cardinality(Table)
        BY <2>1, <2>2, NoDmaType DEF Dma, Channel
    <2>4. DmaOK'
        BY <2>1, <2>2, <2>3 DEF DmaOK
    <2>5. MemoryOK'
        BY <1>5, MemoryTypes DEF IInv, MemoryOK, ClearTable
    <2>6. Cleared \in Seq(Table \cup DOMAIN Node)
        BY ClearedFacts
    <2>7. SoftwareOK'
        BY <1>5, <2>6 DEF IInv, SoftwareOK, ClearTable, Cleared
    <2> QED
        BY <1>1, <1>5, <2>4, <2>5, <2>7 DEF IInv, ClearTable, InterruptOK, SignalledUntilHandled
<1>6. CASE SendTable
    <2>1. dma' \in Dma /\ pc' = "entry"
        BY <1>6, TableFacts, AddressFacts, NoDmaType DEF SendTable, Dma
    <2>2. DmaOK'
        BY <2>1 DEF DmaOK
    <2> QED
        BY <1>1, <1>6, <2>2
        DEF IInv, SendTable, MemoryOK, SoftwareOK, InterruptOK, SignalledUntilHandled
<1> QED
    BY <1>2, <1>3, <1>4, <1>5, <1>6

\* A packet is put behind the i-th entry of the table.
LEMMA AddPacketTypes ==
    ASSUME IInv, NEW i \in DOMAIN table, NEW at \in DOMAIN Node
    PROVE  /\ table[i] \in 0..(RamWords - 1) /\ at \in 0..(RamWords - 1) /\ at \in Address
           /\ ram[table[i]] \in Memory /\ Entry(Len(Node[at].words), ram[table[i]].next) \in Memory
<1>1. table[i] \in Table \cup DOMAIN Node
    BY DEF IInv, SoftwareOK
<1>2. /\ table[i] \in 0..(RamWords - 1) /\ at \in 0..(RamWords - 1) /\ at \in Address
      /\ Node[at].words \in Seq(Word)
    BY <1>1, TableFacts, AddressFacts, DmacAssumption
<1>3. ram[table[i]] \in Memory
    BY <1>2 DEF IInv, MemoryOK
<1>4. Len(Node[at].words) \in Nat /\ ram[table[i]].next \in Address
    BY <1>2, <1>3 DEF Memory
<1> QED
    BY <1>2, <1>3, <1>4, MemoryTypes

LEMMA AddPacketKeeps == ASSUME IInv, AddPacket PROVE IInv'
<1>1. PICK i \in DOMAIN table, at \in DOMAIN Node :
        /\ ram' = [a \in DOMAIN ram |->
                     IF a = table[i] THEN [ram[a] EXCEPT !.next = at]
                     ELSE IF a = at THEN Entry(Len(Node[at].words), ram[table[i]].next)
                     ELSE ram[a]]
        /\ table' = InsertAt(table, i + 1, at)
    BY DEF AddPacket
<1>2. /\ table[i] \in 0..(RamWords - 1) /\ at \in Address
      /\ ram[table[i]] \in Memory /\ Entry(Len(Node[at].words), ram[table[i]].next) \in Memory
    BY AddPacketTypes
<1>3. \A a \in 0..(RamWords - 1) : [ram[a] EXCEPT !.next = at] \in Memory
    BY <1>2 DEF IInv, MemoryOK, Memory
<1>4. MemoryOK'
    BY <1>1, <1>2, <1>3 DEF IInv, MemoryOK
<1>5. table' \in Seq(Table \cup DOMAIN Node)
    BY <1>1, InsertAtFacts DEF IInv, SoftwareOK
<1>6. SoftwareOK'
    BY <1>5 DEF IInv, SoftwareOK, AddPacket
<1> QED
    BY <1>4, <1>6 DEF IInv, AddPacket, DmaOK, InterruptOK, SignalledUntilHandled

\* What touches only the interrupt.
LEMMA InterruptStepKeeps ==
    ASSUME IInv, SetDicr \/ SetMask \/ OtherInterrupt \/ Handler
    PROVE  IInv'
<1>1. /\ UNCHANGED <<gpu, ram, pc, failed, dma, todo, toread, table>>
      /\ handler' \in {"no", "entered", "acknowledged"}
    BY DEF IInv, SoftwareOK, SetDicr, SetMask, OtherInterrupt, Handler, EnterHandler,
           AcknowledgeStatus, AcknowledgeDicr, software
<1>2. Port(gpu)' /\ MemoryOK' /\ DmaOK' /\ SoftwareOK' /\ failed' \in BOOLEAN
    BY <1>1 DEF IInv, MemoryOK, DmaOK, SoftwareOK
<1>3. dicr \in DicrState /\ intc \in IntcState
    BY DEF IInv, InterruptOK
<1>4. ASSUME SetDicr PROVE InterruptOK'
    <2>1. PICK setting \in DicrSetting : WriteDicr(setting, {})
        BY <1>4 DEF SetDicr
    <2>2. setting \in [force : BOOLEAN, enable : SUBSET Channel, master : BOOLEAN]
        BY DmacAssumption
    <2>3. UNCHANGED handler
        BY <1>4 DEF SetDicr, software
    <2> QED
        BY <1>3, <2>1, <2>2, <2>3, WriteDicrSignals, StillSignalled DEF IInv
<1>5. ASSUME SetMask PROVE InterruptOK'
    <2>1. PICK mask \in {{}, Interrupt} : intc' = WriteMask(intc, mask)
        BY <1>5 DEF SetMask
    <2>2. mask \in SUBSET Interrupt
        OBVIOUS
    <2>3. intc' \in IntcState /\ intc'.status = intc.status
        BY <1>3, <2>1, <2>2, IntcType, DmacAssumption
    <2> QED
        BY <1>3, <1>5, <2>3 DEF IInv, InterruptOK, SignalledUntilHandled, SetMask, software
<1>6. ASSUME OtherInterrupt PROVE InterruptOK'
    <2>1. PICK i \in Interrupt : intc' = AssertInterrupt(intc, i)
        BY <1>6 DEF OtherInterrupt
    <2>2. intc' \in IntcState /\ intc.status \subseteq intc'.status
        BY <1>3, <2>1, IntcType
    <2> QED
        BY <1>3, <1>6, <2>2 DEF IInv, InterruptOK, SignalledUntilHandled, OtherInterrupt, software
<1>7. ASSUME EnterHandler PROVE InterruptOK'
    BY <1>7 DEF IInv, InterruptOK, SignalledUntilHandled, EnterHandler, Running
<1>8. ASSUME AcknowledgeStatus PROVE InterruptOK'
    <2> DEFINE seen == intc.status \cap intc.mask
    <2>1. /\ intc' = WriteStatus(intc, Interrupt \ seen)
          /\ handler' = IF "Dma" \in seen THEN "acknowledged" ELSE "no"
          /\ dicr' = dicr /\ handler = "entered"
        BY <1>8 DEF AcknowledgeStatus
    <2>2. Interrupt \ seen \in SUBSET Interrupt
        OBVIOUS
    <2>3. intc' \in IntcState /\ intc'.status = intc.status \cap (Interrupt \ seen)
        BY <1>3, <2>1, <2>2, IntcType, DmacAssumption
    <2>4. dicr.irq /\ "Dma" \notin seen => "Dma" \in intc'.status
        BY <2>1, <2>3, DmacAssumption DEF IInv, InterruptOK, SignalledUntilHandled
    <2> QED
        BY <1>3, <2>1, <2>3, <2>4 DEF InterruptOK, SignalledUntilHandled
<1>9. ASSUME AcknowledgeDicr PROVE InterruptOK'
    <2> DEFINE setting == [force |-> FALSE, enable |-> dicr.enable, master |-> dicr.master]
               d == [dicr EXCEPT !.force = FALSE, !.enable = dicr.enable, !.master = dicr.master,
                                 !.flag = {}]
    <2>1. WriteDicr(setting, dicr.flag)
        BY <1>9 DEF AcknowledgeDicr
    <2>2. UpdateInterrupts(d)
        BY <1>3, <2>1 DEF WriteDicr, DicrState
    <2>3. d \in DicrState /\ ~Irq(d)
        BY <1>3 DEF DicrState, Irq
    <2>4. dicr' \in DicrState /\ intc' \in IntcState
        BY <1>3, <2>2, <2>3, UpdateInterruptsSignals
    <2>5. ~dicr'.irq
        BY <2>2, <2>3 DEF UpdateInterrupts, DicrState
    <2> QED
        BY <2>4, <2>5 DEF InterruptOK, SignalledUntilHandled
<1>10. InterruptOK'
    BY <1>4, <1>5, <1>6, <1>7, <1>8, <1>9 DEF Handler
<1> QED
    BY <1>2, <1>10 DEF IInv

LEMMA StepKeeps == IInv /\ [Next]_vars => IInv'
<1> SUFFICES ASSUME IInv, [Next]_vars PROVE IInv'
    OBVIOUS
<1>1. CASE UNCHANGED vars
    BY <1>1 DEF vars, IInv, MemoryOK, DmaOK, SoftwareOK, InterruptOK, SignalledUntilHandled
<1>2. CASE DmaStep
    BY <1>2, OtcStepKeeps, BlockStepKeeps, ListStepKeeps DEF DmaStep
<1>3. CASE Software
    BY <1>3, SendStepKeeps, StartStepKeeps, AddPacketKeeps, InterruptStepKeeps DEF Software
<1>4. CASE OtherInterrupt \/ Handler
    BY <1>4, InterruptStepKeeps
<1> QED
    BY <1>1, <1>2, <1>3, <1>4 DEF Next

-----------------------------------------------------------------------------
(* What is on its way to the port, in each loop.                            *)

\* The words at some addresses, those from an address on, those of a block, and those of an
\* entry of a list.
WordsAt(addresses) == [i \in DOMAIN addresses |-> Stored(addresses[i])]
WordsFrom(addr, n, step) == [i \in 1..n |-> Stored(addr + (i - 1) * step)]
BlockWords(d) == WordsFrom(d.addr, d.words, d.step)
ListWords(d) == WordsFrom(d.addr + 1, d.words, 1)

\* What is left of a packet.
PartOfPacket(addresses) ==
    addresses # << >> =>
        \E at \in DOMAIN Packet : \E n \in 0..Len(Packet[at].words) :
            /\ n + Len(addresses) = Len(Packet[at].words)
            /\ \A i \in DOMAIN addresses : addresses[i] = Place(at, n + i)

PartOfReads(reads) == reads # 0 => \E at \in DOMAIN Packet : reads <= Packet[at].reads

\* The words of the packets are where they were put.
StoredOK == \A a \in Fixed : ram[a].gp0 = Stored(a)

\* How the entries of a table are linked: all of them, unless it is being cleared.
Count(a) == IF a \in DOMAIN Node THEN Len(Node[a].words) ELSE 0
After(entries, i) == IF i < Len(entries) THEN entries[i + 1] ELSE AddressWords - 1
Built == IF pc = "otc" THEN Cardinality(Table) - dma.words ELSE Len(table)

TableOK ==
    /\ table # << >> => table[1] = Top
    /\ \A i, j \in DOMAIN table : table[i] = table[j] => i = j
    /\ pc = "otc" => /\ table = Cleared /\ dma.words <= Cardinality(Table)
                     /\ dma.addr = Top - Cardinality(Table) + dma.words
    /\ \A i \in DOMAIN table : i <= Built =>
         ram[table[i]].count = Count(table[i]) /\ ram[table[i]].next = After(table, i)

\* The commands of a table from its i-th entry on.
LaterLists(entries, i) == [j \in 1..(Len(entries) + 1 - i) |-> Commands(entries[i + j - 1])]
Later(entries, i) == FlattenSeq(LaterLists(entries, i))

\* How far software is, while no transfer sends or reads for it, ...
SoftwareSends ==
    pc \in {"software", "otc"} \/ (pc = "block" /\ dma.channel # "Gpu") =>
        /\ PartOfPacket(todo) /\ PartOfReads(toread)
        /\ InFrame(gpu, WordsAt(todo), due, toread)

\* ... a block from memory, ...
BlockSends ==
    pc = "block" /\ dma.channel = "Gpu" /\ ~dma.toRam =>
        /\ todo = << >> /\ PartOfReads(toread) /\ InFrame(gpu, BlockWords(dma), due, toread)
        /\ \A i \in 1..dma.words : dma.addr + (i - 1) * dma.step \in Fixed

\* ... a block to memory, ...
BlockReads ==
    pc = "block" /\ dma.channel = "Gpu" /\ dma.toRam =>
        todo = << >> /\ toread = 0 /\ InFrame(gpu, << >>, due, dma.words)

BlockStays ==
    pc = "block" /\ dma.channel # "Spu" /\ (dma.channel = "Gpu" => dma.toRam) =>
        dma.step = 1 /\ \A i \in 0..(dma.words - 1) : dma.addr + i \in BufferWords

\* ... and the walk of a table, between two entries and in one.
Walks ==
    pc = "entry" =>
        /\ todo = << >> /\ toread = 0 /\ Idle(gpu)
        /\ \E i \in DOMAIN table : dma.addr = table[i] /\ due = Later(table, i)

ListSends ==
    pc = "list" =>
        /\ todo = << >> /\ toread = 0
        /\ \E i \in DOMAIN table :
             /\ dma.next = After(table, i)
             /\ dma.words <= Count(table[i]) /\ dma.addr + dma.words = table[i] + Count(table[i])
             /\ \E own \in Seq(Command) :
                  due = own \o Later(table, i + 1) /\ InFrame(gpu, ListWords(dma), own, 0)

FrameInv ==
    /\ ~failed /\ StoredOK /\ TableOK
    /\ SoftwareSends /\ BlockSends /\ BlockReads /\ BlockStays /\ Walks /\ ListSends

\* Nothing that is written to in memory is where words of packets are.
LEMMA FixedFacts ==
    /\ Fixed \subseteq 0..(RamWords - 1) /\ BufferWords \subseteq 0..(RamWords - 1)
    /\ \A a \in Fixed : a \in Int /\ InRam(a) = a /\ a \notin Table \cup DOMAIN Node /\ a \notin BufferWords
    /\ \A a \in BufferWords : a \in Int /\ InRam(a) = a /\ a < RamWords /\ a \notin Table \cup DOMAIN Node
    /\ \A a \in Table : a \in Int /\ InRam(a) = a /\ a < RamWords /\ a \notin DOMAIN Node
    /\ \A a \in DOMAIN Node : a \in Int /\ InRam(a) = a
<1>1. PacketWords \subseteq 0..(RamWords - 1)
    BY DmacAssumption DEF PacketWords
<1>2. Fixed \subseteq 0..(RamWords - 1) /\ BufferWords \subseteq 0..(RamWords - 1)
    BY <1>1, LayoutAssumption DEF Fixed
<1>3. RamWords \in Nat \ {0}
    BY DmacAssumption
<1>4. \A a \in 0..(RamWords - 1) : a \in Int /\ InRam(a) = a /\ a < RamWords
    BY <1>3 DEF InRam
<1>5. (\A a \in Table : a \in 0..(RamWords - 1)) /\ (\A a \in DOMAIN Node : a \in 0..(RamWords - 1))
    BY TableFacts, DmacAssumption
<1>6. /\ \A a \in Fixed : a \notin Table \cup DOMAIN Node /\ a \notin BufferWords
      /\ \A a \in BufferWords : a \notin Table \cup DOMAIN Node
      /\ \A a \in Table : a \notin DOMAIN Node
    BY LayoutAssumption
<1> QED
    BY <1>2, <1>4, <1>5, <1>6

\* What the words of the packets are, and where.
LEMMA PacketFacts ==
    ASSUME NEW at \in DOMAIN Packet
    PROVE  /\ Packet[at].words \in Seq(Word) /\ Packet[at].commands \in Seq(Command)
           /\ Len(Packet[at].words) \in Nat /\ at \in Int
           /\ Packet[at].reads \in Nat /\ Packet[at].step \in {1, -1}
           /\ Framed(Packet[at].words, 1, Packet[at].commands) /\ StoresLast(Packet[at].commands)
           /\ Packet[at].reads =
                IF EndsInStore(Packet[at].commands) THEN PicturePairs(Last(Packet[at].words)) ELSE 0
           /\ \A i \in 1..Len(Packet[at].words) :
                /\ Place(at, i) \in Fixed /\ Stored(Place(at, i)) = Packet[at].words[i]
                /\ Place(at, i) = at + (i - 1) * Packet[at].step
<1>1. /\ Packet[at].words \in Seq(Word) /\ Packet[at].reads \in Nat /\ Packet[at].step \in {1, -1}
      /\ at \in Int
    BY DmacAssumption
<1>2. /\ Packet[at].commands \in Seq(Command)
      /\ Framed(Packet[at].words, 1, Packet[at].commands) /\ StoresLast(Packet[at].commands)
      /\ Packet[at].reads =
           IF EndsInStore(Packet[at].commands) THEN PicturePairs(Last(Packet[at].words)) ELSE 0
    BY PacketAssumption
<1>3. DOMAIN Packet[at].words = 1..Len(Packet[at].words) /\ Len(Packet[at].words) \in Nat
    BY <1>1
<1>4. \A i \in DOMAIN Packet[at].words : Place(at, i) \in PacketWords
    BY DEF PacketWords
<1>5. \A i \in DOMAIN Packet[at].words : Stored(Place(at, i)) = Packet[at].words[i]
    BY LayoutAssumption
<1>6. \A i \in 1..Len(Packet[at].words) :
        /\ Place(at, i) \in Fixed /\ Stored(Place(at, i)) = Packet[at].words[i]
        /\ Place(at, i) = at + (i - 1) * Packet[at].step
    BY <1>3, <1>4, <1>5 DEF Fixed, Place
<1> QED
    BY <1>1, <1>2, <1>3, <1>6

\* The same, for the packets of the table.
LEMMA NodeFacts ==
    ASSUME NEW at \in DOMAIN Node
    PROVE  /\ Node[at].words \in Seq(Word) /\ Node[at].commands \in Seq(Command)
           /\ Len(Node[at].words) \in Nat /\ at \in Int
           /\ Framed(Node[at].words, 1, Node[at].commands)
           /\ StoresLast(Node[at].commands) /\ ~EndsInStore(Node[at].commands)
           /\ \A k \in 1..Len(Node[at].words) :
                at + k \in Fixed /\ Stored(at + k) = Node[at].words[k]
<1>1. Node[at].words \in Seq(Word) /\ at \in Int
    BY DmacAssumption
<1>2. /\ Node[at].commands \in Seq(Command) /\ Framed(Node[at].words, 1, Node[at].commands)
      /\ \A j \in DOMAIN Node[at].commands : Node[at].commands[j] # "Store"
    BY PacketAssumption
<1>3. DOMAIN Node[at].words = 1..Len(Node[at].words) /\ Len(Node[at].words) \in Nat
    BY <1>1
<1>4. \A k \in DOMAIN Node[at].words : at + k \in NodeWords /\ Stored(at + k) = Node[at].words[k]
    <2>1. \A k \in DOMAIN Node[at].words : at + k \in NodeWords
        BY DEF NodeWords
    <2> QED
        BY <2>1, LayoutAssumption
<1>5. \A k \in 1..Len(Node[at].words) : at + k \in Fixed /\ Stored(at + k) = Node[at].words[k]
    BY <1>3, <1>4 DEF Fixed
<1>6. StoresLast(Node[at].commands)
    BY <1>2 DEF StoresLast
<1>7. ~EndsInStore(Node[at].commands)
    <2> SUFFICES ASSUME Node[at].commands # << >> PROVE Last(Node[at].commands) # "Store"
        BY DEF EndsInStore
    <2>1. Len(Node[at].commands) \in DOMAIN Node[at].commands
        BY <1>2
    <2> QED
        BY <1>2, <2>1 DEF Last
<1> QED
    BY <1>1, <1>2, <1>3, <1>5, <1>6, <1>7

\* Slots have no commands and no words.
LEMMA CommandsType == ASSUME NEW a PROVE Commands(a) \in Seq(Command) /\ Count(a) \in Nat
<1>1. << >> \in Seq(Command)
    OBVIOUS
<1> QED
    BY <1>1, NodeFacts DEF Commands, Count

\* The commands from an entry on are its own, and those from the next on.
LEMMA LaterFacts ==
    ASSUME NEW S, NEW entries \in Seq(S), NEW i \in 1..(Len(entries) + 1)
    PROVE  /\ Later(entries, i) \in Seq(Command)
           /\ i = Len(entries) + 1 => Later(entries, i) = << >>
           /\ i <= Len(entries) =>
                Later(entries, i) = Commands(entries[i]) \o Later(entries, i + 1)
<1> DEFINE s == LaterLists(entries, i)
<1>1. Len(entries) \in Nat /\ i \in Nat /\ Len(entries) + 1 - i \in Nat
    OBVIOUS
<1>2. s \in Seq(Seq(Command)) /\ Len(s) = Len(entries) + 1 - i
    BY <1>1, CommandsType DEF LaterLists
<1>3. /\ Later(entries, i) \in Seq(Command)
      /\ s = << >> => Later(entries, i) = << >>
      /\ s # << >> => Later(entries, i) = s[1] \o FlattenSeq(Tail(s))
    BY <1>2, FlattenFirst DEF Later
<1>4. i = Len(entries) + 1 => s = << >>
    <2>1. i = Len(entries) + 1 => Len(s) = 0
        BY <1>1, <1>2
    <2> QED
        BY <1>2, <2>1
<1>5. ASSUME i <= Len(entries)
      PROVE  s # << >> /\ s[1] = Commands(entries[i]) /\ Tail(s) = LaterLists(entries, i + 1)
    <2>1. s # << >>
        <3>1. Len(s) # 0
            BY <1>1, <1>2, <1>5
        <3>2. Len(<< >>) = 0
            OBVIOUS
        <3> QED
            BY <3>1, <3>2, Zenon
    <2>2. s[1] = Commands(entries[i])
        <3>1. 1 \in 1..(Len(entries) + 1 - i) /\ i + 1 - 1 = i
            BY <1>1, <1>5
        <3> QED
            BY <3>1 DEF LaterLists
    <2> DEFINE n == Len(entries) + 1 - (i + 1)
    <2>3. n \in Nat /\ Len(s) - 1 = n
        BY <1>1, <1>2, <1>5
    <2>4. Tail(s) = [j \in 1..n |-> s[j + 1]]
        <3>1. /\ Tail(s) \in Seq(Seq(Command)) /\ Len(Tail(s)) = Len(s) - 1
              /\ \A j \in 1..(Len(s) - 1) : Tail(s)[j] = s[j + 1]
            BY <1>2, <2>1, TailFacts
        <3>2. Tail(s) = [j \in 1..Len(Tail(s)) |-> Tail(s)[j]]
            BY <3>1, SequenceIs
        <3> HIDE DEF s, n
        <3> QED
            BY <2>3, <3>1, <3>2
    <2>5. ASSUME NEW j \in 1..n PROVE s[j + 1] = Commands(entries[(i + 1) + j - 1])
        <3>1. j + 1 \in 1..(Len(entries) + 1 - i) /\ i + (j + 1) - 1 = (i + 1) + j - 1
            BY <1>1, <1>5
        <3>2. s[j + 1] = Commands(entries[i + (j + 1) - 1])
            BY <3>1 DEF LaterLists
        <3> QED
            BY <3>1, <3>2
    <2> HIDE DEF s
    <2>6. Tail(s) = [j \in 1..n |-> Commands(entries[(i + 1) + j - 1])]
        BY <2>4, <2>5
    <2> QED
        BY <2>1, <2>2, <2>6 DEF LaterLists
<1> QED
    BY <1>3, <1>4, <1>5 DEF Later

\* The words at some addresses are sent in the order of the addresses.
LEMMA WordsAtFacts ==
    ASSUME NEW addresses \in Seq(Int), \A i \in DOMAIN addresses : Stored(addresses[i]) \in Word
    PROVE  /\ WordsAt(addresses) \in Seq(Word) /\ Len(WordsAt(addresses)) = Len(addresses)
           /\ addresses = << >> => WordsAt(addresses) = << >>
           /\ addresses # << >> =>
                /\ WordsAt(addresses) # << >> /\ Head(WordsAt(addresses)) = Stored(Head(addresses))
                /\ Tail(WordsAt(addresses)) = WordsAt(Tail(addresses))
<1> DEFINE n == Len(addresses)
           s == WordsAt(addresses)
           t == WordsAt(Tail(addresses))
<1>1. n \in Nat /\ DOMAIN addresses = 1..n
    OBVIOUS
<1>2. s \in Seq(Word) /\ Len(s) = n /\ \A i \in 1..n : s[i] = Stored(addresses[i])
    BY <1>1 DEF WordsAt
<1>3. addresses = << >> => s = << >>
    BY <1>2
<1>4. ASSUME addresses # << >>
      PROVE  s # << >> /\ Head(s) = Stored(Head(addresses)) /\ Tail(s) = t
    <2>1. /\ Tail(addresses) \in Seq(Int) /\ n >= 1 /\ Len(Tail(addresses)) = n - 1
          /\ \A i \in 1..(n - 1) : Tail(addresses)[i] = addresses[i + 1]
          /\ Head(addresses) = addresses[1]
        BY <1>4, TailFacts
    <2>2. s # << >>
        BY <1>1, <1>2, <2>1
    <2>3. /\ Tail(s) \in Seq(Word) /\ Len(Tail(s)) = n - 1 /\ Head(s) = s[1]
          /\ \A i \in 1..(n - 1) : Tail(s)[i] = s[i + 1]
        BY <1>2, <2>2, TailFacts
    <2>4. Head(s) = Stored(Head(addresses))
        BY <1>1, <1>2, <2>1, <2>3
    <2>5. DOMAIN Tail(addresses) = 1..(n - 1)
        BY <2>1
    <2>6. \A i \in 1..(n - 1) : i + 1 \in 1..n
        BY <1>1
    <2>7. t \in Seq(Word) /\ Len(t) = n - 1 /\ \A i \in 1..(n - 1) : t[i] = Stored(addresses[i + 1])
        <3>1. t = [i \in 1..(n - 1) |-> Stored(addresses[i + 1])]
            BY <2>1, <2>5 DEF WordsAt
        <3>2. \A i \in 1..(n - 1) : Stored(addresses[i + 1]) \in Word
            BY <1>1, <2>6
        <3>3. n - 1 \in Nat
            BY <1>1, <2>1
        <3> HIDE DEF t, n
        <3> QED
            BY <3>1, <3>2, <3>3
    <2> HIDE DEF s, t, n
    <2>8. \A i \in 1..(n - 1) : Tail(s)[i] = t[i]
        BY <1>2, <2>3, <2>6, <2>7
    <2>9. Tail(s) = t
        BY <2>3, <2>7, <2>8, SameSequence
    <2> QED
        BY <2>2, <2>4, <2>9
<1> QED
    BY <1>2, <1>3, <1>4

\* What is sent is what software has put in memory.
LEMMA FixedWords ==
    ASSUME IInv, StoredOK, NEW a \in Fixed
    PROVE  /\ a \in 0..(RamWords - 1) /\ a \in Int /\ InRam(a) = a
           /\ Stored(a) \in Word /\ ram[InRam(a)].gp0 = Stored(a)
BY FixedFacts, StoredType DEF StoredOK

\* The rest of a packet is at addresses that stay as they are, and so is the rest of that.
LEMMA PacketPart ==
    ASSUME NEW addresses \in Seq(0..(RamWords - 1)), PartOfPacket(addresses), addresses # << >>
    PROVE  /\ addresses \in Seq(Int) /\ \A i \in DOMAIN addresses : addresses[i] \in Fixed
           /\ PartOfPacket(Tail(addresses)) /\ Tail(addresses) \in Seq(0..(RamWords - 1))
<1> DEFINE l == Len(addresses)
           t == Tail(addresses)
<1>1. /\ l \in Nat /\ DOMAIN addresses = 1..l /\ l >= 1
      /\ t \in Seq(0..(RamWords - 1)) /\ Len(t) = l - 1
      /\ \A i \in 1..(l - 1) : t[i] = addresses[i + 1]
    BY TailFacts
<1>2. PICK at \in DOMAIN Packet : \E n \in 0..Len(Packet[at].words) :
        /\ n + l = Len(Packet[at].words)
        /\ \A i \in DOMAIN addresses : addresses[i] = Place(at, n + i)
    BY DEF PartOfPacket
<1>3. PICK n \in 0..Len(Packet[at].words) :
        /\ n + l = Len(Packet[at].words)
        /\ \A i \in DOMAIN addresses : addresses[i] = Place(at, n + i)
    BY <1>2
<1>4. Len(Packet[at].words) \in Nat /\ \A i \in 1..Len(Packet[at].words) : Place(at, i) \in Fixed
    BY PacketFacts
<1>5. \A i \in 1..l : n + i \in 1..Len(Packet[at].words)
    BY <1>1, <1>3, <1>4
<1>6. \A i \in DOMAIN addresses : addresses[i] \in Fixed
    BY <1>1, <1>3, <1>4, <1>5
<1>7. addresses \in Seq(Int)
    <2>1. addresses = [i \in 1..l |-> addresses[i]]
        BY SequenceIs
    <2>2. \A i \in 1..l : addresses[i] \in Int
        BY <1>1, <1>6, FixedFacts
    <2>3. l \in Nat
        BY <1>1
    <2> HIDE DEF l
    <2>4. [i \in 1..l |-> addresses[i]] \in Seq(Int)
        BY <2>2, <2>3
    <2> QED
        BY <2>1, <2>4, Zenon
<1>8. PartOfPacket(t)
    <2> SUFFICES ASSUME t # << >>
                 PROVE  \E m \in 0..Len(Packet[at].words) :
                          /\ m + Len(t) = Len(Packet[at].words)
                          /\ \A i \in DOMAIN t : t[i] = Place(at, m + i)
        BY DEF PartOfPacket
    <2>1. n + 1 \in 0..Len(Packet[at].words) /\ (n + 1) + Len(t) = Len(Packet[at].words)
        <3> DEFINE k == Len(Packet[at].words)
        <3>1. /\ k \in Nat /\ n \in 0..k /\ n + l = k /\ l \in Nat /\ l >= 1 /\ Len(t) = l - 1
            BY <1>1, <1>3, <1>4
        <3> HIDE DEF k, l, t
        <3>2. n + 1 \in 0..k /\ (n + 1) + Len(t) = k
            BY <3>1
        <3> QED
            BY <3>2 DEF k
    <2>2. DOMAIN t = 1..(l - 1)
        BY <1>1
    <2>3. ASSUME NEW i \in DOMAIN t PROVE t[i] = Place(at, (n + 1) + i)
        <3>1. i \in 1..(l - 1) /\ i + 1 \in DOMAIN addresses /\ n + (i + 1) = (n + 1) + i
            BY <1>1, <1>3, <2>2
        <3>2. t[i] = addresses[i + 1]
            BY <1>1, <3>1
        <3>3. addresses[i + 1] = Place(at, n + (i + 1))
            BY <1>3, <3>1
        <3> HIDE DEF t, l
        <3> QED
            BY <3>1, <3>2, <3>3
    <2> HIDE DEF t, l
    <2> QED
        BY <2>1, <2>3
<1> QED
    BY <1>1, <1>6, <1>7, <1>8

\* The words of packets are in words of memory that the port can be sent.
LEMMA PartWords ==
    ASSUME IInv, StoredOK, NEW addresses \in Seq(0..(RamWords - 1)), PartOfPacket(addresses),
           addresses # << >>
    PROVE  /\ WordsAt(addresses) # << >> /\ Tail(WordsAt(addresses)) = WordsAt(Tail(addresses))
           /\ Head(WordsAt(addresses)) = ram[Head(addresses)].gp0
           /\ ram[InRam(Head(addresses))] = ram[Head(addresses)]
<1>1. /\ addresses \in Seq(Int) /\ \A i \in DOMAIN addresses : addresses[i] \in Fixed
    BY PacketPart
<1>2. \A i \in DOMAIN addresses : Stored(addresses[i]) \in Word
    BY <1>1, FixedWords
<1>3. Head(addresses) \in Fixed
    BY <1>1
<1> QED
    BY <1>1, <1>2, <1>3, WordsAtFacts, FixedWords

\* Nothing is sent from no addresses.
LEMMA NoWords == WordsAt(<< >>) = << >>
BY DEF WordsAt

\* What sending the next word of the frame does.
LEMMA SendFrame ==
    ASSUME Port(gpu), NEW rest, NEW commands, NEW reads, InFrame(gpu, rest, commands, reads),
           rest # << >>, NEW more \in Seq(Command), due = commands \o more, SendGp0(Head(rest))
    PROVE  /\ UNCHANGED failed /\ Sent(gpu, commands) \in Seq(Command)
           /\ due' = Sent(gpu, commands) \o more
           /\ InFrame(gpu', Tail(rest), Sent(gpu, commands), reads)
<1>1. /\ ~Gp0Fails(gpu, Head(rest))
      /\ TakesCommand(gpu) => commands # << >> /\ Head(commands) = Head(rest).command
      /\ InFrame(Gp0(gpu, Head(rest)), Tail(rest), Sent(gpu, commands), reads)
    BY FrameSend
<1>2. gpu' = Gp0(gpu, Head(rest)) /\ due' = Taken(Head(rest)) /\ UNCHANGED failed
    BY <1>1 DEF SendGp0
<1>3. commands \in Seq(Command)
    BY DEF InFrame
<1>4. CASE TakesCommand(gpu)
    <2>1. commands # << >> /\ Head(commands) = Head(rest).command
        BY <1>1, <1>4
    <2>2. /\ due # << >> /\ Head(due) = Head(commands) /\ Tail(due) = Tail(commands) \o more
          /\ Tail(commands) \in Seq(Command)
        <3>1. \A a, b \in Seq(Command) : a # << >> =>
                /\ a \o b # << >> /\ Head(a \o b) = Head(a) /\ Tail(a \o b) = Tail(a) \o b
                /\ Tail(a) \in Seq(Command)
            OBVIOUS
        <3> QED
            BY <1>3, <2>1, <3>1
    <2>3. due' = Tail(due)
        BY <1>2, <1>4, <2>1, <2>2 DEF Taken
    <2> QED
        BY <1>1, <1>2, <1>4, <2>2, <2>3 DEF Sent
<1>5. CASE ~TakesCommand(gpu)
    BY <1>1, <1>2, <1>3, <1>5 DEF Sent, Taken
<1> QED
    BY <1>4, <1>5

\* The same, when all that is due is in the frame.
LEMMA SendAll ==
    ASSUME Port(gpu), NEW rest, NEW reads, InFrame(gpu, rest, due, reads),
           rest # << >>, SendGp0(Head(rest))
    PROVE  UNCHANGED failed /\ InFrame(gpu', Tail(rest), due', reads)
<1>1. due \in Seq(Command) /\ << >> \in Seq(Command) /\ \A s \in Seq(Command) : s \o << >> = s
    BY DEF InFrame
<1>2. due = due \o << >>
    BY <1>1
<1>3. /\ UNCHANGED failed /\ Sent(gpu, due) \in Seq(Command)
      /\ due' = Sent(gpu, due) \o << >> /\ InFrame(gpu', Tail(rest), Sent(gpu, due), reads)
    BY <1>1, <1>2, SendFrame
<1> QED
    BY <1>1, <1>3

-----------------------------------------------------------------------------
(* How software keeps to it, ...                                            *)

\* FrameInv while software runs, or while a table is cleared.
LEMMA InSoftware ==
    ASSUME pc' \in {"software", "otc"}, ~failed', StoredOK', TableOK',
           PartOfPacket(todo'), PartOfReads(toread'), InFrame(gpu', WordsAt(todo'), due', toread')
    PROVE  FrameInv'
BY DEF FrameInv, SoftwareSends, BlockSends, BlockReads, BlockStays, Walks, ListSends

\* What is kept while the packets and the table are not written to.
LEMMA MemoryStays ==
    ASSUME StoredOK, TableOK, UNCHANGED table, pc # "otc", pc' # "otc",
           table \in Seq(Table \cup DOMAIN Node),
           \A a \in Fixed \cup Table \cup DOMAIN Node : ram'[a] = ram[a]
    PROVE  StoredOK' /\ TableOK'
<1>1. StoredOK'
    BY DEF StoredOK
<1>2. \A i \in DOMAIN table : table[i] \in Table \cup DOMAIN Node
    OBVIOUS
<1>3. Built' = Built
    BY DEF Built
<1>4. \A i \in DOMAIN table : ram'[table[i]] = ram[table[i]]
    BY <1>2
<1>5. \A i \in DOMAIN table' : i <= Built' =>
         ram'[table'[i]].count = Count(table'[i]) /\ ram'[table'[i]].next = After(table', i)
    BY <1>3, <1>4 DEF TableOK
<1>6. TableOK'
    BY <1>5 DEF TableOK
<1> QED
    BY <1>1, <1>6

\* Nothing of FrameInv is about the interrupts.
LEMMA Unaffected ==
    ASSUME FrameInv, UNCHANGED <<gpu, ram, failed, dma, pc, todo, toread, due, table>>
    PROVE  FrameInv'
BY DEF FrameInv, StoredOK, TableOK, Built, SoftwareSends, BlockSends, BlockReads, BlockStays, Walks,
       ListSends

LEMMA InterruptStepFrame ==
    ASSUME FrameInv, SetDicr \/ SetMask \/ OtherInterrupt \/ Handler
    PROVE  FrameInv'
<1>1. UNCHANGED <<gpu, ram, failed, dma, pc, todo, toread, due, table>>
    BY DEF SetDicr, SetMask, OtherInterrupt, Handler, EnterHandler, AcknowledgeStatus,
           AcknowledgeDicr, software
<1> QED
    BY <1>1, Unaffected

\* While software runs.
LEMMA RunningFrame ==
    ASSUME IInv, FrameInv, Running
    PROVE  /\ pc = "software" /\ ~failed /\ StoredOK /\ TableOK
           /\ PartOfPacket(todo) /\ PartOfReads(toread) /\ InFrame(gpu, WordsAt(todo), due, toread)
           /\ todo \in Seq(0..(RamWords - 1)) /\ toread \in Nat
           /\ table \in Seq(Table \cup DOMAIN Node) /\ Port(gpu)
           /\ todo = << >> /\ toread = 0 => Idle(gpu) /\ due = << >>
<1>1. /\ pc = "software" /\ ~failed /\ StoredOK /\ TableOK
      /\ PartOfPacket(todo) /\ PartOfReads(toread) /\ InFrame(gpu, WordsAt(todo), due, toread)
    BY DEF FrameInv, SoftwareSends, Running
<1>2. /\ todo \in Seq(0..(RamWords - 1)) /\ toread \in Nat
      /\ table \in Seq(Table \cup DOMAIN Node) /\ Port(gpu)
    BY DEF IInv, SoftwareOK
<1>3. todo = << >> /\ toread = 0 => Idle(gpu) /\ due = << >>
    BY <1>1, <1>2, NoWords, FrameEmpty
<1> QED
    BY <1>1, <1>2, <1>3

LEMMA TakePacketFrame == ASSUME IInv, FrameInv, TakePacket PROVE FrameInv'
<1>1. /\ pc = "software" /\ ~failed /\ StoredOK /\ TableOK /\ Idle(gpu)
      /\ table \in Seq(Table \cup DOMAIN Node)
    BY RunningFrame DEF TakePacket
<1>2. UNCHANGED <<gpu, ram, pc, failed, table>>
    BY DEF TakePacket
<1>3. PICK at \in DOMAIN Packet :
        /\ todo' = [i \in DOMAIN Packet[at].words |-> Place(at, i)]
        /\ toread' = Packet[at].reads /\ due' = Packet[at].commands
    BY DEF TakePacket
<1> DEFINE words == Packet[at].words
           n == Len(words)
<1>4. /\ words \in Seq(Word) /\ n \in Nat /\ due' \in Seq(Command)
      /\ Framed(words, 1, due') /\ StoresLast(due')
      /\ toread' = IF EndsInStore(due') THEN PicturePairs(Last(words)) ELSE 0
      /\ \A i \in 1..n : Stored(Place(at, i)) = words[i]
    BY <1>3, PacketFacts
<1>5. DOMAIN words = 1..n
    BY <1>4
<1>6. Len(todo') = n /\ DOMAIN todo' = 1..n /\ \A i \in 1..n : todo'[i] = Place(at, i)
    <2> HIDE DEF words
    <2> QED
        BY <1>3, <1>4, <1>5 DEF words
<1>7. WordsAt(todo') = words
    <2>1. WordsAt(todo') = [i \in 1..n |-> words[i]]
        BY <1>4, <1>6 DEF WordsAt
    <2>2. words = [i \in 1..n |-> words[i]]
        BY <1>4, SequenceIs
    <2> HIDE DEF words, n
    <2> QED
        BY <2>1, <2>2
<1>8. InFrame(gpu', WordsAt(todo'), due', toread')
    BY <1>1, <1>2, <1>4, <1>7, FrameStart
<1>9. PartOfPacket(todo')
    <2>1. 0 \in 0..n /\ 0 + Len(todo') = n /\ \A i \in DOMAIN todo' : todo'[i] = Place(at, 0 + i)
        BY <1>4, <1>6
    <2> QED
        BY <2>1 DEF PartOfPacket
<1>10. PartOfReads(toread')
    <2>1. toread' <= Packet[at].reads
        BY <1>3, PacketFacts
    <2> QED
        BY <2>1 DEF PartOfReads
<1>11. StoredOK' /\ TableOK'
    BY <1>1, <1>2, MemoryStays
<1> QED
    BY <1>1, <1>2, <1>8, <1>9, <1>10, <1>11, InSoftware

LEMMA WriteGp0Frame == ASSUME IInv, FrameInv, WriteGp0 PROVE FrameInv'
<1>1. /\ pc = "software" /\ ~failed /\ StoredOK /\ TableOK /\ Port(gpu)
      /\ PartOfPacket(todo) /\ PartOfReads(toread) /\ InFrame(gpu, WordsAt(todo), due, toread)
      /\ todo \in Seq(0..(RamWords - 1)) /\ table \in Seq(Table \cup DOMAIN Node)
    BY RunningFrame DEF WriteGp0
<1>2. /\ todo # << >> /\ SendGp0(ram[Head(todo)].gp0) /\ todo' = Tail(todo)
      /\ UNCHANGED <<ram, pc, toread, table>>
    BY DEF WriteGp0
<1>3. /\ WordsAt(todo) # << >> /\ Tail(WordsAt(todo)) = WordsAt(Tail(todo))
      /\ Head(WordsAt(todo)) = ram[Head(todo)].gp0
    BY <1>1, <1>2, PartWords
<1>4. UNCHANGED failed /\ InFrame(gpu', WordsAt(todo'), due', toread')
    BY <1>1, <1>2, <1>3, SendAll
<1>5. PartOfPacket(todo') /\ PartOfReads(toread')
    BY <1>1, <1>2, PacketPart
<1>6. StoredOK' /\ TableOK'
    BY <1>1, <1>2, MemoryStays
<1> QED
    BY <1>1, <1>2, <1>4, <1>5, <1>6, InSoftware

LEMMA ReadGpuFrame == ASSUME IInv, FrameInv, ReadGpu PROVE FrameInv'
<1>1. /\ pc = "software" /\ ~failed /\ StoredOK /\ TableOK /\ Port(gpu) /\ toread \in Nat
      /\ PartOfPacket(todo) /\ PartOfReads(toread) /\ InFrame(gpu, WordsAt(todo), due, toread)
      /\ table \in Seq(Table \cup DOMAIN Node)
    BY RunningFrame DEF ReadGpu
<1>2. /\ todo = << >> /\ toread # 0 /\ gpu' = GpuRead(gpu) /\ toread' = toread - 1
      /\ UNCHANGED <<ram, pc, failed, todo, due, table>>
    BY <1>1 DEF ReadGpu
<1>3. InFrame(gpu', WordsAt(todo'), due', toread')
    BY <1>1, <1>2, NoWords, FrameRead
<1>4. PartOfReads(toread')
    <2>1. PICK at \in DOMAIN Packet : toread <= Packet[at].reads
        BY <1>1, <1>2 DEF PartOfReads
    <2>2. toread - 1 <= Packet[at].reads
        BY <1>1, <2>1, PacketFacts
    <2> QED
        BY <1>2, <2>2 DEF PartOfReads
<1>5. StoredOK' /\ TableOK'
    BY <1>1, <1>2, MemoryStays
<1> QED
    BY <1>1, <1>2, <1>3, <1>4, <1>5, InSoftware

\* A port that has given up is between two commands.
LEMMA ResetIdles ==
    ASSUME NEW g \in GpuState
    PROVE  Idle(Reset(g)) /\ (g.mode = "Fifo" => Idle(ClearFifo(g)))
<1> DEFINE r == [g EXCEPT !.receiving = FALSE, !.fifo = << >>, !.mode = "Fifo"]
<1>1. r.mode = "Fifo" /\ ~r.receiving
    BY DEF GpuState
<1>2. Over(r).mode = "Fifo" /\ Over(r).receiving = r.receiving
    BY <1>1 DEF Over, GpuState
<1>3. g.mode = "Fifo" => Idle(ClearFifo(g))
    BY DEF ClearFifo, GpuState, Idle
<1> QED
    BY <1>1, <1>2, <1>3 DEF Reset, Idle

LEMMA GiveUpFrame == ASSUME IInv, FrameInv, GiveUp PROVE FrameInv'
<1>1. /\ pc = "software" /\ ~failed /\ StoredOK /\ TableOK /\ Port(gpu)
      /\ table \in Seq(Table \cup DOMAIN Node)
    BY RunningFrame DEF GiveUp
<1>2. /\ todo' = << >> /\ toread' = 0 /\ due' = << >>
      /\ UNCHANGED <<ram, pc, failed, table>>
    BY DEF GiveUp
<1>3. gpu \in GpuState
    BY <1>1 DEF Port
<1>4. Idle(gpu')
    BY <1>3, ResetIdles DEF GiveUp
<1>5. InFrame(gpu', WordsAt(todo'), due', toread')
    BY <1>2, <1>4, NoWords, FrameIdle
<1>6. PartOfPacket(todo') /\ PartOfReads(toread')
    BY <1>2 DEF PartOfPacket, PartOfReads
<1>7. StoredOK' /\ TableOK'
    BY <1>1, <1>2, MemoryStays
<1> QED
    BY <1>1, <1>2, <1>5, <1>6, <1>7, InSoftware

\* The rest of a packet is at addresses a step from each other, which its last one tells.
LEMMA PacketSteps ==
    ASSUME NEW addresses \in Seq(0..(RamWords - 1)), PartOfPacket(addresses), addresses # << >>,
           NEW step, step = IF Last(addresses) < Head(addresses) THEN -1 ELSE 1
    PROVE  \A i \in 1..Len(addresses) :
             addresses[i] \in Fixed /\ addresses[i] = Head(addresses) + (i - 1) * step
<1> DEFINE l == Len(addresses)
<1>1. l \in Nat /\ DOMAIN addresses = 1..l /\ l >= 1 /\ Head(addresses) = addresses[1]
    OBVIOUS
<1>2. PICK at \in DOMAIN Packet : \E n \in 0..Len(Packet[at].words) :
        /\ n + l = Len(Packet[at].words)
        /\ \A i \in DOMAIN addresses : addresses[i] = Place(at, n + i)
    BY DEF PartOfPacket
<1>3. PICK n \in 0..Len(Packet[at].words) :
        /\ n + l = Len(Packet[at].words)
        /\ \A i \in DOMAIN addresses : addresses[i] = Place(at, n + i)
    BY <1>2
<1> DEFINE k == Len(Packet[at].words)
           s == Packet[at].step
<1>4. /\ k \in Nat /\ at \in Int /\ s \in {1, -1} /\ n \in 0..k /\ n + l = k
      /\ \A i \in 1..k : Place(at, i) = at + (i - 1) * s
    BY <1>3, PacketFacts
<1> HIDE DEF l, k, s
<1>5. ASSUME NEW i \in 1..l PROVE addresses[i] = at + (n + i - 1) * s
    <2>1. n + i \in 1..k /\ i \in DOMAIN addresses
        BY <1>1, <1>4
    <2> QED
        BY <1>3, <1>4, <2>1
<1>6. Head(addresses) = at + (n + 1 - 1) * s /\ Last(addresses) = at + (n + l - 1) * s
    <2>1. 1 \in 1..l /\ l \in 1..l
        BY <1>1
    <2> QED
        BY <1>1, <1>5, <2>1 DEF Last, l
<1>7. l >= 2 => step = s
    <2> SUFFICES ASSUME l >= 2 PROVE step = s
        OBVIOUS
    <2>1. CASE s = 1
        BY <1>1, <1>4, <1>6, <2>1
    <2>2. CASE s = -1
        BY <1>1, <1>4, <1>6, <2>2
    <2> QED
        BY <1>4, <2>1, <2>2
<1>8. ASSUME NEW i \in 1..l PROVE addresses[i] = Head(addresses) + (i - 1) * step
    <2>1. CASE i = 1
        <3>1. step \in Int /\ Head(addresses) \in Int
            BY <1>4, <1>6
        <3> QED
            BY <1>1, <2>1, <3>1
    <2>2. CASE i # 1
        <3>1. step = s /\ addresses[i] = at + (n + i - 1) * s
            BY <1>1, <1>5, <1>7, <2>2
        <3>2. CASE s = 1
            BY <1>4, <1>6, <3>1, <3>2
        <3>3. CASE s = -1
            BY <1>4, <1>6, <3>1, <3>3
        <3> QED
            BY <1>4, <3>2, <3>3
    <2> QED
        BY <2>1, <2>2
<1>9. \A i \in DOMAIN addresses : addresses[i] \in Fixed
    BY PacketPart
<1> QED
    BY <1>1, <1>8, <1>9 DEF l

LEMMA SendBlockFrame == ASSUME IInv, FrameInv, SendBlock PROVE FrameInv'
<1>1. /\ pc = "software" /\ ~failed /\ StoredOK /\ TableOK
      /\ PartOfPacket(todo) /\ PartOfReads(toread) /\ InFrame(gpu, WordsAt(todo), due, toread)
      /\ todo \in Seq(0..(RamWords - 1)) /\ table \in Seq(Table \cup DOMAIN Node)
    BY RunningFrame DEF SendBlock
<1> DEFINE step == IF Last(todo) < Head(todo) THEN -1 ELSE 1
<1>2. /\ todo # << >> /\ todo' = << >> /\ UNCHANGED <<gpu, ram, failed, toread, due, table>>
      /\ pc' = "block" /\ dma'.channel = "Gpu" /\ dma'.addr = Head(todo) /\ dma'.words = Len(todo)
      /\ dma'.step = step /\ ~dma'.toRam
    BY DEF SendBlock, Block
<1>3. \A i \in 1..Len(todo) : todo[i] \in Fixed /\ todo[i] = Head(todo) + (i - 1) * step
    BY <1>1, <1>2, PacketSteps
<1> HIDE DEF step
<1>4. BlockWords(dma') = WordsAt(todo)
    <2>1. DOMAIN todo = 1..Len(todo)
        BY <1>1
    <2>2. WordsAt(todo) = [i \in 1..Len(todo) |-> Stored(todo[i])]
        BY <2>1, Zenon DEF WordsAt
    <2>3. BlockWords(dma') = [i \in 1..Len(todo) |-> Stored(Head(todo) + (i - 1) * step)]
        BY <1>2, Zenon DEF BlockWords, WordsFrom
    <2> QED
        BY <1>3, <2>2, <2>3
<1>5. InFrame(gpu', BlockWords(dma'), due', toread')
    BY <1>1, <1>2, <1>4
<1>6. \A i \in 1..dma'.words : dma'.addr + (i - 1) * dma'.step \in Fixed
    BY <1>2, <1>3
<1>7. PartOfReads(toread')
    BY <1>1, <1>2
<1>8. BlockSends'
    BY <1>2, <1>5, <1>6, <1>7, Zenon DEF BlockSends
<1>9. StoredOK' /\ TableOK'
    BY <1>1, <1>2, MemoryStays
<1>10. SoftwareSends' /\ BlockReads' /\ BlockStays' /\ Walks' /\ ListSends'
    BY <1>2 DEF SoftwareSends, BlockReads, BlockStays, Walks, ListSends
<1> QED
    BY <1>1, <1>2, <1>8, <1>9, <1>10 DEF FrameInv

LEMMA ReadBlockFrame == ASSUME IInv, FrameInv, ReadBlock PROVE FrameInv'
<1>1. /\ pc = "software" /\ ~failed /\ StoredOK /\ TableOK /\ toread \in Nat
      /\ PartOfPacket(todo) /\ PartOfReads(toread) /\ InFrame(gpu, WordsAt(todo), due, toread)
      /\ table \in Seq(Table \cup DOMAIN Node)
    BY RunningFrame DEF ReadBlock
<1>2. /\ todo = << >> /\ toread # 0 /\ toread' = 0
      /\ UNCHANGED <<gpu, ram, failed, todo, due, table>>
      /\ pc' = "block" /\ dma'.channel = "Gpu" /\ dma'.addr = Buffer /\ dma'.words = toread
      /\ dma'.step = 1 /\ dma'.toRam
    BY <1>1 DEF ReadBlock, Block
<1>3. BlockReads'
    BY <1>1, <1>2, NoWords DEF BlockReads
<1>4. \A i \in 0..(toread - 1) : Buffer + i \in BufferWords
    <2>1. PICK at \in DOMAIN Packet : toread <= Packet[at].reads
        BY <1>1, <1>2 DEF PartOfReads
    <2>2. \A i \in 0..(toread - 1) : Buffer + i \in Buffer..(Buffer + Packet[at].reads - 1)
        <3>1. Buffer \in Int /\ Packet[at].reads \in Nat
            BY DmacAssumption, PacketFacts DEF Address
        <3> QED
            BY <1>1, <2>1, <3>1
    <2> QED
        BY <2>2 DEF BufferWords
<1>5. BlockStays'
    BY <1>2, <1>4 DEF BlockStays
<1>6. StoredOK' /\ TableOK'
    BY <1>1, <1>2, MemoryStays
<1>7. SoftwareSends' /\ BlockSends' /\ Walks' /\ ListSends'
    BY <1>2 DEF SoftwareSends, BlockSends, Walks, ListSends
<1> QED
    BY <1>1, <1>2, <1>3, <1>5, <1>6, <1>7 DEF FrameInv

LEMMA StartOtherFrame == ASSUME IInv, FrameInv, StartOther PROVE FrameInv'
<1>1. /\ pc = "software" /\ ~failed /\ StoredOK /\ TableOK
      /\ PartOfPacket(todo) /\ PartOfReads(toread) /\ InFrame(gpu, WordsAt(todo), due, toread)
      /\ table \in Seq(Table \cup DOMAIN Node)
    BY RunningFrame DEF StartOther
<1>2. UNCHANGED <<gpu, ram, failed, todo, toread, due, table>>
    BY DEF StartOther, software
<1>3. PartOfPacket(todo') /\ PartOfReads(toread') /\ InFrame(gpu', WordsAt(todo'), due', toread')
    BY <1>1, <1>2
<1>4. CASE Complete("MdecIn")
    <2>1. pc' = "software"
        BY <1>4 DEF Complete
    <2>2. StoredOK' /\ TableOK'
        BY <1>1, <1>2, <2>1, MemoryStays
    <2> QED
        BY <1>1, <1>2, <1>3, <2>1, <2>2, InSoftware
<1>5. ASSUME NEW channel \in {"Cdrom", "Spu"}, Block(channel, Buffer, 2, 1, channel = "Cdrom")
      PROVE  FrameInv'
    <2>1. /\ pc' = "block" /\ dma'.channel # "Gpu" /\ dma'.addr = Buffer /\ dma'.words = 2
          /\ dma'.step = 1
        BY <1>5 DEF Block
    <2>2. \A i \in 0..(2 - 1) : Buffer + i \in BufferWords
        <3>1. \A i \in 0..(2 - 1) : Buffer + i \in {Buffer, Buffer + 1}
            BY DmacAssumption DEF Address
        <3> QED
            BY <3>1 DEF BufferWords
    <2>3. BlockStays'
        BY <2>1, <2>2 DEF BlockStays
    <2>4. StoredOK' /\ TableOK'
        BY <1>1, <1>2, <2>1, MemoryStays
    <2>5. SoftwareSends'
        BY <1>3 DEF SoftwareSends
    <2>6. BlockSends' /\ BlockReads' /\ Walks' /\ ListSends'
        BY <2>1 DEF BlockSends, BlockReads, Walks, ListSends
    <2> QED
        BY <1>1, <1>2, <2>3, <2>4, <2>5, <2>6 DEF FrameInv
<1> QED
    BY <1>4, <1>5 DEF StartOther

LEMMA ClearTableFrame == ASSUME IInv, FrameInv, ClearTable PROVE FrameInv'
<1>1. /\ pc = "software" /\ ~failed /\ StoredOK
      /\ PartOfPacket(todo) /\ PartOfReads(toread) /\ InFrame(gpu, WordsAt(todo), due, toread)
    BY RunningFrame DEF ClearTable
<1>2. /\ pc' = "otc" /\ table' = Cleared /\ UNCHANGED <<gpu, failed, todo, toread, due>>
      /\ ram' = [a \in DOMAIN ram |-> IF a \in DOMAIN Node THEN Data(Pixels) ELSE ram[a]]
      /\ dma'.addr = Top /\ dma'.words = Cardinality(Table)
    BY DEF ClearTable, Cleared, NoDma
<1>3. PartOfPacket(todo') /\ PartOfReads(toread') /\ InFrame(gpu', WordsAt(todo'), due', toread')
    BY <1>1, <1>2
<1>4. StoredOK'
    <2> SUFFICES ASSUME NEW a \in Fixed PROVE ram'[a].gp0 = Stored(a)
        BY DEF StoredOK
    <2>1. a \in DOMAIN ram /\ a \notin DOMAIN Node
        <3>1. DOMAIN ram = 0..(RamWords - 1)
            BY DEF IInv, MemoryOK
        <3> QED
            BY <3>1, FixedFacts
    <2>2. ram'[a] = ram[a]
        BY <1>2, <2>1
    <2> QED
        BY <1>1, <2>2 DEF StoredOK
<1> DEFINE n == Cardinality(Table)
<1>5. /\ n \in Nat /\ n >= 1 /\ Top \in Int /\ DOMAIN Cleared = 1..n
      /\ \A i \in 1..n : Cleared[i] = Top + 1 - i
    BY ClearedFacts DEF Cleared
<1> HIDE DEF n
<1>6. TableOK'
    <2>1. table'[1] = Top /\ \A i, j \in DOMAIN table' : table'[i] = table'[j] => i = j
        BY <1>2, <1>5
    <2>2. dma'.words = n /\ n <= n /\ dma'.addr = Top - n + n
        BY <1>2, <1>5 DEF n
    <2>3. Built' = 0
        <3>1. Built' = n - n
            BY <1>2, <2>2 DEF Built, n
        <3> QED
            BY <1>5, <3>1
    <2>4. \A i \in DOMAIN table' : ~(i <= Built')
        BY <1>2, <1>5, <2>3
    <2> QED
        BY <1>2, <2>1, <2>2, <2>4 DEF TableOK, n
<1> QED
    BY <1>1, <1>2, <1>3, <1>4, <1>6, InSoftware

LEMMA SendTableFrame == ASSUME IInv, FrameInv, SendTable PROVE FrameInv'
<1>1. /\ pc = "software" /\ ~failed /\ StoredOK /\ TableOK /\ Idle(gpu)
      /\ table \in Seq(Table \cup DOMAIN Node)
    BY RunningFrame DEF SendTable
<1>2. /\ table # << >> /\ todo = << >> /\ toread = 0 /\ due' = Drawing /\ pc' = "entry"
      /\ dma'.addr = Top /\ UNCHANGED <<gpu, ram, failed, todo, toread, table>>
    BY DEF SendTable, NoDma
<1>3. 1 \in DOMAIN table /\ dma'.addr = table[1]
    BY <1>1, <1>2 DEF TableOK
<1>4. Drawing = Later(table, 1)
    <2>1. DOMAIN table = 1..(Len(table) + 1 - 1) /\ \A j \in DOMAIN table : 1 + j - 1 = j
        BY <1>1
    <2>2. LaterLists(table, 1) = [j \in DOMAIN table |-> Commands(table[1 + j - 1])]
        BY <2>1, Zenon DEF LaterLists
    <2>3. LaterLists(table, 1) = [j \in DOMAIN table |-> Commands(table[j])]
        BY <2>1, <2>2
    <2> QED
        BY <2>3, Zenon DEF Drawing, Later
<1>5. Walks'
    BY <1>1, <1>2, <1>3, <1>4 DEF Walks
<1>6. StoredOK' /\ TableOK'
    BY <1>1, <1>2, MemoryStays
<1>7. SoftwareSends' /\ BlockSends' /\ BlockReads' /\ BlockStays' /\ ListSends'
    BY <1>2 DEF SoftwareSends, BlockSends, BlockReads, BlockStays, ListSends
<1> QED
    BY <1>1, <1>2, <1>5, <1>6, <1>7 DEF FrameInv

\* The entries of the table are in memory, and none holds a word of a packet.
LEMMA EntryFacts ==
    ASSUME IInv, NEW a \in Table \cup DOMAIN Node
    PROVE  a \in DOMAIN ram /\ a \notin Fixed /\ ram[a] \in Memory /\ a < RamWords /\ a \in Int
<1>1. a \in 0..(RamWords - 1)
    BY TableFacts, DmacAssumption
<1>2. DOMAIN ram = 0..(RamWords - 1) /\ ram \in [0..(RamWords - 1) -> Memory]
    BY DEF IInv, MemoryOK
<1>3. a \notin Fixed
    BY FixedFacts
<1>4. RamWords \in Nat
    BY DmacAssumption
<1> QED
    BY <1>1, <1>2, <1>3, <1>4

\* That t is s with an entry more behind the i-th, and the others linked as they were.
Linked(s, i, at, t) ==
    /\ DOMAIN t = 1..(Len(s) + 1) /\ t[1] = s[1] /\ i + 1 \in DOMAIN t
    /\ t[i] = s[i] /\ t[i + 1] = at /\ After(t, i) = at /\ After(t, i + 1) = After(s, i)
    /\ \A j \in DOMAIN s : j < i => t[j] = s[j] /\ After(t, j) = After(s, j)
    /\ \A j \in DOMAIN s : j > i => t[j + 1] = s[j] /\ After(t, j + 1) = After(s, j)

\* InsertAt returns such a table.
LEMMA LinksKept ==
    ASSUME NEW S, NEW s \in Seq(S), NEW i \in DOMAIN s, NEW at \in S
    PROVE  Linked(s, i, at, InsertAt(s, i + 1, at))
<1> DEFINE t == InsertAt(s, i + 1, at)
           n == Len(s)
<1>1. n \in Nat /\ i \in 1..n /\ DOMAIN s = 1..n
    OBVIOUS
<1>2. /\ t \in Seq(S) /\ Len(t) = n + 1
      /\ \A j \in 1..(n + 1) : t[j] = IF j <= i THEN s[j] ELSE IF j = i + 1 THEN at ELSE s[j - 1]
    BY InsertAtFacts
<1>3. DOMAIN t = 1..(n + 1)
    BY <1>1, <1>2
<1> HIDE DEF t
<1>4. ASSUME NEW j \in 1..n, j <= i PROVE t[j] = s[j]
    BY <1>1, <1>2, <1>4
<1>5. t[i + 1] = at
    BY <1>1, <1>2
<1>6. ASSUME NEW j \in 1..n, j > i PROVE t[j + 1] = s[j]
    <2>1. j + 1 \in 1..(n + 1) /\ ~(j + 1 <= i) /\ j + 1 # i + 1 /\ (j + 1) - 1 = j
        BY <1>1, <1>6
    <2> HIDE DEF n
    <2> QED
        BY <1>2, <2>1
<1>7. ASSUME NEW j \in 1..n, j < i PROVE After(t, j) = After(s, j)
    <2>1. j + 1 \in 1..n /\ j + 1 <= i /\ j < n /\ j < n + 1
        BY <1>1, <1>7
    <2>2. t[j + 1] = s[j + 1]
        BY <1>4, <2>1
    <2> QED
        BY <1>2, <2>1, <2>2 DEF After
<1>8. After(t, i) = at
    <2>1. i < n + 1
        BY <1>1
    <2> QED
        BY <1>2, <1>5, <2>1 DEF After
<1>9. After(t, i + 1) = After(s, i)
    <2>1. CASE i < n
        <3>1. i + 1 < n + 1 /\ i + 1 \in 1..n /\ i + 1 > i
            BY <1>1, <2>1
        <3>2. t[(i + 1) + 1] = s[i + 1]
            BY <1>6, <3>1
        <3> QED
            BY <1>2, <2>1, <3>1, <3>2 DEF After
    <2>2. CASE ~(i < n)
        <3>1. ~(i + 1 < n + 1)
            BY <1>1, <2>2
        <3> QED
            BY <1>2, <2>2, <3>1 DEF After
    <2> QED
        BY <2>1, <2>2
<1>10. ASSUME NEW j \in 1..n, j > i PROVE After(t, j + 1) = After(s, j)
    <2>1. CASE j < n
        <3>1. j + 1 < n + 1 /\ j + 1 \in 1..n /\ j + 1 > i
            BY <1>1, <1>10, <2>1
        <3>2. t[(j + 1) + 1] = s[j + 1]
            BY <1>6, <3>1
        <3> QED
            BY <1>2, <2>1, <3>1, <3>2 DEF After
    <2>2. CASE ~(j < n)
        <3>1. ~(j + 1 < n + 1)
            BY <1>1, <2>2
        <3> QED
            BY <1>2, <2>2, <3>1 DEF After
    <2> QED
        BY <2>1, <2>2
<1>11. 1 \in 1..n /\ 1 <= i /\ i \in 1..n /\ i <= i /\ i + 1 \in 1..(n + 1)
    BY <1>1
<1>12. t[1] = s[1] /\ t[i] = s[i]
    BY <1>4, <1>11
<1>13. \A j \in 1..n : j < i => t[j] = s[j]
    BY <1>1, <1>4
<1> QED
    <2>1. DOMAIN t = 1..(n + 1) /\ t[1] = s[1] /\ i + 1 \in DOMAIN t
        BY <1>3, <1>11, <1>12
    <2>2. \A j \in DOMAIN s : j < i => t[j] = s[j] /\ After(t, j) = After(s, j)
        BY <1>1, <1>7, <1>13
    <2>3. \A j \in DOMAIN s : j > i => t[j + 1] = s[j] /\ After(t, j + 1) = After(s, j)
        BY <1>1, <1>6, <1>10
    <2>4. Linked(s, i, at, t)
        BY <1>5, <1>8, <1>9, <1>12, <2>1, <2>2, <2>3, Zenon DEF Linked, n
    <2> QED
        BY <2>4 DEF t

LEMMA AddPacketFrame == ASSUME IInv, FrameInv, AddPacket PROVE FrameInv'
<1>1. /\ pc = "software" /\ ~failed /\ StoredOK /\ TableOK
      /\ PartOfPacket(todo) /\ PartOfReads(toread) /\ InFrame(gpu, WordsAt(todo), due, toread)
      /\ table \in Seq(Table \cup DOMAIN Node)
    BY RunningFrame DEF AddPacket
<1>2. UNCHANGED <<gpu, pc, failed, dma, todo, toread, due>>
    BY DEF AddPacket
<1>3. PICK i \in DOMAIN table : \E at \in DOMAIN Node :
        /\ at \notin ToSet(table)
        /\ ram' = [a \in DOMAIN ram |->
                     IF a = table[i] THEN [ram[a] EXCEPT !.next = at]
                     ELSE IF a = at THEN Entry(Len(Node[at].words), ram[table[i]].next)
                     ELSE ram[a]]
        /\ table' = InsertAt(table, i + 1, at)
    BY DEF AddPacket
<1>4. PICK at \in DOMAIN Node :
        /\ at \notin ToSet(table)
        /\ ram' = [a \in DOMAIN ram |->
                     IF a = table[i] THEN [ram[a] EXCEPT !.next = at]
                     ELSE IF a = at THEN Entry(Len(Node[at].words), ram[table[i]].next)
                     ELSE ram[a]]
        /\ table' = InsertAt(table, i + 1, at)
    BY <1>3
<1>5. \A j \in DOMAIN table : table[j] \in Table \cup DOMAIN Node /\ table[j] # at
    BY <1>1, <1>4 DEF ToSet
<1>6. /\ at \in DOMAIN ram
      /\ \A j \in DOMAIN table : table[j] \in DOMAIN ram
      /\ ram[table[i]] \in Memory
    BY <1>5, EntryFacts
<1>7. /\ ram'[table[i]] = [ram[table[i]] EXCEPT !.next = at]
      /\ ram'[at] = Entry(Len(Node[at].words), ram[table[i]].next)
      /\ \A a \in DOMAIN ram : a # table[i] /\ a # at => ram'[a] = ram[a]
    BY <1>4, <1>5, <1>6
<1>8. /\ ram'[table[i]].count = ram[table[i]].count /\ ram'[table[i]].next = at
      /\ ram'[at].count = Count(at) /\ ram'[at].next = ram[table[i]].next
    BY <1>6, <1>7 DEF Memory, Entry, Count
<1>9. StoredOK'
    <2> SUFFICES ASSUME NEW a \in Fixed PROVE ram'[a].gp0 = Stored(a)
        BY DEF StoredOK
    <2>1. a \in DOMAIN ram /\ a # table[i] /\ a # at
        <3>1. DOMAIN ram = 0..(RamWords - 1)
            BY DEF IInv, MemoryOK
        <3> QED
            BY <1>5, <3>1, FixedFacts
    <2>2. ram'[a] = ram[a]
        BY <1>7, <2>1
    <2> QED
        BY <1>1, <2>2 DEF StoredOK
<1> DEFINE t == table'
           n == Len(table)
<1>10. n \in Nat /\ i \in 1..n /\ DOMAIN table = 1..n
    BY <1>1
<1>11. /\ DOMAIN t = 1..(n + 1) /\ t[1] = table[1]
       /\ t[i] = table[i] /\ t[i + 1] = at /\ After(t, i) = at /\ After(t, i + 1) = After(table, i)
       /\ \A j \in DOMAIN table : j < i => t[j] = table[j] /\ After(t, j) = After(table, j)
       /\ \A j \in DOMAIN table : j > i => t[j + 1] = table[j] /\ After(t, j + 1) = After(table, j)
    <2>1. Linked(table, i, at, InsertAt(table, i + 1, at))
        <3> DEFINE S == Table \cup DOMAIN Node
        <3>1. table \in Seq(S) /\ at \in S
            BY <1>1
        <3> HIDE DEF S
        <3> QED
            BY <3>1, LinksKept
    <2>2. Linked(table, i, at, t)
        BY <1>4, <2>1, Zenon
    <2> HIDE DEF t
    <2> QED
        BY <2>2, Zenon DEF Linked
<1>12. /\ table[1] = Top /\ \A j, k \in 1..n : table[j] = table[k] => j = k
       /\ \A j \in 1..n : ram[table[j]].count = Count(table[j]) /\ ram[table[j]].next = After(table, j)
    <2>1. Built = n /\ \A j \in 1..n : j <= n
        BY <1>1, <1>10 DEF Built
    <2>2. table # << >>
        BY <1>10
    <2> QED
        BY <1>1, <1>10, <2>1, <2>2 DEF TableOK
<1> HIDE DEF t, n
<1>13. \A j \in 1..n : j # i => ram'[table[j]] = ram[table[j]]
    BY <1>5, <1>6, <1>7, <1>10, <1>12
\* Where the j-th entry was before.
<1>14. ASSUME NEW j \in 1..(n + 1)
       PROVE  \/ j = i + 1 /\ t[j] = at
              \/ j <= i /\ j \in 1..n /\ t[j] = table[j]
              \/ j > i + 1 /\ j - 1 \in 1..n /\ j - 1 # i /\ t[j] = table[j - 1]
    <2>1. CASE j <= i
        <3>1. j \in 1..n
            BY <1>10, <2>1
        <3>2. j < i \/ j = i
            BY <1>10, <2>1
        <3> QED
            BY <1>10, <1>11, <2>1, <3>1, <3>2
    <2>2. CASE j = i + 1
        BY <1>11, <2>2
    <2>3. CASE j > i + 1
        <3>1. j - 1 \in 1..n /\ j - 1 > i /\ (j - 1) + 1 = j
            BY <1>10, <2>3
        <3>2. t[(j - 1) + 1] = table[j - 1]
            BY <1>10, <1>11, <3>1
        <3> QED
            BY <1>10, <2>3, <3>1, <3>2
    <2> QED
        BY <1>10, <2>1, <2>2, <2>3
<1>15. ASSUME NEW j \in 1..(n + 1), NEW k \in 1..(n + 1), t[j] = t[k] PROVE j = k
    <2>1. \/ j = i + 1 /\ t[j] = at
          \/ j <= i /\ j \in 1..n /\ t[j] = table[j]
          \/ j > i + 1 /\ j - 1 \in 1..n /\ t[j] = table[j - 1]
        BY <1>14
    <2>2. \/ k = i + 1 /\ t[k] = at
          \/ k <= i /\ k \in 1..n /\ t[k] = table[k]
          \/ k > i + 1 /\ k - 1 \in 1..n /\ t[k] = table[k - 1]
        BY <1>14
    <2>3. \A m \in 1..n : table[m] # at
        BY <1>5, <1>10
    <2> QED
        BY <1>10, <1>12, <1>15, <2>1, <2>2, <2>3
<1>16. ASSUME NEW j \in 1..(n + 1)
       PROVE  ram'[t[j]].count = Count(t[j]) /\ ram'[t[j]].next = After(t, j)
    <2>1. CASE j = i
        BY <1>8, <1>10, <1>11, <1>12, <2>1
    <2>2. CASE j = i + 1
        BY <1>8, <1>10, <1>11, <1>12, <2>2
    <2>3. CASE j < i
        <3>1. j \in 1..n /\ j # i /\ t[j] = table[j] /\ After(t, j) = After(table, j)
            BY <1>10, <1>11, <2>3
        <3> QED
            BY <1>12, <1>13, <3>1
    <2>4. CASE j > i + 1
        <3>1. j - 1 \in 1..n /\ j - 1 > i /\ (j - 1) + 1 = j /\ j - 1 # i
            BY <1>10, <2>4
        <3>2. t[(j - 1) + 1] = table[j - 1] /\ After(t, (j - 1) + 1) = After(table, j - 1)
            BY <1>10, <1>11, <3>1
        <3>3. t[j] = table[j - 1] /\ After(t, j) = After(table, j - 1)
            BY <3>1, <3>2
        <3> QED
            BY <1>12, <1>13, <3>1, <3>3
    <2> QED
        BY <1>10, <2>1, <2>2, <2>3, <2>4
<1>17. TableOK'
    <2>1. table'[1] = Top
        BY <1>11, <1>12 DEF t
    <2>2. \A j, k \in DOMAIN table' : table'[j] = table'[k] => j = k
        BY <1>11, <1>15 DEF t
    <2>3. \A j \in DOMAIN table' :
            ram'[table'[j]].count = Count(table'[j]) /\ ram'[table'[j]].next = After(table', j)
        BY <1>11, <1>16 DEF t
    <2>4. pc' # "otc"
        BY <1>1, <1>2
    <2> QED
        BY <2>1, <2>2, <2>3, <2>4, Zenon DEF TableOK
<1>18. PartOfPacket(todo') /\ PartOfReads(toread') /\ InFrame(gpu', WordsAt(todo'), due', toread')
    BY <1>1, <1>2
<1> QED
    BY <1>1, <1>2, <1>9, <1>17, <1>18, InSoftware

-----------------------------------------------------------------------------
(* ... and how the transfers do.                                            *)

LEMMA OtcStepFrame == ASSUME IInv, FrameInv, OtcStep PROVE FrameInv'
<1> DEFINE n == Cardinality(Table)
           w == dma.words
           k == n + 1 - w
<1>1. /\ pc = "otc" /\ ~failed /\ StoredOK /\ TableOK
      /\ PartOfPacket(todo) /\ PartOfReads(toread) /\ InFrame(gpu, WordsAt(todo), due, toread)
    BY DEF FrameInv, SoftwareSends, OtcStep
<1>2. UNCHANGED <<gpu, todo, toread, due, table>>
    BY DEF OtcStep, software
<1>3. w \in Nat /\ w >= 1 /\ MemoryOK /\ w <= n /\ dma.addr = Top - n + w /\ table = Cleared
    BY <1>1 DEF IInv, DmaOK, Dma, TableOK
<1>4. /\ n \in Nat /\ Top \in Int /\ Len(table) = n /\ DOMAIN table = 1..n
      /\ \A i \in 1..n : table[i] \in Table /\ table[i] = Top + 1 - i
    <2>1. /\ n \in Nat /\ Top \in Int /\ Cleared \in Seq(Table \cup DOMAIN Node) /\ Len(Cleared) = n
          /\ \A i \in 1..n : Cleared[i] \in Table /\ Cleared[i] = Top + 1 - i
        BY ClearedFacts
    <2> QED
        BY <1>3, <2>1
<1> HIDE DEF n, w
<1>5. k \in 1..n /\ dma.addr = table[k] /\ Built = k - 1 /\ (w = 1 <=> k = n)
    <2>1. k \in 1..n /\ (w = 1 <=> k = n) /\ Top + 1 - k = Top - n + w
        BY <1>3, <1>4
    <2>2. Built = n - w /\ n - w = k - 1
        BY <1>1, <1>3, <1>4 DEF Built, n, w
    <2> QED
        BY <1>3, <1>4, <2>1, <2>2
<1>6. /\ dma.addr \in Table /\ dma.addr \in DOMAIN ram /\ dma.addr \notin Fixed
      /\ dma.addr < RamWords /\ dma.addr \in Int /\ RamWords \in Nat
    BY <1>4, <1>5, EntryFacts, DmacAssumption
<1>7. PICK value : WriteRam(dma.addr, value) /\ value.count = 0 /\ value.next = After(table, k)
    <2>1. CASE w = 1
        <3>1. WriteRam(dma.addr, Entry(0, AddressWords - 1))
            BY <2>1 DEF OtcStep, w
        <3>2. After(table, k) = AddressWords - 1
            BY <1>4, <1>5, <2>1 DEF After
        <3> QED
            BY <3>1, <3>2 DEF Entry
    <2>2. CASE w # 1
        <3>1. WriteRam(dma.addr, Entry(0, (dma.addr - 1) % AddressWords))
            BY <2>2 DEF OtcStep, w
        <3>2. k + 1 \in 1..n /\ k < n /\ After(table, k) = table[k + 1] /\ table[k + 1] = dma.addr - 1
            BY <1>4, <1>5, <2>2 DEF After
        <3>3. (dma.addr - 1) % AddressWords = dma.addr - 1
            <4>1. dma.addr - 1 \in 0..(RamWords - 1)
                BY <1>4, <3>2, TableFacts
            <4>2. dma.addr - 1 \in 0..(AddressWords - 1) /\ AddressWords \in Nat \ {0}
                BY <1>6, <4>1, DmacAssumption
            <4> QED
                BY <4>2
        <3> QED
            BY <3>1, <3>2, <3>3 DEF Entry
    <2> QED
        BY <2>1, <2>2
<1>8. ~failed' /\ ram'[dma.addr] = value /\ \A a \in DOMAIN ram : a # dma.addr => ram'[a] = ram[a]
    <2>1. /\ failed' = (dma.addr >= RamWords)
          /\ ram' = [a \in DOMAIN ram |-> IF a = dma.addr THEN value ELSE ram[a]]
        BY <1>7 DEF WriteRam
    <2>2. ~(dma.addr >= RamWords)
        BY <1>6
    <2>3. ~failed'
        BY <2>1, <2>2, Zenon
    <2> QED
        BY <1>6, <2>1, <2>3
<1>9. StoredOK'
    <2> SUFFICES ASSUME NEW a \in Fixed PROVE ram'[a].gp0 = Stored(a)
        BY DEF StoredOK
    <2>1. a \in DOMAIN ram /\ a # dma.addr
        <3>1. DOMAIN ram = 0..(RamWords - 1)
            BY DEF IInv, MemoryOK
        <3> QED
            BY <1>6, <3>1, FixedFacts
    <2> QED
        BY <1>1, <1>8, <2>1 DEF StoredOK
<1>10. /\ pc' \in {"software", "otc"}
       /\ pc' = "otc" => dma'.words = w - 1 /\ dma'.addr = dma.addr - 1 /\ w # 1
       /\ pc' = "software" => w = 1
    <2>1. CASE w = 1
        <3>1. pc' = "software"
            BY <2>1 DEF OtcStep, Complete, w
        <3> QED
            BY <2>1, <3>1
    <2>2. CASE w # 1
        <3>1. pc' = "otc" /\ dma' = [dma EXCEPT !.addr = (dma.addr - 1) % AddressWords, !.words = w - 1]
            BY <1>1, <2>2 DEF OtcStep, w
        <3>2. dma \in Dma
            BY DEF IInv, DmaOK
        <3>3. k + 1 \in 1..n /\ table[k + 1] = dma.addr - 1
            BY <1>4, <1>5, <2>2
        <3>4. (dma.addr - 1) % AddressWords = dma.addr - 1
            <4>1. dma.addr - 1 \in 0..(RamWords - 1)
                BY <1>4, <3>3, TableFacts
            <4>2. dma.addr - 1 \in 0..(AddressWords - 1) /\ AddressWords \in Nat \ {0}
                BY <1>6, <4>1, DmacAssumption
            <4> QED
                BY <4>2
        <3> QED
            BY <2>2, <3>1, <3>2, <3>4 DEF Dma
    <2> QED
        BY <2>1, <2>2
<1>11. Built' = k
    <2>1. CASE pc' = "otc"
        BY <1>3, <1>4, <1>10, <2>1 DEF Built, n
    <2>2. CASE pc' = "software"
        BY <1>2, <1>4, <1>5, <1>10, <2>2 DEF Built
    <2> QED
        BY <1>10, <2>1, <2>2
<1>12. ASSUME NEW i \in 1..n, i <= k
       PROVE  ram'[table[i]].count = Count(table[i]) /\ ram'[table[i]].next = After(table, i)
    <2>1. Count(table[i]) = 0
        BY <1>4, FixedFacts DEF Count
    <2>2. CASE i = k
        BY <1>5, <1>7, <1>8, <2>1, <2>2
    <2>3. CASE i # k
        <3>1. i <= Built /\ table[i] # dma.addr
            BY <1>4, <1>5, <1>12, <2>3
        <3>2. table[i] \in DOMAIN ram
            BY <1>4, EntryFacts
        <3>3. ram'[table[i]] = ram[table[i]]
            BY <1>8, <3>1, <3>2
        <3> QED
            BY <1>1, <1>4, <3>1, <3>3 DEF TableOK
    <2> QED
        BY <2>2, <2>3
<1>13. TableOK'
    <2>1. /\ table' # << >> => table'[1] = Top
          /\ \A i, j \in DOMAIN table' : table'[i] = table'[j] => i = j
        BY <1>1, <1>2 DEF TableOK
    <2>2. pc' = "otc" => /\ table' = Cleared /\ dma'.words <= n
                         /\ dma'.addr = Top - n + dma'.words
        BY <1>2, <1>3, <1>4, <1>10
    <2>3. \A i \in DOMAIN table' : i <= Built' =>
            ram'[table'[i]].count = Count(table'[i]) /\ ram'[table'[i]].next = After(table', i)
        <3> HIDE DEF k
        <3> QED
            BY <1>2, <1>4, <1>11, <1>12
    <2> QED
        BY <2>1, <2>2, <2>3 DEF TableOK, n
<1>14. PartOfPacket(todo') /\ PartOfReads(toread') /\ InFrame(gpu', WordsAt(todo'), due', toread')
    BY <1>1, <1>2
<1> QED
    BY <1>8, <1>9, <1>10, <1>13, <1>14, InSoftware

\* The words from an address on are sent one after the other.
LEMMA WordsFromFacts ==
    ASSUME NEW addr \in Int, NEW n \in Nat, n >= 1, NEW step \in {1, -1},
           \A i \in 1..n : addr + (i - 1) * step \in Fixed
    PROVE  /\ WordsFrom(addr, n, step) # << >> /\ addr \in Fixed
           /\ Head(WordsFrom(addr, n, step)) = Stored(addr)
           /\ Tail(WordsFrom(addr, n, step)) = WordsFrom(addr + step, n - 1, step)
           /\ \A i \in 1..(n - 1) : (addr + step) + (i - 1) * step \in Fixed
           /\ n # 1 => addr + step \in Fixed /\ (addr + step) % AddressWords = addr + step
<1> DEFINE s == WordsFrom(addr, n, step)
           t == WordsFrom(addr + step, n - 1, step)
<1>1. /\ addr + (1 - 1) * step = addr /\ addr + (2 - 1) * step = addr + step
      /\ \A i \in Nat : addr + ((i + 1) - 1) * step = (addr + step) + (i - 1) * step
    <2>1. step = 1 \/ step = -1
        OBVIOUS
    <2>2. CASE step = 1
        BY <2>2
    <2>3. CASE step = -1
        BY <2>3
    <2> QED
        BY <2>1, <2>2, <2>3
<1>2. /\ 1 \in 1..n /\ n - 1 \in Nat /\ (n # 1 => 2 \in 1..n)
      /\ \A i \in 1..(n - 1) : i \in Nat /\ i + 1 \in 1..n
    OBVIOUS
<1>3. \A i \in 1..n : Stored(addr + (i - 1) * step) \in Word
    BY FixedFacts, StoredType
<1>4. s \in Seq(Word) /\ Len(s) = n /\ \A i \in 1..n : s[i] = Stored(addr + (i - 1) * step)
    BY <1>3 DEF WordsFrom
<1>5. s # << >>
    BY <1>4
<1>6. addr \in Fixed /\ s[1] = Stored(addr)
    BY <1>1, <1>2, <1>4
<1>7. /\ Tail(s) \in Seq(Word) /\ Len(Tail(s)) = n - 1 /\ Head(s) = s[1]
      /\ \A i \in 1..(n - 1) : Tail(s)[i] = s[i + 1]
    BY <1>4, <1>5, TailFacts
<1>8. \A i \in 1..(n - 1) : (addr + step) + (i - 1) * step \in Fixed
    <2> SUFFICES ASSUME NEW i \in 1..(n - 1) PROVE (addr + step) + (i - 1) * step \in Fixed
        OBVIOUS
    <2>1. addr + ((i + 1) - 1) * step \in Fixed
        BY <1>2
    <2>2. addr + ((i + 1) - 1) * step = (addr + step) + (i - 1) * step
        BY <1>1, <1>2
    <2> QED
        BY <2>1, <2>2, Zenon
<1>9. t \in Seq(Word) /\ Len(t) = n - 1
      /\ \A i \in 1..(n - 1) : t[i] = Stored((addr + step) + (i - 1) * step)
    <2>1. \A i \in 1..(n - 1) : Stored((addr + step) + (i - 1) * step) \in Word
        BY <1>8, FixedFacts, StoredType
    <2>2. t = [i \in 1..(n - 1) |-> Stored((addr + step) + (i - 1) * step)]
        BY DEF WordsFrom
    <2> HIDE DEF t
    <2> QED
        BY <1>2, <2>1, <2>2
<1> HIDE DEF s, t
<1>10. \A i \in 1..(n - 1) : Tail(s)[i] = t[i]
    <2> SUFFICES ASSUME NEW i \in 1..(n - 1) PROVE Tail(s)[i] = t[i]
        OBVIOUS
    <2>1. Tail(s)[i] = Stored(addr + ((i + 1) - 1) * step)
        BY <1>2, <1>4, <1>7
    <2>2. addr + ((i + 1) - 1) * step = (addr + step) + (i - 1) * step
        BY <1>1, <1>2
    <2>3. t[i] = Stored((addr + step) + (i - 1) * step)
        BY <1>9
    <2> QED
        BY <2>1, <2>2, <2>3, Zenon
<1>11. Tail(s) = t
    BY <1>7, <1>9, <1>10, SameSequence
<1>12. n # 1 => addr + step \in Fixed /\ (addr + step) % AddressWords = addr + step
    <2> SUFFICES ASSUME n # 1
                 PROVE  addr + step \in Fixed /\ (addr + step) % AddressWords = addr + step
        OBVIOUS
    <2>1. addr + step \in Fixed
        BY <1>1, <1>2
    <2>2. addr + step \in 0..(RamWords - 1)
        BY <2>1, FixedFacts
    <2>3. \A a \in 0..(RamWords - 1) : a % AddressWords = a
        BY DmacAssumption
    <2> QED
        BY <2>1, <2>2, <2>3
<1> QED
    BY <1>5, <1>6, <1>7, <1>8, <1>11, <1>12 DEF s, t

\* No words.
LEMMA NoneFrom == ASSUME NEW addr, NEW step PROVE WordsFrom(addr, 0, step) = << >>
BY DEF WordsFrom

\* A block ends with its last word.
LEMMA NextWordFacts ==
    ASSUME NextWord, pc = "block", dma \in Dma, dma.words >= 1
    PROVE  /\ pc' \in {"software", "block"} /\ (pc' = "software" <=> dma.words = 1)
           /\ pc' = "block" =>
                /\ dma'.addr = (dma.addr + dma.step) % AddressWords /\ dma'.words = dma.words - 1
                /\ dma'.channel = dma.channel /\ dma'.step = dma.step /\ dma'.toRam = dma.toRam
<1>1. CASE dma.words = 1
    BY <1>1 DEF NextWord, Complete
<1>2. CASE dma.words # 1
    BY <1>2 DEF NextWord, Dma
<1> QED
    BY <1>1, <1>2

\* A transfer to memory stays in what transfers write.
LEMMA StaysOn ==
    ASSUME BlockStays, NextWord, pc = "block", dma \in Dma, dma.words >= 1,
           dma.channel # "Spu", dma.channel = "Gpu" => dma.toRam
    PROVE  BlockStays' /\ dma.addr \in BufferWords
<1>1. dma.step = 1 /\ \A i \in 0..(dma.words - 1) : dma.addr + i \in BufferWords
    BY DEF BlockStays
<1>2. dma.words \in Nat /\ dma.addr \in Int /\ dma.addr \in Address
    BY DEF Dma, Address
<1>3. dma.addr \in BufferWords
    <2>1. 0 \in 0..(dma.words - 1) /\ dma.addr + 0 = dma.addr
        BY <1>2
    <2> QED
        BY <1>1, <2>1
<1>4. CASE dma.words = 1
    <2>1. pc' # "block"
        BY <1>4, NextWordFacts
    <2> QED
        BY <1>3, <2>1 DEF BlockStays
<1>5. CASE dma.words # 1
    <2>1. dma'.addr = (dma.addr + 1) % AddressWords /\ dma'.words = dma.words - 1 /\ dma'.step = 1
        BY <1>1, <1>5, NextWordFacts
    <2>2. dma.addr + 1 \in BufferWords
        BY <1>1, <1>2, <1>5
    <2>3. (dma.addr + 1) % AddressWords = dma.addr + 1
        <3>1. dma.addr + 1 \in 0..(RamWords - 1)
            BY <2>2, FixedFacts
        <3>2. \A a \in 0..(RamWords - 1) : a % AddressWords = a
            BY DmacAssumption
        <3> QED
            BY <3>1, <3>2
    <2>4. ASSUME NEW i \in 0..(dma'.words - 1) PROVE dma'.addr + i \in BufferWords
        <3>1. i + 1 \in 0..(dma.words - 1) /\ (dma.addr + 1) + i = dma.addr + (i + 1)
            BY <1>2, <2>1
        <3>2. dma'.addr + i = (dma.addr + 1) + i
            BY <2>1, <2>3
        <3> QED
            BY <1>1, <3>1, <3>2
    <2> QED
        BY <1>3, <2>1, <2>4 DEF BlockStays
<1> QED
    BY <1>3, <1>4, <1>5

LEMMA BlockOtherFrame == ASSUME IInv, FrameInv, BlockOther PROVE FrameInv'
<1>1. /\ pc = "block" /\ dma.channel \in {"Cdrom", "Spu"} /\ NextWord
      /\ UNCHANGED <<gpu, todo, toread, due, table>>
    BY DEF BlockOther, software
<1>2. dma \in Dma /\ dma.words >= 1 /\ MemoryOK /\ table \in Seq(Table \cup DOMAIN Node)
    BY <1>1 DEF IInv, DmaOK, SoftwareOK
<1>3. /\ ~failed /\ StoredOK /\ TableOK /\ BlockStays
      /\ PartOfPacket(todo) /\ PartOfReads(toread) /\ InFrame(gpu, WordsAt(todo), due, toread)
    BY <1>1 DEF FrameInv, SoftwareSends
<1>4. /\ pc' \in {"software", "block"}
      /\ pc' = "block" => dma'.channel = dma.channel
    BY <1>1, <1>2, NextWordFacts
<1>5. ~failed' /\ (pc' = "block" => BlockStays')
      /\ \A a \in Fixed \cup Table \cup DOMAIN Node : ram'[a] = ram[a]
    <2>1. CASE dma.channel = "Cdrom"
        <3>1. BlockStays' /\ dma.addr \in BufferWords
            BY <1>1, <1>2, <1>3, <2>1, StaysOn
        <3>2. /\ failed' = (dma.addr >= RamWords)
              /\ ram' = [a \in DOMAIN ram |-> IF a = dma.addr THEN Data(Pixels) ELSE ram[a]]
            BY <2>1 DEF BlockOther, WriteRam
        <3>3. ~(dma.addr >= RamWords)
            <4>1. dma.addr \in Int /\ dma.addr < RamWords
                BY <3>1, FixedFacts
            <4>2. RamWords \in Nat
                BY DmacAssumption
            <4> QED
                BY <4>1, <4>2
        <3>4. ~failed'
            BY <3>2, <3>3, Zenon
        <3>5. ASSUME NEW a \in Fixed \cup Table \cup DOMAIN Node PROVE ram'[a] = ram[a]
            <4>1. a # dma.addr
                BY <3>1, FixedFacts
            <4>2. a \in DOMAIN ram
                <5>1. DOMAIN ram = 0..(RamWords - 1)
                    BY <1>2 DEF MemoryOK
                <5> QED
                    BY <5>1, FixedFacts, EntryFacts
            <4> QED
                BY <3>2, <4>1, <4>2
        <3> QED
            BY <3>1, <3>4, <3>5
    <2>2. CASE dma.channel = "Spu"
        <3>1. UNCHANGED <<failed, ram>>
            BY <2>2 DEF BlockOther
        <3>2. pc' = "block" => BlockStays'
            BY <1>4, <2>2 DEF BlockStays
        <3> QED
            BY <1>3, <3>1, <3>2
    <2> QED
        BY <1>1, <2>1, <2>2
<1>6. StoredOK' /\ TableOK'
    BY <1>1, <1>2, <1>3, <1>4, <1>5, MemoryStays
<1>7. PartOfPacket(todo') /\ PartOfReads(toread') /\ InFrame(gpu', WordsAt(todo'), due', toread')
    BY <1>1, <1>3
<1>8. CASE pc' = "software"
    BY <1>5, <1>6, <1>7, <1>8, InSoftware
<1>9. CASE pc' = "block"
    <2>1. SoftwareSends'
        BY <1>7 DEF SoftwareSends
    <2>2. BlockSends' /\ BlockReads' /\ Walks' /\ ListSends'
        BY <1>1, <1>4, <1>9 DEF BlockSends, BlockReads, Walks, ListSends
    <2> QED
        BY <1>5, <1>6, <1>9, <2>1, <2>2 DEF FrameInv
<1> QED
    BY <1>4, <1>8, <1>9

LEMMA BlockFromGpuFrame == ASSUME IInv, FrameInv, BlockFromGpu PROVE FrameInv'
<1>1. /\ pc = "block" /\ dma.channel = "Gpu" /\ dma.toRam /\ NextWord /\ gpu' = GpuRead(gpu)
      /\ ram' = [ram EXCEPT ![InRam(dma.addr)] = Data(Pixels)]
      /\ UNCHANGED <<failed, todo, toread, due, table>>
    BY DEF BlockFromGpu, software
<1>2. /\ dma \in Dma /\ dma.words >= 1 /\ dma.words \in Nat /\ MemoryOK /\ Port(gpu)
      /\ table \in Seq(Table \cup DOMAIN Node)
    BY <1>1 DEF IInv, DmaOK, SoftwareOK, Dma
<1>3. /\ ~failed /\ StoredOK /\ TableOK /\ BlockStays
      /\ todo = << >> /\ toread = 0 /\ InFrame(gpu, << >>, due, dma.words)
    BY <1>1 DEF FrameInv, BlockReads
<1>4. BlockStays' /\ dma.addr \in BufferWords
    BY <1>1, <1>2, <1>3, StaysOn
<1>5. ASSUME NEW a \in Fixed \cup Table \cup DOMAIN Node PROVE ram'[a] = ram[a]
    <2>1. InRam(dma.addr) = dma.addr /\ a # dma.addr
        BY <1>4, FixedFacts
    <2>2. DOMAIN ram = 0..(RamWords - 1)
        BY <1>2 DEF MemoryOK
    <2>3. a \in DOMAIN ram
        BY <2>2, FixedFacts, EntryFacts
    <2> QED
        BY <1>1, <2>1, <2>3
<1>6. /\ pc' \in {"software", "block"} /\ (pc' = "software" <=> dma.words = 1)
      /\ pc' = "block" => /\ dma'.words = dma.words - 1 /\ dma'.channel = "Gpu" /\ dma'.toRam
    BY <1>1, <1>2, NextWordFacts
<1>7. StoredOK' /\ TableOK'
    BY <1>1, <1>2, <1>3, <1>5, <1>6, MemoryStays
<1>8. InFrame(gpu', << >>, due', dma.words - 1)
    BY <1>1, <1>2, <1>3, FrameRead
<1>9. CASE pc' = "software"
    <2>1. dma.words - 1 = 0 /\ todo' = << >> /\ toread' = 0
        BY <1>1, <1>3, <1>6, <1>9
    <2>2. InFrame(gpu', WordsAt(todo'), due', toread')
        BY <1>8, <2>1, NoWords
    <2>3. PartOfPacket(todo') /\ PartOfReads(toread')
        BY <2>1 DEF PartOfPacket, PartOfReads
    <2> QED
        BY <1>1, <1>3, <1>7, <1>9, <2>2, <2>3, InSoftware
<1>10. CASE pc' = "block"
    <2>1. BlockReads'
        BY <1>1, <1>3, <1>6, <1>8, <1>10 DEF BlockReads
    <2>2. SoftwareSends' /\ BlockSends' /\ Walks' /\ ListSends'
        BY <1>6, <1>10 DEF SoftwareSends, BlockSends, Walks, ListSends
    <2> QED
        BY <1>1, <1>3, <1>4, <1>7, <2>1, <2>2 DEF FrameInv
<1> QED
    BY <1>6, <1>9, <1>10

LEMMA BlockToGpuFrame == ASSUME IInv, FrameInv, BlockToGpu PROVE FrameInv'
<1>1. /\ pc = "block" /\ dma.channel = "Gpu" /\ ~dma.toRam /\ NextWord
      /\ SendGp0(ram[InRam(dma.addr)].gp0) /\ UNCHANGED <<ram, todo, toread, table>>
    BY DEF BlockToGpu
<1>2. /\ dma \in Dma /\ dma.words >= 1 /\ dma.words \in Nat /\ dma.addr \in Int
      /\ dma.step \in {1, -1} /\ Port(gpu) /\ table \in Seq(Table \cup DOMAIN Node)
    BY <1>1 DEF IInv, DmaOK, SoftwareOK, Dma, Address
<1>3. /\ ~failed /\ StoredOK /\ TableOK /\ todo = << >> /\ PartOfReads(toread)
      /\ InFrame(gpu, BlockWords(dma), due, toread)
      /\ \A i \in 1..dma.words : dma.addr + (i - 1) * dma.step \in Fixed
    BY <1>1 DEF FrameInv, BlockSends
<1>4. /\ BlockWords(dma) # << >> /\ dma.addr \in Fixed /\ Head(BlockWords(dma)) = Stored(dma.addr)
      /\ Tail(BlockWords(dma)) = WordsFrom(dma.addr + dma.step, dma.words - 1, dma.step)
      /\ \A i \in 1..(dma.words - 1) : (dma.addr + dma.step) + (i - 1) * dma.step \in Fixed
      /\ dma.words # 1 => (dma.addr + dma.step) % AddressWords = dma.addr + dma.step
    BY <1>2, <1>3, WordsFromFacts DEF BlockWords
<1>5. ram[InRam(dma.addr)].gp0 = Head(BlockWords(dma))
    BY <1>3, <1>4, FixedWords
<1>6. UNCHANGED failed /\ InFrame(gpu', Tail(BlockWords(dma)), due', toread')
    BY <1>1, <1>2, <1>3, <1>4, <1>5, SendAll
<1>7. /\ pc' \in {"software", "block"} /\ (pc' = "software" <=> dma.words = 1)
      /\ pc' = "block" =>
           /\ dma'.addr = (dma.addr + dma.step) % AddressWords /\ dma'.words = dma.words - 1
           /\ dma'.channel = "Gpu" /\ dma'.step = dma.step /\ ~dma'.toRam
    BY <1>1, <1>2, NextWordFacts
<1>8. StoredOK' /\ TableOK'
    BY <1>1, <1>2, <1>3, <1>7, MemoryStays
<1>9. CASE pc' = "software"
    <2>1. dma.words - 1 = 0 /\ todo' = << >>
        BY <1>1, <1>3, <1>7, <1>9
    <2>2. Tail(BlockWords(dma)) = WordsAt(todo')
        BY <1>4, <2>1, NoneFrom, NoWords
    <2>3. PartOfPacket(todo') /\ PartOfReads(toread')
        BY <1>1, <1>3, <2>1 DEF PartOfPacket
    <2> QED
        BY <1>3, <1>6, <1>8, <1>9, <2>2, <2>3, InSoftware
<1>10. CASE pc' = "block"
    <2>1. /\ dma'.addr = dma.addr + dma.step /\ dma'.words = dma.words - 1 /\ dma'.step = dma.step
          /\ dma'.channel = "Gpu" /\ ~dma'.toRam
        BY <1>4, <1>7, <1>10
    <2>2. BlockWords(dma') = Tail(BlockWords(dma))
        BY <1>4, <2>1, Zenon DEF BlockWords
    <2>3. \A i \in 1..dma'.words : dma'.addr + (i - 1) * dma'.step \in Fixed
        BY <1>4, <2>1
    <2>4. InFrame(gpu', BlockWords(dma'), due', toread')
        BY <1>6, <2>2
    <2>5. todo' = << >> /\ PartOfReads(toread')
        BY <1>1, <1>3
    <2>6. BlockSends'
        BY <2>3, <2>4, <2>5, Zenon DEF BlockSends
    <2>7. SoftwareSends' /\ BlockReads' /\ BlockStays' /\ Walks' /\ ListSends'
        BY <2>1, <1>10 DEF SoftwareSends, BlockReads, BlockStays, Walks, ListSends
    <2> QED
        BY <1>3, <1>6, <1>8, <2>6, <2>7 DEF FrameInv
<1> QED
    BY <1>7, <1>9, <1>10

\* The words behind an entry are those of its packet, and a slot has none.
LEMMA EntryWords ==
    ASSUME IInv, NEW a \in Table \cup DOMAIN Node
    PROVE  /\ a \in Int /\ Count(a) \in Nat /\ Commands(a) \in Seq(Command)
           /\ \A i \in 1..Count(a) : a + i \in Fixed
           /\ \A g : Idle(g) => InFrame(g, WordsFrom(a + 1, Count(a), 1), Commands(a), 0)
<1>1. a \in Int /\ Count(a) \in Nat /\ Commands(a) \in Seq(Command)
    BY EntryFacts, CommandsType
<1>2. CASE a \in DOMAIN Node
    <2> DEFINE words == Node[a].words
               n == Len(words)
    <2>1. /\ words \in Seq(Word) /\ Node[a].commands \in Seq(Command) /\ n \in Nat
          /\ Framed(words, 1, Node[a].commands)
          /\ StoresLast(Node[a].commands) /\ ~EndsInStore(Node[a].commands)
          /\ \A k \in 1..n : a + k \in Fixed /\ Stored(a + k) = words[k]
        BY <1>2, NodeFacts
    <2>2. Count(a) = n /\ Commands(a) = Node[a].commands
        BY <1>2 DEF Count, Commands
    <2> HIDE DEF words, n
    <2>3. WordsFrom(a + 1, n, 1) = words
        <3>1. WordsFrom(a + 1, n, 1) = [i \in 1..n |-> Stored((a + 1) + (i - 1) * 1)]
            BY DEF WordsFrom
        <3>2. \A i \in 1..n : (a + 1) + (i - 1) * 1 = a + i
            BY <1>1, <2>1
        <3>3. WordsFrom(a + 1, n, 1) = [i \in 1..n |-> words[i]]
            BY <2>1, <3>1, <3>2
        <3>4. words = [i \in 1..n |-> words[i]]
            BY <2>1, SequenceIs DEF n
        <3> QED
            BY <3>3, <3>4, Zenon
    <2>4. ASSUME NEW g, Idle(g)
          PROVE  InFrame(g, WordsFrom(a + 1, Count(a), 1), Commands(a), 0)
        <3>1. InFrame(g, words, Node[a].commands,
                      IF EndsInStore(Node[a].commands) THEN PicturePairs(Last(words)) ELSE 0)
            BY <2>1, <2>4, FrameStart
        <3>2. InFrame(g, words, Node[a].commands, 0)
            BY <2>1, <3>1
        <3> QED
            BY <2>2, <2>3, <3>2, Zenon
    <2> QED
        BY <1>1, <2>1, <2>2, <2>4
<1>3. CASE a \notin DOMAIN Node
    <2>1. Count(a) = 0 /\ Commands(a) = << >>
        BY <1>3 DEF Count, Commands
    <2>2. WordsFrom(a + 1, Count(a), 1) = << >>
        BY <2>1, NoneFrom
    <2>3. \A g : Idle(g) => InFrame(g, WordsFrom(a + 1, Count(a), 1), Commands(a), 0)
        BY <2>1, <2>2, FrameIdle
    <2> QED
        BY <1>1, <2>1, <2>3
<1> QED
    BY <1>2, <1>3

LEMMA ListEntryFrame == ASSUME IInv, FrameInv, ListEntry PROVE FrameInv'
<1>1. /\ pc = "entry" /\ pc' = "list"
      /\ UNCHANGED <<gpu, ram, failed, todo, toread, due, table>>
      /\ dma' = [dma EXCEPT !.words = ram[InRam(dma.addr)].count, !.next = ram[InRam(dma.addr)].next]
    BY DEF ListEntry, software
<1>2. dma \in Dma /\ table \in Seq(Table \cup DOMAIN Node)
    BY DEF IInv, DmaOK, SoftwareOK
<1>3. ~failed /\ StoredOK /\ TableOK /\ todo = << >> /\ toread = 0 /\ Idle(gpu)
    BY <1>1 DEF FrameInv, Walks
<1>4. PICK i \in DOMAIN table : dma.addr = table[i] /\ due = Later(table, i)
    BY <1>1 DEF FrameInv, Walks
<1> DEFINE a == table[i]
<1>5. /\ a \in Table \cup DOMAIN Node /\ Len(table) \in Nat /\ i \in 1..Len(table)
      /\ DOMAIN table = 1..Len(table)
    BY <1>2
<1>6. ram[a].count = Count(a) /\ ram[a].next = After(table, i)
    <2>1. Built = Len(table) /\ i <= Len(table)
        BY <1>1, <1>5 DEF Built
    <2> QED
        BY <1>3, <2>1 DEF TableOK
<1>7. InRam(a) = a
    BY <1>5, FixedFacts
<1> HIDE DEF a
<1>8. dma'.words = Count(a) /\ dma'.next = After(table, i) /\ dma'.addr = a
    BY <1>1, <1>2, <1>4, <1>6, <1>7 DEF Dma, a
<1>9. /\ a \in Int /\ Count(a) \in Nat /\ Commands(a) \in Seq(Command)
      /\ InFrame(gpu, WordsFrom(a + 1, Count(a), 1), Commands(a), 0)
    BY <1>3, <1>5, EntryWords
<1>10. due = Commands(a) \o Later(table, i + 1)
    <2>1. i \in 1..(Len(table) + 1) /\ i <= Len(table)
        BY <1>5
    <2> QED
        BY <1>2, <1>4, <2>1, LaterFacts DEF a
<1>11. InFrame(gpu', ListWords(dma'), Commands(a), 0)
    <2>1. ListWords(dma') = WordsFrom(a + 1, Count(a), 1)
        BY <1>8, Zenon DEF ListWords
    <2> QED
        BY <1>1, <1>9, <2>1
<1>12. ListSends'
    <2>1. /\ dma'.next = After(table', i) /\ dma'.words <= Count(table'[i])
          /\ dma'.addr + dma'.words = table'[i] + Count(table'[i])
        BY <1>1, <1>8, <1>9 DEF a
    <2>2. due' = Commands(a) \o Later(table', i + 1)
        BY <1>1, <1>10
    <2>3. i \in DOMAIN table' /\ todo' = << >> /\ toread' = 0
        BY <1>1, <1>3
    <2>4. \E own \in Seq(Command) :
            due' = own \o Later(table', i + 1) /\ InFrame(gpu', ListWords(dma'), own, 0)
        BY <1>9, <1>11, <2>2, Zenon
    <2> QED
        BY <2>1, <2>3, <2>4, Zenon DEF ListSends
<1>13. StoredOK' /\ TableOK'
    BY <1>1, <1>2, <1>3, MemoryStays
<1>14. SoftwareSends' /\ BlockSends' /\ BlockReads' /\ BlockStays' /\ Walks'
    BY <1>1 DEF SoftwareSends, BlockSends, BlockReads, BlockStays, Walks
<1> QED
    BY <1>1, <1>3, <1>12, <1>13, <1>14 DEF FrameInv

LEMMA ListWordFrame == ASSUME IInv, FrameInv, ListWord PROVE FrameInv'
<1>1. /\ pc = "list" /\ dma.words # 0 /\ SendGp0(ram[InRam(dma.addr + 1)].gp0)
      /\ dma' = [dma EXCEPT !.addr = (dma.addr + 1) % AddressWords, !.words = dma.words - 1]
      /\ UNCHANGED <<ram, pc, todo, toread, table>>
    BY DEF ListWord
<1>2. /\ dma \in Dma /\ dma.words \in Nat /\ dma.addr \in Int /\ Port(gpu)
      /\ table \in Seq(Table \cup DOMAIN Node)
    BY DEF IInv, DmaOK, SoftwareOK, Dma, Address
<1>3. ~failed /\ StoredOK /\ TableOK /\ todo = << >> /\ toread = 0
    BY <1>1 DEF FrameInv, ListSends
<1>4. PICK i \in DOMAIN table :
        /\ dma.next = After(table, i)
        /\ dma.words <= Count(table[i]) /\ dma.addr + dma.words = table[i] + Count(table[i])
        /\ \E own \in Seq(Command) :
             due = own \o Later(table, i + 1) /\ InFrame(gpu, ListWords(dma), own, 0)
    BY <1>1 DEF FrameInv, ListSends
<1>5. PICK own \in Seq(Command) :
        due = own \o Later(table, i + 1) /\ InFrame(gpu, ListWords(dma), own, 0)
    BY <1>4
<1> DEFINE a == table[i]
           n == dma.words
           more == Later(table, i + 1)
<1>6. /\ a \in Int /\ Count(a) \in Nat /\ \A k \in 1..Count(a) : a + k \in Fixed
    <2>1. a \in Table \cup DOMAIN Node
        BY <1>2
    <2> QED
        BY <2>1, EntryWords
<1>7. more \in Seq(Command)
    <2>1. i + 1 \in 1..(Len(table) + 1)
        BY <1>2
    <2> QED
        BY <1>2, <2>1, LaterFacts
<1>8. n >= 1 /\ n \in Nat /\ n <= Count(a) /\ dma.addr + n = a + Count(a)
    BY <1>1, <1>2, <1>4
<1> HIDE DEF a, n, more
<1>9. \A k \in 1..n : (dma.addr + 1) + (k - 1) * 1 \in Fixed
    <2> SUFFICES ASSUME NEW k \in 1..n PROVE (dma.addr + 1) + (k - 1) * 1 \in Fixed
        OBVIOUS
    <2> DEFINE m == Count(a) - n + k
               c == Count(a)
               d == dma.addr
    <2>1. c \in Nat /\ n \in Nat /\ n <= c /\ a \in Int /\ d \in Int /\ d + n = a + c
        BY <1>2, <1>6, <1>8
    <2> HIDE DEF c, d
    <2>2. m \in 1..c /\ (d + 1) + (k - 1) * 1 = a + m
        BY <2>1 DEF c
    <2> HIDE DEF m
    <2> QED
        BY <1>6, <2>2 DEF c, d
<1>10. /\ ListWords(dma) # << >> /\ dma.addr + 1 \in Fixed
       /\ Head(ListWords(dma)) = Stored(dma.addr + 1)
       /\ Tail(ListWords(dma)) = WordsFrom((dma.addr + 1) + 1, n - 1, 1)
    <2>1. dma.addr + 1 \in Int /\ 1 \in {1, -1}
        BY <1>2
    <2>2. ListWords(dma) = WordsFrom(dma.addr + 1, n, 1)
        BY DEF ListWords, n
    <2> DEFINE d == dma.addr + 1
    <2>3. d \in Int /\ \A k \in 1..n : d + (k - 1) * 1 \in Fixed
        BY <1>9, <2>1
    <2> HIDE DEF d
    <2>4. /\ WordsFrom(d, n, 1) # << >> /\ d \in Fixed /\ Head(WordsFrom(d, n, 1)) = Stored(d)
          /\ Tail(WordsFrom(d, n, 1)) = WordsFrom(d + 1, n - 1, 1)
        BY <1>8, <2>1, <2>3, WordsFromFacts
    <2> QED
        BY <2>2, <2>4, Zenon DEF d
<1>11. ram[InRam(dma.addr + 1)].gp0 = Head(ListWords(dma))
    BY <1>3, <1>10, FixedWords
<1>12. /\ UNCHANGED failed /\ Sent(gpu, own) \in Seq(Command) /\ due' = Sent(gpu, own) \o more
       /\ InFrame(gpu', Tail(ListWords(dma)), Sent(gpu, own), 0)
    BY <1>1, <1>2, <1>5, <1>7, <1>10, <1>11, SendFrame DEF more
<1>13. dma'.addr = dma.addr + 1 /\ dma'.words = n - 1 /\ dma'.next = dma.next
    <2>1. dma.addr + 1 \in 0..(RamWords - 1)
        BY <1>10, FixedFacts
    <2>2. (dma.addr + 1) % AddressWords = dma.addr + 1
        <3>1. \A x \in 0..(RamWords - 1) : x % AddressWords = x
            BY DmacAssumption
        <3> QED
            BY <2>1, <3>1
    <2> QED
        BY <1>1, <1>2, <2>2 DEF Dma, n
<1>14. InFrame(gpu', ListWords(dma'), Sent(gpu, own), 0)
    <2>1. ListWords(dma') = Tail(ListWords(dma))
        BY <1>10, <1>13, Zenon DEF ListWords
    <2> QED
        BY <1>12, <2>1
<1>15. ListSends'
    <2>1. /\ dma'.next = After(table', i) /\ dma'.words <= Count(table'[i])
          /\ dma'.addr + dma'.words = table'[i] + Count(table'[i])
        <3>1. table' = table /\ dma'.next = After(table, i)
            BY <1>1, <1>4, <1>13
        <3>2. n - 1 <= Count(a) /\ (dma.addr + 1) + (n - 1) = a + Count(a)
            <4> DEFINE c == Count(a)
                       d == dma.addr
            <4>1. c \in Nat /\ n \in Nat /\ n <= c /\ a \in Int /\ d \in Int /\ d + n = a + c
                BY <1>2, <1>6, <1>8
            <4> HIDE DEF c, d
            <4>2. n - 1 <= c /\ (d + 1) + (n - 1) = a + c
                BY <4>1
            <4> QED
                BY <4>2 DEF c, d
        <3> QED
            BY <1>13, <3>1, <3>2, Zenon DEF a
    <2>2. due' = Sent(gpu, own) \o Later(table', i + 1)
        BY <1>1, <1>12 DEF more
    <2>3. i \in DOMAIN table' /\ todo' = << >> /\ toread' = 0
        BY <1>1, <1>3
    <2>4. \E o \in Seq(Command) :
            due' = o \o Later(table', i + 1) /\ InFrame(gpu', ListWords(dma'), o, 0)
        BY <1>12, <1>14, <2>2, Zenon
    <2> QED
        BY <2>1, <2>3, <2>4, Zenon DEF ListSends
<1>16. StoredOK' /\ TableOK'
    BY <1>1, <1>2, <1>3, MemoryStays
<1>17. SoftwareSends' /\ BlockSends' /\ BlockReads' /\ BlockStays' /\ Walks'
    BY <1>1 DEF SoftwareSends, BlockSends, BlockReads, BlockStays, Walks
<1> QED
    BY <1>3, <1>12, <1>15, <1>16, <1>17 DEF FrameInv

LEMMA ListNextFrame == ASSUME IInv, FrameInv, ListNext PROVE FrameInv'
<1>1. /\ pc = "list" /\ dma.words = 0 /\ UNCHANGED <<gpu, ram, failed, todo, toread, due, table>>
    BY DEF ListNext, software
<1>2. dma \in Dma /\ Port(gpu) /\ table \in Seq(Table \cup DOMAIN Node)
    BY DEF IInv, DmaOK, SoftwareOK
<1>3. ~failed /\ StoredOK /\ TableOK /\ todo = << >> /\ toread = 0
    BY <1>1 DEF FrameInv, ListSends
<1>4. PICK i \in DOMAIN table :
        /\ dma.next = After(table, i)
        /\ \E own \in Seq(Command) :
             due = own \o Later(table, i + 1) /\ InFrame(gpu, ListWords(dma), own, 0)
    BY <1>1 DEF FrameInv, ListSends
<1>5. PICK own \in Seq(Command) :
        due = own \o Later(table, i + 1) /\ InFrame(gpu, ListWords(dma), own, 0)
    BY <1>4
<1> DEFINE n == Len(table)
           more == Later(table, i + 1)
<1>6. n \in Nat /\ i \in 1..n /\ DOMAIN table = 1..n /\ i + 1 \in 1..(n + 1)
    BY <1>2
<1>7. more \in Seq(Command) /\ (i + 1 = n + 1 => more = << >>)
    BY <1>2, <1>6, LaterFacts
<1> HIDE DEF more
<1>8. Idle(gpu) /\ own = << >>
    <2>1. ListWords(dma) = << >>
        BY <1>1, NoneFrom DEF ListWords
    <2> QED
        BY <1>2, <1>5, <2>1, FrameEmpty
<1>9. due = more
    <2>1. \A s \in Seq(Command) : << >> \o s = s
        OBVIOUS
    <2> QED
        BY <1>5, <1>7, <1>8, <2>1 DEF more
<1>10. AddressWords \in Nat /\ RamWords \in Nat \ {0} /\ AddressWords >= 2 * RamWords
    BY DmacAssumption
<1>11. CASE i < n
    <2>1. i + 1 \in DOMAIN table /\ dma.next = table[i + 1]
        BY <1>4, <1>6, <1>11 DEF After
    <2>2. dma.next \in 0..(RamWords - 1)
        BY <1>2, <2>1, TableFacts, DmacAssumption
    <2>3. ~IsLast(dma.next)
        <3>1. dma.next < AddressWords \div 2
            BY <1>10, <2>2
        <3>2. dma.next \in Int /\ AddressWords \div 2 \in Int
            BY <1>10, <2>2
        <3> QED
            BY <3>1, <3>2 DEF IsLast
    <2>4. pc' = "entry" /\ dma' = [dma EXCEPT !.addr = dma.next]
        BY <2>3 DEF ListNext
    <2>5. dma'.addr = table'[i + 1] /\ due' = Later(table', i + 1) /\ i + 1 \in DOMAIN table'
        BY <1>1, <1>2, <1>9, <2>1, <2>4 DEF Dma, more
    <2>6. Walks'
        BY <1>1, <1>3, <1>8, <2>5 DEF Walks
    <2>7. StoredOK' /\ TableOK'
        BY <1>1, <1>2, <1>3, <2>4, MemoryStays
    <2>8. SoftwareSends' /\ BlockSends' /\ BlockReads' /\ BlockStays' /\ ListSends'
        BY <2>4 DEF SoftwareSends, BlockSends, BlockReads, BlockStays, ListSends
    <2> QED
        BY <1>1, <1>3, <2>6, <2>7, <2>8 DEF FrameInv
<1>12. CASE ~(i < n)
    <2>1. dma.next = AddressWords - 1 /\ i = n
        BY <1>4, <1>6, <1>12 DEF After
    <2>2. IsLast(dma.next)
        BY <1>10, <2>1 DEF IsLast
    <2>3. pc' = "software"
        BY <2>2 DEF ListNext, Complete
    <2>4. due' = << >>
        BY <1>1, <1>7, <1>9, <2>1
    <2>5. StoredOK' /\ TableOK'
        BY <1>1, <1>2, <1>3, <2>3, MemoryStays
    <2>6. InFrame(gpu', WordsAt(todo'), due', toread')
        BY <1>1, <1>3, <1>8, <2>4, NoWords, FrameIdle
    <2>7. PartOfPacket(todo') /\ PartOfReads(toread')
        BY <1>1, <1>3 DEF PartOfPacket, PartOfReads
    <2> QED
        BY <1>1, <1>3, <2>3, <2>5, <2>6, <2>7, InSoftware
<1> QED
    BY <1>11, <1>12

\* The port is idle at first.
LEMMA InitFrames == Init => FrameInv
<1> SUFFICES ASSUME Init PROVE FrameInv
    OBVIOUS
<1>1. pc = "software" /\ ~failed /\ todo = << >> /\ toread = 0 /\ due = << >> /\ table = << >>
    BY DEF Init
<1>2. Idle(gpu)
    BY DEF Init, BootGpu, Idle
<1>3. InFrame(gpu, WordsAt(todo), due, toread)
    BY <1>1, <1>2, NoWords, FrameIdle
<1>4. PartOfPacket(todo) /\ PartOfReads(toread)
    BY <1>1 DEF PartOfPacket, PartOfReads
<1>5. StoredOK
    <2> SUFFICES ASSUME NEW a \in Fixed PROVE ram[a].gp0 = Stored(a)
        BY DEF StoredOK
    <2>1. a \in 0..(RamWords - 1)
        BY FixedFacts
    <2> QED
        BY <2>1 DEF Init, Data
<1>6. TableOK
    <2>1. DOMAIN table = {}
        BY <1>1
    <2> QED
        BY <1>1, <2>1 DEF TableOK
<1>7. SoftwareSends /\ BlockSends /\ BlockReads /\ BlockStays /\ Walks /\ ListSends
    BY <1>1, <1>3, <1>4 DEF SoftwareSends, BlockSends, BlockReads, BlockStays, Walks, ListSends
<1> QED
    BY <1>1, <1>5, <1>6, <1>7 DEF FrameInv

\* Every step keeps the frame.
LEMMA StepFrames == IInv /\ FrameInv /\ [Next]_vars => FrameInv'
<1> SUFFICES ASSUME IInv, FrameInv, [Next]_vars PROVE FrameInv'
    OBVIOUS
<1>1. CASE DmaStep
    BY <1>1, OtcStepFrame, BlockToGpuFrame, BlockFromGpuFrame, BlockOtherFrame, ListEntryFrame,
       ListWordFrame, ListNextFrame DEF DmaStep
<1>2. CASE Software
    BY <1>2, TakePacketFrame, WriteGp0Frame, ReadGpuFrame, SendBlockFrame, ReadBlockFrame,
       StartOtherFrame, ClearTableFrame, AddPacketFrame, SendTableFrame, GiveUpFrame,
       InterruptStepFrame DEF Software
<1>3. CASE OtherInterrupt \/ Handler
    BY <1>3, InterruptStepFrame
<1>4. CASE UNCHANGED vars
    BY <1>4, Unaffected DEF vars
<1> QED
    BY <1>1, <1>2, <1>3, <1>4 DEF Next

-----------------------------------------------------------------------------
\* The invariant holds of every behaviour of the controller.
THEOREM Invariance == Spec => []IInv
BY InitEstablishes, StepKeeps, PTL DEF Spec

\* Every variable keeps its type, whatever software puts in memory and sends; so the FIFO
\* of Gp0 (gpu.cpp) only ever holds words, and a transfer stays in a rectangle of VRAM's size.
THEOREM TypeCorrect == Spec => []TypeOK
<1>1. IInv => TypeOK
    BY DEF IInv, Port, MemoryOK, DmaOK, Dma, SoftwareOK, InterruptOK, TypeOK
<1> QED
    BY <1>1, Invariance, PTL

\* Gp0 and GpuRead (gpu.cpp) go through a rectangle row by row, for VRAM and rectangles of
\* every size, with an odd or an even number of pixels, whatever was drawn before.
THEOREM RectanglesInOrderHolds == Spec => []RectanglesInOrder
<1>1. IInv => RectanglesInOrder
    BY DEF IInv, Port, RectanglesInOrder
<1> QED
    BY <1>1, Invariance, PTL

\* UpdateInterrupts (dmac.cpp) never leaves the interrupt bit set without the interrupt
\* asserted, whatever software writes to DICR and whenever other devices interrupt.
THEOREM SignalledUntilHandledHolds == Spec => []SignalledUntilHandled
<1>1. IInv => SignalledUntilHandled
    BY DEF IInv, InterruptOK
<1> QED
    BY <1>1, Invariance, PTL

\* Gp0 (gpu.cpp) knows the words of a command only from its counts; yet it takes exactly the
\* commands that were sent, and is between two of them when nothing is left, for every memory,
\* table and whole packets, sent by word, in blocks of either direction or by a list (dmac.cpp).
THEOREM InStepHolds == Spec => []InStep
<1>1. IInv /\ FrameInv => InStep
    <2> SUFFICES ASSUME IInv, FrameInv PROVE InStep
        OBVIOUS
    <2>1. ~failed
        BY DEF FrameInv
    <2>2. ASSUME pc = "software", todo = << >>, toread = 0
          PROVE  due = << >> /\ gpu.mode = "Fifo" /\ ~gpu.receiving
        <3>1. InFrame(gpu, << >>, due, 0)
            BY <2>2, NoWords DEF FrameInv, SoftwareSends
        <3>2. Port(gpu)
            BY DEF IInv
        <3> QED
            BY <3>1, <3>2, FrameEmpty DEF Idle
    <2> QED
        BY <2>1, <2>2 DEF InStep
<1> QED
    BY <1>1, InitEstablishes, StepKeeps, InitFrames, StepFrames, PTL DEF Spec
=============================================================================
