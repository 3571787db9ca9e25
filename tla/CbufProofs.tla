------------------------------ MODULE CbufProofs ------------------------------
(***************************************************************************)
(* The ring between the two threads, proved for every capacity, element     *)
(* size, chunk and request.                                                 *)
(***************************************************************************)
EXTENDS Cbuf, TLAPS

\* The difference of the indices counts the samples in the ring, and what each
\* thread has read of the other's index is still true when it acts on it: the
\* other can only have made more room, or put more samples in.
IInv ==
  /\ TypeOK
  /\ taken <= put /\ put - taken <= Capacity - 1
  /\ Size = put - taken
  /\ producer = "copying" => enqueued <= Chunk /\ put + enqueued - taken <= Capacity - 1
  /\ consumer \in {"asking", "copying"} => asked <= Request /\ taken + asked <= put
  /\ consumer = "copying" => dequeued = asked

-----------------------------------------------------------------------------
\* The remainder of a number that is at most one capacity out of range.
LEMMA Wrap ==
  ASSUME NEW C \in Nat \ {0}, NEW x \in Int
  PROVE  /\ 0 <= x /\ x < C => x % C = x
         /\ C <= x /\ x < 2 * C => x % C = x - C
         /\ -C <= x /\ x < 0 => x % C = x + C
         /\ x % C \in 0 .. C - 1
PROOF
  <1>1. 0 <= x /\ x < C => x % C = x
    OBVIOUS
  <1>2. C <= x /\ x < 2 * C => x % C = x - C
    OBVIOUS
  <1>3. -C <= x /\ x < 0 => x % C = x + C
    OBVIOUS
  <1>4. x % C \in 0 .. C - 1
    OBVIOUS
  <1> QED BY <1>1, <1>2, <1>3, <1>4

\* The samples from index r to index w, and the index n places after i.
Distance(w, r) == (w - r) % Capacity
Advanced(i, n) == (i + n) % Capacity

LEMMA DistanceFacts ==
  ASSUME NEW r \in 0 .. Capacity - 1, NEW w \in 0 .. Capacity - 1
  PROVE  /\ Distance(w, r) = IF w >= r THEN w - r ELSE w - r + Capacity
         /\ Distance(w, r) \in 0 .. Capacity - 1
PROOF
  <1>1. /\ Capacity \in Nat \ {0} /\ Capacity \in Int /\ 0 < Capacity
        /\ r \in Int /\ w \in Int /\ 0 <= r /\ r < Capacity /\ 0 <= w /\ w < Capacity
    BY CbufAssumption
  <1>2. CASE w >= r
    BY <1>1, <1>2, Wrap DEF Distance
  <1>3. CASE w < r
    BY <1>1, <1>3, Wrap DEF Distance
  <1> QED BY <1>1, <1>2, <1>3

LEMMA AdvancedFacts ==
  ASSUME NEW i \in 0 .. Capacity - 1, NEW n \in 0 .. Capacity - 1
  PROVE  /\ Advanced(i, n) = IF i + n < Capacity THEN i + n ELSE i + n - Capacity
         /\ Advanced(i, n) \in 0 .. Capacity - 1
PROOF
  <1>1. /\ Capacity \in Nat \ {0} /\ Capacity \in Int /\ 0 < Capacity
        /\ i \in Int /\ n \in Int /\ 0 <= i /\ i < Capacity /\ 0 <= n /\ n < Capacity
    BY CbufAssumption
  <1>2. CASE i + n < Capacity
    BY <1>1, <1>2, Wrap DEF Advanced
  <1>3. CASE i + n >= Capacity
    BY <1>1, <1>3, Wrap DEF Advanced
  <1> QED BY <1>1, <1>2, <1>3

\* Moving one of two indices around the ring changes their distance by as much.
LEMMA AdvanceWrite ==
  ASSUME NEW r \in 0 .. Capacity - 1, NEW w \in 0 .. Capacity - 1, NEW n \in Nat,
         Distance(w, r) + n <= Capacity - 1
  PROVE  Distance(Advanced(w, n), r) = Distance(w, r) + n
PROOF
  <1> DEFINE v == Advanced(w, n)
  <1>1. /\ Capacity \in Int /\ r \in Int /\ w \in Int
        /\ 0 <= r /\ r < Capacity /\ 0 <= w /\ w < Capacity
    BY CbufAssumption
  <1>2. n \in 0 .. Capacity - 1
    BY <1>1, DistanceFacts
  <1>3. /\ v = IF w + n < Capacity THEN w + n ELSE w + n - Capacity
        /\ v \in 0 .. Capacity - 1
    BY <1>2, AdvancedFacts
  <1> HIDE DEF v
  <1>4. /\ Distance(w, r) = IF w >= r THEN w - r ELSE w - r + Capacity
        /\ Distance(v, r) = IF v >= r THEN v - r ELSE v - r + Capacity
    BY <1>3, DistanceFacts
  <1>5. Distance(v, r) = Distance(w, r) + n
    BY <1>1, <1>3, <1>4
  <1> QED BY <1>5 DEF v

LEMMA AdvanceRead ==
  ASSUME NEW r \in 0 .. Capacity - 1, NEW w \in 0 .. Capacity - 1, NEW n \in Nat,
         n <= Distance(w, r)
  PROVE  Distance(w, Advanced(r, n)) = Distance(w, r) - n
PROOF
  <1> DEFINE v == Advanced(r, n)
  <1>1. /\ Capacity \in Int /\ r \in Int /\ w \in Int
        /\ 0 <= r /\ r < Capacity /\ 0 <= w /\ w < Capacity
    BY CbufAssumption
  <1>2. n \in 0 .. Capacity - 1
    BY <1>1, DistanceFacts
  <1>3. /\ v = IF r + n < Capacity THEN r + n ELSE r + n - Capacity
        /\ v \in 0 .. Capacity - 1
    BY <1>2, AdvancedFacts
  <1> HIDE DEF v
  <1>4. /\ Distance(w, r) = IF w >= r THEN w - r ELSE w - r + Capacity
        /\ Distance(w, v) = IF w >= v THEN w - v ELSE w - v + Capacity
    BY <1>3, DistanceFacts
  <1>5. Distance(w, v) = Distance(w, r) - n
    BY <1>1, <1>3, <1>4
  <1> QED BY <1>5 DEF v

\* The sample a copied byte belongs to has a number.
LEMMA SampleType ==
  ASSUME NEW index \in 0 .. Capacity - 1, NEW k \in Nat
  PROVE  SampleOf(index, k) \in Nat
PROOF
  <1>1. Capacity \in Nat \ {0} /\ ElementSize \in Nat \ {0}
    BY CbufAssumption
  <1>2. \A m \in Nat : m \div ElementSize \in Nat
    BY <1>1
  <1>3. CASE k < Capacity - index
    BY <1>2, <1>3 DEF SampleOf
  <1>4. CASE ~(k < Capacity - index)
    <2>1. k - (Capacity - index) \in Nat /\ Capacity - index \in Nat
      BY <1>1, <1>4
    <2>2. (k - (Capacity - index)) \div ElementSize \in Nat
      BY <1>2, <2>1
    <2> QED BY <1>4, <2>1, <2>2 DEF SampleOf
  <1> QED BY <1>3, <1>4

-----------------------------------------------------------------------------
\* An empty ring satisfies the invariant.
LEMMA InitIInv == Init => IInv
PROOF
  <1> SUFFICES ASSUME Init PROVE IInv
    OBVIOUS
  <1>1. {Capacity, Chunk, Request} \subseteq Nat \ {0}
    BY CbufAssumption
  <1>2. TypeOK
    BY <1>1 DEF Init, TypeOK, Smaller
  <1>3. Size = 0
    BY <1>1, Wrap DEF Init, Size
  <1> QED BY <1>1, <1>2, <1>3 DEF Init, IInv

\* Every step keeps it.
LEMMA NextIInv == IInv /\ [Next]_vars => IInv'
PROOF
  <1> SUFFICES ASSUME IInv, [Next]_vars PROVE IInv'
    OBVIOUS
  <1>1. /\ Capacity \in Nat \ {0} /\ Chunk \in Nat \ {0} /\ Request \in Nat \ {0}
        /\ ElementSize \in Nat \ {0}
    BY CbufAssumption
  <1>2. /\ m_read \in 0 .. Capacity - 1 /\ m_write \in 0 .. Capacity - 1
        /\ m_buffer \in [Byte -> Nat \cup {Nothing}]
        /\ producer \in {"mixing", "copying"}
        /\ enqueued \in 0 .. Smaller(Chunk, Capacity - 1) /\ written \in 0 .. enqueued
        /\ consumer \in {"away", "asking", "copying"}
        /\ asked \in 0 .. Smaller(Request, Capacity - 1)
        /\ dequeued \in 0 .. asked /\ fetched \in 0 .. dequeued
        /\ put \in Nat /\ taken \in Nat
    BY DEF IInv, TypeOK
  <1>3. /\ taken <= put /\ put - taken <= Capacity - 1 /\ Size = put - taken
        /\ producer = "copying" => enqueued <= Chunk /\ put + enqueued - taken <= Capacity - 1
        /\ consumer \in {"asking", "copying"} => asked <= Request /\ taken + asked <= put
        /\ consumer = "copying" => dequeued = asked
    BY DEF IInv
  <1>4. CASE Enqueue
    <2>1. enqueued' \in Nat /\ enqueued' <= Chunk /\ put + enqueued' - taken <= Capacity - 1
      BY <1>1, <1>2, <1>3, <1>4 DEF Enqueue, Availible, Smaller
    <2>2. enqueued' <= Capacity - 1
      <3>1. \A e \in Nat : put + e - taken <= Capacity - 1 => e <= Capacity - 1
        BY <1>1, <1>2, <1>3
      <3> QED BY <2>1, <3>1
    <2>3. TypeOK'
      <3>1. enqueued' \in 0 .. Smaller(Chunk, Capacity - 1) /\ written' \in 0 .. enqueued'
        <4>1. written' = 0
          BY <1>4 DEF Enqueue
        <4>2. Smaller(Chunk, Capacity - 1) \in {Chunk, Capacity - 1}
          BY DEF Smaller
        <4> QED BY <1>1, <2>1, <2>2, <4>1, <4>2
      <3> QED BY <1>2, <1>4, <3>1 DEF Enqueue, TypeOK, consumerVars
    <2> QED BY <1>3, <1>4, <2>1, <2>3 DEF Enqueue, IInv, Size, consumerVars
  <1>5. CASE CopyIn
    <2>1. SampleOf(m_write, written) \in Nat
      BY <1>1, <1>2, SampleType DEF Smaller
    <2>2. m_buffer' \in [Byte -> Nat \cup {Nothing}]
      <3> DEFINE sample == put + SampleOf(m_write, written)
                 place == PlaceOf(m_write, written)
      <3>1. sample \in Nat /\ m_buffer' = [m_buffer EXCEPT ![place] = sample]
        BY <1>2, <1>5, <2>1 DEF CopyIn
      <3> HIDE DEF sample, place
      <3> QED BY <1>2, <3>1
    <2>3. written' \in 0 .. enqueued
      BY <1>1, <1>2, <1>5 DEF CopyIn, Smaller
    <2>4. TypeOK'
      BY <1>2, <1>5, <2>2, <2>3 DEF CopyIn, TypeOK, consumerVars
    <2> QED BY <1>3, <1>5, <2>4 DEF CopyIn, IInv, Size, consumerVars
  <1>6. CASE Publish
    <2>1. /\ m_write' = (m_write + enqueued) % Capacity /\ put' = put + enqueued
          /\ producer' = "mixing" /\ producer = "copying"
          /\ UNCHANGED <<m_buffer, enqueued, written, consumerVars>>
      BY <1>6 DEF Publish
    <2>2. enqueued \in Nat /\ put - taken \in Nat
      BY <1>1, <1>2, <1>3 DEF Smaller
    <2>3. Size' = put' - taken'
      <3>1. /\ Size = Distance(m_write, m_read) /\ Size' = Distance(m_write', m_read)
            /\ m_write' = Advanced(m_write, enqueued)
        BY <2>1, Zenon DEF Size, Distance, Advanced, consumerVars
      <3>2. Distance(m_write, m_read) + enqueued <= Capacity - 1
        BY <1>1, <1>2, <1>3, <2>1, <2>2, <3>1
      <3>3. Distance(m_write', m_read) = Distance(m_write, m_read) + enqueued
        BY <1>2, <2>2, <3>1, <3>2, AdvanceWrite
      <3> QED BY <1>2, <1>3, <2>1, <2>2, <3>1, <3>3 DEF consumerVars
    <2>4. m_write' \in 0 .. Capacity - 1
      BY <1>1, <1>2, <2>1, <2>2
    <2>5. TypeOK'
      BY <1>2, <2>1, <2>2, <2>4 DEF TypeOK, consumerVars
    <2>6. taken <= put' /\ put' - taken <= Capacity - 1
      BY <1>1, <1>2, <1>3, <2>1, <2>2
    <2>7. consumer \in {"asking", "copying"} => taken + asked <= put'
      BY <1>1, <1>2, <1>3, <2>1, <2>2 DEF Smaller
    <2> QED BY <1>3, <2>1, <2>3, <2>5, <2>6, <2>7 DEF IInv, consumerVars
  <1>7. CASE Callback
    <2>1. asked' \in Nat /\ asked' <= Request /\ taken + asked' <= put
      BY <1>1, <1>2, <1>3, <1>7 DEF Callback, Smaller
    <2>2. TypeOK'
      BY <1>1, <1>2, <1>3, <1>7, <2>1 DEF Callback, TypeOK, Smaller, producerVars
    <2> QED BY <1>3, <1>7, <2>1, <2>2 DEF Callback, IInv, Size, producerVars
  <1>8. CASE Dequeue
    <2>1. asked \in Nat /\ dequeued' = asked
      BY <1>1, <1>2, <1>3, <1>8 DEF Dequeue, Smaller
    <2>2. fetched \in 0 .. dequeued'
      BY <1>2, <2>1
    <2>3. TypeOK'
      BY <1>1, <1>2, <1>8, <2>1, <2>2 DEF Dequeue, TypeOK, producerVars
    <2> QED BY <1>3, <1>8, <2>1, <2>3 DEF Dequeue, IInv, Size, producerVars
  <1>9. CASE CopyOut
    <2>1. fetched' \in 0 .. dequeued
      BY <1>1, <1>2, <1>9 DEF CopyOut, Smaller
    <2>2. TypeOK'
      BY <1>2, <1>9, <2>1 DEF CopyOut, TypeOK, producerVars
    <2> QED BY <1>3, <1>9, <2>2 DEF CopyOut, IInv, Size, producerVars
  <1>10. CASE Release
    <2>1. /\ m_read' = (m_read + dequeued) % Capacity /\ taken' = taken + dequeued
          /\ consumer' = "away" /\ consumer = "copying"
          /\ UNCHANGED <<asked, dequeued, fetched, producerVars>>
      BY <1>10 DEF Release
    <2>2. dequeued \in Nat /\ put - taken \in Nat /\ dequeued <= put - taken
      BY <1>1, <1>2, <1>3, <2>1 DEF Smaller
    <2>3. Size' = put' - taken'
      <3>1. /\ Size = Distance(m_write, m_read) /\ Size' = Distance(m_write, m_read')
            /\ m_read' = Advanced(m_read, dequeued)
        BY <2>1, Zenon DEF Size, Distance, Advanced, producerVars
      <3>2. Distance(m_write, m_read') = Distance(m_write, m_read) - dequeued
        BY <1>2, <1>3, <2>2, <3>1, AdvanceRead
      <3>3. Size' = put - taken - dequeued
        BY <1>3, <3>1, <3>2
      <3>4. put' = put /\ taken' = taken + dequeued
        BY <2>1 DEF producerVars
      <3>5. put \in Int /\ taken \in Int /\ dequeued \in Int
        BY <1>2, <2>2
      <3> QED BY <3>3, <3>4, <3>5
    <2>4. m_read' \in 0 .. Capacity - 1
      BY <1>1, <1>2, <2>1, <2>2
    <2>5. TypeOK'
      BY <1>2, <2>1, <2>2, <2>4 DEF TypeOK, producerVars
    <2>6. taken' <= put /\ put - taken' <= Capacity - 1
      BY <1>1, <1>2, <1>3, <2>1, <2>2
    <2>7. producer = "copying" => put + enqueued - taken' <= Capacity - 1
      BY <1>1, <1>2, <1>3, <2>1, <2>2 DEF Smaller
    <2> QED BY <1>3, <2>1, <2>3, <2>5, <2>6, <2>7 DEF IInv, producerVars
  <1>11. CASE UNCHANGED vars
    BY <1>2, <1>3, <1>11 DEF vars, producerVars, consumerVars, IInv, TypeOK, Size
  <1> QED BY <1>4, <1>5, <1>6, <1>7, <1>8, <1>9, <1>10, <1>11 DEF Next, Produce, Consume

-----------------------------------------------------------------------------
\* What the first memcpy of a chunk covers starts at the byte of its index, and
\* what the second covers starts at the first byte: neither reaches further
\* than one byte for each element.
LEMMA PlaceFacts ==
  ASSUME NEW index \in 0 .. Capacity - 1, NEW k \in Nat
  PROVE  /\ k < Capacity - index => PlaceOf(index, k) = ElementSize * index + k
         /\ k >= Capacity - index => PlaceOf(index, k) = k - (Capacity - index)
BY CbufAssumption DEF PlaceOf

\* Indices are multiplied by the size of an element.
LEMMA ScaledFacts ==
  ASSUME NEW a \in Nat, NEW b \in Nat, a <= b
  PROVE  /\ ElementSize * a \in Nat /\ ElementSize * b \in Nat
         /\ a <= ElementSize * a
         /\ ElementSize * a + (b - a) <= ElementSize * b
PROOF
  <1>1. ElementSize \in Nat /\ ElementSize >= 1
    BY CbufAssumption
  <1>2. \A n \in Nat : ElementSize * n \in Nat /\ n <= ElementSize * n
    BY <1>1
  <1>3. ElementSize * b = ElementSize * a + ElementSize * (b - a) /\ b - a \in Nat
    BY <1>1
  <1> QED BY <1>2, <1>3

\* The invariant holds in every reachable state.
THEOREM Safety == Spec => []IInv
PROOF
  <1> QED BY InitIInv, NextIInv, PTL DEF Spec

\* Types: the indices stay inside the ring, the copies inside what was decided.
THEOREM TypeCorrect == Spec => []TypeOK
PROOF
  <1>1. IInv => TypeOK
    BY DEF IInv
  <1> QED BY <1>1, Safety, PTL

\* The audio callback never gets less than it asked for.
THEOREM NoShortReadHolds == Spec => []NoShortRead
PROOF
  <1>1. IInv => NoShortRead
    BY DEF IInv, NoShortRead
  <1> QED BY <1>1, Safety, PTL

\* Without a lock, the two threads never copy the same byte.
THEOREM NoRaceHolds == Spec => []NoRace
PROOF
  <1>1. IInv => NoRace
    <2> SUFFICES ASSUME IInv, producer = "copying", consumer = "copying",
                        NEW k \in 0 .. enqueued - 1, NEW l \in 0 .. dequeued - 1
                 PROVE  PlaceOf(m_write, k) # PlaceOf(m_read, l)
      BY DEF NoRace
    <2> DEFINE w == m_write
               r == m_read
               in == PlaceOf(w, k)
               out == PlaceOf(r, l)
    <2>1. /\ w \in 0 .. Capacity - 1 /\ r \in 0 .. Capacity - 1
          /\ Capacity \in Nat \ {0} /\ enqueued \in Nat /\ dequeued \in Nat
          /\ put \in Nat /\ taken \in Nat
      BY CbufAssumption DEF IInv, TypeOK, Smaller
    <2>2. /\ Distance(w, r) = put - taken
          /\ put + enqueued - taken <= Capacity - 1 /\ taken + dequeued <= put
      BY DEF IInv, Size, Distance
    <2>3. Distance(w, r) = IF w >= r THEN w - r ELSE w - r + Capacity
      BY <2>1, DistanceFacts
    <2>4. k \in Nat /\ l \in Nat /\ k < enqueued /\ l < dequeued
      BY <2>1
    <2>5. /\ k < Capacity - w => in = ElementSize * w + k
          /\ k >= Capacity - w => in = k - (Capacity - w)
          /\ l < Capacity - r => out = ElementSize * r + l
          /\ l >= Capacity - r => out = l - (Capacity - r)
      BY <2>1, <2>4, PlaceFacts
    <2> HIDE DEF in, out
    <2>6. /\ ElementSize * w \in Nat /\ w <= ElementSize * w
          /\ ElementSize * r \in Nat /\ r <= ElementSize * r
      BY <2>1, ScaledFacts
    <2> DEFINE bw == ElementSize * w
               br == ElementSize * r
    <2> SUFFICES in # out
      BY DEF in, out
    <2>7. /\ bw \in Nat /\ w <= bw /\ br \in Nat /\ r <= br
          /\ k < Capacity - w => in = bw + k
          /\ k >= Capacity - w => in = k - (Capacity - w)
          /\ l < Capacity - r => out = br + l
          /\ l >= Capacity - r => out = l - (Capacity - r)
      BY <2>5, <2>6
    <2>8. CASE w >= r
      <3>1. br + (w - r) <= bw
        BY <2>1, <2>8, ScaledFacts
      <3> HIDE DEF bw, br
      <3>2. l < w - r /\ l < Capacity - r
        BY <2>1, <2>2, <2>3, <2>4, <2>8
      <3>3. k < Capacity - w \/ k - (Capacity - w) < r
        BY <2>1, <2>2, <2>3, <2>4, <2>8
      <3> QED BY <3>1, <3>2, <3>3, <2>1, <2>4, <2>7, <2>8
    <2>9. CASE w < r
      <3>1. bw + (r - w) <= br
        BY <2>1, <2>9, ScaledFacts
      <3> HIDE DEF bw, br
      <3>2. k < r - w /\ k < Capacity - w
        BY <2>1, <2>2, <2>3, <2>4, <2>9
      <3>3. l < Capacity - r \/ l - (Capacity - r) < w
        BY <2>1, <2>2, <2>3, <2>4, <2>9
      <3> QED BY <3>1, <3>2, <3>3, <2>1, <2>4, <2>7, <2>9
    <2> QED BY <2>1, <2>8, <2>9
  <1> QED BY <1>1, Safety, PTL

\* Places are used like those of a queue of Capacity - 1 samples: the store of
\* m_write puts, the store of m_read takes, and no other step does either.
THEOREM RefinesBoundedFifoHolds == Spec => RefinesBoundedFifo
PROOF
  <1>1. Init => Fifo!Init
    BY DEF Init, Fifo!Init
  <1>2. IInv /\ [Next]_vars => [Fifo!Next]_<<put, taken>>
    <2> SUFFICES ASSUME IInv, [Next]_vars
                 PROVE  [Fifo!Next]_<<put, taken>>
      OBVIOUS
    <2>1. /\ put \in Nat /\ taken \in Nat /\ enqueued \in Nat /\ dequeued \in Nat
          /\ Capacity \in Nat \ {0} /\ Chunk \in Nat /\ Request \in Nat
      BY CbufAssumption DEF IInv, TypeOK, Smaller
    <2>2. /\ producer = "copying" => enqueued <= Chunk /\ put + enqueued - taken <= Capacity - 1
          /\ consumer = "copying" => dequeued <= Request /\ taken + dequeued <= put
      BY DEF IInv
    <2>3. CASE Publish
      <3>1. enqueued \in 0 .. Chunk /\ Fifo!Put(enqueued)
        BY <2>1, <2>2, <2>3 DEF Publish, Fifo!Put, consumerVars
      <3> QED BY <3>1 DEF Fifo!Next
    <2>4. CASE Release
      <3>1. dequeued \in 0 .. Request /\ Fifo!Take(dequeued)
        BY <2>1, <2>2, <2>4 DEF Release, Fifo!Take, producerVars
      <3> QED BY <3>1 DEF Fifo!Next
    <2>5. CASE Enqueue \/ CopyIn \/ Callback \/ Dequeue \/ CopyOut \/ UNCHANGED vars
      BY <2>5 DEF Enqueue, CopyIn, Callback, Dequeue, CopyOut, vars, producerVars, consumerVars
    <2> QED BY <2>3, <2>4, <2>5 DEF Next, Produce, Consume
  <1> QED BY <1>1, <1>2, Safety, PTL DEF Spec, RefinesBoundedFifo, Fifo!Spec

-----------------------------------------------------------------------------
(* What the bytes hold.                                                     *)

\* Where the samples that are in the ring, or being copied there, end.
Begun == put + IF producer = "copying" THEN enqueued ELSE 0

\* m_write is the place of the next sample, and a byte in some place holds the
\* number of a sample that has this place and has been copied already.
Content ==
  /\ put % Capacity = m_write
  /\ \A p \in 0 .. Capacity - 1, h \in 0 .. ElementSize - 1 :
       LET held == m_buffer[ElementSize * p + h]
       IN  held = Nothing \/ (held % Capacity = p /\ held < Begun)

\* A number has one quotient and one remainder.
LEMMA Division ==
  ASSUME NEW d \in Nat \ {0}, NEW p \in Int, NEW q \in Int,
         NEW h \in 0 .. d - 1, NEW j \in 0 .. d - 1, d * p + h = d * q + j
  PROVE  p = q /\ h = j
PROOF
  <1>1. \A n \in Int : n >= 1 => d * n >= d
    OBVIOUS
  <1>2. d * (p - q) = d * p - d * q /\ d * (q - p) = d * q - d * p
    OBVIOUS
  <1>3. ~(p - q >= 1)
    <2>1. p - q >= 1 => d * (p - q) >= d
      BY <1>1
    <2>2. d * (p - q) < d
      BY <1>2
    <2> QED BY <2>1, <2>2
  <1>4. ~(q - p >= 1)
    <2>1. q - p >= 1 => d * (q - p) >= d
      BY <1>1
    <2>2. d * (q - p) < d
      BY <1>2
    <2> QED BY <2>1, <2>2
  <1>5. p = q
    BY <1>3, <1>4
  <1> QED BY <1>5

LEMMA Quotient ==
  ASSUME NEW d \in Nat \ {0}, NEW n \in Nat
  PROVE  /\ n \div d \in Nat /\ n \div d <= n /\ n % d \in 0 .. d - 1
         /\ n = d * (n \div d) + (n % d)
PROOF
  <1>1. n \div d \in Nat
    OBVIOUS
  <1>3. n % d \in 0 .. d - 1
    OBVIOUS
  <1>4. n = d * (n \div d) + (n % d)
    OBVIOUS
  <1>2. \A k \in Nat : k <= d * k
    OBVIOUS
  <1> QED BY <1>1, <1>2, <1>3, <1>4

LEMMA Remainder ==
  ASSUME NEW d \in Nat \ {0}, NEW q \in Int, NEW h \in 0 .. d - 1, d * q + h \in Nat
  PROVE  (d * q + h) % d = h
PROOF
  <1> DEFINE n == d * q + h
  <1>1. n \div d \in Nat /\ n % d \in 0 .. d - 1 /\ n = d * (n \div d) + (n % d)
    BY Quotient
  <1> DEFINE a == n \div d
             b == n % d
  <1>2. a \in Int /\ b \in 0 .. d - 1 /\ d * a + b = d * q + h
    BY <1>1
  <1> HIDE DEF n, a, b
  <1>3. h = b
    BY <1>2, Division
  <1> QED BY <1>3 DEF n, b

\* Going on by less than a lap.
LEMMA Onward ==
  ASSUME NEW d \in Nat \ {0}, NEW n \in Nat, NEW i \in 0 .. d - 1
  PROVE  (n + i) % d = IF (n % d) + i < d THEN (n % d) + i ELSE (n % d) + i - d
PROOF
  <1> DEFINE q == n \div d
             r == n % d
  <1>1. q \in Nat /\ r \in 0 .. d - 1 /\ n = d * q + r
    BY Quotient
  <1> HIDE DEF q, r
  <1>2. CASE r + i < d
    <2>1. n + i = d * q + (r + i) /\ r + i \in 0 .. d - 1
      BY <1>1, <1>2
    <2>2. (n + i) % d = r + i
      BY <1>1, <2>1, Remainder
    <2> QED BY <1>2, <2>2 DEF r
  <1>3. CASE ~(r + i < d)
    <2>1. n + i = d * (q + 1) + (r + i - d) /\ r + i - d \in 0 .. d - 1 /\ q + 1 \in Int
      BY <1>1, <1>3
    <2>3. d * (q + 1) + (r + i - d) \in Nat
      BY <2>1
    <2>2. (d * (q + 1) + (r + i - d)) % d = r + i - d
      BY <2>1, <2>3, Remainder
    <2> QED BY <1>3, <2>1, <2>2 DEF r
  <1> QED BY <1>2, <1>3

\* Of two numbers with the same place, the one that is less than a lap ahead is not ahead.
LEMMA SamePlace ==
  ASSUME NEW d \in Nat \ {0}, NEW m \in Nat, NEW n \in Nat, m % d = n % d, m < n + d
  PROVE  m <= n
PROOF
  <1> DEFINE q == m \div d
             r == n \div d
             h == n % d
  <1>1. q \in Nat /\ r \in Nat /\ h \in 0 .. d - 1 /\ m = d * q + h /\ n = d * r + h
    BY Quotient
  <1> HIDE DEF q, r, h
  <1>2. \A k \in Int : k >= 1 => d * k >= d
    OBVIOUS
  <1>3. d * (q - r) = d * q - d * r
    BY <1>1
  <1>4. q <= r
    <2>1. d * (q - r) < d
      BY <1>1, <1>3
    <2>2. ~(q - r >= 1)
      BY <1>1, <1>2, <2>1
    <2> QED BY <1>1, <2>2
  <1>5. d * (r - q) = d * r - d * q /\ d * (r - q) >= 0
    <2>1. r - q \in Nat
      BY <1>1, <1>4
    <2>2. \A k \in Nat : d * k >= 0
      OBVIOUS
    <2> QED BY <1>1, <2>1, <2>2
  <1> QED BY <1>1, <1>5

\* The byte that is copied k-th belongs to the place of the sample it is copied from.
LEMMA CopyFacts ==
  ASSUME NEW index \in 0 .. Capacity - 1, NEW k \in 0 .. Capacity - 1
  PROVE  LET s == SampleOf(index, k)
         IN  /\ s \in 0 .. k
             /\ \E j \in 0 .. ElementSize - 1 :
                  PlaceOf(index, k) = ElementSize * Advanced(index, s) + j
PROOF
  <1> DEFINE s == SampleOf(index, k)
  <1>1. /\ Capacity \in Nat \ {0} /\ ElementSize \in Nat \ {0} /\ k \in Nat /\ index \in Nat
        /\ index < Capacity /\ k < Capacity
    BY CbufAssumption
  <1>2. CASE k < Capacity - index
    <2> DEFINE q == k \div ElementSize
               j == k % ElementSize
    <2>1. /\ q \in Nat /\ q <= k /\ j \in 0 .. ElementSize - 1 /\ k = ElementSize * q + j
      BY <1>1, Quotient
    <2>2. s = q
      BY <1>2 DEF SampleOf
    <2>3. PlaceOf(index, k) = ElementSize * index + k
      BY <1>2 DEF PlaceOf
    <2> HIDE DEF q, j, s
    <2>4. Advanced(index, q) = index + q
      <3>1. q \in 0 .. Capacity - 1 /\ index + q < Capacity
        BY <1>1, <1>2, <2>1
      <3> QED BY <3>1, AdvancedFacts
    <2>5. ElementSize * (index + q) = ElementSize * index + ElementSize * q
      BY <1>1, <2>1
    <2>6. PlaceOf(index, k) = ElementSize * Advanced(index, s) + j
      <3>1. ElementSize * index \in Int /\ ElementSize * q \in Int /\ j \in Int
        BY <1>1, <2>1
      <3> QED BY <2>1, <2>2, <2>3, <2>4, <2>5, <3>1
    <2>7. s \in 0 .. k
      BY <1>1, <2>1, <2>2
    <2> QED BY <2>1, <2>6, <2>7 DEF s
  <1>3. CASE ~(k < Capacity - index)
    <2> DEFINE m == k - (Capacity - index)
               q == m \div ElementSize
               j == m % ElementSize
    <2>0. m \in Nat
      BY <1>1, <1>3
    <2>1. /\ q \in Nat /\ q <= m /\ j \in 0 .. ElementSize - 1 /\ m = ElementSize * q + j
      BY <1>1, <2>0, Quotient
    <2>2. s = Capacity - index + q
      BY <1>3 DEF SampleOf
    <2>3. PlaceOf(index, k) = m
      BY <1>3 DEF PlaceOf
    <2> HIDE DEF q, j, s
    <2>4. s \in 0 .. k /\ s \in 0 .. Capacity - 1
      BY <1>1, <1>3, <2>1, <2>2
    <2> HIDE DEF m
    <2>5. Advanced(index, s) = q
      BY <1>1, <2>1, <2>2, <2>4, AdvancedFacts
    <2> QED BY <2>1, <2>3, <2>4, <2>5 DEF s
  <1> QED BY <1>2, <1>3

\* The bytes of a place.
LEMMA PlaceIsByte ==
  ASSUME NEW p \in 0 .. Capacity - 1, NEW h \in 0 .. ElementSize - 1
  PROVE  ElementSize * p + h \in Byte
PROOF
  <1>1. Capacity \in Nat \ {0} /\ ElementSize \in Nat \ {0} /\ p \in Nat /\ h \in Nat
    BY CbufAssumption
  <1>2. /\ ElementSize * (p + 1) = ElementSize * p + ElementSize
        /\ ElementSize * p \in Nat
    BY <1>1
  <1>3. ElementSize * (p + 1) <= ElementSize * Capacity /\ ElementSize * Capacity \in Nat
    <2>1. p + 1 \in Nat /\ Capacity - (p + 1) \in Nat
      BY <1>1
    <2>2. ElementSize * Capacity = ElementSize * (p + 1) + ElementSize * (Capacity - (p + 1))
      BY <1>1
    <2>3. \A k \in Nat : ElementSize * k \in Nat
      BY <1>1
    <2> QED BY <1>1, <2>1, <2>2, <2>3
  <1>4. ElementSize * Capacity = Capacity * ElementSize
    BY <1>1
  <1> QED BY <1>1, <1>2, <1>3, <1>4 DEF Byte

LEMMA InitContent == Init => Content
PROOF
  <1> SUFFICES ASSUME Init PROVE Content
    OBVIOUS
  <1>1. Capacity \in Nat \ {0} /\ ElementSize \in Nat \ {0}
    BY CbufAssumption
  <1>2. ASSUME NEW p \in 0 .. Capacity - 1, NEW h \in 0 .. ElementSize - 1
        PROVE  ElementSize * p + h \in Byte
    BY <1>1, <1>2, PlaceIsByte
  <1>3. 0 % Capacity = 0
    BY <1>1, Wrap
  <1> QED BY <1>2, <1>3 DEF Init, Content

LEMMA NextContent == IInv /\ Content /\ [Next]_vars => Content'
PROOF
  <1> SUFFICES ASSUME IInv, Content, [Next]_vars PROVE Content'
    OBVIOUS
  <1>1. /\ Capacity \in Nat \ {0} /\ ElementSize \in Nat \ {0} /\ Chunk \in Nat
        /\ m_write \in 0 .. Capacity - 1 /\ put \in Nat /\ taken \in Nat
        /\ m_buffer \in [Byte -> Nat \cup {Nothing}]
        /\ enqueued \in Nat /\ enqueued <= Capacity - 1 /\ written \in 0 .. enqueued
    BY CbufAssumption DEF IInv, TypeOK, Smaller
  <1>2. /\ put % Capacity = m_write
        /\ Begun \in Nat /\ put <= Begun
    BY <1>1 DEF Content, Begun
  <1>3. ASSUME NEW p \in 0 .. Capacity - 1, NEW h \in 0 .. ElementSize - 1
        PROVE  /\ m_buffer[ElementSize * p + h] \in Nat \cup {Nothing}
               /\ \/ m_buffer[ElementSize * p + h] = Nothing
                  \/ /\ m_buffer[ElementSize * p + h] % Capacity = p
                     /\ m_buffer[ElementSize * p + h] < Begun
    <2>1. ElementSize * p + h \in Byte
      BY <1>1, <1>3, PlaceIsByte
    <2> QED BY <1>1, <2>1 DEF Content
  <1>4. ASSUME UNCHANGED m_buffer, put' % Capacity = m_write', Begun' \in Nat, Begun <= Begun'
        PROVE  Content'
    <2>1. ASSUME NEW p \in 0 .. Capacity - 1, NEW h \in 0 .. ElementSize - 1,
                 m_buffer[ElementSize * p + h] # Nothing
          PROVE  /\ m_buffer[ElementSize * p + h] % Capacity = p
                 /\ m_buffer[ElementSize * p + h] < Begun'
      <3> DEFINE held == m_buffer[ElementSize * p + h]
      <3>1. held \in Nat /\ held % Capacity = p /\ held < Begun
        BY <1>3, <2>1
      <3> HIDE DEF held
      <3>2. held < Begun'
        BY <1>2, <1>4, <3>1
      <3> QED BY <3>1, <3>2 DEF held
    <2> QED BY <1>4, <2>1 DEF Content
  <1>5. CASE Enqueue
    <2>1. enqueued' \in Nat /\ 0 <= enqueued'
      <3>1. IInv'
        BY NextIInv
      <3> QED BY <1>1, <3>1 DEF IInv, TypeOK, Smaller
    <2>2. /\ UNCHANGED <<m_buffer, m_write, put>> /\ producer = "mixing" /\ producer' = "copying"
      BY <1>5 DEF Enqueue
    <2>3. Begun' \in Nat /\ Begun <= Begun'
      <3>1. Begun = put /\ Begun' = put + enqueued'
        BY <1>1, <2>2 DEF Begun
      <3>2. \A e \in Nat : put + e \in Nat /\ put <= put + e
        BY <1>1
      <3> QED BY <2>1, <3>1, <3>2, Zenon
    <2> QED BY <1>2, <1>4, <2>2, <2>3
  <1>6. CASE CopyIn
    <2> DEFINE s == SampleOf(m_write, written)
               place == PlaceOf(m_write, written)
               q == Advanced(m_write, s)
    <2>1. /\ producer = "copying" /\ written < enqueued
          /\ m_buffer' = [m_buffer EXCEPT ![place] = put + s]
          /\ UNCHANGED <<m_write, producer, enqueued, put>>
      BY <1>6 DEF CopyIn
    <2>2. /\ s \in 0 .. written /\ written \in 0 .. Capacity - 1
          /\ \E j \in 0 .. ElementSize - 1 : place = ElementSize * q + j
      BY <1>1, <2>1, CopyFacts
    <2>3. PICK j \in 0 .. ElementSize - 1 : place = ElementSize * q + j
      BY <2>2
    <2> HIDE DEF s, place
    <2>4. s \in Nat /\ s \in 0 .. Capacity - 1 /\ s < enqueued
      BY <1>1, <2>1, <2>2
    <2>5. q \in 0 .. Capacity - 1 /\ q = IF m_write + s < Capacity THEN m_write + s
                                         ELSE m_write + s - Capacity
      BY <1>1, <2>4, AdvancedFacts
    <2> HIDE DEF q
    <2>6. (put + s) % Capacity = q
      BY <1>1, <1>2, <2>4, <2>5, Onward
    <2>7. Begun = put + enqueued /\ Begun' = Begun
      BY <2>1 DEF Begun
    <2>8. put + s < Begun
      BY <1>1, <2>4, <2>7
    <2>9. ASSUME NEW p \in 0 .. Capacity - 1, NEW h \in 0 .. ElementSize - 1,
                 m_buffer'[ElementSize * p + h] # Nothing
          PROVE  /\ m_buffer'[ElementSize * p + h] % Capacity = p
                 /\ m_buffer'[ElementSize * p + h] < Begun
      <3> DEFINE b == ElementSize * p + h
      <3>1. b \in Byte
        BY <1>1, <2>9, PlaceIsByte
      <3>2. CASE b = place
        <4>1. p = q
          <5>1. ElementSize * p + h = ElementSize * q + j /\ p \in Int /\ q \in Int
            BY <1>1, <2>3, <2>5, <2>9, <3>2
          <5> QED BY <1>1, <5>1, Division
        <4>2. m_buffer'[b] = put + s
          BY <1>1, <2>1, <3>1, <3>2
        <4> QED BY <2>6, <2>8, <4>1, <4>2
      <3>3. CASE b # place
        <4>1. m_buffer'[b] = m_buffer[b]
          BY <1>1, <2>1, <3>1, <3>3
        <4> QED BY <1>3, <2>9, <4>1
      <3> QED BY <3>2, <3>3
    <2> QED BY <1>2, <2>1, <2>7, <2>9 DEF Content
  <1>7. CASE Publish
    <2>1. /\ UNCHANGED m_buffer /\ m_write' = Advanced(m_write, enqueued)
          /\ put' = put + enqueued /\ producer = "copying" /\ producer' = "mixing"
      BY <1>7 DEF Publish, Advanced
    <2>2. enqueued \in 0 .. Capacity - 1
      BY <1>1
    <2>3. put' % Capacity = m_write'
      <3>1. (put + enqueued) % Capacity = IF m_write + enqueued < Capacity
                                          THEN m_write + enqueued
                                          ELSE m_write + enqueued - Capacity
        BY <1>1, <1>2, <2>2, Onward
      <3>2. Advanced(m_write, enqueued) = IF m_write + enqueued < Capacity
                                          THEN m_write + enqueued
                                          ELSE m_write + enqueued - Capacity
        BY <1>1, <2>2, AdvancedFacts
      <3> QED BY <2>1, <3>1, <3>2
    <2>4. Begun' = Begun
      BY <1>1, <2>1 DEF Begun
    <2> QED BY <1>2, <1>4, <2>1, <2>3, <2>4
  <1>8. CASE Consume \/ UNCHANGED vars
    <2>1. UNCHANGED producerVars
      BY <1>8 DEF Consume, Callback, Dequeue, CopyOut, Release, vars
    <2>2. UNCHANGED <<m_write, m_buffer, put>> /\ Begun' = Begun
      BY <2>1 DEF producerVars, Begun
    <2> QED BY <1>2, <1>4, <2>2
  <1> QED BY <1>5, <1>6, <1>7, <1>8 DEF Next, Produce

\* An unread sample is never overwritten by a later one, in any byte.
THEOREM NothingOverwrittenHolds == Spec => []NothingOverwritten
PROOF
  <1>1. IInv /\ Content => NothingOverwritten
    <2> SUFFICES ASSUME IInv, Content, NEW n \in taken .. put - 1,
                        NEW h \in 0 .. ElementSize - 1
                 PROVE  LET held == m_buffer[ElementSize * (n % Capacity) + h]
                        IN  held = Nothing \/ (held <= n /\ held % Capacity = n % Capacity)
      BY DEF NothingOverwritten
    <2> DEFINE p == n % Capacity
               held == m_buffer[ElementSize * p + h]
    <2>1. /\ Capacity \in Nat \ {0} /\ ElementSize \in Nat \ {0} /\ put \in Nat /\ taken \in Nat
          /\ m_buffer \in [Byte -> Nat \cup {Nothing}] /\ enqueued \in Nat /\ n \in Nat
      BY CbufAssumption DEF IInv, TypeOK, Smaller
    <2>2. p \in 0 .. Capacity - 1
      BY <2>1
    <2>3. ElementSize * p + h \in Byte
      BY <2>1, <2>2, PlaceIsByte
    <2>4. held \in Nat \cup {Nothing} /\ (held = Nothing \/ (held % Capacity = p /\ held < Begun))
      BY <2>1, <2>2, <2>3 DEF Content
    <2>5. Begun <= taken + Capacity - 1
      BY <2>1 DEF IInv, Begun
    <2>6. Begun \in Nat /\ taken <= n
      BY <2>1 DEF Begun
    <2> HIDE DEF held
    <2>7. ASSUME held # Nothing
          PROVE  held <= n
      <3>1. held \in Nat /\ held % Capacity = n % Capacity /\ held < Begun
        BY <2>4, <2>7
      <3>2. held < n + Capacity
        BY <2>1, <2>5, <2>6, <3>1
      <3> QED BY <2>1, <3>1, <3>2, SamePlace
    <2> QED BY <2>4, <2>7 DEF held
  <1> QED BY <1>1, InitContent, NextContent, Safety, PTL DEF Spec
=============================================================================
