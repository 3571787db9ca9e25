--------------------------------- MODULE Cbuf ---------------------------------
(***************************************************************************)
(* How sound gets from the core thread to the audio device: the lock-free   *)
(* ring of common/cbuf.hpp, filled by Spu::Tick (core/spu.cpp) and emptied  *)
(* by AudioCallback (main.cpp) on the thread SDL makes for it.              *)
(*                                                                         *)
(* Indices and counts are in elements, but memcpy counts BYTES: of an       *)
(* element of more than one byte, only the first part of a chunk is copied. *)
(* The ring is therefore kept byte by byte.  A byte holds the number of the *)
(* sample it was copied from: sample n is the one whose place is n modulo   *)
(* the capacity.                                                            *)
(***************************************************************************)
EXTENDS Integers

CONSTANTS
    Capacity,           \* 8192
    ElementSize,        \* sizeof(T): 2
    Chunk,              \* SoundBufferSize: 256
    Request,            \* samples the audio device asks for: 4096
    MaxSamples          \* bound on the samples produced

ASSUME CbufAssumption ==
    /\ {Capacity, ElementSize, Chunk, Request} \subseteq Nat \ {0}
    /\ MaxSamples \in Nat

Nothing == -1           \* what a byte holds before anything is copied there

VARIABLES
    m_read, m_write,    \* the atomics
    m_buffer,
    producer,           \* Spu::Tick: "mixing" or "copying" in Enqueue
    enqueued,           \* Enqueue's count
    written,            \* bytes its memcpys have copied
    consumer,           \* AudioCallback: "away", "asking", "copying" in Dequeue
    asked,              \* what the callback passes to Dequeue
    dequeued,           \* Dequeue's count
    fetched,            \* bytes its memcpys have copied
    put, taken          \* history: samples enqueued and dequeued so far

producerVars == <<m_write, m_buffer, producer, enqueued, written, put>>
consumerVars == <<m_read, consumer, asked, dequeued, fetched, taken>>
vars == <<producerVars, consumerVars>>

Smaller(a, b) == IF a < b THEN a ELSE b

Byte == 0 .. Capacity * ElementSize - 1

TypeOK ==
    /\ m_read \in 0 .. Capacity - 1 /\ m_write \in 0 .. Capacity - 1
    /\ m_buffer \in [Byte -> Nat \cup {Nothing}]
    /\ producer \in {"mixing", "copying"}
    /\ enqueued \in 0 .. Smaller(Chunk, Capacity - 1) /\ written \in 0 .. enqueued
    /\ consumer \in {"away", "asking", "copying"}
    /\ asked \in 0 .. Smaller(Request, Capacity - 1)
    /\ dequeued \in 0 .. asked /\ fetched \in 0 .. dequeued
    /\ put \in Nat /\ taken \in Nat

Init ==
    /\ m_read = 0 /\ m_write = 0
    /\ m_buffer = [b \in Byte |-> Nothing]
    /\ producer = "mixing" /\ enqueued = 0 /\ written = 0
    /\ consumer = "away" /\ asked = 0 /\ dequeued = 0 /\ fetched = 0
    /\ put = 0 /\ taken = 0

-----------------------------------------------------------------------------
\* m_write may be behind m_read: the difference wraps around, as the code's
\* unsigned difference does for a capacity that is a power of two.
Size == (m_write - m_read) % Capacity

\* Fault: a full ring is told from an empty one by nothing.
AvailibleAll == Capacity - Size

Availible == Capacity - Size - 1

\* The byte of the ring that the two memcpys of `count' at index copy k-th: the
\* first goes to the end of the array, the second starts at its beginning.
PlaceOf(index, k) ==
    LET length1 == Capacity - index
    IN  IF k < length1 THEN ElementSize * index + k ELSE k - length1

\* ... and the sample of the chunk that byte belongs to.
SampleOf(index, k) ==
    LET length1 == Capacity - index
    IN  IF k < length1 THEN k \div ElementSize ELSE length1 + (k - length1) \div ElementSize

-----------------------------------------------------------------------------
(* The core thread.                                                         *)

\* Spu::Tick has filled m_sound_buffer: Enqueue, up to the memcpys.
Enqueue ==
    /\ producer = "mixing"
    /\ put + Chunk <= MaxSamples
    /\ producer' = "copying"
    /\ enqueued' = Smaller(Chunk, Availible)
    /\ written' = 0
    /\ UNCHANGED <<m_write, m_buffer, put, consumerVars>>

CopyIn ==
    /\ producer = "copying"
    /\ written < enqueued
    /\ m_buffer' = [m_buffer EXCEPT ![PlaceOf(m_write, written)] =
                      put + SampleOf(m_write, written)]
    /\ written' = written + 1
    /\ UNCHANGED <<m_write, producer, enqueued, put, consumerVars>>

\* Fault: m_write grows past the end of the array.
PublishNoWrap ==
    /\ producer = "copying"
    /\ written = enqueued
    /\ m_write' = m_write + enqueued
    /\ put' = put + enqueued
    /\ producer' = "mixing"
    /\ UNCHANGED <<m_buffer, enqueued, written, consumerVars>>

\* The store that lets the consumer see the samples.
Publish ==
    /\ producer = "copying"
    /\ written = enqueued
    /\ m_write' = (m_write + enqueued) % Capacity
    /\ put' = put + enqueued
    /\ producer' = "mixing"
    /\ UNCHANGED <<m_buffer, enqueued, written, consumerVars>>

-----------------------------------------------------------------------------
(* The audio thread.                                                        *)

\* AudioCallback takes Size() to ask for no more than there is.
Callback ==
    /\ consumer = "away"
    /\ asked' = Smaller(Size, Request)
    /\ dequeued' = 0 /\ fetched' = 0
    /\ consumer' = "asking"
    /\ UNCHANGED <<m_read, taken, producerVars>>

\* Dequeue takes Size() again; the core thread may have published since.
Dequeue ==
    /\ consumer = "asking"
    /\ dequeued' = Smaller(asked, Size)
    /\ consumer' = "copying"
    /\ UNCHANGED <<m_read, asked, fetched, taken, producerVars>>

\* What the copied byte holds is in m_buffer[PlaceOf(m_read, fetched)].
CopyOut ==
    /\ consumer = "copying"
    /\ fetched < dequeued
    /\ fetched' = fetched + 1
    /\ UNCHANGED <<m_read, consumer, asked, dequeued, taken, producerVars>>

\* Fault: m_read moves by what was asked for, before the copy.
ReleaseEarly ==
    /\ consumer = "copying"
    /\ IF fetched = 0
       THEN m_read' = (m_read + dequeued) % Capacity /\ taken' = taken + dequeued
       ELSE UNCHANGED <<m_read, taken>>
    /\ consumer' = IF fetched = dequeued THEN "away" ELSE "copying"
    /\ fetched' = IF fetched = dequeued THEN fetched ELSE fetched + 1
    /\ UNCHANGED <<asked, dequeued, producerVars>>

\* The store that lets the producer reuse the places.  The callback is over:
\* asked = dequeued, so neither of its memsets touches the stream.
Release ==
    /\ consumer = "copying"
    /\ fetched = dequeued
    /\ m_read' = (m_read + dequeued) % Capacity
    /\ taken' = taken + dequeued
    /\ consumer' = "away"
    /\ UNCHANGED <<asked, dequeued, fetched, producerVars>>

-----------------------------------------------------------------------------
Produce == Enqueue \/ CopyIn \/ Publish
Consume == Callback \/ Dequeue \/ CopyOut \/ Release

Next == Produce \/ Consume

\* The audio device keeps calling, and both threads finish what they began.
Spec == Init /\ [][Next]_vars /\ WF_vars(CopyIn \/ Publish) /\ WF_vars(Consume)

-----------------------------------------------------------------------------
(* What must hold of the ring.                                              *)

\* Without a lock, the bytes Enqueue copies and the bytes Dequeue copies are
\* never the same ones.
NoRace ==
    producer = "copying" /\ consumer = "copying" =>
        \A k \in 0 .. enqueued - 1, l \in 0 .. dequeued - 1 :
            PlaceOf(m_write, k) # PlaceOf(m_read, l)

\* A sample is not overwritten before it is read: a byte in the place of an unread
\* sample holds that sample, or what an earlier lap left there (of a chunk of
\* elements of two bytes only half is copied), never a later sample.
NothingOverwritten ==
    \A n \in taken .. put - 1, h \in 0 .. ElementSize - 1 :
        LET held == m_buffer[ElementSize * (n % Capacity) + h]
        IN  held = Nothing \/ (held <= n /\ held % Capacity = n % Capacity)

\* The callback gets exactly what it asked for, however the core thread
\* interleaves: what it has for a short read (main.cpp) is dead code.
NoShortRead == consumer = "copying" => dequeued = asked

\* Every sample that was put in the ring is taken out while the device plays.
SamplesArePlayed == \A n \in 1 .. MaxSamples : put >= n ~> taken >= n

\* The places form a queue of at most Capacity - 1 samples.
Fifo == INSTANCE BoundedFifo WITH Room <- Capacity - 1
RefinesBoundedFifo == Fifo!Spec
=============================================================================
