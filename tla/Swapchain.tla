------------------------------- MODULE Swapchain -------------------------------
(***************************************************************************)
(* How a picture gets from the core thread to the screen: the two buffers   *)
(* of common/swapchain.hpp, the callback of Vblank that copies the          *)
(* framebuffer into one and swaps (core/emulator.cpp), and the loop of the  *)
(* main thread that copies the other into a texture (main.cpp).             *)
(*                                                                         *)
(* The producer copies WITHOUT the mutex, into the buffer its own index     *)
(* names; only the swap and the consumer's copy are under it.  Copies are   *)
(* made row by row, so that the two threads can meet in the middle of one.  *)
(***************************************************************************)
EXTENDS Integers

CONSTANTS Frame, Rows, Unset

ASSUME SwapchainAssumption == Rows \in Nat \ {0} /\ Unset \notin Frame

Row == 1 .. Rows
Picture == [Row -> Frame \cup {Unset}]

VARIABLES
    framebuffer,        \* the GPU's picture, constant while a callback runs
    m_buffers,          \* the two pictures of the swapchain
    m_index,            \* the producer's buffer
    m_mutex,            \* who holds the mutex
    producer,           \* core thread: "drawing", "copying", "swapping"
    target,             \* the buffer it copies to: the reference ProducerBuffer()
                        \* returned
    copied,             \* rows it has copied
    consumer,           \* main thread: "waiting", "copying", "presenting"
    source,             \* the buffer it copies from: the reference WithConsumer
                        \* passed to the function
    fetched,            \* rows it has copied
    texture,            \* the texture it copies to
    screen              \* the picture presented last

producerVars == <<framebuffer, producer, target, copied>>
consumerVars == <<consumer, source, fetched, texture, screen>>
vars == <<m_buffers, m_index, m_mutex, producerVars, consumerVars>>

Other(i) == 1 - i

TypeOK ==
    /\ framebuffer \in Frame
    /\ m_buffers \in [{0, 1} -> Picture]
    /\ m_index \in {0, 1}
    /\ m_mutex \in {"none", "consumer"}
    /\ producer \in {"drawing", "copying", "swapping"}
    /\ target \in {0, 1} /\ copied \in 0 .. Rows
    /\ consumer \in {"waiting", "copying", "presenting"}
    /\ source \in {0, 1} /\ fetched \in 0 .. Rows
    /\ texture \in Picture
    /\ screen \in Picture

Init ==
    /\ framebuffer \in Frame
    /\ m_buffers = [i \in {0, 1} |-> [r \in Row |-> Unset]]
    /\ m_index = 0
    /\ m_mutex = "none"
    /\ producer = "drawing" /\ target = 0 /\ copied = 0
    /\ consumer = "waiting" /\ source = 1 /\ fetched = 0
    /\ texture = [r \in Row |-> Unset] /\ screen = texture

-----------------------------------------------------------------------------
(* The core thread.                                                         *)

\* Guest code draws.
Draw(f) ==
    /\ producer = "drawing"
    /\ framebuffer' = f
    /\ UNCHANGED <<m_buffers, m_index, m_mutex, producer, target, copied, consumerVars>>

\* The callback of Vblank takes ProducerBuffer().
Vblank ==
    /\ producer = "drawing"
    /\ producer' = "copying"
    /\ target' = m_index
    /\ copied' = 0
    /\ UNCHANGED <<m_buffers, m_index, m_mutex, framebuffer, consumerVars>>

\* Fault: the callback swaps one row before the copy is done.
CopyRowShort ==
    /\ producer = "copying"
    /\ m_buffers' = [m_buffers EXCEPT ![target][copied + 1] = framebuffer]
    /\ copied' = copied + 1
    /\ producer' = IF copied' >= Rows - 1 THEN "swapping" ELSE "copying"
    /\ UNCHANGED <<m_index, m_mutex, framebuffer, target, consumerVars>>

\* Fault: the copy goes on past the last row.
CopyRowPastEnd ==
    /\ producer = "copying"
    /\ m_buffers' = [m_buffers EXCEPT ![target][copied + 1] = framebuffer]
    /\ copied' = copied + 1
    /\ producer' = IF copied' > Rows THEN "swapping" ELSE "copying"
    /\ UNCHANGED <<m_index, m_mutex, framebuffer, target, consumerVars>>

\* memcpy into ProducerBuffer(), no lock held.
CopyRow ==
    /\ producer = "copying"
    /\ m_buffers' = [m_buffers EXCEPT ![target][copied + 1] = framebuffer]
    /\ copied' = copied + 1
    /\ producer' = IF copied' = Rows THEN "swapping" ELSE "copying"
    /\ UNCHANGED <<m_index, m_mutex, framebuffer, target, consumerVars>>

\* Fault: the index is flipped without the mutex.
SwapUnlocked ==
    /\ producer = "swapping"
    /\ m_index' = Other(m_index)
    /\ producer' = "drawing"
    /\ UNCHANGED <<m_buffers, m_mutex, framebuffer, target, copied, consumerVars>>

\* Swap: nothing but the index changes while the core thread holds the mutex,
\* so that it is one step, which waits for the consumer.
Swap ==
    /\ producer = "swapping"
    /\ m_mutex = "none"
    /\ m_index' = Other(m_index)
    /\ producer' = "drawing"
    /\ UNCHANGED <<m_buffers, m_mutex, framebuffer, target, copied, consumerVars>>

-----------------------------------------------------------------------------
(* The main thread: WithConsumer, and what the loop does with the texture.  *)

Lock ==
    /\ consumer = "waiting"
    /\ m_mutex = "none"
    /\ m_mutex' = "consumer"
    /\ consumer' = "copying"
    /\ source' = Other(m_index)
    /\ fetched' = 0
    /\ UNCHANGED <<m_buffers, m_index, producerVars, texture, screen>>

FetchRow ==
    /\ consumer = "copying"
    /\ fetched < Rows
    /\ texture' = [texture EXCEPT ![fetched + 1] = m_buffers[source][fetched + 1]]
    /\ fetched' = fetched + 1
    /\ UNCHANGED <<m_buffers, m_index, m_mutex, producerVars, consumer, source, screen>>

\* The lock_guard goes out of scope.
Unlock ==
    /\ consumer = "copying"
    /\ fetched = Rows
    /\ m_mutex' = "none"
    /\ consumer' = "presenting"
    /\ UNCHANGED <<m_buffers, m_index, producerVars, source, fetched, texture, screen>>

\* SDL_RenderCopy and SDL_RenderPresent.
Present ==
    /\ consumer = "presenting"
    /\ screen' = texture
    /\ consumer' = "waiting"
    /\ UNCHANGED <<m_buffers, m_index, m_mutex, producerVars, source, fetched, texture>>

-----------------------------------------------------------------------------
Produce == Vblank \/ CopyRow \/ Swap
Consume == Lock \/ FetchRow \/ Unlock \/ Present

Next == (\E f \in Frame : Draw(f)) \/ Produce \/ Consume

Spec == Init /\ [][Next]_vars

-----------------------------------------------------------------------------
(* What must hold of the hand-over.                                         *)

\* The producer writes without the mutex, through a reference it took before,
\* yet never into the buffer the consumer is reading.
NoRace == producer = "copying" /\ consumer = "copying" => target # source

\* Every picture presented is one the GPU had drawn, from its first row to its
\* last (or none was published yet).
NoTearing == \A r \in Row : screen[r] = screen[1]

\* The hand-over is a register of whole pictures: publishing is the swap, taking
\* is the end of the consumer's copy.
Register == INSTANCE FrameRegister WITH
    latest <- m_buffers[Other(m_index)],
    taken  <- IF consumer = "copying" THEN screen ELSE texture
RefinesFrameRegister == Register!Spec
=============================================================================
