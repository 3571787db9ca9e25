--------------------------- MODULE SwapchainProofs ---------------------------
(***************************************************************************)
(* The hand-over of pictures, proved for pictures of every size and for     *)
(* every set of things the GPU can draw.                                    *)
(***************************************************************************)
EXTENDS Swapchain, TLAPS

Whole(f) == [r \in Row |-> f]
IsWhole(p) == \E f \in Frame \cup {Unset} : p = Whole(f)

\* What the producer may rely on: the buffer it fills stays its own until it
\* swaps, and what it has copied stays there.
ProducerInv ==
  /\ producer # "drawing" => target = m_index
  /\ producer = "copying" =>
       /\ copied < Rows
       /\ \A r \in Row : r <= copied => m_buffers[target][r] = framebuffer
  /\ producer = "swapping" => m_buffers[target] = Whole(framebuffer)

\* What the consumer may rely on: while it holds the mutex the buffer it copies
\* is the published one, which is whole.
ConsumerInv ==
  /\ m_mutex = "consumer" <=> consumer = "copying"
  /\ IsWhole(m_buffers[Other(m_index)])
  /\ consumer = "copying" =>
       /\ source = Other(m_index)
       /\ \A r \in Row : r <= fetched => texture[r] = m_buffers[source][r]
  /\ consumer = "waiting" => texture = screen
  /\ consumer = "presenting" => IsWhole(texture)
  /\ IsWhole(screen)

IInv == TypeOK /\ ProducerInv /\ ConsumerInv

-----------------------------------------------------------------------------
\* Two pictures that agree on every row are the same picture.
LEMMA SamePicture ==
  ASSUME NEW p \in Picture, NEW q \in Picture, \A r \in Row : p[r] = q[r]
  PROVE  p = q
BY DEF Picture

\* A whole picture is a picture, whose rows are all alike.
LEMMA WholeFacts ==
  ASSUME NEW f \in Frame \cup {Unset}
  PROVE  Whole(f) \in Picture /\ IsWhole(Whole(f)) /\ \A r \in Row : Whole(f)[r] = f
BY DEF Whole, IsWhole, Picture

LEMMA OtherFacts ==
  ASSUME NEW i \in {0, 1}
  PROVE  Other(i) \in {0, 1} /\ Other(i) # i /\ Other(Other(i)) = i
BY DEF Other

\* The strengthened invariant holds initially.
LEMMA InitIInv == Init => IInv
PROOF
  <1> SUFFICES ASSUME Init PROVE IInv
    OBVIOUS
  <1>1. Whole(Unset) \in Picture /\ IsWhole(Whole(Unset))
    BY WholeFacts
  <1>2. /\ m_buffers = [i \in {0, 1} |-> Whole(Unset)] /\ m_index = 0
        /\ texture = Whole(Unset) /\ screen = Whole(Unset)
    BY DEF Init, Whole
  <1>3. 0 \in 0 .. Rows /\ Other(0) \in {0, 1}
    BY SwapchainAssumption, OtherFacts
  <1>4. TypeOK
    BY <1>1, <1>2, <1>3 DEF Init, TypeOK
  <1>5. ProducerInv
    BY DEF Init, ProducerInv
  <1>6. ConsumerInv
    BY <1>1, <1>2, <1>3 DEF Init, ConsumerInv
  <1> QED BY <1>4, <1>5, <1>6 DEF IInv

\* Every step keeps it.
LEMMA NextIInv == IInv /\ [Next]_vars => IInv'
PROOF
  <1> SUFFICES ASSUME IInv, [Next]_vars PROVE IInv'
    OBVIOUS
  <1> USE DEF IInv
  <1>0. /\ framebuffer \in Frame /\ m_buffers \in [{0, 1} -> Picture]
        /\ m_index \in {0, 1} /\ target \in {0, 1} /\ source \in {0, 1}
        /\ copied \in 0 .. Rows /\ fetched \in 0 .. Rows
        /\ texture \in Picture /\ screen \in Picture
        /\ Other(m_index) \in {0, 1} /\ Other(m_index) # m_index
        /\ Other(Other(m_index)) = m_index /\ Rows \in Nat \ {0}
    BY OtherFacts, SwapchainAssumption DEF TypeOK
  <1>1. ASSUME NEW f \in Frame, Draw(f)
        PROVE  IInv'
    BY <1>1 DEF Draw, consumerVars, TypeOK, ProducerInv, ConsumerInv
  <1>2. CASE Vblank
    <2>1. TypeOK' /\ ConsumerInv'
      BY <1>0, <1>2 DEF Vblank, consumerVars, TypeOK, ConsumerInv
    <2>2. ProducerInv'
      <3>1. \A r \in Row : ~(r <= 0)
        BY DEF Row
      <3> QED BY <1>0, <1>2, <3>1 DEF Vblank, ProducerInv
    <2> QED BY <2>1, <2>2
  <1>3. CASE CopyRow
    <2> DEFINE row == copied + 1
               old == m_buffers[target]
               new == [old EXCEPT ![row] = framebuffer]
    <2>1. /\ target = m_index /\ copied < Rows /\ producer = "copying"
          /\ \A r \in Row : r <= copied => old[r] = framebuffer
      BY <1>3 DEF CopyRow, ProducerInv
    <2>2. row \in Row /\ row \in 0 .. Rows /\ old \in Picture
      BY <1>0, <2>1 DEF Row
    <2>3. /\ new \in Picture /\ new[row] = framebuffer
          /\ \A r \in Row : r # row => new[r] = old[r]
      BY <1>0, <2>2 DEF Picture
    <2>4. /\ m_buffers' = [m_buffers EXCEPT ![target] = new]
          /\ copied' = row /\ target' = target /\ framebuffer' = framebuffer
          /\ m_index' = m_index /\ m_mutex' = m_mutex /\ UNCHANGED consumerVars
          /\ producer' = IF row = Rows THEN "swapping" ELSE "copying"
      BY <1>3 DEF CopyRow
    <2> HIDE DEF new, old
    <2>5. m_buffers' \in [{0, 1} -> Picture] /\ m_buffers'[target] = new
      BY <1>0, <2>3, <2>4
    <2>6. m_buffers'[Other(m_index)] = m_buffers[Other(m_index)]
      BY <1>0, <2>1, <2>4
    <2>7. TypeOK'
      BY <1>0, <2>2, <2>4, <2>5 DEF TypeOK, consumerVars
    <2>8. ConsumerInv'
      BY <2>4, <2>6 DEF ConsumerInv, consumerVars
    <2>9. \A r \in Row : r <= row => new[r] = framebuffer
      <3>1. \A r \in Row : r <= row => r <= copied \/ r = row
        BY <1>0 DEF Row
      <3> QED BY <2>1, <2>3, <3>1
    <2>10. row = Rows => new = Whole(framebuffer)
      <3>1. Whole(framebuffer) \in Picture /\ \A r \in Row : Whole(framebuffer)[r] = framebuffer
        BY <1>0, WholeFacts
      <3>2. row = Rows => \A r \in Row : new[r] = framebuffer
        BY <1>0, <2>9 DEF Row
      <3> QED BY <2>3, <3>1, <3>2, SamePicture
    <2>11. row # Rows => row < Rows
      BY <1>0, <2>2
    <2>12. ProducerInv'
      BY <2>1, <2>4, <2>5, <2>9, <2>10, <2>11 DEF ProducerInv, Whole
    <2> QED BY <2>7, <2>8, <2>12
  <1>4. CASE Swap
    <2>1. /\ target = m_index /\ m_buffers[target] = Whole(framebuffer)
          /\ consumer # "copying" /\ m_mutex = "none"
      BY <1>4 DEF Swap, ProducerInv, ConsumerInv
    <2>2. /\ m_index' = Other(m_index) /\ m_buffers' = m_buffers /\ m_mutex' = m_mutex
          /\ producer' = "drawing" /\ UNCHANGED <<framebuffer, target, copied, consumerVars>>
      BY <1>4 DEF Swap
    <2>3. TypeOK'
      BY <1>0, <2>2 DEF TypeOK, consumerVars
    <2>4. IsWhole(m_buffers'[Other(m_index')])
      BY <1>0, <2>1, <2>2, WholeFacts
    <2>5. ConsumerInv'
      BY <2>1, <2>2, <2>4 DEF ConsumerInv, consumerVars
    <2>6. ProducerInv'
      BY <2>2 DEF ProducerInv
    <2> QED BY <2>3, <2>5, <2>6
  <1>5. CASE Lock
    <2>1. TypeOK' /\ ProducerInv'
      BY <1>0, <1>5 DEF Lock, producerVars, TypeOK, ProducerInv
    <2>2. \A r \in Row : ~(r <= 0)
      BY DEF Row
    <2>3. ConsumerInv'
      BY <1>5, <2>2 DEF Lock, ConsumerInv
    <2> QED BY <2>1, <2>3
  <1>6. CASE FetchRow
    <2> DEFINE row == fetched + 1
               from == m_buffers[source]
    <2>1. row \in Row /\ row \in 0 .. Rows /\ from \in Picture
      BY <1>0, <1>6 DEF Row, FetchRow
    <2>2. /\ texture' = [texture EXCEPT ![row] = from[row]] /\ fetched' = row
          /\ consumer = "copying" /\ consumer' = consumer
          /\ UNCHANGED <<m_buffers, m_index, m_mutex, producerVars, source, screen>>
      BY <1>6 DEF FetchRow
    <2>3. texture' \in Picture /\ \A r \in Row : texture'[r] = IF r = row THEN from[r] ELSE texture[r]
      BY <1>0, <2>1, <2>2 DEF Picture
    <2>4. \A r \in Row : r <= row => texture'[r] = from[r]
      <3>1. \A r \in Row : r <= row => r <= fetched \/ r = row
        BY <1>0 DEF Row
      <3> QED BY <2>2, <2>3, <3>1 DEF ConsumerInv
    <2>5. TypeOK'
      BY <1>0, <2>1, <2>2, <2>3 DEF TypeOK, producerVars
    <2>6. ConsumerInv'
      BY <2>2, <2>4 DEF ConsumerInv
    <2>7. ProducerInv'
      BY <2>2 DEF ProducerInv, producerVars
    <2> QED BY <2>5, <2>6, <2>7
  <1>7. CASE Unlock
    <2>1. TypeOK' /\ ProducerInv'
      BY <1>0, <1>7 DEF Unlock, producerVars, TypeOK, ProducerInv
    <2>2. texture = m_buffers[source] /\ source = Other(m_index)
      <3>1. \A r \in Row : r <= fetched
        BY <1>7 DEF Unlock, Row
      <3>2. m_buffers[source] \in Picture
        BY <1>0
      <3> QED BY <1>0, <1>7, <3>1, <3>2, SamePicture DEF Unlock, ConsumerInv
    <2>3. ConsumerInv'
      BY <1>7, <2>2 DEF Unlock, ConsumerInv
    <2> QED BY <2>1, <2>3
  <1>8. CASE Present
    <2>1. TypeOK' /\ ProducerInv'
      BY <1>0, <1>8 DEF Present, producerVars, TypeOK, ProducerInv
    <2>2. ConsumerInv'
      BY <1>8 DEF Present, ConsumerInv
    <2> QED BY <2>1, <2>2
  <1>9. CASE UNCHANGED vars
    BY <1>9 DEF vars, producerVars, consumerVars, TypeOK, ProducerInv, ConsumerInv
  <1> QED BY <1>1, <1>2, <1>3, <1>4, <1>5, <1>6, <1>7, <1>8, <1>9
          DEF Next, Produce, Consume

-----------------------------------------------------------------------------
\* In every reachable state both threads may rely on what the invariant says.
THEOREM Safety == Spec => []IInv
PROOF
  <1> QED BY InitIInv, NextIInv, PTL DEF Spec

\* Types: indices stay in range and copies stop at the last row.
THEOREM TypeCorrect == Spec => []TypeOK
PROOF
  <1>1. IInv => TypeOK
    BY DEF IInv
  <1> QED BY <1>1, Safety, PTL

\* The core thread copies without the mutex, and yet the two threads never
\* touch the same buffer.
THEOREM NoRaceHolds == Spec => []NoRace
PROOF
  <1>1. IInv => NoRace
    BY OtherFacts DEF IInv, TypeOK, ProducerInv, ConsumerInv, NoRace
  <1> QED BY <1>1, Safety, PTL

\* What the main thread presents is one picture, from the first row to the last.
THEOREM NoTearingHolds == Spec => []NoTearing
PROOF
  <1>1. IInv => NoTearing
    <2> SUFFICES ASSUME IsWhole(screen) PROVE NoTearing
      BY DEF IInv, ConsumerInv
    <2>1. 1 \in Row
      BY SwapchainAssumption DEF Row
    <2> QED BY <2>1 DEF IsWhole, Whole, NoTearing
  <1> QED BY <1>1, Safety, PTL

\* The swapchain implements the register of whole pictures: the swap publishes
\* the picture, the end of the consumer's copy takes the one published last.
THEOREM RefinesFrameRegisterHolds == Spec => RefinesFrameRegister
PROOF
  <1> DEFINE taken == IF consumer = "copying" THEN screen ELSE texture
             latest == m_buffers[Other(m_index)]
  <1>1. Init => Register!Init
    BY OtherFacts DEF Init, Register!Init, Register!Whole
  <1>2. IInv /\ [Next]_vars => [Register!Next]_<<latest, taken>>
    <2> SUFFICES ASSUME IInv, [Next]_vars
                 PROVE  [Register!Next]_<<latest, taken>>
      OBVIOUS
    <2>1. /\ framebuffer \in Frame /\ m_buffers \in [{0, 1} -> Picture]
          /\ m_index \in {0, 1} /\ target \in {0, 1}
          /\ texture \in Picture
          /\ Other(m_index) \in {0, 1} /\ Other(m_index) # m_index
          /\ Other(Other(m_index)) = m_index
      BY OtherFacts DEF IInv, TypeOK
    <2>2. ProducerInv /\ ConsumerInv
      BY DEF IInv
    <2>3. ASSUME NEW f \in Frame, Draw(f)
          PROVE  UNCHANGED <<latest, taken>>
      BY <2>3 DEF Draw, consumerVars
    <2>4. CASE Vblank
      BY <2>4 DEF Vblank, consumerVars
    <2>5. CASE CopyRow
      BY <2>1, <2>2, <2>5 DEF CopyRow, consumerVars, ProducerInv
    <2>6. CASE Swap
      <3>1. m_buffers[m_index] = Register!Whole(framebuffer)
        BY <2>2, <2>6 DEF Swap, ProducerInv, Whole, Register!Whole
      <3>2. latest' = Register!Whole(framebuffer) /\ UNCHANGED taken
        BY <2>1, <2>6, <3>1 DEF Swap, consumerVars
      <3> QED BY <2>1, <3>2 DEF Register!Next, Register!Publish
    <2>7. CASE Lock
      BY <2>2, <2>7 DEF Lock, ConsumerInv
    <2>8. CASE FetchRow
      BY <2>8 DEF FetchRow
    <2>9. CASE Unlock
      <3>1. texture = m_buffers[source] /\ source = Other(m_index)
        <4>1. \A r \in Row : r <= fetched
          BY <2>9 DEF Unlock, Row
        <4>2. m_buffers[source] \in Picture /\ source = Other(m_index)
          BY <2>1, <2>2, <2>9 DEF Unlock, ConsumerInv
        <4> QED BY <2>1, <2>2, <2>9, <4>1, <4>2, SamePicture DEF Unlock, ConsumerInv
      <3>2. taken' = latest /\ UNCHANGED latest
        BY <2>9, <3>1 DEF Unlock
      <3> QED BY <3>2 DEF Register!Next, Register!Take
    <2>10. CASE Present
      BY <2>10 DEF Present
    <2>11. CASE UNCHANGED vars
      BY <2>11 DEF vars, consumerVars
    <2> QED BY <2>3, <2>4, <2>5, <2>6, <2>7, <2>8, <2>9, <2>10, <2>11
            DEF Next, Produce, Consume
  <1> QED BY <1>1, <1>2, Safety, PTL DEF Spec, RefinesFrameRegister, Register!Spec
=============================================================================
