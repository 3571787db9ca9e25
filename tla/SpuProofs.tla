------------------------------- MODULE SpuProofs -------------------------------
(***************************************************************************)
(* Voices never read behind sound RAM: proved for every number of voices,   *)
(* every size and content of sound RAM, all registers and any writes that   *)
(* leave a mark in the last block.  The volume of their envelopes moves as  *)
(* the phase says: proved for every value of the registers.                 *)
(***************************************************************************)
EXTENDS Spu, TLAPS

\* A voice is at the beginning of a block of the samples, and so is the place it
\* would repeat from; what it knows of the last block is its mark.
Fields ==
  {"state", "adsr_counter", "adsr_volume", "pitch", "address", "repeat_address", "adsr_l",
   "adsr_h", "header", "header_processed", "current_address", "counter", "sample"}

AtBlock(a) == a \in Nat /\ a <= LastBlock /\ (LastBlock - a) % 8 = 0 /\ a % 4 = 0

Knows(voice) ==
  voice.header_processed /\ voice.current_address = LastBlock => voice.header.end

Placed(voice) ==
  /\ DOMAIN voice = Fields
  /\ voice.pitch \in Halfword
  /\ voice.address \in Starts /\ voice.repeat_address \in Starts
  /\ voice.header_processed \in BOOLEAN
  /\ AtBlock(voice.current_address)
  /\ voice.counter \in 0 .. OneSample - 1 /\ voice.sample \in 0 .. 27
  /\ Knows(voice)

IInv ==
  /\ DOMAIN voices = Voices
  /\ \A v \in Voices : Placed(voices[v])
  /\ sound_ram[LastBlock].end

-----------------------------------------------------------------------------
LEMMA Sizes == LastBlock \in Nat /\ LastBlock % 8 = 0
               /\ SoundRamSize = LastBlock + 8
PROOF
  <1>1. SoundRamSize \in Nat /\ LastBlock \in Nat /\ LastBlock % WordsPerBlock = 0
    BY SoundRamAssumption
  <1> QED BY <1>1 DEF LastBlock, WordsPerBlock

LEMMA StartsAtBlock ==
  ASSUME NEW a \in Starts
  PROVE  AtBlock(4 * a) /\ a \in Halfword
PROOF
  <1>1. a \in Halfword /\ 4 * a <= LastBlock /\ (LastBlock - 4 * a) % 8 = 0
    BY DEF Starts, WordsPerBlock
  <1>2. 4 * a \in Nat /\ (4 * a) % 4 = 0
    BY <1>1 DEF Halfword
  <1> QED BY <1>1, <1>2 DEF AtBlock

\* Between the last block and another one there is at least a block.
LEMMA NextIsAtBlock ==
  ASSUME NEW a, AtBlock(a), a # LastBlock
  PROVE  AtBlock(a + 8)
PROOF
  <1> DEFINE d == LastBlock - a
  <1>1. LastBlock \in Nat /\ a \in Nat /\ a <= LastBlock /\ d % 8 = 0 /\ a % 4 = 0
    BY Sizes DEF AtBlock
  <1>2. d \in Nat /\ d # 0
    BY <1>1
  <1>3. d >= 8 /\ (d - 8) % 8 = 0
    <2>1. d % 8 = 0 /\ d \in Nat /\ d # 0
      BY <1>1, <1>2
    <2> HIDE DEF d
    <2> QED BY <2>1
  <1>4. (a + 8) % 4 = 0
    BY <1>1
  <1>5. LastBlock - (a + 8) = d - 8 /\ a + 8 <= LastBlock /\ a + 8 \in Nat
    BY <1>1, <1>3
  <1> QED BY <1>3, <1>4, <1>5 DEF AtBlock

\* An address in RAM, in the units of software, is one it could have written.
LEMMA BlockIsStart ==
  ASSUME NEW a, AtBlock(a)
  PROVE  a \div 4 \in Starts
PROOF
  <1>1. a \in Nat /\ a % 4 = 0 /\ a <= LastBlock /\ LastBlock \in Nat
    BY Sizes DEF AtBlock
  <1>2. 4 * (a \div 4) = a
    BY <1>1
  <1>4. a \div 4 \in Halfword
    <2>1. \A b \in 0 .. LastBlock : b \div 4 \in Halfword
      BY SoundRamAssumption
    <2> QED BY <1>1, <2>1
  <1>3. (LastBlock - a) % 8 = 0
    BY DEF AtBlock
  <1> QED BY <1>1, <1>2, <1>3, <1>4 DEF Starts, WordsPerBlock

-----------------------------------------------------------------------------
(* What each step of a tick does to the place of a voice.                   *)

\* The envelope leaves the place alone.
SamePlace(before, after) ==
  /\ DOMAIN after = DOMAIN before
  /\ \A f \in DOMAIN before \ {"state", "adsr_counter", "adsr_volume"} : after[f] = before[f]

LEMMA SamePlaceIsPlaced ==
  ASSUME NEW before, NEW after, Placed(before), SamePlace(before, after)
  PROVE  Placed(after)
PROOF
  BY DEF Placed, SamePlace, Fields, Knows

LEMMA EnvelopeStaysInPlace ==
  ASSUME NEW voice
  PROVE  SamePlace(voice, AdsrStep(voice))
PROOF
  <1>1. SamePlace(voice, AttackStep(voice))
    BY DEF AttackStep, SamePlace
  <1>2. SamePlace(voice, DecayStep(voice))
    BY DEF DecayStep, SamePlace
  <1>3. SamePlace(voice, SustainStep(voice))
    BY DEF SustainStep, SamePlace
  <1>4. SamePlace(voice, ReleaseStep(voice))
    BY DEF ReleaseStep, SamePlace
  <1>5. SamePlace(voice, EnvelopeStep(voice))
    <2>1. SamePlace(voice, voice)
      BY DEF SamePlace
    <2> QED BY <1>1, <1>2, <1>3, <1>4, <2>1, Zenon DEF EnvelopeStep
  <1>6. SamePlace(voice, [voice EXCEPT !.adsr_counter = CountDown(@)])
    BY DEF SamePlace
  <1> QED BY <1>5, <1>6, Zenon DEF AdsrStep

\* A header is read where the voice is, so the mark of the last block is noticed.
LEMMA HeaderPlaced ==
  ASSUME NEW voice, Placed(voice), NEW word,
         voice.current_address = LastBlock => word.end
  PROVE  Placed(WithHeader(voice, word)) /\ WithHeader(voice, word).header_processed
PROOF
  <1>1. CASE voice.header_processed
    BY <1>1 DEF WithHeader, Placed
  <1>2. CASE ~voice.header_processed
    <2> DEFINE new == WithHeader(voice, word)
    <2>1. voice.current_address \div 4 \in Starts
      BY BlockIsStart DEF Placed
    <2>2. new.repeat_address \in Starts
      BY <1>2, <2>1 DEF WithHeader, Placed, Fields
    <2>3. /\ DOMAIN new = Fields /\ new.header = word /\ new.header_processed
          /\ \A f \in Fields \ {"header", "header_processed", "repeat_address"} : new[f] = voice[f]
      BY <1>2 DEF WithHeader, Placed, Fields
    <2> HIDE DEF new
    <2>4. Placed(new)
      BY <2>2, <2>3 DEF Placed, Fields, Knows
    <2> QED BY <2>3, <2>4 DEF new
  <1> QED BY <1>1, <1>2 DEF Placed

\* At most four samples are passed in a tick.
LEMMA Divide ==
  ASSUME NEW n \in Nat \ {0}, NEW c \in 0 .. n - 1, NEW p \in 0 .. 4 * n
  PROVE  (c + p) % n \in 0 .. n - 1 /\ (c + p) \div n \in 0 .. 4
PROOF
  <1> DEFINE x == c + p
  <1>1. x \in Int /\ x >= 0 /\ x < 5 * n /\ n \in Int /\ n > 0
    OBVIOUS
  <1> HIDE DEF x
  <1>2. x % n \in 0 .. n - 1
    BY <1>1
  <1>3. x \div n \in Int /\ x \div n >= 0
    BY <1>1
  <1>4. x \div n < 5
    BY <1>1
  <1>5. x \div n \in 0 .. 4
    <2> DEFINE q == x \div n
    <2>1. q \in Int /\ q >= 0 /\ q < 5
      BY <1>3, <1>4
    <2> HIDE DEF q
    <2>2. q \in 0 .. 4
      BY <2>1
    <2> QED BY <2>2 DEF q
  <1> QED BY <1>2, <1>5 DEF x

LEMMA SteppedPlace ==
  ASSUME NEW voice, Placed(voice)
  PROVE  /\ Stepped(voice).counter \in 0 .. OneSample - 1
         /\ Stepped(voice).sample \in 0 .. 31
         /\ DOMAIN Stepped(voice) = Fields
         /\ \A f \in Fields \ {"counter", "sample"} : Stepped(voice)[f] = voice[f]
PROOF
  <1> DEFINE counter == voice.counter + Pitch(voice)
  <1>1. OneSample \in Nat \ {0}
    BY DEF OneSample
  <1>2. voice.pitch \in Nat
    <2>1. Halfword \subseteq Nat
      BY DEF Halfword
    <2> QED BY <2>1 DEF Placed
  <1>3. Pitch(voice) \in 0 .. 4 * OneSample
    BY <1>1, <1>2 DEF Pitch
  <1>4. voice.counter \in 0 .. OneSample - 1 /\ voice.sample \in 0 .. 27 /\ DOMAIN voice = Fields
    BY DEF Placed
  <1>5. counter % OneSample \in 0 .. OneSample - 1 /\ counter \div OneSample \in 0 .. 4
    BY <1>1, <1>3, <1>4, Divide
  <1>6. Stepped(voice) = [voice EXCEPT !.counter = counter % OneSample,
                                       !.sample = @ + counter \div OneSample]
    BY DEF Stepped
  <1> HIDE DEF counter
  <1>7. voice.sample + counter \div OneSample \in 0 .. 31
    BY <1>4, <1>5
  <1> QED BY <1>4, <1>5, <1>6, <1>7 DEF Fields

LEMMA AdvancePlaced ==
  ASSUME NEW voice, Placed(voice), voice.header_processed
  PROVE  Placed(Advance(voice))
PROOF
  <1> DEFINE next == Stepped(voice)
  <1>1. /\ next.counter \in 0 .. OneSample - 1 /\ next.sample \in 0 .. 31 /\ DOMAIN next = Fields
        /\ \A f \in Fields \ {"counter", "sample"} : next[f] = voice[f]
    BY SteppedPlace
  <1>2. CASE ~EndsBlock(voice)
    <2>1. next.sample \in 0 .. 27 /\ Advance(voice) = next
      BY <1>1, <1>2 DEF EndsBlock, Advance, SamplesPerBlock
    <2> HIDE DEF next
    <2> QED BY <1>1, <2>1 DEF Placed, Fields, Knows
  <1>3. CASE EndsBlock(voice)
    <2> DEFINE new == NextBlock(next)
    <2>1. next.sample - 28 \in 0 .. 27 /\ Advance(voice) = new
      BY <1>1, <1>3 DEF EndsBlock, Advance, SamplesPerBlock
    <2> HIDE DEF next
    <2>2. /\ DOMAIN new = Fields /\ new.header_processed = FALSE
          /\ new.sample = next.sample - 28 /\ new.counter = next.counter
          /\ new.pitch = next.pitch /\ new.address = next.address
          /\ new.repeat_address = next.repeat_address
      BY <1>1 DEF NextBlock, Fields, SamplesPerBlock
    <2>3. new.current_address = IF next.header.end THEN 4 * next.repeat_address
                                ELSE next.current_address + 8
      <3>1. CASE ~next.header.end
        <4>1. new = [next EXCEPT !.sample = @ - SamplesPerBlock, !.header_processed = FALSE,
                                 !.current_address = @ + WordsPerBlock]
          BY <3>1, Zenon DEF NextBlock
        <4> QED BY <1>1, <3>1, <4>1 DEF Fields, WordsPerBlock
      <3>2. CASE next.header.end /\ next.header.loop
        BY <1>1, <3>2 DEF NextBlock, Fields, WordsPerBlock
      <3>3. CASE next.header.end /\ ~next.header.loop
        BY <1>1, <3>3 DEF NextBlock, Fields, WordsPerBlock
      <3> QED BY <3>1, <3>2, <3>3
    <2> HIDE DEF new
    <2>4. AtBlock(new.current_address)
      <3>1. CASE next.header.end
        BY <1>1, <2>3, <3>1, StartsAtBlock DEF Placed, Fields
      <3>2. CASE ~next.header.end
        <4>1. next.current_address # LastBlock /\ AtBlock(next.current_address)
          BY <1>1, <3>2 DEF Placed, Knows, Fields
        <4> QED BY <2>3, <3>2, <4>1, NextIsAtBlock
      <3> QED BY <3>1, <3>2
    <2>5. Placed(new)
      BY <1>1, <2>1, <2>2, <2>4 DEF Placed, Fields, Knows
    <2> QED BY <2>1, <2>5
  <1> QED BY <1>2, <1>3

-----------------------------------------------------------------------------
(* What software writes.                                                    *)

LEMMA KeyedPlaced ==
  ASSUME NEW voice, Placed(voice)
  PROVE  Placed(Keyed(voice))
PROOF
  <1> DEFINE new == Keyed(voice)
  <1>1. /\ DOMAIN new = Fields /\ new.header_processed = FALSE
        /\ new.pitch = voice.pitch /\ new.address = voice.address
        /\ new.repeat_address = voice.address /\ new.current_address = 4 * voice.address
        /\ new.counter = 0 /\ new.sample = 0
    BY DEF Keyed, Placed, Fields
  <1>2. AtBlock(4 * voice.address)
    BY StartsAtBlock DEF Placed
  <1>3. 0 \in 0 .. OneSample - 1 /\ 0 \in 0 .. 27
    BY DEF OneSample
  <1> HIDE DEF new
  <1>4. Knows(new) /\ new.header_processed \in BOOLEAN
    BY <1>1 DEF Knows
  <1>5. Placed(new)
    <2>1. new.pitch \in Halfword /\ new.address \in Starts /\ new.repeat_address \in Starts
      BY <1>1, <1>2 DEF Placed
    <2>2. AtBlock(new.current_address)
      BY <1>1, <1>2
    <2>3. new.counter \in 0 .. OneSample - 1 /\ new.sample \in 0 .. 27
      BY <1>1, <1>3
    <2> QED BY <1>1, <1>4, <2>1, <2>2, <2>3 DEF Placed
  <1> QED BY <1>5 DEF new

LEMMA IdlePlaced ==
  ASSUME NEW set, set.pitch \in Halfword, set.address \in Starts
  PROVE  Placed(IdleVoice(set))
PROOF
  <1> DEFINE new == IdleVoice(set)
  <1>1. /\ DOMAIN new = Fields /\ new.header_processed = FALSE
        /\ new.pitch = set.pitch /\ new.address = set.address
        /\ new.repeat_address = 0 /\ new.current_address = 0
        /\ new.counter = 0 /\ new.sample = 0
    BY DEF IdleVoice, Fields
  <1>2. 0 \in Starts /\ AtBlock(0)
    <2>1. LastBlock \in Nat /\ LastBlock % 8 = 0
      BY Sizes
    <2>2. 0 \in Halfword
      BY <2>1, SoundRamAssumption
    <2> QED BY <2>1, <2>2 DEF Starts, AtBlock, WordsPerBlock
  <1>3. 0 \in 0 .. OneSample - 1 /\ 0 \in 0 .. 27
    BY DEF OneSample
  <1> HIDE DEF new
  <1>4. Knows(new) /\ new.header_processed \in BOOLEAN
    BY <1>1 DEF Knows
  <1>5. Placed(new)
    <2>1. new.pitch \in Halfword /\ new.address \in Starts /\ new.repeat_address \in Starts
      BY <1>1, <1>2 DEF Placed
    <2>2. AtBlock(new.current_address)
      BY <1>1, <1>2
    <2>3. new.counter \in 0 .. OneSample - 1 /\ new.sample \in 0 .. 27
      BY <1>1, <1>3
    <2> QED BY <1>1, <1>4, <2>1, <2>2, <2>3 DEF Placed
  <1> QED BY <1>5 DEF new

LEMMA WrittenPlaced ==
  ASSUME NEW voice, Placed(voice), NEW register \in DOMAIN Register,
         NEW data \in Register[register]
  PROVE  Placed([voice EXCEPT ![register] = data])
PROOF
  <1> DEFINE new == [voice EXCEPT ![register] = data]
  <1>1. DOMAIN new = Fields /\ DOMAIN voice = Fields
    BY DEF Placed
  <1>2. \A f \in Fields : new[f] = IF f = register THEN data ELSE voice[f]
    BY <1>1
  <1>3. register \in {"pitch", "address", "repeat_address", "adsr_l", "adsr_h", "adsr_volume"}
    BY DEF Register
  <1>4. register = "pitch" => data \in Halfword
    BY PlacesAssumption DEF Register
  <1>5. register = "address" => data \in Starts
    BY PlacesAssumption DEF Register
  <1>6. register = "repeat_address" => data \in Starts
    BY PlacesAssumption DEF Register
  <1> HIDE DEF new
  <1>7. /\ new.pitch \in Halfword /\ new.address \in Starts /\ new.repeat_address \in Starts
        /\ new.header_processed = voice.header_processed /\ new.header = voice.header
        /\ new.current_address = voice.current_address
        /\ new.counter = voice.counter /\ new.sample = voice.sample
    BY <1>2, <1>3, <1>4, <1>5, <1>6 DEF Placed, Fields
  <1>8. Placed(new)
    BY <1>1, <1>7 DEF Placed, Knows
  <1> QED BY <1>8 DEF new

-----------------------------------------------------------------------------
LEMMA TickPreserves ==
  ASSUME IInv, Tick
  PROVE  IInv'
PROOF
  <1>1. PICK word \in Headers : \E headed \in {[v \in Voices |-> WithHeader(voices[v], word[v])]} :
          \E moved \in {[v \in Voices |-> Advance(headed[v])]} :
            \/ UNCHANGED voices
            \/ voices' = [v \in Voices |-> IF v \in {w \in Voices : Playing(voices[w])}
                                            THEN AdsrStep(moved[v]) ELSE voices[v]]
    BY DEF Tick
  <1>2. sound_ram' = sound_ram
    BY DEF Tick
  <1>3. \A v \in Voices : Placed(voices[v]) /\ Inside(voices[v].current_address)
    <2>1. \A v \in Voices : Placed(voices[v])
      BY DEF IInv
    <2> SUFFICES ASSUME NEW v \in Voices PROVE Inside(voices[v].current_address)
      BY <2>1
    <2>2. AtBlock(voices[v].current_address)
      BY <2>1 DEF Placed
    <2>3. /\ voices[v].current_address \in Nat /\ voices[v].current_address <= LastBlock
          /\ LastBlock \in Nat /\ SoundRamSize = LastBlock + 8
      BY <2>2, Sizes DEF AtBlock
    <2> QED BY <2>3 DEF Inside
  <1>4. word = [v \in Voices |-> sound_ram[voices[v].current_address]]
    BY <1>1, <1>3 DEF Headers
  <1>5. \A v \in Voices : Placed(AdsrStep(Advance(WithHeader(voices[v], word[v]))))
    <2> SUFFICES ASSUME NEW v \in Voices
                 PROVE  Placed(AdsrStep(Advance(WithHeader(voices[v], word[v]))))
      OBVIOUS
    <2>1. voices[v].current_address = LastBlock => word[v].end
      BY <1>4 DEF IInv
    <2>2. Placed(WithHeader(voices[v], word[v])) /\ WithHeader(voices[v], word[v]).header_processed
      BY <1>3, <2>1, HeaderPlaced
    <2>3. Placed(Advance(WithHeader(voices[v], word[v])))
      BY <2>2, AdvancePlaced
    <2> QED BY <2>3, EnvelopeStaysInPlace, SamePlaceIsPlaced
  <1>6. DOMAIN voices' = Voices /\ \A v \in Voices : Placed(voices'[v])
    <2>1. CASE UNCHANGED voices
      BY <2>1 DEF IInv
    <2>2. CASE voices' = [v \in Voices |-> IF v \in {w \in Voices : Playing(voices[w])}
                            THEN AdsrStep(Advance(WithHeader(voices[v], word[v]))) ELSE voices[v]]
      BY <1>3, <1>5, <2>2, Zenon
    <2>3. \/ UNCHANGED voices
          \/ voices' = [v \in Voices |-> IF v \in {w \in Voices : Playing(voices[w])}
                            THEN AdsrStep(Advance(WithHeader(voices[v], word[v]))) ELSE voices[v]]
      BY <1>1
    <2> QED BY <2>1, <2>2, <2>3
  <1>7. sound_ram'[LastBlock].end
    BY <1>2 DEF IInv
  <1> QED BY <1>6, <1>7 DEF IInv, Placed, Knows, AtBlock, LastBlock, Starts

LEMMA SoftwarePreserves ==
  ASSUME IInv, Software
  PROVE  IInv'
PROOF
  <1>1. DOMAIN voices' = Voices /\ \A v \in Voices : Placed(voices'[v])
    <2>1. CASE \E v \in Voices : WriteVoice(v)
      <3>1a. PICK w \in Voices : \E register \in DOMAIN Register : \E data \in Register[register] :
              voices' = [voices EXCEPT ![w][register] = data]
        BY <2>1 DEF WriteVoice
      <3>1b. PICK register \in DOMAIN Register : \E data \in Register[register] :
              voices' = [voices EXCEPT ![w][register] = data]
        BY <3>1a
      <3>1. PICK data \in Register[register] : voices' = [voices EXCEPT ![w][register] = data]
        BY <3>1b
      <3>2. Placed([voices[w] EXCEPT ![register] = data])
        BY WrittenPlaced DEF IInv
      <3>3. voices' = [voices EXCEPT ![w] = [voices[w] EXCEPT ![register] = data]]
        BY <3>1
      <3> QED BY <3>2, <3>3 DEF IInv
    <2>2. CASE WriteKeys
      <3>1. PICK value : KeyOn(value) \/ KeyOff(value)
        BY <2>2 DEF WriteKeys
      <3>2. CASE KeyOn(value)
        <4>1. \A v \in Voices : Placed(Keyed(voices[v])) /\ Placed(voices[v])
          BY KeyedPlaced DEF IInv
        <4> QED BY <3>2, <4>1, Zenon DEF KeyOn
      <3>3. CASE KeyOff(value)
        <4>1. \A v \in Voices : Placed(voices[v])
          BY DEF IInv
        <4>2. \A v \in Voices : Placed([voices[v] EXCEPT !.state = "Release"])
          <5> SUFFICES ASSUME NEW v \in Voices
                       PROVE  Placed([voices[v] EXCEPT !.state = "Release"])
            OBVIOUS
          <5>1. SamePlace(voices[v], [voices[v] EXCEPT !.state = "Release"])
            BY DEF SamePlace
          <5> QED BY <4>1, <5>1, SamePlaceIsPlaced
        <4> QED BY <3>3, <4>1, <4>2, Zenon DEF KeyOff
      <3> QED BY <3>1, <3>2, <3>3
    <2>3. CASE UNCHANGED voices
      BY <2>3 DEF IInv
    <2> QED BY <2>1, <2>2, <2>3 DEF Software, WriteTransferAddress, WriteTransfer, WriteDma
  <1>2. sound_ram'[LastBlock].end
    BY DEF Software
  <1> QED BY <1>1, <1>2 DEF IInv, Placed, Knows, AtBlock, LastBlock, Starts

LEMMA InitIsPlaced ==
  ASSUME Init
  PROVE  IInv
PROOF
  <1>1. PICK program \in Programs :
          /\ sound_ram = program.ram
          /\ voices = [v \in Voices |-> IF v \in program.keyed THEN Keyed(IdleVoice(program.set[v]))
                                        ELSE IdleVoice(program.set[v])]
    BY DEF Init
  <1>2. \A v \in Voices : program.set[v].pitch \in Halfword /\ program.set[v].address \in Starts
    BY ProgramsAssumption
  <1>3. \A v \in Voices : Placed(IdleVoice(program.set[v])) /\ Placed(Keyed(IdleVoice(program.set[v])))
    BY <1>2, IdlePlaced, KeyedPlaced
  <1>4. program.ram[LastBlock].end
    BY ProgramsAssumption
  <1>5. DOMAIN voices = Voices /\ \A v \in Voices : Placed(voices[v])
    BY <1>1, <1>3, Zenon
  <1> QED BY <1>1, <1>4, <1>5 DEF IInv

\* No voice reads a halfword behind sound RAM or outside the block whose header it
\* has read: the blocks of a sample follow each other up to a mark, and every place
\* a voice can be moved to is the beginning of one.
THEOREM ReadsStayInsideHolds == Spec => []ReadsStayInside
PROOF
  <1>1. Init => IInv
    BY InitIsPlaced
  <1>2. IInv /\ [Next]_vars => IInv'
    <2>1. ASSUME IInv, UNCHANGED vars PROVE IInv'
      BY <2>1 DEF IInv, Placed, Knows, AtBlock, LastBlock, Starts, vars
    <2> QED BY <2>1, TickPreserves, SoftwarePreserves DEF Next
  <1>3. IInv => ReadsStayInside
    <2> SUFFICES ASSUME IInv, NEW v \in Voices
                 PROVE  LET voice == voices[v] IN
                        /\ DataAddress(voice) \in voice.current_address + 1 .. voice.current_address + 7
                        /\ Inside(DataAddress(voice))
                        /\ Knows(voice)
      BY DEF ReadsStayInside, Knows
    <2>1. AtBlock(voices[v].current_address) /\ voices[v].sample \in 0 .. 27 /\ Knows(voices[v])
      BY DEF IInv, Placed
    <2>2. voices[v].sample \div 4 \in 0 .. 6
      BY <2>1
    <2>3. /\ voices[v].current_address \in Nat /\ voices[v].current_address <= LastBlock
          /\ LastBlock \in Nat /\ SoundRamSize = LastBlock + 8
      BY <2>1, Sizes DEF AtBlock
    <2> QED BY <2>1, <2>2, <2>3 DEF DataAddress, Inside
  <1> QED BY <1>1, <1>2, <1>3, PTL DEF Spec

-----------------------------------------------------------------------------
(* The envelope.                                                            *)

\* A voice of its type, whose envelope is in no phase after the attack but Decay,
\* where it stands still: the counter is 0 at the top of the attack, and has left 0
\* for ever after.
Whole(voice) ==
  /\ voice \in Voice
  /\ voice.state # "Sustain"
  /\ voice.state = "Decay" => voice.adsr_counter \in {0, Never}

LEMMA SignedFacts ==
  ASSUME NEW x
  PROVE  x \in Signed <=> x \in Int /\ -32768 <= x /\ x <= 32767
PROOF
  <1>1. Highest \in Int /\ -Highest - 1 \in Int
    BY DEF Highest
  <1>2. x \in Signed <=> x \in Int /\ -Highest - 1 <= x /\ x <= Highest
    BY <1>1 DEF Signed
  <1> QED BY <1>2 DEF Highest

\* The powers of two that shifts stand for.  What the provers know of powers is their
\* values, one by one.
LEMMA PowerFacts ==
  ASSUME NEW n \in 0 .. 27
  PROVE  2 ^ n \in Int /\ 2 ^ n >= 1
PROOF
  <1>0. n = 0 => 2 ^ n >= 1
    BY SMT
  <1>1. n = 1 => 2 ^ n >= 1
    BY SMT
  <1>2. n = 2 => 2 ^ n >= 1
    BY SMT
  <1>3. n = 3 => 2 ^ n >= 1
    BY SMT
  <1>4. n = 4 => 2 ^ n >= 1
    BY SMT
  <1>5. n = 5 => 2 ^ n >= 1
    BY SMT
  <1>6. n = 6 => 2 ^ n >= 1
    BY SMT
  <1>7. n = 7 => 2 ^ n >= 1
    BY SMT
  <1>8. n = 8 => 2 ^ n >= 1
    BY SMT
  <1>9. n = 9 => 2 ^ n >= 1
    BY SMT
  <1>10. n = 10 => 2 ^ n >= 1
    BY SMT
  <1>11. n = 11 => 2 ^ n >= 1
    BY SMT
  <1>12. n = 12 => 2 ^ n >= 1
    BY SMT
  <1>13. n = 13 => 2 ^ n >= 1
    BY SMT
  <1>14. n = 14 => 2 ^ n >= 1
    BY SMT
  <1>15. n = 15 => 2 ^ n >= 1
    BY SMT
  <1>16. n = 16 => 2 ^ n >= 1
    BY SMT
  <1>17. n = 17 => 2 ^ n >= 1
    BY SMT
  <1>18. n = 18 => 2 ^ n >= 1
    BY SMT
  <1>19. n = 19 => 2 ^ n >= 1
    BY SMT
  <1>20. n = 20 => 2 ^ n >= 1
    BY SMT
  <1>21. n = 21 => 2 ^ n >= 1
    BY SMT
  <1>22. n = 22 => 2 ^ n >= 1
    BY SMT
  <1>23. n = 23 => 2 ^ n >= 1
    BY SMT
  <1>24. n = 24 => 2 ^ n >= 1
    BY SMT
  <1>25. n = 25 => 2 ^ n >= 1
    BY SMT
  <1>26. n = 26 => 2 ^ n >= 1
    BY SMT
  <1>27. n = 27 => 2 ^ n >= 1
    BY SMT
  <1>28. 2 ^ n \in Int
    OBVIOUS
  <1> QED BY <1>0, <1>1, <1>2, <1>3, <1>4, <1>5, <1>6, <1>7, <1>8, <1>9, <1>10, <1>11, <1>12, <1>13, <1>14,
             <1>15, <1>16, <1>17, <1>18, <1>19, <1>20, <1>21, <1>22, <1>23, <1>24, <1>25, <1>26, <1>27, <1>28

\* The pauses between two steps of an envelope; there are none up to shift 11.
LEMMA PeriodFacts ==
  ASSUME NEW shift \in -16 .. 15
  PROVE  Period(shift) \in Nat /\ (shift <= 11 => Period(shift) = 1)
PROOF
  <1>1. Above0(shift - 11) \in 0 .. 27 /\ (shift <= 11 => Above0(shift - 11) = 0)
    BY DEF Above0
  <1>2. 2 ^ 0 = 1
    OBVIOUS
  <1>3. Period(shift) = 2 ^ Above0(shift - 11)
    BY DEF Period
  <1>4. Period(shift) \in Nat
    <2>1. Period(shift) \in Int /\ Period(shift) >= 1
      BY <1>1, <1>3, PowerFacts, Zenon
    <2> QED BY <2>1
  <1> QED BY <1>1, <1>2, <1>3, <1>4, Zenon

LEMMA RiseFacts ==
  ASSUME NEW shift \in -16 .. 15
  PROVE  Rise(shift) \in 0 .. 27 /\ (shift >= -2 => Rise(shift) <= 13)
PROOF
  BY DEF Rise, Above0

\* A step has the direction of its size.
LEMMA ScaledFacts ==
  ASSUME NEW shift \in -16 .. 15, NEW n \in Int
  PROVE  /\ Scaled(n, shift) \in Int
         /\ n >= 0 => Scaled(n, shift) >= 0
         /\ n <= 0 => Scaled(n, shift) <= 0
PROOF
  <1> DEFINE power == 2 ^ Rise(shift)
  <1>1. power \in Int /\ power >= 1
    <2>1. Rise(shift) \in 0 .. 27
      BY RiseFacts
    <2> QED BY <2>1, PowerFacts, Zenon
  <1>2. Scaled(n, shift) = n * power
    BY DEF Scaled
  <1> HIDE DEF power
  <1> QED BY <1>1, <1>2

LEMMA UpperFacts ==
  ASSUME NEW x \in Int
  PROVE  Upper(x) \in Int /\ (x >= -65536 /\ x <= 0 => Upper(x) = x)
PROOF
  BY DEF Upper

\* A quotient by a power of two, from a quarter on, has its place in 17 bits.
LEMMA QuotientFacts ==
  ASSUME NEW n \in 2 .. 15, NEW volume \in Signed, volume >= 0
  PROVE  Upper(((-8) * volume) \div 2 ^ n) <= 0
PROOF
  <1>0. volume \in Int /\ volume <= 32767
    BY SignedFacts
  <1>1. n = 2 => Upper(((-8) * volume) \div 2 ^ n) <= 0
    BY <1>0 DEF Upper
  <1>2. n = 3 => Upper(((-8) * volume) \div 2 ^ n) <= 0
    BY <1>0 DEF Upper
  <1>3. n = 4 => Upper(((-8) * volume) \div 2 ^ n) <= 0
    BY <1>0 DEF Upper
  <1>4. n = 5 => Upper(((-8) * volume) \div 2 ^ n) <= 0
    BY <1>0 DEF Upper
  <1>5. n = 6 => Upper(((-8) * volume) \div 2 ^ n) <= 0
    BY <1>0 DEF Upper
  <1>6. n = 7 => Upper(((-8) * volume) \div 2 ^ n) <= 0
    BY <1>0 DEF Upper
  <1>7. n = 8 => Upper(((-8) * volume) \div 2 ^ n) <= 0
    BY <1>0 DEF Upper
  <1>8. n = 9 => Upper(((-8) * volume) \div 2 ^ n) <= 0
    BY <1>0 DEF Upper
  <1>9. n = 10 => Upper(((-8) * volume) \div 2 ^ n) <= 0
    BY <1>0 DEF Upper
  <1>10. n = 11 => Upper(((-8) * volume) \div 2 ^ n) <= 0
    BY <1>0 DEF Upper
  <1>11. n = 12 => Upper(((-8) * volume) \div 2 ^ n) <= 0
    BY <1>0 DEF Upper
  <1>12. n = 13 => Upper(((-8) * volume) \div 2 ^ n) <= 0
    BY <1>0 DEF Upper
  <1>13. n = 14 => Upper(((-8) * volume) \div 2 ^ n) <= 0
    BY <1>0 DEF Upper
  <1>14. n = 15 => Upper(((-8) * volume) \div 2 ^ n) <= 0
    BY <1>0 DEF Upper
  <1> QED BY <1>1, <1>2, <1>3, <1>4, <1>5, <1>6, <1>7, <1>8, <1>9, <1>10, <1>11, <1>12, <1>13, <1>14

\* The share of the volume that a release takes, unless its product overflows.
LEMMA ShareFacts ==
  ASSUME NEW shift \in -16 .. 15, NEW volume \in Signed
  PROVE  /\ Share(-8, shift, volume) \in Int
         /\ shift >= -2 /\ volume >= 0 => Share(-8, shift, volume) <= 0
PROOF
  <1> DEFINE x == (-8) * volume
             rise == Rise(shift)
  <1>1. rise \in 0 .. 27 /\ (shift >= -2 => rise <= 13)
    BY RiseFacts
  <1>2. Share(-8, shift, volume) = Upper(IF rise > 15 THEN x * 2 ^ (rise - 15)
                                         ELSE x \div 2 ^ (15 - rise))
    BY Zenon DEF Share
  <1>3. x \in Int
    BY SignedFacts
  <1> HIDE DEF rise
  <1>4. CASE rise > 15
    <2> DEFINE power == 2 ^ (rise - 15)
    <2>1. rise - 15 \in 0 .. 27
      BY <1>1, <1>4
    <2>2. power \in Int
      BY <2>1, PowerFacts, Zenon
    <2>3. Share(-8, shift, volume) = Upper(x * power)
      BY <1>2, <1>4
    <2> HIDE DEF power, x
    <2>4. x * power \in Int
      BY <1>3, <2>2
    <2> QED BY <1>1, <1>4, <2>3, <2>4, UpperFacts
  <1>5. CASE rise <= 15
    <2> DEFINE power == 2 ^ (15 - rise)
    <2>1. 15 - rise \in 0 .. 27 /\ (rise <= 13 => 15 - rise \in 2 .. 15)
      BY <1>1, <1>5
    <2>2. power \in Int /\ power >= 1
      BY <2>1, PowerFacts, Zenon
    <2>3. Share(-8, shift, volume) = Upper(x \div power)
      BY <1>1, <1>2, <1>5
    <2>4. rise <= 13 /\ volume >= 0 => Upper(x \div power) <= 0
      BY <2>1, QuotientFacts, Zenon
    <2> HIDE DEF power, x
    <2>5. x \div power \in Int
      BY <1>3, <2>2
    <2> QED BY <1>1, <2>3, <2>4, <2>5, UpperFacts
  <1> QED BY <1>1, <1>4, <1>5

LEMMA LouderFacts ==
  ASSUME NEW voice, voice.adsr_volume \in Signed, NEW step \in Int
  PROVE  /\ Louder(voice, step) \in Signed
         /\ step >= 0 => Louder(voice, step) >= voice.adsr_volume
         /\ step <= 0 /\ voice.adsr_volume >= 0 => Louder(voice, step) <= voice.adsr_volume
PROOF
  <1> DEFINE volume == voice.adsr_volume
  <1>1. volume \in Int /\ volume <= 32767
    BY SignedFacts
  <1> HIDE DEF volume
  <1>2. /\ Clamp(volume + step) \in Int /\ 0 <= Clamp(volume + step) /\ Clamp(volume + step) <= 32767
        /\ step >= 0 => Clamp(volume + step) >= volume
        /\ step <= 0 /\ volume >= 0 => Clamp(volume + step) <= volume
    BY <1>1 DEF Clamp, Highest
  <1>3. Louder(voice, step) = Clamp(volume + step)
    BY DEF Louder, volume
  <1> HIDE DEF volume
  <1>4. Louder(voice, step) \in Signed
    BY <1>2, <1>3, SignedFacts
  <1> QED BY <1>2, <1>3, <1>4 DEF volume

\* The counter becomes 0 only from 1.
LEMMA CountDownFacts ==
  ASSUME NEW c \in Nat \cup {Never}
  PROVE  /\ CountDown(c) \in Nat \cup {Never}
         /\ c \in {0, Never} => CountDown(c) = Never /\ CountDown(c) # 0
PROOF
  BY DEF CountDown, Never

\* The envelopes have shifts of these ranges.
LEMMA RegisterFacts ==
  ASSUME NEW voice \in Voice
  PROVE  /\ voice.adsr_l.attack_shift \in -16 .. 15 /\ voice.adsr_l.decay_shift \in -8 .. 7
         /\ voice.adsr_l.attack_step \in 0 .. 3
         /\ voice.adsr_h.release_shift \in -16 .. 15
         /\ voice.adsr_volume \in Signed
         /\ voice.adsr_counter \in Nat \cup {Never} /\ voice.state \in State
PROOF
  <1>1. voice.adsr_l \in AdsrLow
    BY DEF Voice
  <1>2. voice.adsr_h \in AdsrHigh
    BY DEF Voice
  <1>3. voice.adsr_volume \in Signed
    BY DEF Voice
  <1>4. voice.adsr_counter \in Nat \cup {Never}
    BY DEF Voice
  <1>5. voice.state \in State
    BY DEF Voice
  <1>6. /\ voice.adsr_l.attack_shift \in -16 .. 15 /\ voice.adsr_l.decay_shift \in -8 .. 7
        /\ voice.adsr_l.attack_step \in 0 .. 3
    BY <1>1 DEF AdsrLow
  <1>7. voice.adsr_h.release_shift \in -16 .. 15
    BY <1>2 DEF AdsrHigh
  <1> QED BY <1>3, <1>4, <1>5, <1>6, <1>7

LEMMA SetCounter ==
  ASSUME NEW voice \in Voice, NEW counter \in Nat \cup {Never}
  PROVE  LET new == [voice EXCEPT !.adsr_counter = counter]
         IN  new \in Voice /\ new.state = voice.state /\ new.adsr_volume = voice.adsr_volume
             /\ new.adsr_counter = counter
PROOF
  BY DEF Voice

\* A step of the envelope keeps the types, never leaves Decay, and moves the volume
\* as the phase says.
LEMMA AdsrWhole ==
  ASSUME NEW voice, Whole(voice)
  PROVE  Whole(AdsrStep(voice)) /\ EnvelopeMoves(voice, AdsrStep(voice))
PROOF
  <1> DEFINE counter == CountDown(voice.adsr_counter)
             new == AdsrStep(voice)
  <1>0. voice \in Voice
    BY DEF Whole
  <1>1. /\ voice \in Voice /\ voice.state \in State \ {"Sustain"}
        /\ voice.adsr_volume \in Signed /\ voice.adsr_volume \in Int
        /\ counter \in Nat \cup {Never}
        /\ voice.state = "Decay" => counter = Never /\ counter # 0
    <2>1. /\ voice \in Voice /\ voice.state # "Sustain"
          /\ voice.state = "Decay" => voice.adsr_counter \in {0, Never}
      BY DEF Whole
    <2>2. /\ voice.adsr_volume \in Signed /\ voice.adsr_counter \in Nat \cup {Never}
          /\ voice.state \in State
      BY <2>1, RegisterFacts
    <2>3. voice.adsr_volume \in Int
      BY <2>2, SignedFacts
    <2>4. /\ counter \in Nat \cup {Never}
          /\ voice.adsr_counter \in {0, Never} => counter = Never /\ counter # 0
      BY <2>2, CountDownFacts
    <2> QED BY <2>1, <2>2, <2>3, <2>4
  <1>2. CASE counter # 0
    <2>1. new = [voice EXCEPT !.adsr_counter = counter]
      BY <1>2, Zenon DEF AdsrStep
    <2> HIDE DEF new, counter
    <2>2. /\ new \in Voice /\ new.state = voice.state /\ new.adsr_volume = voice.adsr_volume
          /\ new.adsr_counter = counter
      BY <1>1, <2>1, SetCounter
    <2>3. Whole(new)
      BY <1>1, <2>2 DEF Whole
    <2>4. EnvelopeMoves(voice, new)
      BY <1>1, <2>2 DEF EnvelopeMoves, State
    <2> QED BY <2>3, <2>4 DEF new
  <1>3. CASE counter = 0 /\ voice.state = "Attack"
    <2> DEFINE step == Scaled(7 - voice.adsr_l.attack_step, voice.adsr_l.attack_shift)
               volume == Louder(voice, step)
    <2>1. new = AttackStep(voice)
      BY <1>3, Zenon DEF AdsrStep, EnvelopeStep
    <2>2. step \in Int /\ step >= 0
      <3>1. 7 - voice.adsr_l.attack_step \in Int /\ 7 - voice.adsr_l.attack_step >= 0
        BY <1>1, RegisterFacts
      <3> QED BY <1>1, <3>1, RegisterFacts, ScaledFacts
    <2> HIDE DEF step
    <2>3. volume \in Signed /\ volume >= voice.adsr_volume
      BY <1>1, <2>2, LouderFacts
    <2>4. CASE volume = Highest
      <3> DEFINE first == FirstPeriod(voice.adsr_l.decay_shift, volume)
      <3>1. new = [voice EXCEPT !.state = "Decay", !.adsr_volume = volume,
                                !.adsr_counter = first]
        BY <2>1, <2>4, Zenon DEF AttackStep, step
      <3>2. first = 0
        <4>1. Period(voice.adsr_l.decay_shift) = 1
          <5>1. voice.adsr_l.decay_shift \in -16 .. 15 /\ voice.adsr_l.decay_shift <= 11
            BY <1>1, RegisterFacts
          <5> QED BY <5>1, PeriodFacts
        <4>2. first = (1 * Highest) \div 32768
          BY <2>4, <4>1 DEF FirstPeriod
        <4> QED BY <4>2 DEF Highest
      <3> HIDE DEF first, volume, new
      <3>3. /\ new \in Voice /\ new.state = "Decay" /\ new.adsr_volume = volume
            /\ new.adsr_counter = 0
        <4>1. 0 \in Nat \cup {Never} /\ "Decay" \in State
          BY DEF State
        <4> QED BY <1>0, <2>3, <3>1, <3>2, <4>1 DEF Voice
      <3>4. Whole(new)
        BY <3>3 DEF Whole
      <3>5. EnvelopeMoves(voice, new)
        BY <1>3, <2>3, <3>3 DEF EnvelopeMoves
      <3> QED BY <3>4, <3>5 DEF new
    <2>5. CASE volume # Highest
      <3> DEFINE pause == RisePeriod(voice.adsr_l.attack_shift,
                                     voice.adsr_l.attack_mode = "Exponential", volume)
      <3>1. new = [voice EXCEPT !.adsr_volume = volume, !.adsr_counter = pause]
        BY <2>1, <2>5, Zenon DEF AttackStep, step
      <3>2. pause \in Nat
        BY <1>1, RegisterFacts, PeriodFacts DEF RisePeriod
      <3> HIDE DEF pause, volume, new
      <3>3. /\ new \in Voice /\ new.state = voice.state /\ new.adsr_volume = volume
        <4>1. pause \in Nat \cup {Never}
          BY <3>2
        <4> QED BY <1>0, <2>3, <3>1, <4>1 DEF Voice
      <3>4. Whole(new)
        BY <1>3, <3>3 DEF Whole
      <3>5. EnvelopeMoves(voice, new)
        BY <1>3, <2>3, <3>3 DEF EnvelopeMoves
      <3> QED BY <3>4, <3>5 DEF new
    <2> QED BY <2>4, <2>5
  <1>4. CASE counter = 0 /\ voice.state = "Release"
    <2> DEFINE share == Share(-8, voice.adsr_h.release_shift, voice.adsr_volume)
               fixed == Scaled(-8, voice.adsr_h.release_shift)
               step == IF voice.adsr_h.release_mode = "Exponential" THEN share ELSE fixed
               volume == Louder(voice, step)
               pause == Period(voice.adsr_h.release_shift)
    <2>1. new = ReleaseStep(voice)
      BY <1>4, Zenon DEF AdsrStep, EnvelopeStep
    <2>2. /\ voice.adsr_h.release_shift \in -16 .. 15 /\ voice.adsr_volume \in Signed
          /\ -8 \in Int /\ -8 <= 0
      BY <1>1, RegisterFacts
    <2>3. /\ share \in Int
          /\ voice.adsr_h.release_shift >= -2 /\ voice.adsr_volume >= 0 => share <= 0
      BY <2>2, ShareFacts
    <2>4. fixed \in Int /\ fixed <= 0
      BY <2>2, ScaledFacts
    <2> HIDE DEF share, fixed
    <2>5. step \in Int /\ (~Overflows(voice) /\ voice.adsr_volume >= 0 => step <= 0)
      BY <2>2, <2>3, <2>4 DEF Overflows
    <2> HIDE DEF step
    <2>6. /\ volume \in Signed
          /\ ~Overflows(voice) /\ voice.adsr_volume >= 0 => volume <= voice.adsr_volume
      BY <1>1, <2>5, LouderFacts
    <2>7. pause \in Nat
      BY <2>2, PeriodFacts
    <2>8. CASE volume = 0
      <3>1. new = [voice EXCEPT !.state = "Off", !.adsr_volume = 0, !.adsr_counter = 0]
        BY <2>1, <2>8, Zenon DEF ReleaseStep, step, share, fixed
      <3> HIDE DEF new, volume
      <3>2. new \in Voice /\ new.state = "Off"
        <4>1. 0 \in Signed /\ 0 \in Nat \cup {Never} /\ "Off" \in State
          BY <2>6, <2>8 DEF State
        <4> QED BY <1>0, <3>1, <4>1 DEF Voice
      <3> HIDE DEF new
      <3>3. Whole(new) /\ EnvelopeMoves(voice, new)
        BY <3>2 DEF Whole, EnvelopeMoves
      <3> QED BY <3>3 DEF new
    <2>9. CASE volume # 0
      <3>1. new = [voice EXCEPT !.adsr_volume = volume, !.adsr_counter = pause]
        BY <2>1, <2>9, Zenon DEF ReleaseStep, step, share, fixed
      <3> HIDE DEF new, volume, pause
      <3>2. new \in Voice /\ new.state = voice.state /\ new.adsr_volume = volume
        <4>1. pause \in Nat \cup {Never}
          BY <2>7
        <4> QED BY <1>0, <2>6, <3>1, <4>1 DEF Voice
      <3>3. Whole(new)
        BY <1>4, <3>2 DEF Whole
      <3>4. EnvelopeMoves(voice, new)
        <4>1. voice.adsr_volume < 0 \/ voice.adsr_volume >= 0
          BY <1>1
        <4> QED BY <1>4, <2>6, <3>2, <4>1 DEF EnvelopeMoves
      <3> QED BY <3>3, <3>4 DEF new
    <2> QED BY <2>8, <2>9
  <1>5. CASE counter = 0 /\ voice.state = "Off"
    <2>1. new = voice
      BY <1>5, Zenon DEF AdsrStep, EnvelopeStep
    <2> HIDE DEF new
    <2>2. Whole(new) /\ EnvelopeMoves(voice, new)
      BY <1>5, <2>1 DEF EnvelopeMoves
    <2> QED BY <2>2 DEF new
  <1> QED BY <1>1, <1>2, <1>3, <1>4, <1>5 DEF State

\* Reading a header changes nothing of the envelope, ...
LEMMA HeaderWhole ==
  ASSUME NEW voice, Whole(voice), Placed(voice), NEW word \in Header
  PROVE  LET new == WithHeader(voice, word)
         IN  /\ Whole(new)
             /\ new.state = voice.state /\ new.adsr_volume = voice.adsr_volume
             /\ new.adsr_h = voice.adsr_h
PROOF
  <1> DEFINE new == WithHeader(voice, word)
  <1>1. CASE voice.header_processed
    BY <1>1 DEF WithHeader
  <1>2. CASE ~voice.header_processed
    <2> DEFINE address == IF word.start THEN voice.current_address \div 4
                          ELSE voice.repeat_address
    <2>1. new = [voice EXCEPT !.header = word, !.header_processed = TRUE,
                              !.repeat_address = address]
      BY <1>2, Zenon DEF WithHeader
    <2>2. address \in Starts
      BY BlockIsStart DEF Placed
    <2>3. voice \in Voice
      BY DEF Whole
    <2> HIDE DEF address, new
    <2>4. /\ new \in Voice
          /\ new.state = voice.state /\ new.adsr_volume = voice.adsr_volume
          /\ new.adsr_h = voice.adsr_h /\ new.adsr_counter = voice.adsr_counter
      BY <2>1, <2>2, <2>3 DEF Voice
    <2>5. Whole(new)
      BY <2>4 DEF Whole
    <2> QED BY <2>4, <2>5 DEF new
  <1> QED BY <1>1, <1>2

\* ... and moving on only ends it, when the sample does.
LEMMA AdvanceWhole ==
  ASSUME NEW voice, Whole(voice), Placed(voice), voice.header_processed
  PROVE  LET new == Advance(voice)
         IN  /\ Whole(new)
             /\ \/ new.state = "Off"
                \/ /\ new.state = voice.state /\ new.adsr_volume = voice.adsr_volume
                   /\ new.adsr_h = voice.adsr_h
PROOF
  <1> DEFINE counter == (voice.counter + Pitch(voice)) % OneSample
             sample == voice.sample + (voice.counter + Pitch(voice)) \div OneSample
             next == Stepped(voice)
  <1>1. voice \in Voice /\ voice.state # "Sustain"
        /\ (voice.state = "Decay" => voice.adsr_counter \in {0, Never})
    BY DEF Whole
  <1>2. next = [voice EXCEPT !.counter = counter, !.sample = sample]
    BY DEF Stepped
  <1>3. next.counter \in 0 .. OneSample - 1 /\ next.sample \in 0 .. 31
    BY SteppedPlace
  <1>4. counter = next.counter /\ sample = next.sample
    BY <1>1, <1>2 DEF Voice
  <1>5. counter \in 0 .. OneSample - 1 /\ sample \in Nat
    BY <1>3, <1>4
  <1> HIDE DEF next, counter, sample
  <1>6. /\ next \in Voice
        /\ next.state = voice.state /\ next.adsr_volume = voice.adsr_volume
        /\ next.adsr_h = voice.adsr_h /\ next.adsr_counter = voice.adsr_counter
        /\ next.repeat_address = voice.repeat_address /\ next.header = voice.header
        /\ next.current_address = voice.current_address
    BY <1>1, <1>2, <1>5 DEF Voice
  <1>7. CASE ~EndsBlock(voice)
    <2>1. Advance(voice) = next
      BY <1>7 DEF Advance, next
    <2> QED BY <1>1, <1>6, <2>1 DEF Whole
  <1>8. CASE EndsBlock(voice)
    <2> DEFINE new == NextBlock(next)
               place == IF next.header.end THEN 4 * next.repeat_address
                        ELSE next.current_address + WordsPerBlock
               rest == next.sample - SamplesPerBlock
               silent == next.header.end /\ ~next.header.loop
    <2>1. Advance(voice) = new
      BY <1>8 DEF Advance, next
    <2>2. rest \in Nat
      BY <1>3, <1>8 DEF EndsBlock, SamplesPerBlock, next
    <2>3. place \in Nat
      <3>1. voice.current_address \in Nat /\ 4 * voice.repeat_address \in Nat
        BY StartsAtBlock DEF Placed, AtBlock
      <3> QED BY <1>6, <3>1 DEF WordsPerBlock
    <2>4. CASE ~silent
      <3>1. new = [next EXCEPT !.sample = rest, !.header_processed = FALSE,
                               !.current_address = place]
        <4>1. CASE ~next.header.end
          BY <1>6, <4>1 DEF NextBlock, Voice
        <4>2. CASE next.header.end /\ next.header.loop
          BY <1>6, <4>2 DEF NextBlock, Voice
        <4> QED BY <2>4, <4>1, <4>2
      <3> HIDE DEF new, rest, place, silent
      <3>2. /\ new \in Voice
            /\ new.state = next.state /\ new.adsr_volume = next.adsr_volume
            /\ new.adsr_h = next.adsr_h /\ new.adsr_counter = next.adsr_counter
        BY <1>6, <2>2, <2>3, <3>1 DEF Voice
      <3> QED BY <1>1, <1>6, <2>1, <3>2 DEF Whole
    <2>5. CASE silent
      <3>1. new = [next EXCEPT !.sample = rest, !.header_processed = FALSE,
                               !.current_address = place, !.state = "Off", !.adsr_volume = 0]
        BY <1>6, <2>5 DEF NextBlock, Voice
      <3>2. 0 \in Signed /\ "Off" \in State
        BY SignedFacts DEF State
      <3> HIDE DEF new, rest, place, silent
      <3>3. new \in Voice /\ new.state = "Off"
        BY <1>6, <2>2, <2>3, <3>1, <3>2 DEF Voice
      <3> QED BY <2>1, <3>3 DEF Whole
    <2> QED BY <2>4, <2>5
  <1> QED BY <1>7, <1>8

\* No step is a move, as no voice is in the sustain phase.
LEMMA StandStill ==
  ASSUME NEW voice, Whole(voice)
  PROVE  EnvelopeMoves(voice, voice)
PROOF
  <1>1. voice.state \in State \ {"Sustain"} /\ voice.adsr_volume \in Int
    BY RegisterFacts, SignedFacts DEF Whole
  <1> QED BY <1>1 DEF EnvelopeMoves, State

\* So a tick moves the volume as the phase says, or the voice falls silent.
LEMMA TickWhole ==
  ASSUME NEW voice, Whole(voice), Placed(voice), NEW word \in Header,
         voice.current_address = LastBlock => word.end
  PROVE  LET new == AdsrStep(Advance(WithHeader(voice, word)))
         IN  Whole(new) /\ EnvelopeMoves(voice, new)
PROOF
  <1> DEFINE headed == WithHeader(voice, word)
             moved == Advance(headed)
             new == AdsrStep(moved)
  <1>1. /\ Whole(headed)
        /\ headed.state = voice.state /\ headed.adsr_volume = voice.adsr_volume
        /\ headed.adsr_h = voice.adsr_h
    BY HeaderWhole
  <1>2. Placed(headed) /\ headed.header_processed
    BY HeaderPlaced
  <1> HIDE DEF headed
  <1>3. /\ Whole(moved)
        /\ \/ moved.state = "Off"
           \/ /\ moved.state = headed.state /\ moved.adsr_volume = headed.adsr_volume
              /\ moved.adsr_h = headed.adsr_h
    BY <1>1, <1>2, AdvanceWhole
  <1> HIDE DEF moved
  <1>4. Whole(new) /\ EnvelopeMoves(moved, new)
    BY <1>3, AdsrWhole
  <1>5. CASE moved.state = "Off"
    <2>1. new = moved \/ new = [moved EXCEPT !.adsr_counter = CountDown(@)]
      BY <1>5, Zenon DEF AdsrStep, EnvelopeStep
    <2>2. new.state = "Off"
      BY <1>3, <1>5, <2>1 DEF Whole, Voice
    <2> HIDE DEF new
    <2> QED BY <1>4, <2>2 DEF EnvelopeMoves, new, moved, headed
  <1>6. CASE moved.state # "Off"
    <2>1. /\ moved.state = voice.state /\ moved.adsr_volume = voice.adsr_volume
          /\ moved.adsr_h = voice.adsr_h
      BY <1>1, <1>3, <1>6
    <2> HIDE DEF new
    <2>2. EnvelopeMoves(voice, new)
      BY <1>4, <2>1 DEF EnvelopeMoves, Overflows
    <2> QED BY <1>4, <2>2 DEF new, moved, headed
  <1> QED BY <1>5, <1>6

-----------------------------------------------------------------------------
(* What software writes keeps the types.                                    *)

LEMMA KeyedWhole ==
  ASSUME NEW voice \in Voice
  PROVE  Whole(Keyed(voice))
PROOF
  <1> DEFINE new == Keyed(voice)
             counter == Period(voice.adsr_l.attack_shift)
  <1>1. new = [voice EXCEPT !.state = "Attack", !.adsr_counter = counter,
                            !.adsr_volume = 0, !.header_processed = FALSE,
                            !.current_address = 4 * voice.address,
                            !.repeat_address = voice.address, !.counter = 0, !.sample = 0]
    BY DEF Keyed
  <1>2. counter \in Nat
    BY RegisterFacts, PeriodFacts
  <1>3. voice.address \in Starts /\ 4 * voice.address \in Nat
    <2>1. voice.address \in Starts
      BY DEF Voice
    <2> QED BY <2>1, StartsAtBlock DEF AtBlock
  <1>4. 0 \in Signed /\ 0 \in 0 .. OneSample - 1 /\ "Attack" \in State
    BY SignedFacts DEF State, OneSample
  <1> HIDE DEF new, counter
  <1>5. new \in Voice /\ new.state = "Attack"
    BY <1>1, <1>2, <1>3, <1>4 DEF Voice
  <1>6. Whole(new)
    BY <1>5 DEF Whole
  <1> QED BY <1>6 DEF new

LEMMA IdleWhole ==
  ASSUME NEW set, set.pitch \in Halfword, set.address \in Starts,
         set.adsr_l \in AdsrLow, set.adsr_h \in AdsrHigh
  PROVE  Whole(IdleVoice(set))
PROOF
  <1>1. 0 \in Signed /\ 0 \in 0 .. OneSample - 1 /\ "Release" \in State /\ Zero \in Header
    BY SignedFacts DEF State, OneSample, Zero, Header
  <1>2. 0 \in Starts
    <2>1. LastBlock \in Nat /\ LastBlock % 8 = 0
      BY Sizes
    <2>2. 0 \in Halfword
      BY <2>1, SoundRamAssumption
    <2> QED BY <2>1, <2>2 DEF Starts, WordsPerBlock
  <1>3. IdleVoice(set) \in Voice /\ IdleVoice(set).state = "Release"
    BY <1>1, <1>2 DEF IdleVoice, Voice
  <1> QED BY <1>3 DEF Whole

LEMMA WrittenWhole ==
  ASSUME NEW voice, Whole(voice), NEW register \in DOMAIN Register,
         NEW data \in Register[register]
  PROVE  Whole([voice EXCEPT ![register] = data])
PROOF
  <1> DEFINE new == [voice EXCEPT ![register] = data]
  <1>1. voice \in Voice
    BY DEF Whole
  <1>2. register \in {"pitch", "address", "repeat_address", "adsr_l", "adsr_h", "adsr_volume"}
    BY DEF Register
  <1>3. CASE register = "pitch"
    <2>1. data \in Halfword
      BY <1>3, PlacesAssumption DEF Register
    <2>2. new \in Voice /\ new.state = voice.state /\ new.adsr_counter = voice.adsr_counter
      BY <1>1, <1>3, <2>1 DEF Voice
    <2> QED BY <2>2 DEF Whole
  <1>4. CASE register = "address"
    <2>1. data \in Starts
      BY <1>4, PlacesAssumption DEF Register
    <2>2. new \in Voice /\ new.state = voice.state /\ new.adsr_counter = voice.adsr_counter
      BY <1>1, <1>4, <2>1 DEF Voice
    <2> QED BY <2>2 DEF Whole
  <1>5. CASE register = "repeat_address"
    <2>1. data \in Starts
      BY <1>5, PlacesAssumption DEF Register
    <2>2. new \in Voice /\ new.state = voice.state /\ new.adsr_counter = voice.adsr_counter
      BY <1>1, <1>5, <2>1 DEF Voice
    <2> QED BY <2>2 DEF Whole
  <1>6. CASE register = "adsr_l"
    <2>1. data \in AdsrLow
      BY <1>6, WritesAssumption DEF Register
    <2>2. new \in Voice /\ new.state = voice.state /\ new.adsr_counter = voice.adsr_counter
      BY <1>1, <1>6, <2>1 DEF Voice
    <2> QED BY <2>2 DEF Whole
  <1>7. CASE register = "adsr_h"
    <2>1. data \in AdsrHigh
      BY <1>7, WritesAssumption DEF Register
    <2>2. new \in Voice /\ new.state = voice.state /\ new.adsr_counter = voice.adsr_counter
      BY <1>1, <1>7, <2>1 DEF Voice
    <2> QED BY <2>2 DEF Whole
  <1>8. CASE register = "adsr_volume"
    <2>1. data \in Signed
      BY <1>8, WritesAssumption DEF Register
    <2>2. new \in Voice /\ new.state = voice.state /\ new.adsr_counter = voice.adsr_counter
      BY <1>1, <1>8, <2>1 DEF Voice
    <2> QED BY <2>2 DEF Whole
  <1> QED BY <1>2, <1>3, <1>4, <1>5, <1>6, <1>7, <1>8

-----------------------------------------------------------------------------
\* All voices are whole, and so is the rest of the state.
AllWhole ==
  /\ voices \in [Voices -> Voice] /\ \A v \in Voices : Whole(voices[v])
  /\ sound_ram \in [0 .. SoundRamSize - 1 -> Header]
  /\ transfer \in 0 .. SoundRamSize - 1
  /\ endx \in SUBSET Voices
  /\ failed \in BOOLEAN
  /\ writes \in 0 .. MaxWrites

LEMMA InitIsWhole ==
  ASSUME Init
  PROVE  AllWhole
PROOF
  <1>1. PICK program \in Programs :
          /\ sound_ram = program.ram
          /\ voices = [v \in Voices |-> IF v \in program.keyed THEN Keyed(IdleVoice(program.set[v]))
                                        ELSE IdleVoice(program.set[v])]
    BY DEF Init
  <1>2. /\ program.ram \in [0 .. SoundRamSize - 1 -> Header]
        /\ program.set \in [Voices -> [pitch : Halfword, address : Starts,
                                       adsr_l : AdsrLow, adsr_h : AdsrHigh]]
    BY ProgramsAssumption
  <1>3. ASSUME NEW v \in Voices
        PROVE  Whole(Keyed(IdleVoice(program.set[v]))) /\ Whole(IdleVoice(program.set[v]))
    <2>1. /\ program.set[v].pitch \in Halfword /\ program.set[v].address \in Starts
          /\ program.set[v].adsr_l \in AdsrLow /\ program.set[v].adsr_h \in AdsrHigh
      BY <1>2
    <2>2. Whole(IdleVoice(program.set[v]))
      BY <2>1, IdleWhole
    <2> QED BY <2>2, KeyedWhole DEF Whole
  <1>4. DOMAIN voices = Voices /\ \A v \in Voices : Whole(voices[v])
    BY <1>1, <1>3, Zenon
  <1>5. voices \in [Voices -> Voice]
    <2>1. \A v \in Voices : voices[v] \in Voice
      BY <1>4 DEF Whole
    <2>2. voices = [v \in Voices |-> voices[v]]
      BY <1>1
    <2> QED BY <2>1, <2>2
  <1>6. 0 \in 0 .. SoundRamSize - 1 /\ 0 \in 0 .. MaxWrites
    BY Sizes, WritesAssumption
  <1> QED BY <1>1, <1>2, <1>4, <1>5, <1>6 DEF Init, AllWhole

\* A tick keeps the types, and moves every volume as the phase of the voice says.
LEMMA TickIsWhole ==
  ASSUME IInv, AllWhole, Tick
  PROVE  AllWhole' /\ \A v \in Voices : EnvelopeMoves(voices[v], voices'[v])
PROOF
  <1>1. PICK word \in Headers : \E headed \in {[v \in Voices |-> WithHeader(voices[v], word[v])]} :
          \E moved \in {[v \in Voices |-> Advance(headed[v])]} :
            \/ UNCHANGED <<voices, endx>>
            \/ /\ voices' = [v \in Voices |-> IF v \in {w \in Voices : Playing(voices[w])}
                                              THEN AdsrStep(moved[v]) ELSE voices[v]]
               /\ endx' = endx \cup {v \in {w \in Voices : Playing(voices[w])} :
                                       EndsBlock(headed[v]) /\ headed[v].header.end}
    BY DEF Tick
  <1>2. /\ UNCHANGED <<sound_ram, transfer, writes>> /\ failed' \in BOOLEAN
    BY DEF Tick, AllWhole
  <1>3. ASSUME NEW v \in Voices
        PROVE  /\ Placed(voices[v]) /\ Whole(voices[v])
               /\ voices[v].current_address \in 0 .. SoundRamSize - 1
    <2>1. Placed(voices[v]) /\ Whole(voices[v])
      BY DEF IInv, AllWhole
    <2>2. AtBlock(voices[v].current_address)
      BY <2>1 DEF Placed
    <2> QED BY <2>1, <2>2, Sizes DEF AtBlock
  <1>4. word = [v \in Voices |-> sound_ram[voices[v].current_address]]
    BY <1>1, <1>3 DEF Headers, Inside
  <1>5. ASSUME NEW v \in Voices
        PROVE  /\ Whole(AdsrStep(Advance(WithHeader(voices[v], word[v]))))
               /\ EnvelopeMoves(voices[v], AdsrStep(Advance(WithHeader(voices[v], word[v]))))
               /\ EnvelopeMoves(voices[v], voices[v])
    <2>1. word[v] = sound_ram[voices[v].current_address]
      BY <1>4
    <2>2. word[v] \in Header
      BY <1>3, <2>1 DEF AllWhole
    <2>3. voices[v].current_address = LastBlock => word[v].end
      BY <2>1 DEF IInv
    <2>4. EnvelopeMoves(voices[v], voices[v])
      BY <1>3, StandStill
    <2> QED BY <1>3, <2>2, <2>3, <2>4, TickWhole
  <1>6. /\ \/ voices' = voices
           \/ voices' = [v \in Voices |-> IF v \in {w \in Voices : Playing(voices[w])}
                           THEN AdsrStep(Advance(WithHeader(voices[v], word[v]))) ELSE voices[v]]
        /\ endx' \in SUBSET Voices
    BY <1>1 DEF AllWhole
  <1>7. /\ voices' = [v \in Voices |-> voices'[v]]
        /\ \A v \in Voices : Whole(voices'[v]) /\ EnvelopeMoves(voices[v], voices'[v])
    <2>1. CASE voices' = voices
      BY <1>3, <1>5, <2>1 DEF AllWhole
    <2>2. CASE voices' = [v \in Voices |-> IF v \in {w \in Voices : Playing(voices[w])}
                           THEN AdsrStep(Advance(WithHeader(voices[v], word[v]))) ELSE voices[v]]
      BY <1>3, <1>5, <2>2, Zenon
    <2> QED BY <1>6, <2>1, <2>2
  <1>8. voices' \in [Voices -> Voice]
    <2>1. \A v \in Voices : voices'[v] \in Voice
      BY <1>7 DEF Whole
    <2> QED BY <1>7, <2>1
  <1> QED BY <1>2, <1>6, <1>7, <1>8 DEF AllWhole, Whole, Voice, Starts, LastBlock, Header

LEMMA SoftwareIsWhole ==
  ASSUME AllWhole, Software
  PROVE  AllWhole'
PROOF
  <1>1. /\ writes \in 0 .. MaxWrites /\ writes < MaxWrites /\ writes' = writes + 1
        /\ MaxWrites \in Nat
    BY WritesAssumption DEF Software, AllWhole
  <1>2. writes' \in 0 .. MaxWrites
    BY <1>1
  <1>3. SoundRamSize \in Nat /\ SoundRamSize > 0 /\ LastBlock < SoundRamSize /\ LastBlock \in Nat
    BY Sizes
  <1>4. \A n \in Nat : n % SoundRamSize \in 0 .. SoundRamSize - 1
    BY <1>3
  <1>5. /\ transfer \in Nat /\ transfer \in 0 .. SoundRamSize - 1
        /\ sound_ram \in [0 .. SoundRamSize - 1 -> Header]
    BY DEF AllWhole
  <1>6. CASE UNCHANGED <<voices, endx, failed>> /\ transfer' \in 0 .. SoundRamSize - 1
             /\ sound_ram' \in [0 .. SoundRamSize - 1 -> Header]
    BY <1>2, <1>6 DEF AllWhole, Whole
  <1>7. CASE UNCHANGED <<sound_ram, transfer, failed>> /\ endx' \in SUBSET Voices
             /\ voices' = [v \in Voices |-> voices'[v]]
             /\ \A v \in Voices : Whole(voices'[v])
    <2>1. \A v \in Voices : voices'[v] \in Voice
      BY <1>7 DEF Whole
    <2>2. voices' \in [Voices -> Voice]
      BY <1>7, <2>1
    <2> QED BY <1>2, <1>7, <2>2 DEF AllWhole, Whole
  <1>8. CASE \E v \in Voices : WriteVoice(v)
    <2>1. PICK w \in Voices : \E register \in DOMAIN Register : \E data \in Register[register] :
            /\ voices' = [voices EXCEPT ![w][register] = data]
            /\ UNCHANGED <<sound_ram, transfer, endx, failed>>
      BY <1>8 DEF WriteVoice
    <2>2. PICK register \in DOMAIN Register : \E data \in Register[register] :
            /\ voices' = [voices EXCEPT ![w][register] = data]
            /\ UNCHANGED <<sound_ram, transfer, endx, failed>>
      BY <2>1
    <2>3. PICK data \in Register[register] :
            /\ voices' = [voices EXCEPT ![w][register] = data]
            /\ UNCHANGED <<sound_ram, transfer, endx, failed>>
      BY <2>2
    <2>4. Whole([voices[w] EXCEPT ![register] = data])
      BY WrittenWhole DEF AllWhole
    <2>5. voices' = [voices EXCEPT ![w] = [voices[w] EXCEPT ![register] = data]]
      BY <2>3
    <2>6. /\ voices' = [v \in Voices |-> voices'[v]]
          /\ \A v \in Voices : Whole(voices'[v])
      BY <2>4, <2>5 DEF AllWhole
    <2> QED BY <1>7, <2>3, <2>6 DEF AllWhole
  <1>9. CASE WriteKeys
    <2>1. PICK value : KeyOn(value) \/ KeyOff(value)
      BY <1>9 DEF WriteKeys
    <2>2. \A v \in Voices : /\ Whole(voices[v]) /\ Whole(Keyed(voices[v]))
                            /\ Whole([voices[v] EXCEPT !.state = "Release"])
      <3> SUFFICES ASSUME NEW v \in Voices
                   PROVE  /\ Whole(voices[v]) /\ Whole(Keyed(voices[v]))
                          /\ Whole([voices[v] EXCEPT !.state = "Release"])
        OBVIOUS
      <3>1. voices[v] \in Voice /\ Whole(voices[v]) /\ "Release" \in State
        BY DEF AllWhole, State
      <3>2. [voices[v] EXCEPT !.state = "Release"] \in Voice
            /\ [voices[v] EXCEPT !.state = "Release"].state = "Release"
        BY <3>1 DEF Voice
      <3> QED BY <3>1, <3>2, KeyedWhole DEF Whole
    <2>3. CASE KeyOn(value)
      <3>1. /\ voices' = [v \in Voices |-> voices'[v]]
            /\ \A v \in Voices : Whole(voices'[v])
        BY <2>2, <2>3, Zenon DEF KeyOn
      <3> QED BY <1>7, <2>3, <3>1 DEF KeyOn, AllWhole
    <2>4. CASE KeyOff(value)
      <3>1. /\ voices' = [v \in Voices |-> voices'[v]]
            /\ \A v \in Voices : Whole(voices'[v])
        BY <2>2, <2>4, Zenon DEF KeyOff
      <3> QED BY <1>7, <2>4, <3>1 DEF KeyOff, AllWhole
    <2> QED BY <2>1, <2>3, <2>4
  <1>10. CASE \E address \in Addresses : WriteTransferAddress(address)
    <2>1. PICK address \in Addresses : WriteTransferAddress(address)
      BY <1>10
    <2>2. AtBlock(4 * address)
      BY PlacesAssumption, StartsAtBlock
    <2>3. transfer' \in 0 .. SoundRamSize - 1
      BY <1>3, <2>1, <2>2 DEF AtBlock, WriteTransferAddress
    <2> QED BY <1>5, <1>6, <2>1, <2>3 DEF WriteTransferAddress
  <1>11. CASE \E word \in Words : WriteTransfer(word)
    <2>1. PICK word \in Words : WriteTransfer(word)
      BY <1>11
    <2>2. word \in Header
      BY WritesAssumption
    <2> QED BY <1>4, <1>5, <1>6, <2>1, <2>2 DEF WriteTransfer
  <1>12. CASE \E low, high \in Words : WriteDma(low, high)
    <2>1. PICK low \in Words, high \in Words : WriteDma(low, high)
      BY <1>12
    <2>2. low \in Header /\ high \in Header
      BY WritesAssumption
    <2> DEFINE next == (transfer + 1) % SoundRamSize
    <2>3. next \in 0 .. SoundRamSize - 1 /\ (transfer + 2) % SoundRamSize \in 0 .. SoundRamSize - 1
      BY <1>4, <1>5
    <2>4. /\ sound_ram' = [sound_ram EXCEPT ![transfer] = low, ![next] = high]
          /\ transfer' = (transfer + 2) % SoundRamSize
          /\ UNCHANGED <<voices, endx, failed>>
      BY <2>1 DEF WriteDma
    <2> HIDE DEF next
    <2>5. sound_ram' \in [0 .. SoundRamSize - 1 -> Header]
      BY <1>5, <2>2, <2>4
    <2> QED BY <1>6, <2>3, <2>4, <2>5
  <1> QED BY <1>8, <1>9, <1>10, <1>11, <1>12 DEF Software

LEMMA SpecIsWhole == Spec => [](IInv /\ AllWhole)
PROOF
  <1>1. Init => IInv /\ AllWhole
    BY InitIsPlaced, InitIsWhole
  <1>2. (IInv /\ AllWhole) /\ [Next]_vars => (IInv /\ AllWhole)'
    <2>1. ASSUME IInv, AllWhole, UNCHANGED vars PROVE IInv' /\ AllWhole'
      BY <2>1 DEF IInv, Placed, Knows, AtBlock, LastBlock, Starts, AllWhole, Whole, vars
    <2> QED BY <2>1, TickPreserves, SoftwarePreserves, TickIsWhole, SoftwareIsWhole DEF Next
  <1> QED BY <1>1, <1>2, PTL DEF Spec

\* Types: among them the counters and volumes of all envelopes, whatever the registers.
THEOREM TypeCorrect == Spec => []TypeOK
PROOF
  <1>1. AllWhole => TypeOK
    BY DEF AllWhole, TypeOK
  <1> QED BY <1>1, SpecIsWhole, PTL

\* In every tick, for all registers and samples, a volume that is not negative never
\* falls in the attack, never rises after the release unless its products overflow, and
\* moves in no other phase.
THEOREM EnvelopeFollowsPhaseHolds == Spec => EnvelopeFollowsPhase
PROOF
  <1>1. IInv /\ AllWhole /\ [Next]_vars =>
          [writes' = writes => \A v \in Voices : EnvelopeMoves(voices[v], voices'[v])]_vars
    <2> SUFFICES ASSUME IInv, AllWhole, Next, writes' = writes
                 PROVE  \A v \in Voices : EnvelopeMoves(voices[v], voices'[v])
      BY Zenon
    <2>1. ~Software
      <3>1. writes \in Int
        BY DEF AllWhole
      <3> QED BY <3>1 DEF Software
    <2> QED BY <2>1, TickIsWhole DEF Next
  <1> QED BY <1>1, SpecIsWhole, PTL DEF Spec, EnvelopeFollowsPhase
=============================================================================
