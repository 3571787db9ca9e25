-------------------------------- MODULE Spu --------------------------------
(***************************************************************************)
(* The voices of the sound processor (spu.cpp, spu.hpp): where each is in   *)
(* its sample, the envelope, and the registers that start and stop them.    *)
(* The scheduler calls Tick once per output sample; software calls Write    *)
(* between ticks, from the same thread.  What a sample sounds like (decode, *)
(* mix, volumes of the channels) is left out, and how samples leave is in   *)
(* Cbuf.  A halfword of sound RAM is what it means as the header of a block.*)
(***************************************************************************)
EXTENDS Integers

CONSTANTS
    Voices,         \* the voices in use, of 0 .. 23
    SoundRamSize,   \* halfwords
    Programs,       \* what software may have written before the first tick
    Pitches, Addresses, AdsrLows, AdsrHighs, Volumes, Words,  \* what it writes then
    MaxWrites       \* BOUND: how often

Halfword  == 0 .. 65535
Highest   == 32767                          \* INT16_MAX
Signed    == -Highest - 1 .. Highest
Mode      == {"Linear", "Exponential"}
Direction == {"Increase", "Decrease"}
State     == {"Attack", "Decay", "Sustain", "Release", "Off"}

\* The two halves of the adsr register.  The shifts are fields of type int, which
\* BitField sign-extends: the upper half of what software writes is negative.  The
\* step of the sustain phase is a field of the code too, which nothing reads.
AdsrLow  == [sustain_level : 0 .. 15, decay_shift : -8 .. 7,
             attack_step : 0 .. 3, attack_shift : -16 .. 15, attack_mode : Mode]
AdsrHigh == [release_shift : -16 .. 15, release_mode : Mode, sustain_shift : -16 .. 15,
             sustain_direction : Direction, sustain_mode : Mode]

\* A header; `known' says that its range and filter are among those of the code.
Header == [end : BOOLEAN, loop : BOOLEAN, start : BOOLEAN, known : BOOLEAN]
Zero   == [end |-> FALSE, loop |-> FALSE, start |-> FALSE, known |-> TRUE]

SamplesPerBlock == 28
WordsPerBlock   == 8

\* Software keeps its samples in whole blocks up to the end of sound RAM, and a
\* mark in the last one; it plays and writes at the beginning of blocks.
LastBlock == SoundRamSize - WordsPerBlock
Starts    == {address \in Halfword : 4 * address <= LastBlock
                                      /\ (LastBlock - 4 * address) % WordsPerBlock = 0}

ASSUME SoundRamAssumption ==
    /\ SoundRamSize \in Nat
    /\ LastBlock \in Nat /\ LastBlock % WordsPerBlock = 0
    /\ \A a \in 0 .. LastBlock : a \div 4 \in Halfword

ASSUME ProgramsAssumption ==
    \A program \in Programs :
        /\ program.ram \in [0 .. SoundRamSize - 1 -> Header]
        /\ program.ram[LastBlock].end
        /\ program.set \in [Voices -> [pitch : Halfword, address : Starts,
                                      adsr_l : AdsrLow, adsr_h : AdsrHigh]]
        /\ program.keyed \in SUBSET Voices

ASSUME PlacesAssumption == Pitches \subseteq Halfword /\ Addresses \subseteq Starts

ASSUME WritesAssumption ==
    /\ AdsrLows \subseteq AdsrLow /\ AdsrHighs \subseteq AdsrHigh
    /\ Volumes \subseteq Signed
    /\ Words \subseteq Header
    /\ MaxWrites \in Nat

VARIABLES
    voices,         \* m_voices
    sound_ram,      \* m_sound_ram
    transfer,       \* m_transfer_current_addr
    endx,           \* the voices whose bit in m_endx is set
    failed,         \* an Error ended the program
    writes          \* how often software has written

vars == <<voices, sound_ram, transfer, endx, failed, writes>>

\* The state after the constructor and Reset, whose KeyOff puts every voice in
\* Release.  The constructor leaves the rest uninitialised: an object of this size
\* comes from fresh pages, which are zero.
IdleVoice(set) ==
    [state |-> "Release", adsr_counter |-> 0, adsr_volume |-> 0,
     pitch |-> set.pitch, address |-> set.address, repeat_address |-> 0,
     adsr_l |-> set.adsr_l, adsr_h |-> set.adsr_h,
     header |-> Zero, header_processed |-> FALSE,
     current_address |-> 0, counter |-> 0, sample |-> 0]

-----------------------------------------------------------------------------
(* The envelope.                                                            *)

Clamp(x) == IF x < 0 THEN 0 ELSE IF x > Highest THEN Highest ELSE x
Int16(x) == ((x + 32768) % 65536) - 32768
Above0(x) == IF x < 0 THEN 0 ELSE x         \* std::max(0, x)

\* --adsr_counter on a size_t: from 0 it goes to 2^64 - 1, and no program lives to
\* see it come down to 0 again.
Never == -1
CountDown(c) == IF c \in {0, Never} THEN Never ELSE c - 1

Period(shift) == 2 ^ Above0(shift - 11)
Rise(shift)   == Above0(11 - shift)
Scaled(n, shift) == n * 2 ^ Rise(shift)

\* What is left of a product of 32 bits after >> 15: its upper 17 bits.
Upper(x) == ((x + 65536) % 131072) - 65536

\* Fault: the quotient is rounded towards zero, as a division would be.
ShareToZero(n, shift, volume) ==
    LET product == n * volume
        size    == IF product < 0 THEN -product ELSE product
        share   == IF Rise(shift) > 15 THEN size * 2 ^ (Rise(shift) - 15)
                   ELSE size \div 2 ^ (15 - Rise(shift))
    IN  Upper(IF product < 0 THEN -share ELSE share)

\* (Scaled(n, shift) * volume) >> 15, which rounds down.  For the lowest shifts the
\* product has no place in an int, and loses its upper bits in the multiplication.
Share(n, shift, volume) ==
    Upper(IF Rise(shift) > 15 THEN n * volume * 2 ^ (Rise(shift) - 15)
          ELSE (n * volume) \div 2 ^ (15 - Rise(shift)))

\* Exponential rises are four times slower near the top.
RisePeriod(shift, slows, volume) ==
    Period(shift) * IF slows /\ volume > 24576 THEN 4 ELSE 1

\* Fault: the sum is stored without the clamp.
LouderWrapped(voice, step) == Int16(voice.adsr_volume + step)

Louder(voice, step) == Clamp(voice.adsr_volume + step)

\* Of the decay, which is 0 for every shift that the field can hold.
FirstPeriod(shift, volume) == (Period(shift) * volume) \div 32768

AttackStep(voice) ==
    LET adsr   == voice.adsr_l
        volume == Louder(voice, Scaled(7 - adsr.attack_step, adsr.attack_shift))
    IN  IF volume = Highest
        THEN [voice EXCEPT !.state = "Decay", !.adsr_volume = volume,
                           !.adsr_counter = FirstPeriod(adsr.decay_shift, volume)]
        ELSE [voice EXCEPT !.adsr_volume = volume,
                           !.adsr_counter = RisePeriod(adsr.attack_shift,
                                               adsr.attack_mode = "Exponential", volume)]

SustainLevel(voice) == 2048 * (voice.adsr_l.sustain_level + 1)

SustainPeriod(voice, volume) ==
    RisePeriod(voice.adsr_h.sustain_shift,
               /\ voice.adsr_h.sustain_mode = "Exponential"
               /\ voice.adsr_h.sustain_direction = "Increase", volume)

\* The highest level does not fit the int16_t it is stored in.
DecayStep(voice) ==
    LET shift  == voice.adsr_l.decay_shift
        volume == Louder(voice, Share(-8, shift, voice.adsr_volume))
        level  == Int16(SustainLevel(voice))
    IN  IF volume <= SustainLevel(voice)
        THEN [voice EXCEPT !.state = "Sustain", !.adsr_volume = level,
                           !.adsr_counter = SustainPeriod(voice, level)]
        ELSE [voice EXCEPT !.adsr_volume = volume, !.adsr_counter = Period(shift)]

\* The code takes the step of the attack, not that of the sustain phase.
SustainStep(voice) ==
    LET adsr    == voice.adsr_h
        falling == adsr.sustain_direction = "Decrease"
        rise    == 7 - voice.adsr_l.attack_step
        step    == IF falling THEN -rise - 1 ELSE rise
        volume  == Louder(voice, IF falling /\ adsr.sustain_mode = "Exponential"
                                 THEN Share(step, adsr.sustain_shift, voice.adsr_volume)
                                 ELSE Scaled(step, adsr.sustain_shift))
    IN  [voice EXCEPT !.adsr_volume = volume, !.adsr_counter = SustainPeriod(voice, volume)]

ReleaseStep(voice) ==
    LET adsr   == voice.adsr_h
        volume == Louder(voice, IF adsr.release_mode = "Exponential"
                                THEN Share(-8, adsr.release_shift, voice.adsr_volume)
                                ELSE Scaled(-8, adsr.release_shift))
    IN  IF volume = 0
        THEN [voice EXCEPT !.state = "Off", !.adsr_volume = 0, !.adsr_counter = 0]
        ELSE [voice EXCEPT !.adsr_volume = volume, !.adsr_counter = Period(adsr.release_shift)]

EnvelopeStep(voice) ==
    CASE voice.state = "Attack"  -> AttackStep(voice)
      [] voice.state = "Decay"   -> DecayStep(voice)
      [] voice.state = "Sustain" -> SustainStep(voice)
      [] voice.state = "Release" -> ReleaseStep(voice)
      [] OTHER                   -> voice

AdsrStep(voice) ==
    IF CountDown(voice.adsr_counter) = 0
    THEN EnvelopeStep(voice)
    ELSE [voice EXCEPT !.adsr_counter = CountDown(@)]

\* An envelope that is due in a voice that is off is an Error.
AdsrFails(voice) == voice.state = "Off" /\ CountDown(voice.adsr_counter) = 0

-----------------------------------------------------------------------------
(* A tick of one voice: its header, its place in the sample, its envelope.   *)

\* At the first sample of a block its header is read, and may mark the place to
\* which a loop returns (in units of four halfwords, as software writes it).
WithHeader(voice, word) ==
    IF voice.header_processed THEN voice
    ELSE [voice EXCEPT !.header = word, !.header_processed = TRUE,
                       !.repeat_address = IF word.start
                                          THEN voice.current_address \div 4 ELSE @]

\* The halfword a sample is taken from.
DataAddress(voice) == voice.current_address + 1 + voice.sample \div 4

\* The pitch is in 1/4096 of a sample, four samples at most.
OneSample    == 4096
Pitch(voice) == IF voice.pitch > 4 * OneSample THEN 4 * OneSample ELSE voice.pitch

\* Fault: the whole samples stay in the counter.
SteppedUnmasked(voice) ==
    LET counter == voice.counter + Pitch(voice)
    IN  [voice EXCEPT !.counter = counter, !.sample = @ + counter \div OneSample]

\* The position moves on by the pitch.
Stepped(voice) ==
    LET counter == voice.counter + Pitch(voice)
    IN  [voice EXCEPT !.counter = counter % OneSample, !.sample = @ + counter \div OneSample]

EndsBlock(voice) == Stepped(voice).sample >= SamplesPerBlock

\* Behind the block comes the next one, or, behind the one with the end mark, the
\* place to repeat from, where a sample that does not loop falls silent.
NextBlock(voice) ==
    LET next   == [voice EXCEPT !.sample = @ - SamplesPerBlock, !.header_processed = FALSE,
                                !.current_address = @ + WordsPerBlock]
        repeat == [next EXCEPT !.current_address = 4 * voice.repeat_address]
    IN  IF ~voice.header.end THEN next
        ELSE IF voice.header.loop THEN repeat
        ELSE [repeat EXCEPT !.state = "Off", !.adsr_volume = 0]

Advance(voice) == IF EndsBlock(voice) THEN NextBlock(Stepped(voice)) ELSE Stepped(voice)

Playing(voice) == voice.state # "Off"

Inside(address) == address \in 0 .. SoundRamSize - 1

\* What the voices read as headers: behind the end of the array, anything.
Headers ==
    IF \A v \in Voices : Inside(voices[v].current_address)
    THEN {[v \in Voices |-> sound_ram[voices[v].current_address]]}
    ELSE {h \in [Voices -> Header] : \A v \in Voices :
             Inside(voices[v].current_address) => h[v] = sound_ram[voices[v].current_address]}

\* Every voice that plays reads its header if it begins a block, gives a sample and
\* moves on, and takes a step of its envelope.  A bit of m_endx is set when its voice
\* leaves the block with the end mark.
Tick ==
    /\ ~failed
    /\ \E word \in Headers : \E headed \in {[v \in Voices |-> WithHeader(voices[v], word[v])]} :
       \E moved \in {[v \in Voices |-> Advance(headed[v])]} :
         LET playing == {v \in Voices : Playing(voices[v])}
         IN  IF \E v \in playing : ~headed[v].header.known \/ AdsrFails(moved[v])
             THEN failed' = TRUE /\ UNCHANGED <<voices, endx>>
             ELSE /\ voices' = [v \in Voices |-> IF v \in playing
                                                 THEN AdsrStep(moved[v]) ELSE voices[v]]
                  /\ endx' = endx \cup {v \in playing : EndsBlock(headed[v]) /\ headed[v].header.end}
                  /\ UNCHANGED failed
    /\ UNCHANGED <<sound_ram, transfer, writes>>

-----------------------------------------------------------------------------
(* What software writes.                                                    *)

Register ==
    [pitch |-> Pitches, address |-> Addresses, repeat_address |-> Addresses,
     adsr_l |-> AdsrLows, adsr_h |-> AdsrHighs, adsr_volume |-> Volumes]

WriteVoice(v) ==
    \E register \in DOMAIN Register : \E data \in Register[register] :
        /\ voices' = [voices EXCEPT ![v][register] = data]
        /\ UNCHANGED <<sound_ram, transfer, endx, failed>>

\* The key registers are written in halves of sixteen voices.
Half(n) == {v \in Voices : v \div 16 = n}

\* Fault: the header of the block that was playing stays.
KeyedMidBlock(voice) ==
    [voice EXCEPT !.state = "Attack", !.adsr_counter = Period(voice.adsr_l.attack_shift),
                  !.adsr_volume = 0,
                  !.current_address = 4 * voice.address, !.repeat_address = voice.address,
                  !.counter = 0, !.sample = 0]

Keyed(voice) ==
    [voice EXCEPT !.state = "Attack", !.adsr_counter = Period(voice.adsr_l.attack_shift),
                  !.adsr_volume = 0, !.header_processed = FALSE,
                  !.current_address = 4 * voice.address, !.repeat_address = voice.address,
                  !.counter = 0, !.sample = 0]

KeyOn(value) ==
    /\ voices' = [v \in Voices |-> IF v \in value THEN Keyed(voices[v]) ELSE voices[v]]
    /\ endx' = endx \ value
    /\ UNCHANGED <<sound_ram, transfer, failed>>

\* Nothing but the state changes, whatever the state was.
KeyOff(value) ==
    /\ voices' = [v \in Voices |-> IF v \in value THEN [voices[v] EXCEPT !.state = "Release"]
                                   ELSE voices[v]]
    /\ UNCHANGED <<sound_ram, transfer, endx, failed>>

WriteKeys ==
    \E n \in {0, 1} : \E value \in SUBSET Half(n) \ {{}} : KeyOn(value) \/ KeyOff(value)

WriteTransferAddress(data) ==
    /\ transfer' = 4 * data
    /\ UNCHANGED <<voices, sound_ram, endx, failed>>

\* The data register takes one halfword, a word of WriteDma two; the address wraps.
WriteTransfer(data) ==
    /\ sound_ram' = [sound_ram EXCEPT ![transfer] = data]
    /\ transfer' = (transfer + 1) % SoundRamSize
    /\ UNCHANGED <<voices, endx, failed>>

WriteDma(low, high) ==
    /\ sound_ram' = [sound_ram EXCEPT ![transfer] = low, ![(transfer + 1) % SoundRamSize] = high]
    /\ transfer' = (transfer + 2) % SoundRamSize
    /\ UNCHANGED <<voices, endx, failed>>

Software ==
    /\ ~failed
    /\ writes < MaxWrites
    /\ writes' = writes + 1
    /\ \/ \E v \in Voices : WriteVoice(v)
       \/ WriteKeys
       \/ \E address \in Addresses : WriteTransferAddress(address)
       \/ \E word \in Words : WriteTransfer(word)
       \/ \E low, high \in Words : WriteDma(low, high)
    /\ sound_ram'[LastBlock].end

\* Before the first tick software has loaded its samples, set the voices up, and
\* keyed some of them on.
Init ==
    /\ \E program \in Programs :
         /\ sound_ram = program.ram
         /\ voices = [v \in Voices |->
                        LET voice == IdleVoice(program.set[v])
                        IN  IF v \in program.keyed THEN Keyed(voice) ELSE voice]
    /\ transfer = 0
    /\ endx = {}
    /\ failed = FALSE
    /\ writes = 0

Next == Tick \/ Software

\* The scheduler keeps calling Tick while the emulator runs (Emulator.tla).
Spec == Init /\ [][Next]_vars /\ WF_vars(Tick)

-----------------------------------------------------------------------------
(* What must hold of the voices.                                            *)

Voice ==
    [state : State, adsr_counter : Nat \cup {Never}, adsr_volume : Signed,
     pitch : Halfword, address : Starts, repeat_address : Starts,
     adsr_l : AdsrLow, adsr_h : AdsrHigh, header : Header, header_processed : BOOLEAN,
     current_address : Nat, counter : 0 .. OneSample - 1, sample : Nat]

TypeOK ==
    /\ voices \in [Voices -> Voice]
    /\ sound_ram \in [0 .. SoundRamSize - 1 -> Header]
    /\ transfer \in 0 .. SoundRamSize - 1
    /\ endx \in SUBSET Voices
    /\ failed \in BOOLEAN
    /\ writes \in 0 .. MaxWrites

\* A voice takes its samples from the seven halfwords behind the header it has read,
\* and never from behind sound RAM, which nothing but the mark of the last block
\* keeps it from: that block is never left with the header of another one, although
\* voices are keyed on in the middle of blocks and loops can be moved.
ReadsStayInside ==
    \A v \in Voices : LET voice == voices[v] IN
        /\ DataAddress(voice) \in voice.current_address + 1 .. voice.current_address + 7
        /\ Inside(DataAddress(voice))
        /\ voice.header_processed /\ voice.current_address = LastBlock => voice.header.end

\* The volume only rises in the attack and only falls after the release, in steps
\* of every size.  Promised is nothing from a negative volume, which software writes,
\* and nothing of exponential releases whose product overflows.  At the top of the
\* attack the envelope stands still: the counter starts at 0 there, whatever the rate
\* of the decay, and neither that nor the sustain phase takes a step.
Overflows(voice) ==
    voice.adsr_h.release_mode = "Exponential" /\ voice.adsr_h.release_shift < -2

EnvelopeMoves(before, after) ==
    \/ before.adsr_volume < 0
    \/ after.state = "Off"
    \/ CASE before.state = "Attack"  -> after.adsr_volume >= before.adsr_volume
         [] before.state = "Release" ->
              Overflows(before) \/ after.adsr_volume <= before.adsr_volume
         [] before.state = "Off" -> TRUE
         [] OTHER ->
              before.state = "Decay" /\ after.state = "Decay"
              /\ after.adsr_volume = before.adsr_volume

EnvelopeFollowsPhase ==
    [][writes' = writes => \A v \in Voices : EnvelopeMoves(voices[v], voices'[v])]_vars

\* No voice is on its way for ever, once software leaves it alone: one that plays
\* comes to the end mark, which ENDX shows, unless its pitch is 0; and one that is
\* released falls silent, unless its envelope has come to stand still before, or
\* its products overflow.
OnItsWay(v) ==
    \/ Playing(voices[v]) /\ v \notin endx /\ voices[v].pitch # 0
    \/ voices[v].state = "Release" /\ voices[v].adsr_counter > 0 /\ ~Overflows(voices[v])

NotesEnd == \A v \in Voices : OnItsWay(v) ~> (~OnItsWay(v) \/ failed)
=============================================================================
