-------------------------------- MODULE MCSpu --------------------------------
(* Two voices, one in each half of the key registers, over three blocks.      *)
EXTENDS Spu, TLC

MCVoices == {0, 16}

\* Sound RAM with these headers, and zeros for data.
Ram(first, second, last) ==
    [a \in 0 .. SoundRamSize - 1 |->
        CASE a = 0 -> first [] a = 8 -> second [] a = 16 -> last [] OTHER -> Zero]
Start == [Zero EXCEPT !.start = TRUE]
End   == [Zero EXCEPT !.end = TRUE]
Loop  == [End EXCEPT !.loop = TRUE]
Odd   == [Zero EXCEPT !.known = FALSE]

\* Attacks of one step, of several, of several that get slower near the top, and of
\* small ones with a pause.
Fast  == [sustain_level |-> 15, decay_shift |-> -8, attack_step |-> 3, attack_shift |-> -16,
          attack_mode |-> "Linear"]
Steps == [Fast EXCEPT !.decay_shift = 7, !.attack_step = 0, !.attack_shift = 0]
Full  == [Steps EXCEPT !.attack_shift = 1, !.attack_mode = "Exponential"]
Slow  == [Steps EXCEPT !.attack_shift = 12]

\* Releases that halve the volume, take a quarter of the most, take the least with a
\* pause, and one that overflows.
Halves == [release_shift |-> 0, release_mode |-> "Exponential", sustain_shift |-> 0,
           sustain_direction |-> "Decrease", sustain_mode |-> "Exponential"]
Falls  == [Halves EXCEPT !.release_shift = 1, !.release_mode = "Linear"]
Fades  == [Halves EXCEPT !.release_shift = 12]
Turns  == [Halves EXCEPT !.release_shift = -3]

Set(pitch, address, low, high) ==
    [pitch |-> pitch, address |-> address, adsr_l |-> low, adsr_h |-> high]

MCPrograms ==
    {[ram |-> Ram(Zero, Start, Loop), keyed |-> MCVoices,
      set |-> 0 :> Set(16384, 0, Full, Falls) @@ 16 :> Set(65535, 2, Fast, Halves)],
     [ram |-> Ram(Start, End, End), keyed |-> {0},
      set |-> 0 :> Set(14336, 2, Slow, Fades) @@ 16 :> Set(0, 0, Steps, Halves)]}

MCPitches   == {8192}
MCAddresses == {4}
MCLows      == {Steps}
MCHighs     == {Turns, Fades}
MCVolumes   == {-32768, 24}
MCWords     == {Odd, Zero}
=============================================================================
