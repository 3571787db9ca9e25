--------------------------------- MODULE MCDmac --------------------------------
(* Dmac for TLC.  VRAM is three rows of three pixels, memory has 25 words.       *)
EXTENDS Dmac

Com(command) == [command |-> command, x |-> 0, y |-> 0]
Two(x, y) == [command |-> "None", x |-> x, y |-> y]
\* Pixels that look like a command.
Trap == [command |-> "Setting", x |-> 0, y |-> 0]

Packets ==
    [at \in {11, 19, 20} |->
       CASE at = 11 ->  \* a picture of two columns, at 5, which is 2, and all over the height,
                       \* which is 0
              [words |-> <<Com("Load"), Two(5, 1), Two(2, 0), Trap, Trap, Trap>>,
               commands |-> <<"Load">>, step |-> 1, reads |-> 0]
         [] at = 19 ->  \* commands without and with a parameter, stored downwards
              [words |-> <<Com("Setting"), Com("Dot"), Trap>>, commands |-> <<"Setting", "Dot">>,
               step |-> -1, reads |-> 0]
         [] at = 20 ->  \* a reading of one row of three pixels
              [words |-> <<Com("Store"), Two(0, 1), Two(3, 1)>>, commands |-> <<"Store">>,
               step |-> 1, reads |-> 2]]

\* A reading that goes over the right edge.
WrappingPackets ==
    [at \in {11} |-> [words |-> <<Com("Store"), Two(2, 0), Two(2, 1)>>, commands |-> <<"Store">>,
                     step |-> 1, reads |-> 1]]

\* In the table: a dot, and a picture of one pixel.
Nodes ==
    [at \in {3, 6} |->
       IF at = 3
       THEN [words |-> <<Com("Dot"), Trap>>, commands |-> <<"Dot">>]
       ELSE [words |-> <<Com("Load"), Two(0, 0), Two(1, 1), Trap>>, commands |-> <<"Load">>]]

Tables == 1..2

Settings ==
    {[force |-> FALSE, enable |-> {"Gpu", "Otc"}, master |-> TRUE],
     [force |-> TRUE, enable |-> {}, master |-> FALSE]}
=============================================================================
