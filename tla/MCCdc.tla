-------------------------------- MODULE MCCdc --------------------------------
(***************************************************************************)
(* The CD controller on a small disc.  One unit of time stands for about    *)
(* 400 cycles, with the order of delays the code has.                       *)
(***************************************************************************)
EXTENDS Cdc

MCPauseTicks == [v \in Speed |-> 2]
MCSectorTicks == [v \in Speed |-> IF v = "Double" THEN 1 ELSE 2]
MCEnableSets == {Bit}
MCAckSets == {Bit}
=============================================================================
