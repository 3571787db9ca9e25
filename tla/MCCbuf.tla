-------------------------------- MODULE MCCbuf --------------------------------
(***************************************************************************)
(* A ring of eight samples of two bytes.  Chunks of three make the copy     *)
(* wrap around at every offset, and are cut short when the ring is nearly   *)
(* full; the samples are enough for three laps.                             *)
(***************************************************************************)
EXTENDS Cbuf
=============================================================================
