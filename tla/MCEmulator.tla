----------------------------- MODULE MCEmulator -----------------------------
(***************************************************************************)
(* A small instance of the run loop.  One unit of time stands for about     *)
(* 400 cycles; the periods and delays keep the order they have in the code  *)
(* (Spu < IoAcknowledge < CdCommand2 < CdCommand < CdSector <= Vblank, and   *)
(* two Spu periods no longer than the shortest second response), not their  *)
(* ratios.                                                                  *)
(***************************************************************************)
EXTENDS Emulator
=============================================================================
