----------------------------- MODULE MCSwapchain -----------------------------
(***************************************************************************)
(* Two pictures tell a torn one from a whole one, a third one an older from *)
(* a newer; three rows have a first, a last and a middle one.   *)
(***************************************************************************)
EXTENDS Swapchain
=============================================================================
