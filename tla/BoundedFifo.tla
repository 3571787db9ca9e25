----------------------------- MODULE BoundedFifo -----------------------------
(***************************************************************************)
(* What the ring between the SPU and the audio device promises about        *)
(* places: a queue of at most Room samples.  Samples are put at the back    *)
(* and taken from the front, at once, and no place is used for two samples  *)
(* at a time.  (Nothing is promised here about what a place holds.)         *)
(***************************************************************************)
EXTENDS Integers

CONSTANTS Room, Chunk, Request

VARIABLES
    put,                \* samples put so far
    taken               \* samples taken so far

Init == put = 0 /\ taken = 0

Put(n) ==
    /\ put + n - taken <= Room
    /\ put' = put + n
    /\ UNCHANGED taken

Take(n) ==
    /\ taken + n <= put
    /\ taken' = taken + n
    /\ UNCHANGED put

Next ==
    \/ \E n \in 0 .. Chunk : Put(n)
    \/ \E n \in 0 .. Request : Take(n)

Spec == Init /\ [][Next]_<<put, taken>>
=============================================================================
