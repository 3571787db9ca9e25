---------------------------- MODULE FrameRegister ----------------------------
(***************************************************************************)
(* What the swapchain promises: a register of whole pictures.  The         *)
(* emulator publishes a picture at once, the display takes the latest one   *)
(* at once, and neither ever sees half of a picture.                        *)
(***************************************************************************)
CONSTANTS
    Frame,              \* what the GPU can have drawn
    Row,                \* a picture is copied row by row
    Unset               \* what memory holds before anything is copied there

VARIABLES
    latest,             \* the picture published last
    taken               \* the picture the display took last

Whole(f) == [r \in Row |-> f]

Init ==
    /\ latest = Whole(Unset)
    /\ taken = Whole(Unset)

Publish ==
    /\ \E f \in Frame : latest' = Whole(f)
    /\ UNCHANGED taken

Take ==
    /\ taken' = latest
    /\ UNCHANGED latest

Next == Publish \/ Take

Spec == Init /\ [][Next]_<<latest, taken>>
=============================================================================
