---------------------------------- MODULE Gpu ----------------------------------
(***************************************************************************)
(* The command port of the GPU (core/gpu.cpp): GP0 as the parser of a stream *)
(* of words, and the transfers to and from VRAM.  Operators on a record;     *)
(* Dmac calls them.                                                         *)
(*                                                                         *)
(* What a command draws is left out: it changes pixels, and nothing of how   *)
(* the words after it are taken.                                            *)
(***************************************************************************)
EXTENDS Integers, Sequences

CONSTANTS VramWidth, VramHeight

ASSUME GpuAssumption == VramWidth \in Nat \ {0} /\ VramHeight \in Nat \ {0}

\* The words that Gp0 waits for after a command.
Parameters ==
    [Setting |-> 0, Fill |-> 2, Triangle |-> 3, Quad |-> 4, TexturedQuad |-> 8,
     ShadedTriangle |-> 5, ShadedQuad |-> 7, Rectangle |-> 2, Sprite |-> 3, Dot |-> 1,
     Sprite16 |-> 2, Copy |-> 3, Load |-> 2, Store |-> 2]

Command == DOMAIN Parameters

\* A word: the command that its high byte is, if it is one, and its two halves.
Word == [command : Command \cup {"None"}, x : Nat, y : Nat]

\* m_transfer, m_command_fifo up to m_command_fifo_size, and, as a history, the
\* pixels that the transfer has moved.
GpuState ==
    [mode : {"Fifo", "Write", "Read"},
     x : 0..(VramWidth - 1), y : 0..(VramHeight - 1),
     w : 1..VramWidth, h : 1..VramHeight, tx : Nat, ty : Nat,
     fifo : Seq(Word), receiving : BOOLEAN, remaining : Nat, moved : Nat]

\* The constructor; what Reset leaves alone is uninitialised, and never read.
BootGpu ==
    [mode |-> "Fifo", x |-> 0, y |-> 0, w |-> 1, h |-> 1, tx |-> 0, ty |-> 0,
     fifo |-> << >>, receiving |-> FALSE, remaining |-> 0, moved |-> 0]

\* What nothing reads again once a transfer is over: ExecuteCommand sets it all.
Over(g) ==
    IF g.mode = "Fifo" THEN [g EXCEPT !.x = 0, !.y = 0, !.w = 1, !.h = 1, !.moved = 0] ELSE g

\* Gp1(00h) ...
Reset(g) == Over([g EXCEPT !.receiving = FALSE, !.fifo = << >>, !.mode = "Fifo"])

\* ... and Gp1(01h), which lets a transfer go on.
ClearFifo(g) == [g EXCEPT !.receiving = FALSE, !.fifo = << >>]

\* m_command_fifo's size.
CommandFifoSize == 16

-----------------------------------------------------------------------------
(* Transfers.                                                               *)

\* The size that a parameter stands for: 0 is all of it.
Extent(n, limit) == ((n - 1) % limit) + 1

\* Where the transfer is.
Column(g) == g.x + g.tx
Row(g) == g.y + g.ty

\* One pixel, after which the transfer is in the next column, or in the next row, or
\* over, with ty as it is left then.
NextPixel(g, last) ==
    LET column == g.tx + 1 = g.w
        row    == g.ty + 1 = g.h
    IN  [g EXCEPT !.moved = @ + 1,
                  !.tx = IF column THEN 0 ELSE @ + 1,
                  !.ty = IF ~column THEN @ ELSE IF row THEN last ELSE @ + 1,
                  !.mode = IF column /\ row THEN "Fifo" ELSE @]

\* Gp0 during a transfer to VRAM: two pixels, unless the first is the last.
WritePixels(g) ==
    LET one == NextPixel(g, g.h)
    IN  Over(IF one.mode = "Fifo" THEN one ELSE NextPixel(one, g.h))

\* GpuRead: during a transfer from VRAM two pixels, even if the first is the last.
GpuRead(g) == IF g.mode = "Read" THEN Over(NextPixel(NextPixel(g, 0), 0)) ELSE g

-----------------------------------------------------------------------------
(* Commands.                                                                *)

\* Fault: a transfer begins where the last one was left.
ExecuteCommandStale(g, fifo) ==
    IF fifo[1].command \in {"Load", "Store"}
    THEN [g EXCEPT !.mode = IF fifo[1].command = "Load" THEN "Write" ELSE "Read",
                   !.x = fifo[2].x % VramWidth, !.y = fifo[2].y % VramHeight,
                   !.w = Extent(fifo[3].x, VramWidth), !.h = Extent(fifo[3].y, VramHeight),
                   !.moved = 0]
    ELSE g

\* Fault: a place outside VRAM is taken as it is.
ExecuteCommandUnwrapped(g, fifo) ==
    IF fifo[1].command \in {"Load", "Store"}
    THEN [g EXCEPT !.mode = IF fifo[1].command = "Load" THEN "Write" ELSE "Read",
                   !.x = fifo[2].x, !.y = fifo[2].y,
                   !.w = Extent(fifo[3].x, VramWidth), !.h = Extent(fifo[3].y, VramHeight),
                   !.tx = 0, !.ty = 0, !.moved = 0]
    ELSE g

\* Fault: a size of 0 is one pixel.
ExecuteCommandZero(g, fifo) ==
    IF fifo[1].command \in {"Load", "Store"}
    THEN [g EXCEPT !.mode = IF fifo[1].command = "Load" THEN "Write" ELSE "Read",
                   !.x = fifo[2].x % VramWidth, !.y = fifo[2].y % VramHeight,
                   !.w = IF fifo[3].x = 0 THEN 1 ELSE Extent(fifo[3].x, VramWidth),
                   !.h = IF fifo[3].y = 0 THEN 1 ELSE Extent(fifo[3].y, VramHeight),
                   !.tx = 0, !.ty = 0, !.moved = 0]
    ELSE g

\* ExecuteCommand: only the transfers change how Gp0 goes on.
ExecuteCommand(g, fifo) ==
    IF fifo[1].command \in {"Load", "Store"}
    THEN [g EXCEPT !.mode = IF fifo[1].command = "Load" THEN "Write" ELSE "Read",
                   !.x = fifo[2].x % VramWidth, !.y = fifo[2].y % VramHeight,
                   !.w = Extent(fifo[3].x, VramWidth), !.h = Extent(fifo[3].y, VramHeight),
                   !.tx = 0, !.ty = 0, !.moved = 0]
    ELSE g

\* A parameter, and with the last one the command.
TakeParameter(g, word) ==
    LET fifo == Append(g.fifo, word)
    IN  IF g.remaining = 1
        THEN [ExecuteCommand(g, fifo) EXCEPT !.receiving = FALSE, !.fifo = << >>, !.remaining = 0]
        ELSE [g EXCEPT !.fifo = fifo, !.remaining = @ - 1]

\* A command: one without parameters is executed at once.
TakeCommand(g, word) ==
    IF Parameters[word.command] = 0
    THEN g
    ELSE [g EXCEPT !.fifo = Append(@, word), !.receiving = TRUE,
                   !.remaining = Parameters[word.command]]

\* Whether Gp0 takes a word for a command.
TakesCommand(g) == g.mode # "Write" /\ ~g.receiving

\* Gp0 raises an Error: the FIFO is full, the word is no command where one is due, or a
\* transfer is asked for during a transfer.
Gp0Fails(g, word) ==
    \/ g.mode # "Write" /\ g.receiving /\ Len(g.fifo) >= CommandFifoSize
    \/ TakesCommand(g) /\ word.command = "None"
    \/ g.mode = "Read" /\ g.receiving /\ g.remaining = 1
       /\ g.fifo[1].command \in {"Load", "Store"}

\* Gp0 otherwise.
Gp0(g, word) ==
    IF g.mode = "Write" THEN WritePixels(g)
    ELSE IF g.receiving THEN TakeParameter(g, word)
    ELSE TakeCommand(g, word)

-----------------------------------------------------------------------------
\* A transfer goes through its rectangle row by row, and ends with its last pixel.
InRasterOrder(g) ==
    g.mode # "Fifo" =>
        /\ g.tx < g.w /\ g.ty < g.h
        /\ g.moved = g.ty * g.w + g.tx
=============================================================================
