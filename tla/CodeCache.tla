------------------------------- MODULE CodeCache -------------------------------
(***************************************************************************)
(* The recompiler's block cache: Recompiler::Run, CompileBlock and the       *)
(* invalidation that every store to RAM makes (core/cpu/recompiler.cpp),     *)
(* with the host code buffer (core/cpu/code_buffer.cpp).                     *)
(*                                                                         *)
(* There is one block for each word code can begin at, and for each page of *)
(* RAM a list of the blocks compiled from it.  A store invalidates all      *)
(* blocks of its page.  Three things in it are not as they look:            *)
(*  - AddBlockRange counts pages from the size of a block alone, so that a   *)
(*    block that reaches over the end of a page is not on the next list;    *)
(*  - InvalidateBlock takes a VIRTUAL address for a page number: only for    *)
(*    code that runs at its physical address (Kuseg) is it one, and for all  *)
(*    other code the list it looks at lies outside the array;               *)
(*  - where it is one, it erases from the list that InvalidateAddress is     *)
(*    walking.                                                              *)
(* Addresses are in words.                                                  *)
(***************************************************************************)
EXTENDS Integers, SequencesExt

CONSTANTS
    PageWords,          \* words of a page: 1024
    Pages,              \* pages of RAM: 512
    Boot,               \* what RAM holds at first
    Rom,                \* the words of the BIOS
    Entries,            \* <<segment, word>>: where the CPU may enter a block
    Stored,             \* the words that the guest writes, ...
    Written,            \* ... and what it writes there
    BufferSize          \* what the code buffer holds

VARIABLES
    memory,             \* RAM
    blocks,             \* gRecompilerBlocks, by word
    pages,              \* gRecompilerPages
    used,               \* what of the code buffer is committed
    pc,                 \* "between" blocks, in a "block", "invalidating", "crashed"
    entered,            \* the last argument of Run
    walk,               \* the loop of InvalidateAddress: the page, the position, the
                        \* end() it was started with, and what is left in the array
                        \* between the present end() and that one
    spared              \* history: the blocks such a loop should have invalidated
                        \* and passed over, since it erased another one

vars == <<memory, blocks, pages, used, pc, entered, walk, spared>>

\* Instructions, by what they do to a block: nothing, end it behind a delay slot,
\* or end it.
Instruction == {"Plain", "Other", "Delay", "End"}

RamWords == PageWords * Pages
Ram == 0..(RamWords - 1)
Bios == RamWords..(RamWords + Len(Rom) - 1)
Words == Ram \cup Bios
Page == 0..(Pages - 1)
PageOf(w) == w \div PageWords

\* Where a physical address is seen: at itself or in one of the other segments.
Segment == {"Kuseg", "Kseg"}

ASSUME CodeCacheAssumption ==
    /\ {PageWords, Pages} \subseteq Nat \ {0}
    /\ Boot \in [Ram -> Instruction]
    /\ Rom \in Seq(Instruction) \ {<< >>}
    /\ Entries \subseteq Segment \X Words
    /\ Stored \subseteq Ram
    /\ Written \subseteq Instruction
    /\ BufferSize \in Nat

Block == [valid : BOOLEAN, segment : Segment, code : Seq(Instruction)]
NoWalk == [page |-> 0, at |-> 1, stop |-> 0, rest |-> << >>]

TypeOK ==
    /\ memory \in [Ram -> Instruction]
    /\ blocks \in [Words -> Block]
    /\ pages \in [Page -> Seq(Ram)]
    /\ used \in 0..BufferSize
    /\ pc \in {"between", "block", "invalidating", "crashed"}
    /\ entered \in Segment \X Words
    /\ walk \in [page : Page, at : Nat \ {0}, stop : Nat, rest : Seq(Ram)]
    /\ spared \subseteq Ram

Init ==
    /\ memory = Boot
    /\ blocks = [w \in Words |-> [valid |-> FALSE, segment |-> "Kuseg", code |-> << >>]]
    /\ pages = [p \in Page |-> << >>]
    /\ used = 0
    /\ pc = "between"
    /\ entered = <<"Kseg", RamWords>>
    /\ walk = NoWalk
    /\ spared = {}

-----------------------------------------------------------------------------
(* Compiling.                                                               *)

\* What ReadCode reads at a word.
WordAt(mem, w) == IF w \in Ram THEN mem[w] ELSE Rom[w - RamWords + 1]

\* The last word of the block that begins at w: the first instruction that ends a
\* block, or its delay slot.
Ends(mem, w, last) ==
    \E j \in w..last :
        /\ \A k \in w..(j - 1) : WordAt(mem, k) \in {"Plain", "Other"}
        /\ \/ WordAt(mem, j) = "End" /\ last = j
           \/ WordAt(mem, j) = "Delay" /\ last = j + 1

\* RAM or the BIOS, whichever w is in: ReadCode raises an Error outside.
Memory(w) == IF w \in Ram THEN Ram ELSE Bios

Compiles(mem, w) == \E last \in Memory(w) : Ends(mem, w, last)

\* The instructions that CompileBlock reads.
CodeAt(mem, w) ==
    LET last == CHOOSE l \in Memory(w) : Ends(mem, w, l)
    IN  [i \in 1..(last - w + 1) |-> WordAt(mem, w + i - 1)]

\* Host code: something for each instruction, and the prologue and epilogue.
HostSize(code) == Len(code) + 1

CeilDiv(n, d) == (n + d - 1) \div d

\* Fault: a block is put on the list of its first page only.
AddBlockRangeFirst(w, code) == PageOf(w)..PageOf(w)

\* AddBlockRange: the pages whose lists a block is put on.
AddBlockRange(w, code) == PageOf(w)..(PageOf(w) + CeilDiv(Len(code), PageWords) - 1)

\* Fault: the emitter does not look at the size of the code buffer.
CompileBlockUnchecked(segment, w) ==
    LET code == CodeAt(memory, w)
    IN  /\ Compiles(memory, w)
        /\ used' = used + HostSize(code)
        /\ blocks' = [blocks EXCEPT ![w] =
                        [valid |-> TRUE, segment |-> segment, code |-> code]]
        /\ spared' = spared \ {w}
        /\ pages' = [p \in Page |-> IF w \in Ram /\ p \in AddBlockRange(w, code)
                                    THEN Append(pages[p], w)
                                    ELSE pages[p]]

\* CompileBlock.
CompileBlock(segment, w) ==
    LET code == CodeAt(memory, w)
    IN  /\ Compiles(memory, w)
        /\ used + HostSize(code) <= BufferSize
        /\ used' = used + HostSize(code)
        /\ blocks' = [blocks EXCEPT ![w] =
                        [valid |-> TRUE, segment |-> segment, code |-> code]]
        /\ spared' = spared \ {w}
        /\ pages' = [p \in Page |-> IF w \in Ram /\ p \in AddBlockRange(w, code)
                                    THEN Append(pages[p], w)
                                    ELSE pages[p]]

\* Run: the block is compiled unless it is valid, and entered.
Run(segment, w) ==
    /\ pc = "between"
    /\ entered' = <<segment, w>>
    /\ pc' = "block"
    /\ IF blocks[w].valid
       THEN UNCHANGED <<blocks, pages, used, spared>>
       ELSE CompileBlock(segment, w)
    /\ UNCHANGED <<memory, walk>>

\* ... unless the code reaches the end of memory, or the emitter finds the code
\* buffer full: nothing ever empties it.
RunFails(segment, w) ==
    /\ pc = "between"
    /\ ~blocks[w].valid
    /\ ~(Compiles(memory, w) /\ used + HostSize(CodeAt(memory, w)) <= BufferSize)
    /\ entered' = <<segment, w>>
    /\ pc' = "crashed"
    /\ UNCHANGED <<memory, blocks, pages, used, walk, spared>>

\* The block returns.
Return ==
    /\ pc = "block"
    /\ pc' = "between"
    /\ UNCHANGED <<memory, blocks, pages, used, entered, walk, spared>>

-----------------------------------------------------------------------------
(* Invalidating.                                                            *)

\* WriteByte, WriteHalf, WriteWord to RAM, by the guest or for it by the DMA
\* controller, and the beginning of InvalidateAddress.
Store(w, instruction) ==
    /\ pc = "block"
    /\ memory' = [memory EXCEPT ![w] = instruction]
    /\ pc' = "invalidating"
    /\ walk' = [page |-> PageOf(w), at |-> 1, stop |-> Len(pages[PageOf(w)]), rest |-> << >>]
    /\ UNCHANGED <<blocks, pages, used, entered, spared>>

\* The block at the position of the loop, which may be past the present end().
Walked == (pages[walk.page] \o walk.rest)[walk.at]

\* The pages InvalidateBlock erases a block from, if the block ran at its physical
\* address: as many as if instructions were bytes.
ErasePages(w) == PageOf(w)..(PageOf(w) + CeilDiv(Len(blocks[w].code), 4 * PageWords) - 1)

\* The next block of the list slides to the position that the loop has done with.
Spared(list) == IF walk.at < Len(list) THEN {list[walk.at + 1]} ELSE {}

\* The erasing that InvalidateBlock does.
Erase(w) ==
    LET list == pages[walk.page]
        erased == [p \in Page |-> IF p \in ErasePages(w) THEN RemoveFirst(pages[p], w)
                                  ELSE pages[p]]
        hit == walk.page \in ErasePages(w) /\ w \in ToSet(list)
    IN  /\ pages' = erased
        /\ walk' = [walk EXCEPT !.at = @ + 1, !.rest = IF hit THEN <<Last(list)>> \o @ ELSE @]
        /\ spared' = IF hit THEN (spared \cup Spared(list)) \ {w} ELSE spared \ {w}

\* Fault: the block that is running stays valid.
InvalidateBlockNotRunning ==
    /\ pc = "invalidating"
    /\ walk.at <= walk.stop
    /\ LET w == Walked
       IN  /\ blocks' = [blocks EXCEPT ![w].valid = (w = entered[2])]
           /\ IF blocks[w].segment = "Kuseg"
              THEN Erase(w)
              ELSE /\ walk' = [walk EXCEPT !.at = @ + 1]
                   /\ spared' = spared \ {w}
                   /\ UNCHANGED pages
    /\ UNCHANGED <<memory, used, pc, entered>>

\* One round of the loop: InvalidateBlock.  What a list outside the array holds
\* depends on the layout of the program: it is empty, or there is nothing at all.
InvalidateBlock ==
    /\ pc = "invalidating"
    /\ walk.at <= walk.stop
    /\ LET w == Walked
       IN  /\ blocks' = [blocks EXCEPT ![w].valid = FALSE]
           /\ IF blocks[w].segment = "Kuseg"
              THEN Erase(w) /\ UNCHANGED pc
              ELSE /\ walk' = [walk EXCEPT !.at = @ + 1]
                   /\ spared' = spared \ {w}
                   /\ pc' \in {"invalidating", "crashed"}
                   /\ UNCHANGED pages
    /\ UNCHANGED <<memory, used, entered>>

\* The end of InvalidateAddress.
ClearPage ==
    /\ pc = "invalidating"
    /\ walk.at > walk.stop
    /\ pages' = [pages EXCEPT ![walk.page] = << >>]
    /\ pc' = "block"
    /\ walk' = NoWalk
    /\ UNCHANGED <<memory, blocks, used, entered, spared>>

-----------------------------------------------------------------------------
Next ==
    \/ \E e \in Entries : Run(e[1], e[2]) \/ RunFails(e[1], e[2])
    \/ Return
    \/ \E w \in Stored, i \in Written : Store(w, i)
    \/ InvalidateBlock
    \/ ClearPage

Spec == Init /\ [][Next]_vars

-----------------------------------------------------------------------------
(* What must hold of the cache.                                             *)

\* A block that reaches over the end of more pages than its size would fill.
ReachesOver(w, code) ==
    (w % PageWords) + Len(code) > CeilDiv(Len(code), PageWords) * PageWords

\* Whenever the CPU may enter a block, the valid ones are what memory holds, but
\* for those that reach over the end of a page and those that a loop passed over.
NoStaleBlock ==
    pc \in {"between", "block"} =>
        \A w \in Words \ spared : blocks[w].valid /\ ~ReachesOver(w, blocks[w].code) =>
            Compiles(memory, w) /\ blocks[w].code = CodeAt(memory, w)

\* Run asserts of an address outside RAM that it is the physical one of the BIOS
\* (recompiler.cpp 48).
BiosEnteredPhysically ==
    pc = "block" /\ entered[2] \in Bios => entered[1] = "Kuseg"
=============================================================================
