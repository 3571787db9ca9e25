---------------------------------- MODULE Intc ---------------------------------
(***************************************************************************)
(* The interrupt controller (core/intc.hpp, core/intc.cpp): the bits that    *)
(* devices assert, the mask, and the line to the CPU.  Operators on a record. *)
(***************************************************************************)
CONSTANT Interrupt

IntcState == [status : SUBSET Interrupt, mask : SUBSET Interrupt, line : BOOLEAN]

\* Reset.
BootIntc == [status |-> {}, mask |-> {}, line |-> FALSE]

\* Update, which every operation ends with.
Update(b) == [b EXCEPT !.line = b.status \cap b.mask # {}]

AssertInterrupt(b, i) == Update([b EXCEPT !.status = @ \cup {i}])

\* Writing the status register clears the bits that are 0.
WriteStatus(b, kept) == Update([b EXCEPT !.status = @ \cap kept])

\* Fault: the line follows with the next interrupt.
WriteMaskLate(b, mask) == [b EXCEPT !.mask = mask]

WriteMask(b, mask) == Update([b EXCEPT !.mask = mask])
=============================================================================
