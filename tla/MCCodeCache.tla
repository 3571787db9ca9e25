------------------------------ MODULE MCCodeCache ------------------------------
(***************************************************************************)
(* Two pages of four words.  Three blocks begin on the first page: one that *)
(* may fill more than the page, one inside it, and one at its end that      *)
(* reaches over it if the guest writes a branch there.  On the second there *)
(* is one that runs at its physical address.                                *)
(***************************************************************************)
EXTENDS CodeCache

MCBoot == [w \in Ram |-> IF w \in {1, 5, 7} THEN "End" ELSE "Plain"]
MCRom == <<"Plain", "End">>
MCEntries == {<<"Kseg", 0>>, <<"Kseg", 3>>, <<"Kuseg", 4>>, <<"Kuseg", 5>>, <<"Kseg", 6>>, <<"Kseg", 8>>}
=============================================================================
