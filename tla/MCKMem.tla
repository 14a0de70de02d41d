------------------------------- MODULE MCKMem -------------------------------
(***************************************************************************)
(* Instances of KMem for TLC: frames of 4 bytes and the slab classes 1 and *)
(* 2 with, as in the code, one class more than the table has initialisers. *)
(***************************************************************************)
EXTENDS KMem

MCBlockSize == [k \in 0 .. MAX_ORDER |-> 2 ^ k]
MCSlabSizes == [t \in 0 .. SLAB_TYPE - 1 |-> IF t = SLAB_TYPE - 1 THEN 0 ELSE 2 ^ t]
=============================================================================
