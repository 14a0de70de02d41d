----------------------------- MODULE MCIrqTask -----------------------------
(***************************************************************************)
(* Instances of IrqTask for TLC: two threads, interrupts two deep.         *)
(***************************************************************************)
EXTENDS IrqTask
=============================================================================
