------------------------------ MODULE MCSched ------------------------------
(***************************************************************************)
(* Instances of Sched for TLC: the idle thread and up to three others.     *)
(***************************************************************************)
EXTENDS Sched
=============================================================================
