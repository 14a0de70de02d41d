------------------------------ MODULE MCSignal ------------------------------
(***************************************************************************)
(* Instances of Signal for TLC: two user threads and three signals, of     *)
(* which the highest, whose count thread_create forgets, is not sent.      *)
(***************************************************************************)
EXTENDS Signal
=============================================================================
