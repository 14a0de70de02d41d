------------------------------ MODULE MCTimer ------------------------------
(***************************************************************************)
(* Instances of Timer for TLC.  The frequency of the counter is a property *)
(* of the board.  Timer.cfg stands for one at which cntfrq_el0 * 10000     *)
(* modulo 2^32 is a positive signed number; TimerEmpty.cfg for 19.2 MHz,   *)
(* where 192000000000 = 44.70 * 2^32, scaled to 715 = 44.69 * 16.          *)
(***************************************************************************)
EXTENDS Timer
=============================================================================
