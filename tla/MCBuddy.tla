------------------------------ MODULE MCBuddy ------------------------------
(***************************************************************************)
(* Instances of Buddy for TLC.  The number of frames is not a multiple of  *)
(* the largest block, as in the code (0x3C000 frames, orders up to 20), so *)
(* the cut-off blocks at the end of memory occur, and the reserved bytes   *)
(* start and end inside a frame.                                           *)
(***************************************************************************)
EXTENDS Buddy

MCBlockSize == [k \in 0 .. MAX_ORDER |-> 2 ^ k]

(* One byte in the middle of frame 5, and a range that starts in the last  *)
(* frame and runs past the end of memory.                                  *)
MCReservations == {<<11, 12>>, <<17, 40>>}
=============================================================================
