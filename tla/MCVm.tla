--------------------------------- MODULE MCVm ---------------------------------
(* Instance of Vm for TLC: an image of two pages, a hole, the peripherals,   *)
(* adjacent as in the code the signal stack, the wrapper and the stack, and  *)
(* a hole behind them.  One request starts inside the image and fits behind  *)
(* it, the other has to get past four regions.                               *)
EXTENDS Vm

const_Requests   == {<<0, 2, {"r", "w"}>>, <<3, 2, {"r"}>>}
const_Touched    == {3, 6}  \* the second page behind the image, the wrapper
const_TouchedEnd == {2}     \* the page behind the image

=============================================================================
