------------------------------- MODULE MCUart -------------------------------
(***************************************************************************)
(* Instances of Uart for TLC: buffers of three slots and two bytes, one of *)
(* them the carriage return that uart_recv translates.                     *)
(***************************************************************************)
EXTENDS Uart
=============================================================================
