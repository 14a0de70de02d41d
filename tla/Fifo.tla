-------------------------------- MODULE Fifo --------------------------------
(***************************************************************************)
(* A bounded first-in first-out buffer: what the receive and transmit      *)
(* buffers of kernel/src/uart1.c promise.                                  *)
(***************************************************************************)
EXTENDS Integers, Sequences

CONSTANTS Chars, CAPACITY

VARIABLES
  items,  \* what is in the buffer, oldest first
  taken   \* what was last taken out

Init == items = <<>> /\ taken \notin Chars

Put(c) ==
  /\ Len(items) < CAPACITY
  /\ items' = Append(items, c)
  /\ UNCHANGED taken

Take ==
  /\ items # <<>>
  /\ taken' = Head(items)
  /\ items' = Tail(items)

Next == Take \/ \E c \in Chars : Put(c)

Spec == Init /\ [][Next]_<<items, taken>>
=============================================================================
