-------------------------------- MODULE Uart --------------------------------
(***************************************************************************)
(* The interrupt driven console of kernel/src/uart1.c: the receive and     *)
(* transmit buffers, uart_async_getc and uart_async_putc as threads call   *)
(* them, the two interrupt handlers, and the interrupt enable register     *)
(* AUX_MU_IER_REG that all of them update by reading and writing it back.  *)
(*                                                                         *)
(* A step of a thread is what it does between two points where it can be   *)
(* interrupted or lose the CPU.  A handler runs from the interrupt to its  *)
(* end without another thread running.                                     *)
(***************************************************************************)
EXTENDS Integers, Sequences

CONSTANTS
  Writers, Readers,  \* the threads that write, and those that read
  Chars,             \* the bytes they write and the line delivers
  CR, LF,            \* uart_recv turns the first into the second
  BUF_SIZE           \* VSPRINT_MAX_BUF_SIZE

ASSUME UartAssumption ==
  /\ BUF_SIZE \in Nat \ {0, 1}
  /\ CR \in Chars /\ LF \notin Chars
  /\ "none" \notin Chars \cup {LF}   \* stands for no byte

VARIABLES
  tx, rx,       \* buffer, widx, ridx of uart_tx_buffer and uart_rx_buffer
  IER,          \* the interrupts enabled in the UART, a subset of {"r", "w"}
  pc, char,     \* each thread: where it is, the byte it writes,
  ier,          \* and the value of IER it is about to write back
  sent, got     \* the last byte given to the transmitter, and to a reader

vars == <<tx, rx, IER, pc, char, ier, sent, got>>

Procs  == Writers \cup Readers
Index  == 0 .. BUF_SIZE - 1
Stored == (Chars \ {CR}) \cup {LF}
none   == "none"

Empty(b) == b.ridx = b.widx

(* Mutant of Full: the last slot is used too. *)
FullNever(b) == FALSE

Full(b)  == (b.widx + 1) % BUF_SIZE = b.ridx

(* An index after ++ and the test for the end of the buffer. *)
Wrap(i) == IF i >= BUF_SIZE THEN 0 ELSE i

Store(b, c) == [b EXCEPT !.buffer[b.widx] = c, !.widx = Wrap(@ + 1)]

(* The bytes between the indices, oldest first. *)
Content(b) ==
  [i \in 1 .. (b.widx - b.ridx + BUF_SIZE) % BUF_SIZE |-> b.buffer[(b.ridx + i - 1) % BUF_SIZE]]

Init ==
  /\ tx = [buffer |-> [i \in Index |-> none], widx |-> 0, ridx |-> 0]
  /\ rx = tx
  /\ IER = {"r", "w"}              \* uart_interrupt_enable
  /\ pc = [p \in Procs |-> "idle"]
  /\ char = [p \in Procs |-> none]
  /\ ier = [p \in Procs |-> {}]
  /\ sent = none /\ got = none

-----------------------------------------------------------------------------
Goto(p, l) == pc' = [pc EXCEPT ![p] = l]

(* IER |= bit, in two accesses: load and write back. *)
LoadIER(p, from, bit, to) ==
  /\ pc[p] = from /\ Goto(p, to)
  /\ ier' = [ier EXCEPT ![p] = IER \cup {bit}]
  /\ UNCHANGED <<tx, rx, IER, char, sent, got>>

WriteBackIER(p, from, to) ==
  /\ pc[p] = from /\ Goto(p, to)
  /\ IER' = ier[p]
  /\ ier' = [ier EXCEPT ![p] = {}]
  /\ UNCHANGED <<tx, rx, char, sent, got>>

(* uart_async_putc: wait while the buffer is full, store the byte with the *)
(* interrupts masked, enable the write interrupt.                          *)
CallPutc(p, c) ==
  /\ pc[p] = "idle" /\ Goto(p, "putc")
  /\ char' = [char EXCEPT ![p] = c]
  /\ UNCHANGED <<tx, rx, IER, ier, sent, got>>

TestFull(p) ==
  /\ pc[p] = "putc" /\ Goto(p, IF Full(tx) THEN "wait" ELSE "store")
  /\ UNCHANGED <<tx, rx, IER, char, ier, sent, got>>

PutChar(p) ==
  /\ pc[p] = "store" /\ Goto(p, "stored")
  /\ tx' = Store(tx, char[p])
  /\ char' = [char EXCEPT ![p] = none]
  /\ UNCHANGED <<rx, IER, ier, sent, got>>

(* Mutant of Kick: the write interrupt is not enabled. *)
KickNot(p) ==
  /\ pc[p] = "stored" /\ Goto(p, "idle")
  /\ UNCHANGED <<tx, rx, IER, char, ier, sent, got>>

Kick(p) == LoadIER(p, "stored", "w", "kick") \/ WriteBackIER(p, "kick", "idle")

uart_async_putc(p) ==
  \/ \E c \in Chars : CallPutc(p, c)
  \/ TestFull(p) \/ PutChar(p) \/ Kick(p)
  \/ LoadIER(p, "wait", "w", "waiting") \/ WriteBackIER(p, "waiting", "putc")

(* uart_async_getc: enable the read interrupt, do so again as long as the  *)
(* buffer is empty, and take a byte with the interrupts masked.            *)
TestEmpty(p) ==
  /\ pc[p] = "getc" /\ Goto(p, IF Empty(rx) THEN "empty" ELSE "take")
  /\ UNCHANGED <<tx, rx, IER, char, ier, sent, got>>

TakeChar(p) ==
  /\ pc[p] = "take" /\ Goto(p, "idle")
  /\ got' = rx.buffer[rx.ridx]
  /\ rx' = [rx EXCEPT !.ridx = Wrap(@ + 1)]
  /\ UNCHANGED <<tx, IER, char, ier, sent>>

(* Mutant of uart_async_getc: the read interrupt is left as it is. *)
uart_async_getcWaits(p) ==
  \/ /\ pc[p] \in {"idle", "empty"} /\ Goto(p, "getc")
     /\ UNCHANGED <<tx, rx, IER, char, ier, sent, got>>
  \/ TestEmpty(p) \/ TakeChar(p)

uart_async_getc(p) ==
  \/ LoadIER(p, "idle", "r", "enable") \/ LoadIER(p, "empty", "r", "enable")
  \/ WriteBackIER(p, "enable", "getc")
  \/ TestEmpty(p) \/ TakeChar(p)

-----------------------------------------------------------------------------
(* The interrupts; irq_router disables the one it handles. *)

uart_w_irq_handler ==
  /\ "w" \in IER
  /\ IF Empty(tx)
     THEN IER' = IER \ {"w"} /\ UNCHANGED <<tx, sent>>
     ELSE /\ sent' = tx.buffer[tx.ridx]
          /\ tx' = [tx EXCEPT !.ridx = Wrap(@ + 1)]
          /\ UNCHANGED IER
  /\ UNCHANGED <<rx, pc, char, ier, got>>

uart_recv(c) == IF c = CR THEN LF ELSE c

(* Mutant of uart_r_irq_handler: no test for a full buffer. *)
uart_r_irq_handlerUnbounded(c) ==
  /\ "r" \in IER
  /\ rx' = Store(rx, uart_recv(c))
  /\ UNCHANGED <<tx, IER, pc, char, ier, sent, got>>

(* A byte c has come in; it stays in the UART while the buffer is full. *)
uart_r_irq_handler(c) ==
  /\ "r" \in IER
  /\ IF Full(rx)
     THEN IER' = IER \ {"r"} /\ UNCHANGED rx
     ELSE rx' = Store(rx, uart_recv(c)) /\ UNCHANGED IER
  /\ UNCHANGED <<tx, pc, char, ier, sent, got>>

Step(p) == (p \in Writers /\ uart_async_putc(p)) \/ (p \in Readers /\ uart_async_getc(p))

Next ==
  \/ \E p \in Procs : Step(p)
  \/ uart_w_irq_handler
  \/ \E c \in Chars : uart_r_irq_handler(c)

Spec == Init /\ [][Next]_vars

(* A thread that has called one of the functions gets the CPU.  The        *)
(* transmitter, which becomes ready after every byte, interrupts if it     *)
(* may, and so does the receiver, to which bytes keep coming.              *)
FairSpec ==
  /\ Spec
  /\ SF_vars(uart_w_irq_handler)
  /\ SF_vars(\E c \in Chars : uart_r_irq_handler(c))
  /\ \A p \in Procs : WF_vars(pc[p] # "idle" /\ Step(p))

-----------------------------------------------------------------------------
(* Properties. *)

TxFifo == INSTANCE Fifo WITH CAPACITY <- BUF_SIZE - 1, items <- Content(tx), taken <- sent

RxFifo == INSTANCE Fifo
  WITH Chars <- Stored, CAPACITY <- BUF_SIZE - 1, items <- Content(rx), taken <- got

(* "implement first in first out buffer with a read index and a write      *)
(* index" (uart1.c): every byte put is sent exactly once, in order, and    *)
(* none is overwritten, wherever interrupts come between the test for a    *)
(* full buffer and the store.  This needs that one thread writes: a second *)
(* one can take the last slot in between (UartTwoWriters.cfg).             *)
TransmitIsFifo == TxFifo!Spec

(* The same for the bytes received, and the one thread that reads: a       *)
(* second one can take the last byte between the test for an empty buffer  *)
(* and the taking (UartTwoReaders.cfg).                                    *)
ReceiveIsFifo == RxFifo!Spec

(* "enable read interrupt" (uart1.c), again and again while the buffer is  *)
(* empty: a call of uart_async_getc returns while bytes come in, although  *)
(* a full buffer has turned the interrupt off, or another thread has       *)
(* written an old value of the register back (UartPair.cfg).               *)
GetcReturns ==
  \A p \in Readers : pc[p] \in {"enable", "getc", "empty", "take"} ~> pc[p] = "idle"

(* "uart_w_irq_handler read from buffer then output" (uart1.c): a byte in  *)
(* the transmit buffer is eventually sent.  This needs that no other       *)
(* thread updates the register: it may write an old value back and undo    *)
(* the enabling of the interrupt (UartLostUpdate.cfg).                     *)
TransmitGoesOn ==
  \A i \in Index : (~Empty(tx) /\ tx.ridx = i) ~> tx.ridx # i
=============================================================================
