---------------------------- MODULE DeviceProofs ----------------------------
(***************************************************************************)
(* Proofs about the two devices that interrupt the kernel.  The buffers of *)
(* module Uart implement first-in first-out buffers, for every size of the *)
(* buffers and every set of bytes, as long as one thread writes and one    *)
(* reads.  The list of events of module Timer and the compare register     *)
(* agree, for every set of messages and timeouts and whatever the          *)
(* counter's frequency.  The two modules share nothing.                    *)
(***************************************************************************)
EXTENDS Uart, Timer, ListLemmas

-----------------------------------------------------------------------------
(* The buffers of the console. *)

Bytes   == Chars \cup {LF, none}
Buffers == [buffer : [Index -> Bytes], widx : Index, ridx : Index]

Holds(b) == IF b.widx >= b.ridx THEN b.widx - b.ridx ELSE b.widx - b.ridx + BUF_SIZE
Slot(b, i) == IF b.ridx + i - 1 < BUF_SIZE THEN b.ridx + i - 1 ELSE b.ridx + i - 1 - BUF_SIZE

(* Remainders of numbers below twice the modulus. *)
LEMMA Remainder ==
  ASSUME NEW m \in Nat \ {0}, NEW x \in 0 .. m - 1
  PROVE  x % m = x /\ (x + m) % m = x
OBVIOUS

(* What a buffer holds, without remainders. *)
LEMMA Contents ==
  ASSUME NEW b \in Buffers
  PROVE  /\ Holds(b) \in 0 .. BUF_SIZE - 1
         /\ \A i \in 1 .. Holds(b) : Slot(b, i) \in Index
         /\ Content(b) = [i \in 1 .. Holds(b) |-> b.buffer[Slot(b, i)]]
         /\ Content(b) \in Seq(Bytes) /\ Len(Content(b)) = Holds(b)
         /\ Full(b) <=> Holds(b) = BUF_SIZE - 1
         /\ Empty(b) <=> Holds(b) = 0
<1>. DEFINE w == b.widx
            r == b.ridx
<1>1. BUF_SIZE \in Nat \ {0, 1} /\ w \in 0 .. BUF_SIZE - 1 /\ r \in 0 .. BUF_SIZE - 1
      /\ b.buffer \in [Index -> Bytes]
  BY UartAssumption DEF Buffers, Index
<1>2. Holds(b) = IF w >= r THEN w - r ELSE w - r + BUF_SIZE
  BY DEF Holds
<1>3. \A i : Slot(b, i) = IF r + i - 1 < BUF_SIZE THEN r + i - 1 ELSE r + i - 1 - BUF_SIZE
  BY DEF Slot
<1>4. /\ Full(b) <=> (w + 1) % BUF_SIZE = r
      /\ Empty(b) <=> r = w
      /\ Content(b) = [i \in 1 .. (w - r + BUF_SIZE) % BUF_SIZE |-> b.buffer[(r + i - 1) % BUF_SIZE]]
  BY DEF Full, Empty, Content
<1>. HIDE DEF w, r
<1>5. Holds(b) \in 0 .. BUF_SIZE - 1 /\ (w - r + BUF_SIZE) % BUF_SIZE = Holds(b)
  <2>1. CASE w >= r
    <3>. w - r \in 0 .. BUF_SIZE - 1 /\ Holds(b) = w - r
      BY <1>1, <1>2, <2>1
    <3>. (w - r + BUF_SIZE) % BUF_SIZE = w - r
      BY <1>1, Remainder
    <3>. QED  OBVIOUS
  <2>2. CASE w < r
    <3>. w - r + BUF_SIZE \in 0 .. BUF_SIZE - 1 /\ Holds(b) = w - r + BUF_SIZE
      BY <1>1, <1>2, <2>2
    <3>. QED  BY <1>1, Remainder
  <2>. QED  BY <1>1, <2>1, <2>2
<1>6. ASSUME NEW i \in 1 .. Holds(b)
      PROVE  Slot(b, i) \in Index /\ (r + i - 1) % BUF_SIZE = Slot(b, i)
  <2>0. i \in 1 .. BUF_SIZE - 1
    BY <1>1, <1>5
  <2>1. CASE r + i - 1 < BUF_SIZE
    <3>. r + i - 1 \in 0 .. BUF_SIZE - 1 /\ Slot(b, i) = r + i - 1
      BY <1>1, <1>3, <2>0, <2>1
    <3>. QED  BY <1>1, Remainder DEF Index
  <2>2. CASE ~(r + i - 1 < BUF_SIZE)
    <3>. DEFINE x == r + i - 1 - BUF_SIZE
    <3>1. x \in 0 .. BUF_SIZE - 1 /\ Slot(b, i) = x /\ x + BUF_SIZE = r + i - 1
      BY <1>1, <1>3, <2>0, <2>2
    <3>. HIDE DEF x
    <3>2. (x + BUF_SIZE) % BUF_SIZE = x
      BY <1>1, <3>1, Remainder
    <3>. QED  BY <3>1, <3>2 DEF Index
  <2>. QED  BY <2>1, <2>2
<1>7. Content(b) = [i \in 1 .. Holds(b) |-> b.buffer[Slot(b, i)]]
  BY <1>4, <1>5, <1>6
<1>8. /\ Content(b) \in Seq(Bytes) /\ Len(Content(b)) = Holds(b)
  <2>. \A i \in 1 .. Holds(b) : b.buffer[Slot(b, i)] \in Bytes
    BY <1>1, <1>6
  <2>. Holds(b) \in Nat
    BY <1>1, <1>5
  <2>. QED  BY <1>7
<1>9. Full(b) <=> Holds(b) = BUF_SIZE - 1
  <2>1. CASE w = BUF_SIZE - 1
    <3>. (w + 1) % BUF_SIZE = 0
      <4>. 0 \in 0 .. BUF_SIZE - 1 /\ w + 1 = 0 + BUF_SIZE
        BY <1>1, <2>1
      <4>. QED  BY <1>1, Remainder
    <3>. QED  BY <1>1, <1>2, <1>4, <2>1
  <2>2. CASE w # BUF_SIZE - 1
    <3>. w + 1 \in 0 .. BUF_SIZE - 1
      BY <1>1, <2>2
    <3>. (w + 1) % BUF_SIZE = w + 1
      BY <1>1, Remainder
    <3>. QED  BY <1>1, <1>2, <1>4, <2>2
  <2>. QED  BY <2>1, <2>2
<1>10. Empty(b) <=> Holds(b) = 0
  BY <1>1, <1>2, <1>4
<1>. QED  BY <1>5, <1>6, <1>7, <1>8, <1>9, <1>10

(* A byte is stored in a buffer that is not full. *)
LEMMA StoreAppends ==
  ASSUME NEW b \in Buffers, ~Full(b), NEW c \in Bytes
  PROVE  /\ Store(b, c) \in Buffers
         /\ Content(Store(b, c)) = Append(Content(b), c)
         /\ Len(Content(b)) < BUF_SIZE - 1
<1>. DEFINE d == Store(b, c)
<1>1. BUF_SIZE \in Nat \ {0, 1} /\ b.widx \in 0 .. BUF_SIZE - 1 /\ b.ridx \in 0 .. BUF_SIZE - 1
      /\ b.buffer \in [Index -> Bytes]
  BY UartAssumption DEF Buffers, Index
<1>2. /\ d \in Buffers /\ d.ridx = b.ridx /\ d.buffer = [b.buffer EXCEPT ![b.widx] = c]
      /\ d.widx = IF b.widx + 1 >= BUF_SIZE THEN 0 ELSE b.widx + 1
  <2>1. d = [b EXCEPT !.buffer = [b.buffer EXCEPT ![b.widx] = c], !.widx = Wrap(b.widx + 1)]
    BY DEF Store, Buffers
  <2>2. Wrap(b.widx + 1) \in Index
    BY <1>1 DEF Wrap, Index
  <2>3. [b.buffer EXCEPT ![b.widx] = c] \in [Index -> Bytes]
    BY <1>1
  <2>. QED  BY <2>1, <2>2, <2>3 DEF Buffers, Wrap
<1>. HIDE DEF d
<1>3. Holds(b) \in 0 .. BUF_SIZE - 1 /\ Holds(b) # BUF_SIZE - 1
  BY Contents
<1>4. Holds(d) = Holds(b) + 1
  BY <1>1, <1>2, <1>3 DEF Holds
<1>5. \A i \in 1 .. Holds(b) : Slot(d, i) = Slot(b, i) /\ Slot(b, i) # b.widx
  BY <1>1, <1>2, <1>3 DEF Holds, Slot
<1>6. Slot(d, Holds(b) + 1) = b.widx
  BY <1>1, <1>2, <1>3 DEF Holds, Slot
<1>7. /\ Content(b) \in Seq(Bytes) /\ Len(Content(b)) = Holds(b)
      /\ \A i \in 1 .. Holds(b) : Content(b)[i] = b.buffer[Slot(b, i)] /\ Slot(b, i) \in Index
  BY Contents
<1>8. /\ Content(d) \in Seq(Bytes) /\ Len(Content(d)) = Holds(d)
      /\ \A i \in 1 .. Holds(d) : Content(d)[i] = d.buffer[Slot(d, i)]
  <2>. d \in Buffers
    BY <1>2
  <2>. /\ Content(d) = [i \in 1 .. Holds(d) |-> d.buffer[Slot(d, i)]]
       /\ Content(d) \in Seq(Bytes) /\ Len(Content(d)) = Holds(d)
    BY Contents
  <2>. QED  OBVIOUS
<1>9. /\ Append(Content(b), c) \in Seq(Bytes) /\ Len(Append(Content(b), c)) = Holds(b) + 1
      /\ \A i \in 1 .. Holds(b) : Append(Content(b), c)[i] = Content(b)[i]
      /\ Append(Content(b), c)[Holds(b) + 1] = c
  BY <1>7, AppendProperties
<1>10. ASSUME NEW i \in 1 .. Holds(b) + 1
       PROVE  Content(d)[i] = Append(Content(b), c)[i]
  <2>1. CASE i \in 1 .. Holds(b)
    BY <1>1, <1>2, <1>4, <1>5, <1>7, <1>8, <1>9, <2>1
  <2>2. CASE i = Holds(b) + 1
    <3>. d.buffer[b.widx] = c
      BY <1>1, <1>2 DEF Index
    <3>. i \in 1 .. Holds(d) /\ Slot(d, i) = b.widx
      BY <1>3, <1>4, <1>6, <2>2
    <3>. Content(d)[i] = d.buffer[Slot(d, i)]
      BY <1>8
    <3>. Append(Content(b), c)[i] = c
      BY <1>9, <2>2
    <3>. QED  OBVIOUS
  <2>3. i \in 1 .. Holds(b) \/ i = Holds(b) + 1
    <3>. Holds(b) \in Nat
      BY <1>1, <1>3
    <3>. QED  OBVIOUS
  <2>. QED  BY <2>1, <2>2, <2>3
<1>11. Content(d) = Append(Content(b), c)
  BY <1>4, <1>8, <1>9, <1>10, SameSequence
<1>. QED  BY <1>1, <1>2, <1>3, <1>7, <1>11 DEF d

(* A byte is taken out of a buffer that is not empty. *)
LEMMA TakeTails ==
  ASSUME NEW b \in Buffers, ~Empty(b)
  PROVE  LET d == [b EXCEPT !.ridx = Wrap(@ + 1)] IN
         /\ d \in Buffers /\ Content(d) = Tail(Content(b))
         /\ Content(b) # <<>> /\ b.buffer[b.ridx] = Head(Content(b))
<1>. DEFINE d == [b EXCEPT !.ridx = Wrap(@ + 1)]
<1>1. BUF_SIZE \in Nat \ {0, 1} /\ b.widx \in 0 .. BUF_SIZE - 1 /\ b.ridx \in 0 .. BUF_SIZE - 1
      /\ b.buffer \in [Index -> Bytes]
  BY UartAssumption DEF Buffers, Index
<1>2. /\ d \in Buffers /\ d.widx = b.widx /\ d.buffer = b.buffer
      /\ d.ridx = IF b.ridx + 1 >= BUF_SIZE THEN 0 ELSE b.ridx + 1
  <2>. Wrap(b.ridx + 1) \in Index
    BY <1>1 DEF Wrap, Index
  <2>. QED  BY DEF Buffers, Wrap
<1>. HIDE DEF d
<1>3. Holds(b) \in 0 .. BUF_SIZE - 1 /\ Holds(b) # 0
  BY Contents
<1>4. Holds(d) = Holds(b) - 1
  BY <1>1, <1>2, <1>3 DEF Holds
<1>5. \A i \in 1 .. Holds(b) - 1 : Slot(d, i) = Slot(b, i + 1)
  BY <1>1, <1>2, <1>3 DEF Holds, Slot
<1>6. Slot(b, 1) = b.ridx
  BY <1>1 DEF Slot
<1>7. /\ Content(b) \in Seq(Bytes) /\ Len(Content(b)) = Holds(b)
      /\ \A i \in 1 .. Holds(b) : Content(b)[i] = b.buffer[Slot(b, i)]
  BY Contents
<1>8. /\ Content(d) \in Seq(Bytes) /\ Len(Content(d)) = Holds(d)
      /\ \A i \in 1 .. Holds(d) : Content(d)[i] = d.buffer[Slot(d, i)]
  <2>. d \in Buffers
    BY <1>2
  <2>. /\ Content(d) = [i \in 1 .. Holds(d) |-> d.buffer[Slot(d, i)]]
       /\ Content(d) \in Seq(Bytes) /\ Len(Content(d)) = Holds(d)
    BY Contents
  <2>. QED  OBVIOUS
<1>9. Content(b) # <<>> /\ Head(Content(b)) = b.buffer[b.ridx]
  <2>1. Content(b) # <<>>
    BY <1>3, <1>7
  <2>2. Head(Content(b)) = Content(b)[1] /\ 1 \in 1 .. Holds(b)
    BY <1>1, <1>3, <1>7, <2>1, HeadTailProperties
  <2>. QED  BY <1>6, <1>7, <2>1, <2>2
<1>10. /\ Tail(Content(b)) \in Seq(Bytes) /\ Len(Tail(Content(b))) = Holds(b) - 1
       /\ \A i \in 1 .. Holds(b) - 1 : Tail(Content(b))[i] = Content(b)[i + 1]
  BY <1>7, <1>9, HeadTailProperties
<1>11. ASSUME NEW i \in 1 .. Holds(b) - 1
       PROVE  Content(d)[i] = Tail(Content(b))[i]
  <2>. i + 1 \in 1 .. Holds(b) /\ i \in 1 .. Holds(d)
    BY <1>1, <1>3, <1>4
  <2>. QED  BY <1>2, <1>5, <1>7, <1>8, <1>10
<1>12. Content(d) = Tail(Content(b))
  BY <1>4, <1>8, <1>10, <1>11, SameSequence
<1>. QED  BY <1>2, <1>9, <1>12 DEF d
-----------------------------------------------------------------------------
(* The inductive invariant: a writer that has found room finds it when it  *)
(* stores the byte, a reader that has found a byte finds it when it takes  *)
(* it.                                                                     *)

Places == {"idle", "putc", "wait", "waiting", "store", "stored", "kick",
           "enable", "getc", "empty", "take"}

TypeOK ==
  /\ tx \in Buffers /\ rx \in Buffers
  /\ pc \in [Procs -> Places]
  /\ char \in [Procs -> Chars \cup {none}]

WritersInv ==
  \A p \in Procs :
    /\ pc[p] \in {"putc", "wait", "waiting", "store"} => p \in Writers /\ char[p] \in Chars
    /\ pc[p] = "store" => ~Full(tx)

ReadersInv ==
  \A p \in Procs : pc[p] = "take" => p \in Readers /\ ~Empty(rx)

OneWriter == \A p, q \in Writers : p = q
OneReader == \A p, q \in Readers : p = q

(* A step of the UART as the transmit buffer sees it, and the receive      *)
(* buffer.                                                                 *)
TxStep ==
  \/ UNCHANGED <<tx, sent>>
  \/ sent' = sent /\ ~Full(tx) /\ \E c \in Chars : tx' = Store(tx, c)
  \/ ~Empty(tx) /\ sent' = tx.buffer[tx.ridx] /\ tx' = [tx EXCEPT !.ridx = Wrap(@ + 1)]

RxStep ==
  \/ UNCHANGED <<rx, got>>
  \/ got' = got /\ ~Full(rx) /\ \E c \in Stored : rx' = Store(rx, c)
  \/ ~Empty(rx) /\ got' = rx.buffer[rx.ridx] /\ rx' = [rx EXCEPT !.ridx = Wrap(@ + 1)]

(* The step of a buffer is one of the abstract buffer. *)
LEMMA TxRefines ==
  ASSUME tx \in Buffers, TxStep
  PROVE  tx' \in Buffers /\ [TxFifo!Next]_<<Content(tx), sent>>
<1>1. CASE UNCHANGED <<tx, sent>>
  BY <1>1 DEF Content
<1>2. CASE sent' = sent /\ ~Full(tx) /\ \E c \in Chars : tx' = Store(tx, c)
  <2>1. PICK c \in Chars : tx' = Store(tx, c)
    BY <1>2
  <2>2. c \in Bytes
    BY DEF Bytes
  <2>3. /\ tx' \in Buffers /\ Content(tx)' = Append(Content(tx), c)
        /\ Len(Content(tx)) < BUF_SIZE - 1
    <3>. /\ Store(tx, c) \in Buffers
         /\ Content(Store(tx, c)) = Append(Content(tx), c)
         /\ Len(Content(tx)) < BUF_SIZE - 1
      BY <1>2, <2>2, StoreAppends
    <3>. Content(tx)' = Content(Store(tx, c))
      BY <2>1 DEF Content
    <3>. QED  BY <2>1
  <2>4. TxFifo!Put(c)
    BY <1>2, <2>3 DEF TxFifo!Put
  <2>. QED  BY <2>3, <2>4 DEF TxFifo!Next
<1>3. CASE ~Empty(tx) /\ sent' = tx.buffer[tx.ridx] /\ tx' = [tx EXCEPT !.ridx = Wrap(@ + 1)]
  <2>. DEFINE d == [tx EXCEPT !.ridx = Wrap(@ + 1)]
  <2>1. /\ d \in Buffers /\ Content(d) = Tail(Content(tx))
        /\ Content(tx) # <<>> /\ tx.buffer[tx.ridx] = Head(Content(tx))
    BY <1>3, TakeTails
  <2>2. Content(tx)' = Content(d)
    BY <1>3 DEF Content
  <2>3. TxFifo!Take
    BY <1>3, <2>1, <2>2 DEF TxFifo!Take
  <2>. QED  BY <1>3, <2>1, <2>3 DEF TxFifo!Next
<1>. QED  BY <1>1, <1>2, <1>3 DEF TxStep

(* The same for the receive buffer. *)
LEMMA RxRefines ==
  ASSUME rx \in Buffers, RxStep
  PROVE  rx' \in Buffers /\ [RxFifo!Next]_<<Content(rx), got>>
<1>1. CASE UNCHANGED <<rx, got>>
  BY <1>1 DEF Content
<1>2. CASE got' = got /\ ~Full(rx) /\ \E c \in Stored : rx' = Store(rx, c)
  <2>1. PICK c \in Stored : rx' = Store(rx, c)
    BY <1>2
  <2>2. c \in Bytes
    BY DEF Bytes, Stored
  <2>3. /\ rx' \in Buffers /\ Content(rx)' = Append(Content(rx), c)
        /\ Len(Content(rx)) < BUF_SIZE - 1
    <3>. /\ Store(rx, c) \in Buffers
         /\ Content(Store(rx, c)) = Append(Content(rx), c)
         /\ Len(Content(rx)) < BUF_SIZE - 1
      BY <1>2, <2>2, StoreAppends
    <3>. Content(rx)' = Content(Store(rx, c))
      BY <2>1 DEF Content
    <3>. QED  BY <2>1
  <2>4. RxFifo!Put(c)
    BY <1>2, <2>3 DEF RxFifo!Put
  <2>. QED  BY <2>3, <2>4 DEF RxFifo!Next
<1>3. CASE ~Empty(rx) /\ got' = rx.buffer[rx.ridx] /\ rx' = [rx EXCEPT !.ridx = Wrap(@ + 1)]
  <2>. DEFINE d == [rx EXCEPT !.ridx = Wrap(@ + 1)]
  <2>1. /\ d \in Buffers /\ Content(d) = Tail(Content(rx))
        /\ Content(rx) # <<>> /\ rx.buffer[rx.ridx] = Head(Content(rx))
    BY <1>3, TakeTails
  <2>2. Content(rx)' = Content(d)
    BY <1>3 DEF Content
  <2>3. RxFifo!Take
    BY <1>3, <2>1, <2>2 DEF RxFifo!Take
  <2>. QED  BY <1>3, <2>1, <2>3 DEF RxFifo!Next
<1>. QED  BY <1>1, <1>2, <1>3 DEF RxStep

(* The buffers keep their types, whatever is in them. *)
LEMMA BufferTypes ==
  ASSUME NEW b \in Buffers
  PROVE  /\ \A c \in Bytes : Store(b, c) \in Buffers
         /\ [b EXCEPT !.ridx = Wrap(@ + 1)] \in Buffers
<1>1. BUF_SIZE \in Nat \ {0, 1} /\ b.widx \in 0 .. BUF_SIZE - 1 /\ b.ridx \in 0 .. BUF_SIZE - 1
      /\ b.buffer \in [Index -> Bytes]
  BY UartAssumption DEF Buffers, Index
<1>2. Wrap(b.ridx + 1) \in Index /\ Wrap(b.widx + 1) \in Index
  BY <1>1 DEF Wrap, Index
<1>3. ASSUME NEW c \in Bytes
      PROVE  Store(b, c) \in Buffers
  <2>1. Store(b, c) = [b EXCEPT !.buffer = [b.buffer EXCEPT ![b.widx] = c], !.widx = Wrap(b.widx + 1)]
    BY DEF Store, Buffers
  <2>2. [b.buffer EXCEPT ![b.widx] = c] \in [Index -> Bytes]
    BY <1>1
  <2>. QED  BY <1>2, <2>1, <2>2 DEF Buffers
<1>4. [b EXCEPT !.ridx = Wrap(@ + 1)] \in Buffers
  BY <1>2 DEF Buffers
<1>. QED  BY <1>3, <1>4

(* After a byte has been taken out there is room for one, and after one    *)
(* has been stored there is one to take.                                   *)
LEMMA RoomAndBytes ==
  ASSUME NEW b \in Buffers
  PROVE  /\ ~Empty(b) => ~Full([b EXCEPT !.ridx = Wrap(@ + 1)])
         /\ \A c \in Bytes : ~Full(b) => ~Empty(Store(b, c))
<1>. DEFINE d == [b EXCEPT !.ridx = Wrap(@ + 1)]
<1>1. ASSUME ~Empty(b)
      PROVE  ~Full(d)
  <2>1. /\ d \in Buffers /\ Content(d) = Tail(Content(b))
        /\ Content(b) # <<>>
    BY <1>1, TakeTails
  <2>. HIDE DEF d
  <2>2. Content(b) \in Seq(Bytes) /\ Len(Content(b)) \in 0 .. BUF_SIZE - 1 /\ BUF_SIZE \in Nat
    BY UartAssumption, Contents
  <2>3. Len(Content(d)) = Len(Content(b)) - 1
    BY <2>1, <2>2, HeadTailProperties
  <2>4. Full(d) <=> Len(Content(d)) = BUF_SIZE - 1
    BY <2>1, Contents
  <2>. QED  BY <2>2, <2>3, <2>4
<1>2. ASSUME NEW c \in Bytes, ~Full(b)
      PROVE  ~Empty(Store(b, c))
  <2>. DEFINE e == Store(b, c)
  <2>1. e \in Buffers /\ Content(e) = Append(Content(b), c)
    BY <1>2, StoreAppends
  <2>. HIDE DEF e
  <2>2. Content(b) \in Seq(Bytes)
    BY Contents
  <2>3. Content(e) # <<>>
    BY <2>1, <2>2, AppendProperties
  <2>4. Empty(e) <=> Len(Content(e)) = 0
    BY <2>1, Contents
  <2>5. Content(e) \in Seq(Bytes)
    BY <2>1, Contents
  <2>6. ~Empty(e)
    BY <2>3, <2>4, <2>5, EmptySeq
  <2>. QED  BY <2>6 DEF e
<1>. QED  BY <1>1, <1>2

-----------------------------------------------------------------------------
(* What each step of a thread does to the buffers and to the other         *)
(* threads.                                                                *)

(* Thread p goes on to l without touching a buffer. *)
Moves(p, l) ==
  /\ UNCHANGED <<tx, rx, sent, got>> /\ Goto(p, l)
  /\ \/ p \in Writers /\ l = "putc" /\ \E c \in Chars : char' = [char EXCEPT ![p] = c]
     \/ /\ char' = char
        /\ \/ pc[p] \in {"putc", "waiting", "wait"} /\ l \in {"putc", "waiting", "wait"}
           \/ pc[p] = "putc" /\ l = "store" /\ ~Full(tx)
           \/ p \in Readers /\ l = "take" /\ ~Empty(rx)
           \/ l \in {"idle", "kick", "getc", "enable", "empty"}

(* A thread's step is one of these, or it stores or takes a byte. *)
LEMMA Steps ==
  ASSUME NEW p \in Procs, Step(p)
  PROVE  \/ \E l \in Places : Moves(p, l)
         \/ p \in Writers /\ PutChar(p)
         \/ p \in Readers /\ TakeChar(p)
<1>1. CASE p \in Writers /\ uart_async_putc(p)
  <2>1. CASE \E c \in Chars : CallPutc(p, c)
    <3>. Moves(p, "putc")
      BY <1>1, <2>1 DEF CallPutc, Moves
    <3>. QED  BY DEF Places
  <2>2. CASE TestFull(p)
    <3>1. CASE Full(tx)
      <4>. Moves(p, "wait")
        BY <2>2, <3>1 DEF TestFull, Moves
      <4>. QED  BY DEF Places
    <3>2. CASE ~Full(tx)
      <4>. Moves(p, "store")
        BY <2>2, <3>2 DEF TestFull, Moves
      <4>. QED  BY DEF Places
    <3>. QED  BY <3>1, <3>2
  <2>3. CASE PutChar(p)
    BY <1>1, <2>3
  <2>4. CASE LoadIER(p, "stored", "w", "kick")
    <3>. Moves(p, "kick")
      BY <2>4 DEF LoadIER, Moves
    <3>. QED  BY DEF Places
  <2>5. CASE WriteBackIER(p, "kick", "idle")
    <3>. Moves(p, "idle")
      BY <2>5 DEF WriteBackIER, Moves
    <3>. QED  BY DEF Places
  <2>6. CASE LoadIER(p, "wait", "w", "waiting")
    <3>. Moves(p, "waiting")
      BY <2>6 DEF LoadIER, Moves
    <3>. QED  BY DEF Places
  <2>7. CASE WriteBackIER(p, "waiting", "putc")
    <3>. Moves(p, "putc")
      BY <2>7 DEF WriteBackIER, Moves
    <3>. QED  BY DEF Places
  <2>. QED  BY <1>1, <2>1, <2>2, <2>3, <2>4, <2>5, <2>6, <2>7 DEF uart_async_putc, Kick
<1>2. CASE p \in Readers /\ uart_async_getc(p)
  <2>1. CASE LoadIER(p, "idle", "r", "enable") \/ LoadIER(p, "empty", "r", "enable")
    <3>. Moves(p, "enable")
      BY <2>1 DEF LoadIER, Moves
    <3>. QED  BY DEF Places
  <2>2. CASE WriteBackIER(p, "enable", "getc")
    <3>. Moves(p, "getc")
      BY <2>2 DEF WriteBackIER, Moves
    <3>. QED  BY DEF Places
  <2>3. CASE TestEmpty(p)
    <3>1. CASE Empty(rx)
      <4>. Moves(p, "empty")
        BY <2>3, <3>1 DEF TestEmpty, Moves
      <4>. QED  BY DEF Places
    <3>2. CASE ~Empty(rx)
      <4>. Moves(p, "take")
        BY <1>2, <2>3, <3>2 DEF TestEmpty, Moves
      <4>. QED  BY DEF Places
    <3>. QED  BY <3>1, <3>2
  <2>4. CASE TakeChar(p)
    BY <1>2, <2>4
  <2>. QED  BY <1>2, <2>1, <2>2, <2>3, <2>4 DEF uart_async_getc
<1>. QED  BY <1>1, <1>2 DEF Step

(* The types are kept. *)
LEMMA TypesKept == TypeOK /\ [Next]_vars => TypeOK'
<1>. SUFFICES ASSUME TypeOK, [Next]_vars
              PROVE  TypeOK'
  OBVIOUS
<1>. USE DEF TypeOK
<1>1. ASSUME NEW p \in Procs, NEW l \in Places, Moves(p, l)
      PROVE  TypeOK'
  BY <1>1 DEF Moves, Goto
<1>2. ASSUME NEW p \in Procs, PutChar(p)
      PROVE  TypeOK'
  <2>1. char[p] \in Bytes
    BY DEF Bytes
  <2>2. Store(tx, char[p]) \in Buffers
    BY <2>1, BufferTypes
  <2>. QED  BY <1>2, <2>2 DEF PutChar, Goto, Places
<1>3. ASSUME NEW p \in Procs, TakeChar(p)
      PROVE  TypeOK'
  <2>. [rx EXCEPT !.ridx = Wrap(@ + 1)] \in Buffers
    BY BufferTypes
  <2>. QED  BY <1>3 DEF TakeChar, Goto, Places
<1>4. CASE uart_w_irq_handler
  <2>. [tx EXCEPT !.ridx = Wrap(@ + 1)] \in Buffers
    BY BufferTypes
  <2>. QED  BY <1>4 DEF uart_w_irq_handler
<1>5. ASSUME NEW c \in Chars, uart_r_irq_handler(c)
      PROVE  TypeOK'
  <2>1. uart_recv(c) \in Bytes
    BY DEF uart_recv, Bytes
  <2>2. Store(rx, uart_recv(c)) \in Buffers
    BY <2>1, BufferTypes
  <2>. QED  BY <1>5, <2>2 DEF uart_r_irq_handler
<1>6. CASE UNCHANGED vars
  BY <1>6 DEF vars
<1>. QED  BY <1>1, <1>2, <1>3, <1>4, <1>5, <1>6, Steps DEF Next

(* With one writer, no other thread fills the buffer between its test and  *)
(* its store; the handler only makes room.                                 *)
LEMMA WritersKept ==
  ASSUME OneWriter, TypeOK, WritersInv, [Next]_vars
  PROVE  WritersInv' /\ TxStep
<1>0. /\ tx \in Buffers /\ rx \in Buffers /\ pc \in [Procs -> Places]
      /\ char \in [Procs -> Chars \cup {none}]
  BY DEF TypeOK
<1>1. ASSUME NEW p \in Procs, NEW l \in Places, Moves(p, l)
      PROVE  WritersInv' /\ TxStep
  <2>1. /\ TxStep /\ tx' = tx
        /\ \A q \in Procs : /\ pc'[q] = IF q = p THEN l ELSE pc[q]
                            /\ q # p => char'[q] = char[q]
    BY <1>0, <1>1 DEF Moves, Goto, TxStep
  <2>2. /\ l \in {"putc", "wait", "waiting", "store"} => p \in Writers /\ char'[p] \in Chars
        /\ l = "store" => ~Full(tx)
    BY <1>0, <1>1 DEF Moves, WritersInv
  <2>3. Full(tx)' <=> Full(tx)
    BY <2>1 DEF Full
  <2>. QED  BY <2>1, <2>2, <2>3 DEF WritersInv
<1>2. ASSUME NEW p \in Writers, p \in Procs, PutChar(p)
      PROVE  WritersInv' /\ TxStep
  <2>1. /\ pc[p] = "store" /\ ~Full(tx) /\ char[p] \in Chars /\ tx' = Store(tx, char[p]) /\ sent' = sent
    BY <1>2 DEF WritersInv, PutChar
  <2>2. TxStep
    BY <2>1 DEF TxStep
  <2>3. \A q \in Procs : /\ pc'[q] = IF q = p THEN "stored" ELSE pc[q]
                         /\ q # p => char'[q] = char[q]
    BY <1>0, <1>2 DEF PutChar, Goto
  <2>4. \A q \in Procs : q # p => pc[q] \notin {"putc", "wait", "waiting", "store"}
    BY <1>2 DEF WritersInv, OneWriter
  <2>. QED  BY <2>2, <2>3, <2>4 DEF WritersInv
<1>3. ASSUME NEW p \in Procs, TakeChar(p)
      PROVE  WritersInv' /\ TxStep
  <2>1. /\ tx' = tx /\ sent' = sent /\ char' = char
        /\ \A q \in Procs : pc'[q] = IF q = p THEN "idle" ELSE pc[q]
    BY <1>0, <1>3 DEF TakeChar, Goto
  <2>2. Full(tx)' <=> Full(tx)
    BY <2>1 DEF Full
  <2>. QED  BY <2>1, <2>2 DEF WritersInv, TxStep
<1>4. CASE uart_w_irq_handler
  <2>1. CASE Empty(tx)
    <3>1. tx' = tx /\ sent' = sent /\ UNCHANGED <<pc, char>>
      BY <1>4, <2>1 DEF uart_w_irq_handler
    <3>2. Full(tx)' <=> Full(tx)
      BY <3>1 DEF Full
    <3>. QED  BY <3>1, <3>2 DEF WritersInv, TxStep
  <2>2. CASE ~Empty(tx)
    <3>1. /\ tx' = [tx EXCEPT !.ridx = Wrap(@ + 1)] /\ sent' = tx.buffer[tx.ridx]
          /\ UNCHANGED <<pc, char>>
      BY <1>4, <2>2 DEF uart_w_irq_handler
    <3>2. ~Full([tx EXCEPT !.ridx = Wrap(@ + 1)])
      BY <1>0, <2>2, RoomAndBytes
    <3>3. ~Full(tx)'
      BY <3>1, <3>2 DEF Full
    <3>. QED  BY <2>2, <3>1, <3>3 DEF WritersInv, TxStep
  <2>. QED  BY <2>1, <2>2
<1>5. ASSUME UNCHANGED <<tx, sent, pc, char>>
      PROVE  WritersInv' /\ TxStep
  <2>. Full(tx)' <=> Full(tx)
    BY <1>5 DEF Full
  <2>. QED  BY <1>5 DEF WritersInv, TxStep
<1>6. CASE (\E c \in Chars : uart_r_irq_handler(c)) \/ UNCHANGED vars
  BY <1>5, <1>6 DEF uart_r_irq_handler, vars
<1>. QED  BY <1>1, <1>2, <1>3, <1>4, <1>6, Steps DEF Next

(* With one reader, no other thread takes the byte it has seen. *)
LEMMA ReadersKept ==
  ASSUME OneReader, TypeOK, ReadersInv, [Next]_vars
  PROVE  ReadersInv' /\ RxStep
<1>0. rx \in Buffers /\ pc \in [Procs -> Places]
  BY DEF TypeOK
<1>1. ASSUME NEW p \in Procs, NEW l \in Places, Moves(p, l)
      PROVE  ReadersInv' /\ RxStep
  <2>1. /\ RxStep /\ rx' = rx
        /\ \A q \in Procs : pc'[q] = IF q = p THEN l ELSE pc[q]
    BY <1>0, <1>1 DEF Moves, Goto, RxStep
  <2>2. l = "take" => p \in Readers /\ ~Empty(rx)
    BY <1>1 DEF Moves
  <2>3. Empty(rx)' <=> Empty(rx)
    BY <2>1 DEF Empty
  <2>. QED  BY <2>1, <2>2, <2>3 DEF ReadersInv
<1>2. ASSUME NEW p \in Procs, PutChar(p)
      PROVE  ReadersInv' /\ RxStep
  <2>1. /\ rx' = rx /\ got' = got
        /\ \A q \in Procs : pc'[q] = IF q = p THEN "stored" ELSE pc[q]
    BY <1>0, <1>2 DEF PutChar, Goto
  <2>2. Empty(rx)' <=> Empty(rx)
    BY <2>1 DEF Empty
  <2>. QED  BY <2>1, <2>2 DEF ReadersInv, RxStep
<1>3. ASSUME NEW p \in Readers, p \in Procs, TakeChar(p)
      PROVE  ReadersInv' /\ RxStep
  <2>1. pc[p] = "take" /\ ~Empty(rx) /\ got' = rx.buffer[rx.ridx] /\ rx' = [rx EXCEPT !.ridx = Wrap(@ + 1)]
    BY <1>3 DEF TakeChar, ReadersInv
  <2>2. RxStep
    BY <2>1 DEF RxStep
  <2>3. \A q \in Procs : pc'[q] = IF q = p THEN "idle" ELSE pc[q]
    BY <1>0, <1>3 DEF TakeChar, Goto
  <2>4. \A q \in Procs : q # p => pc[q] # "take"
    BY <1>3 DEF ReadersInv, OneReader
  <2>. QED  BY <2>2, <2>3, <2>4 DEF ReadersInv
<1>4. ASSUME NEW c \in Chars, uart_r_irq_handler(c)
      PROVE  ReadersInv' /\ RxStep
  <2>1. CASE Full(rx)
    <3>1. rx' = rx /\ got' = got /\ pc' = pc
      BY <1>4, <2>1 DEF uart_r_irq_handler
    <3>2. Empty(rx)' <=> Empty(rx)
      BY <3>1 DEF Empty
    <3>. QED  BY <3>1, <3>2 DEF ReadersInv, RxStep
  <2>2. CASE ~Full(rx)
    <3>1. rx' = Store(rx, uart_recv(c)) /\ got' = got /\ pc' = pc
      BY <1>4, <2>2 DEF uart_r_irq_handler
    <3>2. uart_recv(c) \in Bytes /\ uart_recv(c) \in Stored
      BY DEF uart_recv, Bytes, Stored
    <3>3. ~Empty(Store(rx, uart_recv(c)))
      BY <1>0, <2>2, <3>2, RoomAndBytes
    <3>4. ~Empty(rx)'
      BY <3>1, <3>3 DEF Empty
    <3>. QED  BY <2>2, <3>1, <3>2, <3>4 DEF ReadersInv, RxStep
  <2>. QED  BY <2>1, <2>2
<1>5. ASSUME UNCHANGED <<rx, got, pc>>
      PROVE  ReadersInv' /\ RxStep
  <2>. Empty(rx)' <=> Empty(rx)
    BY <1>5 DEF Empty
  <2>. QED  BY <1>5 DEF ReadersInv, RxStep
<1>6. CASE uart_w_irq_handler \/ UNCHANGED vars
  BY <1>5, <1>6 DEF uart_w_irq_handler, vars
<1>. QED  BY <1>1, <1>2, <1>3, <1>4, <1>6, Steps DEF Next

(* The start. *)
LEMMA Start == Init => TypeOK /\ WritersInv /\ ReadersInv /\ Content(tx) = <<>> /\ Content(rx) = <<>>
<1>. SUFFICES ASSUME Init
              PROVE  TypeOK /\ WritersInv /\ ReadersInv /\ Content(tx) = <<>> /\ Content(rx) = <<>>
  OBVIOUS
<1>1. tx \in Buffers /\ rx = tx /\ tx.widx = 0 /\ tx.ridx = 0
  BY UartAssumption DEF Init, Buffers, Bytes, Index
<1>2. TypeOK /\ WritersInv /\ ReadersInv
  BY <1>1 DEF Init, TypeOK, WritersInv, ReadersInv, Places
<1>3. Content(tx) \in Seq(Bytes) /\ Len(Content(tx)) = 0
  BY <1>1, Contents DEF Empty
<1>. QED  BY <1>1, <1>2, <1>3, EmptySeq

-----------------------------------------------------------------------------
(* With one thread that writes, the transmit buffer is a bounded first-in  *)
(* first-out buffer, whatever the interrupts do between the steps of       *)
(* uart_async_putc: every byte is sent once, in order, and none is lost.   *)
THEOREM TransmitRefines ==
  ASSUME OneWriter
  PROVE  Spec => TransmitIsFifo
<1>1. Init => TypeOK /\ WritersInv /\ TxFifo!Init
  BY Start, UartAssumption DEF Init, TxFifo!Init, none
<1>2. TypeOK /\ WritersInv /\ [Next]_vars =>
        TypeOK' /\ WritersInv' /\ [TxFifo!Next]_<<Content(tx), sent>>
  <2>. SUFFICES ASSUME TypeOK, WritersInv, [Next]_vars
                PROVE  TypeOK' /\ WritersInv' /\ [TxFifo!Next]_<<Content(tx), sent>>
    OBVIOUS
  <2>1. TypeOK' /\ WritersInv' /\ TxStep
    BY TypesKept, WritersKept
  <2>2. tx \in Buffers
    BY DEF TypeOK
  <2>. QED  BY <2>1, <2>2, TxRefines
<1>. QED  BY <1>1, <1>2, PTL DEF Spec, TransmitIsFifo, TxFifo!Spec

(* With one thread that reads, the receive buffer is one too.              *)
THEOREM ReceiveRefines ==
  ASSUME OneReader
  PROVE  Spec => ReceiveIsFifo
<1>1. Init => TypeOK /\ ReadersInv /\ RxFifo!Init
  BY Start, UartAssumption DEF Init, RxFifo!Init, Stored, none
<1>2. TypeOK /\ ReadersInv /\ [Next]_vars =>
        TypeOK' /\ ReadersInv' /\ [RxFifo!Next]_<<Content(rx), got>>
  <2>. SUFFICES ASSUME TypeOK, ReadersInv, [Next]_vars
                PROVE  TypeOK' /\ ReadersInv' /\ [RxFifo!Next]_<<Content(rx), got>>
    OBVIOUS
  <2>1. TypeOK' /\ ReadersInv' /\ RxStep
    BY TypesKept, ReadersKept
  <2>2. rx \in Buffers
    BY DEF TypeOK
  <2>. QED  BY <2>1, <2>2, RxRefines
<1>. QED  BY <1>1, <1>2, PTL DEF Spec, ReceiveIsFifo, RxFifo!Spec

-----------------------------------------------------------------------------
(* The events of the timer. *)

Events == [id : Messages \cup {tick}, time : Int]

Sorted(s) == \A i, j \in 1 .. Len(s) : i < j => s[i].time <= s[j].time

(* The list is sorted, and the register holds the time of its first event; *)
(* the handler runs only after that time.                                  *)
TimerTypeOK ==
  /\ timers \in Seq(Events) /\ compare \in Int /\ adding \in Events \cup {None}

TimerInv ==
  /\ TimerTypeOK
  /\ Sorted(timers)
  /\ timers # <<>> => compare = timers[1].time
  /\ context = "irq" => compare <= 0
-----------------------------------------------------------------------------
(* The time of an event is a number. *)
LEMMA EventTimes == \A e \in Events : e.time \in Int
BY DEF Events

(* add_timer puts an event behind the ones that are due no later. *)
LEMMA InsertSorts ==
  ASSUME NEW s \in Seq(Events), NEW e \in Events, Sorted(s)
  PROVE  LET r == Insert(s, e) IN
         /\ r \in Seq(Events) /\ Len(r) = Len(s) + 1 /\ Sorted(r)
         /\ \E p \in 1 .. Len(s) + 1 : \A i \in 1 .. Len(s) + 1 :
              r[i] = IF i < p THEN s[i] ELSE IF i = p THEN e ELSE s[i - 1]
<1>. DEFINE stops(i) == i = Len(s) + 1 \/ s[i].time > e.time
            first(i) == stops(i) /\ \A j \in 1 .. i - 1 : ~stops(j)
            place    == CHOOSE i \in 1 .. Len(s) + 1 : first(i)
            S        == {i \in 1 .. Len(s) + 1 : stops(i)}
            r        == Insert(s, e)
<1>0. Len(s) \in Nat /\ \A i \in 1 .. Len(s) : s[i] \in Events
  BY LenProperties, ElementOfSeq
<1>1. Len(s) \in Nat /\ e.time \in Int /\ \A i \in 1 .. Len(s) : s[i] \in Events /\ s[i].time \in Int
  BY <1>0, EventTimes
<1>2. S \in SUBSET Nat /\ Len(s) + 1 \in S
  BY <1>1
<1>3. PICK m \in S : \A y \in S : m <= y
  BY <1>2, SmallestNumber
<1>4. m \in 1 .. Len(s) + 1 /\ first(m)
  <2>. \A j \in 1 .. m - 1 : j \in 1 .. Len(s) + 1 /\ ~(m <= j)
    BY <1>1
  <2>. QED  BY <1>3
<1>. HIDE DEF first
<1>5. place \in 1 .. Len(s) + 1 /\ first(place)
  BY <1>4
<1>6. r = InsertAt(s, place, e)
  BY DEF Insert, first
<1>. HIDE DEF place, r
<1>7. /\ place = Len(s) + 1 \/ e.time < s[place].time
      /\ \A j \in 1 .. place - 1 : s[j].time <= e.time
  <2>. \A j \in 1 .. place - 1 : j \in 1 .. Len(s) /\ s[j].time \in Int
    BY <1>1, <1>5
  <2>1. \A j \in 1 .. place - 1 : ~(s[j].time > e.time)
    BY <1>5 DEF first
  <2>2. \A j \in 1 .. place - 1 : s[j].time <= e.time
    BY <1>1, <2>1
  <2>3. place = Len(s) + 1 \/ s[place].time > e.time
    BY <1>5 DEF first
  <2>. QED  BY <2>2, <2>3
<1>8. /\ r \in Seq(Events) /\ Len(r) = Len(s) + 1
      /\ \A i \in 1 .. Len(s) + 1 :
           r[i] = IF i < place THEN s[i] ELSE IF i = place THEN e ELSE s[i - 1]
  <2>1. InsertAt(s, place, e) \in Seq(Events) /\ HasAt(InsertAt(s, place, e), s, place, e)
    BY <1>5, Inserted
  <2>. QED  BY <1>6, <2>1 DEF HasAt
<1>9. Sorted(r)
  <2>. SUFFICES ASSUME NEW i \in 1 .. Len(s) + 1, NEW j \in 1 .. Len(s) + 1, i < j
                PROVE  r[i].time <= r[j].time
    BY <1>8 DEF Sorted
  <2>1. \A a, b \in 1 .. Len(s) : a <= b => s[a].time <= s[b].time
    <3>. \A a \in 1 .. Len(s) : s[a].time <= s[a].time
      BY <1>1
    <3>. QED  BY <1>1 DEF Sorted
  <2>2. CASE j < place
    <3>. r[i] = s[i] /\ r[j] = s[j] /\ i \in 1 .. Len(s) /\ j \in 1 .. Len(s) /\ i <= j
      BY <1>1, <1>5, <1>8, <2>2
    <3>. QED  BY <2>1
  <2>3. CASE j = place
    <3>. r[i] = s[i] /\ r[j] = e /\ i \in 1 .. place - 1
      BY <1>1, <1>5, <1>8, <2>3
    <3>. QED  BY <1>7
  <2>4. CASE j > place /\ i < place
    <3>. r[i] = s[i] /\ r[j] = s[j - 1] /\ i \in 1 .. Len(s) /\ j - 1 \in 1 .. Len(s) /\ i <= j - 1
      BY <1>1, <1>5, <1>8, <2>4
    <3>. QED  BY <2>1
  <2>5. CASE i = place
    <3>1. /\ r[i] = e /\ r[j] = s[j - 1] /\ j - 1 \in 1 .. Len(s)
          /\ place <= j - 1 /\ place \in 1 .. Len(s) /\ place # Len(s) + 1
      BY <1>1, <1>5, <1>8, <2>5
    <3>2. e.time < s[place].time /\ s[place].time <= s[j - 1].time
      BY <1>7, <2>1, <3>1
    <3>. QED  BY <1>1, <3>1, <3>2
  <2>6. CASE i > place
    <3>. r[i] = s[i - 1] /\ r[j] = s[j - 1] /\ i - 1 \in 1 .. Len(s) /\ j - 1 \in 1 .. Len(s)
         /\ i - 1 <= j - 1
      BY <1>1, <1>5, <1>8, <2>6
    <3>. QED  BY <2>1
  <2>. QED  BY <1>1, <1>5, <2>2, <2>3, <2>4, <2>5, <2>6
<1>. QED  BY <1>5, <1>8, <1>9 DEF r

(* Nothing but the event itself is unlinked. *)
LEMMA UnlinkSorts ==
  ASSUME NEW s \in Seq(Events), Sorted(s), NEW e, \E i \in 1 .. Len(s) : s[i] = e
  PROVE  LET r == Unlinked(s, e) IN
         /\ r \in Seq(Events) /\ Sorted(r)
         /\ \A i \in 1 .. Len(s) : s[i] # e => \E j \in 1 .. Len(r) : r[j] = s[i]
<1>. DEFINE k == CHOOSE i \in DOMAIN s : s[i] = e
            r == Unlinked(s, e)
<1>1. Len(s) \in Nat /\ DOMAIN s = 1 .. Len(s)
  BY LenProperties
<1>2. k \in 1 .. Len(s) /\ s[k] = e
  BY <1>1
<1>3. r = RemoveAt(s, k)
  BY DEF Unlinked
<1>. HIDE DEF k, r
<1>4. /\ r \in Seq(Events) /\ Len(r) = Len(s) - 1
      /\ \A i \in 1 .. Len(s) - 1 : r[i] = IF i < k THEN s[i] ELSE s[i + 1]
  BY <1>2, <1>3, Removed
<1>5. Sorted(r)
  <2>. SUFFICES ASSUME NEW i \in 1 .. Len(s) - 1, NEW j \in 1 .. Len(s) - 1, i < j
                PROVE  r[i].time <= r[j].time
    BY <1>4 DEF Sorted
  <2>. QED  BY <1>1, <1>2, <1>4 DEF Sorted
<1>6. ASSUME NEW i \in 1 .. Len(s), s[i] # e
      PROVE  \E j \in 1 .. Len(r) : r[j] = s[i]
  <2>1. CASE i < k
    <3>. i \in 1 .. Len(r) /\ r[i] = s[i]
      BY <1>1, <1>2, <1>4, <2>1
    <3>. QED  OBVIOUS
  <2>2. CASE i > k
    <3>. i - 1 \in 1 .. Len(r) /\ r[i - 1] = s[(i - 1) + 1] /\ (i - 1) + 1 = i
      BY <1>1, <1>2, <1>4, <2>2
    <3>. QED  OBVIOUS
  <2>. QED  BY <1>1, <1>2, <1>6, <2>1, <2>2
<1>. QED  BY <1>4, <1>5, <1>6 DEF r
-----------------------------------------------------------------------------
(* An event whose id is gone after a step was due. *)
OnlyDue ==
  \A i \in DOMAIN timers :
    timers[i].id \in Messages /\ timers[i].id \notin Ids(timers') => timers[i].time <= 0

(* The list, as the steps use it. *)
LEMMA ListFacts ==
  ASSUME TimerInv
  PROVE  /\ timers \in Seq(Events) /\ Len(timers) \in Nat /\ DOMAIN timers = 1 .. Len(timers)
         /\ \A i \in 1 .. Len(timers) : timers[i] \in Events /\ timers[i].time \in Int
         /\ timers # <<>> => /\ 1 \in 1 .. Len(timers) /\ Head(timers) = timers[1]
                             /\ Len(timers) > 0
         /\ Len(timers) > 0 => timers # <<>>
<1>1. timers \in Seq(Events)
  BY DEF TimerInv, TimerTypeOK
<1>2. Len(timers) \in Nat /\ DOMAIN timers = 1 .. Len(timers)
  BY <1>1, LenProperties
<1>3. \A i \in 1 .. Len(timers) : timers[i] \in Events /\ timers[i].time \in Int
  BY <1>1, <1>2, ElementOfSeq, EventTimes
<1>4. timers # <<>> => Len(timers) # 0 /\ Head(timers) = timers[1]
  BY <1>1, EmptySeq, HeadTailProperties
<1>. QED  BY <1>1, <1>2, <1>3, <1>4

(* The events of a list have their ids in it. *)
LEMMA KeptIds ==
  ASSUME NEW s \in Seq(Events), NEW j \in 1 .. Len(s)
  PROVE  s[j].id \in Ids(s)
BY LenProperties DEF Ids

(* The set of ids depends on the list only. *)
LEMMA ListKept ==
  ASSUME TimerInv, timers' = timers
  PROVE  OnlyDue
<1>. \A i \in DOMAIN timers : timers[i].id \in Ids(timers)
  BY DEF Ids
<1>. QED  BY DEF OnlyDue, Ids

(* End_add_timer. *)
LEMMA AddStep ==
  ASSUME TimerInv, End_add_timer
  PROVE  TimerInv' /\ OnlyDue
<1>1. /\ context # "irq" /\ adding # None /\ timers' = Insert(timers, adding)
      /\ compare' = Rearmed(timers', adding) /\ adding' = None
      /\ context' = IF adding.id = tick THEN "thread" ELSE context
  BY DEF End_add_timer
<1>2. adding \in Events /\ adding.time \in Int /\ compare \in Int
  BY <1>1 DEF TimerInv, TimerTypeOK, Events
<1>3. /\ timers' \in Seq(Events) /\ Len(timers') = Len(timers) + 1 /\ Sorted(timers')
      /\ \E p \in 1 .. Len(timers) + 1 : \A i \in 1 .. Len(timers) + 1 :
           timers'[i] = IF i < p THEN timers[i] ELSE IF i = p THEN adding ELSE timers[i - 1]
  BY <1>1, <1>2, InsertSorts DEF TimerInv, TimerTypeOK
<1>4. PICK p \in 1 .. Len(timers) + 1 : \A i \in 1 .. Len(timers) + 1 :
        timers'[i] = IF i < p THEN timers[i] ELSE IF i = p THEN adding ELSE timers[i - 1]
  BY <1>3
<1>5. Len(timers) \in Nat /\ \A i \in 1 .. Len(timers) : timers[i] \in Events
  BY ListFacts
<1>6. timers' # <<>> /\ Head(timers') = timers'[1]
  <2>1. Len(timers') # 0
    BY <1>3, <1>5
  <2>2. timers' # <<>>
    BY <1>3, <2>1, EmptySeq
  <2>. QED  BY <1>3, <2>2, HeadTailProperties
<1>7. compare' = timers'[1].time
  <2>1. CASE timers'[1] = adding
    BY <1>1, <1>6, <2>1 DEF Rearmed
  <2>2. CASE timers'[1] # adding
    <3>1. p # 1
      BY <1>4, <1>5, <2>2
    <3>2. timers'[1] = timers[1] /\ Len(timers) > 0
      BY <1>4, <1>5, <3>1
    <3>3. compare = timers[1].time
      BY <3>2, ListFacts DEF TimerInv
    <3>. QED  BY <1>1, <1>6, <2>2, <3>2, <3>3 DEF Rearmed
  <2>. QED  BY <2>1, <2>2
<1>8. OnlyDue
  <2>. SUFFICES ASSUME NEW i \in 1 .. Len(timers)
                PROVE  timers[i].id \in Ids(timers')
    BY ListFacts DEF OnlyDue, Ids
  <2>1. CASE i < p
    <3>. i \in 1 .. Len(timers') /\ timers'[i] = timers[i]
      BY <1>3, <1>4, <1>5, <2>1
    <3>. QED  BY <1>3, KeptIds
  <2>2. CASE ~(i < p)
    <3>1. i + 1 \in 1 .. Len(timers') /\ timers'[i + 1] = timers[(i + 1) - 1] /\ (i + 1) - 1 = i
      BY <1>3, <1>4, <1>5, <2>2
    <3>2. timers'[i + 1].id \in Ids(timers')
      BY <1>3, <3>1, KeptIds
    <3>. QED  BY <3>1, <3>2
  <2>. QED  BY <2>1, <2>2
<1>9. compare' \in Int /\ context' # "irq"
  BY <1>1, <1>2, <1>6 DEF Rearmed
<1>. QED  BY <1>1, <1>3, <1>6, <1>7, <1>8, <1>9 DEF TimerInv, TimerTypeOK, Sorted

(* core_timer_handler. *)
LEMMA HandlerStep ==
  ASSUME TimerInv, core_timer_handler
  PROVE  TimerInv' /\ OnlyDue
<1>1. /\ context = "irq" /\ compare' = Next_compare(timers') /\ adding' = adding
      /\ timers' = IF timers = <<>> THEN timers
                   ELSE Unlinked(Callback(Head(timers)), Head(timers))
      /\ context' # "irq"
  BY DEF core_timer_handler
<1>2. set_core_timer_interrupt(FAR) \in Int
  BY TimerAssumption DEF set_core_timer_interrupt
<1>3. ASSUME timers' \in Seq(Events), Sorted(timers')
      PROVE  TimerInv'
  <2>1. CASE timers' = <<>>
    BY <1>1, <1>2, <1>3, <2>1 DEF TimerInv, TimerTypeOK, Next_compare, Sorted
  <2>2. CASE timers' # <<>>
    <3>1. Len(timers') \in Nat /\ Len(timers') # 0 /\ Head(timers') = timers'[1]
      BY <1>3, <2>2, EmptySeq, LenProperties, HeadTailProperties
    <3>2. timers'[1].time \in Int
      <4>. 1 \in 1 .. Len(timers')
        BY <3>1
      <4>. timers'[1] \in Events
        BY <1>3, ElementOfSeq
      <4>. QED  BY EventTimes
    <3>3. compare' = timers'[1].time
      BY <1>1, <2>2, <3>1 DEF Next_compare
    <3>. QED  BY <1>1, <1>3, <3>2, <3>3 DEF TimerInv, TimerTypeOK, Sorted
  <2>. QED  BY <2>1, <2>2
<1>4. CASE timers = <<>>
  <2>1. timers' = timers
    BY <1>1, <1>4
  <2>. QED  BY <1>3, <2>1, ListKept DEF TimerInv, TimerTypeOK
<1>5. CASE timers # <<>>
  <2>. DEFINE h == Head(timers)
              s == Callback(h)
  <2>1. h = timers[1] /\ h \in Events /\ 1 \in 1 .. Len(timers) /\ Len(timers) \in Nat
    BY <1>5, ListFacts
  <2>2. h.time <= 0
    BY <1>1, <1>5, <2>1 DEF TimerInv
  <2>3. /\ s \in Seq(Events) /\ Sorted(s)
        /\ \A i \in 1 .. Len(timers) : \E j \in 1 .. Len(s) : s[j] = timers[i]
    <3>1. CASE h.id # tick
      BY <3>1, ListFacts DEF Callback, TimerInv
    <3>2. CASE h.id = tick
      <4>. DEFINE e == [h EXCEPT !.time = Period]
      <4>1. e \in Events
        BY <2>1, TimerAssumption DEF Events
      <4>2. s = Insert(timers, e)
        BY <3>2 DEF Callback
      <4>. HIDE DEF e, s
      <4>3. /\ s \in Seq(Events) /\ Len(s) = Len(timers) + 1 /\ Sorted(s)
            /\ \E p \in 1 .. Len(timers) + 1 : \A i \in 1 .. Len(timers) + 1 :
                 s[i] = IF i < p THEN timers[i] ELSE IF i = p THEN e ELSE timers[i - 1]
        BY <4>1, <4>2, InsertSorts DEF TimerInv, TimerTypeOK
      <4>4. PICK p \in 1 .. Len(timers) + 1 : \A i \in 1 .. Len(timers) + 1 :
                 s[i] = IF i < p THEN timers[i] ELSE IF i = p THEN e ELSE timers[i - 1]
        BY <4>3
      <4>5. ASSUME NEW i \in 1 .. Len(timers)
            PROVE  \E j \in 1 .. Len(s) : s[j] = timers[i]
        <5>0. /\ i \in 1 .. Len(timers) + 1 /\ i + 1 \in 1 .. Len(timers) + 1 /\ (i + 1) - 1 = i
              /\ Len(s) = Len(timers) + 1
          BY <2>1, <4>3
        <5>1. CASE i < p
          <6>. s[i] = timers[i]
            BY <4>4, <5>0, <5>1
          <6>. QED  BY <5>0
        <5>2. CASE ~(i < p)
          <6>. i + 1 # p /\ ~(i + 1 < p)
            BY <2>1, <5>2
          <6>. s[i + 1] = timers[(i + 1) - 1]
            BY <4>4, <5>0
          <6>. QED  BY <5>0
        <5>. QED  BY <5>1, <5>2
      <4>. QED  BY <4>3, <4>5
    <3>. QED  BY <3>1, <3>2
  <2>4. timers' = Unlinked(s, h)
    BY <1>1, <1>5
  <2>. HIDE DEF s, h
  <2>5. \E i \in 1 .. Len(s) : s[i] = h
    BY <2>1, <2>3
  <2>6. /\ timers' \in Seq(Events) /\ Sorted(timers')
        /\ \A i \in 1 .. Len(s) : s[i] # h => \E j \in 1 .. Len(timers') : timers'[j] = s[i]
    BY <2>3, <2>4, <2>5, UnlinkSorts
  <2>7. OnlyDue
    <3>. SUFFICES ASSUME NEW i \in 1 .. Len(timers), timers[i].id \notin Ids(timers')
                  PROVE  timers[i].time <= 0
      BY ListFacts DEF OnlyDue, Ids
    <3>1. timers[i] = h
      <4>. SUFFICES ASSUME timers[i] # h
                    PROVE  FALSE
        OBVIOUS
      <4>1. PICK k \in 1 .. Len(s) : s[k] = timers[i]
        BY <2>3
      <4>2. PICK j \in 1 .. Len(timers') : timers'[j] = s[k]
        BY <2>6, <4>1
      <4>. QED  BY <2>6, <4>1, <4>2, KeptIds
    <3>. QED  BY <2>2, <3>1
  <2>. QED  BY <1>3, <2>6, <2>7
<1>. QED  BY <1>4, <1>5

(* Clock: all times fall together. *)
LEMMA ClockStep ==
  ASSUME TimerInv, Clock
  PROVE  TimerInv' /\ OnlyDue
<1>. DEFINE later(t) == IF t = -LATENCY THEN t ELSE t - 1
<1>1. /\ timers' = [i \in DOMAIN timers |-> [timers[i] EXCEPT !.time = later(@)]]
      /\ compare' = later(compare)
      /\ adding' = IF adding = None THEN None ELSE [adding EXCEPT !.time = later(@)]
      /\ context' = context
  BY DEF Clock
<1>2. /\ \A t \in Int : later(t) \in Int /\ later(t) <= t
      /\ \A a, b \in Int : a <= b => later(a) <= later(b)
  BY TimerAssumption
<1>. HIDE DEF later
<1>3. /\ Len(timers) \in Nat /\ DOMAIN timers = 1 .. Len(timers)
      /\ \A i \in 1 .. Len(timers) : timers[i] \in Events /\ timers[i].time \in Int
  BY ListFacts
<1>4. \A i \in 1 .. Len(timers) : LET f == [timers[i] EXCEPT !.time = later(@)] IN
        f \in Events /\ f.id = timers[i].id /\ f.time = later(timers[i].time)
  BY <1>2, <1>3 DEF Events
<1>5. /\ timers' \in Seq(Events) /\ Len(timers') = Len(timers)
      /\ \A i \in 1 .. Len(timers) : timers'[i].id = timers[i].id /\ timers'[i].time = later(timers[i].time)
  <2>. DEFINE f(i) == [timers[i] EXCEPT !.time = later(@)]
  <2>1. timers' = [i \in 1 .. Len(timers) |-> f(i)]
    BY <1>1, <1>3
  <2>2. \A i \in 1 .. Len(timers) :
          f(i) \in Events /\ f(i).id = timers[i].id /\ f(i).time = later(timers[i].time)
    BY <1>4
  <2>. HIDE DEF f
  <2>3. timers' \in Seq(Events) /\ Len(timers') = Len(timers)
    BY <1>3, <2>1, <2>2
  <2>4. \A i \in 1 .. Len(timers) : timers'[i] = f(i)
    BY <2>1
  <2>. QED  BY <2>2, <2>3, <2>4
<1>6. Sorted(timers')
  <2>. SUFFICES ASSUME NEW i \in 1 .. Len(timers), NEW j \in 1 .. Len(timers), i < j
                PROVE  timers'[i].time <= timers'[j].time
    BY <1>5 DEF Sorted
  <2>1. timers[i].time <= timers[j].time /\ timers[i].time \in Int /\ timers[j].time \in Int
    BY <1>3 DEF Sorted, TimerInv
  <2>2. later(timers[i].time) <= later(timers[j].time)
    BY <1>2, <2>1
  <2>. QED  BY <1>5, <2>2
<1>7. compare' \in Int /\ (timers' # <<>> => compare' = timers'[1].time)
  <2>1. compare' \in Int
    BY <1>1, <1>2 DEF TimerInv, TimerTypeOK
  <2>2. ASSUME timers' # <<>>
        PROVE  compare' = timers'[1].time
    <3>1. Len(timers') # 0
      BY <1>5, <2>2, EmptySeq
    <3>2. timers # <<>> /\ 1 \in 1 .. Len(timers)
      BY <1>3, <1>5, <3>1, ListFacts
    <3>. QED  BY <1>1, <1>5, <3>2 DEF TimerInv
  <2>. QED  BY <2>1, <2>2
<1>8. adding' \in Events \cup {None}
  BY <1>1, <1>2 DEF TimerInv, TimerTypeOK, Events
<1>9. context' = "irq" => compare' <= 0
  BY <1>1, <1>2, <1>7 DEF TimerInv, TimerTypeOK
<1>10. OnlyDue
  <2>. SUFFICES ASSUME NEW i \in 1 .. Len(timers)
                PROVE  timers[i].id \in Ids(timers')
    BY <1>3 DEF OnlyDue, Ids
  <2>. QED  BY <1>5, KeptIds
<1>. QED  BY <1>5, <1>6, <1>7, <1>8, <1>9, <1>10 DEF TimerInv, TimerTypeOK, Sorted

(* The start of add_timer and the interrupt: the list stays as it is. *)
LEMMA OtherStep ==
  ASSUME TimerInv,
         \/ thread_exec \/ irq_router \/ UNCHANGED timer_vars
         \/ \E m \in Messages, t \in Timeouts : setTimeout(m, t)
  PROVE  TimerInv' /\ OnlyDue
<1>1. UNCHANGED <<timers, compare>> /\ (context' = "irq" => context = "irq" \/ compare <= 0)
  BY DEF thread_exec, irq_router, timer_vars, setTimeout, Begin_add_timer
<1>2. adding' \in Events \cup {None}
  <2>1. CASE thread_exec
    BY <2>1, TimerAssumption DEF thread_exec, Begin_add_timer, Events
  <2>2. CASE \E m \in Messages, t \in Timeouts : setTimeout(m, t)
    BY <2>2, TimerAssumption DEF setTimeout, Begin_add_timer, Events
  <2>3. CASE irq_router \/ UNCHANGED timer_vars
    BY <2>3 DEF irq_router, timer_vars, TimerInv, TimerTypeOK
  <2>. QED  BY <2>1, <2>2, <2>3
<1>. QED  BY <1>1, <1>2, ListKept DEF TimerInv, TimerTypeOK, Sorted

(* Every step keeps the invariant and fires nothing that is not due. *)
LEMMA NextStep == TimerInv /\ [TimerNext]_timer_vars => TimerInv' /\ OnlyDue
BY AddStep, HandlerStep, ClockStep, OtherStep DEF TimerNext

LEMMA InitInv == TimerInit => TimerInv
<1>. SUFFICES ASSUME TimerInit
              PROVE  TimerInv
  OBVIOUS
<1>1. timers = <<>> /\ timers \in Seq(Events) /\ Len(timers) = 0
  BY DEF TimerInit
<1>. QED  BY <1>1, TimerAssumption DEF TimerInit, TimerInv, TimerTypeOK, Sorted

(* The list stays sorted and the compare register set for its first event, *)
(* whatever is added, fired or interrupted in between.                     *)
THEOREM RegisterExact == TimerSpec => []RegisterIsFirstEvent
<1>1. ASSUME TimerInv
      PROVE  RegisterIsFirstEvent
  <2>1. \A i \in 1 .. Len(timers) - 1 : timers[i].time <= timers[i + 1].time
    <3>. \A i \in 1 .. Len(timers) - 1 : i \in 1 .. Len(timers) /\ i + 1 \in 1 .. Len(timers) /\ i < i + 1
      BY <1>1, ListFacts
    <3>. QED  BY <1>1 DEF TimerInv, Sorted
  <2>. QED  BY <1>1, <2>1, ListFacts DEF TimerInv, RegisterIsFirstEvent
<1>. QED  BY <1>1, InitInv, NextStep, PTL DEF TimerSpec

(* core_timer_handler, which does not look at the clock, fires no message  *)
(* before its time.                                                        *)
THEOREM NothingEarly == TimerSpec => NeverEarly
<1>1. TimerInv /\ [TimerNext]_timer_vars =>
        [\A i \in DOMAIN timers :
           timers[i].id \in Messages /\ timers[i].id \notin Ids(timers') => timers[i].time <= 0]_timer_vars
  BY NextStep DEF OnlyDue
<1>. QED  BY <1>1, InitInv, NextStep, PTL DEF TimerSpec, NeverEarly
=============================================================================
