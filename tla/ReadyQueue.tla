----------------------------- MODULE ReadyQueue -----------------------------
(***************************************************************************)
(* What the scheduler of kernel/src/sched.c promises, with the run queue   *)
(* as a sequence of threads: threads take turns in the order in which they *)
(* became ready, a thread is at most once in the queue, and only dead      *)
(* threads leave it without having been run.                               *)
(***************************************************************************)
EXTENDS Integers, Sequences, SequencesExt

CONSTANT MAX_THREAD_COUNT

Threads == 0 .. MAX_THREAD_COUNT

VARIABLES
  status,       \* "FREE", "ACTIVE" or "ZOMBIE", for each thread
  ready,        \* the threads waiting for their turn
  curr_thread   \* the thread that has the CPU

avars == <<status, ready, curr_thread>>

(* Makes t the last of the queue. *)
MoveToEnd(q, t) == Append(RemoveFirst(q, t), t)

Init ==
  /\ status = [t \in Threads |-> IF t = 0 THEN "ACTIVE" ELSE "FREE"]
  /\ ready = <<0>>
  /\ curr_thread = 0

(* A new thread joins the queue; it may get the CPU at once. *)
Create(t) ==
  /\ status[t] = "FREE"
  /\ status' = [status EXCEPT ![t] = "ACTIVE"]
  /\ ready' = MoveToEnd(ready, t)
  /\ curr_thread' \in {curr_thread, t}

(* The first of the queue gets the CPU, unless it is dead. *)
Dispatch ==
  /\ ready # <<>>
  /\ status[Head(ready)] # "ZOMBIE"
  /\ curr_thread' = Head(ready)
  /\ ready' = IF status[curr_thread] = "ZOMBIE" THEN Tail(ready)
              ELSE MoveToEnd(Tail(ready), curr_thread)
  /\ UNCHANGED status

(* A dead thread is passed over. *)
PassOver ==
  /\ ready # <<>>
  /\ status[Head(ready)] = "ZOMBIE"
  /\ ready' = MoveToEnd(ready, Head(ready))
  /\ UNCHANGED <<status, curr_thread>>

(* A thread dies where it is; the running thread may join the queue, where *)
(* the next Reap finds it.                                                 *)
Die(t) ==
  /\ status[t] # "FREE"
  /\ status' = [status EXCEPT ![t] = "ZOMBIE"]
  /\ \/ ready' = ready
     \/ t = curr_thread /\ ready' = MoveToEnd(ready, t)
  /\ UNCHANGED curr_thread

(* A dead thread of the queue is removed and its slot freed. *)
Reap(t) ==
  /\ status[t] = "ZOMBIE" /\ \E i \in DOMAIN ready : ready[i] = t
  /\ ready' = RemoveFirst(ready, t)
  /\ status' = [status EXCEPT ![t] = "FREE"]
  /\ UNCHANGED curr_thread

Next == Dispatch \/ PassOver \/ \E t \in Threads : Create(t) \/ Die(t) \/ Reap(t)

Spec == Init /\ [][Next]_avars
=============================================================================
