---------------------------- MODULE SchedProofs ----------------------------
(***************************************************************************)
(* Proofs about Sched: the links of the run queue spell a sequence of      *)
(* threads, which push_rq, pop_rq and kill_zombies change as the queue of  *)
(* ReadyQueue changes, for any number of threads.                          *)
(***************************************************************************)
EXTENDS Sched, ListLemmas

Links == Threads \cup {NULL}

(* The run queue and the links of the threads. *)
Queues == [head : Links, tail : Links, next : [Threads -> Links], prev : [Threads -> Links]]

In(s, t) == \E i \in 1 .. Len(s) : s[i] = t

(* No thread is twice in s. *)
Once(s) == \A i, j \in 1 .. Len(s) : s[i] = s[j] => i = j

(* From the head on, the forward links of q spell s; a thread that is not  *)
(* in the queue has no links.                                              *)
Spells(q, s) ==
  /\ Once(s)
  /\ q.head = IF Len(s) = 0 THEN NULL ELSE s[1]
  /\ q.tail = IF Len(s) = 0 THEN NULL ELSE s[Len(s)]
  /\ \A i \in 1 .. Len(s) : q.next[s[i]] = IF i = Len(s) THEN NULL ELSE s[i + 1]
  /\ \A t \in Threads : ~In(s, t) => q.next[t] = NULL /\ q.prev[t] = NULL

(* The back links of all but the last thread are right, or of all. *)
BackAt(q, s, i) == q.prev[s[i]] = IF i = 1 THEN NULL ELSE s[i - 1]
Back(q, s) == \A i \in 1 .. Len(s) : BackAt(q, s, i)
BackButLast(q, s) == \A i \in 1 .. Len(s) - 1 : BackAt(q, s, i)

TypeOK ==
  /\ status \in [Threads -> {"FREE", "ACTIVE", "ZOMBIE"}]
  /\ rq \in Queues
  /\ curr_thread \in Threads
  /\ pending \in SUBSET Threads
  /\ cpu \in {"shell", "thread", "schedule", "kill_zombies"}
  /\ th_ptr \in Links
  /\ idle_pc \in {"kill_zombies", "schedule"}
  /\ idle_hit \in BOOLEAN

(* The last thread's back link may point to itself, after a thread that    *)
(* was the last was queued again: the queue has then at most two threads,  *)
(* and the next pop_rq puts it right.  Nobody can unlink the last thread   *)
(* before: schedule runs, or the thread is the only one and alive, and     *)
(* idle, who kills nobody, has the CPU.                                    *)
BackLinks(s) ==
  /\ BackButLast(rq, s)
  /\ \/ Back(rq, s)
     \/ /\ Len(s) \in 1 .. 2
        /\ \/ cpu = "schedule" /\ status[curr_thread] = "ZOMBIE"
           \/ /\ cpu \in {"thread", "schedule", "kill_zombies"}
              /\ Len(s) = 1 /\ curr_thread = idle /\ status[s[1]] = "ACTIVE"

(* The running thread is not queued, except between thread_exec and the    *)
(* first timer interrupt, when it is the last and there is only idle       *)
(* besides, and while schedule looks for a thread to run instead of it.    *)
Running(s) ==
  In(s, curr_thread) =>
    \/ cpu = "schedule" /\ status[curr_thread] = "ZOMBIE"
    \/ /\ Len(s) \in 1 .. 2
       /\ \A i \in 1 .. Len(s) : s[i] \in {idle, curr_thread}
       /\ cpu # "schedule" => s[Len(s)] = curr_thread

Lives(s) ==
  \A t \in Threads :
    /\ status[t] = "ACTIVE" => t = curr_thread \/ In(s, t)
    /\ status[t] = "FREE" => t # curr_thread /\ ~In(s, t)

IdleAt(s) ==
  /\ curr_thread = idle => status[idle] = "ACTIVE"
  /\ cpu = "shell" => curr_thread = idle /\ Len(s) = 1 /\ s[1] = idle
  /\ cpu = "kill_zombies" => curr_thread = idle /\ (th_ptr = NULL \/ In(s, th_ptr))

(* The queue is s, and all the rest. *)
InvAt(s) == TypeOK /\ Spells(rq, s) /\ BackLinks(s) /\ Running(s) /\ Lives(s) /\ IdleAt(s)

(* The inductive invariant. *)
Inv == \E s \in Seq(Threads) : InvAt(s)

(* What idle, undisturbed, has ahead of it: a dead thread that is queued   *)
(* is still to be visited while kill_zombies runs, and there is none when  *)
(* idle calls schedule, which it does with a thread to go to; the others   *)
(* leave idle at kill_zombies.                                             *)
Ahead(s) ==
  /\ cpu = "schedule" => Len(s) # 0
  /\ ~idle_hit =>
       /\ curr_thread # idle \/ cpu \in {"shell", "schedule"} => idle_pc = "kill_zombies"
       /\ curr_thread = idle /\ cpu = "kill_zombies" =>
            \A i \in 1 .. Len(s) : status[s[i]] = "ZOMBIE" => \E j \in 1 .. i : s[j] = th_ptr
       /\ curr_thread = idle /\ (cpu = "schedule" \/ (cpu = "thread" /\ idle_pc = "schedule")) =>
            \A i \in 1 .. Len(s) : status[s[i]] # "ZOMBIE"

InvAhead == \E s \in Seq(Threads) : InvAt(s) /\ Ahead(s)
-----------------------------------------------------------------------------
(* What the operations on the queue do to its fields. *)

LEMMA ThreadsAreNumbers ==
  /\ MAX_THREAD_COUNT \in Nat /\ idle \in Threads
  /\ \A t \in Threads : t \in Int /\ t # NULL
BY SchedAssumption DEF Threads, NULL, idle

(* A sequence of threads, place by place. *)
LEMMA Places ==
  ASSUME NEW s \in Seq(Threads)
  PROVE  /\ Len(s) \in Nat
         /\ \A i \in 1 .. Len(s) : s[i] \in Threads
         /\ Len(s) = 0 => s = <<>>
BY LenProperties, ElementOfSeq, EmptySeq

LEMMA PushedFields ==
  ASSUME NEW q \in Queues, NEW t \in Threads
  PROVE  /\ push_rq(q, t) \in Queues
         /\ push_rq(q, t).head = IF q.tail = NULL THEN t ELSE q.head
         /\ push_rq(q, t).tail = t
         /\ \A u \in Threads : push_rq(q, t).next[u] =
              IF u = t THEN NULL ELSE IF u = q.tail THEN t ELSE q.next[u]
         /\ \A u \in Threads : push_rq(q, t).prev[u] =
              IF u = t /\ q.tail # NULL THEN q.tail ELSE q.prev[u]
<1>1. NULL \notin Threads
  BY ThreadsAreNumbers
<1>2. /\ q = [head |-> q.head, tail |-> q.tail, next |-> q.next, prev |-> q.prev]
      /\ q.head \in Links /\ q.tail \in Links
      /\ q.next \in [Threads -> Links] /\ q.prev \in [Threads -> Links]
      /\ t \in Links /\ NULL \in Links
  BY DEF Queues, Links
<1>. DEFINE nx == IF q.tail = NULL THEN [q.next EXCEPT ![t] = NULL]
                  ELSE [[q.next EXCEPT ![q.tail] = t] EXCEPT ![t] = NULL]
            pv == IF q.tail = NULL THEN q.prev ELSE [q.prev EXCEPT ![t] = q.tail]
            hd == IF q.tail = NULL THEN t ELSE q.head
<1>3. push_rq(q, t) = [head |-> hd, tail |-> t, next |-> nx, prev |-> pv]
  <2>1. CASE q.tail = NULL
    <3>1. push_rq(q, t) = [q EXCEPT !.head = t, !.tail = t, !.next[t] = NULL]
      BY <2>1 DEF push_rq
    <3>. QED  BY <1>2, <2>1, <3>1
  <2>2. CASE q.tail # NULL
    <3>1. push_rq(q, t) =
            [q EXCEPT !.prev[t] = q.tail, !.next[q.tail] = t, !.tail = t, !.next[t] = NULL]
      BY <2>2 DEF push_rq
    <3>. QED  BY <1>2, <2>2, <3>1
  <2>. QED  BY <2>1, <2>2
<1>4. /\ nx \in [Threads -> Links]
      /\ \A u \in Threads : nx[u] = IF u = t THEN NULL ELSE IF u = q.tail THEN t ELSE q.next[u]
  BY <1>1, <1>2
<1>5. /\ pv \in [Threads -> Links]
      /\ \A u \in Threads : pv[u] = IF u = t /\ q.tail # NULL THEN q.tail ELSE q.prev[u]
  BY <1>1, <1>2
<1>6. hd \in Links
  BY <1>2
<1>. HIDE DEF nx, pv, hd
<1>7. push_rq(q, t) \in Queues
  BY <1>2, <1>3, <1>4, <1>5, <1>6 DEF Queues
<1>. QED  BY <1>3, <1>4, <1>5, <1>7 DEF hd

LEMMA PoppedFields ==
  ASSUME NEW q \in Queues, q.head # NULL
  PROVE  /\ q.head \in Threads
         /\ pop_rq(q) \in Queues
         /\ pop_rq(q).head = q.next[q.head]
         /\ pop_rq(q).tail = IF q.next[q.head] = NULL THEN NULL ELSE q.tail
         /\ \A u \in Threads : pop_rq(q).next[u] = IF u = q.head THEN NULL ELSE q.next[u]
         /\ \A u \in Threads : pop_rq(q).prev[u] =
              IF u \in {q.next[q.head], q.head} THEN NULL ELSE q.prev[u]
BY DEF pop_rq, Queues, Links

LEMMA UnlinkedFields ==
  ASSUME NEW q \in Queues, NEW t \in Threads
  PROVE  /\ Unlink(q, t) \in Queues
         /\ Unlink(q, t).head = IF t = q.head THEN q.next[t] ELSE q.head
         /\ Unlink(q, t).tail = IF t = q.tail THEN q.prev[t] ELSE q.tail
         /\ \A u \in Threads : Unlink(q, t).next[u] =
              IF u = t THEN NULL ELSE IF u = q.prev[t] THEN q.next[t] ELSE q.next[u]
         /\ \A u \in Threads : Unlink(q, t).prev[u] =
              IF u = t THEN NULL ELSE IF u = q.next[t] THEN q.prev[t] ELSE q.prev[u]
BY DEF Unlink, Queues, Links
-----------------------------------------------------------------------------
(* What they do to the sequence the links spell. *)

LEMMA Appended ==
  ASSUME NEW s \in Seq(Threads), NEW t \in Threads
  PROVE  /\ Append(s, t) \in Seq(Threads) /\ Len(Append(s, t)) = Len(s) + 1
         /\ \A i \in 1 .. Len(s) : Append(s, t)[i] = s[i]
         /\ Append(s, t)[Len(s) + 1] = t
BY AppendProperties

LEMMA TailOf ==
  ASSUME NEW s \in Seq(Threads), Len(s) # 0
  PROVE  /\ Tail(s) \in Seq(Threads) /\ Len(Tail(s)) = Len(s) - 1
         /\ \A i \in 1 .. Len(s) - 1 : Tail(s)[i] = s[i + 1]
<1>1. s # <<>>
  BY EmptySeq
<1>. QED  BY <1>1, HeadTailProperties

(* A thread that is not queued becomes the last. *)
LEMMA PushNew ==
  ASSUME NEW q \in Queues, NEW s \in Seq(Threads), NEW t \in Threads,
         Spells(q, s), Back(q, s), ~In(s, t)
  PROVE  Spells(push_rq(q, t), Append(s, t)) /\ Back(push_rq(q, t), Append(s, t))
<1>. DEFINE r == push_rq(q, t)
            a == Append(s, t)
            n == Len(s)
<1>1. /\ n \in Nat /\ \A i \in 1 .. n : s[i] \in Threads /\ s[i] # t /\ s[i] # NULL
      /\ t # NULL
  BY Places, ThreadsAreNumbers DEF In
<1>2. a \in Seq(Threads) /\ Len(a) = n + 1 /\ (\A i \in 1 .. n : a[i] = s[i]) /\ a[n + 1] = t
  BY Appended
<1>3. /\ r.head = IF q.tail = NULL THEN t ELSE q.head
      /\ r.tail = t
      /\ \A u \in Threads : r.next[u] = IF u = t THEN NULL ELSE IF u = q.tail THEN t ELSE q.next[u]
      /\ \A u \in Threads : r.prev[u] = IF u = t /\ q.tail # NULL THEN q.tail ELSE q.prev[u]
  BY PushedFields
<1>4. /\ \A i, j \in 1 .. n : s[i] = s[j] => i = j
      /\ q.head = IF n = 0 THEN NULL ELSE s[1]
      /\ q.tail = IF n = 0 THEN NULL ELSE s[n]
      /\ \A i \in 1 .. n : q.next[s[i]] = IF i = n THEN NULL ELSE s[i + 1]
      /\ \A u \in Threads : ~In(s, u) => q.next[u] = NULL /\ q.prev[u] = NULL
      /\ \A i \in 1 .. n : q.prev[s[i]] = IF i = 1 THEN NULL ELSE s[i - 1]
  BY DEF Spells, Once, Back, BackAt
<1>. HIDE DEF r, a
<1>5. Once(a)
  <2>1. ASSUME NEW i \in 1 .. n + 1, NEW j \in 1 .. n + 1, a[i] = a[j], i # n + 1
        PROVE  i = j
    <3>1. i \in 1 .. n /\ a[i] = s[i]
      BY <1>1, <1>2, <2>1
    <3>2. j # n + 1
      BY <1>1, <1>2, <2>1, <3>1
    <3>3. j \in 1 .. n /\ a[j] = s[j]
      BY <1>1, <1>2, <3>2
    <3>. QED  BY <1>4, <2>1, <3>1, <3>3
  <2>2. \A i, j \in 1 .. n + 1 : a[i] = a[j] => i = j
    BY <2>1
  <2>. QED  BY <1>2, <2>2 DEF Once
<1>6. r.head = a[1] /\ r.tail = a[n + 1]
  BY <1>1, <1>2, <1>3, <1>4
<1>7. ASSUME NEW i \in 1 .. n + 1
      PROVE  r.next[a[i]] = IF i = n + 1 THEN NULL ELSE a[i + 1]
  <2>1. CASE i = n + 1
    BY <1>1, <1>2, <1>3, <2>1
  <2>2. CASE i # n + 1
    <3>1. i \in 1 .. n /\ n \in 1 .. n /\ n # 0
      BY <1>1, <2>2
    <3>2. s[i] = q.tail <=> i = n
      BY <1>4, <3>1
    <3>3. a[i] = s[i] /\ r.next[s[i]] = IF i = n THEN t ELSE q.next[s[i]]
      BY <1>1, <1>2, <1>3, <3>1, <3>2
    <3>4. i # n => i + 1 \in 1 .. n
      BY <1>1, <3>1
    <3>. QED  BY <1>1, <1>2, <1>4, <2>2, <3>1, <3>3, <3>4
  <2>. QED  BY <2>1, <2>2
<1>8. ASSUME NEW u \in Threads, ~In(a, u)
      PROVE  r.next[u] = NULL /\ r.prev[u] = NULL
  <2>1. u # t /\ ~In(s, u)
    BY <1>1, <1>2, <1>8 DEF In
  <2>2. u # q.tail
    BY <1>1, <1>4, <2>1, ThreadsAreNumbers DEF In
  <2>. QED  BY <1>3, <1>4, <2>1, <2>2
<1>9. ASSUME NEW i \in 1 .. n + 1
      PROVE  r.prev[a[i]] = IF i = 1 THEN NULL ELSE a[i - 1]
  <2>1. CASE i = n + 1
    <3>1. q.prev[t] = NULL /\ r.prev[t] = IF q.tail # NULL THEN q.tail ELSE q.prev[t]
      BY <1>3, <1>4
    <3>2. CASE n = 0
      BY <1>2, <1>4, <2>1, <3>1, <3>2
    <3>3. CASE n # 0
      BY <1>1, <1>2, <1>4, <2>1, <3>1, <3>3
    <3>. QED  BY <3>2, <3>3
  <2>2. CASE i # n + 1
    <3>1. i \in 1 .. n /\ (i # 1 => i - 1 \in 1 .. n)
      BY <1>1, <2>2
    <3>2. a[i] = s[i] /\ r.prev[s[i]] = q.prev[s[i]]
      BY <1>1, <1>2, <1>3, <3>1
    <3>. QED  BY <1>2, <1>4, <3>1, <3>2
  <2>. QED  BY <2>1, <2>2
<1>10. Spells(r, a)
  BY <1>1, <1>2, <1>5, <1>6, <1>7, <1>8 DEF Spells
<1>11. Back(r, a)
  BY <1>2, <1>9 DEF Back, BackAt
<1>. QED  BY <1>10, <1>11 DEF r, a

(* The last thread, queued again, stays the last; its back link then leads *)
(* to itself.                                                              *)
LEMMA PushLast ==
  ASSUME NEW q \in Queues, NEW s \in Seq(Threads), Spells(q, s), BackButLast(q, s), Len(s) # 0
  PROVE  Spells(push_rq(q, s[Len(s)]), s) /\ BackButLast(push_rq(q, s[Len(s)]), s)
<1>. DEFINE n == Len(s)
            t == s[n]
            r == push_rq(q, t)
<1>1. n \in Nat /\ n \in 1 .. n /\ \A i \in 1 .. n : s[i] \in Threads /\ s[i] # NULL
  BY Places, ThreadsAreNumbers
<1>2. t \in Threads /\ t # NULL
  BY <1>1
<1>3. /\ Once(s) /\ q.head = s[1] /\ q.tail = t
      /\ \A i \in 1 .. n : q.next[s[i]] = IF i = n THEN NULL ELSE s[i + 1]
      /\ \A u \in Threads : ~In(s, u) => q.next[u] = NULL /\ q.prev[u] = NULL
  BY DEF Spells
<1>. HIDE DEF t
<1>4. /\ r.head = IF q.tail = NULL THEN t ELSE q.head
      /\ r.tail = t
      /\ \A u \in Threads : r.next[u] = IF u = t THEN NULL ELSE IF u = q.tail THEN t ELSE q.next[u]
      /\ \A u \in Threads : r.prev[u] = IF u = t /\ q.tail # NULL THEN q.tail ELSE q.prev[u]
  BY <1>2, PushedFields
<1>. HIDE DEF r
<1>5. ASSUME NEW i \in 1 .. n
      PROVE  s[i] = t <=> i = n
  BY <1>1, <1>3 DEF Once, t
<1>6. \A i \in 1 .. n : r.next[s[i]] = IF i = n THEN NULL ELSE s[i + 1]
  BY <1>1, <1>3, <1>4, <1>5
<1>7. ASSUME NEW u \in Threads, ~In(s, u)
      PROVE  r.next[u] = NULL /\ r.prev[u] = NULL
  <2>1. u # t
    BY <1>1, <1>7 DEF In, t
  <2>. QED  BY <1>3, <1>4, <1>7, <2>1
<1>8. ASSUME NEW i \in 1 .. n - 1
      PROVE  r.prev[s[i]] = IF i = 1 THEN NULL ELSE s[i - 1]
  <2>1. i \in 1 .. n /\ s[i] # t
    BY <1>1, <1>5
  <2>2. q.prev[s[i]] = IF i = 1 THEN NULL ELSE s[i - 1]
    BY DEF BackButLast, BackAt
  <2>. QED  BY <1>1, <1>4, <2>1, <2>2
<1>9. Spells(r, s)
  BY <1>1, <1>2, <1>3, <1>4, <1>6, <1>7 DEF Spells, t
<1>. QED  BY <1>8, <1>9 DEF BackButLast, BackAt, r, t

(* The first thread leaves the queue; what is behind it is linked back     *)
(* rightly again, if it was, or if it is one thread at most.               *)
LEMMA PopFirst ==
  ASSUME NEW q \in Queues, NEW s \in Seq(Threads), Spells(q, s), Len(s) # 0,
         Back(q, s) \/ Len(s) <= 2
  PROVE  Spells(pop_rq(q), Tail(s)) /\ Back(pop_rq(q), Tail(s))
<1>. DEFINE n == Len(s)
            r == pop_rq(q)
            a == Tail(s)
<1>1. n \in Nat /\ 1 \in 1 .. n /\ \A i \in 1 .. n : s[i] \in Threads /\ s[i] # NULL
  BY Places, ThreadsAreNumbers
<1>2. a \in Seq(Threads) /\ Len(a) = n - 1 /\ \A i \in 1 .. n - 1 : a[i] = s[i + 1]
  BY TailOf
<1>3. /\ \A i, j \in 1 .. n : s[i] = s[j] => i = j
      /\ q.head = s[1] /\ q.tail = s[n]
      /\ \A i \in 1 .. n : q.next[s[i]] = IF i = n THEN NULL ELSE s[i + 1]
      /\ \A u \in Threads : ~In(s, u) => q.next[u] = NULL /\ q.prev[u] = NULL
  BY DEF Spells, Once
<1>4. q.head # NULL
  BY <1>1, <1>3
<1>5. /\ r.head = q.next[q.head]
      /\ r.tail = IF q.next[q.head] = NULL THEN NULL ELSE q.tail
      /\ \A u \in Threads : r.next[u] = IF u = q.head THEN NULL ELSE q.next[u]
      /\ \A u \in Threads : r.prev[u] = IF u \in {q.next[q.head], q.head} THEN NULL ELSE q.prev[u]
  BY <1>4, PoppedFields
<1>. HIDE DEF r, a
<1>6. q.next[s[1]] = IF n = 1 THEN NULL ELSE s[2]
  <2>1. q.next[s[1]] = IF 1 = n THEN NULL ELSE s[1 + 1]
    BY <1>1, <1>3
  <2>. QED  BY <2>1
<1>7. /\ r.head = IF Len(a) = 0 THEN NULL ELSE a[1]
      /\ r.tail = IF Len(a) = 0 THEN NULL ELSE a[Len(a)]
  <2>1. CASE n = 1
    BY <1>2, <1>3, <1>5, <1>6, <2>1
  <2>2. CASE n # 1
    <3>0. n >= 2
      BY <1>1, <2>2
    <3>1. 2 \in 1 .. n /\ n - 1 \in 1 .. n - 1 /\ 1 \in 1 .. n - 1 /\ s[2] # NULL
      BY <1>1, <3>0
    <3>2. a[1] = s[2] /\ a[n - 1] = s[n]
      BY <1>1, <1>2, <3>1
    <3>. QED  BY <1>1, <1>2, <1>3, <1>5, <1>6, <2>2, <3>1, <3>2
  <2>. QED  BY <2>1, <2>2
<1>8. Once(a)
  <2>1. ASSUME NEW i \in 1 .. n - 1, NEW j \in 1 .. n - 1, a[i] = a[j]
        PROVE  i = j
    <3>1. i + 1 \in 1 .. n /\ j + 1 \in 1 .. n /\ s[i + 1] = s[j + 1]
      BY <1>1, <1>2, <2>1
    <3>2. i + 1 = j + 1
      BY <1>3, <3>1
    <3>. QED  BY <3>2
  <2>. QED  BY <1>2, <2>1 DEF Once
<1>9. ASSUME NEW i \in 1 .. n - 1
      PROVE  r.next[a[i]] = IF i = n - 1 THEN NULL ELSE a[i + 1]
  <2>1. i + 1 \in 1 .. n /\ a[i] = s[i + 1] /\ s[i + 1] # s[1]
    BY <1>1, <1>2, <1>3
  <2>2. r.next[a[i]] = q.next[s[i + 1]]
    BY <1>1, <1>3, <1>5, <2>1
  <2>3. q.next[s[i + 1]] = IF i + 1 = n THEN NULL ELSE s[i + 2]
    BY <1>3, <2>1
  <2>4. i # n - 1 => i + 1 \in 1 .. n - 1 /\ a[i + 1] = s[i + 2]
    BY <1>1, <1>2
  <2>. QED  BY <1>1, <2>2, <2>3, <2>4
<1>10. ASSUME NEW u \in Threads, ~In(a, u)
       PROVE  r.next[u] = NULL /\ r.prev[u] = NULL
  <2>1. CASE u = s[1]
    BY <1>3, <1>5, <2>1
  <2>2. CASE u # s[1]
    <3>1. ASSUME NEW i \in 1 .. n
          PROVE  s[i] # u
      <4>1. CASE i = 1
        BY <2>2, <4>1
      <4>2. CASE i # 1
        <5>1. i - 1 \in 1 .. n - 1 /\ a[i - 1] = s[i]
          BY <1>1, <1>2, <4>2
        <5>. QED  BY <1>2, <1>10, <5>1 DEF In
      <4>. QED  BY <4>1, <4>2
    <3>2. ~In(s, u)
      BY <3>1 DEF In
    <3>. QED  BY <1>3, <1>5, <2>2, <3>2
  <2>. QED  BY <2>1, <2>2
<1>11. ASSUME NEW i \in 1 .. n - 1
       PROVE  r.prev[a[i]] = IF i = 1 THEN NULL ELSE a[i - 1]
  <2>1. i + 1 \in 1 .. n /\ a[i] = s[i + 1] /\ s[i + 1] \in Threads
    BY <1>1, <1>2
  <2>2. CASE i = 1
    <3>1. q.next[q.head] = a[i]
      BY <1>1, <1>3, <1>6, <2>1, <2>2
    <3>. QED  BY <1>5, <2>1, <2>2, <3>1
  <2>3. CASE i # 1
    <3>1. Back(q, s) /\ 2 \in 1 .. n /\ n # 1
      BY <1>1, <2>3
    <3>2. q.prev[s[i + 1]] = s[i]
      BY <1>1, <2>1, <3>1 DEF Back, BackAt
    <3>3. s[i + 1] # s[1] /\ s[i + 1] # s[2]
      BY <1>1, <1>3, <2>1, <2>3, <3>1
    <3>4. r.prev[a[i]] = s[i]
      BY <1>3, <1>5, <1>6, <2>1, <3>1, <3>2, <3>3
    <3>5. i - 1 \in 1 .. n - 1 /\ a[i - 1] = s[i]
      BY <1>1, <1>2, <2>3
    <3>. QED  BY <2>3, <3>4, <3>5
  <2>. QED  BY <2>2, <2>3
<1>12. Spells(r, a)
  BY <1>2, <1>7, <1>8, <1>9, <1>10 DEF Spells
<1>13. Back(r, a)
  BY <1>2, <1>11 DEF Back, BackAt
<1>. QED  BY <1>12, <1>13 DEF r, a

(* kill_zombies takes any thread off the queue. *)
LEMMA UnlinkAt ==
  ASSUME NEW q \in Queues, NEW s \in Seq(Threads), Spells(q, s), Back(q, s),
         NEW p \in 1 .. Len(s)
  PROVE  Spells(Unlink(q, s[p]), RemoveAt(s, p)) /\ Back(Unlink(q, s[p]), RemoveAt(s, p))
<1>. DEFINE n == Len(s)
            t == s[p]
            r == Unlink(q, t)
            a == RemoveAt(s, p)
<1>1. n \in Nat /\ t \in Threads /\ \A i \in 1 .. n : s[i] \in Threads /\ s[i] # NULL
  BY Places, ThreadsAreNumbers
<1>2. /\ a \in Seq(Threads) /\ Len(a) = n - 1
      /\ \A i \in 1 .. n - 1 : a[i] = IF i < p THEN s[i] ELSE s[i + 1]
  BY Removed
<1>3. /\ \A i, j \in 1 .. n : s[i] = s[j] => i = j
      /\ q.head = s[1] /\ q.tail = s[n]
      /\ \A i \in 1 .. n : q.next[s[i]] = IF i = n THEN NULL ELSE s[i + 1]
      /\ \A u \in Threads : ~In(s, u) => q.next[u] = NULL /\ q.prev[u] = NULL
      /\ \A i \in 1 .. n : q.prev[s[i]] = IF i = 1 THEN NULL ELSE s[i - 1]
  BY DEF Spells, Once, Back, BackAt
<1>4. /\ r.head = IF t = q.head THEN q.next[t] ELSE q.head
      /\ r.tail = IF t = q.tail THEN q.prev[t] ELSE q.tail
      /\ \A u \in Threads : r.next[u] =
           IF u = t THEN NULL ELSE IF u = q.prev[t] THEN q.next[t] ELSE q.next[u]
      /\ \A u \in Threads : r.prev[u] =
           IF u = t THEN NULL ELSE IF u = q.next[t] THEN q.prev[t] ELSE q.prev[u]
  <2>1. t \in Threads
    BY <1>1
  <2>. HIDE DEF t
  <2>. QED  BY <2>1, UnlinkedFields
<1>5. /\ q.next[t] = IF p = n THEN NULL ELSE s[p + 1]
      /\ q.prev[t] = IF p = 1 THEN NULL ELSE s[p - 1]
  BY <1>3
<1>. HIDE DEF r, a
<1>6. ASSUME NEW i \in 1 .. n
      PROVE  /\ s[i] = t <=> i = p
             /\ s[i] = q.prev[t] <=> i = p - 1
             /\ s[i] = q.next[t] <=> i = p + 1
  <2>1. s[i] = t <=> i = p
    BY <1>1, <1>3
  <2>2. s[i] = q.prev[t] <=> i = p - 1
    <3>1. CASE p = 1
      BY <1>1, <1>5, <3>1
    <3>2. CASE p # 1
      <4>1. p - 1 \in 1 .. n /\ q.prev[t] = s[p - 1]
        BY <1>1, <1>5, <3>2
      <4>. QED  BY <1>3, <4>1
    <3>. QED  BY <3>1, <3>2
  <2>3. s[i] = q.next[t] <=> i = p + 1
    <3>1. CASE p = n
      BY <1>1, <1>5, <3>1
    <3>2. CASE p # n
      <4>1. p + 1 \in 1 .. n /\ q.next[t] = s[p + 1]
        BY <1>1, <1>5, <3>2
      <4>. QED  BY <1>3, <4>1
    <3>. QED  BY <3>1, <3>2
  <2>. QED  BY <2>1, <2>2, <2>3
<1>7. /\ r.head = IF n - 1 = 0 THEN NULL ELSE a[1]
      /\ r.tail = IF n - 1 = 0 THEN NULL ELSE a[n - 1]
  <2>0. 1 \in 1 .. n /\ n \in 1 .. n
    BY <1>1
  <2>1. CASE n = 1
    <3>1. p = 1 /\ n = p
      BY <2>1
    <3>. QED  BY <1>3, <1>4, <1>5, <2>1, <3>1
  <2>2. CASE n # 1
    <3>0. n >= 2
      <4>1. n \in Nat /\ 1 \in 1 .. n
        BY <1>1, <2>0
      <4>. HIDE DEF n
      <4>. QED  BY <2>2, <4>1
    <3>1. 1 \in 1 .. n - 1 /\ n - 1 \in 1 .. n - 1 /\ n - 1 # 0
      BY <1>1, <3>0
    <3>2. r.head = a[1]
      <4>1. a[1] = IF 1 < p THEN s[1] ELSE s[2]
        <5>1. a[1] = IF 1 < p THEN s[1] ELSE s[1 + 1]
          BY <1>2, <3>1
        <5>. QED  BY <5>1
      <4>2. t = q.head <=> p = 1
        BY <1>3, <1>6, <2>0
      <4>3. CASE p = 1
        <5>1. r.head = s[p + 1] /\ p + 1 = 2
          BY <1>4, <1>5, <2>2, <4>2, <4>3
        <5>. QED  BY <4>1, <4>3, <5>1
      <4>4. CASE p # 1
        BY <1>1, <1>3, <1>4, <4>1, <4>2, <4>4
      <4>. QED  BY <4>3, <4>4
    <3>3. r.tail = a[n - 1]
      <4>1. a[n - 1] = IF n - 1 < p THEN s[n - 1] ELSE s[n]
        BY <1>1, <1>2, <3>1
      <4>2. t = q.tail <=> p = n
        BY <1>3, <1>6, <2>0
      <4>3. CASE p = n
        <5>1. r.tail = s[p - 1] /\ n - 1 < p
          BY <1>1, <1>4, <1>5, <2>2, <4>2, <4>3
        <5>. QED  BY <4>1, <4>3, <5>1
      <4>4. CASE p # n
        <5>1. r.tail = s[n]
          BY <1>3, <1>4, <4>2, <4>4
        <5>2. ~(n - 1 < p)
          BY <1>1, <4>4
        <5>. QED  BY <4>1, <5>1, <5>2
      <4>. QED  BY <4>3, <4>4
    <3>. QED  BY <3>1, <3>2, <3>3
  <2>. QED  BY <2>1, <2>2
<1>8. Once(a)
  <2>1. ASSUME NEW i \in 1 .. n - 1, NEW j \in 1 .. n - 1, a[i] = a[j]
        PROVE  i = j
    <3>. DEFINE k == IF i < p THEN i ELSE i + 1
                l == IF j < p THEN j ELSE j + 1
    <3>1. k \in 1 .. n /\ l \in 1 .. n /\ s[k] = s[l]
      BY <1>1, <1>2, <2>1
    <3>2. k = l
      BY <1>3, <3>1
    <3>. QED  BY <1>1, <3>2
  <2>. QED  BY <1>2, <2>1 DEF Once
<1>9. ASSUME NEW i \in 1 .. n - 1
      PROVE  r.next[a[i]] = IF i = n - 1 THEN NULL ELSE a[i + 1]
  <2>. DEFINE k == IF i < p THEN i ELSE i + 1
  <2>1. k \in 1 .. n /\ k # p /\ a[i] = s[k]
    BY <1>1, <1>2
  <2>2. r.next[s[k]] = IF k = p - 1 THEN q.next[t] ELSE q.next[s[k]]
    BY <1>1, <1>4, <1>6, <2>1
  <2>3. q.next[s[k]] = IF k = n THEN NULL ELSE s[k + 1]
    BY <1>3, <2>1
  <2>4. i # n - 1 => a[i + 1] = IF i + 1 < p THEN s[i + 1] ELSE s[i + 2]
    BY <1>1, <1>2
  <2>5. CASE k = p - 1
    <3>1. i = p - 1 /\ (i = n - 1 <=> p = n) /\ i + 2 = p + 1 /\ ~(i + 1 < p)
      BY <1>1, <2>5
    <3>. QED  BY <1>5, <2>1, <2>2, <2>4, <2>5, <3>1
  <2>6. CASE k # p - 1 /\ i < p
    <3>1. k = i /\ i + 1 < p /\ i # n - 1 /\ k # n
      BY <1>1, <2>1, <2>6
    <3>. QED  BY <2>1, <2>2, <2>3, <2>4, <2>6, <3>1
  <2>7. CASE k # p - 1 /\ ~(i < p)
    <3>1. k = i + 1 /\ ~(i + 1 < p) /\ (i = n - 1 <=> k = n) /\ k + 1 = i + 2
      BY <1>1, <2>1, <2>7
    <3>. QED  BY <2>1, <2>2, <2>3, <2>4, <2>7, <3>1
  <2>. QED  BY <2>5, <2>6, <2>7
<1>10. ASSUME NEW u \in Threads, ~In(a, u)
       PROVE  r.next[u] = NULL /\ r.prev[u] = NULL
  <2>1. CASE u = t
    BY <1>4, <2>1
  <2>2. CASE u # t
    <3>1. ASSUME NEW i \in 1 .. n
          PROVE  s[i] # u
      <4>1. CASE i = p
        BY <2>2, <4>1
      <4>2. CASE i < p
        <5>1. i \in 1 .. n - 1 /\ a[i] = s[i]
          BY <1>1, <1>2, <4>2
        <5>. QED  BY <1>2, <1>10, <5>1 DEF In
      <4>3. CASE i > p
        <5>1. i - 1 \in 1 .. n - 1 /\ a[i - 1] = s[i]
          BY <1>1, <1>2, <4>3
        <5>. QED  BY <1>2, <1>10, <5>1 DEF In
      <4>. QED  BY <1>1, <4>1, <4>2, <4>3
    <3>2. ~In(s, u)
      BY <3>1 DEF In
    <3>3. u # q.next[t] /\ u # q.prev[t]
      <4>1. p # n => p + 1 \in 1 .. n
        BY <1>1
      <4>2. p # 1 => p - 1 \in 1 .. n
        BY <1>1
      <4>. QED  BY <1>5, <3>1, <4>1, <4>2, ThreadsAreNumbers
    <3>. QED  BY <1>3, <1>4, <2>2, <3>2, <3>3
  <2>. QED  BY <2>1, <2>2
<1>11. ASSUME NEW i \in 1 .. n - 1
       PROVE  r.prev[a[i]] = IF i = 1 THEN NULL ELSE a[i - 1]
  <2>. DEFINE k == IF i < p THEN i ELSE i + 1
  <2>1. k \in 1 .. n /\ k # p /\ a[i] = s[k]
    BY <1>1, <1>2
  <2>2. r.prev[s[k]] = IF k = p + 1 THEN q.prev[t] ELSE q.prev[s[k]]
    BY <1>1, <1>4, <1>6, <2>1
  <2>3. q.prev[s[k]] = IF k = 1 THEN NULL ELSE s[k - 1]
    BY <1>3, <2>1
  <2>4. i # 1 => a[i - 1] = IF i - 1 < p THEN s[i - 1] ELSE s[i]
    <3>. i # 1 => i - 1 \in 1 .. n - 1 /\ i - 1 + 1 = i
      BY <1>1
    <3>. QED  BY <1>2
  <2>5. CASE k = p + 1
    <3>1. i = p /\ (i # 1 => i - 1 < p)
      BY <1>1, <2>5
    <3>. QED  BY <1>5, <2>1, <2>2, <2>4, <2>5, <3>1
  <2>6. CASE k # p + 1 /\ i < p
    <3>1. k = i /\ i - 1 < p
      BY <1>1, <2>1, <2>6
    <3>. QED  BY <2>1, <2>2, <2>3, <2>4, <2>6, <3>1
  <2>7. CASE k # p + 1 /\ ~(i < p)
    <3>1. k = i + 1 /\ ~(i - 1 < p) /\ i # 1 /\ k - 1 = i /\ k # 1
      BY <1>1, <2>1, <2>7
    <3>. QED  BY <2>1, <2>2, <2>3, <2>4, <2>7, <3>1
  <2>. QED  BY <2>5, <2>6, <2>7
<1>12. Spells(r, a)
  BY <1>2, <1>7, <1>8, <1>9, <1>10 DEF Spells
<1>13. Back(r, a)
  BY <1>2, <1>11 DEF Back, BackAt
<1>. QED  BY <1>12, <1>13 DEF r, a
-----------------------------------------------------------------------------
(* Walking the forward links finds the sequence they spell. *)

(* No more threads are queued than there are. *)
LEMMA NotTooLong ==
  ASSUME NEW s \in Seq(Threads), Once(s)
  PROVE  Len(s) <= MAX_THREAD_COUNT + 1
<1>. DEFINE N == MAX_THREAD_COUNT + 1
            w == [n \in 0 .. N |-> s[n + 1]]
<1>. SUFFICES ASSUME ~(Len(s) <= N)
              PROVE  FALSE
  OBVIOUS
<1>1. N \in Nat /\ Len(s) \in Nat /\ N + 1 <= Len(s)
  BY Places, ThreadsAreNumbers
<1>2. \A i \in 1 .. Len(s) : s[i] \in 0 .. N - 1
  BY Places, ThreadsAreNumbers DEF Threads
<1>3. w \in [0 .. N -> 0 .. N - 1]
  <2>. HIDE DEF N
  <2>. QED  BY <1>1, <1>2
<1>4. \E x, y \in 0 .. N : x # y /\ w[x] = w[y]
  <2>. HIDE DEF N, w
  <2>. QED  BY <1>1, <1>3, TwoAlike
<1>5. PICK x \in 0 .. N, y \in 0 .. N : x # y /\ s[x + 1] = s[y + 1]
  BY <1>4
<1>6. x + 1 \in 1 .. Len(s) /\ y + 1 \in 1 .. Len(s) /\ x + 1 # y + 1
  <2>. HIDE DEF N
  <2>. QED  BY <1>1, <1>5
<1>. QED  BY <1>5, <1>6 DEF Once

LEMMA NthOf ==
  ASSUME NEW q \in Queues, NEW s \in Seq(Threads), Spells(q, s)
  PROVE  \A n \in 0 .. MAX_THREAD_COUNT + 1 :
           Nth(q)[n] = IF n < Len(s) THEN s[n + 1] ELSE NULL
<1>. DEFINE N == MAX_THREAD_COUNT + 1
            Follow == [t \in Links |-> IF t = NULL THEN NULL ELSE q.next[t]]
            walk[n \in 0 .. N] ==
              IF n = 0 THEN q.head
              ELSE IF walk[n - 1] = NULL THEN NULL ELSE q.next[walk[n - 1]]
<1>1. N \in Nat /\ Len(s) \in Nat /\ \A i \in 1 .. Len(s) : s[i] # NULL
  BY Places, ThreadsAreNumbers
<1>2. q.head \in Links /\ Follow \in [Links -> Links]
  BY ThreadsAreNumbers DEF Queues, Links
<1>3. \E g \in [0 .. N -> Links] : Iterates(g, Follow, q.head, N)
  <2>. HIDE DEF N, Follow
  <2>. QED  BY <1>1, <1>2, Iterated
<1>4. PICK g \in [0 .. N -> Links] :
        g = [n \in 0 .. N |-> IF n = 0 THEN q.head ELSE Follow[g[n - 1]]]
  BY <1>3 DEF Iterates
<1>5. g = [n \in 0 .. N |->
             IF n = 0 THEN q.head
             ELSE IF g[n - 1] = NULL THEN NULL ELSE q.next[g[n - 1]]]
  <2>1. ASSUME NEW n \in 0 .. N
        PROVE  g[n] = IF n = 0 THEN q.head
                      ELSE IF g[n - 1] = NULL THEN NULL ELSE q.next[g[n - 1]]
    <3>1. g[n] = IF n = 0 THEN q.head ELSE Follow[g[n - 1]]
      BY <1>4
    <3>2. n # 0 => n - 1 \in 0 .. N /\ g[n - 1] \in Links
      BY <1>1
    <3>. QED  BY <3>1, <3>2
  <2>. QED  BY <1>4, <2>1
<1>6. walk = [n \in 0 .. N |->
             IF n = 0 THEN q.head
             ELSE IF walk[n - 1] = NULL THEN NULL ELSE q.next[walk[n - 1]]]
  BY <1>5
<1>7. Nth(q) = walk
  BY DEF Nth
<1>. HIDE DEF walk, Follow
<1>8. /\ walk[0] = q.head
      /\ \A n \in 1 .. N : walk[n] = IF walk[n - 1] = NULL THEN NULL ELSE q.next[walk[n - 1]]
  BY <1>1, <1>6
<1>. DEFINE S == {n \in 0 .. N : walk[n] = IF n < Len(s) THEN s[n + 1] ELSE NULL}
<1>9. 0 \in S
  BY <1>1, <1>8 DEF Spells
<1>10. ASSUME NEW n \in 1 .. N, n - 1 \in S
       PROVE  n \in S
  <2>1. walk[n - 1] = IF n - 1 < Len(s) THEN s[n] ELSE NULL
    BY <1>1, <1>10
  <2>2. walk[n] = IF walk[n - 1] = NULL THEN NULL ELSE q.next[walk[n - 1]]
    BY <1>8
  <2>3. CASE n - 1 < Len(s)
    <3>1. n \in 1 .. Len(s) /\ s[n] # NULL
      BY <1>1, <2>3
    <3>2. q.next[s[n]] = IF n = Len(s) THEN NULL ELSE s[n + 1]
      BY <3>1 DEF Spells
    <3>. QED  BY <1>1, <2>1, <2>2, <2>3, <3>1, <3>2
  <2>4. CASE ~(n - 1 < Len(s))
    BY <1>1, <2>1, <2>2, <2>4
  <2>. QED  BY <2>3, <2>4
<1>11. \A n \in 0 .. N : n \in S
  <2>. S \in SUBSET Nat
    BY <1>1
  <2>. HIDE DEF S, N
  <2>. QED  BY <1>1, <1>9, <1>10, HandedOn
<1>. QED  BY <1>7, <1>11

LEMMA Counted ==
  ASSUME NEW n \in Nat
  PROVE  /\ IsFiniteSet(1 .. n) /\ Cardinality(1 .. n) = n
         /\ Cardinality(0 .. n - 1) = n
<1>1. /\ IsFiniteSet(1 .. n)
      /\ Cardinality(1 .. n) = IF 1 > n THEN 0 ELSE n - 1 + 1
  BY FS_Interval
<1>2. Cardinality(0 .. n - 1) = IF 0 > n - 1 THEN 0 ELSE n - 1 - 0 + 1
  <2>. n - 1 \in Int /\ 0 \in Int
    OBVIOUS
  <2>. QED  BY FS_Interval
<1>. QED  BY <1>1, <1>2

LEMMA QueueIs ==
  ASSUME NEW q \in Queues, NEW s \in Seq(Threads), Spells(q, s)
  PROVE  /\ Queue(q) = s
         /\ \A t : t \in Members(q) <=> In(s, t)
<1>. DEFINE N == MAX_THREAD_COUNT + 1
            Full == {n \in 0 .. N : Nth(q)[n] # NULL}
<1>1. /\ N \in Nat /\ Len(s) \in Nat /\ Len(s) <= N
      /\ \A i \in 1 .. Len(s) : s[i] \in Threads /\ s[i] # NULL
  BY Places, ThreadsAreNumbers, NotTooLong DEF Spells
<1>2. \A n \in 0 .. N : Nth(q)[n] = IF n < Len(s) THEN s[n + 1] ELSE NULL
  BY NthOf
<1>3. Full = 0 .. Len(s) - 1
  <2>1. ASSUME NEW n \in 0 .. N
        PROVE  Nth(q)[n] # NULL <=> n < Len(s)
    <3>1. n < Len(s) => n + 1 \in 1 .. Len(s)
      BY <1>1
    <3>. QED  BY <1>1, <1>2, <3>1
  <2>. HIDE DEF N
  <2>. QED  BY <1>1, <2>1
<1>4. Cardinality(Full) = Len(s)
  BY <1>1, <1>3, Counted
<1>5. Queue(q) = [i \in 1 .. Len(s) |-> Nth(q)[i - 1]]
  BY <1>4 DEF Queue
<1>6. \A i \in 1 .. Len(s) : Nth(q)[i - 1] = s[i]
  <2>1. ASSUME NEW i \in 1 .. Len(s)
        PROVE  Nth(q)[i - 1] = s[i]
    <3>1. i - 1 \in 0 .. N /\ i - 1 < Len(s) /\ i - 1 + 1 = i
      BY <1>1
    <3>. QED  BY <1>2, <3>1
  <2>. QED  BY <2>1
<1>7. Queue(q) = [i \in 1 .. Len(s) |-> s[i]]
  BY <1>5, <1>6
<1>8. s = [i \in 1 .. Len(s) |-> s[i]]
  OBVIOUS
<1>9. Queue(q) = s
  BY <1>7, <1>8
<1>. QED  BY <1>9 DEF Members, In

(* A queue in which no thread is twice has as many threads as places. *)
LEMMA AsManyMembers ==
  ASSUME NEW q \in Queues, NEW s \in Seq(Threads), Spells(q, s)
  PROVE  Cardinality(Members(q)) = Len(s)
<1>. DEFINE A == 1 .. Len(s)
            B == Members(q)
            f == [i \in A |-> s[i]]
<1>1. Len(s) \in Nat /\ B = {s[i] : i \in A}
  BY QueueIs, Places DEF Members
<1>2. \A i, j \in A : s[i] = s[j] => i = j
  BY DEF Spells, Once
<1>3. IsFiniteSet(A) /\ Cardinality(A) = Len(s)
  BY <1>1, Counted
<1>4. f \in Bijection(A, B)
  <2>. HIDE DEF A, B
  <2>. QED  BY <1>1, <1>2 DEF Bijection, Injection, IsInjective, Surjection
<1>5. ExistsBijection(A, B)
  BY <1>4 DEF ExistsBijection
<1>. HIDE DEF A, B
<1>. QED  BY <1>3, <1>5, FS_Bijection DEF B
-----------------------------------------------------------------------------
(* The changes that ReadyQueue makes to its sequence. *)

LEMMA RemovedThread ==
  ASSUME NEW s \in Seq(Threads), Once(s), NEW p \in 1 .. Len(s)
  PROVE  Abstract!RemoveFirst(s, s[p]) = RemoveAt(s, p)
<1>. DEFINE I == {i \in 1 .. Len(s) : s[i] = s[p]}
<1>1. I = {p}
  BY DEF Once
<1>2. Abstract!Min(I) = p
  BY <1>1 DEF Abstract!Min
<1>3. Abstract!SelectInSeq(s, LAMBDA v : v = s[p]) = IF I # {} THEN Abstract!Min(I) ELSE 0
  BY DEF Abstract!SelectInSeq
<1>4. Abstract!SelectInSeq(s, LAMBDA v : v = s[p]) = p
  <2>. HIDE DEF I
  <2>. QED  BY <1>1, <1>2, <1>3
<1>. QED  BY <1>4 DEF Abstract!RemoveFirst, Abstract!RemoveAt, RemoveAt

LEMMA NewAtEnd ==
  ASSUME NEW s \in Seq(Threads), NEW t \in Threads, ~In(s, t)
  PROVE  Abstract!MoveToEnd(s, t) = Append(s, t)
BY DEF In, Abstract!MoveToEnd, Abstract!RemoveFirst

LEMMA LastAtEnd ==
  ASSUME NEW s \in Seq(Threads), Once(s), Len(s) # 0
  PROVE  Abstract!MoveToEnd(s, s[Len(s)]) = s
<1>. DEFINE n == Len(s)
            a == RemoveAt(s, n)
<1>1. n \in Nat /\ n \in 1 .. n /\ s[n] \in Threads
  BY Places
<1>2. a \in Seq(Threads) /\ Len(a) = n - 1 /\ \A i \in 1 .. n - 1 : a[i] = s[i]
  <2>1. /\ a \in Seq(Threads) /\ Len(a) = n - 1
        /\ \A i \in 1 .. n - 1 : a[i] = IF i < n THEN s[i] ELSE s[i + 1]
    BY <1>1, Removed
  <2>. HIDE DEF a
  <2>. QED  BY <1>1, <2>1
<1>3. Abstract!RemoveFirst(s, s[n]) = a
  BY <1>1, RemovedThread
<1>. HIDE DEF a
<1>4. /\ Append(a, s[n]) \in Seq(Threads) /\ Len(Append(a, s[n])) = n - 1 + 1
      /\ \A i \in 1 .. n - 1 : Append(a, s[n])[i] = a[i]
      /\ Append(a, s[n])[n - 1 + 1] = s[n]
  BY <1>1, <1>2, Appended
<1>. DEFINE b == Append(a, s[n])
<1>. HIDE DEF b
<1>5. b \in Seq(Threads) /\ Len(b) = n /\ (\A i \in 1 .. n - 1 : b[i] = s[i]) /\ b[n] = s[n]
  BY <1>1, <1>2, <1>4 DEF b
<1>6. \A i \in 1 .. n : b[i] = s[i]
  <2>1. ASSUME NEW i \in 1 .. n
        PROVE  b[i] = s[i]
    BY <1>1, <1>5
  <2>. QED  BY <2>1
<1>7. b = s
  BY <1>5, <1>6, SameSequence
<1>. QED  BY <1>3, <1>7 DEF Abstract!MoveToEnd, b

LEMMA FirstAtEnd ==
  ASSUME NEW s \in Seq(Threads), Once(s), Len(s) # 0
  PROVE  Abstract!MoveToEnd(s, s[1]) = Append(Tail(s), s[1])
<1>1. Len(s) \in Nat /\ 1 \in 1 .. Len(s)
  BY Places
<1>. DEFINE a == RemoveAt(s, 1)
<1>2. /\ a \in Seq(Threads) /\ Len(a) = Len(s) - 1
      /\ \A i \in 1 .. Len(s) - 1 : a[i] = IF i < 1 THEN s[i] ELSE s[i + 1]
  BY <1>1, Removed
<1>3. /\ Tail(s) \in Seq(Threads) /\ Len(Tail(s)) = Len(s) - 1
      /\ \A i \in 1 .. Len(s) - 1 : Tail(s)[i] = s[i + 1]
  BY TailOf
<1>. HIDE DEF a
<1>4. a = Tail(s)
  <2>1. \A i \in 1 .. Len(s) - 1 : a[i] = Tail(s)[i]
    BY <1>2, <1>3
  <2>. QED  BY <1>2, <1>3, <2>1, SameSequence
<1>5. Abstract!RemoveFirst(s, s[1]) = a
  BY <1>1, RemovedThread DEF a
<1>. QED  BY <1>4, <1>5 DEF Abstract!MoveToEnd

(* The head of a queue is its first thread. *)
LEMMA HeadIs ==
  ASSUME NEW s \in Seq(Threads), Len(s) # 0
  PROVE  s # <<>> /\ Head(s) = s[1]
<1>1. s # <<>>
  BY EmptySeq
<1>. QED  BY <1>1, HeadTailProperties
-----------------------------------------------------------------------------
(* The steps of ReadyQueue, from the queue s to the queue s2. *)

Create(s, s2) ==
  \E t \in Threads :
    /\ status[t] = "FREE"
    /\ status' = [status EXCEPT ![t] = "ACTIVE"]
    /\ s2 = Abstract!MoveToEnd(s, t)
    /\ curr_thread' \in {curr_thread, t}

Dispatch(s, s2) ==
  /\ Len(s) # 0
  /\ status[s[1]] # "ZOMBIE"
  /\ curr_thread' = s[1]
  /\ s2 = IF status[curr_thread] = "ZOMBIE" THEN Tail(s)
          ELSE Abstract!MoveToEnd(Tail(s), curr_thread)
  /\ UNCHANGED status

PassOver(s, s2) ==
  /\ Len(s) # 0
  /\ status[s[1]] = "ZOMBIE"
  /\ s2 = Abstract!MoveToEnd(s, s[1])
  /\ UNCHANGED <<status, curr_thread>>

Die(s, s2) ==
  \E t \in Threads :
    /\ status[t] # "FREE"
    /\ status' = [status EXCEPT ![t] = "ZOMBIE"]
    /\ s2 = s \/ (t = curr_thread /\ s2 = Abstract!MoveToEnd(s, t))
    /\ UNCHANGED curr_thread

Reap(s, s2) ==
  \E t \in Threads :
    /\ status[t] = "ZOMBIE" /\ In(s, t)
    /\ s2 = Abstract!RemoveFirst(s, t)
    /\ status' = [status EXCEPT ![t] = "FREE"]
    /\ UNCHANGED curr_thread

Same(s, s2) == s2 = s /\ UNCHANGED <<status, curr_thread>>

Turn(s, s2) ==
  \/ Same(s, s2) \/ Create(s, s2) \/ Dispatch(s, s2) \/ PassOver(s, s2)
  \/ Die(s, s2) \/ Reap(s, s2)

(* The invariant holds again, with a queue ReadyQueue could have as well.  *)
Preserved(s) == \E s2 \in Seq(Threads) : InvAt(s2)' /\ Turn(s, s2)

LEMMA TurnImplements ==
  ASSUME NEW s \in Seq(Threads), NEW s2 \in Seq(Threads), TypeOK,
         Queue(rq) = s, Queue(rq)' = s2, Turn(s, s2)
  PROVE  [Abstract!Next]_Abstract!avars
<1>1. Abstract!Threads = Threads
  BY DEF Abstract!Threads, Threads
<1>2. CASE Same(s, s2)
  BY <1>2 DEF Same, Abstract!avars
<1>3. CASE Create(s, s2)
  BY <1>1, <1>3 DEF Create, Abstract!Next, Abstract!Create
<1>4. CASE Dispatch(s, s2)
  BY <1>4, HeadIs DEF Dispatch, Abstract!Next, Abstract!Dispatch
<1>5. CASE PassOver(s, s2)
  BY <1>5, HeadIs DEF PassOver, Abstract!Next, Abstract!PassOver
<1>6. CASE Die(s, s2)
  BY <1>1, <1>6 DEF Die, Abstract!Next, Abstract!Die
<1>7. CASE Reap(s, s2)
  <2>1. DOMAIN s = 1 .. Len(s)
    OBVIOUS
  <2>. QED  BY <1>1, <1>7, <2>1 DEF Reap, In, Abstract!Next, Abstract!Reap
<1>. QED  BY <1>2, <1>3, <1>4, <1>5, <1>6, <1>7 DEF Turn
-----------------------------------------------------------------------------
(* One lemma per step. *)

LEMMA InvHoldsFirst == Init => Inv
<1>. SUFFICES ASSUME Init
              PROVE  Inv
  OBVIOUS
<1>. DEFINE s == <<idle>>
<1>1. s \in Seq(Threads) /\ Len(s) = 1 /\ s[1] = idle /\ idle \in Threads /\ idle # NULL
  BY ThreadsAreNumbers
<1>2. TypeOK
  BY <1>1 DEF Init, TypeOK, Queues, Links
<1>. HIDE DEF s
<1>3. Spells(rq, s) /\ BackLinks(s)
  BY <1>1 DEF Init, Spells, Once, BackLinks, Back, BackButLast, BackAt
<1>4. Running(s) /\ IdleAt(s)
  BY <1>1 DEF Init, Running, IdleAt
<1>5. Lives(s)
  BY <1>1 DEF Init, Lives, In
<1>. QED  BY <1>1, <1>2, <1>3, <1>4, <1>5 DEF Inv, InvAt

(* A step that leaves the queue and the running thread alone; the running  *)
(* thread, other than idle, may kill one.                                  *)
Quiet(s) ==
  /\ cpu \in {"thread", "kill_zombies"}
  /\ UNCHANGED <<rq, curr_thread>>
  /\ \/ UNCHANGED status
     \/ curr_thread # idle /\ \E t \in Threads :
          status[t] # "FREE" /\ status' = [status EXCEPT ![t] = "ZOMBIE"]
  /\ pending' \in SUBSET Threads
  /\ cpu' \in {"thread", "schedule", "kill_zombies"}
  /\ th_ptr' \in Links
  /\ idle_pc' \in {"kill_zombies", "schedule"}
  /\ idle_hit' \in BOOLEAN
  /\ cpu' = "kill_zombies" => curr_thread = idle /\ (th_ptr' = NULL \/ In(s, th_ptr'))

LEMMA QuietStep ==
  ASSUME NEW s \in Seq(Threads), InvAt(s), Quiet(s)
  PROVE  Preserved(s)
<1>. USE DEF InvAt, Quiet
<1>1. TypeOK'
  BY DEF TypeOK
<1>2. Spells(rq, s)'
  BY DEF Spells, Once, In
<1>3. \A t \in Threads :
        /\ status'[t] = "FREE" => status[t] = "FREE"
        /\ status'[t] = "ACTIVE" => status[t] = "ACTIVE"
        /\ curr_thread = idle => status'[t] = status[t]
  BY DEF TypeOK
<1>4. BackLinks(s)'
  <2>1. BackButLast(rq, s)'
    BY DEF BackLinks, BackButLast, BackAt
  <2>2. CASE Back(rq, s)
    BY <2>1, <2>2 DEF BackLinks, Back, BackAt
  <2>3. CASE ~Back(rq, s)
    <3>1. /\ Len(s) \in 1 .. 2 /\ Len(s) = 1 /\ curr_thread = idle /\ status[s[1]] = "ACTIVE"
      BY <2>3 DEF BackLinks
    <3>2. s[1] \in Threads
      BY <3>1, Places
    <3>. QED  BY <1>3, <2>1, <3>1, <3>2 DEF BackLinks
  <2>. QED  BY <2>2, <2>3
<1>5. Running(s)'
  BY DEF Running, In
<1>6. Lives(s)'
  BY <1>3 DEF Lives, In
<1>7. IdleAt(s)'
  BY <1>3, ThreadsAreNumbers DEF IdleAt, In
<1>8. Turn(s, s)
  BY DEF Turn, Same, Die
<1>. QED  BY <1>1, <1>2, <1>4, <1>5, <1>6, <1>7, <1>8 DEF Preserved

LEMMA StatusSettles ==
  ASSUME TypeOK, NEW t \in Threads
  PROVE  status[t] \in {"FREE", "ACTIVE", "ZOMBIE"}
BY DEF TypeOK

LEMMA QuietActions ==
  ASSUME NEW s \in Seq(Threads), InvAt(s),
         \/ Tick \/ kill_zombies \/ VisitedAll \/ IdleSchedules \/ exit \/ thread_exit
         \/ \E pid \in Killable : kill(pid) \/ signal_kill(pid)
  PROVE  Preserved(s)
<1>0. TypeOK /\ Spells(rq, s) /\ Lives(s) /\ curr_thread \in Threads
  BY DEF InvAt, TypeOK
<1>1. rq.head \in Links /\ (rq.head = NULL \/ In(s, rq.head)) /\ NULL \in Links
  <2>1. Len(s) \in Nat
    BY Places
  <2>2. Len(s) # 0 => 1 \in 1 .. Len(s)
    BY <2>1
  <2>. QED  BY <1>0, <2>2 DEF TypeOK, Queues, Links, Spells, In
<1>2. status[curr_thread] # "FREE"
  BY <1>0 DEF Lives
<1>3. CASE Tick
  <2>1. Quiet(s)
    BY <1>0, <1>3 DEF Tick, Enter_schedule, Quiet, TypeOK
  <2>. QED  BY <2>1, QuietStep
<1>4. CASE kill_zombies
  <2>1. Quiet(s)
    BY <1>0, <1>1, <1>4 DEF kill_zombies, Quiet, TypeOK
  <2>. QED  BY <2>1, QuietStep
<1>5. CASE VisitedAll
  <2>1. Quiet(s)
    BY <1>0, <1>5 DEF VisitedAll, Quiet, TypeOK
  <2>. QED  BY <2>1, QuietStep
<1>6. CASE IdleSchedules
  <2>1. Quiet(s)
    BY <1>0, <1>6 DEF IdleSchedules, Enter_schedule, Quiet, TypeOK
  <2>. QED  BY <2>1, QuietStep
<1>7. CASE exit
  <2>1. Quiet(s)
    BY <1>0, <1>2, <1>7 DEF exit, InUserMode, Quiet, TypeOK
  <2>. QED  BY <2>1, QuietStep
<1>8. CASE thread_exit
  <2>1. Quiet(s)
    BY <1>0, <1>2, <1>8 DEF thread_exit, InUserMode, Enter_schedule, Quiet, TypeOK
  <2>. QED  BY <2>1, QuietStep
<1>9. ASSUME NEW pid \in Killable, kill(pid) \/ signal_kill(pid)
      PROVE  Preserved(s)
  <2>1. CASE kill(pid)
    <3>1. pid \in Threads
      BY <2>1, ThreadsAreNumbers DEF kill, Threads
    <3>2. Quiet(s)
      BY <1>0, <2>1, <3>1 DEF kill, InUserMode, Enter_schedule, Quiet, TypeOK
    <3>. QED  BY <3>2, QuietStep
  <2>2. CASE signal_kill(pid)
    <3>1. Quiet(s)
      BY <1>0, <2>2 DEF signal_kill, InUserMode, Quiet, TypeOK
    <3>. QED  BY <3>1, QuietStep
  <2>. QED  BY <1>9, <2>1, <2>2
<1>. QED  BY <1>3, <1>4, <1>5, <1>6, <1>7, <1>8, <1>9

(* The slot thread_create takes. *)
LEMMA FreeSlotIsFree ==
  ASSUME \E t \in Threads : status[t] = "FREE"
  PROVE  FreeSlot \in Threads /\ status[FreeSlot] = "FREE"
<1>. DEFINE S == {t \in Threads : status[t] = "FREE"}
<1>1. S \in SUBSET Nat /\ S # {}
  BY DEF Threads
<1>2. PICK m \in S : \A y \in S : m <= y
  <2>. HIDE DEF S
  <2>. QED  BY <1>1, SmallestNumber
<1>3. \A u \in 0 .. m - 1 : status[u] # "FREE"
  <2>1. ASSUME NEW u \in 0 .. m - 1, status[u] = "FREE"
        PROVE  FALSE
    <3>1. m \in Nat /\ m <= MAX_THREAD_COUNT /\ u < m
      BY ThreadsAreNumbers DEF Threads
    <3>2. u \in S
      BY <2>1, <3>1, ThreadsAreNumbers DEF Threads
    <3>. QED  BY <1>2, <3>1, <3>2
  <2>. QED  BY <2>1
<1>4. m \in Threads /\ status[m] = "FREE"
  OBVIOUS
<1>. HIDE DEF S
<1>. QED  BY <1>3, <1>4 DEF FreeSlot

(* A thread that is new in the queue. *)
LEMMA InAppended ==
  ASSUME NEW s \in Seq(Threads), NEW t \in Threads, NEW u
  PROVE  In(Append(s, t), u) <=> u = t \/ In(s, u)
<1>. DEFINE n == Len(s)
            a == Append(s, t)
<1>1. n \in Nat /\ Len(a) = n + 1 /\ (\A i \in 1 .. n : a[i] = s[i]) /\ a[n + 1] = t
  BY Appended, Places
<1>. HIDE DEF a
<1>2. ASSUME In(s, u)
      PROVE  In(a, u)
  <2>1. PICK i \in 1 .. n : s[i] = u
    BY <1>2 DEF In
  <2>2. i \in 1 .. n + 1 /\ a[i] = u
    BY <1>1, <2>1
  <2>. QED  BY <1>1, <2>2 DEF In
<1>3. n + 1 \in 1 .. n + 1
  BY <1>1
<1>4. ASSUME In(a, u)
      PROVE  u = t \/ In(s, u)
  <2>1. PICK i \in 1 .. n + 1 : a[i] = u
    BY <1>1, <1>4 DEF In
  <2>2. i = n + 1 \/ i \in 1 .. n
    BY <1>1
  <2>. QED  BY <1>1, <2>1, <2>2 DEF In
<1>. QED  BY <1>1, <1>2, <1>3, <1>4 DEF In, a

LEMMA ForkStep ==
  ASSUME NEW s \in Seq(Threads), InvAt(s), fork, ~EarlyFork
  PROVE  Preserved(s)
<1>1. TypeOK /\ Spells(rq, s) /\ BackLinks(s) /\ Lives(s) /\ IdleAt(s)
  BY DEF InvAt
<1>2. /\ cpu = "thread" /\ curr_thread # idle
      /\ \E t \in Threads : status[t] = "FREE"
      /\ UNCHANGED <<curr_thread, cpu, th_ptr, idle_pc, idle_hit>>
  BY DEF fork, InUserMode, thread_create
<1>3. ~In(s, curr_thread)
  BY <1>1, QueueIs DEF fork, TypeOK
<1>4. PICK t \in Threads : t = FreeSlot /\ status[t] = "FREE"
  BY <1>2, FreeSlotIsFree
<1>5. /\ status' = [status EXCEPT ![t] = "ACTIVE"]
      /\ pending' = pending \ {t}
      /\ rq' = push_rq(rq, t)
  BY <1>4 DEF fork, thread_create
<1>6. ~In(s, t) /\ t # curr_thread
  BY <1>1, <1>4 DEF Lives
<1>7. rq \in Queues /\ curr_thread \in Threads
  BY <1>1 DEF TypeOK
<1>8. Back(rq, s)
  BY <1>1, <1>2 DEF BackLinks
<1>. DEFINE s2 == Append(s, t)
<1>9. Spells(rq', s2) /\ Back(rq', s2) /\ rq' \in Queues /\ s2 \in Seq(Threads)
  BY <1>1, <1>5, <1>6, <1>7, <1>8, PushNew, PushedFields, Appended
<1>10. \A u : In(s2, u) <=> u = t \/ In(s, u)
  BY InAppended
<1>11. s2 = Abstract!MoveToEnd(s, t)
  BY <1>6, NewAtEnd
<1>. HIDE DEF s2
<1>12. TypeOK'
  BY <1>1, <1>2, <1>5, <1>9 DEF TypeOK
<1>13. BackLinks(s2)'
  <2>1. Len(s2) \in Nat
    BY <1>9, Places
  <2>2. BackButLast(rq', s2)
    BY <1>9, <2>1 DEF Back, BackButLast
  <2>. QED  BY <1>9, <2>2 DEF BackLinks
<1>14. Running(s2)'
  BY <1>2, <1>3, <1>6, <1>10 DEF Running
<1>15. Lives(s2)'
  BY <1>1, <1>2, <1>5, <1>6, <1>10 DEF Lives, TypeOK
<1>16. IdleAt(s2)'
  BY <1>2 DEF IdleAt
<1>17. Turn(s, s2)
  BY <1>2, <1>4, <1>5, <1>11 DEF Turn, Create
<1>. QED  BY <1>9, <1>12, <1>13, <1>14, <1>15, <1>16, <1>17 DEF Preserved, InvAt

LEMMA ExecStep ==
  ASSUME NEW s \in Seq(Threads), InvAt(s), thread_exec
  PROVE  Preserved(s)
<1>1. TypeOK /\ Spells(rq, s) /\ BackLinks(s) /\ Lives(s) /\ IdleAt(s)
  BY DEF InvAt
<1>2. /\ cpu = "shell" /\ cpu' = "thread"
      /\ \E t \in Threads : status[t] = "FREE"
      /\ UNCHANGED <<th_ptr, idle_pc, idle_hit>>
  BY DEF thread_exec, thread_create
<1>3. curr_thread = idle /\ Len(s) = 1 /\ s[1] = idle /\ status[idle] = "ACTIVE"
  BY <1>1, <1>2 DEF IdleAt
<1>4. PICK t \in Threads : t = FreeSlot /\ status[t] = "FREE"
  BY <1>2, FreeSlotIsFree
<1>5. /\ status' = [status EXCEPT ![t] = "ACTIVE"]
      /\ pending' = pending \ {t}
      /\ rq' = push_rq(rq, t)
      /\ curr_thread' = t
  BY <1>4 DEF thread_exec, thread_create
<1>6. ~In(s, t) /\ t # idle
  BY <1>1, <1>3, <1>4 DEF Lives
<1>7. rq \in Queues
  BY <1>1 DEF TypeOK
<1>8. Back(rq, s)
  BY <1>1, <1>2 DEF BackLinks
<1>. DEFINE s2 == Append(s, t)
<1>9. Spells(rq', s2) /\ Back(rq', s2) /\ rq' \in Queues /\ s2 \in Seq(Threads)
  BY <1>1, <1>5, <1>6, <1>7, <1>8, PushNew, PushedFields, Appended
<1>10. \A u : In(s2, u) <=> u = t \/ In(s, u)
  BY InAppended
<1>11. s2 = Abstract!MoveToEnd(s, t)
  BY <1>6, NewAtEnd
<1>12. Len(s2) = 2 /\ s2[1] = idle /\ s2[2] = t
  <2>1. Len(s2) = Len(s) + 1 /\ (\A i \in 1 .. Len(s) : s2[i] = s[i]) /\ s2[Len(s) + 1] = t
    BY Appended
  <2>. HIDE DEF s2
  <2>. QED  BY <1>3, <2>1
<1>. HIDE DEF s2
<1>13. TypeOK'
  BY <1>1, <1>2, <1>5, <1>9 DEF TypeOK
<1>14. BackLinks(s2)'
  <2>1. BackButLast(rq', s2)
    BY <1>9, <1>12 DEF Back, BackButLast
  <2>. QED  BY <1>9, <2>1 DEF BackLinks
<1>15. Running(s2)'
  BY <1>2, <1>5, <1>12 DEF Running
<1>16. Lives(s2)'
  <2>1. In(s, idle)
    BY <1>3 DEF In
  <2>. QED  BY <1>1, <1>3, <1>5, <1>6, <1>10, <2>1 DEF Lives, TypeOK
<1>17. IdleAt(s2)'
  BY <1>2, <1>5, <1>6 DEF IdleAt
<1>18. Turn(s, s2)
  BY <1>4, <1>5, <1>11 DEF Turn, Create
<1>. QED  BY <1>9, <1>13, <1>14, <1>15, <1>16, <1>17, <1>18 DEF Preserved, InvAt

(* The threads behind the first. *)
LEMMA InTail ==
  ASSUME NEW s \in Seq(Threads), Len(s) # 0
  PROVE  /\ \A u : In(s, u) <=> u = s[1] \/ In(Tail(s), u)
         /\ Once(s) => ~In(Tail(s), s[1])
<1>. DEFINE n == Len(s)
            a == Tail(s)
<1>1. n \in Nat /\ 1 \in 1 .. n /\ Len(a) = n - 1 /\ \A i \in 1 .. n - 1 : a[i] = s[i + 1]
  BY TailOf, Places
<1>. HIDE DEF a
<1>2. ASSUME NEW u, In(s, u), u # s[1]
      PROVE  In(a, u)
  <2>1. PICK i \in 1 .. n : s[i] = u
    BY <1>2 DEF In
  <2>2. i # 1
    BY <1>2, <2>1
  <2>3. i - 1 \in 1 .. n - 1 /\ i - 1 + 1 = i
    BY <1>1, <2>2
  <2>4. a[i - 1] = u
    BY <1>1, <2>1, <2>3
  <2>. QED  BY <1>1, <2>3, <2>4 DEF In
<1>3. ASSUME NEW u, In(a, u)
      PROVE  \E i \in 1 .. n : i # 1 /\ s[i] = u
  <2>1. PICK i \in 1 .. n - 1 : a[i] = u
    BY <1>1, <1>3 DEF In
  <2>2. i + 1 \in 1 .. n /\ i + 1 # 1 /\ s[i + 1] = u
    BY <1>1, <2>1
  <2>. QED  BY <2>2
<1>4. Once(s) => ~In(a, s[1])
  BY <1>1, <1>3 DEF Once
<1>5. \A u : In(s, u) <=> u = s[1] \/ In(a, u)
  BY <1>1, <1>2, <1>3 DEF In
<1>. QED  BY <1>4, <1>5 DEF a

(* schedule takes the first thread off the queue. *)
LEMMA Popped ==
  ASSUME NEW s \in Seq(Threads), InvAt(s), Len(s) # 0
  PROVE  /\ rq.head = s[1] /\ rq.head # NULL /\ s[1] \in Threads
         /\ pop_rq(rq) \in Queues
         /\ Spells(pop_rq(rq), Tail(s)) /\ Back(pop_rq(rq), Tail(s))
         /\ Tail(s) \in Seq(Threads) /\ Once(Tail(s)) /\ ~In(Tail(s), s[1])
<1>1. TypeOK /\ Spells(rq, s) /\ BackLinks(s) /\ rq \in Queues
  BY DEF InvAt, TypeOK
<1>2. Back(rq, s) \/ Len(s) <= 2
  <2>1. Back(rq, s) \/ Len(s) \in 1 .. 2
    BY <1>1 DEF BackLinks
  <2>2. CASE Len(s) \in 1 .. 2
    <3>. DEFINE n == Len(s)
    <3>. HIDE DEF n
    <3>1. n \in 1 .. 2
      BY <2>2 DEF n
    <3>2. n <= 2
      BY <3>1
    <3>3. Len(s) <= 2
      BY <3>2 DEF n
    <3>. QED  BY <3>3
  <2>. QED  BY <2>1, <2>2
<1>3. Spells(pop_rq(rq), Tail(s)) /\ Back(pop_rq(rq), Tail(s))
  BY <1>1, <1>2, PopFirst
<1>4. rq.head = s[1] /\ s[1] \in Threads /\ rq.head # NULL
  <2>1. 1 \in 1 .. Len(s)
    BY Places
  <2>. QED  BY <1>1, <2>1, Places, ThreadsAreNumbers DEF Spells
<1>5. pop_rq(rq) \in Queues
  BY <1>1, <1>4, PoppedFields
<1>. QED  BY <1>1, <1>3, <1>4, <1>5, TailOf, InTail DEF Spells

LEMMA EmptyQueue ==
  ASSUME NEW s \in Seq(Threads), InvAt(s), schedule, Len(s) = 0
  PROVE  Preserved(s)
<1>1. TypeOK /\ Spells(rq, s) /\ BackLinks(s) /\ Lives(s) /\ IdleAt(s)
  BY DEF InvAt
<1>2. rq.head = NULL
  BY <1>1 DEF Spells
<1>3. /\ cpu = "schedule" /\ cpu' = "thread"
      /\ UNCHANGED <<rq, curr_thread, status, pending, th_ptr, idle_pc, idle_hit>>
  BY <1>2 DEF schedule, Search
<1>4. \A u : ~In(s, u)
  BY DEF In
<1>5. TypeOK' /\ Spells(rq, s)' /\ Lives(s)' /\ IdleAt(s)'
  BY <1>1, <1>3 DEF TypeOK, Spells, Once, In, Lives, IdleAt
<1>6. BackLinks(s)'
  BY <1>1, <1>3 DEF BackLinks, Back, BackButLast, BackAt
<1>7. Running(s)'
  BY <1>4 DEF Running
<1>8. Turn(s, s)
  BY <1>3 DEF Turn, Same
<1>. QED  BY <1>5, <1>6, <1>7, <1>8 DEF Preserved, InvAt

LEMMA PassOverStep ==
  ASSUME NEW s \in Seq(Threads), InvAt(s), schedule, Len(s) # 0, status[s[1]] = "ZOMBIE"
  PROVE  Preserved(s)
<1>1. TypeOK /\ Spells(rq, s) /\ Running(s) /\ Lives(s) /\ IdleAt(s)
  BY DEF InvAt
<1>2. /\ rq.head = s[1] /\ rq.head # NULL /\ s[1] \in Threads
      /\ pop_rq(rq) \in Queues
      /\ Spells(pop_rq(rq), Tail(s)) /\ Back(pop_rq(rq), Tail(s))
      /\ Tail(s) \in Seq(Threads) /\ ~In(Tail(s), s[1])
  BY Popped
<1>3. /\ cpu = "schedule" /\ rq' = push_rq(pop_rq(rq), s[1])
      /\ UNCHANGED <<cpu, curr_thread, status, pending, th_ptr, idle_pc, idle_hit>>
  BY <1>2 DEF schedule, Search
<1>. DEFINE s2 == Append(Tail(s), s[1])
<1>4. /\ Spells(rq', s2) /\ Back(rq', s2) /\ rq' \in Queues /\ s2 \in Seq(Threads)
      /\ Len(s2) = Len(s)
  <2>1. Spells(rq', s2) /\ Back(rq', s2) /\ rq' \in Queues
    BY <1>2, <1>3, PushNew, PushedFields
  <2>2. s2 \in Seq(Threads) /\ Len(s2) = Len(Tail(s)) + 1
    BY <1>2, Appended
  <2>3. Len(Tail(s)) = Len(s) - 1 /\ Len(s) \in Nat
    BY TailOf, Places
  <2>. QED  BY <2>1, <2>2, <2>3
<1>5. \A u : In(s2, u) <=> In(s, u)
  <2>1. \A u : In(s2, u) <=> u = s[1] \/ In(Tail(s), u)
    BY <1>2, InAppended
  <2>. QED  BY <2>1, InTail
<1>6. s2 = Abstract!MoveToEnd(s, s[1])
  BY <1>1, FirstAtEnd DEF Spells
<1>. HIDE DEF s2
<1>7. TypeOK'
  BY <1>1, <1>3, <1>4 DEF TypeOK
<1>8. BackLinks(s2)'
  <2>1. Len(s2) \in Nat
    BY <1>4, Places
  <2>2. BackButLast(rq', s2)
    BY <1>4, <2>1 DEF Back, BackButLast
  <2>. QED  BY <1>4, <2>2 DEF BackLinks
<1>9. Running(s2)'
  <2>1. CASE ~In(s, curr_thread)
    BY <1>3, <1>5, <2>1 DEF Running
  <2>2. CASE status[curr_thread] = "ZOMBIE"
    BY <1>3, <2>2 DEF Running
  <2>3. CASE In(s, curr_thread) /\ status[curr_thread] # "ZOMBIE"
    <3>1. Len(s) \in 1 .. 2 /\ \A i \in 1 .. Len(s) : s[i] \in {idle, curr_thread}
      BY <1>1, <2>3 DEF Running
    <3>2. \A u : In(s, u) => u \in {idle, curr_thread}
      BY <3>1 DEF In
    <3>3. \A i \in 1 .. Len(s2) : In(s2, s2[i])
      BY DEF In
    <3>4. \A i \in 1 .. Len(s2) : s2[i] \in {idle, curr_thread}
      BY <1>5, <3>2, <3>3
    <3>. QED  BY <1>3, <1>4, <3>1, <3>4 DEF Running
  <2>. QED  BY <2>1, <2>2, <2>3
<1>10. Lives(s2)'
  BY <1>1, <1>3, <1>5 DEF Lives
<1>11. IdleAt(s2)'
  BY <1>1, <1>3 DEF IdleAt
<1>12. Turn(s, s2)
  BY <1>3, <1>6 DEF Turn, PassOver
<1>. QED  BY <1>4, <1>7, <1>8, <1>9, <1>10, <1>11, <1>12 DEF Preserved, InvAt

(* The thread that loses the CPU is dead: it does not join the queue. *)
LEMMA DispatchFromDead ==
  ASSUME NEW s \in Seq(Threads), InvAt(s), schedule, Len(s) # 0, status[s[1]] # "ZOMBIE",
         status[curr_thread] = "ZOMBIE"
  PROVE  Preserved(s)
<1>1. TypeOK /\ Lives(s) /\ curr_thread \in Threads
  BY DEF InvAt, TypeOK
<1>2. /\ rq.head = s[1] /\ rq.head # NULL /\ s[1] \in Threads
      /\ pop_rq(rq) \in Queues
      /\ Spells(pop_rq(rq), Tail(s)) /\ Back(pop_rq(rq), Tail(s))
      /\ Tail(s) \in Seq(Threads) /\ ~In(Tail(s), s[1])
  BY Popped
<1>3. /\ cpu = "schedule" /\ cpu' = "thread"
      /\ rq' = pop_rq(rq) /\ curr_thread' = s[1]
      /\ UNCHANGED <<status, pending, th_ptr, idle_pc, idle_hit>>
  BY <1>2 DEF schedule, Search
<1>4. \A u : In(s, u) <=> u = s[1] \/ In(Tail(s), u)
  BY InTail
<1>5. status[s[1]] = "ACTIVE"
  <2>1. In(s, s[1])
    BY <1>4
  <2>. QED  BY <1>1, <1>2, <2>1, StatusSettles DEF Lives
<1>6. TypeOK'
  BY <1>1, <1>2, <1>3 DEF TypeOK
<1>7. BackLinks(Tail(s))'
  <2>1. Len(Tail(s)) \in Nat
    BY <1>2, Places
  <2>2. BackButLast(rq', Tail(s))
    BY <1>2, <1>3, <2>1 DEF Back, BackButLast
  <2>. QED  BY <1>2, <1>3, <2>2 DEF BackLinks
<1>8. Running(Tail(s))'
  BY <1>2, <1>3 DEF Running
<1>9. Lives(Tail(s))'
  BY <1>1, <1>2, <1>3, <1>4, <1>5 DEF Lives
<1>10. IdleAt(Tail(s))'
  BY <1>3, <1>5 DEF IdleAt
<1>11. Turn(s, Tail(s))
  BY <1>3 DEF Turn, Dispatch
<1>. QED  BY <1>2, <1>3, <1>6, <1>7, <1>8, <1>9, <1>10, <1>11 DEF Preserved, InvAt

(* It is alive and joins the queue. *)
LEMMA DispatchFromLive ==
  ASSUME NEW s \in Seq(Threads), InvAt(s), schedule, Len(s) # 0, status[s[1]] # "ZOMBIE",
         status[curr_thread] # "ZOMBIE", ~In(Tail(s), curr_thread)
  PROVE  Preserved(s)
<1>1. TypeOK /\ Running(s) /\ Lives(s)
  BY DEF InvAt
<1>2. /\ rq.head = s[1] /\ rq.head # NULL /\ s[1] \in Threads
      /\ pop_rq(rq) \in Queues
      /\ Spells(pop_rq(rq), Tail(s)) /\ Back(pop_rq(rq), Tail(s))
      /\ Tail(s) \in Seq(Threads) /\ ~In(Tail(s), s[1])
  BY Popped
<1>3. /\ cpu = "schedule" /\ cpu' = "thread"
      /\ rq' = push_rq(pop_rq(rq), curr_thread) /\ curr_thread' = s[1]
      /\ UNCHANGED <<status, pending, th_ptr, idle_pc, idle_hit>>
  BY <1>2 DEF schedule, Search
<1>4. PICK c \in Threads : c = curr_thread
  BY <1>1 DEF TypeOK
<1>. DEFINE s2 == Append(Tail(s), c)
<1>5. /\ Spells(rq', s2) /\ Back(rq', s2) /\ rq' \in Queues /\ s2 \in Seq(Threads)
      /\ Len(s2) = Len(s) /\ s2[Len(s2)] = c
  <2>1. Spells(rq', s2) /\ Back(rq', s2) /\ rq' \in Queues
    BY <1>2, <1>3, <1>4, PushNew, PushedFields
  <2>2. s2 \in Seq(Threads) /\ Len(s2) = Len(Tail(s)) + 1 /\ s2[Len(Tail(s)) + 1] = c
    BY <1>2, Appended
  <2>3. Len(Tail(s)) = Len(s) - 1 /\ Len(s) \in Nat
    BY TailOf, Places
  <2>. QED  BY <2>1, <2>2, <2>3
<1>6. \A u : In(s2, u) <=> u = c \/ In(Tail(s), u)
  BY <1>2, InAppended
<1>7. \A u : In(s, u) <=> u = s[1] \/ In(Tail(s), u)
  BY InTail
<1>8. s2 = Abstract!MoveToEnd(Tail(s), c)
  BY <1>2, <1>4, NewAtEnd
<1>9. status[s[1]] = "ACTIVE" /\ status[c] = "ACTIVE"
  <2>1. In(s, s[1])
    BY <1>7
  <2>. QED  BY <1>1, <1>2, <1>4, <2>1, StatusSettles DEF Lives
<1>. HIDE DEF s2
<1>10. TypeOK'
  BY <1>1, <1>2, <1>3, <1>5 DEF TypeOK
<1>11. BackLinks(s2)'
  <2>1. Len(s2) \in Nat
    BY <1>5, Places
  <2>2. BackButLast(rq', s2)
    BY <1>5, <2>1 DEF Back, BackButLast
  <2>. QED  BY <1>5, <2>2 DEF BackLinks
<1>12. Running(s2)'
  <2>1. CASE c # s[1]
    BY <1>2, <1>3, <1>6, <2>1 DEF Running
  <2>2. CASE c = s[1]
    <3>1. Len(s) \in 1 .. 2 /\ \A i \in 1 .. Len(s) : s[i] \in {idle, c}
      BY <1>1, <1>4, <1>7, <1>9, <2>2 DEF Running
    <3>2. \A u : In(s, u) => u \in {idle, c}
      BY <3>1 DEF In
    <3>3. \A i \in 1 .. Len(s2) : In(s2, s2[i])
      BY DEF In
    <3>4. \A i \in 1 .. Len(s2) : s2[i] \in {idle, c}
      BY <1>6, <1>7, <3>2, <3>3
    <3>. QED  BY <1>3, <1>5, <2>2, <3>1, <3>4 DEF Running
  <2>. QED  BY <2>1, <2>2
<1>13. Lives(s2)'
  BY <1>1, <1>2, <1>3, <1>4, <1>6, <1>7, <1>9 DEF Lives
<1>14. IdleAt(s2)'
  BY <1>3, <1>9 DEF IdleAt
<1>15. Turn(s, s2)
  BY <1>3, <1>4, <1>8 DEF Turn, Dispatch
<1>. QED  BY <1>5, <1>10, <1>11, <1>12, <1>13, <1>14, <1>15 DEF Preserved, InvAt

(* It was queued behind idle: the first timer interrupt after thread_exec. *)
LEMMA DispatchFirstTime ==
  ASSUME NEW s \in Seq(Threads), InvAt(s), schedule, Len(s) # 0, status[s[1]] # "ZOMBIE",
         status[curr_thread] # "ZOMBIE", In(Tail(s), curr_thread)
  PROVE  Preserved(s)
<1>1. TypeOK /\ Running(s) /\ Lives(s)
  BY DEF InvAt
<1>2. /\ rq.head = s[1] /\ rq.head # NULL /\ s[1] \in Threads
      /\ pop_rq(rq) \in Queues
      /\ Spells(pop_rq(rq), Tail(s)) /\ Back(pop_rq(rq), Tail(s))
      /\ Tail(s) \in Seq(Threads) /\ Once(Tail(s)) /\ ~In(Tail(s), s[1])
  BY Popped
<1>3. /\ cpu = "schedule" /\ cpu' = "thread"
      /\ rq' = push_rq(pop_rq(rq), curr_thread) /\ curr_thread' = s[1]
      /\ UNCHANGED <<status, pending, th_ptr, idle_pc, idle_hit>>
  BY <1>2 DEF schedule, Search
<1>4. \A u : In(s, u) <=> u = s[1] \/ In(Tail(s), u)
  BY InTail
<1>5. status[s[1]] = "ACTIVE" /\ status[curr_thread] = "ACTIVE"
  <2>1. In(s, s[1]) /\ curr_thread \in Threads
    BY <1>1, <1>4 DEF TypeOK
  <2>. QED  BY <1>1, <1>2, <2>1, StatusSettles DEF Lives
<1>6. Len(s) \in 1 .. 2 /\ \A i \in 1 .. Len(s) : s[i] \in {idle, curr_thread}
  BY <1>1, <1>4, <1>5 DEF Running
<1>7. s[1] = idle
  <2>1. 1 \in 1 .. Len(s) /\ s[1] # curr_thread
    BY <1>2, <1>6
  <2>. QED  BY <1>6, <2>1
<1>8. Len(Tail(s)) = 1 /\ Tail(s)[1] = curr_thread
  <2>1. Len(Tail(s)) = Len(s) - 1
    BY TailOf
  <2>2. PICK i \in 1 .. Len(Tail(s)) : Tail(s)[i] = curr_thread
    BY DEF In
  <2>3. i = 1 /\ Len(s) - 1 = 1
    BY <1>6, <2>1
  <2>. QED  BY <2>1, <2>2, <2>3
<1>. DEFINE a == Tail(s)
<1>. HIDE DEF a
<1>0. /\ Spells(pop_rq(rq), a) /\ Back(pop_rq(rq), a)
      /\ a \in Seq(Threads) /\ Once(a) /\ ~In(a, s[1])
      /\ Len(a) = 1 /\ a[1] = curr_thread
      /\ \A u : In(s, u) <=> u = s[1] \/ In(a, u)
  BY <1>2, <1>4, <1>8 DEF a
<1>9. Spells(rq', a) /\ BackButLast(rq', a) /\ rq' \in Queues
  <2>1. BackButLast(pop_rq(rq), a)
    BY <1>0 DEF Back, BackButLast
  <2>2. a[Len(a)] = curr_thread /\ curr_thread \in Threads
    BY <1>0, <1>1 DEF TypeOK
  <2>3. Spells(push_rq(pop_rq(rq), a[Len(a)]), a) /\ BackButLast(push_rq(pop_rq(rq), a[Len(a)]), a)
    <3>1. /\ a \in Seq(Threads) /\ Len(a) # 0 /\ Spells(pop_rq(rq), a)
          /\ pop_rq(rq) \in Queues
      BY <1>0, <1>2
    <3>. QED  BY <2>1, <3>1, PushLast
  <2>. QED  BY <1>2, <1>3, <2>2, <2>3, PushedFields
<1>10. TypeOK'
  BY <1>1, <1>2, <1>3, <1>9 DEF TypeOK
<1>11. BackLinks(a)'
  BY <1>0, <1>3, <1>5, <1>7, <1>9 DEF BackLinks
<1>12. Running(a)'
  BY <1>0, <1>3 DEF Running
<1>13. Lives(a)'
  <2>1. In(a, curr_thread)
    BY <1>0 DEF In
  <2>. QED  BY <1>0, <1>1, <1>3, <1>5, <2>1 DEF Lives
<1>14. IdleAt(a)'
  BY <1>3, <1>5 DEF IdleAt
<1>15. Turn(s, a)
  <2>1. Abstract!MoveToEnd(a, curr_thread) = a
    <3>1. a \in Seq(Threads) /\ Once(a) /\ Len(a) # 0 /\ a[Len(a)] = curr_thread
      BY <1>0
    <3>2. Abstract!MoveToEnd(a, a[Len(a)]) = a
      BY <3>1, LastAtEnd
    <3>. QED  BY <3>1, <3>2
  <2>. QED  BY <1>3, <1>5, <2>1 DEF Turn, Dispatch, a
<1>. QED  BY <1>0, <1>9, <1>10, <1>11, <1>12, <1>13, <1>14, <1>15 DEF Preserved, InvAt

LEMMA ScheduleStep ==
  ASSUME NEW s \in Seq(Threads), InvAt(s), schedule
  PROVE  Preserved(s)
BY EmptyQueue, PassOverStep, DispatchFromDead, DispatchFromLive, DispatchFirstTime

(* What kill_zombies visits next waits in the queue too. *)
LEMMA SuccessorWaits ==
  ASSUME NEW s \in Seq(Threads), TypeOK, Spells(rq, s), NEW p \in 1 .. Len(s)
  PROVE  /\ rq.next[s[p]] \in Links
         /\ p = Len(s) => rq.next[s[p]] = NULL
         /\ p # Len(s) => p + 1 \in 1 .. Len(s) /\ rq.next[s[p]] = s[p + 1]
<1>1. s[p] \in Threads /\ Len(s) \in Nat
  BY Places
<1>2. rq.next[s[p]] \in Links
  BY <1>1 DEF TypeOK, Queues
<1>3. rq.next[s[p]] = IF p = Len(s) THEN NULL ELSE s[p + 1]
  BY DEF Spells
<1>4. p # Len(s) => p + 1 \in 1 .. Len(s)
  BY <1>1
<1>. QED  BY <1>2, <1>3, <1>4

(* The threads that stay. *)
LEMMA InRemoved ==
  ASSUME NEW s \in Seq(Threads), Once(s), NEW p \in 1 .. Len(s)
  PROVE  /\ RemoveAt(s, p) \in Seq(Threads)
         /\ \A u : In(RemoveAt(s, p), u) <=> In(s, u) /\ u # s[p]
<1>. DEFINE n == Len(s)
            a == RemoveAt(s, p)
<1>1. /\ n \in Nat /\ a \in Seq(Threads) /\ Len(a) = n - 1
      /\ \A i \in 1 .. n - 1 : a[i] = IF i < p THEN s[i] ELSE s[i + 1]
  BY Removed, Places
<1>. HIDE DEF a
<1>2. ASSUME NEW u, In(a, u)
      PROVE  In(s, u) /\ u # s[p]
  <2>1. PICK i \in 1 .. n - 1 : a[i] = u
    BY <1>1, <1>2 DEF In
  <2>. DEFINE k == IF i < p THEN i ELSE i + 1
  <2>2. k \in 1 .. n /\ k # p /\ s[k] = u
    BY <1>1, <2>1
  <2>. QED  BY <2>2 DEF In, Once
<1>3. ASSUME NEW u, In(s, u), u # s[p]
      PROVE  In(a, u)
  <2>1. PICK i \in 1 .. n : s[i] = u
    BY <1>3 DEF In
  <2>2. CASE i < p
    <3>1. i \in 1 .. n - 1 /\ a[i] = u
      BY <1>1, <2>1, <2>2
    <3>. QED  BY <1>1, <3>1 DEF In
  <2>3. CASE ~(i < p)
    <3>1. i # p
      BY <1>3, <2>1
    <3>2. i - 1 \in 1 .. n - 1 /\ ~(i - 1 < p) /\ i - 1 + 1 = i
      BY <1>1, <2>3, <3>1
    <3>3. a[i - 1] = u
      BY <1>1, <2>1, <3>2
    <3>. QED  BY <1>1, <3>2, <3>3 DEF In
  <2>. QED  BY <2>2, <2>3
<1>. QED  BY <1>1, <1>2, <1>3 DEF a

(* While kill_zombies visits a dead thread, every back link is right. *)
LEMMA BackWhileVisiting ==
  ASSUME NEW s \in Seq(Threads), InvAt(s), cpu = "kill_zombies",
         NEW p \in 1 .. Len(s), status[s[p]] = "ZOMBIE"
  PROVE  Back(rq, s)
<1>1. SUFFICES ASSUME ~Back(rq, s)
               PROVE  FALSE
  OBVIOUS
<1>2. Len(s) = 1 /\ status[s[1]] = "ACTIVE"
  BY <1>1 DEF InvAt, BackLinks
<1>3. p = 1
  BY <1>2
<1>. QED  BY <1>2, <1>3

LEMMA VisitLive ==
  ASSUME NEW s \in Seq(Threads), InvAt(s), Visit, status[th_ptr] # "ZOMBIE"
  PROVE  Preserved(s)
<1>1. TypeOK /\ Spells(rq, s) /\ IdleAt(s)
  BY DEF InvAt
<1>2. cpu = "kill_zombies" /\ th_ptr # NULL /\ curr_thread = idle /\ In(s, th_ptr)
  BY <1>1 DEF Visit, IdleAt
<1>3. PICK p \in 1 .. Len(s) : s[p] = th_ptr
  BY <1>2 DEF In
<1>4. th_ptr' \in Links /\ (th_ptr' = NULL \/ In(s, th_ptr'))
  BY <1>1, <1>3, SuccessorWaits DEF Visit, In
<1>5. Quiet(s)
  BY <1>1, <1>2, <1>4 DEF Visit, Quiet, TypeOK
<1>. QED  BY <1>5, QuietStep

LEMMA VisitDead ==
  ASSUME NEW s \in Seq(Threads), InvAt(s), Visit, status[th_ptr] = "ZOMBIE"
  PROVE  Preserved(s)
<1>1. TypeOK /\ Spells(rq, s) /\ BackLinks(s) /\ Running(s) /\ Lives(s) /\ IdleAt(s)
  BY DEF InvAt
<1>2. /\ cpu = "kill_zombies" /\ th_ptr # NULL /\ curr_thread = idle /\ In(s, th_ptr)
      /\ status[idle] = "ACTIVE"
  BY <1>1 DEF Visit, IdleAt
<1>3. PICK p \in 1 .. Len(s) : s[p] = th_ptr
  BY <1>2 DEF In
<1>4. PICK t \in Threads : t = th_ptr
  BY <1>3, Places
<1>5. /\ rq' = Unlink(rq, t)
      /\ status' = [status EXCEPT ![t] = "FREE"]
      /\ th_ptr' = rq.next[t]
      /\ UNCHANGED <<curr_thread, pending, cpu, idle_pc, idle_hit>>
  BY <1>4 DEF Visit
<1>6. t # idle /\ s[p] = t /\ status[t] = "ZOMBIE"
  BY <1>2, <1>3, <1>4
<1>7. ~In(s, idle)
  <2>1. SUFFICES ASSUME In(s, idle)
                 PROVE  FALSE
    OBVIOUS
  <2>2. \A i \in 1 .. Len(s) : s[i] \in {idle, curr_thread}
    BY <1>1, <1>2, <2>1 DEF Running
  <2>. QED  BY <1>2, <1>6, <2>2
<1>8. Back(rq, s)
  BY <1>2, <1>6, BackWhileVisiting
<1>. DEFINE s2 == RemoveAt(s, p)
<1>9. /\ s2 \in Seq(Threads) /\ Spells(rq', s2) /\ Back(rq', s2) /\ rq' \in Queues
      /\ \A u : In(s2, u) <=> In(s, u) /\ u # t
  <2>1. rq \in Queues /\ Once(s)
    BY <1>1 DEF TypeOK, Spells
  <2>2. Spells(rq', s2) /\ Back(rq', s2)
    BY <1>1, <1>5, <1>6, <1>8, <2>1, UnlinkAt
  <2>3. rq' \in Queues
    BY <1>5, <2>1, UnlinkedFields
  <2>. QED  BY <1>6, <2>1, <2>2, <2>3, InRemoved
<1>10. s2 = Abstract!RemoveFirst(s, t)
  BY <1>1, <1>6, RemovedThread DEF Spells
<1>. HIDE DEF s2
<1>11. th_ptr' \in Links /\ (th_ptr' = NULL \/ In(s2, th_ptr'))
  <2>1. /\ rq.next[t] \in Links
        /\ p = Len(s) => rq.next[t] = NULL
        /\ p # Len(s) => p + 1 \in 1 .. Len(s) /\ rq.next[t] = s[p + 1]
    BY <1>1, <1>6, SuccessorWaits
  <2>2. CASE p = Len(s)
    BY <1>5, <2>1, <2>2
  <2>3. CASE p # Len(s)
    <3>1. p + 1 \in 1 .. Len(s) /\ p + 1 # p
      BY <2>1, <2>3
    <3>2. s[p + 1] # t
      BY <1>1, <1>6, <3>1 DEF Spells, Once
    <3>3. In(s, s[p + 1])
      BY <3>1 DEF In
    <3>. QED  BY <1>5, <1>9, <2>1, <2>3, <3>2, <3>3
  <2>. QED  BY <2>2, <2>3
<1>12. TypeOK'
  BY <1>1, <1>5, <1>9, <1>11 DEF TypeOK
<1>13. BackLinks(s2)'
  <2>1. Len(s2) \in Nat
    BY <1>9, Places
  <2>2. BackButLast(rq', s2)
    BY <1>9, <2>1 DEF Back, BackButLast
  <2>. QED  BY <1>9, <2>2 DEF BackLinks
<1>14. Running(s2)'
  BY <1>2, <1>5, <1>7, <1>9 DEF Running
<1>15. Lives(s2)'
  BY <1>1, <1>2, <1>5, <1>6, <1>9 DEF Lives, TypeOK
<1>16. IdleAt(s2)'
  BY <1>1, <1>2, <1>5, <1>6, <1>11, ThreadsAreNumbers DEF IdleAt, TypeOK
<1>17. Turn(s, s2)
  BY <1>2, <1>4, <1>5, <1>6, <1>10 DEF Turn, Reap
<1>. QED  BY <1>9, <1>12, <1>13, <1>14, <1>15, <1>16, <1>17 DEF Preserved, InvAt

(* A thread that dies by a signal joins the queue. *)
LEMMA SignalNew ==
  ASSUME NEW s \in Seq(Threads), InvAt(s), check_signal, ~In(s, curr_thread)
  PROVE  Preserved(s)
<1>1. TypeOK /\ Spells(rq, s) /\ BackLinks(s) /\ Lives(s) /\ IdleAt(s)
  BY DEF InvAt
<1>2. PICK c \in Threads : c = curr_thread
  BY <1>1 DEF TypeOK
<1>3. /\ cpu = "thread" /\ c # idle /\ cpu' = "schedule"
      /\ pending' = pending \ {c}
      /\ status' = [status EXCEPT ![c] = "ZOMBIE"]
      /\ rq' = push_rq([rq EXCEPT !.prev[c] = NULL, !.next[c] = NULL], c)
      /\ UNCHANGED <<curr_thread, th_ptr, idle_pc, idle_hit>>
  BY <1>2 DEF check_signal, signal_default_handler
<1>4. rq \in Queues /\ rq.next[c] = NULL /\ rq.prev[c] = NULL
  BY <1>1, <1>2 DEF TypeOK, Spells
<1>5. [rq EXCEPT !.prev[c] = NULL, !.next[c] = NULL] = rq
  BY <1>4 DEF Queues
<1>6. Back(rq, s)
  BY <1>1, <1>2, <1>3 DEF BackLinks
<1>. DEFINE s2 == Append(s, c)
<1>7. s2 \in Seq(Threads) /\ Spells(rq', s2) /\ Back(rq', s2) /\ rq' \in Queues
  BY <1>1, <1>2, <1>3, <1>4, <1>5, <1>6, PushNew, PushedFields, Appended
<1>8. \A u : In(s2, u) <=> u = c \/ In(s, u)
  BY InAppended
<1>9. s2 = Abstract!MoveToEnd(s, c)
  BY <1>2, NewAtEnd
<1>. HIDE DEF s2
<1>10. TypeOK'
  BY <1>1, <1>3, <1>7 DEF TypeOK
<1>11. BackLinks(s2)'
  <2>1. Len(s2) \in Nat
    BY <1>7, Places
  <2>2. BackButLast(rq', s2)
    BY <1>7, <2>1 DEF Back, BackButLast
  <2>. QED  BY <1>7, <2>2 DEF BackLinks
<1>12. Running(s2)'
  BY <1>1, <1>2, <1>3 DEF Running, TypeOK
<1>13. Lives(s2)'
  BY <1>1, <1>2, <1>3, <1>8 DEF Lives, TypeOK
<1>14. IdleAt(s2)'
  BY <1>2, <1>3 DEF IdleAt
<1>15. Turn(s, s2)
  <2>1. status[c] # "FREE"
    BY <1>1, <1>2 DEF Lives
  <2>. QED  BY <1>2, <1>3, <1>9, <2>1 DEF Turn, Die
<1>. QED  BY <1>7, <1>10, <1>11, <1>12, <1>13, <1>14, <1>15 DEF Preserved, InvAt

(* It was in the queue: no timer interrupt has come since thread_exec. *)
LEMMA SignalAgain ==
  ASSUME NEW s \in Seq(Threads), InvAt(s), check_signal, In(s, curr_thread)
  PROVE  Preserved(s)
<1>1. TypeOK /\ Spells(rq, s) /\ BackLinks(s) /\ Running(s) /\ Lives(s) /\ IdleAt(s)
  BY DEF InvAt
<1>2. PICK c \in Threads : c = curr_thread
  BY <1>1 DEF TypeOK
<1>. DEFINE q == [rq EXCEPT !.prev[c] = NULL, !.next[c] = NULL]
<1>3. /\ cpu = "thread" /\ c # idle /\ cpu' = "schedule"
      /\ pending' = pending \ {c}
      /\ status' = [status EXCEPT ![c] = "ZOMBIE"]
      /\ rq' = push_rq(q, c)
      /\ UNCHANGED <<curr_thread, th_ptr, idle_pc, idle_hit>>
  BY <1>2 DEF check_signal, signal_default_handler
<1>4. /\ rq \in Queues /\ q \in Queues /\ q.head = rq.head /\ q.tail = rq.tail
      /\ q.next = [rq.next EXCEPT ![c] = NULL]
      /\ q.prev = [rq.prev EXCEPT ![c] = NULL]
  <2>1. rq \in Queues /\ NULL \in Links
    BY <1>1 DEF TypeOK, Links
  <2>. QED  BY <2>1 DEF Queues
<1>5. /\ Len(s) \in 1 .. 2 /\ s[Len(s)] = c
  BY <1>1, <1>2, <1>3 DEF Running
<1>6. /\ Once(s) /\ Len(s) \in 1 .. Len(s) /\ Len(s) # 0
      /\ \A i \in 1 .. Len(s) : s[i] \in Threads
  <2>. DEFINE n == Len(s)
  <2>1. n \in 1 .. 2
    BY <1>5
  <2>. HIDE DEF n
  <2>2. n \in 1 .. n /\ n # 0
    BY <2>1
  <2>. QED  BY <1>1, <2>2, Places DEF Spells, n
<1>. HIDE DEF q
<1>7. Spells(q, s)
  <2>1. \A i \in 1 .. Len(s) : q.next[s[i]] = IF i = Len(s) THEN NULL ELSE s[i + 1]
    <3>1. ASSUME NEW i \in 1 .. Len(s)
          PROVE  q.next[s[i]] = IF i = Len(s) THEN NULL ELSE s[i + 1]
      <4>1. rq.next[s[i]] = IF i = Len(s) THEN NULL ELSE s[i + 1]
        BY <1>1 DEF Spells
      <4>2. s[i] = c <=> i = Len(s)
        BY <1>5, <1>6 DEF Once
      <4>3. q.next[s[i]] = IF s[i] = c THEN NULL ELSE rq.next[s[i]]
        BY <1>4, <1>6 DEF Queues
      <4>. QED  BY <4>1, <4>2, <4>3
    <3>. QED  BY <3>1
  <2>2. ASSUME NEW u \in Threads, ~In(s, u)
        PROVE  q.next[u] = NULL /\ q.prev[u] = NULL
    <3>1. rq.next[u] = NULL /\ rq.prev[u] = NULL
      BY <1>1, <2>2 DEF Spells
    <3>. QED  BY <1>4, <3>1 DEF Queues
  <2>. QED  BY <1>1, <1>4, <2>1, <2>2 DEF Spells
<1>8. BackButLast(q, s)
  <2>1. ASSUME NEW i \in 1 .. Len(s) - 1
        PROVE  q.prev[s[i]] = IF i = 1 THEN NULL ELSE s[i - 1]
    <3>1. rq.prev[s[i]] = IF i = 1 THEN NULL ELSE s[i - 1]
      BY <1>1 DEF BackLinks, BackButLast, BackAt
    <3>2. i \in 1 .. Len(s) /\ i # Len(s)
      BY <1>5
    <3>3. s[i] # c /\ s[i] \in Threads
      BY <1>5, <1>6, <3>2 DEF Once
    <3>. QED  BY <1>4, <3>1, <3>3 DEF Queues
  <2>. QED  BY <2>1 DEF BackButLast, BackAt
<1>9. Spells(rq', s) /\ BackButLast(rq', s) /\ rq' \in Queues
  <2>1. Spells(push_rq(q, s[Len(s)]), s) /\ BackButLast(push_rq(q, s[Len(s)]), s)
    BY <1>4, <1>6, <1>7, <1>8, PushLast
  <2>. QED  BY <1>3, <1>4, <1>5, <2>1, PushedFields
<1>10. TypeOK'
  BY <1>1, <1>3, <1>9 DEF TypeOK
<1>11. BackLinks(s)'
  BY <1>1, <1>2, <1>3, <1>5, <1>9 DEF BackLinks, TypeOK
<1>12. Running(s)'
  BY <1>1, <1>2, <1>3 DEF Running, TypeOK
<1>13. Lives(s)'
  BY <1>1, <1>2, <1>3 DEF Lives, TypeOK
<1>14. IdleAt(s)'
  BY <1>2, <1>3 DEF IdleAt
<1>15. Turn(s, s)
  <2>1. status[c] # "FREE"
    BY <1>1, <1>2 DEF Lives
  <2>. QED  BY <1>2, <1>3, <2>1 DEF Turn, Die
<1>. QED  BY <1>9, <1>10, <1>11, <1>12, <1>13, <1>14, <1>15 DEF Preserved, InvAt
-----------------------------------------------------------------------------
(* The theorems, for programs that do not fork before their first timer    *)
(* interrupt.                                                              *)

LEMMA NextPreserves ==
  ASSUME NEW s \in Seq(Threads), InvAt(s), [Next]_vars, ~EarlyFork
  PROVE  Preserved(s)
<1>1. CASE thread_exec
  BY <1>1, ExecStep
<1>2. CASE schedule
  BY <1>2, ScheduleStep
<1>3. CASE Visit
  BY <1>3, VisitLive, VisitDead
<1>4. CASE fork
  BY <1>4, ForkStep
<1>5. CASE check_signal
  BY <1>5, SignalNew, SignalAgain
<1>6. CASE \/ Tick \/ kill_zombies \/ VisitedAll \/ IdleSchedules \/ exit \/ thread_exit
           \/ \E pid \in Killable : kill(pid) \/ signal_kill(pid)
  BY <1>6, QuietActions
<1>7. CASE UNCHANGED vars
  <2>. USE <1>7 DEF vars, InvAt
  <2>1. TypeOK' /\ Spells(rq, s)' /\ Lives(s)' /\ IdleAt(s)'
    BY DEF TypeOK, Spells, Once, In, Lives, IdleAt
  <2>2. BackLinks(s)' /\ Running(s)'
    BY DEF BackLinks, Back, BackButLast, BackAt, Running, In
  <2>3. Turn(s, s)
    BY DEF Turn, Same
  <2>. QED  BY <2>1, <2>2, <2>3 DEF Preserved
<1>. QED  BY <1>1, <1>2, <1>3, <1>4, <1>5, <1>6, <1>7 DEF Next

LEMMA InvIsInductive ==
  ASSUME Inv, [Next]_vars, ~EarlyFork
  PROVE  Inv'
<1>1. PICK s \in Seq(Threads) : InvAt(s)
  BY DEF Inv
<1>2. PICK s2 \in Seq(Threads) : InvAt(s2)'
  BY <1>1, NextPreserves DEF Preserved
<1>. QED  BY <1>2 DEF Inv

LEMMA InvImpliesWellFormed ==
  ASSUME Inv
  PROVE  QueueWellFormed
<1>1. PICK s \in Seq(Threads) : InvAt(s)
  BY DEF Inv
<1>2. TypeOK /\ Spells(rq, s) /\ BackLinks(s) /\ rq \in Queues
  BY <1>1 DEF InvAt, TypeOK
<1>3. /\ Queue(rq) = s /\ (\A t : t \in Members(rq) <=> In(s, t))
      /\ Cardinality(Members(rq)) = Len(s)
  BY <1>2, QueueIs, AsManyMembers
<1>4. Len(s) \in Nat /\ \A i \in 1 .. Len(s) : s[i] \in Threads /\ s[i] # NULL
  BY Places, ThreadsAreNumbers
<1>5. Len(s) # 0 => 1 \in 1 .. Len(s) /\ Len(s) \in 1 .. Len(s)
  BY <1>4
<1>6. rq.head = NULL <=> rq.tail = NULL
  BY <1>2, <1>4, <1>5 DEF Spells
<1>7. ASSUME rq.head # NULL
      PROVE  Queue(rq)[Len(Queue(rq))] = rq.tail
  BY <1>2, <1>3, <1>7 DEF Spells
<1>8. ASSUME rq.head # NULL, cpu # "schedule"
      PROVE  /\ \A t \in Members(rq) : rq.next[t] # NULL => rq.prev[rq.next[t]] = t
             /\ status[rq.head] = "ZOMBIE" => rq.prev[rq.head] = NULL
  <2>0. Len(s) # 0 /\ rq.head = s[1]
    BY <1>2, <1>8 DEF Spells
  <2>1. ASSUME NEW t \in Members(rq), rq.next[t] # NULL
        PROVE  rq.prev[rq.next[t]] = t
    <3>1. PICK i \in 1 .. Len(s) : s[i] = t
      BY <1>3 DEF In
    <3>2. i # Len(s) /\ i + 1 \in 1 .. Len(s) /\ rq.next[t] = s[i + 1]
      BY <1>2, <2>1, <3>1, SuccessorWaits
    <3>3. Back(rq, s)
      <4>1. SUFFICES ASSUME ~Back(rq, s)
                     PROVE  FALSE
        OBVIOUS
      <4>2. Len(s) = 1
        BY <1>2, <1>8, <4>1 DEF BackLinks
      <4>. QED  BY <3>2, <4>2
    <3>4. rq.prev[s[i + 1]] = IF i + 1 = 1 THEN NULL ELSE s[i + 1 - 1]
      BY <3>2, <3>3 DEF Back, BackAt
    <3>5. i + 1 # 1 /\ i + 1 - 1 = i
      BY <1>4
    <3>. QED  BY <3>1, <3>2, <3>4, <3>5
  <2>2. ASSUME status[rq.head] = "ZOMBIE"
        PROVE  rq.prev[rq.head] = NULL
    <3>1. Back(rq, s)
      BY <1>2, <1>8, <2>0, <2>2 DEF BackLinks
    <3>. QED  BY <1>5, <2>0, <3>1 DEF Back, BackAt
  <2>. QED  BY <2>1, <2>2
<1>. QED  BY <1>3, <1>6, <1>7, <1>8 DEF QueueWellFormed

LEMMA InvImpliesNoneLost ==
  ASSUME Inv
  PROVE  NoThreadLost
<1>1. PICK s \in Seq(Threads) : InvAt(s)
  BY DEF Inv
<1>2. TypeOK /\ Spells(rq, s) /\ Lives(s) /\ rq \in Queues
  BY <1>1 DEF InvAt, TypeOK
<1>3. \A t : t \in Members(rq) <=> In(s, t)
  BY <1>2, QueueIs
<1>. QED  BY <1>2, <1>3 DEF Lives, NoThreadLost

LEMMA StepImplements ==
  ASSUME Inv, [Next]_vars, ~EarlyFork
  PROVE  [Abstract!Next]_Abstract!avars
<1>1. PICK s \in Seq(Threads) : InvAt(s)
  BY DEF Inv
<1>2. PICK s2 \in Seq(Threads) : InvAt(s2)' /\ Turn(s, s2)
  BY <1>1, NextPreserves DEF Preserved
<1>3. TypeOK /\ Queue(rq) = s
  BY <1>1, QueueIs DEF InvAt, TypeOK
<1>4. Queue(rq)' = s2
  <2>1. rq' \in Queues /\ Spells(rq', s2)
    BY <1>2 DEF InvAt, TypeOK
  <2>2. Queue(rq') = s2
    BY <2>1, QueueIs
  <2>. QED  BY <2>2
<1>. QED  BY <1>2, <1>3, <1>4, TurnImplements

LEMMA InitImplements ==
  ASSUME Init
  PROVE  Abstract!Init
<1>. DEFINE s == <<idle>>
<1>1. s \in Seq(Threads) /\ Len(s) = 1 /\ s[1] = idle /\ idle \in Threads
  BY ThreadsAreNumbers
<1>2. rq \in Queues
  BY <1>1 DEF Init, Queues, Links
<1>3. Spells(rq, s)
  <2>. HIDE DEF s
  <2>. QED  BY <1>1 DEF Init, Spells, Once
<1>4. Queue(rq) = s
  <2>. HIDE DEF s
  <2>. QED  BY <1>1, <1>2, <1>3, QueueIs
<1>. QED  BY <1>4 DEF Init, Abstract!Init, Abstract!Threads, Threads, idle

(* Ahead, step by step.  A step that leaves the links alone leaves the     *)
(* queue alone.                                                            *)
LEMMA SameQueue ==
  ASSUME NEW s \in Seq(Threads), NEW s2 \in Seq(Threads), InvAt(s), InvAt(s2)', rq' = rq
  PROVE  s2 = s
<1>1. rq \in Queues /\ Spells(rq, s) /\ Spells(rq, s2)
  BY DEF InvAt, TypeOK
<1>2. Queue(rq) = s /\ Queue(rq) = s2
  BY <1>1, QueueIs
<1>. QED  BY <1>2

LEMMA AheadFirst ==
  ASSUME Init, NEW s \in Seq(Threads)
  PROVE  Ahead(s)
BY DEF Init, Ahead

LEMMA AheadByUser ==
  ASSUME NEW s \in Seq(Threads), NEW s2 \in Seq(Threads), InvAt(s), InvAt(s2)', Ahead(s),
         \/ thread_exec \/ fork \/ exit \/ thread_exit \/ check_signal
         \/ \E pid \in Killable : kill(pid) \/ signal_kill(pid)
  PROVE  Ahead(s2)'
<1>1. TypeOK /\ TypeOK' /\ Spells(rq, s) /\ Spells(rq, s2)'
  BY DEF InvAt
<1>2. CASE thread_exec
  <2>1. FreeSlot # idle
    <3>1. status[FreeSlot] = "FREE" /\ status[idle] = "ACTIVE"
      BY <1>2, FreeSlotIsFree DEF thread_exec, thread_create, InvAt, IdleAt
    <3>. QED  BY <3>1
  <2>. QED  BY <1>2, <2>1 DEF thread_exec, Ahead
<1>3. CASE fork
  BY <1>3 DEF fork, InUserMode, Ahead
<1>4. CASE exit
  BY <1>4 DEF exit, InUserMode, Ahead
<1>5. CASE check_signal
  <2>1. curr_thread \in Threads /\ curr_thread # NULL
    BY <1>1, ThreadsAreNumbers DEF TypeOK
  <2>2. /\ curr_thread # idle /\ cpu = "thread" /\ cpu' = "schedule"
        /\ UNCHANGED <<curr_thread, idle_pc, idle_hit>>
        /\ rq' = push_rq([rq EXCEPT !.prev[curr_thread] = NULL, !.next[curr_thread] = NULL],
                         curr_thread)
    BY <1>5 DEF check_signal, signal_default_handler
  <2>3. rq'.tail = curr_thread
    <3>1. [rq EXCEPT !.prev[curr_thread] = NULL, !.next[curr_thread] = NULL] \in Queues
      BY <1>1, <2>1 DEF TypeOK, Queues, Links
    <3>. QED  BY <2>1, <2>2, <3>1, PushedFields
  <2>4. Len(s2) # 0
    BY <1>1, <2>1, <2>3 DEF Spells
  <2>. QED  BY <2>2, <2>4 DEF Ahead
<1>6. CASE thread_exit \/ \E pid \in Killable : kill(pid)
  <2>1. /\ curr_thread # idle /\ cpu = "thread" /\ Enter_schedule
        /\ UNCHANGED <<rq, curr_thread, idle_pc, idle_hit>>
    BY <1>6 DEF thread_exit, kill, InUserMode
  <2>2. s2 = s /\ (rq.head # NULL => Len(s) # 0)
    BY <1>1, <2>1, SameQueue DEF Spells
  <2>. QED  BY <2>1, <2>2 DEF Ahead, Enter_schedule
<1>7. CASE \E pid \in Killable : signal_kill(pid)
  BY <1>7 DEF signal_kill, InUserMode, Ahead
<1>. QED  BY <1>2, <1>3, <1>4, <1>5, <1>6, <1>7

LEMMA AheadBySchedule ==
  ASSUME NEW s \in Seq(Threads), NEW s2 \in Seq(Threads), InvAt(s), InvAt(s2)', Ahead(s),
         schedule
  PROVE  Ahead(s2)'
<1>1. Len(s) # 0 /\ cpu = "schedule" /\ UNCHANGED <<idle_pc, idle_hit, status>>
  BY DEF schedule, Ahead
<1>2. rq.head = s[1] /\ rq.head # NULL /\ s[1] \in Threads /\ pop_rq(rq) \in Queues
  BY <1>1, Popped
<1>3. CASE status[s[1]] = "ZOMBIE"
  <2>1. UNCHANGED <<curr_thread, cpu>> /\ rq' = push_rq(pop_rq(rq), s[1])
    BY <1>2, <1>3 DEF schedule, Search
  <2>2. rq'.tail # NULL
    BY <1>2, <2>1, PushedFields
  <2>3. Len(s2) # 0
    BY <2>2 DEF InvAt, Spells
  <2>4. 1 \in 1 .. Len(s)
    BY <1>1, Places
  <2>5. ~idle_hit => curr_thread # idle
    BY <1>1, <1>3, <2>4 DEF Ahead
  <2>. QED  BY <1>1, <2>1, <2>3, <2>5 DEF Ahead
<1>4. CASE status[s[1]] # "ZOMBIE"
  <2>1. cpu' = "thread"
    BY <1>2, <1>4 DEF schedule, Search
  <2>. QED  BY <1>1, <2>1 DEF Ahead
<1>. QED  BY <1>3, <1>4

LEMMA AheadByVisit ==
  ASSUME NEW s \in Seq(Threads), NEW s2 \in Seq(Threads), InvAt(s), InvAt(s2)', Ahead(s),
         Visit
  PROVE  Ahead(s2)'
<1>1. TypeOK /\ TypeOK' /\ Spells(rq, s) /\ Spells(rq, s2)' /\ IdleAt(s) /\ Once(s)
  BY DEF InvAt, Spells
<1>2. /\ cpu = "kill_zombies" /\ curr_thread = idle /\ In(s, th_ptr)
      /\ th_ptr' = rq.next[th_ptr]
      /\ UNCHANGED <<cpu, curr_thread, idle_pc, idle_hit>>
  BY <1>1 DEF Visit, IdleAt
<1>3. PICK p \in 1 .. Len(s) : s[p] = th_ptr
  BY <1>2 DEF In
<1>4. /\ Len(s) \in Nat
      /\ p # Len(s) => p + 1 \in 1 .. Len(s) /\ th_ptr' = s[p + 1]
  BY <1>1, <1>2, <1>3, SuccessorWaits, Places
<1>. SUFFICES ASSUME ~idle_hit
              PROVE  \A i \in 1 .. Len(s2) :
                       status'[s2[i]] = "ZOMBIE" => \E j \in 1 .. i : s2[j] = th_ptr'
  BY <1>2 DEF Ahead
<1>5. ASSUME NEW i \in 1 .. Len(s), status[s[i]] = "ZOMBIE"
      PROVE  p <= i
  <2>1. PICK j \in 1 .. i : s[j] = th_ptr
    BY <1>2, <1>5 DEF Ahead
  <2>2. j \in 1 .. Len(s)
    BY <1>4
  <2>3. j = p
    BY <1>1, <1>3, <2>1, <2>2 DEF Once
  <2>. QED  BY <2>3
<1>6. CASE status[th_ptr] # "ZOMBIE"
  <2>1. s2 = s /\ status' = status
    BY <1>6, SameQueue DEF Visit
  <2>2. ASSUME NEW i \in 1 .. Len(s), status[s[i]] = "ZOMBIE"
        PROVE  \E j \in 1 .. i : s[j] = th_ptr'
    <3>1. p <= i /\ p # i
      BY <1>3, <1>5, <1>6, <2>2
    <3>2. p # Len(s) /\ p + 1 \in 1 .. i
      BY <1>4, <3>1
    <3>. QED  BY <1>4, <3>2
  <2>. QED  BY <2>1, <2>2
<1>7. CASE status[th_ptr] = "ZOMBIE"
  <2>1. PICK t \in Threads : t = th_ptr
    BY <1>3, Places
  <2>. DEFINE a == RemoveAt(s, p)
  <2>2. rq' = Unlink(rq, t) /\ status' = [status EXCEPT ![t] = "FREE"] /\ s[p] = t
    BY <1>3, <1>7, <2>1 DEF Visit
  <2>3. Back(rq, s)
    BY <1>2, <1>3, <1>7, BackWhileVisiting
  <2>4. /\ a \in Seq(Threads) /\ Len(a) = Len(s) - 1
        /\ \A i \in 1 .. Len(s) - 1 : a[i] = IF i < p THEN s[i] ELSE s[i + 1]
    BY Removed
  <2>5. s2 = a
    <3>1. Spells(rq', a)
      BY <1>1, <2>2, <2>3, UnlinkAt DEF TypeOK
    <3>2. Queue(rq') = a /\ Queue(rq') = s2
      BY <1>1, <2>4, <3>1, QueueIs DEF TypeOK
    <3>. QED  BY <3>2
  <2>. HIDE DEF a
  <2>6. ASSUME NEW i \in 1 .. Len(s) - 1, status'[a[i]] = "ZOMBIE"
        PROVE  \E j \in 1 .. i : a[j] = th_ptr'
    <3>. DEFINE k == IF i < p THEN i ELSE i + 1
    <3>1. k \in 1 .. Len(s) /\ a[i] = s[k] /\ k # p
      BY <1>4, <2>4
    <3>2. s[k] \in Threads /\ s[k] # t
      BY <1>1, <2>2, <3>1, Places DEF Once
    <3>3. status[s[k]] = "ZOMBIE"
      BY <1>1, <2>2, <2>6, <3>1, <3>2 DEF TypeOK
    <3>4. p <= k
      BY <1>5, <3>1, <3>3
    <3>5. ~(i < p) /\ p \in 1 .. i /\ p \in 1 .. Len(s) - 1 /\ p # Len(s)
      BY <1>4, <3>1, <3>4
    <3>6. a[p] = s[p + 1]
      BY <2>4, <3>5
    <3>. QED  BY <1>4, <3>5, <3>6
  <2>. QED  BY <2>4, <2>5, <2>6
<1>. QED  BY <1>6, <1>7

LEMMA AheadByIdle ==
  ASSUME NEW s \in Seq(Threads), NEW s2 \in Seq(Threads), InvAt(s), InvAt(s2)', Ahead(s),
         Tick \/ kill_zombies \/ VisitedAll \/ IdleSchedules
  PROVE  Ahead(s2)'
<1>1. /\ Spells(rq, s) /\ s2 = s /\ status' = status /\ curr_thread' = curr_thread
  BY SameQueue DEF Tick, kill_zombies, VisitedAll, IdleSchedules, InvAt
<1>2. /\ Len(s) \in Nat /\ (rq.head # NULL => Len(s) # 0)
      /\ \A i \in 1 .. Len(s) : s[i] # NULL
  BY <1>1, Places, ThreadsAreNumbers DEF Spells
<1>3. CASE Tick
  <2>1. idle_hit' = (idle_hit \/ curr_thread = idle)
    BY <1>3 DEF Tick
  <2>2. idle_hit \in BOOLEAN
    BY DEF InvAt, TypeOK
  <2>3. cpu = "thread" /\ Enter_schedule /\ idle_pc' = idle_pc
    BY <1>3 DEF Tick
  <2>4. ~idle_hit' => ~idle_hit /\ curr_thread # idle
    BY <2>1, <2>2
  <2>. QED  BY <1>1, <1>2, <2>3, <2>4 DEF Ahead, Enter_schedule
<1>4. CASE kill_zombies
  <2>1. ASSUME NEW i \in 1 .. Len(s)
        PROVE  \E j \in 1 .. i : s[j] = rq.head
    <3>1. 1 \in 1 .. i /\ s[1] = rq.head
      BY <1>1, <1>2 DEF Spells
    <3>. QED  BY <3>1
  <2>2. /\ cpu' = "kill_zombies" /\ th_ptr' = rq.head
        /\ idle_pc' = "kill_zombies" /\ UNCHANGED idle_hit
    BY <1>4 DEF kill_zombies
  <2>3. \A i \in 1 .. Len(s2) : \E j \in 1 .. i : s2[j] = th_ptr'
    BY <1>1, <2>1, <2>2
  <2>. QED  BY <2>2, <2>3 DEF Ahead
<1>5. CASE VisitedAll
  <2>1. /\ cpu = "kill_zombies" /\ cpu' = "thread" /\ th_ptr = NULL /\ idle_hit' = idle_hit
        /\ curr_thread = idle
    BY <1>5 DEF VisitedAll, InvAt, IdleAt
  <2>2. ASSUME ~idle_hit, NEW i \in 1 .. Len(s), status[s[i]] = "ZOMBIE"
        PROVE  FALSE
    <3>1. PICK j \in 1 .. i : s[j] = NULL
      BY <2>1, <2>2 DEF Ahead
    <3>2. j \in 1 .. Len(s)
      BY <1>2
    <3>. QED  BY <1>2, <3>1, <3>2
  <2>. QED  BY <1>1, <2>1, <2>2 DEF Ahead
<1>6. CASE IdleSchedules
  <2>1. /\ cpu = "thread" /\ idle_pc = "schedule" /\ idle_pc' = "kill_zombies"
        /\ Enter_schedule /\ idle_hit' = idle_hit
    BY <1>6 DEF IdleSchedules
  <2>. QED  BY <1>1, <1>2, <2>1 DEF Ahead, Enter_schedule
<1>. QED  BY <1>3, <1>4, <1>5, <1>6

LEMMA InvAheadIsInductive ==
  ASSUME InvAhead, [Next]_vars, ~EarlyFork
  PROVE  InvAhead'
<1>1. PICK s \in Seq(Threads) : InvAt(s) /\ Ahead(s)
  BY DEF InvAhead
<1>2. PICK s2 \in Seq(Threads) : InvAt(s2)'
  BY <1>1, NextPreserves DEF Preserved
<1>3. CASE \/ thread_exec \/ fork \/ exit \/ thread_exit \/ check_signal
           \/ \E pid \in Killable : kill(pid) \/ signal_kill(pid)
  BY <1>1, <1>2, <1>3, AheadByUser DEF InvAhead
<1>4. CASE schedule
  BY <1>1, <1>2, <1>4, AheadBySchedule DEF InvAhead
<1>5. CASE Visit
  BY <1>1, <1>2, <1>5, AheadByVisit DEF InvAhead
<1>6. CASE Tick \/ kill_zombies \/ VisitedAll \/ IdleSchedules
  BY <1>1, <1>2, <1>6, AheadByIdle DEF InvAhead
<1>7. CASE UNCHANGED vars
  <2>1. s2 = s
    BY <1>1, <1>2, <1>7, SameQueue DEF vars
  <2>2. Ahead(s)'
    BY <1>1, <1>7 DEF vars, Ahead
  <2>. QED  BY <1>2, <2>1, <2>2 DEF InvAhead
<1>. QED  BY <1>3, <1>4, <1>5, <1>6, <1>7 DEF Next

LEMMA InvAheadImpliesSomeone ==
  ASSUME InvAhead
  PROVE  SomeoneToRun
<1>. SUFFICES ASSUME cpu = "schedule", Undisturbed
              PROVE  \E t \in Members(rq) : status[t] # "ZOMBIE"
  BY DEF SomeoneToRun
<1>1. PICK s \in Seq(Threads) : InvAt(s) /\ Ahead(s)
  BY DEF InvAhead
<1>2. \A t : t \in Members(rq) <=> In(s, t)
  BY <1>1, QueueIs DEF InvAt, TypeOK
<1>3. CASE curr_thread = idle
  <2>1. 1 \in 1 .. Len(s)
    BY <1>1, Places DEF Ahead
  <2>2. status[s[1]] # "ZOMBIE"
    BY <1>1, <1>3, <2>1 DEF Ahead, Undisturbed
  <2>. QED  BY <1>2, <2>1, <2>2 DEF In
<1>4. CASE curr_thread # idle
  <2>1. In(s, idle) /\ status[idle] = "ACTIVE"
    BY <1>1, <1>4, ThreadsAreNumbers DEF InvAt, Lives, Undisturbed
  <2>. QED  BY <1>2, <2>1
<1>. QED  BY <1>3, <1>4

(* The queue keeps its shape, whatever order timer interrupts, deaths and  *)
(* forks come in: from RQ_head the links lead through every queued thread  *)
(* once to RQ_tail, and kill_zombies can unlink any dead one.              *)
THEOREM QueueStaysWellFormed ==
  ASSUME ~EarlyFork
  PROVE  Spec => []QueueWellFormed
<1>1. Init => Inv
  BY InvHoldsFirst
<1>2. Inv /\ [Next]_vars => Inv'
  BY InvIsInductive
<1>3. Inv => QueueWellFormed
  BY InvImpliesWellFormed
<1>. QED  BY <1>1, <1>2, <1>3, PTL DEF Spec

(* No live thread is forgotten by schedule, fork, exit, kill or the        *)
(* signals, and none whose slot kill_zombies has freed is still queued or  *)
(* running.                                                                *)
THEOREM NoThreadIsLost ==
  ASSUME ~EarlyFork
  PROVE  Spec => []NoThreadLost
<1>1. Init => Inv
  BY InvHoldsFirst
<1>2. Inv /\ [Next]_vars => Inv'
  BY InvIsInductive
<1>3. Inv => NoThreadLost
  BY InvImpliesNoneLost
<1>. QED  BY <1>1, <1>2, <1>3, PTL DEF Spec

(* schedule always has a thread to find, unless idle has been killed or    *)
(* interrupted while it had the CPU: a search that passes over the dead    *)
(* meets it after one round.                                               *)
THEOREM ThereIsSomeoneToRun ==
  ASSUME ~EarlyFork
  PROVE  Spec => []SomeoneToRun
<1>1. Init => InvAhead
  BY InvHoldsFirst, AheadFirst DEF Inv, InvAhead
<1>2. InvAhead /\ [Next]_vars => InvAhead'
  BY InvAheadIsInductive
<1>3. InvAhead => SomeoneToRun
  BY InvAheadImpliesSomeone
<1>. QED  BY <1>1, <1>2, <1>3, PTL DEF Spec

(* The linked run queue is the sequence of ReadyQueue: every turn of       *)
(* schedule, every visit of kill_zombies and every system call is one of   *)
(* its steps.                                                              *)
THEOREM SchedImplementsReadyQueue ==
  ASSUME ~EarlyFork
  PROVE  Spec => ImplementsReadyQueue
<1>1. Init => Inv
  BY InvHoldsFirst
<1>2. Inv /\ [Next]_vars => Inv'
  BY InvIsInductive
<1>3. Init => Abstract!Init
  BY InitImplements
<1>4. Inv /\ [Next]_vars => [Abstract!Next]_Abstract!avars
  BY StepImplements
<1>. QED  BY <1>1, <1>2, <1>3, <1>4, PTL DEF Spec, ImplementsReadyQueue, Abstract!Spec
=============================================================================
