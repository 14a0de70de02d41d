---------------------------- MODULE IrqTaskProofs ----------------------------
(***************************************************************************)
(* The safety properties of IrqTask for every set of threads and every     *)
(* depth of nested interrupts.                                             *)
(***************************************************************************)
EXTENDS IrqTask, ListLemmas

Depths(t) == 1 .. Len(stack[t])

Active == {"add", "loop", "task", "ran"}
Frames == [line : Lines, pc : Active \cup {"schedule", "resume"},
           task : Lines \cup {"none"}, prev : {0, 1, NO_TASK}]

TypeOK ==
  /\ enabled \subseteq Lines /\ parked \subseteq {"r", "w"} /\ task_list \in Seq(Lines)
  /\ curr_task_priority \in {0, 1, NO_TASK}
  /\ stack \in [Threads -> Seq(Frames)] /\ \A t \in Threads : Len(stack[t]) <= MAX_DEPTH
  /\ curr_thread \in Threads /\ dead \subseteq Threads /\ curr_thread \notin dead

(* The kinds of frames that the invariant tells apart. *)
Masks(f)     == f.line = "timer" /\ f.pc \in Active   \* the timer's line is masked for it
Runs(f)      == f.pc \in {"task", "ran"}
RunsTimer(f) == Runs(f) /\ f.task = "timer"
RunsUart(f)  == Runs(f) /\ f.task \in {"r", "w"}

SomeTimer == \E t \in Threads : \E i \in Depths(t) : RunsTimer(stack[t][i])
SomeUart  == \E t \in Threads : \E i \in Depths(t) : RunsUart(stack[t][i])

FramesInv ==
  \A t \in Threads : \A i \in Depths(t) :
    /\ stack[t][i].pc \in {"schedule", "resume"} => stack[t][i].line = "timer"
    /\ Runs(stack[t][i]) <=> stack[t][i].task # "none"

(* While a timer interrupt has not left its loop the line stays masked, so *)
(* no other one is above it and no thread is switched.                     *)
TimerInv ==
  /\ \A t \in Threads : \A i \in Depths(t) : Masks(stack[t][i]) =>
       /\ "timer" \notin enabled /\ t = curr_thread
       /\ \A j \in Depths(t) : j > i => stack[t][j].line # "timer"
  /\ "timer" \notin enabled => \E i \in Depths(curr_thread) : Masks(stack[curr_thread][i])

(* The timer's task waits or runs once, for an interrupt that has added it *)
(* and has not left its loop; it runs at that interrupt or above it.       *)
WaitInv ==
  /\ \A i, j \in 1 .. Len(task_list) :
       task_list[i] = "timer" /\ task_list[j] = "timer" => i = j
  /\ (\E i \in 1 .. Len(task_list) : task_list[i] = "timer") =>
       /\ ~SomeTimer
       /\ \E i \in Depths(curr_thread) : /\ Masks(stack[curr_thread][i])
                                          /\ stack[curr_thread][i].pc # "add"
  /\ \A t \in Threads : \A i \in Depths(t) : RunsTimer(stack[t][i]) =>
       /\ t = curr_thread
       /\ \E j \in 1 .. i : Masks(stack[t][j]) /\ stack[t][j].pc # "add"

(* The tasks in progress are at most a UART task and, above it or in       *)
(* another thread, the timer's.                                            *)
PriorityInv ==
  /\ \A t, u \in Threads : \A i \in Depths(t), j \in Depths(u) :
       RunsUart(stack[t][i]) /\ RunsUart(stack[u][j]) => t = u /\ i = j
  /\ \A t, u \in Threads : \A i \in Depths(t), j \in Depths(u) :
       RunsTimer(stack[t][i]) /\ RunsTimer(stack[u][j]) => t = u /\ i = j
  /\ \A t \in Threads : \A i, j \in Depths(t) :
       RunsUart(stack[t][i]) /\ RunsTimer(stack[t][j]) => i < j
  /\ \A t \in Threads : \A i \in Depths(t) :
       /\ RunsUart(stack[t][i])  => stack[t][i].prev = NO_TASK
       /\ RunsTimer(stack[t][i]) => stack[t][i].prev = IF SomeUart THEN 1 ELSE NO_TASK
  /\ curr_task_priority = IF SomeTimer THEN 0 ELSE IF SomeUart THEN 1 ELSE NO_TASK

(* irqtask_add keeps the tasks in the order of their urgency. *)
SortedInv ==
  \A i, j \in 1 .. Len(task_list) : i < j => priority(task_list[i]) <= priority(task_list[j])

IndInv == TypeOK /\ FramesInv /\ TimerInv /\ WaitInv /\ PriorityInv /\ SortedInv

(* While tasks wait and none runs, the running thread is in a loop, with   *)
(* nothing above it but interrupts that have not added their task yet.     *)
LoopInv ==
  task_list # <<>> /\ ~SomeTimer /\ ~SomeUart =>
    \E i \in Depths(curr_thread) :
      /\ stack[curr_thread][i].pc = "loop"
      /\ \A j \in Depths(curr_thread) : j > i => stack[curr_thread][j].pc = "add"

(* Where the interrupt of a masked UART line has got to. *)
UartInv ==
  \A l \in {"r", "w"} \ (enabled \cup parked) :
    \/ \E t \in Threads : \E i \in Depths(t) :
         stack[t][i].line = l /\ stack[t][i].pc = "add"
    \/ \E t \in Threads : \E i \in Depths(t) :
         stack[t][i].task = l /\ stack[t][i].pc = "task"
    \/ \E i \in 1 .. Len(task_list) : task_list[i] = l

(* Nobody dies who owes a task to the others. *)
DeadInv == \A t \in dead : \A i \in Depths(t) : stack[t][i].pc \notin {"add", "task", "ran"}
-----------------------------------------------------------------------------
(* The list of tasks. *)

(* irqtask_add puts a task behind the ones that are as urgent and before   *)
(* the first that is less.                                                 *)
LEMMA Added ==
  ASSUME NEW q \in Seq(Lines), NEW l \in Lines
  PROVE  LET r == irqtask_add(q, l) IN
         /\ r \in Seq(Lines) /\ Len(r) = Len(q) + 1
         /\ \E p \in 1 .. Len(q) + 1 :
              /\ \A i \in 1 .. Len(q) + 1 :
                   r[i] = IF i < p THEN q[i] ELSE IF i = p THEN l ELSE q[i - 1]
              /\ p = Len(q) + 1 \/ priority(l) < priority(q[p])
              /\ \A j \in 1 .. p - 1 : priority(q[j]) <= priority(l)
<1>. DEFINE stops(i) == i = Len(q) + 1 \/ priority(l) < priority(q[i])
            first(i) == stops(i) /\ \A j \in 1 .. i - 1 : ~stops(j)
            place    == CHOOSE i \in 1 .. Len(q) + 1 : first(i)
            S        == {i \in 1 .. Len(q) + 1 : stops(i)}
<1>1. Len(q) \in Nat /\ \A i \in 1 .. Len(q) : q[i] \in Lines
  BY LenProperties, ElementOfSeq
<1>2. S \in SUBSET Nat /\ Len(q) + 1 \in S
  BY <1>1
<1>3. PICK m \in S : \A y \in S : m <= y
  BY <1>2, SmallestNumber
<1>4. m \in 1 .. Len(q) + 1 /\ first(m)
  <2>. \A j \in 1 .. m - 1 : j \in 1 .. Len(q) + 1 /\ ~(m <= j)
    BY <1>1
  <2>. QED  BY <1>3
<1>. HIDE DEF first
<1>5. place \in 1 .. Len(q) + 1 /\ first(place)
  BY <1>4
<1>6. irqtask_add(q, l) = InsertAt(q, place, l)
  BY DEF irqtask_add, first
<1>. HIDE DEF place
<1>7. /\ place = Len(q) + 1 \/ priority(l) < priority(q[place])
      /\ \A j \in 1 .. place - 1 : priority(q[j]) <= priority(l)
  <2>. \A j \in 1 .. place - 1 : j \in 1 .. Len(q) /\ priority(q[j]) \in Int
    BY <1>1, <1>5 DEF priority
  <2>. QED  BY <1>5 DEF first, priority
<1>8. /\ InsertAt(q, place, l) \in Seq(Lines) /\ Len(InsertAt(q, place, l)) = Len(q) + 1
      /\ \A i \in 1 .. Len(q) + 1 :
           InsertAt(q, place, l)[i] = IF i < place THEN q[i] ELSE IF i = place THEN l ELSE q[i - 1]
  <2>1. InsertAt(q, place, l) \in Seq(Lines) /\ HasAt(InsertAt(q, place, l), q, place, l)
    BY <1>5, Inserted
  <2>. QED  BY <2>1 DEF HasAt
<1>. QED  BY <1>5, <1>6, <1>7, <1>8

-----------------------------------------------------------------------------
(* The stacks of interrupts. *)

n == Len(stack[curr_thread])

(* The facts about types that every step uses. *)
LEMMA StackFacts ==
  ASSUME TypeOK
  PROVE  /\ n \in Nat /\ Depths(curr_thread) = 1 .. n
         /\ \A t \in Threads : Len(stack[t]) \in Nat /\ stack[t] \in Seq(Frames)
         /\ \A t \in Threads : \A i \in Depths(t) : stack[t][i] \in Frames
         /\ n = 0 <=> stack[curr_thread] = <<>>
BY LenProperties, ElementOfSeq, EmptySeq DEF TypeOK, Depths, n

(* The innermost frame is replaced. *)
LEMMA InnerSet ==
  ASSUME TypeOK, n > 0, NEW f \in Frames, SetInner(f)
  PROVE  /\ stack' \in [Threads -> Seq(Frames)]
         /\ \A t \in Threads : Len(stack'[t]) = Len(stack[t])
         /\ stack'[curr_thread][n] = f
         /\ \A t \in Threads : \A i \in Depths(t) :
              (t # curr_thread \/ i # n) => stack'[t][i] = stack[t][i]
<1>. DEFINE s == stack[curr_thread]
            a == Front(s)
            b == Append(a, f)
<1>1. curr_thread \in Threads /\ s \in Seq(Frames) /\ n = Len(s) /\ n \in Nat
  BY StackFacts DEF TypeOK, n
<1>2. a \in Seq(Frames) /\ Len(a) = n - 1 /\ \A i \in 1 .. n - 1 : a[i] = s[i]
  <2>. n - 1 \in Int /\ \A i \in 1 .. n - 1 : s[i] \in Frames
    BY <1>1, StackFacts DEF Depths, TypeOK
  <2>1. a = SubSeq(s, 1, n - 1)
    BY <1>1 DEF Front
  <2>2. /\ a \in Seq(Frames) /\ Len(a) = IF 1 <= n - 1 THEN n - 1 - 1 + 1 ELSE 0
        /\ \A i \in 1 .. n - 1 - 1 + 1 : a[i] = s[1 + i - 1]
    BY <2>1, SubSeqProperties
  <2>. HIDE DEF a, s
  <2>. QED  BY <1>1, <2>2
<1>3. stack' = [stack EXCEPT ![curr_thread] = b]
  BY DEF SetInner
<1>. HIDE DEF a
<1>4. /\ b \in Seq(Frames) /\ Len(b) = Len(a) + 1 /\ b[Len(a) + 1] = f
      /\ \A i \in 1 .. Len(a) : b[i] = a[i]
  BY <1>2, AppendProperties
<1>. HIDE DEF b
<1>5. Len(b) = n /\ b[n] = f /\ \A i \in 1 .. n : i # n => b[i] = s[i]
  BY <1>1, <1>2, <1>4
<1>. QED  BY <1>1, <1>3, <1>4, <1>5, StackFacts DEF TypeOK, Depths

(* The innermost frame is popped. *)
LEMMA InnerPopped ==
  ASSUME TypeOK, n > 0, stack' = [stack EXCEPT ![curr_thread] = Front(@)]
  PROVE  /\ stack' \in [Threads -> Seq(Frames)]
         /\ Len(stack'[curr_thread]) = n - 1
         /\ \A t \in Threads : t # curr_thread => stack'[t] = stack[t]
         /\ \A t \in Threads : \A i \in 1 .. Len(stack'[t]) :
              i \in Depths(t) /\ stack'[t][i] = stack[t][i]
<1>. DEFINE s == stack[curr_thread]
            a == Front(s)
<1>1. curr_thread \in Threads /\ s \in Seq(Frames) /\ n = Len(s) /\ n \in Nat
  BY StackFacts DEF TypeOK, n
<1>2. a \in Seq(Frames) /\ Len(a) = n - 1 /\ \A i \in 1 .. n - 1 : a[i] = s[i]
  <2>. n - 1 \in Int /\ \A i \in 1 .. n - 1 : s[i] \in Frames
    BY <1>1, StackFacts DEF Depths, TypeOK
  <2>1. a = SubSeq(s, 1, n - 1)
    BY <1>1 DEF Front
  <2>2. /\ a \in Seq(Frames) /\ Len(a) = IF 1 <= n - 1 THEN n - 1 - 1 + 1 ELSE 0
        /\ \A i \in 1 .. n - 1 - 1 + 1 : a[i] = s[1 + i - 1]
    BY <2>1, SubSeqProperties
  <2>. HIDE DEF a, s
  <2>. QED  BY <1>1, <2>2
<1>3. stack' = [stack EXCEPT ![curr_thread] = a]
  OBVIOUS
<1>. HIDE DEF a
<1>4. stack'[curr_thread] = a /\ \A t \in Threads : t # curr_thread => stack'[t] = stack[t]
  BY <1>1, <1>3 DEF TypeOK
<1>5. stack' \in [Threads -> Seq(Frames)]
  BY <1>2, <1>3 DEF TypeOK
<1>6. ASSUME NEW t \in Threads, NEW i \in 1 .. Len(stack'[t])
      PROVE  i \in Depths(t) /\ stack'[t][i] = stack[t][i]
  <2>1. CASE t = curr_thread
    <3>. i \in 1 .. n - 1
      BY <1>2, <1>4, <2>1
    <3>. QED  BY <1>1, <1>2, <1>4, <2>1 DEF Depths
  <2>2. CASE t # curr_thread
    BY <1>4, <2>2 DEF Depths
  <2>. QED  BY <2>1, <2>2
<1>. QED  BY <1>2, <1>4, <1>5, <1>6

(* A frame is pushed. *)
LEMMA InnerPushed ==
  ASSUME TypeOK, NEW f \in Frames, stack' = [stack EXCEPT ![curr_thread] = Append(@, f)]
  PROVE  /\ stack' \in [Threads -> Seq(Frames)]
         /\ Len(stack'[curr_thread]) = n + 1 /\ stack'[curr_thread][n + 1] = f
         /\ \A t \in Threads : t # curr_thread => stack'[t] = stack[t]
         /\ \A t \in Threads : \A i \in Depths(t) :
              i \in 1 .. Len(stack'[t]) /\ stack'[t][i] = stack[t][i]
<1>. DEFINE s == stack[curr_thread]
            a == Append(s, f)
<1>1. curr_thread \in Threads /\ s \in Seq(Frames) /\ n = Len(s) /\ n \in Nat
  BY StackFacts DEF TypeOK, n
<1>2. a \in Seq(Frames) /\ Len(a) = Len(s) + 1 /\ a[Len(s) + 1] = f /\ \A i \in 1 .. Len(s) : a[i] = s[i]
  BY <1>1, AppendProperties
<1>3. stack' = [stack EXCEPT ![curr_thread] = a]
  OBVIOUS
<1>. HIDE DEF a
<1>4. stack'[curr_thread] = a /\ \A t \in Threads : t # curr_thread => stack'[t] = stack[t]
  BY <1>1, <1>3 DEF TypeOK
<1>5. stack' \in [Threads -> Seq(Frames)]
  BY <1>2, <1>3 DEF TypeOK
<1>6. ASSUME NEW t \in Threads, NEW i \in Depths(t)
      PROVE  i \in 1 .. Len(stack'[t]) /\ stack'[t][i] = stack[t][i]
  <2>1. CASE t = curr_thread
    <3>. i \in 1 .. Len(s)
      BY <2>1 DEF Depths
    <3>. QED  BY <1>1, <1>2, <1>4, <2>1
  <2>2. CASE t # curr_thread
    BY <1>4, <2>2 DEF Depths
  <2>. QED  BY <2>1, <2>2
<1>. QED  BY <1>1, <1>2, <1>4, <1>5, <1>6

-----------------------------------------------------------------------------
(* What keeps each part of the invariant. *)

(* No interrupt of the timer is taken, left or moved to another thread. *)
LEMMA TimerKept ==
  ASSUME TimerInv, curr_thread \in Threads, curr_thread' = curr_thread,
         "timer" \in enabled' <=> "timer" \in enabled,
         \A t \in Threads : \A i \in Depths(t)' : stack'[t][i].line = "timer" =>
           /\ i \in Depths(t) /\ stack[t][i].line = "timer"
           /\ Masks(stack'[t][i]) => Masks(stack[t][i]),
         \A t \in Threads : \A i \in Depths(t) : Masks(stack[t][i]) =>
           i \in Depths(t)' /\ Masks(stack'[t][i])
  PROVE  TimerInv'
<1>1. ASSUME NEW t \in Threads, NEW i \in Depths(t)', Masks(stack'[t][i])
      PROVE  /\ "timer" \notin enabled' /\ t = curr_thread'
             /\ \A j \in Depths(t)' : j > i => stack'[t][j].line # "timer"
  <2>. i \in Depths(t) /\ Masks(stack[t][i])
    BY <1>1 DEF Masks
  <2>. /\ "timer" \notin enabled /\ t = curr_thread
       /\ \A j \in Depths(t) : j > i => stack[t][j].line # "timer"
    BY DEF TimerInv
  <2>. QED  OBVIOUS
<1>2. ASSUME "timer" \notin enabled'
      PROVE  \E i \in Depths(curr_thread)' : Masks(stack'[curr_thread'][i])
  BY <1>2 DEF TimerInv
<1>. QED  BY <1>1, <1>2 DEF TimerInv, Masks

(* The list stays, and so do the interrupts that have added the timer's    *)
(* task; that task does not start.                                         *)
LEMMA WaitKept ==
  ASSUME WaitInv, curr_thread \in Threads, curr_thread' = curr_thread, task_list' = task_list,
         \A t \in Threads : \A i \in Depths(t) : Masks(stack[t][i]) /\ stack[t][i].pc # "add" =>
           i \in Depths(t)' /\ Masks(stack'[t][i]) /\ stack'[t][i].pc # "add",
         \A t \in Threads : Len(stack[t]) \in Nat,
         \A t \in Threads : \A i \in Depths(t)' : RunsTimer(stack'[t][i]) =>
           i \in Depths(t) /\ RunsTimer(stack[t][i])
  PROVE  WaitInv'
<1>1. SomeTimer' => SomeTimer
  BY DEF SomeTimer, RunsTimer, Runs
<1>2. \A i, j \in 1 .. Len(task_list') :
        task_list'[i] = "timer" /\ task_list'[j] = "timer" => i = j
  BY DEF WaitInv
<1>3. ASSUME \E i \in 1 .. Len(task_list') : task_list'[i] = "timer"
      PROVE  /\ ~SomeTimer'
             /\ \E i \in Depths(curr_thread)' : /\ Masks(stack'[curr_thread'][i])
                                                 /\ stack'[curr_thread'][i].pc # "add"
  <2>. /\ ~SomeTimer
       /\ \E i \in Depths(curr_thread) : /\ Masks(stack[curr_thread][i])
                                          /\ stack[curr_thread][i].pc # "add"
    BY <1>3 DEF WaitInv
  <2>. QED  BY <1>1
<1>4. ASSUME NEW t \in Threads, NEW i \in Depths(t)', RunsTimer(stack'[t][i])
      PROVE  /\ t = curr_thread'
             /\ \E j \in 1 .. i : Masks(stack'[t][j]) /\ stack'[t][j].pc # "add"
  <2>1. i \in Depths(t) /\ RunsTimer(stack[t][i])
    BY <1>4
  <2>2. t = curr_thread /\ \E j \in 1 .. i : Masks(stack[t][j]) /\ stack[t][j].pc # "add"
    BY <2>1 DEF WaitInv
  <2>3. \A j \in 1 .. i : j \in Depths(t)
    BY <2>1 DEF Depths
  <2>. QED  BY <2>2, <2>3
<1>. QED  BY <1>2, <1>3, <1>4 DEF WaitInv, Masks, RunsTimer, Runs

(* The same tasks are in progress, where they were. *)
SameRuns ==
  /\ \A t \in Threads : \A i \in Depths(t) : Runs(stack[t][i]) =>
       /\ i \in Depths(t)' /\ Runs(stack'[t][i])
       /\ stack'[t][i].task = stack[t][i].task /\ stack'[t][i].prev = stack[t][i].prev
  /\ \A t \in Threads : \A i \in Depths(t)' : Runs(stack'[t][i]) =>
       /\ i \in Depths(t) /\ Runs(stack[t][i])
       /\ stack'[t][i].task = stack[t][i].task /\ stack'[t][i].prev = stack[t][i].prev

(* Then the priorities are right as they are. *)
LEMMA PriorityKept ==
  ASSUME PriorityInv, SameRuns, curr_task_priority' = curr_task_priority
  PROVE  PriorityInv' /\ (SomeTimer' <=> SomeTimer) /\ (SomeUart' <=> SomeUart)
<1>1. /\ \A t \in Threads : \A i \in Depths(t) : RunsTimer(stack[t][i]) =>
           i \in Depths(t)' /\ RunsTimer(stack'[t][i]) /\ stack'[t][i].prev = stack[t][i].prev
      /\ \A t \in Threads : \A i \in Depths(t)' : RunsTimer(stack'[t][i]) =>
           i \in Depths(t) /\ RunsTimer(stack[t][i]) /\ stack'[t][i].prev = stack[t][i].prev
      /\ \A t \in Threads : \A i \in Depths(t) : RunsUart(stack[t][i]) =>
           i \in Depths(t)' /\ RunsUart(stack'[t][i]) /\ stack'[t][i].prev = stack[t][i].prev
      /\ \A t \in Threads : \A i \in Depths(t)' : RunsUart(stack'[t][i]) =>
           i \in Depths(t) /\ RunsUart(stack[t][i]) /\ stack'[t][i].prev = stack[t][i].prev
  BY DEF SameRuns, RunsTimer, RunsUart
<1>2. SomeTimer' <=> SomeTimer
  BY <1>1 DEF SomeTimer, RunsTimer, Runs
<1>3. SomeUart' <=> SomeUart
  BY <1>1 DEF SomeUart, RunsUart, Runs
<1>4. \A t, u \in Threads : \A i \in Depths(t)', j \in Depths(u)' :
        RunsUart(stack'[t][i]) /\ RunsUart(stack'[u][j]) => t = u /\ i = j
  BY <1>1 DEF PriorityInv
<1>5. \A t, u \in Threads : \A i \in Depths(t)', j \in Depths(u)' :
        RunsTimer(stack'[t][i]) /\ RunsTimer(stack'[u][j]) => t = u /\ i = j
  BY <1>1 DEF PriorityInv
<1>6. \A t \in Threads : \A i, j \in Depths(t)' :
        RunsUart(stack'[t][i]) /\ RunsTimer(stack'[t][j]) => i < j
  BY <1>1 DEF PriorityInv
<1>7. \A t \in Threads : \A i \in Depths(t)' :
        /\ RunsUart(stack'[t][i])  => stack'[t][i].prev = NO_TASK
        /\ RunsTimer(stack'[t][i]) => stack'[t][i].prev = IF SomeUart' THEN 1 ELSE NO_TASK
  BY <1>1, <1>3 DEF PriorityInv
<1>8. curr_task_priority' = IF SomeTimer' THEN 0 ELSE IF SomeUart' THEN 1 ELSE NO_TASK
  BY <1>2, <1>3 DEF PriorityInv
<1>. QED  BY <1>2, <1>3, <1>4, <1>5, <1>6, <1>7, <1>8 DEF PriorityInv, RunsUart, RunsTimer, Runs, NO_TASK
-----------------------------------------------------------------------------
(* One lemma for each action. *)

(* The frame that the running thread is in. *)
LEMMA InnerFacts ==
  ASSUME IndInv, NEW p, At(p)
  PROVE  /\ n \in Nat /\ n > 0 /\ n \in Depths(curr_thread) /\ curr_thread \in Threads
         /\ Inner = stack[curr_thread][n] /\ Inner \in Frames /\ Inner.pc = p
         /\ \A j \in Depths(curr_thread) : ~(j > n)
<1>1. TypeOK /\ stack[curr_thread] # <<>> /\ Inner.pc = p
  BY DEF At, Inner, IndInv
<1>2. n \in Nat /\ n > 0 /\ n \in Depths(curr_thread) /\ curr_thread \in Threads
      /\ \A j \in Depths(curr_thread) : ~(j > n)
  BY <1>1, StackFacts DEF TypeOK, Depths, n
<1>3. Inner = stack[curr_thread][n]
  BY DEF Inner, Last, n
<1>. QED  BY <1>1, <1>2, <1>3, StackFacts

(* An interrupt that masks the timer's line is alone: there is no other.   *)
LEMMA InnerMasks ==
  ASSUME IndInv, NEW p, At(p), Masks(Inner)
  PROVE  \A t \in Threads : \A i \in Depths(t) : Masks(stack[t][i]) => t = curr_thread /\ i = n
<1>. SUFFICES ASSUME NEW t \in Threads, NEW i \in Depths(t), Masks(stack[t][i])
              PROVE  t = curr_thread /\ i = n
  OBVIOUS
<1>1. t = curr_thread /\ \A j \in Depths(t) : j > i => stack[t][j].line # "timer"
  BY DEF IndInv, TimerInv
<1>2. n \in Depths(curr_thread) /\ stack[curr_thread][n].line = "timer" /\ n \in Nat
  BY InnerFacts DEF Masks
<1>3. ~(n > i)
  BY <1>1, <1>2
<1>. QED  BY <1>1, <1>2, <1>3 DEF Depths, n

(* Nothing masks the timer's line when the running thread is about to      *)
(* schedule or to return from a timer interrupt.                           *)
LEMMA NothingMasks ==
  ASSUME IndInv, NEW p \in {"schedule", "resume"}, At(p)
  PROVE  /\ \A t \in Threads : \A i \in Depths(t) : ~Masks(stack[t][i]) /\ ~RunsTimer(stack[t][i])
         /\ "timer" \in enabled
         /\ \A i \in 1 .. Len(task_list) : task_list[i] # "timer"
<1>1. /\ n \in Depths(curr_thread) /\ n \in Nat /\ curr_thread \in Threads
      /\ stack[curr_thread][n].pc = p /\ stack[curr_thread][n].line = "timer"
  BY InnerFacts DEF IndInv, FramesInv
<1>2. ASSUME NEW t \in Threads, NEW i \in Depths(t), Masks(stack[t][i])
      PROVE  FALSE
  <2>1. t = curr_thread /\ \A j \in Depths(t) : j > i => stack[t][j].line # "timer"
    BY <1>2 DEF IndInv, TimerInv
  <2>2. ~(n > i)
    BY <1>1, <2>1
  <2>3. i = n
    BY <1>1, <2>1, <2>2 DEF Depths, n
  <2>. QED  BY <1>1, <1>2, <2>1, <2>3 DEF Masks, Active
<1>3. ASSUME NEW t \in Threads, NEW i \in Depths(t), RunsTimer(stack[t][i])
      PROVE  FALSE
  <2>1. PICK j \in 1 .. i : Masks(stack[t][j])
    BY <1>3 DEF IndInv, WaitInv
  <2>2. j \in Depths(t)
    BY StackFacts DEF Depths, IndInv
  <2>. QED  BY <1>2, <2>1, <2>2
<1>4. "timer" \in enabled
  BY <1>1, <1>2 DEF IndInv, TimerInv
<1>5. \A i \in 1 .. Len(task_list) : task_list[i] # "timer"
  BY <1>1, <1>2 DEF IndInv, WaitInv
<1>. QED  BY <1>2, <1>3, <1>4, <1>5

(* irq_router: an interrupt that has not added its task. *)
LEMMA RouterStep ==
  ASSUME IndInv, NEW l \in Lines, irq_router(l)
  PROVE  IndInv' /\ SameRuns
<1>. DEFINE f == [line |-> l, pc |-> "add", task |-> "none", prev |-> NO_TASK]
<1>1. /\ l \in enabled /\ enabled' = enabled \ {l} /\ n < MAX_DEPTH
      /\ UNCHANGED <<parked, task_list, curr_task_priority, curr_thread, dead>>
      /\ stack' = [stack EXCEPT ![curr_thread] = Append(@, f)]
  BY DEF irq_router, n
<1>2. f \in Frames /\ f.line = l /\ f.pc = "add" /\ f.task = "none"
  BY DEF Frames, Active
<1>. HIDE DEF f
<1>3. TypeOK /\ curr_thread \in Threads /\ n \in Nat /\ Depths(curr_thread) = 1 .. n
      /\ \A t \in Threads : Len(stack[t]) \in Nat
  BY StackFacts DEF IndInv, TypeOK
<1>4. /\ stack' \in [Threads -> Seq(Frames)]
      /\ Len(stack'[curr_thread]) = n + 1 /\ stack'[curr_thread][n + 1] = f
      /\ \A t \in Threads : t # curr_thread => stack'[t] = stack[t]
      /\ \A t \in Threads : \A i \in Depths(t) : i \in Depths(t)' /\ stack'[t][i] = stack[t][i]
  BY <1>1, <1>2, <1>3, InnerPushed DEF Depths
<1>5. \A t \in Threads : \A i \in Depths(t)' :
        (i \in Depths(t) /\ stack'[t][i] = stack[t][i])
        \/ (t = curr_thread /\ i = n + 1 /\ stack'[t][i] = f)
  <2>. SUFFICES ASSUME NEW t \in Threads, NEW i \in Depths(t)'
                PROVE  (i \in Depths(t) /\ stack'[t][i] = stack[t][i])
                       \/ (t = curr_thread /\ i = n + 1 /\ stack'[t][i] = f)
    OBVIOUS
  <2>1. CASE t = curr_thread
    <3>. i \in 1 .. n + 1
      BY <1>4, <2>1 DEF Depths
    <3>. QED  BY <1>3, <1>4, <2>1
  <2>2. CASE t # curr_thread
    BY <1>4, <2>2 DEF Depths
  <2>. QED  BY <2>1, <2>2
<1>6. TypeOK'
  <2>. \A t \in Threads : Len(stack'[t]) <= MAX_DEPTH
    BY <1>1, <1>3, <1>4, IrqTaskAssumption DEF TypeOK
  <2>. QED  BY <1>1, <1>3, <1>4 DEF TypeOK
<1>7. FramesInv'
  <2>. SUFFICES ASSUME NEW t \in Threads, NEW i \in Depths(t)'
                PROVE  /\ stack'[t][i].pc \in {"schedule", "resume"} => stack'[t][i].line = "timer"
                       /\ Runs(stack'[t][i]) <=> stack'[t][i].task # "none"
    BY DEF FramesInv, Runs
  <2>. QED  BY <1>2, <1>5 DEF IndInv, FramesInv, Runs
<1>8. SameRuns
  BY <1>2, <1>4, <1>5 DEF SameRuns, Runs
<1>9. PriorityInv' /\ SortedInv'
  BY <1>1, <1>8, PriorityKept DEF IndInv, SortedInv
<1>10. WaitInv'
  <2>. \A t \in Threads : \A i \in Depths(t)' : RunsTimer(stack'[t][i]) =>
         i \in Depths(t) /\ RunsTimer(stack[t][i])
    BY <1>2, <1>5 DEF RunsTimer, Runs
  <2>. \A t \in Threads : \A i \in Depths(t) : Masks(stack[t][i]) /\ stack[t][i].pc # "add" =>
           i \in Depths(t)' /\ Masks(stack'[t][i]) /\ stack'[t][i].pc # "add"
    BY <1>4
  <2>. QED  BY <1>1, <1>3, WaitKept DEF IndInv
<1>11. TimerInv'
  <2>1. CASE l # "timer"
    <3>. \A t \in Threads : \A i \in Depths(t)' : stack'[t][i].line = "timer" =>
           /\ i \in Depths(t) /\ stack[t][i].line = "timer"
           /\ Masks(stack'[t][i]) => Masks(stack[t][i])
      BY <1>2, <1>5, <2>1
    <3>. \A t \in Threads : \A i \in Depths(t) : Masks(stack[t][i]) =>
           i \in Depths(t)' /\ Masks(stack'[t][i])
      BY <1>4
    <3>. QED  BY <1>1, <1>3, <2>1, TimerKept DEF IndInv
  <2>2. CASE l = "timer"
    <3>1. \A t \in Threads : \A i \in Depths(t) : ~Masks(stack[t][i])
      BY <1>1, <2>2 DEF IndInv, TimerInv
    <3>2. n + 1 \in Depths(curr_thread)' /\ Masks(stack'[curr_thread][n + 1])
      BY <1>1, <1>2, <1>3, <1>4, <2>2 DEF Depths, Masks, Active
    <3>3. \A t \in Threads : \A i \in Depths(t)' : Masks(stack'[t][i]) =>
             t = curr_thread /\ i = n + 1
      BY <1>5, <3>1
    <3>4. \A j \in Depths(curr_thread)' : ~(j > n + 1)
      BY <1>1, <1>3, <1>4 DEF Depths
    <3>. QED  BY <1>1, <2>2, <3>2, <3>3, <3>4 DEF TimerInv, Masks
  <2>. QED  BY <2>1, <2>2
<1>. QED  BY <1>6, <1>7, <1>8, <1>9, <1>10, <1>11 DEF IndInv

(* The facts about a step that replaces the innermost frame by f. *)
LEMMA SetFacts ==
  ASSUME IndInv, NEW p, At(p), NEW f \in Frames, SetInner(f)
  PROVE  /\ stack' \in [Threads -> Seq(Frames)]
         /\ \A t \in Threads : Len(stack'[t]) = Len(stack[t]) /\ Depths(t)' = Depths(t)
         /\ \A t \in Threads : \A i \in Depths(t) :
              stack'[t][i] = IF t = curr_thread /\ i = n THEN f ELSE stack[t][i]
<1>. TypeOK /\ n > 0
  BY InnerFacts DEF IndInv
<1>. QED  BY InnerSet DEF Depths

(* AddTask: the interrupt's task is in the list, and it is in its loop. *)
LEMMA AddStep ==
  ASSUME IndInv, AddTask
  PROVE  IndInv' /\ SameRuns
<1>. DEFINE f == [Inner EXCEPT !.pc = "loop"]
            l == Inner.line
<1>1. /\ At("add") /\ task_list' = irqtask_add(task_list, l) /\ SetInner(f)
      /\ UNCHANGED <<enabled, parked, curr_task_priority, curr_thread, dead>>
  BY DEF AddTask
<1>2. /\ n \in Depths(curr_thread) /\ n \in Nat /\ curr_thread \in Threads
      /\ Inner = stack[curr_thread][n] /\ Inner \in Frames /\ Inner.pc = "add"
      /\ \A t \in Threads : Len(stack[t]) \in Nat
  BY <1>1, InnerFacts, StackFacts DEF IndInv
<1>3. /\ f \in Frames /\ f.line = l /\ f.pc = "loop" /\ f.task = Inner.task /\ l \in Lines
      /\ f.prev = Inner.prev
  BY <1>2 DEF Frames, Active
<1>. HIDE DEF f
<1>4. /\ stack' \in [Threads -> Seq(Frames)]
      /\ \A t \in Threads : Len(stack'[t]) = Len(stack[t]) /\ Depths(t)' = Depths(t)
      /\ \A t \in Threads : \A i \in Depths(t) :
           stack'[t][i] = IF t = curr_thread /\ i = n THEN f ELSE stack[t][i]
  BY <1>1, <1>3, SetFacts
<1>5. task_list \in Seq(Lines) /\ Len(task_list) \in Nat
      /\ \A i \in 1 .. Len(task_list) : task_list[i] \in Lines
  BY LenProperties, ElementOfSeq DEF IndInv, TypeOK
<1>. HIDE DEF l
<1>6. /\ task_list' \in Seq(Lines) /\ Len(task_list') = Len(task_list) + 1
      /\ \E k \in 1 .. Len(task_list) + 1 :
           /\ \A i \in 1 .. Len(task_list) + 1 :
                task_list'[i] = IF i < k THEN task_list[i] ELSE IF i = k THEN l ELSE task_list[i - 1]
           /\ k = Len(task_list) + 1 \/ priority(l) < priority(task_list[k])
           /\ \A j \in 1 .. k - 1 : priority(task_list[j]) <= priority(l)
  BY <1>1, <1>3, <1>5, Added
<1>7. PICK k \in 1 .. Len(task_list) + 1 :
           /\ \A i \in 1 .. Len(task_list) + 1 :
                task_list'[i] = IF i < k THEN task_list[i] ELSE IF i = k THEN l ELSE task_list[i - 1]
           /\ k = Len(task_list) + 1 \/ priority(l) < priority(task_list[k])
           /\ \A j \in 1 .. k - 1 : priority(task_list[j]) <= priority(l)
  BY <1>6
<1>8. TypeOK'
  BY <1>1, <1>4, <1>6 DEF IndInv, TypeOK
<1>9. FramesInv'
  <2>. SUFFICES ASSUME NEW t \in Threads, NEW i \in Depths(t)
                PROVE  /\ stack'[t][i].pc \in {"schedule", "resume"} => stack'[t][i].line = "timer"
                       /\ Runs(stack'[t][i]) <=> stack'[t][i].task # "none"
    BY <1>4 DEF FramesInv, Runs
  <2>. QED  BY <1>2, <1>3, <1>4 DEF IndInv, FramesInv, Runs
<1>10. SameRuns
  BY <1>2, <1>3, <1>4 DEF SameRuns, Runs
<1>11. PriorityInv' /\ (SomeTimer' <=> SomeTimer)
  BY <1>1, <1>10, PriorityKept DEF IndInv
<1>12. SortedInv'
  <2>. SUFFICES ASSUME NEW i \in 1 .. Len(task_list) + 1, NEW j \in 1 .. Len(task_list) + 1, i < j
                PROVE  priority(task_list'[i]) <= priority(task_list'[j])
    BY <1>6 DEF SortedInv, priority
  <2>1. \A a \in 1 .. Len(task_list), b \in 1 .. Len(task_list) :
           a <= b => priority(task_list[a]) <= priority(task_list[b])
    <3>. \A a \in 1 .. Len(task_list) : priority(task_list[a]) <= priority(task_list[a])
      BY DEF priority
    <3>. QED  BY <1>5 DEF IndInv, SortedInv
  <2>2. CASE j < k
    BY <1>5, <1>7, <2>1, <2>2
  <2>3. CASE j = k
    BY <1>5, <1>7, <2>3
  <2>4. CASE j > k /\ i < k
    BY <1>5, <1>7, <2>1, <2>4
  <2>5. CASE i = k
    <3>. task_list'[i] = l /\ task_list'[j] = task_list[j - 1] /\ j - 1 \in 1 .. Len(task_list)
         /\ k <= j - 1 /\ k \in 1 .. Len(task_list)
      BY <1>5, <1>7, <2>5
    <3>. priority(l) < priority(task_list[k]) /\ priority(task_list[k]) <= priority(task_list[j - 1])
      BY <1>5, <1>7, <2>1
    <3>. QED  BY DEF priority
  <2>6. CASE i > k
    <3>. task_list'[i] = task_list[i - 1] /\ task_list'[j] = task_list[j - 1]
         /\ i - 1 \in 1 .. Len(task_list) /\ j - 1 \in 1 .. Len(task_list) /\ i - 1 <= j - 1
      BY <1>5, <1>7, <2>6
    <3>. QED  BY <2>1
  <2>. QED  BY <1>5, <2>2, <2>3, <2>4, <2>5, <2>6
<1>13. TimerInv'
  <2>. \A t \in Threads : \A i \in Depths(t)' : stack'[t][i].line = "timer" =>
         /\ i \in Depths(t) /\ stack[t][i].line = "timer"
         /\ Masks(stack'[t][i]) => Masks(stack[t][i])
    BY <1>2, <1>3, <1>4 DEF l, Masks, Active
  <2>. \A t \in Threads : \A i \in Depths(t) : Masks(stack[t][i]) =>
         i \in Depths(t)' /\ Masks(stack'[t][i])
    BY <1>2, <1>3, <1>4 DEF l, Masks, Active
  <2>. QED  BY <1>1, <1>2, TimerKept DEF IndInv
<1>14. WaitInv'
  <2>1. \A t \in Threads : \A i \in Depths(t) : Masks(stack[t][i]) /\ stack[t][i].pc # "add" =>
          Masks(stack'[t][i]) /\ stack'[t][i].pc # "add"
    BY <1>2, <1>4
  <2>2. \A t \in Threads : \A i \in Depths(t) : RunsTimer(stack'[t][i]) => RunsTimer(stack[t][i])
    BY <1>10, <1>4 DEF SameRuns, RunsTimer
  <2>3. ASSUME NEW t \in Threads, NEW i \in Depths(t), RunsTimer(stack'[t][i])
        PROVE  t = curr_thread /\ \E j \in 1 .. i : Masks(stack'[t][j]) /\ stack'[t][j].pc # "add"
    <3>. t = curr_thread /\ \E j \in 1 .. i : Masks(stack[t][j]) /\ stack[t][j].pc # "add"
      BY <2>2, <2>3 DEF IndInv, WaitInv
    <3>. \A j \in 1 .. i : j \in Depths(t)
      BY <1>2 DEF Depths
    <3>. QED  BY <2>1
  <2>4. CASE l # "timer"
    <3>1. \A i \in 1 .. Len(task_list') : task_list'[i] = "timer" =>
            \/ i < k /\ i \in 1 .. Len(task_list) /\ task_list[i] = "timer"
            \/ i > k /\ i - 1 \in 1 .. Len(task_list) /\ task_list[i - 1] = "timer"
      BY <1>5, <1>6, <1>7, <2>4
    <3>2. \A i, j \in 1 .. Len(task_list') :
            task_list'[i] = "timer" /\ task_list'[j] = "timer" => i = j
      <4>. SUFFICES ASSUME NEW i \in 1 .. Len(task_list'), NEW j \in 1 .. Len(task_list'),
                           task_list'[i] = "timer", task_list'[j] = "timer"
                    PROVE  i = j
        OBVIOUS
      <4>1. \A a, b \in 1 .. Len(task_list) : task_list[a] = "timer" /\ task_list[b] = "timer" => a = b
        BY DEF IndInv, WaitInv
      <4>2. CASE i < k /\ j < k
        BY <1>5, <1>6, <3>1, <4>1, <4>2
      <4>3. CASE i < k /\ j > k
        <5>. i = j - 1
          BY <1>5, <1>6, <3>1, <4>1, <4>3
        <5>. QED  BY <1>5, <1>6, <4>3
      <4>4. CASE i > k /\ j < k
        <5>. j = i - 1
          BY <1>5, <1>6, <3>1, <4>1, <4>4
        <5>. QED  BY <1>5, <1>6, <4>4
      <4>5. CASE i > k /\ j > k
        <5>1. /\ i - 1 \in 1 .. Len(task_list) /\ task_list[i - 1] = "timer"
              /\ j - 1 \in 1 .. Len(task_list) /\ task_list[j - 1] = "timer"
          BY <1>5, <1>6, <3>1, <4>5
        <5>2. i - 1 = j - 1
          BY <4>1, <5>1
        <5>. QED  BY <1>5, <1>6, <5>2
      <4>. QED  BY <1>5, <1>6, <3>1, <4>2, <4>3, <4>4, <4>5
    <3>3. ASSUME \E i \in 1 .. Len(task_list') : task_list'[i] = "timer"
          PROVE  /\ ~SomeTimer'
                 /\ \E i \in Depths(curr_thread) : /\ Masks(stack'[curr_thread][i])
                                                    /\ stack'[curr_thread][i].pc # "add"
      <4>. \E i \in 1 .. Len(task_list) : task_list[i] = "timer"
        BY <3>1, <3>3
      <4>. /\ ~SomeTimer
           /\ \E i \in Depths(curr_thread) : /\ Masks(stack[curr_thread][i])
                                              /\ stack[curr_thread][i].pc # "add"
        BY DEF IndInv, WaitInv
      <4>. QED  BY <1>2, <1>11, <2>1
    <3>. QED  BY <1>1, <1>2, <1>4, <2>3, <3>2, <3>3 DEF WaitInv, Masks, RunsTimer, Runs
  <2>5. CASE l = "timer"
    <3>1. Masks(Inner)
      BY <1>2, <2>5 DEF Masks, Active, l
    <3>2. \A i \in Depths(curr_thread) : Masks(stack[curr_thread][i]) => stack[curr_thread][i].pc = "add"
      BY <1>1, <1>2, <3>1, InnerMasks
    <3>3. \A i \in 1 .. Len(task_list) : task_list[i] # "timer"
      BY <3>2 DEF IndInv, WaitInv
    <3>4. ~SomeTimer
      <4>. SUFFICES ASSUME NEW t \in Threads, NEW i \in Depths(t), RunsTimer(stack[t][i])
                    PROVE  FALSE
        BY DEF SomeTimer
      <4>. t = curr_thread /\ \E j \in 1 .. i : Masks(stack[t][j]) /\ stack[t][j].pc # "add"
        BY DEF IndInv, WaitInv
      <4>. \A j \in 1 .. i : j \in Depths(t)
        BY <1>2 DEF Depths
      <4>. QED  BY <3>2
    <3>5. \A i \in 1 .. Len(task_list') : task_list'[i] = "timer" => i = k
      <4>. SUFFICES ASSUME NEW i \in 1 .. Len(task_list) + 1, i # k
                    PROVE  task_list'[i] # "timer"
        BY <1>6
      <4>1. CASE i < k
        <5>. i \in 1 .. Len(task_list) /\ task_list'[i] = task_list[i]
          BY <1>5, <1>7, <4>1
        <5>. QED  BY <3>3
      <4>2. CASE i > k
        <5>. i - 1 \in 1 .. Len(task_list) /\ task_list'[i] = task_list[i - 1]
          BY <1>5, <1>7, <4>2
        <5>. QED  BY <3>3
      <4>. QED  BY <1>5, <4>1, <4>2
    <3>6. Masks(stack'[curr_thread][n]) /\ stack'[curr_thread][n].pc # "add"
      BY <1>2, <1>3, <1>4, <2>5 DEF Masks, Active
    <3>. QED  BY <1>1, <1>2, <1>4, <1>11, <2>3, <3>4, <3>5, <3>6 DEF WaitInv, Masks, RunsTimer, Runs
  <2>. QED  BY <2>4, <2>5
<1>. QED  BY <1>8, <1>9, <1>10, <1>11, <1>12, <1>13, <1>14 DEF IndInv

(* StartTask: the first task, more urgent than those in progress. *)
LEMMA StartStep ==
  ASSUME IndInv, StartTask
  PROVE  IndInv'
<1>. DEFINE l == Head(task_list)
            f == [Inner EXCEPT !.pc = "task", !.task = l, !.prev = curr_task_priority]
<1>1. /\ At("loop") /\ task_list # <<>> /\ MayStart(l) /\ SetInner(f)
      /\ task_list' = Tail(task_list) /\ curr_task_priority' = priority(l)
      /\ UNCHANGED <<enabled, parked, curr_thread, dead>>
  BY DEF StartTask
<1>2. /\ n \in Depths(curr_thread) /\ n \in Nat /\ curr_thread \in Threads
      /\ Inner = stack[curr_thread][n] /\ Inner \in Frames /\ Inner.pc = "loop"
      /\ \A t \in Threads : Len(stack[t]) \in Nat
      /\ \A j \in Depths(curr_thread) : ~(j > n)
  BY <1>1, InnerFacts, StackFacts DEF IndInv
<1>3. /\ task_list \in Seq(Lines) /\ Len(task_list) \in Nat \ {0} /\ l = task_list[1] /\ l \in Lines
      /\ task_list' \in Seq(Lines) /\ Len(task_list') = Len(task_list) - 1
      /\ \A i \in 1 .. Len(task_list') : task_list'[i] = task_list[i + 1]
  BY <1>1, EmptySeq, LenProperties, HeadTailProperties DEF IndInv, TypeOK
<1>4. /\ f \in Frames /\ f.line = Inner.line /\ f.pc = "task" /\ f.task = l
      /\ f.prev = curr_task_priority
  BY <1>2, <1>3 DEF Frames, Active, IndInv, TypeOK
<1>. HIDE DEF f, l
<1>5. /\ stack' \in [Threads -> Seq(Frames)]
      /\ \A t \in Threads : Len(stack'[t]) = Len(stack[t]) /\ Depths(t)' = Depths(t)
      /\ \A t \in Threads : \A i \in Depths(t) :
           stack'[t][i] = IF t = curr_thread /\ i = n THEN f ELSE stack[t][i]
  BY <1>1, <1>4, SetFacts
<1>6. ~Runs(Inner) /\ Runs(f)
  BY <1>2, <1>4 DEF Runs
<1>7. TypeOK'
  BY <1>1, <1>3, <1>5 DEF IndInv, TypeOK, priority
<1>8. FramesInv'
  <2>. SUFFICES ASSUME NEW t \in Threads, NEW i \in Depths(t)
                PROVE  /\ stack'[t][i].pc \in {"schedule", "resume"} => stack'[t][i].line = "timer"
                       /\ Runs(stack'[t][i]) <=> stack'[t][i].task # "none"
    BY <1>5 DEF FramesInv, Runs
  <2>. QED  BY <1>2, <1>3, <1>4, <1>5 DEF IndInv, FramesInv, Runs, Lines
<1>9. SortedInv'
  BY <1>3 DEF IndInv, SortedInv
<1>10. TimerInv'
  <2>. \A t \in Threads : \A i \in Depths(t)' : stack'[t][i].line = "timer" =>
         /\ i \in Depths(t) /\ stack[t][i].line = "timer"
         /\ Masks(stack'[t][i]) => Masks(stack[t][i])
    BY <1>2, <1>4, <1>5 DEF Masks, Active
  <2>. \A t \in Threads : \A i \in Depths(t) : Masks(stack[t][i]) =>
         i \in Depths(t)' /\ Masks(stack'[t][i])
    BY <1>2, <1>4, <1>5 DEF Masks, Active
  <2>. QED  BY <1>1, <1>2, TimerKept DEF IndInv
<1>11. \A t \in Threads : \A i \in Depths(t) : Masks(stack[t][i]) /\ stack[t][i].pc # "add" =>
          Masks(stack'[t][i]) /\ stack'[t][i].pc # "add"
  BY <1>2, <1>4, <1>5 DEF Masks, Active
<1>12. CASE l = "timer"
  <2>0. RunsTimer(f) /\ ~RunsUart(f)
    BY <1>4, <1>6, <1>12 DEF RunsTimer, RunsUart
  <2>1. ~SomeTimer /\ \E i \in Depths(curr_thread) : /\ Masks(stack[curr_thread][i])
                                                   /\ stack[curr_thread][i].pc # "add"
    <3>. 1 \in 1 .. Len(task_list) /\ task_list[1] = "timer"
      BY <1>3, <1>12
    <3>. QED  BY DEF IndInv, WaitInv
  <2>2. \A t \in Threads : \A i \in Depths(t) : RunsTimer(stack'[t][i]) <=> t = curr_thread /\ i = n
    BY <1>5, <2>0, <2>1 DEF SomeTimer
  <2>3. \A t \in Threads : \A i \in Depths(t) : RunsUart(stack'[t][i]) <=> RunsUart(stack[t][i])
    BY <1>2, <1>5, <1>6, <2>0 DEF RunsUart
  <2>4. \A i \in 1 .. Len(task_list') : task_list'[i] # "timer"
    <3>. SUFFICES ASSUME NEW i \in 1 .. Len(task_list'), task_list'[i] = "timer"
                  PROVE  FALSE
      OBVIOUS
    <3>1. i + 1 \in 1 .. Len(task_list) /\ 1 \in 1 .. Len(task_list) /\ task_list[i + 1] = "timer"
          /\ task_list[1] = "timer"
      BY <1>3, <1>12
    <3>2. i + 1 = 1
      BY <3>1 DEF IndInv, WaitInv
    <3>. QED  BY <3>2
  <2>5. WaitInv'
    <3>1. PICK i \in Depths(curr_thread) : Masks(stack[curr_thread][i]) /\ stack[curr_thread][i].pc # "add"
      BY <2>1
    <3>2. i \in 1 .. n /\ Masks(stack'[curr_thread][i]) /\ stack'[curr_thread][i].pc # "add"
      BY <1>2, <1>11, <3>1 DEF Depths, n
    <3>3. ASSUME NEW t \in Threads, NEW k \in Depths(t)', RunsTimer(stack'[t][k])
          PROVE  /\ t = curr_thread'
                 /\ \E j \in 1 .. k : Masks(stack'[t][j]) /\ stack'[t][j].pc # "add"
      <4>. t = curr_thread /\ k = n
        BY <1>5, <2>2, <3>3
      <4>. QED  BY <1>1, <3>2
    <3>4. /\ \A k, j \in 1 .. Len(task_list') :
               task_list'[k] = "timer" /\ task_list'[j] = "timer" => k = j
          /\ ~\E k \in 1 .. Len(task_list') : task_list'[k] = "timer"
      BY <2>4
    <3>. QED  BY <3>3, <3>4 DEF WaitInv, Masks, RunsTimer, Runs
  <2>6. (SomeUart' <=> SomeUart) /\ SomeTimer'
    <3>1. SomeUart' <=> SomeUart
      BY <1>5, <2>3 DEF SomeUart, RunsUart, Runs
    <3>2. \E t \in Threads : \E i \in Depths(t)' : RunsTimer(stack'[t][i])
      BY <1>2, <1>5, <2>2
    <3>3. SomeTimer'
      BY <3>2 DEF SomeTimer, RunsTimer, Runs
    <3>. QED  BY <3>1, <3>3
  <2>7. curr_task_priority = IF SomeUart THEN 1 ELSE NO_TASK
    BY <2>1 DEF IndInv, PriorityInv
  <2>8. PriorityInv'
    <3>1. \A t, u \in Threads : \A i \in Depths(t), j \in Depths(u) :
            RunsUart(stack'[t][i]) /\ RunsUart(stack'[u][j]) => t = u /\ i = j
      BY <2>3 DEF IndInv, PriorityInv
    <3>2. \A t \in Threads : \A i, j \in Depths(t) :
            RunsUart(stack'[t][i]) /\ RunsTimer(stack'[t][j]) => i < j
      <4>. SUFFICES ASSUME NEW i \in Depths(curr_thread), RunsUart(stack'[curr_thread][i])
                    PROVE  i < n
        BY <2>2
      <4>. i # n /\ i \in 1 .. n
        BY <1>2, <1>5, <2>0 DEF Depths, n
      <4>. QED  BY <1>2
    <3>3. \A t \in Threads : \A i \in Depths(t) :
            /\ RunsUart(stack'[t][i])  => stack'[t][i].prev = NO_TASK
            /\ RunsTimer(stack'[t][i]) => stack'[t][i].prev = IF SomeUart' THEN 1 ELSE NO_TASK
      <4>. SUFFICES ASSUME NEW t \in Threads, NEW i \in Depths(t)
                    PROVE  /\ RunsUart(stack'[t][i])  => stack'[t][i].prev = NO_TASK
                           /\ RunsTimer(stack'[t][i]) => stack'[t][i].prev = IF SomeUart' THEN 1 ELSE NO_TASK
        OBVIOUS
      <4>1. CASE t = curr_thread /\ i = n
        BY <1>4, <1>5, <2>0, <2>6, <2>7, <4>1
      <4>2. CASE ~(t = curr_thread /\ i = n)
        <5>. stack'[t][i] = stack[t][i]
          BY <1>5, <4>2
        <5>. QED  BY <2>2, <4>2 DEF IndInv, PriorityInv
      <4>. QED  BY <4>1, <4>2
    <3>4. curr_task_priority' = 0
      BY <1>1, <1>12 DEF priority
    <3>. QED  BY <1>5, <2>2, <2>6, <3>1, <3>2, <3>3, <3>4 DEF PriorityInv, RunsUart, RunsTimer, Runs, NO_TASK
  <2>. QED  BY <1>7, <1>8, <1>9, <1>10, <2>5, <2>8 DEF IndInv
<1>13. CASE l # "timer"
  <2>0. RunsUart(f) /\ ~RunsTimer(f)
    BY <1>3, <1>4, <1>6, <1>13 DEF RunsTimer, RunsUart, Lines
  <2>1. ~SomeTimer /\ ~SomeUart
    BY <1>1, <1>13 DEF IndInv, PriorityInv, MayStart, priority, NO_TASK
  <2>2. \A t \in Threads : \A i \in Depths(t) : RunsUart(stack'[t][i]) <=> t = curr_thread /\ i = n
    BY <1>5, <2>0, <2>1 DEF SomeUart
  <2>3. \A t \in Threads : \A i \in Depths(t) : ~RunsTimer(stack'[t][i])
    BY <1>5, <2>0, <2>1 DEF SomeTimer
  <2>4. ~SomeTimer' /\ SomeUart'
    BY <1>2, <1>5, <2>2, <2>3 DEF SomeUart, SomeTimer, RunsUart, RunsTimer, Runs
  <2>5. curr_task_priority = NO_TASK /\ curr_task_priority' = 1
    BY <1>1, <1>13, <2>1 DEF IndInv, PriorityInv, priority
  <2>6. PriorityInv'
    <3>1. \A t, u \in Threads : \A i \in Depths(t)', j \in Depths(u)' :
            RunsUart(stack'[t][i]) /\ RunsUart(stack'[u][j]) => t = u /\ i = j
      BY <1>5, <2>2
    <3>2. \A t \in Threads : \A i \in Depths(t)' : ~RunsTimer(stack'[t][i])
      BY <1>5, <2>3
    <3>3. \A t \in Threads : \A i \in Depths(t)' :
            RunsUart(stack'[t][i]) => stack'[t][i].prev = NO_TASK
      BY <1>2, <1>4, <1>5, <2>2, <2>5
    <3>. QED  BY <2>4, <2>5, <3>1, <3>2, <3>3 DEF PriorityInv, RunsUart, RunsTimer, Runs, NO_TASK
  <2>7. WaitInv'
    <3>1. \A i \in 1 .. Len(task_list') : task_list'[i] = "timer" =>
            i + 1 \in 1 .. Len(task_list) /\ task_list[i + 1] = "timer"
      BY <1>3
    <3>2. \A i, j \in 1 .. Len(task_list') :
            task_list'[i] = "timer" /\ task_list'[j] = "timer" => i = j
      <4>. SUFFICES ASSUME NEW i \in 1 .. Len(task_list'), NEW j \in 1 .. Len(task_list'),
                           task_list'[i] = "timer", task_list'[j] = "timer"
                    PROVE  i = j
        OBVIOUS
      <4>1. /\ i + 1 \in 1 .. Len(task_list) /\ task_list[i + 1] = "timer"
            /\ j + 1 \in 1 .. Len(task_list) /\ task_list[j + 1] = "timer"
        BY <3>1
      <4>2. i + 1 = j + 1
        BY <4>1 DEF IndInv, WaitInv
      <4>. QED  BY <1>3, <4>2
    <3>3. ASSUME \E i \in 1 .. Len(task_list') : task_list'[i] = "timer"
          PROVE  \E i \in Depths(curr_thread) : /\ Masks(stack'[curr_thread][i])
                                                /\ stack'[curr_thread][i].pc # "add"
      <4>. \E i \in 1 .. Len(task_list) : task_list[i] = "timer"
        BY <3>1, <3>3
      <4>. \E i \in Depths(curr_thread) : /\ Masks(stack[curr_thread][i])
                                          /\ stack[curr_thread][i].pc # "add"
        BY DEF IndInv, WaitInv
      <4>. QED  BY <1>2, <1>11
    <3>. QED  BY <1>1, <1>2, <1>5, <2>3, <2>4, <3>2, <3>3 DEF WaitInv, Masks, RunsTimer, Runs
  <2>. QED  BY <1>7, <1>8, <1>9, <1>10, <2>6, <2>7 DEF IndInv
<1>. QED  BY <1>12, <1>13

(* RunTask: the task has done its work; it is still in progress. *)
LEMMA RunStep ==
  ASSUME IndInv, RunTask
  PROVE  IndInv' /\ SameRuns
<1>. DEFINE f == [Inner EXCEPT !.pc = "ran"]
<1>1. /\ At("task") /\ SetInner(f)
      /\ UNCHANGED <<task_list, curr_task_priority, curr_thread, dead>>
      /\ \/ UNCHANGED <<enabled, parked>>
         \/ Inner.task # "timer" /\ enabled' = enabled \cup {Inner.task} /\ parked' = parked \ {Inner.task}
         \/ Inner.task # "timer" /\ enabled' = enabled \ {Inner.task} /\ parked' = parked \cup {Inner.task}
  BY DEF RunTask
<1>2. /\ n \in Depths(curr_thread) /\ n \in Nat /\ curr_thread \in Threads
      /\ Inner = stack[curr_thread][n] /\ Inner \in Frames /\ Inner.pc = "task"
      /\ \A t \in Threads : Len(stack[t]) \in Nat
  BY <1>1, InnerFacts, StackFacts DEF IndInv
<1>3. /\ f \in Frames /\ f.line = Inner.line /\ f.pc = "ran" /\ f.task = Inner.task
      /\ f.prev = Inner.prev
  BY <1>2 DEF Frames, Active
<1>. HIDE DEF f
<1>4. /\ stack' \in [Threads -> Seq(Frames)]
      /\ \A t \in Threads : Len(stack'[t]) = Len(stack[t]) /\ Depths(t)' = Depths(t)
      /\ \A t \in Threads : \A i \in Depths(t) :
           stack'[t][i] = IF t = curr_thread /\ i = n THEN f ELSE stack[t][i]
  BY <1>1, <1>3, SetFacts
<1>5. Inner.task \in Lines
  BY <1>2 DEF IndInv, FramesInv, Runs, Frames
<1>6. TypeOK'
  BY <1>1, <1>4, <1>5 DEF IndInv, TypeOK, Lines
<1>7. FramesInv'
  <2>. SUFFICES ASSUME NEW t \in Threads, NEW i \in Depths(t)
                PROVE  /\ stack'[t][i].pc \in {"schedule", "resume"} => stack'[t][i].line = "timer"
                       /\ Runs(stack'[t][i]) <=> stack'[t][i].task # "none"
    BY <1>4 DEF FramesInv, Runs
  <2>. QED  BY <1>2, <1>3, <1>4 DEF IndInv, FramesInv, Runs
<1>8. SameRuns
  BY <1>2, <1>3, <1>4 DEF SameRuns, Runs
<1>9. PriorityInv' /\ SortedInv'
  BY <1>1, <1>8, PriorityKept DEF IndInv, SortedInv
<1>10. WaitInv'
  <2>. \A t \in Threads : \A i \in Depths(t)' : RunsTimer(stack'[t][i]) =>
         i \in Depths(t) /\ RunsTimer(stack[t][i])
    BY <1>4, <1>8 DEF SameRuns, RunsTimer
  <2>. \A t \in Threads : \A i \in Depths(t) : Masks(stack[t][i]) /\ stack[t][i].pc # "add" =>
           i \in Depths(t)' /\ Masks(stack'[t][i]) /\ stack'[t][i].pc # "add"
    BY <1>2, <1>3, <1>4 DEF Masks, Active
  <2>. QED  BY <1>1, <1>2, WaitKept DEF IndInv
<1>11. TimerInv'
  <2>. \A t \in Threads : \A i \in Depths(t)' : stack'[t][i].line = "timer" =>
         /\ i \in Depths(t) /\ stack[t][i].line = "timer"
         /\ Masks(stack'[t][i]) => Masks(stack[t][i])
    BY <1>2, <1>3, <1>4 DEF Masks, Active
  <2>. \A t \in Threads : \A i \in Depths(t) : Masks(stack[t][i]) =>
         i \in Depths(t)' /\ Masks(stack'[t][i])
    BY <1>2, <1>3, <1>4 DEF Masks, Active
  <2>. "timer" \in enabled' <=> "timer" \in enabled
    BY <1>1
  <2>. QED  BY <1>1, <1>2, TimerKept DEF IndInv
<1>. QED  BY <1>6, <1>7, <1>8, <1>9, <1>10, <1>11 DEF IndInv

(* A frame is popped that neither masks the timer's line nor runs a task. *)
LEMMA PopStep ==
  ASSUME IndInv, NEW p, At(p), ~Masks(Inner), ~Runs(Inner),
         stack' = [stack EXCEPT ![curr_thread] = Front(@)],
         UNCHANGED <<enabled, parked, task_list, curr_task_priority, curr_thread, dead>>
  PROVE  IndInv' /\ SameRuns
<1>1. /\ n \in Depths(curr_thread) /\ n \in Nat /\ n > 0 /\ curr_thread \in Threads
      /\ Inner = stack[curr_thread][n] /\ TypeOK
      /\ \A t \in Threads : Len(stack[t]) \in Nat
  BY InnerFacts, StackFacts DEF IndInv
<1>2. /\ stack' \in [Threads -> Seq(Frames)]
      /\ Len(stack'[curr_thread]) = n - 1
      /\ \A t \in Threads : t # curr_thread => stack'[t] = stack[t]
      /\ \A t \in Threads : \A i \in Depths(t)' : i \in Depths(t) /\ stack'[t][i] = stack[t][i]
  BY <1>1, InnerPopped DEF Depths
<1>3. \A t \in Threads : \A i \in Depths(t) : (t = curr_thread /\ i = n) \/ i \in Depths(t)'
  <2>. SUFFICES ASSUME NEW t \in Threads, NEW i \in Depths(t)
                PROVE  (t = curr_thread /\ i = n) \/ i \in Depths(t)'
    OBVIOUS
  <2>1. CASE t = curr_thread
    BY <1>1, <1>2, <2>1 DEF Depths, n
  <2>2. CASE t # curr_thread
    BY <1>2, <2>2 DEF Depths
  <2>. QED  BY <2>1, <2>2
<1>4. TypeOK'
  <2>. \A t \in Threads : Len(stack'[t]) <= MAX_DEPTH
    <3>. SUFFICES ASSUME NEW t \in Threads
                  PROVE  Len(stack'[t]) <= MAX_DEPTH
      OBVIOUS
    <3>1. CASE t = curr_thread
      BY <1>1, <1>2, <3>1, IrqTaskAssumption DEF TypeOK, n
    <3>2. CASE t # curr_thread
      BY <1>1, <1>2, <3>2 DEF TypeOK
    <3>. QED  BY <3>1, <3>2
  <2>. QED  BY <1>1, <1>2 DEF TypeOK
<1>5. FramesInv'
  BY <1>2 DEF IndInv, FramesInv, Runs
<1>6. SameRuns
  BY <1>1, <1>2, <1>3 DEF SameRuns
<1>7. PriorityInv' /\ SortedInv'
  BY <1>6, PriorityKept DEF IndInv, SortedInv
<1>8. WaitInv'
  <2>. \A t \in Threads : \A i \in Depths(t)' : RunsTimer(stack'[t][i]) =>
         i \in Depths(t) /\ RunsTimer(stack[t][i])
    BY <1>2
  <2>. \A t \in Threads : \A i \in Depths(t) : Masks(stack[t][i]) /\ stack[t][i].pc # "add" =>
           i \in Depths(t)' /\ Masks(stack'[t][i]) /\ stack'[t][i].pc # "add"
    BY <1>1, <1>2, <1>3
  <2>. QED  BY <1>1, WaitKept DEF IndInv
<1>9. TimerInv'
  <2>. \A t \in Threads : \A i \in Depths(t)' : stack'[t][i].line = "timer" =>
         /\ i \in Depths(t) /\ stack[t][i].line = "timer"
         /\ Masks(stack'[t][i]) => Masks(stack[t][i])
    BY <1>2
  <2>. \A t \in Threads : \A i \in Depths(t) : Masks(stack[t][i]) =>
         i \in Depths(t)' /\ Masks(stack'[t][i])
    BY <1>1, <1>2, <1>3
  <2>. QED  BY <1>1, TimerKept DEF IndInv
<1>. QED  BY <1>4, <1>5, <1>6, <1>7, <1>8, <1>9 DEF IndInv

(* Resume: a timer interrupt returns. *)
LEMMA ResumeStep ==
  ASSUME IndInv, Resume
  PROVE  IndInv' /\ SameRuns
<1>1. /\ At("resume") /\ stack' = [stack EXCEPT ![curr_thread] = Front(@)]
      /\ UNCHANGED <<enabled, parked, task_list, curr_task_priority, curr_thread, dead>>
  BY DEF Resume
<1>2. ~Masks(Inner) /\ ~Runs(Inner)
  <2>. Inner.pc = "resume"
    BY <1>1 DEF At, Inner
  <2>. QED  BY DEF Masks, Active, Runs
<1>. QED  BY <1>1, <1>2, PopStep

(* EndTask: the priority is what it was before the task started. *)
LEMMA EndStep ==
  ASSUME IndInv, EndTask
  PROVE  IndInv'
<1>. DEFINE f == [Inner EXCEPT !.pc = "loop", !.task = "none", !.prev = NO_TASK]
<1>1. /\ At("ran") /\ SetInner(f) /\ curr_task_priority' = Inner.prev
      /\ UNCHANGED <<enabled, parked, task_list, curr_thread, dead>>
  BY DEF EndTask
<1>2. /\ n \in Depths(curr_thread) /\ n \in Nat /\ curr_thread \in Threads
      /\ Inner = stack[curr_thread][n] /\ Inner \in Frames /\ Inner.pc = "ran"
      /\ \A t \in Threads : Len(stack[t]) \in Nat
      /\ \A j \in Depths(curr_thread) : j # n => j < n
  BY <1>1, InnerFacts, StackFacts DEF IndInv, Depths
<1>3. f \in Frames /\ f.line = Inner.line /\ f.pc = "loop" /\ f.task = "none"
  BY <1>2 DEF Frames, Active
<1>. HIDE DEF f
<1>4. /\ stack' \in [Threads -> Seq(Frames)]
      /\ \A t \in Threads : Len(stack'[t]) = Len(stack[t]) /\ Depths(t)' = Depths(t)
      /\ \A t \in Threads : \A i \in Depths(t) :
           stack'[t][i] = IF t = curr_thread /\ i = n THEN f ELSE stack[t][i]
  BY <1>1, <1>3, SetFacts
<1>5. ~Runs(f) /\ Runs(Inner) /\ (RunsTimer(Inner) \/ RunsUart(Inner))
  BY <1>2, <1>3 DEF Runs, RunsTimer, RunsUart, IndInv, FramesInv, Frames, Lines
<1>6. TypeOK'
  BY <1>1, <1>2, <1>4 DEF IndInv, TypeOK, Frames
<1>7. FramesInv'
  <2>. SUFFICES ASSUME NEW t \in Threads, NEW i \in Depths(t)
                PROVE  /\ stack'[t][i].pc \in {"schedule", "resume"} => stack'[t][i].line = "timer"
                       /\ Runs(stack'[t][i]) <=> stack'[t][i].task # "none"
    BY <1>4 DEF FramesInv, Runs
  <2>. QED  BY <1>2, <1>3, <1>4, <1>5 DEF IndInv, FramesInv
<1>8. SortedInv'
  BY <1>1 DEF IndInv, SortedInv
<1>9. \A t \in Threads : \A i \in Depths(t)' : Runs(stack'[t][i]) <=>
        i \in Depths(t) /\ ~(t = curr_thread /\ i = n) /\ Runs(stack[t][i])
  BY <1>4, <1>5
<1>10. WaitInv'
  <2>. \A t \in Threads : \A i \in Depths(t)' : RunsTimer(stack'[t][i]) =>
         i \in Depths(t) /\ RunsTimer(stack[t][i])
    BY <1>4, <1>5 DEF RunsTimer
  <2>. \A t \in Threads : \A i \in Depths(t) : Masks(stack[t][i]) /\ stack[t][i].pc # "add" =>
           i \in Depths(t)' /\ Masks(stack'[t][i]) /\ stack'[t][i].pc # "add"
    BY <1>2, <1>3, <1>4 DEF Masks, Active
  <2>. QED  BY <1>1, <1>2, WaitKept DEF IndInv
<1>11. TimerInv'
  <2>. \A t \in Threads : \A i \in Depths(t)' : stack'[t][i].line = "timer" =>
         /\ i \in Depths(t) /\ stack[t][i].line = "timer"
         /\ Masks(stack'[t][i]) => Masks(stack[t][i])
    BY <1>2, <1>3, <1>4 DEF Masks, Active
  <2>. \A t \in Threads : \A i \in Depths(t) : Masks(stack[t][i]) =>
         i \in Depths(t)' /\ Masks(stack'[t][i])
    BY <1>2, <1>3, <1>4 DEF Masks, Active
  <2>. QED  BY <1>1, <1>2, TimerKept DEF IndInv
<1>12. ~SomeTimer'
  <2>. SUFFICES ASSUME NEW t \in Threads, NEW i \in Depths(t),
                       ~(t = curr_thread /\ i = n), RunsTimer(stack[t][i])
                PROVE  FALSE
    BY <1>4, <1>5 DEF SomeTimer, RunsTimer, Runs
  <2>1. CASE RunsTimer(Inner)
    BY <1>2, <2>1 DEF IndInv, PriorityInv
  <2>2. CASE RunsUart(Inner)
    <3>. t = curr_thread
      BY DEF IndInv, WaitInv
    <3>. n < i
      BY <1>2, <2>2 DEF IndInv, PriorityInv
    <3>. i < n
      BY <1>2
    <3>. QED  BY <1>2 DEF Depths
  <2>. QED  BY <1>5, <2>1, <2>2
<1>13. curr_task_priority' = IF SomeUart' THEN 1 ELSE NO_TASK
  <2>1. CASE RunsTimer(Inner)
    <3>1. \A t \in Threads : \A i \in Depths(t) : RunsUart(stack'[t][i]) <=> RunsUart(stack[t][i])
      BY <1>2, <1>4, <1>5, <2>1 DEF RunsUart, RunsTimer
    <3>2. SomeUart' <=> SomeUart
      BY <1>4, <3>1 DEF SomeUart, RunsUart, Runs
    <3>. QED  BY <1>1, <1>2, <2>1, <3>2 DEF IndInv, PriorityInv
  <2>2. CASE RunsUart(Inner)
    <3>1. \A t \in Threads : \A i \in Depths(t) : ~RunsUart(stack'[t][i])
      <4>. SUFFICES ASSUME NEW t \in Threads, NEW i \in Depths(t), RunsUart(stack'[t][i])
                    PROVE  FALSE
        OBVIOUS
      <4>1. ~(t = curr_thread /\ i = n) /\ RunsUart(stack[t][i])
        BY <1>4, <1>5 DEF RunsUart
      <4>. QED  BY <1>2, <2>2, <4>1 DEF IndInv, PriorityInv
    <3>2. ~SomeUart'
      BY <1>4, <3>1 DEF SomeUart, RunsUart, Runs
    <3>. QED  BY <1>1, <1>2, <2>2, <3>2 DEF IndInv, PriorityInv
  <2>. QED  BY <1>5, <2>1, <2>2
<1>14. PriorityInv'
  <2>1. \A t \in Threads : \A i \in Depths(t)' : ~RunsTimer(stack'[t][i])
    BY <1>12 DEF SomeTimer, RunsTimer, Runs
  <2>2. \A t \in Threads : \A i \in Depths(t)' : RunsUart(stack'[t][i]) =>
          /\ i \in Depths(t) /\ RunsUart(stack[t][i]) /\ stack'[t][i] = stack[t][i]
    BY <1>4, <1>5 DEF RunsUart
  <2>3. \A t, u \in Threads : \A i \in Depths(t)', j \in Depths(u)' :
          RunsUart(stack'[t][i]) /\ RunsUart(stack'[u][j]) => t = u /\ i = j
    BY <2>2 DEF IndInv, PriorityInv
  <2>4. \A t \in Threads : \A i \in Depths(t)' :
          RunsUart(stack'[t][i]) => stack'[t][i].prev = NO_TASK
    BY <2>2 DEF IndInv, PriorityInv
  <2>. QED  BY <1>12, <1>13, <2>1, <2>3, <2>4 DEF PriorityInv, RunsUart, RunsTimer, Runs, NO_TASK
<1>. QED  BY <1>6, <1>7, <1>8, <1>10, <1>11, <1>14 DEF IndInv

(* LeaveLoop: the innermost interrupt is over, or on its way to schedule;  *)
(* a timer interrupt leaves with its task done.                            *)
LEMMA LeaveStep ==
  ASSUME IndInv, LeaveLoop
  PROVE  IndInv' /\ SameRuns
<1>. DEFINE f == [Inner EXCEPT !.pc = "schedule"]
<1>1. /\ At("loop") /\ (task_list # <<>> => ~MayStart(Head(task_list)))
      /\ UNCHANGED <<parked, task_list, curr_task_priority, curr_thread, dead>>
      /\ \/ Inner.line = "timer" /\ SetInner(f) /\ enabled' = enabled \cup {"timer"}
         \/ /\ Inner.line # "timer" /\ enabled' = enabled
            /\ stack' = [stack EXCEPT ![curr_thread] = Front(@)]
  BY DEF LeaveLoop
<1>2. /\ n \in Depths(curr_thread) /\ n \in Nat /\ n > 0 /\ curr_thread \in Threads
      /\ Inner = stack[curr_thread][n] /\ Inner \in Frames /\ Inner.pc = "loop"
      /\ \A t \in Threads : Len(stack[t]) \in Nat
      /\ ~Runs(Inner)
  BY <1>1, InnerFacts, StackFacts DEF IndInv, Runs
<1>3. CASE Inner.line = "timer"
  <2>0. /\ SetInner(f) /\ enabled' = enabled \cup {"timer"}
        /\ f \in Frames /\ f.line = "timer" /\ f.pc = "schedule" /\ f.task = Inner.task
    BY <1>1, <1>2, <1>3 DEF Frames, Active
  <2>. HIDE DEF f
  <2>1. /\ stack' \in [Threads -> Seq(Frames)]
        /\ \A t \in Threads : Len(stack'[t]) = Len(stack[t]) /\ Depths(t)' = Depths(t)
        /\ \A t \in Threads : \A i \in Depths(t) :
             stack'[t][i] = IF t = curr_thread /\ i = n THEN f ELSE stack[t][i]
    BY <1>1, <2>0, SetFacts
  <2>2. Masks(Inner) /\ ~Masks(f) /\ ~Runs(f)
    BY <1>2, <1>3, <2>0 DEF Masks, Active, Runs
  <2>3. \A t \in Threads : \A i \in Depths(t) : ~Masks(stack'[t][i])
    <3>. \A t \in Threads : \A i \in Depths(t) : Masks(stack[t][i]) => t = curr_thread /\ i = n
      BY <1>1, <2>2, InnerMasks
    <3>. QED  BY <2>1, <2>2
  <2>4. SameRuns
    BY <1>2, <2>1, <2>2 DEF SameRuns
  <2>5. \A t \in Threads : \A i \in Depths(t) : ~RunsTimer(stack[t][i])
    <3>. SUFFICES ASSUME NEW t \in Threads, NEW i \in Depths(t), RunsTimer(stack[t][i])
                  PROVE  FALSE
      OBVIOUS
    <3>1. t = curr_thread
      BY DEF IndInv, WaitInv
    <3>2. PICK j \in 1 .. i : Masks(stack[t][j])
      BY DEF IndInv, WaitInv
    <3>3. j \in Depths(t)
      BY <1>2 DEF Depths
    <3>4. j = n
      BY <1>1, <2>2, <3>1, <3>2, <3>3, InnerMasks
    <3>5. i = n
      BY <1>2, <3>1, <3>4 DEF Depths, n
    <3>. QED  BY <1>2, <3>1, <3>5 DEF RunsTimer
  <2>6. \A i \in 1 .. Len(task_list) : task_list[i] # "timer"
    <3>. SUFFICES ASSUME NEW i \in 1 .. Len(task_list), task_list[i] = "timer"
                  PROVE  FALSE
      OBVIOUS
    <3>1. /\ task_list \in Seq(Lines) /\ Len(task_list) \in Nat \ {0} /\ task_list # <<>>
          /\ 1 \in 1 .. Len(task_list) /\ Head(task_list) = task_list[1] /\ task_list[1] \in Lines
      BY EmptySeq, LenProperties, HeadTailProperties, ElementOfSeq DEF IndInv, TypeOK
    <3>2. priority(task_list[1]) <= 0
      BY <3>1 DEF IndInv, SortedInv, priority
    <3>3. curr_task_priority \in {1, NO_TASK}
      BY <2>5 DEF IndInv, PriorityInv, SomeTimer
    <3>. QED  BY <1>1, <3>1, <3>2, <3>3 DEF MayStart, priority, NO_TASK
  <2>7. TypeOK'
    BY <1>1, <2>0, <2>1 DEF IndInv, TypeOK, Lines
  <2>8. FramesInv'
    <3>. SUFFICES ASSUME NEW t \in Threads, NEW i \in Depths(t)
                  PROVE  /\ stack'[t][i].pc \in {"schedule", "resume"} => stack'[t][i].line = "timer"
                         /\ Runs(stack'[t][i]) <=> stack'[t][i].task # "none"
      BY <2>1 DEF FramesInv, Runs
    <3>. QED  BY <1>2, <2>0, <2>1, <2>2 DEF IndInv, FramesInv
  <2>9. PriorityInv' /\ SortedInv'
    BY <1>1, <2>4, PriorityKept DEF IndInv, SortedInv
  <2>10. TimerInv'
    BY <2>0, <2>1, <2>3 DEF TimerInv, Masks
  <2>11. WaitInv'
    <3>. \A t \in Threads : \A i \in Depths(t)' : ~RunsTimer(stack'[t][i])
      BY <2>1, <2>2, <2>5 DEF RunsTimer
    <3>. QED  BY <1>1, <2>6 DEF WaitInv, RunsTimer, Runs
  <2>. QED  BY <2>4, <2>7, <2>8, <2>9, <2>10, <2>11 DEF IndInv
<1>4. CASE Inner.line # "timer"
  <2>0. enabled' = enabled /\ stack' = [stack EXCEPT ![curr_thread] = Front(@)]
    BY <1>1, <1>4
  <2>1. ~Masks(Inner)
    BY <1>4 DEF Masks
  <2>. QED  BY <1>1, <1>2, <2>0, <2>1, PopStep
<1>. QED  BY <1>3, <1>4

(* schedule: no timer interrupt is in its loop, so that nothing the        *)
(* invariant says of the running thread is left behind.                    *)
LEMMA ScheduleStep ==
  ASSUME IndInv, NEW u \in Threads, schedule(u)
  PROVE  IndInv' /\ SameRuns
<1>. DEFINE f == [Inner EXCEPT !.pc = "resume"]
<1>1. /\ At("schedule") /\ SetInner(f) /\ curr_thread' = u /\ u \notin dead
      /\ UNCHANGED <<enabled, parked, task_list, curr_task_priority, dead>>
  BY DEF schedule
<1>2. /\ n \in Depths(curr_thread) /\ n \in Nat /\ curr_thread \in Threads
      /\ Inner = stack[curr_thread][n] /\ Inner \in Frames /\ Inner.pc = "schedule"
      /\ Inner.line = "timer"
  BY <1>1, InnerFacts DEF IndInv, FramesInv
<1>3. f \in Frames /\ f.line = "timer" /\ f.pc = "resume" /\ f.task = Inner.task
  BY <1>2 DEF Frames, Active
<1>. HIDE DEF f
<1>4. /\ stack' \in [Threads -> Seq(Frames)]
      /\ \A t \in Threads : Len(stack'[t]) = Len(stack[t]) /\ Depths(t)' = Depths(t)
      /\ \A t \in Threads : \A i \in Depths(t) :
           stack'[t][i] = IF t = curr_thread /\ i = n THEN f ELSE stack[t][i]
  BY <1>1, <1>3, SetFacts
<1>5. ~Masks(f) /\ ~Runs(f) /\ ~Runs(Inner)
  BY <1>2, <1>3 DEF Masks, Active, Runs
<1>6. /\ \A t \in Threads : \A i \in Depths(t) : ~Masks(stack[t][i]) /\ ~RunsTimer(stack[t][i])
      /\ "timer" \in enabled
      /\ \A i \in 1 .. Len(task_list) : task_list[i] # "timer"
  BY <1>1, NothingMasks
<1>7. \A t \in Threads : \A i \in Depths(t)' : ~Masks(stack'[t][i]) /\ ~RunsTimer(stack'[t][i])
  BY <1>4, <1>5, <1>6 DEF RunsTimer
<1>8. SameRuns
  BY <1>2, <1>4, <1>5 DEF SameRuns
<1>9. TypeOK'
  BY <1>1, <1>4 DEF IndInv, TypeOK
<1>10. FramesInv'
  <2>. SUFFICES ASSUME NEW t \in Threads, NEW i \in Depths(t)
                PROVE  /\ stack'[t][i].pc \in {"schedule", "resume"} => stack'[t][i].line = "timer"
                       /\ Runs(stack'[t][i]) <=> stack'[t][i].task # "none"
    BY <1>4 DEF FramesInv, Runs
  <2>. QED  BY <1>2, <1>3, <1>4, <1>5 DEF IndInv, FramesInv
<1>11. PriorityInv' /\ SortedInv'
  BY <1>1, <1>8, PriorityKept DEF IndInv, SortedInv
<1>12. TimerInv'
  BY <1>1, <1>6, <1>7 DEF TimerInv, Masks
<1>13. WaitInv'
  BY <1>1, <1>6, <1>7 DEF WaitInv, RunsTimer, Runs
<1>. QED  BY <1>8, <1>9, <1>10, <1>11, <1>12, <1>13 DEF IndInv

(* EnableLine and kill: no interrupt goes on. *)
LEMMA IdleStep ==
  ASSUME IndInv,
         UNCHANGED <<task_list, curr_task_priority, stack, curr_thread>>,
         \/ \E l \in Lines : EnableLine(l)
         \/ \E t \in Threads : kill(t)
         \/ UNCHANGED vars
  PROVE  IndInv' /\ SameRuns
<1>1. /\ enabled' \subseteq Lines /\ parked' \subseteq {"r", "w"}
      /\ dead' \subseteq Threads /\ curr_thread \notin dead'
      /\ "timer" \in enabled' <=> "timer" \in enabled
  BY DEF IndInv, TypeOK, EnableLine, kill, vars
<1>2. TypeOK' /\ FramesInv' /\ SortedInv' /\ curr_thread \in Threads
  BY <1>1 DEF IndInv, TypeOK, FramesInv, SortedInv, Depths, Runs
<1>3. \A t \in Threads : Depths(t)' = Depths(t)
  BY DEF Depths
<1>4. SameRuns
  BY <1>3 DEF SameRuns
<1>5. PriorityInv'
  BY <1>4, PriorityKept DEF IndInv
<1>6. TimerInv'
  BY <1>1, <1>2, <1>3, TimerKept DEF IndInv
<1>7. WaitInv'
  BY <1>2, <1>3, WaitKept, StackFacts DEF IndInv
<1>. QED  BY <1>2, <1>4, <1>5, <1>6, <1>7 DEF IndInv

(* The invariant holds at the start... *)
LEMMA InitInv == Init => IndInv
<1>. SUFFICES ASSUME Init
              PROVE  IndInv
  OBVIOUS
<1>1. /\ \A t \in Threads : stack[t] = <<>> /\ Len(stack[t]) = 0
      /\ stack \in [Threads -> Seq(Frames)] /\ task_list = <<>> /\ Len(task_list) = 0
  BY DEF Init
<1>2. \A t \in Threads : Depths(t) = {}
  BY <1>1 DEF Depths
<1>3. TypeOK
  BY <1>1, IrqTaskAssumption DEF Init, TypeOK
<1>4. FramesInv /\ SortedInv /\ TimerInv
  BY <1>1, <1>2 DEF FramesInv, SortedInv, TimerInv, Init, Lines
<1>5. ~SomeTimer /\ ~SomeUart
  BY <1>2 DEF SomeTimer, SomeUart
<1>6. WaitInv /\ PriorityInv
  BY <1>1, <1>2, <1>5 DEF WaitInv, PriorityInv, Init
<1>. QED  BY <1>3, <1>4, <1>6 DEF IndInv

(* ...is kept by every step... *)
LEMMA NextInv == IndInv /\ [Next]_vars => IndInv'
<1>. SUFFICES ASSUME IndInv, [Next]_vars
              PROVE  IndInv'
  OBVIOUS
<1>1. CASE AddTask
  BY <1>1, AddStep
<1>2. CASE StartTask
  BY <1>2, StartStep
<1>3. CASE RunTask
  BY <1>3, RunStep
<1>4. CASE EndTask
  BY <1>4, EndStep
<1>5. CASE LeaveLoop
  BY <1>5, LeaveStep
<1>6. CASE Resume
  BY <1>6, ResumeStep
<1>7. CASE \E l \in Lines : irq_router(l)
  BY <1>7, RouterStep
<1>8. CASE \E l \in Lines : EnableLine(l)
  <2>. UNCHANGED <<task_list, curr_task_priority, stack, curr_thread>>
    BY <1>8 DEF EnableLine
  <2>. QED  BY <1>8, IdleStep
<1>9. CASE \E t \in Threads : schedule(t)
  BY <1>9, ScheduleStep
<1>10. CASE \E t \in Threads : kill(t)
  <2>. UNCHANGED <<task_list, curr_task_priority, stack, curr_thread>>
    BY <1>10 DEF kill
  <2>. QED  BY <1>10, IdleStep
<1>11. CASE UNCHANGED vars
  BY <1>11, IdleStep DEF vars
<1>. QED  BY <1>1, <1>2, <1>3, <1>4, <1>5, <1>6, <1>7, <1>8, <1>9, <1>10, <1>11 DEF Next

(* ...and so holds always. *)
LEMMA Invariance == Spec => []IndInv
BY InitInv, NextInv, PTL DEF Spec
-----------------------------------------------------------------------------
(* The tasks in progress are the frames that run one. *)
LEMMA RunningFrames ==
  ASSUME IndInv
  PROVE  /\ \A x \in Running : /\ x = <<x[1], x[2]>> /\ x[1] \in Threads /\ x[2] \in Depths(x[1])
                               /\ TaskOf(x) = stack[x[1]][x[2]].task
                               /\ RunsTimer(stack[x[1]][x[2]]) \/ RunsUart(stack[x[1]][x[2]])
         /\ \A t \in Threads : \A i \in Depths(t) : Runs(stack[t][i]) => <<t, i>> \in Running
<1>1. \A t \in Threads : DOMAIN stack[t] = Depths(t) /\ Depths(t) \subseteq 1 .. MAX_DEPTH
  BY StackFacts, LenProperties, IrqTaskAssumption DEF IndInv, TypeOK, Depths
<1>2. \A t \in Threads : \A i \in Depths(t) : Runs(stack[t][i]) =>
        RunsTimer(stack[t][i]) \/ RunsUart(stack[t][i])
  BY StackFacts DEF IndInv, FramesInv, RunsTimer, RunsUart, Frames, Lines
<1>3. ASSUME NEW x \in Running
      PROVE  /\ x = <<x[1], x[2]>> /\ x[1] \in Threads /\ x[2] \in Depths(x[1])
             /\ TaskOf(x) = stack[x[1]][x[2]].task
             /\ RunsTimer(stack[x[1]][x[2]]) \/ RunsUart(stack[x[1]][x[2]])
  <2>1. x \in Threads \X (1 .. MAX_DEPTH) /\ x[2] \in Unfinished(x[1])
    BY <1>3 DEF Running
  <2>2. x = <<x[1], x[2]>> /\ x[1] \in Threads
    BY <2>1
  <2>3. x[2] \in Depths(x[1]) /\ Runs(stack[x[1]][x[2]])
    BY <1>1, <2>1, <2>2 DEF Unfinished, Runs
  <2>. QED  BY <1>2, <2>2, <2>3 DEF TaskOf
<1>4. ASSUME NEW t \in Threads, NEW i \in Depths(t), Runs(stack[t][i])
      PROVE  <<t, i>> \in Running
  <2>1. i \in Unfinished(t) /\ i \in 1 .. MAX_DEPTH
    BY <1>1, <1>4 DEF Unfinished, Runs
  <2>. QED  BY <2>1 DEF Running
<1>. QED  BY <1>3, <1>4

(* Whatever threads the interrupts are spread over and however deep they   *)
(* are nested, at most one task of each priority is in progress: the two   *)
(* UART handlers never run inside one another.                             *)
THEOREM OnePerPriority == Spec => []OneTaskPerPriority
<1>1. ASSUME IndInv
      PROVE  OneTaskPerPriority
  <2>. SUFFICES ASSUME NEW x \in Running, NEW y \in Running,
                       priority(TaskOf(x)) = priority(TaskOf(y))
                PROVE  x = y
    BY DEF OneTaskPerPriority
  <2>1. /\ x = <<x[1], x[2]>> /\ x[1] \in Threads /\ x[2] \in Depths(x[1])
        /\ TaskOf(x) = stack[x[1]][x[2]].task
        /\ RunsTimer(stack[x[1]][x[2]]) \/ RunsUart(stack[x[1]][x[2]])
    BY <1>1, RunningFrames
  <2>2. /\ y = <<y[1], y[2]>> /\ y[1] \in Threads /\ y[2] \in Depths(y[1])
        /\ TaskOf(y) = stack[y[1]][y[2]].task
        /\ RunsTimer(stack[y[1]][y[2]]) \/ RunsUart(stack[y[1]][y[2]])
    BY <1>1, RunningFrames
  <2>3. \/ RunsTimer(stack[x[1]][x[2]]) /\ RunsTimer(stack[y[1]][y[2]])
        \/ RunsUart(stack[x[1]][x[2]]) /\ RunsUart(stack[y[1]][y[2]])
    BY <2>1, <2>2 DEF RunsTimer, RunsUart, priority
  <2>4. x[1] = y[1] /\ x[2] = y[2]
    BY <1>1, <2>1, <2>2, <2>3 DEF IndInv, PriorityInv
  <2>. QED  BY <2>1, <2>2, <2>4, Zenon
<1>. QED  BY <1>1, Invariance, PTL

(* curr_task_priority, saved and restored on one stack while the threads   *)
(* are switched, is that of the most urgent task in progress.              *)
THEOREM PriorityExact == Spec => []PriorityOfRunning
<1>1. ASSUME IndInv
      PROVE  PriorityOfRunning
  <2>. DEFINE used == {priority(TaskOf(x)) : x \in Running} \cup {NO_TASK}
  <2>1. curr_task_priority = IF SomeTimer THEN 0 ELSE IF SomeUart THEN 1 ELSE NO_TASK
    BY <1>1 DEF IndInv, PriorityInv
  <2>2. \A t \in Threads : \A i \in Depths(t) :
          RunsTimer(stack[t][i]) \/ RunsUart(stack[t][i]) => priority(stack[t][i].task) \in used
    <3>. SUFFICES ASSUME NEW t \in Threads, NEW i \in Depths(t), Runs(stack[t][i])
                  PROVE  priority(stack[t][i].task) \in used
      BY DEF RunsTimer, RunsUart
    <3>1. <<t, i>> \in Running
      BY <1>1, RunningFrames
    <3>2. TaskOf(<<t, i>>) = stack[t][i].task
      BY DEF TaskOf
    <3>. QED  BY <3>1, <3>2
  <2>3. \A q \in used : \/ q = 0 /\ SomeTimer
                        \/ q = 1 /\ SomeUart
                        \/ q = NO_TASK
    <3>. SUFFICES ASSUME NEW x \in Running
                  PROVE  \/ priority(TaskOf(x)) = 0 /\ SomeTimer
                         \/ priority(TaskOf(x)) = 1 /\ SomeUart
      OBVIOUS
    <3>1. /\ x[1] \in Threads /\ x[2] \in Depths(x[1])
          /\ TaskOf(x) = stack[x[1]][x[2]].task
          /\ RunsTimer(stack[x[1]][x[2]]) \/ RunsUart(stack[x[1]][x[2]])
      BY <1>1, RunningFrames
    <3>2. CASE RunsTimer(stack[x[1]][x[2]])
      BY <3>1, <3>2 DEF SomeTimer, RunsTimer, priority
    <3>3. CASE RunsUart(stack[x[1]][x[2]])
      BY <3>1, <3>3 DEF SomeUart, RunsUart, priority
    <3>. QED  BY <3>1, <3>2, <3>3
  <2>4. (SomeTimer => 0 \in used) /\ (SomeUart => 1 \in used) /\ NO_TASK \in used
    <3>1. ASSUME SomeTimer
          PROVE  0 \in used
      BY <2>2, <3>1 DEF SomeTimer, RunsTimer, priority
    <3>2. ASSUME SomeUart
          PROVE  1 \in used
      BY <2>2, <3>2 DEF SomeUart, RunsUart, priority
    <3>. QED  BY <3>1, <3>2
  <2>. HIDE DEF used
  <2>5. curr_task_priority \in used /\ \A q \in used : curr_task_priority <= q
    BY <2>1, <2>3, <2>4 DEF NO_TASK
  <2>. QED  BY <2>5 DEF PriorityOfRunning, used
<1>. QED  BY <1>1, Invariance, PTL

(* An interrupt that is left has run every task that is more urgent than   *)
(* the one it interrupted.                                                 *)
THEOREM MoreUrgentFirst == Spec => UrgentFirst
<1>1. ASSUME IndInv, LeaveLoop
      PROVE  \A i \in DOMAIN task_list : priority(task_list[i]) >= curr_task_priority
  <2>. SUFFICES ASSUME NEW i \in DOMAIN task_list
                PROVE  priority(task_list[i]) >= curr_task_priority
    OBVIOUS
  <2>1. /\ task_list \in Seq(Lines) /\ Len(task_list) \in Nat \ {0} /\ task_list # <<>>
        /\ i \in 1 .. Len(task_list) /\ 1 \in 1 .. Len(task_list) /\ Head(task_list) = task_list[1]
    BY <1>1, EmptySeq, LenProperties, HeadTailProperties DEF IndInv, TypeOK
  <2>2. priority(task_list[1]) <= priority(task_list[i])
    <3>1. CASE i = 1
      BY <3>1 DEF priority
    <3>2. CASE i # 1
      BY <1>1, <2>1, <3>2 DEF IndInv, SortedInv
    <3>. QED  BY <3>1, <3>2
  <2>3. ~(priority(task_list[1]) < curr_task_priority) /\ curr_task_priority \in Int
    BY <1>1, <2>1 DEF LeaveLoop, MayStart, IndInv, TypeOK, NO_TASK
  <2>. QED  BY <2>2, <2>3 DEF priority
<1>2. IndInv /\ [Next]_vars =>
        [LeaveLoop => \A i \in DOMAIN task_list : priority(task_list[i]) >= curr_task_priority]_vars
  BY <1>1
<1>. QED  BY <1>2, Invariance, PTL DEF Spec, UrgentFirst
-----------------------------------------------------------------------------
(* No interrupt is lost. *)

(* No UART line becomes masked, and no trace of a masked one disappears. *)
LEMMA UartKept ==
  ASSUME UartInv,
         \A l \in {"r", "w"} : l \in enabled \cup parked => l \in enabled' \cup parked',
         \A t \in Threads : \A i \in Depths(t) : stack[t][i].pc \in {"add", "task"} =>
           i \in Depths(t)' /\ stack'[t][i] = stack[t][i],
         \A i \in 1 .. Len(task_list) : \E j \in 1 .. Len(task_list') : task_list'[j] = task_list[i]
  PROVE  UartInv'
<1>. SUFFICES ASSUME NEW l \in {"r", "w"} \ (enabled' \cup parked')
              PROVE  \/ \E t \in Threads : \E i \in Depths(t)' :
                          stack'[t][i].line = l /\ stack'[t][i].pc = "add"
                     \/ \E t \in Threads : \E i \in Depths(t)' :
                          stack'[t][i].task = l /\ stack'[t][i].pc = "task"
                     \/ \E i \in 1 .. Len(task_list') : task_list'[i] = l
  BY DEF UartInv
<1>1. l \in {"r", "w"} \ (enabled \cup parked)
  OBVIOUS
<1>2. CASE \E t \in Threads : \E i \in Depths(t) : stack[t][i].line = l /\ stack[t][i].pc = "add"
  BY <1>2
<1>3. CASE \E t \in Threads : \E i \in Depths(t) : stack[t][i].task = l /\ stack[t][i].pc = "task"
  BY <1>3
<1>4. CASE \E i \in 1 .. Len(task_list) : task_list[i] = l
  BY <1>4
<1>. QED  BY <1>1, <1>2, <1>3, <1>4 DEF UartInv

(* Nothing waits, or some task is in progress, when the innermost          *)
(* interrupt is about to schedule or to return from it.                    *)
LEMMA NobodyNeeded ==
  ASSUME IndInv, LoopInv, NEW p \in {"schedule", "resume"}, At(p)
  PROVE  task_list = <<>> \/ SomeTimer \/ SomeUart
<1>. SUFFICES ASSUME task_list # <<>>, ~SomeTimer, ~SomeUart
              PROVE  FALSE
  OBVIOUS
<1>1. /\ n \in Depths(curr_thread) /\ n \in Nat /\ stack[curr_thread][n].pc = p
      /\ \A j \in Depths(curr_thread) : ~(j > n)
  BY InnerFacts
<1>2. PICK i \in Depths(curr_thread) :
        /\ stack[curr_thread][i].pc = "loop"
        /\ \A j \in Depths(curr_thread) : j > i => stack[curr_thread][j].pc = "add"
  BY DEF LoopInv
<1>3. CASE i = n
  BY <1>1, <1>2, <1>3
<1>4. CASE i # n
  <2>. n > i
    BY <1>1, <1>4 DEF Depths, n
  <2>. QED  BY <1>1, <1>2
<1>. QED  BY <1>3, <1>4

(* If nothing waits or some task is in progress, and neither changes, the  *)
(* running thread need not be in a loop.                                   *)
LEMMA LoopKept ==
  ASSUME IndInv, SameRuns, UNCHANGED <<task_list, curr_task_priority>>,
         task_list = <<>> \/ SomeTimer \/ SomeUart
  PROVE  LoopInv'
<1>. (SomeTimer' <=> SomeTimer) /\ (SomeUart' <=> SomeUart)
  BY PriorityKept DEF IndInv
<1>. QED  BY DEF LoopInv

(* The innermost interrupt is in its loop: that is what LoopInv asks for. *)
LEMMA LoopReached ==
  ASSUME IndInv, NEW p, At(p), NEW f \in Frames, f.pc = "loop", SetInner(f),
         curr_thread' = curr_thread
  PROVE  LoopInv'
<1>1. /\ n \in Depths(curr_thread) /\ curr_thread \in Threads
      /\ \A j \in Depths(curr_thread) : ~(j > n)
  BY InnerFacts
<1>2. /\ Depths(curr_thread)' = Depths(curr_thread) /\ stack'[curr_thread][n] = f
  BY <1>1, SetFacts DEF Depths
<1>3. \E i \in Depths(curr_thread)' :
        /\ stack'[curr_thread'][i].pc = "loop"
        /\ \A j \in Depths(curr_thread)' : j > i => stack'[curr_thread'][j].pc = "add"
  BY <1>1, <1>2
<1>. QED  BY <1>3 DEF LoopInv

(* irq_router: the line that it masks has a new interrupt. *)
LEMMA RouterLoss ==
  ASSUME IndInv, LoopInv, UartInv, NEW l \in Lines, irq_router(l)
  PROVE  LoopInv' /\ UartInv'
<1>. DEFINE f == [line |-> l, pc |-> "add", task |-> "none", prev |-> NO_TASK]
<1>1. /\ enabled' = enabled \ {l}
      /\ UNCHANGED <<parked, task_list, curr_task_priority, curr_thread, dead>>
      /\ stack' = [stack EXCEPT ![curr_thread] = Append(@, f)]
  BY DEF irq_router
<1>2. f \in Frames /\ f.line = l /\ f.pc = "add"
  BY DEF Frames, Active
<1>. HIDE DEF f
<1>3. TypeOK /\ curr_thread \in Threads /\ n \in Nat /\ Depths(curr_thread) = 1 .. n
  BY StackFacts DEF IndInv, TypeOK
<1>4. /\ Depths(curr_thread)' = 1 .. n + 1 /\ stack'[curr_thread][n + 1] = f
      /\ \A t \in Threads : \A i \in Depths(t) : i \in Depths(t)' /\ stack'[t][i] = stack[t][i]
  BY <1>1, <1>2, <1>3, InnerPushed DEF Depths
<1>5. LoopInv'
  <2>. SUFFICES ASSUME task_list # <<>>, ~SomeTimer, ~SomeUart
                PROVE  \E i \in Depths(curr_thread)' :
                         /\ stack'[curr_thread'][i].pc = "loop"
                         /\ \A j \in Depths(curr_thread)' : j > i => stack'[curr_thread'][j].pc = "add"
    <3>. (SomeTimer' <=> SomeTimer) /\ (SomeUart' <=> SomeUart)
      BY <1>1, RouterStep, PriorityKept DEF IndInv
    <3>. QED  BY <1>1 DEF LoopInv
  <2>1. PICK i \in Depths(curr_thread) :
          /\ stack[curr_thread][i].pc = "loop"
          /\ \A j \in Depths(curr_thread) : j > i => stack[curr_thread][j].pc = "add"
    BY DEF LoopInv
  <2>2. \A j \in 1 .. n + 1 : j \in 1 .. n \/ j = n + 1
    BY <1>3
  <2>3. \A j \in 1 .. n : stack'[curr_thread][j] = stack[curr_thread][j]
    BY <1>3, <1>4
  <2>4. i \in Depths(curr_thread)' /\ stack'[curr_thread][i].pc = "loop"
    BY <1>3, <1>4, <2>1, <2>3
  <2>5. ASSUME NEW j \in 1 .. n + 1, j > i
        PROVE  stack'[curr_thread][j].pc = "add"
    <3>1. CASE j = n + 1
      BY <1>2, <1>4, <3>1
    <3>2. CASE j \in 1 .. n
      <4>. stack[curr_thread][j].pc = "add"
        BY <1>3, <2>1, <2>5, <3>2
      <4>. QED  BY <2>3, <3>2
    <3>. QED  BY <2>2, <3>1, <3>2
  <2>. QED  BY <1>1, <1>4, <2>4, <2>5
<1>6. UartInv'
  <2>. SUFFICES ASSUME NEW k \in {"r", "w"} \ (enabled' \cup parked')
                PROVE  \/ \E t \in Threads : \E i \in Depths(t)' :
                            stack'[t][i].line = k /\ stack'[t][i].pc = "add"
                       \/ \E t \in Threads : \E i \in Depths(t)' :
                            stack'[t][i].task = k /\ stack'[t][i].pc = "task"
                       \/ \E i \in 1 .. Len(task_list') : task_list'[i] = k
    BY DEF UartInv
  <2>1. CASE k = l
    <3>1. n + 1 \in 1 .. Len(stack'[curr_thread])
      BY <1>1, <1>3, <1>4 DEF Depths
    <3>. QED  BY <1>2, <1>3, <1>4, <2>1, <3>1 DEF Depths
  <2>2. CASE k # l
    <3>1. k \in {"r", "w"} \ (enabled \cup parked)
      BY <1>1, <2>2
    <3>2. CASE \E t \in Threads : \E i \in Depths(t) : stack[t][i].line = k /\ stack[t][i].pc = "add"
      BY <1>4, <3>2
    <3>3. CASE \E t \in Threads : \E i \in Depths(t) : stack[t][i].task = k /\ stack[t][i].pc = "task"
      BY <1>4, <3>3
    <3>4. CASE \E i \in 1 .. Len(task_list) : task_list[i] = k
      BY <1>1, <3>4
    <3>. QED  BY <3>1, <3>2, <3>3, <3>4 DEF UartInv
  <2>. QED  BY <2>1, <2>2
<1>. QED  BY <1>5, <1>6

(* AddTask: the task of the line waits instead. *)
LEMMA AddLoss ==
  ASSUME IndInv, LoopInv, UartInv, AddTask
  PROVE  LoopInv' /\ UartInv'
<1>. DEFINE f == [Inner EXCEPT !.pc = "loop"]
            l == Inner.line
<1>1. /\ At("add") /\ task_list' = irqtask_add(task_list, l) /\ SetInner(f)
      /\ UNCHANGED <<enabled, parked, curr_task_priority, curr_thread, dead>>
  BY DEF AddTask
<1>2. /\ n \in Depths(curr_thread) /\ n \in Nat /\ curr_thread \in Threads
      /\ Inner = stack[curr_thread][n] /\ Inner \in Frames /\ Inner.pc = "add"
  BY <1>1, InnerFacts
<1>3. f \in Frames /\ f.pc = "loop" /\ l \in Lines
  BY <1>2 DEF Frames, Active
<1>. HIDE DEF f
<1>4. /\ \A t \in Threads : Depths(t)' = Depths(t)
      /\ \A t \in Threads : \A i \in Depths(t) :
           stack'[t][i] = IF t = curr_thread /\ i = n THEN f ELSE stack[t][i]
  BY <1>1, <1>3, SetFacts
<1>5. task_list \in Seq(Lines) /\ Len(task_list) \in Nat
  BY LenProperties DEF IndInv, TypeOK
<1>. HIDE DEF l
<1>0. LET r == irqtask_add(task_list, l) IN
      /\ Len(r) = Len(task_list) + 1
      /\ \E k \in 1 .. Len(task_list) + 1 :
           \A i \in 1 .. Len(task_list) + 1 :
             r[i] = IF i < k THEN task_list[i] ELSE IF i = k THEN l ELSE task_list[i - 1]
  BY <1>3, <1>5, Added
<1>6. PICK k \in 1 .. Len(task_list) + 1 :
        /\ Len(task_list') = Len(task_list) + 1
        /\ \A i \in 1 .. Len(task_list) + 1 :
             task_list'[i] = IF i < k THEN task_list[i] ELSE IF i = k THEN l ELSE task_list[i - 1]
  BY <1>0, <1>1
<1>7. \A i \in 1 .. Len(task_list) : \E j \in 1 .. Len(task_list') : task_list'[j] = task_list[i]
  <2>. SUFFICES ASSUME NEW i \in 1 .. Len(task_list)
                PROVE  \E j \in 1 .. Len(task_list') : task_list'[j] = task_list[i]
    OBVIOUS
  <2>1. CASE i < k
    <3>. i \in 1 .. Len(task_list') /\ task_list'[i] = task_list[i]
      BY <1>5, <1>6, <2>1
    <3>. QED  OBVIOUS
  <2>2. CASE ~(i < k)
    <3>. i + 1 \in 1 .. Len(task_list') /\ task_list'[i + 1] = task_list[(i + 1) - 1] /\ (i + 1) - 1 = i
      BY <1>5, <1>6, <2>2
    <3>. QED  OBVIOUS
  <2>. QED  BY <2>1, <2>2
<1>8. k \in 1 .. Len(task_list') /\ task_list'[k] = l
  BY <1>5, <1>6
<1>. HIDE DEF l
<1>9. UartInv'
  <2>. SUFFICES ASSUME NEW m \in {"r", "w"} \ (enabled' \cup parked')
                PROVE  \/ \E t \in Threads : \E i \in Depths(t)' :
                            stack'[t][i].line = m /\ stack'[t][i].pc = "add"
                       \/ \E t \in Threads : \E i \in Depths(t)' :
                            stack'[t][i].task = m /\ stack'[t][i].pc = "task"
                       \/ \E i \in 1 .. Len(task_list') : task_list'[i] = m
    BY DEF UartInv
  <2>1. m \in {"r", "w"} \ (enabled \cup parked)
    BY <1>1
  <2>2. CASE \E t \in Threads : \E i \in Depths(t) : stack[t][i].line = m /\ stack[t][i].pc = "add"
    <3>. PICK t \in Threads : \E i \in Depths(t) : stack[t][i].line = m /\ stack[t][i].pc = "add"
      BY <2>2
    <3>1. PICK i \in Depths(t) : stack[t][i].line = m /\ stack[t][i].pc = "add"
      OBVIOUS
    <3>2. CASE t = curr_thread /\ i = n
      <4>. l = m
        BY <1>2, <3>1, <3>2 DEF l
      <4>. QED  BY <1>8
    <3>3. CASE ~(t = curr_thread /\ i = n)
      BY <1>4, <3>1, <3>3
    <3>. QED  BY <3>2, <3>3
  <2>3. CASE \E t \in Threads : \E i \in Depths(t) : stack[t][i].task = m /\ stack[t][i].pc = "task"
    <3>. PICK t \in Threads : \E i \in Depths(t) : stack[t][i].task = m /\ stack[t][i].pc = "task"
      BY <2>3
    <3>1. PICK i \in Depths(t) : stack[t][i].task = m /\ stack[t][i].pc = "task"
      OBVIOUS
    <3>2. ~(t = curr_thread /\ i = n)
      BY <1>2, <3>1
    <3>. QED  BY <1>4, <3>1, <3>2
  <2>4. CASE \E i \in 1 .. Len(task_list) : task_list[i] = m
    BY <1>7, <2>4
  <2>. QED  BY <2>1, <2>2, <2>3, <2>4 DEF UartInv
<1>. QED  BY <1>1, <1>3, <1>9, LoopReached

(* StartTask: the task that waited is in progress. *)
LEMMA StartLoss ==
  ASSUME IndInv, LoopInv, UartInv, StartTask
  PROVE  LoopInv' /\ UartInv'
<1>. DEFINE l == Head(task_list)
            f == [Inner EXCEPT !.pc = "task", !.task = l, !.prev = curr_task_priority]
<1>1. /\ At("loop") /\ task_list # <<>> /\ SetInner(f) /\ task_list' = Tail(task_list)
      /\ UNCHANGED <<enabled, parked, curr_thread, dead>>
  BY DEF StartTask
<1>2. /\ n \in Depths(curr_thread) /\ n \in Nat /\ curr_thread \in Threads
      /\ Inner = stack[curr_thread][n] /\ Inner \in Frames /\ Inner.pc = "loop"
  BY <1>1, InnerFacts
<1>3. /\ Len(task_list) \in Nat \ {0} /\ l = task_list[1] /\ l \in Lines
      /\ Len(task_list') = Len(task_list) - 1
      /\ \A i \in 1 .. Len(task_list') : task_list'[i] = task_list[i + 1]
  BY <1>1, EmptySeq, LenProperties, HeadTailProperties DEF IndInv, TypeOK
<1>4. f \in Frames /\ f.pc = "task" /\ f.task = l
  BY <1>2, <1>3 DEF Frames, Active, IndInv, TypeOK
<1>. HIDE DEF f, l
<1>5. /\ \A t \in Threads : Depths(t)' = Depths(t)
      /\ \A t \in Threads : \A i \in Depths(t) :
           stack'[t][i] = IF t = curr_thread /\ i = n THEN f ELSE stack[t][i]
  BY <1>1, <1>4, SetFacts
<1>6. LoopInv'
  <2>1. \E t \in Threads : \E i \in Depths(t)' : RunsTimer(stack'[t][i]) \/ RunsUart(stack'[t][i])
    <3>. RunsTimer(f) \/ RunsUart(f)
      BY <1>3, <1>4 DEF RunsTimer, RunsUart, Runs, Lines
    <3>. QED  BY <1>2, <1>5
  <2>2. SomeTimer' \/ SomeUart'
    BY <2>1 DEF SomeTimer, SomeUart, RunsTimer, RunsUart, Runs
  <2>. QED  BY <2>2 DEF LoopInv
<1>7. UartInv'
  <2>. SUFFICES ASSUME NEW m \in {"r", "w"} \ (enabled' \cup parked')
                PROVE  \/ \E t \in Threads : \E i \in Depths(t)' :
                            stack'[t][i].line = m /\ stack'[t][i].pc = "add"
                       \/ \E t \in Threads : \E i \in Depths(t)' :
                            stack'[t][i].task = m /\ stack'[t][i].pc = "task"
                       \/ \E i \in 1 .. Len(task_list') : task_list'[i] = m
    BY DEF UartInv
  <2>1. m \in {"r", "w"} \ (enabled \cup parked)
    BY <1>1
  <2>2. CASE \E t \in Threads : \E i \in Depths(t) : stack[t][i].line = m /\ stack[t][i].pc = "add"
    <3>. PICK t \in Threads : \E i \in Depths(t) : stack[t][i].line = m /\ stack[t][i].pc = "add"
      BY <2>2
    <3>1. PICK i \in Depths(t) : stack[t][i].line = m /\ stack[t][i].pc = "add"
      OBVIOUS
    <3>2. ~(t = curr_thread /\ i = n)
      BY <1>2, <3>1
    <3>. QED  BY <1>5, <3>1, <3>2
  <2>3. CASE \E t \in Threads : \E i \in Depths(t) : stack[t][i].task = m /\ stack[t][i].pc = "task"
    <3>. PICK t \in Threads : \E i \in Depths(t) : stack[t][i].task = m /\ stack[t][i].pc = "task"
      BY <2>3
    <3>1. PICK i \in Depths(t) : stack[t][i].task = m /\ stack[t][i].pc = "task"
      OBVIOUS
    <3>2. ~(t = curr_thread /\ i = n)
      BY <1>2, <3>1
    <3>. QED  BY <1>5, <3>1, <3>2
  <2>4. CASE \E i \in 1 .. Len(task_list) : task_list[i] = m
    <3>1. PICK i \in 1 .. Len(task_list) : task_list[i] = m
      BY <2>4
    <3>2. CASE i = 1
      <4>. f.task = m /\ f.pc = "task"
        BY <1>3, <1>4, <3>1, <3>2
      <4>. QED  BY <1>2, <1>5
    <3>3. CASE i # 1
      <4>. i - 1 \in 1 .. Len(task_list') /\ task_list'[i - 1] = task_list[(i - 1) + 1] /\ (i - 1) + 1 = i
        BY <1>3, <3>3
      <4>. QED  BY <3>1
    <3>. QED  BY <3>2, <3>3
  <2>. QED  BY <2>1, <2>2, <2>3, <2>4 DEF UartInv
<1>. QED  BY <1>6, <1>7

(* RunTask: the line of the task is enabled again, or parked. *)
LEMMA RunLoss ==
  ASSUME IndInv, LoopInv, UartInv, RunTask
  PROVE  LoopInv' /\ UartInv'
<1>. DEFINE f == [Inner EXCEPT !.pc = "ran"]
<1>1. /\ At("task") /\ SetInner(f)
      /\ UNCHANGED <<task_list, curr_task_priority, curr_thread, dead>>
      /\ \/ Inner.task = "timer" /\ UNCHANGED <<enabled, parked>>
         \/ enabled' \cup parked' = enabled \cup parked \cup {Inner.task}
  BY DEF RunTask
<1>2. /\ n \in Depths(curr_thread) /\ n \in Nat /\ curr_thread \in Threads
      /\ Inner = stack[curr_thread][n] /\ Inner \in Frames /\ Inner.pc = "task"
  BY <1>1, InnerFacts
<1>3. f \in Frames
  BY <1>2 DEF Frames, Active
<1>. HIDE DEF f
<1>4. /\ \A t \in Threads : Depths(t)' = Depths(t)
      /\ \A t \in Threads : \A i \in Depths(t) :
           stack'[t][i] = IF t = curr_thread /\ i = n THEN f ELSE stack[t][i]
  BY <1>1, <1>3, SetFacts
<1>5. LoopInv'
  <2>. RunsTimer(Inner) \/ RunsUart(Inner)
    BY <1>2 DEF RunsTimer, RunsUart, Runs, IndInv, FramesInv, Frames, Lines
  <2>. SomeTimer \/ SomeUart
    BY <1>2 DEF SomeTimer, SomeUart
  <2>. QED  BY <1>1, RunStep, LoopKept
<1>6. UartInv'
  <2>. SUFFICES ASSUME NEW m \in {"r", "w"} \ (enabled' \cup parked')
                PROVE  \/ \E t \in Threads : \E i \in Depths(t)' :
                            stack'[t][i].line = m /\ stack'[t][i].pc = "add"
                       \/ \E t \in Threads : \E i \in Depths(t)' :
                            stack'[t][i].task = m /\ stack'[t][i].pc = "task"
                       \/ \E i \in 1 .. Len(task_list') : task_list'[i] = m
    BY DEF UartInv
  <2>1. m \in {"r", "w"} \ (enabled \cup parked) /\ Inner.task # m
    BY <1>1
  <2>2. CASE \E t \in Threads : \E i \in Depths(t) : stack[t][i].line = m /\ stack[t][i].pc = "add"
    <3>. PICK t \in Threads : \E i \in Depths(t) : stack[t][i].line = m /\ stack[t][i].pc = "add"
      BY <2>2
    <3>1. PICK i \in Depths(t) : stack[t][i].line = m /\ stack[t][i].pc = "add"
      OBVIOUS
    <3>2. ~(t = curr_thread /\ i = n)
      BY <1>2, <3>1
    <3>. QED  BY <1>4, <3>1, <3>2
  <2>3. CASE \E t \in Threads : \E i \in Depths(t) : stack[t][i].task = m /\ stack[t][i].pc = "task"
    <3>. PICK t \in Threads : \E i \in Depths(t) : stack[t][i].task = m /\ stack[t][i].pc = "task"
      BY <2>3
    <3>1. PICK i \in Depths(t) : stack[t][i].task = m /\ stack[t][i].pc = "task"
      OBVIOUS
    <3>2. ~(t = curr_thread /\ i = n)
      BY <1>2, <2>1, <3>1
    <3>. QED  BY <1>4, <3>1, <3>2
  <2>4. CASE \E i \in 1 .. Len(task_list) : task_list[i] = m
    BY <1>1, <2>4
  <2>. QED  BY <2>1, <2>2, <2>3, <2>4 DEF UartInv
<1>. QED  BY <1>5, <1>6

(* EndTask: the thread is in a loop again. *)
LEMMA EndLoss ==
  ASSUME IndInv, LoopInv, UartInv, EndTask
  PROVE  LoopInv' /\ UartInv'
<1>. DEFINE f == [Inner EXCEPT !.pc = "loop", !.task = "none", !.prev = NO_TASK]
<1>1. /\ At("ran") /\ SetInner(f)
      /\ UNCHANGED <<enabled, parked, task_list, curr_thread, dead>>
  BY DEF EndTask
<1>2. /\ n \in Depths(curr_thread) /\ curr_thread \in Threads
      /\ Inner = stack[curr_thread][n] /\ Inner \in Frames /\ Inner.pc = "ran"
  BY <1>1, InnerFacts
<1>3. f \in Frames /\ f.pc = "loop"
  BY <1>2 DEF Frames, Active
<1>. HIDE DEF f
<1>4. /\ \A t \in Threads : Depths(t)' = Depths(t)
      /\ \A t \in Threads : \A i \in Depths(t) :
           stack'[t][i] = IF t = curr_thread /\ i = n THEN f ELSE stack[t][i]
  BY <1>1, <1>3, SetFacts
<1>5. \A t \in Threads : \A i \in Depths(t) : stack[t][i].pc \in {"add", "task"} =>
        i \in Depths(t)' /\ stack'[t][i] = stack[t][i]
  BY <1>2, <1>4
<1>6. UartInv'
  BY <1>1, <1>5, UartKept
<1>. QED  BY <1>1, <1>3, <1>6, LoopReached

(* LeaveLoop: what still waits is left to the task in progress. *)
LEMMA LeaveLoss ==
  ASSUME IndInv, LoopInv, UartInv, LeaveLoop
  PROVE  LoopInv' /\ UartInv'
<1>. DEFINE f == [Inner EXCEPT !.pc = "schedule"]
<1>1. /\ At("loop") /\ (task_list # <<>> => ~MayStart(Head(task_list)))
      /\ UNCHANGED <<parked, task_list, curr_task_priority, curr_thread, dead>>
      /\ enabled \subseteq enabled'
      /\ \/ SetInner(f)
         \/ stack' = [stack EXCEPT ![curr_thread] = Front(@)]
  BY DEF LeaveLoop
<1>2. /\ n \in Depths(curr_thread) /\ n \in Nat /\ n > 0 /\ curr_thread \in Threads /\ TypeOK
      /\ Inner = stack[curr_thread][n] /\ Inner \in Frames /\ Inner.pc = "loop"
      /\ \A t \in Threads : Len(stack[t]) \in Nat
  BY <1>1, InnerFacts, StackFacts DEF IndInv
<1>3. \A t \in Threads : \A i \in Depths(t) : ~(t = curr_thread /\ i = n) =>
        i \in Depths(t)' /\ stack'[t][i] = stack[t][i]
  <2>1. CASE SetInner(f)
    <3>. f \in Frames
      BY <1>2 DEF Frames, Active
    <3>. QED  BY <1>1, <2>1, SetFacts
  <2>2. CASE stack' = [stack EXCEPT ![curr_thread] = Front(@)]
    <3>1. /\ Len(stack'[curr_thread]) = n - 1
          /\ \A t \in Threads : t # curr_thread => stack'[t] = stack[t]
          /\ \A t \in Threads : \A i \in 1 .. Len(stack'[t]) :
               i \in Depths(t) /\ stack'[t][i] = stack[t][i]
      BY <1>2, <2>2, InnerPopped
    <3>. SUFFICES ASSUME NEW t \in Threads, NEW i \in Depths(t), ~(t = curr_thread /\ i = n)
                  PROVE  i \in Depths(t)' /\ stack'[t][i] = stack[t][i]
      OBVIOUS
    <3>2. i \in 1 .. Len(stack'[t])
      <4>1. CASE t = curr_thread
        BY <1>2, <3>1, <4>1 DEF Depths, n
      <4>2. CASE t # curr_thread
        BY <3>1, <4>2 DEF Depths
      <4>. QED  BY <4>1, <4>2
    <3>. QED  BY <3>1, <3>2 DEF Depths
  <2>. QED  BY <1>1, <2>1, <2>2
<1>4. UartInv'
  <2>. \A t \in Threads : \A i \in Depths(t) : stack[t][i].pc \in {"add", "task"} =>
         i \in Depths(t)' /\ stack'[t][i] = stack[t][i]
    BY <1>2, <1>3
  <2>. QED  BY <1>1, UartKept
<1>5. task_list = <<>> \/ SomeTimer \/ SomeUart
  <2>. SUFFICES ASSUME task_list # <<>>, ~SomeTimer, ~SomeUart
                PROVE  FALSE
    OBVIOUS
  <2>1. curr_task_priority = NO_TASK
    BY DEF IndInv, PriorityInv
  <2>. QED  BY <1>1, <2>1 DEF MayStart, priority, NO_TASK
<1>6. LoopInv'
  BY <1>1, <1>5, LeaveStep, LoopKept
<1>. QED  BY <1>4, <1>6

(* schedule: nobody who is needed loses the CPU. *)
LEMMA ScheduleLoss ==
  ASSUME IndInv, LoopInv, UartInv, NEW u \in Threads, schedule(u)
  PROVE  LoopInv' /\ UartInv'
<1>. DEFINE f == [Inner EXCEPT !.pc = "resume"]
<1>1. /\ At("schedule") /\ SetInner(f)
      /\ UNCHANGED <<enabled, parked, task_list, curr_task_priority, dead>>
  BY DEF schedule
<1>2. /\ n \in Depths(curr_thread) /\ curr_thread \in Threads
      /\ Inner = stack[curr_thread][n] /\ Inner \in Frames /\ Inner.pc = "schedule"
  BY <1>1, InnerFacts
<1>3. f \in Frames
  BY <1>2 DEF Frames, Active
<1>. HIDE DEF f
<1>4. \A t \in Threads : \A i \in Depths(t) : stack[t][i].pc \in {"add", "task"} =>
        i \in Depths(t)' /\ stack'[t][i] = stack[t][i]
  BY <1>1, <1>2, <1>3, SetFacts
<1>5. UartInv'
  BY <1>1, <1>4, UartKept
<1>6. LoopInv'
  BY <1>1, NobodyNeeded, ScheduleStep, LoopKept
<1>. QED  BY <1>5, <1>6

(* Resume: nothing but the stack changes. *)
LEMMA ResumeLoss ==
  ASSUME IndInv, LoopInv, UartInv, Resume
  PROVE  LoopInv' /\ UartInv'
<1>1. /\ At("resume") /\ stack' = [stack EXCEPT ![curr_thread] = Front(@)]
      /\ UNCHANGED <<enabled, parked, task_list, curr_task_priority, curr_thread, dead>>
  BY DEF Resume
<1>2. /\ n \in Depths(curr_thread) /\ n \in Nat /\ n > 0 /\ curr_thread \in Threads /\ TypeOK
      /\ Inner = stack[curr_thread][n] /\ Inner.pc = "resume"
      /\ \A t \in Threads : Len(stack[t]) \in Nat
  BY <1>1, InnerFacts, StackFacts DEF IndInv
<1>3. /\ Len(stack'[curr_thread]) = n - 1
      /\ \A t \in Threads : t # curr_thread => stack'[t] = stack[t]
      /\ \A t \in Threads : \A i \in 1 .. Len(stack'[t]) :
           i \in Depths(t) /\ stack'[t][i] = stack[t][i]
  BY <1>1, <1>2, InnerPopped
<1>4. \A t \in Threads : \A i \in Depths(t) : stack[t][i].pc \in {"add", "task"} =>
        i \in Depths(t)' /\ stack'[t][i] = stack[t][i]
  <2>. SUFFICES ASSUME NEW t \in Threads, NEW i \in Depths(t), stack[t][i].pc \in {"add", "task"}
                PROVE  i \in Depths(t)' /\ stack'[t][i] = stack[t][i]
    OBVIOUS
  <2>1. i \in 1 .. Len(stack'[t])
    <3>1. CASE t = curr_thread
      <4>. i # n
        BY <1>2, <3>1
      <4>. QED  BY <1>2, <1>3, <3>1 DEF Depths, n
    <3>2. CASE t # curr_thread
      BY <1>3, <3>2 DEF Depths
    <3>. QED  BY <3>1, <3>2
  <2>. QED  BY <1>3, <2>1 DEF Depths
<1>5. UartInv'
  BY <1>1, <1>4, UartKept
<1>6. LoopInv'
  BY <1>1, NobodyNeeded, ResumeStep, LoopKept
<1>. QED  BY <1>5, <1>6

(* The inductive invariant of NoInterruptLost. *)
LossInv == IndInv /\ LoopInv /\ UartInv /\ DeadInv

(* Only the running thread's stack changes. *)
LEMMA OtherStacks ==
  ASSUME IndInv, [Next]_vars, NEW t \in Threads, t # curr_thread
  PROVE  stack'[t] = stack[t]
<1>. stack \in [Threads -> Seq(Frames)]
  BY DEF IndInv, TypeOK
<1>1. CASE AddTask \/ StartTask \/ RunTask \/ EndTask \/ LeaveLoop \/ Resume
  BY <1>1 DEF AddTask, StartTask, RunTask, EndTask, LeaveLoop, Resume, SetInner
<1>2. CASE \E l \in Lines : irq_router(l) \/ EnableLine(l)
  BY <1>2 DEF irq_router, EnableLine
<1>3. CASE \E u \in Threads : schedule(u) \/ kill(u)
  BY <1>3 DEF schedule, kill, SetInner
<1>4. CASE UNCHANGED vars
  BY <1>4 DEF vars
<1>. QED  BY <1>1, <1>2, <1>3, <1>4 DEF Next

(* It is kept, if nobody dies who owes a task. *)
LEMMA LossNext ==
  ASSUME ~DieInTask, LossInv, [Next]_vars
  PROVE  LossInv'
<1>. USE DEF LossInv
<1>1. IndInv'
  BY NextInv
<1>2. DeadInv'
  <2>. SUFFICES ASSUME NEW t \in dead', NEW i \in Depths(t)'
                PROVE  stack'[t][i].pc \notin {"add", "task", "ran"}
    BY DEF DeadInv
  <2>1. CASE t \in dead
    <3>1. t \in Threads /\ t # curr_thread
      BY <2>1 DEF IndInv, TypeOK
    <3>2. stack'[t] = stack[t]
      BY <3>1, OtherStacks
    <3>. QED  BY <2>1, <3>2 DEF DeadInv, Depths
  <2>2. CASE t \notin dead
    <3>1. kill(t) /\ t \in Threads
      <4>1. CASE \E u \in Threads : kill(u)
        BY <2>2, <4>1 DEF kill
      <4>2. CASE ~\E u \in Threads : kill(u)
        <5>. dead' = dead
          BY <4>2 DEF Next, vars, AddTask, StartTask, RunTask, EndTask, LeaveLoop, Resume,
                      irq_router, EnableLine, schedule
        <5>. QED  BY <2>2
      <4>. QED  BY <4>1, <4>2
    <3>2. stack' = stack /\ Unfinished(t) \cup Owed(t) = {}
      BY <3>1 DEF kill
    <3>3. i \in DOMAIN stack[t]
      BY <3>1, <3>2, StackFacts, LenProperties DEF Depths
    <3>. QED  BY <3>2, <3>3 DEF Unfinished, Owed
  <2>. QED  BY <2>1, <2>2
<1>3. LoopInv' /\ UartInv'
  <2>1. CASE AddTask
    BY <2>1, AddLoss
  <2>2. CASE StartTask
    BY <2>2, StartLoss
  <2>3. CASE RunTask
    BY <2>3, RunLoss
  <2>4. CASE EndTask
    BY <2>4, EndLoss
  <2>5. CASE LeaveLoop
    BY <2>5, LeaveLoss
  <2>6. CASE Resume
    BY <2>6, ResumeLoss
  <2>7. CASE \E l \in Lines : irq_router(l)
    BY <2>7, RouterLoss
  <2>8. CASE \E t \in Threads : schedule(t)
    BY <2>8, ScheduleLoss
  <2>9. CASE (\E l \in Lines : EnableLine(l)) \/ (\E t \in Threads : kill(t)) \/ UNCHANGED vars
    <3>1. /\ UNCHANGED <<stack, task_list, curr_task_priority, curr_thread>>
          /\ enabled \cup parked \subseteq enabled' \cup parked'
      BY <2>9 DEF EnableLine, kill, vars
    <3>2. UartInv'
      BY <3>1 DEF UartInv, Depths
    <3>3. LoopInv'
      BY <3>1 DEF LoopInv, SomeTimer, SomeUart, Depths, RunsTimer, RunsUart, Runs
    <3>. QED  BY <3>2, <3>3
  <2>. QED  BY <2>1, <2>2, <2>3, <2>4, <2>5, <2>6, <2>7, <2>8, <2>9 DEF Next
<1>. QED  BY <1>1, <1>2, <1>3

(* What the invariant says is enough. *)
LEMMA LossExcluded ==
  ASSUME LossInv
  PROVE  NoInterruptLost
<1>. DEFINE inside(pcs) == {x \in (Threads \ dead) \X (1 .. MAX_DEPTH) :
                              x[2] \in DOMAIN stack[x[1]] /\ stack[x[1]][x[2]].pc \in pcs}
<1>0. IndInv /\ LoopInv /\ UartInv /\ DeadInv
  BY DEF LossInv
<1>1. curr_thread \in Threads \ dead /\ dead \subseteq Threads
  BY <1>0 DEF IndInv, TypeOK
<1>2. \A t \in Threads : DOMAIN stack[t] = Depths(t) /\ Depths(t) \subseteq 1 .. MAX_DEPTH
  BY <1>0, StackFacts, LenProperties, IrqTaskAssumption DEF IndInv, TypeOK, Depths
<1>3. ASSUME NEW t \in Threads \ dead, NEW i \in Depths(t), NEW pcs, stack[t][i].pc \in pcs
      PROVE  <<t, i>> \in inside(pcs)
  <2>. i \in 1 .. MAX_DEPTH /\ i \in DOMAIN stack[t]
    BY <1>2
  <2>. <<t, i>> \in (Threads \ dead) \X (1 .. MAX_DEPTH)
    OBVIOUS
  <2>. QED  BY <1>3
<1>4. \A t \in Threads : \A i \in Depths(t) : stack[t][i].pc \in {"add", "task", "ran"} => t \notin dead
  BY <1>0 DEF DeadInv
<1>. HIDE DEF inside
<1>5. ASSUME NEW l \in Lines \ (enabled \cup parked)
      PROVE  \/ \E x \in inside({"add"}) : stack[x[1]][x[2]].line = l
             \/ \E x \in Running : TaskOf(x) = l
             \/ (\E i \in DOMAIN task_list : task_list[i] = l) /\ inside({"add", "loop", "task", "ran"}) # {}
             \/ l = "timer" /\ \E x \in inside({"loop", "task", "ran"}) : stack[x[1]][x[2]].line = l
  <2>1. CASE l = "timer"
    <3>1. PICK i \in Depths(curr_thread) : Masks(stack[curr_thread][i])
      BY <1>0, <1>5, <2>1 DEF IndInv, TimerInv
    <3>2. CASE stack[curr_thread][i].pc = "add"
      <4>. <<curr_thread, i>> \in inside({"add"})
        BY <1>1, <1>3, <3>2
      <4>. QED  BY <2>1, <3>1 DEF Masks
    <3>3. CASE stack[curr_thread][i].pc # "add"
      <4>. stack[curr_thread][i].pc \in {"loop", "task", "ran"}
        BY <3>1, <3>3 DEF Masks, Active
      <4>. <<curr_thread, i>> \in inside({"loop", "task", "ran"})
        BY <1>1, <1>3
      <4>. QED  BY <2>1, <3>1 DEF Masks
    <3>. QED  BY <3>2, <3>3
  <2>2. CASE l # "timer"
    <3>0. l \in {"r", "w"} \ (enabled \cup parked)
      BY <1>5, <2>2 DEF Lines
    <3>1. CASE \E t \in Threads : \E i \in Depths(t) : stack[t][i].line = l /\ stack[t][i].pc = "add"
      <4>. PICK t \in Threads : \E i \in Depths(t) : stack[t][i].line = l /\ stack[t][i].pc = "add"
        BY <3>1
      <4>1. PICK i \in Depths(t) : stack[t][i].line = l /\ stack[t][i].pc = "add"
        OBVIOUS
      <4>2. t \notin dead
        BY <1>4, <4>1
      <4>3. <<t, i>> \in inside({"add"})
        BY <1>3, <4>1, <4>2
      <4>. QED  BY <4>1, <4>3
    <3>2. CASE \E t \in Threads : \E i \in Depths(t) : stack[t][i].task = l /\ stack[t][i].pc = "task"
      <4>. PICK t \in Threads : \E i \in Depths(t) : stack[t][i].task = l /\ stack[t][i].pc = "task"
        BY <3>2
      <4>1. PICK i \in Depths(t) : stack[t][i].task = l /\ stack[t][i].pc = "task"
        OBVIOUS
      <4>2. <<t, i>> \in Running
        BY <1>0, <4>1, RunningFrames DEF Runs
      <4>. QED  BY <4>1, <4>2 DEF TaskOf
    <3>3. CASE \E i \in 1 .. Len(task_list) : task_list[i] = l
      <4>1. /\ \E i \in DOMAIN task_list : task_list[i] = l
            /\ task_list # <<>>
        BY <1>0, <3>3, LenProperties, EmptySeq DEF IndInv, TypeOK
      <4>2. \E t \in Threads \ dead : \E i \in Depths(t) : stack[t][i].pc \in {"add", "loop", "task", "ran"}
        <5>1. CASE SomeTimer \/ SomeUart
          <6>. PICK t \in Threads : \E i \in Depths(t) : Runs(stack[t][i])
            BY <5>1 DEF SomeTimer, SomeUart, RunsTimer, RunsUart
          <6>. PICK i \in Depths(t) : Runs(stack[t][i])
            OBVIOUS
          <6>. stack[t][i].pc \in {"task", "ran"}
            BY DEF Runs
          <6>. t \notin dead
            BY <1>4
          <6>. QED  OBVIOUS
        <5>2. CASE ~SomeTimer /\ ~SomeUart
          BY <1>0, <1>1, <4>1, <5>2 DEF LoopInv
        <5>. QED  BY <5>1, <5>2
      <4>3. inside({"add", "loop", "task", "ran"}) # {}
        BY <1>3, <4>2
      <4>. QED  BY <4>1, <4>3
    <3>. QED  BY <1>0, <3>0, <3>1, <3>2, <3>3 DEF UartInv
  <2>. QED  BY <2>1, <2>2
<1>. QED  BY <1>5 DEF NoInterruptLost, inside

(* When no thread dies that owes the others a task, no line stays masked   *)
(* without somebody on the way to enable it.                               *)
THEOREM InterruptsServed ==
  ASSUME ~DieInTask
  PROVE  Spec => []NoInterruptLost
<1>1. Init => LossInv
  <2>. SUFFICES ASSUME Init
                PROVE  LossInv
    OBVIOUS
  <2>1. IndInv
    BY InitInv
  <2>2. LoopInv /\ UartInv /\ DeadInv
    BY DEF Init, LoopInv, UartInv, DeadInv, Lines
  <2>. QED  BY <2>1, <2>2 DEF LossInv
<1>2. LossInv /\ [Next]_vars => LossInv'
  BY LossNext
<1>. QED  BY <1>1, <1>2, LossExcluded, PTL DEF Spec
=============================================================================
