-------------------------------- MODULE Sched --------------------------------
(***************************************************************************)
(* Threads and the run queue: kernel/src/sched.c, with the system calls    *)
(* that create and kill threads (kernel/src/syscall.c), the default signal *)
(* handler (kernel/src/signal.c) and the timer interrupt that calls        *)
(* schedule (kernel/src/exception.c).  A thread_t pointer is modelled by   *)
(* the thread's pid and NULL by -1.                                        *)
(*                                                                         *)
(* A step is a stretch of code that runs with interrupts masked.  schedule *)
(* is one step per thread it takes off the run queue, so that a search     *)
(* that never ends is a behaviour and not a missing step, and kill_zombies *)
(* is one step per thread it visits; while they go on (cpu = "schedule",   *)
(* cpu = "kill_zombies") nothing else can run.                             *)
(***************************************************************************)
EXTENDS Integers, Sequences, FiniteSets, SequencesExt

CONSTANTS
  MAX_THREAD_COUNT, \* the thread table is threads[0 .. MAX_THREAD_COUNT]
  Killable,         \* the pids that programs pass to kill and signal_kill
  EarlyFork,        \* programs may fork before their first timer interrupt
  IdleTick          \* a timer interrupt may come while idle has the CPU, between
                    \* the stretches it runs with interrupts masked

ASSUME SchedAssumption ==
  /\ MAX_THREAD_COUNT \in Nat \ {0}
  /\ Killable \subseteq Int
  /\ EarlyFork \in BOOLEAN /\ IdleTick \in BOOLEAN

NULL    == -1
Threads == 0 .. MAX_THREAD_COUNT
idle    == 0                      \* the thread init_thread_sched creates

VARIABLES
  status,       \* threads[t].status
  rq,           \* RQ_head, RQ_tail and threads[t].next, .prev
  curr_thread,
  pending,      \* the threads with an unhandled signal, handler not changed
  cpu,          \* "shell" before thread_exec, "thread", or the loop it is in:
                \* "schedule" or "kill_zombies"
  th_ptr,       \* the thread kill_zombies visits next, or NULL
  idle_pc,      \* what idle does next: "kill_zombies" or "schedule"
  idle_hit      \* history: a timer interrupt has come while idle had the CPU

vars == <<status, rq, curr_thread, pending, cpu, th_ptr, idle_pc, idle_hit>>

-----------------------------------------------------------------------------
(* The run queue. *)

(* Mutant of push_rq: the thread becomes the first of the queue. *)
push_rqFront(q, t) ==
  IF q.head = NULL
  THEN [q EXCEPT !.head = t, !.tail = t, !.next[t] = NULL]
  ELSE [q EXCEPT !.head = t, !.next[t] = q.head, !.prev[q.head] = t]

push_rq(q, t) ==
  IF q.tail = NULL
  THEN [q EXCEPT !.head = t, !.tail = t, !.next[t] = NULL]
  ELSE [q EXCEPT !.prev[t] = q.tail, !.next[q.tail] = t, !.tail = t, !.next[t] = NULL]

(* The queue after its first thread, q.head, has been taken off. *)
pop_rq(q) ==
  LET n == q.next[q.head] IN
  [head |-> n,
   tail |-> IF n = NULL THEN NULL ELSE q.tail,
   next |-> [q.next EXCEPT ![q.head] = NULL],
   prev |-> [t \in Threads |-> IF t \in {n, q.head} THEN NULL ELSE q.prev[t]]]

(* Mutant of Unlink: RQ_tail stays at the thread. *)
UnlinkNotTail(q, t) ==
  LET n == q.next[t]
      p == q.prev[t]
  IN  [head |-> IF t = q.head THEN n ELSE q.head,
       tail |-> q.tail,
       next |-> [u \in Threads |-> IF u = t THEN NULL ELSE IF u = p THEN n ELSE q.next[u]],
       prev |-> [u \in Threads |-> IF u = t THEN NULL ELSE IF u = n THEN p ELSE q.prev[u]]]

(* How kill_zombies takes t off the queue. *)
Unlink(q, t) ==
  LET n == q.next[t]
      p == q.prev[t]
  IN  [head |-> IF t = q.head THEN n ELSE q.head,
       tail |-> IF t = q.tail THEN p ELSE q.tail,
       next |-> [u \in Threads |-> IF u = t THEN NULL ELSE IF u = p THEN n ELSE q.next[u]],
       prev |-> [u \in Threads |-> IF u = t THEN NULL ELSE IF u = n THEN p ELSE q.prev[u]]]

(* The n-th thread of the queue, counting from 0, or NULL. *)
Nth(q) ==
  LET nth[n \in 0 .. MAX_THREAD_COUNT + 1] ==
        IF n = 0 THEN q.head
        ELSE IF nth[n - 1] = NULL THEN NULL ELSE q.next[nth[n - 1]]
  IN  nth

(* The threads from RQ_head on, in order; a queue longer than the thread   *)
(* table has a cycle.                                                      *)
Queue(q) ==
  LET nth == Nth(q)
      len == Cardinality({n \in 0 .. MAX_THREAD_COUNT + 1 : nth[n] # NULL})
  IN  [i \in 1 .. len |-> nth[i - 1]]

Members(q) == {Queue(q)[i] : i \in DOMAIN Queue(q)}

-----------------------------------------------------------------------------
(* init_thread_sched: idle is created, which queues it, and is current; the *)
(* shell runs on the boot stack.                                            *)
Init ==
  /\ status = [t \in Threads |-> IF t = idle THEN "ACTIVE" ELSE "FREE"]
  /\ rq = [head |-> idle, tail |-> idle,
           next |-> [t \in Threads |-> NULL], prev |-> [t \in Threads |-> NULL]]
  /\ curr_thread = idle
  /\ pending = {}
  /\ cpu = "shell"
  /\ th_ptr = NULL
  /\ idle_pc = "kill_zombies"
  /\ idle_hit = FALSE

(* The first free slot of the thread table. *)
FreeSlot == CHOOSE t \in Threads :
  status[t] = "FREE" /\ \A u \in 0 .. t - 1 : status[u] # "FREE"

(* thread_create; its callers dereference the result without a test, so a  *)
(* full table is outside the model.                                        *)
thread_create ==
  /\ \E t \in Threads : status[t] = "FREE"
  /\ status' = [status EXCEPT ![FreeSlot] = "ACTIVE"]
  /\ pending' = pending \ {FreeSlot}
  /\ rq' = push_rq(rq, FreeSlot)

(* thread_exec, from the shell: the new thread is queued and current.      *)
thread_exec ==
  /\ cpu = "shell"
  /\ thread_create
  /\ curr_thread' = FreeSlot
  /\ cpu' = "thread"
  /\ UNCHANGED <<th_ptr, idle_pc, idle_hit>>

-----------------------------------------------------------------------------
(* schedule: it returns at once when the queue is empty. *)

Enter_schedule == cpu' = IF rq.head = NULL THEN "thread" ELSE "schedule"

(* Mutants of Search: the thread that loses the CPU is not queued again;   *)
(* a zombie that is passed over is not queued again.                       *)
SearchDropsOff ==
  LET target == rq.head IN
  IF target = NULL THEN cpu' = "thread" /\ UNCHANGED <<rq, curr_thread>>
  ELSE IF status[target] = "ZOMBIE"
  THEN rq' = push_rq(pop_rq(rq), target) /\ UNCHANGED <<curr_thread, cpu>>
  ELSE curr_thread' = target /\ rq' = pop_rq(rq) /\ cpu' = "thread"

SearchDropsZombie ==
  LET target == rq.head IN
  IF target = NULL THEN cpu' = "thread" /\ UNCHANGED <<rq, curr_thread>>
  ELSE IF status[target] = "ZOMBIE"
  THEN rq' = pop_rq(rq) /\ UNCHANGED <<curr_thread, cpu>>
  ELSE /\ curr_thread' = target
       /\ rq' = IF status[curr_thread] = "ZOMBIE" THEN pop_rq(rq)
                ELSE push_rq(pop_rq(rq), curr_thread)
       /\ cpu' = "thread"

(* One turn of the loop that looks for a thread to run; a zombie goes back *)
(* to the end of the queue.  The switch itself is part of the last turn.   *)
Search ==
  LET target == rq.head IN
  IF target = NULL THEN cpu' = "thread" /\ UNCHANGED <<rq, curr_thread>>
  ELSE IF status[target] = "ZOMBIE"
  THEN rq' = push_rq(pop_rq(rq), target) /\ UNCHANGED <<curr_thread, cpu>>
  ELSE /\ curr_thread' = target
       /\ rq' = IF status[curr_thread] = "ZOMBIE" THEN pop_rq(rq)
                ELSE push_rq(pop_rq(rq), curr_thread)
       /\ cpu' = "thread"

schedule ==
  /\ cpu = "schedule"
  /\ Search
  /\ UNCHANGED <<status, pending, th_ptr, idle_pc, idle_hit>>

(* The timer interrupt, whatever the thread was doing (irq_router2). *)
Tick ==
  /\ cpu = "thread"
  /\ curr_thread = idle => IdleTick
  /\ Enter_schedule
  /\ idle_hit' = (idle_hit \/ curr_thread = idle)
  /\ UNCHANGED <<status, rq, curr_thread, pending, th_ptr, idle_pc>>

-----------------------------------------------------------------------------
(* The idle thread. *)

kill_zombies ==
  /\ cpu = "thread" /\ curr_thread = idle /\ idle_pc = "kill_zombies"
  /\ cpu' = "kill_zombies" /\ th_ptr' = rq.head
  /\ UNCHANGED <<status, rq, curr_thread, pending, idle_pc, idle_hit>>

(* Mutant of Visit: the successor is read after the thread is unlinked. *)
VisitReadsLate ==
  /\ cpu = "kill_zombies" /\ th_ptr # NULL
  /\ IF status[th_ptr] = "ZOMBIE"
     THEN rq' = Unlink(rq, th_ptr) /\ status' = [status EXCEPT ![th_ptr] = "FREE"]
     ELSE UNCHANGED <<rq, status>>
  /\ th_ptr' = rq'.next[th_ptr]
  /\ UNCHANGED <<curr_thread, pending, cpu, idle_pc, idle_hit>>

(* One turn of its loop: a dead thread leaves the queue and its slot is    *)
(* freed; its successor was read before.                                   *)
Visit ==
  /\ cpu = "kill_zombies" /\ th_ptr # NULL
  /\ th_ptr' = rq.next[th_ptr]
  /\ IF status[th_ptr] = "ZOMBIE"
     THEN rq' = Unlink(rq, th_ptr) /\ status' = [status EXCEPT ![th_ptr] = "FREE"]
     ELSE UNCHANGED <<rq, status>>
  /\ UNCHANGED <<curr_thread, pending, cpu, idle_pc, idle_hit>>

(* The end of the queue: kill_zombies returns. *)
VisitedAll ==
  /\ cpu = "kill_zombies" /\ th_ptr = NULL
  /\ cpu' = "thread" /\ idle_pc' = "schedule"
  /\ UNCHANGED <<status, rq, curr_thread, pending, th_ptr, idle_hit>>

IdleSchedules ==
  /\ cpu = "thread" /\ curr_thread = idle /\ idle_pc = "schedule"
  /\ idle_pc' = "kill_zombies"
  /\ Enter_schedule
  /\ UNCHANGED <<status, rq, curr_thread, pending, th_ptr, idle_hit>>

-----------------------------------------------------------------------------
(* User threads.  The exception return to a thread delivers its signals    *)
(* first.                                                                  *)
InUserMode == cpu = "thread" /\ curr_thread # idle /\ curr_thread \notin pending

fork ==
  /\ InUserMode
  /\ curr_thread \in Members(rq) => EarlyFork
  /\ thread_create
  /\ UNCHANGED <<curr_thread, cpu, th_ptr, idle_pc, idle_hit>>

(* exit marks the thread and returns to it; it runs on until it loses the  *)
(* CPU.                                                                    *)
exit ==
  /\ InUserMode
  /\ status' = [status EXCEPT ![curr_thread] = "ZOMBIE"]
  /\ UNCHANGED <<rq, curr_thread, pending, cpu, th_ptr, idle_pc, idle_hit>>

(* kill; the highest pid of the table is refused. *)
kill(pid) ==
  /\ InUserMode
  /\ pid \in 0 .. MAX_THREAD_COUNT - 1 /\ status[pid] # "FREE"
  /\ status' = [status EXCEPT ![pid] = "ZOMBIE"]
  /\ Enter_schedule
  /\ UNCHANGED <<rq, curr_thread, pending, th_ptr, idle_pc, idle_hit>>

(* A memory fault (mmu_memfail_abort_handle). *)
thread_exit ==
  /\ InUserMode
  /\ status' = [status EXCEPT ![curr_thread] = "ZOMBIE"]
  /\ Enter_schedule
  /\ UNCHANGED <<rq, curr_thread, pending, th_ptr, idle_pc, idle_hit>>

signal_kill(pid) ==
  /\ InUserMode
  /\ pid \in Threads /\ status[pid] # "FREE"
  /\ pending' = pending \cup {pid}
  /\ UNCHANGED <<status, rq, curr_thread, cpu, th_ptr, idle_pc, idle_hit>>

(* The running thread becomes a zombie and joins the run queue. *)
signal_default_handler ==
  /\ status' = [status EXCEPT ![curr_thread] = "ZOMBIE"]
  /\ rq' = push_rq([rq EXCEPT !.prev[curr_thread] = NULL, !.next[curr_thread] = NULL],
                   curr_thread)
  /\ cpu' = "schedule"

(* check_signal and run_signal, on the way back to user mode; with the     *)
(* default handler they do not return.                                     *)
check_signal ==
  /\ cpu = "thread" /\ curr_thread # idle /\ curr_thread \in pending
  /\ pending' = pending \ {curr_thread}
  /\ signal_default_handler
  /\ UNCHANGED <<curr_thread, th_ptr, idle_pc, idle_hit>>

-----------------------------------------------------------------------------
Next ==
  \/ thread_exec \/ Tick \/ schedule
  \/ kill_zombies \/ Visit \/ VisitedAll \/ IdleSchedules
  \/ fork \/ exit \/ thread_exit \/ check_signal
  \/ \E pid \in Killable : kill(pid) \/ signal_kill(pid)

Spec == Init /\ [][Next]_vars

(* The CPU executes what is next for it: the loops and idle go on,         *)
(* the timer keeps ticking (schedule_timer re-arms itself), and a thread   *)
(* that gets the CPU again and again completes its exception return.       *)
FairSpec ==
  /\ Spec
  /\ WF_vars(schedule) /\ WF_vars(Tick)
  /\ WF_vars(kill_zombies) /\ WF_vars(Visit) /\ WF_vars(VisitedAll)
  /\ WF_vars(IdleSchedules)
  /\ \A t \in Threads : SF_vars(curr_thread = t /\ check_signal)

-----------------------------------------------------------------------------
(* Properties. *)

(* The run queue is a list from RQ_head to RQ_tail without repetitions,    *)
(* and whenever a thread runs or kill_zombies walks it, its back links are *)
(* those kill_zombies needs to unlink any dead thread: they match the      *)
(* forward links, and a dead first thread has none.                        *)
QueueWellFormed ==
  /\ rq.head = NULL <=> rq.tail = NULL
  /\ rq.head # NULL =>
       /\ Len(Queue(rq)) = Cardinality(Members(rq))
       /\ Queue(rq)[Len(Queue(rq))] = rq.tail
  /\ rq.head # NULL /\ cpu # "schedule" =>
       /\ \A t \in Members(rq) : rq.next[t] # NULL => rq.prev[rq.next[t]] = t
       /\ status[rq.head] = "ZOMBIE" => rq.prev[rq.head] = NULL

(* No live thread is forgotten: it has the CPU or waits for it in the run  *)
(* queue.  And one whose stacks and page tables kill_zombies has freed     *)
(* does neither.                                                           *)
NoThreadLost ==
  \A t \in Threads :
    /\ status[t] = "ACTIVE" => t = curr_thread \/ t \in Members(rq)
    /\ status[t] = "FREE" => t # curr_thread /\ t \notin Members(rq)

Abstract == INSTANCE ReadyQueue WITH ready <- Queue(rq)

(* The linked run queue behaves as a first-in first-out sequence of        *)
(* threads, through every order of interrupts, deaths and forks.           *)
ImplementsReadyQueue == Abstract!Spec

(* schedule always finds a thread: it does not search for ever with the    *)
(* interrupts masked.                                                      *)
ScheduleReturns == cpu = "schedule" ~> cpu = "thread"

(* Idle lives, and no timer interrupt has come while it had the CPU. *)
Undisturbed == status[idle] = "ACTIVE" /\ ~idle_hit

(* As long as idle is undisturbed, schedule searches only while a thread   *)
(* that is not dead waits: idle itself or, when idle gives the CPU away,   *)
(* any, because kill_zombies has just unlinked the dead ones.              *)
SomeoneToRun ==
  cpu = "schedule" /\ Undisturbed => \E t \in Members(rq) : status[t] # "ZOMBIE"

(* Round robin: a live thread gets the CPU again, however often the others *)
(* fork, die or are interrupted.                                           *)
EveryThreadRuns ==
  []Undisturbed =>
    \A t \in Threads : status[t] = "ACTIVE" ~> (curr_thread = t \/ status[t] # "ACTIVE")

(* A dead thread on the run queue is found by idle and its slot freed,     *)
(* however busy the others are.  Only those that were killed while they    *)
(* waited are on the queue, and those the default signal handler puts      *)
(* there.                                                                  *)
QueuedZombiesReaped ==
  []Undisturbed =>
    \A t \in Threads : (status[t] = "ZOMBIE" /\ t \in Members(rq)) ~> status[t] = "FREE"

(* "Idle thread find zombie" (sched.c): every thread that died is found    *)
(* and its slot freed.  schedule does not queue a thread that died while   *)
(* it had the CPU, and kill_zombies looks at the queue only, so one that   *)
(* ends by exit, a memory fault or kill of itself is not                   *)
(* (SchedUnreaped.cfg).                                                    *)
DeadThreadsReaped ==
  []Undisturbed => \A t \in Threads : status[t] = "ZOMBIE" ~> status[t] = "FREE"
=============================================================================
