------------------------------ MODULE IrqTask ------------------------------
(***************************************************************************)
(* Interrupts and their tasks: irq_router and irq_router2                  *)
(* (kernel/src/exception.c), the queue of tasks (kernel/src/irqtask.c),    *)
(* and how both meet the switch of threads that a timer interrupt ends in. *)
(*                                                                         *)
(* Tasks run with interrupts enabled, so that a second interrupt may be    *)
(* taken inside one, on the same kernel stack; when it is the timer's, the *)
(* thread loses the CPU with its task half done.  Each thread therefore    *)
(* has a stack of the interrupts it is inside.  Which line interrupts when *)
(* is up to the hardware.  With SAFE_DEMO the UART is not served from user *)
(* mode; the model serves it always, as with SAFE_DEMO = 0.  A thread that *)
(* reads or writes enables a UART line at any time, also while the task of *)
(* that line waits or has begun on another stack: the line then interrupts *)
(* again and a second task of it is queued.  An update of the UART's       *)
(* interrupt enable register is one step here; module Uart splits it.      *)
(***************************************************************************)
EXTENDS Integers, Sequences, FiniteSets, SequencesExt

CONSTANTS
  Threads,     \* the threads that share the CPU
  DieInTask,   \* threads may be killed while they owe a task to the others
  MAX_DEPTH,   \* bound: interrupts inside one another on one stack
  MAX_TASKS    \* bound: the UART interrupts no more when so many tasks wait

ASSUME IrqTaskAssumption == MAX_DEPTH \in Nat /\ MAX_TASKS \in Nat /\ DieInTask \in BOOLEAN

Lines == {"timer", "r", "w"}   \* the core timer, UART receive and transmit

priority(l) == IF l = "timer" THEN 0 ELSE 1

NO_TASK == 9999                \* the priority when no task runs

VARIABLES
  enabled,             \* the lines that may interrupt: AUX_MU_IER_REG, cntp_ctl
  parked,              \* UART lines that a handler has left off, with nothing to do
  task_list,           \* the tasks between task_head and task_tail
  curr_task_priority,
  stack,               \* each thread's interrupts, the innermost last
  curr_thread,
  dead                 \* the threads that were killed

vars == <<enabled, parked, task_list, curr_task_priority, stack, curr_thread, dead>>

Init ==
  /\ enabled = Lines
  /\ parked = {}
  /\ task_list = <<>>
  /\ curr_task_priority = NO_TASK
  /\ stack = [t \in Threads |-> <<>>]
  /\ curr_thread \in Threads
  /\ dead = {}

-----------------------------------------------------------------------------
(* Mutant of irqtask_add: a new task is always the last. *)
irqtask_addLast(q, l) == Append(q, l)

(* irqtask_add: the walk from task_head stops before the first task that   *)
(* is less urgent, or at task_tail.                                        *)
irqtask_add(q, l) ==
  LET stops(i) == i = Len(q) + 1 \/ priority(l) < priority(q[i])
      place    == CHOOSE i \in 1 .. Len(q) + 1 : stops(i) /\ \A j \in 1 .. i - 1 : ~stops(j)
  IN  InsertAt(q, place, l)

(* The innermost interrupt of the running thread is at pc. *)
At(pc) == stack[curr_thread] # <<>> /\ Last(stack[curr_thread]).pc = pc

Inner == Last(stack[curr_thread])

SetInner(f) == stack' = [stack EXCEPT ![curr_thread] = Append(Front(@), f)]

(* The interrupt of line l: the router masks the line and calls            *)
(* irqtask_add, whose kmalloc ends with interrupts enabled: from here on   *)
(* another interrupt may come between any two steps.                       *)
irq_router(l) ==
  /\ l \in enabled
  /\ Len(stack[curr_thread]) < MAX_DEPTH
  /\ l # "timer" => Len(task_list) < MAX_TASKS
  /\ enabled' = enabled \ {l}
  /\ stack' = [stack EXCEPT ![curr_thread] =
                 Append(@, [line |-> l, pc |-> "add", task |-> "none", prev |-> NO_TASK])]
  /\ UNCHANGED <<parked, task_list, curr_task_priority, curr_thread, dead>>

(* The rest of irqtask_add, with interrupts masked. *)
AddTask ==
  /\ At("add")
  /\ task_list' = irqtask_add(task_list, Inner.line)
  /\ SetInner([Inner EXCEPT !.pc = "loop"])
  /\ UNCHANGED <<enabled, parked, curr_task_priority, curr_thread, dead>>

(* Mutant of MayStart: a task of the same priority may start. *)
MayStartEqual(l) == priority(l) <= curr_task_priority

MayStart(l) == priority(l) < curr_task_priority

(* irqtask_run_preemptive: the first task starts when it is more urgent    *)
(* than the one in progress.                                               *)
StartTask ==
  /\ At("loop")
  /\ task_list # <<>> /\ MayStart(Head(task_list))
  /\ task_list' = Tail(task_list)
  /\ curr_task_priority' = priority(Head(task_list))
  /\ SetInner([Inner EXCEPT !.pc = "task", !.task = Head(task_list),
                            !.prev = curr_task_priority])
  /\ UNCHANGED <<enabled, parked, curr_thread, dead>>

(* The task's function: a UART handler enables its line, or turns it off   *)
(* and leaves it to the next thread that reads or writes.                  *)
RunTask ==
  /\ At("task")
  /\ \/ /\ Inner.task = "timer"
        /\ UNCHANGED <<enabled, parked>>
     \/ /\ Inner.task # "timer"
        /\ enabled' = enabled \cup {Inner.task}
        /\ parked' = parked \ {Inner.task}
     \/ /\ Inner.task # "timer"
        /\ enabled' = enabled \ {Inner.task}
        /\ parked' = parked \cup {Inner.task}
  /\ SetInner([Inner EXCEPT !.pc = "ran"])
  /\ UNCHANGED <<task_list, curr_task_priority, curr_thread, dead>>

(* Mutant of EndTask: the priority is reset, not restored. *)
EndTaskResets ==
  /\ At("ran")
  /\ curr_task_priority' = NO_TASK
  /\ SetInner([Inner EXCEPT !.pc = "loop", !.task = "none", !.prev = NO_TASK])
  /\ UNCHANGED <<enabled, parked, task_list, curr_thread, dead>>

EndTask ==
  /\ At("ran")
  /\ curr_task_priority' = Inner.prev
  /\ SetInner([Inner EXCEPT !.pc = "loop", !.task = "none", !.prev = NO_TASK])
  /\ UNCHANGED <<enabled, parked, task_list, curr_thread, dead>>

(* Mutant of LeaveLoop: the loop may be left with tasks waiting. *)
LeaveLoopEarly ==
  /\ At("loop")
  /\ IF Inner.line = "timer"
     THEN SetInner([Inner EXCEPT !.pc = "schedule"]) /\ enabled' = enabled \cup {"timer"}
     ELSE stack' = [stack EXCEPT ![curr_thread] = Front(@)] /\ UNCHANGED enabled
  /\ UNCHANGED <<parked, task_list, curr_task_priority, curr_thread, dead>>

(* The loop ends; a UART interrupt returns, the timer's calls              *)
(* core_timer_enable and goes on to schedule.                              *)
LeaveLoop ==
  /\ At("loop")
  /\ task_list # <<>> => ~MayStart(Head(task_list))
  /\ IF Inner.line = "timer"
     THEN SetInner([Inner EXCEPT !.pc = "schedule"]) /\ enabled' = enabled \cup {"timer"}
     ELSE stack' = [stack EXCEPT ![curr_thread] = Front(@)] /\ UNCHANGED enabled
  /\ UNCHANGED <<parked, task_list, curr_task_priority, curr_thread, dead>>

(* Mutant of schedule: a thread that was interrupted does not get the CPU  *)
(* back.                                                                   *)
scheduleForgets(u) ==
  /\ At("schedule")
  /\ u \notin dead /\ (u = curr_thread \/ stack[u] = <<>>)
  /\ SetInner([Inner EXCEPT !.pc = "resume"])
  /\ curr_thread' = u
  /\ UNCHANGED <<enabled, parked, task_list, curr_task_priority, dead>>

(* schedule, as module Sched has it: some live thread gets the CPU. *)
schedule(u) ==
  /\ At("schedule")
  /\ u \notin dead
  /\ SetInner([Inner EXCEPT !.pc = "resume"])
  /\ curr_thread' = u
  /\ UNCHANGED <<enabled, parked, task_list, curr_task_priority, dead>>

(* A thread that has the CPU back returns from the interrupt. *)
Resume ==
  /\ At("resume")
  /\ stack' = [stack EXCEPT ![curr_thread] = Front(@)]
  /\ UNCHANGED <<enabled, parked, task_list, curr_task_priority, curr_thread, dead>>

(* uart_async_getc and uart_async_putc enable their line, whatever has     *)
(* become of its last interrupt.                                           *)
EnableLine(l) ==
  /\ stack[curr_thread] = <<>>
  /\ l # "timer"
  /\ enabled' = enabled \cup {l}
  /\ parked' = parked \ {l}
  /\ UNCHANGED <<task_list, curr_task_priority, stack, curr_thread, dead>>

(* The tasks that thread t has still to add. *)
Owed(t) == {i \in DOMAIN stack[t] : stack[t][i].pc = "add"}

(* The tasks that have started in thread t and not ended. *)
Unfinished(t) == {i \in DOMAIN stack[t] : stack[t][i].pc \in {"task", "ran"}}

(* The running program kills another thread. *)
kill(t) ==
  /\ stack[curr_thread] = <<>>
  /\ t # curr_thread /\ t \notin dead
  /\ DieInTask \/ Unfinished(t) \cup Owed(t) = {}
  /\ dead' = dead \cup {t}
  /\ UNCHANGED <<enabled, parked, task_list, curr_task_priority, stack, curr_thread>>

-----------------------------------------------------------------------------
Next ==
  \/ AddTask \/ StartTask \/ RunTask \/ EndTask \/ LeaveLoop \/ Resume
  \/ \E l \in Lines : irq_router(l) \/ EnableLine(l)
  \/ \E t \in Threads : schedule(t) \/ kill(t)

Spec == Init /\ [][Next]_vars

(* Thread t goes on with the interrupt at depth d of its stack. *)
GoesOn(t, d) ==
  /\ curr_thread = t /\ Len(stack[t]) = d
  /\ \/ AddTask \/ StartTask \/ RunTask \/ EndTask \/ LeaveLoop \/ Resume
     \/ \E u \in Threads : schedule(u)

(* Interrupts are apart in time, so that none of them keeps a thread for   *)
(* ever from going on, at any depth of its stack; the timer goes on        *)
(* (module Timer), and every live thread gets its turn (Sched).            *)
FairSpec ==
  /\ Spec
  /\ WF_vars(irq_router("timer"))
  /\ \A t \in Threads :
       SF_vars(schedule(t)) /\ \A d \in 1 .. MAX_DEPTH : SF_vars(GoesOn(t, d))

-----------------------------------------------------------------------------
(* Properties. *)

(* The tasks in progress, as <<thread, place on its stack>>. *)
Running == {x \in Threads \X (1 .. MAX_DEPTH) : x[2] \in Unfinished(x[1])}

TaskOf(x) == stack[x[1]][x[2]].task

(* A task interrupts only less urgent ones: whatever threads they are      *)
(* spread over, at most one task of each priority is in progress.  The two *)
(* UART handlers rely on it, which share the buffers without a lock.       *)
OneTaskPerPriority ==
  \A x, y \in Running : x # y => priority(TaskOf(x)) # priority(TaskOf(y))

(* curr_task_priority, which each interrupt saves and restores on its own  *)
(* stack while threads are switched in between, is that of the most urgent *)
(* task in progress.                                                       *)
PriorityOfRunning ==
  LET used == {priority(TaskOf(x)) : x \in Running} \cup {NO_TASK}
  IN  curr_task_priority \in used /\ \A p \in used : curr_task_priority <= p

(* A line that was masked for its interrupt is not forgotten: some live    *)
(* thread will add its task, or the task is in progress, or it waits while *)
(* some live thread is still in the loop that will find it, or the timer's *)
(* interrupt is on its way to enable it.                                   *)
NoInterruptLost ==
  LET inside(pcs) == {x \in (Threads \ dead) \X (1 .. MAX_DEPTH) :
                        x[2] \in DOMAIN stack[x[1]] /\ stack[x[1]][x[2]].pc \in pcs}
      waits(l)    == \E i \in DOMAIN task_list : task_list[i] = l
  IN  \A l \in Lines \ (enabled \cup parked) :
        \/ \E x \in inside({"add"}) : stack[x[1]][x[2]].line = l
        \/ \E x \in Running : TaskOf(x) = l
        \/ waits(l) /\ inside({"add", "loop", "task", "ran"}) # {}
        \/ l = "timer" /\ \E x \in inside({"loop", "task", "ran"}) : stack[x[1]][x[2]].line = l

(* No interrupt is left while a task waits that is more urgent than the    *)
(* one it interrupted: the timer's handler is not held up by the UART's.   *)
UrgentFirst ==
  [][LeaveLoop => \A i \in DOMAIN task_list : priority(task_list[i]) >= curr_task_priority]_vars

(* While a task of a line waits, tasks of that line are started again and  *)
(* again, however the interrupts are nested and the threads switched; they *)
(* start in the order they came, so that each of them is run.              *)
TasksRun ==
  \A l \in Lines :
    \/ []<>(\A i \in DOMAIN task_list : task_list[i] # l)
    \/ []<><<StartTask /\ Head(task_list) = l>>_vars
=============================================================================
