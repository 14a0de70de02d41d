------------------------------- MODULE Timer -------------------------------
(***************************************************************************)
(* The software timers of kernel/src/timer.c on the one compare register   *)
(* of the core timer: the sorted list of events, add_timer, the interrupt  *)
(* (irq_router) and core_timer_handler, with the two kinds of events the   *)
(* kernel uses: the scheduler's tick, which adds itself again              *)
(* (schedule_timer), and setTimeout messages of the shell.                 *)
(*                                                                         *)
(* Times are kept relative to the counter: an event's time is              *)
(* interrupt_time - cntpct_el0, so the counter's progress lowers them all. *)
(***************************************************************************)
EXTENDS Integers, Sequences, SequencesExt

CONSTANTS
  Messages,   \* the setTimeout calls that may be in progress or waiting
  Timeouts,   \* the delays they are given
  FirstTick,  \* the delay thread_exec gives the first tick (1 s)
  Period,     \* the delay of the next ticks (cntfrq_el0 >> 5)
  LATENCY,    \* bound: times overdue by more than this are not told apart
  FAR,        \* the delay when there is no event: cntfrq_el0 * 10000
  TVAL_RANGE  \* 2^32: cntp_tval_el0 is a signed 32-bit register

ASSUME TimerAssumption ==
  /\ Timeouts \subseteq Nat
  /\ FirstTick \in Nat /\ Period \in Nat \ {0} /\ LATENCY \in Nat
  /\ FAR \in Nat /\ TVAL_RANGE \in Nat \ {0}

tick == "tick"

VARIABLES
  timers,   \* the events between timer_head and timer_tail: <<[id, time], ...>>
  compare,  \* cntp_cval_el0, relative to the counter
  adding,   \* the event of the add_timer call in progress, interrupt_time set
  context        \* "shell", "thread" (after thread_exec) or "irq"

timer_vars == <<timers, compare, adding, context>>

Ids(s) == {s[i].id : i \in DOMAIN s}
None   == [id |-> "none", time |-> 0]

-----------------------------------------------------------------------------
(* Mutants of Insert: the event goes to the end, or to the front. *)
InsertLast(s, e) == Append(s, e)

InsertFirst(s, e) == <<e>> \o s

(* add_timer's walk stops before the first event that is due later.        *)
Insert(s, e) ==
  LET stops(i) == i = Len(s) + 1 \/ s[i].time > e.time
      place    == CHOOSE i \in 1 .. Len(s) + 1 : stops(i) /\ \A j \in 1 .. i - 1 : ~stops(j)
  IN  InsertAt(s, place, e)

TimerInit ==
  /\ timers = <<>>
  /\ compare \in {0, FirstTick} \* the register's reset value is not defined
  /\ adding = None
  /\ context = "shell"

(* add_timer reads the counter before it masks interrupts. *)
Begin_add_timer(id, timeout) ==
  /\ context # "irq" /\ adding = None
  /\ id \notin Ids(timers)
  /\ adding' = [id |-> id, time |-> timeout]
  /\ UNCHANGED <<timers, compare, context>>

setTimeout(m, timeout) == context = "shell" /\ Begin_add_timer(m, timeout)

thread_exec == context = "shell" /\ Begin_add_timer(tick, FirstTick)

(* add_timer programs the register when the new event is the first. *)
Rearmed(s, e) == IF Head(s) = e THEN e.time ELSE compare

End_add_timer ==
  /\ context # "irq" /\ adding # None
  /\ timers' = Insert(timers, adding)
  /\ compare' = Rearmed(timers', adding)
  /\ adding' = None
  /\ context' = IF adding.id = tick THEN "thread" ELSE context

-----------------------------------------------------------------------------
(* The interrupt is taken: core_timer_disable, then the handler is queued  *)
(* and run as an irq task.  No thread runs in between.                     *)
irq_router ==
  /\ context # "irq"
  /\ compare <= 0
  /\ context' = "irq"
  /\ UNCHANGED <<timers, compare, adding>>

(* Mutant of Callback: the tick is not added again. *)
CallbackOnce(e) == timers

(* The event's callback; the tick is schedule_timer. *)
Callback(e) == IF e.id = tick THEN Insert(timers, [e EXCEPT !.time = Period]) ELSE timers

(* set_core_timer_interrupt writes the delay to cntp_tval_el0, which keeps *)
(* its low 32 bits and adds them, as a signed number, to the counter.      *)
set_core_timer_interrupt(delay) ==
  LET low == delay % TVAL_RANGE
      val == IF 2 * low < TVAL_RANGE THEN low ELSE low - TVAL_RANGE
  IN  IF val < -LATENCY THEN -LATENCY ELSE val

(* Mutant of Next_compare: the register keeps the time that has passed. *)
Next_compareKept(s) == compare

Next_compare(s) == IF s = <<>> THEN set_core_timer_interrupt(FAR) ELSE Head(s).time

(* The list without the event e. *)
Unlinked(s, e) == RemoveAt(s, CHOOSE i \in DOMAIN s : s[i] = e)

(* core_timer_handler: the first event's callback is called, then the      *)
(* event is removed and the register programmed for the next one; the      *)
(* timer interrupt is enabled again.                                       *)
core_timer_handler ==
  /\ context = "irq"
  /\ timers' = IF timers = <<>> THEN timers
               ELSE Unlinked(Callback(Head(timers)), Head(timers))
  /\ compare' = Next_compare(timers')
  /\ context' = IF tick \in Ids(timers) THEN "thread" ELSE "shell"
  /\ UNCHANGED adding

(* The counter advances by one. *)
Clock ==
  LET later(t) == IF t = -LATENCY THEN t ELSE t - 1 IN
  /\ timers' = [i \in DOMAIN timers |-> [timers[i] EXCEPT !.time = later(@)]]
  /\ compare' = later(compare)
  /\ adding' = IF adding = None THEN None ELSE [adding EXCEPT !.time = later(@)]
  /\ UNCHANGED context

TimerNext ==
  \/ thread_exec \/ End_add_timer \/ irq_router \/ core_timer_handler \/ Clock
  \/ \E m \in Messages, t \in Timeouts : setTimeout(m, t)

TimerSpec == TimerInit /\ [][TimerNext]_timer_vars

(* Time passes, the hardware raises the interrupt while it is due, the     *)
(* handler runs, and an interrupted add_timer gets on between interrupts.  *)
FairTimerSpec ==
  /\ TimerSpec
  /\ WF_timer_vars(Clock) /\ WF_timer_vars(irq_router)
  /\ WF_timer_vars(core_timer_handler) /\ SF_timer_vars(End_add_timer)

-----------------------------------------------------------------------------
(* Properties. *)

(* The list is in order of time and the compare register is set for its    *)
(* first event: the hardware wakes the kernel up for the event that is due *)
(* first, whatever was added or fired in between.                          *)
RegisterIsFirstEvent ==
  /\ \A i \in 1 .. Len(timers) - 1 : timers[i].time <= timers[i + 1].time
  /\ timers # <<>> => compare = Head(timers).time

(* No event fires before its time: core_timer_handler does not look at the *)
(* clock, it relies on the interrupt having come for the first event.      *)
NeverEarly ==
  [][\A i \in DOMAIN timers :
       timers[i].id \in Messages /\ timers[i].id \notin Ids(timers') => timers[i].time <= 0]_timer_vars

(* Every setTimeout message is eventually printed, even if the interrupt   *)
(* comes between reading the clock and inserting the event.                *)
EveryEventFires ==
  \A m \in Messages : (m = adding.id) ~> (m \notin Ids(timers) /\ m # adding.id)

(* "disable the timer interrupt (set a very large value)" (timer.c, in     *)
(* Chinese): when core_timer_handler leaves the list empty, the next       *)
(* interrupt lies in the future.                                           *)
NoEventNoInterrupt ==
  [][core_timer_handler /\ timers' = <<>> => compare' > 0]_timer_vars

(* The scheduler is called for ever. *)
TicksForever == context = "thread" ~> (context = "irq" /\ timers # <<>> /\ Head(timers).id = tick)
=============================================================================
