-------------------------------- MODULE Signal --------------------------------
(***************************************************************************)
(* Exceptions from user mode, signals and what a thread is resumed with:   *)
(* kernel/src/signal.c, the signal calls, fork, exec and sigreturn of      *)
(* kernel/src/syscall.c, save_all and load_all of kernel/src/entry.S, and  *)
(* the contexts of kernel/src/ctxsw.S.                                     *)
(*                                                                         *)
(* A thread's kernel stack is the sequence of the frames that matter:      *)
(* trap frames (save_all) and frames of check_signal.  A handler runs in   *)
(* user mode on top of both, because run_signal leaves by an eret.  Of a   *)
(* user context the model keeps which code it runs, the program or a       *)
(* signal handler, and whether x0 holds its own value or a call's result.  *)
(*                                                                         *)
(* A step is a stretch of code that the timer interrupt does not divide,   *)
(* or in which it could change nothing.  Which thread schedule picks is    *)
(* left open (Sched decides it); 0 stands for idle.                        *)
(***************************************************************************)
EXTENDS Integers, Sequences, FiniteSets, SequencesExt

CONSTANTS
  MAX_THREAD_COUNT,
  SIGNAL_MAX,
  Signals,          \* the signals that programs send
  Registered,       \* the signals that programs register a handler for
  MaxCalls,         \* bound: system calls that programs make, sigreturn apart
  InterruptReturn,  \* an interrupt may come between load_all and its eret
  InterruptKill,    \* signal_kill may be interrupted before it masks interrupts
  ForkInHandler,    \* handlers may fork
  ExecInHandler     \* handlers may exec

ASSUME SignalAssumption ==
  /\ MAX_THREAD_COUNT \in Nat \ {0} /\ SIGNAL_MAX \in Nat /\ MaxCalls \in Nat
  /\ Signals \subseteq 0 .. SIGNAL_MAX /\ Registered \subseteq Signals
  /\ {InterruptReturn, InterruptKill, ForkInHandler, ExecInHandler} \subseteq BOOLEAN

Threads == 1 .. MAX_THREAD_COUNT
idle    == 0
Sigs    == 0 .. SIGNAL_MAX

VARIABLES
  status,             \* threads[t].status
  rq,                 \* the threads on the run queue
  curr,               \* curr_thread
  pc,                 \* where t is
  stack,              \* the frames on threads[t].kernel_sp
  code,               \* what t runs in user mode: "main" or "handler"
  elr,                \* what elr_el1 and spsr_el1 hold when t is about to eret
  sigcount, signal_handler, signal_is_checking,  \* of threads[t]
  saved,              \* threads[t].signal_saved_context: the depth of the stack
  arg,                \* signal_kill's target and signal, and whether the target
                      \* is still the thread it has looked at
  origin,             \* fork: the thread whose trap frame tpf points to
  owed,               \* history: signals sent to the slot's owner, not yet handled
  due,                \* history: what the program expects to be resumed with
  calls               \* system calls so far

thread_vars == <<stack, code, saved, signal_is_checking>>
signal_vars == <<sigcount, signal_handler, owed>>
vars == <<status, rq, curr, pc, elr, arg, origin, due, calls, thread_vars,
          signal_vars>>

-----------------------------------------------------------------------------
(* Frames. *)

TrapFrame(c, v) == [type |-> "trap", code |-> c, x0 |-> v, i |-> 0]
CheckFrame(i)   == [type |-> "check", code |-> "kernel", x0 |-> "own", i |-> i]

Top(s)        == s[Len(s)]
Pop(s)        == SubSeq(s, 1, Len(s) - 1)
TopWith(s, f) == Append(Pop(s), f)

IsTrap(f)  == f.type = "trap"
IsCheck(f) == f.type = "check"

(* thread_exec: one program runs, with the default handlers. *)
Init ==
  /\ status = [t \in Threads |-> IF t = 1 THEN "ACTIVE" ELSE "FREE"]
  /\ rq = {} /\ curr = 1
  /\ pc = [t \in Threads |-> "user"]
  /\ stack = [t \in Threads |-> <<>>] /\ due = [t \in Threads |-> <<>>]
  /\ code = [t \in Threads |-> "main"]
  /\ elr = [t \in Threads |-> "main"]
  /\ sigcount = [t \in Threads |-> [i \in Sigs |-> 0]] /\ owed = sigcount
  /\ signal_handler = [t \in Threads |-> [i \in Sigs |-> "default"]]
  /\ signal_is_checking = [t \in Threads |-> FALSE]
  /\ saved = [t \in Threads |-> 0]
  /\ arg = [t \in Threads |-> <<>>] /\ origin = [t \in Threads |-> idle]
  /\ calls = 0

-----------------------------------------------------------------------------
(* The CPU changes hands.  schedule takes a live thread, or idle, off the  *)
(* run queue and puts the one that ran on it if it lives; st is the status *)
(* of the threads by then.  The turns of idle that find no dead thread are *)
(* left out while another one is ready.                                    *)

Ready(st)   == {t \in rq \ {curr} : st[t] = "ACTIVE"}
Dead(q, st) == {t \in q : st[t] = "ZOMBIE"}

schedule(st, queued) ==
  LET idles == IF curr # idle /\ (Ready(st) = {} \/ Dead(rq \cup queued, st) # {})
               THEN {idle} ELSE {}
  IN
  \E next \in Ready(st) \cup idles : curr' = next /\ rq' = (rq \cup queued) \ {next}

Queued == {curr} \ {idle}

(* save_all, on entry from user mode: the trap frame, with which the       *)
(* program expects to be resumed unless the call has a result.             *)
save_all(t) ==
  /\ stack' = [stack EXCEPT ![t] = Append(@, TrapFrame(code[t], "own"))]
  /\ due' = [due EXCEPT ![t] = Append(@, TrapFrame(code[t], "own"))]
  /\ UNCHANGED <<code, saved, signal_is_checking>>

(* The timer interrupt in user mode: irq_router2, then check_signal. *)
TickInUser ==
  /\ curr # idle /\ pc[curr] = "user"
  /\ save_all(curr)
  /\ pc' = [pc EXCEPT ![curr] = "check_signal"]
  /\ schedule(status, Queued)
  /\ UNCHANGED <<status, elr, arg, origin, calls, signal_vars>>

(* The timer interrupt in the kernel: el1h_irq saves and restores what it  *)
(* interrupts, but not elr_el1 and spsr_el1, which the entry overwrites.   *)
TickInKernel ==
  /\ curr # idle => pc[curr] # "user"
  /\ curr # idle /\ pc[curr] = "eret" => InterruptReturn
  /\ curr # idle /\ pc[curr] = "signal_kill" => InterruptKill
  /\ elr' = [t \in Threads |-> IF t = curr /\ pc[t] = "eret" THEN "kernel" ELSE elr[t]]
  /\ schedule(status, Queued)
  /\ UNCHANGED <<status, pc, arg, origin, due, calls, thread_vars, signal_vars>>

(* idle: kill_zombies frees the slots and stacks of the dead threads that  *)
(* are queued; the rest of a slot stays as it is.                          *)
kill_zombies ==
  LET dead == Dead(rq, status) IN
  /\ curr = idle /\ dead # {}
  /\ status' = [t \in Threads |-> IF t \in dead THEN "FREE" ELSE status[t]]
  /\ rq' = rq \ dead
  /\ stack' = [t \in Threads |-> IF t \in dead THEN <<>> ELSE stack[t]]
  /\ due' = [t \in Threads |-> IF t \in dead THEN <<>> ELSE due[t]]
  /\ arg' = [t \in Threads |-> IF arg[t] # <<>> /\ arg[t][1] \in dead
                                THEN [arg[t] EXCEPT ![3] = FALSE] ELSE arg[t]]
  /\ origin' = [t \in Threads |-> IF origin[t] \in dead THEN idle ELSE origin[t]]
  /\ UNCHANGED <<curr, pc, elr, calls, code, saved, signal_is_checking, signal_vars>>

-----------------------------------------------------------------------------
(* The way back to user mode: check_signal, load_all, eret. *)

(* Mutant of check_signal: it does not look whether a check is under way. *)
check_signalNested(t) ==
  /\ pc[t] = "check_signal"
  /\ signal_is_checking' = [signal_is_checking EXCEPT ![t] = TRUE]
  /\ stack' = [stack EXCEPT ![t] = Append(@, CheckFrame(0))]
  /\ pc' = [pc EXCEPT ![t] = "loop"]
  /\ UNCHANGED <<status, rq, curr, elr, arg, origin, due, calls, code, saved,
                 signal_vars>>

(* check_signal returns at once while an earlier one has not ended. *)
check_signal(t) ==
  /\ pc[t] = "check_signal"
  /\ IF signal_is_checking[t]
     THEN pc' = [pc EXCEPT ![t] = "load_all"] /\ UNCHANGED <<stack, signal_is_checking>>
     ELSE /\ signal_is_checking' = [signal_is_checking EXCEPT ![t] = TRUE]
          /\ stack' = [stack EXCEPT ![t] = Append(@, CheckFrame(0))]
          /\ pc' = [pc EXCEPT ![t] = "loop"]
  /\ UNCHANGED <<status, rq, curr, elr, arg, origin, due, calls, code, saved,
                 signal_vars>>

(* Mutant of NextSignal: the end of the loop leaves signal_is_checking set. *)
NextSignalStuck(t, i) ==
  IF i < SIGNAL_MAX
  THEN /\ stack' = [stack EXCEPT ![t] = TopWith(@, CheckFrame(i + 1))]
       /\ UNCHANGED <<signal_is_checking, pc>>
  ELSE /\ stack' = [stack EXCEPT ![t] = Pop(@)]
       /\ pc' = [pc EXCEPT ![t] = "load_all"]
       /\ UNCHANGED signal_is_checking

(* The next turn of the loop, or its end. *)
NextSignal(t, i) ==
  IF i < SIGNAL_MAX
  THEN /\ stack' = [stack EXCEPT ![t] = TopWith(@, CheckFrame(i + 1))]
       /\ UNCHANGED <<signal_is_checking, pc>>
  ELSE /\ stack' = [stack EXCEPT ![t] = Pop(@)]
       /\ signal_is_checking' = [signal_is_checking EXCEPT ![t] = FALSE]
       /\ pc' = [pc EXCEPT ![t] = "load_all"]

(* A turn of the loop for a signal that is not pending.  store_context     *)
(* notes the depth of the stack.                                           *)
LoopPasses(t) ==
  LET i == Top(stack[t]).i IN
  /\ pc[t] = "loop" /\ sigcount[t][i] = 0
  /\ saved' = [saved EXCEPT ![t] = Len(stack[t])]
  /\ NextSignal(t, i)
  /\ UNCHANGED <<status, rq, curr, elr, arg, origin, due, calls, code,
                 signal_vars>>

Take(t, i) ==
  /\ sigcount' = [sigcount EXCEPT ![t][i] = @ - 1]
  /\ owed' = [owed EXCEPT ![t][i] = @ - 1]
  /\ saved' = [saved EXCEPT ![t] = Len(stack[t])]

(* run_signal with a registered handler: the signal wrapper is the target  *)
(* of an eret, and everything on the kernel stack stays.                   *)
run_signal(t) ==
  LET i == Top(stack[t]).i IN
  /\ pc[t] = "loop" /\ sigcount[t][i] > 0 /\ signal_handler[t][i] # "default"
  /\ Take(t, i)
  /\ elr' = [elr EXCEPT ![t] = "handler"]
  /\ pc' = [pc EXCEPT ![t] = "eret"]
  /\ UNCHANGED <<status, rq, curr, arg, origin, due, calls, stack, code,
                 signal_is_checking, signal_handler>>

(* run_signal with the default handler, which kills the thread. *)
signal_default_handler(t) ==
  LET i == Top(stack[t]).i IN
  /\ pc[t] = "loop" /\ sigcount[t][i] > 0 /\ signal_handler[t][i] = "default"
  /\ Take(t, i)
  /\ status' = [status EXCEPT ![t] = "ZOMBIE"]
  /\ schedule(status', {t})
  /\ UNCHANGED <<pc, elr, arg, origin, due, calls, stack, code,
                 signal_is_checking, signal_handler>>

(* load_all: the registers of the trap frame, elr_el1 and spsr_el1 among   *)
(* them, with interrupts enabled since check_signal's enable_interrupt.    *)
load_all(t) ==
  /\ pc[t] = "load_all"
  /\ elr' = [elr EXCEPT ![t] = Top(stack[t]).code]
  /\ stack' = [stack EXCEPT ![t] = Pop(@)] /\ due' = [due EXCEPT ![t] = Pop(@)]
  /\ pc' = [pc EXCEPT ![t] = "eret"]
  /\ UNCHANGED <<status, rq, curr, arg, origin, calls, code, saved,
                 signal_is_checking, signal_vars>>

(* The exception return; with the registers of an interrupt in the kernel  *)
(* it does not reach the program.                                          *)
eret(t) ==
  /\ pc[t] = "eret"
  /\ code' = [code EXCEPT ![t] = elr[t]]
  /\ pc' = [pc EXCEPT ![t] = IF elr[t] = "kernel" THEN "lost" ELSE "user"]
  /\ UNCHANGED <<status, rq, curr, elr, arg, origin, due, calls, stack, saved,
                 signal_is_checking, signal_vars>>

(* Mutant of load_context: the stack pointer is not restored. *)
load_contextShort(t, s) ==
  /\ stack' = [stack EXCEPT ![t] = s]
  /\ pc' = [pc EXCEPT ![t] = "check_signal"]

(* load_context goes on behind the store_context of the check_signal whose *)
(* frame the saved stack pointer names; without such a frame it goes on    *)
(* with whatever is there.                                                 *)
load_context(t, s) ==
  LET d == saved[t] IN
  IF d \in DOMAIN s /\ IsCheck(s[d])
  THEN /\ stack' = [stack EXCEPT ![t] = SubSeq(s, 1, d)]
       /\ pc' = [pc EXCEPT ![t] = "loop"]
  ELSE /\ stack' = [stack EXCEPT ![t] = s]
       /\ pc' = [pc EXCEPT ![t] = "lost"]

(* The handler returns to signal_handler_wrapper, which calls sigreturn;   *)
(* the trap frame of this call is dropped with the rest of the stack.      *)
sigreturn(t) ==
  /\ pc[t] = "user" /\ code[t] = "handler"
  /\ load_context(t, Append(stack[t], TrapFrame(code[t], "own")))
  /\ UNCHANGED <<status, rq, curr, elr, arg, origin, due, calls, code, saved,
                 signal_is_checking, signal_vars>>

-----------------------------------------------------------------------------
(* System calls of the program or of a handler.  Each ends in              *)
(* check_signal; one that is refused does nothing else, like a TickInUser. *)

Call(t) == curr = t /\ pc[t] = "user" /\ calls < MaxCalls /\ calls' = calls + 1

signal_register(t, i) ==
  /\ Call(t)
  /\ save_all(t)
  /\ signal_handler' = [signal_handler EXCEPT ![t][i] = "user"]
  /\ pc' = [pc EXCEPT ![t] = "check_signal"]
  /\ UNCHANGED <<status, rq, curr, elr, arg, origin, sigcount, owed>>

(* signal_kill looks at the target's status with interrupts enabled ...    *)
signal_kill(t, pid, i) ==
  /\ Call(t)
  /\ save_all(t)
  /\ IF status[pid] = "FREE"
     THEN pc' = [pc EXCEPT ![t] = "check_signal"] /\ UNCHANGED arg
     ELSE /\ pc' = [pc EXCEPT ![t] = "signal_kill"]
          /\ arg' = [arg EXCEPT ![t] = <<pid, i, TRUE>>]
  /\ UNCHANGED <<status, rq, curr, elr, origin, signal_vars>>

(* ... and then masks them and counts the signal. *)
RaiseSignal(t) ==
  LET pid == arg[t][1]
      i   == arg[t][2]
  IN
  /\ pc[t] = "signal_kill"
  /\ sigcount' = [sigcount EXCEPT ![pid][i] = @ + 1]
  /\ owed' = IF arg[t][3] THEN [owed EXCEPT ![pid][i] = @ + 1] ELSE owed
  /\ pc' = [pc EXCEPT ![t] = "check_signal"]
  /\ arg' = [arg EXCEPT ![t] = <<>>]
  /\ UNCHANGED <<status, rq, curr, elr, origin, due, calls, thread_vars,
                 signal_handler>>

(* kill: the target is a zombie wherever it is. *)
kill(t, pid) ==
  /\ Call(t) /\ status[pid] # "FREE"
  /\ save_all(t)
  /\ status' = [status EXCEPT ![pid] = "ZOMBIE"]
  /\ pc' = [pc EXCEPT ![t] = "check_signal"]
  /\ schedule(status', {t} \ {pid})
  /\ UNCHANGED <<elr, arg, origin, signal_vars>>

(* exec starts the new program at its first instruction with the default   *)
(* handlers; pending signals and signal_is_checking are left alone.        *)
exec(t) ==
  /\ Call(t) /\ (code[t] = "handler" => ExecInHandler)
  /\ stack' = [stack EXCEPT ![t] = Append(@, TrapFrame("main", "zero"))]
  /\ due' = [due EXCEPT ![t] = <<TrapFrame("main", "zero")>>]
  /\ signal_handler' = [signal_handler EXCEPT ![t] = [i \in Sigs |-> "default"]]
  /\ pc' = [pc EXCEPT ![t] = "check_signal"]
  /\ UNCHANGED <<status, rq, curr, elr, arg, origin, sigcount, owed,
                 code, saved, signal_is_checking>>

(* Mutant of ResetCounts: the counts of the slot's last owner stay. *)
ResetCountsNone(counts) == counts

(* thread_create resets the signals below SIGNAL_MAX. *)
ResetCounts(counts) == [i \in Sigs |-> IF i < SIGNAL_MAX THEN 0 ELSE counts[i]]

(* fork: the slot's new owner gets the parent's handlers and a copy of its *)
(* kernel stack.  The child continues behind fork's store_context.         *)
fork(t) ==
  LET n == CHOOSE u \in Threads : status[u] = "FREE" /\ \A v \in 1 .. u - 1 : status[v] # "FREE"
      s == Append(stack[t], TrapFrame(code[t], "own"))
  IN
  /\ Call(t) /\ (code[t] = "handler" => ForkInHandler)
  /\ \E u \in Threads : status[u] = "FREE"
  /\ status' = [status EXCEPT ![n] = "ACTIVE"] /\ rq' = rq \cup {n}
  /\ stack' = [stack EXCEPT ![t] = s, ![n] = s]
  /\ due' = [due EXCEPT ![t] = Append(@, TrapFrame(code[t], "pid")),
                        ![n] = Append(due[t], TrapFrame(code[t], "zero"))]
  /\ pc' = [pc EXCEPT ![t] = "parent", ![n] = "child"]
  /\ code' = [code EXCEPT ![n] = code[t]]
  /\ origin' = [origin EXCEPT ![n] = t]
  /\ signal_is_checking' = [signal_is_checking EXCEPT ![n] = FALSE]
  /\ signal_handler' = [signal_handler EXCEPT ![n] = signal_handler[t]]
  /\ sigcount' = [sigcount EXCEPT ![n] = ResetCounts(@)]
  /\ owed' = [owed EXCEPT ![n] = [i \in Sigs |-> 0]]
  /\ UNCHANGED <<curr, elr, arg, saved>>

(* Interrupts are enabled before the parent's result is stored. *)
parent(t) ==
  /\ pc[t] = "parent"
  /\ stack' = [stack EXCEPT ![t] = TopWith(@, TrapFrame(code[t], "pid"))]
  /\ pc' = [pc EXCEPT ![t] = "check_signal"]
  /\ UNCHANGED <<status, rq, curr, elr, arg, origin, due, calls, code, saved,
                 signal_is_checking, signal_vars>>

(* The child's first step.  Its tpf is the parent's: the zero goes to the  *)
(* trap frame at the same depth of the parent's stack, if one is there.    *)
child(t) ==
  LET p     == origin[t]
      d     == Len(stack[t])
      there == p # idle /\ d \in DOMAIN stack[p] /\ IsTrap(stack[p][d])
  IN
  /\ pc[t] = "child"
  /\ stack' = IF there THEN [stack EXCEPT ![p][d].x0 = "zero"] ELSE stack
  /\ origin' = [origin EXCEPT ![t] = idle]
  /\ pc' = [pc EXCEPT ![t] = "check_signal"]
  /\ UNCHANGED <<status, rq, curr, elr, arg, due, calls, code, saved,
                 signal_is_checking, signal_vars>>

-----------------------------------------------------------------------------
(* What thread t does in the kernel and at the end of a handler. *)
KernelStep(t) ==
  /\ curr = t
  /\ \/ check_signal(t) \/ LoopPasses(t) \/ run_signal(t) \/ signal_default_handler(t)
     \/ load_all(t) \/ eret(t) \/ sigreturn(t) \/ RaiseSignal(t)
     \/ parent(t) \/ child(t)

SystemCall(t) ==
  \/ \E i \in Registered : signal_register(t, i)
  \/ \E pid \in Threads : kill(t, pid) \/ \E i \in Signals : signal_kill(t, pid, i)
  \/ exec(t) \/ fork(t)

Tick == TickInUser \/ TickInKernel

Next ==
  \/ Tick \/ kill_zombies
  \/ \E t \in Threads : KernelStep(t) \/ SystemCall(t)

Spec == Init /\ [][Next]_vars

(* A queued thread gets the CPU again and again (Sched's EveryThreadRuns), *)
(* and then goes on; handlers return.                                      *)
FairSpec ==
  /\ Spec
  /\ WF_vars(Tick)
  /\ \A t \in Threads : /\ SF_vars(Tick /\ curr' = t)
                         /\ SF_vars(KernelStep(t))
                         /\ SF_vars(curr = t /\ sigreturn(t))

-----------------------------------------------------------------------------
(* Properties. *)

Live == {t \in Threads : status[t] = "ACTIVE"}

(* The trap frames of stack s run, in their order, the code of the frames  *)
(* of due.                                                                 *)
SameCode(s, d) ==
  \E pos \in [DOMAIN d -> DOMAIN s] :
    /\ \A j, k \in DOMAIN d : j < k => pos[j] < pos[k]
    /\ {k \in DOMAIN s : IsTrap(s[k])} = {pos[j] : j \in DOMAIN d}
    /\ \A j \in DOMAIN d : s[pos[j]].code = d[j].code

(* No signal is lost, invented or inherited: those sent to a thread since  *)
(* its slot became its own are handled or still counted, whatever was      *)
(* pending for the slot before, and through fork, exec and every           *)
(* interruption of check_signal's loop.                                    *)
SignalsConserved ==
  \A t \in Live, i \in Sigs : sigcount[t][i] = owed[t][i]

(* Handlers do not nest (signal.c: "prevent nested running signal          *)
(* handler"): a thread's kernel stack holds at most the trap that the      *)
(* program was in, one check_signal and one trap out of a handler, so its  *)
(* depth does not grow with the signals; and the saved context is that of  *)
(* the check_signal that is under way.                                     *)
OneHandlerAtATime ==
  \A t \in Live :
    /\ Len(stack[t]) <= 3
    /\ Cardinality({d \in DOMAIN stack[t] : IsCheck(stack[t][d])}) <= 1
    /\ pc[t] = "user" /\ code[t] = "handler" => IsCheck(stack[t][saved[t]])

(* What an exception interrupted is resumed: after any number of nested    *)
(* interrupts, calls and handlers a thread goes back to the code that it   *)
(* was taken from, in user mode.                                           *)
ResumesInterruptedCode ==
  \A t \in Live :
    /\ pc[t] # "lost"
    /\ pc[t] = "load_all" => SameCode(stack[t], due[t])

(* x0 holds the result of the call, or what it held when the thread was    *)
(* interrupted, when the thread goes back to user mode; fork's result is   *)
(* 0 in the child.                                                         *)
ResultsDelivered ==
  \A t \in Live : pc[t] = "load_all" => Top(stack[t]).x0 = Top(due[t]).x0

(* Pending signals are all taken, or their target dies, although           *)
(* check_signal runs only on the way back to user mode and returns at once *)
(* inside a handler.                                                       *)
SignalsTaken ==
  \A t \in Threads :
    (status[t] = "ACTIVE" /\ \E i \in Sigs : sigcount[t][i] > 0)
      ~> (status[t] # "ACTIVE" \/ \A i \in Sigs : sigcount[t][i] = 0)
=============================================================================
