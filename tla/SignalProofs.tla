---------------------------- MODULE SignalProofs ----------------------------
(***************************************************************************)
(* The safety properties of Signal for every number of threads, signals    *)
(* and calls.  Each theorem names, as its hypotheses, the behaviours that  *)
(* Signal's constants describe and that break the property: the others may *)
(* happen.                                                                 *)
(***************************************************************************)
EXTENDS Signal, ListLemmas, FiniteSetTheorems

(* Handlers neither fork nor exec. *)
PlainHandlers == ~ForkInHandler /\ ~ExecInHandler

Statuses == {"FREE", "ACTIVE", "ZOMBIE"}
Codes    == {"main", "handler", "kernel"}
Frames   == [type : {"trap", "check"}, code : Codes, x0 : {"own", "pid", "zero"}, i : Sigs]

(* Who runs: schedule leaves no dead thread with the CPU. *)
RunInv ==
  /\ status \in [Threads -> Statuses]
  /\ rq \subseteq Threads /\ curr \in Threads \cup {idle}
  /\ curr # idle => status[curr] = "ACTIVE"

-----------------------------------------------------------------------------
(* The kernel stack. *)

(* A thread is in its program, in a trap out of it, in a check_signal of   *)
(* that trap, or in a trap out of the handler that the check has started.  *)
(* s is its stack, d what is due and k signal_is_checking.                 *)
AtRest(s, d, k)  == Len(s) = 0 /\ Len(d) = 0 /\ ~k
InTrap(s, d, k)  ==
  /\ Len(s) = 1 /\ s[1].type = "trap" /\ s[1].code = "main"
  /\ Len(d) = 1 /\ d[1].code = "main" /\ ~k
InCheck(s, d, k) ==
  /\ Len(s) = 2 /\ s[1].type = "trap" /\ s[1].code = "main" /\ s[2].type = "check"
  /\ Len(d) = 1 /\ d[1].code = "main" /\ k
InHandlerTrap(s, d, k) ==
  /\ Len(s) = 3 /\ s[1].type = "trap" /\ s[1].code = "main" /\ s[2].type = "check"
  /\ s[3].type = "trap" /\ s[3].code = "handler"
  /\ Len(d) = 2 /\ d[1].code = "main" /\ d[2].code = "handler" /\ k

(* An exception return that an interrupt has hit (pc "lost", or elr        *)
(* "kernel") is somewhere it should not be, with the stack it had.         *)
Shape(p, c, e, s, d, k, v) ==
  /\ p = "user" => \/ c = "main" /\ AtRest(s, d, k)
                   \/ c = "handler" /\ InCheck(s, d, k) /\ v = 2
  /\ p \in {"check_signal", "load_all", "signal_kill"} =>
        InTrap(s, d, k) \/ (InHandlerTrap(s, d, k) /\ v = 2)
  /\ p \in {"parent", "child"} => c = "main" /\ InTrap(s, d, k)
  /\ p = "loop" => InCheck(s, d, k)
  /\ p = "eret" => \/ e \in {"main", "kernel"} /\ AtRest(s, d, k)
                   \/ e \in {"handler", "kernel"} /\ InCheck(s, d, k) /\ v = 2
  /\ p = "eret" /\ e = "kernel" => InterruptReturn
  /\ p = "lost" => InterruptReturn /\ (AtRest(s, d, k) \/ InCheck(s, d, k))

Places == {"user", "check_signal", "load_all", "signal_kill", "parent", "child",
           "loop", "eret", "lost"}

StackTypes ==
  /\ pc \in [Threads -> Places]
  /\ code \in [Threads -> Codes] /\ elr \in [Threads -> Codes]
  /\ stack \in [Threads -> Seq(Frames)] /\ due \in [Threads -> Seq(Frames)]
  /\ signal_is_checking \in [Threads -> BOOLEAN]
  /\ saved \in [Threads -> Nat] /\ origin \in [Threads -> Threads \cup {idle}]

Shapes ==
  \A t \in Live : Shape(pc[t], code[t], elr[t], stack[t], due[t],
                        signal_is_checking[t], saved[t])

StackInv == RunInv /\ StackTypes /\ Shapes

-----------------------------------------------------------------------------
(* The counts of the signals. *)

(* The target of a signal_kill that has looked at it is the same thread    *)
(* when the signal is counted, because nobody else runs in between.        *)
KillInv ==
  \A t \in Live : pc[t] = "signal_kill" =>
    curr = t /\ arg[t] \in Threads \X Signals \X {TRUE}

CountInv ==
  /\ RunInv /\ KillInv
  /\ pc \in [Threads -> Places] /\ DOMAIN arg = Threads
  /\ sigcount \in [Threads -> [Sigs -> Int]] /\ owed \in [Threads -> [Sigs -> Int]]
  /\ \A t \in Threads : sigcount[t][SIGNAL_MAX] = 0
  /\ \A t \in Live : sigcount[t] = owed[t]
-----------------------------------------------------------------------------
(* Frames and stacks. *)

(* The two frames that the model builds are frames. *)
LEMMA FrameTypes ==
  ASSUME NEW c \in Codes, NEW v \in {"own", "pid", "zero"}, NEW i \in Sigs
  PROVE  /\ TrapFrame(c, v) \in Frames /\ TrapFrame(c, v).type = "trap"
         /\ TrapFrame(c, v).code = c
         /\ CheckFrame(i) \in Frames /\ CheckFrame(i).type = "check"
BY SignalAssumption DEF TrapFrame, CheckFrame, Frames, Codes, Sigs

(* A frame that is pushed is the last one, and the others stay. *)
LEMMA Pushed ==
  ASSUME NEW s \in Seq(Frames), NEW f \in Frames
  PROVE  /\ Append(s, f) \in Seq(Frames) /\ Len(Append(s, f)) = Len(s) + 1
         /\ Append(s, f)[Len(s) + 1] = f
         /\ \A j \in 1 .. Len(s) : Append(s, f)[j] = s[j]
BY AppendProperties

(* The frames of a part of the stack that starts at its bottom. *)
LEMMA Bottom ==
  ASSUME NEW s \in Seq(Frames), NEW n \in 0 .. Len(s)
  PROVE  /\ SubSeq(s, 1, n) \in Seq(Frames) /\ Len(SubSeq(s, 1, n)) = n
         /\ \A j \in 1 .. n : SubSeq(s, 1, n)[j] = s[j]
<1>. Len(s) \in Nat /\ DOMAIN s = 1 .. Len(s) /\ \A j \in 1 .. Len(s) : s[j] \in Frames
  BY LenProperties, ElementOfSeq
<1>. QED  BY SubSeqProperties

(* Popping leaves the frames below the top. *)
LEMMA Popped ==
  ASSUME NEW s \in Seq(Frames), Len(s) > 0
  PROVE  /\ Pop(s) \in Seq(Frames) /\ Len(Pop(s)) = Len(s) - 1
         /\ \A j \in 1 .. Len(s) - 1 : Pop(s)[j] = s[j]
<1>. Len(s) \in Nat
  BY LenProperties
<1>. Len(s) - 1 \in 0 .. Len(s)
  OBVIOUS
<1>. QED  BY Bottom DEF Pop

(* Replacing the top leaves the frames below it. *)
LEMMA Replaced ==
  ASSUME NEW s \in Seq(Frames), NEW f \in Frames, Len(s) > 0
  PROVE  /\ TopWith(s, f) \in Seq(Frames) /\ Len(TopWith(s, f)) = Len(s)
         /\ TopWith(s, f)[Len(s)] = f
         /\ \A j \in 1 .. Len(s) - 1 : TopWith(s, f)[j] = s[j]
<1>. DEFINE p == Pop(s)
<1>1. /\ Len(s) \in Nat /\ p \in Seq(Frames) /\ Len(p) = Len(s) - 1
      /\ \A j \in 1 .. Len(s) - 1 : p[j] = s[j]
  BY LenProperties, Popped
<1>. HIDE DEF p
<1>2. /\ Append(p, f) \in Seq(Frames) /\ Len(Append(p, f)) = Len(s)
      /\ Append(p, f)[Len(s)] = f
      /\ \A j \in 1 .. Len(s) - 1 : Append(p, f)[j] = s[j]
  BY <1>1, Pushed
<1>. QED  BY <1>2 DEF TopWith, p

(* The top of a stack that is not empty is a frame. *)
LEMMA TopTypes ==
  ASSUME NEW s \in Seq(Frames), Len(s) > 0
  PROVE  Top(s) \in Frames /\ Top(s).i \in Sigs /\ Top(s).code \in Codes
<1>. Len(s) \in Nat /\ \A j \in 1 .. Len(s) : s[j] \in Frames
  BY LenProperties, ElementOfSeq
<1>. s[Len(s)] \in Frames
  OBVIOUS
<1>. QED  BY DEF Top, Frames

(* What pushing and popping does to the four shapes. *)

(* A trap out of the program, or out of the handler. *)
LEMMA PushTrap ==
  ASSUME NEW s \in Seq(Frames), NEW d \in Seq(Frames), NEW k,
         NEW f \in Frames, NEW g \in Frames, f.type = "trap", f.code = g.code
  PROVE  /\ AtRest(s, d, k) /\ f.code = "main" => InTrap(Append(s, f), Append(d, g), k)
         /\ InCheck(s, d, k) /\ f.code = "handler" =>
              InHandlerTrap(Append(s, f), Append(d, g), k)
<1>. DEFINE s1 == Append(s, f)
            d1 == Append(d, g)
<1>. Len(s) \in Nat /\ Len(d) \in Nat
  BY LenProperties
<1>1. /\ Len(s1) = Len(s) + 1 /\ s1[Len(s) + 1] = f /\ \A j \in 1 .. Len(s) : s1[j] = s[j]
      /\ Len(d1) = Len(d) + 1 /\ d1[Len(d) + 1] = g /\ \A j \in 1 .. Len(d) : d1[j] = d[j]
  BY Pushed
<1>. HIDE DEF s1, d1
<1>2. ASSUME AtRest(s, d, k), f.code = "main"
      PROVE  InTrap(s1, d1, k)
  <2>1. Len(s) = 0 /\ Len(d) = 0
    BY <1>2 DEF AtRest
  <2>2. Len(s1) = 1 /\ s1[1] = f /\ Len(d1) = 1 /\ d1[1] = g
    BY <1>1, <2>1
  <2>. QED  BY <1>2, <2>2 DEF AtRest, InTrap
<1>3. ASSUME InCheck(s, d, k), f.code = "handler"
      PROVE  InHandlerTrap(s1, d1, k)
  <2>1. Len(s) = 2 /\ Len(d) = 1
    BY <1>3 DEF InCheck
  <2>2. /\ Len(s1) = 3 /\ s1[1] = s[1] /\ s1[2] = s[2] /\ s1[3] = f
        /\ Len(d1) = 2 /\ d1[1] = d[1] /\ d1[2] = g
    BY <1>1, <2>1
  <2>. QED  BY <1>3, <2>2 DEF InCheck, InHandlerTrap
<1>. QED  BY <1>2, <1>3 DEF s1, d1

(* A check on the program's trap. *)
LEMMA PushCheck ==
  ASSUME NEW s \in Seq(Frames), NEW d \in Seq(Frames), NEW f \in Frames,
         f.type = "check", InTrap(s, d, FALSE)
  PROVE  InCheck(Append(s, f), d, TRUE)
<1>. DEFINE s1 == Append(s, f)
<1>1. Len(s) = 1
  BY DEF InTrap
<1>2. Len(s1) = Len(s) + 1 /\ s1[Len(s) + 1] = f /\ \A j \in 1 .. Len(s) : s1[j] = s[j]
  BY Pushed
<1>. HIDE DEF s1
<1>3. InCheck(s1, d, TRUE)
  <2>. Len(s1) = 2 /\ s1[2] = f /\ s1[1] = s[1]
    BY <1>1, <1>2
  <2>. QED  BY DEF InTrap, InCheck
<1>. QED  BY <1>3 DEF s1

(* The check's next turn, and its end. *)
LEMMA TurnCheck ==
  ASSUME NEW s \in Seq(Frames), NEW d \in Seq(Frames), NEW k, NEW f \in Frames,
         f.type = "check", InCheck(s, d, k)
  PROVE  /\ InCheck(TopWith(s, f), d, k) /\ TopWith(s, f) \in Seq(Frames)
         /\ InTrap(Pop(s), d, FALSE) /\ Pop(s) \in Seq(Frames)
<1>. DEFINE s1 == TopWith(s, f)
            s2 == Pop(s)
<1>1. Len(s) = 2
  BY DEF InCheck
<1>. Len(s) > 0
  BY <1>1
<1>2. /\ s1 \in Seq(Frames) /\ Len(s1) = Len(s) /\ s1[Len(s)] = f
      /\ \A j \in 1 .. Len(s) - 1 : s1[j] = s[j]
  BY Replaced
<1>3. /\ s2 \in Seq(Frames) /\ Len(s2) = Len(s) - 1
      /\ \A j \in 1 .. Len(s) - 1 : s2[j] = s[j]
  BY Popped
<1>. HIDE DEF s1, s2
<1>4. InCheck(s1, d, k) /\ InTrap(s2, d, FALSE)
  <2>. Len(s1) = 2 /\ s1[2] = f /\ s1[1] = s[1] /\ Len(s2) = 1 /\ s2[1] = s[1]
    BY <1>1, <1>2, <1>3
  <2>. QED  BY DEF InTrap, InCheck
<1>. QED  BY <1>2, <1>3, <1>4 DEF s1, s2

(* Leaving a trap: back in the program, or in the handler. *)
LEMMA LeaveTrap ==
  ASSUME NEW s \in Seq(Frames), NEW d \in Seq(Frames), NEW k,
         InTrap(s, d, k) \/ InHandlerTrap(s, d, k)
  PROVE  /\ Pop(s) \in Seq(Frames) /\ Pop(d) \in Seq(Frames)
         /\ InTrap(s, d, k) => AtRest(Pop(s), Pop(d), k) /\ Top(s).code = "main"
         /\ InHandlerTrap(s, d, k) => InCheck(Pop(s), Pop(d), k) /\ Top(s).code = "handler"
<1>. DEFINE s1 == Pop(s)
            d1 == Pop(d)
<1>. Len(s) \in Nat /\ Len(d) \in Nat
  BY LenProperties
<1>. Len(s) > 0 /\ Len(d) > 0
  BY DEF InTrap, InHandlerTrap
<1>1. /\ Len(s1) = Len(s) - 1 /\ s1 \in Seq(Frames) /\ \A j \in 1 .. Len(s) - 1 : s1[j] = s[j]
      /\ Len(d1) = Len(d) - 1 /\ d1 \in Seq(Frames) /\ \A j \in 1 .. Len(d) - 1 : d1[j] = d[j]
  BY Popped
<1>. HIDE DEF s1, d1
<1>2. ASSUME InTrap(s, d, k)
      PROVE  AtRest(s1, d1, k) /\ Top(s).code = "main"
  BY <1>1, <1>2 DEF AtRest, InTrap, Top
<1>3. ASSUME InHandlerTrap(s, d, k)
      PROVE  InCheck(s1, d1, k) /\ Top(s).code = "handler"
  <2>1. Len(s) = 3 /\ Len(d) = 2
    BY <1>3 DEF InHandlerTrap
  <2>2. /\ Len(s1) = 2 /\ s1[1] = s[1] /\ s1[2] = s[2]
        /\ Len(d1) = 1 /\ d1[1] = d[1]
    BY <1>1, <2>1
  <2>. QED  BY <1>3, <2>1, <2>2 DEF InCheck, InHandlerTrap, Top
<1>. QED  BY <1>1, <1>2, <1>3 DEF s1, d1

(* sigreturn's trap is dropped with what lies above the check. *)
LEMMA BackToCheck ==
  ASSUME NEW s \in Seq(Frames), NEW d \in Seq(Frames), NEW k, NEW f \in Frames,
         InCheck(s, d, k)
  PROVE  LET s1 == Append(s, f) IN
         /\ s1 \in Seq(Frames) /\ 2 \in DOMAIN s1 /\ IsCheck(s1[2])
         /\ SubSeq(s1, 1, 2) \in Seq(Frames) /\ InCheck(SubSeq(s1, 1, 2), d, k)
<1>. DEFINE s1 == Append(s, f)
            s2 == SubSeq(s1, 1, 2)
<1>1. Len(s) = 2
  BY DEF InCheck
<1>. s1 \in Seq(Frames) /\ Len(s1) = Len(s) + 1 /\ \A j \in 1 .. Len(s) : s1[j] = s[j]
  BY Pushed
<1>2. Len(s1) = 3 /\ s1[2] = s[2] /\ s1[1] = s[1] /\ s1 \in Seq(Frames)
  <2>. HIDE DEF s1
  <2>. QED  BY <1>1
<1>3. DOMAIN s1 = 1 .. 3
  BY <1>2, LenProperties
<1>. HIDE DEF s1
<1>4. s2 \in Seq(Frames) /\ Len(s2) = 2 /\ s2[1] = s1[1] /\ s2[2] = s1[2]
  <2>1. 2 \in 0 .. 3
    OBVIOUS
  <2>. 2 \in 0 .. Len(s1)
    BY <1>2, <2>1, Zenon
  <2>. s2 \in Seq(Frames) /\ Len(s2) = 2 /\ \A j \in 1 .. 2 : s2[j] = s1[j]
    BY <1>2, Bottom
  <2>. HIDE DEF s2
  <2>. QED  OBVIOUS
<1>. HIDE DEF s2
<1>5. InCheck(s2, d, k) /\ IsCheck(s1[2])
  BY <1>2, <1>4 DEF InCheck, IsCheck
<1>. QED  BY <1>2, <1>3, <1>4, <1>5 DEF s1, s2

-----------------------------------------------------------------------------
(* Who runs. *)

(* schedule gives the CPU to idle or to a thread that lives by then. *)
LEMMA ScheduleRuns ==
  ASSUME RunInv, NEW st, NEW queued \in SUBSET Threads, schedule(st, queued)
  PROVE  /\ rq' \subseteq Threads /\ curr' \in Threads \cup {idle}
         /\ curr' # idle => st[curr'] = "ACTIVE"
BY DEF RunInv, schedule, Ready, Dead

(* The steps that neither schedule nor change a status. *)
LEMMA RunStays ==
  ASSUME RunInv, UNCHANGED <<status, rq, curr>>
  PROVE  RunInv'
BY DEF RunInv

(* fork finds the first free slot whenever there is one: a smallest        *)
(* number of a set of slots exists.                                        *)
LEMMA FirstFree ==
  ASSUME NEW u \in Threads, status[u] = "FREE"
  PROVE  LET n == CHOOSE w \in Threads :
                    status[w] = "FREE" /\ \A v \in 1 .. w - 1 : status[v] # "FREE"
         IN  n \in Threads /\ status[n] = "FREE"
<1>. DEFINE P(w) == status[w] = "FREE" /\ \A v \in 1 .. w - 1 : status[v] # "FREE"
            F    == {w \in Threads : status[w] = "FREE"}
<1>1. F \in SUBSET Nat /\ F # {}
  BY SignalAssumption DEF Threads
<1>2. PICK m \in F : \A y \in F : m <= y
  BY <1>1, SmallestNumber
<1>3. \A v \in 1 .. m - 1 : v \in Threads /\ ~(m <= v)
  BY <1>2, SignalAssumption DEF Threads
<1>4. m \in Threads /\ P(m)
  BY <1>2, <1>3
<1>. QED  BY <1>4

(* The CPU is never with a dead thread, through kill, fork, the default    *)
(* handler and every switch.                                               *)
LEMMA RunStep ==
  ASSUME RunInv, Next
  PROVE  RunInv'
<1>1. CASE TickInUser
  <2>. Queued \in SUBSET Threads
    BY DEF Queued, RunInv
  <2>. QED  BY <1>1, ScheduleRuns DEF TickInUser, RunInv
<1>2. CASE TickInKernel
  <2>. Queued \in SUBSET Threads
    BY DEF Queued, RunInv
  <2>. QED  BY <1>2, ScheduleRuns DEF TickInKernel, RunInv
<1>3. CASE kill_zombies
  BY <1>3 DEF kill_zombies, RunInv, Statuses, idle, Threads
<1>4. ASSUME NEW t \in Threads, KernelStep(t)
      PROVE  RunInv'
  <2>1. CASE signal_default_handler(t)
    <3>. status' \in [Threads -> Statuses]
      BY <2>1 DEF signal_default_handler, RunInv, Statuses
    <3>. schedule(status', {t})
      BY <2>1 DEF signal_default_handler
    <3>. QED  BY ScheduleRuns DEF RunInv
  <2>2. CASE ~signal_default_handler(t)
    <3>. UNCHANGED <<status, rq, curr>>
      BY <1>4, <2>2 DEF KernelStep, check_signal, LoopPasses, run_signal, load_all, eret,
                        sigreturn, RaiseSignal, parent, child
    <3>. QED  BY RunStays
  <2>. QED  BY <2>1, <2>2
<1>5. ASSUME NEW t \in Threads, SystemCall(t)
      PROVE  RunInv'
  <2>1. ASSUME NEW pid \in Threads, kill(t, pid)
        PROVE  RunInv'
    <3>. status' \in [Threads -> Statuses]
      BY <2>1 DEF kill, RunInv, Statuses
    <3>. schedule(status', {t} \ {pid})
      BY <2>1 DEF kill
    <3>. QED  BY ScheduleRuns DEF RunInv
  <2>2. CASE fork(t)
    <3>1. PICK u \in Threads : status[u] = "FREE"
      BY <2>2 DEF fork
    <3>. DEFINE n == CHOOSE w \in Threads :
                       status[w] = "FREE" /\ \A v \in 1 .. w - 1 : status[v] # "FREE"
    <3>2. status' = [status EXCEPT ![n] = "ACTIVE"] /\ rq' = rq \cup {n} /\ curr' = curr
      BY <2>2 DEF fork
    <3>3. n \in Threads
      BY <3>1, FirstFree
    <3>. QED  BY <3>2, <3>3 DEF RunInv, Statuses
  <2>3. CASE ~fork(t) /\ ~\E pid \in Threads : kill(t, pid)
    <3>. UNCHANGED <<status, rq, curr>>
      BY <1>5, <2>3 DEF SystemCall, signal_register, signal_kill, exec
    <3>. QED  BY RunStays
  <2>. QED  BY <1>5, <2>1, <2>2, <2>3
<1>. QED  BY <1>1, <1>2, <1>3, <1>4, <1>5 DEF Next, Tick
-----------------------------------------------------------------------------
(* The stack, one action at a time. *)

(* What the action of thread t leaves alone of the others' stacks. *)
OthersStay(t) ==
  \A u \in Threads \ {t} :
    /\ pc'[u] = pc[u] /\ code'[u] = code[u] /\ elr'[u] = elr[u]
    /\ stack'[u] = stack[u] /\ due'[u] = due[u]
    /\ signal_is_checking'[u] = signal_is_checking[u] /\ saved'[u] = saved[u]

(* A step that changes one thread keeps the others' shapes. *)
LEMMA OneThreadMoves ==
  ASSUME Shapes, NEW t \in Threads, OthersStay(t),
         \A u \in Threads : status'[u] = "ACTIVE" => status[u] = "ACTIVE",
         status'[t] = "ACTIVE" =>
           Shape(pc'[t], code'[t], elr'[t], stack'[t], due'[t],
                 signal_is_checking'[t], saved'[t])
  PROVE  Shapes'
<1>. SUFFICES ASSUME NEW u \in Threads, status'[u] = "ACTIVE"
              PROVE  Shape(pc'[u], code'[u], elr'[u], stack'[u], due'[u],
                           signal_is_checking'[u], saved'[u])
  BY DEF Shapes, Live
<1>. CASE u = t
  OBVIOUS
<1>. CASE u # t
  <2>. Shape(pc[u], code[u], elr[u], stack[u], due[u], signal_is_checking[u], saved[u])
    BY DEF Shapes, Live
  <2>. QED  BY DEF OthersStay
<1>. QED  OBVIOUS

(* The shape of the running thread. *)
LEMMA RunningShape ==
  ASSUME StackInv, NEW t \in Threads, curr = t
  PROVE  /\ status[t] = "ACTIVE"
         /\ Shape(pc[t], code[t], elr[t], stack[t], due[t], signal_is_checking[t], saved[t])
         /\ stack[t] \in Seq(Frames) /\ due[t] \in Seq(Frames)
         /\ Len(stack[t]) \in Nat /\ Len(due[t]) \in Nat
         /\ code[t] \in Codes /\ elr[t] \in Codes /\ pc[t] \in Places
         /\ signal_is_checking[t] \in BOOLEAN /\ saved[t] \in Nat
<1>1. status[t] = "ACTIVE"
  BY SignalAssumption DEF StackInv, RunInv, idle, Threads
<1>2. Shape(pc[t], code[t], elr[t], stack[t], due[t], signal_is_checking[t], saved[t])
  BY <1>1 DEF StackInv, Shapes, Live
<1>3. stack[t] \in Seq(Frames) /\ due[t] \in Seq(Frames)
  BY DEF StackInv, StackTypes
<1>4. Len(stack[t]) \in Nat /\ Len(due[t]) \in Nat
  BY <1>3, LenProperties
<1>. QED  BY <1>1, <1>2, <1>3, <1>4 DEF StackInv, StackTypes

(* Entering the kernel from user mode: one more trap, in the program or in *)
(* the handler.                                                            *)
LEMMA TrapShape ==
  ASSUME StackInv, NEW t \in Threads, curr = t, pc[t] = "user", save_all(t),
         NEW p \in {"check_signal", "signal_kill"}, pc' = [pc EXCEPT ![t] = p],
         \A u \in Threads : status'[u] = "ACTIVE" => status[u] = "ACTIVE",
         UNCHANGED <<elr, origin>>
  PROVE  StackTypes' /\ Shapes'
<1>. DEFINE f == TrapFrame(code[t], "own")
<1>1. f \in Frames /\ f.type = "trap" /\ f.code = code[t]
  BY RunningShape, FrameTypes, SignalAssumption DEF Sigs
<1>2. /\ stack' = [stack EXCEPT ![t] = Append(stack[t], f)]
      /\ due' = [due EXCEPT ![t] = Append(due[t], f)]
      /\ UNCHANGED <<code, saved, signal_is_checking>>
  BY DEF save_all
<1>3. Append(stack[t], f) \in Seq(Frames) /\ Append(due[t], f) \in Seq(Frames)
  BY <1>1, RunningShape, Pushed
<1>4. StackTypes'
  BY <1>2, <1>3 DEF StackInv, StackTypes, Places
<1>5. OthersStay(t)
  BY <1>2 DEF OthersStay, StackInv, StackTypes
<1>6. Shape(p, code[t], elr[t], Append(stack[t], f), Append(due[t], f),
            signal_is_checking[t], saved[t])
  <2>1. /\ stack[t] \in Seq(Frames) /\ due[t] \in Seq(Frames)
        /\ Shape(pc[t], code[t], elr[t], stack[t], due[t], signal_is_checking[t], saved[t])
    BY RunningShape
  <2>. HIDE DEF f
  <2>2. CASE code[t] = "main" /\ AtRest(stack[t], due[t], signal_is_checking[t])
    <3>. InTrap(Append(stack[t], f), Append(due[t], f), signal_is_checking[t])
      BY <2>1, <2>2, <1>1, PushTrap
    <3>. QED  BY DEF Shape
  <2>3. CASE code[t] = "handler" /\ InCheck(stack[t], due[t], signal_is_checking[t]) /\ saved[t] = 2
    <3>. InHandlerTrap(Append(stack[t], f), Append(due[t], f), signal_is_checking[t])
      BY <2>1, <2>3, <1>1, PushTrap
    <3>. QED  BY <2>3 DEF Shape
  <2>. QED  BY <2>1, <2>2, <2>3 DEF Shape
<1>7. Shape(pc'[t], code'[t], elr'[t], stack'[t], due'[t], signal_is_checking'[t], saved'[t])
  BY <1>2, <1>6 DEF StackInv, StackTypes
<1>8. Shapes
  BY DEF StackInv
<1>. QED  BY <1>4, <1>5, <1>7, <1>8, OneThreadMoves

(* check_signal: a check is pushed on the program's trap; inside a handler *)
(* there is one already.                                                   *)
LEMMA CheckShape ==
  ASSUME StackInv, NEW t \in Threads, curr = t, check_signal(t)
  PROVE  StackTypes' /\ Shapes'
<1>. DEFINE f == CheckFrame(0)
<1>1. f \in Frames /\ f.type = "check"
  BY FrameTypes, SignalAssumption DEF Sigs, Codes
<1>2. UNCHANGED <<status, code, elr, due, saved, origin>>
  BY DEF check_signal
<1>3. Shape(pc[t], code[t], elr[t], stack[t], due[t], signal_is_checking[t], saved[t])
      /\ pc[t] = "check_signal"
  BY RunningShape DEF check_signal
<1>4. CASE signal_is_checking[t]
  <2>1. pc' = [pc EXCEPT ![t] = "load_all"] /\ UNCHANGED <<stack, signal_is_checking>>
    BY <1>4 DEF check_signal
  <2>2. StackTypes' /\ OthersStay(t)
    BY <1>2, <2>1 DEF StackInv, StackTypes, OthersStay, Places
  <2>3. Shape("load_all", code[t], elr[t], stack[t], due[t], signal_is_checking[t], saved[t])
    BY <1>3 DEF Shape
  <2>4. Shape(pc'[t], code'[t], elr'[t], stack'[t], due'[t], signal_is_checking'[t], saved'[t])
    BY <1>2, <2>1, <2>3 DEF StackInv, StackTypes
  <2>. QED  BY <1>2, <2>2, <2>4, OneThreadMoves DEF StackInv
<1>5. CASE ~signal_is_checking[t]
  <2>1. /\ pc' = [pc EXCEPT ![t] = "loop"]
        /\ stack' = [stack EXCEPT ![t] = Append(stack[t], f)]
        /\ signal_is_checking' = [signal_is_checking EXCEPT ![t] = TRUE]
    BY <1>5 DEF check_signal
  <2>2. Append(stack[t], f) \in Seq(Frames)
    BY <1>1, RunningShape, Pushed
  <2>3. StackTypes' /\ OthersStay(t)
    BY <1>2, <2>1, <2>2 DEF StackInv, StackTypes, OthersStay, Places
  <2>4. InTrap(stack[t], due[t], FALSE)
    BY <1>3, <1>5 DEF Shape, InTrap, InHandlerTrap
  <2>5. InCheck(Append(stack[t], f), due[t], TRUE)
    BY <1>1, <2>4, RunningShape, PushCheck
  <2>6. Shape("loop", code[t], elr[t], Append(stack[t], f), due[t], TRUE, saved[t])
    BY <2>5 DEF Shape
  <2>7. Shape(pc'[t], code'[t], elr'[t], stack'[t], due'[t], signal_is_checking'[t], saved'[t])
    BY <1>2, <2>1, <2>6 DEF StackInv, StackTypes
  <2>. QED  BY <1>2, <2>3, <2>7, OneThreadMoves DEF StackInv
<1>. QED  BY <1>4, <1>5

(* A turn of the loop stays in the check; its end leaves the trap.  The    *)
(* saved depth is the check's.                                             *)
LEMMA LoopShape ==
  ASSUME StackInv, NEW t \in Threads, curr = t, LoopPasses(t)
  PROVE  StackTypes' /\ Shapes'
<1>. DEFINE i == Top(stack[t]).i
            f == CheckFrame(i + 1)
<1>2. UNCHANGED <<status, code, elr, due, origin>> /\ pc[t] = "loop"
      /\ saved' = [saved EXCEPT ![t] = Len(stack[t])]
  BY DEF LoopPasses
<1>3. InCheck(stack[t], due[t], signal_is_checking[t])
  BY <1>2, RunningShape DEF Shape
<1>4. Len(stack[t]) = 2 /\ i \in Sigs /\ stack[t] \in Seq(Frames) /\ due[t] \in Seq(Frames)
  BY <1>3, RunningShape, TopTypes DEF InCheck
<1>. HIDE DEF i
<1>5. CASE i < SIGNAL_MAX
  <2>1. /\ stack' = [stack EXCEPT ![t] = TopWith(stack[t], f)]
        /\ UNCHANGED <<signal_is_checking, pc>>
    BY <1>5 DEF LoopPasses, NextSignal, i
  <2>2. f \in Frames /\ f.type = "check"
    <3>. i + 1 \in Sigs
      BY <1>4, <1>5, SignalAssumption DEF Sigs
    <3>. QED  BY FrameTypes DEF Codes
  <2>. HIDE DEF f
  <2>3. TopWith(stack[t], f) \in Seq(Frames) /\ InCheck(TopWith(stack[t], f), due[t], signal_is_checking[t])
    BY <1>3, <1>4, <2>2, TurnCheck
  <2>4. StackTypes' /\ OthersStay(t)
    BY <1>2, <1>4, <2>1, <2>3 DEF StackInv, StackTypes, OthersStay
  <2>6. Shape("loop", code[t], elr[t], TopWith(stack[t], f), due[t], signal_is_checking[t], 2)
    BY <2>3 DEF Shape
  <2>7. Shape(pc'[t], code'[t], elr'[t], stack'[t], due'[t], signal_is_checking'[t], saved'[t])
    BY <1>2, <1>4, <2>1, <2>6 DEF StackInv, StackTypes
  <2>. QED  BY <1>2, <2>4, <2>7, OneThreadMoves DEF StackInv
<1>6. CASE ~(i < SIGNAL_MAX)
  <2>1. /\ stack' = [stack EXCEPT ![t] = Pop(stack[t])]
        /\ signal_is_checking' = [signal_is_checking EXCEPT ![t] = FALSE]
        /\ pc' = [pc EXCEPT ![t] = "load_all"]
    BY <1>6 DEF LoopPasses, NextSignal, i
  <2>2. Pop(stack[t]) \in Seq(Frames) /\ InTrap(Pop(stack[t]), due[t], FALSE)
    <3>. CheckFrame(i) \in Frames /\ CheckFrame(i).type = "check"
      BY <1>4, FrameTypes DEF Codes
    <3>. QED  BY <1>3, <1>4, TurnCheck
  <2>3. StackTypes' /\ OthersStay(t)
    BY <1>2, <1>4, <2>1, <2>2 DEF StackInv, StackTypes, OthersStay, Places
  <2>5. Shape("load_all", code[t], elr[t], Pop(stack[t]), due[t], FALSE, 2)
    BY <2>2 DEF Shape
  <2>6. Shape(pc'[t], code'[t], elr'[t], stack'[t], due'[t], signal_is_checking'[t], saved'[t])
    BY <1>2, <1>4, <2>1, <2>5 DEF StackInv, StackTypes
  <2>. QED  BY <1>2, <2>3, <2>6, OneThreadMoves DEF StackInv
<1>. QED  BY <1>5, <1>6
(* run_signal with a handler: the stack stays, and the saved depth is that *)
(* of the check.                                                           *)
LEMMA HandlerShape ==
  ASSUME StackInv, NEW t \in Threads, curr = t, run_signal(t)
  PROVE  StackTypes' /\ Shapes'
<1>1. /\ UNCHANGED <<status, code, due, stack, signal_is_checking, origin>>
      /\ pc[t] = "loop" /\ pc' = [pc EXCEPT ![t] = "eret"]
      /\ elr' = [elr EXCEPT ![t] = "handler"]
      /\ saved' = [saved EXCEPT ![t] = Len(stack[t])]
  BY DEF run_signal, Take
<1>2. InCheck(stack[t], due[t], signal_is_checking[t]) /\ Len(stack[t]) = 2
  BY <1>1, RunningShape DEF Shape, InCheck
<1>3. StackTypes' /\ OthersStay(t)
  BY <1>1, <1>2 DEF StackInv, StackTypes, OthersStay, Places, Codes
<1>4. Shape("eret", code[t], "handler", stack[t], due[t], signal_is_checking[t], 2)
  BY <1>2 DEF Shape
<1>5. Shape(pc'[t], code'[t], elr'[t], stack'[t], due'[t], signal_is_checking'[t], saved'[t])
  BY <1>1, <1>2, <1>4 DEF StackInv, StackTypes
<1>. QED  BY <1>1, <1>3, <1>5, OneThreadMoves DEF StackInv

(* The default handler: the thread is dead, so its stack says nothing. *)
LEMMA DefaultHandlerShape ==
  ASSUME StackInv, NEW t \in Threads, curr = t, signal_default_handler(t)
  PROVE  StackTypes' /\ Shapes'
<1>1. /\ UNCHANGED <<pc, elr, code, due, stack, signal_is_checking, origin>>
      /\ pc[t] = "loop" /\ status' = [status EXCEPT ![t] = "ZOMBIE"]
      /\ saved' = [saved EXCEPT ![t] = Len(stack[t])]
  BY DEF signal_default_handler, Take
<1>2. Len(stack[t]) \in Nat
  BY RunningShape
<1>3. StackTypes' /\ OthersStay(t)
  BY <1>1, <1>2 DEF StackInv, StackTypes, OthersStay
<1>4. status'[t] # "ACTIVE" /\ \A u \in Threads : status'[u] = "ACTIVE" => status[u] = "ACTIVE"
  BY <1>1 DEF StackInv, RunInv
<1>. QED  BY <1>3, <1>4, OneThreadMoves DEF StackInv

(* load_all leaves the trap for the code that it was taken from. *)
LEMMA LoadShape ==
  ASSUME StackInv, NEW t \in Threads, curr = t, load_all(t)
  PROVE  StackTypes' /\ Shapes'
<1>. DEFINE s == Pop(stack[t])
            d == Pop(due[t])
            e == Top(stack[t]).code
<1>1. /\ UNCHANGED <<status, code, saved, signal_is_checking, origin>>
      /\ pc[t] = "load_all" /\ pc' = [pc EXCEPT ![t] = "eret"]
      /\ elr' = [elr EXCEPT ![t] = e]
      /\ stack' = [stack EXCEPT ![t] = s] /\ due' = [due EXCEPT ![t] = d]
  BY DEF load_all
<1>2. /\ stack[t] \in Seq(Frames) /\ due[t] \in Seq(Frames)
      /\ \/ InTrap(stack[t], due[t], signal_is_checking[t])
         \/ InHandlerTrap(stack[t], due[t], signal_is_checking[t]) /\ saved[t] = 2
  BY <1>1, RunningShape DEF Shape
<1>3. /\ s \in Seq(Frames) /\ d \in Seq(Frames)
      /\ \/ e = "main" /\ AtRest(s, d, signal_is_checking[t])
         \/ e = "handler" /\ InCheck(s, d, signal_is_checking[t]) /\ saved[t] = 2
  BY <1>2, LeaveTrap
<1>. HIDE DEF s, d, e
<1>4. StackTypes' /\ OthersStay(t)
  BY <1>1, <1>3 DEF StackInv, StackTypes, OthersStay, Places, Codes
<1>5. Shape("eret", code[t], e, s, d, signal_is_checking[t], saved[t])
  BY <1>3 DEF Shape
<1>6. Shape(pc'[t], code'[t], elr'[t], stack'[t], due'[t], signal_is_checking'[t], saved'[t])
  BY <1>1, <1>5 DEF StackInv, StackTypes
<1>. QED  BY <1>1, <1>4, <1>6, OneThreadMoves DEF StackInv

(* eret: the program, the handler, or nowhere. *)
LEMMA EretShape ==
  ASSUME StackInv, NEW t \in Threads, curr = t, eret(t)
  PROVE  StackTypes' /\ Shapes'
<1>. DEFINE p == IF elr[t] = "kernel" THEN "lost" ELSE "user"
<1>1. /\ UNCHANGED <<status, elr, due, stack, saved, signal_is_checking, origin>>
      /\ pc[t] = "eret" /\ pc' = [pc EXCEPT ![t] = p]
      /\ code' = [code EXCEPT ![t] = elr[t]]
  BY DEF eret
<1>2. Shape("eret", code[t], elr[t], stack[t], due[t], signal_is_checking[t], saved[t])
      /\ elr[t] \in Codes
  BY <1>1, RunningShape
<1>3. Shape(p, elr[t], elr[t], stack[t], due[t], signal_is_checking[t], saved[t])
  BY <1>2 DEF Shape
<1>4. p \in Places
  BY DEF Places
<1>. HIDE DEF p
<1>5. StackTypes' /\ OthersStay(t)
  BY <1>1, <1>2, <1>4 DEF StackInv, StackTypes, OthersStay
<1>6. Shape(pc'[t], code'[t], elr'[t], stack'[t], due'[t], signal_is_checking'[t], saved'[t])
  BY <1>1, <1>3 DEF StackInv, StackTypes
<1>. QED  BY <1>1, <1>5, <1>6, OneThreadMoves DEF StackInv

(* sigreturn goes back into the check's loop: there is a check at the      *)
(* saved depth.                                                            *)
LEMMA SigreturnShape ==
  ASSUME StackInv, NEW t \in Threads, curr = t, sigreturn(t)
  PROVE  StackTypes' /\ Shapes'
<1>. DEFINE f  == TrapFrame(code[t], "own")
            s1 == Append(stack[t], f)
            s  == SubSeq(s1, 1, 2)
<1>1. /\ UNCHANGED <<status, code, elr, due, saved, signal_is_checking, origin>>
      /\ pc[t] = "user" /\ code[t] = "handler" /\ load_context(t, s1)
  BY DEF sigreturn
<1>2. /\ InCheck(stack[t], due[t], signal_is_checking[t]) /\ saved[t] = 2
      /\ stack[t] \in Seq(Frames) /\ due[t] \in Seq(Frames) /\ code[t] \in Codes
  BY <1>1, RunningShape DEF Shape
<1>3. f \in Frames
  BY <1>2, FrameTypes, SignalAssumption DEF Sigs
<1>. HIDE DEF f
<1>4. /\ 2 \in DOMAIN s1 /\ IsCheck(s1[2])
      /\ s \in Seq(Frames) /\ InCheck(s, due[t], signal_is_checking[t])
  BY <1>2, <1>3, BackToCheck
<1>5. stack' = [stack EXCEPT ![t] = s] /\ pc' = [pc EXCEPT ![t] = "loop"]
  <2>. HIDE DEF s1
  <2>. QED  BY <1>1, <1>2, <1>4 DEF load_context
<1>. HIDE DEF s
<1>6. StackTypes' /\ OthersStay(t)
  BY <1>1, <1>4, <1>5 DEF StackInv, StackTypes, OthersStay, Places
<1>7. Shape("loop", code[t], elr[t], s, due[t], signal_is_checking[t], saved[t])
  BY <1>4 DEF Shape
<1>8. Shape(pc'[t], code'[t], elr'[t], stack'[t], due'[t], signal_is_checking'[t], saved'[t])
  BY <1>1, <1>5, <1>7 DEF StackInv, StackTypes
<1>. QED  BY <1>1, <1>6, <1>8, OneThreadMoves DEF StackInv

(* RaiseSignal only moves on. *)
LEMMA RaiseShape ==
  ASSUME StackInv, NEW t \in Threads, curr = t, RaiseSignal(t)
  PROVE  StackTypes' /\ Shapes'
<1>1. /\ UNCHANGED <<status, code, elr, due, stack, saved, signal_is_checking, origin>>
      /\ pc[t] = "signal_kill" /\ pc' = [pc EXCEPT ![t] = "check_signal"]
  BY DEF RaiseSignal, thread_vars
<1>2. StackTypes' /\ OthersStay(t)
  BY <1>1 DEF StackInv, StackTypes, OthersStay, Places
<1>3. Shape("check_signal", code[t], elr[t], stack[t], due[t], signal_is_checking[t], saved[t])
  BY <1>1, RunningShape DEF Shape
<1>4. Shape(pc'[t], code'[t], elr'[t], stack'[t], due'[t], signal_is_checking'[t], saved'[t])
  BY <1>1, <1>3 DEF StackInv, StackTypes
<1>. QED  BY <1>1, <1>2, <1>4, OneThreadMoves DEF StackInv

(* The parent's result replaces its trap frame. *)
LEMMA ParentShape ==
  ASSUME StackInv, NEW t \in Threads, curr = t, parent(t)
  PROVE  StackTypes' /\ Shapes'
<1>. DEFINE f == TrapFrame(code[t], "pid")
            s == TopWith(stack[t], f)
<1>1. /\ UNCHANGED <<status, code, elr, due, saved, signal_is_checking, origin>>
      /\ pc[t] = "parent" /\ pc' = [pc EXCEPT ![t] = "check_signal"]
      /\ stack' = [stack EXCEPT ![t] = s]
  BY DEF parent
<1>2. /\ code[t] = "main" /\ InTrap(stack[t], due[t], signal_is_checking[t])
      /\ stack[t] \in Seq(Frames) /\ due[t] \in Seq(Frames) /\ code[t] \in Codes
  BY <1>1, RunningShape DEF Shape
<1>3. f \in Frames /\ f.type = "trap" /\ f.code = "main"
  BY <1>2, FrameTypes, SignalAssumption DEF Sigs
<1>. HIDE DEF f
<1>4. Len(stack[t]) = 1
  BY <1>2 DEF InTrap
<1>5. Len(stack[t]) > 0
  BY <1>4
<1>6. s \in Seq(Frames) /\ Len(s) = Len(stack[t]) /\ s[Len(stack[t])] = f
  BY <1>2, <1>3, <1>5, Replaced
<1>. HIDE DEF s
<1>7. StackTypes' /\ OthersStay(t)
  BY <1>1, <1>6 DEF StackInv, StackTypes, OthersStay, Places
<1>8. Shape("check_signal", code[t], elr[t], s, due[t], signal_is_checking[t], saved[t])
  <2>. Len(s) = 1 /\ s[1] = f
    BY <1>4, <1>6
  <2>. InTrap(s, due[t], signal_is_checking[t])
    BY <1>2, <1>3 DEF InTrap
  <2>. QED  BY DEF Shape
<1>9. Shape(pc'[t], code'[t], elr'[t], stack'[t], due'[t], signal_is_checking'[t], saved'[t])
  BY <1>1, <1>8 DEF StackInv, StackTypes
<1>. QED  BY <1>1, <1>7, <1>9, OneThreadMoves DEF StackInv
(* The shape does not look at x0. *)
LEMMA OnlyX0 ==
  ASSUME NEW p, NEW c, NEW e, NEW s \in Seq(Frames), NEW s1 \in Seq(Frames), NEW d, NEW k, NEW v,
         Len(s1) = Len(s),
         \A j \in 1 .. Len(s) : s1[j].type = s[j].type /\ s1[j].code = s[j].code,
         Shape(p, c, e, s, d, k, v)
  PROVE  Shape(p, c, e, s1, d, k, v)
<1>1. AtRest(s, d, k) => AtRest(s1, d, k)
  BY DEF AtRest
<1>2. InTrap(s, d, k) => InTrap(s1, d, k)
  BY DEF InTrap
<1>3. InCheck(s, d, k) => InCheck(s1, d, k)
  BY DEF InCheck
<1>4. InHandlerTrap(s, d, k) => InHandlerTrap(s1, d, k)
  BY DEF InHandlerTrap
<1>. QED  BY <1>1, <1>2, <1>3, <1>4 DEF Shape

(* The child's store changes the x0 of some trap frame, of no matter whom. *)
LEMMA ChildShape ==
  ASSUME StackInv, NEW t \in Threads, curr = t, child(t)
  PROVE  StackTypes' /\ Shapes'
<1>. DEFINE p     == origin[t]
            d     == Len(stack[t])
            there == p # idle /\ d \in DOMAIN stack[p] /\ IsTrap(stack[p][d])
<1>1. /\ UNCHANGED <<status, code, elr, due, saved, signal_is_checking>>
      /\ pc[t] = "child" /\ pc' = [pc EXCEPT ![t] = "check_signal"]
      /\ origin' = [origin EXCEPT ![t] = idle]
      /\ stack' = IF there THEN [stack EXCEPT ![p][d].x0 = "zero"] ELSE stack
  BY DEF child
<1>2. stack' \in [Threads -> Seq(Frames)] /\
      \A u \in Threads :
         /\ Len(stack'[u]) = Len(stack[u])
         /\ \A j \in 1 .. Len(stack[u]) : /\ stack'[u][j].type = stack[u][j].type
                                          /\ stack'[u][j].code = stack[u][j].code
  <2>1. stack \in [Threads -> Seq(Frames)] /\ p \in Threads \cup {idle}
    BY DEF StackInv, StackTypes
  <2>2. CASE there
    <3>. DEFINE f == [stack[p][d] EXCEPT !.x0 = "zero"]
                s == [stack[p] EXCEPT ![d] = f]
    <3>1. stack' = [stack EXCEPT ![p] = s]
      BY <1>1, <2>2
    <3>2. p \in Threads /\ stack[p] \in Seq(Frames) /\ d \in 1 .. Len(stack[p])
      BY <2>1, <2>2, LenProperties
    <3>3. stack[p][d] \in Frames
      BY <3>2, ElementOfSeq
    <3>4. f \in Frames /\ f.type = stack[p][d].type /\ f.code = stack[p][d].code
      BY <3>3 DEF Frames
    <3>5. s \in Seq(Frames) /\ Len(s) = Len(stack[p]) /\ s[d] = f
          /\ \A j \in 1 .. Len(stack[p]) : j # d => s[j] = stack[p][j]
      <4>. HIDE DEF f, d, p
      <4>. QED  BY <3>2, <3>4, ExceptSeq
    <3>. HIDE DEF s, f, d, p
    <3>6. \A j \in 1 .. Len(stack[p]) : /\ s[j].type = stack[p][j].type
                                        /\ s[j].code = stack[p][j].code
      BY <3>2, <3>4, <3>5
    <3>. QED  BY <2>1, <3>1, <3>2, <3>5, <3>6
  <2>3. CASE ~there
    <3>. stack' = stack
      BY <1>1, <2>3
    <3>. QED  BY <2>1
  <2>. QED  BY <2>2, <2>3
<1>3. StackTypes'
  BY <1>1, <1>2 DEF StackInv, StackTypes, Places
<1>4. ASSUME NEW u \in Threads, status'[u] = "ACTIVE"
      PROVE  Shape(pc'[u], code'[u], elr'[u], stack'[u], due'[u],
                   signal_is_checking'[u], saved'[u])
  <2>. stack[u] \in Seq(Frames) /\ stack'[u] \in Seq(Frames)
    BY <1>2 DEF StackInv, StackTypes
  <2>. Shape(pc[u], code[u], elr[u], stack[u], due[u], signal_is_checking[u], saved[u])
    BY <1>1, <1>4 DEF StackInv, Shapes, Live
  <2>1. Shape(pc[u], code[u], elr[u], stack'[u], due[u], signal_is_checking[u], saved[u])
    BY <1>2, OnlyX0
  <2>2. Shape(pc'[u], code[u], elr[u], stack'[u], due[u], signal_is_checking[u], saved[u])
    <3>1. CASE u = t
      <4>. pc[t] = "child" /\ pc'[t] = "check_signal"
        BY <1>1 DEF StackInv, StackTypes
      <4>. QED  BY <2>1, <3>1 DEF Shape
    <3>2. CASE u # t
      <4>. pc'[u] = pc[u]
        BY <1>1, <3>2 DEF StackInv, StackTypes
      <4>. QED  BY <2>1
    <3>. QED  BY <3>1, <3>2
  <2>. QED  BY <1>1, <2>2
<1>5. Shapes'
  BY <1>4 DEF Shapes, Live
<1>. QED  BY <1>3, <1>5

(* A tick in the kernel may spoil the registers of a return, nothing else. *)
LEMMA KernelTickShape ==
  ASSUME StackInv, TickInKernel
  PROVE  StackTypes' /\ Shapes'
<1>1. /\ UNCHANGED <<status, pc, code, due, stack, saved, signal_is_checking, origin>>
      /\ elr' = [t \in Threads |-> IF t = curr /\ pc[t] = "eret" THEN "kernel" ELSE elr[t]]
      /\ curr # idle /\ pc[curr] = "eret" => InterruptReturn
  BY DEF TickInKernel, thread_vars
<1>2. StackTypes'
  BY <1>1 DEF StackInv, StackTypes, Codes
<1>3. ASSUME NEW u \in Threads, status'[u] = "ACTIVE"
      PROVE  Shape(pc'[u], code'[u], elr'[u], stack'[u], due'[u],
                   signal_is_checking'[u], saved'[u])
  <2>1. Shape(pc[u], code[u], elr[u], stack[u], due[u], signal_is_checking[u], saved[u])
    BY <1>1, <1>3 DEF StackInv, Shapes, Live
  <2>2. CASE u = curr /\ pc[u] = "eret"
    <3>. elr'[u] = "kernel" /\ InterruptReturn
      BY <1>1, <2>2, SignalAssumption DEF Threads, idle
    <3>. Shape(pc[u], code[u], "kernel", stack[u], due[u], signal_is_checking[u], saved[u])
      BY <2>1, <2>2 DEF Shape
    <3>. QED  BY <1>1
  <2>3. CASE ~(u = curr /\ pc[u] = "eret")
    <3>. elr'[u] = elr[u]
      BY <1>1, <2>3
    <3>. QED  BY <1>1, <2>1
  <2>. QED  BY <2>2, <2>3
<1>4. Shapes'
  BY <1>3 DEF Shapes, Live
<1>. QED  BY <1>2, <1>4

(* kill_zombies takes the stacks of the dead. *)
LEMMA ReapShape ==
  ASSUME StackInv, kill_zombies
  PROVE  StackTypes' /\ Shapes'
<1>. DEFINE dead == Dead(rq, status)
<1>1. /\ UNCHANGED <<pc, elr, code, saved, signal_is_checking>>
      /\ status' = [t \in Threads |-> IF t \in dead THEN "FREE" ELSE status[t]]
      /\ stack' = [t \in Threads |-> IF t \in dead THEN <<>> ELSE stack[t]]
      /\ due' = [t \in Threads |-> IF t \in dead THEN <<>> ELSE due[t]]
      /\ origin' = [t \in Threads |-> IF origin[t] \in dead THEN idle ELSE origin[t]]
  BY DEF kill_zombies
<1>. HIDE DEF dead
<1>2. StackTypes'
  <2>. <<>> \in Seq(Frames)
    OBVIOUS
  <2>. QED  BY <1>1 DEF StackInv, StackTypes
<1>3. ASSUME NEW u \in Threads, status'[u] = "ACTIVE"
      PROVE  Shape(pc'[u], code'[u], elr'[u], stack'[u], due'[u],
                   signal_is_checking'[u], saved'[u])
  <2>1. u \notin dead /\ status[u] = "ACTIVE"
    BY <1>1, <1>3
  <2>2. Shape(pc[u], code[u], elr[u], stack[u], due[u], signal_is_checking[u], saved[u])
    BY <2>1 DEF StackInv, Shapes, Live
  <2>3. stack'[u] = stack[u] /\ due'[u] = due[u]
    BY <1>1, <2>1
  <2>. QED  BY <1>1, <2>2, <2>3
<1>4. Shapes'
  BY <1>3 DEF Shapes, Live
<1>. QED  BY <1>2, <1>4

(* exec out of the program: the new program's frame is the only one. *)
LEMMA ExecShape ==
  ASSUME StackInv, PlainHandlers, NEW t \in Threads, exec(t)
  PROVE  StackTypes' /\ Shapes'
<1>. DEFINE f == TrapFrame("main", "zero")
            s == Append(stack[t], f)
            d == Append(<<>>, f)
<1>1. /\ UNCHANGED <<status, code, elr, saved, signal_is_checking, origin>>
      /\ curr = t /\ pc[t] = "user" /\ pc' = [pc EXCEPT ![t] = "check_signal"]
      /\ stack' = [stack EXCEPT ![t] = s] /\ due' = [due EXCEPT ![t] = <<f>>]
      /\ code[t] # "handler"
  BY DEF exec, Call, PlainHandlers
<1>2. /\ AtRest(stack[t], due[t], signal_is_checking[t])
      /\ stack[t] \in Seq(Frames) /\ due[t] \in Seq(Frames)
  BY <1>1, RunningShape DEF Shape
<1>3. f \in Frames /\ f.type = "trap" /\ f.code = "main"
  BY FrameTypes, SignalAssumption DEF Sigs, Codes
<1>. HIDE DEF f
<1>4. s \in Seq(Frames) /\ d \in Seq(Frames) /\ d = <<f>>
  BY <1>2, <1>3, Pushed
<1>5. InTrap(s, d, signal_is_checking[t])
  <2>1. <<>> \in Seq(Frames) /\ Len(<<>>) = 0
    OBVIOUS
  <2>2. AtRest(stack[t], <<>>, signal_is_checking[t])
    BY <1>2, <2>1 DEF AtRest
  <2>. QED  BY <1>2, <1>3, <2>1, <2>2, PushTrap
<1>. HIDE DEF s, d
<1>6. StackTypes' /\ OthersStay(t)
  BY <1>1, <1>4 DEF StackInv, StackTypes, OthersStay, Places
<1>7. Shape("check_signal", code[t], elr[t], s, d, signal_is_checking[t], saved[t])
  BY <1>5 DEF Shape
<1>8. Shape(pc'[t], code'[t], elr'[t], stack'[t], due'[t], signal_is_checking'[t], saved'[t])
  BY <1>1, <1>4, <1>7 DEF StackInv, StackTypes
<1>. QED  BY <1>1, <1>6, <1>8, OneThreadMoves DEF StackInv

(* fork out of the program: parent and child are in the same trap. *)
LEMMA ForkShape ==
  ASSUME StackInv, PlainHandlers, NEW t \in Threads, fork(t)
  PROVE  StackTypes' /\ Shapes'
<1>. DEFINE n == CHOOSE u \in Threads :
                   status[u] = "FREE" /\ \A v \in 1 .. u - 1 : status[v] # "FREE"
            f == TrapFrame(code[t], "own")
            g == TrapFrame(code[t], "pid")
            h == TrapFrame(code[t], "zero")
            s == Append(stack[t], f)
            d == Append(due[t], g)
            e == Append(due[t], h)
<1>1. /\ UNCHANGED <<elr, saved>>
      /\ curr = t /\ pc[t] = "user" /\ pc' = [pc EXCEPT ![t] = "parent", ![n] = "child"]
      /\ status' = [status EXCEPT ![n] = "ACTIVE"]
      /\ stack' = [stack EXCEPT ![t] = s, ![n] = s]
      /\ due' = [due EXCEPT ![t] = d, ![n] = e]
      /\ code' = [code EXCEPT ![n] = code[t]]
      /\ origin' = [origin EXCEPT ![n] = t]
      /\ signal_is_checking' = [signal_is_checking EXCEPT ![n] = FALSE]
      /\ code[t] # "handler"
  BY DEF fork, Call, PlainHandlers
<1>2. n \in Threads /\ status[n] = "FREE"
  <2>. PICK u \in Threads : status[u] = "FREE"
    BY DEF fork
  <2>. QED  BY FirstFree
<1>. HIDE DEF n
<1>3. /\ code[t] = "main" /\ AtRest(stack[t], due[t], signal_is_checking[t])
      /\ stack[t] \in Seq(Frames) /\ due[t] \in Seq(Frames) /\ status[t] = "ACTIVE"
      /\ code[t] \in Codes
  BY <1>1, RunningShape DEF Shape
<1>4. /\ f \in Frames /\ f.type = "trap" /\ f.code = "main"
      /\ g \in Frames /\ g.code = "main" /\ h \in Frames /\ h.code = "main"
  BY <1>3, FrameTypes, SignalAssumption DEF Sigs
<1>. HIDE DEF f, g, h
<1>5. s \in Seq(Frames) /\ d \in Seq(Frames) /\ e \in Seq(Frames)
  BY <1>3, <1>4, Pushed
<1>6. InTrap(s, d, signal_is_checking[t]) /\ InTrap(s, e, signal_is_checking[t])
  BY <1>3, <1>4, PushTrap
<1>7. InTrap(s, e, FALSE)
  BY <1>3, <1>6 DEF InTrap
<1>. HIDE DEF s, d, e
<1>8. n # t
  BY <1>2, <1>3
<1>9. StackTypes'
  BY <1>1, <1>2, <1>5 DEF StackInv, StackTypes, Places
<1>10. ASSUME NEW u \in Threads, status'[u] = "ACTIVE"
       PROVE  Shape(pc'[u], code'[u], elr'[u], stack'[u], due'[u],
                    signal_is_checking'[u], saved'[u])
  <2>1. CASE u = t
    <3>. /\ pc'[u] = "parent" /\ code'[u] = "main" /\ stack'[u] = s /\ due'[u] = d
         /\ signal_is_checking'[u] = signal_is_checking[t]
      BY <1>1, <1>2, <1>3, <1>8, <2>1 DEF StackInv, StackTypes
    <3>. QED  BY <1>6 DEF Shape
  <2>2. CASE u = n
    <3>. /\ pc'[u] = "child" /\ code'[u] = "main" /\ stack'[u] = s /\ due'[u] = e
         /\ signal_is_checking'[u] = FALSE
      BY <1>1, <1>2, <1>3, <1>8, <2>2 DEF StackInv, StackTypes
    <3>. QED  BY <1>7 DEF Shape
  <2>3. CASE u # t /\ u # n
    <3>. /\ pc'[u] = pc[u] /\ code'[u] = code[u] /\ elr'[u] = elr[u]
         /\ stack'[u] = stack[u] /\ due'[u] = due[u] /\ status[u] = "ACTIVE"
         /\ signal_is_checking'[u] = signal_is_checking[u] /\ saved'[u] = saved[u]
      BY <1>1, <1>10, <2>3 DEF StackInv, StackTypes, RunInv
    <3>. Shape(pc[u], code[u], elr[u], stack[u], due[u], signal_is_checking[u], saved[u])
      BY DEF StackInv, Shapes, Live
    <3>. QED  OBVIOUS
  <2>. QED  BY <2>1, <2>2, <2>3
<1>11. Shapes'
  BY <1>10 DEF Shapes, Live
<1>. QED  BY <1>9, <1>11
-----------------------------------------------------------------------------
(* The stack: the invariant holds, and what follows from it. *)

(* thread_exec's program has nothing on its kernel stack. *)
LEMMA StackInit ==
  ASSUME Init
  PROVE  StackInv
<1>1. RunInv
  BY SignalAssumption DEF Init, RunInv, Statuses, Threads, idle
<1>2. StackTypes
  BY SignalAssumption DEF Init, StackTypes, Places, Codes, Frames, Threads, idle
<1>3. Shapes
  <2>. SUFFICES ASSUME NEW t \in Threads
                PROVE  Shape(pc[t], code[t], elr[t], stack[t], due[t],
                             signal_is_checking[t], saved[t])
    BY DEF Shapes, Live
  <2>. AtRest(stack[t], due[t], signal_is_checking[t]) /\ pc[t] = "user" /\ code[t] = "main"
    BY DEF Init, AtRest
  <2>. QED  BY DEF Shape
<1>. QED  BY <1>1, <1>2, <1>3 DEF StackInv

(* Every step keeps the shape of every live thread's stack. *)
LEMMA StackStep ==
  ASSUME StackInv, PlainHandlers, Next
  PROVE  StackInv'
<1>. RunInv'
  BY RunStep DEF StackInv
<1>. SUFFICES StackTypes' /\ Shapes'
  BY DEF StackInv
<1>1. CASE TickInUser
  <2>. curr \in Threads
    BY <1>1 DEF TickInUser, StackInv, RunInv
  <2>. /\ pc[curr] = "user" /\ save_all(curr) /\ UNCHANGED <<status, elr, origin>>
       /\ pc' = [pc EXCEPT ![curr] = "check_signal"]
    BY <1>1 DEF TickInUser
  <2>. QED  BY TrapShape
<1>2. CASE TickInKernel
  BY <1>2, KernelTickShape
<1>3. CASE kill_zombies
  BY <1>3, ReapShape
<1>4. ASSUME NEW t \in Threads, KernelStep(t)
      PROVE  StackTypes' /\ Shapes'
  BY <1>4, CheckShape, LoopShape, HandlerShape, DefaultHandlerShape, LoadShape, EretShape,
     SigreturnShape, RaiseShape, ParentShape, ChildShape DEF KernelStep
<1>5. ASSUME NEW t \in Threads, SystemCall(t)
      PROVE  StackTypes' /\ Shapes'
  <2>1. ASSUME NEW i \in Registered, signal_register(t, i)
        PROVE  StackTypes' /\ Shapes'
    <3>. /\ curr = t /\ pc[t] = "user" /\ save_all(t) /\ UNCHANGED <<status, elr, origin>>
         /\ pc' = [pc EXCEPT ![t] = "check_signal"]
      BY <2>1 DEF signal_register, Call
    <3>. QED  BY TrapShape
  <2>2. ASSUME NEW pid \in Threads, kill(t, pid)
        PROVE  StackTypes' /\ Shapes'
    <3>. /\ curr = t /\ pc[t] = "user" /\ save_all(t) /\ UNCHANGED <<elr, origin>>
         /\ pc' = [pc EXCEPT ![t] = "check_signal"]
         /\ status' = [status EXCEPT ![pid] = "ZOMBIE"]
      BY <2>2 DEF kill, Call
    <3>. \A u \in Threads : status'[u] = "ACTIVE" => status[u] = "ACTIVE"
      BY DEF StackInv, RunInv
    <3>. QED  BY TrapShape
  <2>3. ASSUME NEW pid \in Threads, NEW i \in Signals, signal_kill(t, pid, i)
        PROVE  StackTypes' /\ Shapes'
    <3>. /\ curr = t /\ pc[t] = "user" /\ save_all(t) /\ UNCHANGED <<status, elr, origin>>
         /\ \/ pc' = [pc EXCEPT ![t] = "check_signal"]
            \/ pc' = [pc EXCEPT ![t] = "signal_kill"]
      BY <2>3 DEF signal_kill, Call
    <3>. QED  BY TrapShape
  <2>. QED  BY <1>5, <2>1, <2>2, <2>3, ExecShape, ForkShape DEF SystemCall
<1>. QED  BY <1>1, <1>2, <1>3, <1>4, <1>5 DEF Next, Tick

(* A step that changes nothing. *)
LEMMA StackStutter ==
  ASSUME StackInv, UNCHANGED vars
  PROVE  StackInv'
BY DEF StackInv, RunInv, StackTypes, Shapes, Live, vars, thread_vars, signal_vars

(* A stack of one of the four shapes has at most three frames, one of them *)
(* a check.                                                                *)
LEMMA ShapeBound ==
  ASSUME NEW s \in Seq(Frames), NEW d, NEW k,
         \/ AtRest(s, d, k) \/ InTrap(s, d, k) \/ InCheck(s, d, k) \/ InHandlerTrap(s, d, k)
  PROVE  Len(s) <= 3 /\ Cardinality({j \in DOMAIN s : IsCheck(s[j])}) <= 1
<1>. DEFINE C == {j \in DOMAIN s : IsCheck(s[j])}
<1>1. DOMAIN s = 1 .. Len(s)
  BY LenProperties
<1>2. Cardinality({}) = 0 /\ Cardinality({2}) = 1
  BY FS_EmptySet, FS_Singleton
<1>3. Len(s) <= 3 /\ (C = {} \/ C = {2})
  <2>1. CASE AtRest(s, d, k)
    BY <1>1, <2>1 DEF AtRest
  <2>2. CASE InTrap(s, d, k)
    BY <1>1, <2>2 DEF InTrap, IsCheck
  <2>3. CASE InCheck(s, d, k)
    BY <1>1, <2>3 DEF InCheck, IsCheck
  <2>4. CASE InHandlerTrap(s, d, k)
    BY <1>1, <2>4 DEF InHandlerTrap, IsCheck
  <2>. QED  BY <2>1, <2>2, <2>3, <2>4
<1>4. Cardinality(C) <= 1
  <2>. HIDE DEF C
  <2>1. Cardinality(C) = 0 \/ Cardinality(C) = 1
    BY <1>2, <1>3, Zenon
  <2>. QED  BY <2>1
<1>. QED  BY <1>3, <1>4

(* Handlers do not nest, whatever interrupts check_signal, signal_kill and *)
(* the return to user mode, as long as handlers neither fork nor exec:     *)
(* signal_is_checking keeps a thread's kernel stack at three frames.       *)
THEOREM HandlersDoNotNest ==
  ASSUME PlainHandlers
  PROVE  Spec => []OneHandlerAtATime
<1>1. Init => StackInv
  BY StackInit
<1>2. StackInv /\ [Next]_vars => StackInv'
  BY StackStep, StackStutter
<1>3. StackInv => OneHandlerAtATime
  <2>. SUFFICES ASSUME StackInv, NEW t \in Threads, status[t] = "ACTIVE"
                PROVE  /\ Len(stack[t]) <= 3
                       /\ Cardinality({d \in DOMAIN stack[t] : IsCheck(stack[t][d])}) <= 1
                       /\ pc[t] = "user" /\ code[t] = "handler" => IsCheck(stack[t][saved[t]])
    BY DEF OneHandlerAtATime, Live
  <2>1. /\ Shape(pc[t], code[t], elr[t], stack[t], due[t], signal_is_checking[t], saved[t])
        /\ stack[t] \in Seq(Frames) /\ pc[t] \in Places
    BY DEF StackInv, Shapes, StackTypes, Live
  <2>2. \/ AtRest(stack[t], due[t], signal_is_checking[t])
        \/ InTrap(stack[t], due[t], signal_is_checking[t])
        \/ InCheck(stack[t], due[t], signal_is_checking[t])
        \/ InHandlerTrap(stack[t], due[t], signal_is_checking[t])
    BY <2>1 DEF Shape, Places
  <2>3. pc[t] = "user" /\ code[t] = "handler" => IsCheck(stack[t][saved[t]])
    BY <2>1 DEF Shape, InCheck, IsCheck
  <2>. QED  BY <2>1, <2>2, <2>3, ShapeBound
<1>. QED  BY <1>1, <1>2, <1>3, PTL DEF Spec

(* The traps of a stack are the frames that are due. *)
LEMMA ShapeSameCode ==
  ASSUME NEW s \in Seq(Frames), NEW d \in Seq(Frames), NEW k,
         InTrap(s, d, k) \/ InHandlerTrap(s, d, k)
  PROVE  SameCode(s, d)
<1>1. DOMAIN s = 1 .. Len(s) /\ DOMAIN d = 1 .. Len(d)
  BY LenProperties
<1>. DEFINE pos == [j \in DOMAIN d |-> 2 * j - 1]
<1>2. CASE InTrap(s, d, k)
  <2>1. DOMAIN s = {1} /\ DOMAIN d = {1} /\ s[1].type = "trap" /\ s[1].code = d[1].code
    BY <1>1, <1>2 DEF InTrap
  <2>2. pos \in [DOMAIN d -> DOMAIN s] /\ pos[1] = 1
    BY <2>1
  <2>. HIDE DEF pos
  <2>3. \A j, m \in DOMAIN d : j < m => pos[j] < pos[m]
    BY <2>1
  <2>4. {m \in DOMAIN s : IsTrap(s[m])} = {pos[j] : j \in DOMAIN d}
    BY <2>1, <2>2 DEF IsTrap
  <2>5. \A j \in DOMAIN d : s[pos[j]].code = d[j].code
    BY <2>1, <2>2
  <2>. QED  BY <2>2, <2>3, <2>4, <2>5 DEF SameCode
<1>3. CASE InHandlerTrap(s, d, k)
  <2>1. /\ DOMAIN s = {1, 2, 3} /\ DOMAIN d = {1, 2}
        /\ s[1].type = "trap" /\ s[2].type # "trap" /\ s[3].type = "trap"
        /\ s[1].code = d[1].code /\ s[3].code = d[2].code
    <3>. DOMAIN s = 1 .. 3 /\ DOMAIN d = 1 .. 2
      BY <1>1, <1>3 DEF InHandlerTrap
    <3>. QED  BY <1>3 DEF InHandlerTrap
  <2>2. pos \in [DOMAIN d -> DOMAIN s] /\ pos[1] = 1 /\ pos[2] = 3
    BY <2>1
  <2>. HIDE DEF pos
  <2>3. \A j, m \in DOMAIN d : j < m => pos[j] < pos[m]
    BY <2>1, <2>2
  <2>4. {m \in DOMAIN s : IsTrap(s[m])} = {pos[j] : j \in DOMAIN d}
    BY <2>1, <2>2 DEF IsTrap
  <2>5. \A j \in DOMAIN d : s[pos[j]].code = d[j].code
    BY <2>1, <2>2
  <2>. QED  BY <2>2, <2>3, <2>4, <2>5 DEF SameCode
<1>. QED  BY <1>2, <1>3

(* A thread goes back to the code that it was taken from, through every    *)
(* handler, call and interrupt, if none comes between load_all and its     *)
(* eret and handlers neither fork nor exec.                                *)
THEOREM InterruptedCodeResumed ==
  ASSUME PlainHandlers, ~InterruptReturn
  PROVE  Spec => []ResumesInterruptedCode
<1>1. Init => StackInv
  BY StackInit
<1>2. StackInv /\ [Next]_vars => StackInv'
  BY StackStep, StackStutter
<1>3. StackInv => ResumesInterruptedCode
  <2>. SUFFICES ASSUME StackInv, NEW t \in Threads, status[t] = "ACTIVE"
                PROVE  /\ pc[t] # "lost"
                       /\ pc[t] = "load_all" => SameCode(stack[t], due[t])
    BY DEF ResumesInterruptedCode, Live
  <2>1. /\ Shape(pc[t], code[t], elr[t], stack[t], due[t], signal_is_checking[t], saved[t])
        /\ stack[t] \in Seq(Frames) /\ due[t] \in Seq(Frames)
    BY DEF StackInv, Shapes, StackTypes, Live
  <2>2. pc[t] # "lost"
    BY <2>1 DEF Shape
  <2>3. pc[t] = "load_all" => \/ InTrap(stack[t], due[t], signal_is_checking[t])
                             \/ InHandlerTrap(stack[t], due[t], signal_is_checking[t])
    BY <2>1 DEF Shape
  <2>. QED  BY <2>1, <2>2, <2>3, ShapeSameCode
<1>. QED  BY <1>1, <1>2, <1>3, PTL DEF Spec
-----------------------------------------------------------------------------
(* The counts of signals. *)

(* The new owner of a slot has no pending signal. *)
LEMMA ResetToZero ==
  ASSUME NEW counts \in [Sigs -> Int], counts[SIGNAL_MAX] = 0
  PROVE  ResetCounts(counts) = [i \in Sigs |-> 0]
BY SignalAssumption DEF ResetCounts, Sigs

(* The steps that change no count, leave arg alone and let nobody enter    *)
(* signal_kill, while nobody who is in it loses the CPU.                   *)
LEMMA CountsStay ==
  ASSUME CountInv, RunInv', UNCHANGED <<sigcount, owed>>,
         pc' \in [Threads -> Places], DOMAIN arg' = Threads,
         \A u \in Threads : status'[u] = "ACTIVE" => status[u] = "ACTIVE",
         \A u \in Threads : status'[u] = "ACTIVE" /\ pc'[u] = "signal_kill" =>
                             pc[u] = "signal_kill" /\ curr' = curr /\ arg'[u] = arg[u]
  PROVE  CountInv'
<1>1. KillInv'
  BY DEF CountInv, KillInv, Live
<1>2. \A t \in Live' : sigcount'[t] = owed'[t]
  BY DEF CountInv, Live
<1>. QED  BY <1>1, <1>2 DEF CountInv

(* A signal that is taken is taken off what is owed as well. *)
LEMMA TakeCounts ==
  ASSUME CountInv, NEW t \in Threads, NEW i, Take(t, i), sigcount[t][i] > 0
  PROVE  /\ sigcount' \in [Threads -> [Sigs -> Int]] /\ owed' \in [Threads -> [Sigs -> Int]]
         /\ \A u \in Threads : sigcount'[u][SIGNAL_MAX] = 0
         /\ \A u \in Live : sigcount'[u] = owed'[u]
<1>1. /\ sigcount' = [sigcount EXCEPT ![t] = [sigcount[t] EXCEPT ![i] = sigcount[t][i] - 1]]
      /\ owed' = [owed EXCEPT ![t] = [owed[t] EXCEPT ![i] = owed[t][i] - 1]]
  BY DEF Take
<1>2. sigcount[t] \in [Sigs -> Int] /\ owed[t] \in [Sigs -> Int] /\ sigcount[t][SIGNAL_MAX] = 0
  BY DEF CountInv
<1>3. [sigcount[t] EXCEPT ![i] = sigcount[t][i] - 1] \in [Sigs -> Int]
      /\ [owed[t] EXCEPT ![i] = owed[t][i] - 1] \in [Sigs -> Int]
  <2>1. CASE i \in Sigs
    <3>. sigcount[t][i] - 1 \in Int /\ owed[t][i] - 1 \in Int
      BY <1>2, <2>1
    <3>. QED  BY <1>2
  <2>2. CASE i \notin Sigs
    BY <1>2, <2>2
  <2>. QED  BY <2>1, <2>2
<1>4. [sigcount[t] EXCEPT ![i] = sigcount[t][i] - 1][SIGNAL_MAX] = 0
  <2>. i # SIGNAL_MAX
    BY <1>2
  <2>. QED  BY <1>2, SignalAssumption DEF Sigs
<1>5. t \in Live => [sigcount[t] EXCEPT ![i] = sigcount[t][i] - 1]
                    = [owed[t] EXCEPT ![i] = owed[t][i] - 1]
  BY DEF CountInv
<1>. QED  BY <1>1, <1>3, <1>4, <1>5 DEF CountInv, Live

(* Every step keeps the counts of the live threads. *)
LEMMA CountStep ==
  ASSUME CountInv, ~InterruptKill, SIGNAL_MAX \notin Signals, Next
  PROVE  CountInv'
<1>0. RunInv'
  BY RunStep DEF CountInv
<1>1. CASE TickInUser
  <2>. /\ UNCHANGED <<status, arg, sigcount, owed>> /\ curr # idle /\ pc[curr] = "user"
       /\ pc' = [pc EXCEPT ![curr] = "check_signal"]
    BY <1>1 DEF TickInUser, signal_vars
  <2>. pc' \in [Threads -> Places]
    BY DEF CountInv, Places
  <2>. \A u \in Threads : ~(status'[u] = "ACTIVE" /\ pc'[u] = "signal_kill")
    BY DEF CountInv, KillInv, Live
  <2>. QED  BY <1>0, CountsStay DEF CountInv
<1>2. CASE TickInKernel
  <2>. /\ UNCHANGED <<status, pc, arg, sigcount, owed>>
       /\ curr # idle => pc[curr] # "signal_kill"
    BY <1>2 DEF TickInKernel, signal_vars
  <2>. \A u \in Threads : ~(status'[u] = "ACTIVE" /\ pc'[u] = "signal_kill")
    <3>. SUFFICES ASSUME NEW u \in Threads, status'[u] = "ACTIVE", pc'[u] = "signal_kill"
                  PROVE  FALSE
      OBVIOUS
    <3>1. status[u] = "ACTIVE" /\ pc[u] = "signal_kill"
      OBVIOUS
    <3>2. curr = u
      BY <3>1 DEF CountInv, KillInv, Live
    <3>. QED  BY <3>1, <3>2, SignalAssumption DEF Threads, idle
  <2>. QED  BY <1>0, CountsStay DEF CountInv
<1>3. CASE kill_zombies
  <2>. /\ UNCHANGED <<pc, curr, sigcount, owed>> /\ curr = idle
       /\ status' = [t \in Threads |-> IF t \in Dead(rq, status) THEN "FREE" ELSE status[t]]
       /\ DOMAIN arg' = Threads
    BY <1>3 DEF kill_zombies, signal_vars
  <2>. \A u \in Threads : ~(status'[u] = "ACTIVE" /\ pc'[u] = "signal_kill")
    <3>. SUFFICES ASSUME NEW u \in Threads, status'[u] = "ACTIVE", pc'[u] = "signal_kill"
                  PROVE  FALSE
      OBVIOUS
    <3>1. status[u] = "ACTIVE" /\ pc[u] = "signal_kill"
      OBVIOUS
    <3>2. curr = u
      BY <3>1 DEF CountInv, KillInv, Live
    <3>. QED  BY <3>1, <3>2, SignalAssumption DEF Threads, idle
  <2>. \A u \in Threads : status'[u] = "ACTIVE" => status[u] = "ACTIVE"
    OBVIOUS
  <2>. QED  BY <1>0, CountsStay DEF CountInv
<1>4. ASSUME NEW t \in Threads, KernelStep(t)
      PROVE  CountInv'
  <2>. curr = t
    BY <1>4 DEF KernelStep
  <2>1. ASSUME NEW p \in Places \ {"signal_kill"}, pc' = [pc EXCEPT ![t] = p],
               UNCHANGED <<status, curr, arg, sigcount, owed>>
        PROVE  CountInv'
    <3>. pc' \in [Threads -> Places] /\ pc'[t] # "signal_kill"
         /\ \A u \in Threads \ {t} : pc'[u] = pc[u]
      BY <2>1 DEF CountInv
    <3>. QED  BY <1>0, <2>1, CountsStay DEF CountInv
  <2>2. CASE \/ check_signal(t) \/ load_all(t) \/ eret(t) \/ sigreturn(t)
             \/ parent(t) \/ child(t)
    <3>. UNCHANGED <<status, curr, arg, sigcount, owed>>
      BY <2>2 DEF check_signal, load_all, eret, sigreturn, parent, child, signal_vars
    <3>. \E p \in Places \ {"signal_kill"} : pc' = [pc EXCEPT ![t] = p]
      BY <2>2 DEF check_signal, load_all, eret, sigreturn, load_context, parent, child, Places
    <3>. QED  BY <2>1
  <2>3. CASE LoopPasses(t)
    <3>. UNCHANGED <<status, curr, arg, sigcount, owed>>
         /\ (pc' = pc \/ pc' = [pc EXCEPT ![t] = "load_all"])
      BY <2>3 DEF LoopPasses, NextSignal, signal_vars
    <3>1. CASE pc' = pc
      BY <1>0, <3>1, CountsStay DEF CountInv
    <3>2. CASE pc' = [pc EXCEPT ![t] = "load_all"]
      BY <2>1, <3>2 DEF Places
    <3>. QED  BY <3>1, <3>2
  <2>4. CASE run_signal(t) \/ signal_default_handler(t)
    <3>. DEFINE i == Top(stack[t]).i
    <3>1. /\ Take(t, i) /\ sigcount[t][i] > 0 /\ pc[t] = "loop" /\ arg' = arg
          /\ \/ pc' = [pc EXCEPT ![t] = "eret"] /\ status' = status
             \/ pc' = pc /\ status' = [status EXCEPT ![t] = "ZOMBIE"]
      BY <2>4 DEF run_signal, signal_default_handler
    <3>. HIDE DEF i
    <3>2. /\ pc' \in [Threads -> Places]
          /\ \A u \in Threads : status'[u] = "ACTIVE" => status[u] = "ACTIVE"
      BY <3>1 DEF CountInv, RunInv, Places
    <3>3. \A u \in Threads : ~(status'[u] = "ACTIVE" /\ pc'[u] = "signal_kill")
      <4>. SUFFICES ASSUME NEW u \in Threads, status'[u] = "ACTIVE", pc'[u] = "signal_kill"
                    PROVE  FALSE
        OBVIOUS
      <4>. u # t /\ pc[u] = "signal_kill" /\ status[u] = "ACTIVE"
        BY <3>1, <3>2 DEF CountInv
      <4>. QED  BY DEF CountInv, KillInv, Live
    <3>4. KillInv'
      BY <3>3 DEF KillInv, Live
    <3>5. /\ sigcount' \in [Threads -> [Sigs -> Int]] /\ owed' \in [Threads -> [Sigs -> Int]]
          /\ \A u \in Threads : sigcount'[u][SIGNAL_MAX] = 0
          /\ \A u \in Live : sigcount'[u] = owed'[u]
      BY <3>1, TakeCounts
    <3>6. \A u \in Live' : sigcount'[u] = owed'[u]
      BY <3>2, <3>5 DEF Live
    <3>. QED  BY <1>0, <3>1, <3>2, <3>4, <3>5, <3>6 DEF CountInv
  <2>5. CASE RaiseSignal(t)
    <3>. DEFINE pid == arg[t][1]
                i   == arg[t][2]
    <3>1. /\ pc[t] = "signal_kill" /\ UNCHANGED <<status, curr>>
          /\ sigcount' = [sigcount EXCEPT ![pid][i] = @ + 1]
          /\ owed' = IF arg[t][3] THEN [owed EXCEPT ![pid][i] = @ + 1] ELSE owed
          /\ pc' = [pc EXCEPT ![t] = "check_signal"]
          /\ arg' = [arg EXCEPT ![t] = <<>>]
      BY <2>5 DEF RaiseSignal
    <3>2. t \in Live
      BY SignalAssumption DEF CountInv, RunInv, Live, Threads, idle
    <3>3. pid \in Threads /\ i \in Signals /\ arg[t][3] = TRUE
      BY <3>1, <3>2 DEF CountInv, KillInv
    <3>4. i \in Sigs /\ i # SIGNAL_MAX
      BY <3>3, SignalAssumption DEF Sigs
    <3>. HIDE DEF pid, i
    <3>5. /\ sigcount' = [sigcount EXCEPT ![pid] = [sigcount[pid] EXCEPT ![i] = sigcount[pid][i] + 1]]
          /\ owed' = [owed EXCEPT ![pid] = [owed[pid] EXCEPT ![i] = owed[pid][i] + 1]]
      BY <3>1, <3>3
    <3>6. /\ sigcount[pid] \in [Sigs -> Int] /\ owed[pid] \in [Sigs -> Int]
          /\ sigcount[pid][SIGNAL_MAX] = 0
      BY <3>3 DEF CountInv
    <3>7. /\ [sigcount[pid] EXCEPT ![i] = sigcount[pid][i] + 1] \in [Sigs -> Int]
          /\ [owed[pid] EXCEPT ![i] = owed[pid][i] + 1] \in [Sigs -> Int]
          /\ [sigcount[pid] EXCEPT ![i] = sigcount[pid][i] + 1][SIGNAL_MAX] = 0
      BY <3>4, <3>6, SignalAssumption DEF Sigs
    <3>8. /\ sigcount' \in [Threads -> [Sigs -> Int]] /\ owed' \in [Threads -> [Sigs -> Int]]
          /\ \A u \in Threads : sigcount'[u][SIGNAL_MAX] = 0
      BY <3>5, <3>7 DEF CountInv
    <3>9. \A u \in Live' : sigcount'[u] = owed'[u]
      <4>. SUFFICES ASSUME NEW u \in Live
                    PROVE  sigcount'[u] = owed'[u]
        BY <3>1 DEF Live
      <4>. u \in Threads /\ sigcount[u] = owed[u]
        BY DEF CountInv, Live
      <4>. QED  BY <3>3, <3>5 DEF CountInv
    <3>10. pc' \in [Threads -> Places] /\ DOMAIN arg' = Threads
      BY <3>1 DEF CountInv, Places
    <3>11. KillInv'
      BY <3>1 DEF CountInv, KillInv, Live
    <3>. QED  BY <1>0, <3>8, <3>9, <3>10, <3>11 DEF CountInv
  <2>. QED  BY <1>4, <2>2, <2>3, <2>4, <2>5 DEF KernelStep
<1>5. ASSUME NEW t \in Threads, SystemCall(t)
      PROVE  CountInv'
  <2>0. curr = t /\ pc[t] = "user"
    BY <1>5 DEF SystemCall, signal_register, kill, signal_kill, exec, fork, Call
  <2>1. \A u \in Live : pc[u] # "signal_kill"
    BY <2>0 DEF CountInv, KillInv
  <2>2. CASE (\E i \in Registered : signal_register(t, i)) \/ exec(t)
             \/ \E pid \in Threads : kill(t, pid)
    <3>1. /\ UNCHANGED <<arg, sigcount, owed>> /\ pc' = [pc EXCEPT ![t] = "check_signal"]
          /\ \/ status' = status
             \/ \E pid \in Threads : status' = [status EXCEPT ![pid] = "ZOMBIE"]
      BY <2>2 DEF signal_register, exec, kill, signal_vars
    <3>2. \A u \in Threads : status'[u] = "ACTIVE" => status[u] = "ACTIVE"
      BY <3>1 DEF CountInv, RunInv
    <3>3. pc' \in [Threads -> Places]
          /\ \A u \in Threads : ~(status'[u] = "ACTIVE" /\ pc'[u] = "signal_kill")
      BY <2>1, <3>1, <3>2 DEF CountInv, Places, Live
    <3>. QED  BY <1>0, <3>1, <3>2, <3>3, CountsStay DEF CountInv
  <2>3. ASSUME NEW pid \in Threads, NEW i \in Signals, signal_kill(t, pid, i)
        PROVE  CountInv'
    <3>1. /\ UNCHANGED <<status, curr, sigcount, owed>>
          /\ \/ pc' = [pc EXCEPT ![t] = "check_signal"] /\ arg' = arg
             \/ /\ pc' = [pc EXCEPT ![t] = "signal_kill"]
                /\ arg' = [arg EXCEPT ![t] = <<pid, i, TRUE>>]
      BY <2>3 DEF signal_kill, signal_vars
    <3>2. pc' \in [Threads -> Places] /\ DOMAIN arg' = Threads
      BY <3>1 DEF CountInv, Places
    <3>3. KillInv'
      <4>. SUFFICES ASSUME NEW u \in Threads, status[u] = "ACTIVE", pc'[u] = "signal_kill"
                    PROVE  curr' = u /\ arg'[u] \in Threads \X Signals \X {TRUE}
        BY <3>1 DEF KillInv, Live
      <4>1. u = t
        BY <2>1, <3>1 DEF CountInv, Live
      <4>2. arg'[t] = <<pid, i, TRUE>>
        BY <3>1, <4>1 DEF CountInv
      <4>3. <<pid, i, TRUE>> \in Threads \X Signals \X {TRUE}
        OBVIOUS
      <4>. QED  BY <2>0, <3>1, <4>1, <4>2, <4>3, Zenon
    <3>4. \A u \in Live' : sigcount'[u] = owed'[u]
      BY <3>1 DEF CountInv, Live
    <3>. QED  BY <1>0, <3>1, <3>2, <3>3, <3>4 DEF CountInv
  <2>4. CASE fork(t)
    <3>. DEFINE n == CHOOSE u \in Threads :
                       status[u] = "FREE" /\ \A v \in 1 .. u - 1 : status[v] # "FREE"
                Z == [i \in Sigs |-> 0]
    <3>1. /\ curr' = curr /\ arg' = arg /\ pc' = [pc EXCEPT ![t] = "parent", ![n] = "child"]
          /\ status' = [status EXCEPT ![n] = "ACTIVE"]
          /\ sigcount' = [sigcount EXCEPT ![n] = ResetCounts(sigcount[n])]
          /\ owed' = [owed EXCEPT ![n] = Z]
      BY <2>4 DEF fork
    <3>2. n \in Threads /\ status[n] = "FREE"
      <4>. PICK u \in Threads : status[u] = "FREE"
        BY <2>4 DEF fork
      <4>. QED  BY FirstFree
    <3>. HIDE DEF n
    <3>3. ResetCounts(sigcount[n]) = Z /\ Z \in [Sigs -> Int] /\ Z[SIGNAL_MAX] = 0
      BY <3>2, ResetToZero, SignalAssumption DEF CountInv, Sigs
    <3>. HIDE DEF Z
    <3>4. /\ sigcount' \in [Threads -> [Sigs -> Int]] /\ owed' \in [Threads -> [Sigs -> Int]]
          /\ \A u \in Threads : sigcount'[u][SIGNAL_MAX] = 0
      BY <3>1, <3>2, <3>3 DEF CountInv
    <3>5. \A u \in Live' : sigcount'[u] = owed'[u]
      BY <3>1, <3>2, <3>3 DEF CountInv, RunInv, Live
    <3>6. pc' \in [Threads -> Places] /\ DOMAIN arg' = Threads
      BY <3>1 DEF CountInv, Places
    <3>7. KillInv'
      BY <2>1, <3>1 DEF CountInv, RunInv, KillInv, Live
    <3>. QED  BY <1>0, <3>4, <3>5, <3>6, <3>7 DEF CountInv
  <2>. QED  BY <1>5, <2>2, <2>3, <2>4 DEF SystemCall
<1>. QED  BY <1>1, <1>2, <1>3, <1>4, <1>5 DEF Next, Tick

(* No signal is lost, invented or inherited from a slot's last owner, also *)
(* when handlers fork or exec and when an interrupt spoils a return, as    *)
(* long as signal_kill is not interrupted before it masks interrupts and   *)
(* the one signal that thread_create does not reset is not sent.           *)
THEOREM NoSignalLost ==
  ASSUME ~InterruptKill, SIGNAL_MAX \notin Signals
  PROVE  Spec => []SignalsConserved
<1>1. Init => CountInv
  BY SignalAssumption DEF Init, CountInv, RunInv, KillInv, Statuses, Places, Threads, idle, Sigs, Live
<1>2. CountInv /\ [Next]_vars => CountInv'
  <2>. CountInv /\ UNCHANGED vars => CountInv'
    BY DEF CountInv, RunInv, KillInv, Live, vars, thread_vars, signal_vars
  <2>. QED  BY CountStep
<1>3. CountInv => SignalsConserved
  BY DEF CountInv, SignalsConserved
<1>. QED  BY <1>1, <1>2, <1>3, PTL DEF Spec
=============================================================================
