----------------------------- MODULE AddressSpace -----------------------------
(***************************************************************************)
(* What programs rely on: every thread has memory of its own.  A thread    *)
(* changes only its own pages, a child starts with a copy of its parent's, *)
(* a program starts with its image, mmap adds pages of zeros where there   *)
(* were none.  The pages of Scratch (the signal stack) are not inherited.  *)
(***************************************************************************)
EXTENDS Integers

CONSTANTS Threads, Values, Zero, Image, ImagePages, InitialPages, Scratch

VARIABLE space  \* space[t] is a set of pairs <<page, what t has there>>

Has(m) == {x[1] : x \in m}

Others(t) == \A u \in Threads \ {t} : space'[u] = space[u]

(* A program as it starts: its image, and stacks that nobody has cleared. *)
Loaded(m) ==
  /\ m \subseteq InitialPages \X Values
  /\ Has(m) = InitialPages
  /\ \A p \in ImagePages : {x \in m : x[1] = p} = {<<p, Image>>}

Init ==
  \E t \in Threads : Loaded(space[t]) /\ \A u \in Threads \ {t} : space[u] = {}

Store(t) ==
  /\ \E x \in space[t], v \in Values : space'[t] = (space[t] \ {x}) \cup {<<x[1], v>>}
  /\ Others(t)

Fork(t, c) ==
  /\ space[t] # {} /\ space[c] = {}
  /\ Has(space'[c]) = Has(space[t])
  /\ {x \in space'[c] : x[1] \notin Scratch} = {x \in space[t] : x[1] \notin Scratch}
  /\ Others(c)

Mmap(t) ==
  /\ space[t] \subseteq space'[t]
  /\ \A x \in space'[t] \ space[t] : x[1] \notin Has(space[t]) /\ x[2] = Zero
  /\ Others(t)

(* The end of programs, by exec or by the reaping of zombies. *)
Unload == \A u \in Threads : space'[u] \in {space[u], {}}

Load(t) == space[t] = {} /\ Loaded(space'[t]) /\ Others(t)

Next == \E t \in Threads :
          /\ space'[t] # space[t]
          /\ \/ Store(t) \/ Mmap(t) \/ Unload \/ Load(t)
             \/ \E p \in Threads \ {t} : Fork(p, t)

Spec == Init /\ [][Next]_space

=============================================================================
