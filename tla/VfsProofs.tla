----------------------------- MODULE VfsProofs -----------------------------
(***************************************************************************)
(* Proofs about Vfs: whose every struct file is, where positions are, and  *)
(* that directories stay the tree that the lookups take them for.          *)
(***************************************************************************)
EXTENDS Vfs, ListLemmas

Tabs == UNION {[0 .. k - 1 -> Nat] : k \in Nat}

(* The names in paths and in the archive, and those of init_rootfs and of  *)
(* roots.                                                                  *)
Names == STRING \cup {NoName, "initramfs", "dev", "uart", "framebuffer"}

Vnodes ==
  [fs : {"tmpfs", "initramfs"}, type : {"dir", "file"}, name : Names,
   entry : Tabs, mount : Nat, size : Nat, device : BOOLEAN]

(* A file system on a directory was made after it, so that following       *)
(* mounts ends; every entry is a vnode or empty.                           *)
Tables(ns) ==
  /\ ns \in Seq(Vnodes) /\ Len(ns) > 0
  /\ \A d \in 1 .. Len(ns) : ns[d].mount = NULL \/ ns[d].mount \in d + 1 .. Len(ns)
  /\ \A d \in 1 .. Len(ns) : \A i \in DOMAIN ns[d].entry : ns[d].entry[i] \in 0 .. Len(ns)
  /\ \A d \in 1 .. Len(ns) : ns[d].fs = "tmpfs" => DOMAIN ns[d].entry = Entries

LEMMA VnodeIs ==
  ASSUME NEW ns \in Seq(Vnodes), NEW n \in 1 .. Len(ns)
  PROVE  /\ ns[n] \in Vnodes /\ ns[n].entry \in Tabs
         /\ \E k \in Nat : DOMAIN ns[n].entry = 0 .. k - 1
         /\ DOMAIN ns[n].entry \in SUBSET Nat
<1>1. ns[n] \in Vnodes
  OBVIOUS
<1>2. ns[n].entry \in Tabs
  BY <1>1 DEF Vnodes
<1>3. PICK k \in Nat : ns[n].entry \in [0 .. k - 1 -> Nat]
  BY <1>2 DEF Tabs
<1>. QED  BY <1>1, <1>2, <1>3

-----------------------------------------------------------------------------
(* Lookups. *)

(* Following mounts leads to a vnode on which nothing is mounted. *)
LEMMA FollowEnds ==
  ASSUME NEW ns, Tables(ns), NEW n \in 0 .. Len(ns)
  PROVE  /\ Follow(ns, n) \in 0 .. Len(ns)
         /\ Follow(ns, n) # NULL => ns[Follow(ns, n)].mount = NULL
<1>. DEFINE N == Len(ns)
            S == 0 .. N
            F == Up(ns)
            top[i \in 0 .. N] == IF i = 0 THEN n ELSE F[top[i - 1]]
<1>1. N \in Nat
  BY DEF Tables
<1>2. F \in [S -> S]
  BY <1>1 DEF Up, Tables, NULL
<1>3. \E g \in [0 .. N -> S] : Iterates(g, F, n, N)
  <2>. HIDE DEF N, F
  <2>. n \in S
    BY DEF N
  <2>. HIDE DEF S
  <2>. QED  BY <1>1, <1>2, Iterated
<1>4. top = [i \in 0 .. N |-> IF i = 0 THEN n ELSE F[top[i - 1]]]
  BY <1>3 DEF Iterates
<1>5. Follow(ns, n) = top[N]
  BY DEF Follow
<1>. HIDE DEF top
<1>6. top[0] = n /\ \A i \in 1 .. N : top[i] = F[top[i - 1]]
  BY <1>1, <1>4
<1>. DEFINE Far == {i \in Nat : i <= N =>
                      /\ top[i] \in S
                      /\ top[i] = NULL \/ ns[top[i]].mount = NULL \/ top[i] > i}
<1>7. 0 \in Far
  BY <1>6 DEF NULL
<1>8. ASSUME NEW i \in 1 .. N, i - 1 \in Far
      PROVE  i \in Far
  <2>1. top[i - 1] \in S /\ top[i] = F[top[i - 1]] /\ i \in Nat
    BY <1>1, <1>6, <1>8
  <2>2. CASE top[i - 1] = NULL \/ ns[top[i - 1]].mount = NULL
    BY <2>1, <2>2 DEF Up
  <2>3. CASE top[i - 1] # NULL /\ ns[top[i - 1]].mount # NULL
    <3>1. top[i - 1] > i - 1 /\ top[i - 1] \in 1 .. N
      BY <1>1, <1>8, <2>1, <2>3 DEF NULL
    <3>2. top[i] = ns[top[i - 1]].mount
      BY <2>1, <2>3 DEF Up
    <3>3. top[i] \in top[i - 1] + 1 .. N
      BY <2>3, <3>1, <3>2 DEF Tables
    <3>. QED  BY <1>1, <2>1, <3>1, <3>3
  <2>. QED  BY <2>2, <2>3
<1>9. N \in Far
  <2>. HIDE DEF Far, N
  <2>1. Far \in SUBSET Nat
    BY DEF Far
  <2>2. \A i \in 0 .. N : i \in Far
    BY <1>1, <1>7, <1>8, <2>1, HandedOn
  <2>. QED  BY <1>1, <2>2
<1>. QED  BY <1>1, <1>5, <1>9

(* A component of a path leads to a vnode on which nothing is mounted. *)
LEMMA ComponentEnds ==
  ASSUME NEW ns, Tables(ns), NEW name
  PROVE  /\ Component(ns, name) \in [0 .. Len(ns) -> 0 .. Len(ns)]
         /\ \A n \in 0 .. Len(ns) :
              LET m == Component(ns, name)[n] IN m # NULL => ns[m].mount = NULL
<1>. SUFFICES ASSUME NEW n \in 0 .. Len(ns)
              PROVE  /\ Component(ns, name)[n] \in 0 .. Len(ns)
                     /\ Component(ns, name)[n] # NULL => ns[Component(ns, name)[n]].mount = NULL
  BY DEF Component
<1>1. CASE n = NULL
  BY <1>1 DEF Component, NULL, Tables
<1>2. CASE n # NULL
  <2>1. n \in 1 .. Len(ns) /\ Len(ns) \in Nat
    BY <1>2 DEF NULL, Tables
  <2>2. Child(ns, n, name) \in 0 .. Len(ns)
    <3>. DEFINE used  == {i \in DOMAIN ns[n].entry : \A j \in 0 .. i : ns[n].entry[j] # NULL}
                found == {i \in used : ns[ns[n].entry[i]].name = name}
    <3>1. CASE found = {}
      BY <2>1, <3>1 DEF Child, NULL
    <3>2. CASE found # {}
      <4>1. found \in SUBSET Nat /\ found \in SUBSET DOMAIN ns[n].entry
        BY <2>1, VnodeIs DEF Tables
      <4>2. \E i \in found : \A j \in found : i <= j
        <5>. HIDE DEF found
        <5>. QED  BY <3>2, <4>1, SmallestNumber
      <4>3. PICK i \in found : Child(ns, n, name) = ns[n].entry[i]
        BY <3>2, <4>2 DEF Child
      <4>. QED  BY <2>1, <4>1, <4>3 DEF Tables
    <3>. QED  BY <3>1, <3>2
  <2>. QED  BY <1>2, <2>2, FollowEnds DEF Component
<1>. QED  BY <1>1, <1>2

(* vfs_lookup finds a vnode or nothing; on the vnode at the end of a path  *)
(* that is not empty nothing is mounted.                                   *)
LEMMA LookupEnds ==
  ASSUME NEW ns, Tables(ns), NEW path \in Seq(STRING)
  PROVE  /\ vfs_lookup(ns, path) \in 0 .. Len(ns)
         /\ path # <<>> /\ vfs_lookup(ns, path) # NULL
              => ns[vfs_lookup(ns, path)].mount = NULL
<1>. DEFINE N == Len(path)
            S == 0 .. Len(ns)
            F == [i \in 1 .. N |-> Component(ns, path[i])]
            at[i \in 0 .. N] == IF i = 0 THEN 1 ELSE Component(ns, path[i])[at[i - 1]]
<1>1. N \in Nat /\ 1 \in S /\ F \in [1 .. N -> [S -> S]]
  BY ComponentEnds DEF Tables
<1>2. \E g \in [0 .. N -> S] : Walks(g, F, 1, N)
  <2>. HIDE DEF N, F, S
  <2>. QED  BY <1>1, Walked
<1>3. PICK g \in [0 .. N -> S] : g = [i \in 0 .. N |-> IF i = 0 THEN 1 ELSE F[i][g[i - 1]]]
  BY <1>2 DEF Walks
<1>4. g = [i \in 0 .. N |-> IF i = 0 THEN 1 ELSE Component(ns, path[i])[g[i - 1]]]
  <2>1. \A i \in 0 .. N : g[i] = IF i = 0 THEN 1 ELSE Component(ns, path[i])[g[i - 1]]
    <3>. SUFFICES ASSUME NEW i \in 0 .. N
                  PROVE  g[i] = IF i = 0 THEN 1 ELSE Component(ns, path[i])[g[i - 1]]
      OBVIOUS
    <3>1. g[i] = IF i = 0 THEN 1 ELSE F[i][g[i - 1]]
      BY <1>3
    <3>2. i # 0 => F[i] = Component(ns, path[i])
      BY <1>1
    <3>. QED  BY <3>1, <3>2
  <2>. QED  BY <1>3, <2>1
<1>5. at = [i \in 0 .. N |-> IF i = 0 THEN 1 ELSE Component(ns, path[i])[at[i - 1]]]
  BY <1>4
<1>6. vfs_lookup(ns, path) = at[N]
  BY DEF vfs_lookup
<1>. HIDE DEF at
<1>7. at[0] = 1 /\ \A i \in 1 .. N : at[i] = Component(ns, path[i])[at[i - 1]]
  BY <1>1, <1>5
<1>. DEFINE In == {i \in Nat : i <= N => at[i] \in S}
<1>8. ASSUME NEW i \in 1 .. N, i - 1 \in In
      PROVE  i \in In
  <2>1. i \in Nat /\ at[i - 1] \in S
    BY <1>1, <1>8
  <2>2. at[i] = Component(ns, path[i])[at[i - 1]]
    BY <1>7
  <2>3. Component(ns, path[i]) \in [S -> S]
    BY ComponentEnds
  <2>. QED  BY <2>1, <2>2, <2>3
<1>9. \A i \in 0 .. N : at[i] \in S
  <2>1. 0 \in In
    BY <1>1, <1>7
  <2>. HIDE DEF N, S
  <2>2. \A i \in 0 .. N : i \in In
    <3>. In \in SUBSET Nat
      OBVIOUS
    <3>. HIDE DEF In
    <3>. QED  BY <1>1, <1>8, <2>1, HandedOn
  <2>. QED  BY <1>1, <2>2
<1>10. CASE path # <<>>
  <2>1. N \in 1 .. N /\ N - 1 \in 0 .. N
    BY <1>1, <1>10
  <2>2. at[N] = Component(ns, path[N])[at[N - 1]] /\ at[N - 1] \in S
    BY <1>7, <1>9, <2>1
  <2>. QED  BY <1>1, <1>6, <1>9, <2>2, ComponentEnds
<1>. QED  BY <1>1, <1>6, <1>9, <1>10

-----------------------------------------------------------------------------
(* What insertions and mounts make of the vnodes. *)

LEMMA Numbers ==
  /\ Entries \in SUBSET Nat /\ 0 \in Entries /\ 1 \in Entries /\ 0 .. MAX_DIR_ENTRY - 1 = Entries
  /\ \A i \in Entries : \A j \in 0 .. i - 1 : j \in Entries
  /\ Fds \in SUBSET Nat /\ \A i \in Fds : \A j \in 0 .. i - 1 : j \in Fds
  /\ Cardinality(Threads) \in Nat /\ Threads = 1 .. Cardinality(Threads)
  /\ Handles \in SUBSET (Nat \ {0})
  /\ NULL = 0 /\ Len(Archive) \in Nat /\ \A i \in 1 .. Len(Archive) : Archive[i] \in STRING
<1>1. Cardinality(Threads) \in Nat
  BY VfsAssumption, FS_CardinalityType
<1>2. Cardinality(Threads) * MAX_FD \in Nat
  BY <1>1, VfsAssumption
<1>. QED  BY <1>1, <1>2, VfsAssumption DEF Entries, Fds, Handles, NULL

LEMMA Below ==
  ASSUME NEW n \in Nat, NEW k \in 0 .. n - 1, NEW j \in 0 .. k
  PROVE  j \in 0 .. n - 1
OBVIOUS

(* Places that differ still differ when both are counted from one. *)
LEMMA ShiftedApart ==
  ASSUME NEW n \in Nat, NEW j \in 0 .. n - 1, NEW k \in 0 .. n - 1, j # k
  PROVE  j + 1 # k + 1
OBVIOUS

(* What is not nothing is one of those within the bound. *)
LEMMA WithinTheBound ==
  ASSUME NEW n \in Nat, NEW m \in 0 .. n, m # 0
  PROVE  m \in 1 .. n
OBVIOUS

(* A number past a bound is none of those within it. *)
LEMMA PastTheBound ==
  ASSUME NEW n \in Nat, NEW m \in 0 .. n, NEW j \in Nat
  PROVE  n + 1 + j # m
OBVIOUS

(* The search for the first free place ends. *)
LEMMA FirstOf ==
  ASSUME NEW S \in SUBSET Nat, S # {}
  PROVE  \E i \in S : \A j \in 0 .. i - 1 : j \notin S
<1>1. PICK i \in S : \A j \in S : i <= j
  BY SmallestNumber
<1>. QED  BY <1>1

LEMMA NewVnode ==
  ASSUME NEW fs \in {"tmpfs", "initramfs"}, NEW type \in {"dir", "file"},
         NEW name \in Names, NEW size \in Nat
  PROVE  Vnode(fs, type, name, size) \in Vnodes
<1>1. NoEntries \in Tabs
  BY Numbers, VfsAssumption DEF NoEntries, Tabs, Entries
<1>. HIDE DEF NoEntries
<1>. QED  BY <1>1, Numbers DEF Vnode, Vnodes

(* The vnodes that a mount makes. *)
LEMMA NewRoot ==
  ASSUME NEW fs \in {"tmpfs", "initramfs"}, NEW v, v = Vnode(fs, "dir", NoName, 0)
  PROVE  v \in Vnodes /\ v.mount = NULL /\ v.fs = fs /\ v.entry = NoEntries /\ v.size = 0
<1>1. v \in Vnodes
  <2>. NoName \in Names
    BY DEF Names
  <2>. QED  BY NewVnode
<1>. QED  BY <1>1 DEF Vnode

LEMMA ArchiveFile ==
  ASSUME NEW i \in 1 .. Len(Archive)
  PROVE  Vnode("initramfs", "file", Archive[i], 1) \in Vnodes
<1>. SUFFICES ASSUME NEW name \in Names, name = Archive[i]
              PROVE  Vnode("initramfs", "file", name, 1) \in Vnodes
  BY Numbers DEF Names
<1>. QED  BY NewVnode

(* A vnode that new directories and files start from. *)
Empty(node) == /\ node \in Vnodes /\ node.mount = NULL /\ node.entry = NoEntries

(* Entry i of a table becomes x. *)
Put(f, i, x) == [f EXCEPT ![i] = x]

LEMMA EntrySet ==
  ASSUME NEW f \in Tabs, NEW i, NEW x \in Nat
  PROVE  /\ Put(f, i, x) \in Tabs /\ DOMAIN Put(f, i, x) = DOMAIN f
         /\ \A j \in DOMAIN f : Put(f, i, x)[j] = IF j = i THEN x ELSE f[j]
<1>1. PICK k \in Nat : f \in [0 .. k - 1 -> Nat]
  BY DEF Tabs
<1>2. Put(f, i, x) \in [0 .. k - 1 -> Nat]
  BY <1>1 DEF Put
<1>. QED  BY <1>1, <1>2 DEF Tabs, Put

LEMMA NothingIn == DOMAIN NoEntries = Entries /\ \A j \in Entries : NoEntries[j] = NULL
BY DEF NoEntries

(* Vnodes that differ in nothing but their entries and their mount. *)
Alike(v, w) ==
  /\ v.fs = w.fs /\ v.type = w.type /\ v.name = w.name
  /\ v.size = w.size /\ v.device = w.device

(* r is ns after node has become entry i of directory d. *)
InsertedIn(r, ns, d, i, node) ==
  /\ r \in Seq(Vnodes) /\ Len(r) = Len(ns) + 1 /\ r[Len(ns) + 1] = node
  /\ \A n \in 1 .. Len(ns) : Alike(r[n], ns[n]) /\ r[n].mount = ns[n].mount
  /\ \A n \in 1 .. Len(ns) : n # d => r[n].entry = ns[n].entry
  /\ DOMAIN r[d].entry = DOMAIN ns[d].entry
  /\ \A j \in DOMAIN ns[d].entry :
       r[d].entry[j] = IF j = i THEN Len(ns) + 1 ELSE ns[d].entry[j]

LEMMA InsertIs ==
  ASSUME NEW ns \in Seq(Vnodes), NEW d \in 1 .. Len(ns), NEW i, NEW node \in Vnodes
  PROVE  InsertedIn(Insert(ns, d, i, node), ns, d, i, node)
<1>. SUFFICES ASSUME NEW r, r = Insert(ns, d, i, node)
              PROVE  InsertedIn(r, ns, d, i, node)
  OBVIOUS
<1>. DEFINE w == Put(ns[d].entry, i, Len(ns) + 1)
            v == [ns[d] EXCEPT !.entry = w]
            e == [ns EXCEPT ![d] = v]
<1>1. ns[d] \in Vnodes /\ ns[d].entry \in Tabs /\ Len(ns) \in Nat
  BY VnodeIs
<1>2. /\ w \in Tabs /\ DOMAIN w = DOMAIN ns[d].entry
      /\ \A j \in DOMAIN ns[d].entry : w[j] = IF j = i THEN Len(ns) + 1 ELSE ns[d].entry[j]
  BY <1>1, EntrySet
<1>3. r = Append(e, node)
  BY DEF Insert, Put
<1>. HIDE DEF w
<1>4. v \in Vnodes /\ Alike(v, ns[d]) /\ v.mount = ns[d].mount /\ v.entry = w
  BY <1>1, <1>2 DEF Vnodes, Alike
<1>. HIDE DEF v
<1>5. e \in Seq(Vnodes) /\ Len(e) = Len(ns) /\ e[d] = v /\ \A n \in 1 .. Len(ns) : n # d => e[n] = ns[n]
  BY <1>4
<1>. HIDE DEF e
<1>6. r \in Seq(Vnodes) /\ Len(r) = Len(ns) + 1 /\ r[Len(ns) + 1] = node
  BY <1>1, <1>3, <1>5
<1>7. \A n \in 1 .. Len(ns) : r[n] = e[n]
  BY <1>1, <1>3, <1>5
<1>8. \A n \in 1 .. Len(ns) : Alike(r[n], ns[n]) /\ r[n].mount = ns[n].mount
  BY <1>4, <1>5, <1>7 DEF Alike
<1>9. \A n \in 1 .. Len(ns) : n # d => r[n].entry = ns[n].entry
  BY <1>5, <1>7
<1>10. r[d].entry = w
  BY <1>4, <1>5, <1>7
<1>. QED  BY <1>2, <1>6, <1>8, <1>9, <1>10 DEF InsertedIn

LEMMA TablesInserted ==
  ASSUME NEW ns, Tables(ns), NEW d \in 1 .. Len(ns), NEW i, NEW node, Empty(node)
  PROVE  Tables(Insert(ns, d, i, node))
<1>. DEFINE L == Len(ns) + 1
<1>1. /\ ns \in Seq(Vnodes) /\ Len(ns) \in Nat /\ Len(ns) > 0 /\ node \in Vnodes
  BY DEF Tables, Empty
<1>. SUFFICES ASSUME NEW r, InsertedIn(r, ns, d, i, node)
              PROVE  Tables(r)
  BY <1>1, InsertIs
<1>2. /\ r \in Seq(Vnodes) /\ Len(r) = L /\ r[L] = node
      /\ \A n \in 1 .. Len(ns) : Alike(r[n], ns[n]) /\ r[n].mount = ns[n].mount
      /\ \A n \in 1 .. Len(ns) : n # d => r[n].entry = ns[n].entry
      /\ DOMAIN r[d].entry = DOMAIN ns[d].entry
      /\ \A j \in DOMAIN ns[d].entry : r[d].entry[j] = IF j = i THEN L ELSE ns[d].entry[j]
  BY DEF InsertedIn
<1>3. \A n \in 1 .. L : n = L \/ n = d \/ (n \in 1 .. Len(ns) /\ n # d)
  BY <1>1
<1>4. /\ node.mount = NULL /\ node.entry = NoEntries
      /\ \A n \in 1 .. Len(ns) : r[n].fs = ns[n].fs
  BY <1>2 DEF Empty, Alike
<1>5. ASSUME NEW n \in 1 .. L
      PROVE  r[n].mount = NULL \/ r[n].mount \in n + 1 .. L
  <2>1. CASE n = L
    BY <1>2, <1>4, <2>1
  <2>2. CASE n # L
    <3>. n \in 1 .. Len(ns) /\ r[n].mount = ns[n].mount
      BY <1>1, <1>2, <2>2
    <3>. QED  BY <1>1 DEF Tables
  <2>. QED  BY <2>1, <2>2
<1>6. ASSUME NEW n \in 1 .. L, NEW j \in DOMAIN r[n].entry
      PROVE  r[n].entry[j] \in 0 .. L
  <2>1. CASE n = L
    <3>1. r[n].entry = NoEntries
      BY <1>2, <1>4, <2>1
    <3>2. j \in Entries /\ r[n].entry[j] = NULL
      BY <3>1, NothingIn
    <3>. QED  BY <1>1, <3>2 DEF NULL
  <2>2. CASE n = d
    <3>. j \in DOMAIN ns[d].entry /\ ns[d].entry[j] \in 0 .. Len(ns)
      BY <1>2, <2>2 DEF Tables
    <3>. QED  BY <1>1, <1>2, <2>2
  <2>3. CASE n \in 1 .. Len(ns) /\ n # d
    BY <1>1, <1>2, <2>3 DEF Tables
  <2>. QED  BY <1>3, <2>1, <2>2, <2>3
<1>7. ASSUME NEW n \in 1 .. L, r[n].fs = "tmpfs"
      PROVE  DOMAIN r[n].entry = Entries
  <2>1. CASE n = L
    BY <1>2, <1>4, <2>1, NothingIn
  <2>2. CASE n = d
    BY <1>2, <1>4, <1>7, <2>2 DEF Tables
  <2>3. CASE n \in 1 .. Len(ns) /\ n # d
    BY <1>2, <1>4, <1>7, <2>3 DEF Tables
  <2>. QED  BY <1>3, <2>1, <2>2, <2>3
<1>. QED  BY <1>1, <1>2, <1>5, <1>6, <1>7 DEF Tables

(* The vnodes that come with the root of a file system. *)
More(fs) == IF fs = "initramfs" THEN Len(Archive) ELSE 0

(* r is ns with a file system of kind fs mounted on directory d. *)
MountedIn(r, ns, d, fs) ==
  LET root == Len(ns) + 1
      more == More(fs)
  IN  /\ r \in Seq(Vnodes) /\ Len(r) = root + more
      /\ \A n \in 1 .. Len(ns) : Alike(r[n], ns[n]) /\ r[n].entry = ns[n].entry
      /\ \A n \in 1 .. Len(ns) : r[n].mount = IF n = d THEN root ELSE ns[n].mount
      /\ r[root].mount = NULL /\ r[root].fs = fs /\ r[root].size = 0
      /\ fs = "tmpfs" => r[root].entry = NoEntries
      /\ fs = "initramfs" =>
           /\ DOMAIN r[root].entry = 0 .. Len(Archive) - 1
           /\ \A j \in 0 .. Len(Archive) - 1 : r[root].entry[j] = root + 1 + j
      /\ \A k \in 1 .. more :
           r[root + k] = Vnode("initramfs", "file", Archive[k], 1)

Joint(a, b) == a \o b

JoinedIn(r, a, b) ==
  /\ Len(r) = Len(a) + Len(b)
  /\ \A n \in 1 .. Len(a) : r[n] = a[n]
  /\ \A k \in 1 .. Len(b) : r[Len(a) + k] = b[k]

LEMMA Joined ==
  ASSUME NEW S, NEW a \in Seq(S), NEW b \in Seq(S)
  PROVE  Joint(a, b) \in Seq(S) /\ JoinedIn(Joint(a, b), a, b)
BY DEF Joint, JoinedIn

LEMMA MountIs ==
  ASSUME NEW ns \in Seq(Vnodes), NEW d \in 1 .. Len(ns), NEW fs \in {"tmpfs", "initramfs"}
  PROVE  MountedIn(Mounted(ns, d, fs), ns, d, fs)
<1>. DEFINE root  == Len(ns) + 1
            v     == [ns[d] EXCEPT !.mount = root]
            e     == [ns EXCEPT ![d] = v]
            new   == Vnode(fs, "dir", NoName, 0)
            bare  == Append(e, new)
            slots == [i \in 0 .. Len(Archive) - 1 |-> root + 1 + i]
            w     == [bare[root] EXCEPT !.entry = slots]
            full  == [bare EXCEPT ![root] = w]
            data  == [i \in 1 .. Len(Archive) |-> Vnode("initramfs", "file", Archive[i], 1)]
<1>1. ns[d] \in Vnodes /\ Len(ns) \in Nat /\ root \in Nat /\ Len(Archive) \in Nat
  BY Numbers
<1>2. /\ v \in Vnodes /\ Alike(v, ns[d]) /\ v.entry = ns[d].entry /\ v.mount = root
  BY <1>1 DEF Vnodes, Alike
<1>3. Mounted(ns, d, fs) = IF fs = "initramfs" THEN full \o data ELSE bare
  BY DEF Mounted
<1>4. new \in Vnodes /\ new.mount = NULL /\ new.fs = fs /\ new.entry = NoEntries /\ new.size = 0
  BY NewRoot
<1>. HIDE DEF v, new
<1>5. /\ e \in Seq(Vnodes) /\ Len(e) = Len(ns) /\ e[d] = v
      /\ \A n \in 1 .. Len(ns) : n # d => e[n] = ns[n]
  BY <1>2
<1>. HIDE DEF e
<1>6. /\ bare \in Seq(Vnodes) /\ Len(bare) = root /\ bare[root] = new
      /\ \A n \in 1 .. Len(ns) : bare[n] = e[n]
  BY <1>1, <1>4, <1>5
<1>. HIDE DEF bare
<1>7. /\ slots \in Tabs /\ DOMAIN slots = 0 .. Len(Archive) - 1
      /\ \A j \in 0 .. Len(Archive) - 1 : slots[j] = root + 1 + j
  BY <1>1 DEF Tabs
<1>. HIDE DEF slots
<1>8. w \in Vnodes /\ w.mount = NULL /\ w.fs = fs /\ w.entry = slots /\ w.size = 0
  BY <1>4, <1>6, <1>7 DEF Vnodes
<1>. HIDE DEF w
<1>9. /\ full \in Seq(Vnodes) /\ Len(full) = root /\ full[root] = w
      /\ \A n \in 1 .. Len(ns) : full[n] = e[n]
  BY <1>1, <1>6, <1>8
<1>. HIDE DEF full
<1>10. \A i \in 1 .. Len(Archive) : Vnode("initramfs", "file", Archive[i], 1) \in Vnodes
  BY ArchiveFile
<1>11. /\ data \in Seq(Vnodes) /\ Len(data) = Len(Archive)
       /\ \A i \in 1 .. Len(Archive) : data[i] = Vnode("initramfs", "file", Archive[i], 1)
  BY <1>1, <1>10
<1>. HIDE DEF data
<1>12. \A n \in 1 .. Len(ns) : /\ Alike(e[n], ns[n]) /\ e[n].entry = ns[n].entry
                               /\ e[n].mount = IF n = d THEN root ELSE ns[n].mount
  BY <1>2, <1>5 DEF Alike
<1>13. CASE fs = "tmpfs"
  <2>1. Mounted(ns, d, fs) = bare
    BY <1>3, <1>13
  <2>. HIDE DEF root
  <2>2. root + 0 = root /\ root = Len(ns) + 1 /\ More(fs) = 0
    BY <1>1, <1>13 DEF root, More
  <2>. QED  BY <1>4, <1>6, <1>12, <1>13, <2>1, <2>2 DEF MountedIn
<1>14. CASE fs = "initramfs"
  <2>0. More(fs) = Len(Archive)
    BY <1>14 DEF More
  <2>1. Mounted(ns, d, fs) = full \o data
    BY <1>3, <1>14
  <2>. DEFINE r == Joint(full, data)
  <2>2. /\ r \in Seq(Vnodes) /\ Len(r) = Len(full) + Len(data)
        /\ \A n \in 1 .. Len(full) : r[n] = full[n]
        /\ \A k \in 1 .. Len(data) : r[Len(full) + k] = data[k]
    <3>1. full \in Seq(Vnodes) /\ data \in Seq(Vnodes)
      BY <1>9, <1>11
    <3>2. r \in Seq(Vnodes) /\ JoinedIn(r, full, data)
      BY <3>1, Joined
    <3>. HIDE DEF r
    <3>. QED  BY <3>2 DEF JoinedIn
  <2>. HIDE DEF r
  <2>3. \A n \in 1 .. Len(ns) : r[n] = e[n]
    BY <1>1, <1>9, <2>2
  <2>4. r[root] = w
    BY <1>1, <1>9, <2>2
  <2>5. MountedIn(r, ns, d, fs)
    <3>1. \A n \in 1 .. Len(ns) : /\ Alike(r[n], ns[n]) /\ r[n].entry = ns[n].entry
                                  /\ r[n].mount = IF n = d THEN root ELSE ns[n].mount
      BY <1>12, <2>3
    <3>2. r[root].mount = NULL /\ r[root].fs = fs /\ r[root].size = 0 /\ r[root].entry = slots
      BY <1>8, <2>4
    <3>3. \A k \in 1 .. Len(Archive) : r[root + k] = Vnode("initramfs", "file", Archive[k], 1)
      BY <1>9, <1>11, <2>2
    <3>4. r \in Seq(Vnodes) /\ Len(r) = root + Len(Archive)
      BY <1>9, <1>11, <2>2
    <3>. QED  BY <1>7, <1>14, <2>0, <3>1, <3>2, <3>3, <3>4 DEF MountedIn
  <2>. QED  BY <2>1, <2>5 DEF r, Joint
<1>. QED  BY <1>13, <1>14

LEMMA TablesMounted ==
  ASSUME NEW ns, Tables(ns), NEW d \in 1 .. Len(ns), NEW fs \in {"tmpfs", "initramfs"}
  PROVE  Tables(Mounted(ns, d, fs))
<1>1. ns \in Seq(Vnodes) /\ Len(ns) \in Nat /\ Len(ns) > 0 /\ More(fs) \in Nat
  BY Numbers DEF Tables, More
<1>. SUFFICES ASSUME NEW r, MountedIn(r, ns, d, fs),
                     NEW root \in Nat, root = Len(ns) + 1, NEW more \in Nat, more = More(fs),
                     NEW L \in Nat, L = root + more
              PROVE  Tables(r)
  BY <1>1, MountIs
<1>2. /\ r \in Seq(Vnodes) /\ Len(r) = L
      /\ \A n \in 1 .. Len(ns) : r[n].fs = ns[n].fs /\ r[n].entry = ns[n].entry
      /\ \A n \in 1 .. Len(ns) : r[n].mount = IF n = d THEN root ELSE ns[n].mount
      /\ r[root].mount = NULL /\ r[root].fs = fs
  BY DEF MountedIn, Alike
<1>3. /\ fs = "tmpfs" => r[root].entry = NoEntries
      /\ fs = "initramfs" =>
           /\ DOMAIN r[root].entry = 0 .. Len(Archive) - 1
           /\ \A j \in 0 .. Len(Archive) - 1 : r[root].entry[j] = root + 1 + j
  BY DEF MountedIn
<1>4. ASSUME NEW n \in root + 1 .. L
      PROVE  r[n].mount = NULL /\ r[n].entry = NoEntries
  <2>1. n - root \in 1 .. more /\ root + (n - root) = n
    BY <1>1
  <2>2. r[n] = Vnode("initramfs", "file", Archive[n - root], 1)
    BY <2>1 DEF MountedIn
  <2>. QED  BY <2>2 DEF Vnode
<1>5. \A n \in 1 .. L : n \in 1 .. Len(ns) \/ n = root \/ n \in root + 1 .. L
  BY <1>1
<1>6. Len(ns) <= L /\ root <= L /\ L \in Nat
  BY <1>1
<1>7. ASSUME NEW n \in 1 .. L
      PROVE  r[n].mount = NULL \/ r[n].mount \in n + 1 .. L
  <2>1. CASE n \in 1 .. Len(ns)
    <3>1. CASE n = d
      BY <1>1, <1>2, <1>6, <2>1, <3>1
    <3>2. CASE n # d
      <4>1. r[n].mount = ns[n].mount
        BY <1>2, <2>1, <3>2
      <4>2. ns[n].mount = NULL \/ ns[n].mount \in n + 1 .. Len(ns)
        BY <2>1 DEF Tables
      <4>. QED  BY <1>1, <1>6, <4>1, <4>2
    <3>. QED  BY <3>1, <3>2
  <2>. QED  BY <1>2, <1>4, <1>5, <2>1
<1>8. ASSUME NEW n \in 1 .. L, NEW j \in DOMAIN r[n].entry
      PROVE  r[n].entry[j] \in 0 .. L
  <2>1. CASE n \in 1 .. Len(ns)
    <3>. j \in DOMAIN ns[n].entry /\ r[n].entry[j] = ns[n].entry[j]
      BY <1>2, <2>1
    <3>. ns[n].entry[j] \in 0 .. Len(ns)
      BY <2>1 DEF Tables
    <3>. QED  BY <1>6
  <2>2. CASE r[n].entry = NoEntries
    <3>. j \in Entries /\ r[n].entry[j] = NULL
      BY <2>2, NothingIn
    <3>. QED  BY <1>6 DEF NULL
  <2>3. CASE n = root /\ fs = "initramfs"
    <3>1. j \in 0 .. Len(Archive) - 1 /\ r[n].entry[j] = root + 1 + j
      BY <1>3, <2>3
    <3>2. more = Len(Archive)
      BY <2>3 DEF More
    <3>. QED  BY <1>1, <3>1, <3>2
  <2>. QED  BY <1>3, <1>4, <1>5, <2>1, <2>2, <2>3
<1>9. ASSUME NEW n \in 1 .. L, r[n].fs = "tmpfs"
      PROVE  DOMAIN r[n].entry = Entries
  <2>1. CASE n \in 1 .. Len(ns)
    BY <1>2, <1>9, <2>1 DEF Tables
  <2>2. CASE n = root
    BY <1>2, <1>3, <1>9, <2>2, NothingIn
  <2>3. CASE n \in root + 1 .. L
    BY <1>4, <2>3, NothingIn
  <2>. QED  BY <1>5, <2>1, <2>2, <2>3
<1>10. Len(r) = L /\ L > 0 /\ r \in Seq(Vnodes)
  BY <1>1, <1>2, <1>6
<1>. QED  BY <1>7, <1>8, <1>9, <1>10 DEF Tables

(* r is ns with the size x for vnode k. *)
SizedIn(r, ns, k, x) ==
  /\ r \in Seq(Vnodes) /\ Len(r) = Len(ns)
  /\ \A n \in 1 .. Len(ns) :
       /\ r[n].fs = ns[n].fs /\ r[n].type = ns[n].type /\ r[n].name = ns[n].name
       /\ r[n].entry = ns[n].entry /\ r[n].mount = ns[n].mount /\ r[n].device = ns[n].device
       /\ r[n].size = IF n = k THEN x ELSE ns[n].size

LEMMA SizeIs ==
  ASSUME NEW ns \in Seq(Vnodes), NEW k \in -1 .. Len(ns), NEW x \in Nat
  PROVE  SizedIn([ns EXCEPT ![k].size = x], ns, k, x)
<1>0. CASE k \notin 1 .. Len(ns)
  <2>1. [ns EXCEPT ![k].size = x] = ns
    BY <1>0
  <2>2. \A n \in 1 .. Len(ns) : n # k
    BY <1>0
  <2>3. SizedIn(ns, ns, k, x)
    BY <2>2 DEF SizedIn
  <2>. QED  BY <2>1, <2>3
<1>. SUFFICES ASSUME k \in 1 .. Len(ns)
              PROVE  SizedIn([ns EXCEPT ![k].size = x], ns, k, x)
  BY <1>0
<1>. DEFINE v == [ns[k] EXCEPT !.size = x]
            r == [ns EXCEPT ![k] = v]
<1>1. ns[k] \in Vnodes
  OBVIOUS
<1>2. /\ v \in Vnodes /\ v.fs = ns[k].fs /\ v.type = ns[k].type /\ v.name = ns[k].name
      /\ v.entry = ns[k].entry /\ v.mount = ns[k].mount /\ v.device = ns[k].device /\ v.size = x
  BY <1>1 DEF Vnodes
<1>3. [ns EXCEPT ![k].size = x] = r
  OBVIOUS
<1>. HIDE DEF v
<1>4. /\ r \in Seq(Vnodes) /\ Len(r) = Len(ns) /\ r[k] = v
      /\ \A n \in 1 .. Len(ns) : n # k => r[n] = ns[n]
  BY <1>2
<1>. HIDE DEF r
<1>5. SizedIn(r, ns, k, x)
  BY <1>2, <1>4 DEF SizedIn
<1>. QED  BY <1>3, <1>5

LEMMA TablesSized ==
  ASSUME NEW ns, Tables(ns), NEW k, NEW x \in Nat, NEW r, SizedIn(r, ns, k, x)
  PROVE  Tables(r)
BY DEF Tables, SizedIn

-----------------------------------------------------------------------------
(* The tree. *)

(* A directory's used entries come first. *)
UsedFirst(ns) ==
  \A d \in 1 .. Len(ns) : \A i \in DOMAIN ns[d].entry :
    ns[d].entry[i] # NULL => \A j \in 0 .. i : ns[d].entry[j] # NULL

NamesDiffer(ns) ==
  \A d \in 1 .. Len(ns) : \A i, j \in DOMAIN ns[d].entry :
    ns[d].entry[i] # NULL /\ ns[d].entry[j] # NULL /\ i # j
      => ns[ns[d].entry[i]].name # ns[ns[d].entry[j]].name

(* No vnode is reached from two places. *)
EntriesApart(ns) ==
  \A d, e \in 1 .. Len(ns) : \A i \in DOMAIN ns[d].entry, j \in DOMAIN ns[e].entry :
    ns[d].entry[i] # NULL /\ ns[d].entry[i] = ns[e].entry[j] => d = e /\ i = j

MountsApart(ns) ==
  \A d, e \in 1 .. Len(ns) : ns[d].mount # NULL /\ ns[d].mount = ns[e].mount => d = e

KindsApart(ns) ==
  \A d, e \in 1 .. Len(ns) : \A i \in DOMAIN ns[d].entry :
    ns[d].entry[i] # NULL => ns[d].entry[i] # ns[e].mount

EntryOf(ns, n) == \E d \in 1 .. Len(ns) : \E i \in DOMAIN ns[d].entry : ns[d].entry[i] = n
MountOf(ns, n) == \E d \in 1 .. Len(ns) : ns[d].mount = n

(* Every vnode but the root of the whole tree is reached. *)
Reached(ns) == \A n \in 2 .. Len(ns) : EntryOf(ns, n) \/ MountOf(ns, n)

Exact(ns) ==
  /\ Tables(ns) /\ UsedFirst(ns) /\ NamesDiffer(ns)
  /\ EntriesApart(ns) /\ MountsApart(ns) /\ KindsApart(ns) /\ Reached(ns)

(* node can become entry i of directory d. *)
Fits(ns, d, i, node) ==
  /\ Empty(node) /\ d \in 1 .. Len(ns) /\ i \in DOMAIN ns[d].entry
  /\ ns[d].entry[i] = NULL /\ \A j \in 0 .. i - 1 : ns[d].entry[j] # NULL
  /\ \A j \in DOMAIN ns[d].entry :
       ns[d].entry[j] # NULL => ns[ns[d].entry[j]].name # node.name

LEMMA ExactInserted ==
  ASSUME NEW ns, Exact(ns), NEW d, NEW i, NEW node, Fits(ns, d, i, node)
  PROVE  Exact(Insert(ns, d, i, node))
<1>1. Tables(Insert(ns, d, i, node))
  BY TablesInserted DEF Exact, Fits
<1>2. InsertedIn(Insert(ns, d, i, node), ns, d, i, node)
  BY InsertIs DEF Exact, Fits, Tables, Empty
<1>. SUFFICES ASSUME NEW r, Tables(r), InsertedIn(r, ns, d, i, node)
              PROVE  Exact(r)
  BY <1>1, <1>2
<1>3. Len(ns) \in Nat /\ Len(ns) > 0 /\ d \in 1 .. Len(ns)
  BY DEF Exact, Tables, Fits
<1>. SUFFICES ASSUME NEW N \in Nat, N = Len(ns), NEW L \in Nat, L = N + 1
              PROVE  Exact(r)
  BY <1>3
<1>4. ns \in Seq(Vnodes) /\ Len(r) = L /\ r \in Seq(Vnodes)
  BY DEF Exact, Tables, InsertedIn
<1>5. ASSUME NEW n \in 1 .. N
      PROVE  /\ DOMAIN r[n].entry = DOMAIN ns[n].entry
             /\ \A j \in DOMAIN ns[n].entry :
                  r[n].entry[j] = IF n = d /\ j = i THEN L ELSE ns[n].entry[j]
             /\ r[n].mount = ns[n].mount /\ r[n].name = ns[n].name
             /\ ns[n].mount \in 0 .. N
             /\ \A j \in DOMAIN ns[n].entry : ns[n].entry[j] \in 0 .. N
  <2>1. CASE n = d
    BY <1>3, <2>1 DEF InsertedIn, Alike, Exact, Tables, NULL
  <2>2. CASE n # d
    BY <1>3, <2>2 DEF InsertedIn, Alike, Exact, Tables, NULL
  <2>. QED  BY <2>1, <2>2
<1>6. /\ r[L].name = node.name /\ r[L].mount = NULL
      /\ \A j \in DOMAIN r[L].entry : r[L].entry[j] = NULL
  BY NothingIn DEF InsertedIn, Fits, Empty
<1>7. \A n \in 1 .. L : n \in 1 .. N \/ n = L
  OBVIOUS
<1>8. UsedFirst(r)
  <2>. SUFFICES ASSUME NEW e \in 1 .. L, NEW k \in DOMAIN r[e].entry, r[e].entry[k] # NULL,
                       NEW j \in 0 .. k
                PROVE  r[e].entry[j] # NULL
    BY <1>4 DEF UsedFirst
  <2>1. e \in 1 .. N
    BY <1>6, <1>7
  <2>2. j \in DOMAIN ns[e].entry /\ k \in DOMAIN ns[e].entry /\ k \in Nat
    <3>1. k \in DOMAIN ns[e].entry
      BY <1>5, <2>1
    <3>2. PICK m \in Nat : DOMAIN ns[e].entry = 0 .. m - 1
      BY <1>4, <2>1, VnodeIs
    <3>. QED  BY <3>1, <3>2
  <2>3. CASE e = d /\ k = i
    <3>. j = i \/ j \in 0 .. i - 1
      BY <2>2, <2>3
    <3>. QED  BY <1>5, <2>1, <2>2, <2>3 DEF Fits, NULL
  <2>4. CASE ~(e = d /\ k = i)
    <3>1. ns[e].entry[k] # NULL
      BY <1>5, <2>1, <2>2, <2>4
    <3>2. ns[e].entry[j] # NULL
      BY <2>1, <2>2, <3>1 DEF Exact, UsedFirst
    <3>3. r[e].entry[j] = ns[e].entry[j] \/ r[e].entry[j] = L
      BY <1>5, <2>1, <2>2
    <3>. QED  BY <3>2, <3>3 DEF NULL
  <2>. QED  BY <2>3, <2>4
<1>9. NamesDiffer(r)
  <2>. SUFFICES ASSUME NEW e \in 1 .. L, NEW j \in DOMAIN r[e].entry, NEW k \in DOMAIN r[e].entry,
                       r[e].entry[j] # NULL, r[e].entry[k] # NULL, j # k
                PROVE  r[r[e].entry[j]].name # r[r[e].entry[k]].name
    BY <1>4 DEF NamesDiffer
  <2>1. e \in 1 .. N
    BY <1>6, <1>7
  <2>2. j \in DOMAIN ns[e].entry /\ k \in DOMAIN ns[e].entry
    BY <1>5, <2>1
  <2>3. ASSUME NEW m \in DOMAIN ns[e].entry, r[e].entry[m] # NULL, ~(e = d /\ m = i)
        PROVE  /\ ns[e].entry[m] # NULL /\ r[r[e].entry[m]].name = ns[ns[e].entry[m]].name
    <3>1. r[e].entry[m] = ns[e].entry[m]
      BY <1>5, <2>1, <2>3
    <3>2. ns[e].entry[m] \in 1 .. N
      BY <1>5, <2>1, <2>3, <3>1 DEF NULL
    <3>. QED  BY <1>5, <2>3, <3>1, <3>2
  <2>4. CASE e = d /\ j = i
    <3>1. r[r[e].entry[j]].name = node.name
      BY <1>5, <1>6, <2>1, <2>2, <2>4
    <3>. QED  BY <2>2, <2>3, <2>4, <3>1 DEF Fits
  <2>5. CASE e = d /\ k = i
    <3>1. r[r[e].entry[k]].name = node.name
      BY <1>5, <1>6, <2>1, <2>2, <2>5
    <3>. QED  BY <2>2, <2>3, <2>5, <3>1 DEF Fits
  <2>6. CASE ~(e = d /\ j = i) /\ ~(e = d /\ k = i)
    BY <2>1, <2>2, <2>3, <2>6 DEF Exact, NamesDiffer
  <2>. QED  BY <2>4, <2>5, <2>6
<1>10. EntriesApart(r)
  <2>. SUFFICES ASSUME NEW e \in 1 .. L, NEW f \in 1 .. L, NEW j \in DOMAIN r[e].entry,
                       NEW k \in DOMAIN r[f].entry, r[e].entry[j] # NULL, r[e].entry[j] = r[f].entry[k]
                PROVE  e = f /\ j = k
    BY <1>4 DEF EntriesApart
  <2>1. e \in 1 .. N /\ f \in 1 .. N
    BY <1>6, <1>7
  <2>2. j \in DOMAIN ns[e].entry /\ k \in DOMAIN ns[f].entry
    BY <1>5, <2>1
  <2>3. CASE ns[e].entry[j] = r[e].entry[j] /\ ns[f].entry[k] = r[f].entry[k]
    BY <2>1, <2>2, <2>3 DEF Exact, EntriesApart
  <2>4. CASE ~(ns[e].entry[j] = r[e].entry[j] /\ ns[f].entry[k] = r[f].entry[k])
    BY <1>5, <2>1, <2>2, <2>4
  <2>. QED  BY <2>3, <2>4
<1>11. MountsApart(r)
  BY <1>4, <1>5, <1>6, <1>7 DEF Exact, MountsApart
<1>12. KindsApart(r)
  <2>. SUFFICES ASSUME NEW e \in 1 .. L, NEW f \in 1 .. L, NEW j \in DOMAIN r[e].entry,
                       r[e].entry[j] # NULL, r[e].entry[j] = r[f].mount
                PROVE  FALSE
    BY <1>4 DEF KindsApart
  <2>1. e \in 1 .. N /\ f \in 1 .. N
    BY <1>6, <1>7
  <2>2. j \in DOMAIN ns[e].entry /\ r[f].mount = ns[f].mount /\ ns[f].mount \in 0 .. N
    BY <1>5, <2>1
  <2>3. r[e].entry[j] = ns[e].entry[j]
    BY <1>5, <2>1, <2>2
  <2>. QED  BY <2>1, <2>2, <2>3 DEF Exact, KindsApart
<1>13. Reached(r)
  <2>. SUFFICES ASSUME NEW n \in 2 .. L
                PROVE  EntryOf(r, n) \/ MountOf(r, n)
    BY <1>4 DEF Reached
  <2>1. CASE n = L
    BY <1>3, <1>4, <1>5, <2>1 DEF Fits, EntryOf
  <2>2. CASE n # L /\ EntryOf(ns, n)
    <3>1. PICK e \in 1 .. N : \E j \in DOMAIN ns[e].entry : ns[e].entry[j] = n
      BY <2>2 DEF EntryOf
    <3>2. PICK j \in DOMAIN ns[e].entry : ns[e].entry[j] = n
      BY <3>1
    <3>3. ~(e = d /\ j = i)
      BY <3>2 DEF Fits, NULL
    <3>. QED  BY <1>4, <1>5, <3>2, <3>3 DEF EntryOf
  <2>3. CASE n # L /\ MountOf(ns, n)
    BY <1>4, <1>5, <2>3 DEF MountOf
  <2>4. n # L => n \in 2 .. N
    OBVIOUS
  <2>. QED  BY <2>1, <2>2, <2>3, <2>4 DEF Exact, Reached
<1>. QED  BY <1>8, <1>9, <1>10, <1>11, <1>12, <1>13 DEF Exact

LEMMA ExactMounted ==
  ASSUME NEW ns, Exact(ns), NEW d \in 1 .. Len(ns), ns[d].mount = NULL,
         NEW fs \in {"tmpfs", "initramfs"}
  PROVE  Exact(Mounted(ns, d, fs))
<1>0. Tables(ns) /\ ns \in Seq(Vnodes)
  BY DEF Exact, Tables
<1>1. Tables(Mounted(ns, d, fs)) /\ MountedIn(Mounted(ns, d, fs), ns, d, fs)
  <2>1. Tables(Mounted(ns, d, fs))
    BY <1>0, TablesMounted
  <2>2. MountedIn(Mounted(ns, d, fs), ns, d, fs)
    BY <1>0, MountIs
  <2>. QED  BY <2>1, <2>2
<1>. SUFFICES ASSUME NEW r, Tables(r), MountedIn(r, ns, d, fs)
              PROVE  Exact(r)
  BY <1>1
<1>2. ns \in Seq(Vnodes) /\ Len(ns) \in Nat /\ Len(ns) > 0 /\ More(fs) \in Nat
  BY Numbers DEF Exact, Tables, More
<1>. SUFFICES ASSUME NEW N \in Nat, N = Len(ns), NEW root \in Nat, root = N + 1,
                     NEW more \in Nat, more = More(fs), NEW L \in Nat, L = root + more
              PROVE  Exact(r)
  BY <1>2
<1>3. r \in Seq(Vnodes) /\ Len(r) = L
  BY DEF MountedIn
<1>4. ASSUME NEW n \in 1 .. N
      PROVE  /\ r[n].entry = ns[n].entry /\ r[n].name = ns[n].name
             /\ r[n].mount = IF n = d THEN root ELSE ns[n].mount
             /\ ns[n].mount \in 0 .. N
             /\ \A j \in DOMAIN ns[n].entry : ns[n].entry[j] \in 0 .. N
  BY DEF MountedIn, Alike, Exact, Tables, NULL
<1>5. r[root].mount = NULL
  BY DEF MountedIn
<1>6. ASSUME NEW k \in 1 .. more
      PROVE  /\ r[root + k].mount = NULL /\ r[root + k].entry = NoEntries
             /\ r[root + k].name = Archive[k] /\ k \in DOMAIN Archive
  <2>1. r[root + k] = Vnode("initramfs", "file", Archive[k], 1)
    BY DEF MountedIn
  <2>2. fs = "initramfs" /\ more = Len(Archive)
    BY DEF More
  <2>. QED  BY <2>1, <2>2, Numbers, VfsAssumption DEF Vnode
<1>7. ASSUME NEW j \in DOMAIN r[root].entry
      PROVE  \/ r[root].entry[j] = NULL
             \/ j + 1 \in 1 .. more /\ j \in 0 .. more - 1 /\ r[root].entry[j] = root + (j + 1)
  <2>1. CASE fs = "tmpfs"
    BY <2>1, NothingIn DEF MountedIn
  <2>2. CASE fs = "initramfs"
    <3>1. more = Len(Archive)
      BY <2>2 DEF More
    <3>2. j \in 0 .. Len(Archive) - 1 /\ r[root].entry[j] = Len(ns) + 1 + 1 + j
      BY <2>2 DEF MountedIn
    <3>. QED  BY <3>1, <3>2
  <2>. QED  BY <2>1, <2>2
<1>8. ASSUME NEW n \in 1 .. L
      PROVE  n \in 1 .. N \/ n = root \/ (n - root \in 1 .. more /\ n = root + (n - root))
  OBVIOUS
<1>9. ASSUME NEW n \in 1 .. L, NEW j \in DOMAIN r[n].entry, r[n].entry[j] # NULL
      PROVE  n \in 1 .. N \/ n = root
  <2>1. CASE n - root \in 1 .. more /\ n = root + (n - root)
    <3>1. r[n].entry = NoEntries
      BY <1>6, <2>1
    <3>. QED  BY <1>9, <3>1, NothingIn
  <2>. QED  BY <1>8, <2>1
<1>10. ASSUME NEW n \in 1 .. L, n \notin 1 .. N
       PROVE  r[n].mount = NULL
  <2>1. CASE n = root
    BY <1>5, <2>1
  <2>2. CASE n - root \in 1 .. more /\ n = root + (n - root)
    BY <1>6, <2>2
  <2>. QED  BY <1>8, <1>10, <2>1, <2>2
<1>11. ASSUME NEW j \in DOMAIN r[root].entry, r[root].entry[j] # NULL
       PROVE  /\ j \in Nat /\ r[root].entry[j] = root + 1 + j
              /\ r[r[root].entry[j]].name = Archive[j + 1]
  <2>1. j + 1 \in 1 .. more /\ j \in 0 .. more - 1 /\ r[root].entry[j] = root + (j + 1)
    BY <1>7, <1>11
  <2>2. r[root + (j + 1)].name = Archive[j + 1]
    BY <1>6, <2>1
  <2>. QED  BY <2>1, <2>2
<1>12. UsedFirst(r)
  <2>. SUFFICES ASSUME NEW e \in 1 .. L, NEW k \in DOMAIN r[e].entry, r[e].entry[k] # NULL,
                       NEW j \in 0 .. k
                PROVE  r[e].entry[j] # NULL
    BY <1>3 DEF UsedFirst
  <2>1. CASE e \in 1 .. N
    <3>1. r[e].entry = ns[e].entry
      BY <1>4, <2>1
    <3>. QED  BY <2>1, <3>1 DEF Exact, UsedFirst
  <2>2. CASE e = root
    <3>2. fs = "initramfs" /\ k \in 0 .. Len(Archive) - 1
      <4>1. fs # "tmpfs"
        BY <2>2, NothingIn DEF MountedIn
      <4>. QED  BY <2>2, <4>1 DEF MountedIn
    <3>3. j \in 0 .. Len(Archive) - 1
      <4>1. Len(Archive) \in Nat
        BY Numbers
      <4>. QED  BY <3>2, <4>1, Below
    <3>4. r[root].entry[j] = Len(ns) + 1 + 1 + j
      BY <3>2, <3>3 DEF MountedIn
    <3>. QED  BY <2>2, <3>3, <3>4 DEF NULL
  <2>. QED  BY <1>9, <2>1, <2>2
<1>13. NamesDiffer(r)
  <2>. SUFFICES ASSUME NEW e \in 1 .. L, NEW j \in DOMAIN r[e].entry, NEW k \in DOMAIN r[e].entry,
                       r[e].entry[j] # NULL, r[e].entry[k] # NULL, j # k
                PROVE  r[r[e].entry[j]].name # r[r[e].entry[k]].name
    BY <1>3 DEF NamesDiffer
  <2>1. CASE e \in 1 .. N
    <3>1. j \in DOMAIN ns[e].entry /\ k \in DOMAIN ns[e].entry /\ r[e].entry = ns[e].entry
      BY <1>4, <2>1
    <3>2. ns[e].entry[j] \in 1 .. N /\ ns[e].entry[k] \in 1 .. N
      <4>1. ns[e].entry[j] \in 0 .. N /\ ns[e].entry[k] \in 0 .. N
        BY <1>4, <2>1, <3>1
      <4>2. ns[e].entry[j] # 0 /\ ns[e].entry[k] # 0
        BY <3>1 DEF NULL
      <4>. QED  BY <4>1, <4>2, WithinTheBound
    <3>3. /\ r[r[e].entry[j]].name = ns[ns[e].entry[j]].name
          /\ r[r[e].entry[k]].name = ns[ns[e].entry[k]].name
      BY <1>4, <3>1, <3>2
    <3>. QED  BY <2>1, <3>1, <3>3 DEF Exact, NamesDiffer
  <2>2. CASE e = root
    <3>1. j + 1 \in 1 .. more /\ k + 1 \in 1 .. more /\ j + 1 # k + 1
      <4>1. j + 1 \in 1 .. more /\ j \in 0 .. more - 1
        BY <1>7, <2>2
      <4>2. k + 1 \in 1 .. more /\ k \in 0 .. more - 1
        BY <1>7, <2>2
      <4>3. more \in Nat
        BY <1>6, Numbers
      <4>4. j + 1 # k + 1
        BY <4>1, <4>2, <4>3, ShiftedApart
      <4>. QED  BY <4>1, <4>2, <4>4
    <3>2. j + 1 \in DOMAIN Archive /\ k + 1 \in DOMAIN Archive
      BY <1>6, <3>1
    <3>3. /\ r[r[e].entry[j]].name = Archive[j + 1]
          /\ r[r[e].entry[k]].name = Archive[k + 1]
      BY <1>11, <2>2
    <3>. QED  BY <3>1, <3>2, <3>3, VfsAssumption
  <2>. QED  BY <1>9, <2>1, <2>2
<1>14. EntriesApart(r)
  <2>. SUFFICES ASSUME NEW e \in 1 .. L, NEW f \in 1 .. L, NEW j \in DOMAIN r[e].entry,
                       NEW k \in DOMAIN r[f].entry, r[e].entry[j] # NULL, r[e].entry[j] = r[f].entry[k]
                PROVE  e = f /\ j = k
    BY <1>3 DEF EntriesApart
  <2>1. (e \in 1 .. N \/ e = root) /\ (f \in 1 .. N \/ f = root)
    BY <1>9
  <2>2. ASSUME NEW n \in 1 .. N, NEW m \in DOMAIN r[n].entry
        PROVE  m \in DOMAIN ns[n].entry /\ r[n].entry[m] = ns[n].entry[m] /\ r[n].entry[m] < root
    <3>1. r[n].entry = ns[n].entry /\ \A x \in DOMAIN ns[n].entry : ns[n].entry[x] \in 0 .. N
      BY <1>4
    <3>2. m \in DOMAIN ns[n].entry /\ r[n].entry[m] = ns[n].entry[m] /\ ns[n].entry[m] \in 0 .. N
      BY <3>1
    <3>. QED  BY <3>2
  <2>3. CASE e \in 1 .. N /\ f \in 1 .. N
    <3>1. /\ j \in DOMAIN ns[e].entry /\ r[e].entry[j] = ns[e].entry[j]
          /\ k \in DOMAIN ns[f].entry /\ r[f].entry[k] = ns[f].entry[k]
      BY <2>2, <2>3
    <3>2. ns[e].entry[j] # NULL /\ ns[e].entry[j] = ns[f].entry[k]
      BY <3>1
    <3>3. EntriesApart(ns) /\ e \in 1 .. Len(ns) /\ f \in 1 .. Len(ns)
      BY <2>3 DEF Exact
    <3>. QED  BY <3>1, <3>2, <3>3 DEF EntriesApart
  <2>4. CASE e = root /\ f = root
    <3>1. j \in Nat /\ k \in Nat /\ root + 1 + j = root + 1 + k
      <4>1. j \in Nat /\ r[e].entry[j] = root + 1 + j
        BY <1>11, <2>4
      <4>2. k \in Nat /\ r[f].entry[k] = root + 1 + k
        BY <1>11, <2>4
      <4>. QED  BY <4>1, <4>2
    <3>. QED  BY <2>4, <3>1
  <2>5. CASE e # f /\ (e = root \/ f = root)
    <3>1. CASE e \in 1 .. N /\ f = root
      <4>1. r[e].entry[j] < root
        BY <2>2, <3>1
      <4>2. k \in Nat /\ r[e].entry[j] = root + 1 + k
        BY <1>11, <3>1
      <4>. QED  BY <4>1, <4>2
    <3>2. CASE e = root /\ f \in 1 .. N
      <4>1. r[f].entry[k] < root
        BY <2>2, <3>2
      <4>2. j \in Nat /\ r[f].entry[k] = root + 1 + j
        BY <1>11, <3>2
      <4>. QED  BY <4>1, <4>2
    <3>. QED  BY <2>1, <2>5, <3>1, <3>2
  <2>. QED  BY <2>1, <2>2, <2>3, <2>4, <2>5
<1>15. MountsApart(r)
  <2>. SUFFICES ASSUME NEW e \in 1 .. L, NEW f \in 1 .. L, r[e].mount # NULL, r[e].mount = r[f].mount
                PROVE  e = f
    BY <1>3 DEF MountsApart
  <2>1. e \in 1 .. N /\ f \in 1 .. N
    BY <1>10
  <2>2. CASE e # d /\ f # d
    BY <1>4, <2>1, <2>2 DEF Exact, MountsApart
  <2>3. CASE e = d \/ f = d
    <3>1. ASSUME NEW n \in 1 .. N, n # d
          PROVE  r[n].mount # root
      BY <1>4, <3>1
    <3>2. r[d].mount = root
      BY <1>4
    <3>. QED  BY <2>1, <2>3, <3>1, <3>2
  <2>. QED  BY <2>2, <2>3
<1>16. KindsApart(r)
  <2>. SUFFICES ASSUME NEW e \in 1 .. L, NEW f \in 1 .. L, NEW j \in DOMAIN r[e].entry,
                       r[e].entry[j] # NULL, r[e].entry[j] = r[f].mount
                PROVE  FALSE
    BY <1>3 DEF KindsApart
  <2>1. f \in 1 .. N
    BY <1>10
  <2>2. r[f].mount \in 0 .. root
    <3>1. r[f].mount = root \/ r[f].mount \in 0 .. N
      BY <1>4, <2>1
    <3>. QED  BY <3>1
  <2>3. CASE e \in 1 .. N /\ f # d
    <3>1. r[e].entry = ns[e].entry
      BY <1>4, <2>3
    <3>2. r[f].mount = ns[f].mount
      BY <1>4, <2>1, <2>3
    <3>3. ns[e].entry[j] # NULL /\ ns[e].entry[j] = ns[f].mount /\ j \in DOMAIN ns[e].entry
      BY <3>1, <3>2
    <3>4. KindsApart(ns)
      BY DEF Exact
    <3>. QED  BY <2>1, <2>3, <3>3, <3>4 DEF KindsApart
  <2>4. CASE e \in 1 .. N /\ f = d
    BY <1>4, <2>4
  <2>5. CASE e = root
    <3>1. j \in Nat /\ r[e].entry[j] = root + 1 + j
      BY <1>11, <2>5
    <3>2. root \in Nat
      BY <1>6, Numbers
    <3>3. root + 1 + j # r[f].mount
      BY <2>2, <3>1, <3>2, PastTheBound
    <3>. QED  BY <3>1, <3>3
  <2>. QED  BY <1>9, <2>3, <2>4, <2>5
<1>17. Reached(r)
  <2>. SUFFICES ASSUME NEW n \in 2 .. L
                PROVE  EntryOf(r, n) \/ MountOf(r, n)
    BY <1>3 DEF Reached
  <2>0. \A e \in 1 .. N : e \in 1 .. L
    OBVIOUS
  <2>1. CASE n \in 1 .. N /\ EntryOf(ns, n)
    BY <1>3, <1>4, <2>0, <2>1 DEF EntryOf
  <2>2. CASE n \in 1 .. N /\ MountOf(ns, n)
    <3>1. PICK e \in 1 .. N : ns[e].mount = n
      BY <2>2 DEF MountOf
    <3>2. e # d
      BY <2>2, <3>1 DEF NULL
    <3>. QED  BY <1>3, <1>4, <2>0, <3>1, <3>2 DEF MountOf
  <2>3. CASE n = root
    <3>1. d \in 1 .. N /\ r[d].mount = root
      BY <1>4
    <3>. QED  BY <1>3, <2>0, <2>3, <3>1 DEF MountOf
  <2>4. CASE n - root \in 1 .. more /\ n = root + (n - root)
    <3>1. fs = "initramfs" /\ more = Len(Archive)
      BY <2>4 DEF More
    <3>. DEFINE j == n - root - 1
    <3>2. j \in 0 .. Len(Archive) - 1 /\ root + 1 + j = n
      BY <2>4, <3>1
    <3>3. j \in DOMAIN r[root].entry /\ r[root].entry[j] = root + 1 + j
      BY <3>1, <3>2 DEF MountedIn
    <3>4. root \in 1 .. L
      OBVIOUS
    <3>. QED  BY <1>3, <3>2, <3>3, <3>4 DEF EntryOf
  <2>. QED  BY <1>8, <2>1, <2>2, <2>3, <2>4 DEF Exact, Reached
<1>. QED  BY <1>12, <1>13, <1>14, <1>15, <1>16, <1>17 DEF Exact

LEMMA ExactSized ==
  ASSUME NEW ns, Exact(ns), NEW k, NEW x \in Nat, NEW r, SizedIn(r, ns, k, x)
  PROVE  Exact(r)
<1>1. Tables(r)
  BY TablesSized DEF Exact
<1>2. /\ Len(r) = Len(ns) /\ Len(ns) \in Nat
      /\ \A n \in 1 .. Len(ns) : /\ r[n].entry = ns[n].entry /\ r[n].mount = ns[n].mount
                                 /\ r[n].name = ns[n].name
  BY DEF SizedIn, Exact, Tables
<1>3. UsedFirst(r)
  BY <1>2 DEF Exact, UsedFirst
<1>4. NamesDiffer(r)
  <2>. SUFFICES ASSUME NEW e \in 1 .. Len(ns), NEW i \in DOMAIN ns[e].entry, NEW j \in DOMAIN ns[e].entry,
                       ns[e].entry[i] # NULL, ns[e].entry[j] # NULL, i # j
                PROVE  r[ns[e].entry[i]].name # r[ns[e].entry[j]].name
    BY <1>2 DEF NamesDiffer
  <2>1. ns[e].entry[i] \in 1 .. Len(ns) /\ ns[e].entry[j] \in 1 .. Len(ns)
    BY <1>2 DEF Exact, Tables, NULL
  <2>. QED  BY <1>2, <2>1 DEF Exact, NamesDiffer
<1>5. EntriesApart(r)
  BY <1>2 DEF Exact, EntriesApart
<1>6. MountsApart(r)
  BY <1>2 DEF Exact, MountsApart
<1>7. KindsApart(r)
  BY <1>2 DEF Exact, KindsApart
<1>8. Reached(r)
  <2>. SUFFICES ASSUME NEW n \in 2 .. Len(ns)
                PROVE  EntryOf(r, n) \/ MountOf(r, n)
    BY <1>2 DEF Reached
  <2>1. CASE EntryOf(ns, n)
    BY <1>2, <2>1 DEF EntryOf
  <2>2. CASE MountOf(ns, n)
    BY <1>2, <2>2 DEF MountOf
  <2>. QED  BY <2>1, <2>2 DEF Exact, Reached
<1>. QED  BY <1>1, <1>3, <1>4, <1>5, <1>6, <1>7, <1>8 DEF Exact

-----------------------------------------------------------------------------
(* What a lookup that failed says about a new entry. *)

LEMMA FreeEntryIs ==
  ASSUME NEW ns, NEW d, \E i \in Entries : ns[d].entry[i] = NULL
  PROVE  /\ FreeEntry(ns, d) \in Entries /\ ns[d].entry[FreeEntry(ns, d)] = NULL
         /\ \A j \in 0 .. FreeEntry(ns, d) - 1 : ns[d].entry[j] # NULL
<1>. DEFINE S == {i \in Entries : ns[d].entry[i] = NULL}
<1>1. S \in SUBSET Nat /\ S # {} /\ \A i \in S : \A j \in 0 .. i - 1 : j \in Entries
  BY Numbers
<1>2. PICK i \in S : \A j \in 0 .. i - 1 : j \notin S
  <2>. HIDE DEF S
  <2>. QED  BY <1>1, FirstOf
<1>3. i \in Entries /\ ns[d].entry[i] = NULL /\ \A j \in 0 .. i - 1 : ns[d].entry[j] # NULL
  BY <1>1, <1>2
<1>. QED  BY <1>3 DEF FreeEntry

LEMMA NoChild ==
  ASSUME NEW ns, Tables(ns), UsedFirst(ns), NEW d \in 1 .. Len(ns), NEW name,
         Child(ns, d, name) = NULL
  PROVE  \A i \in DOMAIN ns[d].entry : ns[d].entry[i] # NULL => ns[ns[d].entry[i]].name # name
<1>. DEFINE used  == {i \in DOMAIN ns[d].entry : \A j \in 0 .. i : ns[d].entry[j] # NULL}
            found == {i \in used : ns[ns[d].entry[i]].name = name}
<1>1. found \in SUBSET Nat /\ found \in SUBSET used
  <2>. DOMAIN ns[d].entry \in SUBSET Nat
    BY VnodeIs DEF Tables
  <2>. QED  OBVIOUS
<1>2. CASE found # {}
  <2>1. \E i \in found : \A j \in found : i <= j
    <3>. HIDE DEF found
    <3>. QED  BY <1>1, <1>2, SmallestNumber
  <2>2. PICK i \in found : Child(ns, d, name) = ns[d].entry[i]
    BY <1>2, <2>1 DEF Child
  <2>3. i \in Nat /\ \A j \in 0 .. i : ns[d].entry[j] # NULL
    BY <1>1, <2>2
  <2>4. ns[d].entry[i] # NULL
    BY <2>3
  <2>. QED  BY <2>2, <2>4
<1>3. CASE found = {}
  BY <1>3 DEF UsedFirst
<1>. QED  BY <1>2, <1>3

(* A new entry in the directory that the tests passed. *)
LEMMA FitsCreated ==
  ASSUME NEW ns, Exact(ns), NEW d \in 1 .. Len(ns), NEW name, Creatable(ns, d, name),
         NEW node, Empty(node), node.name = name
  PROVE  Fits(ns, d, FreeEntry(ns, d), node)
<1>1. Child(ns, d, name) = NULL /\ DOMAIN ns[d].entry = Entries
  BY DEF Creatable, Exact, Tables
<1>2. \A i \in DOMAIN ns[d].entry : ns[d].entry[i] # NULL => ns[ns[d].entry[i]].name # name
  BY <1>1, NoChild DEF Exact
<1>3. /\ FreeEntry(ns, d) \in Entries /\ ns[d].entry[FreeEntry(ns, d)] = NULL
      /\ \A j \in 0 .. FreeEntry(ns, d) - 1 : ns[d].entry[j] # NULL
  BY FreeEntryIs DEF Creatable
<1>. QED  BY <1>1, <1>2, <1>3 DEF Fits

-----------------------------------------------------------------------------
(* init_rootfs. *)

LEMMA NewDir ==
  ASSUME NEW name \in Names, NEW type \in {"dir", "file"}
  PROVE  /\ Empty(Vnode("tmpfs", type, name, 0)) /\ Vnode("tmpfs", type, name, 0).name = name
         /\ Empty([Vnode("tmpfs", type, name, 0) EXCEPT !.device = TRUE])
         /\ [Vnode("tmpfs", type, name, 0) EXCEPT !.device = TRUE].name = name
<1>. DEFINE v == Vnode("tmpfs", type, name, 0)
<1>1. v \in Vnodes
  BY NewVnode
<1>2. v.mount = NULL /\ v.entry = NoEntries /\ v.name = name
  BY DEF Vnode
<1>. HIDE DEF v
<1>3. /\ [v EXCEPT !.device = TRUE] \in Vnodes /\ [v EXCEPT !.device = TRUE].mount = NULL
      /\ [v EXCEPT !.device = TRUE].entry = NoEntries /\ [v EXCEPT !.device = TRUE].name = name
  BY <1>1, <1>2 DEF Vnodes
<1>. QED  BY <1>1, <1>2, <1>3 DEF Empty, v

LEMMA FitsFirst ==
  ASSUME NEW ns, NEW d \in 1 .. Len(ns), ns[d].entry = NoEntries, NEW node, Empty(node)
  PROVE  Fits(ns, d, 0, node)
<1>1. 0 \in Entries /\ \A j \in 0 .. 0 - 1 : FALSE
  BY Numbers
<1>2. DOMAIN ns[d].entry = Entries /\ \A j \in Entries : ns[d].entry[j] = NULL
  BY NothingIn
<1>. QED  BY <1>1, <1>2 DEF Fits

LEMMA FitsSecond ==
  ASSUME NEW ns, NEW d \in 1 .. Len(ns), DOMAIN ns[d].entry = Entries,
         ns[d].entry[0] # NULL, \A j \in Entries : j # 0 => ns[d].entry[j] = NULL,
         NEW node, Empty(node), ns[ns[d].entry[0]].name # node.name
  PROVE  Fits(ns, d, 1, node)
<1>1. 0 \in Entries /\ 1 \in Entries /\ \A j \in 0 .. 1 - 1 : j = 0
  BY Numbers
<1>2. ns[d].entry[1] = NULL /\ \A j \in 0 .. 1 - 1 : ns[d].entry[j] # NULL
  BY <1>1
<1>3. \A j \in Entries : ns[d].entry[j] # NULL => j = 0
  OBVIOUS
<1>. QED  BY <1>1, <1>2, <1>3 DEF Fits

LEMMA OneRoot ==
  ASSUME NEW v, Empty(v)
  PROVE  Exact(<<v>>)
<1>. SUFFICES ASSUME NEW ns, ns = <<v>>
              PROVE  Exact(ns)
  OBVIOUS
<1>1. ns \in Seq(Vnodes) /\ Len(ns) = 1 /\ ns[1] = v
  BY DEF Empty
<1>2. v.mount = NULL /\ DOMAIN v.entry = Entries /\ \A i \in Entries : v.entry[i] = NULL
  BY NothingIn DEF Empty
<1>3. \A d \in 1 .. Len(ns) : d = 1
  BY <1>1
<1>4. Tables(ns)
  BY <1>1, <1>2, <1>3 DEF Tables, NULL
<1>5. UsedFirst(ns) /\ NamesDiffer(ns) /\ EntriesApart(ns) /\ KindsApart(ns) /\ MountsApart(ns)
  BY <1>1, <1>2, <1>3 DEF UsedFirst, NamesDiffer, EntriesApart, KindsApart, MountsApart
<1>6. Reached(ns)
  BY <1>1 DEF Reached
<1>. QED  BY <1>4, <1>5, <1>6 DEF Exact

(* The first tree is exact. *)
LEMMA RootExact ==
  Exact(RootTree)
<1>. DEFINE top  == Vnode("tmpfs", "dir", NoName, 0)
            v1   == Vnode("tmpfs", "dir", "initramfs", 0)
            v2   == Vnode("tmpfs", "dir", "dev", 0)
            v3   == [Vnode("tmpfs", "file", "uart", 0) EXCEPT !.device = TRUE]
            v4   == [Vnode("tmpfs", "file", "framebuffer", 0) EXCEPT !.device = TRUE]
            root == <<top>>
            ram  == Insert(root, 1, 0, v1)
            ram2 == Mounted(ram, 2, "initramfs")
            dev  == Len(ram2) + 1
            dirs == Insert(ram2, 1, 1, v2)
            uart == Insert(dirs, dev, 0, v3)
            all  == Insert(uart, dev, 1, v4)
<1>1. RootTree = all
  BY DEF RootTree
<1>2. Empty(top)
  <2>. NoName \in Names
    BY DEF Names
  <2>. QED  BY NewDir
<1>3. Empty(v1) /\ v1.name = "initramfs"
  <2>. "initramfs" \in Names
    BY DEF Names
  <2>. QED  BY NewDir
<1>4. Empty(v2) /\ v2.name = "dev"
  <2>. "dev" \in Names
    BY DEF Names
  <2>. QED  BY NewDir
<1>5. Empty(v3) /\ v3.name = "uart"
  <2>. "uart" \in Names
    BY DEF Names
  <2>. QED  BY NewDir
<1>6. Empty(v4) /\ v4.name = "framebuffer"
  <2>. "framebuffer" \in Names
    BY DEF Names
  <2>. QED  BY NewDir
<1>. HIDE DEF top, v1, v2, v3, v4
<1>7. Exact(root)
  BY <1>2, OneRoot
<1>8. Len(root) = 1 /\ 1 \in 1 .. Len(root) /\ root[1].entry = NoEntries
  BY <1>2 DEF Empty
<1>. HIDE DEF root
<1>9. Fits(root, 1, 0, v1)
  BY <1>3, <1>8, FitsFirst
<1>10. Exact(ram) /\ InsertedIn(ram, root, 1, 0, v1)
  <2>1. Exact(ram)
    BY <1>7, <1>9, ExactInserted
  <2>2. root \in Seq(Vnodes) /\ v1 \in Vnodes
    BY <1>3, <1>7 DEF Exact, Tables, Empty
  <2>. QED  BY <1>8, <2>1, <2>2, InsertIs
<1>. HIDE DEF ram
<1>11. /\ Len(ram) = 2 /\ ram[2] = v1 /\ DOMAIN ram[1].entry = Entries
       /\ ram[1].entry[0] = 2 /\ \A j \in Entries : j # 0 => ram[1].entry[j] = NULL
  BY <1>8, <1>10, NothingIn, Numbers DEF InsertedIn
<1>12. 2 \in 1 .. Len(ram) /\ ram[2].mount = NULL
  BY <1>3, <1>11 DEF Empty
<1>13. Exact(ram2) /\ MountedIn(ram2, ram, 2, "initramfs")
  BY <1>10, <1>12, ExactMounted, MountIs DEF Exact, Tables
<1>. HIDE DEF ram2
<1>14. /\ Len(ram2) \in Nat /\ 1 \in 1 .. Len(ram2) /\ ram2 \in Seq(Vnodes)
       /\ ram2[1].entry = ram[1].entry /\ ram2[2].name = "initramfs"
  BY <1>3, <1>11, <1>13 DEF MountedIn, Alike, Exact, Tables
<1>15. Fits(ram2, 1, 1, v2)
  BY <1>4, <1>11, <1>14, FitsSecond DEF NULL
<1>16. Exact(dirs) /\ InsertedIn(dirs, ram2, 1, 1, v2)
  BY <1>4, <1>13, <1>14, <1>15, ExactInserted, InsertIs DEF Empty
<1>. HIDE DEF dirs
<1>17. dev \in 1 .. Len(dirs) /\ dirs[dev].entry = NoEntries
  BY <1>4, <1>14, <1>16 DEF InsertedIn, Empty
<1>. HIDE DEF dev
<1>18. Fits(dirs, dev, 0, v3)
  BY <1>5, <1>17, FitsFirst
<1>19. Exact(uart) /\ InsertedIn(uart, dirs, dev, 0, v3)
  BY <1>5, <1>16, <1>17, <1>18, ExactInserted, InsertIs DEF Empty, Exact, Tables
<1>. HIDE DEF uart
<1>20. /\ dev \in 1 .. Len(uart) /\ DOMAIN uart[dev].entry = Entries
       /\ uart[dev].entry[0] = Len(dirs) + 1 /\ uart[Len(dirs) + 1] = v3
       /\ \A j \in Entries : j # 0 => uart[dev].entry[j] = NULL
  BY <1>17, <1>19, NothingIn, Numbers DEF InsertedIn
<1>21. Fits(uart, dev, 1, v4)
  <2>1. Len(dirs) + 1 # NULL
    BY <1>17 DEF NULL
  <2>. QED  BY <1>5, <1>6, <1>20, <2>1, FitsSecond
<1>. QED  BY <1>1, <1>19, <1>21, ExactInserted

-----------------------------------------------------------------------------
(* Struct files and descriptors. *)

Calls ==
  [pc : {"user"}] \cup [pc : {"create", "mkdir"}, dir : Nat, name : Names, idx : Entries]
    \cup [pc : {"open"}, file : Handles, vnode : Nat] \cup [pc : {"close"}, fd : Fds]
    \cup [pc : {"write"}, file : Handles]

FileTypes ==
  /\ files \in [Handles -> [vnode : Int, f_pos : Nat]]
  /\ \A h \in Handles : files[h].vnode \in -1 .. Len(nodes)
  /\ fd \in [Threads -> [Fds -> Handles \cup {NULL}]]
  /\ status \in [Threads -> {"FREE", "ACTIVE", "ZOMBIE"}]

CallTypes ==
  /\ call \in [Threads -> Calls]
  /\ \A t \in Threads : call[t].pc \in {"create", "mkdir"} =>
       call[t].dir \in 1 .. Len(nodes) /\ nodes[call[t].dir].fs = "tmpfs"
  /\ \A t \in Threads : call[t].pc = "open" => call[t].vnode \in 1 .. Len(nodes)

Live(t) == status[t] # "FREE"

(* The struct file that a thread that has not been reaped owns through a   *)
(* descriptor.                                                             *)
Has(t, i) == IF Live(t) /\ ~Closing(t, i) THEN fd[t][i] ELSE NULL

NoneFreed ==
  \A t \in Threads : \A i \in Fds : Has(t, i) # NULL => files[Has(t, i)].vnode # NULL

NoneShared ==
  \A t, u \in Threads : \A i, j \in Fds :
    Has(t, i) # NULL /\ Has(t, i) = Has(u, j) => t = u /\ i = j

NoneLost ==
  \A h \in Handles : files[h].vnode # NULL => \E t \in Threads : \E i \in Fds : Has(t, i) = h

(* The struct files that are not filled are those that open is about to    *)
(* fill.                                                                   *)
Opening(t) == status[t] = "ACTIVE" /\ call[t].pc = "open"

Filled ==
  /\ \A t \in Threads : Opening(t) =>
       files[call[t].file].vnode = RAW /\ \E i \in Fds : Has(t, i) = call[t].file
  /\ \A h \in Handles : files[h].vnode = RAW => \E t \in Threads : Opening(t) /\ call[t].file = h

Owned == NoneFreed /\ NoneShared /\ NoneLost /\ Filled

(* The descriptor that open found free is free when the file exists. *)
RoomLeft ==
  \A t \in Threads : status[t] = "ACTIVE" /\ call[t].pc = "create" =>
    \E i \in Fds : fd[t][i] = NULL

FdInv == Tables(nodes) /\ FileTypes /\ CallTypes /\ Owned /\ RoomLeft

LEMMA FreeFdIs ==
  ASSUME NEW t \in Threads, \E i \in Fds : fd[t][i] = NULL
  PROVE  FreeFd(t) \in Fds /\ fd[t][FreeFd(t)] = NULL
<1>. DEFINE S == {i \in Fds : fd[t][i] = NULL}
<1>1. S \in SUBSET Nat /\ S # {} /\ \A i \in S : \A j \in 0 .. i - 1 : j \in Fds
  BY Numbers
<1>2. PICK i \in S : \A j \in 0 .. i - 1 : j \notin S
  <2>. HIDE DEF S
  <2>. QED  BY <1>1, FirstOf
<1>3. i \in Fds /\ fd[t][i] = NULL /\ \A j \in 0 .. i - 1 : fd[t][j] # NULL
  BY <1>1, <1>2
<1>. QED  BY <1>3 DEF FreeFd

LEMMA FreeSlotIs ==
  ASSUME \E t \in Threads : status[t] = "FREE"
  PROVE  FreeSlot \in Threads /\ status[FreeSlot] = "FREE"
<1>. DEFINE S == {t \in Threads : status[t] = "FREE"}
<1>1. S \in SUBSET Nat /\ S # {} /\ \A t \in S : \A u \in 1 .. t - 1 : u \in Threads
  BY Numbers
<1>2. PICK t \in S : \A u \in 0 .. t - 1 : u \notin S
  <2>. HIDE DEF S
  <2>. QED  BY <1>1, FirstOf
<1>3. t \in Threads /\ status[t] = "FREE" /\ \A u \in 1 .. t - 1 : status[u] # "FREE"
  BY <1>1, <1>2
<1>. QED  BY <1>3 DEF FreeSlot

(* The vnodes stay, and new ones come after them. *)
Grows(ns, r) ==
  Len(ns) \in Nat /\ Len(r) \in Nat /\ Len(ns) <= Len(r)
    /\ \A n \in 1 .. Len(ns) : r[n].fs = ns[n].fs

LEMMA HasIs ==
  ASSUME FileTypes
  PROVE  \A t \in Threads : \A i \in Fds : Has(t, i) \in Handles \cup {NULL} /\ 0 \notin Handles
BY Numbers DEF FileTypes, Has

(* A thread outside the ends of open and close owns what its descriptors   *)
(* hold, and all of it is filled.                                          *)
LEMMA HasAll ==
  ASSUME FileTypes, Owned, NEW t \in Threads, Live(t), call[t].pc \notin {"open", "close"}
  PROVE  \A i \in Fds : /\ Has(t, i) = fd[t][i]
                        /\ fd[t][i] # NULL => /\ fd[t][i] \in Handles
                                              /\ files[fd[t][i]].vnode \in 1 .. Len(nodes)
<1>. SUFFICES ASSUME NEW i \in Fds
              PROVE  /\ Has(t, i) = fd[t][i]
                     /\ fd[t][i] # NULL => /\ fd[t][i] \in Handles
                                           /\ files[fd[t][i]].vnode \in 1 .. Len(nodes)
  OBVIOUS
<1>1. Has(t, i) = fd[t][i]
  BY DEF Has, Closing
<1>2. ASSUME fd[t][i] # NULL
      PROVE  fd[t][i] \in Handles /\ files[fd[t][i]].vnode \in 1 .. Len(nodes)
  <2>1. PICK h \in Handles : h = fd[t][i]
    BY <1>2 DEF FileTypes
  <2>2. files[h].vnode # NULL /\ files[h].vnode \in -1 .. Len(nodes)
    BY <1>1, <1>2, <2>1 DEF Owned, NoneFreed, FileTypes
  <2>3. files[h].vnode # RAW
    <3>. SUFFICES ASSUME files[h].vnode = RAW
                  PROVE  FALSE
      OBVIOUS
    <3>1. PICK u \in Threads : Opening(u) /\ call[u].file = h
      BY DEF Owned, Filled
    <3>2. PICK j \in Fds : Has(u, j) = h
      BY <3>1 DEF Owned, Filled
    <3>3. u = t
      BY <1>1, <1>2, <2>1, <3>2 DEF Owned, NoneShared
    <3>. QED  BY <3>1, <3>3 DEF Opening
  <2>. QED  BY <2>1, <2>2, <2>3 DEF RAW, NULL
<1>. QED  BY <1>1, <1>2

LEMMA OpeningFile ==
  ASSUME CallTypes, NEW t \in Threads, call[t].pc = "open"
  PROVE  call[t].file \in Handles /\ call[t].vnode \in 1 .. Len(nodes)
BY DEF CallTypes, Calls

(* Nothing of what the ownership is about changes. *)
LEMMA OwnedStays ==
  ASSUME FileTypes, CallTypes, Owned,
         \A h \in Handles : files'[h].vnode = files[h].vnode,
         \A u \in Threads : \A i \in Fds : Has(u, i)' = Has(u, i),
         \A u \in Threads : /\ Opening(u)' <=> Opening(u)
                            /\ Opening(u) => call'[u] = call[u]
  PROVE  Owned'
<1>1. NoneFreed'
  BY HasIs DEF Owned, NoneFreed, NULL
<1>2. NoneShared' /\ NoneLost'
  BY DEF Owned, NoneShared, NoneLost
<1>3. \A u \in Threads : Opening(u) => call[u].file \in Handles
  BY OpeningFile DEF Opening
<1>4. Filled'
  BY <1>3 DEF Owned, Filled
<1>. QED  BY <1>1, <1>2, <1>4 DEF Owned

(* A new struct file in the free descriptor k of t. *)
LEMMA AttachKeeps ==
  ASSUME FileTypes, CallTypes, Owned, NEW t \in Threads, status[t] = "ACTIVE",
         call[t].pc \notin {"open", "close"}, \E i \in Fds : fd[t][i] = NULL,
         NEW n \in 1 .. Len(nodes'), Grows(nodes, nodes'), Attach(t, n), UNCHANGED status
  PROVE  FileTypes' /\ CallTypes' /\ Owned'
<1>1. PICK k \in Fds : k = FreeFd(t) /\ fd[t][k] = NULL
  BY FreeFdIs
<1>2. PICK h \in FreeFiles :
        /\ files' = [files EXCEPT ![h].vnode = RAW]
        /\ fd' = [fd EXCEPT ![t][k] = h]
        /\ call' = [call EXCEPT ![t] = [pc |-> "open", file |-> h, vnode |-> n]]
  BY <1>1 DEF Attach
<1>3. h \in Handles /\ files[h].vnode = NULL /\ h # NULL /\ RAW # NULL /\ RAW = -1
  BY Numbers DEF FreeFiles, NULL, RAW
<1>4. Len(nodes) \in Nat /\ Len(nodes') \in Nat /\ Len(nodes) <= Len(nodes')
  BY DEF Grows
<1>5. /\ files' \in [Handles -> [vnode : Int, f_pos : Nat]]
      /\ \A g \in Handles : files'[g].vnode = IF g = h THEN RAW ELSE files[g].vnode
  <2>1. PICK r : r = [files[h] EXCEPT !.vnode = RAW]
    OBVIOUS
  <2>2. files[h] \in [vnode : Int, f_pos : Nat]
    BY <1>3 DEF FileTypes
  <2>3. r \in [vnode : Int, f_pos : Nat] /\ r.vnode = RAW
    BY <1>3, <2>1, <2>2
  <2>4. files' = [files EXCEPT ![h] = r]
    BY <1>2, <2>1
  <2>. QED  BY <1>3, <2>3, <2>4 DEF FileTypes
<1>6. FileTypes'
  <2>1. \A g \in Handles : files'[g].vnode \in -1 .. Len(nodes')
    <3>1. \A g \in Handles : files[g].vnode \in -1 .. Len(nodes)
      BY DEF FileTypes
    <3>2. RAW \in -1 .. Len(nodes')
      BY <1>3, <1>4
    <3>. QED  BY <1>4, <1>5, <3>1, <3>2
  <2>2. fd' \in [Threads -> [Fds -> Handles \cup {NULL}]]
    BY <1>2, <1>3 DEF FileTypes
  <2>. QED  BY <1>5, <2>1, <2>2 DEF FileTypes
<1>. DEFINE new == [pc |-> "open", file |-> h, vnode |-> n]
<1>7. new \in Calls /\ new.pc = "open" /\ new.file = h /\ new.vnode = n
  BY <1>3, <1>4 DEF Calls
<1>8. call' = [call EXCEPT ![t] = new]
  BY <1>2
<1>. HIDE DEF new
<1>9. call'[t] = new /\ \A u \in Threads \ {t} : call'[u] = call[u]
  BY <1>8 DEF CallTypes
<1>10. CallTypes'
  <2>1. call' \in [Threads -> Calls]
    BY <1>7, <1>8 DEF CallTypes
  <2>2. \A u \in Threads : call'[u].pc \in {"create", "mkdir"} =>
          call'[u].dir \in 1 .. Len(nodes') /\ nodes'[call'[u].dir].fs = "tmpfs"
    BY <1>4, <1>7, <1>9 DEF CallTypes, Grows
  <2>3. \A u \in Threads : call'[u].pc = "open" => call'[u].vnode \in 1 .. Len(nodes')
    BY <1>4, <1>7, <1>9 DEF CallTypes
  <2>. QED  BY <2>1, <2>2, <2>3 DEF CallTypes
<1>11. \A u \in Threads : \A i \in Fds : Has(u, i)' = IF u = t /\ i = k THEN h ELSE Has(u, i)
  <2>1. \A u \in Threads : \A i \in Fds : fd'[u][i] = IF u = t /\ i = k THEN h ELSE fd[u][i]
    BY <1>2 DEF FileTypes
  <2>2. \A i \in Fds : ~Closing(t, i) /\ ~Closing(t, i)'
    BY <1>7, <1>9 DEF Closing
  <2>3. \A u \in Threads \ {t} : \A i \in Fds : Closing(u, i)' <=> Closing(u, i)
    BY <1>9 DEF Closing
  <2>4. \A u \in Threads : Live(u)' <=> Live(u)
    BY DEF Live
  <2>5. Live(t)
    BY DEF Live
  <2>. QED  BY <2>1, <2>2, <2>3, <2>4, <2>5 DEF Has
<1>12. Opening(t)' /\ call'[t].file = h /\ ~Opening(t)
       /\ \A u \in Threads \ {t} : (Opening(u)' <=> Opening(u)) /\ call'[u] = call[u]
  BY <1>7, <1>9 DEF Opening
<1>13. \A u \in Threads : \A i \in Fds : Has(u, i) # h /\ Has(u, i) \in Handles \cup {NULL}
  BY <1>3, HasIs DEF Owned, NoneFreed
<1>. HIDE DEF Has, Opening
<1>14. NoneFreed'
  BY <1>3, <1>5, <1>11, <1>13 DEF Owned, NoneFreed
<1>15. NoneShared'
  BY <1>11, <1>13 DEF Owned, NoneShared
<1>16. NoneLost'
  <2>. SUFFICES ASSUME NEW g \in Handles, files'[g].vnode # NULL
                PROVE  \E u \in Threads : \E i \in Fds : Has(u, i)' = g
    BY DEF NoneLost
  <2>1. CASE g = h
    BY <1>11, <2>1
  <2>2. CASE g # h
    <3>1. PICK u \in Threads, i \in Fds : Has(u, i) = g
      BY <1>5, <2>2 DEF Owned, NoneLost
    <3>2. Has(t, k) = NULL
      BY <1>1 DEF Has
    <3>3. g # NULL
      BY Numbers DEF NULL
    <3>. QED  BY <1>11, <3>1, <3>2, <3>3
  <2>. QED  BY <2>1, <2>2
<1>17. Filled'
  <2>1. ASSUME NEW u \in Threads, Opening(u)'
        PROVE  files'[call'[u].file].vnode = RAW /\ \E i \in Fds : Has(u, i)' = call'[u].file
    <3>1. CASE u = t
      BY <1>3, <1>5, <1>11, <1>12, <3>1
    <3>2. CASE u # t
      <4>1. Opening(u) /\ call'[u].file = call[u].file /\ call[u].file \in Handles
        BY <1>12, <2>1, <3>2, OpeningFile DEF Opening
      <4>2. files[call[u].file].vnode = RAW
        BY <4>1 DEF Owned, Filled
      <4>3. PICK i \in Fds : Has(u, i) = call[u].file
        BY <4>1 DEF Owned, Filled
      <4>. QED  BY <1>5, <1>11, <3>2, <4>1, <4>2, <4>3
    <3>. QED  BY <3>1, <3>2
  <2>2. ASSUME NEW g \in Handles, files'[g].vnode = RAW
        PROVE  \E u \in Threads : Opening(u)' /\ call'[u].file = g
    <3>1. CASE g = h
      BY <1>12, <3>1
    <3>2. CASE g # h
      <4>1. PICK u \in Threads : Opening(u) /\ call[u].file = g
        BY <1>5, <2>2, <3>2 DEF Owned, Filled
      <4>. QED  BY <1>12, <4>1
    <3>. QED  BY <3>1, <3>2
  <2>. QED  BY <2>1, <2>2 DEF Filled
<1>. QED  BY <1>6, <1>10, <1>14, <1>15, <1>16, <1>17 DEF Owned

LEMMA InsertGrows ==
  ASSUME NEW ns, Tables(ns), NEW d \in 1 .. Len(ns), NEW i, NEW node, Empty(node),
         NEW r, r = Insert(ns, d, i, node)
  PROVE  Tables(r) /\ Grows(ns, r) /\ Len(r) = Len(ns) + 1
<1>1. Tables(r) /\ InsertedIn(r, ns, d, i, node)
  <2>1. ns \in Seq(Vnodes) /\ node \in Vnodes
    BY DEF Tables, Empty
  <2>2. InsertedIn(Insert(ns, d, i, node), ns, d, i, node)
    BY <2>1, InsertIs
  <2>3. Tables(Insert(ns, d, i, node))
    BY TablesInserted
  <2>. QED  BY <2>2, <2>3
<1>2. Len(ns) \in Nat
  BY DEF Tables
<1>. QED  BY <1>1, <1>2 DEF Grows, InsertedIn, Alike

LEMMA MountGrows ==
  ASSUME NEW ns, Tables(ns), NEW d \in 1 .. Len(ns), NEW fs \in {"tmpfs", "initramfs"},
         NEW r, r = Mounted(ns, d, fs)
  PROVE  Tables(r) /\ Grows(ns, r)
<1>1. Tables(r) /\ MountedIn(r, ns, d, fs)
  <2>1. Tables(Mounted(ns, d, fs))
    BY TablesMounted
  <2>2. ns \in Seq(Vnodes)
    BY DEF Tables
  <2>3. MountedIn(Mounted(ns, d, fs), ns, d, fs)
    BY <2>2, MountIs
  <2>. QED  BY <2>1, <2>3
<1>2. Len(ns) \in Nat /\ More(fs) \in Nat /\ Len(r) = Len(ns) + 1 + More(fs)
  BY <1>1, Numbers DEF MountedIn, More, Tables
<1>3. \A n \in 1 .. Len(ns) : r[n].fs = ns[n].fs
  BY <1>1 DEF MountedIn, Alike
<1>. QED  BY <1>1, <1>2, <1>3 DEF Grows

LEMMA FilesStay ==
  ASSUME FileTypes, CallTypes, Owned, Grows(nodes, nodes'), UNCHANGED <<files, fd, status>>,
         \A u \in Threads : call'[u] = call[u] \/ {call[u].pc, call'[u].pc} \cap {"open", "close"} = {}
  PROVE  FileTypes' /\ Owned'
<1>1. FileTypes'
  BY DEF FileTypes, Grows
<1>2. \A u \in Threads : \A i \in Fds : Has(u, i)' = Has(u, i)
  BY DEF Has, Live, Closing
<1>3. \A u \in Threads : (Opening(u)' <=> Opening(u)) /\ (Opening(u) => call'[u] = call[u])
  BY DEF Opening
<1>4. Owned'
  BY <1>2, <1>3, OwnedStays
<1>. QED  BY <1>1, <1>4

(* Calls in progress stay, but that t may come back from its own. *)
LEMMA CallsStay ==
  ASSUME CallTypes, Grows(nodes, nodes'), NEW t \in Threads,
         call' = call \/ call' = [call EXCEPT ![t] = [pc |-> "user"]]
  PROVE  CallTypes'
<1>1. [pc |-> "user"] \in Calls
  BY DEF Calls
<1>2. call' \in [Threads -> Calls]
  BY <1>1 DEF CallTypes
<1>3. \A u \in Threads : call'[u] = call[u] \/ call'[u].pc = "user"
  BY DEF CallTypes
<1>4. \A u \in Threads : call'[u].pc \in {"create", "mkdir"} =>
        call'[u].dir \in 1 .. Len(nodes') /\ nodes'[call'[u].dir].fs = "tmpfs"
  BY <1>3 DEF CallTypes, Grows
<1>5. \A u \in Threads : call'[u].pc = "open" => call'[u].vnode \in 1 .. Len(nodes')
  BY <1>3 DEF CallTypes, Grows
<1>. QED  BY <1>2, <1>4, <1>5 DEF CallTypes

(* Threads that go on with an open of a missing file keep their descriptors. *)
LEMMA RoomStays ==
  ASSUME RoomLeft,
         \A u \in Threads : status'[u] = "ACTIVE" /\ call'[u].pc = "create" =>
           status[u] = "ACTIVE" /\ call[u].pc = "create" /\ fd'[u] = fd[u]
  PROVE  RoomLeft'
BY DEF RoomLeft

(* Such a step of t changes no descriptors but those of t. *)
LEMMA RoomOfOthers ==
  ASSUME RoomLeft, CallTypes, NEW t \in Threads, UNCHANGED status,
         \A u \in Threads \ {t} : fd'[u] = fd[u] /\ call'[u] = call[u], call'[t].pc # "create"
  PROVE  RoomLeft'
BY RoomStays

LEMMA AttachAtOnly ==
  ASSUME FileTypes, CallTypes, NEW t \in Threads, NEW n, Attach(t, n)
  PROVE  call'[t].pc # "create" /\ \A u \in Threads \ {t} : fd'[u] = fd[u] /\ call'[u] = call[u]
<1>1. \A u \in Threads \ {t} : fd'[u] = fd[u]
  BY DEF Attach, FileTypes
<1>2. PICK h : call' = [call EXCEPT ![t] = [pc |-> "open", file |-> h, vnode |-> n]]
  BY DEF Attach
<1>3. call'[t].pc = "open" /\ \A u \in Threads \ {t} : call'[u] = call[u]
  BY <1>2 DEF CallTypes
<1>. QED  BY <1>1, <1>3

(* t is inside a call that will make a new entry. *)
LEMMA CallsStart ==
  ASSUME CallTypes, Tables(nodes), UNCHANGED nodes, NEW t \in Threads,
         NEW pc \in {"create", "mkdir"}, NEW dir \in 1 .. Len(nodes), NEW name \in Names,
         Creatable(nodes, dir, name),
         call' = [call EXCEPT ![t] = [pc |-> pc, dir |-> dir, name |-> name,
                                      idx |-> FreeEntry(nodes, dir)]]
  PROVE  CallTypes'
<1>1. FreeEntry(nodes, dir) \in Entries /\ nodes[dir].fs = "tmpfs" /\ dir \in Nat
  BY FreeEntryIs DEF Creatable, Tables
<1>. DEFINE new == [pc |-> pc, dir |-> dir, name |-> name, idx |-> FreeEntry(nodes, dir)]
<1>2. new \in Calls /\ new.dir = dir /\ new.pc = pc
  BY <1>1 DEF Calls
<1>. HIDE DEF new
<1>3. call' = [call EXCEPT ![t] = new]
  BY DEF new
<1>4. call' \in [Threads -> Calls]
  BY <1>2, <1>3 DEF CallTypes
<1>5. \A u \in Threads : call'[u] = IF u = t THEN new ELSE call[u]
  BY <1>3 DEF CallTypes
<1>6. \A u \in Threads : call'[u].pc \in {"create", "mkdir"} =>
        call'[u].dir \in 1 .. Len(nodes') /\ nodes'[call'[u].dir].fs = "tmpfs"
  BY <1>1, <1>2, <1>5 DEF CallTypes
<1>7. \A u \in Threads : call'[u].pc = "open" => call'[u].vnode \in 1 .. Len(nodes')
  BY <1>2, <1>5 DEF CallTypes
<1>. QED  BY <1>4, <1>6, <1>7 DEF CallTypes

LEMMA PathsLead ==
  ASSUME Tables(nodes), NEW path \in Paths
  PROVE  /\ vfs_lookup(nodes, path) \in 0 .. Len(nodes)
         /\ vfs_lookup(nodes, path) # NULL =>
              vfs_lookup(nodes, path) \in 1 .. Len(nodes) /\ nodes[vfs_lookup(nodes, path)].mount = NULL
         /\ vfs_lookup(nodes, Front(path)) # NULL =>
              vfs_lookup(nodes, Front(path)) \in 1 .. Len(nodes)
         /\ Last(path) \in Names /\ Grows(nodes, nodes)
<1>1. path \in Seq(STRING) /\ path # <<>>
  BY VfsAssumption
<1>2. Front(path) \in Seq(STRING)
  BY <1>1 DEF Front
<1>3. Last(path) \in Names
  <2>1. Last(path) \in STRING
    BY <1>1 DEF Last
  <2>. QED  BY <2>1 DEF Names
<1>4. vfs_lookup(nodes, Front(path)) \in 0 .. Len(nodes)
  BY <1>2, LookupEnds
<1>5. Len(nodes) \in Nat /\ Grows(nodes, nodes)
  BY DEF Tables, Grows
<1>. QED  BY <1>1, <1>3, <1>4, <1>5, LookupEnds DEF NULL

-----------------------------------------------------------------------------
(* One owner. *)

LEMMA FdInit ==
  ASSUME Init
  PROVE  FdInv
<1>1. Tables(nodes)
  BY RootExact DEF Init, Exact
<1>2. FreeFile \in [vnode : Int, f_pos : Nat] /\ FreeFile.vnode = 0
  BY DEF FreeFile, NULL
<1>3. Len(nodes) \in Nat /\ [pc |-> "user"] \in Calls
  BY <1>1 DEF Tables, Calls
<1>4. FileTypes
  BY <1>2, <1>3 DEF Init, FileTypes
<1>5. CallTypes
  BY <1>3 DEF Init, CallTypes
<1>6. Owned
  <2>1. \A t \in Threads : \A i \in Fds : Has(t, i) = NULL
    BY DEF Init, Has
  <2>2. \A h \in Handles : files[h].vnode = NULL
    BY <1>2 DEF Init, NULL
  <2>3. \A t \in Threads : ~Opening(t)
    BY DEF Init, Opening
  <2>. QED  BY <2>1, <2>2, <2>3 DEF Owned, NoneFreed, NoneShared, NoneLost, Filled, NULL, RAW
<1>7. RoomLeft
  BY DEF Init, RoomLeft
<1>. QED  BY <1>1, <1>4, <1>5, <1>6, <1>7 DEF FdInv

(* The struct file that open has stored is filled. *)
LEMMA OpenedKeeps ==
  ASSUME FileTypes, CallTypes, Owned, NEW t \in Threads, tmpfs_open(t), Len(nodes) \in Nat
  PROVE  FileTypes' /\ Owned'
<1>. DEFINE h == call[t].file
            n == call[t].vnode
<1>1. Opening(t) /\ h \in Handles /\ n \in 1 .. Len(nodes)
  BY OpeningFile DEF tmpfs_open, Runs, Opening
<1>2. /\ files' = [files EXCEPT ![h] = [vnode |-> n, f_pos |-> 0]]
      /\ call' = [call EXCEPT ![t] = [pc |-> "user"]] /\ UNCHANGED <<nodes, fd, status>>
  BY DEF tmpfs_open
<1>. HIDE DEF h, n
<1>3. [vnode |-> n, f_pos |-> 0] \in [vnode : Int, f_pos : Nat] /\ n # NULL /\ n # RAW
  BY <1>1 DEF NULL, RAW
<1>4. /\ files' \in [Handles -> [vnode : Int, f_pos : Nat]]
      /\ \A g \in Handles : files'[g].vnode = IF g = h THEN n ELSE files[g].vnode
  BY <1>1, <1>2, <1>3 DEF FileTypes
<1>5. FileTypes'
  BY <1>1, <1>2, <1>4 DEF FileTypes
<1>6. call'[t] = [pc |-> "user"] /\ \A u \in Threads \ {t} : call'[u] = call[u]
  BY <1>2 DEF CallTypes
<1>7. \A u \in Threads : \A i \in Fds : Has(u, i)' = Has(u, i)
  <2>1. \A u \in Threads : \A i \in Fds : Closing(u, i)' <=> Closing(u, i)
    BY <1>1, <1>2, <1>6 DEF Closing, Opening
  <2>. QED  BY <1>2, <2>1 DEF Has, Live
<1>8. ~Opening(t)' /\ \A u \in Threads \ {t} : (Opening(u)' <=> Opening(u)) /\ call'[u] = call[u]
  BY <1>2, <1>6 DEF Opening
<1>9. PICK k \in Fds : Has(t, k) = h /\ h # NULL
  BY <1>1, Numbers DEF Owned, Filled, h, NULL
<1>10. \A u \in Threads : Opening(u) => call[u].file \in Handles
  BY OpeningFile DEF Opening
<1>11. ASSUME NEW u \in Threads \ {t}, Opening(u)
       PROVE  call[u].file # h
  <2>1. PICK i \in Fds : Has(u, i) = call[u].file
    BY <1>11 DEF Owned, Filled
  <2>. QED  BY <1>9, <2>1 DEF Owned, NoneShared
<1>12. \A u \in Threads : \A i \in Fds : Has(u, i) \in Handles \cup {NULL}
  BY HasIs
<1>13. NoneFreed'
  BY <1>3, <1>4, <1>7, <1>12 DEF Owned, NoneFreed
<1>14. NoneShared'
  BY <1>7 DEF Owned, NoneShared
<1>15. NoneLost'
  <2>. SUFFICES ASSUME NEW g \in Handles, files'[g].vnode # NULL
                PROVE  \E u \in Threads : \E i \in Fds : Has(u, i) = g
    BY <1>7 DEF NoneLost
  <2>1. CASE g = h
    BY <1>9, <2>1
  <2>2. CASE g # h
    BY <1>4, <2>2 DEF Owned, NoneLost
  <2>. QED  BY <2>1, <2>2
<1>16. Filled'
  <2>1. ASSUME NEW u \in Threads, Opening(u)'
        PROVE  files'[call'[u].file].vnode = RAW /\ \E i \in Fds : Has(u, i)' = call'[u].file
    <3>1. u # t /\ Opening(u) /\ call'[u] = call[u]
      BY <1>8, <2>1
    <3>. QED  BY <1>4, <1>7, <1>10, <1>11, <3>1 DEF Owned, Filled
  <2>2. ASSUME NEW g \in Handles, files'[g].vnode = RAW
        PROVE  \E u \in Threads : Opening(u)' /\ call'[u].file = g
    <3>1. g # h /\ files[g].vnode = RAW
      BY <1>3, <1>4, <2>2
    <3>2. PICK u \in Threads : Opening(u) /\ call[u].file = g
      BY <3>1 DEF Owned, Filled
    <3>3. u # t
      BY <3>1, <3>2 DEF h
    <3>. QED  BY <1>8, <3>2, <3>3
  <2>. QED  BY <2>1, <2>2 DEF Filled
<1>. QED  BY <1>5, <1>13, <1>14, <1>15, <1>16 DEF Owned

(* close has freed the struct file of its descriptor. *)
LEMMA ClosedKeeps ==
  ASSUME FileTypes, CallTypes, Owned, NEW t \in Threads, NEW i \in Fds, close(t, i),
         Len(nodes) \in Nat
  PROVE  FileTypes' /\ CallTypes' /\ Owned'
<1>1. /\ status[t] = "ACTIVE" /\ call[t].pc = "user" /\ fd[t][i] # NULL
      /\ files' = [files EXCEPT ![fd[t][i]] = FreeFile]
      /\ call' = [call EXCEPT ![t] = [pc |-> "close", fd |-> i]]
      /\ UNCHANGED <<nodes, fd, status>>
  BY DEF close, Runs
<1>2. PICK h \in Handles : h = fd[t][i] /\ h # NULL /\ h = Has(t, i)
  BY <1>1, HasAll DEF Live
<1>3. /\ FreeFile \in [vnode : Int, f_pos : Nat] /\ FreeFile.vnode = NULL /\ NULL = 0 /\ RAW # NULL
  BY DEF FreeFile, NULL, RAW
<1>4. /\ files' \in [Handles -> [vnode : Int, f_pos : Nat]]
      /\ \A g \in Handles : files'[g].vnode = IF g = h THEN NULL ELSE files[g].vnode
  BY <1>1, <1>2, <1>3 DEF FileTypes
<1>5. FileTypes'
  BY <1>1, <1>3, <1>4 DEF FileTypes
<1>. DEFINE new == [pc |-> "close", fd |-> i]
<1>6. new \in Calls /\ new.pc = "close" /\ new.fd = i
  BY DEF Calls
<1>7. call' = [call EXCEPT ![t] = new]
  BY <1>1
<1>. HIDE DEF new
<1>8. call'[t] = new /\ \A u \in Threads \ {t} : call'[u] = call[u]
  BY <1>7 DEF CallTypes
<1>9. CallTypes'
  <2>1. call' \in [Threads -> Calls]
    BY <1>6, <1>7 DEF CallTypes
  <2>. QED  BY <1>1, <1>6, <1>8, <2>1 DEF CallTypes
<1>10. \A u \in Threads : \A j \in Fds : Has(u, j)' = IF u = t /\ j = i THEN NULL ELSE Has(u, j)
  <2>1. \A u \in Threads \ {t} : \A j \in Fds : Closing(u, j)' <=> Closing(u, j)
    BY <1>1, <1>8 DEF Closing
  <2>2. \A j \in Fds : ~Closing(t, j) /\ (Closing(t, j)' <=> j = i)
    BY <1>1, <1>6, <1>8 DEF Closing
  <2>3. Live(t) /\ \A u \in Threads : Live(u)' <=> Live(u)
    BY <1>1 DEF Live
  <2>. QED  BY <1>1, <2>1, <2>2, <2>3 DEF Has
<1>11. \A u \in Threads : (Opening(u)' <=> Opening(u)) /\ (Opening(u) => u # t /\ call'[u] = call[u])
  BY <1>1, <1>6, <1>8 DEF Opening
<1>12. \A u \in Threads : \A j \in Fds : Has(u, j) = h => u = t /\ j = i
  BY <1>2 DEF Owned, NoneShared
<1>13. \A u \in Threads : \A j \in Fds : Has(u, j) \in Handles \cup {NULL}
  BY HasIs
<1>14. \A u \in Threads : Opening(u) => call[u].file \in Handles
  BY OpeningFile DEF Opening
<1>15. NoneFreed'
  BY <1>4, <1>10, <1>12, <1>13 DEF Owned, NoneFreed
<1>16. NoneShared'
  BY <1>10 DEF Owned, NoneShared
<1>17. NoneLost'
  <2>. SUFFICES ASSUME NEW g \in Handles, files'[g].vnode # NULL
                PROVE  \E u \in Threads : \E j \in Fds : Has(u, j)' = g
    BY DEF NoneLost
  <2>1. g # h /\ files[g].vnode # NULL
    BY <1>4
  <2>2. PICK u \in Threads, j \in Fds : Has(u, j) = g
    BY <2>1 DEF Owned, NoneLost
  <2>. QED  BY <1>2, <1>10, <2>1, <2>2
<1>18. Filled'
  <2>1. ASSUME NEW u \in Threads, Opening(u)'
        PROVE  files'[call'[u].file].vnode = RAW /\ \E j \in Fds : Has(u, j)' = call'[u].file
    <3>1. Opening(u) /\ u # t /\ call'[u] = call[u] /\ call[u].file \in Handles
      BY <1>11, <1>14, <2>1
    <3>2. PICK j \in Fds : Has(u, j) = call[u].file
      BY <3>1 DEF Owned, Filled
    <3>3. files[call[u].file].vnode = RAW
      BY <3>1 DEF Owned, Filled
    <3>. QED  BY <1>4, <1>10, <1>12, <3>1, <3>2, <3>3
  <2>2. ASSUME NEW g \in Handles, files'[g].vnode = RAW
        PROVE  \E u \in Threads : Opening(u)' /\ call'[u].file = g
    <3>1. files[g].vnode = RAW
      BY <1>3, <1>4, <2>2
    <3>2. PICK u \in Threads : Opening(u) /\ call[u].file = g
      BY <3>1 DEF Owned, Filled
    <3>. QED  BY <1>11, <3>2
  <2>. QED  BY <2>1, <2>2 DEF Filled
<1>. QED  BY <1>5, <1>9, <1>15, <1>16, <1>17, <1>18 DEF Owned

(* close has cleared its descriptor. *)
LEMMA ClearedKeeps ==
  ASSUME FileTypes, CallTypes, Owned, NEW t \in Threads, ClearFd(t)
  PROVE  FileTypes' /\ Owned'
<1>. DEFINE i == call[t].fd
<1>1. /\ status[t] = "ACTIVE" /\ call[t].pc = "close" /\ i \in Fds
      /\ fd' = [fd EXCEPT ![t][i] = NULL]
      /\ call' = [call EXCEPT ![t] = [pc |-> "user"]]
      /\ UNCHANGED <<nodes, files, status>>
  BY DEF ClearFd, Runs, CallTypes, Calls
<1>2. FileTypes'
  BY <1>1 DEF FileTypes
<1>3. call'[t] = [pc |-> "user"] /\ \A u \in Threads \ {t} : call'[u] = call[u]
  BY <1>1 DEF CallTypes
<1>4. \A u \in Threads : \A j \in Fds : Has(u, j)' = Has(u, j)
  <2>1. \A u \in Threads \ {t} : \A j \in Fds : Closing(u, j)' <=> Closing(u, j)
    BY <1>1, <1>3 DEF Closing
  <2>2. \A j \in Fds : ~Closing(t, j)' /\ (Closing(t, j) <=> j = i)
    BY <1>1, <1>3 DEF Closing
  <2>3. \A u \in Threads : \A j \in Fds : fd'[u][j] = IF u = t /\ j = i THEN NULL ELSE fd[u][j]
    BY <1>1 DEF FileTypes
  <2>4. \A u \in Threads : Live(u)' <=> Live(u)
    BY <1>1 DEF Live
  <2>. HIDE DEF i
  <2>. QED  BY <2>1, <2>2, <2>3, <2>4 DEF Has
<1>5. \A u \in Threads : (Opening(u)' <=> Opening(u)) /\ (Opening(u) => call'[u] = call[u])
  BY <1>1, <1>3 DEF Opening
<1>6. Owned'
  BY <1>1, <1>4, <1>5, OwnedStays
<1>. QED  BY <1>2, <1>6

(* The copies of fork, for a child whose own descriptors are all overwritten. *)
LEMMA CopiesKeep ==
  ASSUME FileTypes, CallTypes, Owned, NEW t \in Threads, Live(t), call[t].pc = "user",
         NEW c \in Threads, status[c] = "FREE",
         call' = [call EXCEPT ![c] = [pc |-> "user"]],
         \A i \in Fds : fd[c][i] # NULL => fd[t][i] # NULL,
         Copied(t, c), status' = [status EXCEPT ![c] = "ACTIVE"], UNCHANGED nodes
  PROVE  FileTypes' /\ Owned'
<1>. DEFINE opened == {i \in Fds : fd[t][i] # NULL}
<1>1. PICK copy \in Injection(opened, FreeFiles) :
        /\ fd' = [fd EXCEPT ![c] = [i \in Fds |-> IF i \in opened THEN copy[i] ELSE fd[c][i]]]
        /\ files' = [h \in Handles |->
             IF h \in Range(copy) THEN files[fd[t][CHOOSE i \in opened : copy[i] = h]] ELSE files[h]]
  BY DEF Copied
<1>2. /\ copy \in [opened -> FreeFiles]
      /\ \A i, j \in opened : copy[i] = copy[j] => i = j
  BY <1>1 DEF Injection, IsInjective
<1>3. t # c /\ Live(t) /\ ~Live(c) /\ 0 \notin Handles /\ NULL = 0
  BY Numbers DEF Live, NULL
<1>4. \A i \in opened : /\ copy[i] \in Handles /\ files[copy[i]].vnode = NULL /\ copy[i] # NULL
                        /\ fd[t][i] \in Handles /\ files[fd[t][i]].vnode \in 1 .. Len(nodes)
  <2>. SUFFICES ASSUME NEW i \in opened
                PROVE  /\ copy[i] \in Handles /\ files[copy[i]].vnode = NULL /\ copy[i] # NULL
                       /\ fd[t][i] \in Handles /\ files[fd[t][i]].vnode \in 1 .. Len(nodes)
    OBVIOUS
  <2>1. copy[i] \in FreeFiles /\ i \in Fds /\ fd[t][i] # NULL
    BY <1>2
  <2>2. fd[t][i] \in Handles /\ files[fd[t][i]].vnode \in 1 .. Len(nodes)
    BY <2>1, HasAll
  <2>. QED  BY <1>3, <2>1, <2>2 DEF FreeFiles
<1>5. \A i \in opened : (CHOOSE j \in opened : copy[j] = copy[i]) = i
  BY <1>2
<1>6. \A i \in opened : files'[copy[i]] = files[fd[t][i]]
  <2>. SUFFICES ASSUME NEW i \in opened
                PROVE  files'[copy[i]] = files[fd[t][i]]
    OBVIOUS
  <2>1. copy[i] \in Range(copy) /\ copy[i] \in Handles
    BY <1>2, <1>4 DEF Range
  <2>. QED  BY <1>1, <1>5, <2>1
<1>7. \A h \in Handles : h \in Range(copy) \/ files'[h] = files[h]
  BY <1>1
<1>8. \A h \in Range(copy) : \E i \in opened : h = copy[i]
  BY <1>2 DEF Range
<1>9. call'[c] = [pc |-> "user"] /\ \A u \in Threads \ {c} : call'[u] = call[u]
  BY DEF CallTypes
<1>10. \A u \in Threads : \A i \in Fds :
         Has(u, i)' = IF u # c THEN Has(u, i) ELSE IF i \in opened THEN copy[i] ELSE NULL
  <2>1. \A u \in Threads : \A i \in Fds :
          fd'[u][i] = IF u # c THEN fd[u][i] ELSE IF i \in opened THEN copy[i] ELSE NULL
    BY <1>1 DEF FileTypes
  <2>2. \A u \in Threads \ {c} : \A i \in Fds : Closing(u, i)' <=> Closing(u, i)
    BY <1>9 DEF Closing, FileTypes
  <2>3. \A i \in Fds : ~Closing(c, i)'
    BY <1>9 DEF Closing
  <2>4. Live(c)' /\ \A u \in Threads \ {c} : Live(u)' <=> Live(u)
    BY DEF Live, FileTypes
  <2>. HIDE DEF opened
  <2>. QED  BY <2>1, <2>2, <2>3, <2>4 DEF Has
<1>11. FileTypes'
  <2>0. ASSUME NEW h \in Handles
        PROVE  \E g \in Handles : files'[h] = files[g]
    <3>1. CASE h \in Range(copy)
      <4>1. PICK i \in opened : h = copy[i]
        BY <1>8, <3>1
      <4>. QED  BY <1>4, <1>6, <4>1
    <3>. QED  BY <1>7, <3>1
  <2>1. files' \in [Handles -> [vnode : Int, f_pos : Nat]]
    <3>1. \A h \in Handles : files'[h] \in [vnode : Int, f_pos : Nat]
      BY <2>0 DEF FileTypes
    <3>2. files' = [h \in Handles |-> files'[h]]
      BY <1>1
    <3>. QED  BY <3>1, <3>2
  <2>2. \A h \in Handles : files'[h].vnode \in -1 .. Len(nodes')
    BY <2>0 DEF FileTypes
  <2>3. fd' \in [Threads -> [Fds -> Handles \cup {NULL}]]
    <3>. DEFINE new == [i \in Fds |-> IF i \in opened THEN copy[i] ELSE fd[c][i]]
    <3>1. \A i \in Fds : fd[c][i] \in Handles \cup {NULL}
      BY DEF FileTypes
    <3>2. new \in [Fds -> Handles \cup {NULL}]
      BY <1>4, <3>1
    <3>3. fd' = [fd EXCEPT ![c] = new]
      BY <1>1
    <3>. HIDE DEF new
    <3>. QED  BY <3>2, <3>3 DEF FileTypes
  <2>4. status' \in [Threads -> {"FREE", "ACTIVE", "ZOMBIE"}]
    BY DEF FileTypes
  <2>. QED  BY <2>1, <2>2, <2>3, <2>4 DEF FileTypes
<1>. HIDE DEF opened
<1>12. \A u \in Threads : \A i \in Fds : /\ Has(u, i) \in Handles \cup {NULL}
                                         /\ \A j \in opened : Has(u, i) # copy[j]
  BY <1>4, HasIs DEF Owned, NoneFreed
<1>13. \A h \in Handles : files[h].vnode # NULL => files'[h] = files[h]
  BY <1>4, <1>7, <1>8
<1>14. \A i \in opened : files'[copy[i]].vnode \in 1 .. Len(nodes)
  BY <1>4, <1>6
<1>15. NoneFreed'
  <2>. SUFFICES ASSUME NEW u \in Threads, NEW i \in Fds, Has(u, i)' # NULL
                PROVE  files'[Has(u, i)'].vnode # NULL
    BY DEF NoneFreed
  <2>1. CASE u = c
    BY <1>10, <1>14, <2>1 DEF NULL
  <2>2. CASE u # c
    <3>1. Has(u, i)' = Has(u, i) /\ Has(u, i) \in Handles
      BY <1>10, <1>12, <2>2
    <3>. QED  BY <1>13, <3>1 DEF Owned, NoneFreed
  <2>. QED  BY <2>1, <2>2
<1>16. NoneShared'
  <2>. SUFFICES ASSUME NEW u \in Threads, NEW v \in Threads, NEW i \in Fds, NEW j \in Fds,
                       Has(u, i)' # NULL, Has(u, i)' = Has(v, j)'
                PROVE  u = v /\ i = j
    BY DEF NoneShared
  <2>1. CASE u = c /\ v = c
    BY <1>2, <1>10, <2>1
  <2>2. CASE u = c /\ v # c
    BY <1>10, <1>12, <2>2
  <2>3. CASE u # c /\ v = c
    BY <1>10, <1>12, <2>3
  <2>4. CASE u # c /\ v # c
    BY <1>10, <2>4 DEF Owned, NoneShared
  <2>. QED  BY <2>1, <2>2, <2>3, <2>4
<1>17. NoneLost'
  <2>. SUFFICES ASSUME NEW h \in Handles, files'[h].vnode # NULL
                PROVE  \E u \in Threads : \E i \in Fds : Has(u, i)' = h
    BY DEF NoneLost
  <2>1. CASE h \in Range(copy)
    <3>1. PICK i \in opened : h = copy[i]
      BY <1>8, <2>1
    <3>2. i \in Fds /\ Has(c, i)' = h
      BY <1>10, <3>1 DEF opened
    <3>. QED  BY <3>2
  <2>2. CASE h \notin Range(copy)
    <3>1. files[h].vnode # NULL
      BY <1>7, <2>2
    <3>2. PICK u \in Threads, i \in Fds : Has(u, i) = h
      BY <3>1 DEF Owned, NoneLost
    <3>3. u # c
      BY <1>3, <3>2 DEF Has
    <3>. QED  BY <1>10, <3>2, <3>3
  <2>. QED  BY <2>1, <2>2
<1>18. \A u \in Threads : (Opening(u)' <=> Opening(u)) /\ (Opening(u) => u # c /\ call'[u] = call[u])
  <2>1. ~Opening(c)' /\ ~Opening(c)
    BY <1>9 DEF Opening
  <2>2. \A u \in Threads \ {c} : status'[u] = status[u]
    BY DEF FileTypes
  <2>. QED  BY <1>9, <2>1, <2>2 DEF Opening
<1>19. Filled'
  <2>1. ASSUME NEW u \in Threads, Opening(u)'
        PROVE  files'[call'[u].file].vnode = RAW /\ \E i \in Fds : Has(u, i)' = call'[u].file
    <3>1. Opening(u) /\ u # c /\ call'[u] = call[u] /\ call[u].file \in Handles
      BY <1>18, <2>1, OpeningFile DEF Opening
    <3>2. PICK i \in Fds : Has(u, i) = call[u].file
      BY <3>1 DEF Owned, Filled
    <3>3. files[call[u].file].vnode = RAW /\ RAW # NULL
      BY <3>1 DEF Owned, Filled, RAW, NULL
    <3>. QED  BY <1>10, <1>13, <3>1, <3>2, <3>3
  <2>2. ASSUME NEW h \in Handles, files'[h].vnode = RAW
        PROVE  \E u \in Threads : Opening(u)' /\ call'[u].file = h
    <3>1. files[h].vnode = RAW
      <4>1. CASE h \in Range(copy)
        BY <1>8, <1>14, <2>2, <4>1 DEF RAW
      <4>. QED  BY <1>7, <2>2, <4>1
    <3>2. PICK u \in Threads : Opening(u) /\ call[u].file = h
      BY <3>1 DEF Owned, Filled
    <3>. QED  BY <1>18, <3>2
  <2>. QED  BY <2>1, <2>2 DEF Filled
<1>. QED  BY <1>11, <1>15, <1>16, <1>17, <1>19 DEF Owned

LEMMA ReapedKeeps ==
  ASSUME FileTypes, CallTypes, Owned, NEW t \in Threads, reap(t), Len(nodes) \in Nat
  PROVE  FileTypes' /\ Owned'
<1>1. /\ FreeFile \in [vnode : Int, f_pos : Nat] /\ FreeFile.vnode = NULL /\ RAW # NULL
      /\ NULL = 0 /\ nodes' = nodes /\ fd' = fd /\ call' = call
      /\ status' = [status EXCEPT ![t] = "FREE"] /\ status[t] = "ZOMBIE"
      /\ files' = [h \in Handles |-> IF \E i \in Fds : fd[t][i] = h THEN FreeFile ELSE files[h]]
  BY DEF FreeFile, NULL, RAW, FileTypes, reap
<1>2. FileTypes'
  <2>1. files' \in [Handles -> [vnode : Int, f_pos : Nat]]
    BY <1>1 DEF FileTypes
  <2>2. \A h \in Handles : files'[h].vnode \in -1 .. Len(nodes')
    <3>1. \A h \in Handles : files'[h] = FreeFile \/ files'[h] = files[h]
      BY <1>1
    <3>. QED  BY <1>1, <3>1 DEF FileTypes
  <2>. QED  BY <1>1, <2>1, <2>2 DEF FileTypes
<1>3. \A u \in Threads : \A i \in Fds : Has(u, i)' = IF u = t THEN NULL ELSE Has(u, i)
  <2>1. \A u \in Threads \ {t} : status'[u] = status[u]
    BY <1>1 DEF FileTypes
  <2>2. status'[t] = "FREE"
    BY <1>1 DEF FileTypes
  <2>. QED  BY <1>1, <2>1, <2>2 DEF Has, Live, Closing
<1>4. \A i \in Fds : Has(t, i) = fd[t][i]
  BY <1>1 DEF Has, Live, Closing
<1>5. \A u \in Threads : (Opening(u)' <=> Opening(u)) /\ (Opening(u) => u # t)
  BY <1>1 DEF Opening, FileTypes
<1>6. \A u \in Threads : \A i \in Fds : Has(u, i) \in Handles \cup {NULL}
  BY HasIs
<1>7. \A u \in Threads \ {t} : \A i \in Fds : Has(u, i) # NULL => files'[Has(u, i)] = files[Has(u, i)]
  <2>. SUFFICES ASSUME NEW u \in Threads \ {t}, NEW i \in Fds, Has(u, i) # NULL
                PROVE  files'[Has(u, i)] = files[Has(u, i)]
    OBVIOUS
  <2>1. Has(u, i) \in Handles /\ \A j \in Fds : fd[t][j] # Has(u, i)
    BY <1>4, <1>6 DEF Owned, NoneShared
  <2>. QED  BY <1>1, <2>1
<1>8. NoneFreed'
  BY <1>3, <1>7 DEF Owned, NoneFreed
<1>9. NoneShared'
  BY <1>3 DEF Owned, NoneShared
<1>10. NoneLost'
  <2>. SUFFICES ASSUME NEW h \in Handles, files'[h].vnode # NULL
                PROVE  \E u \in Threads : \E i \in Fds : Has(u, i)' = h
    BY DEF NoneLost
  <2>1. files[h].vnode # NULL /\ \A i \in Fds : fd[t][i] # h
    BY <1>1
  <2>2. PICK u \in Threads, i \in Fds : Has(u, i) = h
    BY <2>1 DEF Owned, NoneLost
  <2>. QED  BY <1>3, <1>4, <2>1, <2>2
<1>11. Filled'
  <2>1. ASSUME NEW u \in Threads, Opening(u)'
        PROVE  files'[call'[u].file].vnode = RAW /\ \E i \in Fds : Has(u, i)' = call'[u].file
    <3>1. Opening(u) /\ u # t /\ call[u].file \in Handles
      BY <1>5, <2>1, OpeningFile DEF Opening
    <3>2. PICK i \in Fds : Has(u, i) = call[u].file
      BY <3>1 DEF Owned, Filled
    <3>3. files[call[u].file].vnode = RAW /\ call[u].file # NULL
      BY <3>1, Numbers DEF Owned, Filled, NULL
    <3>4. call'[u] = call[u] /\ Has(u, i)' = Has(u, i)
      BY <1>1, <1>3, <3>1
    <3>5. files'[Has(u, i)] = files[Has(u, i)]
      BY <1>7, <3>1, <3>2, <3>3
    <3>. QED  BY <3>2, <3>3, <3>4, <3>5
  <2>2. ASSUME NEW h \in Handles, files'[h].vnode = RAW
        PROVE  \E u \in Threads : Opening(u)' /\ call'[u].file = h
    <3>1. files[h].vnode = RAW
      BY <1>1, <2>2
    <3>2. PICK u \in Threads : Opening(u) /\ call[u].file = h
      BY <3>1 DEF Owned, Filled
    <3>. QED  BY <1>1, <1>5, <3>2
  <2>. QED  BY <2>1, <2>2 DEF Filled
<1>. QED  BY <1>2, <1>8, <1>9, <1>10, <1>11 DEF Owned

(* A file of which only the position changes. *)
LEMMA MovedKeeps ==
  ASSUME FileTypes, CallTypes, Owned, NEW h \in Handles, NEW pos \in Nat,
         files' = [files EXCEPT ![h].f_pos = pos], UNCHANGED <<nodes, fd, status>>,
         \A u \in Threads : call'[u] = call[u] \/ {call[u].pc, call'[u].pc} \cap {"open", "close"} = {}
  PROVE  FileTypes' /\ Owned'
<1>1. /\ files' \in [Handles -> [vnode : Int, f_pos : Nat]]
      /\ \A g \in Handles : files'[g].vnode = files[g].vnode
  BY DEF FileTypes
<1>2. FileTypes'
  BY <1>1 DEF FileTypes
<1>3. \A u \in Threads : \A i \in Fds : Has(u, i)' = Has(u, i)
  BY DEF Has, Live, Closing
<1>4. \A u \in Threads : (Opening(u)' <=> Opening(u)) /\ (Opening(u) => call'[u] = call[u])
  BY DEF Opening
<1>5. Owned'
  BY <1>1, <1>3, <1>4, OwnedStays
<1>. QED  BY <1>2, <1>5

(* A read leaves the position inside the file, wherever it was before. *)
LEMMA ReadTo ==
  ASSUME FdInv, NEW h \in Handles, files[h].vnode \in 1 .. Len(nodes)
  PROVE  /\ files[h].f_pos + ReadLength(h, 1) \in Nat
         /\ files[h].f_pos + ReadLength(h, 1) <= nodes[files[h].vnode].size
<1>1. files[h].f_pos \in Nat
  BY DEF FdInv, FileTypes
<1>2. nodes[files[h].vnode] \in Vnodes
  BY VnodeIs DEF FdInv, Tables
<1>3. nodes[files[h].vnode].size \in Nat
  BY <1>2 DEF Vnodes
<1>4. PICK pos \in Nat, size \in Nat : pos = files[h].f_pos /\ size = nodes[files[h].vnode].size
  BY <1>1, <1>3
<1>5. PICK length : length = ReadLength(h, 1)
  OBVIOUS
<1>6. length = IF 1 + pos > size THEN size - pos ELSE 1
  BY <1>4, <1>5 DEF ReadLength
<1>7. pos + length \in Nat /\ pos + length <= size
  BY <1>6
<1>. QED  BY <1>4, <1>5, <1>7

LEMMA FdStep ==
  ASSUME ~StaleSlots, KillIn = {} \/ ~Preempt, FdInv, [Next]_vars
  PROVE  FdInv'
<1>0. /\ Grows(nodes, nodes) /\ Tables(nodes) /\ FileTypes /\ CallTypes /\ Owned /\ RoomLeft
      /\ Len(nodes) \in Nat
  BY DEF FdInv, Tables, Grows
<1>1. ASSUME NEW t \in Threads, NEW path \in Paths, open(t, path)
      PROVE  FdInv'
  <2>1. /\ status[t] = "ACTIVE" /\ call[t].pc = "user"
        /\ vfs_lookup(nodes, path) \in 1 .. Len(nodes')
        /\ Attach(t, vfs_lookup(nodes, path)) /\ \E i \in Fds : fd[t][i] = NULL
        /\ nodes' = nodes /\ UNCHANGED status
    BY <1>0, <1>1, PathsLead DEF open, Runs
  <2>2. Grows(nodes, nodes') /\ Tables(nodes)'
    BY <1>0, <2>1
  <2>3. FileTypes' /\ CallTypes' /\ Owned'
    BY <1>0, <2>1, <2>2, AttachKeeps
  <2>4. RoomLeft'
    BY <1>0, <2>1, AttachAtOnly, RoomOfOthers
  <2>. QED  BY <2>2, <2>3, <2>4 DEF FdInv
<1>2. ASSUME NEW t \in Threads, NEW path \in Paths, open_creat(t, path)
      PROVE  FdInv'
  <2>. DEFINE dir == vfs_lookup(nodes, Front(path))
  <2>1. /\ status[t] = "ACTIVE" /\ call[t].pc = "user"
        /\ dir \in 1 .. Len(nodes) /\ Last(path) \in Names
        /\ \E i \in Fds : fd[t][i] = NULL
        /\ nodes' = nodes /\ UNCHANGED status
    BY <1>0, <1>2, PathsLead DEF open_creat, Runs
  <2>2. Grows(nodes, nodes') /\ Tables(nodes)'
    BY <1>0, <2>1
  <2>3. CASE Creatable(nodes, dir, Last(path))
    <3>1. /\ call' = [call EXCEPT ![t] = [pc |-> "create", dir |-> dir, name |-> Last(path),
                                          idx |-> FreeEntry(nodes, dir)]]
          /\ UNCHANGED <<files, fd>>
      BY <1>2, <2>3 DEF open_creat
    <3>. HIDE DEF dir
    <3>2. CallTypes'
      BY <1>0, <2>1, <2>3, <3>1, CallsStart
    <3>3. FileTypes' /\ Owned'
      BY <1>0, <2>1, <2>2, <3>1, FilesStay DEF CallTypes
    <3>4. RoomLeft'
      BY <1>0, <2>1, <3>1 DEF RoomLeft, CallTypes
    <3>. QED  BY <2>2, <3>2, <3>3, <3>4 DEF FdInv
  <2>4. CASE ~Creatable(nodes, dir, Last(path))
    <3>1. Attach(t, dir)
      BY <1>2, <2>4 DEF open_creat
    <3>. HIDE DEF dir
    <3>2. FileTypes' /\ CallTypes' /\ Owned'
      BY <1>0, <2>1, <2>2, <3>1, AttachKeeps
    <3>3. RoomLeft'
      BY <1>0, <2>1, <3>1, AttachAtOnly, RoomOfOthers
    <3>. QED  BY <2>2, <3>2, <3>3 DEF FdInv
  <2>. QED  BY <2>3, <2>4
<1>3. ASSUME NEW t \in Threads, CreateFile(t)
      PROVE  FdInv'
  <2>1. /\ status[t] = "ACTIVE" /\ call[t].pc = "create" /\ status' = status
        /\ Attach(t, Len(nodes) + 1)
    BY <1>3 DEF CreateFile, Runs
  <2>2. call[t].dir \in 1 .. Len(nodes) /\ call[t].name \in Names
    BY <1>0, <2>1 DEF CallTypes, Calls
  <2>3. Tables(nodes)' /\ Grows(nodes, nodes') /\ Len(nodes') = Len(nodes) + 1
    <3>1. PICK node : node = Vnode("tmpfs", "file", call[t].name, 0) /\ Empty(node)
      BY <2>2, NewDir
    <3>2. nodes' = Insert(nodes, call[t].dir, call[t].idx, node)
      BY <1>3, <3>1 DEF CreateFile
    <3>. QED  BY <1>0, <2>2, <3>1, <3>2, InsertGrows
  <2>4. PICK n \in 1 .. Len(nodes') : n = Len(nodes) + 1
    BY <2>3 DEF Grows
  <2>5. Attach(t, n) /\ \E i \in Fds : fd[t][i] = NULL
    BY <1>0, <2>1, <2>4 DEF RoomLeft
  <2>6. FileTypes' /\ CallTypes' /\ Owned'
    BY <1>0, <2>1, <2>3, <2>5, AttachKeeps
  <2>7. RoomLeft'
    BY <1>0, <2>1, <2>5, AttachAtOnly, RoomOfOthers
  <2>. QED  BY <2>3, <2>6, <2>7 DEF FdInv
<1>4. ASSUME NEW t \in Threads, NEW path \in DirPaths, mkdir(t, path)
      PROVE  FdInv'
  <2>. DEFINE dir == vfs_lookup(nodes, Front(path))
  <2>0. path \in Paths
    BY VfsAssumption
  <2>1. /\ dir \in 1 .. Len(nodes) /\ Last(path) \in Names /\ Creatable(nodes, dir, Last(path))
        /\ call[t].pc = "user"
        /\ call' = [call EXCEPT ![t] = [pc |-> "mkdir", dir |-> dir, name |-> Last(path),
                                        idx |-> FreeEntry(nodes, dir)]]
        /\ nodes' = nodes /\ UNCHANGED <<files, fd, status>>
    BY <1>0, <1>4, <2>0, PathsLead DEF mkdir, Runs
  <2>. HIDE DEF dir
  <2>2. CallTypes'
    BY <1>0, <2>1, CallsStart
  <2>3. FileTypes' /\ Owned'
    BY <1>0, <2>1, FilesStay DEF CallTypes
  <2>4. RoomLeft'
    BY <1>0, <2>1 DEF RoomLeft, CallTypes
  <2>. QED  BY <1>0, <2>1, <2>2, <2>3, <2>4 DEF FdInv
<1>5. ASSUME NEW t \in Threads, CreateDir(t)
      PROVE  FdInv'
  <2>1. /\ call[t].pc = "mkdir" /\ UNCHANGED <<files, fd, status>>
        /\ call' = [call EXCEPT ![t] = [pc |-> "user"]]
    BY <1>5 DEF CreateDir, Runs
  <2>2. call[t].dir \in 1 .. Len(nodes) /\ call[t].name \in Names
    BY <1>0, <2>1 DEF CallTypes, Calls
  <2>3. Tables(nodes)' /\ Grows(nodes, nodes')
    BY <1>0, <1>5, <2>2, NewDir, InsertGrows DEF CreateDir
  <2>4. RoomLeft'
    BY <1>0, <2>1 DEF RoomLeft, CallTypes
  <2>5. CallTypes'
    BY <1>0, <2>1, <2>3, CallsStay
  <2>6. FileTypes' /\ Owned'
    BY <1>0, <2>1, <2>3, FilesStay DEF CallTypes
  <2>. QED  BY <2>3, <2>4, <2>5, <2>6 DEF FdInv
<1>6. ASSUME NEW t \in Threads, NEW path \in DirPaths, NEW fs \in {"tmpfs", "initramfs"},
             mount(t, path, fs)
      PROVE  FdInv'
  <2>0. path \in Paths
    BY VfsAssumption
  <2>1. /\ vfs_lookup(nodes, path) \in 1 .. Len(nodes)
        /\ nodes' = Mounted(nodes, vfs_lookup(nodes, path), fs)
        /\ UNCHANGED <<files, fd, status>> /\ call' = call
    BY <1>0, <1>6, <2>0, PathsLead DEF mount
  <2>2. Tables(nodes)' /\ Grows(nodes, nodes')
    BY <1>0, <2>1, MountGrows
  <2>3. RoomLeft'
    BY <1>0, <2>1 DEF RoomLeft
  <2>4. CallTypes'
    BY <1>0, <2>1, <2>2, CallsStay
  <2>5. FileTypes' /\ Owned'
    BY <1>0, <2>1, <2>2, FilesStay
  <2>. QED  BY <2>2, <2>3, <2>4, <2>5 DEF FdInv
<1>7. ASSUME NEW t \in Threads, NEW i \in Fds, close(t, i)
      PROVE  FdInv'
  <2>1. FileTypes' /\ CallTypes' /\ Owned'
    BY <1>0, <1>7, ClosedKeeps
  <2>2. /\ nodes' = nodes /\ fd' = fd /\ status' = status
        /\ call' = [call EXCEPT ![t] = [pc |-> "close", fd |-> i]]
    BY <1>7 DEF close
  <2>3. RoomLeft'
    BY <1>0, <2>2 DEF RoomLeft, CallTypes
  <2>. QED  BY <1>0, <2>1, <2>2, <2>3 DEF FdInv
<1>8. ASSUME NEW t \in Threads, NEW i \in Fds, read(t, i)
      PROVE  FdInv'
  <2>1. /\ Live(t) /\ call[t].pc = "user" /\ fd[t][i] # NULL /\ call' = call
        /\ files' = [files EXCEPT ![fd[t][i]].f_pos = @ + ReadLength(fd[t][i], 1)]
        /\ nodes' = nodes /\ UNCHANGED <<nodes, fd, status>>
    BY <1>8 DEF read, Runs, Live
  <2>2. PICK h \in Handles : h = fd[t][i] /\ files[h].vnode \in 1 .. Len(nodes)
    BY <1>0, <2>1, HasAll
  <2>3. PICK pos \in Nat : pos = files[h].f_pos + ReadLength(h, 1)
    BY <2>2, ReadTo
  <2>4. files' = [files EXCEPT ![h].f_pos = pos]
    BY <1>0, <2>1, <2>2, <2>3 DEF FileTypes
  <2>5. FileTypes' /\ Owned'
    BY <1>0, <2>1, <2>4, MovedKeeps
  <2>6. CallTypes'
    BY <1>0, <2>1, CallsStay
  <2>7. RoomLeft'
    BY <1>0, <2>1 DEF RoomLeft
  <2>. QED  BY <1>0, <2>1, <2>5, <2>6, <2>7 DEF FdInv
<1>9. ASSUME NEW t \in Threads, NEW i \in Fds, write(t, i)
      PROVE  FdInv'
  <2>1. PICK h \in Handles : h = fd[t][i] /\ files[h].f_pos \in Nat
    BY <1>0, <1>9 DEF write, FileTypes
  <2>2. PICK pos \in Nat : pos = files[h].f_pos + 1
    BY <2>1
  <2>3. /\ files' = [files EXCEPT ![h].f_pos = pos] /\ nodes' = nodes
        /\ call' = call \/ call' = [call EXCEPT ![t] = [pc |-> "write", file |-> h]]
        /\ UNCHANGED <<nodes, fd, status>> /\ call[t].pc = "user"
    BY <1>9, <2>1, <2>2 DEF write, Runs
  <2>4. FileTypes' /\ Owned'
    <3>1. \A u \in Threads : call'[u] = call[u] \/ {call[u].pc, call'[u].pc} \cap {"open", "close"} = {}
      BY <1>0, <2>3 DEF CallTypes
    <3>. QED  BY <1>0, <2>3, <3>1, MovedKeeps
  <2>5. CallTypes'
    <3>1. CASE call' = call
      BY <1>0, <2>3, <3>1, CallsStay
    <3>2. CASE call' = [call EXCEPT ![t] = [pc |-> "write", file |-> h]]
      <4>1. [pc |-> "write", file |-> h] \in Calls
        BY DEF Calls
      <4>2. call' \in [Threads -> Calls]
        BY <1>0, <3>2, <4>1 DEF CallTypes
      <4>3. \A u \in Threads : call'[u] = call[u] \/ call'[u].pc = "write"
        BY <1>0, <3>2 DEF CallTypes
      <4>. QED  BY <1>0, <2>3, <4>2, <4>3 DEF CallTypes
    <3>. QED  BY <2>3, <3>1, <3>2
  <2>6. RoomLeft'
    <3>1. call'[t] = call[t] \/ call'[t].pc = "write"
      BY <1>0, <2>3 DEF CallTypes
    <3>2. \A u \in Threads \ {t} : call'[u] = call[u]
      BY <1>0, <2>3 DEF CallTypes
    <3>3. \A u \in Threads : call'[u].pc = "create" => call'[u] = call[u]
      BY <3>1, <3>2
    <3>4. fd' = fd /\ status' = status
      BY <2>3
    <3>5. RoomLeft
      BY <1>0
    <3>. QED  BY <3>3, <3>4, <3>5, RoomStays
  <2>. QED  BY <1>0, <2>3, <2>4, <2>5, <2>6 DEF FdInv
<1>10. ASSUME NEW t \in Threads, StoreSize(t)
       PROVE  FdInv'
  <2>1. /\ call[t].pc = "write" /\ UNCHANGED <<files, fd, status>>
        /\ call' = [call EXCEPT ![t] = [pc |-> "user"]]
        /\ nodes' = [nodes EXCEPT ![files[call[t].file].vnode].size = files[call[t].file].f_pos]
    BY <1>10 DEF StoreSize, Runs
  <2>2. call[t].file \in Handles
    BY <1>0, <2>1 DEF CallTypes, Calls
  <2>3. PICK k \in -1 .. Len(nodes) : k = files[call[t].file].vnode
    BY <1>0, <2>2 DEF FileTypes
  <2>4. PICK x \in Nat : x = files[call[t].file].f_pos
    BY <1>0, <2>2 DEF FileTypes
  <2>5. nodes' = [nodes EXCEPT ![k].size = x]
    BY <2>1, <2>3, <2>4
  <2>6. SizedIn(nodes', nodes, k, x)
    BY <1>0, <2>5, SizeIs DEF Tables
  <2>7. Tables(nodes)' /\ Grows(nodes, nodes')
    <3>1. Len(nodes) \in Nat
      BY <1>0 DEF Grows
    <3>2. Tables(nodes')
      BY <1>0, <2>6, TablesSized
    <3>. QED  BY <2>6, <3>1, <3>2 DEF SizedIn, Grows
  <2>8. RoomLeft'
    <3>1. \A u \in Threads : call'[u].pc = "create" => call'[u] = call[u]
      BY <1>0, <2>1 DEF CallTypes
    <3>. QED  BY <1>0, <2>1, <3>1, RoomStays
  <2>9. CallTypes'
    BY <1>0, <2>1, <2>7, CallsStay
  <2>10. FileTypes' /\ Owned'
    BY <1>0, <2>1, <2>7, FilesStay DEF CallTypes
  <2>. QED  BY <2>7, <2>8, <2>9, <2>10 DEF FdInv
<1>11. ASSUME NEW t \in Threads, fork(t)
       PROVE  FdInv'
  <2>1. PICK c \in Threads : c = FreeSlot /\ status[c] = "FREE"
    BY <1>11, FreeSlotIs DEF fork
  <2>2. /\ Live(t) /\ call[t].pc = "user" /\ \A i \in Fds : fd[c][i] # NULL => fd[t][i] # NULL
        /\ Copied(t, c) /\ status' = [status EXCEPT ![c] = "ACTIVE"]
        /\ call' = [call EXCEPT ![c] = [pc |-> "user"]] /\ nodes' = nodes
    BY <1>11, <2>1 DEF fork, Runs, Live
  <2>3. FileTypes' /\ Owned'
    BY <1>0, <2>1, <2>2, CopiesKeep
  <2>4. CallTypes'
    BY <1>0, <2>2, CallsStay
  <2>5. RoomLeft'
    <3>1. /\ call'[c].pc # "create"
          /\ \A u \in Threads \ {c} : call'[u] = call[u] /\ status'[u] = status[u]
      BY <1>0, <2>2 DEF CallTypes, FileTypes
    <3>2. \A u \in Threads \ {c} : fd'[u] = fd[u]
      BY <1>0, <2>2 DEF Copied, FileTypes
    <3>. QED  BY <1>0, <3>1, <3>2, RoomStays
  <2>. QED  BY <1>0, <2>2, <2>3, <2>4, <2>5 DEF FdInv
<1>12. ASSUME NEW t \in Threads, die(t)
       PROVE  FdInv'
  <2>1. /\ status' = [status EXCEPT ![t] = "ZOMBIE"] /\ status[t] = "ACTIVE"
        /\ call[t].pc \notin {"open", "close"}
        /\ nodes' = nodes /\ files' = files /\ fd' = fd /\ call' = call
    BY <1>12 DEF die
  <2>2. FileTypes'
    BY <1>0, <2>1 DEF FileTypes
  <2>3. status'[t] = "ZOMBIE" /\ \A u \in Threads \ {t} : status'[u] = status[u]
    BY <1>0, <2>1 DEF FileTypes
  <2>4. \A u \in Threads : \A i \in Fds : Has(u, i)' = Has(u, i)
    BY <2>1, <2>3 DEF Has, Live, Closing
  <2>5. \A u \in Threads : (Opening(u)' <=> Opening(u)) /\ (Opening(u) => call'[u] = call[u])
    BY <2>1, <2>3 DEF Opening
  <2>6. Owned'
    BY <1>0, <2>1, <2>4, <2>5, OwnedStays
  <2>7. CallTypes'
    BY <1>0, <2>1, CallsStay
  <2>8. RoomLeft'
    BY <1>0, <2>1 DEF RoomLeft, FileTypes
  <2>. QED  BY <1>0, <2>1, <2>2, <2>6, <2>7, <2>8 DEF FdInv
<1>13. ASSUME NEW t \in Threads, reap(t)
       PROVE  FdInv'
  <2>1. FileTypes' /\ Owned'
    BY <1>0, <1>13, ReapedKeeps
  <2>2. nodes' = nodes /\ call' = call /\ fd' = fd /\ status' = [status EXCEPT ![t] = "FREE"]
    BY <1>13 DEF reap
  <2>3. CallTypes'
    BY <1>0, <2>2, CallsStay
  <2>4. RoomLeft'
    BY <1>0, <2>2 DEF RoomLeft, FileTypes
  <2>. QED  BY <1>0, <2>1, <2>2, <2>3, <2>4 DEF FdInv
<1>14. CASE UNCHANGED vars
  BY <1>0, <1>14, FilesStay DEF vars, FdInv, CallTypes, RoomLeft
<1>15. ASSUME NEW t \in Threads, tmpfs_open(t)
       PROVE  FdInv'
  <2>1. FileTypes' /\ Owned'
    BY <1>0, <1>15, OpenedKeeps
  <2>2. nodes' = nodes /\ fd' = fd /\ status' = status /\ call' = [call EXCEPT ![t] = [pc |-> "user"]]
    BY <1>15 DEF tmpfs_open
  <2>3. CallTypes'
    BY <1>0, <2>2, CallsStay
  <2>4. RoomLeft'
    BY <1>0, <2>2 DEF RoomLeft, CallTypes
  <2>. QED  BY <1>0, <2>1, <2>2, <2>3, <2>4 DEF FdInv
<1>16. ASSUME NEW t \in Threads, ClearFd(t)
       PROVE  FdInv'
  <2>1. FileTypes' /\ Owned'
    BY <1>0, <1>16, ClearedKeeps
  <2>2. /\ nodes' = nodes /\ status' = status /\ call' = [call EXCEPT ![t] = [pc |-> "user"]]
        /\ \A u \in Threads \ {t} : fd'[u] = fd[u]
    BY <1>0, <1>16 DEF ClearFd, FileTypes
  <2>3. CallTypes'
    BY <1>0, <2>2, CallsStay
  <2>4. RoomLeft'
    BY <1>0, <2>2 DEF RoomLeft, CallTypes
  <2>. QED  BY <1>0, <2>1, <2>2, <2>3, <2>4 DEF FdInv
<1>. QED  BY <1>1, <1>2, <1>3, <1>4, <1>5, <1>6, <1>7, <1>8, <1>9, <1>10, <1>11, <1>12, <1>13,
              <1>14, <1>15, <1>16 DEF Next

LEMMA OwnersCounted ==
  ASSUME FdInv
  PROVE  OneOwner
<1>. DEFINE alive == {u \in Threads : status[u] # "FREE"}
            owners(h) == UNION {{t} \X {i \in Fds : fd[t][i] = h /\ ~Closing(t, i)} : t \in alive}
            own(t, h) == {i \in Fds : fd[t][i] = h /\ ~Closing(t, i)}
<1>. SUFFICES ASSUME NEW h \in Handles
              PROVE  /\ Cardinality(owners(h)) = IF files[h].vnode = NULL THEN 0 ELSE 1
                     /\ files[h].vnode = RAW => \A o \in owners(h) : status[o[1]] = "ACTIVE"
  BY DEF OneOwner
<1>0. h # NULL /\ RAW # NULL
  BY Numbers DEF RAW, NULL
<1>1. \A t \in alive : \A i \in Fds : Has(t, i) = h <=> i \in own(t, h)
  BY <1>0 DEF Has, Live
<1>2. \A t \in Threads : \A i \in Fds : Has(t, i) = h => t \in alive
  BY <1>0 DEF Has, Live
<1>3. owners(h) = UNION {{t} \X own(t, h) : t \in alive}
  OBVIOUS
<1>. HIDE DEF alive, own, owners
<1>4. \A t \in alive : t \in Threads /\ own(t, h) \in SUBSET Fds
  BY DEF alive, own
<1>5. CASE files[h].vnode = NULL
  <2>1. \A t \in alive : own(t, h) = {}
    BY <1>0, <1>1, <1>4, <1>5 DEF FdInv, Owned, NoneFreed
  <2>2. owners(h) = {}
    BY <1>3, <2>1
  <2>. QED  BY <1>0, <1>5, <2>2, FS_EmptySet
<1>6. CASE files[h].vnode # NULL
  <2>1. PICK t \in alive, i \in Fds : Has(t, i) = h
    BY <1>2, <1>6 DEF FdInv, Owned, NoneLost
  <2>2. \A u \in alive : \A j \in Fds : Has(u, j) = h => u = t /\ j = i
    BY <1>0, <1>4, <2>1 DEF FdInv, Owned, NoneShared
  <2>3. own(t, h) = {i} /\ \A u \in alive \ {t} : own(u, h) = {}
    BY <1>1, <1>4, <2>1, <2>2
  <2>4. owners(h) = {t} \X {i}
    BY <1>3, <2>3
  <2>5. owners(h) = {<<t, i>>}
    BY <2>4
  <2>6. files[h].vnode = RAW => status[t] = "ACTIVE"
    <3>. SUFFICES ASSUME files[h].vnode = RAW
                  PROVE  status[t] = "ACTIVE"
      OBVIOUS
    <3>1. PICK u \in Threads : Opening(u) /\ call[u].file = h
      BY DEF FdInv, Owned, Filled
    <3>2. PICK j \in Fds : Has(u, j) = h
      BY <3>1 DEF FdInv, Owned, Filled
    <3>3. u = t
      BY <1>2, <2>2, <3>2
    <3>. QED  BY <3>1, <3>3 DEF Opening
  <2>7. Cardinality(owners(h)) = 1
    BY <2>5, FS_Singleton
  <2>8. \A o \in owners(h) : o[1] = t
    BY <2>5
  <2>. QED  BY <1>6, <2>6, <2>7, <2>8
<1>. QED  BY <1>5, <1>6

(* Every struct file belongs to exactly one descriptor of one thread that  *)
(* has not been reaped, no such descriptor is stale but for the one that   *)
(* close clears next, and no dead thread has a struct file that open has   *)
(* not filled: what open, close, fork and kill_zombies keep, wherever      *)
(* threads are switched.  It needs that a fork overwrites what a dead      *)
(* thread left in the slot, and that no thread is killed at the end of     *)
(* open (vfs.c:74-77) or of close (syscall.c:350-351).                     *)
THEOREM EachFileOwnedOnce ==
  ASSUME ~StaleSlots, KillIn = {}
  PROVE  Spec => []OneOwner
<1>1. Init => FdInv
  BY FdInit
<1>2. FdInv /\ [Next]_vars => FdInv'
  BY FdStep
<1>3. FdInv => OneOwner
  BY OwnersCounted
<1>. QED  BY <1>1, <1>2, <1>3, PTL DEF Spec

-----------------------------------------------------------------------------
(* Calls that nobody interrupts: positions and directories. *)

(* Only one thread is inside a file call, and it has not been killed. *)
OneBusy ==
  \A t \in Threads : call[t].pc # "user" =>
    status[t] = "ACTIVE" /\ \A u \in Threads \ {t} : call[u].pc = "user"

Behind(h) == files[h].vnode \in 1 .. Len(nodes) /\ files[h].f_pos > nodes[files[h].vnode].size

(* A position is behind the end exactly during the write that will move    *)
(* the end, through a descriptor of the thread that writes.                *)
Writers ==
  /\ \A h \in Handles : Behind(h) => \E t \in Threads : call[t].pc = "write" /\ call[t].file = h
  /\ \A t \in Threads : call[t].pc = "write" =>
       Behind(call[t].file) /\ \E i \in Fds : fd[t][i] = call[t].file

(* What create and mkdir have found still holds when they insert. *)
Pending ==
  \A t \in Threads : call[t].pc \in {"create", "mkdir"} =>
    /\ Creatable(nodes, call[t].dir, call[t].name)
    /\ call[t].idx = FreeEntry(nodes, call[t].dir)

TreeInv == OneBusy /\ Writers /\ Pending /\ Exact(nodes)

AllUser == \A t \in Threads : call[t].pc = "user"
Inside  == \A h \in Handles : ~Behind(h)

(* The thread that runs is the only one inside a call. *)
LEMMA RunsAlone ==
  ASSUME ~Preempt, OneBusy, NEW t \in Threads, NEW pc, Runs(t, pc)
  PROVE  \A u \in Threads \ {t} : call[u].pc = "user"
BY DEF Runs, OneBusy

LEMMA NobodyInside ==
  ASSUME ~Preempt, TreeInv, NEW t \in Threads, Runs(t, "user")
  PROVE  AllUser /\ Inside
<1>1. AllUser
  BY RunsAlone DEF TreeInv, AllUser, Runs
<1>. QED  BY <1>1 DEF TreeInv, Writers, AllUser, Inside

LEMMA NoWriter ==
  ASSUME ~Preempt, TreeInv, NEW t \in Threads, NEW pc, pc # "write", Runs(t, pc)
  PROVE  Inside
<1>1. \A u \in Threads \ {t} : call[u].pc = "user"
  BY RunsAlone DEF TreeInv
<1>2. \A u \in Threads : call[u].pc # "write"
  BY <1>1 DEF Runs
<1>. QED  BY <1>2 DEF TreeInv, Writers, Inside

LEMMA CallsOver ==
  ASSUME AllUser', Inside', Exact(nodes')
  PROVE  TreeInv'
BY DEF AllUser, Inside, TreeInv, OneBusy, Writers, Pending

LEMMA UserAgain ==
  ASSUME CallTypes, NEW t \in Threads, \A u \in Threads \ {t} : call[u].pc = "user",
         call' = [call EXCEPT ![t] = [pc |-> "user"]]
  PROVE  AllUser'
BY DEF CallTypes, AllUser

(* t is at the end of open or of close. *)
LEMMA OnlyCall ==
  ASSUME NEW t \in Threads, call'[t].pc \in {"open", "close"},
         \A u \in Threads \ {t} : call'[u].pc = "user",
         status'[t] = "ACTIVE", Inside', Exact(nodes')
  PROVE  TreeInv'
<1>1. OneBusy'
  BY DEF OneBusy
<1>2. Writers' /\ Pending'
  BY DEF Writers, Pending, Inside
<1>. QED  BY <1>1, <1>2 DEF TreeInv

(* Sizes of the vnodes that were there stay. *)
SizesStay(ns, r) ==
  Len(ns) \in Nat /\ Len(ns) <= Len(r) /\ \A n \in 1 .. Len(ns) : r[n].size = ns[n].size

LEMMA InsideStays ==
  ASSUME FileTypes, Inside, Len(nodes') \in Nat, SizesStay(nodes, nodes'), files' = files
  PROVE  Inside'
<1>1. \A h \in Handles : files[h].vnode \in 1 .. Len(nodes') => files[h].vnode \in 1 .. Len(nodes)
  BY DEF FileTypes, SizesStay
<1>. QED  BY <1>1 DEF Inside, Behind, SizesStay

LEMMA AttachedTree ==
  ASSUME FileTypes, CallTypes, Inside, SizesStay(nodes, nodes'), Exact(nodes'),
         NEW t \in Threads, status[t] = "ACTIVE", UNCHANGED status,
         \A u \in Threads \ {t} : call[u].pc = "user", NEW n, Attach(t, n)
  PROVE  TreeInv'
<1>1. PICK h \in Handles :
        /\ files' = [files EXCEPT ![h].vnode = RAW]
        /\ call' = [call EXCEPT ![t] = [pc |-> "open", file |-> h, vnode |-> n]]
  BY DEF Attach, FreeFiles
<1>2. /\ files'[h].vnode = RAW /\ RAW \notin 1 .. Len(nodes')
      /\ \A g \in Handles : g # h => files'[g] = files[g]
  BY <1>1 DEF FileTypes, RAW
<1>3. \A g \in Handles : files[g].vnode \in 1 .. Len(nodes') => files[g].vnode \in 1 .. Len(nodes)
  BY DEF FileTypes, SizesStay, Exact, Tables
<1>4. Inside'
  BY <1>2, <1>3 DEF Inside, Behind, SizesStay
<1>5. call'[t].pc = "open" /\ \A u \in Threads \ {t} : call'[u].pc = "user"
  BY <1>1 DEF CallTypes
<1>. QED  BY <1>4, <1>5, OnlyCall

(* Files of which some are freed, and the others keep their positions. *)
LEMMA FreedInside ==
  ASSUME Inside, nodes' = nodes,
         \A h \in Handles : files'[h].vnode = NULL \/ \E g \in Handles : files'[h] = files[g]
  PROVE  Inside'
BY DEF Inside, Behind, NULL

LEMMA CopiesAre ==
  ASSUME FileTypes, NEW t \in Threads, NEW c \in Threads, Copied(t, c)
  PROVE  \A h \in Handles : \E g \in Handles : files'[h] = files[g]
<1>. DEFINE opened == {i \in Fds : fd[t][i] # NULL}
<1>1. PICK copy \in Injection(opened, FreeFiles) :
        files' = [h \in Handles |->
             IF h \in Range(copy) THEN files[fd[t][CHOOSE i \in opened : copy[i] = h]] ELSE files[h]]
  BY DEF Copied
<1>. SUFFICES ASSUME NEW h \in Handles
              PROVE  \E g \in Handles : files'[h] = files[g]
  OBVIOUS
<1>2. CASE h \in Range(copy)
  <2>1. \E i \in opened : copy[i] = h
    BY <1>2 DEF Injection, Range
  <2>2. PICK i \in opened : files'[h] = files[fd[t][i]]
    BY <1>1, <1>2, <2>1
  <2>3. fd[t][i] \in Handles
    BY DEF FileTypes
  <2>. QED  BY <2>2, <2>3
<1>3. CASE h \notin Range(copy)
  BY <1>1, <1>3
<1>. QED  BY <1>2, <1>3

(* An entry that the tests allowed, and that nobody else has made since. *)
LEMMA PendingInserted ==
  ASSUME TreeInv, CallTypes, NEW t \in Threads, NEW type \in {"dir", "file"},
         call[t].pc \in {"create", "mkdir"},
         nodes' = Insert(nodes, call[t].dir, call[t].idx, Vnode("tmpfs", type, call[t].name, 0))
  PROVE  Exact(nodes') /\ SizesStay(nodes, nodes')
<1>1. /\ call[t].dir \in 1 .. Len(nodes) /\ call[t].name \in Names
      /\ Creatable(nodes, call[t].dir, call[t].name)
      /\ call[t].idx = FreeEntry(nodes, call[t].dir)
  BY DEF TreeInv, Pending, CallTypes, Calls
<1>2. PICK node : /\ node = Vnode("tmpfs", type, call[t].name, 0)
                  /\ Empty(node) /\ node.name = call[t].name
  <2>. DEFINE new == Vnode("tmpfs", type, call[t].name, 0)
  <2>1. Empty(new) /\ new.name = call[t].name
    BY <1>1, NewDir
  <2>. HIDE DEF new
  <2>2. \E node : node = new /\ Empty(node) /\ node.name = call[t].name
    BY <2>1
  <2>. QED  BY <2>2 DEF new
<1>3. Exact(nodes) /\ nodes \in Seq(Vnodes) /\ node \in Vnodes
  BY <1>2 DEF TreeInv, Exact, Tables, Empty
<1>4. Fits(nodes, call[t].dir, call[t].idx, node)
  BY <1>1, <1>2, <1>3, FitsCreated
<1>5. nodes' = Insert(nodes, call[t].dir, call[t].idx, node)
  BY <1>2
<1>6. Exact(nodes')
  BY <1>3, <1>4, <1>5, ExactInserted
<1>7. InsertedIn(nodes', nodes, call[t].dir, call[t].idx, node)
  <2>1. InsertedIn(Insert(nodes, call[t].dir, call[t].idx, node), nodes, call[t].dir, call[t].idx, node)
    BY <1>1, <1>3, InsertIs
  <2>. QED  BY <1>5, <2>1
<1>8. SizesStay(nodes, nodes')
  <2>. Len(nodes) \in Nat
    BY <1>3
  <2>. QED  BY <1>7 DEF InsertedIn, Alike, SizesStay
<1>. QED  BY <1>6, <1>8

LEMMA TreeInit ==
  ASSUME Init
  PROVE  TreeInv
<1>1. AllUser
  BY DEF Init, AllUser
<1>2. Inside
  BY DEF Init, Inside, Behind, FreeFile, NULL
<1>3. Exact(nodes)
  BY RootExact DEF Init
<1>. QED  BY <1>1, <1>2, <1>3 DEF AllUser, Inside, TreeInv, OneBusy, Writers, Pending

(* A call that starts where nobody is inside one. *)
LEMMA OneStarts ==
  ASSUME CallTypes, AllUser, NEW t \in Threads, status[t] = "ACTIVE", UNCHANGED status,
         NEW new, call' = [call EXCEPT ![t] = new]
  PROVE  /\ OneBusy' /\ call'[t] = new
         /\ \A u \in Threads \ {t} : call'[u].pc = "user"
<1>1. call'[t] = new /\ \A u \in Threads \ {t} : call'[u].pc = "user"
  BY DEF CallTypes, AllUser
<1>2. OneBusy'
  BY <1>1 DEF OneBusy
<1>. QED  BY <1>1, <1>2

LEMMA EntryStarts ==
  ASSUME FdInv, AllUser, Inside, Exact(nodes), NEW t \in Threads, status[t] = "ACTIVE",
         NEW pc \in {"create", "mkdir"}, NEW dir, NEW name, Creatable(nodes, dir, name),
         call' = [call EXCEPT ![t] = [pc |-> pc, dir |-> dir, name |-> name,
                                      idx |-> FreeEntry(nodes, dir)]],
         UNCHANGED <<nodes, files, fd, status>>
  PROVE  TreeInv'
<1>. DEFINE new == [pc |-> pc, dir |-> dir, name |-> name, idx |-> FreeEntry(nodes, dir)]
<1>1. new.pc = pc /\ new.dir = dir /\ new.name = name /\ new.idx = FreeEntry(nodes, dir)
  OBVIOUS
<1>2. call' = [call EXCEPT ![t] = new]
  OBVIOUS
<1>. HIDE DEF new
<1>3. OneBusy' /\ call'[t] = new /\ \A u \in Threads \ {t} : call'[u].pc = "user"
  BY <1>2, OneStarts DEF FdInv
<1>4. Pending'
  BY <1>1, <1>3 DEF Pending
<1>5. Writers'
  BY <1>1, <1>3 DEF Writers, Inside, Behind
<1>. QED  BY <1>3, <1>4, <1>5 DEF TreeInv

LEMMA TreeStep ==
  ASSUME ~Preempt, ~StaleSlots, FdInv, FdInv', TreeInv, [Next]_vars
  PROVE  TreeInv'
<1>0. /\ Tables(nodes) /\ FileTypes /\ CallTypes /\ Owned /\ Exact(nodes) /\ OneBusy
      /\ Tables(nodes') /\ SizesStay(nodes, nodes)
  BY DEF FdInv, TreeInv, Tables, SizesStay
<1>1. ASSUME NEW t \in Threads, NEW path \in Paths, open(t, path)
      PROVE  TreeInv'
  <2>1. /\ Attach(t, vfs_lookup(nodes, path)) /\ nodes' = nodes
        /\ status[t] = "ACTIVE" /\ status' = status
    BY <1>1 DEF open, Runs
  <2>2. AllUser /\ Inside
    BY <1>1, NobodyInside DEF open
  <2>. QED  BY <1>0, <2>1, <2>2, AttachedTree DEF AllUser
<1>2. ASSUME NEW t \in Threads, NEW path \in Paths, open_creat(t, path)
      PROVE  TreeInv'
  <2>. DEFINE dir == vfs_lookup(nodes, Front(path))
  <2>1. dir \in 1 .. Len(nodes) /\ nodes' = nodes /\ status[t] = "ACTIVE" /\ UNCHANGED status
    BY <1>0, <1>2, PathsLead DEF open_creat, Runs
  <2>2. AllUser /\ Inside
    BY <1>2, NobodyInside DEF open_creat
  <2>3. CASE Creatable(nodes, dir, Last(path))
    <3>1. /\ call' = [call EXCEPT ![t] = [pc |-> "create", dir |-> dir, name |-> Last(path),
                                          idx |-> FreeEntry(nodes, dir)]]
          /\ UNCHANGED <<files, fd>>
      BY <1>2, <2>3 DEF open_creat
    <3>. HIDE DEF dir
    <3>. QED  BY <1>0, <2>1, <2>2, <2>3, <3>1, EntryStarts
  <2>4. CASE ~Creatable(nodes, dir, Last(path))
    <3>1. Attach(t, dir)
      BY <1>2, <2>4 DEF open_creat
    <3>. HIDE DEF dir
    <3>. QED  BY <1>0, <2>1, <2>2, <3>1, AttachedTree DEF AllUser
  <2>. QED  BY <2>3, <2>4
<1>3. ASSUME NEW t \in Threads, CreateFile(t)
      PROVE  TreeInv'
  <2>1. /\ Runs(t, "create") /\ call[t].pc = "create" /\ Attach(t, Len(nodes) + 1)
        /\ status[t] = "ACTIVE" /\ status' = status
        /\ nodes' = Insert(nodes, call[t].dir, call[t].idx, Vnode("tmpfs", "file", call[t].name, 0))
    BY <1>3 DEF CreateFile, Runs
  <2>2. Inside
    BY <2>1, NoWriter
  <2>3. Exact(nodes') /\ SizesStay(nodes, nodes')
    BY <1>0, <2>1, PendingInserted
  <2>4. \A u \in Threads \ {t} : call[u].pc = "user"
    BY <1>0, <2>1, RunsAlone
  <2>5. PICK n : n = Len(nodes) + 1
    OBVIOUS
  <2>6. Attach(t, n)
    BY <2>1, <2>5
  <2>. QED  BY <1>0, <2>1, <2>2, <2>3, <2>4, <2>6, AttachedTree
<1>4. ASSUME NEW t \in Threads, NEW path \in DirPaths, mkdir(t, path)
      PROVE  TreeInv'
  <2>. DEFINE dir == vfs_lookup(nodes, Front(path))
  <2>1. /\ Creatable(nodes, dir, Last(path)) /\ status[t] = "ACTIVE"
        /\ call' = [call EXCEPT ![t] = [pc |-> "mkdir", dir |-> dir, name |-> Last(path),
                                        idx |-> FreeEntry(nodes, dir)]]
        /\ UNCHANGED <<nodes, files, fd, status>>
    BY <1>4 DEF mkdir, Runs
  <2>2. AllUser /\ Inside
    BY <1>4, NobodyInside DEF mkdir
  <2>. HIDE DEF dir
  <2>. QED  BY <1>0, <2>1, <2>2, EntryStarts
<1>5. ASSUME NEW t \in Threads, CreateDir(t)
      PROVE  TreeInv'
  <2>1. /\ Runs(t, "mkdir") /\ call[t].pc = "mkdir" /\ files' = files
        /\ call' = [call EXCEPT ![t] = [pc |-> "user"]]
        /\ nodes' = Insert(nodes, call[t].dir, call[t].idx, Vnode("tmpfs", "dir", call[t].name, 0))
    BY <1>5 DEF CreateDir, Runs
  <2>2. Inside
    BY <2>1, NoWriter
  <2>3. Exact(nodes') /\ SizesStay(nodes, nodes')
    BY <1>0, <2>1, PendingInserted
  <2>4. Inside'
    BY <1>0, <2>1, <2>2, <2>3, InsideStays
  <2>5. AllUser'
    BY <1>0, <2>1, RunsAlone, UserAgain
  <2>. QED  BY <2>3, <2>4, <2>5, CallsOver
<1>6. ASSUME NEW t \in Threads, NEW path \in DirPaths, NEW fs \in {"tmpfs", "initramfs"},
             mount(t, path, fs)
      PROVE  TreeInv'
  <2>0. path \in Paths
    BY VfsAssumption
  <2>1. PICK d \in 1 .. Len(nodes) : d = vfs_lookup(nodes, path) /\ nodes[d].mount = NULL
    BY <1>0, <1>6, <2>0, PathsLead DEF mount
  <2>2. nodes' = Mounted(nodes, d, fs) /\ files' = files /\ call' = call
    BY <1>6, <2>1 DEF mount
  <2>3. AllUser /\ Inside
    BY <1>6, NobodyInside DEF mount
  <2>4. Exact(nodes')
    BY <1>0, <2>1, <2>2, ExactMounted
  <2>5. SizesStay(nodes, nodes')
    <3>1. nodes \in Seq(Vnodes) /\ Len(nodes) \in Nat
      BY <1>0 DEF Tables
    <3>2. MountedIn(nodes', nodes, d, fs)
      BY <2>2, <3>1, MountIs
    <3>3. Grows(nodes, nodes')
      BY <1>0, <2>2, MountGrows
    <3>. QED  BY <3>1, <3>2, <3>3 DEF MountedIn, Alike, Grows, SizesStay
  <2>6. Inside'
    BY <1>0, <2>2, <2>3, <2>5, InsideStays
  <2>7. AllUser'
    BY <2>2, <2>3 DEF AllUser
  <2>. QED  BY <2>4, <2>6, <2>7, CallsOver
<1>7. ASSUME NEW t \in Threads, NEW i \in Fds, close(t, i)
      PROVE  TreeInv'
  <2>1. /\ files' = [files EXCEPT ![fd[t][i]] = FreeFile] /\ nodes' = nodes
        /\ call' = [call EXCEPT ![t] = [pc |-> "close", fd |-> i]]
        /\ status[t] = "ACTIVE" /\ status' = status
    BY <1>7 DEF close, Runs
  <2>2. AllUser /\ Inside
    BY <1>7, NobodyInside DEF close
  <2>3. \A h \in Handles : files'[h].vnode = NULL \/ files'[h] = files[h]
    BY <1>0, <2>1 DEF FileTypes, FreeFile
  <2>4. Inside'
    BY <2>1, <2>2, <2>3, FreedInside
  <2>5. call'[t].pc = "close" /\ \A u \in Threads \ {t} : call'[u].pc = "user"
    BY <1>0, <2>1, <2>2 DEF AllUser, CallTypes
  <2>6. Exact(nodes')
    BY <1>0, <2>1 DEF Exact, Tables
  <2>. QED  BY <2>1, <2>4, <2>5, <2>6, OnlyCall
<1>8. ASSUME NEW t \in Threads, NEW i \in Fds, read(t, i)
      PROVE  TreeInv'
  <2>1. /\ Live(t) /\ call[t].pc = "user" /\ fd[t][i] # NULL /\ call' = call /\ nodes' = nodes
        /\ files' = [files EXCEPT ![fd[t][i]].f_pos = @ + ReadLength(fd[t][i], 1)]
    BY <1>8 DEF read, Runs, Live
  <2>2. AllUser /\ Inside
    BY <1>8, NobodyInside DEF read
  <2>3. PICK h \in Handles : h = fd[t][i] /\ files[h].vnode \in 1 .. Len(nodes)
    BY <1>0, <2>1, HasAll
  <2>4. PICK pos \in Nat : pos = files[h].f_pos + ReadLength(h, 1)
                           /\ pos <= nodes[files[h].vnode].size
    BY <2>3, ReadTo
  <2>5. /\ files'[h].vnode = files[h].vnode /\ files'[h].f_pos = pos
        /\ \A g \in Handles \ {h} : files'[g] = files[g]
    BY <1>0, <2>1, <2>3, <2>4 DEF FileTypes
  <2>6. nodes[files[h].vnode].size \in Nat
    <3>1. nodes[files[h].vnode] \in Vnodes
      BY <1>0, <2>3, VnodeIs DEF Tables
    <3>. QED  BY <3>1 DEF Vnodes
  <2>7. Inside'
    <3>1. ~Behind(h)'
      BY <2>1, <2>4, <2>5, <2>6 DEF Behind
    <3>2. \A g \in Handles \ {h} : ~Behind(g)'
      BY <2>1, <2>2, <2>5 DEF Inside, Behind
    <3>. QED  BY <3>1, <3>2 DEF Inside
  <2>8. AllUser'
    BY <2>1, <2>2 DEF AllUser
  <2>. QED  BY <1>0, <2>1, <2>7, <2>8, CallsOver
<1>9. ASSUME NEW t \in Threads, NEW i \in Fds, write(t, i)
      PROVE  TreeInv'
  <2>1. PICK h \in Handles : /\ h = fd[t][i] /\ files[h].f_pos \in Nat
                             /\ files[h].vnode \in 1 .. Len(nodes)
    <3>1. Live(t) /\ call[t].pc = "user" /\ fd[t][i] # NULL
      BY <1>9 DEF write, Runs, Live
    <3>. QED  BY <1>0, <3>1, HasAll DEF FileTypes
  <2>2. PICK pos \in Nat : pos = files[h].f_pos + 1
    BY <2>1
  <2>3. /\ files' = [files EXCEPT ![h].f_pos = pos] /\ nodes' = nodes /\ status[t] = "ACTIVE"
        /\ call' = IF nodes[files[h].vnode].size < pos
                   THEN [call EXCEPT ![t] = [pc |-> "write", file |-> h]] ELSE call
        /\ UNCHANGED <<nodes, fd, status>>
    BY <1>9, <2>1, <2>2 DEF write, Runs
  <2>4. AllUser /\ Inside
    BY <1>9, NobodyInside DEF write
  <2>5. /\ files'[h].vnode = files[h].vnode /\ files'[h].f_pos = pos
        /\ \A g \in Handles \ {h} : files'[g] = files[g]
    BY <1>0, <2>3 DEF FileTypes
  <2>6. PICK size \in Nat : size = nodes[files[h].vnode].size
    <3>1. nodes[files[h].vnode] \in Vnodes
      BY <1>0, <2>1, VnodeIs DEF Tables
    <3>. QED  BY <3>1 DEF Vnodes
  <2>7. \A g \in Handles \ {h} : ~Behind(g)'
    BY <2>3, <2>4, <2>5 DEF Inside, Behind
  <2>8. Behind(h)' <=> size < pos
    BY <2>1, <2>3, <2>5, <2>6 DEF Behind
  <2>9. CASE size < pos
    <3>. DEFINE new == [pc |-> "write", file |-> h]
    <3>1. new.pc = "write" /\ new.file = h /\ call' = [call EXCEPT ![t] = new]
      BY <2>3, <2>6, <2>9
    <3>. HIDE DEF new
    <3>2. OneBusy' /\ call'[t] = new /\ \A u \in Threads \ {t} : call'[u].pc = "user"
      BY <1>0, <2>3, <2>4, <3>1, OneStarts
    <3>3. Pending'
      BY <3>1, <3>2 DEF Pending
    <3>4. Writers'
      BY <2>1, <2>3, <2>7, <2>8, <2>9, <3>1, <3>2 DEF Writers
    <3>. QED  BY <1>0, <2>3, <3>2, <3>3, <3>4 DEF TreeInv
  <2>10. CASE ~(size < pos)
    <3>1. call' = call
      BY <2>3, <2>6, <2>10
    <3>2. Inside'
      BY <2>7, <2>8, <2>10 DEF Inside
    <3>3. AllUser'
      BY <2>4, <3>1 DEF AllUser
    <3>. QED  BY <1>0, <2>3, <3>2, <3>3, CallsOver
  <2>. QED  BY <2>9, <2>10
<1>10. ASSUME NEW t \in Threads, StoreSize(t)
       PROVE  TreeInv'
  <2>. DEFINE h == call[t].file
              k == files[h].vnode
              x == files[h].f_pos
  <2>1. /\ Runs(t, "write") /\ call[t].pc = "write" /\ files' = files
        /\ call' = [call EXCEPT ![t] = [pc |-> "user"]]
        /\ nodes' = [nodes EXCEPT ![k].size = x]
    BY <1>10 DEF StoreSize, Runs
  <2>2. \A u \in Threads \ {t} : call[u].pc = "user"
    BY <1>0, <2>1, RunsAlone
  <2>3. h \in Handles /\ Behind(h) /\ \A g \in Handles \ {h} : ~Behind(g)
    BY <1>0, <2>1, <2>2 DEF CallTypes, Calls, TreeInv, Writers
  <2>4. k \in 1 .. Len(nodes) /\ x \in Nat /\ x > nodes[k].size
    BY <1>0, <2>3 DEF FileTypes, Behind, NULL
  <2>. HIDE DEF h, k, x
  <2>5. SizedIn(nodes', nodes, k, x)
    <3>1. nodes \in Seq(Vnodes) /\ k \in -1 .. Len(nodes)
      BY <1>0, <2>4 DEF Tables
    <3>. QED  BY <2>1, <2>4, <3>1, SizeIs
  <2>6. Exact(nodes')
    BY <1>0, <2>4, <2>5, ExactSized
  <2>7. Inside'
    <3>0. Len(nodes') = Len(nodes)
      BY <2>5 DEF SizedIn
    <3>. SUFFICES ASSUME NEW g \in Handles, files[g].vnode \in 1 .. Len(nodes)
                  PROVE  ~(files[g].f_pos > nodes'[files[g].vnode].size)
      BY <2>1, <3>0 DEF Inside, Behind
    <3>1. files[g].vnode \in 1 .. Len(nodes) /\ files[g].f_pos \in Nat
      BY <1>0 DEF FileTypes, NULL
    <3>2. nodes'[files[g].vnode].size = IF files[g].vnode = k THEN x ELSE nodes[files[g].vnode].size
      BY <2>5, <3>1 DEF SizedIn
    <3>3. nodes[files[g].vnode].size \in Nat
      <4>1. nodes[files[g].vnode] \in Vnodes
        BY <1>0, <3>1, VnodeIs DEF Tables
      <4>. QED  BY <4>1 DEF Vnodes
    <3>4. CASE g = h
      BY <2>4, <3>2, <3>4 DEF k, x
    <3>5. CASE g # h
      BY <2>3, <2>4, <3>1, <3>2, <3>3, <3>5 DEF Behind
    <3>. QED  BY <3>4, <3>5
  <2>8. AllUser'
    BY <1>0, <2>1, <2>2, UserAgain
  <2>. QED  BY <2>6, <2>7, <2>8, CallsOver
<1>11. ASSUME NEW t \in Threads, fork(t)
       PROVE  TreeInv'
  <2>1. PICK c \in Threads : c = FreeSlot
    BY <1>11, FreeSlotIs DEF fork
  <2>2. Copied(t, c) /\ call' = [call EXCEPT ![c] = [pc |-> "user"]] /\ nodes' = nodes
    BY <1>11, <2>1 DEF fork
  <2>3. AllUser /\ Inside
    BY <1>11, NobodyInside DEF fork
  <2>4. AllUser'
    BY <1>0, <2>2, <2>3, UserAgain DEF AllUser
  <2>5. Inside'
    BY <1>0, <2>2, <2>3, CopiesAre, FreedInside
  <2>. QED  BY <1>0, <2>2, <2>4, <2>5, CallsOver
<1>12. ASSUME NEW t \in Threads, die(t)
       PROVE  TreeInv'
  <2>1. /\ status' = [status EXCEPT ![t] = "ZOMBIE"] /\ call[t].pc = "user"
        /\ nodes' = nodes /\ files' = files /\ fd' = fd /\ call' = call
    BY <1>12 DEF die
  <2>2. OneBusy'
    BY <1>0, <2>1 DEF OneBusy, FileTypes
  <2>3. Writers' /\ Pending'
    BY <2>1 DEF TreeInv, Writers, Pending, Behind
  <2>. QED  BY <1>0, <2>1, <2>2, <2>3 DEF TreeInv
<1>13. ASSUME NEW t \in Threads, reap(t)
       PROVE  TreeInv'
  <2>1. /\ status' = [status EXCEPT ![t] = "FREE"] /\ status[t] = "ZOMBIE"
        /\ nodes' = nodes /\ fd' = fd /\ call' = call
        /\ files' = [h \in Handles |-> IF \E i \in Fds : fd[t][i] = h THEN FreeFile ELSE files[h]]
    BY <1>13 DEF reap
  <2>2. call[t].pc = "user"
    BY <1>0, <2>1 DEF OneBusy
  <2>3. OneBusy'
    <3>1. \A u \in Threads \ {t} : status'[u] = status[u]
      BY <1>0, <2>1 DEF FileTypes
    <3>. QED  BY <1>0, <2>1, <2>2, <3>1 DEF OneBusy
  <2>4. Pending'
    BY <2>1 DEF TreeInv, Pending
  <2>5. \A h \in Handles : Behind(h)' => Behind(h)
    <3>1. \A h \in Handles : files'[h] = files[h] \/ files'[h].vnode = NULL
      BY <2>1 DEF FreeFile
    <3>. QED  BY <2>1, <3>1 DEF Behind, NULL
  <2>6. ASSUME NEW u \in Threads, call[u].pc = "write"
        PROVE  Behind(call[u].file)'
    <3>1. /\ u # t /\ Live(u) /\ call[u].file \in Handles /\ Behind(call[u].file)
          /\ \E i \in Fds : fd[u][i] = call[u].file
      BY <1>0, <2>1, <2>2, <2>6 DEF CallTypes, Calls, TreeInv, OneBusy, Writers, Live
    <3>2. \A i \in Fds : fd[t][i] # call[u].file
      <4>1. PICK i \in Fds : fd[u][i] = call[u].file /\ Has(u, i) = call[u].file
        BY <1>0, <2>6, <3>1, HasAll
      <4>2. \A k \in Fds : Has(t, k) = fd[t][k]
        BY <2>1, <2>2 DEF Has, Live, Closing
      <4>3. call[u].file # NULL
        BY <3>1, Numbers
      <4>4. ASSUME NEW k \in Fds, fd[t][k] = call[u].file
            PROVE  FALSE
        <5>1. Has(t, k) = Has(u, i) /\ Has(t, k) # NULL
          BY <4>1, <4>2, <4>3, <4>4
        <5>. QED  BY <1>0, <3>1, <5>1 DEF Owned, NoneShared
      <4>. QED  BY <4>4
    <3>3. files'[call[u].file] = files[call[u].file]
      BY <2>1, <3>1, <3>2
    <3>. QED  BY <2>1, <3>1, <3>3 DEF Behind
  <2>7. Writers'
    BY <2>1, <2>5, <2>6 DEF TreeInv, Writers
  <2>. QED  BY <1>0, <2>1, <2>3, <2>4, <2>7 DEF TreeInv
<1>14. CASE UNCHANGED vars
  BY <1>14 DEF vars, TreeInv, OneBusy, Writers, Pending, Behind
<1>15. ASSUME NEW t \in Threads, tmpfs_open(t)
       PROVE  TreeInv'
  <2>. DEFINE h == call[t].file
              n == call[t].vnode
  <2>1. /\ Runs(t, "open") /\ call[t].pc = "open" /\ nodes' = nodes
        /\ files' = [files EXCEPT ![h] = [vnode |-> n, f_pos |-> 0]]
        /\ call' = [call EXCEPT ![t] = [pc |-> "user"]]
    BY <1>15 DEF tmpfs_open, Runs
  <2>2. Inside /\ AllUser'
    BY <1>0, <2>1, NoWriter, RunsAlone, UserAgain
  <2>3. h \in Handles /\ n \in 1 .. Len(nodes)
    BY <1>0, <2>1, OpeningFile
  <2>. HIDE DEF h, n
  <2>4. nodes[n].size \in Nat
    <3>1. nodes[n] \in Vnodes
      BY <1>0, <2>3, VnodeIs DEF Tables
    <3>. QED  BY <3>1 DEF Vnodes
  <2>5. /\ files'[h].vnode = n /\ files'[h].f_pos = 0
        /\ \A g \in Handles \ {h} : files'[g] = files[g]
    BY <1>0, <2>1, <2>3 DEF FileTypes
  <2>6. Inside'
    BY <2>1, <2>2, <2>4, <2>5 DEF Inside, Behind
  <2>. QED  BY <1>0, <2>1, <2>2, <2>6, CallsOver
<1>16. ASSUME NEW t \in Threads, ClearFd(t)
       PROVE  TreeInv'
  <2>1. /\ Runs(t, "close") /\ nodes' = nodes /\ files' = files
        /\ call' = [call EXCEPT ![t] = [pc |-> "user"]]
    BY <1>16 DEF ClearFd
  <2>2. Inside /\ AllUser'
    BY <1>0, <2>1, NoWriter, RunsAlone, UserAgain
  <2>3. Inside'
    BY <2>1, <2>2 DEF Inside, Behind
  <2>. QED  BY <1>0, <2>1, <2>2, <2>3, CallsOver
<1>. QED  BY <1>1, <1>2, <1>3, <1>4, <1>5, <1>6, <1>7, <1>8, <1>9, <1>10, <1>11, <1>12, <1>13,
              <1>14, <1>15, <1>16 DEF Next

LEMMA PositionsInside ==
  ASSUME FdInv, TreeInv
  PROVE  ReadStaysInside
<1>. SUFFICES ASSUME NEW h \in Handles, files[h].vnode \in DOMAIN nodes,
                     ~(files[h].f_pos <= nodes[files[h].vnode].size)
              PROVE  \E t \in Threads : call[t].pc = "write" /\ call[t].file = h
  BY DEF ReadStaysInside
<1>1. files[h].vnode \in 1 .. Len(nodes) /\ files[h].f_pos \in Nat
  BY DEF FdInv, FileTypes, Tables
<1>2. nodes[files[h].vnode] \in Vnodes
  BY <1>1, VnodeIs DEF FdInv, Tables
<1>3. nodes[files[h].vnode].size \in Nat
  BY <1>2 DEF Vnodes
<1>4. Behind(h)
  BY <1>1, <1>3 DEF Behind
<1>. QED  BY <1>4 DEF TreeInv, Writers

(* The entries and mounts of exact tables, counted as the property does. *)
LEMMA LinksCounted ==
  ASSUME Exact(nodes)
  PROVE  DirectoriesExact
<1>. DEFINE Nodes   == 1 .. Len(nodes)
            used(d) == {i \in DOMAIN nodes[d].entry : nodes[d].entry[i] # NULL}
            here(n) == UNION {{d} \X {i \in used(d) : nodes[d].entry[i] = n} : d \in Nodes}
            over(n) == {<<d, -1>> : d \in {m \in Nodes : nodes[m].mount = n}}
            links(n) == here(n) \cup over(n)
<1>0. nodes \in Seq(Vnodes) /\ Len(nodes) \in Nat
  BY DEF Exact, Tables
<1>1. ASSUME NEW d \in Nodes, NEW i \in used(d), i > 0
      PROVE  i - 1 \in used(d)
  <2>1. PICK k \in Nat : DOMAIN nodes[d].entry = 0 .. k - 1
    BY <1>0, VnodeIs
  <2>2. i \in Nat /\ i - 1 \in 0 .. i /\ i - 1 \in DOMAIN nodes[d].entry
    BY <1>1, <2>1
  <2>. QED  BY <2>2 DEF Exact, UsedFirst
<1>2. ASSUME NEW d \in Nodes, NEW i \in used(d), NEW j \in used(d), i # j
      PROVE  nodes[nodes[d].entry[i]].name # nodes[nodes[d].entry[j]].name
  BY <1>2 DEF Exact, NamesDiffer
<1>3. ASSUME NEW n \in Nodes \ {1}
      PROVE  Cardinality(links(n)) = 1
  <2>0. n # NULL /\ n \in 2 .. Len(nodes)
    BY <1>0 DEF NULL
  <2>1. CASE EntryOf(nodes, n)
    <3>1. PICK d \in Nodes : \E i \in DOMAIN nodes[d].entry : nodes[d].entry[i] = n
      BY <2>1 DEF EntryOf
    <3>2. PICK i \in used(d) : nodes[d].entry[i] = n
      BY <2>0, <3>1
    <3>3. over(n) = {}
      BY <2>0, <3>2 DEF Exact, KindsApart
    <3>4. \A e \in Nodes : \A j \in used(e) : nodes[e].entry[j] = n => e = d /\ j = i
      BY <2>0, <3>2 DEF Exact, EntriesApart
    <3>5. /\ {j \in used(d) : nodes[d].entry[j] = n} = {i}
          /\ \A e \in Nodes \ {d} : {j \in used(e) : nodes[e].entry[j] = n} = {}
      BY <3>2, <3>4
    <3>6. here(n) = {d} \X {i}
      <4>. HIDE DEF used
      <4>. QED  BY <3>5
    <3>7. links(n) = {<<d, i>>}
      <4>. HIDE DEF over, here
      <4>. QED  BY <3>3, <3>6
    <3>. QED  BY <3>7, FS_Singleton
  <2>2. CASE ~EntryOf(nodes, n)
    <3>1. PICK d \in Nodes : nodes[d].mount = n
      BY <2>0, <2>2 DEF Exact, Reached, MountOf
    <3>2. \A e \in Nodes : nodes[e].mount = n => e = d
      BY <2>0, <3>1 DEF Exact, MountsApart
    <3>3. over(n) = {<<d, -1>>}
      BY <3>1, <3>2
    <3>4. \A e \in Nodes : {j \in used(e) : nodes[e].entry[j] = n} = {}
      BY <2>2 DEF EntryOf
    <3>5. here(n) = {}
      <4>. HIDE DEF used
      <4>. QED  BY <3>4
    <3>6. links(n) = {<<d, -1>>}
      <4>. HIDE DEF over, here
      <4>. QED  BY <3>3, <3>5
    <3>. QED  BY <3>6, FS_Singleton
  <2>. QED  BY <2>1, <2>2
<1>4. \A d \in Nodes :
        /\ \A i \in used(d) : i > 0 => i - 1 \in used(d)
        /\ \A i, j \in used(d) :
             i # j => nodes[nodes[d].entry[i]].name # nodes[nodes[d].entry[j]].name
  <2>. HIDE DEF used
  <2>. QED  BY <1>1, <1>2
<1>5. \A n \in Nodes \ {1} : Cardinality(links(n)) = 1
  <2>. HIDE DEF links
  <2>. QED  BY <1>3
<1>. QED  BY <1>4, <1>5, Zenon DEF DirectoriesExact

LEMMA TreeInvariant ==
  ASSUME ~Preempt, ~StaleSlots
  PROVE  Spec => [](FdInv /\ TreeInv)
<1>1. Init => FdInv /\ TreeInv
  BY FdInit, TreeInit
<1>2. FdInv /\ TreeInv /\ [Next]_vars => FdInv' /\ TreeInv'
  BY FdStep, TreeStep
<1>. QED  BY <1>1, <1>2, PTL DEF Spec

(* When no thread is switched inside a file call, the length that          *)
(* tmpfs_read computes by subtraction is never negative: close, fork and   *)
(* killed threads included, every position is in its file, except inside   *)
(* the write that is about to move the end.                                *)
THEOREM PositionsStayInside ==
  ASSUME ~Preempt, ~StaleSlots
  PROVE  Spec => []ReadStaysInside
<1>1. FdInv /\ TreeInv => ReadStaysInside
  BY PositionsInside
<1>. QED  BY <1>1, TreeInvariant, PTL

(* When no thread is switched inside a file call, create, mkdir and mount  *)
(* keep the vnodes a tree: entries without gaps and with different names,  *)
(* and one way to every vnode.                                             *)
THEOREM DirectoriesStayExact ==
  ASSUME ~Preempt, ~StaleSlots
  PROVE  Spec => []DirectoriesExact
<1>1. FdInv /\ TreeInv => DirectoriesExact
  BY LinksCounted DEF TreeInv
<1>. QED  BY <1>1, TreeInvariant, PTL

=============================================================================
