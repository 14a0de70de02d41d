-------------------------------- MODULE Vfs --------------------------------
(***************************************************************************)
(* The virtual file system (kernel/src/vfs.c), tmpfs (kernel/src/tmpfs.c), *)
(* initramfs (kernel/src/initramfs.c) and the descriptor tables that the   *)
(* system calls (kernel/src/syscall.c), fork and kill_zombies              *)
(* (kernel/src/sched.c) keep for each thread.                              *)
(*                                                                         *)
(* File calls run with interrupts enabled: creating an entry is a scan and *)
(* later an insertion, a write is a copy and later an update of the size,  *)
(* open stores a struct file in the descriptor and later fills it, and     *)
(* close frees one and later clears the descriptor.  mount, fork and       *)
(* reaping run masked and are one step each.  Paths are absolute; pointers *)
(* are indices, with 0 for NULL.                                           *)
(*                                                                         *)
(* Outside the model: opening a missing file without O_CREAT (the code     *)
(* then uses an uninitialised pointer), file systems that are not          *)
(* registered, the three descriptors of the console that thread_exec opens *)
(* and programs keep, and the bytes themselves.                            *)
(***************************************************************************)
EXTENDS Integers, Sequences, FiniteSets, SequencesExt

CONSTANTS
  Threads,        \* the slots of the thread table, 1 .. n
  MAX_FD,         \* descriptors per thread, those of the console apart
  MAX_DIR_ENTRY,  \* entries of a tmpfs directory
  Paths,          \* the paths that programs use, as sequences of names
  DirPaths,       \* those on which they call mkdir and mount
  Archive,        \* the files of initramfs, in the order of the archive
  Preempt,        \* threads may be switched inside a file call
  KillIn,         \* the calls, of "open" and "close", in which they may be killed
  StaleSlots,     \* a fork may reuse a slot with descriptors it does not overwrite
  MAX_NODES,      \* bound: vnodes ever created
  MAX_SIZE        \* bound: bytes of a file (the code does not check its own)

ASSUME VfsAssumption ==
  /\ IsFiniteSet(Threads) /\ Threads = 1 .. Cardinality(Threads)
  /\ MAX_FD \in Nat \ {0}
  /\ MAX_DIR_ENTRY \in Nat /\ MAX_DIR_ENTRY >= 2
  /\ Paths \subseteq Seq(STRING) \ {<<>>} /\ DirPaths \subseteq Paths
  /\ Archive \in Seq(STRING)   \* every file is in the archive once
  /\ \A i, j \in DOMAIN Archive : Archive[i] = Archive[j] => i = j
  /\ Preempt \in BOOLEAN /\ StaleSlots \in BOOLEAN
  /\ KillIn \subseteq {"open", "close"}

NULL    == 0
Entries == 0 .. MAX_DIR_ENTRY - 1
Fds     == 0 .. MAX_FD - 1
Handles == 1 .. Cardinality(Threads) * MAX_FD

VARIABLES
  nodes,   \* the vnodes with their inodes; nodes[1] is rootfs->root
  files,   \* the struct file allocations; one with vnode NULL is free
  fd,      \* file_descriptors_table of each thread
  status,  \* as in module Sched
  call     \* what each thread does: "user", or the file call it is inside

vars == <<nodes, files, fd, status, call>>

-----------------------------------------------------------------------------
(* Vnodes. *)

NoEntries == [i \in Entries |-> NULL]

NoName == ""   \* of the root of a file system

(* tmpfs_create_vnode and initramfs_create_vnode; a device is a file of    *)
(* tmpfs whose file operations vfs_mknod has replaced.                     *)
Vnode(fs, type, name, size) ==
  [fs |-> fs, type |-> type, name |-> name, entry |-> NoEntries,
   mount |-> NULL, size |-> size, device |-> FALSE]

(* For each vnode, the root of the file system mounted on it, or itself. *)
Up(ns) == [n \in 0 .. Len(ns) |-> IF n = NULL \/ ns[n].mount = NULL THEN n ELSE ns[n].mount]

(* vfs_lookup's loop over mounts: the root mounted last on n, or n. *)
Follow(ns, n) ==
  LET top[i \in 0 .. Len(ns)] == IF i = 0 THEN n ELSE Up(ns)[top[i - 1]]
  IN  top[Len(ns)]

(* tmpfs_lookup and initramfs_lookup: the entry of directory d with that   *)
(* name, or NULL; a file has no entries.                                   *)
Child(ns, d, name) ==
  LET used  == {i \in DOMAIN ns[d].entry : \A j \in 0 .. i : ns[d].entry[j] # NULL}
      found == {i \in used : ns[ns[d].entry[i]].name = name}
  IN  IF found = {} THEN NULL
      ELSE ns[d].entry[CHOOSE i \in found : \A j \in found : i <= j]

(* Where one component of a path leads from each vnode. *)
Component(ns, name) ==
  [n \in 0 .. Len(ns) |-> IF n = NULL THEN NULL ELSE Follow(ns, Child(ns, n, name))]

(* vfs_lookup: NULL when it returns -1. *)
vfs_lookup(ns, path) ==
  LET at[i \in 0 .. Len(path)] == IF i = 0 THEN 1 ELSE Component(ns, path[i])[at[i - 1]]
  IN  at[Len(path)]

(* Mutant of Creatable: the type of the directory is not tested. *)
CreatableInFile(ns, d, name) ==
  /\ ns[d].fs = "tmpfs"
  /\ Child(ns, d, name) = NULL
  /\ \E i \in Entries : ns[d].entry[i] = NULL

(* tmpfs_create and tmpfs_mkdir go on to insert an entry; initramfs_create *)
(* and initramfs_mkdir never do.                                           *)
Creatable(ns, d, name) ==
  /\ ns[d].fs = "tmpfs" /\ ns[d].type = "dir"
  /\ Child(ns, d, name) = NULL
  /\ \E i \in Entries : ns[d].entry[i] = NULL

(* Mutant of FreeEntry: the search starts at the second entry. *)
FreeEntrySecond(ns, d) ==
  CHOOSE i \in Entries : ns[d].entry[i] = NULL /\ i > 0 /\ \A j \in 1 .. i - 1 : ns[d].entry[j] # NULL

FreeEntry(ns, d) ==
  CHOOSE i \in Entries : ns[d].entry[i] = NULL /\ \A j \in 0 .. i - 1 : ns[d].entry[j] # NULL

(* The vnodes after node has become entry i of directory d. *)
Insert(ns, d, i, node) ==
  Append([ns EXCEPT ![d].entry[i] = Len(ns) + 1], node)

(* tmpfs_setup_mount, initramfs_setup_mount and the assignment of vfs_mount *)
(* for directory d.                                                         *)
Mounted(ns, d, fs) ==
  LET root  == Len(ns) + 1
      bare  == Append([ns EXCEPT ![d].mount = root], Vnode(fs, "dir", NoName, 0))
      slots == [i \in 0 .. Len(Archive) - 1 |-> root + 1 + i]
      data  == [i \in 1 .. Len(Archive) |-> Vnode("initramfs", "file", Archive[i], 1)]
  IN  IF fs = "initramfs" THEN [bare EXCEPT ![root].entry = slots] \o data ELSE bare

-----------------------------------------------------------------------------
(* init_rootfs. *)
RootTree ==
  LET root == <<Vnode("tmpfs", "dir", NoName, 0)>>
      ram  == Insert(root, 1, 0, Vnode("tmpfs", "dir", "initramfs", 0))
      ram2 == Mounted(ram, 2, "initramfs")
      dev  == Len(ram2) + 1
      dirs == Insert(ram2, 1, 1, Vnode("tmpfs", "dir", "dev", 0))
      uart == Insert(dirs, dev, 0, [Vnode("tmpfs", "file", "uart", 0) EXCEPT !.device = TRUE])
  IN  Insert(uart, dev, 1, [Vnode("tmpfs", "file", "framebuffer", 0) EXCEPT !.device = TRUE])

FreeFile == [vnode |-> NULL, f_pos |-> 0]

RAW == -1   \* the vnode of a struct file that is allocated and not filled

(* The first thread, whose console descriptors are left out. *)
Init ==
  /\ nodes = RootTree
  /\ files = [h \in Handles |-> FreeFile]
  /\ fd = [t \in Threads |-> [i \in Fds |-> NULL]]
  /\ status = [t \in Threads |-> IF t = 1 THEN "ACTIVE" ELSE "FREE"]
  /\ call = [t \in Threads |-> [pc |-> "user"]]

(* Thread t makes a file call, or goes on with it. *)
Runs(t, pc) ==
  /\ status[t] = "ACTIVE" /\ call[t].pc = pc
  /\ Preempt \/ \A u \in Threads \ {t} : status[u] = "ACTIVE" => call[u].pc = "user"

-----------------------------------------------------------------------------
(* open. *)

FreeFd(t) == CHOOSE i \in Fds : fd[t][i] = NULL /\ \A j \in 0 .. i - 1 : fd[t][j] # NULL

(* The allocations kmalloc may return; there is one for each descriptor. *)
FreeFiles == {h \in Handles : files[h].vnode = NULL}

(* A new struct file, to be filled for vnode n, is stored in the first     *)
(* free descriptor.                                                        *)
Attach(t, n) ==
  \E h \in FreeFiles :
    /\ files' = [files EXCEPT ![h].vnode = RAW]
    /\ fd' = [fd EXCEPT ![t][FreeFd(t)] = h]
    /\ call' = [call EXCEPT ![t] = [pc |-> "open", file |-> h, vnode |-> n]]

(* open of a path that is found. *)
open(t, path) ==
  /\ Runs(t, "user")
  /\ \E i \in Fds : fd[t][i] = NULL
  /\ vfs_lookup(nodes, path) # NULL
  /\ Attach(t, vfs_lookup(nodes, path))
  /\ UNCHANGED <<nodes, status>>

(* The end of open: tmpfs_open and initramfs_open fill the struct file. *)
tmpfs_open(t) ==
  /\ Runs(t, "open")
  /\ files' = [files EXCEPT ![call[t].file] = [vnode |-> call[t].vnode, f_pos |-> 0]]
  /\ call' = [call EXCEPT ![t] = [pc |-> "user"]]
  /\ UNCHANGED <<nodes, fd, status>>

(* open with O_CREAT of a path that is not found.  When create refuses,    *)
(* its result is not looked at, and the directory is opened in its place.  *)
open_creat(t, path) ==
  LET dir == vfs_lookup(nodes, Front(path)) IN
  /\ Runs(t, "user")
  /\ \E i \in Fds : fd[t][i] = NULL
  /\ vfs_lookup(nodes, path) = NULL /\ dir # NULL
  /\ IF Creatable(nodes, dir, Last(path))
     THEN /\ call' = [call EXCEPT ![t] = [pc |-> "create", dir |-> dir, name |-> Last(path),
                                          idx |-> FreeEntry(nodes, dir)]]
          /\ UNCHANGED <<files, fd>>
     ELSE Attach(t, dir)
  /\ UNCHANGED <<nodes, status>>

(* The end of tmpfs_create, and what the open that called it goes on with. *)
CreateFile(t) ==
  /\ Runs(t, "create")
  /\ Len(nodes) < MAX_NODES
  /\ nodes' = Insert(nodes, call[t].dir, call[t].idx, Vnode("tmpfs", "file", call[t].name, 0))
  /\ Attach(t, Len(nodes) + 1)
  /\ UNCHANGED status

(* mkdir, up to the insertion; a refusal changes nothing. *)
mkdir(t, path) ==
  LET dir == vfs_lookup(nodes, Front(path)) IN
  /\ Runs(t, "user")
  /\ dir # NULL /\ Creatable(nodes, dir, Last(path))
  /\ call' = [call EXCEPT ![t] = [pc |-> "mkdir", dir |-> dir, name |-> Last(path),
                                  idx |-> FreeEntry(nodes, dir)]]
  /\ UNCHANGED <<nodes, files, fd, status>>

CreateDir(t) ==
  /\ Runs(t, "mkdir")
  /\ Len(nodes) < MAX_NODES
  /\ nodes' = Insert(nodes, call[t].dir, call[t].idx, Vnode("tmpfs", "dir", call[t].name, 0))
  /\ call' = [call EXCEPT ![t] = [pc |-> "user"]]
  /\ UNCHANGED <<files, fd, status>>

(* mount; the directory may be one on which a file system is mounted. *)
mount(t, path, fs) ==
  LET dir == vfs_lookup(nodes, path) IN
  /\ Runs(t, "user")
  /\ dir # NULL
  /\ Len(Mounted(nodes, dir, fs)) <= MAX_NODES
  /\ nodes' = Mounted(nodes, dir, fs)
  /\ UNCHANGED <<files, fd, status, call>>

-----------------------------------------------------------------------------
(* close, read, write. *)

(* close, up to vfs_close, which frees the struct file. *)
close(t, i) ==
  /\ Runs(t, "user")
  /\ fd[t][i] # NULL
  /\ files' = [files EXCEPT ![fd[t][i]] = FreeFile]
  /\ call' = [call EXCEPT ![t] = [pc |-> "close", fd |-> i]]
  /\ UNCHANGED <<nodes, fd, status>>

(* The end of close. *)
ClearFd(t) ==
  /\ Runs(t, "close")
  /\ fd' = [fd EXCEPT ![t][call[t].fd] = NULL]
  /\ call' = [call EXCEPT ![t] = [pc |-> "user"]]
  /\ UNCHANGED <<nodes, files, status>>

(* tmpfs_read and initramfs_read: how far the position moves. *)
ReadLength(h, len) ==
  LET size == nodes[files[h].vnode].size IN
  IF len + files[h].f_pos > size THEN size - files[h].f_pos ELSE len

read(t, i) ==
  LET h == fd[t][i] IN
  /\ Runs(t, "user")
  /\ h # NULL /\ ~nodes[files[h].vnode].device
  /\ files' = [files EXCEPT ![h].f_pos = @ + ReadLength(h, 1)]
  /\ UNCHANGED <<nodes, fd, status, call>>

(* tmpfs_write, up to the test of the size; initramfs_write refuses. *)
write(t, i) ==
  LET h   == fd[t][i]
      pos == files[h].f_pos + 1
  IN  /\ Runs(t, "user")
      /\ h # NULL
      /\ nodes[files[h].vnode].fs = "tmpfs" /\ ~nodes[files[h].vnode].device
      /\ pos <= MAX_SIZE
      /\ files' = [files EXCEPT ![h].f_pos = pos]
      /\ call' = IF nodes[files[h].vnode].size < pos
                 THEN [call EXCEPT ![t] = [pc |-> "write", file |-> h]] ELSE call
      /\ UNCHANGED <<nodes, fd, status>>

(* Mutant of StoreSize: the size stays. *)
StoreSizeNever(t) ==
  /\ Runs(t, "write")
  /\ call' = [call EXCEPT ![t] = [pc |-> "user"]]
  /\ UNCHANGED <<nodes, files, fd, status>>

(* The update of the size that write found too small. *)
StoreSize(t) ==
  LET f == files[call[t].file] IN
  /\ Runs(t, "write")
  /\ nodes' = [nodes EXCEPT ![f.vnode].size = f.f_pos]
  /\ call' = [call EXCEPT ![t] = [pc |-> "user"]]
  /\ UNCHANGED <<files, fd, status>>

-----------------------------------------------------------------------------
(* Threads come and go. *)

FreeSlot == CHOOSE t \in Threads : status[t] = "FREE" /\ \A u \in 1 .. t - 1 : status[u] # "FREE"

(* Mutant of Copied: parent and child share the struct file. *)
CopiedPointers(t, c) ==
  /\ fd' = [fd EXCEPT ![c] = [i \in Fds |-> IF fd[t][i] # NULL THEN fd[t][i] ELSE fd[c][i]]]
  /\ UNCHANGED files

(* fork's copies of the descriptors of t for its child c: each open one    *)
(* gets a struct file of its own, the other entries of the child stay.     *)
Copied(t, c) ==
  LET opened == {i \in Fds : fd[t][i] # NULL} IN
  \E copy \in Injection(opened, FreeFiles) :
    /\ fd' = [fd EXCEPT ![c] = [i \in Fds |-> IF i \in opened THEN copy[i] ELSE fd[c][i]]]
    /\ files' = [h \in Handles |->
         IF h \in Range(copy) THEN files[fd[t][CHOOSE i \in opened : copy[i] = h]] ELSE files[h]]

fork(t) ==
  /\ Runs(t, "user")
  /\ \E c \in Threads : status[c] = "FREE"
  /\ StaleSlots \/ \A i \in Fds : fd[FreeSlot][i] # NULL => fd[t][i] # NULL
  /\ Copied(t, FreeSlot)
  /\ status' = [status EXCEPT ![FreeSlot] = "ACTIVE"]
  /\ call' = [call EXCEPT ![FreeSlot] = [pc |-> "user"]]
  /\ UNCHANGED nodes

(* exit of t, or kill of t by another thread: at any point of its call,    *)
(* but that the KillIn of an instance may leave out the ends of open and   *)
(* close.                                                                  *)
die(t) ==
  /\ status[t] = "ACTIVE"
  /\ Preempt \/ call[t].pc = "user"
  /\ call[t].pc \in {"open", "close"} => call[t].pc \in KillIn
  /\ status' = [status EXCEPT ![t] = "ZOMBIE"]
  /\ UNCHANGED <<nodes, files, fd, call>>

(* What kill_zombies does with a dead thread's descriptors: it closes them *)
(* and leaves the table as it is.  (It never meets a thread that died with *)
(* the CPU; here any dead thread may be reaped.)                           *)
reap(t) ==
  /\ status[t] = "ZOMBIE"
  /\ files' = [h \in Handles |-> IF \E i \in Fds : fd[t][i] = h THEN FreeFile ELSE files[h]]
  /\ status' = [status EXCEPT ![t] = "FREE"]
  /\ UNCHANGED <<nodes, fd, call>>

-----------------------------------------------------------------------------
Next ==
  \E t \in Threads :
    \/ fork(t) \/ die(t) \/ reap(t)
    \/ CreateFile(t) \/ tmpfs_open(t) \/ CreateDir(t) \/ StoreSize(t) \/ ClearFd(t)
    \/ \E i \in Fds : close(t, i) \/ read(t, i) \/ write(t, i)
    \/ \E p \in Paths : open(t, p) \/ open_creat(t, p)
    \/ \E p \in DirPaths :
         mkdir(t, p) \/ \E fs \in {"tmpfs", "initramfs"} : mount(t, p, fs)

Spec == Init /\ [][Next]_vars

-----------------------------------------------------------------------------
(* Properties. *)

(* A directory's used entries come first, as the lookups assume, with      *)
(* different names, and no vnode is reached from two places.               *)
DirectoriesExact ==
  LET Nodes   == 1 .. Len(nodes)
      used(d) == {i \in DOMAIN nodes[d].entry : nodes[d].entry[i] # NULL}
      links(n) == (UNION {{d} \X {i \in used(d) : nodes[d].entry[i] = n} : d \in Nodes})
                   \cup {<<d, -1>> : d \in {m \in Nodes : nodes[m].mount = n}}
  IN  /\ \A d \in Nodes :
           /\ \A i \in used(d) : i > 0 => i - 1 \in used(d)
           /\ \A i, j \in used(d) :
                i # j => nodes[nodes[d].entry[i]].name # nodes[nodes[d].entry[j]].name
      /\ \A n \in Nodes \ {1} : Cardinality(links(n)) = 1

(* No position is behind the end of its file, except inside the write that *)
(* is about to move the end: the length that tmpfs_read computes by        *)
(* subtraction is never negative.                                          *)
ReadStaysInside ==
  \A h \in Handles :
    files[h].vnode \in DOMAIN nodes =>
      \/ files[h].f_pos <= nodes[files[h].vnode].size
      \/ \E t \in Threads : call[t].pc = "write" /\ call[t].file = h

(* The descriptor of a struct file that t has freed and is about to clear. *)
Closing(t, i) == status[t] = "ACTIVE" /\ call[t].pc = "close" /\ call[t].fd = i

(* Every struct file belongs to exactly one descriptor of one thread that  *)
(* has not been reaped; but for the one that close is about to clear, no   *)
(* descriptor of such a thread points to a struct file that has been       *)
(* freed; and no dead thread has one that was not filled: kill_zombies     *)
(* frees each struct file once, through a pointer that open has set.       *)
OneOwner ==
  LET alive     == {t \in Threads : status[t] # "FREE"}
      owners(h) == UNION {{t} \X {i \in Fds : fd[t][i] = h /\ ~Closing(t, i)} : t \in alive}
  IN  \A h \in Handles :
        /\ Cardinality(owners(h)) = IF files[h].vnode = NULL THEN 0 ELSE 1
        /\ files[h].vnode = RAW => \A o \in owners(h) : status[o[1]] = "ACTIVE"

(* The tree as programs see it: what each path that exists leads to. *)
Shown(n) == [type |-> nodes[n].type, fs |-> nodes[n].fs, size |-> nodes[n].size]

Tree == INSTANCE PathTree WITH
  Archive <- {Archive[i] : i \in DOMAIN Archive},
  tree <- LET at == [p \in Paths |-> vfs_lookup(nodes, p)]
          IN  [p \in {q \in Paths : at[q] # NULL} |-> Shown(at[p])]

(* Programs see a tree of paths that only grows, except where a mount puts *)
(* a new root: nothing that exists vanishes, changes kind or shrinks.      *)
ImplementsPathTree == Tree!Spec
=============================================================================
