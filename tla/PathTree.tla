------------------------------ MODULE PathTree ------------------------------
(***************************************************************************)
(* What the file system layer of kernel/src/vfs.c shows to programs: a     *)
(* tree of paths.  A new path appears only in a directory that can be      *)
(* written; a path that exists keeps its kind and its bytes until a mount  *)
(* on it, or above it, puts a new root in its place.  Vnodes, directory    *)
(* entries, descriptors and mount pointers are not visible here; module    *)
(* Vfs implements this specification.                                      *)
(***************************************************************************)
EXTENDS Integers, Sequences

CONSTANTS
  Paths,    \* the paths that programs use, as sequences of names
  Archive   \* the names of the files in initramfs

VARIABLE tree  \* the existing paths, with their kind, file system and size

(* p lies below q. *)
Below(p, q) == Len(p) > Len(q) /\ SubSeq(p, 1, Len(q)) = q

(* The paths below p that a fresh file system shows. *)
Content(p, fs) ==
  IF fs = "initramfs" THEN {q \in Paths : \E f \in Archive : q = Append(p, f)} ELSE {}

Directory(fs) == [type |-> "dir", fs |-> fs, size |-> 0]

EmptyFile == [type |-> "file", fs |-> "tmpfs", size |-> 0]

ArchiveFile == [type |-> "file", fs |-> "initramfs", size |-> 1]

(* The tree that init_rootfs builds. *)
Init ==
  tree = [p \in {q \in Paths : \/ q \in {<<"initramfs">>, <<"dev">>}
                               \/ q \in {<<"dev", "uart">>, <<"dev", "framebuffer">>}
                               \/ q \in Content(<<"initramfs">>, "initramfs")} |->
            CASE p = <<"initramfs">> -> Directory("initramfs")
              [] p = <<"dev">> -> Directory("tmpfs")
              [] p[1] = "dev" -> EmptyFile
              [] OTHER -> ArchiveFile]

(* What a tree may become in one step. *)

Create(t, p, node) ==
  [q \in DOMAIN t \cup {p} |-> IF q = p THEN node ELSE t[q]]

CanCreate(t, p) ==
  LET parent == SubSeq(p, 1, Len(p) - 1) IN
  /\ p \notin DOMAIN t
  /\ parent # <<>> => /\ parent \in DOMAIN t
                      /\ t[parent].type = "dir" /\ t[parent].fs = "tmpfs"

Grows(t, u, p) ==
  /\ t[p].fs = "tmpfs"
  /\ DOMAIN u = DOMAIN t /\ u[p].size > t[p].size
  /\ u = [t EXCEPT ![p].size = u[p].size]

Mount(t, p, fs) ==
  [q \in {r \in DOMAIN t : ~Below(r, p)} \cup Content(p, fs) |->
     CASE q = p -> Directory(fs)
       [] q \in Content(p, fs) -> ArchiveFile
       [] OTHER -> t[q]]

Step(t, u) ==
  \/ u = t
  \/ \E p \in DOMAIN u \ DOMAIN t :
       /\ CanCreate(t, p)
       /\ u \in {Create(t, p, EmptyFile), Create(t, p, Directory("tmpfs"))}
  \/ \E p \in DOMAIN t : \/ Grows(t, u, p)
                         \/ u \in {Mount(t, p, "tmpfs"), Mount(t, p, "initramfs")}

Next == Step(tree, tree')

Spec == Init /\ [][Next]_tree
=============================================================================
