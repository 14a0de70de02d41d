------------------------------- MODULE MCVfs -------------------------------
(***************************************************************************)
(* Instances of Vfs for TLC: one or two threads, names a and b in the      *)
(* root, which has room for one of them, and two names below a, one of     *)
(* them a file of initramfs.                                               *)
(***************************************************************************)
EXTENDS Vfs

MCPaths == {<<"a">>, <<"b">>, <<"a", "f">>, <<"a", "prog">>}

MCDirPaths == {<<"a">>}

MCArchive == <<"prog">>
=============================================================================
