---------------------------- MODULE MCFileSystem ----------------------------
(***************************************************************************)
(* Small disks for FileSystem: values of the constants that a cfg cannot   *)
(* write.                                                                  *)
(***************************************************************************)
EXTENDS FileSystem

CONSTANTS a, b, bad

\* Three spellings: one name in two cases, and a string that is no 8.3 name.
MCCpmName == [s \in {"a.c", "A.C", "b.c", "no name"} |->
                CASE s \in {"a.c", "A.C"} -> a
                  [] s = "b.c"            -> b
                  [] OTHER                -> bad]
=============================================================================
