------------------------------ MODULE MCKernel ------------------------------
(***************************************************************************)
(* A machine with one source file, a, and its program, b, for Kernel:      *)
(* values of the constants that a cfg cannot write.                        *)
(***************************************************************************)
EXTENDS Kernel

MCNames   == {<<"a">>, <<"b">>}
MCComName == [n \in {<<"a">>} |-> <<"b">>]
MCTyped   == MCNames \cup {<<>>}
=============================================================================
