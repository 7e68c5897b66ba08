------------------------------ MODULE MCTerminal ------------------------------
(***************************************************************************)
(* Standard inputs for Terminal: every sequence of up to MaxInput of two   *)
(* letters, the backspace and the newline.                                 *)
(***************************************************************************)
EXTENDS Terminal

CONSTANT MaxInput       \* Characters of the inputs.

MCInputs == UNION {[1 .. n -> {97, 98, 8, 10}] : n \in 0 .. MaxInput}
=============================================================================
