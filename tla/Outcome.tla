------------------------------ MODULE Outcome ------------------------------
(***************************************************************************)
(* States that carry whether all has gone well so far, in ok: how Parser   *)
(* and Codegen say that the functions of compiler.c hand a -1 up to the    *)
(* top as soon as one of them meets it.                                    *)
(***************************************************************************)

Fail(s) == [s EXCEPT !.ok = FALSE]

\* What is done after s, unless it failed.
Then(s, Next(_)) == IF s.ok THEN Next(s) ELSE s
=============================================================================
