------------------------------- MODULE Console -------------------------------
(***************************************************************************)
(* The console calls of the BIOS (src/bios/bios.c): CONIN, CONOUT and the  *)
(* line that READLINE takes from standard input, erasing what a backspace  *)
(* takes back, and that LINEGET and LINELEN give to programs.              *)
(*                                                                         *)
(* A console is what is still to be read, what was to be printed, and the  *)
(* g_shell_line_len characters of g_shell_line.  A program sees no others: *)
(* LINEGET answers 0 for them.                                             *)
(***************************************************************************)
EXTENDS Integers, Sequences, SequencesExt

CONSTANT LineMax    \* Characters g_shell_line holds (128).

ASSUME ConsoleAssumption == LineMax \in Nat \ {0}

Erase   == {8, 127}
LineEnd == {10, 13}

-----------------------------------------------------------------------------
(* The calls, as what they leave.                                          *)

\* At the end of the input CONIN answers 0.
ConinA(c)    == IF c.input = <<>> THEN 0 ELSE Head(c.input)
Conin(c)     == [c EXCEPT !.input = IF @ = <<>> THEN @ ELSE Tail(@)]
Conout(c, v) == [c EXCEPT !.output = Append(@, v)]

\* The characters of the next line, or all there are.
LineEnds(c)  == {i \in 1 .. Len(c.input) : c.input[i] \in LineEnd}
AtEof(c)     == LineEnds(c) = {}
NextLine(c)  == IF AtEof(c) THEN c.input
                ELSE SubSeq(c.input, 1, (CHOOSE i \in LineEnds(c) :
                                             \A j \in LineEnds(c) : i <= j) - 1)

\* One character of the loop in bios_readline.
Take(c, ch) ==
    IF ch \in Erase
    THEN IF c.line = <<>> THEN c
         ELSE [c EXCEPT !.line = Front(@), !.output = @ \o <<8, 32, 8>>]
    ELSE IF Len(c.line) < LineMax THEN [c EXCEPT !.line = Append(@, ch)] ELSE c

\* The console after each of the characters of t.
Taking(c, t) ==
    LET taken[n \in 0 .. Len(t)] == IF n = 0 THEN c ELSE Take(taken[n - 1], t[n])
    IN  taken

\* The console after them all.
TakeAll(c, t) == Taking(c, t)[Len(t)]

\* The terminator takes the place of the last character of a full line.
Terminate(line) == IF Len(line) = LineMax THEN [line EXCEPT ![LineMax] = 0] ELSE line

\* What is left of the console when the loop has left taken.
Leave(c, taken) ==
    [input  |-> IF AtEof(c) THEN <<>> ELSE SubSeq(c.input, Len(NextLine(c)) + 2, Len(c.input)),
     output |-> taken.output,
     line   |-> IF AtEof(c) THEN <<>> ELSE Terminate(taken.line)]

\* The line before stays.
Readline_KeepsLine(c) == Leave(c, TakeAll(c, NextLine(c)))

\* bios_readline.  At the end of the input what was typed is lost.
Readline(c) == Leave(c, TakeAll([c EXCEPT !.line = <<>>], NextLine(c)))

\* bios_lineget and bios_linelen.
Lineget(c, i) == IF i < Len(c.line) /\ i < LineMax THEN c.line[i + 1] ELSE 0
Linelen(c)    == IF Len(c.line) > 255 THEN 255 ELSE Len(c.line)
=============================================================================
