------------------------------- MODULE Terminal -------------------------------
(***************************************************************************)
(* A program at its terminal: the console calls of Console, what they      *)
(* print going character by character through the ring of OutputRing, and  *)
(* the kernel (src/kernel/kernel.c) that prints what is in the ring when a *)
(* call is over.                                                           *)
(***************************************************************************)
EXTENDS Console, OutputRing, FiniteSets

CONSTANTS
    Inputs,         \* What standard input may hold.
    MaxOutput       \* Characters programs print themselves: a bound.

ASSUME TerminalAssumption ==
    /\ Inputs \subseteq Seq(1 .. 255) /\ MaxOutput \in Nat
    /\ Nul = 0 /\ {8, 32} \subseteq Chars /\ Chars \subseteq 1 .. 255

VARIABLES
    con,        \* input, output, line.
    a,          \* Register A after the call.
    on,         \* "off", "on", or "halted" by a READLINE that has met the
                \* end of the input.
    pushed,     \* How much of con.output has been pushed.
    printed,    \* What the kernel has printed.
    typed,      \* What the last READLINE took, without the newline, and the
    longest     \* most that a call was to print (histories).

ringVars     == <<buf, head, tail, call>>
terminalVars == <<ringVars, con, a, on, pushed, printed, typed, longest>>

TerminalInit ==
    /\ Init
    /\ con \in [input : Inputs, output : {<<>>}, line : {<<>>}]
    /\ a = 0 /\ on = "off" /\ pushed = 0 /\ printed = <<>>
    /\ typed = <<>> /\ longest = 0

\* kernel_init.
BOOT == /\ on = "off"
        /\ Reset /\ on' = "on"
        /\ UNCHANGED <<con, a, pushed, printed, typed, longest>>

\* The next call may come before the last one's output is printed.
Ready_NotDrained == on = "on" /\ pushed = Len(con.output)

\* No call is being served, and nothing is left in the ring.
Ready == on = "on" /\ pushed = Len(con.output) /\ ~Pending

\* A call leaves the console c, and prints the rest of its output.
Leaves(c) ==
    /\ con' = c
    /\ longest' = LET n == Len(c.output) - Len(con.output)
                  IN  IF n > longest THEN n ELSE longest
    /\ UNCHANGED <<ringVars, pushed, printed>>

CONIN == /\ Ready /\ Leaves(Conin(con)) /\ a' = ConinA(con)
         /\ UNCHANGED <<on, typed>>

CONOUT == /\ Ready /\ Len(con.output) < MaxOutput
          /\ \E ch \in Chars : Leaves(Conout(con, ch))
          /\ UNCHANGED <<a, on, typed>>

READLINE == /\ Ready /\ Leaves(Readline(con))
            /\ on' = IF AtEof(con) THEN "halted" ELSE "on"
            /\ typed' = IF AtEof(con) THEN <<>> ELSE NextLine(con)
            /\ UNCHANGED a

LINEGET == /\ Ready /\ Leaves(con)
           /\ \E k \in 0 .. LineMax + 1 : a' = Lineget(con, k)
           /\ UNCHANGED <<on, typed>>

LINELEN == Ready /\ Leaves(con) /\ a' = Linelen(con) /\ UNCHANGED <<on, typed>>

\* out_queue_push, for each character of a call.
PUSH == /\ pushed < Len(con.output)
        /\ Push(con.output[pushed + 1])
        /\ pushed' = pushed + 1
        /\ UNCHANGED <<con, a, on, printed, typed, longest>>

\* kernel_drain_bios_output, once the call is over.
DRAIN == /\ pushed = Len(con.output) /\ Pending
         /\ Get
         /\ printed' = Append(printed, call'.ch)
         /\ UNCHANGED <<con, a, on, pushed, typed, longest>>

\* A CPU that has halted makes no more calls.
Over == on = "halted" /\ UNCHANGED terminalVars

TerminalNext ==
    \/ BOOT \/ CONIN \/ CONOUT \/ READLINE \/ LINEGET \/ LINELEN \/ PUSH \/ DRAIN
    \/ Over

TerminalSpec == TerminalInit /\ [][TerminalNext]_terminalVars

-----------------------------------------------------------------------------
(* What must hold.                                                         *)

\* The erasing characters of t after the one at i, up to the one at j.
Erased(t, i, j) == {x \in i + 1 .. j : t[x] \in Erase}

\* They do not outnumber the other characters.
Balanced(t, i, j) == 2 * Cardinality(Erased(t, i, j)) <= j - i

\* The characters that stay of the first m of t: the backspaces after them
\* never outnumber the characters after them.
Stays(t, i, m) == t[i] \notin Erase /\ \A j \in i + 1 .. m : Balanced(t, i, j)
Kept(t, m) == {i \in 1 .. m : Stays(t, i, m)}

\* The k-th of a set of numbers.
Nth(S, k) == CHOOSE i \in S : Cardinality({j \in S : j < i}) = k - 1

\* What a typist means by t: the characters that stay.
Meant(t) == LET kept == Kept(t, Len(t))
            IN  [k \in 1 .. Cardinality(kept) |-> t[Nth(kept, k)]]

\* What LINEGET gives, up to LINELEN.
Given == [k \in 1 .. Linelen(con) |-> Lineget(con, k - 1)]

\* The longest the line was while it was typed.
Fits(t, n) == \A j \in 1 .. Len(t) : Cardinality(Kept(t, j)) <= n

\* However much is typed, the line keeps its length and its beginning: only
\* its last character may be missing.
BeginsAsTyped ==
    typed # <<>> /\ (\A i \in 1 .. Len(typed) : typed[i] \notin Erase) =>
        /\ Linelen(con) = IF Len(typed) < LineMax THEN Len(typed) ELSE LineMax
        /\ \A k \in 1 .. Linelen(con) : k < LineMax => Given[k] = typed[k]

\* Line editing: of a line that never fills the buffer a program gets the
\* characters that no backspace took back, whatever lines came before, and
\* of a longer one its beginning.
GetsWhatWasMeant ==
    /\ Fits(typed, LineMax - 1) => Given = Meant(typed)
    /\ BeginsAsTyped

\* The same of lines that may just fill the buffer: the input line buffer
\* holds 128 characters (.cursor/spec.md:300).
GetsFullLine == Fits(typed, LineMax) => Given = Meant(typed)

\* If what any one call prints fits in the ring, everything is printed, in
\* the order of the calls and the characters, across any number of calls.
PrintsInOrder == longest < Capacity => printed \o Contents = SubSeq(con.output, 1, pushed)
=============================================================================
