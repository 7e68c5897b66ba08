---------------------------- MODULE OutputQueue ----------------------------
(***************************************************************************)
(* What the BIOS promises the kernel about console output (bios.h): a      *)
(* first-in first-out queue of characters of bounded length, which drops   *)
(* what is pushed while it is full and yields NUL while it is empty.       *)
(***************************************************************************)
EXTENDS Integers, Sequences

CONSTANTS
    Bound,      \* How many characters the queue holds.
    Chars,      \* The characters programs print.
    Nul         \* What is returned when there is none.

VARIABLES
    queue,      \* The characters waiting, oldest first.
    call        \* The last call, with the character it gave or returned.

Called(op, ch) == [op |-> op, ch |-> ch]

Init == queue = <<>> /\ call = Called("init", Nul)

Push(ch) ==
    /\ queue' = IF Len(queue) < Bound THEN Append(queue, ch) ELSE queue
    /\ call' = Called("push", ch)

Get ==
    /\ call' = Called("get", IF queue = <<>> THEN Nul ELSE Head(queue))
    /\ queue' = IF queue = <<>> THEN queue ELSE Tail(queue)

Reset == queue' = <<>> /\ call' = Called("init", Nul)

Next == (\E ch \in Chars : Push(ch)) \/ Get \/ Reset

Spec == Init /\ [][Next]_<<queue, call>>
=============================================================================
