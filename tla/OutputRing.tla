----------------------------- MODULE OutputRing -----------------------------
(***************************************************************************)
(* The console output ring of the BIOS (src/bios/bios.c): g_out, written   *)
(* at g_head and read at g_tail.  One slot is always left empty, so that   *)
(* equal indices mean "empty" and never "full".                            *)
(***************************************************************************)
EXTENDS Integers, Sequences

CONSTANTS
    Capacity,   \* BIOS_OUT_CAPACITY (1024), slots of the ring.
    Chars,      \* The characters programs print.
    Nul         \* The character '\0'.

ASSUME RingAssumption == Capacity \in Nat \ {0} /\ Nul \notin Chars

Slots == 0 .. Capacity - 1

VARIABLES
    buf,        \* g_out.
    head,       \* g_head, the slot the next character goes to.
    tail,       \* g_tail, the slot of the oldest character.
    call        \* The last call, with the character it gave or returned.

vars == <<buf, head, tail, call>>

Called(op, ch) == [op |-> op, ch |-> ch]

next_index(idx) == (idx + 1) % Capacity

\* bios_pending_output.
Pending == head # tail

Init ==
    /\ buf = [i \in Slots |-> Nul]
    /\ head = 0
    /\ tail = 0
    /\ call = Called("init", Nul)

\* A push that takes the last slot too.
Push_NoSpareSlot(ch) ==
    /\ buf' = [buf EXCEPT ![head] = ch]
    /\ head' = next_index(head)
    /\ call' = Called("push", ch)
    /\ UNCHANGED tail

\* out_queue_push: a character that finds the ring full is dropped.
Push(ch) ==
    /\ IF next_index(head) = tail
       THEN UNCHANGED <<buf, head>>
       ELSE /\ buf' = [buf EXCEPT ![head] = ch]
            /\ head' = next_index(head)
    /\ call' = Called("push", ch)
    /\ UNCHANGED tail

\* bios_get_output.
Get ==
    /\ IF Pending
       THEN call' = Called("get", buf[tail]) /\ tail' = (tail + 1) % Capacity
       ELSE call' = Called("get", Nul) /\ UNCHANGED tail
    /\ UNCHANGED <<buf, head>>

\* bios_init: the indices start again, the characters stay.
Reset ==
    /\ head' = 0
    /\ tail' = 0
    /\ call' = Called("init", Nul)
    /\ UNCHANGED buf

Next == (\E ch \in Chars : Push(ch)) \/ Get \/ Reset

Spec == Init /\ [][Next]_vars

-----------------------------------------------------------------------------
\* The types of the variables.
TypeOK ==
    /\ buf \in [Slots -> Chars \cup {Nul}]
    /\ head \in Slots
    /\ tail \in Slots
    /\ call \in [op : {"init", "push", "get"}, ch : Chars \cup {Nul}]

\* The characters in the ring, oldest first.
Used     == IF head >= tail THEN head - tail ELSE head + Capacity - tail
SlotAt(i) == IF tail + i < Capacity THEN tail + i ELSE tail + i - Capacity
Contents == [i \in 1 .. Used |-> buf[SlotAt(i - 1)]]

\* The ring is the queue that bios.h promises, of one character less than
\* its slots: no character is reordered, duplicated or lost but by a push
\* into a full ring, whatever way the indices have wrapped.
Queue == INSTANCE OutputQueue WITH Bound <- Capacity - 1, queue <- Contents

ImplementsQueue == Queue!Spec
=============================================================================
