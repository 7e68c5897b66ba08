--------------------------- MODULE TerminalProofs ---------------------------
(***************************************************************************)
(* The ring implements the bounded queue; what a program prints comes out  *)
(* whole and in order; and what is typed is given as it was meant: for     *)
(* every ring, every length of the line and every standard input.          *)
(***************************************************************************)
EXTENDS Terminal, SequenceTheorems, FiniteSetTheorems, WellFoundedInduction, TLAPS

-----------------------------------------------------------------------------
(* The ring.                                                               *)

\* The index after idx, without a division.
LEMMA NextIndexValue ==
    ASSUME NEW idx \in Slots
    PROVE  /\ next_index(idx) \in Slots
           /\ next_index(idx) = IF idx + 1 < Capacity THEN idx + 1 ELSE 0
<1>1. Capacity \in Nat \ {0} /\ idx \in 0 .. Capacity - 1
  BY RingAssumption DEF Slots
<1>2. CASE idx + 1 < Capacity
  <2>1. (idx + 1) % Capacity = idx + 1
    BY <1>1, <1>2
  <2>2. QED
    BY <1>1, <1>2, <2>1 DEF next_index, Slots
<1>3. CASE idx + 1 = Capacity
  <2>1. Capacity % Capacity = 0
    BY <1>1
  <2>2. QED
    BY <1>1, <1>3, <2>1 DEF next_index, Slots
<1>4. QED
  BY <1>1, <1>2, <1>3

\* Every step of the ring keeps the types.
LEMMA TypeStep == TypeOK /\ [Next]_vars => TypeOK'
<1> SUFFICES ASSUME TypeOK, [Next]_vars PROVE TypeOK'
  OBVIOUS
<1>1. 0 \in Slots
  BY RingAssumption DEF Slots
<1>2. ASSUME NEW ch \in Chars, Push(ch) PROVE TypeOK'
  BY <1>2, NextIndexValue DEF Push, TypeOK, Called
<1>3. CASE Get
  <2>1. (tail + 1) % Capacity \in Slots
    BY NextIndexValue DEF TypeOK, next_index
  <2>2. QED
    BY <1>3, <2>1 DEF Get, TypeOK, Called
<1>4. CASE Reset
  BY <1>1, <1>4 DEF Reset, TypeOK, Called
<1>5. CASE UNCHANGED vars
  BY <1>5 DEF vars, TypeOK
<1>6. QED
  BY <1>2, <1>3, <1>4, <1>5 DEF Next

\* The indices stay slots and the slots hold characters.
THEOREM RingTypes == Spec => []TypeOK
<1>1. Init => TypeOK
  BY RingAssumption DEF Init, TypeOK, Slots, Called
<1>2. QED
  BY <1>1, TypeStep, PTL DEF Spec

\* The contents are a sequence, at most one character short of the slots.
LEMMA ContentsType ==
    ASSUME TypeOK
    PROVE  /\ Used \in 0 .. Capacity - 1
           /\ \A i \in 0 .. Used - 1 : SlotAt(i) \in Slots
           /\ Contents \in Seq(Chars \cup {Nul})
           /\ Len(Contents) = Used
<1>1. Capacity \in Nat \ {0} /\ head \in 0 .. Capacity - 1 /\ tail \in 0 .. Capacity - 1
  BY RingAssumption DEF TypeOK, Slots
<1>2. Used \in 0 .. Capacity - 1
  BY <1>1 DEF Used
<1>3. \A i \in 0 .. Used - 1 : SlotAt(i) \in Slots
  BY <1>1, <1>2 DEF SlotAt, Slots
<1>4. \A i \in 1 .. Used : Contents[i] \in Chars \cup {Nul}
  <2> SUFFICES ASSUME NEW i \in 1 .. Used PROVE Contents[i] \in Chars \cup {Nul}
    OBVIOUS
  <2>1. SlotAt(i - 1) \in Slots
    BY <1>2, <1>3
  <2>2. QED
    BY <2>1 DEF Contents, TypeOK
<1>5. QED
  BY <1>2, <1>3, <1>4 DEF Contents

\* The ring is full exactly when it holds one character less than its slots,
\* and empty exactly when the indices are equal.
LEMMA FullAndEmpty ==
    ASSUME TypeOK
    PROVE  /\ next_index(head) = tail <=> Used = Capacity - 1
           /\ ~Pending <=> Used = 0
<1>1. Capacity \in Nat \ {0} /\ head \in 0 .. Capacity - 1 /\ tail \in 0 .. Capacity - 1
  BY RingAssumption DEF TypeOK, Slots
<1>2. next_index(head) = IF head + 1 < Capacity THEN head + 1 ELSE 0
  BY NextIndexValue DEF TypeOK
<1>3. QED
  BY <1>1, <1>2 DEF Used, Pending

\* A push appends, or finds the queue full.
LEMMA PushStep ==
    ASSUME TypeOK, TypeOK', NEW ch \in Chars, Push(ch)
    PROVE  Queue!Push(ch)
<1>0. /\ Capacity \in Nat \ {0} /\ head \in 0 .. Capacity - 1
      /\ tail \in 0 .. Capacity - 1
  BY RingAssumption DEF TypeOK, Slots
<1>1. CASE next_index(head) = tail
  <2>1. Used = Capacity - 1 /\ Len(Contents) = Used
    BY <1>1, FullAndEmpty, ContentsType
  <2>2. Contents' = Contents
    BY <1>1 DEF Push, Contents, Used, SlotAt
  <2>3. QED
    BY <1>0, <2>1, <2>2 DEF Queue!Push, Push, Called, Queue!Called
<1>2. CASE next_index(head) # tail
  <2>1. Used < Capacity - 1 /\ Used \in Nat
    BY <1>0, <1>2, FullAndEmpty, ContentsType
  <2>2. /\ buf' = [buf EXCEPT ![head] = ch] /\ tail' = tail
        /\ head' = IF head + 1 < Capacity THEN head + 1 ELSE 0
    BY <1>2, NextIndexValue DEF Push, TypeOK
  <2>3. Used' = Used + 1
    BY <1>0, <2>1, <2>2 DEF Used
  <2>4. SlotAt(Used) = head
    BY <1>0, <2>1 DEF Used, SlotAt
  <2>5. \A i \in 0 .. Used - 1 : SlotAt(i) # head
    BY <1>0, <2>1 DEF Used, SlotAt
  <2>6. \A i \in 0 .. Used : SlotAt(i)' = SlotAt(i)
    BY <2>2 DEF SlotAt
  <2>7. Contents' = [i \in 1 .. Used + 1 |-> buf'[SlotAt(i - 1)]]
    <3>1. Contents' = [i \in 1 .. Used' |-> buf'[SlotAt(i - 1)']]
      BY DEF Contents
    <3>2. QED
      BY <2>1, <2>3, <2>6, <3>1
  <2>8. \A i \in 1 .. Used : buf'[SlotAt(i - 1)] = Contents[i]
    <3> SUFFICES ASSUME NEW i \in 1 .. Used
                 PROVE  buf'[SlotAt(i - 1)] = Contents[i]
      OBVIOUS
    <3>1. SlotAt(i - 1) \in Slots /\ SlotAt(i - 1) # head
      BY <2>1, <2>5, ContentsType
    <3>2. QED
      BY <2>2, <3>1 DEF Contents, TypeOK
  <2>9. buf'[SlotAt(Used)] = ch
    BY <2>2, <2>4 DEF TypeOK
  <2>10. Contents' = Append(Contents, ch)
    <3>1. Contents \in Seq(Chars \cup {Nul}) /\ Len(Contents) = Used
      BY ContentsType
    <3>2. Contents' \in Seq(Chars \cup {Nul}) /\ Len(Contents') = Used + 1
      <4>1. \A i \in 1 .. Used + 1 : Contents'[i] \in Chars \cup {Nul}
        <5> SUFFICES ASSUME NEW i \in 1 .. Used + 1
                     PROVE  Contents'[i] \in Chars \cup {Nul}
          OBVIOUS
        <5>1. CASE i = Used + 1
          BY <2>1, <2>7, <2>9, <5>1
        <5>2. CASE i \in 1 .. Used
          <6>1. Contents'[i] = Contents[i]
            BY <2>1, <2>7, <2>8, <5>2
          <6>2. QED
            BY <3>1, <5>2, <6>1
        <5>3. QED
          BY <2>1, <5>1, <5>2
      <4>2. QED
        BY <2>1, <2>7, <4>1
    <3>3. \A i \in 1 .. Used + 1 : Contents'[i] = Append(Contents, ch)[i]
      <4> SUFFICES ASSUME NEW i \in 1 .. Used + 1
                   PROVE  Contents'[i] = Append(Contents, ch)[i]
        OBVIOUS
      <4>1. CASE i = Used + 1
        BY <2>1, <2>7, <2>9, <3>1, <4>1
      <4>2. CASE i \in 1 .. Used
        BY <2>1, <2>7, <2>8, <3>1, <4>2
      <4>3. i = Used + 1 \/ i \in 1 .. Used
        BY <2>1
      <4>4. QED
        BY <4>1, <4>2, <4>3
    <3>4. /\ Append(Contents, ch) \in Seq(Chars \cup {Nul})
          /\ Len(Append(Contents, ch)) = Used + 1
      <4>1. ch \in Chars \cup {Nul}
        OBVIOUS
      <4> HIDE DEF Contents
      <4>2. QED
        BY <3>1, <4>1, AppendProperties
    <3>5. QED
      BY <3>2, <3>3, <3>4, SeqEqual
  <2>11. QED
    BY <1>2, <2>1, <2>10, ContentsType DEF Queue!Push, Push, Called, Queue!Called
<1>3. QED
  BY <1>1, <1>2

\* A read takes the oldest character.
LEMMA GetStep ==
    ASSUME TypeOK, TypeOK', Get
    PROVE  Queue!Get
<1>0. /\ Capacity \in Nat \ {0} /\ head \in 0 .. Capacity - 1
      /\ tail \in 0 .. Capacity - 1
  BY RingAssumption DEF TypeOK, Slots
<1>1. Contents \in Seq(Chars \cup {Nul}) /\ Len(Contents) = Used /\ Used \in Nat
  BY ContentsType
<1>2. CASE ~Pending
  <2>1. Contents = <<>>
    BY <1>1, <1>2, FullAndEmpty
  <2>2. Contents' = Contents
    BY <1>2 DEF Get, Contents, Used, SlotAt
  <2>3. QED
    BY <1>2, <2>1, <2>2 DEF Queue!Get, Get, Called, Queue!Called
<1>3. CASE Pending
  <2>1. Used > 0
    BY <1>1, <1>3, FullAndEmpty
  <2>2. /\ buf' = buf /\ head' = head /\ call' = Called("get", buf[tail])
        /\ tail' = IF tail + 1 < Capacity THEN tail + 1 ELSE 0
    BY <1>3, NextIndexValue DEF Get, TypeOK, next_index
  <2>3. Used' = Used - 1
    BY <1>0, <2>1, <2>2 DEF Used
  <2>4. SlotAt(0) = tail
    BY <1>0 DEF SlotAt
  <2>5. call' = Called("get", Head(Contents))
    BY <1>1, <2>1, <2>2, <2>4 DEF Contents
  <2>6. \A i \in 0 .. Used - 2 : SlotAt(i)' = SlotAt(i + 1)
    BY <1>0, <1>1, <2>2 DEF SlotAt, Used
  <2>7. Contents' = [i \in 1 .. Used - 1 |-> buf[SlotAt(i)]]
    <3>1. Contents' = [i \in 1 .. Used' |-> buf'[SlotAt(i - 1)']]
      BY DEF Contents
    <3>2. \A i \in 1 .. Used - 1 : SlotAt(i - 1)' = SlotAt(i)
      BY <1>1, <2>6
    <3>3. QED
      BY <1>1, <2>2, <2>3, <3>1, <3>2
  <2>8. Contents' = Tail(Contents)
    <3>1. /\ Tail(Contents) \in Seq(Chars \cup {Nul})
          /\ Len(Tail(Contents)) = Used - 1
          /\ \A i \in 1 .. Used - 1 : Tail(Contents)[i] = Contents[i + 1]
      BY <1>1, <2>1, HeadTailProperties
    <3>2. \A i \in 1 .. Used - 1 : Contents[i + 1] = buf[SlotAt(i)]
      BY <1>1 DEF Contents
    <3>3. /\ Contents' \in Seq(Chars \cup {Nul})
          /\ Len(Contents') = Used - 1
          /\ \A i \in 1 .. Used - 1 : Contents'[i] = buf[SlotAt(i)]
      <4>1. \A i \in 1 .. Used - 1 : buf[SlotAt(i)] \in Chars \cup {Nul}
        BY <1>1, ContentsType DEF TypeOK
      <4>2. QED
        BY <1>1, <2>1, <2>7, <4>1
    <3>4. QED
      BY <3>1, <3>2, <3>3, SeqEqual
  <2>9. Contents # <<>>
    BY <1>1, <2>1
  <2>10. QED
    BY <2>5, <2>8, <2>9 DEF Queue!Get, Called, Queue!Called
<1>4. QED
  BY <1>2, <1>3

\* bios_init empties the queue.
LEMMA ResetStep ==
    ASSUME TypeOK', Reset
    PROVE  Queue!Reset
<1>1. Used' = 0
  BY DEF Reset, Used
<1>2. Contents' = <<>>
  BY <1>1 DEF Contents
<1>3. QED
  BY <1>2 DEF Queue!Reset, Reset, Called, Queue!Called

\* For every capacity the ring behaves as a first-in first-out queue of one
\* character less: what out_queue_push accepts, bios_get_output returns once
\* and in order, and an empty ring yields NUL.
THEOREM RingImplementsQueue == Spec => ImplementsQueue
<1>1. Init => Queue!Init
  <2>1. Init => Used = 0
    BY DEF Init, Used
  <2>2. QED
    BY <2>1 DEF Init, Contents, Queue!Init, Called, Queue!Called
<1>2. TypeOK /\ TypeOK' /\ [Next]_vars => [Queue!Next]_<<Contents, call>>
  <2> SUFFICES ASSUME TypeOK, TypeOK', [Next]_vars
               PROVE  [Queue!Next]_<<Contents, call>>
    OBVIOUS
  <2>1. ASSUME NEW ch \in Chars, Push(ch) PROVE Queue!Next
    BY <2>1, PushStep DEF Queue!Next
  <2>2. CASE Get
    BY <2>2, GetStep DEF Queue!Next
  <2>3. CASE Reset
    BY <2>3, ResetStep DEF Queue!Next
  <2>4. CASE UNCHANGED vars
    <3>1. Contents' = Contents /\ call' = call
      BY <2>4 DEF vars, Contents, Used, SlotAt
    <3>2. QED
      BY <3>1
  <2>5. QED
    BY <2>1, <2>2, <2>3, <2>4 DEF Next
<1>3. QED
  BY <1>1, <1>2, RingTypes, PTL DEF Spec, ImplementsQueue, Queue!Spec

-----------------------------------------------------------------------------
(* The loop that takes the characters of a line.                           *)

\* A set of numbers has a least one.
LEMMA LeastOf ==
    ASSUME NEW T \in SUBSET Nat, T # {}
    PROVE  \E x \in T : \A y \in T : x <= y
<1>1. PICK R : R = OpToRel(<, Nat)
  OBVIOUS
<1>2. IsWellFoundedOn(R, Nat)
  BY <1>1, NatLessThanWellFounded
<1>3. \A x, y \in Nat : <<y, x>> \in R <=> y < x
  <2>1. R = {ss \in Nat \X Nat : ss[1] < ss[2]}
    BY <1>1 DEF OpToRel
  <2>2. QED
    BY <2>1
<1>4. \E x \in T : \A y \in T : ~ (<<y, x>> \in R)
  BY <1>2, WFMin
<1>5. PICK x \in T : \A y \in T : ~ (<<y, x>> \in R)
  BY <1>4
<1>6. \A y \in T : ~ (y < x)
  BY <1>3, <1>5
<1>7. \A y \in T : x <= y
  BY <1>6
<1>8. QED
  BY <1>7

\* What holds of 0, and of each number with the one before it, holds of all
\* up to m.
LEMMA UpTo ==
    ASSUME NEW m \in Nat, NEW S \in SUBSET Nat, 0 \in S,
           \A n \in 1 .. m : n - 1 \in S => n \in S
    PROVE  \A n \in 0 .. m : n \in S
<1> DEFINE T == {n \in 0 .. m : n \notin S}
<1>1. CASE T = {}
  BY <1>1
<1>2. CASE T # {}
  <2>1. T \in SUBSET Nat
    OBVIOUS
  <2> HIDE DEF T
  <2>2. PICK x \in T : \A y \in T : x <= y
    BY <1>2, <2>1, LeastOf
  <2> USE DEF T
  <2>3. x \in 1 .. m /\ x - 1 \in 0 .. m /\ x \notin S
    BY <2>2
  <2>4. x - 1 \in S
    BY <2>2, <2>3
  <2>5. QED
    BY <2>3, <2>4
<1>3. QED
  BY <1>1, <1>2

\* What the loop leaves after each character, from what it left before it.
LEMMA TakingIs ==
    ASSUME NEW c, NEW t, Len(t) \in Nat
    PROVE  /\ Taking(c, t)[0] = c
           /\ \A n \in 1 .. Len(t) : Taking(c, t)[n] = Take(Taking(c, t)[n - 1], t[n])
<1> DEFINE Upto(k, g) == g = [n \in 0 .. k |-> IF n = 0 THEN c ELSE Take(g[n - 1], t[n])]
           f == CHOOSE g : Upto(Len(t), g)
<1>0. ASSUME NEW m \in Nat PROVE \E g : Upto(m, g)
  <2> DEFINE S == {k \in Nat : \E g : Upto(k, g)}
  <2>1. 0 \in S
    <3>1. Upto(0, [n \in 0 .. 0 |-> c])
      <4> DEFINE g == [n \in 0 .. 0 |-> c]
      <4>1. \A n \in 0 .. 0 : n = 0 /\ c = IF n = 0 THEN c ELSE Take(g[n - 1], t[n])
        OBVIOUS
      <4> HIDE DEF g
      <4>2. [n \in 0 .. 0 |-> c] = [n \in 0 .. 0 |-> IF n = 0 THEN c ELSE Take(g[n - 1], t[n])]
        BY <4>1
      <4>3. QED
        BY <4>2 DEF g
    <3>2. QED
      BY <3>1
  <2>2. ASSUME NEW k \in 1 .. m, k - 1 \in S PROVE k \in S
    <3>1. PICK g : Upto(k - 1, g)
      BY <2>2
    <3> DEFINE h == [n \in 0 .. k |-> IF n = k THEN Take(g[k - 1], t[k]) ELSE g[n]]
    <3>2. \A n \in 0 .. k - 1 : h[n] = g[n]
      OBVIOUS
    <3>3. ASSUME NEW n \in 0 .. k
          PROVE  h[n] = IF n = 0 THEN c ELSE Take(h[n - 1], t[n])
      <4>1. CASE n = k
        <5>1. h[n] = Take(g[k - 1], t[k])
          BY <4>1
        <5>2. k - 1 \in 0 .. k - 1 /\ n # 0
          BY <4>1
        <5>3. h[k - 1] = g[k - 1]
          BY <3>2, <5>2
        <5>4. QED
          BY <4>1, <5>1, <5>2, <5>3
      <4>2. CASE n \in 0 .. k - 1
        <5>1. h[n] = g[n] /\ (n # 0 => n - 1 \in 0 .. k - 1)
          BY <3>2, <4>2
        <5>2. n # 0 => h[n - 1] = g[n - 1]
          BY <3>2, <5>1
        <5>3. g[n] = IF n = 0 THEN c ELSE Take(g[n - 1], t[n])
          BY <3>1, <4>2
        <5>4. QED
          BY <5>1, <5>2, <5>3
      <4>3. QED
        BY <4>1, <4>2
    <3>4. h = [n \in 0 .. k |-> h[n]]
      OBVIOUS
    <3> HIDE DEF h
    <3>5. h = [n \in 0 .. k |-> IF n = 0 THEN c ELSE Take(h[n - 1], t[n])]
      BY <3>3, <3>4
    <3>6. QED
      BY <3>5
  <2>3. S \in SUBSET Nat
    OBVIOUS
  <2> HIDE DEF S
  <2>4. \A n \in 1 .. m : n - 1 \in S => n \in S
    BY <2>2
  <2>5. m \in S
    BY <2>1, <2>3, <2>4, UpTo
  <2>6. QED
    BY <2>5 DEF S
<1>2. Upto(Len(t), f)
  BY <1>0, Zenon
<1>3. Taking(c, t) = f
  BY Zenon DEF Taking
<1> HIDE DEF f
<1>4. f[0] = c /\ \A n \in 1 .. Len(t) : f[n] = Take(f[n - 1], t[n])
  BY <1>2
<1>5. QED
  BY <1>3, <1>4

-----------------------------------------------------------------------------
(* What a call leaves of the console.                                      *)

\* The characters that are typed.
Keys == 1 .. 255

Console == [input : Seq(Keys), output : Seq(Chars), line : Seq(0 .. 255)]

\* What was to be printed still is, before anything else.
Extends(c, d) ==
    /\ Len(c.output) <= Len(d.output)
    /\ \A i \in 1 .. Len(c.output) : d.output[i] = c.output[i]

LEMMA CharSets == /\ Keys \subseteq 0 .. 255 /\ Inputs \subseteq Seq(Keys)
                  /\ 8 \in Chars /\ 32 \in Chars
  BY TerminalAssumption DEF Keys

\* A character taken leaves the input.
LEMMA TakeKeeps ==
    ASSUME NEW c \in Console, NEW ch \in Keys
    PROVE  /\ Take(c, ch) \in Console
           /\ Extends(c, Take(c, ch)) /\ Take(c, ch).input = c.input
<1>1. CASE ch \in Erase /\ c.line # <<>>
  <2>1. Take(c, ch) = [c EXCEPT !.line = Front(@), !.output = @ \o <<8, 32, 8>>]
    BY <1>1 DEF Take
  <2>2. c.line \in Seq(0 .. 255) /\ c.output \in Seq(Chars) /\ c.input \in Seq(Keys)
    BY DEF Console
  <2>3. Front(c.line) \in Seq(0 .. 255)
    <3> DEFINE line == c.line
    <3>1. line \in Seq(0 .. 255) /\ line # <<>>
      BY <1>1, <2>2
    <3> HIDE DEF line
    <3>2. Len(line) \in Nat /\ Len(line) # 0 /\ line \in [1 .. Len(line) -> 0 .. 255]
      <4>1. Len(line) \in Nat /\ line \in [1 .. Len(line) -> 0 .. 255]
        BY <3>1, LenProperties
      <4>2. Len(line) # 0
        BY <3>1, EmptySeq
      <4>3. QED
        BY <4>1, <4>2
    <3>3. SubSeq(line, 1, Len(line) - 1) \in Seq(0 .. 255)
      <4>1. 1 \in Int /\ Len(line) - 1 \in Int
        BY <3>2
      <4>2. \A i \in 1 .. Len(line) - 1 : line[i] \in 0 .. 255
        <5>1. \A n \in Nat : \A i \in 1 .. n - 1 : i \in 1 .. n
          OBVIOUS
        <5>2. QED
          BY <3>2, <5>1
      <4>3. QED
        BY <4>1, <4>2, SubSeqProperties
    <3>4. QED
      BY <3>3 DEF Front, line
  <2>4. <<8, 32, 8>> \in Seq(Chars) /\ Len(<<8, 32, 8>>) = 3
    BY CharSets
  <2> DEFINE out == c.output \o <<8, 32, 8>>
  <2>5. /\ out \in Seq(Chars) /\ Len(out) = Len(c.output) + 3
        /\ \A i \in 1 .. Len(c.output) : out[i] = c.output[i]
    BY <2>2, <2>4
  <2>6. /\ Take(c, ch).output = out /\ Take(c, ch).line = Front(c.line)
        /\ Take(c, ch).input = c.input
        /\ Take(c, ch) = [input |-> c.input, output |-> out, line |-> Front(c.line)]
    BY <2>1 DEF Console
  <2> HIDE DEF out
  <2>7. Len(c.output) <= Len(out)
    BY <2>2, <2>5
  <2>8. QED
    BY <2>2, <2>3, <2>5, <2>6, <2>7 DEF Console, Extends
<1>2. CASE ch \notin Erase /\ Len(c.line) < LineMax
  <2>1. Take(c, ch) = [c EXCEPT !.line = Append(@, ch)]
    BY <1>2 DEF Take
  <2>2. ch \in 0 .. 255
    BY CharSets
  <2>3. QED
    <3>1. Append(c.line, ch) \in Seq(0 .. 255)
      BY <2>2 DEF Console
    <3>2. Take(c, ch) = [input |-> c.input, output |-> c.output, line |-> Append(c.line, ch)]
      BY <2>1 DEF Console
    <3>3. QED
      BY <3>1, <3>2 DEF Console, Extends
<1>3. CASE ~(ch \in Erase /\ c.line # <<>>) /\ ~(ch \notin Erase /\ Len(c.line) < LineMax)
  <2>1. Take(c, ch) = c
    BY <1>3 DEF Take
  <2>2. QED
    BY <2>1 DEF Console, Extends
<1>4. QED
  BY <1>1, <1>2, <1>3

\* So does any number of them.
LEMMA TakingKeeps ==
    ASSUME NEW c \in Console, NEW t \in Seq(Keys)
    PROVE  \A n \in 0 .. Len(t) :
              /\ Taking(c, t)[n] \in Console
              /\ Extends(c, Taking(c, t)[n]) /\ Taking(c, t)[n].input = c.input
<1> DEFINE f == Taking(c, t)
           S == {n \in Nat : f[n] \in Console /\ Extends(c, f[n]) /\ f[n].input = c.input}
<1>0. Len(t) \in Nat
  OBVIOUS
<1>1. f[0] = c /\ \A n \in 1 .. Len(t) : f[n] = Take(f[n - 1], t[n])
  BY <1>0, TakingIs
<1> HIDE DEF f
<1>2. 0 \in S
  BY <1>1 DEF Console, Extends
<1>3. ASSUME NEW n \in 1 .. Len(t), n - 1 \in S PROVE n \in S
  <2> DEFINE d == f[n - 1]
  <2>1. d \in Console /\ Extends(c, d) /\ d.input = c.input /\ t[n] \in Keys
    BY <1>3
  <2>2. f[n] = Take(d, t[n])
    BY <1>1
  <2> HIDE DEF d
  <2>3. f[n] \in Console /\ Extends(d, f[n]) /\ f[n].input = d.input
    BY <2>1, <2>2, TakeKeeps
  <2>4. Extends(c, f[n])
    BY <2>1, <2>3 DEF Extends, Console
  <2>5. QED
    BY <1>0, <2>1, <2>3, <2>4
<1>4. S \in SUBSET Nat
  OBVIOUS
<1> HIDE DEF S
<1>5. \A n \in 1 .. Len(t) : n - 1 \in S => n \in S
  BY <1>3
<1>6. \A n \in 0 .. Len(t) : n \in S
  BY <1>0, <1>2, <1>4, <1>5, UpTo
<1>7. QED
  BY <1>6 DEF S, f

\* The next line is part of what is still to be read, or all of it.
LEMMA NextLineIs ==
    ASSUME NEW c \in Console
    PROVE  /\ NextLine(c) \in Seq(Keys)
           /\ ~AtEof(c) => Len(NextLine(c)) + 1 <= Len(c.input)
<1>1. c.input \in Seq(Keys) /\ Len(c.input) \in Nat
  BY DEF Console
<1>2. CASE AtEof(c)
  BY <1>1, <1>2 DEF NextLine
<1>3. CASE ~AtEof(c)
  <2> DEFINE k == CHOOSE i \in LineEnds(c) : \A j \in LineEnds(c) : i <= j
  <2>1. LineEnds(c) \in SUBSET Nat /\ LineEnds(c) # {}
    BY <1>1, <1>3 DEF LineEnds, AtEof
  <2>2. \E i \in LineEnds(c) : \A j \in LineEnds(c) : i <= j
    BY <2>1, LeastOf
  <2>3. k \in LineEnds(c)
    BY <2>2
  <2>4. k \in 1 .. Len(c.input)
    BY <2>3 DEF LineEnds
  <2>5. NextLine(c) = SubSeq(c.input, 1, k - 1)
    BY <1>3 DEF NextLine
  <2> HIDE DEF k
  <2>6. QED
    BY <1>1, <2>4, <2>5
<1>4. QED
  BY <1>2, <1>3

\* The terminator keeps the length of the line, and its first characters.
LEMMA TerminateIs ==
    ASSUME NEW line \in Seq(0 .. 255)
    PROVE  /\ Terminate(line) \in Seq(0 .. 255) /\ Len(Terminate(line)) = Len(line)
           /\ \A k \in 1 .. Len(line) : k < LineMax => Terminate(line)[k] = line[k]
           /\ Len(line) < LineMax => Terminate(line) = line
<1>0. LineMax \in Nat \ {0} /\ Len(line) \in Nat
  BY ConsoleAssumption
<1>1. CASE Len(line) = LineMax
  <2> DEFINE new == [line EXCEPT ![LineMax] = 0]
  <2>0. line \in [1 .. Len(line) -> 0 .. 255]
    BY LenProperties
  <2>1. line \in [1 .. LineMax -> 0 .. 255]
    BY <1>1, <2>0
  <2>2. /\ new \in [1 .. LineMax -> 0 .. 255]
        /\ \A k \in 1 .. LineMax : k # LineMax => new[k] = line[k]
    BY <1>0, <2>1
  <2>3. Terminate(line) = new
    BY <1>1 DEF Terminate
  <2> HIDE DEF new
  <2>4. new \in Seq(0 .. 255) /\ Len(new) = LineMax
    BY <1>0, <2>2
  <2>5. QED
    BY <1>0, <1>1, <2>2, <2>3, <2>4
<1>2. CASE Len(line) # LineMax
  BY <1>0, <1>2 DEF Terminate
<1>3. QED
  BY <1>1, <1>2

\* READLINE leaves a console, which prints what it was to print.
LEMMA ReadlineKeeps ==
    ASSUME NEW c \in Console
    PROVE  Readline(c) \in Console /\ Extends(c, Readline(c))
<1> DEFINE b == [c EXCEPT !.line = <<>>]
           d == TakeAll(b, NextLine(c))
<1>1. b \in Console /\ b.output = c.output /\ b.input = c.input
  <2>1. b = [input |-> c.input, output |-> c.output, line |-> <<>>]
    BY DEF Console
  <2>2. <<>> \in Seq(0 .. 255)
    OBVIOUS
  <2> HIDE DEF b
  <2>3. QED
    BY <2>1, <2>2 DEF Console
<1>2. NextLine(c) \in Seq(Keys) /\ Len(NextLine(c)) \in Nat
  BY NextLineIs
<1>3. d = Taking(b, NextLine(c))[Len(NextLine(c))]
  BY DEF TakeAll
<1> HIDE DEF b
<1>4. d \in Console /\ Extends(b, d) /\ d.input = b.input
  BY <1>1, <1>2, <1>3, TakingKeeps
<1>5. Readline(c) = Leave(c, d)
  BY DEF Readline, b
<1> HIDE DEF d
<1>6. Terminate(d.line) \in Seq(0 .. 255)
  <2>1. d.line \in Seq(0 .. 255)
    BY <1>4 DEF Console
  <2>2. QED
    BY <2>1, TerminateIs
<1>7. SubSeq(c.input, Len(NextLine(c)) + 2, Len(c.input)) \in Seq(Keys)
  <2>1. c.input \in Seq(Keys)
    BY DEF Console
  <2>2. QED
    BY <1>2, <2>1
<1>8. Readline(c) \in Console /\ Readline(c).output = d.output
  <2>1. <<>> \in Seq(Keys) /\ <<>> \in Seq(0 .. 255) /\ d.output \in Seq(Chars)
    BY <1>4 DEF Console
  <2>2. QED
    BY <1>5, <1>6, <1>7, <2>1 DEF Console, Leave
<1>9. QED
  BY <1>1, <1>4, <1>8 DEF Extends

-----------------------------------------------------------------------------
(* The types.                                                              *)

TerminalTypeOK ==
    /\ TypeOK
    /\ con \in Console
    /\ a \in 0 .. 255
    /\ on \in {"off", "on", "halted"}
    /\ pushed \in 0 .. Len(con.output)
    /\ printed \in Seq(Chars \cup {Nul})
    /\ typed \in Seq(Keys)
    /\ longest \in Nat

\* The calls a program makes.
Calls == CONIN \/ CONOUT \/ READLINE \/ LINEGET \/ LINELEN

\* Every call begins when all is printed, and leaves a console.
LEMMA CallLeaves ==
    ASSUME TerminalTypeOK, Calls
    PROVE  Ready /\ \E c \in Console : Extends(con, c) /\ Leaves(c)
<1>0. con \in Console
  BY DEF TerminalTypeOK
<1>1. Extends(con, con)
  BY <1>0 DEF Extends, Console
<1>2. CASE CONIN
  <2>1. Conin(con) \in Console /\ Conin(con).output = con.output
    <3> DEFINE rest == IF con.input = <<>> THEN con.input ELSE Tail(con.input)
    <3>1. rest \in Seq(Keys)
      <4>1. con.input \in Seq(Keys)
        BY <1>0 DEF Console
      <4>2. con.input # <<>> => Tail(con.input) \in Seq(Keys)
        BY <4>1, HeadTailProperties
      <4>3. QED
        BY <4>1, <4>2
    <3>2. Conin(con) = [con EXCEPT !.input = rest]
      BY DEF Conin
    <3> HIDE DEF rest
    <3>3. QED
      BY <1>0, <3>1, <3>2 DEF Console
  <2>2. Extends(con, Conin(con))
    BY <1>0, <2>1 DEF Extends, Console
  <2>3. QED
    BY <1>2, <2>1, <2>2 DEF CONIN
<1>3. CASE CONOUT
  <2>1. PICK ch \in Chars : Leaves(Conout(con, ch))
    BY <1>3 DEF CONOUT
  <2>2. Conout(con, ch) = [con EXCEPT !.output = Append(@, ch)]
    BY DEF Conout
  <2>3. /\ Append(con.output, ch) \in Seq(Chars)
        /\ Len(Append(con.output, ch)) = Len(con.output) + 1
        /\ \A i \in 1 .. Len(con.output) : Append(con.output, ch)[i] = con.output[i]
        /\ Len(con.output) \in Nat
    BY <1>0 DEF Console
  <2>4. Conout(con, ch) \in Console /\ Conout(con, ch).output = Append(con.output, ch)
    BY <1>0, <2>2, <2>3 DEF Console
  <2>5. Extends(con, Conout(con, ch))
    BY <2>3, <2>4 DEF Extends
  <2>6. QED
    BY <1>3, <2>1, <2>4, <2>5 DEF CONOUT
<1>4. CASE READLINE
  BY <1>0, <1>4, ReadlineKeeps DEF READLINE
<1>5. CASE LINEGET
  BY <1>0, <1>1, <1>5 DEF LINEGET
<1>6. CASE LINELEN
  BY <1>0, <1>1, <1>6 DEF LINELEN
<1>7. QED
  BY <1>2, <1>3, <1>4, <1>5, <1>6 DEF Calls

\* A call leaves the rest as it is.
LEMMA CallKeeps ==
    ASSUME TerminalTypeOK, Calls
    PROVE  /\ UNCHANGED <<ringVars, pushed, printed>>
           /\ con' \in Console /\ Extends(con, con')
           /\ longest' \in Nat /\ longest <= longest'
           /\ Len(con'.output) - Len(con.output) <= longest'
           /\ Ready
           /\ TypeOK' /\ pushed' \in 0 .. Len(con'.output)
<1>1. PICK c \in Console : Extends(con, c) /\ Leaves(c)
  BY CallLeaves
<1>2. con' = c /\ UNCHANGED <<ringVars, pushed, printed>>
  BY <1>1 DEF Leaves
<1> DEFINE n == Len(c.output) - Len(con.output)
<1>3. Len(c.output) \in Nat /\ Len(con.output) \in Nat /\ Len(con.output) <= Len(c.output)
  BY <1>1 DEF TerminalTypeOK, Console, Extends
<1>4. longest' = (IF n > longest THEN n ELSE longest) /\ n \in Nat /\ longest \in Nat
  BY <1>1, <1>3 DEF Leaves, TerminalTypeOK
<1> HIDE DEF n
<1>5. longest' \in Nat /\ longest <= longest' /\ n <= longest'
  BY <1>4
<1> USE DEF n
<1>6. TypeOK'
  BY <1>2 DEF TerminalTypeOK, TypeOK, ringVars
<1>7. pushed' \in 0 .. Len(con'.output)
  BY <1>2, <1>3 DEF TerminalTypeOK
<1>8. QED
  BY <1>1, <1>2, <1>5, <1>6, <1>7, CallLeaves

\* PUSH pushes a character of the output.
LEMMA PushIs ==
    ASSUME TerminalTypeOK, PUSH
    PROVE  con.output[pushed + 1] \in Chars /\ Next /\ TypeOK'
<1>1. con.output \in Seq(Chars) /\ pushed + 1 \in 1 .. Len(con.output)
  BY DEF TerminalTypeOK, Console, PUSH
<1>2. con.output[pushed + 1] \in Chars
  BY <1>1
<1>3. Next
  BY <1>2 DEF PUSH, Next
<1>4. QED
  BY <1>2, <1>3, TypeStep DEF TerminalTypeOK

\* To the ring, a step of the terminal is one of its own or nothing.
LEMMA RingStep ==
    ASSUME TerminalTypeOK, [TerminalNext]_terminalVars
    PROVE  [Next]_vars
<1>1. CASE BOOT
  BY <1>1 DEF BOOT, Next
<1>2. CASE Calls
  <2>1. UNCHANGED ringVars
    BY <1>2, CallKeeps
  <2>2. QED
    BY <2>1 DEF ringVars, vars
<1>3. CASE PUSH
  BY <1>3, PushIs
<1>4. CASE DRAIN
  BY <1>4 DEF DRAIN, Next
<1>5. CASE UNCHANGED terminalVars
  BY <1>5 DEF terminalVars, ringVars, vars
<1>6. QED
  BY <1>1, <1>2, <1>3, <1>4, <1>5 DEF TerminalNext, Calls, Over

LEMMA TerminalInitTypes == TerminalInit => TerminalTypeOK
<1> SUFFICES ASSUME TerminalInit PROVE TerminalTypeOK
  OBVIOUS
<1>1. TypeOK
  BY RingAssumption DEF TerminalInit, Init, TypeOK, Slots, Called
<1>2. PICK i \in Inputs : con = [input |-> i, output |-> <<>>, line |-> <<>>]
  BY DEF TerminalInit
<1>3. i \in Seq(Keys)
  BY CharSets
<1>4. con \in Console /\ con.output = <<>>
  BY <1>2, <1>3 DEF Console
<1>5. QED
  BY <1>1, <1>4 DEF TerminalInit, TerminalTypeOK

LEMMA TerminalTypesStep ==
    ASSUME TerminalTypeOK, [TerminalNext]_terminalVars
    PROVE  TerminalTypeOK'
<1>0. TypeOK'
  BY RingStep, TypeStep DEF TerminalTypeOK
<1>1. CASE BOOT
  BY <1>0, <1>1 DEF BOOT, TerminalTypeOK
<1>2. CASE Calls
  <2>1. /\ printed' = printed /\ con' \in Console /\ longest' \in Nat
        /\ pushed' \in 0 .. Len(con'.output)
    BY <1>2, CallKeeps
  <2>2. a' \in 0 .. 255
    <3>1. con.input \in Seq(Keys) /\ con.line \in Seq(0 .. 255) /\ a \in 0 .. 255
      BY DEF TerminalTypeOK, Console
    <3>2. ConinA(con) \in 0 .. 255
      <4>1. con.input # <<>> => Head(con.input) \in Keys
        BY <3>1, HeadTailProperties
      <4>2. con.input # <<>> => Head(con.input) \in 0 .. 255
        BY <4>1, CharSets
      <4>3. QED
        BY <4>2 DEF ConinA
    <3>3. ASSUME NEW k \in 0 .. LineMax + 1 PROVE Lineget(con, k) \in 0 .. 255
      <4>1. k \in Nat
        BY ConsoleAssumption
      <4>2. k < Len(con.line) => con.line[k + 1] \in 0 .. 255
        <5> DEFINE line == con.line
        <5>1. line \in Seq(0 .. 255) /\ Len(line) \in Nat
          BY <3>1
        <5> HIDE DEF line
        <5>2. k < Len(line) => k + 1 \in 1 .. Len(line)
          BY <4>1, <5>1
        <5>3. k < Len(line) => line[k + 1] \in 0 .. 255
          BY <5>1, <5>2, ElementOfSeq
        <5>4. QED
          BY <5>3 DEF line
      <4>3. QED
        BY <4>2 DEF Lineget
    <3>4. Linelen(con) \in 0 .. 255
      <4> DEFINE n == Len(con.line)
      <4>1. n \in Nat
        BY <3>1
      <4>2. Linelen(con) = IF n > 255 THEN 255 ELSE n
        BY DEF Linelen
      <4> HIDE DEF n
      <4>3. QED
        BY <4>1, <4>2
    <3>5. CASE CONIN
      BY <3>2, <3>5 DEF CONIN
    <3>6. CASE LINEGET
      BY <3>3, <3>6 DEF LINEGET
    <3>7. CASE LINELEN
      BY <3>4, <3>7 DEF LINELEN
    <3>8. CASE CONOUT \/ READLINE
      BY <3>1, <3>8 DEF CONOUT, READLINE
    <3>9. QED
      BY <1>2, <3>5, <3>6, <3>7, <3>8 DEF Calls
  <2>3. on' \in {"off", "on", "halted"}
    BY <1>2 DEF Calls, CONIN, CONOUT, READLINE, LINEGET, LINELEN, TerminalTypeOK
  <2>4. typed' \in Seq(Keys)
    <3>1. NextLine(con) \in Seq(Keys) /\ typed \in Seq(Keys) /\ <<>> \in Seq(Keys)
      BY NextLineIs DEF TerminalTypeOK
    <3>2. QED
      BY <1>2, <3>1 DEF Calls, CONIN, CONOUT, READLINE, LINEGET, LINELEN
  <2>5. QED
    BY <1>0, <2>1, <2>2, <2>3, <2>4 DEF TerminalTypeOK
<1>3. CASE PUSH
  <2>1. pushed + 1 \in 0 .. Len(con.output)
    BY <1>3 DEF PUSH, TerminalTypeOK, Console
  <2>2. QED
    BY <1>0, <1>3, <2>1 DEF PUSH, TerminalTypeOK
<1>4. CASE DRAIN
  <2>1. call'.ch \in Chars \cup {Nul}
    BY <1>0 DEF TypeOK
  <2>2. Append(printed, call'.ch) \in Seq(Chars \cup {Nul})
    BY <2>1 DEF TerminalTypeOK
  <2>3. QED
    BY <1>0, <1>4, <2>2 DEF DRAIN, TerminalTypeOK
<1>5. CASE UNCHANGED terminalVars
  BY <1>0, <1>5 DEF terminalVars, TerminalTypeOK
<1>6. QED
  BY <1>1, <1>2, <1>3, <1>4, <1>5 DEF TerminalNext, Calls, Over

\* What a program reads and prints are characters, it is never answered more
\* than a register holds, and no more is pushed than it prints.
THEOREM TerminalTypes == TerminalSpec => []TerminalTypeOK
  BY TerminalInitTypes, TerminalTypesStep, PTL DEF TerminalSpec

\* Between its programs and its kernel the ring is the queue of bios.h.
THEOREM TerminalImplementsQueue == TerminalSpec => ImplementsQueue
<1>1. TerminalInit => Init
  BY DEF TerminalInit
<1>2. TerminalTypeOK /\ [TerminalNext]_terminalVars => [Next]_vars
  BY RingStep
<1>3. TerminalSpec => Spec
  BY <1>1, <1>2, TerminalTypes, PTL DEF TerminalSpec, Spec
<1>4. QED
  BY <1>3, RingImplementsQueue

-----------------------------------------------------------------------------
(* What is printed.                                                        *)

\* How much may still come: what a call prints, whether it is in the ring or
\* still to be pushed, is what that call was to print, and never more than
\* the longest.
PrintInv ==
    /\ on = "off" => con.output = <<>> /\ Used = 0 /\ printed = <<>>
    /\ longest < Capacity => Used + (Len(con.output) - pushed) <= longest
    /\ PrintsInOrder

LEMMA LenContentsNext == TypeOK' => Len(Contents') = Used'
<1> SUFFICES ASSUME TypeOK' PROVE Len(Contents') = Used'
  OBVIOUS
<1>1. Capacity \in Nat \ {0} /\ head' \in 0 .. Capacity - 1 /\ tail' \in 0 .. Capacity - 1
  BY RingAssumption DEF TypeOK, Slots
<1>2. Used' \in Nat
  <2>1. \A h, t \in 0 .. Capacity - 1 :
           (IF h >= t THEN h - t ELSE h + Capacity - t) \in Nat
    BY <1>1
  <2>2. Used' = IF head' >= tail' THEN head' - tail' ELSE head' + Capacity - tail'
    BY DEF Used
  <2>3. QED
    BY <1>1, <2>1, <2>2
<1>3. QED
  BY <1>2 DEF Contents

LEMMA Sums ==
    /\ \A u, l, p, m \in Nat : u + (l - p) <= m => u + 1 + (l - (p + 1)) <= m
    /\ \A l, k, m \in Nat : k - l <= m => 0 + (k - l) <= m
  OBVIOUS

\* A ring that is not pending is empty.
LEMMA ReadyIsEmpty ==
    ASSUME TerminalTypeOK, Ready
    PROVE  pushed = Len(con.output) /\ Used = 0 /\ Contents = <<>> /\ on = "on"
<1>1. Used = 0 /\ Len(Contents) = 0 /\ Contents \in Seq(Chars \cup {Nul})
  BY FullAndEmpty, ContentsType DEF Ready, TerminalTypeOK
<1>2. Contents = <<>>
  BY <1>1, EmptySeq
<1>3. QED
  BY <1>1, <1>2 DEF Ready

LEMMA PrintInit == TerminalInit => PrintInv
<1> SUFFICES ASSUME TerminalInit PROVE PrintInv
  OBVIOUS
<1>1. TerminalTypeOK
  BY TerminalInitTypes
<1>2. Used = 0
  BY DEF TerminalInit, Init, Used
<1>3. Contents = <<>>
  BY <1>2 DEF Contents
<1>4. con.output = <<>> /\ printed = <<>> /\ pushed = 0 /\ longest = 0
  BY DEF TerminalInit
<1>5. SubSeq(<<>>, 1, 0) = <<>> /\ Len(<<>>) = 0 /\ <<>> \o <<>> = <<>>
  OBVIOUS
<1>6. PrintsInOrder
  BY <1>3, <1>4, <1>5 DEF PrintsInOrder
<1>7. Len(con.output) = 0
  BY <1>4, <1>5
<1>8. QED
  BY <1>2, <1>4, <1>6, <1>7 DEF PrintInv

\* What has been pushed is the same part of an output that grows.
LEMMA SamePart ==
    ASSUME NEW c \in Console, NEW d \in Console, Extends(c, d), NEW n \in 0 .. Len(c.output)
    PROVE  SubSeq(d.output, 1, n) = SubSeq(c.output, 1, n)
<1> DEFINE x == c.output
           y == d.output
<1>1. /\ x \in Seq(Chars) /\ y \in Seq(Chars) /\ Len(x) <= Len(y) /\ n \in 0 .. Len(x)
      /\ \A i \in 1 .. Len(x) : y[i] = x[i]
  BY DEF Console, Extends
<1> HIDE DEF x, y
<1>2. Len(x) \in Nat /\ Len(y) \in Nat /\ n \in Nat
  BY <1>1
<1>3. \A i \in 1 .. n : x[i] \in Chars /\ y[i] = x[i]
  BY <1>1, <1>2, ElementOfSeq
<1>4. 1 \in Int /\ n \in Int /\ (\A i \in 1 .. n : x[i] \in Chars) /\ \A i \in 1 .. n : y[i] \in Chars
  BY <1>2, <1>3
<1>5. /\ SubSeq(x, 1, n) \in Seq(Chars) /\ SubSeq(y, 1, n) \in Seq(Chars)
      /\ Len(SubSeq(x, 1, n)) = n /\ Len(SubSeq(y, 1, n)) = n
      /\ \A i \in 1 .. n : SubSeq(x, 1, n)[i] = x[i] /\ SubSeq(y, 1, n)[i] = y[i]
  BY <1>1, <1>2
<1>6. \A i \in 1 .. n : SubSeq(x, 1, n)[i] = SubSeq(y, 1, n)[i]
  BY <1>3, <1>5
<1>7. SubSeq(y, 1, n) = SubSeq(x, 1, n)
  BY <1>5, <1>6, SeqEqual
<1>8. QED
  BY <1>7 DEF x, y

\* One more character has been pushed.
LEMMA OneMore ==
    ASSUME NEW out \in Seq(Chars), NEW n \in Nat, n < Len(out)
    PROVE  SubSeq(out, 1, n + 1) = Append(SubSeq(out, 1, n), out[n + 1])
<1>1. Len(out) \in Nat /\ \A i \in 1 .. n + 1 : out[i] \in Chars
  BY ElementOfSeq
<1>2. /\ SubSeq(out, 1, n) \in Seq(Chars) /\ SubSeq(out, 1, n + 1) \in Seq(Chars)
      /\ Len(SubSeq(out, 1, n)) = n /\ Len(SubSeq(out, 1, n + 1)) = n + 1
      /\ \A i \in 1 .. n : SubSeq(out, 1, n)[i] = out[i]
      /\ \A i \in 1 .. n + 1 : SubSeq(out, 1, n + 1)[i] = out[i]
  BY <1>1
<1> DEFINE x == SubSeq(out, 1, n)
           y == SubSeq(out, 1, n + 1)
<1> HIDE DEF x, y
<1>3. /\ Append(x, out[n + 1]) \in Seq(Chars) /\ Len(Append(x, out[n + 1])) = n + 1
      /\ \A i \in 1 .. n : Append(x, out[n + 1])[i] = out[i]
      /\ Append(x, out[n + 1])[n + 1] = out[n + 1]
  BY <1>1, <1>2, AppendProperties DEF x
<1>4. \A i \in 1 .. n + 1 : y[i] = Append(x, out[n + 1])[i]
  BY <1>2, <1>3 DEF y
<1>5. y = Append(x, out[n + 1])
  BY <1>2, <1>3, <1>4, SeqEqual DEF y
<1>6. QED
  BY <1>5 DEF x, y

\* A character that goes from the head of one sequence to the end of another
\* leaves them together as they were.
LEMMA MovesOver ==
    ASSUME NEW S, NEW x \in Seq(S), NEW y \in Seq(S), y # <<>>
    PROVE  Append(x, Head(y)) \o Tail(y) = x \o y
  OBVIOUS

LEMMA AppendOver ==
    ASSUME NEW S, NEW x \in Seq(S), NEW y \in Seq(S), NEW e \in S
    PROVE  x \o Append(y, e) = Append(x \o y, e)
  OBVIOUS

LEMMA CallPrints ==
    ASSUME TerminalTypeOK, PrintInv, Calls
    PROVE  PrintInv'
<1>1. pushed = Len(con.output) /\ Used = 0 /\ on = "on"
  BY CallKeeps, ReadyIsEmpty
<1>2. /\ UNCHANGED <<ringVars, pushed, printed>>
      /\ con \in Console /\ con' \in Console /\ Extends(con, con')
      /\ longest' \in Nat /\ longest \in Nat /\ longest <= longest'
      /\ Len(con'.output) - Len(con.output) <= longest'
  BY CallKeeps DEF TerminalTypeOK
<1>3. Used' = Used /\ Contents' = Contents /\ Capacity \in Nat
  BY <1>2, RingAssumption DEF ringVars, Used, Contents, SlotAt
<1>4. on' # "off"
  BY <1>1 DEF Calls, CONIN, CONOUT, READLINE, LINEGET, LINELEN
<1>5. Used' + (Len(con'.output) - pushed') <= longest'
  <2>1. Len(con.output) \in Nat /\ Len(con'.output) \in Nat
    BY <1>2 DEF Console
  <2>2. Used' = 0 /\ pushed' = Len(con.output)
    BY <1>1, <1>2, <1>3
  <2>3. Len(con'.output) - Len(con.output) <= longest'
    BY <1>2
  <2>4. 0 + (Len(con'.output) - Len(con.output)) <= longest'
    BY <1>2, <2>1, <2>3, Sums
  <2>5. QED
    BY <2>2, <2>4
<1>6. PrintsInOrder'
  <2> SUFFICES ASSUME longest' < Capacity
               PROVE  printed' \o Contents' = SubSeq(con'.output, 1, pushed')
    BY DEF PrintsInOrder
  <2>1. longest < Capacity
    BY <1>2, <1>3
  <2>2. printed \o Contents = SubSeq(con.output, 1, pushed)
    BY <2>1 DEF PrintInv, PrintsInOrder
  <2>3. SubSeq(con'.output, 1, pushed) = SubSeq(con.output, 1, pushed)
    BY <1>2, SamePart DEF TerminalTypeOK
  <2>4. QED
    BY <1>2, <1>3, <2>2, <2>3
<1>7. QED
  BY <1>4, <1>5, <1>6 DEF PrintInv

LEMMA PushPrints ==
    ASSUME TerminalTypeOK, TypeOK', PrintInv, PUSH
    PROVE  PrintInv'
<1> DEFINE ch == con.output[pushed + 1]
<1>1. /\ ch \in Chars /\ pushed \in Nat /\ pushed < Len(con.output)
      /\ con.output \in Seq(Chars) /\ longest \in Nat /\ Capacity \in Nat \ {0} /\ TypeOK
      /\ printed \in Seq(Chars \cup {Nul})
  BY PushIs, RingAssumption DEF PUSH, TerminalTypeOK, Console
<1>2. Push(ch) /\ pushed' = pushed + 1 /\ UNCHANGED <<con, a, on, printed, typed, longest>>
  BY DEF PUSH
<1> HIDE DEF ch
<1>3. Queue!Push(ch)
  BY <1>1, <1>2, PushStep
<1>4. on # "off"
  <2>1. Len(<<>>) = 0
    OBVIOUS
  <2>2. con.output # <<>>
    BY <1>1, <2>1
  <2>3. QED
    BY <2>2 DEF PrintInv
<1>5. ASSUME longest < Capacity
      PROVE  /\ Used' + (Len(con'.output) - pushed') <= longest'
             /\ printed' \o Contents' = SubSeq(con'.output, 1, pushed')
  <2>1. Used + (Len(con.output) - pushed) <= longest /\ Used \in Nat /\ Len(con.output) \in Nat
    BY <1>1, <1>5, ContentsType DEF PrintInv
  <2>2. Used < Capacity - 1
    BY <1>1, <1>5, <2>1
  <2>3. Contents \in Seq(Chars \cup {Nul}) /\ Len(Contents) = Used
    BY <1>1, ContentsType
  <2>4. Contents' = Append(Contents, ch)
    BY <1>3, <2>2, <2>3 DEF Queue!Push
  <2>5. Used' = Used + 1
    <3>1. Len(Contents') = Used'
      BY LenContentsNext
    <3>2. Len(Append(Contents, ch)) = Len(Contents) + 1
      <4> DEFINE x == Contents
      <4>1. x \in Seq(Chars \cup {Nul}) /\ ch \in Chars \cup {Nul}
        BY <1>1, <2>3
      <4> HIDE DEF x
      <4>2. Len(Append(x, ch)) = Len(x) + 1
        BY <4>1, AppendProperties
      <4>3. QED
        BY <4>2 DEF x
    <3> HIDE DEF Contents
    <3>3. QED
      BY <2>3, <2>4, <3>1, <3>2
  <2>6. printed \o Contents = SubSeq(con.output, 1, pushed)
    BY <1>5 DEF PrintInv, PrintsInOrder
  <2>7. SubSeq(con.output, 1, pushed + 1) = Append(SubSeq(con.output, 1, pushed), ch)
    BY <1>1, OneMore DEF ch
  <2>8. printed \o Append(Contents, ch) = Append(printed \o Contents, ch)
    <3> DEFINE x == Contents
    <3>1. x \in Seq(Chars \cup {Nul}) /\ ch \in Chars \cup {Nul}
      BY <1>1, <2>3
    <3> HIDE DEF x
    <3>2. printed \o Append(x, ch) = Append(printed \o x, ch)
      BY <1>1, <3>1, AppendOver
    <3>3. QED
      BY <3>2 DEF x
  <2> HIDE DEF Contents, Used
  <2>9. printed' \o Contents' = SubSeq(con'.output, 1, pushed')
    BY <1>2, <2>4, <2>6, <2>7, <2>8
  <2>10. Used' + (Len(con'.output) - pushed') <= longest'
    <3>1. pushed' = pushed + 1 /\ con' = con /\ longest' = longest
      BY <1>2
    <3>2. Used + 1 + (Len(con.output) - (pushed + 1)) <= longest
      BY <1>1, <2>1, Sums
    <3>3. QED
      BY <2>5, <3>1, <3>2
  <2>11. QED
    BY <2>9, <2>10
<1>6. on' = on /\ longest' = longest
  BY <1>2
<1>7. QED
  BY <1>4, <1>5, <1>6 DEF PrintInv, PrintsInOrder

LEMMA DrainPrints ==
    ASSUME TerminalTypeOK, TypeOK', PrintInv, DRAIN
    PROVE  PrintInv'
<1>1. /\ pushed = Len(con.output) /\ Pending /\ Get
      /\ printed' = Append(printed, call'.ch)
      /\ UNCHANGED <<con, a, on, pushed, typed, longest>>
  BY DEF DRAIN
<1>2. TypeOK /\ printed \in Seq(Chars \cup {Nul}) /\ longest \in Nat /\ Len(con.output) \in Nat
  BY DEF TerminalTypeOK, Console
<1>3. Contents \in Seq(Chars \cup {Nul}) /\ Len(Contents) = Used /\ Used \in Nat
  BY <1>2, ContentsType
<1>4. Used # 0
  BY <1>1, <1>2, FullAndEmpty
<1>5. on # "off"
  BY <1>4 DEF PrintInv
<1>6. Contents # <<>>
  <2>1. Len(<<>>) = 0
    OBVIOUS
  <2> HIDE DEF Contents
  <2>2. QED
    BY <1>3, <1>4, <2>1
<1>7. Contents' = Tail(Contents) /\ call'.ch = Head(Contents)
  <2>1. Queue!Get
    BY <1>1, <1>2, GetStep
  <2>2. QED
    BY <1>6, <2>1 DEF Queue!Get, Queue!Called
<1>8. Used' = Used - 1
  <2>1. Len(Contents') = Used'
    BY LenContentsNext
  <2> HIDE DEF Contents, Used
  <2>2. Len(Tail(Contents)) = Len(Contents) - 1
    BY <1>3, <1>6, HeadTailProperties
  <2>3. QED
    BY <1>3, <1>7, <2>1, <2>2
<1> HIDE DEF Contents, Used
<1>9. Append(printed, Head(Contents)) \o Tail(Contents) = printed \o Contents
  BY <1>2, <1>3, <1>6, MovesOver
<1>10. printed' \o Contents' = printed \o Contents
  BY <1>1, <1>7, <1>9
<1>11. longest < Capacity => Used' + (Len(con'.output) - pushed') <= longest'
  <2>1. longest < Capacity => Used + (Len(con.output) - pushed) <= longest
    BY DEF PrintInv
  <2>2. QED
    BY <1>1, <1>2, <1>3, <1>8, <2>1
<1>12. PrintsInOrder'
  BY <1>1, <1>10 DEF PrintInv, PrintsInOrder
<1>13. QED
  BY <1>1, <1>5, <1>11, <1>12 DEF PrintInv

LEMMA PrintStep ==
    ASSUME TerminalTypeOK, PrintInv, [TerminalNext]_terminalVars
    PROVE  PrintInv'
<1>0. TypeOK'
  BY TerminalTypesStep DEF TerminalTypeOK
<1>1. CASE BOOT
  <2>1. /\ on = "off" /\ Reset /\ on' = "on"
        /\ UNCHANGED <<con, a, pushed, printed, typed, longest>>
    BY <1>1 DEF BOOT
  <2>2. con.output = <<>> /\ Used = 0 /\ printed = <<>>
    BY <2>1 DEF PrintInv
  <2>3. Used' = 0
    BY <2>1 DEF Reset, Used
  <2>4. Contents' = <<>>
    BY <2>3 DEF Contents
  <2>5. Contents = <<>>
    BY <2>2 DEF Contents
  <2> HIDE DEF Contents, Used
  <2>6. PrintsInOrder'
    BY <2>1, <2>4, <2>5 DEF PrintInv, PrintsInOrder
  <2>7. longest' < Capacity => Used' + (Len(con'.output) - pushed') <= longest'
    BY <2>1, <2>2, <2>3 DEF PrintInv
  <2>8. QED
    BY <2>1, <2>6, <2>7 DEF PrintInv
<1>2. CASE Calls
  BY <1>2, CallPrints
<1>3. CASE PUSH
  BY <1>0, <1>3, PushPrints
<1>4. CASE DRAIN
  BY <1>0, <1>4, DrainPrints
<1>5. CASE UNCHANGED terminalVars
  <2>1. Used' = Used /\ Contents' = Contents
    BY <1>5 DEF terminalVars, ringVars, Used, Contents, SlotAt
  <2> HIDE DEF Contents, Used
  <2>2. UNCHANGED <<con, on, pushed, printed, longest>>
    BY <1>5 DEF terminalVars
  <2>3. QED
    BY <2>1, <2>2 DEF PrintInv, PrintsInOrder
<1>6. QED
  BY <1>1, <1>2, <1>3, <1>4, <1>5 DEF TerminalNext, Calls, Over

\* If what any one call prints fits in the ring, everything programs print is
\* printed, once and in the order of the calls, across any number of calls
\* (out_queue_push, kernel_drain_bios_output).
THEOREM AllIsPrinted == TerminalSpec => []PrintsInOrder
<1>1. TerminalInit => TerminalTypeOK /\ PrintInv
  BY TerminalInitTypes, PrintInit
<1>2. TerminalTypeOK /\ PrintInv /\ [TerminalNext]_terminalVars => (TerminalTypeOK /\ PrintInv)'
  BY TerminalTypesStep, PrintStep
<1>3. TerminalTypeOK /\ PrintInv => PrintsInOrder
  BY DEF PrintInv
<1>4. QED
  BY <1>1, <1>2, <1>3, PTL DEF TerminalSpec

-----------------------------------------------------------------------------
(* What a typist means.                                                    *)

\* The places of the first n numbers of a set, in their order.
Numbers(S, p, n) ==
    /\ p \in [1 .. n -> S]
    /\ \A j, k \in 1 .. n : j < k => p[j] < p[k]
    /\ \A i \in S : \E k \in 1 .. n : i = p[k]

\* The numbers of a set that is so listed are counted and found.
LEMMA NumbersCount ==
    ASSUME NEW S \in SUBSET Nat, NEW n \in Nat, NEW p, Numbers(S, p, n)
    PROVE  /\ Cardinality(S) = n
           /\ \A k \in 1 .. n : Nth(S, k) = p[k]
<1>0. ASSUME NEW j \in 1 .. n, NEW k \in 1 .. n, p[j] = p[k] PROVE j = k
  <2>1. p[j] \in Nat /\ p[k] \in Nat
    BY DEF Numbers
  <2>2. ~(j < k) /\ ~(k < j)
    BY <1>0, <2>1 DEF Numbers
  <2>3. QED
    BY <2>2
<1>1. Cardinality(S) = n
  <2>1. p \in Bijection(1 .. n, S)
    BY <1>0 DEF Numbers, Bijection, Injection, IsInjective, Surjection
  <2>2. ExistsBijection(1 .. n, S)
    BY <2>1 DEF ExistsBijection
  <2>3. QED
    BY <2>2, FS_CountingElements
<1>2. ASSUME NEW k \in 1 .. n PROVE Cardinality({j \in S : j < p[k]}) = k - 1
  <2> DEFINE B == {j \in S : j < p[k]}
             q == [i \in 1 .. k - 1 |-> p[i]]
  <2>1. ASSUME NEW i \in 1 .. k - 1 PROVE q[i] \in B /\ i \in 1 .. n
    BY <1>2 DEF Numbers
  <2>2. ASSUME NEW x \in B PROVE \E i \in 1 .. k - 1 : q[i] = x
    <3>1. PICK i \in 1 .. n : x = p[i]
      BY DEF Numbers
    <3>2. p[i] < p[k] /\ p[i] \in Nat /\ p[k] \in Nat
      BY <3>1 DEF Numbers
    <3>3. ~(k < i) /\ i # k
      BY <3>2 DEF Numbers
    <3>4. i \in 1 .. k - 1
      BY <3>3
    <3>5. QED
      BY <3>1, <3>4
  <2>3. q \in [1 .. k - 1 -> B]
    BY <2>1
  <2>4. ASSUME NEW i \in 1 .. k - 1, NEW j \in 1 .. k - 1, q[i] = q[j] PROVE i = j
    BY <1>0, <2>1, <2>4
  <2> HIDE DEF B, q
  <2>5. q \in Bijection(1 .. k - 1, B)
    BY <2>2, <2>3, <2>4 DEF Bijection, Injection, IsInjective, Surjection
  <2>6. ExistsBijection(1 .. k - 1, B) /\ k - 1 \in Nat
    BY <2>5 DEF ExistsBijection
  <2>7. Cardinality(B) = k - 1
    BY <2>6, FS_CountingElements
  <2>8. QED
    BY <2>7 DEF B
<1>3. ASSUME NEW k \in 1 .. n PROVE Nth(S, k) = p[k]
  <2> DEFINE Rank(i) == Cardinality({j \in S : j < i})
  <2>1. \A i \in 1 .. n : Rank(p[i]) = i - 1
    BY <1>2
  <2> HIDE DEF Rank
  <2>2. p[k] \in S /\ Rank(p[k]) = k - 1
    BY <2>1 DEF Numbers
  <2>3. ASSUME NEW i \in S, Rank(i) = k - 1 PROVE i = p[k]
    <3>1. PICK m \in 1 .. n : i = p[m]
      BY DEF Numbers
    <3>2. m - 1 = k - 1
      BY <2>1, <2>3, <3>1
    <3>3. m = k
      BY <3>2
    <3>4. QED
      BY <3>1, <3>3
  <2>4. (CHOOSE i \in S : Rank(i) = k - 1) = p[k]
    BY <2>2, <2>3
  <2>5. QED
    BY <2>4 DEF Nth, Rank
<1>4. QED
  BY <1>1, <1>3

\* One more character erases, or it does not.
LEMMA ErasedStep ==
    ASSUME NEW t, NEW m \in Nat, NEW i \in 0 .. m
    PROVE  /\ Cardinality(Erased(t, i, m)) \in Nat
           /\ Cardinality(Erased(t, i, m + 1)) =
                 Cardinality(Erased(t, i, m)) + IF t[m + 1] \in Erase THEN 1 ELSE 0
<1> DEFINE S == Erased(t, i, m)
<1>1. IsFiniteSet(S)
  <2>1. IsFiniteSet(i + 1 .. m)
    BY FS_Interval
  <2>2. S \subseteq i + 1 .. m
    BY DEF Erased
  <2>3. QED
    BY <2>1, <2>2, FS_Subset
<1>2. Cardinality(S) \in Nat
  BY <1>1, FS_CardinalityType
<1>3. CASE t[m + 1] \in Erase
  <2>1. Erased(t, i, m + 1) = S \cup {m + 1} /\ m + 1 \notin S
    BY <1>3 DEF Erased
  <2> HIDE DEF S
  <2>2. Cardinality(S \cup {m + 1}) = Cardinality(S) + 1
    BY <1>1, <2>1, FS_AddElement
  <2>3. QED
    BY <1>2, <1>3, <2>1, <2>2 DEF S
<1>4. CASE t[m + 1] \notin Erase
  <2>1. Erased(t, i, m + 1) = S
    BY <1>4 DEF Erased
  <2> HIDE DEF S
  <2>2. QED
    BY <1>2, <1>4, <2>1 DEF S
<1>5. QED
  BY <1>3, <1>4

\* No character erases after the last.
LEMMA ErasedNone ==
    ASSUME NEW t, NEW m \in Nat
    PROVE  Cardinality(Erased(t, m, m)) = 0
<1>1. Erased(t, m, m) = {}
  BY DEF Erased
<1>2. QED
  BY <1>1, FS_EmptySet

\* What stays when one more character comes.
LEMMA StaysStep ==
    ASSUME NEW t, NEW m \in Nat, NEW i
    PROVE  i \in Kept(t, m + 1) <=> \/ i \in Kept(t, m) /\ Balanced(t, i, m + 1)
                                    \/ i = m + 1 /\ t[m + 1] \notin Erase
<1>1. CASE i \in 1 .. m
  <2>1. \A j : j \in i + 1 .. m + 1 <=> j \in i + 1 .. m \/ j = m + 1
    BY <1>1
  <2>2. (\A j \in i + 1 .. m + 1 : Balanced(t, i, j))
           <=> (\A j \in i + 1 .. m : Balanced(t, i, j)) /\ Balanced(t, i, m + 1)
    BY <2>1
  <2>3. i # m + 1 /\ i \in 1 .. m + 1
    BY <1>1
  <2>4. QED
    BY <1>1, <2>2, <2>3, Zenon DEF Kept, Stays
<1>2. CASE i = m + 1
  <2>1. i \notin 1 .. m /\ i + 1 .. m + 1 = {} /\ i \in 1 .. m + 1
    BY <1>2
  <2>2. QED
    BY <1>2, <2>1 DEF Kept, Stays
<1>3. CASE i \notin 1 .. m + 1
  <2>1. i \notin 1 .. m /\ i # m + 1
    BY <1>3
  <2>2. QED
    BY <1>3, <2>1 DEF Kept
<1>4. QED
  BY <1>1, <1>2, <1>3

\* The line holds the characters that stay, and of those after each of them
\* as many more erase than do not as the line is short of holding them all.
Holds(t, l, p, m) ==
    /\ Numbers(Kept(t, m), p, Len(l))
    /\ \A k \in 1 .. Len(l) :
          /\ l[k] = t[p[k]]
          /\ (m - p[k]) - 2 * Cardinality(Erased(t, p[k], m)) = Len(l) - k

LEMMA Shortfall ==
    \A m, x, e, n, k \in Int : (m - x) - 2 * e = n - k =>
        /\ ((m + 1) - x) - 2 * e = n + 1 - k
        /\ ((m + 1) - x) - 2 * (e + 1) = n - 1 - k
  OBVIOUS

\* A character goes to the end of the line.
LEMMA HoldsMore ==
    ASSUME NEW t \in Seq(Keys), NEW l \in Seq(0 .. 255), NEW p, NEW m \in Nat, m < Len(t),
           Holds(t, l, p, m), t[m + 1] \notin Erase
    PROVE  \E q : Holds(t, Append(l, t[m + 1]), q, m + 1)
<1> DEFINE n == Len(l)
           new == Append(l, t[m + 1])
           q == [k \in 1 .. n + 1 |-> IF k = n + 1 THEN m + 1 ELSE p[k]]
<1>1. n \in Nat /\ t[m + 1] \in 0 .. 255
  <2>1. m + 1 \in 1 .. Len(t)
    OBVIOUS
  <2>2. t[m + 1] \in Keys
    BY <2>1, ElementOfSeq
  <2>3. t[m + 1] \in 0 .. 255
    BY <2>2, CharSets
  <2>4. n \in Nat
    BY LenProperties
  <2>5. QED
    BY <2>3, <2>4
<1>2. /\ Len(new) = n + 1 /\ new[n + 1] = t[m + 1]
      /\ \A k \in 1 .. n : new[k] = l[k]
  BY <1>1, AppendProperties
<1> HIDE DEF new
<1>3. ASSUME NEW k \in 1 .. n
      PROVE  /\ p[k] \in Kept(t, m) /\ p[k] \in 1 .. m
             /\ Cardinality(Erased(t, p[k], m)) \in Nat
             /\ Cardinality(Erased(t, p[k], m + 1)) = Cardinality(Erased(t, p[k], m))
             /\ (m - p[k]) - 2 * Cardinality(Erased(t, p[k], m)) = n - k
             /\ l[k] = t[p[k]]
  <2>1. p[k] \in Kept(t, m)
    BY DEF Holds, Numbers
  <2>2. p[k] \in 1 .. m
    BY <2>1 DEF Kept
  <2>3. p[k] \in 0 .. m
    BY <2>2
  <2>4. /\ Cardinality(Erased(t, p[k], m)) \in Nat
        /\ Cardinality(Erased(t, p[k], m + 1)) =
              Cardinality(Erased(t, p[k], m)) + IF t[m + 1] \in Erase THEN 1 ELSE 0
    BY <2>3, ErasedStep
  <2>5. Cardinality(Erased(t, p[k], m + 1)) = Cardinality(Erased(t, p[k], m))
    BY <2>4
  <2>6. QED
    BY <2>1, <2>2, <2>4, <2>5 DEF Holds
<1>4. ASSUME NEW k \in 1 .. n
      PROVE  ((m + 1) - p[k]) - 2 * Cardinality(Erased(t, p[k], m + 1)) = n + 1 - k
  <2> DEFINE x == p[k]
             e == Cardinality(Erased(t, x, m))
  <2>1. x \in Int /\ e \in Int /\ m \in Int /\ n \in Int /\ k \in Int /\ (m - x) - 2 * e = n - k
    BY <1>1, <1>3
  <2>2. Cardinality(Erased(t, x, m + 1)) = e
    BY <1>3
  <2> HIDE DEF e, x, n
  <2>3. ((m + 1) - x) - 2 * e = n + 1 - k
    BY <2>1, Shortfall
  <2>4. QED
    BY <2>2, <2>3 DEF x
<1>5. ASSUME NEW k \in 1 .. n PROVE Balanced(t, p[k], m + 1)
  BY <1>1, <1>3, <1>4 DEF Balanced
<1>6. ASSUME NEW i
      PROVE  i \in Kept(t, m + 1) <=> i \in Kept(t, m) \/ i = m + 1
  <2>1. i \in Kept(t, m) => \E k \in 1 .. n : i = p[k]
    BY DEF Holds, Numbers
  <2>2. i \in Kept(t, m) => Balanced(t, i, m + 1)
    BY <1>5, <2>1
  <2>3. QED
    BY <2>2, StaysStep
<1>7. q \in [1 .. n + 1 -> Kept(t, m + 1)]
  BY <1>3, <1>6
<1>8. ASSUME NEW j \in 1 .. n + 1, NEW k \in 1 .. n + 1, j < k PROVE q[j] < q[k]
  <2>1. j \in 1 .. n /\ q[j] = p[j]
    BY <1>1, <1>8
  <2>2. CASE k = n + 1
    BY <1>3, <2>1, <2>2
  <2>3. CASE k \in 1 .. n
    BY <1>1, <1>8, <2>1, <2>3 DEF Holds, Numbers
  <2>4. QED
    BY <1>1, <2>2, <2>3
<1>9. ASSUME NEW i \in Kept(t, m + 1) PROVE \E k \in 1 .. n + 1 : i = q[k]
  <2>1. CASE i = m + 1
    <3>1. n + 1 \in 1 .. n + 1 /\ q[n + 1] = m + 1
      BY <1>1
    <3>2. QED
      BY <2>1, <3>1
  <2>2. CASE i \in Kept(t, m)
    <3>1. PICK k \in 1 .. n : i = p[k]
      BY <2>2 DEF Holds, Numbers
    <3>2. k \in 1 .. n + 1 /\ q[k] = p[k]
      BY <1>1
    <3>3. QED
      BY <3>1, <3>2
  <2>3. QED
    BY <1>6, <2>1, <2>2
<1>10. ASSUME NEW k \in 1 .. n + 1
       PROVE  /\ new[k] = t[q[k]]
              /\ ((m + 1) - q[k]) - 2 * Cardinality(Erased(t, q[k], m + 1)) = n + 1 - k
  <2>1. CASE k = n + 1
    <3>1. Cardinality(Erased(t, m + 1, m + 1)) = 0
      BY ErasedNone
    <3>2. q[k] = m + 1
      BY <2>1
    <3>3. QED
      BY <1>1, <1>2, <2>1, <3>1, <3>2
  <2>2. CASE k \in 1 .. n
    <3>1. q[k] = p[k]
      BY <1>1, <2>2
    <3>2. QED
      BY <1>2, <1>3, <1>4, <2>2, <3>1
  <2>3. QED
    BY <1>1, <2>1, <2>2
<1> HIDE DEF q
<1>11. Numbers(Kept(t, m + 1), q, n + 1)
  BY <1>7, <1>8, <1>9 DEF Numbers
<1>12. Holds(t, new, q, m + 1)
  <2>1. \A k \in 1 .. Len(new) :
           /\ new[k] = t[q[k]]
           /\ ((m + 1) - q[k]) - 2 * Cardinality(Erased(t, q[k], m + 1)) = Len(new) - k
    BY <1>2, <1>10
  <2>2. Numbers(Kept(t, m + 1), q, Len(new))
    BY <1>2, <1>11
  <2>3. QED
    BY <2>1, <2>2 DEF Holds
<1>13. QED
  BY <1>12 DEF new

\* The last character of the line goes.
LEMMA HoldsFewer ==
    ASSUME NEW t \in Seq(Keys), NEW l \in Seq(0 .. 255), l # <<>>, NEW p, NEW m \in Nat,
           Holds(t, l, p, m), t[m + 1] \in Erase
    PROVE  \E q : Holds(t, Front(l), q, m + 1)
<1> DEFINE n == Len(l)
           new == Front(l)
           q == [k \in 1 .. n - 1 |-> p[k]]
<1>1. n \in Nat \ {0}
  BY EmptySeq
<1>2. /\ Len(new) = n - 1
      /\ \A k \in 1 .. n - 1 : new[k] = l[k]
  <2>1. \A i \in 1 .. n - 1 : i \in 1 .. n
    BY <1>1
  <2>2. \A i \in 1 .. n - 1 : l[i] \in 0 .. 255
    BY <2>1, ElementOfSeq
  <2> HIDE DEF n
  <2>3. 1 \in Int /\ n - 1 \in Int /\ n - 1 - 1 + 1 = n - 1 /\ (~(1 <= n - 1) => n - 1 = 0)
    BY <1>1
  <2>4. /\ Len(SubSeq(l, 1, n - 1)) = n - 1
        /\ \A i \in 1 .. n - 1 : SubSeq(l, 1, n - 1)[i] = l[i]
    BY <1>1, <2>2, <2>3
  <2>5. new = SubSeq(l, 1, n - 1)
    BY DEF Front, n
  <2>6. QED
    BY <2>4, <2>5
<1> HIDE DEF new
<1>3. ASSUME NEW k \in 1 .. n
      PROVE  /\ p[k] \in Kept(t, m) /\ p[k] \in 1 .. m
             /\ Cardinality(Erased(t, p[k], m)) \in Nat
             /\ Cardinality(Erased(t, p[k], m + 1)) = Cardinality(Erased(t, p[k], m)) + 1
             /\ (m - p[k]) - 2 * Cardinality(Erased(t, p[k], m)) = n - k
             /\ l[k] = t[p[k]]
  <2>1. p[k] \in Kept(t, m)
    BY DEF Holds, Numbers
  <2>2. p[k] \in 1 .. m
    BY <2>1 DEF Kept
  <2>3. p[k] \in 0 .. m
    BY <2>2
  <2>4. /\ Cardinality(Erased(t, p[k], m)) \in Nat
        /\ Cardinality(Erased(t, p[k], m + 1)) =
              Cardinality(Erased(t, p[k], m)) + IF t[m + 1] \in Erase THEN 1 ELSE 0
    BY <2>3, ErasedStep
  <2>5. Cardinality(Erased(t, p[k], m + 1)) = Cardinality(Erased(t, p[k], m)) + 1
    BY <2>4
  <2>6. QED
    BY <2>1, <2>2, <2>4, <2>5 DEF Holds
<1>4. ASSUME NEW k \in 1 .. n
      PROVE  /\ ((m + 1) - p[k]) - 2 * Cardinality(Erased(t, p[k], m + 1)) = n - 1 - k
             /\ Balanced(t, p[k], m + 1) <=> k # n
  <2> DEFINE x == p[k]
             e == Cardinality(Erased(t, x, m))
  <2>1. /\ x \in Int /\ e \in Int /\ m \in Int /\ n \in Int /\ k \in Int /\ k <= n
        /\ (m - x) - 2 * e = n - k
    BY <1>1, <1>3
  <2>2. Cardinality(Erased(t, x, m + 1)) = e + 1
    BY <1>3
  <2> HIDE DEF e, x, n
  <2>3. ((m + 1) - x) - 2 * (e + 1) = n - 1 - k
    BY <2>1, Shortfall
  <2>4. 2 * (e + 1) <= (m + 1) - x <=> k # n
    BY <2>1, <2>3
  <2>5. QED
    BY <2>2, <2>3, <2>4 DEF x, Balanced
<1>5. ASSUME NEW i
      PROVE  i \in Kept(t, m + 1) <=> \E k \in 1 .. n - 1 : i = p[k]
  <2>1. i \in Kept(t, m + 1) <=> i \in Kept(t, m) /\ Balanced(t, i, m + 1)
    BY StaysStep
  <2>2. i \in Kept(t, m) <=> \E k \in 1 .. n : i = p[k]
    BY DEF Holds, Numbers
  <2>3. \A k : k \in 1 .. n - 1 <=> k \in 1 .. n /\ k # n
    BY <1>1
  <2>4. QED
    BY <1>4, <2>1, <2>2, <2>3
<1>6. \A k \in 1 .. n - 1 : k \in 1 .. n /\ q[k] = p[k]
  BY <1>1
<1>7. q \in [1 .. n - 1 -> Kept(t, m + 1)]
  BY <1>5
<1> HIDE DEF q
<1>8. \A j, k \in 1 .. n - 1 : j < k => q[j] < q[k]
  BY <1>6 DEF Holds, Numbers
<1>9. \A i \in Kept(t, m + 1) : \E k \in 1 .. n - 1 : i = q[k]
  BY <1>5, <1>6
<1>10. Numbers(Kept(t, m + 1), q, Len(new))
  BY <1>2, <1>7, <1>8, <1>9 DEF Numbers
<1>11. \A k \in 1 .. Len(new) :
          /\ new[k] = t[q[k]]
          /\ ((m + 1) - q[k]) - 2 * Cardinality(Erased(t, q[k], m + 1)) = Len(new) - k
  BY <1>2, <1>3, <1>4, <1>6
<1>12. QED
  BY <1>10, <1>11 DEF Holds, new

\* An empty line stays empty.
LEMMA HoldsNone ==
    ASSUME NEW t \in Seq(Keys), NEW p, NEW m \in Nat,
           Holds(t, <<>>, p, m), t[m + 1] \in Erase
    PROVE  \E q : Holds(t, <<>>, q, m + 1)
<1>1. Len(<<>>) = 0 /\ 1 .. 0 = {}
  OBVIOUS
<1>2. Kept(t, m) = {}
  BY <1>1 DEF Holds, Numbers
<1>3. Kept(t, m + 1) = {}
  BY <1>2, StaysStep
<1>4. Numbers(Kept(t, m + 1), [k \in 1 .. 0 |-> 0], 0)
  BY <1>1, <1>3 DEF Numbers
<1>5. QED
  BY <1>1, <1>4 DEF Holds

\* What the line holds at the end is what is meant.
LEMMA HoldsMeant ==
    ASSUME NEW t \in Seq(Keys), NEW l \in Seq(0 .. 255), NEW p, Holds(t, l, p, Len(t))
    PROVE  Meant(t) = l
<1> DEFINE S == Kept(t, Len(t))
<1>1. S \in SUBSET Nat /\ Len(l) \in Nat
  BY DEF Kept
<1>2. Numbers(S, p, Len(l)) /\ \A k \in 1 .. Len(l) : l[k] = t[p[k]]
  BY DEF Holds
<1> HIDE DEF S
<1>3. Cardinality(S) = Len(l) /\ \A k \in 1 .. Len(l) : Nth(S, k) = p[k]
  BY <1>1, <1>2, NumbersCount
<1>4. Meant(t) = [k \in 1 .. Cardinality(S) |-> t[Nth(S, k)]]
  BY DEF Meant, S
<1>5. Meant(t) = [k \in 1 .. Len(l) |-> l[k]]
  BY <1>2, <1>3, <1>4
<1>6. l = [k \in 1 .. Len(l) |-> l[k]]
  OBVIOUS
<1>7. QED
  BY <1>5, <1>6

\* The line after one more character.
LEMMA TakeLine ==
    ASSUME NEW c \in Console, NEW ch
    PROVE  Take(c, ch).line = IF ch \in Erase
                              THEN IF c.line = <<>> THEN <<>> ELSE Front(c.line)
                              ELSE IF Len(c.line) < LineMax THEN Append(c.line, ch)
                              ELSE c.line
  BY DEF Take, Console

\* One step of the loop, on the line.
LEMMA LineStep ==
    ASSUME NEW c \in Console, NEW t \in Seq(Keys), NEW n \in 1 .. Len(t), NEW l,
           l = Taking(c, t)[n - 1].line
    PROVE  /\ l \in Seq(0 .. 255) /\ Taking(c, t)[n].line \in Seq(0 .. 255)
           /\ Taking(c, t)[n].line = IF t[n] \in Erase
                                     THEN IF l = <<>> THEN <<>> ELSE Front(l)
                                     ELSE IF Len(l) < LineMax THEN Append(l, t[n]) ELSE l
<1>1. Len(t) \in Nat /\ n - 1 \in 0 .. Len(t) /\ n \in 0 .. Len(t)
  BY LenProperties
<1>2. Taking(c, t)[n - 1] \in Console /\ Taking(c, t)[n] \in Console
  BY <1>1, TakingKeeps
<1>3. Taking(c, t)[n] = Take(Taking(c, t)[n - 1], t[n])
  BY <1>1, TakingIs
<1> DEFINE d == Taking(c, t)[n - 1]
           e == Taking(c, t)[n]
<1>4. d \in Console /\ e \in Console /\ e = Take(d, t[n]) /\ l = d.line
  BY <1>2, <1>3
<1> HIDE DEF d, e
<1>5. e.line = IF t[n] \in Erase THEN IF l = <<>> THEN <<>> ELSE Front(l)
               ELSE IF Len(l) < LineMax THEN Append(l, t[n]) ELSE l
  BY <1>4, TakeLine
<1>6. l \in Seq(0 .. 255) /\ e.line \in Seq(0 .. 255)
  BY <1>4 DEF Console
<1>7. QED
  BY <1>5, <1>6 DEF e

\* A line that never fills the buffer holds, after every character, those
\* that stay.
LEMMA HoldsAll ==
    ASSUME NEW c \in Console, c.line = <<>>, NEW t \in Seq(Keys), Fits(t, LineMax - 1)
    PROVE  \A m \in 0 .. Len(t) : \E p : Holds(t, Taking(c, t)[m].line, p, m)
<1> DEFINE line(m) == Taking(c, t)[m].line
           S == {m \in Nat : \E p : Holds(t, line(m), p, m)}
<1>0. Len(t) \in Nat /\ LineMax \in Nat \ {0}
  BY LenProperties, ConsoleAssumption
<1>1. 0 \in S
  <2>1. line(0) = <<>> /\ Len(<<>>) = 0 /\ 1 .. 0 = {}
    BY <1>0, TakingIs
  <2>2. Kept(t, 0) = {}
    BY DEF Kept
  <2>3. Numbers(Kept(t, 0), [k \in 1 .. 0 |-> 0], 0)
    BY <2>1, <2>2 DEF Numbers
  <2>4. Holds(t, <<>>, [k \in 1 .. 0 |-> 0], 0)
    BY <2>1, <2>3 DEF Holds
  <2>5. QED
    BY <2>1, <2>4
<1>2. ASSUME NEW n \in 1 .. Len(t), n - 1 \in S PROVE n \in S
  <2> DEFINE m == n - 1
             l == line(m)
  <2>1. m \in Nat /\ m < Len(t) /\ n = m + 1 /\ n \in Nat
    BY <1>0
  <2>2. PICK p : Holds(t, l, p, m)
    BY <1>2
  <2>3. /\ l \in Seq(0 .. 255)
        /\ line(n) = IF t[n] \in Erase THEN IF l = <<>> THEN <<>> ELSE Front(l)
                     ELSE IF Len(l) < LineMax THEN Append(l, t[n]) ELSE l
    BY LineStep
  <2>4. Len(l) = Cardinality(Kept(t, m))
    <3>1. Kept(t, m) \in SUBSET Nat /\ Len(l) \in Nat /\ Numbers(Kept(t, m), p, Len(l))
      BY <2>2, <2>3, LenProperties DEF Kept, Holds
    <3>2. QED
      BY <3>1, NumbersCount
  <2>5. Len(l) < LineMax
    <3>1. CASE m = 0
      <4>1. Kept(t, m) = {}
        BY <3>1 DEF Kept
      <4>2. Len(l) = 0
        BY <2>4, <4>1, FS_EmptySet
      <4>3. QED
        BY <1>0, <4>2
    <3>2. CASE m \in 1 .. Len(t)
      <4>1. Cardinality(Kept(t, m)) <= LineMax - 1
        BY <3>2 DEF Fits
      <4>2. Len(l) \in Nat
        BY <2>3, LenProperties
      <4> HIDE DEF l, m
      <4>3. QED
        BY <1>0, <2>4, <4>1, <4>2
    <3>3. QED
      BY <2>1, <3>1, <3>2
  <2> HIDE DEF l, m
  <2>6. CASE t[n] \notin Erase
    <3>1. line(n) = Append(l, t[m + 1])
      BY <2>1, <2>3, <2>5, <2>6
    <3>2. \E q : Holds(t, Append(l, t[m + 1]), q, m + 1)
      BY <2>1, <2>2, <2>3, <2>6, HoldsMore
    <3>3. QED
      BY <2>1, <3>1, <3>2
  <2>7. CASE t[n] \in Erase /\ l # <<>>
    <3>1. line(n) = Front(l)
      BY <2>3, <2>7
    <3>2. \E q : Holds(t, Front(l), q, m + 1)
      BY <2>1, <2>2, <2>3, <2>7, HoldsFewer
    <3>3. QED
      BY <2>1, <3>1, <3>2
  <2>8. CASE t[n] \in Erase /\ l = <<>>
    <3>1. line(n) = <<>>
      BY <2>3, <2>8
    <3>2. \E q : Holds(t, <<>>, q, m + 1)
      BY <2>1, <2>2, <2>8, HoldsNone
    <3>3. QED
      BY <2>1, <3>1, <3>2
  <2>9. QED
    BY <2>6, <2>7, <2>8
<1>3. S \in SUBSET Nat
  OBVIOUS
<1> HIDE DEF S
<1>4. \A n \in 1 .. Len(t) : n - 1 \in S => n \in S
  BY <1>2
<1>5. \A n \in 0 .. Len(t) : n \in S
  BY <1>0, <1>1, <1>3, <1>4, UpTo
<1>6. QED
  BY <1>5 DEF S

\* No line is longer than the buffer, and one in which nothing is erased
\* holds the first characters there are.
LEMMA LineBegins ==
    ASSUME NEW c \in Console, c.line = <<>>, NEW t \in Seq(Keys)
    PROVE  \A m \in 0 .. Len(t) :
              /\ Len(Taking(c, t)[m].line) <= LineMax
              /\ (\A i \in 1 .. Len(t) : t[i] \notin Erase) =>
                    /\ Len(Taking(c, t)[m].line) = IF m < LineMax THEN m ELSE LineMax
                    /\ \A k \in 1 .. Len(Taking(c, t)[m].line) : Taking(c, t)[m].line[k] = t[k]
<1> DEFINE Plain == \A i \in 1 .. Len(t) : t[i] \notin Erase
           Begins(l, m) ==
              /\ Len(l) <= LineMax
              /\ Plain => /\ Len(l) = IF m < LineMax THEN m ELSE LineMax
                          /\ \A k \in 1 .. Len(l) : l[k] = t[k]
           line(m) == Taking(c, t)[m].line
           S == {m \in Nat : Begins(line(m), m)}
<1>0. Len(t) \in Nat /\ LineMax \in Nat \ {0}
  BY LenProperties, ConsoleAssumption
<1>1. 0 \in S
  <2>1. line(0) = <<>> /\ Len(<<>>) = 0 /\ 1 .. 0 = {}
    BY <1>0, TakingIs
  <2>2. Begins(<<>>, 0)
    BY <1>0, <2>1
  <2>3. QED
    BY <2>1, <2>2
<1>2. ASSUME NEW n \in 1 .. Len(t), n - 1 \in S PROVE n \in S
  <2> DEFINE m == n - 1
             l == line(m)
  <2>1. m \in Nat /\ m < Len(t) /\ n = m + 1 /\ n \in Nat
    BY <1>0
  <2>2. Begins(l, m)
    BY <1>2
  <2>3. /\ l \in Seq(0 .. 255) /\ line(n) \in Seq(0 .. 255)
        /\ line(n) = IF t[n] \in Erase THEN IF l = <<>> THEN <<>> ELSE Front(l)
                     ELSE IF Len(l) < LineMax THEN Append(l, t[n]) ELSE l
    BY LineStep
  <2> HIDE DEF l, line
  <2>4. Len(l) \in Nat
    BY <2>3, LenProperties
  <2>5. CASE t[n] \in Erase
    <3>1. ~Plain
      BY <2>5
    <3>2. Len(line(n)) <= LineMax
      <4>1. CASE l = <<>>
        BY <1>0, <2>3, <2>5, <4>1
      <4>2. CASE l # <<>>
        <5>1. Len(l) \in Nat \ {0} /\ line(n) = SubSeq(l, 1, Len(l) - 1)
          BY <2>3, <2>5, <4>2, EmptySeq DEF Front
        <5>2. \A i \in 1 .. Len(l) - 1 : l[i] \in 0 .. 255
          <6>1. \A i \in 1 .. Len(l) - 1 : i \in 1 .. Len(l)
            BY <5>1
          <6>2. QED
            BY <2>3, <6>1, ElementOfSeq
        <5>3. Len(SubSeq(l, 1, Len(l) - 1)) = Len(l) - 1
          <6>1. 1 \in Int /\ Len(l) - 1 \in Int /\ Len(l) - 1 - 1 + 1 = Len(l) - 1
            BY <5>1
          <6>2. \A x \in Nat \ {0} : ~(1 <= x - 1) => x - 1 = 0
            OBVIOUS
          <6>3. ~(1 <= Len(l) - 1) => Len(l) - 1 = 0
            BY <5>1, <6>2
          <6>4. QED
            BY <5>2, <6>1, <6>3, SubSeqProperties
        <5>4. QED
          BY <1>0, <2>2, <2>4, <5>1, <5>3
      <4>3. QED
        BY <4>1, <4>2
    <3>3. QED
      BY <2>1, <3>1, <3>2
  <2>6. CASE t[n] \notin Erase /\ Len(l) < LineMax
    <3> DEFINE new == Append(l, t[n])
    <3>1. t[n] \in 0 .. 255
      <4>1. t[n] \in Keys
        BY ElementOfSeq
      <4>2. QED
        BY <4>1, CharSets
    <3>2. /\ line(n) = new /\ Len(new) = Len(l) + 1 /\ new[Len(l) + 1] = t[n]
          /\ \A k \in 1 .. Len(l) : new[k] = l[k]
      BY <2>3, <2>6, <3>1, AppendProperties
    <3> HIDE DEF new
    <3>3. Len(new) <= LineMax
      BY <1>0, <2>4, <2>6, <3>2
    <3>4. ASSUME Plain
          PROVE  /\ Len(new) = IF n < LineMax THEN n ELSE LineMax
                 /\ \A k \in 1 .. Len(new) : new[k] = t[k]
      <4>1. Len(l) = m /\ \A k \in 1 .. m : l[k] = t[k]
        BY <1>0, <2>1, <2>2, <2>6, <3>4
      <4>2. Len(new) = n /\ n <= LineMax
        BY <1>0, <2>1, <2>6, <3>2, <4>1
      <4>3. \A k \in 1 .. n : k = n \/ k \in 1 .. m
        BY <2>1
      <4>4. QED
        BY <1>0, <2>1, <3>2, <4>1, <4>2, <4>3
    <3>5. QED
      BY <2>1, <3>2, <3>3, <3>4
  <2>7. CASE t[n] \notin Erase /\ ~(Len(l) < LineMax)
    <3>1. line(n) = l
      BY <2>3, <2>7
    <3>2. Plain => Len(l) = IF n < LineMax THEN n ELSE LineMax
      BY <1>0, <2>1, <2>2, <2>4, <2>7
    <3>3. QED
      BY <2>1, <2>2, <3>1, <3>2
  <2>8. QED
    BY <2>5, <2>6, <2>7
<1>3. S \in SUBSET Nat
  OBVIOUS
<1> HIDE DEF S
<1>4. \A n \in 1 .. Len(t) : n - 1 \in S => n \in S
  BY <1>2
<1>5. \A n \in 0 .. Len(t) : n \in S
  BY <1>0, <1>1, <1>3, <1>4, UpTo
<1>6. QED
  BY <1>5 DEF S

-----------------------------------------------------------------------------
(* What a program is given.                                                *)

\* What GetsWhatWasMeant says, of the line itself.
LineInv ==
    /\ Len(con.line) <= LineMax
    /\ Fits(typed, LineMax - 1) => con.line = Meant(typed)
    /\ typed # <<>> /\ (\A i \in 1 .. Len(typed) : typed[i] \notin Erase) =>
          /\ Len(con.line) = IF Len(typed) < LineMax THEN Len(typed) ELSE LineMax
          /\ \A k \in 1 .. Len(con.line) : k < LineMax => con.line[k] = typed[k]

LEMMA NothingMeant == Meant(<<>>) = <<>>
<1>1. Kept(<<>>, Len(<<>>)) = {}
  <2>1. Len(<<>>) = 0 /\ 1 .. 0 = {}
    OBVIOUS
  <2>2. QED
    BY <2>1 DEF Kept
<1>2. Cardinality({}) = 0 /\ 1 .. 0 = {}
  BY FS_EmptySet
<1>3. QED
  BY <1>1, <1>2 DEF Meant

\* With LINELEN and LINEGET a program gets the line.
LEMMA GivenIs ==
    ASSUME TerminalTypeOK, Len(con.line) <= LineMax, LineMax <= 255
    PROVE  Linelen(con) = Len(con.line) /\ Given = con.line
<1> DEFINE l == con.line
<1>0. l \in Seq(0 .. 255) /\ Len(l) \in Nat /\ LineMax \in Nat /\ Len(l) <= LineMax
  BY ConsoleAssumption, LenProperties DEF TerminalTypeOK, Console
<1>1. Linelen(con) = (IF Len(l) > 255 THEN 255 ELSE Len(l))
      /\ \A i : Lineget(con, i) = IF i < Len(l) /\ i < LineMax THEN l[i + 1] ELSE 0
  BY DEF Linelen, Lineget
<1>2. Given = [k \in 1 .. Linelen(con) |-> Lineget(con, k - 1)]
  BY DEF Given
<1> HIDE DEF l
<1>3. Linelen(con) = Len(l)
  BY <1>0, <1>1
<1>4. ASSUME NEW k \in 1 .. Len(l) PROVE Lineget(con, k - 1) = l[k]
  <2>1. k - 1 < Len(l) /\ k - 1 < LineMax /\ (k - 1) + 1 = k
    BY <1>0
  <2>2. QED
    BY <1>1, <2>1
<1>5. Given = [k \in 1 .. Len(l) |-> l[k]]
  BY <1>2, <1>3, <1>4
<1>6. l = [k \in 1 .. Len(l) |-> l[k]]
  BY <1>0
<1>7. QED
  BY <1>3, <1>5, <1>6 DEF l

LEMMA LineGives ==
    ASSUME TerminalTypeOK, LineInv, LineMax <= 255
    PROVE  GetsWhatWasMeant
<1>1. Linelen(con) = Len(con.line) /\ Given = con.line
  BY GivenIs DEF LineInv
<1>2. BeginsAsTyped
  BY <1>1 DEF LineInv, BeginsAsTyped
<1>3. QED
  BY <1>1, <1>2 DEF LineInv, GetsWhatWasMeant

\* READLINE leaves what was meant, if it comes to the end of a line.
LEMMA ReadlineMeans ==
    ASSUME TerminalTypeOK, READLINE
    PROVE  LineInv'
<1>0. /\ con \in Console /\ con' = Readline(con)
      /\ typed' = IF AtEof(con) THEN <<>> ELSE NextLine(con)
  BY DEF TerminalTypeOK, READLINE, Leaves
<1> DEFINE t == NextLine(con)
           b == [con EXCEPT !.line = <<>>]
           line == Taking(b, t)[Len(t)].line
<1>1. /\ t \in Seq(Keys) /\ Len(t) \in Nat /\ Len(t) \in 0 .. Len(t)
      /\ LineMax \in Nat \ {0}
  <2>1. t \in Seq(Keys)
    BY <1>0, NextLineIs
  <2>2. Len(t) \in Nat
    BY <2>1, LenProperties
  <2>3. QED
    BY <2>1, <2>2, ConsoleAssumption
<1>2. b \in Console /\ b.line = <<>>
  <2>1. b = [input |-> con.input, output |-> con.output, line |-> <<>>]
    BY <1>0 DEF Console
  <2>2. <<>> \in Seq(0 .. 255)
    OBVIOUS
  <2> HIDE DEF b
  <2>3. QED
    BY <1>0, <2>1, <2>2 DEF Console
<1>3. con'.line = IF AtEof(con) THEN <<>> ELSE Terminate(line)
  BY <1>0 DEF Readline, Leave, TakeAll
<1> HIDE DEF t, b
<1>4. line \in Seq(0 .. 255)
  <2>1. Taking(b, t)[Len(t)] \in Console
    BY <1>1, <1>2, TakingKeeps
  <2>2. QED
    BY <2>1 DEF Console
<1>5. /\ Len(line) <= LineMax
      /\ (\A i \in 1 .. Len(t) : t[i] \notin Erase) =>
            /\ Len(line) = IF Len(t) < LineMax THEN Len(t) ELSE LineMax
            /\ \A k \in 1 .. Len(line) : line[k] = t[k]
  BY <1>1, <1>2, LineBegins
<1>6. ASSUME Fits(t, LineMax - 1) PROVE Meant(t) = line /\ Len(line) < LineMax
  <2>1. PICK p : Holds(t, line, p, Len(t))
    BY <1>1, <1>2, <1>6, HoldsAll
  <2> HIDE DEF line
  <2>2. Meant(t) = line
    BY <1>1, <1>4, <2>1, HoldsMeant
  <2>3. Cardinality(Kept(t, Len(t))) = Len(line)
    <3>1. /\ Kept(t, Len(t)) \in SUBSET Nat /\ Len(line) \in Nat
          /\ Numbers(Kept(t, Len(t)), p, Len(line))
      BY <1>4, <2>1, LenProperties DEF Kept, Holds
    <3>2. QED
      BY <3>1, NumbersCount
  <2>4. Len(line) < LineMax
    <3>1. CASE Len(t) = 0
      <4>1. Kept(t, Len(t)) = {}
        BY <3>1 DEF Kept
      <4>2. Len(line) = 0
        BY <2>3, <4>1, FS_EmptySet
      <4>3. QED
        BY <1>1, <4>2
    <3>2. CASE Len(t) \in 1 .. Len(t)
      <4>1. Cardinality(Kept(t, Len(t))) <= LineMax - 1
        BY <1>6, <3>2 DEF Fits
      <4>2. Len(line) \in Nat
        BY <1>4, LenProperties
      <4>3. QED
        BY <1>1, <2>3, <4>1, <4>2
    <3>3. QED
      BY <1>1, <3>1, <3>2
  <2>5. QED
    BY <2>2, <2>4
<1> HIDE DEF line
<1>7. CASE AtEof(con)
  <2>1. con'.line = <<>> /\ typed' = <<>> /\ Len(<<>>) = 0
    BY <1>0, <1>3, <1>7
  <2>2. QED
    BY <1>1, <2>1, NothingMeant DEF LineInv
<1>8. CASE ~AtEof(con)
  <2>1. typed' = t /\ con'.line = Terminate(line)
    BY <1>0, <1>3, <1>8 DEF t
  <2> DEFINE m == Terminate(line)
  <2>2. /\ Len(m) = Len(line)
        /\ Len(line) < LineMax => m = line
        /\ \A k \in 1 .. Len(line) : k < LineMax => m[k] = line[k]
    BY <1>4, TerminateIs
  <2> HIDE DEF m
  <2>3. Len(m) <= LineMax /\ (Fits(t, LineMax - 1) => m = Meant(t))
    BY <1>5, <1>6, <2>2
  <2>4. (\A i \in 1 .. Len(t) : t[i] \notin Erase) =>
           /\ Len(m) = IF Len(t) < LineMax THEN Len(t) ELSE LineMax
           /\ \A k \in 1 .. Len(m) : k < LineMax => m[k] = t[k]
    BY <1>5, <2>2
  <2>5. QED
    BY <2>1, <2>3, <2>4 DEF LineInv, m
<1>9. QED
  BY <1>7, <1>8

LEMMA LineStays ==
    ASSUME LineInv, con'.line = con.line, typed' = typed
    PROVE  LineInv'
  BY DEF LineInv

LEMMA LineInvStep ==
    ASSUME TerminalTypeOK, LineInv, [TerminalNext]_terminalVars
    PROVE  LineInv'
<1>1. CASE READLINE
  BY <1>1, ReadlineMeans
<1>2. CASE CONIN
  <2>1. Conin(con).line = con.line
    BY DEF Conin, TerminalTypeOK, Console
  <2>2. QED
    BY <1>2, <2>1, LineStays DEF CONIN, Leaves
<1>3. CASE CONOUT
  <2>1. PICK ch \in Chars : con' = Conout(con, ch)
    BY <1>3 DEF CONOUT, Leaves
  <2>2. Conout(con, ch).line = con.line
    BY DEF Conout, TerminalTypeOK, Console
  <2>3. QED
    BY <1>3, <2>1, <2>2, LineStays DEF CONOUT
<1>4. CASE \/ BOOT \/ LINEGET \/ LINELEN \/ PUSH \/ DRAIN \/ UNCHANGED terminalVars
  <2>1. con' = con /\ typed' = typed
    BY <1>4 DEF BOOT, LINEGET, LINELEN, Leaves, PUSH, DRAIN, terminalVars
  <2>2. QED
    BY <2>1, LineStays
<1>5. QED
  BY <1>1, <1>2, <1>3, <1>4 DEF TerminalNext, Over

\* Of a line that does not fill the buffer a program gets the characters that
\* no backspace took back, and of any other its beginning (bios_readline,
\* bios_lineget, bios_linelen).  LINELEN answers a byte, so the buffer holds no
\* more than 255 characters.
THEOREM MeantIsGiven ==
    ASSUME LineMax <= 255
    PROVE  TerminalSpec => []GetsWhatWasMeant
<1>1. TerminalInit => LineInv
  <2> SUFFICES ASSUME TerminalInit PROVE LineInv
    OBVIOUS
  <2>1. con.line = <<>> /\ typed = <<>> /\ Len(<<>>) = 0 /\ LineMax \in Nat
    BY ConsoleAssumption DEF TerminalInit
  <2>2. QED
    BY <2>1, NothingMeant DEF LineInv
<1>2. TerminalTypeOK /\ LineInv /\ [TerminalNext]_terminalVars => LineInv'
  BY LineInvStep
<1>3. TerminalTypeOK /\ LineInv => GetsWhatWasMeant
  BY LineGives
<1>4. QED
  BY <1>1, <1>2, <1>3, TerminalTypes, PTL DEF TerminalSpec
=============================================================================
