-------------------------------- MODULE MCCpu --------------------------------
(***************************************************************************)
(* Machine programs for Cpu, each with what it must have done when it      *)
(* halts.  A task is a program with the values put into it; it is kept in  *)
(* a variable that no step changes.                                        *)
(***************************************************************************)
EXTENDS Cpu, FiniteSets

CONSTANTS
    Tasks,      \* The programs of the run, a union of sets below.
    Bytes,      \* Bytes that operands are made of.
    Digits,     \* Packed decimal bytes.
    Stacks      \* Where the stack of the nested calls starts.

VARIABLE task

\* A program at an address, in a memory.
At(a, code) == [x \in a .. a + Len(code) - 1 |-> code[x - a + 1]]

\* A memory made of several programs.
Place(parts) ==
    [x \in UNION {DOMAIN p : p \in parts} |-> (CHOOSE p \in parts : x \in DOMAIN p)[x]]

Operands == {Word(h, l) : h \in Bytes, l \in Bytes}

Imm(op, w) == <<op, Lo(w), Hi(w)>>

Task(kind, x, y, k, code) == [kind |-> kind, x |-> x, y |-> y, k |-> k,
                              image |-> At(\h100, code)]

-----------------------------------------------------------------------------
(* Words added and subtracted, byte by byte through the carry or by DAD.   *)

LoadWords(x, y) == Imm(\h01, x) \o Imm(\h11, y)     \* LXI B; LXI D

\* MOV A,C; op E; MOV C,A; MOV A,B; op-with-carry D; MOV B,A; HLT
ByBytes(op, opCarry) == <<\h79, op, \h4F, \h78, opCarry, \h47, \h76>>

SumTask(x, y)  == Task("sum", x, y, 0, LoadWords(x, y) \o ByBytes(\h83, \h8A))
DiffTask(x, y) == Task("diff", x, y, 0, LoadWords(x, y) \o ByBytes(\h93, \h9A))

\* LXI H; LXI D; DAD D; MOV B,H; MOV C,L; HLT
DadTask(x, y) ==
    Task("sum", x, y, 0, Imm(\h21, x) \o Imm(\h11, y) \o <<\h19, \h44, \h4D, \h76>>)

WordTasks == {SumTask(x, y) : x, y \in Operands} \cup {DiffTask(x, y) : x, y \in Operands}
             \cup {DadTask(x, y) : x, y \in Operands}

\* Words are added and subtracted modulo 2^16, by two byte operations linked
\* through CY as by DAD, and CY tells whether the true result did not fit.
WordArithmetic ==
    cpu.halted =>
        /\ task.kind = "sum" =>
              /\ get_rp(cpu, 0) = Wrap(task.x + task.y)
              /\ "CY" \in cpu.flags <=> task.x + task.y > 65535
        /\ task.kind = "diff" =>
              /\ get_rp(cpu, 0) = (task.x - task.y) % 65536
              /\ "CY" \in cpu.flags <=> task.x < task.y

-----------------------------------------------------------------------------
(* Four-digit decimal numbers, packed.                                     *)

Packed(x) == 16 * (x \div 10) + (x % 10)

\* MVI A; ADI; DAA; MOV C,A; MVI A; ACI; DAA; MOV B,A; HLT
DecimalTask(h, l, i, m) ==
    Task("decimal", 100 * h + l, 100 * i + m, 0,
         <<\h3E, Packed(l), \hC6, Packed(m), \h27, \h4F,
           \h3E, Packed(h), \hCE, Packed(i), \h27, \h47, \h76>>)

DecimalTasks == {DecimalTask(h, l, i, m) : h, i, l, m \in Digits}

\* Decimal numbers are added digit by digit: DAA after each byte leaves the
\* decimal sum, with its carry in CY.
DecimalArithmetic ==
    cpu.halted /\ task.kind = "decimal" =>
        LET sum == task.x + task.y
        IN  /\ get_rp(cpu, 0) = Word(Packed((sum \div 100) % 100), Packed(sum % 100))
            /\ "CY" \in cpu.flags <=> sum > 9999

-----------------------------------------------------------------------------
(* The logic operations, as the halves of an adder.                        *)

\* LXI B; MOV A,B; ANA C; MOV D,A; MOV A,B; XRA C; MOV E,A;
\* ADD D; MOV L,A (the or); ADD D; MOV H,A (the sum); MOV A,B; ORA C; HLT
LogicTask(x, y) ==
    Task("logic", x, y, 0, Imm(\h01, Word(x, y))
         \o <<\h78, \hA1, \h57, \h78, \hA9, \h5F, \h82, \h6F, \h82, \h67, \h78, \hB1, \h76>>)

LogicTasks == {LogicTask(x, y) : x \in Byte, y \in Bytes}

\* With the and as the carries and the xor as the digits, two bytes add up:
\* their sum is xor + 2 and, and their or is xor + and.
LogicAddsUp ==
    cpu.halted /\ task.kind = "logic" =>
        /\ cpu.r["H"] = (task.x + task.y) % 256
        /\ cpu.r["L"] = cpu.r["A"]
        /\ cpu.r["D"] <= task.x /\ cpu.r["D"] <= task.y

-----------------------------------------------------------------------------
(* Words shifted and negated, and words in memory.                         *)

\* LXI B; MOV A,C; CMA; MOV L,A; MOV A,B; CMA; MOV H,A; INX H (HL = -x);
\* STC; CMC; then MOV A,C; RAL; MOV E,A; MOV A,B; RAL; MOV D,A (DE = 2x);
\* RAR of B; RAR of C (BC = x / 2, with the bit RAL left put back on top);
\* eight RLC and eight RRC of A, DCX SP; INX SP; HLT
ShiftTask(x) ==
    Task("shift", x, 0, 0, Imm(\h01, x)
         \o <<\h79, \h2F, \h6F, \h78, \h2F, \h67, \h23, \h37, \h3F>>
         \o <<\h79, \h17, \h5F, \h78, \h17, \h57>>
         \o <<\h78, \h1F, \h47, \h79, \h1F, \h4F>>
         \o <<7, 7, 7, 7, 7, 7, 7, 7, 15, 15, 15, 15, 15, 15, 15, 15>>
         \o <<\h3B, \h33, \h76>>)

ShiftTasks == {ShiftTask(x) : x \in Operands}

\* Words are shifted and negated through two bytes: -x, 2x and, with the bit
\* that 2x lost, x / 2; eight turns of a byte are none.
ShiftsWords ==
    cpu.halted /\ task.kind = "shift" =>
        /\ get_hl(cpu) = (-task.x) % 65536
        /\ get_rp(cpu, 1) = Wrap(2 * task.x)
        /\ get_rp(cpu, 0) = 32768 * (task.x \div 32768) + task.x \div 2
        /\ cpu.r["A"] = cpu.r["C"]

\* LXI H,x; SHLD p; LDA p+1; MOV B,A; LDA p; STA p+1; MOV A,B; STA p; LHLD p;
\* XCHG (DE = the swapped word); LXI H,p; INR M; MOV A,M; DCR M;
\* NOP; EI; SIM; OUT 2; DI; SPHL; POP H; IN 2; RIM; HLT
MemoryTask(x, p) ==
    LET q == Wrap(p + 1)
    IN  Task("memory", x, p, 0, Imm(\h21, x) \o Imm(\h22, p) \o Imm(\h3A, q) \o <<\h47>>
             \o Imm(\h3A, p) \o Imm(\h32, q) \o <<\h78>> \o Imm(\h32, p) \o Imm(\h2A, p)
             \o <<\hEB>> \o Imm(\h21, p) \o <<\h34, \h7E, \h35, \h00>>
             \o <<\hFB, \h30, \hD3, 2, \hF3, \hF9, \hE1, \hDB, 2, \h20, \h76>>)

MemoryTasks == {MemoryTask(x, p) : x \in Operands, p \in Stacks}

\* A word stored, taken apart, swapped and popped is the word swapped, also
\* where it lies across the end of the memory.
MemoryKeepsWords ==
    cpu.halted /\ task.kind = "memory" =>
        /\ get_rp(cpu, 1) = Word(Lo(task.x), Hi(task.x))
        /\ get_hl(cpu) = get_rp(cpu, 1)
        /\ cpu.sp = Wrap(task.y + 2)
        /\ cpu.out.value = Lo(Hi(task.x) + 1)

-----------------------------------------------------------------------------
(* Comparing, and going one way or the other.                              *)

Ones(v) == Cardinality({i \in 0 .. 7 : (v \div 2^i) % 2 = 1})

\* What the condition k says of the operands of CMP.
Holds(k, x, y) ==
    LET diff == (x - y) % 256
    IN  CASE k = 0 -> x # y             [] k = 1 -> x = y
          [] k = 2 -> x >= y            [] k = 3 -> x < y
          [] k = 4 -> Ones(diff) % 2 = 1 [] k = 5 -> Ones(diff) % 2 = 0
          [] k = 6 -> diff < 128        [] k = 7 -> diff >= 128

\* LXI B; MOV A,B; CMP C; then Jccc or Cccc to MVI D,1; or CALL of a routine
\* that leaves by Rccc before it comes to MVI D,1.
Compare(x, y) == Imm(\h01, Word(x, y)) \o <<\h78, \hB9>>

JumpTask(k, x, y) ==
    Task("taken", x, y, k, Compare(x, y) \o Imm(\hC2 + 8 * k, \h109) \o <<\h76, \h16, 1, \h76>>)
CallTask(k, x, y) ==
    Task("taken", x, y, k, Compare(x, y) \o Imm(\hC4 + 8 * k, \h109) \o <<\h76, \h16, 1, \hC9>>)
ReturnTask(k, x, y) ==
    Task("returned", x, y, k,
         Compare(x, y) \o Imm(\hCD, \h109) \o <<\h76, \hC0 + 8 * k, \h16, 1, \hC9>>)

BranchTasks == {JumpTask(k, x, y) : k \in 0 .. 7, x, y \in Bytes}
               \cup {CallTask(k, x, y) : k \in 0 .. 7, x, y \in Bytes}
               \cup {ReturnTask(k, x, y) : k \in 0 .. 7, x, y \in Bytes}

\* A program that compares two bytes and branches, calls or returns on a
\* condition goes the way the order, the equality, the parity or the sign of
\* the bytes says; and is back where it called from with its stack in place.
BranchFollowsOrder ==
    cpu.halted /\ task.kind \in {"taken", "returned"} =>
        /\ cpu.r["D"] = Bool(Holds(task.k, task.x, task.y) <=> (task.kind = "taken"))
        /\ cpu.sp = \hFDFF

-----------------------------------------------------------------------------
(* The status byte through the stack.                                      *)

\* LXI B; PUSH B; POP PSW; LXI D; MOV H,A; PUSH PSW; XRA A; ADI 255; STC;
\* POP PSW; PUSH PSW; POP D; HLT.  What is read back of any byte as the
\* status is its flags.
StatusTask(a, f) ==
    Task("status", a, f, 0, Imm(\h01, Word(a, f))
         \o <<\hC5, \hF1, \hF5, \hAF, \hC6, 255, \h37, \hF1, \hF5, \hD1, \h76>>)

StatusTasks == {StatusTask(a, f) : a \in Bytes, f \in Byte}

\* A and the five flags, and no other bit, survive a PUSH PSW and POP PSW
\* round whatever happens between.
StatusSurvives ==
    cpu.halted /\ task.kind = "status" =>
        /\ cpu.r["A"] = task.x /\ cpu.r["D"] = task.x
        /\ cpu.flags = unpack_psw_flags(task.y)
        /\ cpu.r["E"] = And(task.y, 213) + 2

-----------------------------------------------------------------------------
(* Nested routines that save the registers they use.                       *)

\* Where the routines start; 8 and 56 are targets of RST 1 and RST 7.
Entry == <<8, 56, \h200>>

\* Entering routine i by CALL, a Cccc that is taken, or RST.
Enter(how, i) ==
    CASE how = "call" -> Imm(\hCD, Entry[i])
      [] how = "cccc" -> Imm(\hC4, Entry[i])
      [] how = "rst"  -> <<\hC7 + Entry[i]>>

\* Leaving it by RET, Rccc or POP H, PCHL.
Leave(how) == CASE how = "ret" -> <<\hC9>> [] how = "rccc" -> <<\hC0>>
                [] how = "pchl" -> <<\hE1, \hE9>>

\* Routine i saves all pairs, spoils two of them and calls the next one.
\* XTHL swaps HL with the pair on the top of the stack, twice; POP H and PCHL
\* leave the return address in HL.
Routine(i, enter, leave) ==
    At(Entry[i], <<\hC5, \hD5>> \o Imm(\h01, \h1234 * i) \o Imm(\h11, \h0F0F * i)
                 \o <<\hE3, \hEB, \hE3, \hE3, \hEB, \hE3>>
                 \o (IF i < Len(Entry) THEN Enter(enter[i + 1], i + 1) ELSE <<>>)
                 \o <<\hD1, \hC1>> \o Leave(leave[i]))

\* LXI SP; LXI B; LXI D; INR A (so that NZ holds); enter 1; HLT
StackTask(sp, enter, leave) ==
    [kind |-> "stack", x |-> sp, y |-> 0, k |-> 0,
     image |-> Place({At(\h100, Imm(\h31, sp) \o Imm(\h01, \hBEEF) \o Imm(\h11, \hCAFE)
                                \o <<\h3C>> \o Enter(enter[1], 1) \o <<\h76>>)}
                     \cup {Routine(i, enter, leave) : i \in 1 .. Len(Entry)})]

StackTasks ==
    {StackTask(sp, e, l) : sp \in Stacks,
         e \in {f \in [1 .. 3 -> {"call", "cccc", "rst"}] : f[3] # "rst"},
         l \in [1 .. 3 -> {"ret", "rccc", "pchl"}]}

\* Routines that leave the stack as they found it give back the registers
\* they saved and return to their callers, however they are entered and
\* left, also where the stack wraps round the end of the memory.
CallsReturn ==
    cpu.halted /\ task.kind = "stack" =>
        /\ cpu.sp = task.x
        /\ get_rp(cpu, 0) = \hBEEF /\ get_rp(cpu, 1) = \hCAFE
        /\ \A a \in \h100 .. \h110 : mem_read(mem, a) = mem_read(task.image, a)
        /\ mem_read(mem, cpu.pc - 1) = \h76 /\ cpu.pc \in \h100 .. \h110

-----------------------------------------------------------------------------
(* An instruction of the 8080 that is missing.                             *)

\* LXI B,p; MVI A,x; STA p; MVI A,0; LDAX B; HLT
LdaxTask(x, p) ==
    Task("ldax", x, p, 0, Imm(\h01, p) \o <<\h3E, x>> \o Imm(\h32, p) \o <<\h3E, 0, \h0A, \h76>>)

LdaxTasks == {LdaxTask(x, \h2000) : x \in Byte}

\* All 8080 opcodes are implemented (.cursor/spec.md:109): LDAX B loads A
\* from where BC points.
LdaxLoads == cpu.halted /\ task.kind = "ldax" => cpu.r["A"] = task.x

-----------------------------------------------------------------------------
AllTasks == WordTasks \cup DecimalTasks \cup LogicTasks \cup ShiftTasks
            \cup BranchTasks \cup StatusTasks \cup StackTasks \cup MemoryTasks

MCImages == {t.image : t \in Tasks}

\* What the run gives its programs: bytes, pairs of decimal digits, stacks
\* that lie clear of the programs, and memories that hold all of them.
ASSUME MCCpuAssumption ==
    /\ Tasks \subseteq AllTasks \cup LdaxTasks
    /\ Bytes \subseteq Byte /\ Digits \subseteq 0 .. 99
    /\ Stacks \subseteq (0 .. 8) \cup (\h300 .. LastAddress)
    /\ MCImages \subseteq Images

MCInit == cpu = cpu_init /\ task \in Tasks /\ mem = task.image

MCNext == Next /\ UNCHANGED task

MCSpec == MCInit /\ [][MCNext]_<<vars, task>>

\* Programs that compute with words, decimal numbers and bits, a byte at a
\* time, come to the results that arithmetic has for them.
ComputesArithmetic == WordArithmetic /\ DecimalArithmetic /\ LogicAddsUp /\ ShiftsWords

\* Programs that branch, call each other, and keep the status and words in
\* memory go where they should and find what they kept.
FollowsControl == BranchFollowsOrder /\ StatusSurvives /\ CallsReturn /\ MemoryKeepsWords
=============================================================================
