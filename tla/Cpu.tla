--------------------------------- MODULE Cpu ---------------------------------
(***************************************************************************)
(* The processor and the memory of TuringOS (src/emu/cpu.c, mem.c): an     *)
(* 8080 with 64 KiB of memory, one action per group of instructions.       *)
(*                                                                         *)
(* Registers and memory cells hold bytes, SP and PC words, and they wrap   *)
(* as the C code makes them wrap.  The memory is kept as the cells that    *)
(* were written; all the others are zero, as mem_init leaves them.  The    *)
(* step counter cpu->cycles, which nothing reads, is left out.             *)
(***************************************************************************)
EXTENDS Integers, Sequences

CONSTANT Images     \* What the memory may hold when the CPU is started.

Byte    == 0 .. \hFF
LastAddress == \hFFFF
Address == 0 .. LastAddress \* Also the values of SP, PC and register pairs.

IsMemory(m) == /\ DOMAIN m \subseteq Address
               /\ \A a \in DOMAIN m : m[a] \in Byte

ASSUME CpuAssumption == \A m \in Images : IsMemory(m)

VARIABLES
    cpu,    \* cpu_t: r, the registers; sp; pc; the set of flags that are
            \* on; halted; out, the latch of OUT; ei and sim.
    mem     \* g_mem.

Registers == {"A", "B", "C", "D", "E", "H", "L"}
Flags     == {"S", "Z", "AC", "P", "CY"}

-----------------------------------------------------------------------------
(* Bytes, words and memory.                                                *)

Lo(w) == w % 256
Hi(w) == w \div 256
Digit(v) == v % 16       \* The low half of a byte.
Word(hi, lo) == 256 * hi + lo
Wrap(w) == w % 65536
Bool(b) == IF b THEN 1 ELSE 0

mem_read(m, a) == IF a \in DOMAIN m THEN m[a] ELSE 0

mem_write(m, a, v) == [x \in DOMAIN m \cup {a} |-> IF x = a THEN v ELSE m[x]]

read_u16(m, a) == Word(mem_read(m, Wrap(a + 1)), mem_read(m, a))

\* The bits of a byte, the lowest first, and the byte of some bits.
Bit == <<1, 2, 4, 8, 16, 32, 64, 128>>
Bits(v) == [i \in 1 .. 8 |-> (v \div Bit[i]) % 2]
FromBits(b) == b[1] + 2 * b[2] + 4 * b[3] + 8 * b[4]
               + 16 * b[5] + 32 * b[6] + 64 * b[7] + 128 * b[8]

And(v, w) == FromBits([i \in 1 .. 8 |-> Bits(v)[i] * Bits(w)[i]])
Or(v, w)  == FromBits([i \in 1 .. 8 |-> IF Bits(v)[i] + Bits(w)[i] = 0 THEN 0 ELSE 1])
Xor(v, w) == FromBits([i \in 1 .. 8 |-> (Bits(v)[i] + Bits(w)[i]) % 2])

parity_even(v) ==
    LET b == Bits(v)
    IN  (b[1] + b[2] + b[3] + b[4] + b[5] + b[6] + b[7] + b[8]) % 2 = 0

-----------------------------------------------------------------------------
(* Registers.                                                              *)

\* The register with an instruction's three-bit code; 6 is the memory cell
\* that HL points to.
RegisterOf == [k \in (0 .. 7) \ {6} |-> <<"B", "C", "D", "E", "H", "L", "M", "A">>[k + 1]]

\* The two halves of the register pairs that are not SP.
Pair == <<<<"B", "C">>, <<"D", "E">>, <<"H", "L">>>>

SetReg(c, x, v) == [c EXCEPT !.r[x] = v]
SetSP(c, w)     == [c EXCEPT !.sp = w]

get_rp(c, rp) == IF rp = 3 THEN c.sp
                 ELSE Word(c.r[Pair[rp + 1][1]], c.r[Pair[rp + 1][2]])

get_hl(c) == get_rp(c, 2)

set_rp(c, rp, w) ==
    IF rp = 3 THEN SetSP(c, w)
    ELSE SetReg(SetReg(c, Pair[rp + 1][1], Hi(w)), Pair[rp + 1][2], Lo(w))

read_reg_by_code(c, m, k) ==
    IF k = 6 THEN mem_read(m, get_hl(c)) ELSE c.r[RegisterOf[k]]

\* write_reg_by_code, what it does to the registers and to the memory.
write_reg(c, k, v)    == IF k = 6 THEN c ELSE SetReg(c, RegisterOf[k], v)
write_cell(c, m, k, v) == IF k = 6 THEN mem_write(m, get_hl(c), v) ELSE m

-----------------------------------------------------------------------------
(* Flags.                                                                  *)

SetFlags(c, f) == [c EXCEPT !.flags = f]

set_szp(f, v) ==
    (f \ {"S", "Z", "P"}) \cup {x \in {"S", "Z", "P"} : CASE x = "S" -> v >= 128
                                                          [] x = "Z" -> v = 0
                                                          [] x = "P" -> parity_even(v)}

\* The flags of a result, with the carry and the half carry it leaves.
Result(v, cy, ac) ==
    set_szp({x \in {"CY", "AC"} : IF x = "CY" THEN cy ELSE ac}, v)

\* The processor status byte; bit 1 is always set.
pack_psw_flags(f) == 2 + 128 * Bool("S" \in f) + 64 * Bool("Z" \in f)
                       + 16 * Bool("AC" \in f) + 4 * Bool("P" \in f)
                       + Bool("CY" \in f)

unpack_psw_flags(p) ==
    {x \in Flags : (p \div [S |-> 128, Z |-> 64, AC |-> 16, P |-> 4, CY |-> 1][x]) % 2 = 1}

\* NZ, Z, NC, C, PO, PE, P, M.
branch_condition_true(f, k) ==
    LET set == <<"Z", "CY", "P", "S">>[(k \div 2) + 1] \in f
    IN  IF k % 2 = 1 THEN set ELSE ~set

-----------------------------------------------------------------------------
(* Arithmetic and logic on register A.                                     *)

SetA(c, v, f) == SetFlags(SetReg(c, "A", v), f)

add_to_a(c, v, carry) ==
    LET sum == c.r["A"] + v + carry
    IN  SetA(c, Lo(sum), Result(Lo(sum), sum > 255, Digit(c.r["A"]) + Digit(v) + carry > 15))

sub_from_a(c, v, borrow) ==
    LET diff == Lo(c.r["A"] - (v + borrow))
    IN  SetA(c, diff, Result(diff, c.r["A"] < v + borrow,
                                   Digit(c.r["A"]) < Digit(v) + borrow))

cmp_flags_only(c, v) == SetFlags(c, sub_from_a(c, v, 0).flags)

logic_flags(c, v) == SetA(c, v, Result(v, FALSE, FALSE))

logic_flags_and(c, v) == SetA(c, v, Result(v, FALSE, TRUE))

\* The eight operations of the opcodes 0x80 to 0xBF and of the immediates.
Alu(c, k, v) ==
    LET carry == Bool("CY" \in c.flags)
    IN  CASE k = 0 -> add_to_a(c, v, 0)
          [] k = 1 -> add_to_a(c, v, carry)
          [] k = 2 -> sub_from_a(c, v, 0)
          [] k = 3 -> sub_from_a(c, v, carry)
          [] k = 4 -> logic_flags_and(c, And(c.r["A"], v))
          [] k = 5 -> logic_flags(c, Xor(c.r["A"], v))
          [] k = 6 -> logic_flags(c, Or(c.r["A"], v))
          [] k = 7 -> cmp_flags_only(c, v)

\* The decimal carry of the low digit is not looked at.
daa_NoHalfCarry(c) ==
    LET a      == c.r["A"]
        high   == a > 153 \/ "CY" \in c.flags
        adjust == (IF Digit(a) > 9 THEN 6 ELSE 0) + (IF high THEN 96 ELSE 0)
    IN  SetA(c, Lo(a + adjust), Result(Lo(a + adjust), high, Digit(a) + Digit(adjust) > 15))

daa(c) ==
    LET a      == c.r["A"]
        high   == a > 153 \/ "CY" \in c.flags
        adjust == (IF Digit(a) > 9 \/ "AC" \in c.flags THEN 6 ELSE 0)
                  + (IF high THEN 96 ELSE 0)
    IN  SetA(c, Lo(a + adjust), Result(Lo(a + adjust), high, Digit(a) + Digit(adjust) > 15))

\* inr_reg and dcr_reg: the flags; CY stays.
inr_flags(f, v) ==
    set_szp((f \ {"AC"}) \cup (IF Digit(v) = 15 THEN {"AC"} ELSE {}), Lo(v + 1))
dcr_flags(f, v) ==
    set_szp((f \ {"AC"}) \cup (IF Digit(v) = 0 THEN {"AC"} ELSE {}), (v - 1) % 256)

\* RLC, RRC, RAL and RAR.
Rotate(c, k) ==
    LET a     == c.r["A"]
        carry == Bool("CY" \in c.flags)
        out   == IF k % 2 = 0 THEN a \div 128 ELSE a % 2
        in    == IF k < 2 THEN out ELSE carry
    IN  SetA(c, IF k % 2 = 0 THEN Lo(2 * a) + in ELSE a \div 2 + 128 * in,
                (c.flags \ {"CY"}) \cup (IF out = 1 THEN {"CY"} ELSE {}))

-----------------------------------------------------------------------------
(* The stack.                                                              *)

\* push_u16, what it does to the memory and to SP.
push_cells(m, sp, w) ==
    mem_write(mem_write(m, (sp - 1) % 65536, Hi(w)), (sp - 2) % 65536, Lo(w))
push_sp(sp) == (sp - 2) % 65536

\* pop_u16, the word and SP.
pop_u16(m, sp) == read_u16(m, sp)
pop_sp(sp)     == Wrap(sp + 2)

-----------------------------------------------------------------------------
(* The instructions.                                                       *)

opcode  == mem_read(mem, cpu.pc)
next_pc == Wrap(cpu.pc + 1)
Operand == mem_read(mem, next_pc)       \* The byte after the opcode, and the
Target  == read_u16(mem, next_pc)       \* word.
Dst     == (opcode \div 8) % 8          \* The fields of the opcode: also the
Src     == opcode % 8                   \* condition and the number of RST,
Rp      == (opcode \div 16) % 4         \* and the pair.

\* The instruction is n bytes long and leaves c in the CPU.
Go(c, n) == cpu' = [c EXCEPT !.pc = Wrap(cpu.pc + n)]

Jump(c, a) == cpu' = [c EXCEPT !.pc = a]

\* What is no instruction of this CPU is passed over, as NOP.
NOP == /\ opcode \in {\h00, \h02, \h08, \h0A, \h10, \h12, \h18, \h1A, \h28, \h38,
                      \hCB, \hD9, \hDD, \hED, \hFD}
       /\ Go(cpu, 1) /\ UNCHANGED mem

HLT == opcode = \h76 /\ Go([cpu EXCEPT !.halted = TRUE], 1) /\ UNCHANGED mem

LXI == opcode \in {\h01, \h11, \h21, \h31} /\ Go(set_rp(cpu, Rp, Target), 3) /\ UNCHANGED mem

MVI == /\ opcode < 64 /\ Src = 6
       /\ Go(write_reg(cpu, Dst, Operand), 2)
       /\ mem' = write_cell(cpu, mem, Dst, Operand)

MOV == /\ opcode \in (\h40 .. \h7F) \ {\h76}
       /\ LET v == read_reg_by_code(cpu, mem, Src)
          IN  Go(write_reg(cpu, Dst, v), 1) /\ mem' = write_cell(cpu, mem, Dst, v)

\* The second byte is not looked for at the start of the memory.
LHLD_NoWrap ==
    /\ opcode = \h2A
    /\ Go(set_rp(cpu, 2, Word(mem_read(mem, Target + 1), mem_read(mem, Target))), 3)
    /\ UNCHANGED mem

LDA  == opcode = \h3A /\ Go(SetReg(cpu, "A", mem_read(mem, Target)), 3) /\ UNCHANGED mem
STA  == opcode = \h32 /\ Go(cpu, 3) /\ mem' = mem_write(mem, Target, cpu.r["A"])
LHLD == opcode = \h2A /\ Go(set_rp(cpu, 2, read_u16(mem, Target)), 3) /\ UNCHANGED mem

SHLD == /\ opcode = \h22
        /\ Go(cpu, 3)
        /\ mem' = mem_write(mem_write(mem, Target, cpu.r["L"]),
                            Wrap(Target + 1), cpu.r["H"])

XCHG == /\ opcode = \hEB
        /\ Go(set_rp(set_rp(cpu, 1, get_hl(cpu)), 2, get_rp(cpu, 1)), 1)
        /\ UNCHANGED mem

XTHL == /\ opcode = \hE3
        /\ Go(set_rp(cpu, 2, read_u16(mem, cpu.sp)), 1)
        /\ mem' = mem_write(mem_write(mem, cpu.sp, cpu.r["L"]),
                            Wrap(cpu.sp + 1), cpu.r["H"])

SPHL == opcode = \hF9 /\ Go(SetSP(cpu, get_hl(cpu)), 1) /\ UNCHANGED mem
PCHL == opcode = \hE9 /\ Jump(cpu, get_hl(cpu)) /\ UNCHANGED mem

ALU == /\ opcode \in \h80 .. \hBF
       /\ Go(Alu(cpu, Dst, read_reg_by_code(cpu, mem, Src)), 1)
       /\ UNCHANGED mem

ALU_Immediate == opcode >= 192 /\ Src = 6 /\ Go(Alu(cpu, Dst, Operand), 2) /\ UNCHANGED mem

DAA == opcode = \h27 /\ Go(daa(cpu), 1) /\ UNCHANGED mem

ROT == opcode \in {\h07, \h0F, \h17, \h1F} /\ Go(Rotate(cpu, Dst), 1) /\ UNCHANGED mem

CMA == opcode = \h2F /\ Go(SetReg(cpu, "A", 255 - cpu.r["A"]), 1) /\ UNCHANGED mem
STC == opcode = \h37 /\ Go(SetFlags(cpu, cpu.flags \cup {"CY"}), 1) /\ UNCHANGED mem
CMC == /\ opcode = \h3F
       /\ Go(SetFlags(cpu, IF "CY" \in cpu.flags THEN cpu.flags \ {"CY"}
                                                 ELSE cpu.flags \cup {"CY"}), 1)
       /\ UNCHANGED mem

INR == /\ opcode < 64 /\ Src = 4
       /\ LET v == read_reg_by_code(cpu, mem, Dst)
              w == Lo(v + 1)
          IN  /\ Go(SetFlags(write_reg(cpu, Dst, w), inr_flags(cpu.flags, v)), 1)
              /\ mem' = write_cell(cpu, mem, Dst, w)

DCR == /\ opcode < 64 /\ Src = 5
       /\ LET v == read_reg_by_code(cpu, mem, Dst)
              w == (v - 1) % 256
          IN  /\ Go(SetFlags(write_reg(cpu, Dst, w), dcr_flags(cpu.flags, v)), 1)
              /\ mem' = write_cell(cpu, mem, Dst, w)

INX == /\ opcode \in {\h03, \h13, \h23, \h33}
       /\ Go(set_rp(cpu, Rp, Wrap(get_rp(cpu, Rp) + 1)), 1) /\ UNCHANGED mem

DCX == /\ opcode \in {\h0B, \h1B, \h2B, \h3B}
       /\ Go(set_rp(cpu, Rp, (get_rp(cpu, Rp) - 1) % 65536), 1) /\ UNCHANGED mem

DAD == /\ opcode \in {\h09, \h19, \h29, \h39}
       /\ LET sum == get_hl(cpu) + get_rp(cpu, Rp)
              cy  == IF sum > 65535 THEN {"CY"} ELSE {}
          IN  Go(SetFlags(set_rp(cpu, 2, Wrap(sum)), (cpu.flags \ {"CY"}) \cup cy), 1)
       /\ UNCHANGED mem

JMP == opcode = \hC3 /\ Jump(cpu, Target) /\ UNCHANGED mem

Jccc == /\ opcode >= 192 /\ Src = 2
        /\ IF branch_condition_true(cpu.flags, Dst) THEN Jump(cpu, Target) ELSE Go(cpu, 3)
        /\ UNCHANGED mem

\* The word pushed and where to go; the return address is w.
Call(w, target) ==
    /\ mem' = push_cells(mem, cpu.sp, w)
    /\ Jump(SetSP(cpu, push_sp(cpu.sp)), target)

CALL == opcode = \hCD /\ Call(Wrap(cpu.pc + 3), Target)

\* The target is read after the push, which may have changed it.
Cccc == /\ opcode >= 192 /\ Src = 4
        /\ IF branch_condition_true(cpu.flags, Dst)
           THEN LET w == Wrap(cpu.pc + 3)
                IN  Call(w, read_u16(push_cells(mem, cpu.sp, w), next_pc))
           ELSE Go(cpu, 3) /\ UNCHANGED mem

RST == opcode >= 192 /\ Src = 7 /\ Call(next_pc, 8 * Dst)

Return == Jump(SetSP(cpu, pop_sp(cpu.sp)), pop_u16(mem, cpu.sp)) /\ UNCHANGED mem

RET == opcode = \hC9 /\ Return

Rccc == /\ opcode >= 192 /\ Src = 0
        /\ IF branch_condition_true(cpu.flags, Dst) THEN Return ELSE Go(cpu, 1) /\ UNCHANGED mem

\* The pair 3 is A with the status byte.
PUSH == /\ opcode \in {\hC5, \hD5, \hE5, \hF5}
        /\ LET w == IF Rp = 3 THEN Word(cpu.r["A"], pack_psw_flags(cpu.flags))
                              ELSE get_rp(cpu, Rp)
           IN  mem' = push_cells(mem, cpu.sp, w)
        /\ Go(SetSP(cpu, push_sp(cpu.sp)), 1)

POP == /\ opcode \in {\hC1, \hD1, \hE1, \hF1}
       /\ LET w == pop_u16(mem, cpu.sp)
              c == SetSP(cpu, pop_sp(cpu.sp))
          IN  Go(IF Rp = 3 THEN SetA(c, Hi(w), unpack_psw_flags(Lo(w)))
                           ELSE set_rp(c, Rp, w), 1)
       /\ UNCHANGED mem

\* IN: nothing ever sets an input port, nor the value RIM reads.
INP == opcode = \hDB /\ Go(SetReg(cpu, "A", 0), 2) /\ UNCHANGED mem
RIM == opcode = \h20 /\ Go(SetReg(cpu, "A", 0), 1) /\ UNCHANGED mem

OUT == /\ opcode = \hD3
       /\ Go([cpu EXCEPT !.out = [pending |-> TRUE, port |-> Operand, value |-> cpu.r["A"]]], 2)
       /\ UNCHANGED mem

EI  == opcode = \hFB /\ Go([cpu EXCEPT !.ei = TRUE], 1) /\ UNCHANGED mem
DI  == opcode = \hF3 /\ Go([cpu EXCEPT !.ei = FALSE], 1) /\ UNCHANGED mem
SIM == opcode = \h30 /\ Go([cpu EXCEPT !.sim = cpu.r["A"]], 1) /\ UNCHANGED mem

\* cpu_step.
cpu_step ==
    /\ ~cpu.halted
    /\ \/ NOP  \/ HLT  \/ LXI  \/ MVI  \/ MOV  \/ LDA  \/ STA  \/ LHLD \/ SHLD
       \/ XCHG \/ XTHL \/ SPHL \/ PCHL \/ ALU  \/ ALU_Immediate \/ DAA \/ ROT
       \/ CMA  \/ STC  \/ CMC  \/ INR  \/ DCR  \/ INX  \/ DCX  \/ DAD
       \/ JMP  \/ Jccc \/ CALL \/ Cccc \/ RST  \/ RET  \/ Rccc \/ PUSH \/ POP
       \/ INP  \/ OUT  \/ EI   \/ DI   \/ RIM  \/ SIM

-----------------------------------------------------------------------------
\* cpu_init, with the PC the kernel sets.
cpu_init == [r |-> [x \in Registers |-> 0], sp |-> \hFDFF, pc |-> \h0100, flags |-> {},
             halted |-> FALSE, out |-> [pending |-> FALSE, port |-> 0, value |-> 0],
             ei |-> FALSE, sim |-> 0]

Init == cpu = cpu_init /\ mem \in Images

vars == <<cpu, mem>>

\* A step of a CPU that has halted.
Halted == cpu.halted /\ UNCHANGED vars

Next == cpu_step \/ Halted

\* The kernel steps the CPU until it has halted.
Spec == Init /\ [][Next]_vars /\ WF_vars(cpu_step)
=============================================================================
