------------------------------ MODULE CpuProofs ------------------------------
(***************************************************************************)
(* What the CPU computes keeps the widths of its registers, and is what    *)
(* arithmetic has for it; and the programs that branch, call each other    *)
(* and keep words go where they should and find what they kept.            *)
(***************************************************************************)
EXTENDS MCCpu, FiniteSetTheorems, TLAPS

-----------------------------------------------------------------------------
(* Bytes and words.                                                        *)

LEMMA UpToBound == \A n \in Int : \A x : x \in 0 .. n <=> x \in Int /\ 0 <= x /\ x <= n
  OBVIOUS

LEMMA AddressRange == \A x : x \in Address <=> x \in Int /\ 0 <= x /\ x <= 65535
<1>1. LastAddress \in Int
  BY DEF LastAddress
<1>2. \A x : x \in Address <=> x \in Int /\ 0 <= x /\ x <= LastAddress
  BY <1>1, UpToBound, Zenon DEF Address
<1>3. LastAddress = 65535
  BY DEF LastAddress
<1>4. QED
  BY <1>2, <1>3

LEMMA ByteRange == \A x : x \in Byte <=> x \in Int /\ 0 <= x /\ x <= 255
<1>1. 255 \in Int
  OBVIOUS
<1>2. \A x : x \in 0 .. 255 <=> x \in Int /\ 0 <= x /\ x <= 255
  BY <1>1, UpToBound, Zenon
<1>3. QED
  BY <1>2, Zenon DEF Byte

LEMMA Widths ==
    ASSUME NEW w \in Int
    PROVE  Lo(w) \in Byte /\ Wrap(w) \in Address /\ (w % 256) \in Byte /\ (w % 65536) \in Address
<1>1. /\ (w % 256) \in Int /\ 0 <= (w % 256) /\ (w % 256) <= 255
      /\ (w % 65536) \in Int /\ 0 <= (w % 65536) /\ (w % 65536) <= 65535
  OBVIOUS
<1>3. QED
  BY <1>1, ByteRange, AddressRange DEF Lo, Wrap

LEMMA BytesWord ==
    ASSUME NEW h \in Byte, NEW l \in Byte
    PROVE  Word(h, l) \in Address /\ Hi(Word(h, l)) = h /\ Lo(Word(h, l)) = l
<1>1. h \in Int /\ 0 <= h /\ h <= 255 /\ l \in Int /\ 0 <= l /\ l <= 255
  BY ByteRange
<1>2. (256 * h + l) \div 256 = h /\ (256 * h + l) % 256 = l
  BY <1>1
<1>4. 256 * h + l \in Int /\ 0 <= 256 * h + l /\ 256 * h + l <= 65535
  BY <1>1
<1>5. QED
  BY <1>2, <1>4, AddressRange DEF Word, Hi, Lo

LEMMA WordBytes ==
    ASSUME NEW w \in Address
    PROVE  Hi(w) \in Byte /\ Lo(w) \in Byte /\ Word(Hi(w), Lo(w)) = w /\ Wrap(w) = w
<1>1. w \in Int /\ 0 <= w /\ w <= 65535
  BY AddressRange
<1>2. /\ (w \div 256) \in Int /\ (w % 256) \in Int /\ 0 <= (w % 256) /\ (w % 256) <= 255
      /\ w = 256 * (w \div 256) + (w % 256)
      /\ 0 <= (w \div 256) /\ (w \div 256) <= 255
      /\ (w % 65536) = w
  BY <1>1
<1>5. QED
  BY <1>2, ByteRange DEF Hi, Lo, Word, Wrap

\* A memory answers bytes, and stays a memory when a byte is written.
LEMMA Reads ==
    ASSUME NEW m, IsMemory(m), NEW x
    PROVE  mem_read(m, x) \in Byte
<1>1. 0 \in Byte
  BY ByteRange
<1>2. QED
  BY <1>1 DEF mem_read, IsMemory

LEMMA Writes ==
    ASSUME NEW m, IsMemory(m), NEW x \in Address, NEW v \in Byte
    PROVE  IsMemory(mem_write(m, x, v))
<1>1. /\ DOMAIN mem_write(m, x, v) = DOMAIN m \cup {x}
      /\ \A y \in DOMAIN m \cup {x} : mem_write(m, x, v)[y] = IF y = x THEN v ELSE m[y]
  BY DEF mem_write
<1>2. QED
  BY <1>1 DEF IsMemory

LEMMA ReadsWord ==
    ASSUME NEW m, IsMemory(m), NEW x
    PROVE  read_u16(m, x) \in Address
BY Reads, BytesWord DEF read_u16

-----------------------------------------------------------------------------
(* The widths of the registers.                                            *)

Cpus == [r : [Registers -> Byte], sp : Address, pc : Address, flags : SUBSET Flags,
         halted : BOOLEAN, out : [pending : BOOLEAN, port : Byte, value : Byte],
         ei : BOOLEAN, sim : Byte]

\* The registers and the memory are as wide as cpu_t and g_mem have them.
CpuTypeOK == cpu \in Cpus /\ IsMemory(mem)

\* The codes of an instruction name registers and pairs.
LEMMA Names ==
    /\ \A k \in 0 .. 7 : k # 6 => RegisterOf[k] \in Registers
    /\ \A rp \in 0 .. 3 : rp # 3 => /\ Pair[rp + 1][1] \in Registers
                                    /\ Pair[rp + 1][2] \in Registers
                                    /\ Pair[rp + 1][1] # Pair[rp + 1][2]
<1>1. ASSUME NEW k \in 0 .. 7, k # 6
      PROVE  RegisterOf[k] \in Registers
  <2> DEFINE names == <<"B", "C", "D", "E", "H", "L", "M", "A">>
  <2>1. RegisterOf[k] = names[k + 1]
    BY <1>1 DEF RegisterOf
  <2>2. k = 0 \/ k = 1 \/ k = 2 \/ k = 3 \/ k = 4 \/ k = 5 \/ k = 7
    BY <1>1
  <2>3. names[k + 1] \in {"A", "B", "C", "D", "E", "H", "L"}
    BY <2>2
  <2>4. QED
    BY <2>1, <2>3 DEF Registers
<1>2. ASSUME NEW rp \in 0 .. 3, rp # 3
      PROVE  /\ Pair[rp + 1][1] \in Registers
             /\ Pair[rp + 1][2] \in Registers
             /\ Pair[rp + 1][1] # Pair[rp + 1][2]
  BY <1>2 DEF Pair, Registers
<1>3. QED
  BY <1>1, <1>2

LEMMA Sets ==
    ASSUME NEW c \in Cpus
    PROVE  /\ \A x \in Registers, v \in Byte : SetReg(c, x, v) \in Cpus
           /\ \A w \in Address : SetSP(c, w) \in Cpus
           /\ \A f \in SUBSET Flags : SetFlags(c, f) \in Cpus
           /\ \A w \in Address : [c EXCEPT !.pc = w] \in Cpus
<1>1. ASSUME NEW x \in Registers, NEW v \in Byte
      PROVE  SetReg(c, x, v) \in Cpus
  BY DEF SetReg, Cpus
<1>2. ASSUME NEW w \in Address
      PROVE  SetSP(c, w) \in Cpus /\ [c EXCEPT !.pc = w] \in Cpus
  BY DEF SetSP, Cpus
<1>3. ASSUME NEW f \in SUBSET Flags
      PROVE  SetFlags(c, f) \in Cpus
  BY DEF SetFlags, Cpus
<1>4. QED
  BY <1>1, <1>2, <1>3

LEMMA Pairs ==
    ASSUME NEW c \in Cpus, NEW rp \in 0 .. 3
    PROVE  /\ get_rp(c, rp) \in Address
           /\ \A w \in Address : set_rp(c, rp, w) \in Cpus
<1>1. \A x \in Registers : c.r[x] \in Byte
  BY DEF Cpus
<1>2. CASE rp = 3
  <2>1. c.sp \in Address
    BY DEF Cpus
  <2>2. QED
    BY <1>2, <2>1, Sets DEF get_rp, set_rp
<1>3. CASE rp # 3
  <2>1. Pair[rp + 1][1] \in Registers /\ Pair[rp + 1][2] \in Registers
    BY <1>3, Names
  <2>2. get_rp(c, rp) \in Address
    BY <1>1, <1>3, <2>1, BytesWord DEF get_rp
  <2>3. ASSUME NEW w \in Address
        PROVE  set_rp(c, rp, w) \in Cpus
    <3>1. Hi(w) \in Byte /\ Lo(w) \in Byte
      BY WordBytes
    <3>2. SetReg(c, Pair[rp + 1][1], Hi(w)) \in Cpus
      BY <2>1, <3>1, Sets
    <3>3. QED
      BY <1>3, <2>1, <3>1, <3>2, Sets DEF set_rp
  <2>4. QED
    BY <2>2, <2>3
<1>4. QED
  BY <1>2, <1>3

LEMMA Codes ==
    ASSUME NEW c \in Cpus, NEW m, IsMemory(m), NEW k \in 0 .. 7
    PROVE  /\ read_reg_by_code(c, m, k) \in Byte
           /\ \A v \in Byte : write_reg(c, k, v) \in Cpus /\ IsMemory(write_cell(c, m, k, v))
<1>1. get_hl(c) \in Address
  BY Pairs DEF get_hl
<1>2. k # 6 => RegisterOf[k] \in Registers
  BY Names
<1>3. \A x \in Registers : c.r[x] \in Byte
  BY DEF Cpus
<1>4. read_reg_by_code(c, m, k) \in Byte
  BY <1>2, <1>3, Reads DEF read_reg_by_code
<1>5. ASSUME NEW v \in Byte
      PROVE  write_reg(c, k, v) \in Cpus /\ IsMemory(write_cell(c, m, k, v))
  BY <1>1, <1>2, Sets, Writes DEF write_reg, write_cell
<1>6. QED
  BY <1>4, <1>5

\* The bits of a byte are bits, and eight bits are a byte.
LEMMA BitValues ==
    ASSUME NEW v \in Int, NEW i \in 1 .. 8
    PROVE  Bits(v)[i] \in {0, 1}
<1>1. Bits(v)[i] = (v \div Bit[i]) % 2
  BY DEF Bits
<1>2. Bit[i] \in Int /\ Bit[i] > 0
  BY DEF Bit
<1>3. (v \div Bit[i]) \in Int
  BY <1>2
<1>4. \A n \in Int : (n % 2) \in {0, 1}
  OBVIOUS
<1>5. QED
  BY <1>1, <1>3, <1>4

LEMMA ByteOfBits ==
    ASSUME NEW b, \A i \in 1 .. 8 : b[i] \in {0, 1}
    PROVE  FromBits(b) \in Byte
<1>1. /\ b[1] \in {0, 1} /\ b[2] \in {0, 1} /\ b[3] \in {0, 1} /\ b[4] \in {0, 1}
      /\ b[5] \in {0, 1} /\ b[6] \in {0, 1} /\ b[7] \in {0, 1} /\ b[8] \in {0, 1}
  OBVIOUS
<1>2. FromBits(b) \in Int /\ 0 <= FromBits(b) /\ FromBits(b) <= 255
  BY <1>1 DEF FromBits
<1>3. QED
  BY <1>2, ByteRange

LEMMA LogicBytes ==
    ASSUME NEW v \in Byte, NEW w \in Byte
    PROVE  And(v, w) \in Byte /\ Or(v, w) \in Byte /\ Xor(v, w) \in Byte
<1>1. v \in Int /\ w \in Int
  BY ByteRange
<1>2. \A i \in 1 .. 8 : Bits(v)[i] \in {0, 1} /\ Bits(w)[i] \in {0, 1}
  BY <1>1, BitValues
<1> DEFINE and == [i \in 1 .. 8 |-> Bits(v)[i] * Bits(w)[i]]
           or  == [i \in 1 .. 8 |-> IF Bits(v)[i] + Bits(w)[i] = 0 THEN 0 ELSE 1]
           xor == [i \in 1 .. 8 |-> (Bits(v)[i] + Bits(w)[i]) % 2]
<1>3. \A i \in 1 .. 8 : and[i] \in {0, 1}
  BY <1>2
<1>4. \A i \in 1 .. 8 : or[i] \in {0, 1}
  BY <1>2
<1>5. \A i \in 1 .. 8 : xor[i] \in {0, 1}
  BY <1>2
<1> HIDE DEF and, or, xor
<1>6. FromBits(and) \in Byte /\ FromBits(or) \in Byte /\ FromBits(xor) \in Byte
  BY <1>3, <1>4, <1>5, ByteOfBits
<1>7. QED
  BY <1>6 DEF And, Or, Xor, and, or, xor

\* The flags stay flags.
LEMMA FlagSets ==
    /\ \A f \in SUBSET Flags : \A v : set_szp(f, v) \in SUBSET Flags
    /\ \A v, cy, ac : Result(v, cy, ac) \in SUBSET Flags
    /\ \A p : unpack_psw_flags(p) \in SUBSET Flags
    /\ \A f \in SUBSET Flags : \A v : inr_flags(f, v) \in SUBSET Flags /\ dcr_flags(f, v) \in SUBSET Flags
<1>1. \A f \in SUBSET Flags : \A v : set_szp(f, v) \in SUBSET Flags
  BY DEF set_szp, Flags
<1>2. \A v, cy, ac : Result(v, cy, ac) \in SUBSET Flags
  <2> TAKE v, cy, ac
  <2>1. {x \in {"CY", "AC"} : IF x = "CY" THEN cy ELSE ac} \in SUBSET Flags
    BY DEF Flags
  <2>2. QED
    BY <1>1, <2>1 DEF Result
<1>3. \A p : unpack_psw_flags(p) \in SUBSET Flags
  BY DEF unpack_psw_flags
<1>4. ASSUME NEW f \in SUBSET Flags, NEW v
      PROVE  inr_flags(f, v) \in SUBSET Flags /\ dcr_flags(f, v) \in SUBSET Flags
  <2>1. /\ ((f \ {"AC"}) \cup (IF Digit(v) = 15 THEN {"AC"} ELSE {})) \in SUBSET Flags
        /\ ((f \ {"AC"}) \cup (IF Digit(v) = 0 THEN {"AC"} ELSE {})) \in SUBSET Flags
    BY DEF Flags
  <2>2. QED
    BY <1>1, <2>1 DEF inr_flags, dcr_flags
<1>5. QED
  BY <1>1, <1>2, <1>3, <1>4

LEMMA StatusByte ==
    ASSUME NEW f
    PROVE  pack_psw_flags(f) \in Byte
<1>1. \A b \in BOOLEAN : Bool(b) = 0 \/ Bool(b) = 1
  BY DEF Bool
<1>2. pack_psw_flags(f) \in Int /\ 0 <= pack_psw_flags(f) /\ pack_psw_flags(f) <= 255
  BY DEF pack_psw_flags, Bool
<1>3. QED
  BY <1>2, ByteRange

LEMMA SetsA ==
    ASSUME NEW c \in Cpus, NEW v \in Byte, NEW f \in SUBSET Flags
    PROVE  SetA(c, v, f) \in Cpus
<1>1. SetReg(c, "A", v) \in Cpus
  BY Sets DEF Registers
<1>2. QED
  BY <1>1, Sets DEF SetA

\* Whatever A and a byte are put together by, A stays a byte.
LEMMA AluWidths ==
    ASSUME NEW c \in Cpus, NEW k \in 0 .. 7, NEW v \in Byte
    PROVE  Alu(c, k, v) \in Cpus
<1>1. c.r["A"] \in Byte
  BY DEF Cpus, Registers
<1>2. c.r["A"] \in Int /\ v \in Int
  BY <1>1, ByteRange
<1>3. ASSUME NEW n \in {0, 1}
      PROVE  add_to_a(c, v, n) \in Cpus /\ sub_from_a(c, v, n) \in Cpus
  <2>1. Lo(c.r["A"] + v + n) \in Byte /\ Lo(c.r["A"] - (v + n)) \in Byte
    <3>1. c.r["A"] + v + n \in Int /\ c.r["A"] - (v + n) \in Int
      BY <1>2
    <3>2. QED
      BY <3>1, Widths
  <2>2. QED
    BY <2>1, FlagSets, SetsA DEF add_to_a, sub_from_a
<1>4. Bool("CY" \in c.flags) \in {0, 1}
  BY DEF Bool
<1>5. /\ logic_flags_and(c, And(c.r["A"], v)) \in Cpus
      /\ logic_flags(c, Xor(c.r["A"], v)) \in Cpus
      /\ logic_flags(c, Or(c.r["A"], v)) \in Cpus
  BY <1>1, LogicBytes, FlagSets, SetsA DEF logic_flags, logic_flags_and
<1>6. cmp_flags_only(c, v) \in Cpus
  <2>1. sub_from_a(c, v, 0) \in Cpus
    BY <1>3
  <2>2. sub_from_a(c, v, 0).flags \in SUBSET Flags
    BY <2>1 DEF Cpus
  <2>3. QED
    BY <2>2, Sets DEF cmp_flags_only
<1>7. k = 0 \/ k = 1 \/ k = 2 \/ k = 3 \/ k = 4 \/ k = 5 \/ k = 6 \/ k = 7
  OBVIOUS
<1>8. QED
  BY <1>3, <1>4, <1>5, <1>6, <1>7 DEF Alu

LEMMA DaaWidths ==
    ASSUME NEW c \in Cpus
    PROVE  daa(c) \in Cpus
<1>1. c.r["A"] \in Byte
  BY DEF Cpus, Registers
<1>2. c.r["A"] \in Int
  BY <1>1, ByteRange
<1> DEFINE a      == c.r["A"]
           high   == a > 153 \/ "CY" \in c.flags
           adjust == (IF Digit(a) > 9 \/ "AC" \in c.flags THEN 6 ELSE 0)
                     + (IF high THEN 96 ELSE 0)
<1>3. adjust \in Int
  OBVIOUS
<1> HIDE DEF adjust, high
<1>4. Lo(a + adjust) \in Byte
  <2>1. a + adjust \in Int
    BY <1>2, <1>3
  <2>2. QED
    BY <2>1, Widths
<1>5. SetA(c, Lo(a + adjust), Result(Lo(a + adjust), high, Digit(a) + Digit(adjust) > 15)) \in Cpus
  BY <1>4, FlagSets, SetsA
<1>6. QED
  BY <1>5 DEF daa, adjust, high

LEMMA RotateWidths ==
    ASSUME NEW c \in Cpus, NEW k \in 0 .. 7
    PROVE  Rotate(c, k) \in Cpus
<1>1. c.r["A"] \in Byte
  BY DEF Cpus, Registers
<1> DEFINE a     == c.r["A"]
           carry == Bool("CY" \in c.flags)
           out   == IF k % 2 = 0 THEN a \div 128 ELSE a % 2
           in    == IF k < 2 THEN out ELSE carry
           v     == IF k % 2 = 0 THEN Lo(2 * a) + in ELSE a \div 2 + 128 * in
           f     == (c.flags \ {"CY"}) \cup (IF out = 1 THEN {"CY"} ELSE {})
<1>2. a \in Int /\ 0 <= a /\ a <= 255
  BY <1>1, ByteRange
<1>3. out \in {0, 1}
  <2>1. (a \div 128) \in {0, 1} /\ (a % 2) \in {0, 1}
    BY <1>2
  <2>2. QED
    BY <2>1
<1>4. carry \in {0, 1}
  BY DEF Bool
<1>5. in \in {0, 1}
  BY <1>3, <1>4
<1> HIDE DEF in
<1>6. v \in Int /\ 0 <= v /\ v <= 255
  <2>1. Lo(2 * a) \in Int /\ 0 <= Lo(2 * a) /\ Lo(2 * a) <= 254
    <3>1. a \in Int /\ 0 <= a
      BY <1>2
    <3>2. ((2 * a) % 256) \in Int /\ 0 <= ((2 * a) % 256) /\ ((2 * a) % 256) <= 254
      BY <3>1
    <3>3. QED
      BY <3>2 DEF Lo
  <2>2. (a \div 2) \in Int /\ 0 <= (a \div 2) /\ (a \div 2) <= 127
    BY <1>2
  <2>3. QED
    BY <1>5, <2>1, <2>2
<1>7. v \in Byte
  BY <1>6, ByteRange
<1>8. f \in SUBSET Flags
  BY DEF Cpus, Flags
<1> HIDE DEF v, f
<1>9. SetA(c, v, f) \in Cpus
  BY <1>7, <1>8, SetsA
<1>10. QED
  BY <1>9 DEF Rotate, v, f, in

-----------------------------------------------------------------------------
(* Every instruction keeps the widths.                                     *)

\* The operands of an instruction, and the next one's place.
LEMMA Fields ==
    ASSUME CpuTypeOK
    PROVE  /\ opcode \in Byte /\ Operand \in Byte
           /\ next_pc \in Address /\ Target \in Address
           /\ Dst \in 0 .. 7 /\ Src \in 0 .. 7 /\ Rp \in 0 .. 3
           /\ \A n \in 0 .. 3 : Wrap(cpu.pc + n) \in Address
           /\ cpu.r["A"] \in Byte /\ cpu.r["H"] \in Byte /\ cpu.r["L"] \in Byte
           /\ cpu.sp \in Address /\ cpu.flags \in SUBSET Flags
<1>1. IsMemory(mem)
  BY DEF CpuTypeOK
<1>2. /\ cpu.r["A"] \in Byte /\ cpu.r["H"] \in Byte /\ cpu.r["L"] \in Byte
      /\ cpu.sp \in Address /\ cpu.flags \in SUBSET Flags /\ cpu.pc \in Address
  BY DEF CpuTypeOK, Cpus, Registers
<1>3. opcode \in Byte /\ Operand \in Byte
  BY <1>1, Reads DEF opcode, Operand
<1>4. \A n \in 0 .. 3 : Wrap(cpu.pc + n) \in Address
  <2> TAKE n \in 0 .. 3
  <2>1. cpu.pc + n \in Int
    BY <1>2, AddressRange
  <2>2. QED
    BY <2>1, Widths
<1>5. next_pc \in Address
  BY <1>4 DEF next_pc
<1>6. Target \in Address
  BY <1>1, ReadsWord DEF Target
<1>7. Dst \in 0 .. 7 /\ Src \in 0 .. 7 /\ Rp \in 0 .. 3
  <2>1. opcode \in Int
    BY <1>3, ByteRange
  <2> HIDE DEF opcode
  <2>2. ((opcode \div 8) % 8) \in 0 .. 7 /\ (opcode % 8) \in 0 .. 7 /\ ((opcode \div 16) % 4) \in 0 .. 3
    BY <2>1
  <2>3. QED
    BY <2>2 DEF Dst, Src, Rp
<1>8. QED
  BY <1>2, <1>3, <1>4, <1>5, <1>6, <1>7

\* An instruction goes on with the next one, or elsewhere.
LEMMA Goes ==
    ASSUME CpuTypeOK, NEW c \in Cpus, NEW n \in 0 .. 3, Go(c, n)
    PROVE  cpu' \in Cpus
<1>1. Wrap(cpu.pc + n) \in Address
  BY Fields
<1>2. QED
  BY <1>1, Sets DEF Go

LEMMA Jumps ==
    ASSUME NEW c \in Cpus, NEW w \in Address, Jump(c, w)
    PROVE  cpu' \in Cpus
BY Sets DEF Jump

\* The stack pointer wraps, and what is pushed are the bytes of a word.
LEMMA Pushes ==
    ASSUME NEW m, IsMemory(m), NEW sp \in Address, NEW w \in Address
    PROVE  IsMemory(push_cells(m, sp, w)) /\ push_sp(sp) \in Address
<1>1. sp - 1 \in Int /\ sp - 2 \in Int
  BY AddressRange
<1>2. ((sp - 1) % 65536) \in Address /\ ((sp - 2) % 65536) \in Address
  BY <1>1, Widths
<1>3. Hi(w) \in Byte /\ Lo(w) \in Byte
  BY WordBytes
<1>4. IsMemory(mem_write(m, (sp - 1) % 65536, Hi(w)))
  BY <1>2, <1>3, Writes
<1>5. QED
  BY <1>2, <1>3, <1>4, Writes DEF push_cells, push_sp

LEMMA Pops ==
    ASSUME NEW m, IsMemory(m), NEW sp \in Address
    PROVE  pop_u16(m, sp) \in Address /\ pop_sp(sp) \in Address
<1>1. sp + 2 \in Int
  BY AddressRange
<1>2. QED
  BY <1>1, Widths, ReadsWord DEF pop_u16, pop_sp

LEMMA Calls ==
    ASSUME CpuTypeOK, NEW w \in Address, NEW target \in Address, Call(w, target)
    PROVE  CpuTypeOK'
<1>1. cpu \in Cpus /\ IsMemory(mem) /\ cpu.sp \in Address
  BY Fields DEF CpuTypeOK
<1>2. IsMemory(push_cells(mem, cpu.sp, w)) /\ push_sp(cpu.sp) \in Address
  BY <1>1, Pushes
<1>3. SetSP(cpu, push_sp(cpu.sp)) \in Cpus
  BY <1>1, <1>2, Sets
<1>4. cpu' \in Cpus
  BY <1>3, Jumps DEF Call
<1>5. QED
  BY <1>2, <1>4 DEF Call, CpuTypeOK

LEMMA Returns ==
    ASSUME CpuTypeOK, Return
    PROVE  CpuTypeOK'
<1>1. cpu \in Cpus /\ IsMemory(mem) /\ cpu.sp \in Address
  BY Fields DEF CpuTypeOK
<1>2. pop_u16(mem, cpu.sp) \in Address /\ pop_sp(cpu.sp) \in Address
  BY <1>1, Pops
<1>3. SetSP(cpu, pop_sp(cpu.sp)) \in Cpus
  BY <1>1, <1>2, Sets
<1>4. cpu' \in Cpus
  BY <1>2, <1>3, Jumps DEF Return
<1>5. QED
  BY <1>1, <1>4 DEF Return, CpuTypeOK

\* The registers a computation puts its result in.
LEMMA Moves ==
    ASSUME CpuTypeOK, MVI \/ MOV \/ INR \/ DCR
    PROVE  CpuTypeOK'
<1>1. cpu \in Cpus /\ IsMemory(mem)
  BY DEF CpuTypeOK
<1>2. \A k \in 0 .. 7 : /\ read_reg_by_code(cpu, mem, k) \in Byte
                        /\ \A v \in Byte : /\ write_reg(cpu, k, v) \in Cpus
                                           /\ IsMemory(write_cell(cpu, mem, k, v))
  BY <1>1, Codes
<1>3. CASE MVI
  <2>1. Go(write_reg(cpu, Dst, Operand), 2) /\ mem' = write_cell(cpu, mem, Dst, Operand)
    BY <1>3 DEF MVI
  <2>2. write_reg(cpu, Dst, Operand) \in Cpus /\ IsMemory(write_cell(cpu, mem, Dst, Operand))
    BY <1>2, Fields
  <2>3. QED
    BY <2>1, <2>2, Goes DEF CpuTypeOK
<1>4. CASE MOV
  <2> DEFINE v == read_reg_by_code(cpu, mem, Src)
  <2>1. Go(write_reg(cpu, Dst, v), 1) /\ mem' = write_cell(cpu, mem, Dst, v)
    BY <1>4 DEF MOV
  <2>2. write_reg(cpu, Dst, v) \in Cpus /\ IsMemory(write_cell(cpu, mem, Dst, v))
    BY <1>2, Fields
  <2> HIDE DEF v
  <2>3. QED
    BY <2>1, <2>2, Goes DEF CpuTypeOK
<1>5. CASE INR
  <2> DEFINE v == read_reg_by_code(cpu, mem, Dst)
             w == Lo(v + 1)
             c == SetFlags(write_reg(cpu, Dst, w), inr_flags(cpu.flags, v))
  <2>1. Go(c, 1) /\ mem' = write_cell(cpu, mem, Dst, w)
    BY <1>5 DEF INR
  <2>2. v \in Byte
    BY <1>2, Fields
  <2>3. v + 1 \in Int
    BY <2>2, ByteRange
  <2>4. w \in Byte
    BY <2>3, Widths
  <2>5. write_reg(cpu, Dst, w) \in Cpus /\ IsMemory(write_cell(cpu, mem, Dst, w))
    BY <1>2, <2>4, Fields
  <2>6. c \in Cpus
    BY <2>5, Fields, FlagSets, Sets
  <2> HIDE DEF c, v, w
  <2>7. QED
    BY <2>1, <2>5, <2>6, Goes DEF CpuTypeOK
<1>6. CASE DCR
  <2> DEFINE v == read_reg_by_code(cpu, mem, Dst)
             w == (v - 1) % 256
             c == SetFlags(write_reg(cpu, Dst, w), dcr_flags(cpu.flags, v))
  <2>1. Go(c, 1) /\ mem' = write_cell(cpu, mem, Dst, w)
    BY <1>6 DEF DCR
  <2>2. v \in Byte
    BY <1>2, Fields
  <2>3. v - 1 \in Int
    BY <2>2, ByteRange
  <2>4. w \in Byte
    BY <2>3, Widths
  <2>5. write_reg(cpu, Dst, w) \in Cpus /\ IsMemory(write_cell(cpu, mem, Dst, w))
    BY <1>2, <2>4, Fields
  <2>6. c \in Cpus
    BY <2>5, Fields, FlagSets, Sets
  <2> HIDE DEF c, v, w
  <2>7. QED
    BY <2>1, <2>5, <2>6, Goes DEF CpuTypeOK
<1>7. QED
  BY <1>3, <1>4, <1>5, <1>6

LEMMA Stores ==
    ASSUME CpuTypeOK, STA \/ SHLD \/ XTHL
    PROVE  CpuTypeOK'
<1>1. cpu \in Cpus /\ IsMemory(mem)
  BY DEF CpuTypeOK
<1>2. ASSUME NEW w \in Address
      PROVE  /\ Wrap(w + 1) \in Address
             /\ IsMemory(mem_write(mem_write(mem, w, cpu.r["L"]), Wrap(w + 1), cpu.r["H"]))
  <2>1. w + 1 \in Int
    BY AddressRange
  <2>2. Wrap(w + 1) \in Address
    BY <2>1, Widths
  <2>3. IsMemory(mem_write(mem, w, cpu.r["L"]))
    BY <1>1, Fields, Writes
  <2>4. QED
    BY <2>2, <2>3, Fields, Writes
<1>3. CASE STA
  <2>1. Go(cpu, 3) /\ mem' = mem_write(mem, Target, cpu.r["A"])
    BY <1>3 DEF STA
  <2>2. IsMemory(mem_write(mem, Target, cpu.r["A"]))
    BY <1>1, Fields, Writes
  <2>3. QED
    BY <1>1, <2>1, <2>2, Goes DEF CpuTypeOK
<1>4. CASE SHLD
  <2>1. /\ Go(cpu, 3)
        /\ mem' = mem_write(mem_write(mem, Target, cpu.r["L"]), Wrap(Target + 1), cpu.r["H"])
    BY <1>4 DEF SHLD
  <2>2. IsMemory(mem')
    BY <1>2, <2>1, Fields
  <2>3. QED
    BY <1>1, <2>1, <2>2, Goes DEF CpuTypeOK
<1>5. CASE XTHL
  <2>1. /\ Go(set_rp(cpu, 2, read_u16(mem, cpu.sp)), 1)
        /\ mem' = mem_write(mem_write(mem, cpu.sp, cpu.r["L"]), Wrap(cpu.sp + 1), cpu.r["H"])
    BY <1>5 DEF XTHL
  <2>2. IsMemory(mem')
    BY <1>2, <2>1, Fields
  <2>3. set_rp(cpu, 2, read_u16(mem, cpu.sp)) \in Cpus
    BY <1>1, ReadsWord, Pairs
  <2>4. QED
    BY <2>1, <2>2, <2>3, Goes DEF CpuTypeOK
<1>6. QED
  BY <1>3, <1>4, <1>5

\* The instructions that compute with words.
LEMMA Loads ==
    ASSUME CpuTypeOK, LXI \/ LHLD \/ XCHG \/ SPHL \/ PCHL \/ INX \/ DCX \/ DAD
    PROVE  CpuTypeOK'
<1>1. cpu \in Cpus /\ IsMemory(mem)
  BY DEF CpuTypeOK
<1>2. \A rp \in 0 .. 3 : /\ get_rp(cpu, rp) \in Address
                         /\ \A w \in Address : set_rp(cpu, rp, w) \in Cpus
  BY <1>1, Pairs
<1>3. get_hl(cpu) \in Address
  BY <1>2 DEF get_hl
<1>4. ASSUME NEW c \in Cpus, NEW n \in 0 .. 3, Go(c, n), mem' = mem
      PROVE  CpuTypeOK'
  BY <1>1, <1>4, Goes DEF CpuTypeOK
<1>5. CASE LXI
  <2>1. set_rp(cpu, Rp, Target) \in Cpus /\ Go(set_rp(cpu, Rp, Target), 3) /\ mem' = mem
    BY <1>2, <1>5, Fields DEF LXI
  <2>2. QED
    BY <1>4, <2>1
<1>6. CASE LHLD
  <2>1. set_rp(cpu, 2, read_u16(mem, Target)) \in Cpus
    BY <1>1, <1>2, ReadsWord
  <2>2. Go(set_rp(cpu, 2, read_u16(mem, Target)), 3) /\ mem' = mem
    BY <1>6 DEF LHLD
  <2>3. QED
    BY <1>4, <2>1, <2>2
<1>7. CASE XCHG
  <2> DEFINE c == set_rp(cpu, 1, get_hl(cpu))
  <2>1. c \in Cpus
    BY <1>2, <1>3
  <2>2. Go(set_rp(c, 2, get_rp(cpu, 1)), 1) /\ mem' = mem
    BY <1>7 DEF XCHG
  <2> HIDE DEF c
  <2>3. set_rp(c, 2, get_rp(cpu, 1)) \in Cpus
    BY <1>2, <2>1, Pairs
  <2>4. QED
    BY <1>4, <2>2, <2>3
<1>8. CASE SPHL
  <2>1. SetSP(cpu, get_hl(cpu)) \in Cpus /\ Go(SetSP(cpu, get_hl(cpu)), 1) /\ mem' = mem
    BY <1>1, <1>3, <1>8, Sets DEF SPHL
  <2>2. QED
    BY <1>4, <2>1
<1>9. CASE PCHL
  <2>1. cpu' \in Cpus
    BY <1>1, <1>3, <1>9, Jumps DEF PCHL
  <2>2. QED
    BY <1>1, <1>9, <2>1 DEF PCHL, CpuTypeOK
<1>10. ASSUME NEW w \in Address
       PROVE  Wrap(w + 1) \in Address /\ ((w - 1) % 65536) \in Address
  <2>1. w + 1 \in Int /\ w - 1 \in Int
    BY AddressRange
  <2>2. QED
    BY <2>1, Widths
<1>11. CASE INX
  <2>1. set_rp(cpu, Rp, Wrap(get_rp(cpu, Rp) + 1)) \in Cpus
    BY <1>2, <1>10, Fields
  <2>2. Go(set_rp(cpu, Rp, Wrap(get_rp(cpu, Rp) + 1)), 1) /\ mem' = mem
    BY <1>11 DEF INX
  <2>3. QED
    BY <1>4, <2>1, <2>2
<1>12. CASE DCX
  <2>1. set_rp(cpu, Rp, (get_rp(cpu, Rp) - 1) % 65536) \in Cpus
    BY <1>2, <1>10, Fields
  <2>2. Go(set_rp(cpu, Rp, (get_rp(cpu, Rp) - 1) % 65536), 1) /\ mem' = mem
    BY <1>12 DEF DCX
  <2>3. QED
    BY <1>4, <2>1, <2>2
<1>13. CASE DAD
  <2> DEFINE sum == get_hl(cpu) + get_rp(cpu, Rp)
             cy  == IF sum > 65535 THEN {"CY"} ELSE {}
             c   == SetFlags(set_rp(cpu, 2, Wrap(sum)), (cpu.flags \ {"CY"}) \cup cy)
  <2>1. Go(c, 1) /\ mem' = mem
    BY <1>13 DEF DAD
  <2>2. sum \in Int
    BY <1>2, <1>3, Fields, AddressRange
  <2>3. ((cpu.flags \ {"CY"}) \cup cy) \in SUBSET Flags
    BY Fields DEF Flags
  <2> HIDE DEF sum, cy
  <2>4. set_rp(cpu, 2, Wrap(sum)) \in Cpus
    BY <1>2, <2>2, Widths
  <2>5. c \in Cpus
    BY <2>3, <2>4, Sets
  <2> HIDE DEF c
  <2>6. QED
    BY <1>4, <2>1, <2>5
<1>14. QED
  BY <1>5, <1>6, <1>7, <1>8, <1>9, <1>11, <1>12, <1>13

\* Those that compute with A, the flags and the latches.
LEMMA Computes ==
    ASSUME CpuTypeOK,
           \/ NOP \/ HLT \/ LDA \/ ALU \/ ALU_Immediate \/ DAA \/ ROT \/ CMA \/ STC \/ CMC
           \/ INP \/ OUT \/ EI \/ DI \/ RIM \/ SIM
    PROVE  CpuTypeOK'
<1>1. cpu \in Cpus /\ IsMemory(mem)
  BY DEF CpuTypeOK
<1>2. ASSUME NEW c \in Cpus, NEW n \in 0 .. 3, Go(c, n), mem' = mem
      PROVE  CpuTypeOK'
  BY <1>1, <1>2, Goes DEF CpuTypeOK
<1>3. \A v \in Byte : SetReg(cpu, "A", v) \in Cpus
  BY <1>1, Sets DEF Registers
<1>4. \A f \in SUBSET Flags : SetFlags(cpu, f) \in Cpus
  BY <1>1, Sets
<1>5. CASE NOP
  BY <1>1, <1>2, <1>5 DEF NOP
<1>6. CASE HLT
  <2>1. [cpu EXCEPT !.halted = TRUE] \in Cpus
    BY <1>1 DEF Cpus
  <2>2. QED
    BY <1>2, <1>6, <2>1 DEF HLT
<1>7. CASE LDA
  <2>1. SetReg(cpu, "A", mem_read(mem, Target)) \in Cpus
    BY <1>1, <1>3, Reads
  <2>2. QED
    BY <1>2, <1>7, <2>1 DEF LDA
<1>8. CASE ALU
  <2>1. read_reg_by_code(cpu, mem, Src) \in Byte
    BY <1>1, Codes, Fields
  <2>2. Alu(cpu, Dst, read_reg_by_code(cpu, mem, Src)) \in Cpus
    BY <1>1, <2>1, AluWidths, Fields
  <2>3. QED
    BY <1>2, <1>8, <2>2 DEF ALU
<1>9. CASE ALU_Immediate
  <2>1. Alu(cpu, Dst, Operand) \in Cpus
    BY <1>1, AluWidths, Fields
  <2>2. QED
    BY <1>2, <1>9, <2>1 DEF ALU_Immediate
<1>10. CASE DAA
  BY <1>1, <1>2, <1>10, DaaWidths DEF DAA
<1>11. CASE ROT
  <2>1. Rotate(cpu, Dst) \in Cpus
    BY <1>1, RotateWidths, Fields
  <2>2. QED
    BY <1>2, <1>11, <2>1 DEF ROT
<1>12. CASE CMA
  <2>1. 255 - cpu.r["A"] \in Byte
    BY Fields, ByteRange
  <2>2. SetReg(cpu, "A", 255 - cpu.r["A"]) \in Cpus
    BY <1>3, <2>1
  <2>3. QED
    BY <1>2, <1>12, <2>2 DEF CMA
<1>13. CASE STC \/ CMC
  <2>1. /\ (cpu.flags \cup {"CY"}) \in SUBSET Flags
        /\ (IF "CY" \in cpu.flags THEN cpu.flags \ {"CY"} ELSE cpu.flags \cup {"CY"})
             \in SUBSET Flags
    BY Fields DEF Flags
  <2>2. /\ SetFlags(cpu, cpu.flags \cup {"CY"}) \in Cpus
        /\ SetFlags(cpu, IF "CY" \in cpu.flags THEN cpu.flags \ {"CY"}
                                               ELSE cpu.flags \cup {"CY"}) \in Cpus
    BY <1>4, <2>1
  <2>3. QED
    BY <1>2, <1>13, <2>2 DEF STC, CMC
<1>14. CASE INP \/ RIM
  <2>1. SetReg(cpu, "A", 0) \in Cpus
    BY <1>3, ByteRange
  <2>2. QED
    BY <1>2, <1>14, <2>1 DEF INP, RIM
<1>15. CASE OUT
  <2> DEFINE c == [cpu EXCEPT !.out = [pending |-> TRUE, port |-> Operand, value |-> cpu.r["A"]]]
  <2>1. c \in Cpus
    BY <1>1, Fields DEF Cpus
  <2>2. Go(c, 2) /\ mem' = mem
    BY <1>15 DEF OUT
  <2> HIDE DEF c
  <2>3. QED
    BY <1>2, <2>1, <2>2
<1>16. CASE EI \/ DI \/ SIM
  <2>1. /\ [cpu EXCEPT !.ei = TRUE] \in Cpus /\ [cpu EXCEPT !.ei = FALSE] \in Cpus
        /\ [cpu EXCEPT !.sim = cpu.r["A"]] \in Cpus
    BY <1>1, Fields DEF Cpus
  <2>2. QED
    BY <1>2, <1>16, <2>1 DEF EI, DI, SIM
<1>17. QED
  BY <1>5, <1>6, <1>7, <1>8, <1>9, <1>10, <1>11, <1>12, <1>13, <1>14, <1>15, <1>16

\* Those that jump, call, return, push and pop.
LEMMA Branches ==
    ASSUME CpuTypeOK,
           JMP \/ Jccc \/ CALL \/ Cccc \/ RST \/ RET \/ Rccc \/ PUSH \/ POP
    PROVE  CpuTypeOK'
<1>1. cpu \in Cpus /\ IsMemory(mem) /\ cpu.sp \in Address
  BY Fields DEF CpuTypeOK
<1>2. ASSUME NEW c \in Cpus, NEW n \in 0 .. 3, Go(c, n), mem' = mem
      PROVE  CpuTypeOK'
  BY <1>1, <1>2, Goes DEF CpuTypeOK
<1>3. Jump(cpu, Target) /\ mem' = mem => CpuTypeOK'
  <2> SUFFICES ASSUME Jump(cpu, Target), mem' = mem
               PROVE  CpuTypeOK'
    OBVIOUS
  <2>1. cpu' \in Cpus
    BY <1>1, Fields, Jumps
  <2>2. QED
    BY <1>1, <2>1 DEF CpuTypeOK
<1>4. Wrap(cpu.pc + 3) \in Address
  BY Fields
<1>5. CASE JMP
  BY <1>3, <1>5 DEF JMP
<1>6. CASE Jccc
  BY <1>1, <1>2, <1>3, <1>6 DEF Jccc
<1>7. CASE CALL
  BY <1>4, <1>7, Fields, Calls DEF CALL
<1>8. CASE Cccc
  <2> DEFINE w == Wrap(cpu.pc + 3)
             target == read_u16(push_cells(mem, cpu.sp, w), next_pc)
  <2>1. target \in Address
    BY <1>1, <1>4, Pushes, ReadsWord
  <2>2. Call(w, target) \/ (Go(cpu, 3) /\ mem' = mem)
    BY <1>8 DEF Cccc
  <2> HIDE DEF target
  <2>3. QED
    BY <1>1, <1>2, <1>4, <2>1, <2>2, Calls
<1>9. CASE RST
  <2>1. 8 * Dst \in Address
    BY Fields, AddressRange
  <2>2. QED
    BY <1>9, <2>1, Fields, Calls DEF RST
<1>10. CASE RET
  BY <1>10, Returns DEF RET
<1>11. CASE Rccc
  BY <1>1, <1>2, <1>11, Returns DEF Rccc
<1>12. CASE PUSH
  <2> DEFINE w == IF Rp = 3 THEN Word(cpu.r["A"], pack_psw_flags(cpu.flags))
                            ELSE get_rp(cpu, Rp)
  <2>1. w \in Address
    BY <1>1, Fields, StatusByte, BytesWord, Pairs
  <2>2. mem' = push_cells(mem, cpu.sp, w) /\ Go(SetSP(cpu, push_sp(cpu.sp)), 1)
    BY <1>12 DEF PUSH
  <2> HIDE DEF w
  <2>3. IsMemory(mem') /\ push_sp(cpu.sp) \in Address
    BY <1>1, <2>1, <2>2, Pushes
  <2>4. SetSP(cpu, push_sp(cpu.sp)) \in Cpus
    BY <1>1, <2>3, Sets
  <2>5. QED
    BY <2>2, <2>3, <2>4, Goes DEF CpuTypeOK
<1>13. CASE POP
  <2> DEFINE w == pop_u16(mem, cpu.sp)
             c == SetSP(cpu, pop_sp(cpu.sp))
             d == IF Rp = 3 THEN SetA(c, Hi(w), unpack_psw_flags(Lo(w))) ELSE set_rp(c, Rp, w)
  <2>1. w \in Address /\ pop_sp(cpu.sp) \in Address
    BY <1>1, Pops
  <2>2. c \in Cpus
    BY <1>1, <2>1, Sets
  <2>3. Go(d, 1) /\ mem' = mem
    BY <1>13 DEF POP
  <2> HIDE DEF w, c
  <2>4. d \in Cpus
    BY <2>1, <2>2, WordBytes, FlagSets, SetsA, Pairs, Fields
  <2> HIDE DEF d
  <2>5. QED
    BY <1>2, <2>3, <2>4
<1>14. QED
  BY <1>5, <1>6, <1>7, <1>8, <1>9, <1>10, <1>11, <1>12, <1>13

LEMMA InitialCpu == cpu_init \in Cpus
<1>1. 0 \in Byte
  BY ByteRange
<1>2. 65023 \in Address /\ 256 \in Address
  BY AddressRange
<1>3. QED
  BY <1>1, <1>2 DEF cpu_init, Cpus

LEMMA TypeStep ==
    ASSUME CpuTypeOK, [Next]_vars
    PROVE  CpuTypeOK'
<1>1. CASE cpu_step
  BY <1>1, Moves, Stores, Loads, Computes, Branches DEF cpu_step
<1>2. CASE Halted \/ UNCHANGED vars
  BY <1>2 DEF Halted, vars, CpuTypeOK
<1>3. QED
  BY <1>1, <1>2 DEF Next

\* In every run of the CPU, from any memory and whatever the program, its
\* registers and memory cells hold bytes and its pairs, SP and PC words.
THEOREM WidthsKept == Spec => []CpuTypeOK
<1>1. Init => CpuTypeOK
  BY InitialCpu, CpuAssumption DEF Init, CpuTypeOK
<1>2. CpuTypeOK /\ [Next]_vars => CpuTypeOK'
  BY TypeStep
<1>3. QED
  BY <1>1, <1>2, PTL DEF Spec

-----------------------------------------------------------------------------
(* The steps of a program that only computes.                              *)

\* A program at \h100 is fetched as it was written.
LEMMA Fetch ==
    ASSUME NEW code, Len(code) \in 1 .. 99, mem = At(\h100, code),
           NEW i \in 1 .. Len(code), cpu.pc = 255 + i
    PROVE  /\ opcode = code[i]
           /\ i + 1 <= Len(code) => Operand = code[i + 1]
           /\ i + 2 <= Len(code) => Target = Word(code[i + 2], code[i + 1])
<1> DEFINE n == Len(code)
<1>1. n \in 1 .. 99 /\ i \in 1 .. n /\ mem = At(\h100, code)
  OBVIOUS
<1>2. DOMAIN mem = 256 .. 255 + n /\ \A a \in 256 .. 255 + n : mem[a] = code[a - 255]
  BY <1>1 DEF At
<1> HIDE DEF n
<1>3. opcode = code[i]
  BY <1>1, <1>2 DEF opcode, mem_read
<1>4. next_pc = 256 + i /\ Wrap(next_pc + 1) = 257 + i
  BY <1>1 DEF next_pc, Wrap
<1>5. i + 1 <= n => Operand = code[i + 1]
  BY <1>1, <1>2, <1>4 DEF Operand, mem_read
<1>6. i + 2 <= n => Target = Word(code[i + 2], code[i + 1])
  <2>1. i + 2 <= n => mem_read(mem, 257 + i) = code[i + 2] /\ mem_read(mem, 256 + i) = code[i + 1]
    BY <1>1, <1>2 DEF mem_read
  <2>2. Target = Word(mem_read(mem, 257 + i), mem_read(mem, 256 + i))
    BY <1>4 DEF Target, read_u16
  <2>3. QED
    BY <2>1, <2>2
<1>7. QED
  BY <1>3, <1>5, <1>6 DEF n

\* Which instruction an opcode is.
LEMMA Decode ==
    ASSUME cpu_step
    PROVE  /\ opcode = \h76 => HLT
           /\ opcode \in {\h01, \h11, \h21, \h31} => LXI
           /\ opcode \in (\h40 .. \h7F) \ {\h76} => MOV
           /\ opcode \in \h80 .. \hBF => ALU
           /\ opcode \in {\h09, \h19, \h29, \h39} => DAD
           /\ opcode \in {\h3E} => MVI
           /\ opcode \in {\hC6, \hCE} => ALU_Immediate
           /\ opcode = \h27 => DAA
           /\ opcode \in {\h07, \h0F, \h17, \h1F} => ROT
           /\ opcode = \h2F => CMA
           /\ opcode = \h37 => STC
           /\ opcode = \h3F => CMC
           /\ opcode \in {\h03, \h13, \h23, \h33} => INX
           /\ opcode \in {\h0B, \h1B, \h2B, \h3B} => DCX
BY DEF cpu_step, Src, NOP, HLT, LXI, MVI, MOV, LDA, STA, LHLD, SHLD, XCHG, XTHL, SPHL, PCHL,
       ALU, ALU_Immediate, DAA, ROT, CMA, STC, CMC, INR, DCR, INX, DCX, DAD, JMP, Jccc, CALL,
       Cccc, RST, RET, Rccc, PUSH, POP, INP, OUT, EI, DI, RIM, SIM

LEMMA RegisterNames ==
    /\ RegisterOf[0] = "B" /\ RegisterOf[1] = "C" /\ RegisterOf[2] = "D" /\ RegisterOf[3] = "E"
    /\ RegisterOf[4] = "H" /\ RegisterOf[5] = "L" /\ RegisterOf[7] = "A"
BY DEF RegisterOf

\* What the step leaves: the registers, the flags, and the length of the
\* instruction.
Leaves(r, f, n) == /\ cpu'.r = r /\ cpu'.flags = f /\ cpu'.pc = Wrap(cpu.pc + n)
                   /\ cpu'.halted = cpu.halted /\ mem' = mem /\ cpu'.sp = cpu.sp

\* A step that changes A only, and perhaps the flags.
LeavesA(v) == /\ cpu'.r = [cpu.r EXCEPT !["A"] = v] /\ cpu'.pc = Wrap(cpu.pc + 1)
              /\ cpu'.halted = cpu.halted /\ mem' = mem

\* What that leaves, register by register, where the address does not wrap.
LEMMA LeavesAll ==
    ASSUME cpu \in Cpus, cpu.pc \in 0 .. 999, NEW v, LeavesA(v)
    PROVE  /\ cpu'.pc = cpu.pc + 1 /\ cpu'.halted = cpu.halted /\ mem' = mem
           /\ cpu'.r["A"] = v
           /\ cpu'.r["B"] = cpu.r["B"] /\ cpu'.r["C"] = cpu.r["C"] /\ cpu'.r["D"] = cpu.r["D"]
           /\ cpu'.r["E"] = cpu.r["E"] /\ cpu'.r["H"] = cpu.r["H"] /\ cpu'.r["L"] = cpu.r["L"]
<1>1. cpu'.pc = cpu.pc + 1
  BY DEF LeavesA, Wrap
<1>2. QED
  BY <1>1 DEF LeavesA, Cpus, Registers

LEMMA MoveStep ==
    ASSUME CpuTypeOK, cpu_step, opcode \in (\h40 .. \h7F) \ {\h76}, Dst # 6, Src # 6
    PROVE  Leaves([cpu.r EXCEPT ![RegisterOf[Dst]] = cpu.r[RegisterOf[Src]]], cpu.flags, 1)
<1>1. MOV
  BY Decode
<1>2. cpu \in Cpus
  BY DEF CpuTypeOK
<1>3. QED
  BY <1>1, <1>2 DEF MOV, Go, write_reg, write_cell, read_reg_by_code, SetReg, Leaves, Cpus

LEMMA PairStep ==
    ASSUME CpuTypeOK, cpu_step, opcode \in {\h01, \h11, \h21}
    PROVE  Leaves([[cpu.r EXCEPT ![Pair[Rp + 1][1]] = Hi(Target)]
                          EXCEPT ![Pair[Rp + 1][2]] = Lo(Target)], cpu.flags, 3)
<1>1. LXI
  BY Decode
<1>2. cpu \in Cpus
  BY DEF CpuTypeOK
<1>3. Rp # 3
  BY DEF Rp
<1>4. QED
  BY <1>1, <1>2, <1>3 DEF LXI, Go, set_rp, SetReg, Leaves, Cpus

LEMMA SetAFields ==
    ASSUME NEW c \in Cpus
    PROVE  \A v, f : /\ SetA(c, v, f).r = [c.r EXCEPT !["A"] = v]
                     /\ SetA(c, v, f).flags = f
                     /\ SetA(c, v, f).halted = c.halted
                     /\ SetA(c, v, f).sp = c.sp
BY DEF SetA, SetReg, SetFlags, Cpus

LEMMA Carries ==
    ASSUME NEW v, NEW cy \in BOOLEAN, NEW ac \in BOOLEAN
    PROVE  /\ "CY" \in Result(v, cy, ac) <=> cy
           /\ "AC" \in Result(v, cy, ac) <=> ac
BY DEF Result, set_szp

LEMMA AluKeeps ==
    ASSUME NEW c \in Cpus, NEW k \in 0 .. 7, NEW v
    PROVE  Alu(c, k, v).halted = c.halted /\ Alu(c, k, v).sp = c.sp
<1> DEFINE Same(d) == d.halted = c.halted /\ d.sp = c.sp
<1>1. \A w, f : Same(SetA(c, w, f))
  BY DEF SetA, SetReg, SetFlags, Cpus
<1>2. \A f : Same(SetFlags(c, f))
  BY DEF SetFlags, Cpus
<1> HIDE DEF Same
<1>3. \A n : Same(add_to_a(c, v, n)) /\ Same(sub_from_a(c, v, n))
  BY <1>1, Zenon DEF add_to_a, sub_from_a
<1>4. Same(cmp_flags_only(c, v))
  BY <1>2, Zenon DEF cmp_flags_only
<1>5. \A w : Same(logic_flags(c, w)) /\ Same(logic_flags_and(c, w))
  BY <1>1, Zenon DEF logic_flags, logic_flags_and
<1>6. k = 0 \/ k = 1 \/ k = 2 \/ k = 3 \/ k = 4 \/ k = 5 \/ k = 6 \/ k = 7
  OBVIOUS
<1>7. Same(Alu(c, k, v))
  BY <1>3, <1>4, <1>5, <1>6 DEF Alu
<1>8. QED
  BY <1>7 DEF Same

LEMMA AluStep ==
    ASSUME CpuTypeOK, cpu_step, opcode \in \h80 .. \hBF, Src # 6
    PROVE  LET c == Alu(cpu, Dst, cpu.r[RegisterOf[Src]])
           IN  Leaves(c.r, c.flags, 1)
<1> DEFINE v == cpu.r[RegisterOf[Src]]
           c == Alu(cpu, Dst, v)
<1>1. Go(c, 1) /\ mem' = mem
  BY Decode DEF ALU, read_reg_by_code
<1>2. cpu \in Cpus
  BY DEF CpuTypeOK
<1>3. v \in Byte
  BY <1>2, Names, Fields DEF Cpus
<1> HIDE DEF v
<1>4. c \in Cpus /\ c.halted = cpu.halted /\ c.sp = cpu.sp
  BY <1>2, <1>3, AluWidths, AluKeeps, Fields
<1> HIDE DEF c
<1>5. Leaves(c.r, c.flags, 1)
  BY <1>1, <1>4 DEF Go, Leaves, Cpus
<1>6. QED
  BY <1>5 DEF c, v

\* Adding and subtracting a byte.
\* What a sum of bytes leaves in A and in CY and AC.
AddsUp(d, c, v, n) ==
    /\ d.r = [c.r EXCEPT !["A"] = Lo(c.r["A"] + v + n)]
    /\ "CY" \in d.flags <=> c.r["A"] + v + n > 255
    /\ "AC" \in d.flags <=> Digit(c.r["A"]) + Digit(v) + n > 15

LEMMA AddsByte == \A c \in Cpus, v \in Byte, n \in {0, 1} : AddsUp(add_to_a(c, v, n), c, v, n)
<1> TAKE c \in Cpus, v \in Byte, n \in {0, 1}
<1> DEFINE sum == c.r["A"] + v + n
           cy  == sum > 255
           ac  == Digit(c.r["A"]) + Digit(v) + n > 15
           f   == Result(Lo(sum), cy, ac)
<1>1. add_to_a(c, v, n) = SetA(c, Lo(sum), f)
  BY Zenon DEF add_to_a
<1>2. cy \in BOOLEAN /\ ac \in BOOLEAN
  OBVIOUS
<1> HIDE DEF cy, ac
<1>3. ("CY" \in f <=> cy) /\ ("AC" \in f <=> ac)
  BY <1>2, Carries
<1> HIDE DEF f
<1>4. add_to_a(c, v, n).r = [c.r EXCEPT !["A"] = Lo(sum)] /\ add_to_a(c, v, n).flags = f
  BY <1>1, SetAFields
<1>5. /\ "CY" \in add_to_a(c, v, n).flags <=> cy
      /\ "AC" \in add_to_a(c, v, n).flags <=> ac
  BY <1>3, <1>4, Zenon
<1>6. QED
  BY <1>4, <1>5, Zenon DEF AddsUp, cy, ac

LEMMA Adds ==
    ASSUME NEW c \in Cpus, NEW v \in Byte, NEW n \in {0, 1}
    PROVE  /\ add_to_a(c, v, n).r = [c.r EXCEPT !["A"] = Lo(c.r["A"] + v + n)]
           /\ "CY" \in add_to_a(c, v, n).flags <=> c.r["A"] + v + n > 255
           /\ "AC" \in add_to_a(c, v, n).flags <=> Digit(c.r["A"]) + Digit(v) + n > 15
<1>1. AddsUp(add_to_a(c, v, n), c, v, n)
  BY AddsByte, Zenon
<1>2. QED
  BY <1>1, Zenon DEF AddsUp

LEMMA Subtracts ==
    ASSUME NEW c \in Cpus, NEW v \in Byte, NEW n \in {0, 1}
    PROVE  /\ sub_from_a(c, v, n).r = [c.r EXCEPT !["A"] = Lo(c.r["A"] - (v + n))]
           /\ "CY" \in sub_from_a(c, v, n).flags <=> c.r["A"] < v + n
<1> DEFINE diff == Lo(c.r["A"] - (v + n))
           cy   == c.r["A"] < v + n
           ac   == Digit(c.r["A"]) < Digit(v) + n
           f    == Result(diff, cy, ac)
<1>1. sub_from_a(c, v, n) = SetA(c, diff, f)
  BY Zenon DEF sub_from_a
<1>2. cy \in BOOLEAN /\ ac \in BOOLEAN
  OBVIOUS
<1> HIDE DEF cy, ac
<1>3. ("CY" \in f <=> cy) /\ ("AC" \in f <=> ac)
  BY <1>2, Carries
<1> HIDE DEF f
<1>4. sub_from_a(c, v, n).r = [c.r EXCEPT !["A"] = diff] /\ sub_from_a(c, v, n).flags = f
  BY <1>1, SetAFields
<1>5. QED
  BY <1>3, <1>4, Zenon DEF cy, ac


-----------------------------------------------------------------------------
(* Words added and subtracted through two bytes.                           *)

\* Where the program is, and what it has come to: low and high are the bytes
\* of the result, mid and out whether CY is on after each of them.
BytesRun(x, y, low, mid, high, out) ==
    LET r  == cpu.r
        cy == "CY" \in cpu.flags
        X  == r["B"] = Hi(x)
        Y  == r["D"] = Hi(y)
    IN  \/ cpu.pc = 256 /\ ~cpu.halted
        \/ cpu.pc = 259 /\ ~cpu.halted /\ X /\ r["C"] = Lo(x)
        \/ cpu.pc = 262 /\ ~cpu.halted /\ X /\ r["C"] = Lo(x) /\ Y /\ r["E"] = Lo(y)
        \/ cpu.pc = 263 /\ ~cpu.halted /\ X /\ r["A"] = Lo(x) /\ Y /\ r["E"] = Lo(y)
        \/ cpu.pc = 264 /\ ~cpu.halted /\ X /\ r["A"] = low /\ Y /\ (cy <=> mid)
        \/ cpu.pc = 265 /\ ~cpu.halted /\ X /\ r["C"] = low /\ Y /\ (cy <=> mid)
        \/ cpu.pc = 266 /\ ~cpu.halted /\ r["A"] = Hi(x) /\ r["C"] = low /\ Y /\ (cy <=> mid)
        \/ cpu.pc = 267 /\ ~cpu.halted /\ r["A"] = high /\ r["C"] = low /\ (cy <=> out)
        \/ cpu.pc \in {268, 269} /\ r["B"] = high /\ r["C"] = low /\ (cy <=> out)
           /\ (cpu.halted <=> cpu.pc = 269)

\* The operation and the one with carry do to A and CY what low, mid, high
\* and out say.
Computing(x, y, op, opCarry, low, mid, high, out) ==
    /\ op \in {\h83, \h93} /\ opCarry = op + 7
    /\ \A c \in Cpus :
          /\ c.r["A"] = Lo(x) =>
                LET d == Alu(c, (op \div 8) % 8, Lo(y))
                IN  d.r = [c.r EXCEPT !["A"] = low] /\ ("CY" \in d.flags <=> mid)
          /\ c.r["A"] = Hi(x) /\ ("CY" \in c.flags <=> mid) =>
                LET d == Alu(c, (opCarry \div 8) % 8, Hi(y))
                IN  d.r = [c.r EXCEPT !["A"] = high] /\ ("CY" \in d.flags <=> out)

LEMMA HaltStep ==
    ASSUME CpuTypeOK, cpu_step, opcode = \h76
    PROVE  /\ cpu'.r = cpu.r /\ cpu'.flags = cpu.flags /\ cpu'.halted /\ mem' = mem
           /\ cpu'.sp = cpu.sp /\ cpu'.out = cpu.out /\ cpu'.pc = Wrap(cpu.pc + 1)
BY Decode DEF HLT, Go, CpuTypeOK, Cpus

LEMMA BytesStep ==
    ASSUME CpuTypeOK, cpu_step,
           NEW x \in Address, NEW y \in Address, NEW op, NEW opCarry,
           NEW low, NEW mid, NEW high, NEW out,
           mem = At(\h100, LoadWords(x, y) \o ByBytes(op, opCarry)),
           Computing(x, y, op, opCarry, low, mid, high, out),
           BytesRun(x, y, low, mid, high, out)
    PROVE  BytesRun(x, y, low, mid, high, out)' /\ mem' = mem
<1> DEFINE code == LoadWords(x, y) \o ByBytes(op, opCarry)
<1>1. /\ Len(code) = 13
      /\ code[1] = \h01 /\ code[2] = Lo(x) /\ code[3] = Hi(x)
      /\ code[4] = \h11 /\ code[5] = Lo(y) /\ code[6] = Hi(y)
      /\ code[7] = \h79 /\ code[8] = op /\ code[9] = \h4F /\ code[10] = \h78
      /\ code[11] = opCarry /\ code[12] = \h47 /\ code[13] = \h76
  BY DEF LoadWords, ByBytes, Imm
<1> HIDE DEF code
<1>2. \A i \in 1 .. 13 :
         cpu.pc = 255 + i => /\ opcode = code[i]
                             /\ i + 2 <= 13 => Target = Word(code[i + 2], code[i + 1])
  <2> SUFFICES ASSUME NEW i \in 1 .. 13, cpu.pc = 255 + i
               PROVE  opcode = code[i] /\ (i + 2 <= 13 => Target = Word(code[i + 2], code[i + 1]))
    OBVIOUS
  <2>1. mem = At(\h100, code)
    BY DEF code
  <2>2. Len(code) \in 1 .. 99 /\ i \in 1 .. Len(code)
    BY <1>1
  <2>3. /\ opcode = code[i]
        /\ i + 2 <= Len(code) => Target = Word(code[i + 2], code[i + 1])
    BY <2>1, <2>2, Fetch
  <2>4. QED
    BY <1>1, <2>3
<1>3. cpu \in Cpus /\ ~cpu.halted
  BY DEF CpuTypeOK, cpu_step
<1>4. Word(Hi(x), Lo(x)) = x /\ Word(Hi(y), Lo(y)) = y
  BY WordBytes
<1>5. CASE cpu.pc = 256
  <2>1. opcode = \h01 /\ Target = x
    BY <1>1, <1>2, <1>4, <1>5
  <2>2. Pair[Rp + 1] = <<"B", "C">>
    BY <2>1 DEF Rp, Pair
  <2>3. Leaves([[cpu.r EXCEPT !["B"] = Hi(x)] EXCEPT !["C"] = Lo(x)], cpu.flags, 3)
    BY <2>1, <2>2, PairStep
  <2>4. QED
    BY <1>3, <1>5, <2>3 DEF Leaves, BytesRun, Wrap, Cpus, Registers
<1>6. CASE cpu.pc = 259
  <2>1. opcode = \h11 /\ Target = y
    BY <1>1, <1>2, <1>4, <1>6
  <2>2. Pair[Rp + 1] = <<"D", "E">>
    BY <2>1 DEF Rp, Pair
  <2>3. Leaves([[cpu.r EXCEPT !["D"] = Hi(y)] EXCEPT !["E"] = Lo(y)], cpu.flags, 3)
    BY <2>1, <2>2, PairStep
  <2>4. QED
    BY <1>3, <1>6, <2>3 DEF Leaves, BytesRun, Wrap, Cpus, Registers
<1>7. ASSUME opcode \in {\h79, \h4F, \h78, \h47}
      PROVE  /\ opcode = \h79 => Leaves([cpu.r EXCEPT !["A"] = cpu.r["C"]], cpu.flags, 1)
             /\ opcode = \h4F => Leaves([cpu.r EXCEPT !["C"] = cpu.r["A"]], cpu.flags, 1)
             /\ opcode = \h78 => Leaves([cpu.r EXCEPT !["A"] = cpu.r["B"]], cpu.flags, 1)
             /\ opcode = \h47 => Leaves([cpu.r EXCEPT !["B"] = cpu.r["A"]], cpu.flags, 1)
  BY <1>7, MoveStep, RegisterNames DEF Dst, Src
<1>8. CASE cpu.pc = 262
  <2>1. Leaves([cpu.r EXCEPT !["A"] = cpu.r["C"]], cpu.flags, 1)
    BY <1>1, <1>2, <1>7, <1>8
  <2>2. QED
    BY <1>3, <1>8, <2>1 DEF Leaves, BytesRun, Wrap, Cpus, Registers
<1>9. CASE cpu.pc = 263
  <2>1. opcode = op
    BY <1>1, <1>2, <1>9
  <2>2. opcode \in \h80 .. \hBF /\ Src = 3 /\ Dst = (op \div 8) % 8
    BY <2>1 DEF Computing, Src, Dst
  <2> DEFINE c == Alu(cpu, (op \div 8) % 8, cpu.r["E"])
  <2>3. Leaves(c.r, c.flags, 1)
    BY <2>2, AluStep, RegisterNames
  <2>4. cpu.r["E"] = Lo(y) /\ cpu.r["A"] = Lo(x)
    BY <1>9 DEF BytesRun
  <2>5. c.r = [cpu.r EXCEPT !["A"] = low] /\ ("CY" \in c.flags <=> mid)
    <3> DEFINE a == Alu(cpu, (op \div 8) % 8, Lo(y))
    <3>1. a.r = [cpu.r EXCEPT !["A"] = low] /\ ("CY" \in a.flags <=> mid)
      BY <1>3, <2>4, Zenon DEF Computing
    <3>2. c = a
      BY <2>4
    <3>3. QED
      BY <3>1, <3>2, Zenon
  <2> HIDE DEF c
  <2>6. QED
    BY <1>3, <1>9, <2>3, <2>5 DEF Leaves, BytesRun, Wrap, Cpus, Registers
<1>10. CASE cpu.pc = 264
  <2>1. Leaves([cpu.r EXCEPT !["C"] = cpu.r["A"]], cpu.flags, 1)
    BY <1>1, <1>2, <1>7, <1>10
  <2>2. QED
    BY <1>3, <1>10, <2>1 DEF Leaves, BytesRun, Wrap, Cpus, Registers
<1>11. CASE cpu.pc = 265
  <2>1. Leaves([cpu.r EXCEPT !["A"] = cpu.r["B"]], cpu.flags, 1)
    BY <1>1, <1>2, <1>7, <1>11
  <2>2. QED
    BY <1>3, <1>11, <2>1 DEF Leaves, BytesRun, Wrap, Cpus, Registers
<1>12. CASE cpu.pc = 266
  <2>1. opcode = opCarry
    BY <1>1, <1>2, <1>12
  <2>2. opcode \in \h80 .. \hBF /\ Src = 2 /\ Dst = (opCarry \div 8) % 8
    BY <2>1 DEF Computing, Src, Dst
  <2> DEFINE c == Alu(cpu, (opCarry \div 8) % 8, cpu.r["D"])
  <2>3. Leaves(c.r, c.flags, 1)
    BY <2>2, AluStep, RegisterNames
  <2>4. cpu.r["D"] = Hi(y) /\ cpu.r["A"] = Hi(x) /\ ("CY" \in cpu.flags <=> mid)
    BY <1>12 DEF BytesRun
  <2>5. c.r = [cpu.r EXCEPT !["A"] = high] /\ ("CY" \in c.flags <=> out)
    <3> DEFINE a == Alu(cpu, (opCarry \div 8) % 8, Hi(y))
    <3>1. a.r = [cpu.r EXCEPT !["A"] = high] /\ ("CY" \in a.flags <=> out)
      BY <1>3, <2>4, Zenon DEF Computing
    <3>2. c = a
      BY <2>4
    <3>3. QED
      BY <3>1, <3>2, Zenon
  <2> HIDE DEF c
  <2>6. QED
    BY <1>3, <1>12, <2>3, <2>5 DEF Leaves, BytesRun, Wrap, Cpus, Registers
<1>13. CASE cpu.pc = 267
  <2>1. Leaves([cpu.r EXCEPT !["B"] = cpu.r["A"]], cpu.flags, 1)
    BY <1>1, <1>2, <1>7, <1>13
  <2>2. QED
    BY <1>3, <1>13, <2>1 DEF Leaves, BytesRun, Wrap, Cpus, Registers
<1>14. CASE cpu.pc = 268
  <2>1. opcode = \h76
    BY <1>1, <1>2, <1>14
  <2>2. QED
    BY <1>3, <1>14, <2>1, HaltStep DEF BytesRun, Wrap
<1>15. QED
  BY <1>3, <1>5, <1>6, <1>8, <1>9, <1>10, <1>11, <1>12, <1>13, <1>14 DEF BytesRun

SumRun(x, y) ==
    LET low  == Lo(x) + Lo(y)
        high == Hi(x) + Hi(y) + Bool(low > 255)
    IN  BytesRun(x, y, Lo(low), low > 255, Lo(high), high > 255)

DiffRun(x, y) ==
    LET mid  == Lo(x) < Lo(y)
        high == Hi(y) + Bool(mid)
    IN  BytesRun(x, y, Lo(Lo(x) - Lo(y)), mid, Lo(Hi(x) - high), Hi(x) < high)

\* The pairs as words.
LEMMA PairWords ==
    ASSUME NEW c
    PROVE  /\ get_rp(c, 0) = Word(c.r["B"], c.r["C"])
           /\ get_rp(c, 1) = Word(c.r["D"], c.r["E"])
           /\ get_rp(c, 2) = Word(c.r["H"], c.r["L"]) /\ get_hl(c) = get_rp(c, 2)
BY DEF get_rp, get_hl, Pair

\* A program that adds is at every step where SumRun says.
LEMMA SumStep ==
    ASSUME CpuTypeOK, cpu_step, NEW x \in Address, NEW y \in Address,
           mem = SumTask(x, y).image, SumRun(x, y)
    PROVE  SumRun(x, y)' /\ mem' = mem
<1> DEFINE low  == Lo(x) + Lo(y)
           mid  == low > 255
           high == Hi(x) + Hi(y) + Bool(mid)
           out  == high > 255
<1>1. mem = At(\h100, LoadWords(x, y) \o ByBytes(\h83, \h8A))
  BY DEF SumTask, Task
<1>2. Lo(x) \in Byte /\ Lo(y) \in Byte /\ Hi(x) \in Byte /\ Hi(y) \in Byte
  BY WordBytes
<1>3. Computing(x, y, \h83, \h8A, Lo(low), mid, Lo(high), out)
  <2>1. ASSUME NEW c \in Cpus, c.r["A"] = Lo(x)
        PROVE  LET d == Alu(c, (\h83 \div 8) % 8, Lo(y))
               IN  d.r = [c.r EXCEPT !["A"] = Lo(low)] /\ ("CY" \in d.flags <=> mid)
    <3>1. Alu(c, (\h83 \div 8) % 8, Lo(y)) = add_to_a(c, Lo(y), 0)
      BY DEF Alu
    <3>2. /\ add_to_a(c, Lo(y), 0).r = [c.r EXCEPT !["A"] = Lo(c.r["A"] + Lo(y) + 0)]
          /\ "CY" \in add_to_a(c, Lo(y), 0).flags <=> c.r["A"] + Lo(y) + 0 > 255
      <4>1. Lo(y) \in Byte /\ c \in Cpus /\ 0 \in {0, 1}
        BY <1>2
      <4>2. AddsUp(add_to_a(c, Lo(y), 0), c, Lo(y), 0)
        BY <4>1, AddsByte, Zenon
      <4>3. QED
        BY <4>2, Zenon DEF AddsUp
    <3>3. c.r["A"] + Lo(y) + 0 = low
      BY <1>2, <2>1, ByteRange
    <3>4. QED
      BY <3>1, <3>2, <3>3, Zenon
  <2>2. ASSUME NEW c \in Cpus, c.r["A"] = Hi(x), "CY" \in c.flags <=> mid
        PROVE  LET d == Alu(c, (\h8A \div 8) % 8, Hi(y))
               IN  d.r = [c.r EXCEPT !["A"] = Lo(high)] /\ ("CY" \in d.flags <=> out)
    <3>1. Alu(c, (\h8A \div 8) % 8, Hi(y)) = add_to_a(c, Hi(y), Bool("CY" \in c.flags))
      BY DEF Alu
    <3>2. PICK n \in {0, 1} : n = Bool("CY" \in c.flags) /\ n = Bool(mid)
      BY <2>2 DEF Bool
    <3>3. /\ add_to_a(c, Hi(y), n).r = [c.r EXCEPT !["A"] = Lo(c.r["A"] + Hi(y) + n)]
          /\ "CY" \in add_to_a(c, Hi(y), n).flags <=> c.r["A"] + Hi(y) + n > 255
      <4>1. Hi(y) \in Byte /\ c \in Cpus
        BY <1>2
      <4>2. AddsUp(add_to_a(c, Hi(y), n), c, Hi(y), n)
        BY <4>1, AddsByte, Zenon
      <4>3. QED
        BY <4>2, Zenon DEF AddsUp
    <3>4. QED
      BY <2>2, <3>1, <3>2, <3>3, Zenon
  <2>3. QED
    BY <2>1, <2>2 DEF Computing
<1>4. BytesRun(x, y, Lo(low), mid, Lo(high), out)
  BY DEF SumRun
<1> HIDE DEF low, mid, high, out
<1>5. BytesRun(x, y, Lo(low), mid, Lo(high), out)' /\ mem' = mem
  BY <1>1, <1>3, <1>4, BytesStep
<1>6. QED
  BY <1>5 DEF SumRun, low, mid, high, out

\* Bytes added from the low end, with the carry, are words added.
LEMMA SumOfBytes ==
    ASSUME NEW a \in Byte, NEW b \in Byte, NEW c \in Byte, NEW d \in Byte
    PROVE  LET low  == b + d
               high == a + c + Bool(low > 255)
           IN  /\ Word(Lo(high), Lo(low)) = Wrap(Word(a, b) + Word(c, d))
               /\ high > 255 <=> Word(a, b) + Word(c, d) > 65535
<1>1. /\ a \in Int /\ 0 <= a /\ a <= 255 /\ b \in Int /\ 0 <= b /\ b <= 255
      /\ c \in Int /\ 0 <= c /\ c <= 255 /\ d \in Int /\ 0 <= d /\ d <= 255
  BY ByteRange
<1>2. QED
  BY <1>1 DEF Word, Lo, Wrap, Bool

LEMMA SumEnd ==
    ASSUME NEW x \in Address, NEW y \in Address, SumRun(x, y), cpu.halted
    PROVE  get_rp(cpu, 0) = Wrap(x + y) /\ ("CY" \in cpu.flags <=> x + y > 65535)
<1> DEFINE low  == Lo(x) + Lo(y)
           high == Hi(x) + Hi(y) + Bool(low > 255)
<1>1. cpu.r["B"] = Lo(high) /\ cpu.r["C"] = Lo(low) /\ ("CY" \in cpu.flags <=> high > 255)
  BY DEF SumRun, BytesRun
<1>2. /\ Lo(x) \in Byte /\ Lo(y) \in Byte /\ Hi(x) \in Byte /\ Hi(y) \in Byte
      /\ Word(Hi(x), Lo(x)) = x /\ Word(Hi(y), Lo(y)) = y
  BY WordBytes
<1>3. Word(Lo(high), Lo(low)) = Wrap(x + y) /\ (high > 255 <=> x + y > 65535)
  BY <1>2, SumOfBytes
<1>4. QED
  BY <1>1, <1>3, PairWords

\* SUB and SBB of the bytes do what DiffRun says they do.
LEMMA DiffComputes ==
    ASSUME NEW x \in Address, NEW y \in Address
    PROVE  LET mid  == Lo(x) < Lo(y)
               high == Hi(y) + Bool(mid)
           IN  Computing(x, y, \h93, \h9A, Lo(Lo(x) - Lo(y)), mid, Lo(Hi(x) - high), Hi(x) < high)
<1> DEFINE low  == Lo(Lo(x) - Lo(y))
           mid  == Lo(x) < Lo(y)
           high == Hi(y) + Bool(mid)
           top  == Lo(Hi(x) - high)
           out  == Hi(x) < high
<1>1. Lo(x) \in Byte /\ Lo(y) \in Byte /\ Hi(x) \in Byte /\ Hi(y) \in Byte
  BY WordBytes
<1>2. ASSUME NEW c \in Cpus, c.r["A"] = Lo(x)
      PROVE  LET d == Alu(c, (\h93 \div 8) % 8, Lo(y))
             IN  d.r = [c.r EXCEPT !["A"] = low] /\ ("CY" \in d.flags <=> mid)
  <2>1. Alu(c, (\h93 \div 8) % 8, Lo(y)) = sub_from_a(c, Lo(y), 0)
    BY DEF Alu
  <2>2. /\ sub_from_a(c, Lo(y), 0).r = [c.r EXCEPT !["A"] = Lo(c.r["A"] - (Lo(y) + 0))]
        /\ "CY" \in sub_from_a(c, Lo(y), 0).flags <=> c.r["A"] < Lo(y) + 0
    BY <1>1, Subtracts
  <2>3. Lo(y) + 0 = Lo(y)
    BY <1>1, ByteRange
  <2>4. QED
    BY <1>2, <2>1, <2>2, <2>3, Zenon
<1>3. ASSUME NEW c \in Cpus, c.r["A"] = Hi(x), "CY" \in c.flags <=> mid
      PROVE  LET d == Alu(c, (\h9A \div 8) % 8, Hi(y))
             IN  d.r = [c.r EXCEPT !["A"] = top] /\ ("CY" \in d.flags <=> out)
  <2>1. Alu(c, (\h9A \div 8) % 8, Hi(y)) = sub_from_a(c, Hi(y), Bool("CY" \in c.flags))
    BY DEF Alu
  <2>2. PICK n \in {0, 1} : n = Bool("CY" \in c.flags) /\ n = Bool(mid)
    BY <1>3 DEF Bool
  <2>3. /\ sub_from_a(c, Hi(y), n).r = [c.r EXCEPT !["A"] = Lo(c.r["A"] - (Hi(y) + n))]
        /\ "CY" \in sub_from_a(c, Hi(y), n).flags <=> c.r["A"] < Hi(y) + n
    BY <1>1, Subtracts
  <2>4. QED
    BY <1>3, <2>1, <2>2, <2>3, Zenon
<1>4. QED
  BY <1>2, <1>3 DEF Computing

\* So is one that subtracts where DiffRun says.
LEMMA DiffStep ==
    ASSUME CpuTypeOK, cpu_step, NEW x \in Address, NEW y \in Address,
           mem = DiffTask(x, y).image, DiffRun(x, y)
    PROVE  DiffRun(x, y)' /\ mem' = mem
<1> DEFINE low  == Lo(Lo(x) - Lo(y))
           mid  == Lo(x) < Lo(y)
           high == Hi(y) + Bool(mid)
           top  == Lo(Hi(x) - high)
           out  == Hi(x) < high
<1>1. mem = At(\h100, LoadWords(x, y) \o ByBytes(\h93, \h9A))
  BY DEF DiffTask, Task
<1>2. Lo(x) \in Byte /\ Lo(y) \in Byte /\ Hi(x) \in Byte /\ Hi(y) \in Byte
  BY WordBytes
<1>3. Computing(x, y, \h93, \h9A, low, mid, top, out)
  BY DiffComputes
<1>4. BytesRun(x, y, low, mid, top, out)
  BY DEF DiffRun
<1> HIDE DEF low, mid, high, top, out
<1>5. BytesRun(x, y, low, mid, top, out)' /\ mem' = mem
  BY <1>1, <1>3, <1>4, BytesStep
<1>6. QED
  BY <1>5 DEF DiffRun, low, mid, high, top, out

LEMMA DiffOfBytes ==
    ASSUME NEW a \in Byte, NEW b \in Byte, NEW c \in Byte, NEW d \in Byte
    PROVE  LET high == c + Bool(b < d)
           IN  /\ Word(Lo(a - high), Lo(b - d)) = (Word(a, b) - Word(c, d)) % 65536
               /\ a < high <=> Word(a, b) < Word(c, d)
<1>1. /\ a \in Int /\ 0 <= a /\ a <= 255 /\ b \in Int /\ 0 <= b /\ b <= 255
      /\ c \in Int /\ 0 <= c /\ c <= 255 /\ d \in Int /\ 0 <= d /\ d <= 255
  BY ByteRange
<1>2. QED
  BY <1>1 DEF Word, Lo, Bool

LEMMA DiffEnd ==
    ASSUME NEW x \in Address, NEW y \in Address, DiffRun(x, y), cpu.halted
    PROVE  get_rp(cpu, 0) = (x - y) % 65536 /\ ("CY" \in cpu.flags <=> x < y)
<1> DEFINE high == Hi(y) + Bool(Lo(x) < Lo(y))
           low  == Lo(Lo(x) - Lo(y))
           top  == Lo(Hi(x) - high)
<1>1. cpu.r["B"] = top /\ cpu.r["C"] = low /\ ("CY" \in cpu.flags <=> Hi(x) < high)
  BY DEF DiffRun, BytesRun
<1>2. /\ Lo(x) \in Byte /\ Lo(y) \in Byte /\ Hi(x) \in Byte /\ Hi(y) \in Byte
      /\ Word(Hi(x), Lo(x)) = x /\ Word(Hi(y), Lo(y)) = y
  BY WordBytes
<1>3. Word(top, low) = (x - y) % 65536 /\ (Hi(x) < high <=> x < y)
  BY <1>2, DiffOfBytes
<1>4. QED
  BY <1>1, <1>3, PairWords

\* Words added by DAD.
DadRun(x, y) ==
    LET r    == cpu.r
        s    == Wrap(x + y)
        over == "CY" \in cpu.flags <=> x + y > 65535
    IN  \/ cpu.pc = 256 /\ ~cpu.halted
        \/ cpu.pc = 259 /\ ~cpu.halted /\ r["H"] = Hi(x) /\ r["L"] = Lo(x)
        \/ cpu.pc = 262 /\ ~cpu.halted /\ r["H"] = Hi(x) /\ r["L"] = Lo(x)
           /\ r["D"] = Hi(y) /\ r["E"] = Lo(y)
        \/ cpu.pc = 263 /\ ~cpu.halted /\ r["H"] = Hi(s) /\ r["L"] = Lo(s) /\ over
        \/ cpu.pc = 264 /\ ~cpu.halted /\ r["B"] = Hi(s) /\ r["L"] = Lo(s) /\ over
        \/ cpu.pc \in {265, 266} /\ r["B"] = Hi(s) /\ r["C"] = Lo(s) /\ over
           /\ (cpu.halted <=> cpu.pc = 266)

LEMMA DoubleAddStep ==
    ASSUME CpuTypeOK, cpu_step, opcode = \h19
    PROVE  LET sum == get_hl(cpu) + get_rp(cpu, 1)
           IN  Leaves([[cpu.r EXCEPT !["H"] = Hi(Wrap(sum))] EXCEPT !["L"] = Lo(Wrap(sum))],
                      (cpu.flags \ {"CY"}) \cup (IF sum > 65535 THEN {"CY"} ELSE {}), 1)
<1> DEFINE sum == get_hl(cpu) + get_rp(cpu, 1)
           f   == (cpu.flags \ {"CY"}) \cup (IF sum > 65535 THEN {"CY"} ELSE {})
<1>1. DAD
  BY Decode
<1>2. Rp = 1
  BY DEF Rp
<1>3. Go(SetFlags(set_rp(cpu, 2, Wrap(sum)), f), 1) /\ mem' = mem
  BY <1>1, <1>2 DEF DAD
<1>4. set_rp(cpu, 2, Wrap(sum)) = SetReg(SetReg(cpu, "H", Hi(Wrap(sum))), "L", Lo(Wrap(sum)))
  BY DEF set_rp, Pair
<1>5. cpu \in Cpus
  BY DEF CpuTypeOK
<1> HIDE DEF sum, f
<1>6. Leaves([[cpu.r EXCEPT !["H"] = Hi(Wrap(sum))] EXCEPT !["L"] = Lo(Wrap(sum))], f, 1)
  BY <1>3, <1>4, <1>5 DEF Go, SetFlags, SetReg, Leaves, Cpus
<1>7. QED
  BY <1>6 DEF sum, f

LEMMA DadStep ==
    ASSUME CpuTypeOK, cpu_step, NEW x \in Address, NEW y \in Address,
           mem = DadTask(x, y).image, DadRun(x, y)
    PROVE  DadRun(x, y)' /\ mem' = mem
<1> DEFINE code == Imm(\h21, x) \o Imm(\h11, y) \o <<\h19, \h44, \h4D, \h76>>
           s    == Wrap(x + y)
<1>1. /\ Len(code) = 10
      /\ code[1] = \h21 /\ code[2] = Lo(x) /\ code[3] = Hi(x)
      /\ code[4] = \h11 /\ code[5] = Lo(y) /\ code[6] = Hi(y)
      /\ code[7] = \h19 /\ code[8] = \h44 /\ code[9] = \h4D /\ code[10] = \h76
  BY DEF Imm
<1>2. mem = At(\h100, code)
  BY DEF DadTask, Task
<1> HIDE DEF code, s
<1>3. \A i \in 1 .. 10 :
         cpu.pc = 255 + i => /\ opcode = code[i]
                             /\ i + 2 <= 10 => Target = Word(code[i + 2], code[i + 1])
  <2> SUFFICES ASSUME NEW i \in 1 .. 10, cpu.pc = 255 + i
               PROVE  opcode = code[i] /\ (i + 2 <= 10 => Target = Word(code[i + 2], code[i + 1]))
    OBVIOUS
  <2>1. Len(code) \in 1 .. 99 /\ i \in 1 .. Len(code)
    BY <1>1
  <2>2. /\ opcode = code[i]
        /\ i + 2 <= Len(code) => Target = Word(code[i + 2], code[i + 1])
    BY <1>2, <2>1, Fetch
  <2>3. QED
    BY <1>1, <2>2
<1>4. cpu \in Cpus /\ ~cpu.halted
  BY DEF CpuTypeOK, cpu_step
<1>5. Word(Hi(x), Lo(x)) = x /\ Word(Hi(y), Lo(y)) = y
  BY WordBytes
<1>6. CASE cpu.pc = 256
  <2>1. opcode = \h21 /\ Target = x
    BY <1>1, <1>3, <1>5, <1>6
  <2>2. Pair[Rp + 1] = <<"H", "L">>
    BY <2>1 DEF Rp, Pair
  <2>3. Leaves([[cpu.r EXCEPT !["H"] = Hi(x)] EXCEPT !["L"] = Lo(x)], cpu.flags, 3)
    BY <2>1, <2>2, PairStep
  <2>4. QED
    BY <1>4, <1>6, <2>3 DEF Leaves, DadRun, Wrap, Cpus, Registers
<1>7. CASE cpu.pc = 259
  <2>1. opcode = \h11 /\ Target = y
    BY <1>1, <1>3, <1>5, <1>7
  <2>2. Pair[Rp + 1] = <<"D", "E">>
    BY <2>1 DEF Rp, Pair
  <2>3. Leaves([[cpu.r EXCEPT !["D"] = Hi(y)] EXCEPT !["E"] = Lo(y)], cpu.flags, 3)
    BY <2>1, <2>2, PairStep
  <2>4. QED
    BY <1>4, <1>7, <2>3 DEF Leaves, DadRun, Wrap, Cpus, Registers
<1>8. CASE cpu.pc = 262
  <2>1. opcode = \h19
    BY <1>1, <1>3, <1>8
  <2>2. get_hl(cpu) = x /\ get_rp(cpu, 1) = y
    BY <1>5, <1>8, PairWords DEF DadRun
  <2> DEFINE f == (cpu.flags \ {"CY"}) \cup (IF x + y > 65535 THEN {"CY"} ELSE {})
  <2>3. Leaves([[cpu.r EXCEPT !["H"] = Hi(s)] EXCEPT !["L"] = Lo(s)], f, 1)
    BY <2>1, <2>2, DoubleAddStep DEF s
  <2>4. "CY" \in f <=> x + y > 65535
    OBVIOUS
  <2> HIDE DEF f
  <2>5. /\ cpu'.pc = 263 /\ ~cpu'.halted /\ cpu'.r["H"] = Hi(s) /\ cpu'.r["L"] = Lo(s)
        /\ cpu'.flags = f /\ mem' = mem
    BY <1>4, <1>8, <2>3 DEF Leaves, Wrap, Cpus, Registers
  <2>6. QED
    BY <2>4, <2>5 DEF DadRun, s
<1>9. CASE cpu.pc = 263
  <2>1. opcode = \h44
    BY <1>1, <1>3, <1>9
  <2>2. Leaves([cpu.r EXCEPT !["B"] = cpu.r["H"]], cpu.flags, 1)
    BY <2>1, MoveStep, RegisterNames DEF Dst, Src
  <2>3. QED
    BY <1>4, <1>9, <2>2 DEF Leaves, DadRun, Wrap, Cpus, Registers
<1>10. CASE cpu.pc = 264
  <2>1. opcode = \h4D
    BY <1>1, <1>3, <1>10
  <2>2. Leaves([cpu.r EXCEPT !["C"] = cpu.r["L"]], cpu.flags, 1)
    BY <2>1, MoveStep, RegisterNames DEF Dst, Src
  <2>3. QED
    BY <1>4, <1>10, <2>2 DEF Leaves, DadRun, Wrap, Cpus, Registers
<1>11. CASE cpu.pc = 265
  <2>1. opcode = \h76
    BY <1>1, <1>3, <1>11
  <2>2. QED
    BY <1>4, <1>11, <2>1, HaltStep DEF DadRun, Wrap
<1>12. QED
  BY <1>4, <1>6, <1>7, <1>8, <1>9, <1>10, <1>11 DEF DadRun

LEMMA DadEnd ==
    ASSUME NEW x \in Address, NEW y \in Address, DadRun(x, y), cpu.halted
    PROVE  get_rp(cpu, 0) = Wrap(x + y) /\ ("CY" \in cpu.flags <=> x + y > 65535)
<1>1. x + y \in Int
  BY AddressRange
<1>2. Word(Hi(Wrap(x + y)), Lo(Wrap(x + y))) = Wrap(x + y)
  BY <1>1, Widths, WordBytes
<1>3. QED
  BY <1>2, PairWords DEF DadRun

-----------------------------------------------------------------------------
(* Decimal numbers.                                                        *)

LEMMA ImmediateStep ==
    ASSUME CpuTypeOK, cpu_step, opcode \in {\h3E, \hC6, \hCE}
    PROVE  /\ opcode = \h3E => Leaves([cpu.r EXCEPT !["A"] = Operand], cpu.flags, 2)
           /\ opcode = \hC6 => LET c == add_to_a(cpu, Operand, 0) IN Leaves(c.r, c.flags, 2)
           /\ opcode = \hCE => LET c == add_to_a(cpu, Operand, Bool("CY" \in cpu.flags))
                               IN  Leaves(c.r, c.flags, 2)
<1>1. cpu \in Cpus /\ Operand \in Byte
  BY Fields DEF CpuTypeOK
<1>2. ASSUME opcode = \h3E
      PROVE  Leaves([cpu.r EXCEPT !["A"] = Operand], cpu.flags, 2)
  <2>1. MVI /\ Dst = 7
    BY <1>2, Decode DEF Dst
  <2>2. Go(SetReg(cpu, "A", Operand), 2) /\ mem' = mem
    BY <2>1, RegisterNames DEF MVI, write_reg, write_cell
  <2>3. QED
    BY <1>1, <2>2 DEF Go, SetReg, Leaves, Cpus
<1>3. ASSUME opcode \in {\hC6, \hCE}
      PROVE  LET c == Alu(cpu, Dst, Operand) IN Leaves(c.r, c.flags, 2)
  <2> DEFINE c == Alu(cpu, Dst, Operand)
  <2>1. Go(c, 2) /\ mem' = mem
    BY <1>3, Decode DEF ALU_Immediate
  <2>2. Dst \in 0 .. 7
    BY Fields
  <2>3. c \in Cpus
    BY <1>1, <2>2, AluWidths
  <2>4. c.halted = cpu.halted /\ c.sp = cpu.sp
    BY <1>1, <2>2, AluKeeps
  <2> HIDE DEF c
  <2>5. Leaves(c.r, c.flags, 2)
    BY <2>1, <2>3, <2>4 DEF Go, Leaves, Cpus
  <2>6. QED
    BY <2>5 DEF c
<1>4. ASSUME opcode = \hC6
      PROVE  Alu(cpu, Dst, Operand) = add_to_a(cpu, Operand, 0)
  <2>1. Dst = 0
    BY <1>4 DEF Dst
  <2>2. QED
    BY <2>1 DEF Alu
<1>5. ASSUME opcode = \hCE
      PROVE  Alu(cpu, Dst, Operand) = add_to_a(cpu, Operand, Bool("CY" \in cpu.flags))
  <2>1. Dst = 1
    BY <1>5 DEF Dst
  <2>2. QED
    BY <2>1 DEF Alu
<1>6. QED
  BY <1>2, <1>3, <1>4, <1>5, Zenon

\* What the accumulator is left with by the addition of a byte, and the
\* carries of it: the state DAA finds.
Added(c, p, q, n) ==
    /\ c.r["A"] = Lo(Packed(p) + Packed(q) + n)
    /\ "CY" \in c.flags <=> Packed(p) + Packed(q) + n > 255
    /\ "AC" \in c.flags <=> (p % 10) + (q % 10) + n > 15

\* Two decimal digits and the two halves of a byte.
LEMMA PackedDigits ==
    ASSUME NEW p \in 0 .. 99
    PROVE  \E a, b \in 0 .. 9 : /\ p = 10 * a + b /\ (p \div 10) = a /\ (p % 10) = b
                                /\ Packed(p) = 16 * a + b /\ Packed(p) \in Byte
                                /\ Digit(Packed(p)) = b
<1> DEFINE a == p \div 10
           b == p % 10
<1>1. a \in 0 .. 9 /\ b \in 0 .. 9 /\ p = 10 * a + b
  OBVIOUS
<1>2. Packed(p) = 16 * a + b
  BY DEF Packed
<1> HIDE DEF a, b
<1>3. (16 * a + b) \in Byte /\ ((16 * a + b) % 16) = b
  BY <1>1, ByteRange
<1>4. QED
  BY <1>1, <1>2, <1>3 DEF Digit, a, b

\* What DAA leaves in A and CY after two packed bytes and a carry were added.
Corrected(c, p, q, n) ==
    /\ daa(c).r = [c.r EXCEPT !["A"] = Packed((p + q + n) % 100)]
    /\ "CY" \in daa(c).flags <=> p + q + n > 99

LEMMA DaaAdjusts ==
    ASSUME NEW c \in Cpus, NEW p \in 0 .. 99, NEW q \in 0 .. 99, NEW n \in {0, 1},
           Added(c, p, q, n)
    PROVE  Corrected(c, p, q, n)
<1>1. PICK a \in 0 .. 9, b \in 0 .. 9 :
         p = 10 * a + b /\ (p % 10) = b /\ Packed(p) = 16 * a + b
  BY PackedDigits
<1>2. PICK d \in 0 .. 9, e \in 0 .. 9 :
         q = 10 * d + e /\ (q % 10) = e /\ Packed(q) = 16 * d + e
  BY PackedDigits
<1> DEFINE A      == c.r["A"]
           high   == A > 153 \/ "CY" \in c.flags
           low    == Digit(A) > 9 \/ "AC" \in c.flags
           adjust == (IF low THEN 6 ELSE 0) + (IF high THEN 96 ELSE 0)
           s      == b + e + n
           t      == a + d
<1>3. s \in 0 .. 19 /\ t \in 0 .. 18
  OBVIOUS
<1>4. /\ A = (16 * t + s) % 256
      /\ "CY" \in c.flags <=> 16 * t + s > 255
      /\ "AC" \in c.flags <=> s > 15
  <2>1. Packed(p) + Packed(q) + n = 16 * t + s
    BY <1>1, <1>2
  <2>2. (p % 10) + (q % 10) + n = s
    BY <1>1, <1>2
  <2>3. /\ A = Lo(Packed(p) + Packed(q) + n)
        /\ "CY" \in c.flags <=> Packed(p) + Packed(q) + n > 255
        /\ "AC" \in c.flags <=> (p % 10) + (q % 10) + n > 15
    BY Zenon DEF Added
  <2> HIDE DEF s, t
  <2>4. QED
    BY <2>1, <2>2, <2>3, Zenon DEF Lo
<1> HIDE DEF s, t
<1>5. low <=> s > 9
  <2>1. (A % 16) = (s % 16)
    BY <1>3, <1>4
  <2>2. QED
    BY <1>3, <1>4, <2>1 DEF Digit
<1>6. high <=> 10 * t + s > 99
  BY <1>3, <1>4
<1>7. Lo(A + adjust) = Packed((10 * t + s) % 100)
  BY <1>3, <1>4, <1>5, <1>6 DEF Lo, Packed
<1>8. 10 * t + s = p + q + n
  BY <1>1, <1>2 DEF s, t
<1>9. daa(c) = SetA(c, Lo(A + adjust), Result(Lo(A + adjust), high, Digit(A) + Digit(adjust) > 15))
  BY Zenon DEF daa
<1>10. high \in BOOLEAN /\ (Digit(A) + Digit(adjust) > 15) \in BOOLEAN
  OBVIOUS
<1> DEFINE v == Lo(A + adjust)
           f == Result(v, high, Digit(A) + Digit(adjust) > 15)
<1>11. "CY" \in f <=> high
  <2> DEFINE ac == Digit(A) + Digit(adjust) > 15
  <2>1. f = Result(v, high, ac)
    OBVIOUS
  <2>2. high \in BOOLEAN /\ ac \in BOOLEAN
    BY <1>10
  <2> HIDE DEF high, ac, v, f
  <2>3. "CY" \in Result(v, high, ac) <=> high
    BY <2>2, Carries
  <2>4. QED
    BY <2>1, <2>3, Zenon
<1>12. daa(c) = SetA(c, v, f) /\ v = Packed((p + q + n) % 100)
  BY <1>7, <1>8, <1>9
<1> HIDE DEF f, v
<1>13. daa(c).r = [c.r EXCEPT !["A"] = v] /\ daa(c).flags = f
  BY <1>12, SetAFields
<1>14. high <=> p + q + n > 99
  BY <1>6, <1>8, Zenon
<1> HIDE DEF high
<1>15. QED
  BY <1>11, <1>12, <1>13, <1>14, Zenon DEF Corrected

LEMMA AddsPacked ==
    ASSUME NEW c \in Cpus, NEW p \in 0 .. 99, NEW q \in 0 .. 99, NEW n \in {0, 1}, NEW d
    PROVE  /\ c.r["A"] = Packed(p)
           /\ d.r = add_to_a(c, Packed(q), n).r /\ d.flags = add_to_a(c, Packed(q), n).flags
           => Added(d, p, q, n)
<1>1. Digit(Packed(p)) = (p % 10) /\ Digit(Packed(q)) = (q % 10) /\ Packed(q) \in Byte
  BY PackedDigits
<1>2. /\ add_to_a(c, Packed(q), n).r = [c.r EXCEPT !["A"] = Lo(c.r["A"] + Packed(q) + n)]
      /\ "CY" \in add_to_a(c, Packed(q), n).flags <=> c.r["A"] + Packed(q) + n > 255
      /\ "AC" \in add_to_a(c, Packed(q), n).flags
            <=> Digit(c.r["A"]) + Digit(Packed(q)) + n > 15
  <2>1. PICK v \in Byte : v = Packed(q)
    BY <1>1
  <2>2. v \in Byte /\ c \in Cpus
    OBVIOUS
  <2>3. AddsUp(add_to_a(c, v, n), c, v, n)
    BY <2>2, AddsByte, Zenon
  <2>4. AddsUp(add_to_a(c, Packed(q), n), c, Packed(q), n)
    BY <2>1, <2>3, Zenon
  <2>5. QED
    BY <2>4, Zenon DEF AddsUp
<1>3. "A" \in DOMAIN c.r
  BY DEF Cpus, Registers
<1> SUFFICES ASSUME c.r["A"] = Packed(p), d.r = add_to_a(c, Packed(q), n).r,
                    d.flags = add_to_a(c, Packed(q), n).flags
             PROVE  Added(d, p, q, n)
  OBVIOUS
<1>4. d.r["A"] = Lo(Packed(p) + Packed(q) + n)
  BY <1>2, <1>3
<1>5. /\ "CY" \in d.flags <=> Packed(p) + Packed(q) + n > 255
      /\ "AC" \in d.flags <=> (p % 10) + (q % 10) + n > 15
  BY <1>1, <1>2, Zenon
<1>6. QED
  BY <1>4, <1>5, Zenon DEF Added

\* Where the program that adds the numbers with the digits hl and im is.
DecimalRun(h, l, i, m) ==
    LET r    == cpu.r
        cy   == "CY" \in cpu.flags
        over == l + m > 99
        low  == r["C"] = Packed((l + m) % 100)
        s    == h + i + Bool(over)
    IN  \/ cpu.pc = 256 /\ ~cpu.halted
        \/ cpu.pc = 258 /\ ~cpu.halted /\ r["A"] = Packed(l)
        \/ cpu.pc = 260 /\ ~cpu.halted /\ Added(cpu, l, m, 0)
        \/ cpu.pc = 261 /\ ~cpu.halted /\ r["A"] = Packed((l + m) % 100) /\ (cy <=> over)
        \/ cpu.pc = 262 /\ ~cpu.halted /\ low /\ (cy <=> over)
        \/ cpu.pc = 264 /\ ~cpu.halted /\ low /\ (cy <=> over) /\ r["A"] = Packed(h)
        \/ cpu.pc = 266 /\ ~cpu.halted /\ low /\ Added(cpu, h, i, Bool(over))
        \/ cpu.pc = 267 /\ ~cpu.halted /\ low /\ r["A"] = Packed(s % 100) /\ (cy <=> s > 99)
        \/ cpu.pc \in {268, 269} /\ low /\ r["B"] = Packed(s % 100) /\ (cy <=> s > 99)
           /\ (cpu.halted <=> cpu.pc = 269)

LEMMA DaaStep ==
    ASSUME CpuTypeOK, cpu_step, opcode = \h27
    PROVE  Leaves(daa(cpu).r, daa(cpu).flags, 1)
<1> DEFINE c == daa(cpu)
<1>1. cpu \in Cpus
  BY DEF CpuTypeOK
<1>2. c \in Cpus
  BY <1>1, DaaWidths
<1>3. c.halted = cpu.halted /\ c.sp = cpu.sp
  <2> DEFINE Same(d) == d.halted = cpu.halted /\ d.sp = cpu.sp
  <2>1. \A v, f : Same(SetA(cpu, v, f))
    BY <1>1 DEF SetA, SetReg, SetFlags, Cpus
  <2> DEFINE A      == cpu.r["A"]
             high   == A > 153 \/ "CY" \in cpu.flags
             low    == Digit(A) > 9 \/ "AC" \in cpu.flags
             adjust == (IF low THEN 6 ELSE 0) + (IF high THEN 96 ELSE 0)
             v      == Lo(A + adjust)
             f      == Result(v, high, Digit(A) + Digit(adjust) > 15)
  <2>3. c = SetA(cpu, v, f)
    BY Zenon DEF daa
  <2> HIDE DEF Same, v, f, c
  <2>2. Same(c)
    BY <2>1, <2>3, Zenon
  <2>4. QED
    BY <2>2 DEF Same
<1>4. Go(c, 1) /\ mem' = mem
  BY Decode DEF DAA
<1> HIDE DEF c
<1>5. Leaves(c.r, c.flags, 1)
  BY <1>2, <1>3, <1>4 DEF Go, Leaves, Cpus
<1>6. QED
  BY <1>5 DEF c

LEMMA AddsPackedStep ==
    ASSUME CpuTypeOK, NEW p \in 0 .. 99, NEW q \in 0 .. 99, NEW n \in {0, 1},
           Leaves(add_to_a(cpu, Packed(q), n).r, add_to_a(cpu, Packed(q), n).flags, 2)
    PROVE  /\ cpu.r["A"] = Packed(p) => Added(cpu', p, q, n)
           /\ cpu'.r["C"] = cpu.r["C"]
<1>1. cpu \in Cpus
  BY DEF CpuTypeOK
<1>2. cpu'.r = add_to_a(cpu, Packed(q), n).r /\ cpu'.flags = add_to_a(cpu, Packed(q), n).flags
  BY DEF Leaves
<1>3. cpu.r["A"] = Packed(p) => Added(cpu', p, q, n)
  BY <1>1, <1>2, AddsPacked
<1>4. PICK v \in Byte : v = Packed(q)
  BY PackedDigits
<1>5. cpu'.r = [cpu.r EXCEPT !["A"] = Lo(cpu.r["A"] + v + n)]
  <2>1. add_to_a(cpu, v, n).r = [cpu.r EXCEPT !["A"] = Lo(cpu.r["A"] + v + n)]
    <3>1. AddsUp(add_to_a(cpu, v, n), cpu, v, n)
      BY <1>1, AddsByte, Zenon
    <3>2. QED
      BY <3>1, Zenon DEF AddsUp
  <2>2. QED
    BY <1>2, <1>4, <2>1, Zenon
<1>6. cpu'.r["C"] = cpu.r["C"]
  BY <1>1, <1>5 DEF Cpus, Registers
<1>7. QED
  BY <1>3, <1>6, Zenon

LEMMA DecimalStep ==
    ASSUME CpuTypeOK, cpu_step,
           NEW h \in 0 .. 99, NEW l \in 0 .. 99, NEW i \in 0 .. 99, NEW m \in 0 .. 99,
           mem = DecimalTask(h, l, i, m).image, DecimalRun(h, l, i, m)
    PROVE  DecimalRun(h, l, i, m)' /\ mem' = mem
<1> DEFINE code == <<\h3E, Packed(l), \hC6, Packed(m), \h27, \h4F,
                     \h3E, Packed(h), \hCE, Packed(i), \h27, \h47, \h76>>
           over == l + m > 99
           n    == Bool(over)
           s    == h + i + n
<1>1. /\ Len(code) = 13
      /\ code[1] = \h3E /\ code[2] = Packed(l) /\ code[3] = \hC6 /\ code[4] = Packed(m)
      /\ code[5] = \h27 /\ code[6] = \h4F /\ code[7] = \h3E /\ code[8] = Packed(h)
      /\ code[9] = \hCE /\ code[10] = Packed(i) /\ code[11] = \h27 /\ code[12] = \h47
      /\ code[13] = \h76
  OBVIOUS
<1>2. mem = At(\h100, code)
  BY DEF DecimalTask, Task
<1> HIDE DEF code
<1>3. \A k \in 1 .. 13 : cpu.pc = 255 + k => /\ opcode = code[k]
                                             /\ k + 1 <= 13 => Operand = code[k + 1]
  <2> SUFFICES ASSUME NEW k \in 1 .. 13, cpu.pc = 255 + k
               PROVE  opcode = code[k] /\ (k + 1 <= 13 => Operand = code[k + 1])
    OBVIOUS
  <2>1. Len(code) \in 1 .. 99 /\ k \in 1 .. Len(code)
    BY <1>1
  <2>2. opcode = code[k] /\ (k + 1 <= Len(code) => Operand = code[k + 1])
    BY <1>2, <2>1, Fetch
  <2>3. QED
    BY <1>1, <2>2
<1>4. cpu \in Cpus /\ ~cpu.halted
  BY DEF CpuTypeOK, cpu_step
<1>5. n \in {0, 1}
  BY DEF Bool
<1>6. ASSUME opcode = \h3E, cpu.pc \in {256, 262}
      PROVE  /\ cpu'.r["A"] = Operand /\ cpu'.r["C"] = cpu.r["C"] /\ cpu'.flags = cpu.flags
             /\ cpu'.pc = cpu.pc + 2 /\ ~cpu'.halted /\ mem' = mem
  <2>1. Leaves([cpu.r EXCEPT !["A"] = Operand], cpu.flags, 2)
    BY <1>6, ImmediateStep
  <2>2. QED
    BY <1>4, <1>6, <2>1 DEF Leaves, Wrap, Cpus, Registers
<1>7. CASE cpu.pc = 256
  <2>1. opcode = \h3E /\ Operand = Packed(l)
    BY <1>1, <1>3, <1>7
  <2>2. QED
    BY <1>6, <1>7, <2>1 DEF DecimalRun
<1>8. CASE cpu.pc = 258
  <2>1. opcode = \hC6 /\ Operand = Packed(m)
    BY <1>1, <1>3, <1>8
  <2>2. Leaves(add_to_a(cpu, Packed(m), 0).r, add_to_a(cpu, Packed(m), 0).flags, 2)
    BY <2>1, ImmediateStep
  <2>3. cpu.r["A"] = Packed(l)
    BY <1>8 DEF DecimalRun
  <2>4. Added(cpu', l, m, 0)
    BY <2>2, <2>3, AddsPackedStep
  <2>5. cpu'.pc = 260 /\ ~cpu'.halted /\ mem' = mem
    BY <1>4, <1>8, <2>2 DEF Leaves, Wrap
  <2>6. QED
    BY <2>4, <2>5 DEF DecimalRun
<1>9. CASE cpu.pc = 260
  <2>1. Leaves(daa(cpu).r, daa(cpu).flags, 1)
    BY <1>1, <1>3, <1>9, DaaStep
  <2>2. Added(cpu, l, m, 0)
    BY <1>9 DEF DecimalRun
  <2>3. /\ daa(cpu).r = [cpu.r EXCEPT !["A"] = Packed((l + m + 0) % 100)]
        /\ "CY" \in daa(cpu).flags <=> l + m + 0 > 99
    <3>1. Corrected(cpu, l, m, 0)
      <4>1. cpu \in Cpus /\ 0 \in {0, 1} /\ Added(cpu, l, m, 0)
        BY <1>4, <2>2
      <4>2. QED
        BY <4>1, DaaAdjusts
    <3>2. QED
      BY <3>1, Zenon DEF Corrected
  <2>4. l + m + 0 = l + m
    OBVIOUS
  <2>5. /\ cpu'.r["A"] = Packed((l + m) % 100) /\ ("CY" \in cpu'.flags <=> over)
        /\ cpu'.pc = 261 /\ ~cpu'.halted /\ mem' = mem
    BY <1>4, <1>9, <2>1, <2>3, <2>4 DEF Leaves, Wrap, Cpus, Registers
  <2>6. QED
    BY <2>5 DEF DecimalRun
<1>10. CASE cpu.pc = 261
  <2>1. opcode = \h4F
    BY <1>1, <1>3, <1>10
  <2>2. Leaves([cpu.r EXCEPT !["C"] = cpu.r["A"]], cpu.flags, 1)
    BY <2>1, MoveStep, RegisterNames DEF Dst, Src
  <2>3. QED
    BY <1>4, <1>10, <2>2 DEF Leaves, DecimalRun, Wrap, Cpus, Registers
<1>11. CASE cpu.pc = 262
  <2>1. opcode = \h3E /\ Operand = Packed(h)
    BY <1>1, <1>3, <1>11
  <2>2. QED
    BY <1>6, <1>11, <2>1 DEF DecimalRun
<1>12. CASE cpu.pc = 264
  <2>1. opcode = \hCE /\ Operand = Packed(i)
    BY <1>1, <1>3, <1>12
  <2>2. cpu.r["A"] = Packed(h) /\ ("CY" \in cpu.flags <=> over)
        /\ cpu.r["C"] = Packed((l + m) % 100)
    BY <1>12 DEF DecimalRun
  <2>3. PICK e \in {0, 1} : e = n
    BY <1>5
  <2>4. Bool("CY" \in cpu.flags) = e
    BY <2>2, <2>3 DEF Bool
  <2>5. Leaves(add_to_a(cpu, Packed(i), e).r, add_to_a(cpu, Packed(i), e).flags, 2)
    BY <2>1, <2>4, ImmediateStep
  <2>6. Added(cpu', h, i, e) /\ cpu'.r["C"] = cpu.r["C"]
    BY <2>2, <2>5, AddsPackedStep
  <2>7. cpu'.r["C"] = cpu.r["C"]
    BY <2>6
  <2>8. cpu'.pc = 266 /\ ~cpu'.halted /\ mem' = mem
    BY <1>4, <1>12, <2>5 DEF Leaves, Wrap
  <2>9. Added(cpu', h, i, Bool(over))
    BY <2>3, <2>6
  <2>10. QED
    BY <2>2, <2>7, <2>8, <2>9 DEF DecimalRun
<1>13. CASE cpu.pc = 266
  <2>1. Leaves(daa(cpu).r, daa(cpu).flags, 1)
    BY <1>1, <1>3, <1>13, DaaStep
  <2>2. Added(cpu, h, i, n) /\ cpu.r["C"] = Packed((l + m) % 100)
    BY <1>13 DEF DecimalRun
  <2> HIDE DEF n
  <2>3. /\ daa(cpu).r = [cpu.r EXCEPT !["A"] = Packed((h + i + n) % 100)]
        /\ "CY" \in daa(cpu).flags <=> h + i + n > 99
    <3>1. cpu \in Cpus /\ n \in {0, 1} /\ Added(cpu, h, i, n)
      BY <1>4, <1>5, <2>2 DEF n
    <3>2. Corrected(cpu, h, i, n)
      BY <3>1, DaaAdjusts
    <3>3. QED
      BY <3>2, Zenon DEF Corrected
  <2>4. /\ cpu'.r["A"] = Packed(s % 100) /\ ("CY" \in cpu'.flags <=> s > 99)
        /\ cpu'.r["C"] = cpu.r["C"] /\ cpu'.pc = 267 /\ ~cpu'.halted /\ mem' = mem
    BY <1>4, <1>13, <2>1, <2>3 DEF Leaves, Wrap, Cpus, Registers
  <2>5. QED
    BY <2>2, <2>4 DEF DecimalRun, n
<1>14. CASE cpu.pc = 267
  <2>1. opcode = \h47
    BY <1>1, <1>3, <1>14
  <2>2. Leaves([cpu.r EXCEPT !["B"] = cpu.r["A"]], cpu.flags, 1)
    BY <2>1, MoveStep, RegisterNames DEF Dst, Src
  <2>3. QED
    BY <1>4, <1>14, <2>2 DEF Leaves, DecimalRun, Wrap, Cpus, Registers
<1>15. CASE cpu.pc = 268
  <2>1. opcode = \h76
    BY <1>1, <1>3, <1>15
  <2>2. QED
    BY <1>4, <1>15, <2>1, HaltStep DEF DecimalRun, Wrap
<1>16. QED
  BY <1>4, <1>7, <1>8, <1>9, <1>10, <1>11, <1>12, <1>13, <1>14, <1>15 DEF DecimalRun

\* What it must have come to.
DecimalResult(sum) ==
    /\ get_rp(cpu, 0) = Word(Packed((sum \div 100) % 100), Packed(sum % 100))
    /\ "CY" \in cpu.flags <=> sum > 9999

LEMMA DecimalEnd ==
    ASSUME NEW h \in 0 .. 99, NEW l \in 0 .. 99, NEW i \in 0 .. 99, NEW m \in 0 .. 99,
           DecimalRun(h, l, i, m), cpu.halted
    PROVE  DecimalResult(100 * h + l + (100 * i + m))
<1> DEFINE n   == IF l + m > 99 THEN 1 ELSE 0
           s   == h + i + n
           sum == 100 * h + l + (100 * i + m)
<1>1. /\ cpu.r["C"] = Packed((l + m) % 100) /\ cpu.r["B"] = Packed(s % 100)
      /\ "CY" \in cpu.flags <=> s > 99
  BY DEF DecimalRun, Bool
<1>2. /\ (sum % 100) = ((l + m) % 100) /\ ((sum \div 100) % 100) = (s % 100)
      /\ sum > 9999 <=> s > 99
  OBVIOUS
<1> HIDE DEF n, s, sum
<1>3. /\ get_rp(cpu, 0) = Word(Packed((sum \div 100) % 100), Packed(sum % 100))
      /\ "CY" \in cpu.flags <=> sum > 9999
  BY <1>1, <1>2, PairWords
<1>4. QED
  BY <1>3 DEF sum, DecimalResult

-----------------------------------------------------------------------------
(* Bits.                                                                   *)

LEMMA BitsOfByte ==
    ASSUME NEW v \in Byte
    PROVE  FromBits(Bits(v)) = v
<1>1. v \in Int /\ 0 <= v /\ v <= 255
  BY ByteRange
<1>2. /\ Bits(v)[1] = (v % 2) /\ Bits(v)[2] = ((v \div 2) % 2) /\ Bits(v)[3] = ((v \div 4) % 2)
      /\ Bits(v)[4] = ((v \div 8) % 2) /\ Bits(v)[5] = ((v \div 16) % 2)
      /\ Bits(v)[6] = ((v \div 32) % 2) /\ Bits(v)[7] = ((v \div 64) % 2)
      /\ Bits(v)[8] = ((v \div 128) % 2)
  BY <1>1 DEF Bits, Bit
<1>3. v = (v % 2) + 2 * ((v \div 2) % 2) + 4 * ((v \div 4) % 2) + 8 * ((v \div 8) % 2)
          + 16 * ((v \div 16) % 2) + 32 * ((v \div 32) % 2) + 64 * ((v \div 64) % 2)
          + 128 * ((v \div 128) % 2)
  BY <1>1
<1>4. QED
  BY <1>2, <1>3 DEF FromBits

\* The byte of bits that add up without carries is a sum of bytes.
LEMMA BitsAdd ==
    ASSUME NEW a \in [1 .. 8 -> Int], NEW b \in [1 .. 8 -> Int], NEW o
    PROVE  /\ (\A i \in 1 .. 8 : o[i] = a[i] + b[i]) => FromBits(o) = FromBits(a) + FromBits(b)
           /\ (\A i \in 1 .. 8 : a[i] <= b[i]) => FromBits(a) <= FromBits(b)
<1>1. (\A i \in 1 .. 8 : o[i] = a[i] + b[i]) => FromBits(o) = FromBits(a) + FromBits(b)
  BY DEF FromBits
<1>2. (\A i \in 1 .. 8 : a[i] <= b[i]) => FromBits(a) <= FromBits(b)
  BY DEF FromBits
<1>3. QED
  BY <1>1, <1>2

\* Or has the digits of Xor and the carries of And, and with the carries
\* again it is the sum.
LEMMA HalfAdder ==
    ASSUME NEW v \in Byte, NEW w \in Byte
    PROVE  /\ Or(v, w) = Xor(v, w) + And(v, w)
           /\ Or(v, w) + And(v, w) = v + w
           /\ And(v, w) <= v /\ And(v, w) <= w
<1> DEFINE p   == Bits(v)
           q   == Bits(w)
           and == [i \in 1 .. 8 |-> p[i] * q[i]]
           or  == [i \in 1 .. 8 |-> IF p[i] + q[i] = 0 THEN 0 ELSE 1]
           xor == [i \in 1 .. 8 |-> (p[i] + q[i]) % 2]
           sum == [i \in 1 .. 8 |-> p[i] + q[i]]
<1>1. \A i \in 1 .. 8 : p[i] \in {0, 1} /\ q[i] \in {0, 1}
  BY ByteRange, BitValues
<1>2. p \in [1 .. 8 -> Int] /\ q \in [1 .. 8 -> Int]
  BY <1>1 DEF Bits
<1>3. And(v, w) = FromBits(and) /\ Or(v, w) = FromBits(or) /\ Xor(v, w) = FromBits(xor)
  BY DEF And, Or, Xor
<1>4. FromBits(p) = v /\ FromBits(q) = w
  BY BitsOfByte
<1> HIDE DEF p, q
<1>5. and \in [1 .. 8 -> Int] /\ or \in [1 .. 8 -> Int] /\ xor \in [1 .. 8 -> Int]
  <2>1. \A m, n \in {0, 1} : m * n \in Int /\ ((m + n) % 2) \in Int
    OBVIOUS
  <2>2. and \in [1 .. 8 -> Int]
    BY <1>1, <2>1
  <2>3. or \in [1 .. 8 -> Int]
    OBVIOUS
  <2>4. xor \in [1 .. 8 -> Int]
    BY <1>1, <2>1
  <2>5. QED
    BY <2>2, <2>3, <2>4
<1>6. \A i \in 1 .. 8 : or[i] = xor[i] + and[i]
  BY <1>1
<1>7. \A i \in 1 .. 8 : sum[i] = or[i] + and[i]
  BY <1>1
<1>8. \A i \in 1 .. 8 : and[i] <= p[i] /\ and[i] <= q[i]
  BY <1>1
<1>9. \A i \in 1 .. 8 : sum[i] = p[i] + q[i]
  OBVIOUS
<1> HIDE DEF and, or, xor, sum
<1>10. FromBits(or) = FromBits(xor) + FromBits(and)
  BY <1>5, <1>6, BitsAdd
<1>11. FromBits(sum) = FromBits(or) + FromBits(and)
  BY <1>5, <1>7, BitsAdd
<1>12. FromBits(sum) = FromBits(p) + FromBits(q)
  BY <1>2, <1>9, BitsAdd
<1>13. FromBits(and) <= FromBits(p) /\ FromBits(and) <= FromBits(q)
  BY <1>2, <1>5, <1>8, BitsAdd
<1>14. QED
  BY <1>3, <1>4, <1>10, <1>11, <1>12, <1>13

\* Where the program that puts two bytes together is.
LogicRun(x, y) ==
    LET r    == cpu.r
        both == r["B"] = x /\ r["C"] = y
        and  == r["D"] = And(x, y)
        or   == r["L"] = Or(x, y)
    IN  \/ cpu.pc = 256 /\ ~cpu.halted
        \/ cpu.pc = 259 /\ ~cpu.halted /\ both
        \/ cpu.pc = 260 /\ ~cpu.halted /\ both /\ r["A"] = x
        \/ cpu.pc = 261 /\ ~cpu.halted /\ both /\ r["A"] = And(x, y)
        \/ cpu.pc = 262 /\ ~cpu.halted /\ both /\ and
        \/ cpu.pc = 263 /\ ~cpu.halted /\ both /\ and /\ r["A"] = x
        \/ cpu.pc \in {264, 265} /\ ~cpu.halted /\ both /\ and /\ r["A"] = Xor(x, y)
        \/ cpu.pc = 266 /\ ~cpu.halted /\ both /\ and /\ r["A"] = Or(x, y)
        \/ cpu.pc = 267 /\ ~cpu.halted /\ both /\ and /\ or /\ r["A"] = Or(x, y)
        \/ cpu.pc = 268 /\ ~cpu.halted /\ both /\ and /\ or /\ r["A"] = (x + y) % 256
        \/ cpu.pc = 269 /\ ~cpu.halted /\ both /\ and /\ or /\ r["H"] = (x + y) % 256
        \/ cpu.pc = 270 /\ ~cpu.halted /\ both /\ and /\ or /\ r["H"] = (x + y) % 256 /\ r["A"] = x
        \/ cpu.pc \in {271, 272} /\ and /\ or /\ r["H"] = (x + y) % 256 /\ r["A"] = Or(x, y)
           /\ (cpu.halted <=> cpu.pc = 272)

LEMMA LogicStep ==
    ASSUME CpuTypeOK, cpu_step, NEW x \in Byte, NEW y \in Byte,
           mem = LogicTask(x, y).image, LogicRun(x, y)
    PROVE  LogicRun(x, y)' /\ mem' = mem
<1> DEFINE code == Imm(\h01, Word(x, y)) \o <<\h78, \hA1, \h57, \h78, \hA9, \h5F, \h82, \h6F,
                                              \h82, \h67, \h78, \hB1, \h76>>
<1>1. Hi(Word(x, y)) = x /\ Lo(Word(x, y)) = y
  BY BytesWord
<1>2. /\ Len(code) = 16
      /\ code[1] = \h01 /\ code[2] = Lo(Word(x, y)) /\ code[3] = Hi(Word(x, y))
      /\ code[4] = \h78 /\ code[5] = \hA1 /\ code[6] = \h57 /\ code[7] = \h78 /\ code[8] = \hA9
      /\ code[9] = \h5F /\ code[10] = \h82 /\ code[11] = \h6F /\ code[12] = \h82
      /\ code[13] = \h67 /\ code[14] = \h78 /\ code[15] = \hB1 /\ code[16] = \h76
  BY DEF Imm
<1>3. mem = At(\h100, code)
  BY DEF LogicTask, Task
<1> HIDE DEF code
<1>4. \A i \in 1 .. 16 :
         cpu.pc = 255 + i => /\ opcode = code[i]
                             /\ i + 2 <= 16 => Target = Word(code[i + 2], code[i + 1])
  <2> SUFFICES ASSUME NEW i \in 1 .. 16, cpu.pc = 255 + i
               PROVE  opcode = code[i] /\ (i + 2 <= 16 => Target = Word(code[i + 2], code[i + 1]))
    OBVIOUS
  <2>1. Len(code) \in 1 .. 99 /\ i \in 1 .. Len(code)
    BY <1>2
  <2>2. /\ opcode = code[i]
        /\ i + 2 <= Len(code) => Target = Word(code[i + 2], code[i + 1])
    BY <1>3, <2>1, Fetch
  <2>3. QED
    BY <1>2, <2>2
<1>5. cpu \in Cpus /\ ~cpu.halted
  BY DEF CpuTypeOK, cpu_step
<1>6. /\ Or(x, y) + And(x, y) = x + y /\ Or(x, y) = Xor(x, y) + And(x, y)
      /\ And(x, y) \in Byte /\ Or(x, y) \in Byte /\ Xor(x, y) \in Byte
  BY HalfAdder, LogicBytes
<1>7. /\ opcode = \h57 => Leaves([cpu.r EXCEPT !["D"] = cpu.r["A"]], cpu.flags, 1)
      /\ opcode = \h5F => Leaves([cpu.r EXCEPT !["E"] = cpu.r["A"]], cpu.flags, 1)
      /\ opcode = \h67 => Leaves([cpu.r EXCEPT !["H"] = cpu.r["A"]], cpu.flags, 1)
      /\ opcode = \h6F => Leaves([cpu.r EXCEPT !["L"] = cpu.r["A"]], cpu.flags, 1)
      /\ opcode = \h78 => Leaves([cpu.r EXCEPT !["A"] = cpu.r["B"]], cpu.flags, 1)
  BY MoveStep, RegisterNames DEF Dst, Src
<1>8. /\ opcode = \hA1 => LET c == logic_flags_and(cpu, And(cpu.r["A"], cpu.r["C"]))
                          IN  Leaves(c.r, c.flags, 1)
      /\ opcode = \hA9 => LET c == logic_flags(cpu, Xor(cpu.r["A"], cpu.r["C"]))
                          IN  Leaves(c.r, c.flags, 1)
      /\ opcode = \hB1 => LET c == logic_flags(cpu, Or(cpu.r["A"], cpu.r["C"]))
                          IN  Leaves(c.r, c.flags, 1)
      /\ opcode = \h82 => LET c == add_to_a(cpu, cpu.r["D"], 0)
                          IN  Leaves(c.r, c.flags, 1)
  BY AluStep, RegisterNames DEF Dst, Src, Alu
<1>9. /\ opcode = \hA1 => LeavesA(And(cpu.r["A"], cpu.r["C"]))
      /\ opcode = \hA9 => LeavesA(Xor(cpu.r["A"], cpu.r["C"]))
      /\ opcode = \hB1 => LeavesA(Or(cpu.r["A"], cpu.r["C"]))
  <2>1. \A v : /\ logic_flags_and(cpu, v).r = [cpu.r EXCEPT !["A"] = v]
               /\ logic_flags(cpu, v).r = [cpu.r EXCEPT !["A"] = v]
    <3>1. \A v, f : SetA(cpu, v, f).r = [cpu.r EXCEPT !["A"] = v]
      BY <1>5, SetAFields
    <3>2. QED
      BY <3>1, Zenon DEF logic_flags, logic_flags_and
  <2>2. QED
    BY <1>8, <2>1 DEF LeavesA, Leaves
<1>10. opcode = \h82 => LeavesA(Lo(cpu.r["A"] + cpu.r["D"]))
  <2>1. cpu.r["D"] \in Byte /\ cpu.r["A"] \in Int /\ cpu.r["D"] \in Int
    BY <1>5, ByteRange DEF Cpus, Registers
  <2>2. add_to_a(cpu, cpu.r["D"], 0).r = [cpu.r EXCEPT !["A"] = Lo(cpu.r["A"] + cpu.r["D"] + 0)]
    <3>1. AddsUp(add_to_a(cpu, cpu.r["D"], 0), cpu, cpu.r["D"], 0)
      <4>1. cpu \in Cpus /\ cpu.r["D"] \in Byte /\ 0 \in {0, 1}
        BY <1>5, <2>1
      <4>2. QED
        BY <4>1, AddsByte, Zenon
    <3>2. QED
      BY <3>1, Zenon DEF AddsUp
  <2>3. cpu.r["A"] + cpu.r["D"] + 0 = cpu.r["A"] + cpu.r["D"]
    BY <2>1
  <2>4. QED
    BY <1>8, <2>2, <2>3 DEF LeavesA, Leaves
<1>11. CASE cpu.pc = 256
  <2>1. opcode = \h01 /\ Target = Word(x, y)
    BY <1>1, <1>2, <1>4, <1>11
  <2>2. Pair[Rp + 1] = <<"B", "C">>
    BY <2>1 DEF Rp, Pair
  <2>3. Leaves([[cpu.r EXCEPT !["B"] = x] EXCEPT !["C"] = y], cpu.flags, 3)
    BY <1>1, <2>1, <2>2, PairStep
  <2>4. QED
    BY <1>5, <1>11, <2>3 DEF Leaves, LogicRun, Wrap, Cpus, Registers
<1>12. CASE cpu.pc \in {259, 262, 269}
  <2>1. opcode = \h78
    BY <1>2, <1>4, <1>12
  <2>2. QED
    BY <1>5, <1>7, <1>12, <2>1 DEF Leaves, LogicRun, Wrap, Cpus, Registers
<1>13. CASE cpu.pc \in {261, 264, 266, 268}
  <2>1. /\ cpu.pc = 261 => opcode = \h57
        /\ cpu.pc = 264 => opcode = \h5F
        /\ cpu.pc = 266 => opcode = \h6F
        /\ cpu.pc = 268 => opcode = \h67
    BY <1>2, <1>4
  <2>2. QED
    BY <1>5, <1>7, <1>13, <2>1 DEF Leaves, LogicRun, Wrap, Cpus, Registers
<1>14. CASE cpu.pc \in {260, 263, 270}
  <2>1. /\ cpu.pc = 260 => opcode = \hA1
        /\ cpu.pc = 263 => opcode = \hA9
        /\ cpu.pc = 270 => opcode = \hB1
    BY <1>2, <1>4
  <2>2. QED
    BY <1>5, <1>9, <1>14, <2>1 DEF LeavesA, LogicRun, Wrap, Cpus, Registers
<1>15. CASE cpu.pc \in {265, 267}
  <2>1. opcode = \h82
    BY <1>2, <1>4, <1>15
  <2>2. Lo(Xor(x, y) + And(x, y)) = Or(x, y) /\ Lo(Or(x, y) + And(x, y)) = (x + y) % 256
    <3>1. Or(x, y) \in Int /\ 0 <= Or(x, y) /\ Or(x, y) <= 255
      BY <1>6, ByteRange
    <3>2. (Or(x, y) % 256) = Or(x, y)
      BY <3>1
    <3>3. QED
      BY <1>6, <3>2 DEF Lo
  <2>3. QED
    BY <1>5, <1>10, <1>15, <2>1, <2>2 DEF LeavesA, LogicRun, Wrap, Cpus, Registers
<1>16. CASE cpu.pc = 271
  <2>1. opcode = \h76
    BY <1>2, <1>4, <1>16
  <2>2. QED
    BY <1>5, <1>16, <2>1, HaltStep DEF LogicRun, Wrap
<1>17. QED
  BY <1>5, <1>11, <1>12, <1>13, <1>14, <1>15, <1>16 DEF LogicRun

LEMMA LogicEnd ==
    ASSUME NEW x \in Byte, NEW y \in Byte, LogicRun(x, y), cpu.halted
    PROVE  /\ cpu.r["H"] = (x + y) % 256 /\ cpu.r["L"] = cpu.r["A"]
           /\ cpu.r["D"] <= x /\ cpu.r["D"] <= y
BY HalfAdder DEF LogicRun

-----------------------------------------------------------------------------
(* Words shifted and negated.                                              *)

Left(v)  == Lo(2 * v) + v \div 128          \* RLC and RRC, on their own.
Right(v) == v \div 2 + 128 * (v % 2)

LEMMA LeftRight ==
    ASSUME NEW v \in Byte
    PROVE  Left(v) \in Byte /\ Right(Left(v)) = v
<1>1. v \in Int /\ 0 <= v /\ v <= 255
  BY ByteRange
<1>2. CASE v <= 127
  <2>1. ((2 * v) % 256) = 2 * v /\ (v \div 128) = 0
    BY <1>1, <1>2
  <2>2. Left(v) = 2 * v
    BY <1>1, <2>1 DEF Left, Lo
  <2>3. ((2 * v) \div 2) = v /\ ((2 * v) % 2) = 0
    BY <1>1
  <2>4. Right(Left(v)) = v
    BY <1>1, <2>2, <2>3 DEF Right
  <2>5. QED
    BY <1>1, <1>2, <2>2, <2>4, ByteRange
<1>3. CASE v >= 128
  <2>1. ((2 * v) % 256) = 2 * v - 256 /\ (v \div 128) = 1
    BY <1>1, <1>3
  <2>2. Left(v) = 2 * v - 255
    BY <1>1, <2>1 DEF Left, Lo
  <2>3. ((2 * v - 255) \div 2) = v - 128 /\ ((2 * v - 255) % 2) = 1
    BY <1>1
  <2>4. Right(Left(v)) = v
    BY <1>1, <2>2, <2>3 DEF Right
  <2>5. QED
    BY <1>1, <1>3, <2>2, <2>4, ByteRange
<1>4. QED
  BY <1>1, <1>2, <1>3

\* A byte and its eight turns to the left.
Turns(v) ==
    LET a == Left(v)  b == Left(a)  c == Left(b)  d == Left(c)
        e == Left(d)  f == Left(e)  g == Left(f)  h == Left(g)
    IN  <<v, a, b, c, d, e, f, g, h>>

LEMMA TurnsBack ==
    ASSUME NEW v \in Byte
    PROVE  /\ Turns(v)[1] = v
           /\ \A k \in 1 .. 8 : Left(Turns(v)[k]) = Turns(v)[k + 1] /\ Right(Turns(v)[k + 1]) = Turns(v)[k]
           /\ \A k \in 1 .. 9 : Turns(v)[k] \in Byte
<1> DEFINE t == Turns(v)
<1>1. /\ t[1] = v /\ t[2] = Left(t[1]) /\ t[3] = Left(t[2]) /\ t[4] = Left(t[3])
      /\ t[5] = Left(t[4]) /\ t[6] = Left(t[5]) /\ t[7] = Left(t[6]) /\ t[8] = Left(t[7])
      /\ t[9] = Left(t[8])
  BY DEF Turns
<1> HIDE DEF t
<1>2. t[1] \in Byte /\ t[2] \in Byte /\ t[3] \in Byte
  BY <1>1, LeftRight
<1>3. t[4] \in Byte /\ t[5] \in Byte /\ t[6] \in Byte
  BY <1>1, <1>2, LeftRight
<1>4. t[7] \in Byte /\ t[8] \in Byte /\ t[9] \in Byte
  BY <1>1, <1>3, LeftRight
<1>5. \A k \in 1 .. 9 : t[k] \in Byte
  <2> SUFFICES ASSUME NEW k \in 1 .. 9
               PROVE  t[k] \in Byte
    OBVIOUS
  <2>1. k = 1 \/ k = 2 \/ k = 3 \/ k = 4 \/ k = 5 \/ k = 6 \/ k = 7 \/ k = 8 \/ k = 9
    OBVIOUS
  <2>2. QED
    BY <1>2, <1>3, <1>4, <2>1
<1>6. \A k \in 1 .. 8 : Left(t[k]) = t[k + 1]
  <2> SUFFICES ASSUME NEW k \in 1 .. 8
               PROVE  Left(t[k]) = t[k + 1]
    OBVIOUS
  <2>1. k = 1 \/ k = 2 \/ k = 3 \/ k = 4 \/ k = 5 \/ k = 6 \/ k = 7 \/ k = 8
    OBVIOUS
  <2>2. QED
    BY <1>1, <2>1
<1>7. \A k \in 1 .. 8 : Right(t[k + 1]) = t[k]
  <2> SUFFICES ASSUME NEW k \in 1 .. 8
               PROVE  Right(t[k + 1]) = t[k]
    OBVIOUS
  <2>1. t[k] \in Byte /\ t[k + 1] = Left(t[k])
    BY <1>5, <1>6
  <2>2. QED
    BY <2>1, LeftRight
<1>8. QED
  BY <1>1, <1>5, <1>6, <1>7 DEF t

\* Where the program that negates and shifts a word is: its bytes in B and C
\* until those of half the word take their place, the negated word in HL, the
\* doubled one in DE, and A on its turns and back.
ShiftAt(c, x) ==
    LET r    == c.r
        cy   == "CY" \in c.flags
        h    == Hi(x)
        l    == Lo(x)
        nb   == h \div 2 + 128 * (h \div 128)
        nc   == l \div 2 + 128 * (h % 2)
        B    == r["B"] = h
        C    == r["C"] = l
        half == r["B"] = nb /\ r["C"] = nc
        HL   == Word(r["H"], r["L"]) = (-x) % 65536
        E    == r["E"] = Lo(2 * l)
        D    == r["D"] = Lo(2 * h) + l \div 128
    IN  \/ c.pc = 256 /\ ~c.halted
        \/ c.pc = 259 /\ ~c.halted /\ B /\ C
        \/ c.pc = 260 /\ ~c.halted /\ B /\ C /\ r["A"] = l
        \/ c.pc = 261 /\ ~c.halted /\ B /\ C /\ r["A"] = 255 - l
        \/ c.pc = 262 /\ ~c.halted /\ B /\ C /\ r["L"] = 255 - l
        \/ c.pc = 263 /\ ~c.halted /\ B /\ C /\ r["L"] = 255 - l /\ r["A"] = h
        \/ c.pc = 264 /\ ~c.halted /\ B /\ C /\ r["L"] = 255 - l /\ r["A"] = 255 - h
        \/ c.pc = 265 /\ ~c.halted /\ B /\ C /\ r["L"] = 255 - l /\ r["H"] = 255 - h
        \/ c.pc = 266 /\ ~c.halted /\ B /\ C /\ HL
        \/ c.pc = 267 /\ ~c.halted /\ B /\ C /\ HL /\ cy
        \/ c.pc = 268 /\ ~c.halted /\ B /\ C /\ HL /\ ~cy
        \/ c.pc = 269 /\ ~c.halted /\ B /\ C /\ HL /\ ~cy /\ r["A"] = l
        \/ c.pc = 270 /\ ~c.halted /\ B /\ C /\ HL /\ (cy <=> l \div 128 = 1) /\ r["A"] = Lo(2 * l)
        \/ c.pc = 271 /\ ~c.halted /\ B /\ C /\ HL /\ (cy <=> l \div 128 = 1) /\ E
        \/ c.pc = 272 /\ ~c.halted /\ B /\ C /\ HL /\ (cy <=> l \div 128 = 1) /\ E /\ r["A"] = h
        \/ c.pc = 273 /\ ~c.halted /\ B /\ C /\ HL /\ (cy <=> h \div 128 = 1) /\ E
           /\ r["A"] = Lo(2 * h) + l \div 128
        \/ c.pc = 274 /\ ~c.halted /\ B /\ C /\ HL /\ (cy <=> h \div 128 = 1) /\ E /\ D
        \/ c.pc = 275 /\ ~c.halted /\ C /\ HL /\ (cy <=> h \div 128 = 1) /\ E /\ D /\ r["A"] = h
        \/ c.pc = 276 /\ ~c.halted /\ C /\ HL /\ (cy <=> h % 2 = 1) /\ E /\ D /\ r["A"] = nb
        \/ c.pc = 277 /\ ~c.halted /\ C /\ HL /\ (cy <=> h % 2 = 1) /\ E /\ D /\ r["B"] = nb
        \/ c.pc = 278 /\ ~c.halted /\ HL /\ (cy <=> h % 2 = 1) /\ E /\ D /\ r["B"] = nb
           /\ r["A"] = l
        \/ c.pc = 279 /\ ~c.halted /\ HL /\ E /\ D /\ r["B"] = nb /\ r["A"] = nc
        \/ c.pc \in 280 .. 288 /\ ~c.halted /\ HL /\ E /\ D /\ half
           /\ r["A"] = Turns(nc)[c.pc - 279]
        \/ c.pc \in 288 .. 296 /\ ~c.halted /\ HL /\ E /\ D /\ half
           /\ r["A"] = Turns(nc)[297 - c.pc]
        \/ c.pc \in 297 .. 299 /\ (c.halted <=> c.pc = 299) /\ HL /\ E /\ D /\ half
           /\ r["A"] = nc

ShiftRun(x) == ShiftAt(cpu, x)

LEMMA RotateStep ==
    ASSUME CpuTypeOK, cpu_step
    PROVE  /\ opcode = \h07 => LeavesA(Left(cpu.r["A"]))
           /\ opcode = \h0F => LeavesA(Right(cpu.r["A"]))
           /\ opcode = \h17 => /\ LeavesA(Lo(2 * cpu.r["A"]) + Bool("CY" \in cpu.flags))
                               /\ "CY" \in cpu'.flags <=> cpu.r["A"] \div 128 = 1
           /\ opcode = \h1F => /\ LeavesA(cpu.r["A"] \div 2 + 128 * Bool("CY" \in cpu.flags))
                               /\ "CY" \in cpu'.flags <=> cpu.r["A"] % 2 = 1
<1>1. cpu \in Cpus
  BY DEF CpuTypeOK
<1>2. ASSUME opcode \in {\h07, \h0F, \h17, \h1F}, NEW v, NEW f, Rotate(cpu, Dst) = SetA(cpu, v, f)
      PROVE  LeavesA(v) /\ cpu'.flags = f
  <2> DEFINE c == Rotate(cpu, Dst)
  <2>1. Go(c, 1) /\ mem' = mem
    BY <1>2, Decode DEF ROT
  <2>2. c.r = [cpu.r EXCEPT !["A"] = v] /\ c.flags = f /\ c.halted = cpu.halted
    BY <1>1, <1>2, SetAFields
  <2>3. c \in Cpus
    <3>1. Dst \in 0 .. 7
      BY Fields
    <3>2. QED
      BY <1>1, <3>1, RotateWidths
  <2> HIDE DEF c
  <2>4. QED
    BY <2>1, <2>2, <2>3 DEF Go, LeavesA, Cpus
<1> DEFINE a == cpu.r["A"]
           f(out) == (cpu.flags \ {"CY"}) \cup (IF out = 1 THEN {"CY"} ELSE {})
<1>3. \A out : "CY" \in f(out) <=> out = 1
  OBVIOUS
<1>4. CASE opcode = \h07
  <2>1. Dst = 0
    BY <1>4 DEF Dst
  <2>2. Rotate(cpu, Dst) = SetA(cpu, Left(a), f(a \div 128))
    BY <2>1 DEF Rotate, Left
  <2>3. QED
    BY <1>2, <1>4, <2>2
<1>5. CASE opcode = \h0F
  <2>1. Dst = 1
    BY <1>5 DEF Dst
  <2>2. Rotate(cpu, Dst) = SetA(cpu, Right(a), f(a % 2))
    BY <2>1 DEF Rotate, Right
  <2>3. QED
    BY <1>2, <1>5, <2>2
<1>6. CASE opcode = \h17
  <2>1. Dst = 2
    BY <1>6 DEF Dst
  <2>2. Rotate(cpu, Dst) = SetA(cpu, Lo(2 * a) + Bool("CY" \in cpu.flags), f(a \div 128))
    BY <2>1 DEF Rotate
  <2>3. QED
    BY <1>2, <1>3, <1>6, <2>2
<1>7. CASE opcode = \h1F
  <2>1. Dst = 3
    BY <1>7 DEF Dst
  <2>2. Rotate(cpu, Dst) = SetA(cpu, a \div 2 + 128 * Bool("CY" \in cpu.flags), f(a % 2))
    BY <2>1 DEF Rotate
  <2>3. QED
    BY <1>2, <1>3, <1>7, <2>2
<1>8. QED
  BY <1>4, <1>5, <1>6, <1>7

\* The instructions between the moves and the turns.
LEMMA OtherStep ==
    ASSUME CpuTypeOK, cpu_step
    PROVE  /\ opcode = \h2F => LeavesA(255 - cpu.r["A"])
           /\ opcode = \h37 => Leaves(cpu.r, cpu.flags \cup {"CY"}, 1)
           /\ opcode = \h3F /\ "CY" \in cpu.flags => Leaves(cpu.r, cpu.flags \ {"CY"}, 1)
           /\ opcode = \h23 =>
                LET w == Wrap(Word(cpu.r["H"], cpu.r["L"]) + 1)
                IN  Leaves([[cpu.r EXCEPT !["H"] = Hi(w)] EXCEPT !["L"] = Lo(w)], cpu.flags, 1)
           /\ opcode \in {\h33, \h3B} => /\ cpu'.r = cpu.r /\ cpu'.pc = Wrap(cpu.pc + 1)
                                          /\ cpu'.halted = cpu.halted /\ mem' = mem
<1>1. cpu \in Cpus
  BY DEF CpuTypeOK
<1>2. CASE opcode = \h2F
  <2>1. Go(SetReg(cpu, "A", 255 - cpu.r["A"]), 1) /\ mem' = mem
    BY <1>2, Decode DEF CMA
  <2>2. QED
    BY <1>1, <1>2, <2>1 DEF Go, SetReg, LeavesA, Cpus
<1>3. CASE opcode = \h37
  <2>1. Go(SetFlags(cpu, cpu.flags \cup {"CY"}), 1) /\ mem' = mem
    BY <1>3, Decode DEF STC
  <2>2. QED
    BY <1>1, <1>3, <2>1 DEF Go, SetFlags, Leaves, Cpus
<1>4. CASE opcode = \h3F
  <2>1. ASSUME "CY" \in cpu.flags
        PROVE  Leaves(cpu.r, cpu.flags \ {"CY"}, 1)
    <3>1. Go(SetFlags(cpu, cpu.flags \ {"CY"}), 1) /\ mem' = mem
      BY <1>4, <2>1, Decode DEF CMC
    <3>2. QED
      BY <1>1, <3>1 DEF Go, SetFlags, Leaves, Cpus
  <2>2. QED
    BY <1>4, <2>1
<1>5. CASE opcode = \h23
  <2> DEFINE w == Wrap(Word(cpu.r["H"], cpu.r["L"]) + 1)
  <2>1. Rp = 2
    BY <1>5 DEF Rp
  <2>2. get_rp(cpu, 2) = Word(cpu.r["H"], cpu.r["L"])
    BY PairWords
  <2>3. Go(set_rp(cpu, 2, w), 1) /\ mem' = mem
    BY <1>5, <2>1, <2>2, Decode DEF INX
  <2>4. set_rp(cpu, 2, w) = SetReg(SetReg(cpu, "H", Hi(w)), "L", Lo(w))
    BY DEF set_rp, Pair
  <2> HIDE DEF w
  <2>5. Leaves([[cpu.r EXCEPT !["H"] = Hi(w)] EXCEPT !["L"] = Lo(w)], cpu.flags, 1)
    BY <1>1, <2>3, <2>4 DEF Go, SetReg, Leaves, Cpus
  <2>6. QED
    BY <1>5, <2>5 DEF w
<1>6. CASE opcode \in {\h33, \h3B}
  <2>1. Rp = 3
    BY <1>6 DEF Rp
  <2>2. PICK w : Go(SetSP(cpu, w), 1) /\ mem' = mem
    BY <1>6, <2>1, Decode DEF INX, DCX, set_rp
  <2>3. /\ cpu'.r = cpu.r /\ cpu'.pc = Wrap(cpu.pc + 1)
        /\ cpu'.halted = cpu.halted /\ mem' = mem
    BY <1>1, <2>2 DEF Go, SetSP, Cpus
  <2>4. QED
    BY <1>6, <2>3
<1>7. QED
  BY <1>2, <1>3, <1>4, <1>5, <1>6

LEMMA ShiftStep ==
    ASSUME CpuTypeOK, cpu_step, NEW x \in Address, mem = ShiftTask(x).image, ShiftRun(x)
    PROVE  ShiftRun(x)' /\ mem' = mem
<1> DEFINE code == Imm(\h01, x)
                   \o <<\h79, \h2F, \h6F, \h78, \h2F, \h67, \h23, \h37, \h3F>>
                   \o <<\h79, \h17, \h5F, \h78, \h17, \h57>>
                   \o <<\h78, \h1F, \h47, \h79, \h1F, \h4F>>
                   \o <<7, 7, 7, 7, 7, 7, 7, 7, 15, 15, 15, 15, 15, 15, 15, 15>>
                   \o <<\h3B, \h33, \h76>>
           h  == Hi(x)
           l  == Lo(x)
           nc == l \div 2 + 128 * (h % 2)
<1>1. /\ Len(code) = 43
      /\ code[1] = \h01 /\ code[2] = l /\ code[3] = h
      /\ code[4] = \h79 /\ code[5] = \h2F /\ code[6] = \h6F /\ code[7] = \h78
      /\ code[8] = \h2F /\ code[9] = \h67 /\ code[10] = \h23 /\ code[11] = \h37
      /\ code[12] = \h3F /\ code[13] = \h79 /\ code[14] = \h17 /\ code[15] = \h5F
      /\ code[16] = \h78 /\ code[17] = \h17 /\ code[18] = \h57
      /\ code[19] = \h78 /\ code[20] = \h1F /\ code[21] = \h47
      /\ code[22] = \h79 /\ code[23] = \h1F /\ code[24] = \h4F
      /\ code[41] = \h3B /\ code[42] = \h33 /\ code[43] = \h76
  BY DEF Imm
<1>2. (\A i \in 25 .. 32 : code[i] = \h07) /\ (\A i \in 33 .. 40 : code[i] = \h0F)
  BY DEF Imm
<1>3. mem = At(\h100, code)
  BY DEF ShiftTask, Task
<1> HIDE DEF code
<1>4. \A i \in 1 .. 43 :
         cpu.pc = 255 + i => /\ opcode = code[i]
                             /\ i + 2 <= 43 => Target = Word(code[i + 2], code[i + 1])
  <2> SUFFICES ASSUME NEW i \in 1 .. 43, cpu.pc = 255 + i
               PROVE  opcode = code[i] /\ (i + 2 <= 43 => Target = Word(code[i + 2], code[i + 1]))
    OBVIOUS
  <2>1. Len(code) \in 1 .. 99 /\ i \in 1 .. Len(code)
    BY <1>1
  <2>2. /\ opcode = code[i]
        /\ i + 2 <= Len(code) => Target = Word(code[i + 2], code[i + 1])
    BY <1>3, <2>1, Fetch
  <2>3. QED
    BY <1>1, <2>2
<1>5. cpu \in Cpus /\ ~cpu.halted
  BY DEF CpuTypeOK, cpu_step
<1>6. Word(h, l) = x /\ h \in Byte /\ l \in Byte
  BY WordBytes
<1>7. h \in Int /\ 0 <= h /\ h <= 255 /\ l \in Int /\ 0 <= l /\ l <= 255
  BY <1>6, ByteRange
<1>8. /\ opcode = \h47 => Leaves([cpu.r EXCEPT !["B"] = cpu.r["A"]], cpu.flags, 1)
      /\ opcode = \h4F => Leaves([cpu.r EXCEPT !["C"] = cpu.r["A"]], cpu.flags, 1)
      /\ opcode = \h57 => Leaves([cpu.r EXCEPT !["D"] = cpu.r["A"]], cpu.flags, 1)
      /\ opcode = \h5F => Leaves([cpu.r EXCEPT !["E"] = cpu.r["A"]], cpu.flags, 1)
      /\ opcode = \h67 => Leaves([cpu.r EXCEPT !["H"] = cpu.r["A"]], cpu.flags, 1)
      /\ opcode = \h6F => Leaves([cpu.r EXCEPT !["L"] = cpu.r["A"]], cpu.flags, 1)
      /\ opcode = \h78 => Leaves([cpu.r EXCEPT !["A"] = cpu.r["B"]], cpu.flags, 1)
      /\ opcode = \h79 => Leaves([cpu.r EXCEPT !["A"] = cpu.r["C"]], cpu.flags, 1)
  BY MoveStep, RegisterNames DEF Dst, Src
<1>9. CASE cpu.pc = 256
  <2>1. opcode = \h01 /\ Target = x
    BY <1>1, <1>4, <1>6, <1>9
  <2>2. Pair[Rp + 1] = <<"B", "C">>
    BY <2>1 DEF Rp, Pair
  <2>3. Leaves([[cpu.r EXCEPT !["B"] = h] EXCEPT !["C"] = l], cpu.flags, 3)
    BY <2>1, <2>2, PairStep
  <2>4. QED
    BY <1>5, <1>9, <2>3 DEF Leaves, ShiftRun, ShiftAt, Wrap, Cpus, Registers
<1>10. CASE cpu.pc \in {259, 268, 277}
  <2>1. opcode = \h79
    BY <1>1, <1>4, <1>10
  <2>2. LeavesA(cpu.r["C"]) /\ cpu'.flags = cpu.flags
    BY <1>8, <2>1 DEF Leaves, LeavesA
  <2>3. cpu.pc \in 0 .. 999
    BY <1>10
  <2>4. /\ cpu'.pc = cpu.pc + 1 /\ ~cpu'.halted /\ mem' = mem /\ cpu'.flags = cpu.flags
        /\ cpu'.r["A"] = cpu.r["C"]
        /\ cpu'.r["B"] = cpu.r["B"] /\ cpu'.r["C"] = cpu.r["C"] /\ cpu'.r["D"] = cpu.r["D"]
        /\ cpu'.r["E"] = cpu.r["E"] /\ cpu'.r["H"] = cpu.r["H"] /\ cpu'.r["L"] = cpu.r["L"]
    BY <1>5, <2>2, <2>3, LeavesAll
  <2>5. CASE cpu.pc = 259
    BY <2>4, <2>5 DEF ShiftRun, ShiftAt
  <2>6. CASE cpu.pc = 268
    BY <2>4, <2>6 DEF ShiftRun, ShiftAt
  <2>7. CASE cpu.pc = 277
    BY <2>4, <2>7 DEF ShiftRun, ShiftAt
  <2>8. QED
    BY <1>10, <2>5, <2>6, <2>7
<1>11. CASE cpu.pc \in {262, 271, 274}
  <2>1. opcode = \h78
    BY <1>1, <1>4, <1>11
  <2>2. LeavesA(cpu.r["B"]) /\ cpu'.flags = cpu.flags
    BY <1>8, <2>1 DEF Leaves, LeavesA
  <2>3. cpu.pc \in 0 .. 999
    BY <1>11
  <2>4. /\ cpu'.pc = cpu.pc + 1 /\ ~cpu'.halted /\ mem' = mem /\ cpu'.flags = cpu.flags
        /\ cpu'.r["A"] = cpu.r["B"]
        /\ cpu'.r["B"] = cpu.r["B"] /\ cpu'.r["C"] = cpu.r["C"] /\ cpu'.r["D"] = cpu.r["D"]
        /\ cpu'.r["E"] = cpu.r["E"] /\ cpu'.r["H"] = cpu.r["H"] /\ cpu'.r["L"] = cpu.r["L"]
    BY <1>5, <2>2, <2>3, LeavesAll
  <2>5. CASE cpu.pc = 262
    BY <2>4, <2>5 DEF ShiftRun, ShiftAt
  <2>6. CASE cpu.pc = 271
    BY <2>4, <2>6 DEF ShiftRun, ShiftAt
  <2>7. CASE cpu.pc = 274
    BY <2>4, <2>7 DEF ShiftRun, ShiftAt
  <2>8. QED
    BY <1>11, <2>5, <2>6, <2>7
<1>12. CASE cpu.pc = 261
  <2>1. opcode = \h6F
    BY <1>1, <1>4, <1>12
  <2>2. Leaves([cpu.r EXCEPT !["L"] = cpu.r["A"]], cpu.flags, 1)
    BY <1>8, <2>1
  <2>3. cpu'.pc = 262 /\ ~cpu'.halted /\ cpu'.flags = cpu.flags /\ mem' = mem
    BY <1>5, <1>12, <2>2 DEF Leaves, Wrap
  <2>4. /\ cpu'.r["L"] = cpu.r["A"]
        /\ cpu'.r["A"] = cpu.r["A"] /\ cpu'.r["B"] = cpu.r["B"] /\ cpu'.r["C"] = cpu.r["C"]
        /\ cpu'.r["D"] = cpu.r["D"] /\ cpu'.r["E"] = cpu.r["E"] /\ cpu'.r["H"] = cpu.r["H"]
    BY <1>5, <2>2 DEF Leaves, Cpus, Registers
  <2>5. QED
    BY <1>12, <2>3, <2>4 DEF ShiftRun, ShiftAt
<1>13. CASE cpu.pc = 264
  <2>1. opcode = \h67
    BY <1>1, <1>4, <1>13
  <2>2. Leaves([cpu.r EXCEPT !["H"] = cpu.r["A"]], cpu.flags, 1)
    BY <1>8, <2>1
  <2>3. cpu'.pc = 265 /\ ~cpu'.halted /\ cpu'.flags = cpu.flags /\ mem' = mem
    BY <1>5, <1>13, <2>2 DEF Leaves, Wrap
  <2>4. /\ cpu'.r["H"] = cpu.r["A"]
        /\ cpu'.r["A"] = cpu.r["A"] /\ cpu'.r["B"] = cpu.r["B"] /\ cpu'.r["C"] = cpu.r["C"]
        /\ cpu'.r["D"] = cpu.r["D"] /\ cpu'.r["E"] = cpu.r["E"] /\ cpu'.r["L"] = cpu.r["L"]
    BY <1>5, <2>2 DEF Leaves, Cpus, Registers
  <2>5. QED
    BY <1>13, <2>3, <2>4 DEF ShiftRun, ShiftAt
<1>14. CASE cpu.pc = 270
  <2>1. opcode = \h5F
    BY <1>1, <1>4, <1>14
  <2>2. Leaves([cpu.r EXCEPT !["E"] = cpu.r["A"]], cpu.flags, 1)
    BY <1>8, <2>1
  <2>3. cpu'.pc = 271 /\ ~cpu'.halted /\ cpu'.flags = cpu.flags /\ mem' = mem
    BY <1>5, <1>14, <2>2 DEF Leaves, Wrap
  <2>4. /\ cpu'.r["E"] = cpu.r["A"]
        /\ cpu'.r["A"] = cpu.r["A"] /\ cpu'.r["B"] = cpu.r["B"] /\ cpu'.r["C"] = cpu.r["C"]
        /\ cpu'.r["D"] = cpu.r["D"] /\ cpu'.r["H"] = cpu.r["H"] /\ cpu'.r["L"] = cpu.r["L"]
    BY <1>5, <2>2 DEF Leaves, Cpus, Registers
  <2>5. QED
    BY <1>14, <2>3, <2>4 DEF ShiftRun, ShiftAt
<1>15. CASE cpu.pc = 273
  <2>1. opcode = \h57
    BY <1>1, <1>4, <1>15
  <2>2. Leaves([cpu.r EXCEPT !["D"] = cpu.r["A"]], cpu.flags, 1)
    BY <1>8, <2>1
  <2>3. cpu'.pc = 274 /\ ~cpu'.halted /\ cpu'.flags = cpu.flags /\ mem' = mem
    BY <1>5, <1>15, <2>2 DEF Leaves, Wrap
  <2>4. /\ cpu'.r["D"] = cpu.r["A"]
        /\ cpu'.r["A"] = cpu.r["A"] /\ cpu'.r["B"] = cpu.r["B"] /\ cpu'.r["C"] = cpu.r["C"]
        /\ cpu'.r["E"] = cpu.r["E"] /\ cpu'.r["H"] = cpu.r["H"] /\ cpu'.r["L"] = cpu.r["L"]
    BY <1>5, <2>2 DEF Leaves, Cpus, Registers
  <2>5. QED
    BY <1>15, <2>3, <2>4 DEF ShiftRun, ShiftAt
<1>16. CASE cpu.pc = 276
  <2>1. opcode = \h47
    BY <1>1, <1>4, <1>16
  <2>2. Leaves([cpu.r EXCEPT !["B"] = cpu.r["A"]], cpu.flags, 1)
    BY <1>8, <2>1
  <2>3. cpu'.pc = 277 /\ ~cpu'.halted /\ cpu'.flags = cpu.flags /\ mem' = mem
    BY <1>5, <1>16, <2>2 DEF Leaves, Wrap
  <2>4. /\ cpu'.r["B"] = cpu.r["A"]
        /\ cpu'.r["A"] = cpu.r["A"] /\ cpu'.r["C"] = cpu.r["C"] /\ cpu'.r["D"] = cpu.r["D"]
        /\ cpu'.r["E"] = cpu.r["E"] /\ cpu'.r["H"] = cpu.r["H"] /\ cpu'.r["L"] = cpu.r["L"]
    BY <1>5, <2>2 DEF Leaves, Cpus, Registers
  <2>5. QED
    BY <1>16, <2>3, <2>4 DEF ShiftRun, ShiftAt
<1>17. CASE cpu.pc = 279
  <2>1. opcode = \h4F
    BY <1>1, <1>4, <1>17
  <2>2. nc \in Byte
    <3>1. nc \in Int /\ 0 <= nc /\ nc <= 255
      BY <1>7
    <3>2. QED
      BY <3>1, ByteRange
  <2>3. Turns(nc)[1] = nc
    BY <2>2, TurnsBack
  <2> HIDE DEF nc
  <2>4. QED
    BY <1>5, <1>8, <1>17, <2>1, <2>3 DEF Leaves, ShiftRun, ShiftAt, Wrap, Cpus, Registers, nc
<1>18. CASE cpu.pc \in {260, 263}
  <2>1. LeavesA(255 - cpu.r["A"])
    BY <1>1, <1>4, <1>18, OtherStep
  <2>2. cpu.pc \in 0 .. 999
    BY <1>18
  <2>3. /\ cpu'.pc = cpu.pc + 1 /\ ~cpu'.halted /\ mem' = mem
        /\ cpu'.r["A"] = 255 - cpu.r["A"]
        /\ cpu'.r["B"] = cpu.r["B"] /\ cpu'.r["C"] = cpu.r["C"] /\ cpu'.r["D"] = cpu.r["D"]
        /\ cpu'.r["E"] = cpu.r["E"] /\ cpu'.r["H"] = cpu.r["H"] /\ cpu'.r["L"] = cpu.r["L"]
    BY <1>5, <2>1, <2>2, LeavesAll
  <2>4. CASE cpu.pc = 260
    BY <2>3, <2>4 DEF ShiftRun, ShiftAt
  <2>5. CASE cpu.pc = 263
    BY <2>3, <2>5 DEF ShiftRun, ShiftAt
  <2>6. QED
    BY <1>18, <2>4, <2>5
<1>19. CASE cpu.pc = 265
  <2> DEFINE w == Wrap(Word(cpu.r["H"], cpu.r["L"]) + 1)
  <2>1. Leaves([[cpu.r EXCEPT !["H"] = Hi(w)] EXCEPT !["L"] = Lo(w)], cpu.flags, 1)
    BY <1>1, <1>4, <1>19, OtherStep
  <2>2. cpu.r["H"] = 255 - h /\ cpu.r["L"] = 255 - l /\ cpu.r["B"] = h /\ cpu.r["C"] = l
    BY <1>19 DEF ShiftRun, ShiftAt
  <2>3. w = (-x) % 65536
    <3>1. x = 256 * h + l
      BY <1>6 DEF Word
    <3>2. 256 * (255 - h) + (255 - l) + 1 = 65536 - x
      BY <1>7, <3>1
    <3>3. ((65536 - x) % 65536) = (-x) % 65536
      BY <1>7, <3>1
    <3>4. QED
      BY <2>2, <3>2, <3>3 DEF Word, Wrap
  <2>4. Word(Hi(w), Lo(w)) = w
    <3>1. w \in Address
      BY <2>3, AddressRange, Widths
    <3>2. QED
      BY <3>1, WordBytes
  <2> HIDE DEF w
  <2>5. /\ cpu'.pc = 266 /\ ~cpu'.halted /\ mem' = mem /\ cpu'.r["H"] = Hi(w) /\ cpu'.r["L"] = Lo(w)
        /\ cpu'.r["B"] = cpu.r["B"] /\ cpu'.r["C"] = cpu.r["C"]
    BY <1>5, <1>19, <2>1 DEF Leaves, Wrap, Cpus, Registers
  <2>6. QED
    BY <2>2, <2>3, <2>4, <2>5 DEF ShiftRun, ShiftAt
<1>20. CASE cpu.pc = 266
  <2>1. Leaves(cpu.r, cpu.flags \cup {"CY"}, 1)
    BY <1>1, <1>4, <1>20, OtherStep
  <2>2. QED
    BY <1>5, <1>20, <2>1 DEF Leaves, ShiftRun, ShiftAt, Wrap
<1>21. CASE cpu.pc = 267
  <2>1. opcode = \h3F /\ "CY" \in cpu.flags
    BY <1>1, <1>4, <1>21 DEF ShiftRun, ShiftAt
  <2>2. Leaves(cpu.r, cpu.flags \ {"CY"}, 1)
    BY <2>1, OtherStep
  <2>3. QED
    BY <1>5, <1>21, <2>2 DEF Leaves, ShiftRun, ShiftAt, Wrap
<1>22. CASE cpu.pc \in {269, 272}
  <2>1. /\ LeavesA(Lo(2 * cpu.r["A"]) + Bool("CY" \in cpu.flags))
        /\ "CY" \in cpu'.flags <=> cpu.r["A"] \div 128 = 1
    BY <1>1, <1>4, <1>22, RotateStep
  <2>2. (l \div 128) \in {0, 1}
    BY <1>7
  <2>3. CASE cpu.pc = 269
    <3>1. Bool("CY" \in cpu.flags) = 0 /\ cpu.r["A"] = l
      BY <2>3 DEF ShiftRun, ShiftAt, Bool
    <3>2. Lo(2 * l) + 0 = Lo(2 * l)
      BY <1>7 DEF Lo
    <3>3. LeavesA(Lo(2 * l)) /\ ("CY" \in cpu'.flags <=> l \div 128 = 1)
      BY <2>1, <3>1, <3>2
    <3>4. cpu.pc \in 0 .. 999
      BY <2>3
    <3>5. QED
      BY <1>5, <2>3, <3>3, <3>4, LeavesAll DEF ShiftRun, ShiftAt
  <2>4. CASE cpu.pc = 272
    <3>1. Bool("CY" \in cpu.flags) = l \div 128 /\ cpu.r["A"] = h
      BY <2>2, <2>4 DEF ShiftRun, ShiftAt, Bool
    <3>2. LeavesA(Lo(2 * h) + l \div 128) /\ ("CY" \in cpu'.flags <=> h \div 128 = 1)
      BY <2>1, <3>1
    <3>3. cpu.pc \in 0 .. 999
      BY <2>4
    <3>4. QED
      BY <1>5, <2>4, <3>2, <3>3, LeavesAll DEF ShiftRun, ShiftAt
  <2>5. QED
    BY <1>22, <2>3, <2>4
<1>23. CASE cpu.pc \in {275, 278}
  <2>1. /\ LeavesA(cpu.r["A"] \div 2 + 128 * Bool("CY" \in cpu.flags))
        /\ "CY" \in cpu'.flags <=> cpu.r["A"] % 2 = 1
    BY <1>1, <1>4, <1>23, RotateStep
  <2>2. (h \div 128) \in {0, 1} /\ (h % 2) \in {0, 1}
    BY <1>7
  <2>3. CASE cpu.pc = 275
    <3>1. Bool("CY" \in cpu.flags) = h \div 128 /\ cpu.r["A"] = h
      BY <2>2, <2>3 DEF ShiftRun, ShiftAt, Bool
    <3>2. LeavesA(h \div 2 + 128 * (h \div 128)) /\ ("CY" \in cpu'.flags <=> h % 2 = 1)
      BY <2>1, <3>1
    <3>3. cpu.pc \in 0 .. 999
      BY <2>3
    <3>4. QED
      BY <1>5, <2>3, <3>2, <3>3, LeavesAll DEF ShiftRun, ShiftAt
  <2>4. CASE cpu.pc = 278
    <3>1. Bool("CY" \in cpu.flags) = (h % 2) /\ cpu.r["A"] = l
      BY <2>2, <2>4 DEF ShiftRun, ShiftAt, Bool
    <3>2. LeavesA(nc)
      BY <2>1, <3>1
    <3>3. cpu.pc \in 0 .. 999
      BY <2>4
    <3>4. QED
      BY <1>5, <2>4, <3>2, <3>3, LeavesAll DEF ShiftRun, ShiftAt
  <2>5. QED
    BY <1>23, <2>3, <2>4
<1>24. nc \in Byte
  <2>1. nc \in Int /\ 0 <= nc /\ nc <= 255
    BY <1>7
  <2>2. QED
    BY <2>1, ByteRange
<1>25. CASE cpu.pc \in 280 .. 287
  <2> DEFINE k == cpu.pc - 279
  <2>1. k \in 1 .. 8 /\ cpu.pc = 279 + k /\ cpu.pc = 255 + (24 + k)
    BY <1>25
  <2> HIDE DEF k, nc
  <2>2. opcode = \h07
    <3>1. 24 + k \in 1 .. 43 /\ 24 + k \in 25 .. 32
      BY <2>1
    <3>2. QED
      BY <1>2, <1>4, <2>1, <3>1
  <2>3. LeavesA(Left(cpu.r["A"]))
    BY <2>2, RotateStep
  <2>4. cpu.r["A"] = Turns(nc)[k]
    BY <1>25 DEF ShiftRun, ShiftAt, k, nc
  <2>5. Left(Turns(nc)[k]) = Turns(nc)[k + 1]
    BY <1>24, <2>1, TurnsBack
  <2>6. /\ cpu'.pc = 280 + k /\ ~cpu'.halted /\ mem' = mem /\ cpu'.r["A"] = Turns(nc)[k + 1]
        /\ \A q \in Registers \ {"A"} : cpu'.r[q] = cpu.r[q]
    BY <1>5, <2>1, <2>3, <2>4, <2>5 DEF LeavesA, Wrap, Cpus, Registers
  <2>7. cpu'.pc \in 280 .. 288 /\ cpu'.pc - 279 = k + 1
    BY <2>1, <2>6
  <2>8. QED
    BY <1>25, <2>6, <2>7 DEF ShiftRun, ShiftAt, Registers, nc
<1>26. CASE cpu.pc \in 288 .. 295
  <2> DEFINE k == 296 - cpu.pc
  <2>1. k \in 1 .. 8 /\ cpu.pc = 296 - k /\ cpu.pc = 255 + (41 - k)
    BY <1>26
  <2> HIDE DEF k, nc
  <2>2. opcode = \h0F
    <3>1. 41 - k \in 1 .. 43 /\ 41 - k \in 33 .. 40
      BY <2>1
    <3>2. QED
      BY <1>2, <1>4, <2>1, <3>1
  <2>3. LeavesA(Right(cpu.r["A"]))
    BY <2>2, RotateStep
  <2>4. cpu.r["A"] = Turns(nc)[k + 1]
    <3>1. k + 1 = 297 - cpu.pc /\ (cpu.pc = 288 => cpu.pc - 279 = k + 1)
      BY <2>1
    <3>2. QED
      BY <1>26, <3>1 DEF ShiftRun, ShiftAt, nc
  <2>5. Right(Turns(nc)[k + 1]) = Turns(nc)[k]
    BY <1>24, <2>1, TurnsBack
  <2>6. /\ cpu'.pc = 297 - k /\ ~cpu'.halted /\ mem' = mem /\ cpu'.r["A"] = Turns(nc)[k]
        /\ \A q \in Registers \ {"A"} : cpu'.r[q] = cpu.r[q]
    BY <1>5, <2>1, <2>3, <2>4, <2>5 DEF LeavesA, Wrap, Cpus, Registers
  <2>7. cpu'.pc \in 288 .. 296 /\ 297 - cpu'.pc = k
    BY <2>1, <2>6
  <2>8. QED
    BY <1>26, <2>6, <2>7 DEF ShiftRun, ShiftAt, Registers, nc
<1>27. CASE cpu.pc \in {296, 297}
  <2>1. /\ cpu'.r = cpu.r /\ cpu'.pc = Wrap(cpu.pc + 1)
        /\ cpu'.halted = cpu.halted /\ mem' = mem
    BY <1>1, <1>4, <1>27, OtherStep
  <2>2. Turns(nc)[1] = nc
    BY <1>24, TurnsBack
  <2> HIDE DEF nc
  <2>3. cpu.r["A"] = nc
    BY <1>27, <2>2 DEF ShiftRun, ShiftAt, nc
  <2>4. cpu'.pc \in 297 .. 299 /\ cpu'.pc # 299 /\ ~cpu'.halted /\ cpu'.r = cpu.r /\ mem' = mem
    BY <1>5, <1>27, <2>1 DEF Wrap
  <2>5. QED
    BY <1>27, <2>3, <2>4 DEF ShiftRun, ShiftAt, nc
<1>28. CASE cpu.pc = 298
  <2>1. opcode = \h76
    BY <1>1, <1>4, <1>28
  <2>2. QED
    BY <1>5, <1>28, <2>1, HaltStep DEF ShiftRun, ShiftAt, Wrap
<1>29. \/ cpu.pc \in 280 .. 287 \/ cpu.pc \in 288 .. 295 \/ cpu.pc \in {256, 296, 297, 298}
       \/ cpu.pc \in 259 .. 279
  BY <1>5 DEF ShiftRun, ShiftAt
<1>30. QED
  BY <1>9, <1>10, <1>11, <1>12, <1>13, <1>14, <1>15, <1>16, <1>17, <1>18, <1>19, <1>20, <1>21,
     <1>22, <1>23, <1>25, <1>26, <1>27, <1>28, <1>29

LEMMA ShiftEnd ==
    ASSUME NEW x \in Address, ShiftRun(x), cpu.halted
    PROVE  /\ get_hl(cpu) = (-x) % 65536
           /\ get_rp(cpu, 1) = Wrap(2 * x)
           /\ get_rp(cpu, 0) = 32768 * (x \div 32768) + x \div 2
           /\ cpu.r["A"] = cpu.r["C"]
<1> DEFINE h == Hi(x)
           l == Lo(x)
<1>1. /\ Word(cpu.r["H"], cpu.r["L"]) = (-x) % 65536
      /\ cpu.r["D"] = Lo(2 * h) + l \div 128 /\ cpu.r["E"] = Lo(2 * l)
      /\ cpu.r["B"] = h \div 2 + 128 * (h \div 128) /\ cpu.r["C"] = l \div 2 + 128 * (h % 2)
      /\ cpu.r["A"] = l \div 2 + 128 * (h % 2)
  BY DEF ShiftRun, ShiftAt
<1>2. x = 256 * h + l /\ h \in Byte /\ l \in Byte
  BY WordBytes DEF Word
<1>3. h \in Int /\ 0 <= h /\ h <= 255 /\ l \in Int /\ 0 <= l /\ l <= 255
  BY <1>2, ByteRange
<1> HIDE DEF h, l
<1>4. Word(Lo(2 * h) + l \div 128, Lo(2 * l)) = Wrap(2 * x)
  <2>1. Lo(2 * l) = 2 * l - 256 * (l \div 128)
    BY <1>3 DEF Lo
  <2>2. PICK n \in {0, 1} : Lo(2 * h) = 2 * h - 256 * n
    BY <1>3 DEF Lo
  <2>3. 0 <= Lo(2 * h) /\ Lo(2 * h) <= 254 /\ 0 <= Lo(2 * l) /\ Lo(2 * l) <= 254
        /\ (l \div 128) \in {0, 1}
    BY <1>3 DEF Lo
  <2>4. 256 * (Lo(2 * h) + l \div 128) + Lo(2 * l) = 2 * x - 65536 * n
    BY <1>2, <1>3, <2>1, <2>2
  <2>5. 0 <= 2 * x - 65536 * n /\ 2 * x - 65536 * n <= 65535
    BY <1>3, <2>1, <2>2, <2>3, <2>4
  <2>6. ((2 * x) % 65536) = 2 * x - 65536 * n
    BY <1>2, <1>3, <2>5
  <2>7. QED
    BY <2>4, <2>6 DEF Word, Wrap
<1>5. Word(h \div 2 + 128 * (h \div 128), l \div 2 + 128 * (h % 2))
        = 32768 * (x \div 32768) + x \div 2
  <2>1. (x \div 32768) = (h \div 128)
    BY <1>2, <1>3
  <2>2. (x \div 2) = 128 * h + l \div 2
    BY <1>2, <1>3
  <2>3. h = 2 * (h \div 2) + (h % 2)
    BY <1>3
  <2>4. QED
    BY <1>3, <2>1, <2>2, <2>3 DEF Word
<1>6. QED
  BY <1>1, <1>4, <1>5, PairWords

-----------------------------------------------------------------------------
(* Every run of a program that computes.                                   *)

LEMMA MCTypes == MCSpec => []CpuTypeOK
<1>1. MCInit => CpuTypeOK
  <2> SUFFICES ASSUME MCInit
               PROVE  CpuTypeOK
    OBVIOUS
  <2>1. cpu \in Cpus
    BY InitialCpu DEF MCInit
  <2>2. mem \in Images
    BY MCCpuAssumption DEF MCInit, MCImages
  <2>3. QED
    BY <2>1, <2>2, CpuAssumption DEF CpuTypeOK
<1>2. CpuTypeOK /\ [MCNext]_<<vars, task>> => CpuTypeOK'
  <2>1. [MCNext]_<<vars, task>> => [Next]_vars
    BY DEF MCNext, vars
  <2>2. QED
    BY <2>1, TypeStep
<1>3. QED
  BY <1>1, <1>2, PTL DEF MCSpec

ArithmeticKinds == {"sum", "diff", "decimal", "logic", "shift"}

\* The program is one that computes, and the CPU is on its course.
SumCourse     == \E x, y \in Address : task = SumTask(x, y) /\ SumRun(x, y)
DadCourse     == \E x, y \in Address : task = DadTask(x, y) /\ DadRun(x, y)
DiffCourse    == \E x, y \in Address : task = DiffTask(x, y) /\ DiffRun(x, y)
DecimalCourse == \E h, l, i, m \in 0 .. 99 : /\ task = DecimalTask(h, l, i, m)
                                             /\ DecimalRun(h, l, i, m)
LogicCourse   == \E x, y \in Byte : task = LogicTask(x, y) /\ LogicRun(x, y)
ShiftCourse   == \E x \in Address : task = ShiftTask(x) /\ ShiftRun(x)

OnCourse == SumCourse \/ DadCourse \/ DiffCourse \/ DecimalCourse \/ LogicCourse \/ ShiftCourse

CourseInv == task.kind \in ArithmeticKinds => mem = task.image /\ OnCourse

\* Which programs there are of each kind.
LEMMA Kinds ==
    ASSUME NEW t \in Tasks, t.kind \in ArithmeticKinds
    PROVE  \/ \E x, y \in Address : t = SumTask(x, y) \/ t = DadTask(x, y) \/ t = DiffTask(x, y)
           \/ \E h, l, i, m \in 0 .. 99 : t = DecimalTask(h, l, i, m)
           \/ \E x, y \in Byte : t = LogicTask(x, y)
           \/ \E x \in Address : t = ShiftTask(x)
<1>1. Operands \subseteq Address
  <2> SUFFICES ASSUME NEW h \in Bytes, NEW l \in Bytes
               PROVE  Word(h, l) \in Address
    BY DEF Operands
  <2>1. QED
    BY MCCpuAssumption, BytesWord
<1>2. CASE t \in WordTasks
  <2>1. \/ \E x, y \in Operands : t = SumTask(x, y)
        \/ \E x, y \in Operands : t = DiffTask(x, y)
        \/ \E x, y \in Operands : t = DadTask(x, y)
    BY <1>2 DEF WordTasks
  <2>2. QED
    BY <1>1, <2>1
<1>3. CASE t \in DecimalTasks
  <2>1. \E h, i, l, m \in Digits : t = DecimalTask(h, l, i, m)
    BY <1>3 DEF DecimalTasks
  <2>2. \A x \in Digits : x \in 0 .. 99
    BY MCCpuAssumption
  <2>3. \E h, l, i, m \in 0 .. 99 : t = DecimalTask(h, l, i, m)
    BY <2>1, <2>2, Zenon
  <2>4. QED
    BY <2>3, Zenon
<1>4. CASE t \in LogicTasks
  <2>1. \E x \in Byte, y \in Bytes : t = LogicTask(x, y)
    BY <1>4 DEF LogicTasks
  <2>2. QED
    BY <2>1, MCCpuAssumption
<1>5. CASE t \in ShiftTasks
  <2>1. \E x \in Operands : t = ShiftTask(x)
    BY <1>5 DEF ShiftTasks
  <2>2. QED
    BY <1>1, <2>1
<1>6. CASE t \in BranchTasks
  <2>1. \E k, x, y : t = JumpTask(k, x, y) \/ t = CallTask(k, x, y) \/ t = ReturnTask(k, x, y)
    BY <1>6 DEF BranchTasks
  <2>2. t.kind \in {"taken", "returned"}
    BY <2>1 DEF JumpTask, CallTask, ReturnTask, Task
  <2>3. QED
    BY <2>2 DEF ArithmeticKinds
<1>7. CASE t \in StatusTasks
  <2>1. \E a, f : t = StatusTask(a, f)
    BY <1>7 DEF StatusTasks
  <2>2. t.kind = "status"
    BY <2>1 DEF StatusTask, Task
  <2>3. QED
    BY <2>2 DEF ArithmeticKinds
<1>8. CASE t \in StackTasks
  <2>1. PICK sp, e, l : t = StackTask(sp, e, l)
    BY <1>8 DEF StackTasks
  <2>2. t.kind = "stack"
    BY <2>1 DEF StackTask
  <2>3. QED
    BY <2>2 DEF ArithmeticKinds
<1>9. CASE t \in MemoryTasks
  <2>1. \E x, p : t = MemoryTask(x, p)
    BY <1>9 DEF MemoryTasks
  <2>2. t.kind = "memory"
    BY <2>1 DEF MemoryTask, Task
  <2>3. QED
    BY <2>2 DEF ArithmeticKinds
<1>10. CASE t \in LdaxTasks
  <2>1. \E x \in Byte : t = LdaxTask(x, \h2000)
    BY <1>10 DEF LdaxTasks
  <2>2. t.kind = "ldax"
    BY <2>1 DEF LdaxTask, Task
  <2>3. QED
    BY <2>2 DEF ArithmeticKinds
<1>11. \/ t \in WordTasks \/ t \in DecimalTasks \/ t \in LogicTasks \/ t \in ShiftTasks
       \/ t \in BranchTasks \/ t \in StatusTasks \/ t \in StackTasks \/ t \in MemoryTasks
       \/ t \in LdaxTasks
  BY MCCpuAssumption DEF AllTasks
<1>12. QED
  BY <1>2, <1>3, <1>4, <1>5, <1>6, <1>7, <1>8, <1>9, <1>10, <1>11, Zenon

\* A program starts on its course.
LEMMA CourseStart ==
    ASSUME MCInit, task.kind \in ArithmeticKinds
    PROVE  OnCourse
<1>1. task \in Tasks /\ cpu.pc = 256 /\ ~cpu.halted
  BY DEF MCInit, cpu_init
<1>2. /\ \A x, y : SumRun(x, y) /\ DiffRun(x, y) /\ DadRun(x, y) /\ LogicRun(x, y)
      /\ \A h, l, i, m : DecimalRun(h, l, i, m)
      /\ \A x : ShiftRun(x)
  <2>2. \A x, y : SumRun(x, y) /\ DiffRun(x, y)
    BY <1>1 DEF SumRun, DiffRun, BytesRun
  <2>3. \A x, y : DadRun(x, y) /\ LogicRun(x, y)
    BY <1>1 DEF DadRun, LogicRun
  <2>4. \A h, l, i, m : DecimalRun(h, l, i, m)
    BY <1>1 DEF DecimalRun
  <2>5. \A x : ShiftRun(x)
    BY <1>1 DEF ShiftRun, ShiftAt
  <2>6. QED
    BY <2>2, <2>3, <2>4, <2>5, Zenon
<1>3. \/ \E x, y \in Address : task = SumTask(x, y) \/ task = DadTask(x, y) \/ task = DiffTask(x, y)
      \/ \E h, l, i, m \in 0 .. 99 : task = DecimalTask(h, l, i, m)
      \/ \E x, y \in Byte : task = LogicTask(x, y)
      \/ \E x \in Address : task = ShiftTask(x)
  BY <1>1, Kinds
<1>4. ASSUME NEW x \in Address, NEW y \in Address,
             task = SumTask(x, y) \/ task = DadTask(x, y) \/ task = DiffTask(x, y)
      PROVE  SumCourse \/ DadCourse \/ DiffCourse
  BY <1>2, <1>4, Zenon DEF SumCourse, DadCourse, DiffCourse
<1>5. ASSUME NEW h \in 0 .. 99, NEW l \in 0 .. 99, NEW i \in 0 .. 99, NEW m \in 0 .. 99,
             task = DecimalTask(h, l, i, m)
      PROVE  DecimalCourse
  <2>1. DecimalRun(h, l, i, m)
    BY <1>2
  <2>2. QED
    BY <1>5, <2>1 DEF DecimalCourse
<1>6. ASSUME NEW x \in Byte, NEW y \in Byte, task = LogicTask(x, y)
      PROVE  LogicCourse
  BY <1>2, <1>6, Zenon DEF LogicCourse
<1>7. ASSUME NEW x \in Address, task = ShiftTask(x)
      PROVE  ShiftCourse
  BY <1>2, <1>7, Zenon DEF ShiftCourse
<1>8. QED
  BY <1>3, <1>4, <1>5, <1>6, <1>7, Zenon DEF OnCourse

LEMMA CourseStays ==
    ASSUME UNCHANGED vars, task' = task, OnCourse
    PROVE  OnCourse'
<1>1. cpu' = cpu
  BY DEF vars
<1>2. SumCourse => SumCourse'
  BY <1>1 DEF SumCourse, SumRun, BytesRun
<1>3. DadCourse => DadCourse'
  BY <1>1 DEF DadCourse, DadRun
<1>4. DiffCourse => DiffCourse'
  BY <1>1 DEF DiffCourse, DiffRun, BytesRun
<1>5. ASSUME DecimalCourse
      PROVE  DecimalCourse'
  <2>1. PICK h \in 0 .. 99, l \in 0 .. 99, i \in 0 .. 99, m \in 0 .. 99 :
             task = DecimalTask(h, l, i, m) /\ DecimalRun(h, l, i, m)
    BY <1>5 DEF DecimalCourse
  <2>2. DecimalRun(h, l, i, m)'
    BY <1>1, <2>1 DEF DecimalRun, Added
  <2>3. QED
    BY <2>1, <2>2 DEF DecimalCourse
<1>6. LogicCourse => LogicCourse'
  BY <1>1 DEF LogicCourse, LogicRun
<1>7. ASSUME ShiftCourse
      PROVE  ShiftCourse'
  <2>1. PICK x \in Address : task = ShiftTask(x) /\ ShiftRun(x)
    BY <1>7 DEF ShiftCourse
  <2>2. ShiftRun(x)'
    BY <1>1, <2>1, Zenon DEF ShiftRun
  <2>3. QED
    BY <2>1, <2>2 DEF ShiftCourse
<1>8. QED
  BY <1>2, <1>3, <1>4, <1>5, <1>6, <1>7, Zenon DEF OnCourse

\* A step of the CPU keeps to the course.
LEMMA CourseStep ==
    ASSUME CpuTypeOK, cpu_step, task' = task, mem = task.image, OnCourse
    PROVE  OnCourse' /\ mem' = mem
<1>1. CASE SumCourse
  <2>1. PICK x \in Address, y \in Address : task = SumTask(x, y) /\ SumRun(x, y)
    BY <1>1 DEF SumCourse
  <2>2. SumRun(x, y)' /\ mem' = mem
    BY <2>1, SumStep
  <2>3. SumCourse'
    BY <2>1, <2>2 DEF SumCourse
  <2>4. QED
    BY <2>2, <2>3 DEF OnCourse
<1>2. CASE DadCourse
  <2>1. PICK x \in Address, y \in Address : task = DadTask(x, y) /\ DadRun(x, y)
    BY <1>2 DEF DadCourse
  <2>2. DadRun(x, y)' /\ mem' = mem
    BY <2>1, DadStep
  <2>3. DadCourse'
    BY <2>1, <2>2 DEF DadCourse
  <2>4. QED
    BY <2>2, <2>3 DEF OnCourse
<1>3. CASE DiffCourse
  <2>1. PICK x \in Address, y \in Address : task = DiffTask(x, y) /\ DiffRun(x, y)
    BY <1>3 DEF DiffCourse
  <2>2. DiffRun(x, y)' /\ mem' = mem
    BY <2>1, DiffStep
  <2>3. DiffCourse'
    BY <2>1, <2>2 DEF DiffCourse
  <2>4. QED
    BY <2>2, <2>3 DEF OnCourse
<1>4. CASE DecimalCourse
  <2>1. PICK h \in 0 .. 99, l \in 0 .. 99, i \in 0 .. 99, m \in 0 .. 99 :
             task = DecimalTask(h, l, i, m) /\ DecimalRun(h, l, i, m)
    BY <1>4 DEF DecimalCourse
  <2>2. DecimalRun(h, l, i, m)' /\ mem' = mem
    BY <2>1, DecimalStep
  <2>3. DecimalCourse'
    BY <2>1, <2>2 DEF DecimalCourse
  <2>4. QED
    BY <2>2, <2>3 DEF OnCourse
<1>5. CASE LogicCourse
  <2>1. PICK x \in Byte, y \in Byte : task = LogicTask(x, y) /\ LogicRun(x, y)
    BY <1>5 DEF LogicCourse
  <2>2. LogicRun(x, y)' /\ mem' = mem
    BY <2>1, LogicStep
  <2>3. LogicCourse'
    BY <2>1, <2>2 DEF LogicCourse
  <2>4. QED
    BY <2>2, <2>3 DEF OnCourse
<1>6. CASE ShiftCourse
  <2>1. PICK x \in Address : task = ShiftTask(x) /\ ShiftRun(x)
    BY <1>6 DEF ShiftCourse
  <2>2. ShiftRun(x)' /\ mem' = mem
    BY <2>1, ShiftStep
  <2>3. ShiftCourse'
    BY <2>1, <2>2 DEF ShiftCourse
  <2>4. QED
    BY <2>2, <2>3 DEF OnCourse
<1>7. QED
  BY <1>1, <1>2, <1>3, <1>4, <1>5, <1>6 DEF OnCourse

\* At the end of the course is the result.
LEMMA CourseEnd ==
    ASSUME OnCourse, cpu.halted
    PROVE  ComputesArithmetic
<1>1. CASE SumCourse
  <2>1. PICK x \in Address, y \in Address : task = SumTask(x, y) /\ SumRun(x, y)
    BY <1>1 DEF SumCourse
  <2>2. get_rp(cpu, 0) = Wrap(x + y) /\ ("CY" \in cpu.flags <=> x + y > 65535)
    BY <2>1, SumEnd
  <2>3. task.kind = "sum" /\ task.x = x /\ task.y = y
    BY <2>1 DEF SumTask, Task
  <2>4. WordArithmetic
    BY <2>2, <2>3 DEF WordArithmetic
  <2>5. DecimalArithmetic /\ LogicAddsUp /\ ShiftsWords
    BY <2>3 DEF DecimalArithmetic, LogicAddsUp, ShiftsWords
  <2>6. QED
    BY <2>4, <2>5 DEF ComputesArithmetic
<1>2. CASE DiffCourse
  <2>1. PICK x \in Address, y \in Address : task = DiffTask(x, y) /\ DiffRun(x, y)
    BY <1>2 DEF DiffCourse
  <2>2. get_rp(cpu, 0) = (x - y) % 65536 /\ ("CY" \in cpu.flags <=> x < y)
    BY <2>1, DiffEnd
  <2>3. task.kind = "diff" /\ task.x = x /\ task.y = y
    BY <2>1 DEF DiffTask, Task
  <2>4. WordArithmetic
    BY <2>2, <2>3 DEF WordArithmetic
  <2>5. DecimalArithmetic /\ LogicAddsUp /\ ShiftsWords
    BY <2>3 DEF DecimalArithmetic, LogicAddsUp, ShiftsWords
  <2>6. QED
    BY <2>4, <2>5 DEF ComputesArithmetic
<1>3. CASE DecimalCourse
  <2>1. PICK h \in 0 .. 99, l \in 0 .. 99, i \in 0 .. 99, m \in 0 .. 99 :
             task = DecimalTask(h, l, i, m) /\ DecimalRun(h, l, i, m)
    BY <1>3 DEF DecimalCourse
  <2>2. DecimalResult(task.x + task.y)
    <3>1. task.x = 100 * h + l /\ task.y = 100 * i + m
      BY <2>1 DEF DecimalTask, Task
    <3>2. DecimalResult(100 * h + l + (100 * i + m))
      <4>1. DecimalRun(h, l, i, m)
        BY <2>1
      <4>2. QED
        BY <4>1, DecimalEnd
    <3>3. QED
      BY <3>1, <3>2
  <2>3. task.kind = "decimal"
    BY <2>1 DEF DecimalTask, Task
  <2>4. DecimalArithmetic
    BY <2>2, <2>3 DEF DecimalArithmetic, DecimalResult
  <2>5. WordArithmetic /\ LogicAddsUp /\ ShiftsWords
    BY <2>3 DEF WordArithmetic, LogicAddsUp, ShiftsWords
  <2>6. QED
    BY <2>4, <2>5 DEF ComputesArithmetic
<1>4. CASE LogicCourse
  <2>1. PICK x \in Byte, y \in Byte : task = LogicTask(x, y) /\ LogicRun(x, y)
    BY <1>4 DEF LogicCourse
  <2>2. /\ cpu.r["H"] = (x + y) % 256 /\ cpu.r["L"] = cpu.r["A"]
        /\ cpu.r["D"] <= x /\ cpu.r["D"] <= y
    BY <2>1, LogicEnd
  <2>3. task.kind = "logic" /\ task.x = x /\ task.y = y
    BY <2>1 DEF LogicTask, Task
  <2>4. LogicAddsUp
    BY <2>2, <2>3 DEF LogicAddsUp
  <2>5. WordArithmetic /\ DecimalArithmetic /\ ShiftsWords
    BY <2>3 DEF WordArithmetic, DecimalArithmetic, ShiftsWords
  <2>6. QED
    BY <2>4, <2>5 DEF ComputesArithmetic
<1>5. CASE ShiftCourse
  <2>1. PICK x \in Address : task = ShiftTask(x) /\ ShiftRun(x)
    BY <1>5 DEF ShiftCourse
  <2>2. /\ get_hl(cpu) = (-x) % 65536 /\ get_rp(cpu, 1) = Wrap(2 * x)
        /\ get_rp(cpu, 0) = 32768 * (x \div 32768) + x \div 2 /\ cpu.r["A"] = cpu.r["C"]
    BY <2>1, ShiftEnd
  <2>3. task.kind = "shift" /\ task.x = x
    BY <2>1 DEF ShiftTask, Task
  <2>4. ShiftsWords
    BY <2>2, <2>3 DEF ShiftsWords
  <2>5. WordArithmetic /\ DecimalArithmetic /\ LogicAddsUp
    BY <2>3 DEF WordArithmetic, DecimalArithmetic, LogicAddsUp
  <2>6. QED
    BY <2>4, <2>5 DEF ComputesArithmetic
<1>6. CASE DadCourse
  <2>1. PICK x \in Address, y \in Address : task = DadTask(x, y) /\ DadRun(x, y)
    BY <1>6 DEF DadCourse
  <2>2. get_rp(cpu, 0) = Wrap(x + y) /\ ("CY" \in cpu.flags <=> x + y > 65535)
    BY <2>1, DadEnd
  <2>3. task.kind = "sum" /\ task.x = x /\ task.y = y
    BY <2>1 DEF DadTask, Task
  <2>4. WordArithmetic
    BY <2>2, <2>3 DEF WordArithmetic
  <2>5. DecimalArithmetic /\ LogicAddsUp /\ ShiftsWords
    BY <2>3 DEF DecimalArithmetic, LogicAddsUp, ShiftsWords
  <2>6. QED
    BY <2>4, <2>5 DEF ComputesArithmetic
<1>7. QED
  BY <1>1, <1>2, <1>3, <1>4, <1>5, <1>6 DEF OnCourse

\* On all operands the programs that add and subtract words and decimal
\* numbers, that put bytes together and that shift and negate words halt with
\* what arithmetic has for them.
THEOREM ComputesRight == MCSpec => []ComputesArithmetic
<1>1. MCInit => CourseInv
  BY CourseStart DEF CourseInv, MCInit
<1>2. CpuTypeOK /\ CourseInv /\ [MCNext]_<<vars, task>> => CourseInv'
  <2> SUFFICES ASSUME CpuTypeOK, CourseInv, [MCNext]_<<vars, task>>,
                      task.kind \in ArithmeticKinds
               PROVE  CourseInv'
    BY DEF CourseInv, MCNext, vars
  <2>1. task' = task
    BY DEF MCNext
  <2>2. mem = task.image /\ OnCourse
    BY DEF CourseInv
  <2>3. CASE cpu_step
    <3>1. OnCourse' /\ mem' = mem
      BY <2>1, <2>2, <2>3, CourseStep
    <3>2. QED
      BY <2>1, <2>2, <3>1 DEF CourseInv
  <2>4. CASE UNCHANGED vars
    <3>1. OnCourse'
      BY <2>1, <2>2, <2>4, CourseStays
    <3>2. QED
      BY <2>1, <2>2, <2>4, <3>1 DEF CourseInv, vars
  <2>5. QED
    BY <2>3, <2>4 DEF MCNext, Next, Halted, vars
<1>3. CourseInv => ComputesArithmetic
  <2>1. CASE task.kind \in ArithmeticKinds /\ cpu.halted
    BY <2>1, CourseEnd DEF CourseInv
  <2>2. CASE ~(task.kind \in ArithmeticKinds /\ cpu.halted)
    BY <2>2 DEF ComputesArithmetic, WordArithmetic, DecimalArithmetic, LogicAddsUp, ShiftsWords,
                ArithmeticKinds
  <2>3. QED
    BY <2>1, <2>2
<1>4. QED
  BY <1>1, <1>2, <1>3, MCTypes, PTL DEF MCSpec
-----------------------------------------------------------------------------
(* The stack of a program.                                                 *)

\* The cell n below the address where the stack starts.
Cell(s, n) == (s - n) % 65536

\* Where stacks start: up to nine words below it there is no program.
Clear(s) == s \in Address /\ (s <= 8 \/ s >= 768)

Depths == 0 .. 99

LEMMA DepthRange == \A n : n \in Depths <=> n \in Int /\ 0 <= n /\ n <= 99
BY UpToBound DEF Depths

\* The n-th cell below the start of the stack, which may be past the end of the memory.
LEMMA Cells ==
    ASSUME NEW s \in Address, NEW n \in Depths
    PROVE  Cell(s, n) = IF s >= n THEN s - n ELSE s - n + 65536
<1>1. s \in Int /\ 0 <= s /\ s <= 65535 /\ n \in Int /\ 0 <= n /\ n <= 99
  BY AddressRange, DepthRange
<1>2. QED
  BY <1>1 DEF Cell

\* Cells are told apart by their depth, follow each other, and lie clear of
\* the programs.
LEMMA CellsApart ==
    ASSUME NEW s \in Address, NEW n \in Depths
    PROVE  /\ Cell(s, n) \in Address
           /\ \A k \in Depths : Cell(s, k) = Cell(s, n) <=> k = n
           /\ ((Cell(s, n) - 1) % 65536) = Cell(s, n + 1)
           /\ ((Cell(s, n) - 2) % 65536) = Cell(s, n + 2)
           /\ Wrap(Cell(s, n + 2) + 2) = Cell(s, n)
           /\ Wrap(Cell(s, n + 1) + 1) = Cell(s, n)
           /\ Cell(s, 0) = s
<1>1. s \in Int /\ 0 <= s /\ s <= 65535 /\ n \in Int /\ 0 <= n /\ n <= 99
  BY AddressRange, DepthRange
<1>2. \A k \in Depths : Cell(s, k) = IF s >= k THEN s - k ELSE s - k + 65536
  BY Cells
<1>3. Cell(s, n + 1) = IF s >= n + 1 THEN s - n - 1 ELSE s - n + 65535
  BY <1>1 DEF Cell
<1>4. Cell(s, n + 2) = IF s >= n + 2 THEN s - n - 2 ELSE s - n + 65534
  BY <1>1 DEF Cell
<1>5. Cell(s, n) \in Address
  BY <1>1, <1>2, AddressRange, DepthRange
<1>6. \A k \in Depths : Cell(s, k) = Cell(s, n) <=> k = n
  BY <1>1, <1>2, DepthRange
<1>7. Cell(s, 0) = s
  BY <1>1 DEF Cell
<1>8. ((Cell(s, n) - 1) % 65536) = Cell(s, n + 1) /\ ((Cell(s, n) - 2) % 65536) = Cell(s, n + 2)
  BY <1>1, <1>2, <1>3, <1>4, DepthRange
<1>9. Wrap(Cell(s, n + 2) + 2) = Cell(s, n) /\ Wrap(Cell(s, n + 1) + 1) = Cell(s, n)
  BY <1>1, <1>2, <1>3, <1>4, DepthRange DEF Wrap
<1>10. QED
  BY <1>5, <1>6, <1>7, <1>8, <1>9

\* The cells that nested routines use are not where the programs are.
LEMMA CellsClear ==
    ASSUME NEW s, Clear(s), NEW n \in 1 .. 18
    PROVE  ~(8 <= Cell(s, n) /\ Cell(s, n) <= 749)
<1>1. s \in Address /\ n \in Depths
  BY DepthRange DEF Clear
<1>2. s \in Int /\ 0 <= s /\ s <= 65535
  BY <1>1, AddressRange
<1>3. QED
  BY <1>1, <1>2, Cells DEF Clear

\* What is read after a write, a push.
LEMMA ReadsWritten ==
    ASSUME NEW m, NEW a, NEW v, NEW x
    PROVE  mem_read(mem_write(m, a, v), x) = IF x = a THEN v ELSE mem_read(m, x)
BY DEF mem_read, mem_write

\* The first n words that were pushed are those of f.
Words(m, s, f, n) == \A k \in 1 .. n : /\ mem_read(m, Cell(s, 2 * k - 1)) = Hi(f[k])
                                       /\ mem_read(m, Cell(s, 2 * k)) = Lo(f[k])

\* They are all there is on the stack whose top is sp.
Stacked(sp, m, s, f, n) == sp = Cell(s, 2 * n) /\ Words(m, s, f, n)

\* What is read after a word was pushed.
LEMMA ReadsPushed ==
    ASSUME NEW m, NEW s \in Address, NEW d \in Depths, NEW w, NEW x
    PROVE  mem_read(push_cells(m, Cell(s, d), w), x)
           = IF x = Cell(s, d + 2) THEN Lo(w)
             ELSE IF x = Cell(s, d + 1) THEN Hi(w) ELSE mem_read(m, x)
<1>1. push_cells(m, Cell(s, d), w)
      = mem_write(mem_write(m, Cell(s, d + 1), Hi(w)), Cell(s, d + 2), Lo(w))
  BY CellsApart DEF push_cells
<1>2. QED
  BY <1>1, ReadsWritten

\* A push puts a word on top of the others, a pop takes it from there.
LEMMA PushesWord ==
    ASSUME NEW m, NEW s \in Address, NEW f, NEW n \in 0 .. 8, NEW w, NEW sp, Stacked(sp, m, s, f, n)
    PROVE  f[n + 1] = w => Stacked(push_sp(sp), push_cells(m, sp, w), s, f, n + 1)
<1> DEFINE m2 == push_cells(m, Cell(s, 2 * n), w)
<1>0. sp = Cell(s, 2 * n) /\ Words(m, s, f, n)
  BY DEF Stacked
<1>1. \A x : mem_read(m2, x) = IF x = Cell(s, 2 * n + 2) THEN Lo(w)
                               ELSE IF x = Cell(s, 2 * n + 1) THEN Hi(w) ELSE mem_read(m, x)
  <2>1. 2 * n \in Depths
    BY DepthRange
  <2>2. QED
    BY <2>1, ReadsPushed
<1> HIDE DEF m2
<1>2. \A j, k \in Depths : Cell(s, j) = Cell(s, k) <=> j = k
  BY CellsApart
<1>3. \A k \in 1 .. n : /\ Cell(s, 2 * k - 1) # Cell(s, 2 * n + 1)
                        /\ Cell(s, 2 * k - 1) # Cell(s, 2 * n + 2)
                        /\ Cell(s, 2 * k) # Cell(s, 2 * n + 1)
                        /\ Cell(s, 2 * k) # Cell(s, 2 * n + 2)
  <2> SUFFICES ASSUME NEW k \in 1 .. n
               PROVE  /\ Cell(s, 2 * k - 1) # Cell(s, 2 * n + 1)
                      /\ Cell(s, 2 * k - 1) # Cell(s, 2 * n + 2)
                      /\ Cell(s, 2 * k) # Cell(s, 2 * n + 1)
                      /\ Cell(s, 2 * k) # Cell(s, 2 * n + 2)
    OBVIOUS
  <2>1. /\ 2 * k - 1 \in Depths /\ 2 * k \in Depths /\ 2 * n + 1 \in Depths /\ 2 * n + 2 \in Depths
        /\ 2 * k - 1 # 2 * n + 1 /\ 2 * k - 1 # 2 * n + 2 /\ 2 * k # 2 * n + 1 /\ 2 * k # 2 * n + 2
    BY DepthRange
  <2>2. QED
    BY <1>2, <2>1
<1>4. \A k \in 1 .. n : mem_read(m2, Cell(s, 2 * k - 1)) = Hi(f[k]) /\ mem_read(m2, Cell(s, 2 * k)) = Lo(f[k])
  BY <1>0, <1>1, <1>3 DEF Words
<1>5. /\ mem_read(m2, Cell(s, 2 * (n + 1) - 1)) = Hi(w)
      /\ mem_read(m2, Cell(s, 2 * (n + 1))) = Lo(w)
  <2>1. 2 * (n + 1) - 1 = 2 * n + 1 /\ 2 * (n + 1) = 2 * n + 2
    OBVIOUS
  <2>2. Cell(s, 2 * n + 1) # Cell(s, 2 * n + 2)
    <3>1. 2 * n + 1 \in Depths /\ 2 * n + 2 \in Depths /\ 2 * n + 1 # 2 * n + 2
      BY DepthRange
    <3>2. QED
      BY <1>2, <3>1
  <2>3. QED
    BY <1>1, <2>1, <2>2
<1>6. f[n + 1] = w => Words(m2, s, f, n + 1)
  <2> SUFFICES ASSUME f[n + 1] = w, NEW k \in 1 .. n + 1
               PROVE  mem_read(m2, Cell(s, 2 * k - 1)) = Hi(f[k]) /\ mem_read(m2, Cell(s, 2 * k)) = Lo(f[k])
    BY DEF Words
  <2>1. k \in 1 .. n \/ k = n + 1
    OBVIOUS
  <2>2. QED
    BY <1>4, <1>5, <2>1
<1>7. push_sp(Cell(s, 2 * n)) = Cell(s, 2 * n + 2)
  <2>1. 2 * n \in Depths
    BY DepthRange
  <2>2. QED
    BY <2>1, CellsApart DEF push_sp
<1>8. 2 * (n + 1) = 2 * n + 2
  OBVIOUS
<1>9. QED
  BY <1>0, <1>6, <1>7, <1>8 DEF Stacked, m2

\* The word pushed last is the one popped.
LEMMA PopsWord ==
    ASSUME NEW m, NEW s \in Address, NEW f, NEW n \in 1 .. 9, NEW sp, Stacked(sp, m, s, f, n),
           f[n] \in Address
    PROVE  pop_u16(m, sp) = f[n] /\ Stacked(pop_sp(sp), m, s, f, n - 1)
<1> DEFINE j == 2 * n - 1
           i == 2 * (n - 1)
<1>0. sp = Cell(s, 2 * n) /\ Words(m, s, f, n)
  BY DEF Stacked
<1>1. /\ j \in Depths /\ j + 1 = 2 * n /\ i \in Depths /\ i + 2 = 2 * n
  BY DepthRange
<1>2. Wrap(Cell(s, 2 * n) + 1) = Cell(s, j)
  <2>1. Wrap(Cell(s, j + 1) + 1) = Cell(s, j)
    BY <1>1, CellsApart
  <2>2. QED
    BY <1>1, <2>1
<1>3. pop_sp(Cell(s, 2 * n)) = Cell(s, i)
  <2>1. Wrap(Cell(s, i + 2) + 2) = Cell(s, i)
    BY <1>1, CellsApart
  <2>2. QED
    BY <1>1, <2>1 DEF pop_sp
<1> HIDE DEF i, j
<1>4. mem_read(m, Cell(s, 2 * n - 1)) = Hi(f[n]) /\ mem_read(m, Cell(s, 2 * n)) = Lo(f[n])
  BY <1>0 DEF Words
<1>5. read_u16(m, Cell(s, 2 * n)) = Word(Hi(f[n]), Lo(f[n]))
  BY <1>2, <1>4 DEF read_u16, j
<1>6. Word(Hi(f[n]), Lo(f[n])) = f[n]
  BY WordBytes
<1>7. Words(m, s, f, n - 1)
  BY <1>0 DEF Words
<1>8. QED
  BY <1>0, <1>3, <1>5, <1>6, <1>7 DEF Stacked, pop_u16, i
-----------------------------------------------------------------------------
(* The steps of a program that uses the stack and jumps.                   *)

\* A CPU with these pairs and this SP, that is otherwise like the present one.
Shows(c, b, d, h, sp) ==
    /\ c \in Cpus /\ get_rp(c, 0) = b /\ get_rp(c, 1) = d /\ get_rp(c, 2) = h /\ c.sp = sp
    /\ c.r["A"] = cpu.r["A"] /\ c.flags = cpu.flags /\ c.halted = cpu.halted /\ c.out = cpu.out

LEMMA ShowsItself ==
    ASSUME CpuTypeOK
    PROVE  Shows(cpu, get_rp(cpu, 0), get_rp(cpu, 1), get_rp(cpu, 2), cpu.sp)
BY DEF Shows, CpuTypeOK

\* Setting a pair sets that pair only.
LEMMA SetsPair ==
    ASSUME NEW c \in Cpus, NEW w \in Address, NEW rp \in 0 .. 2
    PROVE  /\ get_rp(set_rp(c, rp, w), rp) = w
           /\ \A k \in 0 .. 2 : k # rp => get_rp(set_rp(c, rp, w), k) = get_rp(c, k)
           /\ set_rp(c, rp, w).sp = c.sp /\ set_rp(c, rp, w).r["A"] = c.r["A"]
           /\ set_rp(c, rp, w).flags = c.flags /\ set_rp(c, rp, w).halted = c.halted
           /\ set_rp(c, rp, w).out = c.out
<1> DEFINE i == Pair[rp + 1][1]
           j == Pair[rp + 1][2]
           v == Hi(w)
           u == Lo(w)
           c2 == set_rp(c, rp, w)
<1>1. i \in Registers /\ j \in Registers /\ i # j /\ i # "A" /\ j # "A"
  BY DEF Pair, Registers
<1>2. \A k \in 0 .. 2 : k # rp => /\ Pair[k + 1][1] \in Registers /\ Pair[k + 1][2] \in Registers
                                  /\ Pair[k + 1][1] # i /\ Pair[k + 1][1] # j
                                  /\ Pair[k + 1][2] # i /\ Pair[k + 1][2] # j
  BY DEF Pair, Registers
<1>3. c2 = SetReg(SetReg(c, i, v), j, u)
  BY DEF set_rp
<1>4. Word(v, u) = w
  BY WordBytes
<1> HIDE DEF i, j, v, u, c2
<1>5. /\ c2.r[i] = v /\ c2.r[j] = u
      /\ \A x \in Registers : x # i /\ x # j => c2.r[x] = c.r[x]
      /\ c2.sp = c.sp /\ c2.flags = c.flags /\ c2.halted = c.halted /\ c2.out = c.out
  BY <1>1, <1>3 DEF SetReg, Cpus
<1>6. c2.r["A"] = c.r["A"]
  BY <1>1, <1>5 DEF Registers
<1>7. get_rp(c2, rp) = w
  BY <1>4, <1>5 DEF get_rp, i, j
<1>8. \A k \in 0 .. 2 : k # rp => get_rp(c2, k) = get_rp(c, k)
  BY <1>2, <1>5 DEF get_rp
<1>9. QED
  BY <1>5, <1>6, <1>7, <1>8 DEF c2

\* What is seen of a CPU whose pair or stack pointer is set.
LEMMA ShowsSet ==
    ASSUME NEW c, NEW b, NEW d, NEW h, NEW sp, Shows(c, b, d, h, sp), NEW w \in Address
    PROVE  /\ Shows(set_rp(c, 0, w), w, d, h, sp)
           /\ Shows(set_rp(c, 1, w), b, w, h, sp)
           /\ Shows(set_rp(c, 2, w), b, d, w, sp)
           /\ Shows(SetSP(c, w), b, d, h, w)
<1>1. c \in Cpus
  BY DEF Shows
<1>2. set_rp(c, 0, w) \in Cpus /\ set_rp(c, 1, w) \in Cpus /\ set_rp(c, 2, w) \in Cpus
  BY <1>1, Pairs
<1>3. Shows(set_rp(c, 0, w), w, d, h, sp)
  <2>1. /\ get_rp(set_rp(c, 0, w), 0) = w
        /\ \A k \in 0 .. 2 : k # 0 => get_rp(set_rp(c, 0, w), k) = get_rp(c, k)
        /\ set_rp(c, 0, w).sp = c.sp /\ set_rp(c, 0, w).r["A"] = c.r["A"]
        /\ set_rp(c, 0, w).flags = c.flags /\ set_rp(c, 0, w).halted = c.halted
        /\ set_rp(c, 0, w).out = c.out
    BY <1>1, SetsPair
  <2>2. QED
    BY <1>2, <2>1 DEF Shows
<1>4. Shows(set_rp(c, 1, w), b, w, h, sp)
  <2>1. /\ get_rp(set_rp(c, 1, w), 1) = w
        /\ \A k \in 0 .. 2 : k # 1 => get_rp(set_rp(c, 1, w), k) = get_rp(c, k)
        /\ set_rp(c, 1, w).sp = c.sp /\ set_rp(c, 1, w).r["A"] = c.r["A"]
        /\ set_rp(c, 1, w).flags = c.flags /\ set_rp(c, 1, w).halted = c.halted
        /\ set_rp(c, 1, w).out = c.out
    BY <1>1, SetsPair
  <2>2. QED
    BY <1>2, <2>1 DEF Shows
<1>5. Shows(set_rp(c, 2, w), b, d, w, sp)
  <2>1. /\ get_rp(set_rp(c, 2, w), 2) = w
        /\ \A k \in 0 .. 2 : k # 2 => get_rp(set_rp(c, 2, w), k) = get_rp(c, k)
        /\ set_rp(c, 2, w).sp = c.sp /\ set_rp(c, 2, w).r["A"] = c.r["A"]
        /\ set_rp(c, 2, w).flags = c.flags /\ set_rp(c, 2, w).halted = c.halted
        /\ set_rp(c, 2, w).out = c.out
    BY <1>1, SetsPair
  <2>2. QED
    BY <1>2, <2>1 DEF Shows
<1>6. Shows(SetSP(c, w), b, d, h, w)
  <2>1. /\ SetSP(c, w).r = c.r /\ SetSP(c, w).sp = w /\ SetSP(c, w).flags = c.flags
        /\ SetSP(c, w).halted = c.halted /\ SetSP(c, w).out = c.out
    BY <1>1 DEF SetSP, Cpus
  <2>2. SetSP(c, w) \in Cpus
    BY <1>1, Sets
  <2>3. QED
    BY <1>1, <2>1, <2>2 DEF Shows, get_rp
<1>7. QED
  BY <1>3, <1>4, <1>5, <1>6

\* What a step leaves in the pairs, SP, PC and the memory, when it leaves A,
\* the flags and the output as they are.
Turned(b, d, h, sp, pc, m) ==
    /\ get_rp(cpu', 0) = b /\ get_rp(cpu', 1) = d /\ get_rp(cpu', 2) = h
    /\ cpu'.sp = sp /\ cpu'.pc = pc /\ mem' = m
    /\ cpu'.r["A"] = cpu.r["A"] /\ cpu'.flags = cpu.flags /\ ~cpu'.halted /\ cpu'.out = cpu.out

\* What is seen of a CPU that goes on, or jumps.
LEMMA ShowsGoes ==
    ASSUME cpu_step, NEW c, NEW b, NEW d, NEW h, NEW sp, Shows(c, b, d, h, sp)
    PROVE  /\ \A n : Go(c, n) => Turned(b, d, h, sp, Wrap(cpu.pc + n), mem')
           /\ \A a : Jump(c, a) => Turned(b, d, h, sp, a, mem')
<1>1. c \in Cpus /\ ~cpu.halted
  BY DEF Shows, cpu_step
<1>2. \A a : [c EXCEPT !.pc = a] = cpu' => Turned(b, d, h, sp, a, mem')
  <2> SUFFICES ASSUME NEW a, cpu' = [c EXCEPT !.pc = a]
               PROVE  Turned(b, d, h, sp, a, mem')
    BY Zenon
  <2>1. /\ cpu'.r = c.r /\ cpu'.sp = c.sp /\ cpu'.flags = c.flags /\ cpu'.pc = a
        /\ cpu'.halted = c.halted /\ cpu'.out = c.out
    BY <1>1 DEF Cpus
  <2>2. QED
    BY <1>1, <2>1 DEF Turned, Shows, get_rp
<1>3. QED
  BY <1>2, Zenon DEF Go, Jump

\* Which instruction an opcode is, of those of such programs.
LEMMA DecodeControl ==
    ASSUME cpu_step
    PROVE  /\ opcode \in {\hC5, \hD5, \hE5, \hF5} => PUSH
           /\ opcode \in {\hC1, \hD1, \hE1, \hF1} => POP
           /\ opcode = \hE3 => XTHL
           /\ opcode = \hEB => XCHG
           /\ opcode = \hE9 => PCHL
           /\ opcode = \hF9 => SPHL
           /\ opcode = \hCD => CALL
           /\ opcode = \hC9 => RET
           /\ opcode \in {\hC7, \hCF, \hD7, \hDF, \hE7, \hEF, \hF7, \hFF} => RST
           /\ opcode \in {\hC0, \hC8, \hD0, \hD8, \hE0, \hE8, \hF0, \hF8} => Rccc
           /\ opcode \in {\hC2, \hCA, \hD2, \hDA, \hE2, \hEA, \hF2, \hFA} => Jccc
           /\ opcode \in {\hC4, \hCC, \hD4, \hDC, \hE4, \hEC, \hF4, \hFC} => Cccc
BY DEF cpu_step, Src, NOP, HLT, LXI, MVI, MOV, LDA, STA, LHLD, SHLD, XCHG, XTHL, SPHL, PCHL,
       ALU, ALU_Immediate, DAA, ROT, CMA, STC, CMC, INR, DCR, INX, DCX, DAD, JMP, Jccc, CALL,
       Cccc, RST, RET, Rccc, PUSH, POP, INP, OUT, EI, DI, RIM, SIM

\* Which instruction the opcodes of these programs are.
LEMMA DecodeMemory ==
    ASSUME cpu_step
    PROVE  /\ opcode = \h22 => SHLD
           /\ opcode = \h2A => LHLD
           /\ opcode = \h3A => LDA
           /\ opcode = \h32 => STA
           /\ opcode \in {\h34, \h3C} => INR
           /\ opcode = \h35 => DCR
           /\ opcode = \h00 => NOP
           /\ opcode = \hFB => EI
           /\ opcode = \hF3 => DI
           /\ opcode = \h30 => SIM
           /\ opcode = \h20 => RIM
           /\ opcode = \hD3 => OUT
           /\ opcode = \hDB => INP
           /\ opcode = \h16 => MVI
           /\ opcode \in {\hC6, \hFE} => ALU_Immediate
BY DEF cpu_step, Src, NOP, HLT, LXI, MVI, MOV, LDA, STA, LHLD, SHLD, XCHG, XTHL, SPHL, PCHL,
       ALU, ALU_Immediate, DAA, ROT, CMA, STC, CMC, INR, DCR, INX, DCX, DAD, JMP, Jccc, CALL,
       Cccc, RST, RET, Rccc, PUSH, POP, INP, OUT, EI, DI, RIM, SIM
-----------------------------------------------------------------------------
(* Programs that keep their code while they write to memory.               *)

\* Where programs lie, the memory is still the image.
Kept(m, image) == \A a \in Int : 8 <= a /\ a <= 749 => mem_read(m, a) = mem_read(image, a)

\* What is fetched where the program is kept is what was placed there.
LEMMA FetchKept ==
    ASSUME NEW image, Kept(mem, image), NEW a \in Int, cpu.pc = a, 8 <= a, a <= 747
    PROVE  /\ opcode = mem_read(image, a)
           /\ Operand = mem_read(image, a + 1)
           /\ Target = Word(mem_read(image, a + 2), mem_read(image, a + 1))
           /\ Wrap(cpu.pc + 1) = a + 1 /\ Wrap(cpu.pc + 2) = a + 2 /\ Wrap(cpu.pc + 3) = a + 3
           /\ next_pc = a + 1
<1>1. Wrap(cpu.pc + 1) = a + 1 /\ Wrap(cpu.pc + 2) = a + 2 /\ Wrap(cpu.pc + 3) = a + 3
  BY DEF Wrap
<1>2. next_pc = a + 1 /\ Wrap(next_pc + 1) = a + 2
  BY <1>1 DEF next_pc, Wrap
<1>3. /\ mem_read(mem, a) = mem_read(image, a) /\ mem_read(mem, a + 1) = mem_read(image, a + 1)
      /\ mem_read(mem, a + 2) = mem_read(image, a + 2)
  BY DEF Kept
<1>4. opcode = mem_read(image, a) /\ Operand = mem_read(image, a + 1)
  BY <1>2, <1>3 DEF opcode, Operand
<1>5. Target = Word(mem_read(image, a + 2), mem_read(image, a + 1))
  BY <1>2, <1>3 DEF Target, read_u16
<1>6. QED
  BY <1>1, <1>2, <1>4, <1>5

\* A write elsewhere keeps the program.
LEMMA KeptWritten ==
    ASSUME NEW m, NEW image, Kept(m, image), NEW x, NEW v, x \in Int => ~(8 <= x /\ x <= 749)
    PROVE  Kept(mem_write(m, x, v), image)
BY ReadsWritten DEF Kept

\* What is pushed does not touch the program.
LEMMA KeptPushed ==
    ASSUME NEW m, NEW image, Kept(m, image), NEW s, Clear(s), NEW n \in 0 .. 8, NEW w
    PROVE  Kept(push_cells(m, Cell(s, 2 * n), w), image)
<1>1. s \in Address /\ 2 * n \in Depths
  BY DepthRange DEF Clear
<1>2. \A x : mem_read(push_cells(m, Cell(s, 2 * n), w), x)
             = IF x = Cell(s, 2 * n + 2) THEN Lo(w)
               ELSE IF x = Cell(s, 2 * n + 1) THEN Hi(w) ELSE mem_read(m, x)
  BY <1>1, ReadsPushed
<1>3. ~(8 <= Cell(s, 2 * n + 1) /\ Cell(s, 2 * n + 1) <= 749)
  <2>1. 2 * n + 1 \in 1 .. 18
    OBVIOUS
  <2>2. QED
    BY <2>1, CellsClear
<1>4. ~(8 <= Cell(s, 2 * n + 2) /\ Cell(s, 2 * n + 2) <= 749)
  <2>1. 2 * n + 2 \in 1 .. 18
    OBVIOUS
  <2>2. QED
    BY <2>1, CellsClear
<1>5. QED
  BY <1>2, <1>3, <1>4 DEF Kept

\* A program of its own lies at \h100.
LEMMA Placed ==
    ASSUME NEW a \in Int, NEW code, Len(code) \in Nat, NEW i \in 1 .. Len(code)
    PROVE  mem_read(At(a, code), a + i - 1) = code[i]
<1>1. a + i - 1 \in a .. a + Len(code) - 1 /\ (a + i - 1) - a + 1 = i
  OBVIOUS
<1>2. QED
  BY <1>1 DEF At, mem_read

\* What PUSH pushes.
PushedWord == CASE opcode = \hC5 -> get_rp(cpu, 0)
                [] opcode = \hD5 -> get_rp(cpu, 1)
                [] opcode = \hF5 -> Word(cpu.r["A"], pack_psw_flags(cpu.flags))

\* A push and a pop, with the words of f on the stack that starts at s.
LEMMA PushStep ==
    ASSUME CpuTypeOK, cpu_step, NEW s, Clear(s), NEW f, NEW n \in 0 .. 8,
           Stacked(cpu.sp, mem, s, f, n), NEW image, Kept(mem, image),
           opcode \in {\hC5, \hD5, \hF5}, f[n + 1] = PushedWord
    PROVE  /\ Turned(get_rp(cpu, 0), get_rp(cpu, 1), get_rp(cpu, 2), cpu'.sp, Wrap(cpu.pc + 1), mem')
           /\ Stacked(cpu'.sp, mem', s, f, n + 1) /\ Kept(mem', image)
<1> DEFINE w  == PushedWord
           sp == push_sp(cpu.sp)
<1>1. PUSH
  BY DecodeControl
<1>2. /\ opcode = \hC5 => Rp = 0
      /\ opcode = \hD5 => Rp = 1
      /\ opcode = \hF5 => Rp = 3
  BY DEF Rp
<1>3. mem' = push_cells(mem, cpu.sp, w) /\ Go(SetSP(cpu, sp), 1)
  BY <1>1, <1>2 DEF PUSH, PushedWord
<1>4. s \in Address /\ cpu.sp = Cell(s, 2 * n)
  BY DEF Clear, Stacked
<1>5. f[n + 1] = w => Stacked(sp, push_cells(mem, cpu.sp, w), s, f, n + 1)
  BY <1>4, PushesWord
<1>6. sp \in Address
  <2>1. cpu.sp \in Int
    BY Fields, AddressRange
  <2>2. QED
    BY <2>1, Widths DEF push_sp
<1> HIDE DEF w, sp
<1>7. Shows(SetSP(cpu, sp), get_rp(cpu, 0), get_rp(cpu, 1), get_rp(cpu, 2), sp)
  BY <1>6, ShowsItself, ShowsSet
<1>8. Turned(get_rp(cpu, 0), get_rp(cpu, 1), get_rp(cpu, 2), sp, Wrap(cpu.pc + 1), mem')
  BY <1>3, <1>7, ShowsGoes
<1>9. Kept(mem', image)
  <2>1. Kept(push_cells(mem, Cell(s, 2 * n), w), image)
    BY KeptPushed
  <2>2. QED
    BY <1>3, <1>4, <2>1
<1>10. cpu'.sp = sp
  BY <1>8 DEF Turned
<1>11. QED
  BY <1>3, <1>5, <1>8, <1>9, <1>10 DEF w

\* A pop takes the word on the top.
LEMMA PopStep ==
    ASSUME CpuTypeOK, cpu_step, NEW s, Clear(s), NEW f, NEW n \in 1 .. 9,
           Stacked(cpu.sp, mem, s, f, n), f[n] \in Address, opcode \in {\hC1, \hD1, \hE1}
    PROVE  /\ opcode = \hC1 => Turned(f[n], get_rp(cpu, 1), get_rp(cpu, 2), cpu'.sp,
                                      Wrap(cpu.pc + 1), mem)
           /\ opcode = \hD1 => Turned(get_rp(cpu, 0), f[n], get_rp(cpu, 2), cpu'.sp,
                                      Wrap(cpu.pc + 1), mem)
           /\ opcode = \hE1 => Turned(get_rp(cpu, 0), get_rp(cpu, 1), f[n], cpu'.sp,
                                      Wrap(cpu.pc + 1), mem)
           /\ Stacked(cpu'.sp, mem', s, f, n - 1)
<1> DEFINE sp == pop_sp(cpu.sp)
           c  == SetSP(cpu, sp)
           w  == f[n]
<1>1. s \in Address
  BY DEF Clear
<1>2. pop_u16(mem, cpu.sp) = w /\ Stacked(sp, mem, s, f, n - 1)
  BY <1>1, PopsWord
<1>3. sp \in Address /\ w \in Address
  BY Fields, Pops DEF CpuTypeOK
<1>4. /\ opcode = \hC1 => Go(set_rp(c, 0, w), 1) /\ mem' = mem
      /\ opcode = \hD1 => Go(set_rp(c, 1, w), 1) /\ mem' = mem
      /\ opcode = \hE1 => Go(set_rp(c, 2, w), 1) /\ mem' = mem
  <2>1. /\ opcode = \hC1 => Rp = 0
        /\ opcode = \hD1 => Rp = 1
        /\ opcode = \hE1 => Rp = 2
    BY DEF Rp
  <2>2. POP
    BY DecodeControl
  <2>3. QED
    BY <1>2, <2>1, <2>2 DEF POP
<1> HIDE DEF sp, w
<1>5. Shows(c, get_rp(cpu, 0), get_rp(cpu, 1), get_rp(cpu, 2), sp)
  BY <1>3, ShowsItself, ShowsSet
<1> HIDE DEF c
<1>6. /\ Shows(set_rp(c, 0, w), w, get_rp(cpu, 1), get_rp(cpu, 2), sp)
      /\ Shows(set_rp(c, 1, w), get_rp(cpu, 0), w, get_rp(cpu, 2), sp)
      /\ Shows(set_rp(c, 2, w), get_rp(cpu, 0), get_rp(cpu, 1), w, sp)
  BY <1>3, <1>5, ShowsSet
<1>7. /\ opcode = \hC1 => Turned(w, get_rp(cpu, 1), get_rp(cpu, 2), sp, Wrap(cpu.pc + 1), mem)
      /\ opcode = \hD1 => Turned(get_rp(cpu, 0), w, get_rp(cpu, 2), sp, Wrap(cpu.pc + 1), mem)
      /\ opcode = \hE1 => Turned(get_rp(cpu, 0), get_rp(cpu, 1), w, sp, Wrap(cpu.pc + 1), mem)
  BY <1>4, <1>6, ShowsGoes
<1>8. cpu'.sp = sp /\ mem' = mem
  BY <1>4, <1>7 DEF Turned
<1>9. QED
  BY <1>2, <1>7, <1>8 DEF w
-----------------------------------------------------------------------------
(* The status byte through the stack.                                      *)

\* The flags of a status byte are bits of it.
LEMMA FlagsOfByte ==
    ASSUME NEW p
    PROVE  /\ "S" \in unpack_psw_flags(p) <=> (p \div 128) % 2 = 1
           /\ "Z" \in unpack_psw_flags(p) <=> (p \div 64) % 2 = 1
           /\ "AC" \in unpack_psw_flags(p) <=> (p \div 16) % 2 = 1
           /\ "P" \in unpack_psw_flags(p) <=> (p \div 4) % 2 = 1
           /\ "CY" \in unpack_psw_flags(p) <=> (p \div 1) % 2 = 1
BY DEF unpack_psw_flags, Flags

\* The status byte has a bit for each flag, at its place.
LEMMA PackedBits ==
    ASSUME NEW s \in {0, 1}, NEW z \in {0, 1}, NEW h \in {0, 1}, NEW e \in {0, 1}, NEW c \in {0, 1},
           NEW p, p = 2 + 128 * s + 64 * z + 16 * h + 4 * e + c
    PROVE  /\ ((p \div 128) % 2) = s /\ ((p \div 64) % 2) = z /\ ((p \div 16) % 2) = h
           /\ ((p \div 4) % 2) = e /\ ((p \div 1) % 2) = c
OBVIOUS

\* The flags come back from the status byte.
LEMMA UnpacksPacked ==
    ASSUME NEW f \in SUBSET Flags
    PROVE  unpack_psw_flags(pack_psw_flags(f)) = f
<1> DEFINE p == pack_psw_flags(f)
<1>1. PICK s \in {0, 1} : s = Bool("S" \in f) /\ (s = 1 <=> "S" \in f)
  BY DEF Bool
<1>2. PICK z \in {0, 1} : z = Bool("Z" \in f) /\ (z = 1 <=> "Z" \in f)
  BY DEF Bool
<1>3. PICK h \in {0, 1} : h = Bool("AC" \in f) /\ (h = 1 <=> "AC" \in f)
  BY DEF Bool
<1>4. PICK e \in {0, 1} : e = Bool("P" \in f) /\ (e = 1 <=> "P" \in f)
  BY DEF Bool
<1>5. PICK c \in {0, 1} : c = Bool("CY" \in f) /\ (c = 1 <=> "CY" \in f)
  BY DEF Bool
<1>6. p = 2 + 128 * s + 64 * z + 16 * h + 4 * e + c
  BY <1>1, <1>2, <1>3, <1>4, <1>5 DEF pack_psw_flags
<1> HIDE DEF p
<1>7. /\ ((p \div 128) % 2) = s /\ ((p \div 64) % 2) = z /\ ((p \div 16) % 2) = h
      /\ ((p \div 4) % 2) = e /\ ((p \div 1) % 2) = c
  BY <1>6, PackedBits
<1>8. \A x \in Flags : x \in unpack_psw_flags(p) <=> x \in f
  <2>1. /\ "S" \in unpack_psw_flags(p) <=> "S" \in f
        /\ "Z" \in unpack_psw_flags(p) <=> "Z" \in f
        /\ "AC" \in unpack_psw_flags(p) <=> "AC" \in f
        /\ "P" \in unpack_psw_flags(p) <=> "P" \in f
        /\ "CY" \in unpack_psw_flags(p) <=> "CY" \in f
    BY <1>1, <1>2, <1>3, <1>4, <1>5, <1>7, FlagsOfByte
  <2>2. QED
    BY <2>1 DEF Flags
<1>9. unpack_psw_flags(p) \subseteq Flags
  BY FlagSets
<1>10. QED
  BY <1>8, <1>9 DEF p

\* What is read back of any byte as the status is its five flags, bit 1 set.
LEMMA PacksUnpacked ==
    ASSUME NEW v \in Byte
    PROVE  pack_psw_flags(unpack_psw_flags(v)) = And(v, 213) + 2
<1>1. v \in Int /\ 0 <= v /\ v <= 255
  BY ByteRange
<1> DEFINE b == Bits(v)
           q == Bits(213)
<1>2. /\ b[1] = ((v \div 1) % 2) /\ b[3] = ((v \div 4) % 2) /\ b[5] = ((v \div 16) % 2)
      /\ b[7] = ((v \div 64) % 2) /\ b[8] = ((v \div 128) % 2)
  BY DEF Bits, Bit
<1>3. /\ q[1] = 1 /\ q[2] = 0 /\ q[3] = 1 /\ q[4] = 0 /\ q[5] = 1 /\ q[6] = 0 /\ q[7] = 1 /\ q[8] = 1
  BY DEF Bits, Bit
<1>4. \A i \in 1 .. 8 : b[i] \in {0, 1}
  BY <1>1, BitValues
<1> HIDE DEF b, q
<1>5. And(v, 213) = b[1] + 4 * b[3] + 16 * b[5] + 64 * b[7] + 128 * b[8]
  <2> DEFINE a == [i \in 1 .. 8 |-> b[i] * q[i]]
  <2>1. /\ a[1] = b[1] /\ a[2] = 0 /\ a[3] = b[3] /\ a[4] = 0 /\ a[5] = b[5] /\ a[6] = 0
        /\ a[7] = b[7] /\ a[8] = b[8]
    BY <1>3, <1>4
  <2>2. And(v, 213) = FromBits(a)
    BY DEF And, b, q
  <2> HIDE DEF a
  <2>3. QED
    BY <1>4, <2>1, <2>2 DEF FromBits
<1> DEFINE f == unpack_psw_flags(v)
<1>6. /\ "S" \in f <=> b[8] = 1
      /\ "Z" \in f <=> b[7] = 1
      /\ "AC" \in f <=> b[5] = 1
      /\ "P" \in f <=> b[3] = 1
      /\ "CY" \in f <=> b[1] = 1
  BY <1>2, FlagsOfByte
<1> HIDE DEF f
<1>7. /\ Bool("S" \in f) = b[8] /\ Bool("Z" \in f) = b[7] /\ Bool("AC" \in f) = b[5]
      /\ Bool("P" \in f) = b[3] /\ Bool("CY" \in f) = b[1]
  BY <1>4, <1>6 DEF Bool
<1>8. pack_psw_flags(f) = 2 + 128 * b[8] + 64 * b[7] + 16 * b[5] + 4 * b[3] + b[1]
  BY <1>7 DEF pack_psw_flags
<1>9. /\ b[1] \in Int /\ b[3] \in Int /\ b[5] \in Int /\ b[7] \in Int /\ b[8] \in Int
  BY <1>4
<1>10. QED
  BY <1>5, <1>8, <1>9 DEF f

\* POP PSW, and the steps between the pushes and the pops that spoil A and
\* the flags.
LEMMA PopStatusStep ==
    ASSUME CpuTypeOK, cpu_step, NEW s, Clear(s), NEW f, NEW n \in 1 .. 9, opcode = \hF1,
           Stacked(cpu.sp, mem, s, f, n), f[n] \in Address
    PROVE  /\ cpu'.r["A"] = Hi(f[n]) /\ cpu'.flags = unpack_psw_flags(Lo(f[n]))
           /\ cpu'.pc = Wrap(cpu.pc + 1) /\ ~cpu'.halted /\ mem' = mem
           /\ Stacked(cpu'.sp, mem', s, f, n - 1)
<1> DEFINE sp == pop_sp(cpu.sp)
           c  == SetSP(cpu, sp)
           v  == Hi(f[n])
           u  == unpack_psw_flags(Lo(f[n]))
           d  == SetA(c, v, u)
<1>1. s \in Address
  BY DEF Clear
<1>2. pop_u16(mem, cpu.sp) = f[n] /\ Stacked(sp, mem, s, f, n - 1)
  BY <1>1, PopsWord
<1>3. POP /\ Rp = 3
  BY DecodeControl DEF Rp
<1>4. Go(d, 1) /\ mem' = mem
  BY <1>2, <1>3 DEF POP
<1>5. cpu \in Cpus /\ ~cpu.halted
  BY DEF CpuTypeOK, cpu_step
<1>6. sp \in Address
  BY Fields, Pops DEF CpuTypeOK
<1>7. v \in Byte /\ u \in SUBSET Flags
  BY WordBytes, FlagSets
<1> HIDE DEF sp, v, u
<1>8. c \in Cpus /\ c.halted = cpu.halted /\ c.sp = sp
  BY <1>5, <1>6, Sets DEF SetSP, Cpus
<1> HIDE DEF c
<1>9. d \in Cpus /\ d.r = [c.r EXCEPT !["A"] = v] /\ d.flags = u /\ d.halted = c.halted /\ d.sp = c.sp
  BY <1>7, <1>8, SetsA, SetAFields
<1>10. c.r \in [Registers -> Byte]
  BY <1>8 DEF Cpus
<1> HIDE DEF d
<1>11. /\ cpu'.r = d.r /\ cpu'.flags = d.flags /\ cpu'.halted = d.halted /\ cpu'.sp = d.sp
       /\ cpu'.pc = Wrap(cpu.pc + 1)
  BY <1>4, <1>9 DEF Go, Cpus
<1>12. cpu'.r["A"] = v
  BY <1>9, <1>10, <1>11 DEF Registers
<1>13. cpu'.sp = sp /\ cpu'.flags = u /\ ~cpu'.halted
  BY <1>5, <1>8, <1>9, <1>11
<1>14. QED
  BY <1>2, <1>4, <1>11, <1>12, <1>13 DEF v, u
\* Where the program is that takes a status byte through the stack: the word
\* it made of A and the status is on the stack, first with the bits it was
\* given, then with those that are flags, or has been read back.
StatusAt(c, m, a, f) ==
    LET s      == 65023
        flags  == unpack_psw_flags(f)
        back   == Word(a, pack_psw_flags(flags))
        empty  == Stacked(c.sp, m, s, <<back>>, 0)
        top(w) == Stacked(c.sp, m, s, <<w>>, 1)
        read   == c.r["A"] = a /\ c.flags = flags
    IN  /\ Kept(m, StatusTask(a, f).image)
        /\ c.halted <=> c.pc = 270
        /\ \/ c.pc = 256 /\ Stacked(c.sp, m, s, <<Word(a, f)>>, 0)
           \/ c.pc = 259 /\ Stacked(c.sp, m, s, <<Word(a, f)>>, 0) /\ get_rp(c, 0) = Word(a, f)
           \/ c.pc = 260 /\ top(Word(a, f))
           \/ c.pc = 261 /\ empty /\ read
           \/ c.pc \in {262, 263, 265, 266} /\ top(back)
           \/ c.pc = 267 /\ empty /\ read
           \/ c.pc = 268 /\ top(back) /\ read
           \/ c.pc \in {269, 270} /\ empty /\ read /\ get_rp(c, 1) = back

\* The program is fetched as it was written.
LEMMA FetchOwn ==
    ASSUME NEW code, Len(code) \in 1 .. 99, Kept(mem, At(\h100, code)),
           NEW i \in 1 .. Len(code), cpu.pc = 255 + i
    PROVE  /\ opcode = code[i]
           /\ i + 1 <= Len(code) => Operand = code[i + 1]
           /\ i + 2 <= Len(code) => Target = Word(code[i + 2], code[i + 1])
           /\ Wrap(cpu.pc + 1) = 256 + i /\ Wrap(cpu.pc + 2) = 257 + i /\ Wrap(cpu.pc + 3) = 258 + i
           /\ next_pc = 256 + i
<1> DEFINE n     == Len(code)
           image == At(256, code)
           a     == 255 + i
<1>0. n \in 1 .. 99 /\ i \in 1 .. n
  OBVIOUS
<1>1. i \in 1 .. n /\ a \in Int /\ 8 <= a /\ a <= 747 /\ n \in Nat
  <2> HIDE DEF n
  <2>1. QED
    BY <1>0
<1>2. Kept(mem, image) /\ cpu.pc = a
  OBVIOUS
<1>3. \A j \in 1 .. n : mem_read(image, 255 + j) = code[j]
  <2> TAKE j \in 1 .. n
  <2>1. mem_read(At(256, code), 256 + j - 1) = code[j]
    BY <1>1, Placed
  <2>2. 256 + j - 1 = 255 + j
    BY <1>1
  <2>3. QED
    BY <2>1, <2>2
<1> HIDE DEF n, image, a
<1>4. /\ opcode = mem_read(image, a)
      /\ Operand = mem_read(image, a + 1)
      /\ Target = Word(mem_read(image, a + 2), mem_read(image, a + 1))
      /\ Wrap(cpu.pc + 1) = a + 1 /\ Wrap(cpu.pc + 2) = a + 2 /\ Wrap(cpu.pc + 3) = a + 3
      /\ next_pc = a + 1
  BY <1>1, <1>2, FetchKept
<1>5. a = 255 + i /\ a + 1 = 255 + (i + 1) /\ a + 2 = 255 + (i + 2) /\ a + 3 = 258 + i
  BY <1>1 DEF a
<1>6. /\ mem_read(image, a) = code[i]
      /\ i + 1 <= n => mem_read(image, a + 1) = code[i + 1]
      /\ i + 2 <= n => mem_read(image, a + 2) = code[i + 2]
  <2>1. mem_read(image, a) = code[i]
    BY <1>1, <1>3, <1>5
  <2>2. ASSUME i + 1 <= n
        PROVE  mem_read(image, a + 1) = code[i + 1]
    <3>1. i + 1 \in 1 .. n
      BY <1>1, <2>2
    <3>2. QED
      BY <1>3, <1>5, <3>1
  <2>3. ASSUME i + 2 <= n
        PROVE  mem_read(image, a + 2) = code[i + 2]
    <3>1. i + 2 \in 1 .. n
      BY <1>1, <2>3
    <3>2. QED
      BY <1>3, <1>5, <3>1
  <2>4. QED
    BY <2>1, <2>2, <2>3
<1>7. i + 1 <= n => Operand = code[i + 1]
  BY <1>4, <1>6
<1>8. i + 2 <= n => Target = Word(code[i + 2], code[i + 1])
  <2>1. i + 2 <= n => i + 1 <= n
    BY <1>1
  <2>2. QED
    BY <1>4, <1>6, <2>1
<1>9. a + 1 = 256 + i /\ a + 2 = 257 + i
  BY <1>1 DEF a
<1>10. QED
  BY <1>4, <1>5, <1>6, <1>7, <1>8, <1>9 DEF n
\* LXI sets one pair and nothing else that is seen.
LEMMA LoadStep ==
    ASSUME CpuTypeOK, cpu_step, opcode \in {\h01, \h11, \h21}
    PROVE  /\ opcode = \h01 => Turned(Target, get_rp(cpu, 1), get_rp(cpu, 2), cpu.sp,
                                      Wrap(cpu.pc + 3), mem)
           /\ opcode = \h11 => Turned(get_rp(cpu, 0), Target, get_rp(cpu, 2), cpu.sp,
                                      Wrap(cpu.pc + 3), mem)
           /\ opcode = \h21 => Turned(get_rp(cpu, 0), get_rp(cpu, 1), Target, cpu.sp,
                                      Wrap(cpu.pc + 3), mem)
<1>1. Target \in Address
  BY Fields
<1>2. /\ opcode = \h01 => Go(set_rp(cpu, 0, Target), 3) /\ mem' = mem
      /\ opcode = \h11 => Go(set_rp(cpu, 1, Target), 3) /\ mem' = mem
      /\ opcode = \h21 => Go(set_rp(cpu, 2, Target), 3) /\ mem' = mem
  <2>1. /\ opcode = \h01 => Rp = 0
        /\ opcode = \h11 => Rp = 1
        /\ opcode = \h21 => Rp = 2
    BY DEF Rp
  <2>2. LXI
    BY Decode
  <2>3. QED
    BY <2>1, <2>2 DEF LXI
<1> DEFINE b == get_rp(cpu, 0)
           d == get_rp(cpu, 1)
           h == get_rp(cpu, 2)
<1>3. Shows(cpu, b, d, h, cpu.sp)
  BY ShowsItself
<1> HIDE DEF b, d, h
<1>4. /\ Shows(set_rp(cpu, 0, Target), Target, d, h, cpu.sp)
      /\ Shows(set_rp(cpu, 1, Target), b, Target, h, cpu.sp)
      /\ Shows(set_rp(cpu, 2, Target), b, d, Target, cpu.sp)
  BY <1>1, <1>3, ShowsSet
<1>5. /\ opcode = \h01 => Turned(Target, d, h, cpu.sp, Wrap(cpu.pc + 3), mem)
      /\ opcode = \h11 => Turned(b, Target, h, cpu.sp, Wrap(cpu.pc + 3), mem)
      /\ opcode = \h21 => Turned(b, d, Target, cpu.sp, Wrap(cpu.pc + 3), mem)
  BY <1>2, <1>4, ShowsGoes
<1>6. QED
  BY <1>5 DEF b, d, h

\* A computation on A leaves the stack alone.
LEMMA IdleStep ==
    ASSUME CpuTypeOK, cpu_step, opcode \in {\hAF, \hC6, \h37}
    PROVE  /\ cpu'.sp = cpu.sp /\ mem' = mem /\ ~cpu'.halted
           /\ cpu'.pc = IF opcode = \hC6 THEN Wrap(cpu.pc + 2) ELSE Wrap(cpu.pc + 1)
<1>1. ~cpu.halted
  BY DEF cpu_step
<1>2. CASE opcode = \hAF
  <2>1. Src # 6 /\ opcode \in \h80 .. \hBF
    BY <1>2 DEF Src
  <2>2. \E r, f : Leaves(r, f, 1)
    BY <2>1, AluStep
  <2>3. QED
    BY <1>1, <1>2, <2>2 DEF Leaves
<1>3. CASE opcode = \hC6
  <2>1. \E r, f : Leaves(r, f, 2)
    BY <1>3, ImmediateStep
  <2>2. QED
    BY <1>1, <1>3, <2>1 DEF Leaves
<1>4. CASE opcode = \h37
  <2>1. \E r, f : Leaves(r, f, 1)
    BY <1>4, OtherStep
  <2>2. QED
    BY <1>1, <1>4, <2>1 DEF Leaves
<1>5. QED
  BY <1>2, <1>3, <1>4

\* A step of the CPU keeps the status program in its places.
LEMMA StatusStep ==
    ASSUME CpuTypeOK, cpu_step, NEW a \in Byte, NEW f \in Byte, StatusAt(cpu, mem, a, f)
    PROVE  StatusAt(cpu', mem', a, f)
<1> DEFINE code  == Imm(\h01, Word(a, f)) \o <<\hC5, \hF1, \hF5, \hAF, \hC6, 255, \h37, \hF1, \hF5,
                                               \hD1, \h76>>
           image == StatusTask(a, f).image
           s     == 65023
           flags == unpack_psw_flags(f)
           given == Word(a, f)
           back  == Word(a, pack_psw_flags(flags))
<1>1. Hi(given) = a /\ Lo(given) = f /\ given \in Address
  BY BytesWord
<1>2. /\ Len(code) = 14
      /\ code[1] = \h01 /\ code[2] = f /\ code[3] = a
      /\ code[4] = \hC5 /\ code[5] = \hF1 /\ code[6] = \hF5 /\ code[7] = \hAF /\ code[8] = \hC6
      /\ code[9] = 255 /\ code[10] = \h37 /\ code[11] = \hF1 /\ code[12] = \hF5
      /\ code[13] = \hD1 /\ code[14] = \h76
  BY <1>1 DEF Imm
<1>3. image = At(\h100, code)
  BY DEF StatusTask, Task
<1> HIDE DEF code
<1>4. Kept(mem, image) /\ ~cpu.halted /\ cpu.pc # 270
  BY DEF StatusAt, cpu_step
<1>5. \A i \in 1 .. 14 :
         cpu.pc = 255 + i => /\ opcode = code[i]
                             /\ i + 2 <= 14 => Target = Word(code[i + 2], code[i + 1])
                             /\ Wrap(cpu.pc + 1) = 256 + i /\ Wrap(cpu.pc + 2) = 257 + i
                             /\ Wrap(cpu.pc + 3) = 258 + i
  <2> SUFFICES ASSUME NEW i \in 1 .. 14, cpu.pc = 255 + i
               PROVE  /\ opcode = code[i]
                      /\ i + 2 <= 14 => Target = Word(code[i + 2], code[i + 1])
                      /\ Wrap(cpu.pc + 1) = 256 + i /\ Wrap(cpu.pc + 2) = 257 + i
                      /\ Wrap(cpu.pc + 3) = 258 + i
    OBVIOUS
  <2>1. Len(code) \in 1 .. 99 /\ i \in 1 .. Len(code) /\ Kept(mem, At(\h100, code))
    BY <1>2, <1>3, <1>4
  <2>2. /\ opcode = code[i]
        /\ i + 2 <= Len(code) => Target = Word(code[i + 2], code[i + 1])
        /\ Wrap(cpu.pc + 1) = 256 + i /\ Wrap(cpu.pc + 2) = 257 + i /\ Wrap(cpu.pc + 3) = 258 + i
    BY <2>1, FetchOwn
  <2>3. QED
    BY <1>2, <2>2
<1>6. Clear(s) /\ flags \in SUBSET Flags /\ pack_psw_flags(flags) \in Byte
  BY FlagSets, StatusByte, AddressRange DEF Clear
<1>7. /\ Hi(back) = a /\ Lo(back) = pack_psw_flags(flags) /\ back \in Address
      /\ unpack_psw_flags(Lo(back)) = flags
  BY <1>6, BytesWord, UnpacksPacked
<1> DEFINE empty(x, m)  == Stacked(x, m, s, <<back>>, 0)
           top(x, m, w) == Stacked(x, m, s, <<w>>, 1)
<1> HIDE DEF s, flags, given, back, image
<1>8. \A x, m, v, w : Stacked(x, m, s, <<v>>, 0) => Stacked(x, m, s, <<w>>, 0)
  BY DEF Stacked, Words
<1>9. CASE cpu.pc = 256
  <2>1. opcode = \h01 /\ Target = given /\ Wrap(cpu.pc + 3) = 259
    BY <1>2, <1>5, <1>9 DEF given
  <2>2. Turned(given, get_rp(cpu, 1), get_rp(cpu, 2), cpu.sp, 259, mem)
    BY <2>1, LoadStep
  <2>3. Stacked(cpu.sp, mem, s, <<given>>, 0)
    BY <1>9 DEF StatusAt, s, given
  <2>4. QED
    BY <1>4, <2>2, <2>3 DEF Turned, StatusAt, s, given, image
<1>10. CASE cpu.pc = 259
  <2>1. opcode = \hC5 /\ Wrap(cpu.pc + 1) = 260
    BY <1>2, <1>5, <1>10
  <2>2. get_rp(cpu, 0) = given /\ Stacked(cpu.sp, mem, s, <<given>>, 0)
    BY <1>10 DEF StatusAt, s, given
  <2>3. <<given>>[0 + 1] = PushedWord
    BY <2>1, <2>2 DEF PushedWord
  <2>4. /\ Turned(get_rp(cpu, 0), get_rp(cpu, 1), get_rp(cpu, 2), cpu'.sp, 260, mem')
        /\ Stacked(cpu'.sp, mem', s, <<given>>, 0 + 1) /\ Kept(mem', image)
    BY <1>4, <1>6, <2>1, <2>2, <2>3, PushStep
  <2>5. QED
    BY <2>4 DEF Turned, StatusAt, s, given, image
<1>11. CASE cpu.pc = 260
  <2>1. opcode = \hF1 /\ Wrap(cpu.pc + 1) = 261
    BY <1>2, <1>5, <1>11
  <2>2. Stacked(cpu.sp, mem, s, <<given>>, 1)
    BY <1>11 DEF StatusAt, s, given
  <2>3. /\ cpu'.r["A"] = a /\ cpu'.flags = unpack_psw_flags(f)
        /\ cpu'.pc = 261 /\ ~cpu'.halted /\ mem' = mem
        /\ Stacked(cpu'.sp, mem', s, <<given>>, 0)
    <3>1. <<given>>[1] = given
      OBVIOUS
    <3>2. QED
      BY <1>1, <1>6, <2>1, <2>2, <3>1, PopStatusStep
  <2>4. Stacked(cpu'.sp, mem', s, <<back>>, 0)
    BY <1>8, <2>3
  <2>5. QED
    BY <1>4, <2>3, <2>4 DEF StatusAt, s, back, flags, image
<1>12. CASE cpu.pc \in {261, 267}
  <2>1. opcode = \hF5 /\ Wrap(cpu.pc + 1) = cpu.pc + 1
    BY <1>2, <1>5, <1>12
  <2>2. cpu.r["A"] = a /\ cpu.flags = flags /\ Stacked(cpu.sp, mem, s, <<back>>, 0)
    BY <1>12 DEF StatusAt, s, back, flags
  <2>3. <<back>>[0 + 1] = PushedWord
    BY <2>1, <2>2 DEF PushedWord, back
  <2>4. /\ Turned(get_rp(cpu, 0), get_rp(cpu, 1), get_rp(cpu, 2), cpu'.sp, cpu.pc + 1, mem')
        /\ Stacked(cpu'.sp, mem', s, <<back>>, 0 + 1) /\ Kept(mem', image)
    BY <1>4, <1>6, <2>1, <2>2, <2>3, PushStep
  <2>5. QED
    BY <1>12, <2>2, <2>4 DEF Turned, StatusAt, s, back, flags, image
<1>13. CASE cpu.pc \in {262, 263, 265}
  <2>1. /\ cpu.pc = 262 => opcode = \hAF /\ Wrap(cpu.pc + 1) = 263
        /\ cpu.pc = 263 => opcode = \hC6 /\ Wrap(cpu.pc + 2) = 265
        /\ cpu.pc = 265 => opcode = \h37 /\ Wrap(cpu.pc + 1) = 266
    BY <1>2, <1>5
  <2>2. Stacked(cpu.sp, mem, s, <<back>>, 1)
    BY <1>13 DEF StatusAt, s, back, flags
  <2>3. /\ cpu'.sp = cpu.sp /\ mem' = mem /\ ~cpu'.halted
        /\ cpu'.pc = IF opcode = \hC6 THEN Wrap(cpu.pc + 2) ELSE Wrap(cpu.pc + 1)
    BY <1>13, <2>1, IdleStep
  <2>4. cpu'.pc \in {263, 265, 266}
    BY <1>13, <2>1, <2>3
  <2>5. QED
    BY <1>4, <2>2, <2>3, <2>4 DEF StatusAt, s, back, flags, image
<1>14. CASE cpu.pc = 266
  <2>1. opcode = \hF1 /\ Wrap(cpu.pc + 1) = 267
    BY <1>2, <1>5, <1>14
  <2>2. Stacked(cpu.sp, mem, s, <<back>>, 1)
    BY <1>14 DEF StatusAt, s, back, flags
  <2>3. /\ cpu'.r["A"] = a /\ cpu'.flags = flags
        /\ cpu'.pc = 267 /\ ~cpu'.halted /\ mem' = mem
        /\ Stacked(cpu'.sp, mem', s, <<back>>, 0)
    <3>1. <<back>>[1] = back
      OBVIOUS
    <3>2. QED
      BY <1>6, <1>7, <2>1, <2>2, <3>1, PopStatusStep
  <2>4. QED
    BY <1>4, <2>3 DEF StatusAt, s, back, flags, image
<1>15. CASE cpu.pc = 268
  <2>1. opcode = \hD1 /\ Wrap(cpu.pc + 1) = 269
    BY <1>2, <1>5, <1>15
  <2>2. Stacked(cpu.sp, mem, s, <<back>>, 1) /\ cpu.r["A"] = a /\ cpu.flags = flags
    BY <1>15 DEF StatusAt, s, back, flags
  <2>3. /\ Turned(get_rp(cpu, 0), back, get_rp(cpu, 2), cpu'.sp, 269, mem)
        /\ Stacked(cpu'.sp, mem', s, <<back>>, 0)
    <3>1. <<back>>[1] = back
      OBVIOUS
    <3>2. QED
      BY <1>6, <1>7, <2>1, <2>2, <3>1, PopStep
  <2>4. QED
    BY <1>4, <2>2, <2>3 DEF Turned, StatusAt, s, back, flags, image
<1>16. CASE cpu.pc = 269
  <2>1. opcode = \h76 /\ Wrap(cpu.pc + 1) = 270
    BY <1>2, <1>5, <1>16
  <2>2. /\ cpu'.r = cpu.r /\ cpu'.flags = cpu.flags /\ cpu'.halted /\ mem' = mem
        /\ cpu'.sp = cpu.sp /\ cpu'.pc = 270
    BY <2>1, HaltStep
  <2>3. get_rp(cpu', 1) = get_rp(cpu, 1)
    BY <2>2 DEF get_rp
  <2>4. /\ Stacked(cpu.sp, mem, s, <<back>>, 0) /\ cpu.r["A"] = a /\ cpu.flags = flags
        /\ get_rp(cpu, 1) = back
    BY <1>16 DEF StatusAt, s, back, flags
  <2>5. QED
    BY <1>4, <2>2, <2>3, <2>4 DEF StatusAt, s, back, flags, image
<1>17. QED
  BY <1>4, <1>9, <1>10, <1>11, <1>12, <1>13, <1>14, <1>15, <1>16 DEF StatusAt

\* Where the status program halts, A and the flags are back.
LEMMA StatusEnd ==
    ASSUME CpuTypeOK, NEW a \in Byte, NEW f \in Byte, StatusAt(cpu, mem, a, f), cpu.halted
    PROVE  /\ cpu.r["A"] = a /\ cpu.r["D"] = a
           /\ cpu.flags = unpack_psw_flags(f)
           /\ cpu.r["E"] = And(f, 213) + 2
<1> DEFINE p == pack_psw_flags(unpack_psw_flags(f))
<1>1. cpu.r["A"] = a /\ cpu.flags = unpack_psw_flags(f) /\ get_rp(cpu, 1) = Word(a, p)
  BY DEF StatusAt
<1>2. p = And(f, 213) + 2 /\ p \in Byte
  BY PacksUnpacked, StatusByte
<1> HIDE DEF p
<1>3. get_rp(cpu, 1) = Word(cpu.r["D"], cpu.r["E"])
  BY PairWords
<1>4. cpu.r["D"] \in Byte /\ cpu.r["E"] \in Byte
  BY DEF CpuTypeOK, Cpus, Registers
<1>5. cpu.r["D"] = a /\ cpu.r["E"] = p
  <2>1. Hi(Word(cpu.r["D"], cpu.r["E"])) = cpu.r["D"] /\ Lo(Word(cpu.r["D"], cpu.r["E"])) = cpu.r["E"]
    BY <1>4, BytesWord
  <2>2. Hi(Word(a, p)) = a /\ Lo(Word(a, p)) = p
    BY <1>2, BytesWord
  <2>3. QED
    BY <1>1, <1>3, <2>1, <2>2
<1>6. QED
  BY <1>1, <1>2, <1>5
-----------------------------------------------------------------------------
(* Calls, jumps and returns.                                               *)

\* The address a call comes back to, and where it goes.
ReturnAddress == IF opcode >= 192 /\ Src = 7 THEN next_pc ELSE Wrap(cpu.pc + 3)
Goal == IF opcode >= 192 /\ Src = 7 THEN 8 * Dst ELSE Target

\* CALL, RST, and Cccc when the condition holds.
Calling == \/ opcode = \hCD
           \/ opcode \in {\hC7, \hCF, \hD7, \hDF, \hE7, \hEF, \hF7, \hFF}
           \/ /\ opcode \in {\hC4, \hCC, \hD4, \hDC, \hE4, \hEC, \hF4, \hFC}
              /\ branch_condition_true(cpu.flags, Dst)

\* A call that is taken, or RST, pushes the address behind it.
LEMMA EnterStep ==
    ASSUME CpuTypeOK, cpu_step, NEW s, Clear(s), NEW f, NEW n \in 0 .. 8,
           Stacked(cpu.sp, mem, s, f, n), NEW image, Kept(mem, image),
           NEW a \in Int, cpu.pc = a, 8 <= a, a <= 747, Calling, f[n + 1] = ReturnAddress
    PROVE  /\ Turned(get_rp(cpu, 0), get_rp(cpu, 1), get_rp(cpu, 2), cpu'.sp, Goal, mem')
           /\ Stacked(cpu'.sp, mem', s, f, n + 1) /\ Kept(mem', image)
<1> DEFINE w  == ReturnAddress
           sp == push_sp(cpu.sp)
           m  == push_cells(mem, cpu.sp, w)
<1>1. s \in Address /\ cpu.sp = Cell(s, 2 * n)
  BY DEF Clear, Stacked
<1>2. f[n + 1] = w => Stacked(sp, push_cells(mem, cpu.sp, w), s, f, n + 1)
  BY <1>1, PushesWord
<1>3. sp \in Address
  <2>1. cpu.sp \in Int
    BY Fields, AddressRange
  <2>2. QED
    BY <2>1, Widths DEF push_sp
<1>4. Kept(m, image)
  <2>1. Kept(push_cells(mem, Cell(s, 2 * n), w), image)
    BY KeptPushed
  <2>2. QED
    BY <1>1, <2>1
<1>5. read_u16(m, next_pc) = Target
  <2>1. next_pc = a + 1 /\ Target = Word(mem_read(image, a + 2), mem_read(image, a + 1))
    BY FetchKept
  <2>2. mem_read(m, a + 1) = mem_read(image, a + 1) /\ mem_read(m, a + 2) = mem_read(image, a + 2)
    BY <1>4 DEF Kept
  <2>3. Wrap(next_pc + 1) = a + 2
    BY <2>1 DEF Wrap
  <2>4. QED
    BY <2>1, <2>2, <2>3 DEF read_u16
<1> HIDE DEF sp
<1>6. mem' = m /\ Jump(SetSP(cpu, sp), Goal)
  <2>1. CASE opcode = \hCD
    <3>1. Src # 7
      BY <2>1 DEF Src
    <3>2. CALL
      BY <2>1, DecodeControl
    <3>3. QED
      BY <3>1, <3>2 DEF CALL, Call, ReturnAddress, Goal, sp
  <2>2. CASE opcode \in {\hC7, \hCF, \hD7, \hDF, \hE7, \hEF, \hF7, \hFF}
    <3>1. Src = 7 /\ opcode >= 192
      BY <2>2 DEF Src
    <3>2. RST
      BY <2>2, DecodeControl
    <3>3. QED
      BY <3>1, <3>2 DEF RST, Call, ReturnAddress, Goal, sp
  <2>3. CASE /\ opcode \in {\hC4, \hCC, \hD4, \hDC, \hE4, \hEC, \hF4, \hFC}
             /\ branch_condition_true(cpu.flags, Dst)
    <3>1. Src # 7
      BY <2>3 DEF Src
    <3>2. Cccc
      BY <2>3, DecodeControl
    <3>3. w = Wrap(cpu.pc + 3) /\ Goal = Target
      BY <3>1 DEF ReturnAddress, Goal
    <3>4. Call(w, read_u16(m, next_pc))
      BY <2>3, <3>2, <3>3 DEF Cccc
    <3>5. QED
      BY <1>5, <3>3, <3>4 DEF Call, sp
  <2>4. QED
    BY <2>1, <2>2, <2>3 DEF Calling
<1> HIDE DEF m, w
<1>7. Shows(SetSP(cpu, sp), get_rp(cpu, 0), get_rp(cpu, 1), get_rp(cpu, 2), sp)
  BY <1>3, ShowsItself, ShowsSet
<1>8. Turned(get_rp(cpu, 0), get_rp(cpu, 1), get_rp(cpu, 2), sp, Goal, mem')
  BY <1>6, <1>7, ShowsGoes
<1>9. cpu'.sp = sp
  BY <1>8 DEF Turned
<1>10. QED
  BY <1>2, <1>4, <1>6, <1>8, <1>9 DEF w, m

\* RET, and Rccc when the condition holds.
Returning == \/ opcode = \hC9
             \/ /\ opcode \in {\hC0, \hC8, \hD0, \hD8, \hE0, \hE8, \hF0, \hF8}
                /\ branch_condition_true(cpu.flags, Dst)

\* A return that is taken goes to the word on the top.
LEMMA ReturnStep ==
    ASSUME CpuTypeOK, cpu_step, NEW s, Clear(s), NEW f, NEW n \in 1 .. 9,
           Stacked(cpu.sp, mem, s, f, n), f[n] \in Address, Returning
    PROVE  /\ Turned(get_rp(cpu, 0), get_rp(cpu, 1), get_rp(cpu, 2), cpu'.sp, f[n], mem)
           /\ Stacked(cpu'.sp, mem', s, f, n - 1)
<1> DEFINE sp == pop_sp(cpu.sp)
           c  == SetSP(cpu, sp)
<1>1. s \in Address
  BY DEF Clear
<1>2. pop_u16(mem, cpu.sp) = f[n] /\ Stacked(sp, mem, s, f, n - 1)
  BY <1>1, PopsWord
<1>3. sp \in Address
  BY Fields, Pops DEF CpuTypeOK
<1>4. Jump(c, f[n]) /\ mem' = mem
  <2>1. Return
    BY DecodeControl DEF Returning, RET, Rccc
  <2>2. QED
    BY <1>2, <2>1 DEF Return
<1> HIDE DEF sp
<1>5. Shows(c, get_rp(cpu, 0), get_rp(cpu, 1), get_rp(cpu, 2), sp)
  BY <1>3, ShowsItself, ShowsSet
<1> HIDE DEF c
<1>6. Turned(get_rp(cpu, 0), get_rp(cpu, 1), get_rp(cpu, 2), sp, f[n], mem)
  BY <1>4, <1>5, ShowsGoes
<1>7. cpu'.sp = sp
  BY <1>6 DEF Turned
<1>8. QED
  BY <1>2, <1>4, <1>6, <1>7

\* A jump on a condition, and a call or return on one that does not hold.
LEMMA BranchStep ==
    ASSUME CpuTypeOK, cpu_step, NEW b, b = branch_condition_true(cpu.flags, Dst)
    PROVE  /\ opcode \in {\hC2, \hCA, \hD2, \hDA, \hE2, \hEA, \hF2, \hFA} =>
                Turned(get_rp(cpu, 0), get_rp(cpu, 1), get_rp(cpu, 2), cpu.sp,
                       IF b THEN Target ELSE Wrap(cpu.pc + 3), mem)
           /\ opcode \in {\hC4, \hCC, \hD4, \hDC, \hE4, \hEC, \hF4, \hFC} /\ ~b =>
                Turned(get_rp(cpu, 0), get_rp(cpu, 1), get_rp(cpu, 2), cpu.sp, Wrap(cpu.pc + 3), mem)
           /\ opcode \in {\hC0, \hC8, \hD0, \hD8, \hE0, \hE8, \hF0, \hF8} /\ ~b =>
                Turned(get_rp(cpu, 0), get_rp(cpu, 1), get_rp(cpu, 2), cpu.sp, Wrap(cpu.pc + 1), mem)
<1>1. Shows(cpu, get_rp(cpu, 0), get_rp(cpu, 1), get_rp(cpu, 2), cpu.sp)
  BY ShowsItself
<1> DEFINE same(a) == Turned(get_rp(cpu, 0), get_rp(cpu, 1), get_rp(cpu, 2), cpu.sp, a, mem')
<1>2. /\ \A n : Go(cpu, n) => same(Wrap(cpu.pc + n))
      /\ \A a : Jump(cpu, a) => same(a)
  BY <1>1, ShowsGoes
<1> HIDE DEF same
<1>3. opcode \in {\hC2, \hCA, \hD2, \hDA, \hE2, \hEA, \hF2, \hFA} =>
         mem' = mem /\ same(IF b THEN Target ELSE Wrap(cpu.pc + 3))
  BY <1>2, DecodeControl DEF Jccc
<1>4. opcode \in {\hC4, \hCC, \hD4, \hDC, \hE4, \hEC, \hF4, \hFC} /\ ~b =>
         mem' = mem /\ same(Wrap(cpu.pc + 3))
  BY <1>2, DecodeControl DEF Cccc
<1>5. opcode \in {\hC0, \hC8, \hD0, \hD8, \hE0, \hE8, \hF0, \hF8} /\ ~b =>
         mem' = mem /\ same(Wrap(cpu.pc + 1))
  BY <1>2, DecodeControl DEF Rccc
<1>6. QED
  BY <1>3, <1>4, <1>5 DEF same
-----------------------------------------------------------------------------
(* Comparing, and going one way or the other.                              *)

\* The zero, sign and parity flags are those of the result.
LEMMA ResultFlags ==
    ASSUME NEW v, NEW cy \in BOOLEAN, NEW ac \in BOOLEAN
    PROVE  /\ "S" \in Result(v, cy, ac) <=> v >= 128
           /\ "Z" \in Result(v, cy, ac) <=> v = 0
           /\ "P" \in Result(v, cy, ac) <=> parity_even(v)
           /\ "CY" \in Result(v, cy, ac) <=> cy
<1> DEFINE p == parity_even(v)
<1>1. p \in BOOLEAN
  BY DEF parity_even
<1> HIDE DEF p
<1>2. /\ "S" \in Result(v, cy, ac) <=> v >= 128
      /\ "Z" \in Result(v, cy, ac) <=> v = 0
      /\ "P" \in Result(v, cy, ac) <=> p
  BY <1>1 DEF Result, set_szp, p
<1>3. QED
  BY <1>2, Carries DEF p

\* The ones among the bits of a byte are as many as their sum.
LEMMA CountsBit ==
    ASSUME NEW T, IsFiniteSet(T), NEW n \in Int, Cardinality(T) = n, NEW k, k \notin T,
           NEW b \in {0, 1}, NEW U, U = IF b = 1 THEN T \cup {k} ELSE T
    PROVE  IsFiniteSet(U) /\ Cardinality(U) = n + b
BY FS_AddElement

\* Counting the ones of a byte, and folding it, agree on parity.
LEMMA OnesParity ==
    ASSUME NEW v \in Byte
    PROVE  parity_even(v) <=> Ones(v) % 2 = 0
<1> DEFINE b(i) == (v \div 2^i) % 2
           S(n) == {i \in 0 .. n : b(i) = 1}
<1>1. v \in Int /\ 0 <= v /\ v <= 255
  BY ByteRange
<1>2. /\ b(0) = ((v \div 1) % 2) /\ b(1) = ((v \div 2) % 2) /\ b(2) = ((v \div 4) % 2)
      /\ b(3) = ((v \div 8) % 2) /\ b(4) = ((v \div 16) % 2) /\ b(5) = ((v \div 32) % 2)
      /\ b(6) = ((v \div 64) % 2) /\ b(7) = ((v \div 128) % 2)
  <2>1. 2^0 = 1 /\ 2^1 = 2 /\ 2^2 = 4 /\ 2^3 = 8 /\ 2^4 = 16 /\ 2^5 = 32 /\ 2^6 = 64 /\ 2^7 = 128
    OBVIOUS
  <2>2. QED
    BY <2>1
<1>3. \A i \in 0 .. 7 : b(i) \in {0, 1}
  <2>1. /\ b(0) \in {0, 1} /\ b(1) \in {0, 1} /\ b(2) \in {0, 1} /\ b(3) \in {0, 1}
        /\ b(4) \in {0, 1} /\ b(5) \in {0, 1} /\ b(6) \in {0, 1} /\ b(7) \in {0, 1}
    BY <1>1, <1>2
  <2> HIDE DEF b
  <2>2. \A i \in 0 .. 7 : i = 0 \/ i = 1 \/ i = 2 \/ i = 3 \/ i = 4 \/ i = 5 \/ i = 6 \/ i = 7
    OBVIOUS
  <2>3. QED
    BY <2>1, <2>2
<1>4. Ones(v) = Cardinality(S(7))
  BY DEF Ones
<1> HIDE DEF b
<1>5. IsFiniteSet(S(-1)) /\ Cardinality(S(-1)) = 0
  <2>1. S(-1) = {}
    OBVIOUS
  <2>2. QED
    BY <2>1, FS_EmptySet
<1>6. \A n \in 0 .. 7 : n \notin S(n - 1) /\ S(n) = IF b(n) = 1 THEN S(n - 1) \cup {n} ELSE S(n - 1)
  OBVIOUS
<1> HIDE DEF S
<1>7. ASSUME NEW n \in 0 .. 7, NEW c \in Int, IsFiniteSet(S(n - 1)), Cardinality(S(n - 1)) = c
      PROVE  IsFiniteSet(S(n)) /\ Cardinality(S(n)) = c + b(n)
  <2> DEFINE T == S(n - 1)
             U == S(n)
             d == b(n)
  <2>1. n \notin T /\ U = (IF d = 1 THEN T \cup {n} ELSE T) /\ d \in {0, 1}
    BY <1>3, <1>6
  <2>2. IsFiniteSet(T) /\ Cardinality(T) = c
    BY <1>7
  <2> HIDE DEF T, U, d
  <2>3. IsFiniteSet(U) /\ Cardinality(U) = c + d
    BY <2>1, <2>2, CountsBit
  <2>4. QED
    BY <2>3 DEF U, d
<1>8. /\ b(0) \in Int /\ b(1) \in Int /\ b(2) \in Int /\ b(3) \in Int
      /\ b(4) \in Int /\ b(5) \in Int /\ b(6) \in Int /\ b(7) \in Int
  BY <1>3
<1>9. IsFiniteSet(S(0)) /\ Cardinality(S(0)) = 0 + b(0)
  <2>1. 0 \in 0 .. 7 /\ 0 - 1 = -1
    OBVIOUS
  <2>2. IsFiniteSet(S(0 - 1)) /\ Cardinality(S(0 - 1)) = 0
    BY <1>5, <2>1
  <2>3. QED
    BY <1>7, <2>1, <2>2
<1>10. IsFiniteSet(S(1)) /\ Cardinality(S(1)) = b(0) + b(1)
  <2>1. 1 \in 0 .. 7 /\ 1 - 1 = 0
    OBVIOUS
  <2>2. QED
    BY <1>7, <1>8, <1>9, <2>1
<1>11. IsFiniteSet(S(2)) /\ Cardinality(S(2)) = b(0) + b(1) + b(2)
  <2>1. 2 \in 0 .. 7 /\ 2 - 1 = 1
    OBVIOUS
  <2>2. QED
    BY <1>7, <1>8, <1>10, <2>1
<1>12. IsFiniteSet(S(3)) /\ Cardinality(S(3)) = b(0) + b(1) + b(2) + b(3)
  <2>1. 3 \in 0 .. 7 /\ 3 - 1 = 2
    OBVIOUS
  <2>2. QED
    BY <1>7, <1>8, <1>11, <2>1
<1>13. IsFiniteSet(S(4)) /\ Cardinality(S(4)) = b(0) + b(1) + b(2) + b(3) + b(4)
  <2>1. 4 \in 0 .. 7 /\ 4 - 1 = 3
    OBVIOUS
  <2>2. QED
    BY <1>7, <1>8, <1>12, <2>1
<1>14. IsFiniteSet(S(5)) /\ Cardinality(S(5)) = b(0) + b(1) + b(2) + b(3) + b(4) + b(5)
  <2>1. 5 \in 0 .. 7 /\ 5 - 1 = 4
    OBVIOUS
  <2>2. QED
    BY <1>7, <1>8, <1>13, <2>1
<1>15. IsFiniteSet(S(6)) /\ Cardinality(S(6)) = b(0) + b(1) + b(2) + b(3) + b(4) + b(5) + b(6)
  <2>1. 6 \in 0 .. 7 /\ 6 - 1 = 5
    OBVIOUS
  <2>2. QED
    BY <1>7, <1>8, <1>14, <2>1
<1>16. Cardinality(S(7)) = b(0) + b(1) + b(2) + b(3) + b(4) + b(5) + b(6) + b(7)
  <2>1. 7 \in 0 .. 7 /\ 7 - 1 = 6
    OBVIOUS
  <2>2. QED
    BY <1>7, <1>8, <1>15, <2>1
<1>17. parity_even(v) <=> (b(0) + b(1) + b(2) + b(3) + b(4) + b(5) + b(6) + b(7)) % 2 = 0
  <2> DEFINE q == Bits(v)
  <2>1. /\ q[1] = b(0) /\ q[2] = b(1) /\ q[3] = b(2) /\ q[4] = b(3) /\ q[5] = b(4) /\ q[6] = b(5)
        /\ q[7] = b(6) /\ q[8] = b(7)
    BY <1>2 DEF Bits, Bit
  <2>2. parity_even(v) <=> (q[1] + q[2] + q[3] + q[4] + q[5] + q[6] + q[7] + q[8]) % 2 = 0
    BY Zenon DEF parity_even
  <2> HIDE DEF q
  <2>3. QED
    BY <2>1, <2>2
<1>18. QED
  BY <1>4, <1>16, <1>17

\* The flags of CMP tell the order, the equality, the parity and the sign.
LEMMA ComparesRight ==
    ASSUME NEW c \in Cpus, NEW x \in Byte, NEW y \in Byte, c.r["A"] = x, NEW k \in 0 .. 7,
           NEW f, f = sub_from_a(c, y, 0).flags
    PROVE  branch_condition_true(f, k) <=> Holds(k, x, y)
<1> DEFINE diff == (x - y) % 256
           cy   == x < y
           ac   == Digit(x) < Digit(y)
<1>1. x \in Int /\ 0 <= x /\ x <= 255 /\ y \in Int /\ 0 <= y /\ y <= 255
  BY ByteRange
<1>2. f = Result(diff, cy, ac)
  <2> DEFINE v == Lo(x - y)
             g == Result(v, x < y, Digit(x) < Digit(y))
  <2>1. y + 0 = y /\ Digit(y) + 0 = Digit(y)
    BY <1>1 DEF Digit
  <2>2. sub_from_a(c, y, 0) = SetA(c, v, g)
    BY <2>1 DEF sub_from_a
  <2> HIDE DEF v, g
  <2>3. f = g
    <3>1. SetA(c, v, g).flags = g
      <4>1. \A u, h : SetA(c, u, h).flags = h
        BY DEF SetA, SetReg, SetFlags, Cpus
      <4>2. QED
        BY <4>1, Zenon
    <3>2. QED
      BY <2>2, <3>1, Zenon
  <2>4. v = diff
    BY DEF v, Lo
  <2>5. QED
    BY <2>3, <2>4, Zenon DEF g
<1>3. diff \in Byte
  BY <1>1, Widths
<1>4. diff = 0 <=> x = y
  <2>1. diff = IF x >= y THEN x - y ELSE x - y + 256
    BY <1>1
  <2> HIDE DEF diff
  <2>2. QED
    BY <1>1, <2>1
<1>5. cy \in BOOLEAN /\ ac \in BOOLEAN
  OBVIOUS
<1>6. parity_even(diff) <=> Ones(diff) % 2 = 0
  BY <1>3, OnesParity
<1>7. Ones(diff) % 2 = 1 <=> ~(Ones(diff) % 2 = 0)
  <2>1. Ones(diff) \in Nat
    <3> DEFINE T == {i \in 0 .. 7 : (diff \div 2^i) % 2 = 1}
    <3>1. IsFiniteSet(0 .. 7)
      <4>1. \A n \in Int : IsFiniteSet(0 .. n)
        BY FS_Interval
      <4>2. 7 \in Int
        OBVIOUS
      <4>3. QED
        BY <4>1, <4>2, Zenon
    <3>2. T \in SUBSET (0 .. 7)
      OBVIOUS
    <3>3. Ones(diff) = Cardinality(T)
      BY DEF Ones
    <3> HIDE DEF T
    <3>4. IsFiniteSet(T)
      BY <3>1, <3>2, FS_Subset
    <3>5. QED
      BY <3>3, <3>4, FS_CardinalityType
  <2>2. QED
    BY <2>1
<1>8. cy <=> x < y
  OBVIOUS
<1>9. diff \in Int /\ (diff < 128 <=> ~(diff >= 128))
  BY <1>1
<1>10. x >= y <=> ~(x < y)
  BY <1>1
<1> HIDE DEF diff, cy, ac
<1>11. /\ "S" \in f <=> diff >= 128
       /\ "Z" \in f <=> x = y
       /\ "P" \in f <=> parity_even(diff)
       /\ "CY" \in f <=> x < y
  BY <1>2, <1>4, <1>5, <1>8, ResultFlags
<1>12. /\ branch_condition_true(f, 0) <=> ~("Z" \in f)
       /\ branch_condition_true(f, 1) <=> "Z" \in f
       /\ branch_condition_true(f, 2) <=> ~("CY" \in f)
       /\ branch_condition_true(f, 3) <=> "CY" \in f
       /\ branch_condition_true(f, 4) <=> ~("P" \in f)
       /\ branch_condition_true(f, 5) <=> "P" \in f
       /\ branch_condition_true(f, 6) <=> ~("S" \in f)
       /\ branch_condition_true(f, 7) <=> "S" \in f
  BY DEF branch_condition_true
<1>13. /\ Holds(0, x, y) <=> x # y
       /\ Holds(1, x, y) <=> x = y
       /\ Holds(2, x, y) <=> x >= y
       /\ Holds(3, x, y) <=> x < y
       /\ Holds(4, x, y) <=> Ones(diff) % 2 = 1
       /\ Holds(5, x, y) <=> Ones(diff) % 2 = 0
       /\ Holds(6, x, y) <=> diff < 128
       /\ Holds(7, x, y) <=> diff >= 128
  BY DEF Holds, diff
<1>14. k = 0 \/ k = 1 \/ k = 2 \/ k = 3 \/ k = 4 \/ k = 5 \/ k = 6 \/ k = 7
  OBVIOUS
<1>15. CASE k = 0
  BY <1>11, <1>12, <1>13, <1>15
<1>16. CASE k = 1
  BY <1>11, <1>12, <1>13, <1>16
<1>17. CASE k = 2
  BY <1>10, <1>11, <1>12, <1>13, <1>17
<1>18. CASE k = 3
  BY <1>11, <1>12, <1>13, <1>18
<1>19. CASE k = 4
  BY <1>6, <1>7, <1>11, <1>12, <1>13, <1>19
<1>20. CASE k = 5
  BY <1>6, <1>11, <1>12, <1>13, <1>20
<1>21. CASE k = 6
  BY <1>9, <1>11, <1>12, <1>13, <1>21
<1>22. CASE k = 7
  BY <1>11, <1>12, <1>13, <1>22
<1>23. QED
  BY <1>14, <1>15, <1>16, <1>17, <1>18, <1>19, <1>20, <1>21, <1>22, Zenon

\* Where cpu_init puts the stack.
Top == 65023

\* The part the three programs share, up to the branch: the bytes are
\* compared, and nothing else has happened.
Comparing(c, m, k, x, y) ==
    /\ c.pc \in {256, 259, 260, 261} /\ ~c.halted
    /\ Stacked(c.sp, m, Top, <<264>>, 0) /\ get_rp(c, 1) = 0
    /\ c.pc # 256 => get_rp(c, 0) = Word(x, y)
    /\ c.pc = 260 => c.r["A"] = x
    /\ c.pc = 261 => (branch_condition_true(c.flags, k) <=> Holds(k, x, y))

\* The flags of CMP say of the two bytes what the conditions ask.
LEMMA CompareStep ==
    ASSUME CpuTypeOK, cpu_step, NEW x \in Byte, NEW y \in Byte, NEW k \in 0 .. 7,
           Comparing(cpu, mem, k, x, y), cpu.pc # 261,
           cpu.pc = 256 => opcode = \h01 /\ Target = Word(x, y),
           cpu.pc = 259 => opcode = \h78, cpu.pc = 260 => opcode = \hB9
    PROVE  Comparing(cpu', mem', k, x, y) /\ mem' = mem
<1>1. Stacked(cpu.sp, mem, Top, <<264>>, 0) /\ get_rp(cpu, 1) = 0 /\ ~cpu.halted
  BY DEF Comparing
<1>2. CASE cpu.pc = 256
  <2>1. Turned(Word(x, y), get_rp(cpu, 1), get_rp(cpu, 2), cpu.sp, Wrap(cpu.pc + 3), mem)
    BY <1>2, LoadStep
  <2>2. Wrap(cpu.pc + 3) = 259
    BY <1>2 DEF Wrap
  <2>3. QED
    BY <1>1, <2>1, <2>2 DEF Turned, Comparing
<1>3. CASE cpu.pc = 259
  <2>1. Dst = 7 /\ Src = 0 /\ opcode \in (\h40 .. \h7F) \ {\h76}
    BY <1>3 DEF Dst, Src
  <2>2. Leaves([cpu.r EXCEPT !["A"] = cpu.r["B"]], cpu.flags, 1)
    BY <2>1, MoveStep, RegisterNames
  <2>3. cpu'.r = [cpu.r EXCEPT !["A"] = cpu.r["B"]] /\ cpu.r \in [Registers -> Byte]
    BY <2>2 DEF Leaves, CpuTypeOK, Cpus
  <2>4. /\ cpu'.r["A"] = cpu.r["B"] /\ cpu'.r["B"] = cpu.r["B"] /\ cpu'.r["C"] = cpu.r["C"]
        /\ cpu'.r["D"] = cpu.r["D"] /\ cpu'.r["E"] = cpu.r["E"]
    BY <2>3 DEF Registers
  <2>5. get_rp(cpu', 0) = get_rp(cpu, 0) /\ get_rp(cpu', 1) = get_rp(cpu, 1)
    BY <2>4, PairWords
  <2>6. cpu.r["B"] = x
    <3>1. Word(cpu.r["B"], cpu.r["C"]) = Word(x, y)
      BY <1>3, PairWords DEF Comparing
    <3>2. cpu.r["B"] \in Byte /\ cpu.r["C"] \in Byte
      BY <2>3 DEF Registers
    <3>3. QED
      BY <3>1, <3>2, BytesWord
  <2>7. cpu'.pc = 260
    BY <1>3, <2>2 DEF Leaves, Wrap
  <2>8. cpu'.sp = cpu.sp /\ ~cpu'.halted /\ mem' = mem
    BY <1>1, <2>2 DEF Leaves
  <2>9. get_rp(cpu, 0) = Word(x, y)
    BY <1>3 DEF Comparing
  <2>10. QED
    BY <1>1, <2>4, <2>5, <2>6, <2>7, <2>8, <2>9 DEF Comparing
<1>4. CASE cpu.pc = 260
  <2> DEFINE c == Alu(cpu, Dst, cpu.r[RegisterOf[Src]])
             f == sub_from_a(cpu, y, 0).flags
  <2>1. Dst = 7 /\ Src = 1 /\ opcode \in \h80 .. \hBF
    BY <1>4 DEF Dst, Src
  <2>2. cpu \in Cpus /\ get_rp(cpu, 0) = Word(x, y) /\ cpu.r["A"] = x
    BY <1>4 DEF CpuTypeOK, Comparing
  <2>3. cpu.r["C"] = y
    <3>1. cpu.r["B"] \in Byte /\ cpu.r["C"] \in Byte
      BY <2>2 DEF Cpus, Registers
    <3>2. Word(cpu.r["B"], cpu.r["C"]) = Word(x, y)
      BY <2>2, PairWords
    <3>3. QED
      BY <3>1, <3>2, BytesWord
  <2>4. Leaves(c.r, c.flags, 1)
    BY <2>1, AluStep
  <2>5. c.r = cpu.r /\ c.flags = f
    <3>1. c = SetFlags(cpu, f)
      BY <2>1, <2>3, RegisterNames DEF Alu, cmp_flags_only
    <3> HIDE DEF c, f
    <3>2. QED
      BY <2>2, <3>1 DEF SetFlags, Cpus
  <2> HIDE DEF c
  <2>6. branch_condition_true(f, k) <=> Holds(k, x, y)
    BY <2>2, ComparesRight
  <2> HIDE DEF f
  <2>7. cpu'.r = cpu.r /\ cpu'.flags = f /\ cpu'.sp = cpu.sp /\ ~cpu'.halted /\ mem' = mem
    BY <1>1, <2>4, <2>5 DEF Leaves
  <2>8. cpu'.pc = 261
    BY <1>4, <2>4 DEF Leaves, Wrap
  <2>9. get_rp(cpu', 0) = get_rp(cpu, 0) /\ get_rp(cpu', 1) = get_rp(cpu, 1)
    BY <2>7, PairWords
  <2>10. QED
    BY <1>1, <2>2, <2>6, <2>7, <2>8, <2>9 DEF Comparing
<1>5. QED
  BY <1>2, <1>3, <1>4 DEF Comparing

\* MVI D,1 and HLT, where D and E are 0 before.
LEMMA MarkStep ==
    ASSUME CpuTypeOK, cpu_step, opcode = \h16, Operand = 1, get_rp(cpu, 1) = 0
    PROVE  /\ get_rp(cpu', 1) = 256 /\ cpu'.pc = Wrap(cpu.pc + 2) /\ cpu'.sp = cpu.sp
           /\ ~cpu'.halted /\ mem' = mem
<1>1. cpu \in Cpus /\ ~cpu.halted
  BY DEF CpuTypeOK, cpu_step
<1>2. Go(SetReg(cpu, "D", 1), 2) /\ mem' = mem
  <2>1. MVI /\ Dst = 2
    BY DecodeMemory DEF Dst
  <2>2. QED
    BY <2>1, RegisterNames DEF MVI, write_reg, write_cell
<1>3. /\ cpu'.r = [cpu.r EXCEPT !["D"] = 1] /\ cpu'.pc = Wrap(cpu.pc + 2) /\ cpu'.sp = cpu.sp
      /\ ~cpu'.halted
  BY <1>1, <1>2 DEF Go, SetReg, Cpus
<1>4. cpu.r["E"] = 0
  <2>1. cpu.r["D"] \in Byte /\ cpu.r["E"] \in Byte
    BY <1>1 DEF Cpus, Registers
  <2>2. 256 * cpu.r["D"] + cpu.r["E"] = 0
    BY PairWords DEF Word
  <2>3. QED
    BY <2>1, <2>2, ByteRange
<1>5. cpu'.r["D"] = 1 /\ cpu'.r["E"] = cpu.r["E"]
  BY <1>1, <1>3 DEF Cpus, Registers
<1>6. get_rp(cpu', 1) = 256
  BY <1>4, <1>5, PairWords DEF Word
<1>7. QED
  BY <1>2, <1>3, <1>6

\* HLT leaves all that is seen as it was.
LEMMA StopStep ==
    ASSUME CpuTypeOK, cpu_step, opcode = \h76
    PROVE  /\ get_rp(cpu', 0) = get_rp(cpu, 0) /\ get_rp(cpu', 1) = get_rp(cpu, 1)
           /\ get_rp(cpu', 2) = get_rp(cpu, 2) /\ cpu'.sp = cpu.sp /\ cpu'.out = cpu.out
           /\ cpu'.pc = Wrap(cpu.pc + 1) /\ cpu'.halted /\ mem' = mem
BY HaltStep, PairWords

\* The two ways through the programs: with the mark in D, or without it.
JumpAt(c, m, k, x, y) ==
    /\ Kept(m, JumpTask(k, x, y).image)
    /\ \/ Comparing(c, m, k, x, y)
       \/ /\ Stacked(c.sp, m, Top, <<264>>, 0)
          /\ \/ ~c.halted /\ c.pc = 264 /\ get_rp(c, 1) = 0 /\ ~Holds(k, x, y)
             \/ ~c.halted /\ c.pc = 265 /\ get_rp(c, 1) = 0 /\ Holds(k, x, y)
             \/ ~c.halted /\ c.pc = 267 /\ get_rp(c, 1) = 256 /\ Holds(k, x, y)
             \/ c.halted /\ get_rp(c, 1) = 256 * Bool(Holds(k, x, y))

CallAt(c, m, k, x, y) ==
    /\ Kept(m, CallTask(k, x, y).image)
    /\ \/ Comparing(c, m, k, x, y)
       \/ /\ ~c.halted /\ Holds(k, x, y) /\ Stacked(c.sp, m, Top, <<264>>, 1)
          /\ \/ c.pc = 265 /\ get_rp(c, 1) = 0
             \/ c.pc = 267 /\ get_rp(c, 1) = 256
       \/ /\ Stacked(c.sp, m, Top, <<264>>, 0)
          /\ get_rp(c, 1) = 256 * Bool(Holds(k, x, y))
          /\ c.halted \/ c.pc = 264

ReturnAt(c, m, k, x, y) ==
    /\ Kept(m, ReturnTask(k, x, y).image)
    /\ \/ Comparing(c, m, k, x, y)
       \/ /\ ~c.halted /\ Stacked(c.sp, m, Top, <<264>>, 1)
          /\ \/ /\ c.pc = 265 /\ get_rp(c, 1) = 0
                /\ branch_condition_true(c.flags, k) <=> Holds(k, x, y)
             \/ c.pc = 266 /\ get_rp(c, 1) = 0 /\ ~Holds(k, x, y)
             \/ c.pc = 268 /\ get_rp(c, 1) = 256 /\ ~Holds(k, x, y)
       \/ /\ Stacked(c.sp, m, Top, <<264>>, 0)
          /\ get_rp(c, 1) = 256 * Bool(~Holds(k, x, y))
          /\ c.halted \/ c.pc = 264

\* The condition is a field of the opcode.
LEMMA Conditions ==
    ASSUME NEW k \in 0 .. 7
    PROVE  /\ opcode = \hC0 + 8 * k => /\ opcode \in {\hC0, \hC8, \hD0, \hD8, \hE0, \hE8, \hF0, \hF8}
                                       /\ Dst = k
           /\ opcode = \hC2 + 8 * k => /\ opcode \in {\hC2, \hCA, \hD2, \hDA, \hE2, \hEA, \hF2, \hFA}
                                       /\ Dst = k
           /\ opcode = \hC4 + 8 * k => /\ opcode \in {\hC4, \hCC, \hD4, \hDC, \hE4, \hEC, \hF4, \hFC}
                                       /\ Dst = k /\ Src = 4
<1>1. k = 0 \/ k = 1 \/ k = 2 \/ k = 3 \/ k = 4 \/ k = 5 \/ k = 6 \/ k = 7
  OBVIOUS
<1>2. QED
  BY <1>1 DEF Dst, Src

\* The stack the kernel sets lies clear of the programs.
LEMMA Starts == Clear(Top) /\ <<264>>[0 + 1] = 264 /\ <<264>>[1] = 264 /\ 264 \in Address
BY AddressRange DEF Clear, Top

\* A program at \h100 is fetched as it was written, wherever it is.
LEMMA FetchProgram ==
    ASSUME NEW code, Len(code) \in 1 .. 99, Kept(mem, At(\h100, code))
    PROVE  \A i \in 1 .. Len(code) :
              cpu.pc = 255 + i => /\ opcode = code[i]
                                  /\ i + 1 <= Len(code) => Operand = code[i + 1]
                                  /\ i + 2 <= Len(code) => Target = Word(code[i + 2], code[i + 1])
                                  /\ Wrap(cpu.pc + 1) = 256 + i /\ Wrap(cpu.pc + 2) = 257 + i
                                  /\ Wrap(cpu.pc + 3) = 258 + i
BY FetchOwn

\* A step keeps the program that jumps in its places.
LEMMA JumpStep ==
    ASSUME CpuTypeOK, cpu_step, NEW k \in 0 .. 7, NEW x \in Byte, NEW y \in Byte,
           JumpAt(cpu, mem, k, x, y)
    PROVE  JumpAt(cpu', mem', k, x, y)
<1> DEFINE code  == Compare(x, y) \o Imm(\hC2 + 8 * k, \h109) \o <<\h76, \h16, 1, \h76>>
           image == JumpTask(k, x, y).image
           holds == Holds(k, x, y)
           w     == Word(x, y)
<1>1. Hi(w) = x /\ Lo(w) = y
  BY BytesWord
<1> HIDE DEF w
<1>2. /\ Len(code) = 12 /\ code[1] = \h01 /\ code[2] = y /\ code[3] = x /\ code[4] = \h78
      /\ code[5] = \hB9 /\ code[6] = \hC2 + 8 * k /\ code[7] = 9 /\ code[8] = 1 /\ code[9] = \h76
      /\ code[10] = \h16 /\ code[11] = 1 /\ code[12] = \h76
  BY <1>1 DEF Compare, Imm, w, Lo, Hi
<1>3. image = At(\h100, code)
  BY DEF JumpTask, Task
<1> HIDE DEF code, image
<1>4. Kept(mem, image) /\ ~cpu.halted
  BY DEF JumpAt, cpu_step, image
<1>5. \A i \in 1 .. 12 :
         cpu.pc = 255 + i => /\ opcode = code[i]
                             /\ i + 1 <= 12 => Operand = code[i + 1]
                             /\ i + 2 <= 12 => Target = Word(code[i + 2], code[i + 1])
                             /\ Wrap(cpu.pc + 1) = 256 + i /\ Wrap(cpu.pc + 2) = 257 + i
                             /\ Wrap(cpu.pc + 3) = 258 + i
  <2>1. Len(code) \in 1 .. 99 /\ Kept(mem, At(\h100, code))
    BY <1>2, <1>3, <1>4
  <2>2. \A i \in 1 .. Len(code) :
           cpu.pc = 255 + i => /\ opcode = code[i]
                               /\ i + 1 <= Len(code) => Operand = code[i + 1]
                               /\ i + 2 <= Len(code) => Target = Word(code[i + 2], code[i + 1])
                               /\ Wrap(cpu.pc + 1) = 256 + i /\ Wrap(cpu.pc + 2) = 257 + i
                               /\ Wrap(cpu.pc + 3) = 258 + i
    BY <2>1, FetchProgram
  <2>3. Len(code) = 12
    BY <1>2
  <2>4. QED
    BY <2>2, <2>3
<1>6. CASE Comparing(cpu, mem, k, x, y)
  <2>1. CASE cpu.pc # 261
    <3>1. /\ cpu.pc = 256 => opcode = \h01 /\ Target = w
          /\ cpu.pc = 259 => opcode = \h78
          /\ cpu.pc = 260 => opcode = \hB9
      BY <1>2, <1>5 DEF w
    <3>2. Comparing(cpu', mem', k, x, y) /\ mem' = mem
      BY <1>6, <2>1, <3>1, CompareStep DEF w
    <3>3. QED
      BY <1>4, <3>2 DEF JumpAt, image
  <2>2. CASE cpu.pc = 261
    <3>1. opcode = \hC2 + 8 * k /\ Target = 265 /\ Wrap(cpu.pc + 3) = 264
      BY <1>2, <1>5, <2>2 DEF Word
    <3>2. opcode \in {\hC2, \hCA, \hD2, \hDA, \hE2, \hEA, \hF2, \hFA} /\ Dst = k
      BY <3>1, Conditions
    <3>3. /\ get_rp(cpu, 1) = 0 /\ Stacked(cpu.sp, mem, Top, <<264>>, 0)
          /\ branch_condition_true(cpu.flags, k) <=> holds
      BY <1>6, <2>2 DEF Comparing
    <3>4. Turned(get_rp(cpu, 0), get_rp(cpu, 1), get_rp(cpu, 2), cpu.sp,
                 IF branch_condition_true(cpu.flags, Dst) THEN Target ELSE Wrap(cpu.pc + 3), mem)
      BY <3>2, BranchStep
    <3>5. /\ get_rp(cpu', 1) = 0 /\ ~cpu'.halted /\ mem' = mem /\ cpu'.sp = cpu.sp
          /\ cpu'.pc = IF holds THEN 265 ELSE 264
      BY <3>1, <3>2, <3>3, <3>4 DEF Turned
    <3>6. QED
      BY <1>4, <3>3, <3>5 DEF JumpAt, image
  <2>3. QED
    BY <2>1, <2>2
<1>7. ASSUME ~Comparing(cpu, mem, k, x, y)
      PROVE  /\ Stacked(cpu.sp, mem, Top, <<264>>, 0)
             /\ \/ cpu.pc = 264 /\ get_rp(cpu, 1) = 0 /\ ~holds
                \/ cpu.pc = 265 /\ get_rp(cpu, 1) = 0 /\ holds
                \/ cpu.pc = 267 /\ get_rp(cpu, 1) = 256 /\ holds
  BY <1>4, <1>7 DEF JumpAt
<1>8. CASE ~Comparing(cpu, mem, k, x, y) /\ cpu.pc \in {264, 267}
  <2>1. opcode = \h76
    BY <1>2, <1>5, <1>8
  <2>2. get_rp(cpu, 1) = 256 * Bool(holds)
    BY <1>7, <1>8 DEF Bool
  <2>3. QED
    BY <1>4, <1>7, <1>8, <2>1, <2>2, StopStep DEF JumpAt, image
<1>9. CASE ~Comparing(cpu, mem, k, x, y) /\ cpu.pc = 265
  <2>1. opcode = \h16 /\ Operand = 1 /\ Wrap(cpu.pc + 2) = 267
    BY <1>2, <1>5, <1>9
  <2>2. get_rp(cpu, 1) = 0 /\ holds
    BY <1>7, <1>9
  <2>3. QED
    <3>1. get_rp(cpu', 1) = 256 /\ cpu'.pc = 267 /\ cpu'.sp = cpu.sp /\ ~cpu'.halted /\ mem' = mem
      BY <2>1, <2>2, MarkStep
    <3>2. QED
      <4>1. Stacked(cpu'.sp, mem', Top, <<264>>, 0) /\ Kept(mem', image)
        BY <1>4, <1>7, <1>9, <3>1
      <4>2. QED
        BY <2>2, <3>1, <4>1, Zenon DEF JumpAt, image
<1>10. QED
  BY <1>6, <1>7, <1>8, <1>9

\* A step keeps the program that calls in its places.
LEMMA CallStep ==
    ASSUME CpuTypeOK, cpu_step, NEW k \in 0 .. 7, NEW x \in Byte, NEW y \in Byte,
           CallAt(cpu, mem, k, x, y)
    PROVE  CallAt(cpu', mem', k, x, y)
<1> DEFINE code  == Compare(x, y) \o Imm(\hC4 + 8 * k, \h109) \o <<\h76, \h16, 1, \hC9>>
           image == CallTask(k, x, y).image
           holds == Holds(k, x, y)
           w     == Word(x, y)
<1>1. Hi(w) = x /\ Lo(w) = y
  BY BytesWord
<1> HIDE DEF w
<1>2. /\ Len(code) = 12 /\ code[1] = \h01 /\ code[2] = y /\ code[3] = x /\ code[4] = \h78
      /\ code[5] = \hB9 /\ code[6] = \hC4 + 8 * k /\ code[7] = 9 /\ code[8] = 1 /\ code[9] = \h76
      /\ code[10] = \h16 /\ code[11] = 1 /\ code[12] = \hC9
  BY <1>1 DEF Compare, Imm, w, Lo, Hi
<1>3. image = At(\h100, code)
  BY DEF CallTask, Task
<1> HIDE DEF code, image
<1>4. Kept(mem, image) /\ ~cpu.halted
  BY DEF CallAt, cpu_step, image
<1>5. \A i \in 1 .. 12 :
         cpu.pc = 255 + i => /\ opcode = code[i]
                             /\ i + 1 <= 12 => Operand = code[i + 1]
                             /\ i + 2 <= 12 => Target = Word(code[i + 2], code[i + 1])
                             /\ Wrap(cpu.pc + 1) = 256 + i /\ Wrap(cpu.pc + 2) = 257 + i
                             /\ Wrap(cpu.pc + 3) = 258 + i
  <2>1. Len(code) \in 1 .. 99 /\ Kept(mem, At(\h100, code))
    BY <1>2, <1>3, <1>4
  <2>2. \A i \in 1 .. Len(code) :
           cpu.pc = 255 + i => /\ opcode = code[i]
                               /\ i + 1 <= Len(code) => Operand = code[i + 1]
                               /\ i + 2 <= Len(code) => Target = Word(code[i + 2], code[i + 1])
                               /\ Wrap(cpu.pc + 1) = 256 + i /\ Wrap(cpu.pc + 2) = 257 + i
                               /\ Wrap(cpu.pc + 3) = 258 + i
    BY <2>1, FetchProgram
  <2>3. Len(code) = 12
    BY <1>2
  <2>4. QED
    BY <2>2, <2>3
<1>6. CASE Comparing(cpu, mem, k, x, y)
  <2>1. CASE cpu.pc # 261
    <3>1. /\ cpu.pc = 256 => opcode = \h01 /\ Target = w
          /\ cpu.pc = 259 => opcode = \h78
          /\ cpu.pc = 260 => opcode = \hB9
      BY <1>2, <1>5 DEF w
    <3>2. Comparing(cpu', mem', k, x, y) /\ mem' = mem
      BY <1>6, <2>1, <3>1, CompareStep DEF w
    <3>3. QED
      BY <1>4, <3>2 DEF CallAt, image
  <2>2. CASE cpu.pc = 261
    <3>1. opcode = \hC4 + 8 * k /\ Target = 265 /\ Wrap(cpu.pc + 3) = 264
      BY <1>2, <1>5, <2>2 DEF Word
    <3>2. opcode \in {\hC4, \hCC, \hD4, \hDC, \hE4, \hEC, \hF4, \hFC} /\ Dst = k /\ Src = 4
      BY <3>1, Conditions
    <3>3. /\ get_rp(cpu, 1) = 0 /\ Stacked(cpu.sp, mem, Top, <<264>>, 0)
          /\ branch_condition_true(cpu.flags, k) <=> holds
      BY <1>6, <2>2 DEF Comparing
    <3>4. CASE holds
      <4>1. Calling
        BY <3>2, <3>3, <3>4 DEF Calling
      <4>2. Goal = 265 /\ <<264>>[0 + 1] = ReturnAddress
        BY <3>1, <3>2, Starts DEF Goal, ReturnAddress
      <4>3. /\ Turned(get_rp(cpu, 0), get_rp(cpu, 1), get_rp(cpu, 2), cpu'.sp, Goal, mem')
            /\ Stacked(cpu'.sp, mem', Top, <<264>>, 0 + 1) /\ Kept(mem', image)
        BY <1>4, <2>2, <3>3, <4>1, <4>2, Starts, EnterStep
      <4>4. QED
        <5>1. /\ get_rp(cpu', 1) = 0 /\ cpu'.pc = 265 /\ ~cpu'.halted
              /\ Stacked(cpu'.sp, mem', Top, <<264>>, 1)
          BY <3>3, <4>2, <4>3 DEF Turned
        <5>2. QED
          BY <3>4, <4>3, <5>1, Zenon DEF CallAt, image
    <3>5. CASE ~holds
      <4>1. Turned(get_rp(cpu, 0), get_rp(cpu, 1), get_rp(cpu, 2), cpu.sp, Wrap(cpu.pc + 3), mem)
        BY <3>2, <3>3, <3>5, BranchStep
      <4>2. 256 * Bool(holds) = 0
        BY <3>5 DEF Bool
      <4>3. QED
        BY <1>4, <3>1, <3>3, <4>1, <4>2 DEF Turned, CallAt, image
    <3>6. QED
      BY <3>4, <3>5
  <2>3. QED
    BY <2>1, <2>2
<1>7. CASE /\ holds /\ Stacked(cpu.sp, mem, Top, <<264>>, 1)
           /\ cpu.pc = 265 /\ get_rp(cpu, 1) = 0
  <2>1. opcode = \h16 /\ Operand = 1 /\ Wrap(cpu.pc + 2) = 267
    BY <1>2, <1>5, <1>7
  <2>2. QED
    <3>1. get_rp(cpu', 1) = 256 /\ cpu'.pc = 267 /\ cpu'.sp = cpu.sp /\ ~cpu'.halted /\ mem' = mem
      BY <1>7, <2>1, MarkStep
    <3>2. QED
      <4>1. Stacked(cpu'.sp, mem', Top, <<264>>, 1) /\ Kept(mem', image)
        BY <1>4, <1>7, <3>1
      <4>2. QED
        BY <1>7, <3>1, <4>1, Zenon DEF CallAt, image
<1>8. CASE /\ holds /\ Stacked(cpu.sp, mem, Top, <<264>>, 1)
           /\ cpu.pc = 267 /\ get_rp(cpu, 1) = 256
  <2>1. opcode = \hC9
    BY <1>2, <1>5, <1>8
  <2>2. Returning
    BY <2>1 DEF Returning
  <2>3. /\ Turned(get_rp(cpu, 0), get_rp(cpu, 1), get_rp(cpu, 2), cpu'.sp, 264, mem)
        /\ Stacked(cpu'.sp, mem', Top, <<264>>, 1 - 1)
    BY <1>8, <2>2, Starts, ReturnStep
  <2>4. get_rp(cpu, 1) = 256 * Bool(holds)
    BY <1>8 DEF Bool
  <2>5. QED
    BY <1>4, <2>3, <2>4 DEF Turned, CallAt, image
<1>9. CASE /\ Stacked(cpu.sp, mem, Top, <<264>>, 0) /\ get_rp(cpu, 1) = 256 * Bool(holds)
           /\ cpu.pc = 264
  <2>1. opcode = \h76
    BY <1>2, <1>5, <1>9
  <2>2. QED
    BY <1>4, <1>9, <2>1, StopStep DEF CallAt, image
<1>10. QED
  BY <1>4, <1>6, <1>7, <1>8, <1>9 DEF CallAt

\* A step keeps the program that returns in its places.
LEMMA BackStep ==
    ASSUME CpuTypeOK, cpu_step, NEW k \in 0 .. 7, NEW x \in Byte, NEW y \in Byte,
           ReturnAt(cpu, mem, k, x, y)
    PROVE  ReturnAt(cpu', mem', k, x, y)
<1> DEFINE code  == Compare(x, y) \o Imm(\hCD, \h109) \o <<\h76, \hC0 + 8 * k, \h16, 1, \hC9>>
           image == ReturnTask(k, x, y).image
           holds == Holds(k, x, y)
           w     == Word(x, y)
<1>1. Hi(w) = x /\ Lo(w) = y
  BY BytesWord
<1> HIDE DEF w
<1>2. /\ Len(code) = 13 /\ code[1] = \h01 /\ code[2] = y /\ code[3] = x /\ code[4] = \h78
      /\ code[5] = \hB9 /\ code[6] = \hCD /\ code[7] = 9 /\ code[8] = 1 /\ code[9] = \h76
      /\ code[10] = \hC0 + 8 * k /\ code[11] = \h16 /\ code[12] = 1 /\ code[13] = \hC9
  BY <1>1 DEF Compare, Imm, w, Lo, Hi
<1>3. image = At(\h100, code)
  BY DEF ReturnTask, Task
<1> HIDE DEF code, image
<1>4. Kept(mem, image) /\ ~cpu.halted
  BY DEF ReturnAt, cpu_step, image
<1>5. \A i \in 1 .. 13 :
         cpu.pc = 255 + i => /\ opcode = code[i]
                             /\ i + 1 <= 13 => Operand = code[i + 1]
                             /\ i + 2 <= 13 => Target = Word(code[i + 2], code[i + 1])
                             /\ Wrap(cpu.pc + 1) = 256 + i /\ Wrap(cpu.pc + 2) = 257 + i
                             /\ Wrap(cpu.pc + 3) = 258 + i
  <2>1. Len(code) \in 1 .. 99 /\ Kept(mem, At(\h100, code))
    BY <1>2, <1>3, <1>4
  <2>2. \A i \in 1 .. Len(code) :
           cpu.pc = 255 + i => /\ opcode = code[i]
                               /\ i + 1 <= Len(code) => Operand = code[i + 1]
                               /\ i + 2 <= Len(code) => Target = Word(code[i + 2], code[i + 1])
                               /\ Wrap(cpu.pc + 1) = 256 + i /\ Wrap(cpu.pc + 2) = 257 + i
                               /\ Wrap(cpu.pc + 3) = 258 + i
    BY <2>1, FetchProgram
  <2>3. Len(code) = 13
    BY <1>2
  <2>4. QED
    BY <2>2, <2>3
<1>6. CASE Comparing(cpu, mem, k, x, y)
  <2>1. CASE cpu.pc # 261
    <3>1. /\ cpu.pc = 256 => opcode = \h01 /\ Target = w
          /\ cpu.pc = 259 => opcode = \h78
          /\ cpu.pc = 260 => opcode = \hB9
      BY <1>2, <1>5 DEF w
    <3>2. Comparing(cpu', mem', k, x, y) /\ mem' = mem
      BY <1>6, <2>1, <3>1, CompareStep DEF w
    <3>3. QED
      BY <1>4, <3>2 DEF ReturnAt, image
  <2>2. CASE cpu.pc = 261
    <3>1. opcode = \hCD /\ Target = 265 /\ Wrap(cpu.pc + 3) = 264
      BY <1>2, <1>5, <2>2 DEF Word
    <3>2. /\ get_rp(cpu, 1) = 0 /\ Stacked(cpu.sp, mem, Top, <<264>>, 0)
          /\ branch_condition_true(cpu.flags, k) <=> holds
      BY <1>6, <2>2 DEF Comparing
    <3>3. Calling /\ Goal = 265 /\ ReturnAddress = 264
      BY <3>1 DEF Calling, Goal, ReturnAddress, Src
    <3>4. <<264>>[0 + 1] = ReturnAddress
      BY <3>3, Starts
    <3>5. /\ Turned(get_rp(cpu, 0), get_rp(cpu, 1), get_rp(cpu, 2), cpu'.sp, Goal, mem')
          /\ Stacked(cpu'.sp, mem', Top, <<264>>, 0 + 1) /\ Kept(mem', image)
      BY <1>4, <2>2, <3>2, <3>3, <3>4, Starts, EnterStep
    <3>6. /\ get_rp(cpu', 1) = 0 /\ cpu'.pc = 265 /\ ~cpu'.halted
          /\ Stacked(cpu'.sp, mem', Top, <<264>>, 1)
          /\ branch_condition_true(cpu'.flags, k) <=> holds
      BY <3>2, <3>3, <3>5 DEF Turned
    <3>7. QED
      BY <3>5, <3>6, Zenon DEF ReturnAt, image
  <2>3. QED
    BY <2>1, <2>2
<1>7. CASE /\ Stacked(cpu.sp, mem, Top, <<264>>, 1) /\ cpu.pc = 265 /\ get_rp(cpu, 1) = 0
           /\ branch_condition_true(cpu.flags, k) <=> holds
  <2>1. opcode = \hC0 + 8 * k /\ Wrap(cpu.pc + 1) = 266
    BY <1>2, <1>5, <1>7
  <2>2. opcode \in {\hC0, \hC8, \hD0, \hD8, \hE0, \hE8, \hF0, \hF8} /\ Dst = k
    BY <2>1, Conditions
  <2>3. CASE holds
    <3>1. Returning
      BY <1>7, <2>2, <2>3 DEF Returning
    <3>2. /\ Turned(get_rp(cpu, 0), get_rp(cpu, 1), get_rp(cpu, 2), cpu'.sp, 264, mem)
          /\ Stacked(cpu'.sp, mem', Top, <<264>>, 1 - 1)
      BY <1>7, <3>1, Starts, ReturnStep
    <3>3. get_rp(cpu, 1) = 256 * Bool(~holds)
      BY <1>7, <2>3 DEF Bool
    <3>4. QED
      BY <1>4, <3>2, <3>3 DEF Turned, ReturnAt, image
  <2>4. CASE ~holds
    <3>1. Turned(get_rp(cpu, 0), get_rp(cpu, 1), get_rp(cpu, 2), cpu.sp, 266, mem)
      BY <1>7, <2>1, <2>2, <2>4, BranchStep
    <3>2. get_rp(cpu', 1) = 0 /\ cpu'.pc = 266 /\ cpu'.sp = cpu.sp /\ ~cpu'.halted /\ mem' = mem
      BY <1>7, <3>1 DEF Turned
    <3>3. Stacked(cpu'.sp, mem', Top, <<264>>, 1) /\ Kept(mem', image)
      BY <1>4, <1>7, <3>2
    <3>4. QED
      BY <2>4, <3>2, <3>3, Zenon DEF ReturnAt, image
  <2>5. QED
    BY <2>3, <2>4
<1>8. CASE /\ ~holds /\ Stacked(cpu.sp, mem, Top, <<264>>, 1)
           /\ cpu.pc = 266 /\ get_rp(cpu, 1) = 0
  <2>1. opcode = \h16 /\ Operand = 1 /\ Wrap(cpu.pc + 2) = 268
    BY <1>2, <1>5, <1>8
  <2>2. get_rp(cpu', 1) = 256 /\ cpu'.pc = 268 /\ cpu'.sp = cpu.sp /\ ~cpu'.halted /\ mem' = mem
    BY <1>8, <2>1, MarkStep
  <2>3. Stacked(cpu'.sp, mem', Top, <<264>>, 1) /\ Kept(mem', image)
    BY <1>4, <1>8, <2>2
  <2>4. QED
    BY <1>8, <2>2, <2>3, Zenon DEF ReturnAt, image
<1>9. CASE /\ ~holds /\ Stacked(cpu.sp, mem, Top, <<264>>, 1)
           /\ cpu.pc = 268 /\ get_rp(cpu, 1) = 256
  <2>1. opcode = \hC9
    BY <1>2, <1>5, <1>9
  <2>2. Returning
    BY <2>1 DEF Returning
  <2>3. /\ Turned(get_rp(cpu, 0), get_rp(cpu, 1), get_rp(cpu, 2), cpu'.sp, 264, mem)
        /\ Stacked(cpu'.sp, mem', Top, <<264>>, 1 - 1)
    BY <1>9, <2>2, Starts, ReturnStep
  <2>4. get_rp(cpu, 1) = 256 * Bool(~holds)
    BY <1>9 DEF Bool
  <2>5. QED
    BY <1>4, <2>3, <2>4 DEF Turned, ReturnAt, image
<1>10. CASE /\ Stacked(cpu.sp, mem, Top, <<264>>, 0) /\ get_rp(cpu, 1) = 256 * Bool(~holds)
            /\ cpu.pc = 264
  <2>1. opcode = \h76
    BY <1>2, <1>5, <1>10
  <2>2. QED
    BY <1>4, <1>10, <2>1, StopStep DEF ReturnAt, image
<1>11. QED
  BY <1>4, <1>6, <1>7, <1>8, <1>9, <1>10 DEF ReturnAt

\* Where they halt: D has the mark or not, and the stack is in place.
LEMMA BranchEnd ==
    ASSUME CpuTypeOK, NEW k \in 0 .. 7, NEW x \in Byte, NEW y \in Byte, cpu.halted
    PROVE  /\ JumpAt(cpu, mem, k, x, y) \/ CallAt(cpu, mem, k, x, y) =>
                 cpu.r["D"] = Bool(Holds(k, x, y)) /\ cpu.sp = \hFDFF
           /\ ReturnAt(cpu, mem, k, x, y) => cpu.r["D"] = Bool(~Holds(k, x, y)) /\ cpu.sp = \hFDFF
<1>1. /\ JumpAt(cpu, mem, k, x, y) \/ CallAt(cpu, mem, k, x, y) =>
            get_rp(cpu, 1) = 256 * Bool(Holds(k, x, y)) /\ Stacked(cpu.sp, mem, Top, <<264>>, 0)
      /\ ReturnAt(cpu, mem, k, x, y) =>
            get_rp(cpu, 1) = 256 * Bool(~Holds(k, x, y)) /\ Stacked(cpu.sp, mem, Top, <<264>>, 0)
  BY DEF JumpAt, CallAt, ReturnAt, Comparing
<1>2. Stacked(cpu.sp, mem, Top, <<264>>, 0) => cpu.sp = \hFDFF
  <2>1. Cell(Top, 0) = Top
    BY DEF Cell, Top
  <2>2. QED
    BY <2>1 DEF Stacked, Top
<1> DEFINE b == Holds(k, x, y)
<1>3. /\ get_rp(cpu, 1) = 256 * Bool(b) => cpu.r["D"] = Bool(b)
      /\ get_rp(cpu, 1) = 256 * Bool(~b) => cpu.r["D"] = Bool(~b)
  <2>1. cpu.r["D"] \in Byte /\ cpu.r["E"] \in Byte
    BY DEF CpuTypeOK, Cpus, Registers
  <2>2. 256 * cpu.r["D"] + cpu.r["E"] = get_rp(cpu, 1)
    BY PairWords DEF Word
  <2> DEFINE d == cpu.r["D"]
             e == cpu.r["E"]
             w == get_rp(cpu, 1)
  <2>3. /\ d \in Int /\ 0 <= d /\ d <= 255 /\ e \in Int /\ 0 <= e /\ e <= 255
        /\ 256 * d + e = w
    BY <2>1, <2>2, ByteRange
  <2> HIDE DEF d, e, w
  <2>4. (w = 256 => d = 1) /\ (w = 0 => d = 0)
    BY <2>3
  <2>5. 256 * 1 = 256 /\ 256 * 0 = 0
    OBVIOUS
  <2> HIDE DEF b
  <2>6. \A a : Bool(a) = 1 \/ Bool(a) = 0
    BY DEF Bool
  <2>7. (w = 256 * Bool(b) => d = Bool(b)) /\ (w = 256 * Bool(~b) => d = Bool(~b))
    BY <2>4, <2>5, <2>6
  <2>8. QED
    BY <2>7 DEF d, w
<1>4. QED
  BY <1>1, <1>2, <1>3
-----------------------------------------------------------------------------
(* Words in memory.                                                        *)

\* The program of MemoryTask, and that it is where it was put.
MemoryCode(x, p) ==
    LET q == Wrap(p + 1)
    IN  Imm(\h21, x) \o Imm(\h22, p) \o Imm(\h3A, q) \o <<\h47>>
        \o Imm(\h3A, p) \o Imm(\h32, q) \o <<\h78>> \o Imm(\h32, p) \o Imm(\h2A, p)
        \o <<\hEB>> \o Imm(\h21, p) \o <<\h34, \h7E, \h35, \h00>>
        \o <<\hFB, \h30, \hD3, 2, \hF3, \hF9, \hE1, \hDB, 2, \h20, \h76>>

Held(m, code) == \A i \in 1 .. Len(code) : mem_read(m, 255 + i) = code[i]

\* A program that is held is fetched as it was written.
LEMMA FetchHeld ==
    ASSUME NEW code, Len(code) \in Nat, Len(code) <= 99, Held(mem, code)
    PROVE  \A i \in 1 .. Len(code) :
              cpu.pc = 255 + i => /\ opcode = code[i]
                                  /\ i + 1 <= Len(code) => Operand = code[i + 1]
                                  /\ i + 2 <= Len(code) => Target = Word(code[i + 2], code[i + 1])
                                  /\ Wrap(cpu.pc + 1) = 256 + i /\ Wrap(cpu.pc + 2) = 257 + i
                                  /\ Wrap(cpu.pc + 3) = 258 + i
<1> TAKE i \in 1 .. Len(code)
<1> DEFINE n == Len(code)
           a == 255 + i
           k == i + 1
           j == i + 2
<1>1. n \in Int /\ n <= 99 /\ i \in Int /\ 1 <= i /\ i <= n
  OBVIOUS
<1> SUFFICES ASSUME cpu.pc = a
             PROVE  /\ opcode = code[i]
                    /\ i + 1 <= Len(code) => Operand = code[i + 1]
                    /\ i + 2 <= Len(code) => Target = Word(code[i + 2], code[i + 1])
                    /\ Wrap(cpu.pc + 1) = 256 + i /\ Wrap(cpu.pc + 2) = 257 + i
                    /\ Wrap(cpu.pc + 3) = 258 + i
  OBVIOUS
<1>2. /\ Wrap(a + 1) = 256 + i /\ Wrap(a + 2) = 257 + i /\ Wrap(a + 3) = 258 + i
      /\ Wrap(256 + i + 1) = 257 + i
  BY <1>1 DEF Wrap
<1>3. 256 + i = 255 + k /\ 257 + i = 255 + j
  BY <1>1
<1>4. mem_read(mem, a) = code[i]
  BY DEF Held
<1>5. k <= n => mem_read(mem, 255 + k) = code[k]
  <2>1. k <= n => k \in 1 .. n
    BY <1>1
  <2> HIDE DEF k
  <2>2. QED
    BY <2>1 DEF Held
<1>6. j <= n => mem_read(mem, 255 + j) = code[j]
  <2>1. j <= n => j \in 1 .. n
    BY <1>1
  <2> HIDE DEF j
  <2>2. QED
    BY <2>1 DEF Held
<1>7. j <= n => k <= n
  BY <1>1
<1>8. opcode = mem_read(mem, a) /\ next_pc = 256 + i
  BY <1>2 DEF opcode, next_pc
<1>9. Operand = mem_read(mem, 255 + k) /\ Target = Word(mem_read(mem, 255 + j), mem_read(mem, 255 + k))
  BY <1>2, <1>3, <1>8 DEF Operand, Target, read_u16
<1> HIDE DEF k, j, n
<1>10. /\ opcode = code[i]
       /\ k <= n => Operand = code[k]
       /\ j <= n => Target = Word(code[j], code[k])
  BY <1>4, <1>5, <1>6, <1>7, <1>8, <1>9
<1>11. QED
  BY <1>2, <1>10 DEF k, j, n

\* Words that lie clear of the program.
Outside(a) == a \in Address /\ (a <= 255 \/ a >= 768)

\* A write outside the program leaves it as it is.
LEMMA HeldWritten ==
    ASSUME NEW m, NEW code, Len(code) \in Nat, Len(code) <= 99, Held(m, code), NEW a, Outside(a), NEW v
    PROVE  Held(mem_write(m, a, v), code)
<1> SUFFICES ASSUME NEW i \in 1 .. Len(code)
             PROVE  mem_read(mem_write(m, a, v), 255 + i) = code[i]
  BY DEF Held
<1>1. 255 + i # a
  <2>1. i \in Int /\ 1 <= i /\ i <= 99 /\ a \in Int /\ (a <= 255 \/ a >= 768)
    BY AddressRange DEF Outside
  <2>2. QED
    BY <2>1
<1>2. mem_read(m, 255 + i) = code[i]
  BY DEF Held
<1>3. QED
  BY <1>1, <1>2, ReadsWritten

\* Where the program is: the cells p and q it keeps the word h, l in, and
\* what is in the registers.
MemoryRun(c, m, code, p, q, h, l) ==
    /\ Held(m, code)
    /\ c.halted <=> c.pc = 298
    /\ \/ c.pc = 256
       \/ c.pc = 259 /\ c.r["H"] = h /\ c.r["L"] = l
       \/ c.pc \in {262, 265, 266, 269} /\ mem_read(m, p) = l /\ mem_read(m, q) = h
       \/ c.pc \in {272, 273} /\ mem_read(m, p) = l /\ mem_read(m, q) = l
       \/ c.pc \in {276, 279, 280, 283, 286, 287, 288, 289, 291, 292, 293}
             /\ mem_read(m, p) = h /\ mem_read(m, q) = l
       \/ c.pc \in {284, 285} /\ mem_read(m, p) = Lo(h + 1) /\ mem_read(m, q) = l
       \/ c.pc \in {294, 296, 297, 298} /\ get_rp(c, 2) = Word(l, h) /\ c.sp = Wrap(p + 2)
    /\ c.pc \in {265, 273} => c.r["A"] = h
    /\ c.pc \in {266, 269, 272} => c.r["B"] = h
    /\ c.pc = 269 => c.r["A"] = l
    /\ c.pc = 279 => get_rp(c, 2) = Word(l, h)
    /\ c.pc \in 280 .. 298 => get_rp(c, 1) = Word(l, h)
    /\ c.pc \in 283 .. 292 => get_rp(c, 2) = p
    /\ c.pc \in 285 .. 289 => c.r["A"] = Lo(h + 1)
    /\ c.pc \in 291 .. 298 => c.out.value = Lo(h + 1)
    /\ c.pc = 293 => c.sp = p

\* Steps that leave the registers alone, or change A only.
Stays(n) == /\ cpu'.r = cpu.r /\ cpu'.sp = cpu.sp /\ cpu'.out = cpu.out
            /\ cpu'.pc = Wrap(cpu.pc + n) /\ ~cpu'.halted

TakesA(v, n) == /\ cpu'.r = [cpu.r EXCEPT !["A"] = v] /\ cpu'.sp = cpu.sp /\ cpu'.out = cpu.out
                /\ cpu'.pc = Wrap(cpu.pc + n) /\ ~cpu'.halted

\* SHLD, STA, INR M and DCR M write the cells they name.
LEMMA StoreStep ==
    ASSUME CpuTypeOK, cpu_step
    PROVE  /\ opcode = \h22 => /\ Stays(3)
                               /\ mem' = mem_write(mem_write(mem, Target, cpu.r["L"]),
                                                   Wrap(Target + 1), cpu.r["H"])
           /\ opcode = \h32 => Stays(3) /\ mem' = mem_write(mem, Target, cpu.r["A"])
           /\ opcode = \h34 => /\ Stays(1)
                               /\ mem' = mem_write(mem, get_hl(cpu), Lo(mem_read(mem, get_hl(cpu)) + 1))
           /\ opcode = \h35 => /\ Stays(1)
                               /\ mem' = mem_write(mem, get_hl(cpu),
                                                   (mem_read(mem, get_hl(cpu)) - 1) % 256)
<1>1. cpu \in Cpus /\ ~cpu.halted
  BY DEF CpuTypeOK, cpu_step
<1>2. \A n : Go(cpu, n) => Stays(n)
  BY <1>1 DEF Go, Stays, Cpus
<1>3. \A f : Go(SetFlags(cpu, f), 1) => Stays(1)
  BY <1>1 DEF Go, Stays, SetFlags, Cpus
<1> HIDE DEF Stays
<1>4. ASSUME opcode = \h22
      PROVE  /\ Stays(3)
             /\ mem' = mem_write(mem_write(mem, Target, cpu.r["L"]), Wrap(Target + 1), cpu.r["H"])
  BY <1>2, <1>4, DecodeMemory DEF SHLD
<1>5. ASSUME opcode = \h32
      PROVE  Stays(3) /\ mem' = mem_write(mem, Target, cpu.r["A"])
  BY <1>2, <1>5, DecodeMemory DEF STA
<1>6. ASSUME opcode = \h34
      PROVE  /\ Stays(1)
             /\ mem' = mem_write(mem, get_hl(cpu), Lo(mem_read(mem, get_hl(cpu)) + 1))
  <2>1. INR /\ Dst = 6
    BY <1>6, DecodeMemory DEF Dst
  <2> DEFINE v == mem_read(mem, get_hl(cpu))
             w == Lo(v + 1)
  <2>2. Go(SetFlags(cpu, inr_flags(cpu.flags, v)), 1) /\ mem' = mem_write(mem, get_hl(cpu), w)
    BY <2>1 DEF INR, write_reg, write_cell, read_reg_by_code
  <2>3. QED
    BY <1>3, <2>2
<1>7. ASSUME opcode = \h35
      PROVE  /\ Stays(1)
             /\ mem' = mem_write(mem, get_hl(cpu), (mem_read(mem, get_hl(cpu)) - 1) % 256)
  <2>1. DCR /\ Dst = 6
    BY <1>7, DecodeMemory DEF Dst
  <2> DEFINE v == mem_read(mem, get_hl(cpu))
             w == (v - 1) % 256
  <2>2. Go(SetFlags(cpu, dcr_flags(cpu.flags, v)), 1) /\ mem' = mem_write(mem, get_hl(cpu), w)
    BY <2>1 DEF DCR, write_reg, write_cell, read_reg_by_code
  <2>3. QED
    BY <1>3, <2>2
<1>8. QED
  BY <1>4, <1>5, <1>6, <1>7, Zenon

\* What reads memory or talks to the outside changes A at most.
LEMMA OutsideStep ==
    ASSUME CpuTypeOK, cpu_step
    PROVE  /\ opcode \in {\h00, \hFB, \hF3, \h30} => Stays(1) /\ mem' = mem
           /\ opcode = \h3A => TakesA(mem_read(mem, Target), 3) /\ mem' = mem
           /\ opcode = \h7E => TakesA(mem_read(mem, get_hl(cpu)), 1) /\ mem' = mem
           /\ opcode = \hDB => TakesA(0, 2) /\ mem' = mem
           /\ opcode = \h20 => TakesA(0, 1) /\ mem' = mem
           /\ opcode = \hD3 => /\ cpu'.r = cpu.r /\ cpu'.sp = cpu.sp /\ cpu'.out.value = cpu.r["A"]
                               /\ cpu'.pc = Wrap(cpu.pc + 2) /\ ~cpu'.halted /\ mem' = mem
<1>1. cpu \in Cpus /\ ~cpu.halted
  BY DEF CpuTypeOK, cpu_step
<1>2. \A v, n : Go(SetReg(cpu, "A", v), n) => TakesA(v, n)
  BY <1>1 DEF Go, TakesA, SetReg, Cpus
<1>3. ASSUME opcode \in {\h00, \hFB, \hF3, \h30}
      PROVE  Stays(1) /\ mem' = mem
  <2>1. NOP \/ EI \/ DI \/ SIM
    BY <1>3, DecodeMemory
  <2>2. NOP => Stays(1) /\ mem' = mem
    BY <1>1 DEF NOP, Go, Stays, Cpus
  <2>3. EI => Stays(1) /\ mem' = mem
    BY <1>1 DEF EI, Go, Stays, Cpus
  <2>4. DI => Stays(1) /\ mem' = mem
    BY <1>1 DEF DI, Go, Stays, Cpus
  <2>5. SIM => Stays(1) /\ mem' = mem
    BY <1>1 DEF SIM, Go, Stays, Cpus
  <2>6. QED
    BY <2>1, <2>2, <2>3, <2>4, <2>5, Zenon
<1>4. opcode = \h3A => TakesA(mem_read(mem, Target), 3) /\ mem' = mem
  BY <1>2, DecodeMemory DEF LDA
<1>5. opcode = \h7E => TakesA(mem_read(mem, get_hl(cpu)), 1) /\ mem' = mem
  <2>1. opcode = \h7E => Dst = 7 /\ Src = 6 /\ MOV
    BY Decode DEF Dst, Src
  <2>2. QED
    BY <1>2, <2>1, RegisterNames DEF MOV, write_reg, write_cell, read_reg_by_code
<1>6. opcode = \hDB => TakesA(0, 2) /\ mem' = mem
  BY <1>2, DecodeMemory DEF INP
<1>7. opcode = \h20 => TakesA(0, 1) /\ mem' = mem
  BY <1>2, DecodeMemory DEF RIM
<1>8. opcode = \hD3 => /\ cpu'.r = cpu.r /\ cpu'.sp = cpu.sp /\ cpu'.out.value = cpu.r["A"]
                       /\ cpu'.pc = Wrap(cpu.pc + 2) /\ ~cpu'.halted /\ mem' = mem
  <2>1. ASSUME opcode = \hD3
        PROVE  Go([cpu EXCEPT !.out = [pending |-> TRUE, port |-> Operand, value |-> cpu.r["A"]]], 2)
               /\ mem' = mem
    BY <2>1, DecodeMemory DEF OUT
  <2> DEFINE o == [pending |-> TRUE, port |-> Operand, value |-> cpu.r["A"]]
  <2>2. o.value = cpu.r["A"]
    OBVIOUS
  <2> HIDE DEF o
  <2>3. Go([cpu EXCEPT !.out = o], 2) => /\ cpu'.r = cpu.r /\ cpu'.sp = cpu.sp /\ cpu'.out = o
                                         /\ cpu'.pc = Wrap(cpu.pc + 2) /\ ~cpu'.halted
    BY <1>1 DEF Go, Cpus
  <2>4. QED
    BY <2>1, <2>2, <2>3 DEF o
<1>9. QED
  BY <1>3, <1>4, <1>5, <1>6, <1>7, <1>8, Zenon

\* LHLD, XCHG, SPHL and POP H move words.
LEMMA WordStep ==
    ASSUME CpuTypeOK, cpu_step, NEW b, NEW d, NEW e, b = get_rp(cpu, 0), d = get_rp(cpu, 1),
           e = get_rp(cpu, 2)
    PROVE  /\ opcode = \h2A => Turned(b, d, read_u16(mem, Target), cpu.sp, Wrap(cpu.pc + 3), mem)
           /\ opcode = \hEB => Turned(b, e, d, cpu.sp, Wrap(cpu.pc + 1), mem)
           /\ opcode = \hF9 => Turned(b, d, e, e, Wrap(cpu.pc + 1), mem)
           /\ opcode = \hE1 => Turned(b, d, read_u16(mem, cpu.sp), Wrap(cpu.sp + 2),
                                      Wrap(cpu.pc + 1), mem)
<1>1. Shows(cpu, b, d, e, cpu.sp)
  BY ShowsItself
<1>2. IsMemory(mem) /\ cpu.sp \in Address /\ get_hl(cpu) = e
  BY PairWords, Fields DEF CpuTypeOK
<1>3. /\ read_u16(mem, Target) \in Address /\ read_u16(mem, cpu.sp) \in Address
      /\ Wrap(cpu.sp + 2) \in Address /\ d \in Address /\ e \in Address
  <2>1. cpu.sp + 2 \in Int
    BY <1>2, AddressRange
  <2>2. Wrap(cpu.sp + 2) \in Address
    BY <2>1, Widths
  <2>3. cpu.r["D"] \in Byte /\ cpu.r["E"] \in Byte /\ cpu.r["H"] \in Byte /\ cpu.r["L"] \in Byte
    BY DEF CpuTypeOK, Cpus, Registers
  <2>4. d \in Address /\ e \in Address
    BY <2>3, PairWords, BytesWord
  <2>5. QED
    BY <1>2, <2>2, <2>4, ReadsWord
<1>4. ASSUME opcode = \h2A
      PROVE  Turned(b, d, read_u16(mem, Target), cpu.sp, Wrap(cpu.pc + 3), mem)
  <2>1. Go(set_rp(cpu, 2, read_u16(mem, Target)), 3) /\ mem' = mem
    BY <1>4, DecodeMemory DEF LHLD
  <2>2. Shows(set_rp(cpu, 2, read_u16(mem, Target)), b, d, read_u16(mem, Target), cpu.sp)
    BY <1>1, <1>3, ShowsSet
  <2>3. QED
    BY <2>1, <2>2, ShowsGoes
<1>5. ASSUME opcode = \hEB
      PROVE  Turned(b, e, d, cpu.sp, Wrap(cpu.pc + 1), mem)
  <2>1. Go(set_rp(set_rp(cpu, 1, e), 2, d), 1) /\ mem' = mem
    BY <1>2, <1>5, DecodeControl DEF XCHG
  <2> DEFINE c == set_rp(cpu, 1, e)
  <2>2. Shows(c, b, e, e, cpu.sp)
    BY <1>1, <1>3, ShowsSet
  <2> HIDE DEF c
  <2>3. Shows(set_rp(c, 2, d), b, e, d, cpu.sp)
    BY <1>3, <2>2, ShowsSet
  <2>4. Go(set_rp(c, 2, d), 1) /\ mem' = mem
    BY <2>1 DEF c
  <2>5. QED
    BY <2>3, <2>4, ShowsGoes
<1>6. ASSUME opcode = \hF9
      PROVE  Turned(b, d, e, e, Wrap(cpu.pc + 1), mem)
  <2>1. Go(SetSP(cpu, e), 1) /\ mem' = mem
    BY <1>2, <1>6, DecodeControl DEF SPHL
  <2>2. Shows(SetSP(cpu, e), b, d, e, e)
    BY <1>1, <1>3, ShowsSet
  <2>3. QED
    BY <2>1, <2>2, ShowsGoes
<1>7. ASSUME opcode = \hE1
      PROVE  Turned(b, d, read_u16(mem, cpu.sp), Wrap(cpu.sp + 2), Wrap(cpu.pc + 1), mem)
  <2> DEFINE w == read_u16(mem, cpu.sp)
             s == Wrap(cpu.sp + 2)
             c == SetSP(cpu, s)
  <2>1. Go(set_rp(c, 2, w), 1) /\ mem' = mem
    <3>1. POP /\ Rp = 2
      BY <1>7, DecodeControl DEF Rp
    <3>2. QED
      BY <3>1 DEF POP, pop_u16, pop_sp
  <2>2. w \in Address /\ s \in Address
    BY <1>3
  <2> HIDE DEF w, s
  <2>3. Shows(c, b, d, e, s)
    BY <1>1, <2>2, ShowsSet
  <2> HIDE DEF c
  <2>4. Shows(set_rp(c, 2, w), b, d, w, s)
    BY <2>2, <2>3, ShowsSet
  <2>5. Turned(b, d, w, s, Wrap(cpu.pc + 1), mem)
    BY <2>1, <2>4, ShowsGoes
  <2>6. QED
    BY <2>5 DEF w, s
<1>8. QED
  BY <1>4, <1>5, <1>6, <1>7

\* The program, byte by byte; w is the word h, l.
MemoryProgram(code, w, p, q) ==
    /\ Len(code) = 42
    /\ code[1] = \h21 /\ Word(code[3], code[2]) = w
    /\ code[4] = \h22 /\ Word(code[6], code[5]) = p
    /\ code[7] = \h3A /\ Word(code[9], code[8]) = q
    /\ code[10] = \h47
    /\ code[11] = \h3A /\ Word(code[13], code[12]) = p
    /\ code[14] = \h32 /\ Word(code[16], code[15]) = q
    /\ code[17] = \h78
    /\ code[18] = \h32 /\ Word(code[20], code[19]) = p
    /\ code[21] = \h2A /\ Word(code[23], code[22]) = p
    /\ code[24] = \hEB
    /\ code[25] = \h21 /\ Word(code[27], code[26]) = p
    /\ code[28] = \h34 /\ code[29] = \h7E /\ code[30] = \h35 /\ code[31] = \h00
    /\ code[32] = \hFB /\ code[33] = \h30 /\ code[34] = \hD3 /\ code[36] = \hF3
    /\ code[37] = \hF9 /\ code[38] = \hE1 /\ code[39] = \hDB /\ code[41] = \h20
    /\ code[42] = \h76

\* The bytes of the program that keeps a word.
LEMMA MemoryCodes ==
    ASSUME NEW x \in Address, NEW p \in Address
    PROVE  MemoryProgram(MemoryCode(x, p), x, p, Wrap(p + 1))
<1> DEFINE q == Wrap(p + 1)
           code == MemoryCode(x, p)
<1>1. q \in Address
  <2>1. p + 1 \in Int
    BY AddressRange
  <2>2. QED
    BY <2>1, Widths
<1>2. Word(Hi(x), Lo(x)) = x /\ Word(Hi(p), Lo(p)) = p /\ Word(Hi(q), Lo(q)) = q
  BY <1>1, WordBytes
<1>3. code = Imm(\h21, x) \o Imm(\h22, p) \o Imm(\h3A, q) \o <<\h47>>
             \o Imm(\h3A, p) \o Imm(\h32, q) \o <<\h78>> \o Imm(\h32, p) \o Imm(\h2A, p)
             \o <<\hEB>> \o Imm(\h21, p) \o <<\h34, \h7E, \h35, \h00>>
             \o <<\hFB, \h30, \hD3, 2, \hF3, \hF9, \hE1, \hDB, 2, \h20, \h76>>
  BY Zenon DEF MemoryCode
<1> HIDE DEF q, code
<1> DEFINE xh == Hi(x)
           xl == Lo(x)
           ph == Hi(p)
           pl == Lo(p)
           qh == Hi(q)
           ql == Lo(q)
<1>4. code = <<\h21, xl, xh>> \o <<\h22, pl, ph>> \o <<\h3A, ql, qh>> \o <<\h47>>
             \o <<\h3A, pl, ph>> \o <<\h32, ql, qh>> \o <<\h78>> \o <<\h32, pl, ph>> \o <<\h2A, pl, ph>>
             \o <<\hEB>> \o <<\h21, pl, ph>> \o <<\h34, \h7E, \h35, \h00>>
             \o <<\hFB, \h30, \hD3, 2, \hF3, \hF9, \hE1, \hDB, 2, \h20, \h76>>
  BY <1>3, Zenon DEF Imm
<1> HIDE DEF xh, xl, ph, pl, qh, ql
<1>6. /\ Len(code) = 42 /\ code[1] = \h21 /\ code[2] = xl /\ code[3] = xh
      /\ code[4] = \h22 /\ code[5] = pl /\ code[6] = ph
      /\ code[7] = \h3A /\ code[8] = ql /\ code[9] = qh /\ code[10] = \h47
      /\ code[11] = \h3A /\ code[12] = pl /\ code[13] = ph
      /\ code[14] = \h32 /\ code[15] = ql /\ code[16] = qh /\ code[17] = \h78
      /\ code[18] = \h32 /\ code[19] = pl /\ code[20] = ph
      /\ code[21] = \h2A /\ code[22] = pl /\ code[23] = ph /\ code[24] = \hEB
      /\ code[25] = \h21 /\ code[26] = pl /\ code[27] = ph
      /\ code[28] = \h34 /\ code[29] = \h7E /\ code[30] = \h35 /\ code[31] = \h00
      /\ code[32] = \hFB /\ code[33] = \h30 /\ code[34] = \hD3 /\ code[36] = \hF3
      /\ code[37] = \hF9 /\ code[38] = \hE1 /\ code[39] = \hDB /\ code[41] = \h20
      /\ code[42] = \h76
  BY <1>4
<1>7. Word(xh, xl) = x /\ Word(ph, pl) = p /\ Word(qh, ql) = q
  BY <1>2 DEF xh, xl, ph, pl, qh, ql
<1>8. MemoryProgram(code, x, p, q)
  BY <1>6, <1>7 DEF MemoryProgram
<1>9. QED
  BY <1>8 DEF code, q

\* A program that keeps a word in memory is at every step where MemoryRun says.
LEMMA MemoryStep ==
    ASSUME CpuTypeOK, cpu_step, NEW p, Outside(p), NEW q, Outside(q), p # q, NEW h \in Byte,
           NEW l \in Byte, NEW code, MemoryProgram(code, Word(h, l), p, q),
           MemoryRun(cpu, mem, code, p, q, h, l)
    PROVE  Wrap(p + 1) = q => MemoryRun(cpu', mem', code, p, q, h, l)
<1> SUFFICES ASSUME Wrap(p + 1) = q
             PROVE  MemoryRun(cpu', mem', code, p, q, h, l)
  OBVIOUS
<1> DEFINE n == Lo(h + 1)
           w == Word(l, h)
<1>1. Held(mem, code) /\ ~cpu.halted /\ cpu.pc # 298
  BY DEF MemoryRun, cpu_step
<1>2. Len(code) \in Nat /\ Len(code) <= 99
  BY DEF MemoryProgram
<1>3. \A i \in 1 .. 42 :
         cpu.pc = 255 + i => /\ opcode = code[i]
                             /\ i + 2 <= 42 => Target = Word(code[i + 2], code[i + 1])
                             /\ Wrap(cpu.pc + 1) = 256 + i /\ Wrap(cpu.pc + 2) = 257 + i
                             /\ Wrap(cpu.pc + 3) = 258 + i
  <2>1. \A i \in 1 .. Len(code) :
           cpu.pc = 255 + i => /\ opcode = code[i]
                               /\ i + 1 <= Len(code) => Operand = code[i + 1]
                               /\ i + 2 <= Len(code) => Target = Word(code[i + 2], code[i + 1])
                               /\ Wrap(cpu.pc + 1) = 256 + i /\ Wrap(cpu.pc + 2) = 257 + i
                               /\ Wrap(cpu.pc + 3) = 258 + i
    BY <1>1, <1>2, FetchHeld
  <2>2. Len(code) = 42
    BY DEF MemoryProgram
  <2>3. QED
    BY <2>1, <2>2
<1>4. \A v : Held(mem_write(mem, p, v), code) /\ Held(mem_write(mem, q, v), code)
  BY <1>1, <1>2, HeldWritten
<1>5. \A m, v : /\ mem_read(mem_write(m, p, v), p) = v
                /\ mem_read(mem_write(m, p, v), q) = mem_read(m, q)
                /\ mem_read(mem_write(m, q, v), q) = v
                /\ mem_read(mem_write(m, q, v), p) = mem_read(m, p)
  BY ReadsWritten
<1>6. cpu.r \in [Registers -> Byte]
  BY DEF CpuTypeOK, Cpus
<1>7. \A v : TakesA(v, 1) \/ TakesA(v, 2) \/ TakesA(v, 3) =>
                /\ cpu'.r["A"] = v /\ cpu'.r["B"] = cpu.r["B"]
                /\ get_rp(cpu', 1) = get_rp(cpu, 1) /\ get_rp(cpu', 2) = get_rp(cpu, 2)
  <2> SUFFICES ASSUME NEW v, TakesA(v, 1) \/ TakesA(v, 2) \/ TakesA(v, 3)
               PROVE  /\ cpu'.r["A"] = v /\ cpu'.r["B"] = cpu.r["B"]
                      /\ get_rp(cpu', 1) = get_rp(cpu, 1) /\ get_rp(cpu', 2) = get_rp(cpu, 2)
    OBVIOUS
  <2>1. cpu'.r = [cpu.r EXCEPT !["A"] = v]
    BY DEF TakesA
  <2>2. /\ cpu'.r["A"] = v /\ cpu'.r["B"] = cpu.r["B"] /\ cpu'.r["D"] = cpu.r["D"]
        /\ cpu'.r["E"] = cpu.r["E"] /\ cpu'.r["H"] = cpu.r["H"] /\ cpu'.r["L"] = cpu.r["L"]
    BY <1>6, <2>1 DEF Registers
  <2>3. QED
    BY <2>2, PairWords
<1>8. Stays(1) \/ Stays(3) => /\ get_rp(cpu', 1) = get_rp(cpu, 1)
                              /\ get_rp(cpu', 2) = get_rp(cpu, 2)
  BY PairWords DEF Stays
<1>9. read_u16(mem, p) = Word(mem_read(mem, q), mem_read(mem, p))
  BY DEF read_u16
<1>10. Hi(Word(h, l)) = h /\ Lo(Word(h, l)) = l
  BY BytesWord
<1>11. ((n - 1) % 256) = h
  <2>1. h \in Int /\ 0 <= h /\ h <= 255
    BY ByteRange
  <2>2. QED
    BY <2>1 DEF Lo
<1> HIDE DEF n, w
<1>12. CASE cpu.pc = 256
  <2>1. opcode = \h21 /\ Target = Word(h, l) /\ Wrap(cpu.pc + 3) = 259
    BY <1>3, <1>12 DEF MemoryProgram
  <2>2. Turned(get_rp(cpu, 0), get_rp(cpu, 1), Word(h, l), cpu.sp, 259, mem)
    BY <2>1, LoadStep
  <2>3. cpu'.r["H"] = h /\ cpu'.r["L"] = l
    <3>1. Leaves([[cpu.r EXCEPT !["H"] = h] EXCEPT !["L"] = l], cpu.flags, 3)
      <4>1. Rp = 2 /\ Pair[3] = <<"H", "L">>
        BY <2>1 DEF Rp, Pair
      <4>2. QED
        BY <1>10, <2>1, <4>1, PairStep
    <3>2. cpu'.r = [[cpu.r EXCEPT !["H"] = h] EXCEPT !["L"] = l]
      BY <3>1 DEF Leaves
    <3>3. QED
      BY <1>6, <3>2 DEF Registers
  <2>4. QED
    BY <1>1, <2>2, <2>3 DEF Turned, MemoryRun
<1>13. CASE cpu.pc = 259
  <2>1. opcode = \h22 /\ Target = p /\ Wrap(cpu.pc + 3) = 262
    BY <1>3, <1>13 DEF MemoryProgram
  <2>2. cpu.r["H"] = h /\ cpu.r["L"] = l
    BY <1>13 DEF MemoryRun
  <2>3. Stays(3) /\ mem' = mem_write(mem_write(mem, p, l), q, h)
    BY <2>1, <2>2, StoreStep
  <2>4. mem_read(mem', p) = l /\ mem_read(mem', q) = h
    BY <1>5, <2>3
  <2>5. Held(mem', code)
    <3> DEFINE m == mem_write(mem, p, l)
    <3>1. Held(m, code)
      BY <1>4
    <3> HIDE DEF m
    <3>2. Held(mem_write(m, q, h), code)
      BY <1>2, <3>1, HeldWritten
    <3>3. QED
      BY <2>3, <3>2 DEF m
  <2>6. QED
    BY <2>1, <2>3, <2>4, <2>5 DEF Stays, MemoryRun
<1>14. CASE cpu.pc = 262
  <2>1. opcode = \h3A /\ Target = q /\ Wrap(cpu.pc + 3) = 265
    BY <1>3, <1>14 DEF MemoryProgram
  <2>2. mem_read(mem, p) = l /\ mem_read(mem, q) = h
    BY <1>14 DEF MemoryRun
  <2>3. TakesA(h, 3) /\ mem' = mem
    BY <2>1, <2>2, OutsideStep
  <2>4. cpu'.r["A"] = h
    BY <1>7, <2>3
  <2>5. QED
    BY <1>1, <2>1, <2>2, <2>3, <2>4 DEF TakesA, MemoryRun
<1>15. CASE cpu.pc = 265
  <2>1. opcode = \h47 /\ Wrap(cpu.pc + 1) = 266
    BY <1>3, <1>15 DEF MemoryProgram
  <2>2. mem_read(mem, p) = l /\ mem_read(mem, q) = h /\ cpu.r["A"] = h
    BY <1>15 DEF MemoryRun
  <2>3. Leaves([cpu.r EXCEPT !["B"] = cpu.r["A"]], cpu.flags, 1)
    <3>1. Dst = 0 /\ Src = 7 /\ opcode \in (\h40 .. \h7F) \ {\h76}
      BY <2>1 DEF Dst, Src
    <3>2. QED
      BY <3>1, MoveStep, RegisterNames
  <2>4. cpu'.r["B"] = h
    BY <1>6, <2>2, <2>3 DEF Leaves, Registers
  <2>5. QED
    BY <1>1, <2>1, <2>2, <2>3, <2>4 DEF Leaves, MemoryRun
<1>16. CASE cpu.pc = 266
  <2>1. opcode = \h3A /\ Target = p /\ Wrap(cpu.pc + 3) = 269
    BY <1>3, <1>16 DEF MemoryProgram
  <2>2. mem_read(mem, p) = l /\ mem_read(mem, q) = h /\ cpu.r["B"] = h
    BY <1>16 DEF MemoryRun
  <2>3. TakesA(l, 3) /\ mem' = mem
    BY <2>1, <2>2, OutsideStep
  <2>4. cpu'.r["A"] = l /\ cpu'.r["B"] = h
    BY <1>7, <2>2, <2>3
  <2>5. QED
    BY <1>1, <2>1, <2>2, <2>3, <2>4 DEF TakesA, MemoryRun
<1>17. CASE cpu.pc = 269
  <2>1. opcode = \h32 /\ Target = q /\ Wrap(cpu.pc + 3) = 272
    BY <1>3, <1>17 DEF MemoryProgram
  <2>2. mem_read(mem, p) = l /\ cpu.r["A"] = l /\ cpu.r["B"] = h
    BY <1>17 DEF MemoryRun
  <2>3. Stays(3) /\ mem' = mem_write(mem, q, l)
    BY <2>1, <2>2, StoreStep
  <2>4. mem_read(mem', p) = l /\ mem_read(mem', q) = l /\ Held(mem', code)
    BY <1>4, <1>5, <2>2, <2>3
  <2>5. QED
    BY <2>1, <2>2, <2>3, <2>4 DEF Stays, MemoryRun
<1>18. CASE cpu.pc = 272
  <2>1. opcode = \h78 /\ Wrap(cpu.pc + 1) = 273
    BY <1>3, <1>18 DEF MemoryProgram
  <2>2. mem_read(mem, p) = l /\ mem_read(mem, q) = l /\ cpu.r["B"] = h
    BY <1>18 DEF MemoryRun
  <2>3. Leaves([cpu.r EXCEPT !["A"] = cpu.r["B"]], cpu.flags, 1)
    <3>1. Dst = 7 /\ Src = 0 /\ opcode \in (\h40 .. \h7F) \ {\h76}
      BY <2>1 DEF Dst, Src
    <3>2. QED
      BY <3>1, MoveStep, RegisterNames
  <2>4. cpu'.r["A"] = h
    BY <1>6, <2>2, <2>3 DEF Leaves, Registers
  <2>5. QED
    BY <1>1, <2>1, <2>2, <2>3, <2>4 DEF Leaves, MemoryRun
<1>19. CASE cpu.pc = 273
  <2>1. opcode = \h32 /\ Target = p /\ Wrap(cpu.pc + 3) = 276
    BY <1>3, <1>19 DEF MemoryProgram
  <2>2. mem_read(mem, q) = l /\ cpu.r["A"] = h
    BY <1>19 DEF MemoryRun
  <2>3. Stays(3) /\ mem' = mem_write(mem, p, h)
    BY <2>1, <2>2, StoreStep
  <2>4. mem_read(mem', p) = h /\ mem_read(mem', q) = l /\ Held(mem', code)
    BY <1>4, <1>5, <2>2, <2>3
  <2>5. QED
    BY <2>1, <2>3, <2>4 DEF Stays, MemoryRun
<1>20. CASE cpu.pc = 276
  <2>1. opcode = \h2A /\ Target = p /\ Wrap(cpu.pc + 3) = 279
    BY <1>3, <1>20 DEF MemoryProgram
  <2>2. mem_read(mem, p) = h /\ mem_read(mem, q) = l
    BY <1>20 DEF MemoryRun
  <2>3. Turned(get_rp(cpu, 0), get_rp(cpu, 1), w, cpu.sp, 279, mem)
    BY <1>9, <2>1, <2>2, WordStep DEF w
  <2>4. QED
    BY <1>1, <2>2, <2>3 DEF Turned, MemoryRun, w
<1>21. CASE cpu.pc = 279
  <2>1. opcode = \hEB /\ Wrap(cpu.pc + 1) = 280
    BY <1>3, <1>21 DEF MemoryProgram
  <2>2. mem_read(mem, p) = h /\ mem_read(mem, q) = l /\ get_rp(cpu, 2) = w
    BY <1>21 DEF MemoryRun, w
  <2>3. Turned(get_rp(cpu, 0), w, get_rp(cpu, 1), cpu.sp, 280, mem)
    BY <2>1, <2>2, WordStep
  <2>4. QED
    BY <1>1, <2>2, <2>3 DEF Turned, MemoryRun, w
<1>22. CASE cpu.pc = 280
  <2>1. opcode = \h21 /\ Target = p /\ Wrap(cpu.pc + 3) = 283
    BY <1>3, <1>22 DEF MemoryProgram
  <2>2. mem_read(mem, p) = h /\ mem_read(mem, q) = l /\ get_rp(cpu, 1) = w
    BY <1>22 DEF MemoryRun, w
  <2>3. Turned(get_rp(cpu, 0), w, p, cpu.sp, 283, mem)
    BY <2>1, <2>2, LoadStep
  <2>4. QED
    BY <1>1, <2>2, <2>3 DEF Turned, MemoryRun, w
<1>23. CASE cpu.pc = 283
  <2>1. opcode = \h34 /\ Wrap(cpu.pc + 1) = 284
    BY <1>3, <1>23 DEF MemoryProgram
  <2>2. /\ mem_read(mem, p) = h /\ mem_read(mem, q) = l /\ get_rp(cpu, 1) = w /\ get_rp(cpu, 2) = p
        /\ get_hl(cpu) = p
    BY <1>23, PairWords DEF MemoryRun, w
  <2>3. Stays(1) /\ mem' = mem_write(mem, p, n)
    BY <2>1, <2>2, StoreStep DEF n
  <2>4. mem_read(mem', p) = n /\ mem_read(mem', q) = l /\ Held(mem', code)
    BY <1>4, <1>5, <2>2, <2>3
  <2>5. get_rp(cpu', 1) = w /\ get_rp(cpu', 2) = p /\ cpu'.pc = 284 /\ ~cpu'.halted
    BY <1>8, <2>1, <2>2, <2>3 DEF Stays
  <2>6. QED
    BY <2>4, <2>5 DEF MemoryRun, w, n
<1>24. CASE cpu.pc = 284
  <2>1. opcode = \h7E /\ Wrap(cpu.pc + 1) = 285
    BY <1>3, <1>24 DEF MemoryProgram
  <2>2. /\ mem_read(mem, p) = n /\ mem_read(mem, q) = l /\ get_rp(cpu, 1) = w /\ get_rp(cpu, 2) = p
        /\ get_hl(cpu) = p
    BY <1>24, PairWords DEF MemoryRun, w, n
  <2>3. TakesA(n, 1) /\ mem' = mem
    BY <2>1, <2>2, OutsideStep
  <2>4. get_rp(cpu', 1) = w /\ get_rp(cpu', 2) = p /\ cpu'.r["A"] = n /\ cpu'.pc = 285 /\ ~cpu'.halted
    BY <1>7, <2>1, <2>2, <2>3 DEF TakesA
  <2>5. QED
    BY <1>1, <2>2, <2>3, <2>4 DEF MemoryRun, w, n
<1>25. CASE cpu.pc = 285
  <2>1. opcode = \h35 /\ Wrap(cpu.pc + 1) = 286
    BY <1>3, <1>25 DEF MemoryProgram
  <2>2. /\ mem_read(mem, p) = n /\ mem_read(mem, q) = l /\ get_rp(cpu, 1) = w /\ get_rp(cpu, 2) = p
        /\ get_hl(cpu) = p /\ cpu.r["A"] = n
    BY <1>25, PairWords DEF MemoryRun, w, n
  <2>3. Stays(1) /\ mem' = mem_write(mem, p, h)
    BY <1>11, <2>1, <2>2, StoreStep
  <2>4. mem_read(mem', p) = h /\ mem_read(mem', q) = l /\ Held(mem', code)
    BY <1>4, <1>5, <2>2, <2>3
  <2>5. get_rp(cpu', 1) = w /\ get_rp(cpu', 2) = p /\ cpu'.r["A"] = n /\ cpu'.pc = 286 /\ ~cpu'.halted
    BY <1>8, <2>1, <2>2, <2>3 DEF Stays
  <2>6. QED
    BY <2>4, <2>5 DEF MemoryRun, w, n
<1>26. CASE cpu.pc \in {286, 287, 288}
  <2>1. opcode \in {\h00, \hFB, \h30} /\ Wrap(cpu.pc + 1) \in {287, 288, 289}
    BY <1>3, <1>26 DEF MemoryProgram
  <2>2. /\ mem_read(mem, p) = h /\ mem_read(mem, q) = l /\ get_rp(cpu, 1) = w /\ get_rp(cpu, 2) = p
        /\ cpu.r["A"] = n
    BY <1>26 DEF MemoryRun, w, n
  <2>3. Stays(1) /\ mem' = mem
    BY <2>1, OutsideStep
  <2>4. /\ get_rp(cpu', 1) = w /\ get_rp(cpu', 2) = p /\ cpu'.r["A"] = n /\ cpu'.pc \in {287, 288, 289}
        /\ ~cpu'.halted
    BY <1>8, <2>1, <2>2, <2>3 DEF Stays
  <2>5. QED
    BY <1>1, <2>2, <2>3, <2>4 DEF MemoryRun, w, n
<1>27. CASE cpu.pc = 289
  <2>1. opcode = \hD3 /\ Wrap(cpu.pc + 2) = 291
    BY <1>3, <1>27 DEF MemoryProgram
  <2>2. /\ mem_read(mem, p) = h /\ mem_read(mem, q) = l /\ get_rp(cpu, 1) = w /\ get_rp(cpu, 2) = p
        /\ cpu.r["A"] = n
    BY <1>27 DEF MemoryRun, w, n
  <2>3. cpu'.r = cpu.r /\ cpu'.out.value = n /\ cpu'.pc = 291 /\ ~cpu'.halted /\ mem' = mem
    BY <2>1, <2>2, OutsideStep
  <2>4. get_rp(cpu', 1) = w /\ get_rp(cpu', 2) = p
    BY <2>2, <2>3, PairWords
  <2>5. QED
    BY <1>1, <2>2, <2>3, <2>4 DEF MemoryRun, w, n
<1>28. CASE cpu.pc = 291
  <2>1. opcode = \hF3 /\ Wrap(cpu.pc + 1) = 292
    BY <1>3, <1>28 DEF MemoryProgram
  <2>2. /\ mem_read(mem, p) = h /\ mem_read(mem, q) = l /\ get_rp(cpu, 1) = w /\ get_rp(cpu, 2) = p
        /\ cpu.out.value = n
    BY <1>28 DEF MemoryRun, w, n
  <2>3. Stays(1) /\ mem' = mem
    BY <2>1, OutsideStep
  <2>4. /\ get_rp(cpu', 1) = w /\ get_rp(cpu', 2) = p /\ cpu'.out.value = n /\ cpu'.pc = 292
        /\ ~cpu'.halted
    BY <1>8, <2>1, <2>2, <2>3 DEF Stays
  <2>5. QED
    BY <1>1, <2>2, <2>3, <2>4 DEF MemoryRun, w, n
<1>29. CASE cpu.pc = 292
  <2>1. opcode = \hF9 /\ Wrap(cpu.pc + 1) = 293
    BY <1>3, <1>29 DEF MemoryProgram
  <2>2. /\ mem_read(mem, p) = h /\ mem_read(mem, q) = l /\ get_rp(cpu, 1) = w /\ get_rp(cpu, 2) = p
        /\ cpu.out.value = n
    BY <1>29 DEF MemoryRun, w, n
  <2>3. Turned(get_rp(cpu, 0), w, p, p, 293, mem)
    BY <2>1, <2>2, WordStep
  <2>4. /\ get_rp(cpu', 1) = w /\ cpu'.out.value = n /\ cpu'.pc = 293 /\ ~cpu'.halted /\ cpu'.sp = p
        /\ mem' = mem
    BY <2>2, <2>3 DEF Turned
  <2>5. QED
    BY <1>1, <2>2, <2>4 DEF MemoryRun, w, n
<1>30. CASE cpu.pc = 293
  <2>1. opcode = \hE1 /\ Wrap(cpu.pc + 1) = 294
    BY <1>3, <1>30 DEF MemoryProgram
  <2>2. /\ mem_read(mem, p) = h /\ mem_read(mem, q) = l /\ get_rp(cpu, 1) = w /\ cpu.sp = p
        /\ cpu.out.value = n
    BY <1>30 DEF MemoryRun, w, n
  <2>3. Turned(get_rp(cpu, 0), w, w, Wrap(p + 2), 294, mem)
    BY <1>9, <2>1, <2>2, WordStep DEF w
  <2>4. /\ get_rp(cpu', 1) = w /\ get_rp(cpu', 2) = w /\ cpu'.out.value = n /\ cpu'.pc = 294
        /\ ~cpu'.halted /\ cpu'.sp = Wrap(p + 2) /\ mem' = mem
    BY <2>2, <2>3 DEF Turned
  <2>5. QED
    BY <1>1, <2>4 DEF MemoryRun, w, n
<1>31. CASE cpu.pc \in {294, 296}
  <2>1. /\ cpu.pc = 294 => opcode = \hDB /\ Wrap(cpu.pc + 2) = 296
        /\ cpu.pc = 296 => opcode = \h20 /\ Wrap(cpu.pc + 1) = 297
    BY <1>3, <1>31 DEF MemoryProgram
  <2>2. /\ get_rp(cpu, 1) = w /\ get_rp(cpu, 2) = w /\ cpu.out.value = n /\ cpu.sp = Wrap(p + 2)
    BY <1>31 DEF MemoryRun, w, n
  <2>3. /\ TakesA(0, 1) \/ TakesA(0, 2)
        /\ cpu'.pc \in {296, 297} /\ mem' = mem
    BY <1>31, <2>1, OutsideStep DEF TakesA
  <2>4. cpu'.sp = cpu.sp /\ cpu'.out = cpu.out /\ ~cpu'.halted
    BY <2>3 DEF TakesA
  <2>5. get_rp(cpu', 1) = w /\ get_rp(cpu', 2) = w
    BY <1>7, <2>2, <2>3
  <2>6. QED
    BY <1>1, <2>2, <2>3, <2>4, <2>5 DEF MemoryRun, w, n
<1>32. CASE cpu.pc = 297
  <2>1. opcode = \h76 /\ Wrap(cpu.pc + 1) = 298
    BY <1>3, <1>32 DEF MemoryProgram
  <2>2. get_rp(cpu, 1) = w /\ get_rp(cpu, 2) = w /\ cpu.out.value = n /\ cpu.sp = Wrap(p + 2)
    BY <1>32 DEF MemoryRun, w, n
  <2>3. /\ get_rp(cpu', 1) = w /\ get_rp(cpu', 2) = w /\ cpu'.sp = Wrap(p + 2) /\ cpu'.out.value = n
        /\ cpu'.pc = 298 /\ cpu'.halted /\ mem' = mem
    BY <2>1, <2>2, StopStep
  <2>4. QED
    BY <1>1, <2>3 DEF MemoryRun, w, n
<1>33. \/ cpu.pc \in {256, 259, 262, 265, 266, 269, 272, 273, 276, 279, 280, 283, 284, 285}
       \/ cpu.pc \in {286, 287, 288} \/ cpu.pc \in {294, 296}
       \/ cpu.pc \in {289, 291, 292, 293, 297}
  BY <1>1 DEF MemoryRun
<1>34. QED
  BY <1>12, <1>13, <1>14, <1>15, <1>16, <1>17, <1>18, <1>19, <1>20, <1>21, <1>22, <1>23,
     <1>24, <1>25, <1>26, <1>27, <1>28, <1>29, <1>30, <1>31, <1>32, <1>33

\* Where it halts, the word is swapped everywhere it should be.
LEMMA MemoryEnd ==
    ASSUME NEW p, NEW q, NEW h, NEW l, NEW code, MemoryRun(cpu, mem, code, p, q, h, l), cpu.halted
    PROVE  /\ get_rp(cpu, 1) = Word(l, h) /\ get_hl(cpu) = get_rp(cpu, 1)
           /\ cpu.sp = Wrap(p + 2) /\ cpu.out.value = Lo(h + 1)
BY PairWords DEF MemoryRun
-----------------------------------------------------------------------------
(* Nested routines.                                                        *)

\* The words of f with another one in place n, and the stack that has it.
With(f, n, t) == [k \in 1 .. 9 |-> IF k = n THEN t ELSE f[k]]

LEMMA WithWords ==
    ASSUME NEW f, NEW n \in 1 .. 9, NEW t
    PROVE  \A k \in 1 .. n : With(f, n, t)[k] = IF k = n THEN t ELSE f[k]
BY DEF With

LEMMA WithItself ==
    ASSUME NEW f, NEW n \in 1 .. 9, NEW m, NEW s, NEW sp
    PROVE  Stacked(sp, m, s, f, n) <=> Stacked(sp, m, s, With(f, n, f[n]), n)
<1>1. \A k \in 1 .. n : With(f, n, f[n])[k] = f[k]
  BY WithWords
<1>2. Words(m, s, f, n) <=> Words(m, s, With(f, n, f[n]), n)
  BY <1>1 DEF Words
<1>3. QED
  BY <1>2 DEF Stacked

\* XTHL changes the word on the top of the stack and HL for each other.
LEMMA SwapStep ==
    ASSUME CpuTypeOK, cpu_step, opcode = \hE3, NEW s, Clear(s), NEW f, NEW n \in 1 .. 9,
           NEW t \in Address, Stacked(cpu.sp, mem, s, With(f, n, t), n),
           NEW image, Kept(mem, image)
    PROVE  /\ Turned(get_rp(cpu, 0), get_rp(cpu, 1), t, cpu.sp, Wrap(cpu.pc + 1), mem')
           /\ Stacked(cpu'.sp, mem', s, With(f, n, get_rp(cpu, 2)), n) /\ Kept(mem', image)
<1> DEFINE e  == get_rp(cpu, 2)
           d  == 2 * n - 1
           u  == Cell(s, d + 1)
           v  == Cell(s, d)
           m1 == mem_write(mem, u, Lo(e))
           m2 == mem_write(m1, v, Hi(e))
<1>1. s \in Address
  BY DEF Clear
<1>2. d \in 1 .. 18 /\ d + 1 \in 1 .. 18 /\ d \in Depths /\ d + 1 \in Depths /\ d + 1 = 2 * n
      /\ d + 1 # d
  BY DepthRange
<1>3. cpu.sp = u /\ Wrap(u + 1) = v
  <2>1. cpu.sp = Cell(s, 2 * n)
    BY DEF Stacked
  <2> HIDE DEF d
  <2>2. Wrap(Cell(s, d + 1) + 1) = Cell(s, d)
    BY <1>1, <1>2, CellsApart
  <2>3. QED
    BY <1>2, <2>1, <2>2
<1>4. u # v /\ u \in Address /\ v \in Address
  <2> HIDE DEF d
  <2>1. \A k \in Depths : Cell(s, k) = Cell(s, d) <=> k = d
    BY <1>1, <1>2, CellsApart
  <2>2. Cell(s, d) \in Address
    BY <1>1, <1>2, CellsApart
  <2>3. cpu.sp \in Address
    BY Fields
  <2>4. QED
    BY <1>2, <1>3, <2>1, <2>2, <2>3
<1>5. ~(8 <= u /\ u <= 749) /\ ~(8 <= v /\ v <= 749)
  <2> DEFINE k == d + 1
  <2>1. d \in 1 .. 18 /\ k \in 1 .. 18
    BY <1>2
  <2> HIDE DEF d, k
  <2>2. ~(8 <= Cell(s, d) /\ Cell(s, d) <= 749) /\ ~(8 <= Cell(s, k) /\ Cell(s, k) <= 749)
    BY <2>1, CellsClear
  <2>3. QED
    BY <2>2 DEF k
<1>6. /\ Hi(e) = cpu.r["H"] /\ Lo(e) = cpu.r["L"]
  BY PairWords, BytesWord, Fields
<1>7. read_u16(mem, cpu.sp) = t
  <2>1. mem_read(mem, v) = Hi(t) /\ mem_read(mem, u) = Lo(t)
    <3>1. n \in 1 .. n /\ With(f, n, t)[n] = t
      BY DEF With
    <3>2. /\ mem_read(mem, Cell(s, 2 * n - 1)) = Hi(With(f, n, t)[n])
          /\ mem_read(mem, Cell(s, 2 * n)) = Lo(With(f, n, t)[n])
      BY <3>1 DEF Stacked, Words
    <3>3. QED
      BY <1>2, <3>1, <3>2
  <2> HIDE DEF u, v
  <2>2. QED
    BY <1>3, <2>1, WordBytes DEF read_u16
<1>8. Go(set_rp(cpu, 2, t), 1) /\ mem' = m2
  <2>1. XTHL
    BY DecodeControl
  <2> HIDE DEF u, v, e
  <2>2. QED
    BY <1>3, <1>6, <1>7, <2>1 DEF XTHL
<1>9. Shows(set_rp(cpu, 2, t), get_rp(cpu, 0), get_rp(cpu, 1), t, cpu.sp)
  BY ShowsItself, ShowsSet
<1>10. Turned(get_rp(cpu, 0), get_rp(cpu, 1), t, cpu.sp, Wrap(cpu.pc + 1), mem')
  BY <1>8, <1>9, ShowsGoes
<1>11. Kept(m2, image)
  <2> HIDE DEF u, v
  <2>1. Kept(m1, image)
    BY <1>5, KeptWritten
  <2> HIDE DEF m1
  <2>2. QED
    BY <1>5, <2>1, KeptWritten
<1>12. Stacked(cpu.sp, m2, s, With(f, n, e), n)
  <2> SUFFICES ASSUME NEW k \in 1 .. n
               PROVE  /\ mem_read(m2, Cell(s, 2 * k - 1)) = Hi(With(f, n, e)[k])
                      /\ mem_read(m2, Cell(s, 2 * k)) = Lo(With(f, n, e)[k])
    BY DEF Stacked, Words
  <2>1. With(f, n, e)[k] = (IF k = n THEN e ELSE f[k]) /\ With(f, n, t)[k] = (IF k = n THEN t ELSE f[k])
    <3>1. k \in 1 .. 9
      OBVIOUS
    <3> HIDE DEF e
    <3>2. QED
      BY <3>1, Zenon DEF With
  <2>2. /\ mem_read(mem, Cell(s, 2 * k - 1)) = Hi(With(f, n, t)[k])
        /\ mem_read(mem, Cell(s, 2 * k)) = Lo(With(f, n, t)[k])
    BY DEF Stacked, Words
  <2>3. \A x : mem_read(m2, x) = IF x = v THEN Hi(e) ELSE IF x = u THEN Lo(e) ELSE mem_read(mem, x)
    BY ReadsWritten
  <2>4. CASE k = n
    <3>1. Cell(s, 2 * k - 1) = v /\ Cell(s, 2 * k) = u
      BY <1>2, <2>4
    <3> HIDE DEF u, v, m2
    <3>2. QED
      BY <1>4, <2>1, <2>3, <2>4, <3>1
  <2>5. CASE k # n
    <3> DEFINE i == 2 * k - 1
               j == 2 * k
    <3>1. i \in Depths /\ j \in Depths /\ i # d /\ i # d + 1 /\ j # d /\ j # d + 1
      BY <2>5, DepthRange
    <3> HIDE DEF i, j, d
    <3>2. Cell(s, i) # Cell(s, d) /\ Cell(s, j) # Cell(s, d)
      BY <1>1, <1>2, <3>1, CellsApart
    <3>3. Cell(s, i) # Cell(s, d + 1) /\ Cell(s, j) # Cell(s, d + 1)
      <4> DEFINE x == d + 1
      <4>1. x \in Depths /\ i # x /\ j # x
        BY <1>2, <3>1
      <4> HIDE DEF x
      <4>2. Cell(s, i) # Cell(s, x) /\ Cell(s, j) # Cell(s, x)
        BY <1>1, <3>1, <4>1, CellsApart
      <4>3. QED
        BY <4>2 DEF x
    <3>4. mem_read(m2, Cell(s, i)) = mem_read(mem, Cell(s, i))
          /\ mem_read(m2, Cell(s, j)) = mem_read(mem, Cell(s, j))
      <4> HIDE DEF m2
      <4>1. QED
        BY <2>3, <3>2, <3>3
    <3>5. QED
      BY <2>1, <2>2, <2>5, <3>4 DEF i, j
  <2>6. QED
    BY <2>4, <2>5
<1>13. QED
  BY <1>8, <1>10, <1>11, <1>12 DEF Turned
-----------------------------------------------------------------------------
(* Pieces of code in a memory.                                             *)

Lies(m, a, code) == \A i \in 1 .. Len(code) : mem_read(m, a + i - 1) = code[i]

\* Two pieces of code that lie joined lie one behind the other.
LEMMA LiesApart ==
    ASSUME NEW m, NEW a \in Int, NEW p \in Seq(Int), NEW q \in Seq(Int), NEW n \in Nat, Lies(m, a, p \o q)
    PROVE  Lies(m, a, p) /\ (n = Len(p) => Lies(m, a + n, q))
<1>1. Len(p) \in Nat /\ Len(q) \in Nat /\ Len(p \o q) = Len(p) + Len(q)
  OBVIOUS
<1>2. ASSUME NEW i \in 1 .. Len(p)
      PROVE  mem_read(m, a + i - 1) = p[i]
  <2>1. i \in 1 .. Len(p \o q) /\ (p \o q)[i] = p[i]
    BY <1>1
  <2>2. QED
    BY <2>1 DEF Lies
<1>3. ASSUME n = Len(p), NEW i \in 1 .. Len(q)
      PROVE  mem_read(m, (a + n) + i - 1) = q[i]
  <2> DEFINE j == n + i
  <2>1. j \in 1 .. Len(p \o q) /\ (p \o q)[j] = q[i]
    BY <1>1, <1>3
  <2>2. (a + n) + i - 1 = a + j - 1
    BY <1>1
  <2> HIDE DEF j
  <2>3. mem_read(m, a + j - 1) = (p \o q)[j]
    BY <2>1 DEF Lies
  <2>4. QED
    BY <2>1, <2>2, <2>3
<1>4. QED
  BY <1>2, <1>3 DEF Lies

\* Code that lies in a program is fetched.
LEMMA FetchLies ==
    ASSUME NEW image, Kept(mem, image), NEW a \in Int, NEW code, Len(code) \in Nat,
           Lies(image, a, code), 8 <= a, a + Len(code) <= 747
    PROVE  \A i \in 1 .. Len(code) :
              cpu.pc = a + i - 1 =>
                  /\ opcode = code[i]
                  /\ i + 1 <= Len(code) => Operand = code[i + 1]
                  /\ i + 2 <= Len(code) => Target = Word(code[i + 2], code[i + 1])
                  /\ Wrap(cpu.pc + 1) = a + i /\ Wrap(cpu.pc + 2) = a + i + 1
                  /\ Wrap(cpu.pc + 3) = a + i + 2 /\ next_pc = a + i
<1> SUFFICES ASSUME NEW i \in 1 .. Len(code), cpu.pc = a + i - 1
             PROVE  /\ opcode = code[i]
                    /\ i + 1 <= Len(code) => Operand = code[i + 1]
                    /\ i + 2 <= Len(code) => Target = Word(code[i + 2], code[i + 1])
                    /\ Wrap(cpu.pc + 1) = a + i /\ Wrap(cpu.pc + 2) = a + i + 1
                    /\ Wrap(cpu.pc + 3) = a + i + 2 /\ next_pc = a + i
  OBVIOUS
<1> DEFINE x == a + i - 1
<1>1. x \in Int /\ cpu.pc = x /\ 8 <= x /\ x <= 747 /\ x + 1 = a + i /\ x + 2 = a + i + 1
      /\ x + 3 = a + i + 2
  OBVIOUS
<1> HIDE DEF x
<1>2. /\ opcode = mem_read(image, x)
      /\ Operand = mem_read(image, x + 1)
      /\ Target = Word(mem_read(image, x + 2), mem_read(image, x + 1))
      /\ Wrap(cpu.pc + 1) = x + 1 /\ Wrap(cpu.pc + 2) = x + 2 /\ Wrap(cpu.pc + 3) = x + 3
      /\ next_pc = x + 1
  BY <1>1, FetchKept
<1>3. \A k \in 1 .. Len(code) : mem_read(image, a + k - 1) = code[k]
  BY DEF Lies
<1>4. /\ mem_read(image, x) = code[i]
      /\ i + 1 <= Len(code) => mem_read(image, x + 1) = code[i + 1]
      /\ i + 2 <= Len(code) => mem_read(image, x + 2) = code[i + 2]
  <2> DEFINE j == i + 1
             k == i + 2
  <2>1. a + i - 1 = x /\ a + j - 1 = x + 1 /\ a + k - 1 = x + 2
    BY <1>1
  <2>2. /\ j <= Len(code) => j \in 1 .. Len(code)
        /\ k <= Len(code) => k \in 1 .. Len(code)
    OBVIOUS
  <2> HIDE DEF j, k
  <2>3. /\ mem_read(image, a + i - 1) = code[i]
        /\ j <= Len(code) => mem_read(image, a + j - 1) = code[j]
        /\ k <= Len(code) => mem_read(image, a + k - 1) = code[k]
    BY <1>3, <2>2
  <2>4. QED
    BY <2>1, <2>3 DEF j, k
<1>5. QED
  BY <1>1, <1>2, <1>4

\* A program lies where it was placed, when no other one reaches there.
LEMMA PlacedLies ==
    ASSUME NEW parts, NEW a \in Int, NEW code, Len(code) \in Nat, At(a, code) \in parts,
           \A p \in parts : \A x \in a .. a + Len(code) - 1 : x \in DOMAIN p => p = At(a, code)
    PROVE  Lies(Place(parts), a, code)
<1> SUFFICES ASSUME NEW i \in 1 .. Len(code)
             PROVE  mem_read(Place(parts), a + i - 1) = code[i]
  BY DEF Lies
<1> DEFINE x    == a + i - 1
           part == At(a, code)
<1>1. x \in DOMAIN part
  BY DEF At
<1>2. \A p \in parts : x \in DOMAIN p => p = part
  <2>1. x \in a .. a + Len(code) - 1
    OBVIOUS
  <2>2. QED
    BY <2>1
<1>3. mem_read(part, x) = code[i]
  BY Placed
<1> HIDE DEF x, part
<1>4. x \in DOMAIN Place(parts) /\ Place(parts)[x] = (CHOOSE p \in parts : x \in DOMAIN p)[x]
  BY <1>1 DEF Place, part
<1>5. (CHOOSE p \in parts : x \in DOMAIN p) = part
  BY <1>1, <1>2 DEF part
<1>6. mem_read(Place(parts), x) = mem_read(part, x)
  BY <1>1, <1>4, <1>5 DEF mem_read
<1>7. QED
  BY <1>3, <1>6 DEF x
-----------------------------------------------------------------------------
(* One routine: it saves the pairs, and spoils and swaps them.             *)

\* One word more on the stack.
Up(n) == n + 1

LEMMA Levels ==
    ASSUME NEW n \in 0 .. 6
    PROVE  /\ n \in 0 .. 8 /\ Up(n) \in 0 .. 8 /\ Up(Up(n)) \in 0 .. 8
           /\ Up(n) \in 1 .. 9 /\ Up(Up(n)) \in 1 .. 9 /\ Up(Up(Up(n))) \in 1 .. 9
           /\ Up(n) - 1 = n /\ Up(Up(n)) - 1 = Up(n) /\ Up(Up(Up(n))) - 1 = Up(Up(n))
           /\ Up(n) # Up(Up(Up(n))) /\ Up(Up(n)) # Up(Up(Up(n)))
BY DEF Up

\* A push puts the pair on the next level of the stack.
LEMMA PushUp ==
    ASSUME CpuTypeOK, cpu_step, NEW s, Clear(s), NEW f, NEW n \in 0 .. 8,
           Stacked(cpu.sp, mem, s, f, n), NEW image, Kept(mem, image),
           opcode \in {\hC5, \hD5}, f[Up(n)] = PushedWord
    PROVE  /\ Turned(get_rp(cpu, 0), get_rp(cpu, 1), get_rp(cpu, 2), cpu'.sp, Wrap(cpu.pc + 1), mem')
           /\ Stacked(cpu'.sp, mem', s, f, Up(n)) /\ Kept(mem', image)
BY PushStep DEF Up

\* From its first instruction to its last XTHL: the return address and the
\* pairs b0 and d0 are the words n + 1 to n + 3 of the stack, but that what
\* HL was is for a while in the place of d0.
Saving(c, m, s, f, E, n, b0, d0, b, d) ==
    LET at(k)    == Stacked(c.sp, m, s, f, k)
        swapped  == \E v \in Address :
                       Stacked(c.sp, m, s, With(f, Up(Up(Up(n))), v), Up(Up(Up(n))))
        pairs(x) == get_rp(c, 0) = b /\ get_rp(c, 1) = x
    IN  \/ c.pc = E /\ at(Up(n)) /\ get_rp(c, 0) = b0 /\ get_rp(c, 1) = d0
        \/ c.pc = E + 1 /\ at(Up(Up(n))) /\ get_rp(c, 1) = d0
        \/ c.pc = E + 2 /\ at(Up(Up(Up(n))))
        \/ c.pc = E + 5 /\ at(Up(Up(Up(n)))) /\ get_rp(c, 0) = b
        \/ c.pc = E + 8 /\ at(Up(Up(Up(n)))) /\ pairs(d)
        \/ c.pc = E + 9 /\ swapped /\ pairs(d) /\ get_rp(c, 2) = d0
        \/ c.pc = E + 10 /\ swapped /\ pairs(d0) /\ get_rp(c, 2) = d
        \/ /\ c.pc = E + 11 /\ pairs(d0)
           /\ Stacked(c.sp, m, s, With(f, Up(Up(Up(n))), d), Up(Up(Up(n))))
        \/ c.pc = E + 12 /\ swapped /\ pairs(d0) /\ get_rp(c, 2) = d
        \/ c.pc = E + 13 /\ swapped /\ pairs(d) /\ get_rp(c, 2) = d0

Body(b, d) == <<\hC5, \hD5>> \o Imm(\h01, b) \o Imm(\h11, d)
              \o <<\hE3, \hEB, \hE3, \hE3, \hEB, \hE3>>

\* A step of the part of a routine that saves and spoils the pairs.
LEMMA SavingStep ==
    ASSUME CpuTypeOK, cpu_step, NEW s, Clear(s), NEW f, NEW n \in 0 .. 6,
           NEW E \in Int, 8 <= E, E <= 600,
           NEW b0 \in Address, NEW d0 \in Address, NEW b \in Address, NEW d \in Address,
           f[Up(Up(n))] = b0, f[Up(Up(Up(n)))] = d0,
           NEW image, Kept(mem, image), Lies(image, E, Body(b, d)),
           Saving(cpu, mem, s, f, E, n, b0, d0, b, d)
    PROVE  /\ Kept(mem', image) /\ ~cpu'.halted /\ cpu'.flags = cpu.flags
           /\ \/ Saving(cpu', mem', s, f, E, n, b0, d0, b, d)
              \/ /\ cpu'.pc = E + 14 /\ Stacked(cpu'.sp, mem', s, f, Up(Up(Up(n))))
                 /\ get_rp(cpu', 0) = b /\ get_rp(cpu', 1) = d
<1> DEFINE code == Body(b, d)
           n1   == Up(n)
           n2   == Up(Up(n))
           n3   == Up(Up(Up(n)))
           Goal1 == /\ Kept(mem', image) /\ ~cpu'.halted /\ cpu'.flags = cpu.flags
                    /\ Saving(cpu', mem', s, f, E, n, b0, d0, b, d)
<1>1. /\ Len(code) = 14
      /\ code[1] = \hC5 /\ code[2] = \hD5
      /\ code[3] = \h01 /\ code[4] = Lo(b) /\ code[5] = Hi(b)
      /\ code[6] = \h11 /\ code[7] = Lo(d) /\ code[8] = Hi(d)
      /\ code[9] = \hE3 /\ code[10] = \hEB /\ code[11] = \hE3 /\ code[12] = \hE3
      /\ code[13] = \hEB /\ code[14] = \hE3
  BY DEF Body, Imm
<1>2. \A i \in 1 .. Len(code) :
         cpu.pc = E + i - 1 =>
             /\ opcode = code[i]
             /\ i + 1 <= Len(code) => Operand = code[i + 1]
             /\ i + 2 <= Len(code) => Target = Word(code[i + 2], code[i + 1])
             /\ Wrap(cpu.pc + 1) = E + i /\ Wrap(cpu.pc + 2) = E + i + 1
             /\ Wrap(cpu.pc + 3) = E + i + 2 /\ next_pc = E + i
  <2>1. Len(code) \in Nat /\ E + Len(code) <= 747
    BY <1>1
  <2> HIDE DEF code
  <2>2. QED
    BY <2>1, FetchLies DEF code
<1> HIDE DEF code
<1>3. \A i \in 1 .. 14 :
         cpu.pc = E + i - 1 => /\ opcode = code[i]
                               /\ i + 2 <= 14 => Target = Word(code[i + 2], code[i + 1])
                               /\ Wrap(cpu.pc + 1) = E + i /\ Wrap(cpu.pc + 3) = E + i + 2
  <2>1. Len(code) = 14
    BY <1>1
  <2>2. QED
    BY <1>2, <2>1
<1>4. Word(Hi(b), Lo(b)) = b /\ Word(Hi(d), Lo(d)) = d
  BY WordBytes
<1>5. /\ cpu.pc = E => opcode = \hC5 /\ Wrap(cpu.pc + 1) = E + 1
      /\ cpu.pc = E + 1 => opcode = \hD5 /\ Wrap(cpu.pc + 1) = E + 2
      /\ cpu.pc = E + 2 => opcode = \h01 /\ Target = b /\ Wrap(cpu.pc + 3) = E + 5
      /\ cpu.pc = E + 5 => opcode = \h11 /\ Target = d /\ Wrap(cpu.pc + 3) = E + 8
      /\ cpu.pc = E + 8 => opcode = \hE3 /\ Wrap(cpu.pc + 1) = E + 9
      /\ cpu.pc = E + 9 => opcode = \hEB /\ Wrap(cpu.pc + 1) = E + 10
      /\ cpu.pc = E + 10 => opcode = \hE3 /\ Wrap(cpu.pc + 1) = E + 11
      /\ cpu.pc = E + 11 => opcode = \hE3 /\ Wrap(cpu.pc + 1) = E + 12
      /\ cpu.pc = E + 12 => opcode = \hEB /\ Wrap(cpu.pc + 1) = E + 13
      /\ cpu.pc = E + 13 => opcode = \hE3 /\ Wrap(cpu.pc + 1) = E + 14
  BY <1>1, <1>3, <1>4
<1>6. /\ n \in 0 .. 8 /\ n1 \in 0 .. 8 /\ n2 \in 0 .. 8
      /\ n1 \in 1 .. 9 /\ n2 \in 1 .. 9 /\ n3 \in 1 .. 9
  BY Levels
<1> DEFINE at(k) == Stacked(cpu'.sp, mem', s, f, k)
           pairs(x) == get_rp(cpu', 0) = b /\ get_rp(cpu', 1) = x
           swapped == \E v \in Address : Stacked(cpu'.sp, mem', s, With(f, n3, v), n3)
<1>7. ASSUME Kept(mem', image), ~cpu'.halted, cpu'.flags = cpu.flags,
             \/ cpu'.pc = E + 1 /\ at(n2) /\ get_rp(cpu', 1) = d0
             \/ cpu'.pc = E + 2 /\ at(n3)
             \/ cpu'.pc = E + 5 /\ at(n3) /\ get_rp(cpu', 0) = b
             \/ cpu'.pc = E + 8 /\ at(n3) /\ pairs(d)
             \/ cpu'.pc = E + 9 /\ swapped /\ pairs(d) /\ get_rp(cpu', 2) = d0
             \/ cpu'.pc = E + 10 /\ swapped /\ pairs(d0) /\ get_rp(cpu', 2) = d
             \/ /\ cpu'.pc = E + 11 /\ pairs(d0)
                /\ Stacked(cpu'.sp, mem', s, With(f, n3, d), n3)
             \/ cpu'.pc = E + 12 /\ swapped /\ pairs(d0) /\ get_rp(cpu', 2) = d
             \/ cpu'.pc = E + 13 /\ swapped /\ pairs(d) /\ get_rp(cpu', 2) = d0
      PROVE  Goal1
  BY <1>7, Zenon DEF Saving
<1>8. CASE cpu.pc = E /\ Stacked(cpu.sp, mem, s, f, n1) /\ get_rp(cpu, 0) = b0 /\ get_rp(cpu, 1) = d0
  <2>1. f[Up(n1)] = PushedWord
    BY <1>5, <1>8 DEF PushedWord
  <2> HIDE DEF n1
  <2>2. /\ Turned(get_rp(cpu, 0), get_rp(cpu, 1), get_rp(cpu, 2), cpu'.sp, Wrap(cpu.pc + 1), mem')
        /\ Stacked(cpu'.sp, mem', s, f, Up(n1)) /\ Kept(mem', image)
    BY <1>5, <1>6, <1>8, <2>1, PushUp
  <2>3. cpu'.pc = E + 1 /\ get_rp(cpu', 1) = d0 /\ ~cpu'.halted /\ cpu'.flags = cpu.flags
    BY <1>5, <1>8, <2>2 DEF Turned
  <2>4. at(n2)
    BY <2>2 DEF n1
  <2>5. QED
    BY <1>7, <2>2, <2>3, <2>4
<1>9. CASE cpu.pc = E + 1 /\ Stacked(cpu.sp, mem, s, f, n2) /\ get_rp(cpu, 1) = d0
  <2>1. f[Up(n2)] = PushedWord
    BY <1>5, <1>9 DEF PushedWord
  <2> HIDE DEF n2
  <2>2. /\ Turned(get_rp(cpu, 0), get_rp(cpu, 1), get_rp(cpu, 2), cpu'.sp, Wrap(cpu.pc + 1), mem')
        /\ Stacked(cpu'.sp, mem', s, f, Up(n2)) /\ Kept(mem', image)
    BY <1>5, <1>6, <1>9, <2>1, PushUp
  <2>3. cpu'.pc = E + 2 /\ ~cpu'.halted /\ cpu'.flags = cpu.flags
    BY <1>5, <1>9, <2>2 DEF Turned
  <2>4. at(n3)
    BY <2>2 DEF n2
  <2>5. QED
    BY <1>7, <2>2, <2>3, <2>4
<1>10. CASE /\ cpu.pc \in {E + 2, E + 5} /\ Stacked(cpu.sp, mem, s, f, n3)
            /\ cpu.pc = E + 5 => get_rp(cpu, 0) = b
  <2>1. CASE cpu.pc = E + 2
    <3>1. Turned(b, get_rp(cpu, 1), get_rp(cpu, 2), cpu.sp, E + 5, mem)
      BY <1>5, <2>1, LoadStep
    <3>2. cpu'.pc = E + 5 /\ get_rp(cpu', 0) = b /\ ~cpu'.halted /\ cpu'.flags = cpu.flags
          /\ cpu'.sp = cpu.sp /\ mem' = mem
      BY <3>1 DEF Turned
    <3>3. at(n3)
      BY <1>10, <3>2
    <3>4. QED
      BY <1>7, <3>2, <3>3
  <2>2. CASE cpu.pc = E + 5
    <3>1. Turned(get_rp(cpu, 0), d, get_rp(cpu, 2), cpu.sp, E + 8, mem)
      BY <1>5, <2>2, LoadStep
    <3>2. cpu'.pc = E + 8 /\ pairs(d) /\ ~cpu'.halted /\ cpu'.flags = cpu.flags
          /\ cpu'.sp = cpu.sp /\ mem' = mem
      BY <1>10, <2>2, <3>1 DEF Turned
    <3>3. at(n3)
      BY <1>10, <3>2
    <3>4. QED
      BY <1>7, <3>2, <3>3
  <2>3. QED
    BY <1>10, <2>1, <2>2
<1>11. ASSUME opcode = \hE3, NEW t \in Address, Stacked(cpu.sp, mem, s, With(f, n3, t), n3)
       PROVE  /\ Kept(mem', image) /\ ~cpu'.halted /\ cpu'.flags = cpu.flags
              /\ Stacked(cpu'.sp, mem', s, With(f, n3, get_rp(cpu, 2)), n3) /\ get_rp(cpu, 2) \in Address
              /\ swapped
              /\ get_rp(cpu', 0) = get_rp(cpu, 0) /\ get_rp(cpu', 1) = get_rp(cpu, 1)
              /\ get_rp(cpu', 2) = t /\ cpu'.pc = Wrap(cpu.pc + 1)
  <2> HIDE DEF n3
  <2>1. get_rp(cpu, 2) \in Address
    BY PairWords, BytesWord, Fields DEF get_rp
  <2>2. /\ Turned(get_rp(cpu, 0), get_rp(cpu, 1), t, cpu.sp, Wrap(cpu.pc + 1), mem')
        /\ Stacked(cpu'.sp, mem', s, With(f, n3, get_rp(cpu, 2)), n3) /\ Kept(mem', image)
    BY <1>6, <1>11, SwapStep
  <2>3. QED
    BY <2>1, <2>2 DEF Turned
<1>12. ASSUME opcode = \hEB
       PROVE  /\ Kept(mem', image) /\ ~cpu'.halted /\ cpu'.flags = cpu.flags
              /\ cpu'.sp = cpu.sp /\ mem' = mem
              /\ get_rp(cpu', 0) = get_rp(cpu, 0) /\ get_rp(cpu', 1) = get_rp(cpu, 2)
              /\ get_rp(cpu', 2) = get_rp(cpu, 1) /\ cpu'.pc = Wrap(cpu.pc + 1)
  BY <1>12, WordStep DEF Turned
<1>13. CASE cpu.pc = E + 8 /\ Stacked(cpu.sp, mem, s, f, n3) /\ get_rp(cpu, 0) = b /\ get_rp(cpu, 1) = d
  <2> HIDE DEF n3
  <2>1. Stacked(cpu.sp, mem, s, With(f, n3, d0), n3)
    BY <1>6, <1>13, WithItself DEF n3
  <2>2. QED
    BY <1>5, <1>7, <1>11, <1>13, <2>1
<1>14. CASE /\ cpu.pc \in {E + 9, E + 12}
            /\ \E v \in Address : Stacked(cpu.sp, mem, s, With(f, n3, v), n3)
            /\ get_rp(cpu, 0) = b
            /\ cpu.pc = E + 9 => get_rp(cpu, 1) = d /\ get_rp(cpu, 2) = d0
            /\ cpu.pc = E + 12 => get_rp(cpu, 1) = d0 /\ get_rp(cpu, 2) = d
  <2> HIDE DEF n3
  <2>1. swapped
    BY <1>5, <1>12, <1>14
  <2>2. QED
    BY <1>5, <1>7, <1>12, <1>14, <2>1
<1>15. CASE /\ cpu.pc = E + 10 /\ \E v \in Address : Stacked(cpu.sp, mem, s, With(f, n3, v), n3)
            /\ get_rp(cpu, 0) = b /\ get_rp(cpu, 1) = d0 /\ get_rp(cpu, 2) = d
  <2> HIDE DEF n3
  <2>1. PICK v \in Address : Stacked(cpu.sp, mem, s, With(f, n3, v), n3)
    BY <1>15
  <2>2. QED
    BY <1>5, <1>7, <1>11, <1>15, <2>1
<1>16. CASE /\ cpu.pc = E + 11 /\ get_rp(cpu, 0) = b /\ get_rp(cpu, 1) = d0
            /\ Stacked(cpu.sp, mem, s, With(f, n3, d), n3)
  <2> HIDE DEF n3
  <2>1. QED
    BY <1>5, <1>7, <1>11, <1>16
<1>17. CASE /\ cpu.pc = E + 13 /\ \E v \in Address : Stacked(cpu.sp, mem, s, With(f, n3, v), n3)
            /\ get_rp(cpu, 0) = b /\ get_rp(cpu, 1) = d /\ get_rp(cpu, 2) = d0
  <2> HIDE DEF n3
  <2>1. PICK v \in Address : Stacked(cpu.sp, mem, s, With(f, n3, v), n3)
    BY <1>17
  <2>2. /\ Kept(mem', image) /\ ~cpu'.halted /\ cpu'.flags = cpu.flags
        /\ Stacked(cpu'.sp, mem', s, With(f, n3, d0), n3)
        /\ get_rp(cpu', 0) = b /\ get_rp(cpu', 1) = d /\ cpu'.pc = E + 14
    BY <1>5, <1>11, <1>17, <2>1
  <2>3. Stacked(cpu'.sp, mem', s, f, n3)
    BY <1>6, <2>2, WithItself DEF n3
  <2>4. QED
    BY <2>2, <2>3 DEF n3
<1>18. E + 2 # E + 5 /\ E + 9 # E + 12
  OBVIOUS
<1>19. QED
  <2> DEFINE was(k) == Stacked(cpu.sp, mem, s, f, k)
             other  == \E v \in Address : Stacked(cpu.sp, mem, s, With(f, n3, v), n3)
  <2>1. \/ cpu.pc = E /\ was(n1) /\ get_rp(cpu, 0) = b0 /\ get_rp(cpu, 1) = d0
        \/ cpu.pc = E + 1 /\ was(n2) /\ get_rp(cpu, 1) = d0
        \/ cpu.pc = E + 2 /\ was(n3)
        \/ cpu.pc = E + 5 /\ was(n3) /\ get_rp(cpu, 0) = b
        \/ cpu.pc = E + 8 /\ was(n3) /\ get_rp(cpu, 0) = b /\ get_rp(cpu, 1) = d
        \/ /\ cpu.pc = E + 9 /\ other /\ get_rp(cpu, 0) = b /\ get_rp(cpu, 1) = d
           /\ get_rp(cpu, 2) = d0
        \/ /\ cpu.pc = E + 10 /\ other /\ get_rp(cpu, 0) = b /\ get_rp(cpu, 1) = d0
           /\ get_rp(cpu, 2) = d
        \/ /\ cpu.pc = E + 11 /\ get_rp(cpu, 0) = b /\ get_rp(cpu, 1) = d0
           /\ Stacked(cpu.sp, mem, s, With(f, n3, d), n3)
        \/ /\ cpu.pc = E + 12 /\ other /\ get_rp(cpu, 0) = b /\ get_rp(cpu, 1) = d0
           /\ get_rp(cpu, 2) = d
        \/ /\ cpu.pc = E + 13 /\ other /\ get_rp(cpu, 0) = b /\ get_rp(cpu, 1) = d
           /\ get_rp(cpu, 2) = d0
    BY Zenon DEF Saving
  <2> HIDE DEF n1, n2, n3
  <2>2. QED
    BY <1>8, <1>9, <1>10, <1>13, <1>14, <1>15, <1>16, <1>17, <1>18, <2>1
-----------------------------------------------------------------------------
(* One routine: it restores the pairs and returns; and one enters it.      *)

\* From its first POP, at x, to the return, or the PCHL that stands for it.
Leaving(c, m, s, f, x, n, b0, d0, how) ==
    \/ c.pc = x /\ Stacked(c.sp, m, s, f, Up(Up(Up(n))))
    \/ c.pc = x + 1 /\ Stacked(c.sp, m, s, f, Up(Up(n))) /\ get_rp(c, 1) = d0
    \/ c.pc = x + 2 /\ Stacked(c.sp, m, s, f, Up(n)) /\ get_rp(c, 0) = b0 /\ get_rp(c, 1) = d0
    \/ /\ c.pc = x + 3 /\ Stacked(c.sp, m, s, f, n) /\ get_rp(c, 0) = b0 /\ get_rp(c, 1) = d0
       /\ how = "pchl" /\ get_rp(c, 2) = f[Up(n)]

\* A pop gives back the word of the level and goes one down.
LEMMA PopUp ==
    ASSUME CpuTypeOK, cpu_step, NEW s, Clear(s), NEW f, NEW n \in 0 .. 8,
           Stacked(cpu.sp, mem, s, f, Up(n)), f[Up(n)] \in Address, opcode \in {\hC1, \hD1, \hE1}
    PROVE  /\ opcode = \hC1 => Turned(f[Up(n)], get_rp(cpu, 1), get_rp(cpu, 2), cpu'.sp,
                                      Wrap(cpu.pc + 1), mem)
           /\ opcode = \hD1 => Turned(get_rp(cpu, 0), f[Up(n)], get_rp(cpu, 2), cpu'.sp,
                                      Wrap(cpu.pc + 1), mem)
           /\ opcode = \hE1 => Turned(get_rp(cpu, 0), get_rp(cpu, 1), f[Up(n)], cpu'.sp,
                                      Wrap(cpu.pc + 1), mem)
           /\ Stacked(cpu'.sp, mem', s, f, n)
<1> DEFINE k == Up(n)
<1>1. k \in 1 .. 9 /\ k - 1 = n
  BY DEF Up
<1> HIDE DEF k
<1>2. Stacked(cpu.sp, mem, s, f, k) /\ f[k] \in Address
  BY DEF k
<1>3. /\ opcode = \hC1 => Turned(f[k], get_rp(cpu, 1), get_rp(cpu, 2), cpu'.sp,
                                 Wrap(cpu.pc + 1), mem)
      /\ opcode = \hD1 => Turned(get_rp(cpu, 0), f[k], get_rp(cpu, 2), cpu'.sp,
                                 Wrap(cpu.pc + 1), mem)
      /\ opcode = \hE1 => Turned(get_rp(cpu, 0), get_rp(cpu, 1), f[k], cpu'.sp,
                                 Wrap(cpu.pc + 1), mem)
      /\ Stacked(cpu'.sp, mem', s, f, k - 1)
  BY <1>1, <1>2, PopStep
<1>4. QED
  BY <1>1, <1>3 DEF k

\* A return goes to the word of the level and one down.
LEMMA ReturnUp ==
    ASSUME CpuTypeOK, cpu_step, NEW s, Clear(s), NEW f, NEW n \in 0 .. 8,
           Stacked(cpu.sp, mem, s, f, Up(n)), f[Up(n)] \in Address, Returning
    PROVE  /\ Turned(get_rp(cpu, 0), get_rp(cpu, 1), get_rp(cpu, 2), cpu'.sp, f[Up(n)], mem)
           /\ Stacked(cpu'.sp, mem', s, f, n)
<1> DEFINE k == Up(n)
<1>1. k \in 1 .. 9 /\ k - 1 = n
  BY DEF Up
<1> HIDE DEF k
<1>2. Stacked(cpu.sp, mem, s, f, k) /\ f[k] \in Address
  BY DEF k
<1>3. /\ Turned(get_rp(cpu, 0), get_rp(cpu, 1), get_rp(cpu, 2), cpu'.sp, f[k], mem)
      /\ Stacked(cpu'.sp, mem', s, f, k - 1)
  BY <1>1, <1>2, ReturnStep
<1>4. QED
  BY <1>1, <1>3 DEF k

\* PCHL goes where HL points.
LEMMA PointStep ==
    ASSUME CpuTypeOK, cpu_step, opcode = \hE9
    PROVE  Turned(get_rp(cpu, 0), get_rp(cpu, 1), get_rp(cpu, 2), cpu.sp, get_rp(cpu, 2), mem)
<1>1. Jump(cpu, get_rp(cpu, 2)) /\ mem' = mem
  BY PairWords, DecodeControl DEF PCHL
<1>2. QED
  BY <1>1, ShowsItself, ShowsGoes

\* A step of the part of a routine that gives the pairs back and returns.
LEMMA LeavingStep ==
    ASSUME CpuTypeOK, cpu_step, NEW s, Clear(s), NEW f, NEW n \in 0 .. 6,
           NEW x \in Int, 8 <= x, x <= 600, NEW how \in {"ret", "rccc", "pchl"},
           NEW b0 \in Address, NEW d0 \in Address,
           f[Up(n)] \in Address, f[Up(Up(n))] = b0, f[Up(Up(Up(n)))] = d0,
           NEW image, Kept(mem, image), Lies(image, x, <<\hD1, \hC1>> \o Leave(how)),
           "Z" \notin cpu.flags, Leaving(cpu, mem, s, f, x, n, b0, d0, how)
    PROVE  /\ Kept(mem', image) /\ ~cpu'.halted /\ cpu'.flags = cpu.flags
           /\ \/ Leaving(cpu', mem', s, f, x, n, b0, d0, how)
              \/ /\ cpu'.pc = f[Up(n)] /\ Stacked(cpu'.sp, mem', s, f, n)
                 /\ get_rp(cpu', 0) = b0 /\ get_rp(cpu', 1) = d0
<1> DEFINE code == <<\hD1, \hC1>> \o Leave(how)
           n1   == Up(n)
           n2   == Up(Up(n))
<1>1. /\ Len(code) \in 3 .. 4 /\ code[1] = \hD1 /\ code[2] = \hC1
      /\ how = "ret" => code[3] = \hC9
      /\ how = "rccc" => code[3] = \hC0
      /\ how = "pchl" => code[3] = \hE1 /\ Len(code) = 4 /\ code[4] = \hE9
  <2>1. CASE how = "ret"
    <3>1. code = <<\hD1, \hC1>> \o <<\hC9>>
      BY <2>1 DEF Leave
    <3> HIDE DEF code
    <3>2. QED
      BY <2>1, <3>1
  <2>2. CASE how = "rccc"
    <3>1. code = <<\hD1, \hC1>> \o <<\hC0>>
      BY <2>2 DEF Leave
    <3> HIDE DEF code
    <3>2. QED
      BY <2>2, <3>1
  <2>3. CASE how = "pchl"
    <3>1. code = <<\hD1, \hC1>> \o <<\hE1, \hE9>>
      BY <2>3 DEF Leave
    <3> HIDE DEF code
    <3>2. QED
      BY <2>3, <3>1
  <2>4. QED
    BY <2>1, <2>2, <2>3
<1> HIDE DEF code
<1>3. \A i \in 1 .. Len(code) :
         cpu.pc = x + i - 1 => opcode = code[i] /\ Wrap(cpu.pc + 1) = x + i
  <2>1. Len(code) \in Nat /\ x + Len(code) <= 747 /\ Lies(image, x, code)
    BY <1>1 DEF code
  <2>2. QED
    BY <2>1, FetchLies
<1>4. /\ cpu.pc = x => opcode = \hD1 /\ Wrap(cpu.pc + 1) = x + 1
      /\ cpu.pc = x + 1 => opcode = \hC1 /\ Wrap(cpu.pc + 1) = x + 2
      /\ cpu.pc = x + 2 => /\ Wrap(cpu.pc + 1) = x + 3
                           /\ how = "ret" => opcode = \hC9
                           /\ how = "rccc" => opcode = \hC0
                           /\ how = "pchl" => opcode = \hE1
      /\ cpu.pc = x + 3 /\ how = "pchl" => opcode = \hE9
  BY <1>1, <1>3
<1>5. n \in 0 .. 8 /\ n1 \in 0 .. 8 /\ n2 \in 0 .. 8
  BY Levels
<1>6. CASE cpu.pc = x /\ Stacked(cpu.sp, mem, s, f, Up(n2))
  <2>1. f[Up(n2)] = d0
    OBVIOUS
  <2> HIDE DEF n2
  <2>2. /\ Turned(get_rp(cpu, 0), d0, get_rp(cpu, 2), cpu'.sp, x + 1, mem)
        /\ Stacked(cpu'.sp, mem', s, f, n2)
    BY <1>4, <1>5, <1>6, <2>1, PopUp
  <2>3. /\ cpu'.pc = x + 1 /\ get_rp(cpu', 1) = d0 /\ ~cpu'.halted /\ cpu'.flags = cpu.flags
        /\ mem' = mem
    BY <2>2 DEF Turned
  <2>4. QED
    BY <2>2, <2>3 DEF Leaving, n2
<1>7. CASE cpu.pc = x + 1 /\ Stacked(cpu.sp, mem, s, f, Up(n1)) /\ get_rp(cpu, 1) = d0
  <2>1. f[Up(n1)] = b0
    OBVIOUS
  <2> HIDE DEF n1
  <2>2. /\ Turned(b0, get_rp(cpu, 1), get_rp(cpu, 2), cpu'.sp, x + 2, mem)
        /\ Stacked(cpu'.sp, mem', s, f, n1)
    BY <1>4, <1>5, <1>7, <2>1, PopUp
  <2>3. /\ cpu'.pc = x + 2 /\ get_rp(cpu', 0) = b0 /\ get_rp(cpu', 1) = d0 /\ ~cpu'.halted
        /\ cpu'.flags = cpu.flags /\ mem' = mem
    BY <1>7, <2>2 DEF Turned
  <2>4. QED
    BY <2>2, <2>3 DEF Leaving, n1
<1>8. CASE /\ cpu.pc = x + 2 /\ Stacked(cpu.sp, mem, s, f, Up(n))
           /\ get_rp(cpu, 0) = b0 /\ get_rp(cpu, 1) = d0
  <2>1. CASE how = "pchl"
    <3>1. /\ Turned(get_rp(cpu, 0), get_rp(cpu, 1), f[Up(n)], cpu'.sp, x + 3, mem)
          /\ Stacked(cpu'.sp, mem', s, f, n)
      BY <1>4, <1>5, <1>8, <2>1, PopUp
    <3>2. /\ cpu'.pc = x + 3 /\ get_rp(cpu', 0) = b0 /\ get_rp(cpu', 1) = d0 /\ ~cpu'.halted
          /\ cpu'.flags = cpu.flags /\ mem' = mem /\ get_rp(cpu', 2) = f[Up(n)]
      BY <1>8, <3>1 DEF Turned
    <3>3. QED
      BY <2>1, <3>1, <3>2 DEF Leaving
  <2>2. CASE how # "pchl"
    <3>1. Returning
      <4>1. opcode = \hC9 \/ opcode = \hC0
        BY <1>4, <1>8, <2>2
      <4>2. opcode = \hC0 => Dst = 0
        BY DEF Dst
      <4>3. branch_condition_true(cpu.flags, 0)
        BY DEF branch_condition_true
      <4>4. QED
        BY <4>1, <4>2, <4>3 DEF Returning
    <3>2. /\ Turned(get_rp(cpu, 0), get_rp(cpu, 1), get_rp(cpu, 2), cpu'.sp, f[Up(n)], mem)
          /\ Stacked(cpu'.sp, mem', s, f, n)
      BY <1>5, <1>8, <3>1, ReturnUp
    <3>3. QED
      BY <1>8, <3>2 DEF Turned
  <2>3. QED
    BY <2>1, <2>2
<1>9. CASE /\ cpu.pc = x + 3 /\ Stacked(cpu.sp, mem, s, f, n)
           /\ get_rp(cpu, 0) = b0 /\ get_rp(cpu, 1) = d0
           /\ how = "pchl" /\ get_rp(cpu, 2) = f[Up(n)]
  <2>1. Turned(get_rp(cpu, 0), get_rp(cpu, 1), get_rp(cpu, 2), cpu.sp, get_rp(cpu, 2), mem)
    BY <1>4, <1>9, PointStep
  <2>2. QED
    BY <1>9, <2>1 DEF Turned
<1>10. QED
  BY <1>6, <1>7, <1>8, <1>9, Zenon DEF Leaving

\* A call of routine i that is taken.
Size(how) == IF how = "rst" THEN 1 ELSE 3

\* The bytes of a site.
LEMMA SiteReads ==
    ASSUME NEW m, NEW a \in Int, NEW how \in {"call", "cccc", "rst"}, NEW i \in 1 .. 3,
           Lies(m, a, Enter(how, i))
    PROVE  /\ how # "rst" => /\ mem_read(m, a + 1) = Lo(Entry[i])
                             /\ mem_read(m, a + 2) = Hi(Entry[i])
           /\ how = "call" => mem_read(m, a) = \hCD
           /\ how = "cccc" => mem_read(m, a) = \hC4
           /\ how = "rst" => mem_read(m, a) = \hC7 + Entry[i]
<1> DEFINE code == Enter(how, i)
<1>1. /\ how = "call" => code = <<\hCD, Lo(Entry[i]), Hi(Entry[i])>>
      /\ how = "cccc" => code = <<\hC4, Lo(Entry[i]), Hi(Entry[i])>>
      /\ how = "rst" => code = <<\hC7 + Entry[i]>>
  BY DEF Enter, Imm
<1>2. \A k \in 1 .. Len(code) : mem_read(m, a + k - 1) = code[k]
  BY DEF Lies
<1> HIDE DEF code
<1>3. a + 1 - 1 = a /\ a + 2 - 1 = a + 1 /\ a + 3 - 1 = a + 2
  OBVIOUS
<1>4. ASSUME how = "rst" PROVE  mem_read(m, a) = \hC7 + Entry[i]
  <2> DEFINE op == \hC7 + Entry[i]
  <2> HIDE DEF op
  <2>1. 1 \in 1 .. Len(<<op>>) /\ <<op>>[1] = op
    OBVIOUS
  <2>2. code = <<op>>
    BY <1>1, <1>4 DEF op
  <2>3. mem_read(m, a + 1 - 1) = op
    BY <1>2, <2>1, <2>2
  <2>4. QED
    BY <1>3, <2>3 DEF op
<1>5. ASSUME how # "rst"
      PROVE  /\ mem_read(m, a + 1) = Lo(Entry[i]) /\ mem_read(m, a + 2) = Hi(Entry[i])
             /\ mem_read(m, a) = IF how = "call" THEN \hCD ELSE \hC4
  <2> DEFINE op == IF how = "call" THEN \hCD ELSE \hC4
             lo == Lo(Entry[i])
             hi == Hi(Entry[i])
             p  == <<op, lo, hi>>
  <2>1. code = p
    BY <1>1, <1>5
  <2> HIDE DEF op, lo, hi
  <2>2. Len(p) = 3 /\ p[1] = op /\ p[2] = lo /\ p[3] = hi
    OBVIOUS
  <2> HIDE DEF p
  <2>3. 1 \in 1 .. Len(p) /\ 2 \in 1 .. Len(p) /\ 3 \in 1 .. Len(p)
    BY <2>2
  <2>4. /\ mem_read(m, a + 1 - 1) = op /\ mem_read(m, a + 2 - 1) = lo
        /\ mem_read(m, a + 3 - 1) = hi
    BY <1>2, <2>1, <2>2, <2>3
  <2>5. QED
    BY <1>3, <2>4 DEF op, lo, hi
<1>6. QED
  BY <1>4, <1>5

\* A site enters its routine with the address behind it on the stack.
LEMMA SiteStep ==
    ASSUME CpuTypeOK, cpu_step, NEW s, Clear(s), NEW f, NEW n \in 0 .. 6,
           NEW a \in Int, 8 <= a, a <= 600, cpu.pc = a,
           NEW how \in {"call", "cccc", "rst"}, NEW i \in 1 .. 3, i = 3 => how # "rst",
           NEW image, Kept(mem, image), Lies(image, a, Enter(how, i)), "Z" \notin cpu.flags,
           Stacked(cpu.sp, mem, s, f, n), f[Up(n)] = a + Size(how)
    PROVE  /\ Kept(mem', image) /\ ~cpu'.halted /\ cpu'.flags = cpu.flags
           /\ cpu'.pc = Entry[i] /\ Stacked(cpu'.sp, mem', s, f, Up(n))
           /\ get_rp(cpu', 0) = get_rp(cpu, 0) /\ get_rp(cpu', 1) = get_rp(cpu, 1)
<1>1. Entry[1] = 8 /\ Entry[2] = 56 /\ Entry[3] = 512
  BY DEF Entry
<1>2. Word(Hi(Entry[i]), Lo(Entry[i])) = Entry[i]
  <2>1. Entry[i] \in Address
    BY <1>1, AddressRange
  <2>2. QED
    BY <2>1, WordBytes
<1>3. a <= 747
  OBVIOUS
<1>4. /\ opcode = mem_read(image, a)
      /\ Target = Word(mem_read(image, a + 2), mem_read(image, a + 1))
      /\ Wrap(cpu.pc + 3) = a + 3 /\ next_pc = a + 1
  BY <1>3, FetchKept
<1>5. /\ how # "rst" => /\ mem_read(image, a + 1) = Lo(Entry[i])
                        /\ mem_read(image, a + 2) = Hi(Entry[i])
      /\ how = "call" => mem_read(image, a) = \hCD
      /\ how = "cccc" => mem_read(image, a) = \hC4
      /\ how = "rst" => mem_read(image, a) = \hC7 + Entry[i]
  BY SiteReads
<1>6. Wrap(cpu.pc + 3) = a + 3 /\ next_pc = a + 1
  BY <1>4
<1>7. /\ how = "call" => opcode = \hCD /\ Target = Entry[i]
      /\ how = "cccc" => opcode = \hC4 /\ Target = Entry[i]
      /\ how = "rst" => opcode = \hC7 + Entry[i]
  BY <1>2, <1>4, <1>5
<1>8. Calling /\ Goal = Entry[i] /\ ReturnAddress = a + Size(how)
  <2>1. CASE how = "call"
    <3>1. opcode = \hCD /\ Target = Entry[i] /\ Wrap(cpu.pc + 3) = a + 3
      BY <1>6, <1>7, <2>1
    <3>2. QED
      BY <2>1, <3>1 DEF Calling, Goal, ReturnAddress, Src, Size
  <2>2. CASE how = "cccc"
    <3>1. opcode = \hC4 /\ Target = Entry[i] /\ Wrap(cpu.pc + 3) = a + 3
      BY <1>6, <1>7, <2>2
    <3>2. Dst = 0 /\ Src = 4
      BY <3>1 DEF Dst, Src
    <3>3. branch_condition_true(cpu.flags, 0)
      BY DEF branch_condition_true
    <3>4. QED
      BY <2>2, <3>1, <3>2, <3>3 DEF Calling, Goal, ReturnAddress, Size
  <2>3. CASE how = "rst"
    <3>1. opcode = \hC7 + Entry[i] /\ next_pc = a + 1 /\ (i = 1 \/ i = 2)
      BY <1>6, <1>7, <2>3
    <3>2. /\ opcode \in {\hCF, \hFF} /\ opcode >= 192 /\ Src = 7 /\ 8 * Dst = Entry[i]
      BY <1>1, <3>1 DEF Src, Dst
    <3>3. QED
      BY <2>3, <3>1, <3>2 DEF Calling, Goal, ReturnAddress, Size
  <2>4. QED
    BY <2>1, <2>2, <2>3
<1>9. n \in 0 .. 8 /\ f[n + 1] = ReturnAddress /\ a <= 747
  BY <1>8 DEF Up
<1>10. /\ Turned(get_rp(cpu, 0), get_rp(cpu, 1), get_rp(cpu, 2), cpu'.sp, Goal, mem')
      /\ Stacked(cpu'.sp, mem', s, f, n + 1) /\ Kept(mem', image)
  BY <1>8, <1>9, EnterStep
<1>11. QED
  BY <1>8, <1>10 DEF Turned, Up
-----------------------------------------------------------------------------
(* The program of the nested routines, piece by piece.                     *)

Start(s) == Imm(\h31, s) \o Imm(\h01, \hBEEF) \o Imm(\h11, \hCAFE) \o <<\h3C>>

\* Where routine i ends: what it calls comes back there.
Ending(e, i) == IF i = 1 THEN 22 + Size(e[2]) ELSE IF i = 2 THEN 70 + Size(e[3]) ELSE 526

Spoil(i) == Body(\h1234 * i, \h0F0F * i)

StackPieces(image, s, e, l) ==
    /\ Lies(image, 256, Start(s)) /\ Lies(image, 266, Enter(e[1], 1))
    /\ Lies(image, 266 + Size(e[1]), <<\h76>>)
    /\ Lies(image, 22, Enter(e[2], 2)) /\ Lies(image, 70, Enter(e[3], 3))
    /\ \A i \in 1 .. 3 : /\ Lies(image, Entry[i], Spoil(i))
                         /\ Lies(image, Ending(e, i), <<\hD1, \hC1>> \o Leave(l[i]))

\* Of code put together, each piece lies where the ones before it end.
LEMMA LiesJoined ==
    ASSUME NEW m, NEW a \in Int, NEW p \in Seq(Int), NEW q \in Seq(Int), NEW n \in Nat, n = Len(p),
           Lies(m, a, p), Lies(m, a + n, q)
    PROVE  Lies(m, a, p \o q)
<1> SUFFICES ASSUME NEW i \in 1 .. Len(p \o q)
             PROVE  mem_read(m, a + i - 1) = (p \o q)[i]
  BY DEF Lies
<1>1. Len(p) \in Nat /\ Len(q) \in Nat /\ Len(p \o q) = Len(p) + Len(q)
  OBVIOUS
<1>2. CASE i <= n
  <2>1. i \in 1 .. Len(p) /\ (p \o q)[i] = p[i]
    BY <1>1, <1>2
  <2>2. mem_read(m, a + i - 1) = p[i]
    BY <2>1 DEF Lies
  <2>3. QED
    BY <2>1, <2>2
<1>3. CASE ~(i <= n)
  <2> DEFINE j == i - n
  <2>1. j \in 1 .. Len(q) /\ (p \o q)[i] = q[j] /\ (a + n) + j - 1 = a + i - 1
    BY <1>1, <1>3
  <2> HIDE DEF j
  <2>2. mem_read(m, (a + n) + j - 1) = q[j]
    BY <2>1 DEF Lies
  <2>3. QED
    BY <2>1, <2>2
<1>4. QED
  BY <1>2, <1>3

LEMMA Lengths ==
    ASSUME NEW w \in Address, NEW b \in Address, NEW d \in Address
    PROVE  /\ Start(w) \in Seq(Int) /\ Len(Start(w)) = 10
           /\ Body(b, d) \in Seq(Int) /\ Len(Body(b, d)) = 14
<1>1. Lo(w) \in Int /\ Hi(w) \in Int /\ Lo(b) \in Int /\ Hi(b) \in Int /\ Lo(d) \in Int /\ Hi(d) \in Int
  BY WordBytes, ByteRange
<1>2. Start(w) \in Seq(Int) /\ Len(Start(w)) = 10
  <2>1. /\ Lo(\hBEEF) \in Int /\ Hi(\hBEEF) \in Int /\ Lo(\hCAFE) \in Int /\ Hi(\hCAFE) \in Int
    BY DEF Lo, Hi
  <2> DEFINE bl == Lo(\hBEEF)
             bh == Hi(\hBEEF)
             cl == Lo(\hCAFE)
             ch == Hi(\hCAFE)
             lo == Lo(w)
             hi == Hi(w)
  <2>2. Start(w) = <<\h31, lo, hi>> \o <<\h01, bl, bh>> \o <<\h11, cl, ch>> \o <<\h3C>>
    BY DEF Start, Imm
  <2>3. lo \in Int /\ hi \in Int /\ bl \in Int /\ bh \in Int /\ cl \in Int /\ ch \in Int
    BY <1>1, <2>1
  <2> HIDE DEF lo, hi, bl, bh, cl, ch
  <2>4. QED
    BY <2>2, <2>3
<1>3. Body(b, d) \in Seq(Int) /\ Len(Body(b, d)) = 14
  <2> DEFINE bl == Lo(b)
             bh == Hi(b)
             dl == Lo(d)
             dh == Hi(d)
  <2>1. Body(b, d) = <<\hC5, \hD5>> \o <<\h01, bl, bh>> \o <<\h11, dl, dh>>
                     \o <<\hE3, \hEB, \hE3, \hE3, \hEB, \hE3>>
    BY DEF Body, Imm
  <2>2. bl \in Int /\ bh \in Int /\ dl \in Int /\ dh \in Int
    BY <1>1
  <2> HIDE DEF bl, bh, dl, dh
  <2>3. QED
    BY <2>1, <2>2
<1>4. QED
  BY <1>2, <1>3

LEMMA BranchLengths ==
    /\ \A how \in {"call", "cccc", "rst"} : \A i \in 1 .. 3 :
          Enter(how, i) \in Seq(Int) /\ Len(Enter(how, i)) = Size(how)
    /\ \A how \in {"ret", "rccc", "pchl"} : Leave(how) \in Seq(Int) /\ Len(Leave(how)) <= 2
<1>1. ASSUME NEW how \in {"call", "cccc", "rst"}, NEW i \in 1 .. 3
      PROVE  Enter(how, i) \in Seq(Int) /\ Len(Enter(how, i)) = Size(how)
  <2> DEFINE lo == Lo(Entry[i])
             hi == Hi(Entry[i])
             op == \hC7 + Entry[i]
  <2>1. /\ how = "call" => Enter(how, i) = <<\hCD, lo, hi>>
        /\ how = "cccc" => Enter(how, i) = <<\hC4, lo, hi>>
        /\ how = "rst" => Enter(how, i) = <<op>>
    BY DEF Enter, Imm
  <2>2. lo \in Int /\ hi \in Int /\ op \in Int
    <3>1. Entry[i] = 8 \/ Entry[i] = 56 \/ Entry[i] = 512
      BY DEF Entry
    <3>2. QED
      BY <3>1 DEF Lo, Hi
  <2> HIDE DEF lo, hi, op
  <2>3. /\ <<\hCD, lo, hi>> \in Seq(Int) /\ Len(<<\hCD, lo, hi>>) = 3
        /\ <<\hC4, lo, hi>> \in Seq(Int) /\ Len(<<\hC4, lo, hi>>) = 3
        /\ <<op>> \in Seq(Int) /\ Len(<<op>>) = 1
    BY <2>2
  <2>4. /\ how = "call" => Enter(how, i) \in Seq(Int) /\ Len(Enter(how, i)) = 3
        /\ how = "cccc" => Enter(how, i) \in Seq(Int) /\ Len(Enter(how, i)) = 3
        /\ how = "rst" => Enter(how, i) \in Seq(Int) /\ Len(Enter(how, i)) = 1
    <3> DEFINE a == <<\hCD, lo, hi>>
               b == <<\hC4, lo, hi>>
               c == <<op>>
    <3>1. /\ a \in Seq(Int) /\ Len(a) = 3 /\ b \in Seq(Int) /\ Len(b) = 3
          /\ c \in Seq(Int) /\ Len(c) = 1
      BY <2>3
    <3>2. /\ how = "call" => Enter(how, i) = a
          /\ how = "cccc" => Enter(how, i) = b
          /\ how = "rst" => Enter(how, i) = c
      BY <2>1
    <3> HIDE DEF a, b, c
    <3>3. QED
      BY <3>1, <3>2
  <2>5. Size(how) = (IF how = "rst" THEN 1 ELSE 3) /\ (how = "call" \/ how = "cccc" \/ how = "rst")
    BY DEF Size
  <2>6. /\ how = "rst" => Size(how) = 1
        /\ how # "rst" => Size(how) = 3
    BY <2>5
  <2>7. QED
    BY <2>4, <2>5, <2>6
<1>2. ASSUME NEW how \in {"ret", "rccc", "pchl"}
      PROVE  Leave(how) \in Seq(Int) /\ Len(Leave(how)) <= 2
  <2>1. /\ how = "ret" => Leave(how) = <<\hC9>>
        /\ how = "rccc" => Leave(how) = <<\hC0>>
        /\ how = "pchl" => Leave(how) = <<\hE1, \hE9>>
    BY DEF Leave
  <2>2. /\ <<\hC9>> \in Seq(Int) /\ Len(<<\hC9>>) <= 2
        /\ <<\hC0>> \in Seq(Int) /\ Len(<<\hC0>>) <= 2
        /\ <<\hE1, \hE9>> \in Seq(Int) /\ Len(<<\hE1, \hE9>>) <= 2
    OBVIOUS
  <2> DEFINE a == <<\hC9>>
             b == <<\hC0>>
             c == <<\hE1, \hE9>>
  <2>3. /\ a \in Seq(Int) /\ Len(a) <= 2 /\ b \in Seq(Int) /\ Len(b) <= 2
        /\ c \in Seq(Int) /\ Len(c) <= 2
    BY <2>2
  <2>4. Leave(how) = a \/ Leave(how) = b \/ Leave(how) = c
    BY <2>1
  <2> HIDE DEF a, b, c
  <2>5. QED
    BY <2>3, <2>4
<1>3. QED
  BY <1>1, <1>2

LEMMA ThreePieces ==
    ASSUME NEW m, NEW a \in Int, NEW p \in Seq(Int), NEW q \in Seq(Int), NEW r \in Seq(Int),
           Lies(m, a, p \o q \o r)
    PROVE  Lies(m, a, p) /\ Lies(m, a + Len(p), q) /\ Lies(m, a + Len(p) + Len(q), r)
<1> DEFINE pq == p \o q
           i  == Len(p)
           n  == Len(pq)
<1>1. i \in Nat /\ pq \in Seq(Int) /\ n \in Nat /\ n = i + Len(q) /\ Lies(m, a, pq \o r)
  OBVIOUS
<1>2. Lies(m, a, pq) /\ Lies(m, a + n, r)
  <2> HIDE DEF pq
  <2>1. QED
    BY <1>1, LiesApart
<1>3. Lies(m, a, p) /\ Lies(m, a + i, q)
  BY <1>1, <1>2, LiesApart
<1>4. a + n = a + i + Len(q)
  BY <1>1
<1>5. QED
  BY <1>2, <1>3, <1>4

\* One after another: a body, a call, two pops and a return.
LEMMA RoutinePieces ==
    ASSUME NEW m, NEW a \in Int, NEW p \in Seq(Int), NEW q \in Seq(Int), NEW r \in Seq(Int),
           NEW t \in Seq(Int), Lies(m, a, p \o q \o r \o t)
    PROVE  Lies(m, a, p) /\ Lies(m, a + Len(p), q) /\ Lies(m, a + Len(p) + Len(q), r \o t)
<1> DEFINE i == Len(p)
           j == Len(q)
           k == Len(r)
<1>1. /\ i \in Nat /\ p \o q \in Seq(Int) /\ p \o q \o r \in Seq(Int) /\ i + j \in Nat /\ i + j + k \in Nat
      /\ i + j = Len(p \o q) /\ i + j + k = Len(p \o q \o r)
  OBVIOUS
<1> DEFINE pq  == p \o q
           pqr == pq \o r
           ij  == i + j
           ijk == ij + k
<1>2. Lies(m, a, pqr) /\ Lies(m, a + ijk, t)
  <2>1. pqr \in Seq(Int) /\ ijk \in Nat /\ ijk = Len(pqr) /\ Lies(m, a, pqr \o t)
    BY <1>1
  <2> HIDE DEF pqr, ijk
  <2>2. QED
    BY <2>1, LiesApart
<1>3. Lies(m, a, pq) /\ Lies(m, a + ij, r)
  <2>1. pq \in Seq(Int) /\ ij \in Nat /\ ij = Len(pq) /\ Lies(m, a, pq \o r)
    BY <1>1, <1>2
  <2> HIDE DEF pq, ij
  <2>2. QED
    BY <2>1, LiesApart
<1>4. Lies(m, a, p) /\ Lies(m, a + i, q)
  BY <1>1, <1>3, LiesApart
<1>5. Lies(m, a + ij, r \o t)
  <2> DEFINE x == a + ij
  <2>1. x \in Int /\ Lies(m, x, r) /\ Lies(m, x + k, t)
    <3>1. a + ijk = x + k
      BY <1>1
    <3>2. QED
      BY <1>1, <1>2, <1>3, <3>1
  <2> HIDE DEF x
  <2>2. Lies(m, x, r \o t)
    BY <2>1, LiesJoined
  <2>3. QED
    BY <2>2 DEF x
<1>6. a + ij = a + i + j
  BY <1>1
<1>7. QED
  BY <1>4, <1>5, <1>6

\* The programs do not overlap: each lies where it was placed.
LEMMA ApartLies ==
    ASSUME NEW k, \A i \in 0 .. 3 : Len(k[i]) \in Nat /\ Len(k[i]) <= 21,
           NEW parts, At(256, k[0]) \in parts, At(8, k[1]) \in parts, At(56, k[2]) \in parts,
           At(512, k[3]) \in parts,
           \A p \in parts : \/ p = At(256, k[0]) \/ p = At(8, k[1]) \/ p = At(56, k[2])
                            \/ p = At(512, k[3])
    PROVE  /\ Lies(Place(parts), 256, k[0]) /\ Lies(Place(parts), 8, k[1])
           /\ Lies(Place(parts), 56, k[2]) /\ Lies(Place(parts), 512, k[3])
<1> DEFINE n0 == Len(k[0])
           n1 == Len(k[1])
           n2 == Len(k[2])
           n3 == Len(k[3])
           p0 == At(256, k[0])
           p1 == At(8, k[1])
           p2 == At(56, k[2])
           p3 == At(512, k[3])
<1>1. /\ n0 \in Nat /\ n0 <= 21 /\ n1 \in Nat /\ n1 <= 21 /\ n2 \in Nat /\ n2 <= 21
      /\ n3 \in Nat /\ n3 <= 21
  OBVIOUS
<1>2. /\ DOMAIN p0 = 256 .. 256 + n0 - 1 /\ DOMAIN p1 = 8 .. 8 + n1 - 1
      /\ DOMAIN p2 = 56 .. 56 + n2 - 1 /\ DOMAIN p3 = 512 .. 512 + n3 - 1
  BY DEF At
<1>3. /\ p0 \in parts /\ p1 \in parts /\ p2 \in parts /\ p3 \in parts
      /\ \A p \in parts : p = p0 \/ p = p1 \/ p = p2 \/ p = p3
  OBVIOUS
<1> DEFINE d0 == 256 .. 256 + n0 - 1
           d1 == 8 .. 8 + n1 - 1
           d2 == 56 .. 56 + n2 - 1
           d3 == 512 .. 512 + n3 - 1
<1>4. \A x : /\ ~(x \in d0 /\ x \in d1) /\ ~(x \in d0 /\ x \in d2) /\ ~(x \in d0 /\ x \in d3)
            /\ ~(x \in d1 /\ x \in d2) /\ ~(x \in d1 /\ x \in d3) /\ ~(x \in d2 /\ x \in d3)
  <2> HIDE DEF n0, n1, n2, n3
  <2>1. QED
    BY <1>1
<1> HIDE DEF d0, d1, d2, d3, p0, p1, p2, p3
<1>5. /\ \A p \in parts : \A x \in d0 : x \in DOMAIN p => p = p0
      /\ \A p \in parts : \A x \in d1 : x \in DOMAIN p => p = p1
      /\ \A p \in parts : \A x \in d2 : x \in DOMAIN p => p = p2
      /\ \A p \in parts : \A x \in d3 : x \in DOMAIN p => p = p3
  <2>1. DOMAIN p0 = d0 /\ DOMAIN p1 = d1 /\ DOMAIN p2 = d2 /\ DOMAIN p3 = d3
    BY <1>2 DEF d0, d1, d2, d3
  <2>2. QED
    BY <1>3, <1>4, <2>1
<1>6. /\ n0 \in Nat => Lies(Place(parts), 256, k[0])
      /\ n1 \in Nat => Lies(Place(parts), 8, k[1])
      /\ n2 \in Nat => Lies(Place(parts), 56, k[2])
      /\ n3 \in Nat => Lies(Place(parts), 512, k[3])
  <2>1. 256 \in Int /\ 8 \in Int /\ 56 \in Int /\ 512 \in Int
    OBVIOUS
  <2>2. n0 \in Nat => Lies(Place(parts), 256, k[0])
    BY <1>3, <1>5, <2>1, PlacedLies DEF d0, p0
  <2>3. n1 \in Nat => Lies(Place(parts), 8, k[1])
    BY <1>3, <1>5, <2>1, PlacedLies DEF d1, p1
  <2>4. n2 \in Nat => Lies(Place(parts), 56, k[2])
    BY <1>3, <1>5, <2>1, PlacedLies DEF d2, p2
  <2>5. n3 \in Nat => Lies(Place(parts), 512, k[3])
    BY <1>3, <1>5, <2>1, PlacedLies DEF d3, p3
  <2>6. QED
    BY <2>2, <2>3, <2>4, <2>5
<1>7. QED
  BY <1>1, <1>6

Enters == {f \in [1 .. 3 -> {"call", "cccc", "rst"}] : f[3] # "rst"}
Leaves3 == [1 .. 3 -> {"ret", "rccc", "pchl"}]

LEMMA ShortJoin ==
    ASSUME NEW p \in Seq(Int), NEW q \in Seq(Int), NEW r \in Seq(Int),
           Len(p) <= 14, Len(q) <= 3, Len(r) <= 2
    PROVE  /\ Len(p \o q \o r) \in Nat /\ Len(p \o q \o r) <= 21
           /\ \A t \in Seq(Int) : Len(t) <= 2 =>
                Len(p \o q \o r \o t) \in Nat /\ Len(p \o q \o r \o t) <= 21
OBVIOUS

\* Every piece of the nested routines lies in the memory they are placed in.
LEMMA StackLies ==
    ASSUME NEW s \in Address, NEW e \in Enters, NEW l \in Leaves3
    PROVE  StackPieces(StackTask(s, e, l).image, s, e, l)
<1> DEFINE pops    == <<\hD1, \hC1>>
           body(i) == Spoil(i)
           site(i) == IF i < Len(Entry) THEN Enter(e[i + 1], i + 1) ELSE <<>>
           code(i) == body(i) \o site(i) \o pops \o Leave(l[i])
           main    == Start(s) \o Enter(e[1], 1) \o <<\h76>>
           k       == [i \in 0 .. 3 |-> IF i = 0 THEN main ELSE code(i)]
           parts   == {At(\h100, main)} \cup {Routine(i, e, l) : i \in 1 .. Len(Entry)}
           image   == StackTask(s, e, l).image
<1>1. /\ Len(Entry) = 3 /\ Entry[1] = 8 /\ Entry[2] = 56 /\ Entry[3] = 512
  BY DEF Entry
<1>2. image = Place(parts)
  BY DEF StackTask, Start
<1>3. \A i \in 1 .. 3 : Routine(i, e, l) = At(Entry[i], code(i))
  BY DEF Routine, Spoil, Body
<1>4. /\ e[1] \in {"call", "cccc", "rst"} /\ e[2] \in {"call", "cccc", "rst"}
      /\ e[3] \in {"call", "cccc", "rst"} /\ \A i \in 1 .. 3 : l[i] \in {"ret", "rccc", "pchl"}
  BY DEF Enters, Leaves3
<1>5. /\ \A i \in 1 .. 3 : body(i) \in Seq(Int) /\ Len(body(i)) = 14
      /\ Start(s) \in Seq(Int) /\ Len(Start(s)) = 10
  <2>1. \A i \in 1 .. 3 : \h1234 * i \in Address /\ \h0F0F * i \in Address
    BY AddressRange
  <2>2. QED
    BY <2>1, Lengths DEF Spoil
<1>6. /\ site(1) = Enter(e[2], 2) /\ site(2) = Enter(e[3], 3) /\ site(3) = <<>>
      /\ site(1) \in Seq(Int) /\ Len(site(1)) = Size(e[2])
      /\ site(2) \in Seq(Int) /\ Len(site(2)) = Size(e[3])
      /\ site(3) \in Seq(Int) /\ Len(site(3)) = 0
      /\ Enter(e[1], 1) \in Seq(Int) /\ Len(Enter(e[1], 1)) = Size(e[1])
  <2>1. site(1) = Enter(e[2], 2) /\ site(2) = Enter(e[3], 3) /\ site(3) = <<>>
    BY <1>1
  <2>2. <<>> \in Seq(Int) /\ Len(<<>>) = 0
    OBVIOUS
  <2>3. /\ Enter(e[1], 1) \in Seq(Int) /\ Len(Enter(e[1], 1)) = Size(e[1])
        /\ Enter(e[2], 2) \in Seq(Int) /\ Len(Enter(e[2], 2)) = Size(e[2])
        /\ Enter(e[3], 3) \in Seq(Int) /\ Len(Enter(e[3], 3)) = Size(e[3])
    <3>1. 1 \in 1 .. 3 /\ 2 \in 1 .. 3 /\ 3 \in 1 .. 3
      OBVIOUS
    <3>2. QED
      BY <1>4, <3>1, BranchLengths
  <2> HIDE DEF site
  <2>4. QED
    BY <2>1, <2>2, <2>3
<1>7. \A i \in 1 .. 3 : Leave(l[i]) \in Seq(Int) /\ Len(Leave(l[i])) <= 2
  <2>1. \A h \in {"ret", "rccc", "pchl"} : Leave(h) \in Seq(Int) /\ Len(Leave(h)) <= 2
    BY BranchLengths
  <2>2. QED
    BY <1>4, <2>1, Zenon
<1>8. pops \in Seq(Int) /\ Len(pops) = 2 /\ <<\h76>> \in Seq(Int) /\ Len(<<\h76>>) = 1
  OBVIOUS
<1>9. \A h : Size(h) \in Nat /\ Size(h) <= 3
  BY DEF Size
<1>10. k[0] = main /\ k[1] = code(1) /\ k[2] = code(2) /\ k[3] = code(3)
  <2> HIDE DEF main, code
  <2>1. QED
    OBVIOUS
<1>11. \A i \in 1 .. 3 : site(i) \in Seq(Int) /\ Len(site(i)) <= 3
  <2> HIDE DEF site
  <2>1. \A i \in 1 .. 3 : i = 1 \/ i = 2 \/ i = 3
    OBVIOUS
  <2>2. QED
    BY <1>6, <1>9, <2>1
<1>12. \A i \in 0 .. 3 : Len(k[i]) \in Nat /\ Len(k[i]) <= 21
  <2>1. \A i \in 1 .. 3 : Len(code(i)) \in Nat /\ Len(code(i)) <= 21
    <3> SUFFICES ASSUME NEW i \in 1 .. 3
                 PROVE  Len(code(i)) \in Nat /\ Len(code(i)) <= 21
      OBVIOUS
    <3> DEFINE p == body(i)
               q == site(i)
               r == Leave(l[i])
    <3>1. /\ p \in Seq(Int) /\ Len(p) <= 14 /\ q \in Seq(Int) /\ Len(q) <= 3
          /\ r \in Seq(Int) /\ Len(r) <= 2 /\ pops \in Seq(Int) /\ Len(pops) <= 2
      <4> HIDE DEF body, site, pops
      <4>1. p \in Seq(Int) /\ Len(p) <= 14
        <5>1. p \in Seq(Int) /\ Len(p) = 14
          BY <1>5
        <5>2. QED
          BY <5>1
      <4>2. q \in Seq(Int) /\ Len(q) <= 3
        BY <1>11
      <4>3. r \in Seq(Int) /\ Len(r) <= 2
        BY <1>7
      <4>4. QED
        BY <1>8, <4>1, <4>2, <4>3
    <3> HIDE DEF p, q, r, pops
    <3>2. Len(p \o q \o pops \o r) \in Nat /\ Len(p \o q \o pops \o r) <= 21
      BY <3>1, ShortJoin
    <3>3. QED
      BY <3>2 DEF p, q, r
  <2>2. Len(main) \in Nat /\ Len(main) <= 21
    <3> DEFINE p == Start(s)
               q == Enter(e[1], 1)
    <3>1. p \in Seq(Int) /\ Len(p) <= 14 /\ q \in Seq(Int) /\ Len(q) <= 3
          /\ <<\h76>> \in Seq(Int) /\ Len(<<\h76>>) <= 2
      BY <1>5, <1>6, <1>8, <1>9
    <3> HIDE DEF p, q
    <3>2. Len(p \o q \o <<\h76>>) \in Nat /\ Len(p \o q \o <<\h76>>) <= 21
      BY <3>1, ShortJoin
    <3>3. QED
      BY <3>2 DEF p, q
  <2> HIDE DEF main, code, k
  <2>3. \A i \in 0 .. 3 : i = 0 \/ i = 1 \/ i = 2 \/ i = 3
    OBVIOUS
  <2>4. QED
    BY <1>10, <2>1, <2>2, <2>3
<1>13. /\ At(256, k[0]) \in parts /\ At(8, k[1]) \in parts /\ At(56, k[2]) \in parts
       /\ At(512, k[3]) \in parts
       /\ \A p \in parts : \/ p = At(256, k[0]) \/ p = At(8, k[1]) \/ p = At(56, k[2])
                           \/ p = At(512, k[3])
  <2>1. /\ Routine(1, e, l) = At(8, k[1]) /\ Routine(2, e, l) = At(56, k[2])
        /\ Routine(3, e, l) = At(512, k[3])
    <3> HIDE DEF code, k
    <3>1. Routine(1, e, l) = At(Entry[1], code(1)) /\ Routine(2, e, l) = At(Entry[2], code(2))
          /\ Routine(3, e, l) = At(Entry[3], code(3))
      BY <1>3
    <3>2. QED
      BY <1>1, <1>10, <3>1
  <2>2. At(\h100, main) = At(256, k[0])
    BY <1>10
  <2>3. \A i : i \in 1 .. Len(Entry) <=> i = 1 \/ i = 2 \/ i = 3
    BY <1>1
  <2>4. \A p : p \in parts <=> p = At(\h100, main) \/ \E i \in 1 .. Len(Entry) : p = Routine(i, e, l)
    BY Zenon
  <2> HIDE DEF main, k, parts
  <2>5. \A p : p \in parts <=> \/ p = At(\h100, main) \/ p = Routine(1, e, l) \/ p = Routine(2, e, l)
                               \/ p = Routine(3, e, l)
    <3>1. \A p : (\E i \in 1 .. Len(Entry) : p = Routine(i, e, l))
                  <=> p = Routine(1, e, l) \/ p = Routine(2, e, l) \/ p = Routine(3, e, l)
      BY <2>3
    <3>2. QED
      BY <2>4, <3>1, Zenon
  <2>6. \A p : p \in parts <=> \/ p = At(256, k[0]) \/ p = At(8, k[1]) \/ p = At(56, k[2])
                               \/ p = At(512, k[3])
    BY <2>1, <2>2, <2>5
  <2> DEFINE p0 == At(256, k[0])
             p1 == At(8, k[1])
             p2 == At(56, k[2])
             p3 == At(512, k[3])
  <2> HIDE DEF p0, p1, p2, p3
  <2>7. \A p : p \in parts <=> p = p0 \/ p = p1 \/ p = p2 \/ p = p3
    BY <2>6 DEF p0, p1, p2, p3
  <2>8. /\ p0 \in parts /\ p1 \in parts /\ p2 \in parts /\ p3 \in parts
        /\ \A p \in parts : p = p0 \/ p = p1 \/ p = p2 \/ p = p3
    BY <2>7, Zenon
  <2>9. QED
    BY <2>8 DEF p0, p1, p2, p3
<1>14. /\ Lies(image, 256, main) /\ Lies(image, 8, code(1))
       /\ Lies(image, 56, code(2)) /\ Lies(image, 512, code(3))
  <2> HIDE DEF main, code, k, parts, image
  <2>1. /\ Lies(Place(parts), 256, k[0]) /\ Lies(Place(parts), 8, k[1])
        /\ Lies(Place(parts), 56, k[2]) /\ Lies(Place(parts), 512, k[3])
    BY <1>12, <1>13, ApartLies
  <2>2. QED
    BY <1>2, <1>10, <2>1
<1> HIDE DEF image, k, parts
<1>15. /\ Lies(image, 256, Start(s)) /\ Lies(image, 266, Enter(e[1], 1))
       /\ Lies(image, 266 + Size(e[1]), <<\h76>>)
  <2> DEFINE p  == Start(s)
             q  == Enter(e[1], 1)
             r  == <<\h76>>
             i  == Len(p)
             j  == Len(q)
  <2>1. p \in Seq(Int) /\ q \in Seq(Int) /\ r \in Seq(Int) /\ Lies(image, 256, p \o q \o r)
    BY <1>5, <1>6, <1>8, <1>14
  <2>2. 266 = 256 + i /\ 266 + Size(e[1]) = 256 + i + j
    BY <1>5, <1>6, <1>9
  <2> HIDE DEF p, q, r
  <2>3. Lies(image, 256, p) /\ Lies(image, 256 + i, q) /\ Lies(image, 256 + i + j, r)
    BY <2>1, ThreePieces
  <2>4. QED
    BY <2>2, <2>3 DEF p, q, r
<1>16. ASSUME NEW i \in 1 .. 3, NEW a \in Int, Lies(image, a, code(i)), NEW n \in Nat, n = Len(site(i))
       PROVE  /\ Lies(image, a, body(i)) /\ Lies(image, a + 14, site(i))
              /\ Lies(image, a + 14 + n, pops \o Leave(l[i]))
  <2> DEFINE p == body(i)
             q == site(i)
             t == Leave(l[i])
  <2>1. Lies(image, a, p \o q \o pops \o t)
    BY <1>16
  <2>2. p \in Seq(Int) /\ Len(p) = 14
    BY <1>5
  <2>3. q \in Seq(Int) /\ t \in Seq(Int)
    BY <1>7, <1>11
  <2>4. pops \in Seq(Int)
    BY <1>8
  <2> HIDE DEF p, q, t, pops
  <2>5. /\ Lies(image, a, p) /\ Lies(image, a + Len(p), q)
        /\ Lies(image, a + Len(p) + Len(q), pops \o t)
    BY <2>1, <2>2, <2>3, <2>4, RoutinePieces
  <2>6. a + Len(p) = a + 14 /\ a + Len(p) + Len(q) = a + 14 + n
    BY <1>16, <2>2 DEF q
  <2>7. QED
    BY <2>5, <2>6, Zenon DEF p, q, t
<1> HIDE DEF site, code, pops
<1> HIDE DEF body
<1>17. /\ Lies(image, 8, body(1)) /\ Lies(image, 8 + 14, Enter(e[2], 2))
       /\ Lies(image, 8 + 14 + Size(e[2]), pops \o Leave(l[1]))
  BY <1>6, <1>9, <1>14, <1>16
<1>18. /\ Lies(image, 56, body(2)) /\ Lies(image, 56 + 14, Enter(e[3], 3))
       /\ Lies(image, 56 + 14 + Size(e[3]), pops \o Leave(l[2]))
  BY <1>6, <1>9, <1>14, <1>16
<1>19. Lies(image, 512, body(3)) /\ Lies(image, 512 + 14 + 0, pops \o Leave(l[3]))
  BY <1>6, <1>9, <1>14, <1>16
<1>20. Ending(e, 1) = 8 + 14 + Size(e[2]) /\ Ending(e, 2) = 56 + 14 + Size(e[3]) /\ Ending(e, 3) = 512 + 14 + 0
  BY <1>9 DEF Ending
<1>21. \A i \in 1 .. 3 : Lies(image, Entry[i], body(i)) /\ Lies(image, Ending(e, i), pops \o Leave(l[i]))
  <2>1. \A i \in 1 .. 3 : i = 1 \/ i = 2 \/ i = 3
    OBVIOUS
  <2>2. QED
    BY <1>1, <1>17, <1>18, <1>19, <1>20, <2>1
<1>22. Lies(image, 22, Enter(e[2], 2)) /\ Lies(image, 70, Enter(e[3], 3))
  <2>1. 8 + 14 = 22 /\ 56 + 14 = 70
    OBVIOUS
  <2>2. QED
    BY <1>17, <1>18, <2>1
<1>23. QED
  <2>1. \A i \in 1 .. 3 : /\ Lies(image, Entry[i], Spoil(i))
                          /\ Lies(image, Ending(e, i), <<\hD1, \hC1>> \o Leave(l[i]))
    BY <1>21 DEF body, pops
  <2>2. StackPieces(image, s, e, l)
    BY <1>15, <1>22, <2>1, Zenon DEF StackPieces
  <2>3. QED
    BY <2>2 DEF image
-----------------------------------------------------------------------------
(* The nested routines together.                                           *)

\* What BC and DE are before the first routine is entered and, for j > 0,
\* when routine j has set them.
PairB(j) == IF j = 0 THEN \hBEEF ELSE \h1234 * j
PairD(j) == IF j = 0 THEN \hCAFE ELSE \h0F0F * j

\* The stack when all routines are entered, from the bottom.
Saved(e) == <<266 + Size(e[1]), PairB(0), PairD(0), Ending(e, 1), PairB(1), PairD(1),
              Ending(e, 2), PairB(2), PairD(2)>>

\* At a place of level j, with n words on the stack.
AtLevel(c, m, s, e, a, j, n) ==
    c.pc = a /\ Stacked(c.sp, m, s, Saved(e), n) /\ get_rp(c, 0) = PairB(j) /\ get_rp(c, 1) = PairD(j)

\* In routine i, which level j entered when there were n words on the stack.
Inside(c, m, s, e, l, j, i, n) ==
    \/ Saving(c, m, s, Saved(e), Entry[i], n, PairB(j), PairD(j), PairB(i), PairD(i))
    \/ Leaving(c, m, s, Saved(e), Ending(e, i), n, PairB(j), PairD(j), l[i])

\* Level j enters routine i with n words on the stack.
Level(j, i, n) ==
    \/ j = 0 /\ i = 1 /\ n = 0
    \/ j = 1 /\ i = 2 /\ n = 3
    \/ j = 2 /\ i = 3 /\ n = 6

\* Where level j is come back to.
Back(e, j) == IF j = 0 THEN 266 + Size(e[1]) ELSE Ending(e, j)

\* The words that each level leaves on the stack, and where its code is.
LEMMA LevelWords ==
    ASSUME NEW e \in Enters, NEW j, NEW i, NEW n, Level(j, i, n)
    PROVE  /\ n \in 0 .. 6 /\ i \in 1 .. 3 /\ j \in 0 .. 3
           /\ PairB(i) \in Address /\ PairD(i) \in Address
           /\ PairB(j) \in Address /\ PairD(j) \in Address
           /\ Saved(e)[Up(n)] = Back(e, j) /\ Back(e, j) \in Address
           /\ Saved(e)[Up(Up(n))] = PairB(j) /\ Saved(e)[Up(Up(Up(n)))] = PairD(j)
           /\ Spoil(i) = Body(PairB(i), PairD(i))
           /\ 8 <= Entry[i] /\ Entry[i] <= 600 /\ Entry[i] \in Int
           /\ 8 <= Ending(e, i) /\ Ending(e, i) <= 600 /\ Ending(e, i) \in Int
<1>1. \A h : Size(h) = 1 \/ Size(h) = 3
  BY DEF Size
<1>2. \A k : k = 0 \/ k = 1 \/ k = 2 \/ k = 3 => PairB(k) \in Address /\ PairD(k) \in Address
  BY AddressRange DEF PairB, PairD
<1>3. /\ Ending(e, 1) = 22 + Size(e[2]) /\ Ending(e, 2) = 70 + Size(e[3]) /\ Ending(e, 3) = 526
      /\ Back(e, 0) = 266 + Size(e[1]) /\ Back(e, 1) = Ending(e, 1) /\ Back(e, 2) = Ending(e, 2)
  BY DEF Ending, Back
<1>4. Entry[1] = 8 /\ Entry[2] = 56 /\ Entry[3] = 512
  BY DEF Entry
<1>5. \A k : k = 1 \/ k = 2 \/ k = 3 => Spoil(k) = Body(PairB(k), PairD(k))
  BY DEF Spoil, PairB, PairD
<1>6. Back(e, 0) \in Address /\ Back(e, 1) \in Address /\ Back(e, 2) \in Address
  BY <1>1, <1>3, AddressRange
<1> DEFINE f == Saved(e)
<1>7. /\ f[1] = Back(e, 0) /\ f[2] = PairB(0) /\ f[3] = PairD(0)
      /\ f[4] = Back(e, 1) /\ f[5] = PairB(1) /\ f[6] = PairD(1)
      /\ f[7] = Back(e, 2) /\ f[8] = PairB(2) /\ f[9] = PairD(2)
  <2> DEFINE w0 == Back(e, 0)
             w1 == Back(e, 1)
             w2 == Back(e, 2)
             b0 == PairB(0)
             b1 == PairB(1)
             b2 == PairB(2)
             d0 == PairD(0)
             d1 == PairD(1)
             d2 == PairD(2)
  <2>1. f = <<w0, b0, d0, w1, b1, d1, w2, b2, d2>>
    BY <1>3 DEF Saved
  <2> HIDE DEF f, w0, w1, w2, b0, b1, b2, d0, d1, d2
  <2>2. /\ f[1] = w0 /\ f[2] = b0 /\ f[3] = d0 /\ f[4] = w1 /\ f[5] = b1 /\ f[6] = d1
        /\ f[7] = w2 /\ f[8] = b2 /\ f[9] = d2
    BY <2>1
  <2>3. QED
    BY <2>2 DEF w0, w1, w2, b0, b1, b2, d0, d1, d2
<1>8. /\ Up(0) = 1 /\ Up(1) = 2 /\ Up(2) = 3 /\ Up(3) = 4 /\ Up(4) = 5 /\ Up(5) = 6
      /\ Up(6) = 7 /\ Up(7) = 8 /\ Up(8) = 9
  BY DEF Up
<1> HIDE DEF f
<1>9. CASE j = 0 /\ i = 1 /\ n = 0
  <2>1. f[Up(n)] = Back(e, j) /\ f[Up(Up(n))] = PairB(j) /\ f[Up(Up(Up(n)))] = PairD(j)
    BY <1>7, <1>8, <1>9
  <2>2. 8 <= Ending(e, i) /\ Ending(e, i) <= 600 /\ Ending(e, i) \in Int
    BY <1>1, <1>3, <1>9
  <2>3. QED
    BY <1>2, <1>4, <1>5, <1>6, <1>9, <2>1, <2>2 DEF f
<1>10. CASE j = 1 /\ i = 2 /\ n = 3
  <2>1. f[Up(n)] = Back(e, j) /\ f[Up(Up(n))] = PairB(j) /\ f[Up(Up(Up(n)))] = PairD(j)
    BY <1>7, <1>8, <1>10
  <2>2. 8 <= Ending(e, i) /\ Ending(e, i) <= 600 /\ Ending(e, i) \in Int
    BY <1>1, <1>3, <1>10
  <2>3. QED
    BY <1>2, <1>4, <1>5, <1>6, <1>10, <2>1, <2>2 DEF f
<1>11. CASE j = 2 /\ i = 3 /\ n = 6
  <2>1. f[Up(n)] = Back(e, j) /\ f[Up(Up(n))] = PairB(j) /\ f[Up(Up(Up(n)))] = PairD(j)
    BY <1>7, <1>8, <1>11
  <2>2. 8 <= Ending(e, i) /\ Ending(e, i) <= 600 /\ Ending(e, i) \in Int
    BY <1>1, <1>3, <1>11
  <2>3. QED
    BY <1>2, <1>4, <1>5, <1>6, <1>11, <2>1, <2>2 DEF f
<1>12. QED
  BY <1>9, <1>10, <1>11 DEF Level

\* A step of a routine stays in it, comes to its call, or returns.
LEMMA InsideStep ==
    ASSUME CpuTypeOK, cpu_step, NEW s, Clear(s), NEW e \in Enters, NEW l \in Leaves3,
           NEW j, NEW i, NEW n, Level(j, i, n), NEW image, Kept(mem, image),
           StackPieces(image, s, e, l), "Z" \notin cpu.flags,
           Inside(cpu, mem, s, e, l, j, i, n)
    PROVE  /\ Kept(mem', image) /\ ~cpu'.halted /\ "Z" \notin cpu'.flags
           /\ \/ Inside(cpu', mem', s, e, l, j, i, n)
              \/ AtLevel(cpu', mem', s, e, Entry[i] + 14, i, Up(Up(Up(n))))
              \/ AtLevel(cpu', mem', s, e, Back(e, j), j, n)
<1> DEFINE f == Saved(e)
           E == Entry[i]
           x == Ending(e, i)
           b0 == PairB(j)
           d0 == PairD(j)
           b == PairB(i)
           d == PairD(i)
           how == l[i]
<1>1. /\ n \in 0 .. 6 /\ i \in 1 .. 3 /\ b \in Address /\ d \in Address /\ b0 \in Address /\ d0 \in Address
      /\ f[Up(n)] \in Address /\ f[Up(n)] = Back(e, j)
      /\ f[Up(Up(n))] = b0 /\ f[Up(Up(Up(n)))] = d0
      /\ E \in Int /\ 8 <= E /\ E <= 600 /\ x \in Int /\ 8 <= x /\ x <= 600
      /\ Spoil(i) = Body(b, d)
  BY LevelWords
<1>2. how \in {"ret", "rccc", "pchl"}
  BY <1>1 DEF Leaves3
<1>3. Lies(image, E, Body(b, d)) /\ Lies(image, x, <<\hD1, \hC1>> \o Leave(how))
  <2>1. Lies(image, E, Spoil(i)) /\ Lies(image, x, <<\hD1, \hC1>> \o Leave(how))
    BY <1>1 DEF StackPieces
  <2> HIDE DEF E, x, b, d, how
  <2>2. QED
    BY <1>1, <2>1
<1> HIDE DEF f, E, x, b0, d0, b, d, how
<1>4. CASE Saving(cpu, mem, s, f, E, n, b0, d0, b, d)
  <2>1. /\ Kept(mem', image) /\ ~cpu'.halted /\ cpu'.flags = cpu.flags
        /\ \/ Saving(cpu', mem', s, f, E, n, b0, d0, b, d)
           \/ /\ cpu'.pc = E + 14 /\ Stacked(cpu'.sp, mem', s, f, Up(Up(Up(n))))
              /\ get_rp(cpu', 0) = b /\ get_rp(cpu', 1) = d
    <3>1. n \in 0 .. 6 /\ b \in Address /\ d \in Address /\ b0 \in Address /\ d0 \in Address
      BY <1>1
    <3>2. E \in Int /\ 8 <= E /\ E <= 600
      BY <1>1
    <3>3. f[Up(Up(n))] = b0 /\ f[Up(Up(Up(n)))] = d0
      BY <1>1
    <3>4. Lies(image, E, Body(b, d))
      BY <1>3
    <3>5. QED
      BY <1>4, <3>1, <3>2, <3>3, <3>4, SavingStep
  <2>2. QED
    BY <2>1, Zenon DEF Inside, AtLevel, f, E, b0, d0, b, d
<1>5. CASE Leaving(cpu, mem, s, f, x, n, b0, d0, how)
  <2>1. /\ Kept(mem', image) /\ ~cpu'.halted /\ cpu'.flags = cpu.flags
        /\ \/ Leaving(cpu', mem', s, f, x, n, b0, d0, how)
           \/ /\ cpu'.pc = f[Up(n)] /\ Stacked(cpu'.sp, mem', s, f, n)
              /\ get_rp(cpu', 0) = b0 /\ get_rp(cpu', 1) = d0
    BY <1>1, <1>2, <1>3, <1>5, LeavingStep
  <2>2. QED
    BY <1>1, <2>1, Zenon DEF Inside, AtLevel, f, x, b0, d0, how
<1>6. QED
  BY <1>4, <1>5, Zenon DEF Inside, f, E, x, b0, d0, b, d, how

\* A call from level j comes to routine i.
LEMMA EnterLevel ==
    ASSUME CpuTypeOK, cpu_step, NEW s, Clear(s), NEW e \in Enters, NEW l,
           NEW j, NEW i, NEW n, Level(j, i, n), NEW image, Kept(mem, image), "Z" \notin cpu.flags,
           NEW a \in Int, 8 <= a, a <= 600, Back(e, j) = a + Size(e[i]),
           Lies(image, a, Enter(e[i], i)), AtLevel(cpu, mem, s, e, a, j, n)
    PROVE  /\ Kept(mem', image) /\ ~cpu'.halted /\ "Z" \notin cpu'.flags
           /\ Inside(cpu', mem', s, e, l, j, i, n)
<1> DEFINE f == Saved(e)
           how == e[i]
<1>1. n \in 0 .. 6 /\ i \in 1 .. 3 /\ f[Up(n)] = Back(e, j)
  BY LevelWords
<1>2. how \in {"call", "cccc", "rst"} /\ (i = 3 => how # "rst")
  BY <1>1 DEF Enters
<1> HIDE DEF f, how
<1>3. cpu.pc = a /\ Stacked(cpu.sp, mem, s, f, n) /\ get_rp(cpu, 0) = PairB(j) /\ get_rp(cpu, 1) = PairD(j)
  BY Zenon DEF AtLevel, f
<1>4. f[Up(n)] = a + Size(how) /\ Lies(image, a, Enter(how, i))
  BY <1>1 DEF how
<1>5. /\ Kept(mem', image) /\ ~cpu'.halted /\ cpu'.flags = cpu.flags
      /\ cpu'.pc = Entry[i] /\ Stacked(cpu'.sp, mem', s, f, Up(n))
      /\ get_rp(cpu', 0) = get_rp(cpu, 0) /\ get_rp(cpu', 1) = get_rp(cpu, 1)
  BY <1>1, <1>2, <1>3, <1>4, SiteStep
<1>6. Saving(cpu', mem', s, f, Entry[i], n, PairB(j), PairD(j), PairB(i), PairD(i))
  BY <1>3, <1>5, Zenon DEF Saving
<1>7. QED
  BY <1>5, <1>6, Zenon DEF Inside, f

Setup(c, m, s, e) ==
    /\ c.r["A"] = 0
    /\ \/ c.pc = 256
       \/ /\ Stacked(c.sp, m, s, Saved(e), 0)
          /\ \/ c.pc = 259
             \/ c.pc = 262 /\ get_rp(c, 0) = PairB(0)
             \/ c.pc = 265 /\ get_rp(c, 0) = PairB(0) /\ get_rp(c, 1) = PairD(0)

Nested(c, m, s, e, l) ==
    \/ AtLevel(c, m, s, e, 266, 0, 0) \/ Inside(c, m, s, e, l, 0, 1, 0)
    \/ AtLevel(c, m, s, e, 22, 1, 3) \/ Inside(c, m, s, e, l, 1, 2, 3)
    \/ AtLevel(c, m, s, e, 70, 2, 6) \/ Inside(c, m, s, e, l, 2, 3, 6)
    \/ AtLevel(c, m, s, e, Back(e, 0), 0, 0)

\* What holds wherever the program is, from its start until it has halted.
StackAt(c, m, s, e, l) ==
    /\ Kept(m, StackTask(s, e, l).image)
    /\ \/ ~c.halted /\ Setup(c, m, s, e)
       \/ ~c.halted /\ "Z" \notin c.flags /\ Nested(c, m, s, e, l)
       \/ c.halted /\ AtLevel(c, m, s, e, Back(e, 0) + 1, 0, 0)

\* The start of the nested routines is fetched as it was written.
LEMMA FetchStart ==
    ASSUME NEW image, Kept(mem, image), NEW s \in Address, Lies(image, 256, Start(s))
    PROVE  /\ cpu.pc = 256 => opcode = \h31 /\ Target = s /\ Wrap(cpu.pc + 3) = 259
           /\ cpu.pc = 259 => opcode = \h01 /\ Target = PairB(0) /\ Wrap(cpu.pc + 3) = 262
           /\ cpu.pc = 262 => opcode = \h11 /\ Target = PairD(0) /\ Wrap(cpu.pc + 3) = 265
           /\ cpu.pc = 265 => opcode = \h3C /\ Wrap(cpu.pc + 1) = 266
<1> DEFINE b == PairB(0)
           d == PairD(0)
           bl == Lo(b)
           bh == Hi(b)
           dl == Lo(d)
           dh == Hi(d)
           sl == Lo(s)
           sh == Hi(s)
           code == Start(s)
<1>1. code = <<\h31, sl, sh>> \o <<\h01, bl, bh>> \o <<\h11, dl, dh>> \o <<\h3C>>
  BY DEF Start, Imm, PairB, PairD
<1>2. Word(sh, sl) = s /\ Word(bh, bl) = b /\ Word(dh, dl) = d
  <2>1. b \in Address /\ d \in Address
    BY AddressRange DEF PairB, PairD
  <2>2. QED
    BY <2>1, WordBytes
<1> HIDE DEF b, d, bl, bh, dl, dh, sl, sh, code
<1>3. /\ Len(code) = 10 /\ code[1] = \h31 /\ code[2] = sl /\ code[3] = sh
      /\ code[4] = \h01 /\ code[5] = bl /\ code[6] = bh /\ code[7] = \h11 /\ code[8] = dl
      /\ code[9] = dh /\ code[10] = \h3C
  BY <1>1
<1>4. \A i \in 1 .. Len(code) :
         cpu.pc = 256 + i - 1 =>
             /\ opcode = code[i]
             /\ i + 2 <= Len(code) => Target = Word(code[i + 2], code[i + 1])
             /\ Wrap(cpu.pc + 1) = 256 + i /\ Wrap(cpu.pc + 3) = 256 + i + 2
  <2>1. Len(code) \in Nat /\ 256 + Len(code) <= 747
    BY <1>3
  <2>2. Lies(image, 256, code) /\ 256 \in Int /\ 8 <= 256
    BY DEF code
  <2>3. QED
    BY <2>1, <2>2, FetchLies
<1>5. \A i \in 1 .. 10 :
         cpu.pc = 256 + i - 1 => /\ opcode = code[i]
                                 /\ i + 2 <= 10 => Target = Word(code[i + 2], code[i + 1])
                                 /\ Wrap(cpu.pc + 1) = 256 + i /\ Wrap(cpu.pc + 3) = 256 + i + 2
  <2>1. Len(code) = 10
    BY <1>3
  <2>2. QED
    BY <1>4, <2>1
<1>6. /\ cpu.pc = 256 => opcode = \h31 /\ Target = s /\ Wrap(cpu.pc + 3) = 259
      /\ cpu.pc = 259 => opcode = \h01 /\ Target = b /\ Wrap(cpu.pc + 3) = 262
      /\ cpu.pc = 262 => opcode = \h11 /\ Target = d /\ Wrap(cpu.pc + 3) = 265
      /\ cpu.pc = 265 => opcode = \h3C /\ Wrap(cpu.pc + 1) = 266
  BY <1>2, <1>3, <1>5
<1>7. QED
  BY <1>6 DEF b, d

\* LXI SP sets the stack pointer; INR A makes 0 a 1, which is not zero.
LEMMA TopStep ==
    ASSUME CpuTypeOK, cpu_step, opcode = \h31
    PROVE  Turned(get_rp(cpu, 0), get_rp(cpu, 1), get_rp(cpu, 2), Target, Wrap(cpu.pc + 3), mem)
<1>1. Target \in Address
  BY Fields
<1>2. Go(SetSP(cpu, Target), 3) /\ mem' = mem
  <2>1. Rp = 3
    BY DEF Rp
  <2>2. LXI
    BY Decode
  <2>3. QED
    BY <2>1, <2>2 DEF LXI, set_rp
<1> DEFINE b == get_rp(cpu, 0)
           d == get_rp(cpu, 1)
           h == get_rp(cpu, 2)
<1>3. Shows(cpu, b, d, h, cpu.sp)
  BY ShowsItself
<1> HIDE DEF b, d, h
<1>4. Shows(SetSP(cpu, Target), b, d, h, Target)
  BY <1>1, <1>3, ShowsSet
<1>5. Turned(b, d, h, Target, Wrap(cpu.pc + 3), mem)
  BY <1>2, <1>4, ShowsGoes
<1>6. QED
  BY <1>5 DEF b, d, h

\* INR A makes a 0 a 1, which is not zero.
LEMMA CountStep ==
    ASSUME CpuTypeOK, cpu_step, opcode = \h3C, cpu.r["A"] = 0
    PROVE  /\ get_rp(cpu', 0) = get_rp(cpu, 0) /\ get_rp(cpu', 1) = get_rp(cpu, 1)
           /\ cpu'.sp = cpu.sp /\ cpu'.pc = Wrap(cpu.pc + 1) /\ ~cpu'.halted /\ mem' = mem
           /\ "Z" \notin cpu'.flags
<1>1. cpu \in Cpus /\ ~cpu.halted
  BY DEF CpuTypeOK, cpu_step
<1> DEFINE g == inr_flags(cpu.flags, 0)
           w == Lo(0 + 1)
<1>2. w = 1
  BY DEF Lo
<1>3. "Z" \notin g
  <2>1. Lo(0 + 1) # 0
    BY <1>2
  <2> DEFINE v == Lo(0 + 1)
             k == (cpu.flags \ {"AC"}) \cup (IF Digit(0) = 15 THEN {"AC"} ELSE {})
  <2>2. g = set_szp(k, v)
    BY DEF inr_flags
  <2> HIDE DEF g, k, v
  <2>3. v # 0
    BY <2>1 DEF v
  <2>4. QED
    BY <2>2, <2>3 DEF set_szp
<1>4. Go(SetFlags(SetReg(cpu, "A", w), g), 1) /\ mem' = mem
  <2>1. INR /\ Dst = 7
    BY DecodeMemory DEF Dst
  <2>2. read_reg_by_code(cpu, mem, 7) = 0 /\ write_reg(cpu, 7, w) = SetReg(cpu, "A", w)
        /\ write_cell(cpu, mem, 7, w) = mem
    BY RegisterNames DEF read_reg_by_code, write_reg, write_cell
  <2> HIDE DEF g, w
  <2>3. QED
    BY <2>1, <2>2 DEF INR, g, w
<1> HIDE DEF g, w
<1>5. /\ cpu'.r = [cpu.r EXCEPT !["A"] = w] /\ cpu'.pc = Wrap(cpu.pc + 1) /\ cpu'.sp = cpu.sp
      /\ ~cpu'.halted /\ cpu'.flags = g
  BY <1>1, <1>4 DEF Go, SetFlags, SetReg, Cpus
<1>6. /\ cpu'.r["B"] = cpu.r["B"] /\ cpu'.r["C"] = cpu.r["C"]
      /\ cpu'.r["D"] = cpu.r["D"] /\ cpu'.r["E"] = cpu.r["E"]
  BY <1>1, <1>5 DEF Cpus, Registers
<1>7. get_rp(cpu', 0) = get_rp(cpu, 0) /\ get_rp(cpu', 1) = get_rp(cpu, 1)
  BY <1>6, PairWords
<1>8. QED
  BY <1>3, <1>4, <1>5, <1>7, Zenon

\* What level i's routine leaves is the place of level i or inside the one it came from.
LEMMA ComesBack ==
    ASSUME NEW c, NEW m, NEW s, NEW e \in Enters, NEW l
    PROVE  /\ AtLevel(c, m, s, e, Ending(e, 1), 1, 3) => Inside(c, m, s, e, l, 0, 1, 0)
           /\ AtLevel(c, m, s, e, Ending(e, 2), 2, 6) => Inside(c, m, s, e, l, 1, 2, 3)
           /\ AtLevel(c, m, s, e, Ending(e, 3), 3, 9) => Inside(c, m, s, e, l, 2, 3, 6)
<1>1. Up(Up(Up(0))) = 3 /\ Up(Up(Up(3))) = 6 /\ Up(Up(Up(6))) = 9
  BY DEF Up
<1>2. AtLevel(c, m, s, e, Ending(e, 1), 1, 3) => Inside(c, m, s, e, l, 0, 1, 0)
  BY <1>1, Zenon DEF AtLevel, Inside, Leaving
<1>3. AtLevel(c, m, s, e, Ending(e, 2), 2, 6) => Inside(c, m, s, e, l, 1, 2, 3)
  BY <1>1, Zenon DEF AtLevel, Inside, Leaving
<1>4. AtLevel(c, m, s, e, Ending(e, 3), 3, 9) => Inside(c, m, s, e, l, 2, 3, 6)
  BY <1>1, Zenon DEF AtLevel, Inside, Leaving
<1>5. QED
  BY <1>2, <1>3, <1>4

\* A step goes on in a routine, to the next one, back to the one before, or halts.
LEMMA NestedStep ==
    ASSUME CpuTypeOK, cpu_step, NEW s, Clear(s), NEW e \in Enters, NEW l \in Leaves3,
           NEW image, Kept(mem, image), StackPieces(image, s, e, l),
           "Z" \notin cpu.flags, Nested(cpu, mem, s, e, l)
    PROVE  /\ Kept(mem', image)
           /\ \/ ~cpu'.halted /\ "Z" \notin cpu'.flags /\ Nested(cpu', mem', s, e, l)
              \/ cpu'.halted /\ AtLevel(cpu', mem', s, e, Back(e, 0) + 1, 0, 0)
<1> DEFINE ok == Kept(mem', image) /\ ~cpu'.halted /\ "Z" \notin cpu'.flags
<1>1. Level(0, 1, 0) /\ Level(1, 2, 3) /\ Level(2, 3, 6)
  <2>1. Level(0, 1, 0)
    BY Zenon DEF Level
  <2>2. Level(1, 2, 3)
    BY Zenon DEF Level
  <2>3. Level(2, 3, 6)
    BY Zenon DEF Level
  <2>4. QED
    BY <2>1, <2>2, <2>3
<1>2. /\ Entry[1] + 14 = 22 /\ Entry[2] + 14 = 70 /\ Entry[3] + 14 = Ending(e, 3)
      /\ Up(Up(Up(0))) = 3 /\ Up(Up(Up(3))) = 6 /\ Up(Up(Up(6))) = 9
  BY DEF Entry, Ending, Up
<1>3. /\ Back(e, 0) = 266 + Size(e[1]) /\ Back(e, 1) = 22 + Size(e[2]) /\ Back(e, 2) = 70 + Size(e[3])
      /\ Back(e, 1) = Ending(e, 1) /\ Back(e, 2) = Ending(e, 2)
  BY DEF Back, Ending
<1>4. /\ Lies(image, 266, Enter(e[1], 1)) /\ Lies(image, Back(e, 0), <<\h76>>)
      /\ Lies(image, 22, Enter(e[2], 2)) /\ Lies(image, 70, Enter(e[3], 3))
  BY <1>3 DEF StackPieces
<1>5. CASE AtLevel(cpu, mem, s, e, 266, 0, 0)
  <2>1. ok /\ Inside(cpu', mem', s, e, l, 0, 1, 0)
    BY <1>1, <1>3, <1>4, <1>5, EnterLevel
  <2>2. QED
    BY <2>1, Zenon DEF Nested
<1>6. CASE AtLevel(cpu, mem, s, e, 22, 1, 3)
  <2>1. ok /\ Inside(cpu', mem', s, e, l, 1, 2, 3)
    BY <1>1, <1>3, <1>4, <1>6, EnterLevel
  <2>2. QED
    BY <2>1, Zenon DEF Nested
<1>7. CASE AtLevel(cpu, mem, s, e, 70, 2, 6)
  <2>1. ok /\ Inside(cpu', mem', s, e, l, 2, 3, 6)
    BY <1>1, <1>3, <1>4, <1>7, EnterLevel
  <2>2. QED
    BY <2>1, Zenon DEF Nested
<1>8. CASE Inside(cpu, mem, s, e, l, 0, 1, 0)
  <2>1. /\ ok
        /\ \/ Inside(cpu', mem', s, e, l, 0, 1, 0)
           \/ AtLevel(cpu', mem', s, e, Entry[1] + 14, 1, Up(Up(Up(0))))
           \/ AtLevel(cpu', mem', s, e, Back(e, 0), 0, 0)
    BY <1>1, <1>8, InsideStep
  <2>2. \/ Inside(cpu', mem', s, e, l, 0, 1, 0) \/ AtLevel(cpu', mem', s, e, 22, 1, 3)
        \/ AtLevel(cpu', mem', s, e, Back(e, 0), 0, 0)
    BY <1>2, <2>1
  <2>3. QED
    BY <2>1, <2>2, Zenon DEF Nested
<1>9. CASE Inside(cpu, mem, s, e, l, 1, 2, 3)
  <2>1. /\ ok
        /\ \/ Inside(cpu', mem', s, e, l, 1, 2, 3)
           \/ AtLevel(cpu', mem', s, e, Entry[2] + 14, 2, Up(Up(Up(3))))
           \/ AtLevel(cpu', mem', s, e, Back(e, 1), 1, 3)
    BY <1>1, <1>9, InsideStep
  <2>2. \/ Inside(cpu', mem', s, e, l, 1, 2, 3) \/ AtLevel(cpu', mem', s, e, 70, 2, 6)
        \/ AtLevel(cpu', mem', s, e, Ending(e, 1), 1, 3)
    BY <1>2, <1>3, <2>1
  <2>3. AtLevel(cpu', mem', s, e, Ending(e, 1), 1, 3) => Inside(cpu', mem', s, e, l, 0, 1, 0)
    BY ComesBack
  <2>4. QED
    BY <2>1, <2>2, <2>3, Zenon DEF Nested
<1>10. CASE Inside(cpu, mem, s, e, l, 2, 3, 6)
  <2>1. /\ ok
        /\ \/ Inside(cpu', mem', s, e, l, 2, 3, 6)
           \/ AtLevel(cpu', mem', s, e, Entry[3] + 14, 3, Up(Up(Up(6))))
           \/ AtLevel(cpu', mem', s, e, Back(e, 2), 2, 6)
    BY <1>1, <1>10, InsideStep
  <2>2. \/ Inside(cpu', mem', s, e, l, 2, 3, 6) \/ AtLevel(cpu', mem', s, e, Ending(e, 3), 3, 9)
        \/ AtLevel(cpu', mem', s, e, Ending(e, 2), 2, 6)
    BY <1>2, <1>3, <2>1
  <2>3. /\ AtLevel(cpu', mem', s, e, Ending(e, 2), 2, 6) => Inside(cpu', mem', s, e, l, 1, 2, 3)
        /\ AtLevel(cpu', mem', s, e, Ending(e, 3), 3, 9) => Inside(cpu', mem', s, e, l, 2, 3, 6)
    BY ComesBack
  <2>4. QED
    BY <2>1, <2>2, <2>3, Zenon DEF Nested
<1>11. CASE AtLevel(cpu, mem, s, e, Back(e, 0), 0, 0)
  <2> DEFINE a == Back(e, 0)
  <2>1. a \in Int /\ 8 <= a /\ a <= 747
    BY <1>3 DEF Size
  <2>2. mem_read(image, a) = \h76
    <3>1. Lies(image, a, <<\h76>>)
      BY <1>4
    <3> HIDE DEF a
    <3>2. 1 \in 1 .. Len(<<\h76>>) /\ a + 1 - 1 = a /\ <<\h76>>[1] = \h76
      BY <2>1
    <3>3. mem_read(image, a + 1 - 1) = <<\h76>>[1]
      BY <3>1, <3>2 DEF Lies
    <3>4. QED
      BY <3>2, <3>3
  <2> HIDE DEF a
  <2>3. AtLevel(cpu, mem, s, e, a, 0, 0)
    BY <1>11 DEF a
  <2>4. cpu.pc = a
    BY <2>3 DEF AtLevel
  <2>5. opcode = \h76 /\ Wrap(cpu.pc + 1) = a + 1
    BY <2>1, <2>2, <2>4, FetchKept
  <2>6. /\ get_rp(cpu', 0) = get_rp(cpu, 0) /\ get_rp(cpu', 1) = get_rp(cpu, 1) /\ cpu'.sp = cpu.sp
        /\ cpu'.pc = a + 1 /\ cpu'.halted /\ mem' = mem
    BY <2>5, StopStep
  <2>7. AtLevel(cpu', mem', s, e, a + 1, 0, 0)
    BY <2>3, <2>6 DEF AtLevel
  <2>8. QED
    BY <2>6, <2>7 DEF a
<1>12. QED
  BY <1>5, <1>6, <1>7, <1>8, <1>9, <1>10, <1>11, Zenon DEF Nested

\* A step of the start goes on, or comes to the first site.
LEMMA SetupStep ==
    ASSUME CpuTypeOK, cpu_step, NEW s, Clear(s), NEW e \in Enters, NEW l \in Leaves3,
           NEW image, Kept(mem, image), StackPieces(image, s, e, l), Setup(cpu, mem, s, e)
    PROVE  /\ Kept(mem', image) /\ ~cpu'.halted
           /\ Setup(cpu', mem', s, e) \/ ("Z" \notin cpu'.flags /\ Nested(cpu', mem', s, e, l))
<1> DEFINE f == Saved(e)
           b == PairB(0)
           d == PairD(0)
<1>1. s \in Address
  BY DEF Clear
<1>2. /\ cpu.pc = 256 => opcode = \h31 /\ Target = s /\ Wrap(cpu.pc + 3) = 259
      /\ cpu.pc = 259 => opcode = \h01 /\ Target = b /\ Wrap(cpu.pc + 3) = 262
      /\ cpu.pc = 262 => opcode = \h11 /\ Target = d /\ Wrap(cpu.pc + 3) = 265
      /\ cpu.pc = 265 => opcode = \h3C /\ Wrap(cpu.pc + 1) = 266
  <2>1. Lies(image, 256, Start(s))
    BY DEF StackPieces
  <2>2. QED
    BY <1>1, <2>1, FetchStart
<1> HIDE DEF f, b, d
<1>3. /\ cpu.r["A"] = 0
      /\ \/ cpu.pc = 256
         \/ cpu.pc = 259 /\ Stacked(cpu.sp, mem, s, f, 0)
         \/ cpu.pc = 262 /\ Stacked(cpu.sp, mem, s, f, 0) /\ get_rp(cpu, 0) = b
         \/ cpu.pc = 265 /\ Stacked(cpu.sp, mem, s, f, 0) /\ get_rp(cpu, 0) = b /\ get_rp(cpu, 1) = d
  BY DEF Setup, f, b, d
<1>4. CASE cpu.pc = 256
  <2>1. Turned(get_rp(cpu, 0), get_rp(cpu, 1), get_rp(cpu, 2), s, 259, mem)
    BY <1>2, <1>4, TopStep
  <2>2. cpu'.r["A"] = 0 /\ cpu'.sp = s /\ cpu'.pc = 259 /\ ~cpu'.halted /\ mem' = mem
    BY <1>3, <2>1 DEF Turned
  <2>3. Stacked(cpu'.sp, mem', s, f, 0)
    <3>1. Cell(s, 0) = s /\ 2 * 0 = 0
      BY <1>1, AddressRange DEF Cell
    <3>2. Words(mem', s, f, 0)
      BY DEF Words
    <3>3. QED
      BY <2>2, <3>1, <3>2 DEF Stacked
  <2>4. QED
    BY <2>2, <2>3, Zenon DEF Setup, f
<1>5. CASE cpu.pc = 259 /\ Stacked(cpu.sp, mem, s, f, 0)
  <2>1. Turned(b, get_rp(cpu, 1), get_rp(cpu, 2), cpu.sp, 262, mem)
    BY <1>2, <1>5, LoadStep
  <2>2. /\ cpu'.r["A"] = 0 /\ cpu'.sp = cpu.sp /\ cpu'.pc = 262 /\ ~cpu'.halted /\ mem' = mem
        /\ get_rp(cpu', 0) = b
    BY <1>3, <2>1 DEF Turned
  <2>3. Stacked(cpu'.sp, mem', s, f, 0)
    BY <1>5, <2>2
  <2>4. QED
    BY <2>2, <2>3, Zenon DEF Setup, f, b
<1>6. CASE cpu.pc = 262 /\ Stacked(cpu.sp, mem, s, f, 0) /\ get_rp(cpu, 0) = b
  <2>1. Turned(get_rp(cpu, 0), d, get_rp(cpu, 2), cpu.sp, 265, mem)
    BY <1>2, <1>6, LoadStep
  <2>2. /\ cpu'.r["A"] = 0 /\ cpu'.sp = cpu.sp /\ cpu'.pc = 265 /\ ~cpu'.halted /\ mem' = mem
        /\ get_rp(cpu', 0) = b /\ get_rp(cpu', 1) = d
    BY <1>3, <1>6, <2>1 DEF Turned
  <2>3. Stacked(cpu'.sp, mem', s, f, 0)
    BY <1>6, <2>2
  <2>4. QED
    BY <2>2, <2>3, Zenon DEF Setup, f, b, d
<1>7. CASE cpu.pc = 265 /\ Stacked(cpu.sp, mem, s, f, 0) /\ get_rp(cpu, 0) = b /\ get_rp(cpu, 1) = d
  <2>1. /\ get_rp(cpu', 0) = b /\ get_rp(cpu', 1) = d
        /\ cpu'.sp = cpu.sp /\ cpu'.pc = 266 /\ ~cpu'.halted /\ mem' = mem
        /\ "Z" \notin cpu'.flags
    BY <1>2, <1>3, <1>7, CountStep
  <2>2. Stacked(cpu'.sp, mem', s, f, 0)
    BY <1>7, <2>1
  <2>3. AtLevel(cpu', mem', s, e, 266, 0, 0)
    BY <2>1, <2>2 DEF AtLevel, f, b, d
  <2>4. QED
    BY <2>1, <2>3, Zenon DEF Nested
<1>8. QED
  BY <1>3, <1>4, <1>5, <1>6, <1>7

\* A step keeps the nested routines in their places.
LEMMA StackStep ==
    ASSUME CpuTypeOK, cpu_step, NEW s, Clear(s), NEW e \in Enters, NEW l \in Leaves3,
           StackAt(cpu, mem, s, e, l)
    PROVE  StackAt(cpu', mem', s, e, l)
<1> DEFINE image == StackTask(s, e, l).image
<1>1. s \in Address /\ ~cpu.halted
  BY DEF Clear, cpu_step
<1>2. StackPieces(image, s, e, l)
  BY <1>1, StackLies
<1> HIDE DEF image
<1>3. /\ Kept(mem, image)
      /\ \/ Setup(cpu, mem, s, e)
         \/ "Z" \notin cpu.flags /\ Nested(cpu, mem, s, e, l)
  BY <1>1, Zenon DEF StackAt, image
<1>4. CASE Setup(cpu, mem, s, e)
  <2>1. /\ Kept(mem', image) /\ ~cpu'.halted
        /\ Setup(cpu', mem', s, e) \/ ("Z" \notin cpu'.flags /\ Nested(cpu', mem', s, e, l))
    BY <1>2, <1>3, <1>4, SetupStep
  <2>2. QED
    BY <2>1, Zenon DEF StackAt, image
<1>5. CASE "Z" \notin cpu.flags /\ Nested(cpu, mem, s, e, l)
  <2>1. /\ Kept(mem', image)
        /\ \/ ~cpu'.halted /\ "Z" \notin cpu'.flags /\ Nested(cpu', mem', s, e, l)
           \/ cpu'.halted /\ AtLevel(cpu', mem', s, e, Back(e, 0) + 1, 0, 0)
    BY <1>2, <1>3, <1>5, NestedStep
  <2>2. QED
    BY <2>1, Zenon DEF StackAt, image
<1>6. QED
  BY <1>3, <1>4, <1>5

\* Where it halts: the pairs and the stack pointer are back, and the program is whole.
LEMMA StackEnd ==
    ASSUME NEW s, Clear(s), NEW e \in Enters, NEW l \in Leaves3, StackAt(cpu, mem, s, e, l), cpu.halted
    PROVE  /\ cpu.sp = s
           /\ get_rp(cpu, 0) = \hBEEF /\ get_rp(cpu, 1) = \hCAFE
           /\ \A a \in \h100 .. \h110 : mem_read(mem, a) = mem_read(StackTask(s, e, l).image, a)
           /\ mem_read(mem, cpu.pc - 1) = \h76 /\ cpu.pc \in \h100 .. \h110
<1> DEFINE image == StackTask(s, e, l).image
           x == Back(e, 0)
<1>1. s \in Address
  BY DEF Clear
<1>2. StackPieces(image, s, e, l)
  BY <1>1, StackLies
<1>3. x = 266 + Size(e[1])
  BY DEF Back
<1> HIDE DEF image, x
<1>4. Kept(mem, image) /\ AtLevel(cpu, mem, s, e, x + 1, 0, 0)
  BY Zenon DEF StackAt, image, x
<1>5. /\ cpu.pc = x + 1 /\ Stacked(cpu.sp, mem, s, Saved(e), 0)
      /\ get_rp(cpu, 0) = PairB(0) /\ get_rp(cpu, 1) = PairD(0)
  BY <1>4 DEF AtLevel
<1>6. cpu.sp = s
  <2>1. cpu.sp = Cell(s, 2 * 0)
    BY <1>5 DEF Stacked
  <2>2. QED
    BY <1>1, <2>1, AddressRange DEF Cell
<1>7. x = 267 \/ x = 269
  BY <1>3 DEF Size
<1>8. mem_read(image, x) = \h76
  <2>1. Lies(image, x, <<\h76>>)
    BY <1>2, <1>3 DEF StackPieces
  <2>2. 1 \in 1 .. Len(<<\h76>>) /\ x + 1 - 1 = x /\ <<\h76>>[1] = \h76
    BY <1>7
  <2>3. mem_read(image, x + 1 - 1) = <<\h76>>[1]
    BY <2>1, <2>2 DEF Lies
  <2>4. QED
    BY <2>2, <2>3
<1>9. \A a \in Int : 8 <= a /\ a <= 749 => mem_read(mem, a) = mem_read(image, a)
  BY <1>4 DEF Kept
<1>10. \A a \in \h100 .. \h110 : mem_read(mem, a) = mem_read(image, a)
  <2>1. \A a \in \h100 .. \h110 : a \in Int /\ 8 <= a /\ a <= 749
    OBVIOUS
  <2>2. QED
    BY <1>9, <2>1
<1>11. mem_read(mem, cpu.pc - 1) = \h76 /\ cpu.pc \in \h100 .. \h110
  <2>1. cpu.pc - 1 = x /\ cpu.pc \in \h100 .. \h110 /\ x \in Int /\ 8 <= x /\ x <= 749
    BY <1>5, <1>7
  <2>2. QED
    BY <1>8, <1>9, <2>1
<1>12. PairB(0) = \hBEEF /\ PairD(0) = \hCAFE
  BY DEF PairB, PairD
<1>13. QED
  BY <1>5, <1>6, <1>10, <1>11, <1>12 DEF image

ControlKinds == {"taken", "returned", "status", "stack", "memory"}

\* Which program it is, and where the CPU is in it.
StatusCourse(c, m, t) == \E a, f \in Byte : t = StatusTask(a, f) /\ StatusAt(c, m, a, f)
BranchCourse(c, m, t) ==
    \E k \in 0 .. 7, x, y \in Byte : \/ t = JumpTask(k, x, y) /\ JumpAt(c, m, k, x, y)
                                     \/ t = CallTask(k, x, y) /\ CallAt(c, m, k, x, y)
                                     \/ t = ReturnTask(k, x, y) /\ ReturnAt(c, m, k, x, y)
StackCourse(c, m, t) ==
    \E s, e, l : /\ Clear(s) /\ e \in Enters /\ l \in Leaves3
                 /\ t = StackTask(s, e, l) /\ StackAt(c, m, s, e, l)
MemoryCourse(c, m, t) ==
    \E x \in Address, p \in Address :
        /\ Outside(p) /\ Outside(Wrap(p + 1)) /\ p # Wrap(p + 1) /\ t = MemoryTask(x, p)
        /\ MemoryRun(c, m, MemoryCode(x, p), p, Wrap(p + 1), Hi(x), Lo(x))

ControlCourse(c, m, t) == \/ StatusCourse(c, m, t) \/ BranchCourse(c, m, t)
                          \/ StackCourse(c, m, t) \/ MemoryCourse(c, m, t)

ControlInv(c, m, t) == t.kind \in ControlKinds => ControlCourse(c, m, t)

\* Where the stacks of a run are, and the words it keeps in memory.
LEMMA StacksClear ==
    ASSUME NEW s \in Stacks
    PROVE  /\ Clear(s) /\ Outside(s) /\ Outside(Wrap(s + 1)) /\ s # Wrap(s + 1)
<1>1. s \in 0 .. 8 \/ s \in 768 .. LastAddress
  BY MCCpuAssumption
<1>2. s \in Int /\ ((0 <= s /\ s <= 8) \/ (768 <= s /\ s <= 65535))
  <2>1. LastAddress \in Int /\ LastAddress <= 65535
    BY DEF LastAddress
  <2>2. CASE s \in 0 .. 8
    BY <2>2
  <2>3. CASE s \in 768 .. LastAddress
    <3>1. s \in Int /\ 768 <= s /\ s <= LastAddress
      BY <2>1, <2>3
    <3>2. QED
      BY <2>1, <3>1
  <2>4. QED
    BY <1>1, <2>2, <2>3
<1>3. s \in Address
  BY <1>2, AddressRange
<1>4. Wrap(s + 1) = IF s = 65535 THEN 0 ELSE s + 1
  BY <1>2 DEF Wrap
<1>5. Wrap(s + 1) \in Address
  BY <1>2, <1>4, AddressRange
<1>6. s # Wrap(s + 1) /\ (Wrap(s + 1) <= 255 \/ Wrap(s + 1) >= 768)
  BY <1>2, <1>4
<1>7. QED
  BY <1>2, <1>3, <1>5, <1>6 DEF Clear, Outside

\* Which programs there are of each kind.
LEMMA ControlTasks ==
    ASSUME NEW t \in Tasks, t.kind \in ControlKinds
    PROVE  \/ \E a, f \in Byte : t = StatusTask(a, f)
           \/ \E k \in 0 .. 7, x, y \in Byte :
                 t = JumpTask(k, x, y) \/ t = CallTask(k, x, y) \/ t = ReturnTask(k, x, y)
           \/ \E s \in Stacks, e \in Enters, l \in Leaves3 : t = StackTask(s, e, l)
           \/ \E x \in Address, p \in Stacks : t = MemoryTask(x, p)
<1>1. /\ t.kind # "sum" /\ t.kind # "diff" /\ t.kind # "decimal" /\ t.kind # "logic"
      /\ t.kind # "shift" /\ t.kind # "ldax"
  BY DEF ControlKinds
<1>2. Bytes \subseteq Byte
  BY MCCpuAssumption
<1>3. CASE t \in WordTasks
  <2>1. \E x, y : t = SumTask(x, y) \/ t = DiffTask(x, y) \/ t = DadTask(x, y)
    BY <1>3 DEF WordTasks
  <2>2. t.kind = "sum" \/ t.kind = "diff"
    BY <2>1 DEF SumTask, DiffTask, DadTask, Task
  <2>3. QED
    BY <1>1, <2>2
<1>4. CASE t \in DecimalTasks
  <2>1. \E h, i, l, m : t = DecimalTask(h, l, i, m)
    BY <1>4 DEF DecimalTasks
  <2>2. t.kind = "decimal"
    BY <2>1 DEF DecimalTask, Task
  <2>3. QED
    BY <1>1, <2>2
<1>5. CASE t \in LogicTasks
  <2>1. \E x, y : t = LogicTask(x, y)
    BY <1>5 DEF LogicTasks
  <2>2. t.kind = "logic"
    BY <2>1 DEF LogicTask, Task
  <2>3. QED
    BY <1>1, <2>2
<1>6. CASE t \in ShiftTasks
  <2>1. \E x : t = ShiftTask(x)
    BY <1>6 DEF ShiftTasks
  <2>2. t.kind = "shift"
    BY <2>1 DEF ShiftTask, Task
  <2>3. QED
    BY <1>1, <2>2
<1>7. CASE t \in LdaxTasks
  <2>1. \E x : t = LdaxTask(x, \h2000)
    BY <1>7 DEF LdaxTasks
  <2>2. t.kind = "ldax"
    BY <2>1 DEF LdaxTask, Task
  <2>3. QED
    BY <1>1, <2>2
<1>8. CASE t \in BranchTasks
  <2>1. \E k \in 0 .. 7, x \in Bytes, y \in Bytes :
           t = JumpTask(k, x, y) \/ t = CallTask(k, x, y) \/ t = ReturnTask(k, x, y)
    BY <1>8 DEF BranchTasks
  <2>2. QED
    BY <1>2, <2>1, Zenon
<1>9. CASE t \in StatusTasks
  <2>1. \E a \in Bytes, f \in Byte : t = StatusTask(a, f)
    BY <1>9 DEF StatusTasks
  <2>2. QED
    BY <1>2, <2>1
<1>10. CASE t \in StackTasks
  <2>1. StackTasks = {StackTask(s, e, l) : s \in Stacks, e \in Enters, l \in Leaves3}
    BY DEF StackTasks, Enters, Leaves3
  <2>2. QED
    BY <1>10, <2>1
<1>11. CASE t \in MemoryTasks
  <2>1. Operands \subseteq Address
    <3> SUFFICES ASSUME NEW h \in Bytes, NEW l \in Bytes
                 PROVE  Word(h, l) \in Address
      BY DEF Operands
    <3>1. QED
      BY <1>2, BytesWord
  <2>2. \E x \in Operands, p \in Stacks : t = MemoryTask(x, p)
    BY <1>11 DEF MemoryTasks
  <2>3. QED
    BY <2>1, <2>2
<1>12. QED
  BY <1>3, <1>4, <1>5, <1>6, <1>7, <1>8, <1>9, <1>10, <1>11, MCCpuAssumption DEF AllTasks

\* A program is where it starts.
LEMMA ControlStart ==
    ASSUME MCInit, task.kind \in ControlKinds
    PROVE  ControlCourse(cpu, mem, task)
<1>1. task \in Tasks /\ cpu.pc = 256 /\ ~cpu.halted /\ cpu.r["A"] = 0 /\ cpu.sp = Top
      /\ mem = task.image
  BY DEF MCInit, cpu_init, Registers, Top
<1>2. get_rp(cpu, 1) = 0
  <2>1. cpu.r["D"] = 0 /\ cpu.r["E"] = 0
    BY DEF MCInit, cpu_init, Registers
  <2>2. QED
    BY <2>1, PairWords DEF Word
<1>3. \A f : Stacked(cpu.sp, mem, Top, f, 0)
  <2>1. Cell(Top, 0) = Top /\ 2 * 0 = 0
    BY AddressRange DEF Cell, Top
  <2>2. \A f : Words(mem, Top, f, 0)
    BY DEF Words
  <2>3. QED
    BY <1>1, <2>1, <2>2 DEF Stacked
<1>4. \A k, x, y : Comparing(cpu, mem, k, x, y)
  BY <1>1, <1>2, <1>3 DEF Comparing
<1>5. Kept(mem, task.image)
  BY <1>1 DEF Kept
<1>6. \A a, f : task = StatusTask(a, f) => StatusAt(cpu, mem, a, f)
  BY <1>1, <1>3, <1>5 DEF StatusAt, Top
<1>7. \A k, x, y : /\ task = JumpTask(k, x, y) => JumpAt(cpu, mem, k, x, y)
                   /\ task = CallTask(k, x, y) => CallAt(cpu, mem, k, x, y)
                   /\ task = ReturnTask(k, x, y) => ReturnAt(cpu, mem, k, x, y)
  <2> SUFFICES ASSUME NEW k, NEW x, NEW y
               PROVE  /\ task = JumpTask(k, x, y) => JumpAt(cpu, mem, k, x, y)
                      /\ task = CallTask(k, x, y) => CallAt(cpu, mem, k, x, y)
                      /\ task = ReturnTask(k, x, y) => ReturnAt(cpu, mem, k, x, y)
    OBVIOUS
  <2>1. /\ task = JumpTask(k, x, y) => Kept(mem, JumpTask(k, x, y).image)
        /\ task = CallTask(k, x, y) => Kept(mem, CallTask(k, x, y).image)
        /\ task = ReturnTask(k, x, y) => Kept(mem, ReturnTask(k, x, y).image)
    BY <1>5
  <2>2. Comparing(cpu, mem, k, x, y)
    BY <1>4
  <2>3. QED
    BY <2>1, <2>2, Zenon DEF JumpAt, CallAt, ReturnAt
<1>8. \A s, e, l : task = StackTask(s, e, l) => StackAt(cpu, mem, s, e, l)
  BY <1>1, <1>5, Zenon DEF StackAt, Setup
<1>9. ASSUME NEW x \in Address, NEW p \in Stacks, task = MemoryTask(x, p)
      PROVE  MemoryRun(cpu, mem, MemoryCode(x, p), p, Wrap(p + 1), Hi(x), Lo(x))
  <2> DEFINE code == MemoryCode(x, p)
  <2>1. task.image = At(256, code)
    BY <1>9 DEF MemoryTask, Task, MemoryCode
  <2>2. Len(code) = 42
    BY StacksClear, MemoryCodes DEF MemoryProgram, Clear
  <2> HIDE DEF code
  <2>3. Held(mem, code)
    <3> SUFFICES ASSUME NEW i \in 1 .. Len(code)
                 PROVE  mem_read(mem, 255 + i) = code[i]
      BY DEF Held
    <3>1. Len(code) \in Nat
      BY <2>2
    <3>2. mem_read(At(256, code), 256 + i - 1) = code[i]
      BY <3>1, Placed
    <3>3. 256 + i - 1 = 255 + i
      BY <3>1
    <3>4. QED
      BY <1>1, <2>1, <3>2, <3>3
  <2>4. QED
    BY <1>1, <2>3 DEF MemoryRun, code
<1>10. \A p \in Stacks : p \in Address
  BY StacksClear DEF Outside
<1>11. \/ \E a, f \in Byte : task = StatusTask(a, f)
       \/ \E k \in 0 .. 7, x, y \in Byte :
             task = JumpTask(k, x, y) \/ task = CallTask(k, x, y) \/ task = ReturnTask(k, x, y)
       \/ \E s \in Stacks, e \in Enters, l \in Leaves3 : task = StackTask(s, e, l)
       \/ \E x \in Address, p \in Stacks : task = MemoryTask(x, p)
  BY <1>1, ControlTasks
<1>12. ASSUME NEW a \in Byte, NEW f \in Byte, task = StatusTask(a, f)
       PROVE  StatusCourse(cpu, mem, task)
  BY <1>6, <1>12, Zenon DEF StatusCourse
<1>13. ASSUME NEW k \in 0 .. 7, NEW x \in Byte, NEW y \in Byte,
              task = JumpTask(k, x, y) \/ task = CallTask(k, x, y) \/ task = ReturnTask(k, x, y)
       PROVE  BranchCourse(cpu, mem, task)
  BY <1>7, <1>13, Zenon DEF BranchCourse
<1>14. ASSUME NEW s \in Stacks, NEW e \in Enters, NEW l \in Leaves3, task = StackTask(s, e, l)
       PROVE  StackCourse(cpu, mem, task)
  <2>1. Clear(s) /\ StackAt(cpu, mem, s, e, l)
    BY <1>8, <1>14, StacksClear
  <2>2. QED
    BY <1>14, <2>1, Zenon DEF StackCourse
<1>15. ASSUME NEW x \in Address, NEW p \in Stacks, task = MemoryTask(x, p)
       PROVE  MemoryCourse(cpu, mem, task)
  <2>1. Outside(p) /\ Outside(Wrap(p + 1)) /\ p # Wrap(p + 1) /\ p \in Address
    BY <1>10, StacksClear
  <2>2. MemoryRun(cpu, mem, MemoryCode(x, p), p, Wrap(p + 1), Hi(x), Lo(x))
    BY <1>9, <1>15, Zenon
  <2>3. QED
    BY <1>15, <2>1, <2>2, Zenon DEF MemoryCourse
<1>16. QED
  BY <1>11, <1>12, <1>13, <1>14, <1>15, Zenon DEF ControlCourse

\* A step of the CPU keeps to the course.
LEMMA ControlStep ==
    ASSUME CpuTypeOK, cpu_step, NEW t, ControlCourse(cpu, mem, t)
    PROVE  ControlCourse(cpu', mem', t)
<1>1. CASE StatusCourse(cpu, mem, t)
  <2>1. PICK a \in Byte, f \in Byte : t = StatusTask(a, f) /\ StatusAt(cpu, mem, a, f)
    BY <1>1 DEF StatusCourse
  <2>2. StatusAt(cpu', mem', a, f)
    BY <2>1, StatusStep
  <2>3. QED
    BY <2>1, <2>2, Zenon DEF StatusCourse, ControlCourse
<1>2. CASE BranchCourse(cpu, mem, t)
  <2>1. PICK k \in 0 .. 7, x \in Byte, y \in Byte :
             \/ t = JumpTask(k, x, y) /\ JumpAt(cpu, mem, k, x, y)
             \/ t = CallTask(k, x, y) /\ CallAt(cpu, mem, k, x, y)
             \/ t = ReturnTask(k, x, y) /\ ReturnAt(cpu, mem, k, x, y)
    BY <1>2 DEF BranchCourse
  <2>2. /\ JumpAt(cpu, mem, k, x, y) => JumpAt(cpu', mem', k, x, y)
        /\ CallAt(cpu, mem, k, x, y) => CallAt(cpu', mem', k, x, y)
        /\ ReturnAt(cpu, mem, k, x, y) => ReturnAt(cpu', mem', k, x, y)
    BY JumpStep, CallStep, BackStep
  <2>3. QED
    BY <2>1, <2>2, Zenon DEF BranchCourse, ControlCourse
<1>3. CASE StackCourse(cpu, mem, t)
  <2>1. PICK s, e, l : /\ Clear(s) /\ e \in Enters /\ l \in Leaves3
                       /\ t = StackTask(s, e, l) /\ StackAt(cpu, mem, s, e, l)
    BY <1>3 DEF StackCourse
  <2>2. StackAt(cpu', mem', s, e, l)
    BY <2>1, StackStep
  <2>3. QED
    BY <2>1, <2>2, Zenon DEF StackCourse, ControlCourse
<1>4. CASE MemoryCourse(cpu, mem, t)
  <2>1. PICK x \in Address, p \in Address :
             /\ Outside(p) /\ Outside(Wrap(p + 1)) /\ p # Wrap(p + 1) /\ t = MemoryTask(x, p)
             /\ MemoryRun(cpu, mem, MemoryCode(x, p), p, Wrap(p + 1), Hi(x), Lo(x))
    BY <1>4, Zenon DEF MemoryCourse
  <2> DEFINE code == MemoryCode(x, p)
             q == Wrap(p + 1)
             h == Hi(x)
             l == Lo(x)
  <2>2. h \in Byte /\ l \in Byte /\ Word(h, l) = x
    BY WordBytes
  <2>3. MemoryProgram(code, Word(h, l), p, q)
    BY <2>1, <2>2, MemoryCodes DEF Outside
  <2>4. Wrap(p + 1) = q
    OBVIOUS
  <2>5. Outside(p) /\ Outside(q) /\ p # q /\ MemoryRun(cpu, mem, code, p, q, h, l)
    BY <2>1
  <2> HIDE DEF code, q, h, l
  <2>6. MemoryRun(cpu', mem', code, p, q, h, l)
    BY <2>2, <2>3, <2>4, <2>5, MemoryStep
  <2>7. QED
    BY <2>1, <2>6, Zenon DEF code, q, h, l, MemoryCourse, ControlCourse
<1>5. QED
  BY <1>1, <1>2, <1>3, <1>4 DEF ControlCourse

\* Where a program has halted it has done what it should.
LEMMA ControlEnd ==
    ASSUME CpuTypeOK, cpu.halted, task.kind \in ControlKinds, ControlCourse(cpu, mem, task)
    PROVE  FollowsControl
<1>1. CASE StatusCourse(cpu, mem, task)
  <2>1. PICK a \in Byte, f \in Byte : task = StatusTask(a, f) /\ StatusAt(cpu, mem, a, f)
    BY <1>1 DEF StatusCourse
  <2>2. task.kind = "status" /\ task.x = a /\ task.y = f
    BY <2>1 DEF StatusTask, Task
  <2>3. /\ cpu.r["A"] = a /\ cpu.r["D"] = a /\ cpu.flags = unpack_psw_flags(f)
        /\ cpu.r["E"] = And(f, 213) + 2
    BY <2>1, StatusEnd
  <2>4. StatusSurvives
    BY <2>2, <2>3 DEF StatusSurvives
  <2>5. QED
    BY <2>2, <2>4 DEF FollowsControl, BranchFollowsOrder, CallsReturn, MemoryKeepsWords
<1>2. CASE BranchCourse(cpu, mem, task)
  <2>1. PICK k \in 0 .. 7, x \in Byte, y \in Byte :
             \/ task = JumpTask(k, x, y) /\ JumpAt(cpu, mem, k, x, y)
             \/ task = CallTask(k, x, y) /\ CallAt(cpu, mem, k, x, y)
             \/ task = ReturnTask(k, x, y) /\ ReturnAt(cpu, mem, k, x, y)
    BY <1>2 DEF BranchCourse
  <2> DEFINE holds == Holds(k, x, y)
  <2>2. Holds(task.k, task.x, task.y) = holds
    BY <2>1 DEF JumpTask, CallTask, ReturnTask, Task
  <2>3. /\ JumpAt(cpu, mem, k, x, y) \/ CallAt(cpu, mem, k, x, y) =>
               cpu.r["D"] = Bool(holds) /\ cpu.sp = \hFDFF
        /\ ReturnAt(cpu, mem, k, x, y) => cpu.r["D"] = Bool(~holds) /\ cpu.sp = \hFDFF
    BY BranchEnd
  <2> HIDE DEF holds
  <2>4. /\ task = JumpTask(k, x, y) \/ task = CallTask(k, x, y) => task.kind = "taken"
        /\ task = ReturnTask(k, x, y) => task.kind = "returned"
    BY DEF JumpTask, CallTask, ReturnTask, Task
  <2>5. cpu.sp = \hFDFF
    BY <2>1, <2>3
  <2>6. \/ task.kind = "taken" /\ cpu.r["D"] = Bool(holds)
        \/ task.kind = "returned" /\ cpu.r["D"] = Bool(~holds)
    BY <2>1, <2>3, <2>4
  <2>7. cpu.r["D"] = Bool(Holds(task.k, task.x, task.y) <=> (task.kind = "taken"))
    BY <2>2, <2>6 DEF Bool
  <2>8. BranchFollowsOrder
    BY <2>5, <2>7 DEF BranchFollowsOrder
  <2>9. QED
    BY <2>6, <2>8 DEF FollowsControl, StatusSurvives, CallsReturn, MemoryKeepsWords
<1>3. CASE StackCourse(cpu, mem, task)
  <2>1. PICK s, e, l : /\ Clear(s) /\ e \in Enters /\ l \in Leaves3
                       /\ task = StackTask(s, e, l) /\ StackAt(cpu, mem, s, e, l)
    BY <1>3 DEF StackCourse
  <2>2. task.kind = "stack" /\ task.x = s
    BY <2>1 DEF StackTask
  <2>3. /\ cpu.sp = s
        /\ get_rp(cpu, 0) = \hBEEF /\ get_rp(cpu, 1) = \hCAFE
        /\ \A a \in \h100 .. \h110 : mem_read(mem, a) = mem_read(StackTask(s, e, l).image, a)
        /\ mem_read(mem, cpu.pc - 1) = \h76 /\ cpu.pc \in \h100 .. \h110
    BY <2>1, StackEnd
  <2>4. CallsReturn
    <3>1. task.image = StackTask(s, e, l).image
      BY <2>1
    <3>2. \A a \in \h100 .. \h110 : mem_read(mem, a) = mem_read(task.image, a)
      BY <2>3, <3>1
    <3>3. cpu.sp = task.x
      BY <2>2, <2>3
    <3>4. QED
      BY <2>3, <3>2, <3>3 DEF CallsReturn
  <2>5. QED
    BY <2>2, <2>4 DEF FollowsControl, BranchFollowsOrder, StatusSurvives, MemoryKeepsWords
<1>4. CASE MemoryCourse(cpu, mem, task)
  <2>1. PICK x \in Address, p \in Address :
             /\ Outside(p) /\ Outside(Wrap(p + 1)) /\ p # Wrap(p + 1) /\ task = MemoryTask(x, p)
             /\ MemoryRun(cpu, mem, MemoryCode(x, p), p, Wrap(p + 1), Hi(x), Lo(x))
    BY <1>4, Zenon DEF MemoryCourse
  <2>2. task.kind = "memory" /\ task.x = x /\ task.y = p
    BY <2>1 DEF MemoryTask, Task
  <2>3. /\ get_rp(cpu, 1) = Word(Lo(x), Hi(x)) /\ get_hl(cpu) = get_rp(cpu, 1)
        /\ cpu.sp = Wrap(p + 2) /\ cpu.out.value = Lo(Hi(x) + 1)
    BY <2>1, MemoryEnd
  <2>4. MemoryKeepsWords
    BY <2>2, <2>3, Zenon DEF MemoryKeepsWords
  <2>5. QED
    BY <2>2, <2>4 DEF FollowsControl, BranchFollowsOrder, StatusSurvives, CallsReturn
<1>5. QED
  BY <1>1, <1>2, <1>3, <1>4 DEF ControlCourse

\* Whatever bytes are compared, whatever status is pushed, wherever the stack
\* and the words lie clear of the program, and however the routines are entered
\* and left: a program that jumps, calls, returns, saves its status or keeps
\* words in memory goes where it should and finds what it kept.
THEOREM ControlFollowed == MCSpec => []FollowsControl
<1>1. MCInit => ControlInv(cpu, mem, task)
  BY ControlStart DEF ControlInv
<1>2. CpuTypeOK /\ ControlInv(cpu, mem, task) /\ [MCNext]_<<vars, task>>
      => ControlInv(cpu, mem, task)'
  <2> SUFFICES ASSUME CpuTypeOK, ControlInv(cpu, mem, task), [MCNext]_<<vars, task>>
               PROVE  ControlInv(cpu', mem', task')
    OBVIOUS
  <2>1. task' = task
    BY DEF MCNext
  <2>2. cpu_step => ControlInv(cpu', mem', task)
    BY ControlStep DEF ControlInv
  <2>3. UNCHANGED vars => ControlInv(cpu', mem', task)
    <3>1. UNCHANGED vars => cpu' = cpu /\ mem' = mem
      BY DEF vars
    <3>2. QED
      BY <3>1
  <2>4. cpu_step \/ UNCHANGED vars
    BY DEF MCNext, Next, Halted, vars
  <2>5. QED
    BY <2>1, <2>2, <2>3, <2>4
<1>3. CpuTypeOK /\ ControlInv(cpu, mem, task) => FollowsControl
  <2>1. CASE task.kind \in ControlKinds /\ cpu.halted
    BY <2>1, ControlEnd DEF ControlInv
  <2>2. CASE ~(task.kind \in ControlKinds /\ cpu.halted)
    BY <2>2 DEF FollowsControl, BranchFollowsOrder, StatusSurvives, CallsReturn, MemoryKeepsWords,
                ControlKinds
  <2>3. QED
    BY <2>1, <2>2
<1>4. QED
  BY <1>1, <1>2, <1>3, MCTypes, PTL DEF MCSpec
=============================================================================
