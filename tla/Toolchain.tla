----------------------------- MODULE Toolchain -----------------------------
(***************************************************************************)
(* From a C program to what it prints: cc (src/compiler/compiler.c) makes  *)
(* bytes of the source, run (src/bios/bios.c) puts them at 0x0100, and the *)
(* kernel (src/kernel/kernel.c) steps the CPU and lets the BIOS serve its  *)
(* calls until the CPU has halted.                                         *)
(*                                                                         *)
(* The CPU is that of Cpu, the calls are those of Console, and Code is     *)
(* what the compiler makes of the programs: module Compiler says what.     *)
(***************************************************************************)
EXTENDS Cpu, SequencesExt

CONSTANTS
    Sources,        \* Programs.
    Code(_),        \* The bytes of each; none for a program that is refused.
    Typed,          \* What standard input may hold.
    LineMax         \* Characters an input line holds.

ASSUME ToolchainAssumption ==
    \A s \in Sources : \E code \in {Code(s)} : code \in Seq(Byte) /\ Len(code) <= 65536 - \h0100

VARIABLES
    source,     \* The program.
    stage,      \* "source", "refused" by the compiler, or "loaded".
    con         \* What Console keeps.

toolchainVars == <<cpu, mem, source, stage, con>>

Load == \h0100      \* BIOS_TPA_LOAD

C == INSTANCE Console

-----------------------------------------------------------------------------
\* The memory in which run has put code; the rest stays as it was.
Loaded(code) ==
    [x \in DOMAIN mem \cup (Load .. Load + Len(code) - 1) |->
        IF x \in Load .. Load + Len(code) - 1 THEN code[x - Load + 1] ELSE mem[x]]

\* cc and run.
Compile ==
    /\ stage = "source"
    /\ \E code \in {Code(source)} :
          \/ code = <<>> /\ stage' = "refused" /\ UNCHANGED mem
          \/ code # <<>> /\ stage' = "loaded" /\ mem' = Loaded(code)
    /\ UNCHANGED <<cpu, source, con>>

Asked == cpu.out.pending /\ cpu.out.port = 1

\* A tick that steps the CPU.
Step == /\ stage = "loaded" /\ ~Asked
        /\ cpu_step
        /\ UNCHANGED <<source, stage, con>>

\* The call is done with value v in A.
Done(v) == cpu' = [cpu EXCEPT !.out.pending = FALSE, !.r["A"] = v]

A == cpu.r["A"]

\* A tick that serves a call; its number is in A.
Serve ==
    /\ stage = "loaded" /\ Asked
    /\ \/ A = 1     /\ Done(C!ConinA(con)) /\ con' = C!Conin(con)
       \/ A = 2     /\ Done(A) /\ con' = C!Conout(con, cpu.r["C"])
       \/ /\ A = \h17
          /\ cpu' = [cpu EXCEPT !.out.pending = FALSE, !.halted = C!AtEof(con)]
          /\ con' = C!Readline(con)
       \/ A = \h18  /\ Done(C!Lineget(con, cpu.r["C"])) /\ UNCHANGED con
       \/ A = \h19  /\ Done(C!Linelen(con)) /\ UNCHANGED con
    /\ UNCHANGED <<mem, source, stage>>

Finished == stage = "loaded" /\ cpu.halted /\ ~Asked

\* Nothing runs any more.
Over == (stage = "refused" \/ Finished) /\ UNCHANGED toolchainVars

Tick == Step \/ Serve

\* The machine is booted, with a program to compile and run.
Booted(program, input) ==
    /\ source = program /\ stage = "source"
    /\ con = [input |-> input, output |-> <<>>, line |-> <<>>]
    /\ cpu = cpu_init /\ mem \in Images

ToolchainInit == \E program \in Sources, input \in Typed : Booted(program, input)

ToolchainNext == Compile \/ Tick \/ Over

\* The kernel's loop does not stop.
ToolchainSpec ==
    ToolchainInit /\ [][ToolchainNext]_toolchainVars /\ WF_toolchainVars(Tick)
=============================================================================
