------------------------------- MODULE Kernel -------------------------------
(***************************************************************************)
(* The finite control of TuringOS: the loop of kernel_run                  *)
(* (src/kernel/kernel.c), which steps the CPU, hands the BIOS the calls    *)
(* programs make and prints what the BIOS queued; with the shell           *)
(* (src/shell/shell_tpa.c) and any other program in the memory it runs.    *)
(*                                                                         *)
(* A step of the shell stands for its instructions up to the next OUT or   *)
(* branch, and one CONOUT for a string it prints: the kernel empties the   *)
(* ring between the characters.  Any other program does anything it likes  *)
(* with the CPU.                                                           *)
(***************************************************************************)
EXTENDS Bios

CONSTANTS
    Typed,          \* File names given in shell commands.
    ProgramCalls,   \* BIOS calls that programs make.
    ShellImages     \* What loading shell.com may leave at 0x0100.

ASSUME KernelAssumption ==
    /\ Typed \subseteq Seq(NameChars)
    /\ ProgramCalls \subseteq Functions
    /\ ShellImages \subseteq {"shell", "halt"} /\ ShellImages # {}

\* The calls that end a file name.
EndCalls == {"TYPE", "RUN", "DEL", "CC"}

VARIABLES
    state,      \* k->state.  Nothing ever enters KS_IDLE.
    resume,     \* resume_state.
    drain,      \* Whether the tick still has kernel_drain_bios_output to do.
    shell       \* Where the shell is; the name its command gives, the call
                \* that is to end it, and how much of it is spelled out.

vars == <<cpu, biosVars, state, resume, drain, shell>>

ShellStart == [at |-> "prompt", name |-> <<>>, call |-> "TYPE", spelled |-> 0]

Init ==
    /\ cpu \in [halted : {FALSE}, out : {"none"}, c : NameChars]
    /\ queued = 0 /\ dropped = FALSE
    /\ typeName = <<>> /\ runLoaded = FALSE
    /\ line = FALSE /\ eof = FALSE
    /\ files \in [Names -> Sizes \cup {Absent}]
    /\ tpa = "none"
    /\ state = "BOOT" /\ resume = "SHELL" /\ drain = FALSE
    /\ shell = ShellStart

-----------------------------------------------------------------------------
(* One step of the CPU, as the set of what it may leave.                   *)

Out(f)     == [cpu EXCEPT !.out = f]
Halt       == [cpu EXCEPT !.halted = TRUE]
NameOut(c) == [cpu EXCEPT !.out = "NAMECH", !.c = c]

After(newCpu, newShell) == [cpu |-> newCpu, shell |-> newShell]

\* The shell goes on at another place.
At(place) == [shell EXCEPT !.at = place]

\* dispatch_line: a message, the directory, the word HALT, or a call on a
\* file.
Command ==
    IF ~line THEN {After(cpu, ShellStart)}
    ELSE {After(Out("CONOUT"), ShellStart), After(Out("LISTDIR"), ShellStart),
          After(Out("CONOUT"), At("halt"))}
         \cup {After(cpu, [at |-> "name", name |-> n, call |-> f, spelled |-> 0]) :
                   n \in Typed, f \in EndCalls}

Spell ==
    IF shell.spelled < Len(shell.name)
    THEN After(NameOut(shell.name[shell.spelled + 1]),
               [shell EXCEPT !.spelled = @ + 1])
    ELSE After(Out(shell.call), At("named"))

\* main and dispatch_line: prompt, READLINE, LINEGET, the command.  After
\* the halt command main returns, but not to its HLT: the first locals of
\* dispatch_line, j and k, lie over main's return address, so that main
\* returns to j in the zeroed BIOS page and comes through it to 0x0100 again.
ShellSteps ==
    CASE shell.at = "prompt" -> {After(Out("CONOUT"), At("read"))}
      [] shell.at = "read"   -> {After(Out("READLINE"), At("get"))}
      [] shell.at = "get"    -> {After(Out("QUIET"), At("act"))}
      [] shell.at = "act"    -> Command
      [] shell.at = "name"   -> {Spell}
      [] shell.at \in {"named", "halt"} -> {After(cpu, ShellStart)}

ProgramSteps ==
    {After(new, shell) : new \in {cpu, Halt, Out("other")}
                                   \cup {Out(f) : f \in ProgramCalls}
                                   \cup IF "NAMECH" \in ProgramCalls
                                        THEN {NameOut(c) : c \in NameChars}
                                        ELSE {}}

\* cpu_step; at 0x0100 is the shell, a program, or the HLT the kernel puts
\* there when it cannot load the shell.
CpuStep ==
    IF cpu.halted THEN {After(cpu, shell)}
    ELSE CASE tpa = "shell"   -> ShellSteps
           [] tpa = "program" -> ProgramSteps
           [] tpa = "halt"    -> {After(Halt, shell)}

-----------------------------------------------------------------------------
(* The ticks.                                                              *)

LoadShell == tpa' \in ShellImages /\ shell' = ShellStart

BOOT ==
    /\ state = "BOOT"
    /\ LoadShell
    /\ state' = "SHELL"
    /\ UNCHANGED <<cpu, queued, dropped, typeName, runLoaded, line, eof, files,
                   resume, drain>>

\* The state to go back to is not noted.
AskBios_KeepsResume(step) ==
    /\ step.cpu.out \in Functions
    /\ cpu' = step.cpu /\ shell' = step.shell
    /\ state' = "SYSCALL"
    /\ UNCHANGED <<biosVars, resume, drain>>

\* A step that asks for the BIOS leaves the tick before it prints.
AskBios(step) ==
    /\ step.cpu.out \in Functions
    /\ cpu' = step.cpu /\ shell' = step.shell
    /\ resume' = state
    /\ state' = "SYSCALL"
    /\ UNCHANGED <<biosVars, drain>>

SHELL ==
    /\ state = "SHELL" /\ ~drain
    /\ \E step \in CpuStep :
          \/ AskBios(step)
          \/ /\ step.cpu.out \notin Functions
             /\ cpu' = step.cpu /\ shell' = step.shell
             /\ state' = IF step.cpu.halted THEN "HALT" ELSE "SHELL"
             /\ drain' = TRUE
             /\ UNCHANGED <<biosVars, resume>>

CpuReset == cpu' = [cpu EXCEPT !.halted = FALSE, !.out = "none"]

\* The program that halted is not replaced by the shell.
RUNNING_NoReload ==
    /\ state = "RUNNING" /\ ~drain
    /\ \E step \in CpuStep :
          \/ AskBios(step)
          \/ /\ step.cpu.out \notin Functions
             /\ IF step.cpu.halted
                THEN CpuReset /\ state' = "SHELL"
                ELSE cpu' = step.cpu /\ UNCHANGED state
             /\ drain' = TRUE
             /\ UNCHANGED <<biosVars, resume, shell>>

RUNNING ==
    /\ state = "RUNNING" /\ ~drain
    /\ \E step \in CpuStep :
          \/ AskBios(step)
          \/ /\ step.cpu.out \notin Functions
             /\ IF step.cpu.halted
                THEN CpuReset /\ LoadShell /\ state' = "SHELL"
                ELSE cpu' = step.cpu /\ shell' = step.shell /\ UNCHANGED <<state, tpa>>
             /\ drain' = TRUE
             /\ UNCHANGED <<queued, dropped, typeName, runLoaded, line, eof, files,
                            resume>>

\* A started program begins at 0x0100, where the shell begins if it is
\* still there.
Resume ==
    /\ resume' = IF runLoaded' THEN "RUNNING" ELSE resume
    /\ state' = resume'
    /\ shell' = IF runLoaded' THEN ShellStart ELSE shell

\* The output of the call stays in the ring.
SYSCALL_NoDrain ==
    /\ state = "SYSCALL" /\ ~drain
    /\ Dispatch
    /\ Resume
    /\ UNCHANGED drain

SYSCALL ==
    /\ state = "SYSCALL" /\ ~drain
    /\ Dispatch
    /\ Resume
    /\ drain' = TRUE

\* kernel_drain_bios_output, the end of a tick.
Drain ==
    /\ drain
    /\ queued' = 0
    /\ drain' = FALSE
    /\ UNCHANGED <<cpu, dropped, typeName, runLoaded, line, eof, files, tpa,
                   state, resume, shell>>

Stopped == state = "HALT" /\ ~drain /\ UNCHANGED vars

Tick == BOOT \/ SHELL \/ RUNNING \/ SYSCALL \/ Drain

Next == Tick \/ Stopped

\* kernel_run is one loop that never waits but in calls that read standard
\* input, which return at once when it has ended.
Spec == Init /\ [][Next]_vars /\ WF_vars(Tick)

-----------------------------------------------------------------------------
(* What must hold.                                                         *)

CpuType == [halted : BOOLEAN, out : {"none", "other"} \cup Functions, c : NameChars]

ShellType ==
    {s \in [at : {"prompt", "read", "get", "act", "name", "named", "halt"},
            name : Typed \cup {<<>>}, call : EndCalls, spelled : Nat] :
        s.spelled <= Len(s.name)}

\* The types of the variables; a name never outgrows its buffer.
TypeOK ==
    /\ cpu \in CpuType
    /\ queued \in 0 .. Capacity - 1
    /\ typeName \in Seq(NameChars) /\ Len(typeName) <= NameMax
    /\ dropped \in BOOLEAN /\ runLoaded \in BOOLEAN /\ line \in BOOLEAN
    /\ eof \in BOOLEAN /\ drain \in BOOLEAN
    /\ files \in [Names -> Sizes \cup {Absent}]
    /\ tpa \in {"none", "shell", "program", "halt"}
    /\ state \in {"BOOT", "SHELL", "RUNNING", "SYSCALL", "HALT"}
    /\ resume \in {"SHELL", "RUNNING"}
    /\ shell \in ShellType

\* Every request is served, and once: the kernel is in KS_SYSCALL exactly
\* when the CPU has a call latched, so that no instruction runs before its
\* call is done and none finds the latch of a call already done.
RequestLatched == (cpu.out \in Functions) <=> (state = "SYSCALL")

\* What the kernel takes the running code for.
Mode == IF state = "SYSCALL" THEN resume ELSE state

\* The kernel knows whose code it runs, across the calls that replace it: in
\* KS_SHELL the shell (or the HLT in its place), in KS_RUNNING a program.
ModeMatchesCode ==
    /\ Mode = "SHELL" => tpa \in {"shell", "halt"}
    /\ Mode = "RUNNING" => tpa = "program"

\* Nothing printed is lost: the ring is emptied often enough for what the
\* calls put in it.
NoneLost == ~dropped

\* The call that ends a name in a shell command is about the file the
\* command names.
ShellNamesItsFile ==
    state = "SYSCALL" /\ tpa = "shell" /\ cpu.out \in EndCalls
        => typeName = shell.name

\* The CPU that halts under the shell, as it does when the input has ended,
\* stops the machine: it is never taken for a program to be replaced,
\* whatever programs ran before.
HaltedShellStops ==
    [][tpa = "shell" /\ ~drain /\ cpu.halted => state' = "HALT"]_vars

\* The halt command stops the machine.
HaltCommandStops == shell.at = "halt" ~> state = "HALT"

\* When the input has ended the machine stops, unless programs keep it busy.
HaltsAtEof == <>[](tpa # "program") => (eof ~> state = "HALT")

\* A program that halts is replaced.
ShellComesBack == tpa = "program" /\ cpu.halted ~> tpa # "program"
=============================================================================
