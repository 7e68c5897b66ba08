---------------------------- MODULE KernelProofs ----------------------------
(***************************************************************************)
(* Theorems about Kernel, for every ring capacity, set of files and file   *)
(* sizes, every set of calls that programs make and every shell command.   *)
(***************************************************************************)
EXTENDS Kernel, FiniteSetTheorems, TLAPS

\* Something is at 0x0100 once the kernel has booted.
Loaded == state # "BOOT" => tpa # "none"

\* The inductive invariant of the types and of the latch.
LatchInv == TypeOK /\ Loaded /\ RequestLatched

-----------------------------------------------------------------------------
(* A step of the CPU.                                                      *)

\* What the CPU may latch is of the CPU's type.
LEMMA LatchType ==
    ASSUME cpu \in CpuType
    PROVE  /\ \A f \in Functions \cup {"other"} : Out(f) \in CpuType
           /\ \A c \in NameChars : NameOut(c) \in CpuType
           /\ Halt \in CpuType
BY DEF CpuType, Out, NameOut, Halt, Functions

\* The shell's first place is one of its places.
LEMMA ShellStartType == ShellStart \in ShellType
<1>1. Len(<<>>) = 0
  OBVIOUS
<1>2. QED
  BY <1>1 DEF ShellStart, ShellType, EndCalls

\* Moving within a command keeps what is spelled within the name.
LEMMA AtType ==
    ASSUME shell \in ShellType,
           NEW place \in {"prompt", "read", "get", "act", "name", "named", "halt"}
    PROVE  At(place) \in ShellType
BY DEF At, ShellType

\* The shell's instructions keep the types.
LEMMA ShellStepsType ==
    ASSUME cpu \in CpuType, shell \in ShellType, NEW step \in ShellSteps
    PROVE  step.cpu \in CpuType /\ step.shell \in ShellType
<1> USE LatchType, ShellStartType, AtType DEF After, Functions
<1>0. shell.at \in {"prompt", "read", "get", "act", "name", "named", "halt"}
  BY DEF ShellType
<1>1. CASE shell.at = "prompt"
  BY <1>1 DEF ShellSteps
<1>2. CASE shell.at = "read"
  BY <1>2 DEF ShellSteps
<1>3. CASE shell.at = "get"
  BY <1>3 DEF ShellSteps
<1>4. CASE shell.at = "act"
  <2>1. step \in Command
    BY <1>4 DEF ShellSteps
  <2>2. \A n \in Typed, f \in EndCalls :
           [at |-> "name", name |-> n, call |-> f, spelled |-> 0] \in ShellType
    BY KernelAssumption DEF ShellType
  <2>3. QED
    BY <2>1, <2>2 DEF Command
<1>5. CASE shell.at = "name"
  <2>1. step = Spell
    BY <1>5 DEF ShellSteps
  <2>2. CASE shell.spelled < Len(shell.name)
    <3>1. shell.name \in Seq(NameChars) /\ shell.spelled \in Nat
      <4>1. shell.name \in Typed \cup {<<>>} /\ shell.spelled \in Nat
        BY DEF ShellType
      <4>2. <<>> \in Seq(NameChars)
        OBVIOUS
      <4>3. Typed \subseteq Seq(NameChars)
        BY KernelAssumption
      <4>4. QED
        BY <4>1, <4>2, <4>3
    <3>2. shell.name[shell.spelled + 1] \in NameChars
      BY <2>2, <3>1
    <3>3. [shell EXCEPT !.spelled = @ + 1] \in ShellType
      <4>1. Len(shell.name) \in Nat
        BY <3>1
      <4>2. shell.spelled + 1 \in Nat /\ shell.spelled + 1 <= Len(shell.name)
        BY <2>2, <3>1, <4>1
      <4>3. QED
        BY <4>2 DEF ShellType
    <3>4. QED
      BY <2>1, <2>2, <3>2, <3>3 DEF Spell
  <2>3. CASE ~(shell.spelled < Len(shell.name))
    BY <2>1, <2>3 DEF Spell, ShellType, EndCalls
  <2>4. QED
    BY <2>2, <2>3
<1>6. CASE shell.at \in {"named", "halt"}
  BY <1>6 DEF ShellSteps
<1>7. QED
  BY <1>0, <1>1, <1>2, <1>3, <1>4, <1>5, <1>6

\* A program's instructions keep the types, and leave the shell alone.
LEMMA ProgramStepsType ==
    ASSUME cpu \in CpuType, NEW step \in ProgramSteps
    PROVE  step.cpu \in CpuType /\ step.shell = shell
BY LatchType, KernelAssumption DEF ProgramSteps, After

\* cpu_step keeps the types.
LEMMA CpuStepType ==
    ASSUME TypeOK, tpa # "none", NEW step \in CpuStep
    PROVE  step.cpu \in CpuType /\ step.shell \in ShellType
<1>1. CASE cpu.halted
  BY <1>1 DEF CpuStep, After, TypeOK
<1>2. CASE ~cpu.halted /\ tpa = "shell"
  BY <1>2, ShellStepsType DEF CpuStep, TypeOK
<1>3. CASE ~cpu.halted /\ tpa = "program"
  BY <1>3, ProgramStepsType DEF CpuStep, TypeOK
<1>4. CASE ~cpu.halted /\ tpa = "halt"
  BY <1>4, LatchType DEF CpuStep, TypeOK, After
<1>5. QED
  BY <1>1, <1>2, <1>3, <1>4 DEF TypeOK

-----------------------------------------------------------------------------
(* A BIOS call.                                                            *)

\* What the calls leave in the BIOS.
BiosTypeOK ==
    /\ queued \in 0 .. Capacity - 1 /\ dropped \in BOOLEAN
    /\ typeName \in Seq(NameChars) /\ Len(typeName) <= NameMax
    /\ line \in BOOLEAN /\ eof \in BOOLEAN
    /\ files \in [Names -> Sizes \cup {Absent}]
    /\ tpa \in {"none", "shell", "program", "halt"}

\* Pushing characters never overfills the ring.
LEMMA PushType ==
    ASSUME queued \in 0 .. Capacity - 1, dropped \in BOOLEAN, NEW n \in Nat, Push(n)
    PROVE  queued' \in 0 .. Capacity - 1 /\ dropped' \in BOOLEAN
BY BiosAssumption DEF Push

\* What reading a file yields is a number of characters.
LEMMA ReadableType ==
    ASSUME BiosTypeOK, NEW n \in Present
    PROVE  Readable(n) \subseteq Nat
<1>1. files[n] \in Sizes
  BY DEF BiosTypeOK, Present
<1>2. Sizes \subseteq Nat
  BY BiosAssumption
<1>3. files[n] \in Nat
  BY <1>1, <1>2
<1>4. QED
  BY <1>3 DEF Readable

\* A call that ends a name leaves the empty one.
LEMMA EndNameType ==
    ASSUME EndName
    PROVE  typeName' \in Seq(NameChars) /\ Len(typeName') <= NameMax
BY BiosAssumption DEF EndName

\* Every call keeps the types of the BIOS.
LEMMA CallType ==
    ASSUME BiosTypeOK, cpu \in CpuType, NEW f \in Functions, Call(f)
    PROVE  BiosTypeOK' /\ (tpa # "none" => tpa' # "none")
<1>1. CASE f \in {"CONIN", "CONOUT", "QUIET"}
  <2>1. (Push(0) \/ Push(1)) /\ eof' \in BOOLEAN
        /\ UNCHANGED <<typeName, line, files, tpa>>
    BY <1>1 DEF Call, CONIN, CONOUT, QUIET, BiosTypeOK
  <2>2. QED
    BY <2>1, PushType DEF BiosTypeOK
<1>2. CASE f = "NAMECH"
  <2>1. NAMECH
    BY <1>2 DEF Call
  <2>2. cpu.c \in NameChars
    BY DEF CpuType
  <2>3. typeName' \in Seq(NameChars) /\ Len(typeName') <= NameMax
    <3>1. CASE Len(typeName) < NameMax
      <4>1. /\ Append(typeName, cpu.c) \in Seq(NameChars)
            /\ Len(Append(typeName, cpu.c)) = Len(typeName) + 1
        BY <2>2 DEF BiosTypeOK
      <4>2. QED
        BY <2>1, <3>1, <4>1, BiosAssumption DEF NAMECH, BiosTypeOK
    <3>2. CASE ~(Len(typeName) < NameMax)
      BY <2>1, <3>2 DEF NAMECH, BiosTypeOK
    <3>3. QED
      BY <3>1, <3>2
  <2>4. QED
    BY <2>1, <2>3, PushType DEF NAMECH, BiosTypeOK
<1>3. CASE f = "TYPE"
  <2>1. TYPE
    BY <1>3 DEF Call
  <2>2. \E n \in Nat : Push(n)
    BY <2>1, ReadableType DEF TYPE, Error
  <2>3. QED
    BY <2>1, <2>2, PushType, EndNameType DEF TYPE, BiosTypeOK
<1>4. CASE f = "RUN"
  <2>1. RUN
    BY <1>4 DEF Call
  <2>2. \E n \in Nat : Push(n)
    BY <2>1 DEF RUN, Error
  <2>3. tpa' \in {tpa, "program"}
    BY <2>1 DEF RUN
  <2>4. QED
    BY <2>1, <2>2, <2>3, PushType, EndNameType DEF RUN, BiosTypeOK
<1>5. CASE f = "DEL"
  <2>1. DEL
    BY <1>5 DEF Call
  <2>2. \E n \in Nat : Push(n)
    BY <2>1 DEF DEL, Error
  <2>3. files' \in [Names -> Sizes \cup {Absent}]
    BY <2>1 DEF DEL, BiosTypeOK
  <2>4. QED
    BY <2>1, <2>2, <2>3, PushType, EndNameType DEF DEL, BiosTypeOK
<1>6. CASE f = "CC"
  <2>1. CC
    BY <1>6 DEF Call
  <2>2. \E n \in Nat : Push(n)
    BY <2>1 DEF CC, Error
  <2>3. files' \in [Names -> Sizes \cup {Absent}]
    BY <2>1 DEF CC, BiosTypeOK
  <2>4. QED
    BY <2>1, <2>2, <2>3, PushType, EndNameType DEF CC, BiosTypeOK
<1>7. CASE f = "READLINE"
  <2>1. READLINE
    BY <1>7 DEF Call
  <2>2. \E n \in Nat : Push(n)
    BY <2>1, BiosAssumption DEF READLINE
  <2>3. QED
    BY <2>1, <2>2, PushType DEF READLINE, BiosTypeOK
<1>8. CASE f = "LISTDIR"
  <2>1. LISTDIR
    BY <1>8 DEF Call
  <2>2. Cardinality(Present) \in Nat
    BY BiosAssumption, FS_Subset, FS_CardinalityType DEF Present
  <2>3. ListLine * Cardinality(Present) \in Nat /\ EmptyLen \in Nat
    BY <2>2, BiosAssumption
  <2>4. \E n \in Nat : Push(n)
    BY <2>1, <2>3 DEF LISTDIR
  <2>5. QED
    BY <2>1, <2>4, PushType DEF LISTDIR, BiosTypeOK
<1>9. QED
  BY <1>1, <1>2, <1>3, <1>4, <1>5, <1>6, <1>7, <1>8 DEF Functions

-----------------------------------------------------------------------------
(* The ticks.                                                              *)

\* The request is gone after the call.
LEMMA DispatchType ==
    ASSUME TypeOK, RequestLatched, state = "SYSCALL", Dispatch
    PROVE  /\ BiosTypeOK' /\ (tpa # "none" => tpa' # "none")
           /\ cpu' \in CpuType /\ cpu'.out = "none"
           /\ runLoaded' \in BOOLEAN
<1>1. cpu.out \in Functions
  BY DEF RequestLatched
<1>2. BiosTypeOK' /\ (tpa # "none" => tpa' # "none")
  BY <1>1, CallType DEF Dispatch, TypeOK, BiosTypeOK
<1>3. HaltedAfter(cpu.out) \in BOOLEAN
  BY <1>2 DEF HaltedAfter, TypeOK, CpuType, BiosTypeOK
<1>4. cpu' \in CpuType /\ cpu'.out = "none"
  BY <1>3 DEF Dispatch, TypeOK, CpuType
<1>5. runLoaded' \in BOOLEAN
  BY DEF Dispatch
<1>6. QED
  BY <1>2, <1>4, <1>5

\* A tick that turns into a call latches it.
LEMMA AskBiosLatches ==
    ASSUME LatchInv, state \in {"SHELL", "RUNNING"}, NEW step \in CpuStep,
           AskBios(step)
    PROVE  LatchInv'
<1>1. step.cpu \in CpuType /\ step.shell \in ShellType
  BY CpuStepType DEF LatchInv, Loaded
<1>2. QED
  BY <1>1 DEF LatchInv, Loaded, TypeOK, RequestLatched, AskBios, biosVars

\* KS_BOOT loads the shell with nothing latched.
LEMMA BootLatches ==
    ASSUME LatchInv, BOOT
    PROVE  LatchInv'
<1>1. tpa' \in {"shell", "halt"} /\ shell' \in ShellType
  BY ShellStartType, KernelAssumption DEF BOOT, LoadShell
<1>2. QED
  BY <1>1 DEF LatchInv, Loaded, TypeOK, RequestLatched, BOOT

\* KS_SHELL leaves for KS_SYSCALL exactly with a call latched.
LEMMA ShellLatches ==
    ASSUME LatchInv, SHELL
    PROVE  LatchInv'
<1>1. PICK step \in CpuStep :
          \/ AskBios(step)
          \/ /\ step.cpu.out \notin Functions
             /\ cpu' = step.cpu /\ shell' = step.shell
             /\ state' = IF step.cpu.halted THEN "HALT" ELSE "SHELL"
             /\ drain' = TRUE
             /\ UNCHANGED <<biosVars, resume>>
  BY DEF SHELL
<1>2. CASE AskBios(step)
  BY <1>2, AskBiosLatches DEF SHELL
<1>3. CASE ~AskBios(step)
  <2>1. step.cpu \in CpuType /\ step.shell \in ShellType
    BY CpuStepType DEF LatchInv, Loaded, SHELL
  <2>2. state' \in {"SHELL", "HALT"}
    BY <1>1, <1>3
  <2>3. QED
    BY <1>1, <1>3, <2>1, <2>2
       DEF LatchInv, Loaded, TypeOK, RequestLatched, biosVars, SHELL
<1>4. QED
  BY <1>2, <1>3

\* So does KS_RUNNING; a reset clears the latch.
LEMMA RunningLatches ==
    ASSUME LatchInv, RUNNING
    PROVE  LatchInv'
<1>1. PICK step \in CpuStep :
          \/ AskBios(step)
          \/ /\ step.cpu.out \notin Functions
             /\ IF step.cpu.halted
                THEN CpuReset /\ LoadShell /\ state' = "SHELL"
                ELSE cpu' = step.cpu /\ shell' = step.shell /\ UNCHANGED <<state, tpa>>
             /\ drain' = TRUE
             /\ UNCHANGED <<queued, dropped, typeName, runLoaded, line, eof, files,
                            resume>>
  BY DEF RUNNING
<1>2. CASE AskBios(step)
  BY <1>2, AskBiosLatches DEF RUNNING
<1>3. CASE ~AskBios(step)
  <2>1. step.cpu \in CpuType /\ step.shell \in ShellType
    BY CpuStepType DEF LatchInv, Loaded, RUNNING
  <2>2. CASE step.cpu.halted
    <3>1. cpu' \in CpuType /\ cpu'.out = "none"
      BY <1>1, <1>3, <2>2 DEF CpuReset, CpuType, LatchInv, TypeOK
    <3>2. tpa' \in {"shell", "halt"} /\ shell' \in ShellType
      BY <1>1, <1>3, <2>2, ShellStartType, KernelAssumption DEF LoadShell
    <3>3. QED
      BY <1>1, <1>3, <2>2, <3>1, <3>2
         DEF LatchInv, Loaded, TypeOK, RequestLatched, Functions
  <2>3. CASE ~step.cpu.halted
    BY <1>1, <1>3, <2>1, <2>3 DEF LatchInv, Loaded, TypeOK, RequestLatched, RUNNING
  <2>4. QED
    BY <2>2, <2>3
<1>4. QED
  BY <1>2, <1>3

\* KS_SYSCALL goes back with nothing latched.
LEMMA SyscallLatches ==
    ASSUME LatchInv, SYSCALL
    PROVE  LatchInv'
<1>1. /\ BiosTypeOK' /\ tpa' # "none"
      /\ cpu' \in CpuType /\ cpu'.out = "none"
      /\ runLoaded' \in BOOLEAN
  BY DispatchType DEF LatchInv, Loaded, SYSCALL
<1>2. resume' \in {"SHELL", "RUNNING"} /\ state' = resume' /\ shell' \in ShellType
  BY ShellStartType DEF SYSCALL, Resume, LatchInv, TypeOK
<1>3. TypeOK'
  BY <1>1, <1>2 DEF SYSCALL, TypeOK, BiosTypeOK
<1>4. cpu'.out \notin Functions
  BY <1>1 DEF Functions
<1>5. QED
  BY <1>1, <1>2, <1>3, <1>4 DEF LatchInv, Loaded, RequestLatched

\* Every step keeps the types and the latch.
LEMMA LatchStep == LatchInv /\ [Next]_vars => LatchInv'
<1> SUFFICES ASSUME LatchInv, [Next]_vars PROVE LatchInv'
  OBVIOUS
<1>1. CASE Drain
  <2>1. 0 \in 0 .. Capacity - 1
    BY BiosAssumption
  <2>2. QED
    BY <1>1, <2>1 DEF Drain, LatchInv, Loaded, TypeOK, RequestLatched
<1>2. CASE UNCHANGED vars
  BY <1>2 DEF vars, biosVars, LatchInv, Loaded, TypeOK, RequestLatched
<1>3. QED
  BY <1>1, <1>2, BootLatches, ShellLatches, RunningLatches, SyscallLatches
     DEF Next, Tick, Stopped

\* The machine starts with nothing latched.
LEMMA LatchInit == Init => LatchInv
<1> SUFFICES ASSUME Init PROVE LatchInv
  OBVIOUS
<1>1. <<>> \in Seq(NameChars) /\ Len(<<>>) = 0
  OBVIOUS
<1>2. 0 \in 0 .. Capacity - 1 /\ 0 <= NameMax
  BY BiosAssumption
<1>3. cpu \in CpuType
  BY DEF Init, CpuType
<1>4. TypeOK
  BY <1>1, <1>2, <1>3, ShellStartType DEF Init, TypeOK
<1>5. QED
  BY <1>4 DEF Init, LatchInv, Loaded, RequestLatched, Functions

\* The types and the latch are right in every reachable state.
LEMMA Latched == Spec => []LatchInv
BY LatchInit, LatchStep, PTL DEF Spec

\* Variables keep their types, whatever programs do: the ring is never
\* overfilled and a name never outgrows its buffer.
THEOREM TypeCorrect == Spec => []TypeOK
<1>1. LatchInv => TypeOK
  BY DEF LatchInv
<1>2. QED
  BY <1>1, Latched, PTL

\* Every request for a BIOS call is served, before another instruction runs,
\* and once.
THEOREM RequestsServedOnce == Spec => []RequestLatched
<1>1. LatchInv => RequestLatched
  BY DEF LatchInv
<1>2. QED
  BY <1>1, Latched, PTL

-----------------------------------------------------------------------------
(* The running code.                                                       *)

\* ModeMatchesCode needs every file that is run to hold something.
ModeInv == LatchInv /\ ModeMatchesCode

\* What RUN finds has a first byte to load.
LEMMA RunLoads ==
    ASSUME 0 \notin Sizes, DiskErrors = FALSE, TypeOK, cpu.out \in Functions,
           Dispatch
    PROVE  IF runLoaded' THEN tpa' = "program" ELSE tpa' = tpa
<1>1. CASE cpu.out = "RUN"
  <2>1. RUN /\ (runLoaded' <=> RUN_Starts)
    BY <1>1 DEF Dispatch, Call
  <2>2. CASE RUN_Starts
    <3>1. PICK n \in Readable(typeName) : tpa' = IF n > 0 THEN "program" ELSE tpa
      BY <2>1, <2>2 DEF RUN
    <3>2. n = files[typeName]
      BY <3>1 DEF Readable
    <3>3. files[typeName] \in Sizes
      BY <2>2 DEF RUN_Starts, Present, TypeOK
    <3>4. n > 0
      <4>1. Sizes \subseteq Nat
        BY BiosAssumption
      <4>2. n \in Nat /\ n # 0
        BY <3>2, <3>3, <4>1
      <4>3. QED
        BY <4>2
    <3>5. QED
      BY <2>1, <2>2, <3>1, <3>4
  <2>3. CASE ~RUN_Starts
    BY <2>1, <2>3 DEF RUN
  <2>4. QED
    BY <2>2, <2>3
<1>2. CASE cpu.out # "RUN"
  <2>1. ~runLoaded'
    BY <1>2 DEF Dispatch
  <2>2. tpa' = tpa
    BY <1>2 DEF Dispatch, Call, Functions, CONIN, CONOUT, QUIET, NAMECH, TYPE,
                DEL, CC, READLINE, LISTDIR
  <2>3. QED
    BY <2>1, <2>2
<1>3. QED
  BY <1>1, <1>2

\* Every step keeps the kernel's idea of the running code right.
LEMMA ModeStep ==
    ASSUME 0 \notin Sizes, DiskErrors = FALSE
    PROVE  ModeInv /\ [Next]_vars => ModeInv'
<1> SUFFICES ASSUME ModeInv, [Next]_vars PROVE ModeInv'
  OBVIOUS
<1>0. LatchInv'
  BY LatchStep DEF ModeInv
<1> SUFFICES ModeMatchesCode'
  BY <1>0 DEF ModeInv
<1>1. CASE BOOT
  <2>1. tpa' \in {"shell", "halt"} /\ state' = "SHELL"
    BY <1>1, KernelAssumption DEF BOOT, LoadShell
  <2>2. QED
    BY <2>1 DEF ModeMatchesCode, Mode
<1>2. ASSUME NEW step, AskBios(step), state \in {"SHELL", "RUNNING"}
      PROVE  ModeMatchesCode'
  BY <1>2 DEF AskBios, biosVars, ModeInv, ModeMatchesCode, Mode
<1>3. CASE SHELL
  <2>1. CASE state' = "SYSCALL"
    BY <1>2, <1>3, <2>1 DEF SHELL
  <2>2. CASE state' # "SYSCALL"
    BY <1>3, <2>2 DEF SHELL, AskBios, biosVars, ModeInv, ModeMatchesCode, Mode
  <2>3. QED
    BY <2>1, <2>2
<1>4. CASE RUNNING
  <2>1. PICK step \in CpuStep :
          \/ AskBios(step)
          \/ IF step.cpu.halted
             THEN CpuReset /\ LoadShell /\ state' = "SHELL"
             ELSE cpu' = step.cpu /\ shell' = step.shell /\ UNCHANGED <<state, tpa>>
    BY <1>4 DEF RUNNING
  <2>2. CASE AskBios(step)
    BY <1>2, <1>4, <2>2 DEF RUNNING
  <2>3. CASE LoadShell /\ state' = "SHELL"
    BY <2>3, KernelAssumption DEF LoadShell, ModeMatchesCode, Mode
  <2>4. CASE UNCHANGED <<state, tpa>>
    BY <1>4, <2>4 DEF RUNNING, ModeInv, ModeMatchesCode, Mode
  <2>5. QED
    BY <2>1, <2>2, <2>3, <2>4
<1>5. CASE SYSCALL
  <2>1. cpu.out \in Functions /\ TypeOK
    BY <1>5 DEF SYSCALL, ModeInv, LatchInv, RequestLatched
  <2>2. IF runLoaded' THEN tpa' = "program" ELSE tpa' = tpa
    BY <1>5, <2>1, RunLoads DEF SYSCALL
  <2>3. resume \in {"SHELL", "RUNNING"}
    BY <2>1 DEF TypeOK
  <2>4. state' = IF runLoaded' THEN "RUNNING" ELSE resume
    BY <1>5 DEF SYSCALL, Resume
  <2>5. QED
    BY <1>5, <2>2, <2>3, <2>4 DEF SYSCALL, ModeInv, ModeMatchesCode, Mode
<1>6. CASE Drain
  BY <1>6 DEF Drain, ModeInv, ModeMatchesCode, Mode
<1>7. CASE UNCHANGED vars
  BY <1>7 DEF vars, biosVars, ModeInv, ModeMatchesCode, Mode
<1>8. QED
  BY <1>1, <1>3, <1>4, <1>5, <1>6, <1>7 DEF Next, Tick, Stopped

\* On a disk without empty files, that can be read, the kernel is in KS_SHELL
\* only while the shell runs and in KS_RUNNING only while a program does,
\* whatever run replaces in whatever order.
THEOREM ModeAlwaysMatchesCode ==
    ASSUME 0 \notin Sizes, DiskErrors = FALSE
    PROVE  Spec => []ModeMatchesCode
<1>1. Init => ModeInv
  BY LatchInit DEF Init, ModeInv, ModeMatchesCode, Mode
<1>2. ModeInv => ModeMatchesCode
  BY DEF ModeInv
<1>3. QED
  BY <1>1, <1>2, ModeStep, PTL DEF Spec

-----------------------------------------------------------------------------
(* The output.                                                             *)

\* What any one call prints fits in the empty ring.
CallsFit ==
    /\ Error < Capacity /\ EmptyLen < Capacity
    /\ 3 * MaxErase < Capacity
    /\ ListLine * Cardinality(Names) < Capacity
    /\ \A n \in Sizes : n + 1 < Capacity

\* Between ticks the ring is empty, and nothing has been lost.
PrintInv == LatchInv /\ NoneLost /\ (~drain => queued = 0)

\* Pushing no more than the empty ring holds loses nothing.
LEMMA PushFits ==
    ASSUME queued = 0, NoneLost, NEW n \in Nat, n < Capacity, Push(n)
    PROVE  NoneLost'
<1>1. ~(n > Capacity - 1 - queued)
  BY BiosAssumption
<1>2. QED
  BY <1>1 DEF Push, NoneLost

\* A call that finds the ring empty loses nothing.
LEMMA CallFits ==
    ASSUME BiosTypeOK, CallsFit, queued = 0, NoneLost,
           NEW f \in Functions, Call(f)
    PROVE  NoneLost'
<1>1. 2 < Capacity /\ 0 < Capacity /\ 1 < Capacity /\ 0 \in Nat /\ 1 \in Nat /\ 2 \in Nat
  BY BiosAssumption DEF CallsFit, Error
<1>2. CASE f \in {"CONIN", "CONOUT", "QUIET", "NAMECH", "RUN", "DEL", "CC"}
  <2>1. Push(0) \/ Push(1) \/ Push(2)
    BY <1>2 DEF Call, CONIN, CONOUT, QUIET, NAMECH, RUN, DEL, CC, Error
  <2>2. QED
    BY <1>1, <2>1, PushFits
<1>3. CASE f = "TYPE"
  <2>1. Push(2) \/ (typeName \in Present /\ \E n \in Readable(typeName) : Push(n + 1))
    BY <1>3 DEF Call, TYPE, Error
  <2>2. ASSUME typeName \in Present, NEW n \in Readable(typeName)
        PROVE  n + 1 \in Nat /\ n + 1 < Capacity
    <3>1. files[typeName] \in Sizes
      BY <2>2 DEF BiosTypeOK, Present
    <3>2. Sizes \subseteq Nat /\ Capacity \in Nat
      BY BiosAssumption
    <3>3. files[typeName] \in Nat /\ files[typeName] + 1 < Capacity
      BY <3>1, <3>2 DEF CallsFit
    <3>4. n \in Nat /\ n <= files[typeName]
      BY <2>2, <3>3 DEF Readable
    <3>5. QED
      BY <3>2, <3>3, <3>4
  <2>3. QED
    BY <1>1, <2>1, <2>2, PushFits
<1>4. CASE f = "READLINE"
  <2>1. PICK erased \in 0 .. MaxErase : Push(3 * erased)
    BY <1>4 DEF Call, READLINE
  <2>2. 3 * erased \in Nat /\ 3 * erased < Capacity
    BY BiosAssumption DEF CallsFit
  <2>3. QED
    BY <2>1, <2>2, PushFits
<1>5. CASE f = "LISTDIR"
  <2>1. Push(EmptyLen) \/ Push(ListLine * Cardinality(Present))
    BY <1>5 DEF Call, LISTDIR
  <2>2. /\ Cardinality(Present) \in Nat /\ Cardinality(Names) \in Nat
        /\ Cardinality(Present) <= Cardinality(Names)
    BY BiosAssumption, FS_Subset, FS_CardinalityType DEF Present
  <2>3. ListLine \in Nat /\ EmptyLen \in Nat /\ Capacity \in Nat
    BY BiosAssumption
  <2>4. /\ ListLine * Cardinality(Present) \in Nat
        /\ ListLine * Cardinality(Present) <= ListLine * Cardinality(Names)
    BY <2>2, <2>3
  <2>5. ListLine * Cardinality(Present) < Capacity /\ EmptyLen < Capacity
    <3>1. ListLine * Cardinality(Names) \in Nat
      BY <2>2, <2>3
    <3>2. QED
      BY <2>3, <2>4, <3>1 DEF CallsFit
  <2>6. QED
    BY <2>1, <2>3, <2>4, <2>5, PushFits
<1>6. QED
  BY <1>2, <1>3, <1>4, <1>5 DEF Functions

\* Every step empties the ring in time.
LEMMA PrintStep ==
    ASSUME CallsFit
    PROVE  PrintInv /\ [Next]_vars => PrintInv'
<1> SUFFICES ASSUME PrintInv, [Next]_vars PROVE PrintInv'
  OBVIOUS
<1>0. LatchInv'
  BY LatchStep DEF PrintInv
<1>1. CASE BOOT
  BY <1>0, <1>1 DEF BOOT, PrintInv, NoneLost
<1>2. CASE SHELL
  BY <1>0, <1>2 DEF SHELL, AskBios, biosVars, PrintInv, NoneLost
<1>3. CASE RUNNING
  BY <1>0, <1>3 DEF RUNNING, AskBios, biosVars, PrintInv, NoneLost
<1>4. CASE SYSCALL
  <2>1. cpu.out \in Functions /\ BiosTypeOK
    BY <1>4 DEF SYSCALL, PrintInv, LatchInv, RequestLatched, TypeOK, BiosTypeOK
  <2>2. NoneLost'
    BY <1>4, <2>1, CallFits DEF SYSCALL, Dispatch, PrintInv
  <2>3. QED
    BY <1>0, <1>4, <2>2 DEF SYSCALL, PrintInv
<1>5. CASE Drain
  BY <1>0, <1>5 DEF Drain, PrintInv, NoneLost
<1>6. CASE UNCHANGED vars
  BY <1>0, <1>6 DEF vars, biosVars, PrintInv, NoneLost
<1>7. QED
  BY <1>1, <1>2, <1>3, <1>4, <1>5, <1>6 DEF Next, Tick, Stopped

\* When what each call prints fits in the ring by itself, no sequence of
\* calls loses a character: the kernel empties the ring between any two.
THEOREM OutputNeverLost ==
    ASSUME CallsFit
    PROVE  Spec => []NoneLost
<1>1. Init => PrintInv
  BY LatchInit DEF Init, PrintInv, NoneLost
<1>2. PrintInv => NoneLost
  BY DEF PrintInv
<1>3. QED
  BY <1>1, <1>2, PrintStep, PTL DEF Spec

-----------------------------------------------------------------------------
(* The end of the shell.                                                   *)

\* The machine has not halted when it asks for a call.
AliveInv ==
    /\ ModeInv
    /\ state = "BOOT" => tpa = "none"
    /\ state = "SYSCALL" => ~cpu.halted

\* What latches a call has not halted.
LEMMA AskingStep ==
    ASSUME LatchInv, state \in {"SHELL", "RUNNING"}, NEW step \in CpuStep,
           step.cpu.out \in Functions
    PROVE  ~cpu.halted /\ ~step.cpu.halted
<1>1. cpu.out \notin Functions /\ cpu \in CpuType /\ shell \in ShellType /\ tpa # "none"
  BY DEF LatchInv, Loaded, RequestLatched, TypeOK
<1>2. ~cpu.halted
  BY <1>1 DEF CpuStep, After
<1>3. step.cpu # Halt /\ step.cpu # cpu
  BY <1>1 DEF Halt, CpuType
<1>4. CASE tpa = "shell"
  <2>1. step \in ShellSteps
    BY <1>2, <1>4 DEF CpuStep
  <2>2. shell.at \in {"prompt", "read", "get", "act", "name", "named", "halt"}
    BY <1>1 DEF ShellType
  <2>3. (\E f : step.cpu = Out(f)) \/ (\E c : step.cpu = NameOut(c))
    BY <1>3, <2>1, <2>2 DEF ShellSteps, Command, Spell, After
  <2>4. QED
    BY <1>1, <1>2, <2>3 DEF Out, NameOut, CpuType
<1>5. CASE tpa = "program"
  <2>1. step \in ProgramSteps
    BY <1>2, <1>5 DEF CpuStep
  <2>2. (\E f : step.cpu = Out(f)) \/ (\E c : step.cpu = NameOut(c))
    BY <1>3, <2>1 DEF ProgramSteps, After
  <2>3. QED
    BY <1>1, <1>2, <2>2 DEF Out, NameOut, CpuType
<1>6. CASE tpa = "halt"
  BY <1>2, <1>3, <1>6 DEF CpuStep, After
<1>7. QED
  BY <1>1, <1>4, <1>5, <1>6 DEF LatchInv, TypeOK

\* Every step keeps that.
LEMMA AliveStep ==
    ASSUME 0 \notin Sizes, DiskErrors = FALSE
    PROVE  AliveInv /\ [Next]_vars => AliveInv'
<1> SUFFICES ASSUME AliveInv, [Next]_vars PROVE AliveInv'
  OBVIOUS
<1>0. ModeInv' /\ LatchInv /\ LatchInv'
  BY ModeStep DEF AliveInv, ModeInv
<1>1. CASE BOOT
  BY <1>0, <1>1 DEF BOOT, AliveInv
<1>2. ASSUME state \in {"SHELL", "RUNNING"}, NEW step \in CpuStep, AskBios(step)
      PROVE  AliveInv'
  <2>1. ~step.cpu.halted
    BY <1>0, <1>2, AskingStep DEF AskBios
  <2>2. QED
    BY <1>0, <1>2, <2>1 DEF AskBios, biosVars, AliveInv
<1>3. CASE SHELL
  <2>1. CASE state' = "SYSCALL"
    BY <1>2, <1>3, <2>1 DEF SHELL
  <2>2. CASE state' # "SYSCALL"
    <3>1. state' # "BOOT"
      BY <1>3, <2>2 DEF SHELL, AskBios
    <3>2. QED
      BY <1>0, <2>2, <3>1 DEF AliveInv
  <2>3. QED
    BY <2>1, <2>2
<1>4. CASE RUNNING
  <2>1. CASE state' = "SYSCALL"
    BY <1>2, <1>4, <2>1 DEF RUNNING
  <2>2. CASE state' # "SYSCALL"
    <3>1. state' # "BOOT"
      BY <1>4, <2>2 DEF RUNNING, AskBios
    <3>2. QED
      BY <1>0, <2>2, <3>1 DEF AliveInv
  <2>3. QED
    BY <2>1, <2>2
<1>5. CASE SYSCALL
  <2>1. state' \in {"SHELL", "RUNNING"}
    BY <1>0, <1>5 DEF SYSCALL, Resume, LatchInv, TypeOK
  <2>2. QED
    BY <1>0, <2>1 DEF AliveInv
<1>6. CASE Drain
  BY <1>0, <1>6 DEF Drain, AliveInv
<1>7. CASE UNCHANGED vars
  BY <1>0, <1>7 DEF vars, biosVars, AliveInv
<1>8. QED
  BY <1>1, <1>3, <1>4, <1>5, <1>6, <1>7 DEF Next, Tick, Stopped

\* On a disk without empty files, that can be read, the shell that halts
\* because its input has ended stops the machine, even after other programs
\* ran.
THEOREM HaltedShellAlwaysStops ==
    ASSUME 0 \notin Sizes, DiskErrors = FALSE
    PROVE  Spec => HaltedShellStops
<1>1. Init => AliveInv
  BY LatchInit DEF Init, AliveInv, ModeInv, ModeMatchesCode, Mode
<1>2. AliveInv /\ [Next]_vars
          => [tpa = "shell" /\ ~drain /\ cpu.halted => state' = "HALT"]_vars
  <2> SUFFICES ASSUME AliveInv, Next, tpa = "shell", ~drain, cpu.halted, ~Stopped
               PROVE  state' = "HALT"
    BY DEF Stopped
  <2>1. LatchInv /\ ModeMatchesCode
    BY DEF AliveInv, ModeInv
  <2>2. CASE SHELL
    <3>1. PICK step \in CpuStep :
             \/ step.cpu.out \in Functions
             \/ state' = IF step.cpu.halted THEN "HALT" ELSE "SHELL"
      BY <2>2 DEF SHELL, AskBios
    <3>2. step.cpu = cpu
      BY DEF CpuStep, After
    <3>3. cpu.out \notin Functions
      BY <2>1, <2>2 DEF SHELL, LatchInv, RequestLatched
    <3>4. QED
      BY <3>1, <3>2, <3>3
  <2>3. CASE SYSCALL
    BY <2>3 DEF SYSCALL, AliveInv
  <2>4. CASE BOOT
    BY <2>4 DEF BOOT, AliveInv
  <2>5. CASE RUNNING
    BY <2>1, <2>5 DEF RUNNING, ModeMatchesCode, Mode
  <2>6. CASE Drain
    BY <2>6 DEF Drain
  <2>7. QED
    BY <2>2, <2>3, <2>4, <2>5, <2>6 DEF Next, Tick
<1>3. QED
  BY <1>1, <1>2, AliveStep, PTL DEF Spec, HaltedShellStops
=============================================================================
