-------------------------------- MODULE Bios --------------------------------
(***************************************************************************)
(* The BIOS calls of TuringOS (src/bios/bios.c) as the kernel and the      *)
(* programs see them.  A program puts a function number in register A and  *)
(* executes OUT 1; the kernel then calls bios_dispatch.                    *)
(*                                                                         *)
(* The values calls return in registers are left out: programs are taken   *)
(* to do anything with them.  The output ring is its number of characters  *)
(* (OutputRing says what it does with them), and the disk is the length of *)
(* each file (FileSystem says how files are kept).                         *)
(***************************************************************************)
EXTENDS Integers, Sequences, FiniteSets

CONSTANTS
    Capacity,       \* BIOS_OUT_CAPACITY (1024): the ring holds one less.
    NameMax,        \* Characters the filename buffer takes (255).
    NameChars,      \* Characters of file names.
    Names,          \* Files there may be: sequences of NameChars.
    ComName,        \* The .com file of each .c file; bios_derive_com_name
                    \* refuses the other names.
    Sizes,          \* Lengths of files.
    ListLine,       \* Characters LISTDIR prints for a file (13 at most).
    EmptyLen,       \* Characters it prints for an empty directory (8).
    MaxErase,       \* Backspaces typed in a line, a bound of the model.
    DiskMayFill,    \* Whether a compiled file may not fit on the disk.
    DiskErrors      \* Whether reading a file may stop short.

ASSUME BiosAssumption ==
    /\ Capacity \in Nat \ {0}
    /\ {NameMax, ListLine, EmptyLen, MaxErase} \subseteq Nat
    /\ Names \subseteq Seq(NameChars) \ {<<>>} /\ IsFiniteSet(Names)
    /\ DOMAIN ComName \subseteq Names
    /\ \A n \in DOMAIN ComName : ComName[n] \in Names
    /\ Sizes \subseteq Nat
    /\ DiskMayFill \in BOOLEAN /\ DiskErrors \in BOOLEAN

\* The calls, by what they change.  QUIET stands for those that touch only
\* registers, or the BIOS's own disk, track, sector and DMA settings.
Functions == {"CONIN", "CONOUT", "NAMECH", "TYPE", "RUN", "DEL", "CC",
              "READLINE", "LISTDIR", "QUIET"}

VARIABLES
    cpu,        \* halted; out: the latched OUT: "none", to an "other" port
                \* than the BIOS's, or the function it asks the BIOS for;
                \* c: register C.
    queued,     \* Characters in the output ring.
    dropped,    \* Whether out_queue_push has ever refused a character.
    typeName,   \* g_type_name up to g_type_len.
    runLoaded,  \* g_run_loaded.
    line,       \* Whether g_shell_line has characters.
    eof,        \* Whether standard input has ended.
    files,      \* Length of each file, or Absent.
    tpa         \* What code is at 0x0100.

biosVars == <<queued, dropped, typeName, runLoaded, line, eof, files, tpa>>

Absent == -1

Present == {n \in Names : files[n] # Absent}

\* out_queue_push, once for each of n characters; its result is ignored.
Push(n) ==
    LET room == Capacity - 1 - queued
    IN  /\ queued' = IF n <= room THEN queued + n ELSE Capacity - 1
        /\ dropped' = (dropped \/ n > room)

\* The question mark and the newline that report any failure.
Error == 2

\* What fs_read yields of a file before it returns nothing: all of it, or
\* less when the disk fails.
Readable(n) == IF DiskErrors THEN 0 .. files[n] ELSE {files[n]}

CONIN ==
    /\ eof' \in {eof, TRUE}
    /\ Push(0)
    /\ UNCHANGED <<typeName, line, files, tpa>>

CONOUT == Push(1) /\ UNCHANGED <<typeName, line, eof, files, tpa>>

QUIET == Push(0) /\ UNCHANGED <<typeName, line, eof, files, tpa>>

\* A name byte past the buffer is ignored.
NAMECH ==
    /\ typeName' = IF Len(typeName) < NameMax THEN Append(typeName, cpu.c)
                                              ELSE typeName
    /\ Push(0)
    /\ UNCHANGED <<line, eof, files, tpa>>

\* The calls that end a name start the next one.
EndName == typeName' = <<>>

\* bios_typefile: the whole file goes into the ring.
TYPE ==
    /\ EndName
    /\ \/ typeName \notin Present /\ Push(Error)
       \/ typeName \in Present /\ \E n \in Readable(typeName) : Push(n + 1)
    /\ UNCHANGED <<line, eof, files, tpa>>

\* bios_runfile: whatever was read is started, be it nothing.
RUN_Starts == typeName \in Present

RUN ==
    /\ EndName
    /\ \/ ~RUN_Starts /\ Push(Error) /\ UNCHANGED tpa
       \/ /\ RUN_Starts
          /\ \E n \in Readable(typeName) :
                tpa' = IF n > 0 THEN "program" ELSE tpa
          /\ Push(0)
    /\ UNCHANGED <<line, eof, files>>

DEL ==
    /\ EndName
    /\ \/ typeName \notin Present /\ Push(Error) /\ UNCHANGED files
       \/ /\ typeName \in Present
          /\ files' = [files EXCEPT ![typeName] = Absent]
          /\ Push(0)
    /\ UNCHANGED <<line, eof, tpa>>

\* bios_cccompile: the source may be refused; the old .com is deleted before
\* the new one is written, of which the disk may take a part only.
CC ==
    /\ EndName
    /\ \/ Push(Error) /\ UNCHANGED files
       \/ /\ typeName \in Present \cap DOMAIN ComName
          /\ \E size \in Sizes \ {0} :
                \/ files' = [files EXCEPT ![ComName[typeName]] = size] /\ Push(0)
                \/ /\ DiskMayFill
                   /\ \E part \in (Sizes \cap 0 .. size - 1) \cup {Absent} :
                        files' = [files EXCEPT ![ComName[typeName]] = part]
                   /\ Push(Error)
    /\ UNCHANGED <<line, eof, tpa>>

\* bios_readline blocks until a line or the end of the input; every
\* backspace that erases a character echoes three.
READLINE ==
    /\ \E erased \in 0 .. MaxErase : Push(3 * erased)
    /\ \/ ~eof /\ line' \in BOOLEAN /\ eof' = FALSE
       \/ line' = FALSE /\ eof' = TRUE
    /\ UNCHANGED <<typeName, files, tpa>>

LISTDIR ==
    /\ Push(IF Present = {} THEN EmptyLen ELSE ListLine * Cardinality(Present))
    /\ UNCHANGED <<typeName, line, eof, files, tpa>>

Call(f) == CASE f = "CONIN"    -> CONIN
             [] f = "CONOUT"   -> CONOUT
             [] f = "NAMECH"   -> NAMECH
             [] f = "TYPE"     -> TYPE
             [] f = "RUN"      -> RUN
             [] f = "DEL"      -> DEL
             [] f = "CC"       -> CC
             [] f = "READLINE" -> READLINE
             [] f = "LISTDIR"  -> LISTDIR
             [] f = "QUIET"    -> QUIET

\* The end of the input is an empty line.
HaltedAfter_IgnoresEof(f) == cpu.halted /\ ~(f = "RUN" /\ RUN_Starts)

\* The end of the input halts the machine that was reading a line, and RUN
\* starts it if it was halted.
HaltedAfter(f) ==
    \/ f = "READLINE" /\ eof'
    \/ cpu.halted /\ ~(f = "RUN" /\ RUN_Starts)

\* The flag that asks the kernel to run a program outlives the call.
Dispatch_KeepsRun ==
    /\ Call(cpu.out)
    /\ runLoaded' = (runLoaded \/ (cpu.out = "RUN" /\ RUN_Starts))
    /\ cpu' = [cpu EXCEPT !.out = "none", !.halted = HaltedAfter(cpu.out)]

\* The request stays latched.
Dispatch_KeepsRequest ==
    /\ Call(cpu.out)
    /\ runLoaded' = (cpu.out = "RUN" /\ RUN_Starts)
    /\ cpu' = [cpu EXCEPT !.halted = HaltedAfter(cpu.out)]

\* bios_dispatch.
Dispatch ==
    /\ Call(cpu.out)
    /\ runLoaded' = (cpu.out = "RUN" /\ RUN_Starts)
    /\ cpu' = [cpu EXCEPT !.out = "none", !.halted = HaltedAfter(cpu.out)]
=============================================================================
