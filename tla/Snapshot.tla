------------------------------ MODULE Snapshot ------------------------------
(***************************************************************************)
(* The two processes of TuringOS: the kernel (src/kernel/kernel.c), which  *)
(* writes its memory, the tape, and a META record to files every Interval  *)
(* ticks and once more when it has halted; and the visualizer              *)
(* (viz/visualizer.py, viz/tape_bridge.py), which reads both files again   *)
(* and again and shows what it last read.  Nothing keeps them apart.       *)
(*                                                                         *)
(* A file is emptied when it is opened for writing, and is written from    *)
(* the front, the tape in Chunks parts; a reader reads what is there, part *)
(* by part.  A part is labelled with the time it was written, which stands *)
(* for the memory at that time; the last one holds the META area.  What    *)
(* the ticks do is left to Kernel: here they move between its states.      *)
(***************************************************************************)
EXTENDS Integers, Sequences

CONSTANTS
    Interval,   \* TAPE_SNAP_INTERVAL (1000).
    TickMod,    \* k->tick is counted modulo this (2^32),
    StepMod,    \* and the steps that are shown modulo this (2^32).
    Chunks,     \* Parts in which a tape is written and read.
    MayFail,    \* Whether opening a file for writing may fail.
    MaxTime     \* Ticks that are looked at: a bound.

ASSUME SnapshotAssumption ==
    /\ {Interval, TickMod, StepMod, Chunks} \subseteq Nat \ {0}
    /\ MayFail \in BOOLEAN /\ MaxTime \in Nat

VARIABLES
    time,       \* Ticks so far, and one more for the end.
    k,          \* kernel_t: state, steps and tick.
    at,         \* Where kernel_run is: about to "tick", to "open" or "write"
                \* the tape or META file, in the "step" of a tick, or at its "end".
    snapped,    \* When it last turned to the files.
    area,       \* The META area of the memory.
    written,    \* Whether the last step of the kernel changed a page.
    tape, meta, \* The files.
    reader,     \* What the visualizer is reading, and the parts it has.
    shown,      \* What it shows.
    paused      \* P was pressed.

kernelVars == <<time, k, at, snapped, area, written, tape, meta>>
viewerVars == <<reader, shown, paused>>
vars == <<kernelVars, viewerVars>>

\* What a program may put over the META area.
Scribbled == [state |-> "scribbled", steps |-> 0, dirty |-> TRUE]

\* What is shown before anything was read.
Blank == [tape |-> <<>>, meta |-> <<>>, pc |-> 0]

Idle == [on |-> "none", open |-> FALSE, got |-> <<>>]

\* The files of a kernel that ran before.
OldArea == [state |-> "HALT", steps |-> 0, dirty |-> FALSE]
OldTape == [i \in 1 .. Chunks |-> [time |-> 0, area |-> OldArea]]
OldMeta == <<[time |-> 0, area |-> OldArea]>>

Init ==
    /\ time = 0 /\ snapped = 0
    /\ k = [state |-> "BOOT", steps |-> 0, tick |-> 0]
    /\ at = "tick"
    /\ area = Scribbled /\ written = FALSE
    /\ \/ tape = <<>> /\ meta = <<>>
       \/ tape = OldTape /\ meta = OldMeta
    /\ reader = Idle /\ shown = Blank /\ paused = FALSE

-----------------------------------------------------------------------------
(* The kernel.                                                             *)

\* What the META area and the META record tell: no page is ever dirty.
Told == [state |-> k.state, steps |-> k.steps % StepMod, dirty |-> FALSE]

\* kernel_maybe_write_snapshots, which is not asked when the tick is 0.
Due_NotAtZero(tick) == tick % Interval = 0 /\ tick # 0

\* kernel_maybe_write_snapshots.
Due(tick) == tick % Interval = 0

\* The META area is left as it is.
BeginTick_NoMeta ==
    /\ at = "tick" /\ k.state # "HALT" /\ time < MaxTime
    /\ time' = time + 1
    /\ k' = [k EXCEPT !.tick = (@ + 1) % TickMod]
    /\ IF Due(k'.tick) THEN at' = "open_tape" /\ snapped' = time' ELSE at' = "step" /\ UNCHANGED snapped
    /\ UNCHANGED <<area, written, tape, meta, viewerVars>>

\* A tick begins: the META area is written, and the files if they are due.
BeginTick ==
    /\ at = "tick" /\ k.state # "HALT" /\ time < MaxTime
    /\ time' = time + 1
    /\ k' = [k EXCEPT !.tick = (@ + 1) % TickMod]
    /\ area' = Told
    /\ IF Due(k'.tick) THEN at' = "open_tape" /\ snapped' = time'
                       ELSE at' = "step" /\ UNCHANGED snapped
    /\ UNCHANGED <<written, tape, meta, viewerVars>>

\* The loop has ended: the META area and the files are written once more.
Finish ==
    /\ at = "tick" /\ k.state = "HALT"
    /\ time' = time + 1
    /\ area' = Told
    /\ at' = "open_tape" /\ snapped' = time'
    /\ UNCHANGED <<k, written, tape, meta, viewerVars>>

\* The file is emptied when it is opened; a tape that cannot be opened is left out.
OpenTape ==
    /\ at = "open_tape"
    /\ \/ tape' = <<>> /\ at' = "write_tape"
       \/ MayFail /\ UNCHANGED tape /\ at' = "open_meta"
    /\ UNCHANGED <<time, k, snapped, area, written, meta, viewerVars>>

\* The parts are written from the front.
WriteTape ==
    /\ at = "write_tape"
    /\ tape' = Append(tape, [time |-> time, area |-> area])
    /\ at' = IF Len(tape') = Chunks THEN "open_meta" ELSE "write_tape"
    /\ UNCHANGED <<time, k, snapped, area, written, meta, viewerVars>>

\* After the files the tick goes on, or the kernel ends.
AfterFiles == IF k.state = "HALT" THEN "end" ELSE "step"

OpenMeta ==
    /\ at = "open_meta"
    /\ \/ meta' = <<>> /\ at' = "write_meta"
       \/ MayFail /\ UNCHANGED meta /\ at' = AfterFiles
    /\ UNCHANGED <<time, k, snapped, area, written, tape, viewerVars>>

\* The record is small enough to be written in one go; its dirty bits are
\* those of the META area.
WriteMeta ==
    /\ at = "write_meta"
    /\ meta' = <<[time |-> time, area |-> [Told EXCEPT !.dirty = area.dirty]]>>
    /\ at' = AfterFiles
    /\ UNCHANGED <<time, k, snapped, area, written, tape, viewerVars>>

\* Where the ticks of each state lead.
Moves == [state \in {"BOOT", "SHELL", "RUNNING", "SYSCALL"} |->
    CASE state = "BOOT"    -> {"SHELL"}
      [] state = "SHELL"   -> {"SHELL", "SYSCALL", "HALT"}
      [] state = "RUNNING" -> {"RUNNING", "SYSCALL", "SHELL"}
      [] state = "SYSCALL" -> {"SHELL", "RUNNING"}]

\* The rest of the tick; the CPU makes a step in KS_SHELL and KS_RUNNING,
\* and any step may write to the memory, even to the META area.
Step ==
    /\ at = "step"
    /\ \E next \in Moves[k.state] :
          k' = [k EXCEPT !.state = next,
                         !.steps = IF k.state \in {"SHELL", "RUNNING"} THEN @ + 1 ELSE @]
    /\ written' \in BOOLEAN
    /\ area' = area \/ (written' /\ area' = Scribbled)
    /\ at' = "tick"
    /\ UNCHANGED <<time, snapped, tape, meta, viewerVars>>

KernelStep == BeginTick \/ Finish \/ OpenTape \/ WriteTape \/ OpenMeta \/ WriteMeta \/ Step

-----------------------------------------------------------------------------
(* The visualizer: in a poll it reads the tape, META, and META again for   *)
(* the program counter.                                                    *)

File(what) == IF what = "tape" THEN tape ELSE meta
Size(what) == IF what = "tape" THEN Chunks ELSE 1

\* META is read for the program counter only.
Later_NoMeta(what) == CASE what = "tape" -> "pc" [] what = "meta" -> "pc" [] what = "pc" -> "none"

\* What is read after that.
Later(what) == CASE what = "tape" -> "meta" [] what = "meta" -> "pc" [] what = "pc" -> "none"

\* The poll goes on without the file, which keeps the previous frame.
Skip == reader' = [Idle EXCEPT !.on = Later(reader.on)] /\ UNCHANGED shown

StartPoll ==
    /\ reader.on = "none" /\ ~paused
    /\ reader' = [Idle EXCEPT !.on = "tape"]
    /\ UNCHANGED <<kernelVars, shown, paused>>

\* _read_exact: the size is checked before the file is opened.
Open ==
    /\ reader.on # "none" /\ ~reader.open
    /\ IF Len(File(reader.on)) < Size(reader.on) THEN Skip
       ELSE reader' = [reader EXCEPT !.open = TRUE] /\ UNCHANGED shown
    /\ UNCHANGED <<kernelVars, paused>>

\* What has been read is shown.
Show(what, got) ==
    shown' = CASE what = "tape" -> [shown EXCEPT !.tape = got]
               [] what = "meta" -> [shown EXCEPT !.meta = got]
               [] what = "pc"   -> [shown EXCEPT !.pc = got[1].time]

\* Whatever has been read is shown.
Read_AnyLength ==
    LET more == Len(File(reader.on)) > Len(reader.got)
        got  == IF more THEN Append(reader.got, File(reader.on)[Len(reader.got) + 1]) ELSE reader.got
    IN  /\ reader.open
        /\ IF (~more \/ Len(got) = Size(reader.on)) /\ got # <<>>
           THEN Show(reader.on, got) /\ reader' = [Idle EXCEPT !.on = Later(reader.on)]
           ELSE IF ~more THEN Skip
           ELSE reader' = [reader EXCEPT !.got = got] /\ UNCHANGED shown
        /\ UNCHANGED <<kernelVars, paused>>

\* The parts are read from the end of the file.
Read_FromBack ==
    LET next == Size(reader.on) - Len(reader.got)
        more == Len(File(reader.on)) >= next
        got  == IF more THEN <<File(reader.on)[next]>> \o reader.got ELSE reader.got
    IN  /\ reader.open
        /\ IF Len(got) = Size(reader.on)
           THEN Show(reader.on, got) /\ reader' = [Idle EXCEPT !.on = Later(reader.on)]
           ELSE IF ~more THEN Skip
           ELSE reader' = [reader EXCEPT !.got = got] /\ UNCHANGED shown
        /\ UNCHANGED <<kernelVars, paused>>

\* The next part is read; at the end of the file what has been read is used
\* only if it is all.
Read ==
    LET more == Len(File(reader.on)) > Len(reader.got)
        got  == IF more THEN Append(reader.got, File(reader.on)[Len(reader.got) + 1])
                ELSE reader.got
    IN  /\ reader.open
        /\ IF Len(got) = Size(reader.on)
           THEN Show(reader.on, got) /\ reader' = [Idle EXCEPT !.on = Later(reader.on)]
           ELSE IF ~more THEN Skip
           ELSE reader' = [reader EXCEPT !.got = got] /\ UNCHANGED shown
        /\ UNCHANGED <<kernelVars, paused>>

\* P is pressed: keys are looked at between polls.
Pause == reader.on = "none" /\ paused' = ~paused /\ UNCHANGED <<kernelVars, reader, shown>>

Poll == StartPoll \/ Open \/ Read

-----------------------------------------------------------------------------
Next == KernelStep \/ Poll \/ Pause

\* Both processes run on.
Spec == Init /\ [][Next]_vars /\ WF_vars(KernelStep) /\ WF_vars(Poll)

-----------------------------------------------------------------------------
(* What must hold.                                                         *)

Area == [state : {"BOOT", "SHELL", "RUNNING", "SYSCALL", "HALT", "scribbled"},
         steps : 0 .. StepMod - 1, dirty : BOOLEAN]
Part == [time : 0 .. MaxTime + 1, area : Area]

KernelType ==
    /\ time \in 0 .. MaxTime + 1 /\ snapped \in 0 .. time
    /\ k \in [state : {"BOOT", "SHELL", "RUNNING", "SYSCALL", "HALT"},
              steps : 0 .. time, tick : 0 .. TickMod - 1]
    /\ at \in {"tick", "open_tape", "write_tape", "open_meta", "write_meta", "step", "end"}
    /\ area \in Area /\ written \in BOOLEAN

TapeType == tape \in Seq(Part) /\ Len(tape) <= Chunks
MetaType == meta \in Seq(Part) /\ Len(meta) <= 1

ReaderType ==
    /\ reader \in [on : {"none", "tape", "meta", "pc"}, open : BOOLEAN, got : Seq(Part)]
    /\ Len(reader.got) < Chunks

ShownType ==
    /\ shown \in [tape : Seq(Part), meta : Seq(Part), pc : 0 .. MaxTime + 1]
    /\ Len(shown.tape) \in {0, Chunks} /\ Len(shown.meta) <= 1

\* The types.  What is shown is whole: a tape of all its parts or none, a
\* META record of all its bytes or none.
TypeOK == /\ KernelType /\ TapeType /\ MetaType
          /\ ReaderType /\ ShownType /\ paused \in BOOLEAN

\* The kernel turns to the files at least every Interval ticks, also when the
\* 32 bits of its tick overflow.
SnapshotsOften == time - snapped <= Interval /\ (at = "step" => time - snapped < Interval)

\* However the kernel and the visualizer interleave, a tape that is shown is
\* older towards its front: it is never part of a snapshot in front of part
\* of an earlier one.
OlderInFront == \A i, j \in 1 .. Len(shown.tape) :
                    i < j => shown.tape[i].time <= shown.tape[j].time

\* The META area in the tape that is shown agrees with the META record that
\* is shown whenever both are of one time: no program's bytes are left in it.
MetaInTape ==
    shown.tape # <<>> /\ shown.meta # <<>> /\ shown.tape[Chunks].time = shown.meta[1].time
        => shown.tape[Chunks].area = shown.meta[1].area

\* Once the kernel has halted, the files it left come to be shown: the whole
\* of the tape, and the state, the steps and the program counter of META,
\* unless P is pressed.
Final ==
    /\ Len(tape) = Chunks => shown.tape = tape
    /\ meta # <<>> => shown.meta = meta /\ shown.pc = meta[1].time

LastIsShown == at = "end" ~> (Final \/ paused)

\* A tape that is shown is the memory of one time.
OneTime == \A i, j \in 1 .. Len(shown.tape) : shown.tape[i].time = shown.tape[j].time

\* The META area that a tick writes tells whether pages were written in the
\* tick before.
DirtyTold == at \in {"open_tape", "step"} => area.dirty = written
=============================================================================
