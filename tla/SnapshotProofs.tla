--------------------------- MODULE SnapshotProofs ---------------------------
(***************************************************************************)
(* What the snapshots and the visualizer promise, for every interval,      *)
(* every modulus of the counters and every number of parts.                *)
(***************************************************************************)
EXTENDS Snapshot, SequenceTheorems, TLAPS

\* How far the ticks are: none begins after MaxTime, the step of a tick has
\* yet to be counted, a halted kernel has none left, and a tape that is being
\* written is not complete.
Progress ==
    /\ k.state # "HALT" \/ at = "tick" => time <= MaxTime
    /\ at # "tick" /\ k.state # "HALT" => k.steps < time
    /\ at = "step" => k.state # "HALT"

Writing == at = "write_tape" => Len(tape) < Chunks

\* A file is read only in a poll, and not beyond what is asked for.
Reading ==
    /\ reader.open => reader.on # "none"
    /\ Len(reader.got) < Size(reader.on)

TypeInv == TypeOK /\ Progress /\ Writing /\ Reading

\* The assumptions on the constants, one by one.
LEMMA Constants ==
    /\ Interval \in Nat /\ Interval > 0 /\ TickMod \in Nat /\ TickMod > 0
    /\ StepMod \in Nat /\ StepMod > 0 /\ Chunks \in Nat /\ Chunks > 0 /\ MaxTime \in Nat
BY SnapshotAssumption

-----------------------------------------------------------------------------
(* Types.                                                                  *)

\* The META record a tick or the end of the run tells is one.
LEMMA ToldType == ASSUME KernelType PROVE Told \in Area
<1>1. k.steps \in Nat /\ k.state \in {"BOOT", "SHELL", "RUNNING", "SYSCALL", "HALT"}
  BY Constants DEF KernelType
<1>2. k.steps % StepMod \in 0 .. StepMod - 1
  BY <1>1, Constants
<1>3. QED
  BY <1>1, <1>2 DEF Told, Area

\* A part with what is now in the META area, and a META record.
LEMMA PartTypes ==
    ASSUME KernelType
    PROVE  /\ [time |-> time, area |-> area] \in Part
           /\ [time |-> time, area |-> [Told EXCEPT !.dirty = area.dirty]] \in Part
<1>1. Told \in Area /\ area \in Area /\ time \in 0 .. MaxTime + 1
  BY ToldType DEF KernelType
<1>2. [Told EXCEPT !.dirty = area.dirty] \in Area
  BY <1>1 DEF Area
<1>3. QED
  BY <1>1, <1>2 DEF Part

\* A file that has just been emptied.
LEMMA EmptyFile == <<>> \in Seq(Part) /\ Len(<<>>) = 0
OBVIOUS

\* The first states have the types.
LEMMA TypeInit == Init => TypeInv
<1> SUFFICES ASSUME Init PROVE TypeInv
  OBVIOUS
<1>1. OldArea \in Area /\ Scribbled \in Area
  BY Constants DEF OldArea, Scribbled, Area
<1>2. [time |-> 0, area |-> OldArea] \in Part
  BY <1>1, Constants DEF Part
<1>3. OldTape \in Seq(Part) /\ Len(OldTape) = Chunks
  BY <1>2, Constants DEF OldTape
<1>4. OldMeta \in Seq(Part) /\ Len(OldMeta) = 1
  BY <1>2 DEF OldMeta
<1>5. /\ time = 0 /\ snapped = 0 /\ at = "tick" /\ area = Scribbled /\ written = FALSE
      /\ k = [state |-> "BOOT", steps |-> 0, tick |-> 0] /\ paused = FALSE
  BY DEF Init
<1>6. KernelType
  <2>1. k \in [state : {"BOOT", "SHELL", "RUNNING", "SYSCALL", "HALT"},
                steps : 0 .. time, tick : 0 .. TickMod - 1]
    BY <1>5, Constants
  <2>2. time \in 0 .. MaxTime + 1 /\ snapped \in 0 .. time
    BY <1>5, Constants
  <2>3. at \in {"tick", "open_tape", "write_tape", "open_meta", "write_meta", "step", "end"}
    BY <1>5
  <2>4. area \in Area /\ written \in BOOLEAN
    BY <1>1, <1>5, Zenon
  <2>5. QED
    BY <2>1, <2>2, <2>3, <2>4 DEF KernelType
<1>7. TapeType /\ MetaType
  <2>1. CASE tape = <<>> /\ meta = <<>>
    BY <2>1, EmptyFile, Constants DEF TapeType, MetaType
  <2>2. CASE tape = OldTape /\ meta = OldMeta
    BY <2>2, <1>3, <1>4, Constants DEF TapeType, MetaType
  <2>3. QED
    BY <2>1, <2>2 DEF Init
<1>8. ReaderType /\ Reading
  BY EmptyFile, Constants DEF Init, Idle, ReaderType, Reading, Size
<1>9. ShownType
  BY EmptyFile, Constants DEF Init, Blank, ShownType
<1>10. Progress /\ Writing
  <2>1. k.state = "BOOT" /\ at = "tick" /\ time = 0
    BY <1>5
  <2>2. QED
    BY <2>1, Constants DEF Progress, Writing
<1>11. paused \in BOOLEAN
  BY <1>5, Zenon
<1>12. QED
  BY <1>6, <1>7, <1>8, <1>9, <1>10, <1>11 DEF TypeInv, TypeOK

\* A step that leaves the visualizer and the files alone keeps their types.
LEMMA ViewerUnchanged ==
    ASSUME UNCHANGED viewerVars, TypeInv
    PROVE  (ReaderType /\ ShownType /\ Reading /\ paused \in BOOLEAN)'
<1>1. ReaderType /\ ShownType /\ Reading /\ paused \in BOOLEAN
  BY DEF TypeInv, TypeOK
<1>2. QED
  BY <1>1 DEF viewerVars, ReaderType, ShownType, Reading, Size

\* What a step of the kernel keeps.
LEMMA TypeKernel == ASSUME TypeInv, KernelStep PROVE TypeInv'
<1>1. KernelType /\ TapeType /\ MetaType /\ Progress /\ Writing
  BY DEF TypeInv, TypeOK
<1>2. UNCHANGED viewerVars
  BY DEF KernelStep, BeginTick, Finish, OpenTape, WriteTape, OpenMeta, WriteMeta, Step
<1>3. SUFFICES KernelType' /\ TapeType' /\ MetaType' /\ Progress' /\ Writing'
  BY <1>2, ViewerUnchanged DEF TypeInv, TypeOK
<1>4. UNCHANGED <<at, tape>> => Writing'
  BY <1>1 DEF Writing
<1>5. UNCHANGED tape => TapeType'
  BY <1>1 DEF TapeType
<1>6. UNCHANGED meta => MetaType'
  BY <1>1 DEF MetaType
<1>7. CASE BeginTick
  <2>1. k.tick \in Nat
    BY <1>1, Constants DEF KernelType
  <2>2. (k.tick + 1) % TickMod \in 0 .. TickMod - 1
    BY <2>1, Constants
  <2>3. time' = time + 1 /\ time < MaxTime /\ snapped' \in {snapped, time'}
    BY <1>7 DEF BeginTick
  <2>4. KernelType'
    BY <1>1, <1>7, <2>2, <2>3, Constants, ToldType DEF KernelType, BeginTick
  <2>5. Progress'
    BY <1>1, <1>7, <2>3, Constants DEF KernelType, Progress, BeginTick
  <2>6. QED
    BY <1>5, <1>6, <1>7, <2>4, <2>5 DEF BeginTick, Writing
<1>8. CASE Finish
  <2>1. time <= MaxTime
    BY <1>1, <1>8 DEF Progress, Finish
  <2>2. KernelType'
    BY <1>1, <1>8, <2>1, Constants, ToldType DEF KernelType, Finish
  <2>3. Progress'
    BY <1>1, <1>8 DEF Progress, Finish
  <2>4. QED
    BY <1>5, <1>6, <1>8, <2>2, <2>3 DEF Finish, Writing
<1>9. CASE OpenTape
  <2>1. KernelType'
    BY <1>1, <1>9 DEF KernelType, OpenTape
  <2>2. TapeType' /\ Writing'
    <3>1. CASE tape' = <<>>
      BY <3>1, EmptyFile, Constants DEF TapeType, Writing
    <3>2. CASE UNCHANGED tape /\ at' = "open_meta"
      BY <1>1, <3>2 DEF TapeType, Writing
    <3>3. QED
      BY <1>9, <3>1, <3>2 DEF OpenTape
  <2>3. Progress'
    BY <1>1, <1>9 DEF Progress, OpenTape
  <2>4. QED
    BY <1>6, <1>9, <2>1, <2>2, <2>3 DEF OpenTape
<1>10. CASE WriteTape
  <2>1. tape' = Append(tape, [time |-> time, area |-> area]) /\ Len(tape) < Chunks
    BY <1>1, <1>10 DEF WriteTape, Writing
  <2>2. tape' \in Seq(Part) /\ Len(tape') = Len(tape) + 1 /\ Len(tape) \in Nat
    BY <1>1, <2>1, PartTypes DEF TapeType
  <2>3. TapeType' /\ Writing'
    BY <1>10, <2>1, <2>2, Constants DEF TapeType, Writing, WriteTape
  <2>4. KernelType'
    BY <1>1, <1>10 DEF KernelType, WriteTape
  <2>5. Progress'
    BY <1>1, <1>10 DEF Progress, WriteTape
  <2>6. QED
    BY <1>6, <1>10, <2>3, <2>4, <2>5 DEF WriteTape
<1>11. CASE OpenMeta
  <2>1. MetaType'
    <3>1. CASE meta' = <<>>
      BY <3>1, EmptyFile DEF MetaType
    <3>2. QED
      BY <1>6, <1>11, <3>1 DEF OpenMeta
  <2>2. KernelType'
    BY <1>1, <1>11 DEF KernelType, OpenMeta, AfterFiles
  <2>3. Progress'
    BY <1>1, <1>11 DEF Progress, OpenMeta, AfterFiles
  <2>4. QED
    BY <1>5, <1>11, <2>1, <2>2, <2>3 DEF OpenMeta, AfterFiles, Writing
<1>12. CASE WriteMeta
  <2> DEFINE part == [time |-> time, area |-> [Told EXCEPT !.dirty = area.dirty]]
  <2>1. part \in Part /\ meta' = <<part>>
    BY <1>1, <1>12, PartTypes DEF WriteMeta
  <2>2. MetaType'
    <3> HIDE DEF part
    <3>1. <<part>> \in Seq(Part) /\ Len(<<part>>) = 1
      BY <2>1
    <3>2. QED
      BY <2>1, <3>1 DEF MetaType
  <2>3. KernelType'
    BY <1>1, <1>12 DEF KernelType, WriteMeta, AfterFiles
  <2>4. Progress'
    BY <1>1, <1>12 DEF Progress, WriteMeta, AfterFiles
  <2>5. QED
    BY <1>5, <1>12, <2>2, <2>3, <2>4 DEF WriteMeta, AfterFiles, Writing
<1>13. CASE Step
  <2>1. PICK next \in Moves[k.state] :
            k' = [k EXCEPT !.state = next,
                           !.steps = IF k.state \in {"SHELL", "RUNNING"} THEN @ + 1 ELSE @]
    BY <1>13 DEF Step
  <2>2. k.state \in {"BOOT", "SHELL", "RUNNING", "SYSCALL"} /\ k.steps < time
    BY <1>1, <1>13 DEF KernelType, Progress, Step
  <2>3. next \in {"BOOT", "SHELL", "RUNNING", "SYSCALL", "HALT"}
    BY <2>1, <2>2 DEF Moves
  <2>4. area' \in Area
    <3>1. Scribbled \in Area
      BY Constants DEF Scribbled, Area
    <3>2. QED
      BY <1>1, <1>13, <3>1 DEF KernelType, Step
  <2>5. k.steps \in 0 .. time /\ k.steps + 1 \in 0 .. time
    BY <1>1, <2>2, Constants DEF KernelType
  <2>6. k' \in [state : {"BOOT", "SHELL", "RUNNING", "SYSCALL", "HALT"},
                steps : 0 .. time, tick : 0 .. TickMod - 1]
    BY <1>1, <2>1, <2>3, <2>5 DEF KernelType
  <2>7. KernelType'
    BY <1>1, <1>13, <2>4, <2>6 DEF KernelType, Step
  <2>8. Progress'
    BY <1>1, <1>13, <2>2 DEF Progress, Step
  <2>9. QED
    BY <1>5, <1>6, <1>13, <2>7, <2>8 DEF Step, Writing
<1>14. QED
  BY <1>7, <1>8, <1>9, <1>10, <1>11, <1>12, <1>13 DEF KernelStep

\* The three things a step of the visualizer may do: it goes on without what
\* it was reading, it reads a part, or it has read the last one.
PassesOn == reader' \in {[Idle EXCEPT !.on = o] : o \in {"none", "tape", "meta", "pc"}}

TakesPart ==
    /\ Len(reader.got) < Len(File(reader.on))
    /\ reader' = [reader EXCEPT !.got = Append(reader.got, File(reader.on)[Len(reader.got) + 1])]
    /\ Len(reader.got) + 1 < Size(reader.on)

ShowsFile ==
    LET got == Append(reader.got, File(reader.on)[Len(reader.got) + 1])
    IN  /\ reader.on # "none"
        /\ Len(reader.got) < Len(File(reader.on))
        /\ Len(reader.got) + 1 = Size(reader.on)
        /\ Show(reader.on, got)
        /\ PassesOn

LEMMA PollCases ==
    ASSUME TypeInv, Poll
    PROVE  /\ UNCHANGED <<kernelVars, paused>>
           /\ \/ PassesOn /\ UNCHANGED shown
              \/ UNCHANGED shown /\ reader' = [reader EXCEPT !.open = TRUE] /\ reader.on # "none"
              \/ UNCHANGED shown /\ TakesPart /\ reader.on # "none"
              \/ ShowsFile
<1> DEFINE R == [on : {"none", "tape", "meta", "pc"}, open : BOOLEAN, got : Seq(Part)]
<1>1. /\ reader \in R /\ Len(reader.got) \in Nat /\ Size(reader.on) \in Nat
      /\ Len(File(reader.on)) \in Nat /\ Len(reader.got) < Size(reader.on)
      /\ reader.open => reader.on # "none"
  <2>1. reader \in R /\ reader.got \in Seq(Part)
    BY DEF TypeInv, TypeOK, ReaderType
  <2>2. File(reader.on) \in Seq(Part)
    BY DEF TypeInv, TypeOK, TapeType, MetaType, File
  <2>3. Size(reader.on) \in Nat
    BY Constants DEF Size
  <2>4. QED
    BY <2>1, <2>2, <2>3 DEF TypeInv, Reading
<1>2. reader.on # "none" => Later(reader.on) \in {"none", "meta", "pc"}
  BY <1>1 DEF Later
<1>3. CASE StartPoll
  BY <1>3 DEF StartPoll, PassesOn
<1>4. CASE Open
  BY <1>1, <1>2, <1>4 DEF Open, Skip, PassesOn
<1>5. CASE Read
  <2> DEFINE more == Len(File(reader.on)) > Len(reader.got)
             got  == IF more THEN Append(reader.got, File(reader.on)[Len(reader.got) + 1])
                     ELSE reader.got
  <2>1. reader.open /\ reader.on # "none" /\ UNCHANGED <<kernelVars, paused>>
    BY <1>1, <1>5 DEF Read
  <2>2. CASE ~more
    <3>1. Len(got) # Size(reader.on)
      BY <1>1, <2>2
    <3>2. Skip
      BY <1>5, <2>2, <3>1 DEF Read
    <3>3. QED
      BY <1>2, <2>1, <3>2 DEF Skip, PassesOn
  <2>3. CASE more /\ Len(got) # Size(reader.on)
    <3>1. reader' = [reader EXCEPT !.got = got] /\ UNCHANGED shown
      BY <1>5, <2>3 DEF Read
    <3>2. Len(got) = Len(reader.got) + 1
      BY <1>1, <2>3
    <3>3. TakesPart
      BY <1>1, <2>3, <3>1, <3>2 DEF TakesPart
    <3>4. QED
      BY <2>1, <3>1, <3>3
  <2>4. CASE more /\ Len(got) = Size(reader.on)
    <3>1. Show(reader.on, got) /\ reader' = [Idle EXCEPT !.on = Later(reader.on)]
      BY <1>5, <2>4 DEF Read
    <3>2. Len(got) = Len(reader.got) + 1
      BY <1>1, <2>4
    <3>3. ShowsFile
      BY <1>1, <1>2, <2>1, <2>4, <3>1, <3>2 DEF ShowsFile, PassesOn
    <3>4. QED
      BY <2>1, <3>3
  <2>5. QED
    BY <2>2, <2>3, <2>4
<1>6. QED
  BY <1>3, <1>4, <1>5 DEF Poll

\* A frame put together from pieces.
LEMMA FrameType ==
    ASSUME NEW t \in Seq(Part), NEW m \in Seq(Part), NEW p \in 0 .. MaxTime + 1,
           Len(t) = 0 \/ Len(t) = Chunks, Len(m) <= 1,
           shown' = [tape |-> t, meta |-> m, pc |-> p]
    PROVE  ShownType'
<1>1. shown'.tape = t /\ shown'.meta = m
  OBVIOUS
<1>2. shown' \in [tape : Seq(Part), meta : Seq(Part), pc : 0 .. MaxTime + 1]
  OBVIOUS
<1>3. Len(t) \in {0, Chunks}
  OBVIOUS
<1>4. (MaxTime + 1)' = MaxTime + 1 /\ Part' = Part
  BY DEF Part, Area
<1>5. QED
  BY <1>1, <1>2, <1>3, <1>4, Zenon DEF ShownType

\* What a step of the visualizer keeps.
LEMMA TypePoll == ASSUME TypeInv, Poll PROVE TypeInv'
<1> DEFINE got == Append(reader.got, File(reader.on)[Len(reader.got) + 1])
<1>1. /\ KernelType /\ TapeType /\ MetaType /\ Progress /\ Writing
      /\ ReaderType /\ ShownType /\ Reading /\ paused \in BOOLEAN
  BY DEF TypeInv, TypeOK
<1>2. UNCHANGED <<kernelVars, paused>>
  BY PollCases
<1>3. (KernelType /\ TapeType /\ MetaType /\ Progress /\ Writing /\ paused \in BOOLEAN)'
  BY <1>1, <1>2 DEF kernelVars, KernelType, TapeType, MetaType, Progress, Writing
<1>4. SUFFICES ReaderType' /\ ShownType' /\ Reading'
  BY <1>3 DEF TypeInv, TypeOK
<1> DEFINE oldTape == shown.tape
           oldMeta == shown.meta
           oldPc   == shown.pc
<1>13. /\ oldTape \in Seq(Part) /\ oldMeta \in Seq(Part) /\ oldPc \in 0 .. MaxTime + 1
       /\ Len(oldTape) = 0 \/ Len(oldTape) = Chunks
       /\ Len(oldMeta) <= 1
  BY <1>1 DEF ShownType
<1>5. PassesOn => ReaderType' /\ Reading'
  <2>1. SUFFICES ASSUME NEW o \in {"none", "tape", "meta", "pc"}, reader' = [Idle EXCEPT !.on = o]
                 PROVE  ReaderType' /\ Reading'
    BY DEF PassesOn
  <2>2. reader' = [on |-> o, open |-> FALSE, got |-> <<>>]
    BY <2>1 DEF Idle
  <2>3. reader'.got = <<>> /\ reader'.on = o /\ reader'.open = FALSE
    BY <2>2
  <2>4. reader' \in [on : {"none", "tape", "meta", "pc"}, open : BOOLEAN, got : Seq(Part)]
    BY <2>2, EmptyFile
  <2>5. QED
    BY <2>3, <2>4, EmptyFile, Constants DEF ReaderType, Reading, Size
<1>6. UNCHANGED shown => ShownType'
  BY <1>1 DEF ShownType
<1>7. CASE PassesOn /\ UNCHANGED shown
  BY <1>5, <1>6, <1>7
<1>8. CASE UNCHANGED shown /\ reader' = [reader EXCEPT !.open = TRUE] /\ reader.on # "none"
  BY <1>1, <1>6, <1>8 DEF ReaderType, Reading, Size
<1>9. Len(reader.got) < Len(File(reader.on)) => got \in Seq(Part) /\ Len(got) = Len(reader.got) + 1
  <2>1. reader.got \in Seq(Part) /\ File(reader.on) \in Seq(Part)
    BY <1>1 DEF ReaderType, TapeType, MetaType, File
  <2>2. Len(reader.got) < Len(File(reader.on)) => File(reader.on)[Len(reader.got) + 1] \in Part
    BY <2>1
  <2>3. QED
    BY <2>1, <2>2
<1>10. CASE UNCHANGED shown /\ TakesPart /\ reader.on # "none"
  <2>1. /\ got \in Seq(Part) /\ reader' = [reader EXCEPT !.got = got] /\ Len(got) < Size(reader.on)
    BY <1>9, <1>10 DEF TakesPart
  <2> HIDE DEF got
  <2>2. reader'.got = got /\ reader'.on = reader.on /\ reader'.open = reader.open
    BY <1>1, <2>1 DEF ReaderType
  <2>3. Len(got) < Chunks /\ Len(got) \in Nat
    BY <2>1, Constants DEF Size
  <2>4. ReaderType' /\ Reading'
    BY <1>1, <2>1, <2>2, <2>3 DEF ReaderType, Reading, Size
  <2>5. QED
    BY <1>6, <1>10, <2>4
<1>11. CASE ShowsFile
  <2>1. /\ got \in Seq(Part) /\ Len(got) = Size(reader.on) /\ reader.on # "none"
        /\ Show(reader.on, got) /\ PassesOn
    BY <1>9, <1>11 DEF ShowsFile
  <2> HIDE DEF got
  <2>2. reader.on \in {"tape", "meta", "pc"}
    BY <1>1, <2>1 DEF ReaderType
  <2>7. got \in Seq(Part)
    BY <2>1
  <2>8. SUFFICES ShownType'
    BY <1>5, <2>1
  <2>3. CASE reader.on = "tape"
    <3>1. shown' = [shown EXCEPT !.tape = got] /\ Len(got) = Chunks
      BY <2>1, <2>3 DEF Show, Size
    <3>2. shown' = [tape |-> got, meta |-> oldMeta, pc |-> oldPc]
      BY <1>1, <3>1 DEF ShownType
    <3> HIDE DEF oldTape, oldMeta, oldPc
    <3>4. QED
      BY <1>13, <2>7, <3>1, <3>2, FrameType
  <2>4. CASE reader.on = "meta"
    <3>1. shown' = [shown EXCEPT !.meta = got] /\ Len(got) = 1
      BY <2>1, <2>4 DEF Show, Size
    <3>2. shown' = [tape |-> oldTape, meta |-> got, pc |-> oldPc]
      BY <1>1, <3>1 DEF ShownType
    <3>3. Len(got) <= 1
      BY <3>1
    <3> HIDE DEF oldTape, oldMeta, oldPc
    <3>4. QED
      BY <1>13, <2>7, <3>2, <3>3, FrameType
  <2>5. CASE reader.on = "pc"
    <3>1. got[1] \in Part
      BY <2>1, <2>5 DEF Size
    <3>2. got[1].time \in 0 .. MaxTime + 1
      BY <3>1 DEF Part
    <3>3. shown' = [shown EXCEPT !.pc = got[1].time]
      BY <2>1, <2>5 DEF Show
    <3>4. shown' = [tape |-> oldTape, meta |-> oldMeta, pc |-> got[1].time]
      BY <1>1, <3>3 DEF ShownType
    <3> HIDE DEF oldTape, oldMeta, oldPc
    <3>5. QED
      BY <1>13, <3>2, <3>4, FrameType
  <2>6. QED
    BY <1>5, <2>1, <2>2, <2>3, <2>4, <2>5
<1>12. QED
  BY <1>7, <1>8, <1>10, <1>11, PollCases

\* Every step keeps the types.
LEMMA TypeStep == TypeInv /\ [Next]_vars => TypeInv'
<1> SUFFICES ASSUME TypeInv, [Next]_vars PROVE TypeInv'
  OBVIOUS
<1>1. CASE KernelStep
  BY <1>1, TypeKernel
<1>2. CASE Poll
  BY <1>2, TypePoll
<1>3. CASE Pause \/ UNCHANGED vars
  <2>1. UNCHANGED <<kernelVars, reader, shown>> /\ paused' \in BOOLEAN
    BY <1>3 DEF Pause, vars, viewerVars, TypeInv, TypeOK
  <2>2. QED
    BY <2>1 DEF kernelVars, TypeInv, TypeOK, KernelType, TapeType, MetaType, ReaderType,
                ShownType, Progress, Writing, Reading, Size
<1>4. QED
  BY <1>1, <1>2, <1>3 DEF Next

\* The inductive invariant behind the types.
LEMMA TypeInvariant == Spec => []TypeInv
BY TypeInit, TypeStep, PTL DEF Spec

\* Whatever the two processes do, what is shown is whole: never a file that
\* was read while the kernel was writing it and is too short.
THEOREM TypeCorrect == Spec => []TypeOK
<1>1. TypeInv => TypeOK
  BY DEF TypeInv
<1>2. QED
  BY <1>1, TypeInvariant, PTL

-----------------------------------------------------------------------------
(* How often the kernel turns to the files.                                *)

\* Remainders are unique.
LEMMA SameRemainder ==
    ASSUME NEW d \in Nat \ {0}, NEW a \in Int, NEW b \in Int,
           NEW r \in 0 .. d - 1, NEW s \in 0 .. d - 1, d * a + r = d * b + s
    PROVE  r = s
<1>1. d * (a - b) = s - r
  OBVIOUS
<1>2. ~(a - b >= 1)
  <2>1. SUFFICES ASSUME a - b >= 1 PROVE FALSE
    OBVIOUS
  <2>2. d * (a - b) = d * (a - b - 1) + d /\ d * (a - b - 1) >= 0
    BY <2>1
  <2>3. QED
    BY <1>1, <2>2
<1>3. ~(a - b <= -1)
  <2>1. SUFFICES ASSUME a - b <= -1 PROVE FALSE
    OBVIOUS
  <2>2. d * (a - b) = d * (a - b + 1) - d /\ d * (a - b + 1) <= 0
    BY <2>1
  <2>3. QED
    BY <1>1, <2>2
<1>4. a - b = 0
  BY <1>2, <1>3
<1>5. QED
  BY <1>1, <1>4

\* Division with remainder.
LEMMA Division ==
    \A d \in Nat \ {0} : \A x \in Nat :
        x % d = x - d * (x \div d) /\ x % d \in 0 .. d - 1 /\ x \div d \in Int
<1>1. \A d \in Nat \ {0} : \A x \in Nat : x % d = x - d * (x \div d)
  BY SMTT(30)
<1>2. \A d \in Nat \ {0} : \A x \in Nat : x % d \in 0 .. d - 1 /\ x \div d \in Int
  OBVIOUS
<1>3. QED
  BY <1>1, <1>2

\* The remainder of the next number.
LEMMA NextRemainder ==
    ASSUME NEW d \in Nat \ {0}, NEW x \in Nat
    PROVE  (x + 1) % d = IF (x % d) + 1 < d THEN (x % d) + 1 ELSE 0
<1> DEFINE q == x \div d
           r == x % d
           p == (x + 1) \div d
           s == (x + 1) % d
<1>1. q \in Int /\ p \in Int /\ r \in 0 .. d - 1 /\ s \in 0 .. d - 1
  BY Division
<1>2. r = x - d * q /\ s = x + 1 - d * p
  <2>1. x + 1 \in Nat
    OBVIOUS
  <2>2. QED
    BY <2>1, Division
<1> HIDE DEF q, r, p, s
<1>3. d * q + (r + 1) = d * p + s
  BY <1>1, <1>2
<1>4. CASE r + 1 < d
  <2>1. r + 1 \in 0 .. d - 1
    BY <1>1, <1>4
  <2>2. r + 1 = s
    BY <1>1, <1>3, <2>1, SameRemainder
  <2>3. QED
    BY <1>4, <2>2 DEF r, s
<1>5. CASE r + 1 = d
  <2>1. d * (q + 1) + 0 = d * p + s
    BY <1>1, <1>3, <1>5
  <2>2. 0 = s
    BY <1>1, <2>1, SameRemainder
  <2>3. QED
    BY <1>5, <2>2 DEF r, s
<1>6. QED
  BY <1>1, <1>4, <1>5

\* The ticks since the files were last turned to, until the end.
Since ==
    IF k.state # "HALT" \/ at = "tick"
    THEN time - snapped = k.tick % Interval /\ (at \notin {"tick", "step"} => snapped = time)
    ELSE snapped = time

\* Every step keeps that count: a tick that is due sets it to zero, also the
\* one whose number overflows.
LEMMA SinceStep == TypeInv /\ Since /\ [Next]_vars => Since'
<1> SUFFICES ASSUME TypeInv, Since, [Next]_vars PROVE Since'
  OBVIOUS
<1>1. KernelType /\ Progress
  BY DEF TypeInv, TypeOK
<1>2. CASE BeginTick
  <2>1. /\ k.tick \in 0 .. TickMod - 1 /\ time \in Nat /\ snapped \in Nat
        /\ k' = [k EXCEPT !.tick = (k.tick + 1) % TickMod]
        /\ k \in [state : {"BOOT", "SHELL", "RUNNING", "SYSCALL", "HALT"},
                  steps : 0 .. time, tick : 0 .. TickMod - 1]
    BY <1>1, <1>2, Constants DEF KernelType, BeginTick
  <2>2. k'.tick = (k.tick + 1) % TickMod /\ k'.state = k.state /\ k.state # "HALT"
    BY <1>2, <2>1 DEF BeginTick
  <2>3. k'.tick = 0 \/ k'.tick = k.tick + 1
    <3>1. CASE k.tick + 1 < TickMod
      BY <2>1, <2>2, <3>1, Constants
    <3>2. CASE k.tick + 1 = TickMod
      <4>1. TickMod % TickMod = 0
        BY Constants
      <4>2. QED
        BY <2>2, <3>2, <4>1
    <3>3. QED
      BY <2>1, <3>1, <3>2, Constants
  <2>4. time - snapped = k.tick % Interval
    BY <1>2, <2>2 DEF Since, BeginTick
  <2>5. CASE Due(k'.tick)
    <3>1. snapped' = time' /\ k'.tick % Interval = 0 /\ time' = time + 1
      BY <1>2, <2>5 DEF BeginTick, Due
    <3>2. time' - snapped' = 0
      BY <2>1, <3>1
    <3>3. QED
      BY <2>2, <3>1, <3>2 DEF Since
  <2>6. CASE ~Due(k'.tick)
    <3>1. snapped' = snapped /\ k'.tick % Interval # 0 /\ time' = time + 1 /\ at' = "step"
      BY <1>2, <2>6 DEF BeginTick, Due
    <3>2. 0 % Interval = 0
      BY Constants
    <3>3. k'.tick = k.tick + 1
      BY <2>3, <3>1, <3>2
    <3>4. k'.tick % Interval = (k.tick % Interval) + 1
      BY <2>1, <3>1, <3>3, Constants, NextRemainder
    <3>5. time' - snapped' = k'.tick % Interval
      BY <2>1, <2>4, <3>1, <3>4
    <3>6. QED
      BY <2>2, <3>1, <3>5 DEF Since
  <2>7. QED
    BY <2>5, <2>6
<1>3. CASE Finish
  <2>1. snapped' = time' /\ at' = "open_tape" /\ k'.state = "HALT"
    BY <1>3 DEF Finish
  <2>2. QED
    BY <2>1 DEF Since
<1>4. CASE OpenTape \/ WriteTape \/ OpenMeta \/ WriteMeta
  BY <1>4 DEF Since, OpenTape, WriteTape, OpenMeta, WriteMeta, AfterFiles
<1>5. CASE Step
  <2>1. k.state # "HALT" /\ at = "step" /\ at' = "tick" /\ UNCHANGED <<time, snapped>>
    BY <1>1, <1>5 DEF Progress, Step
  <2>2. k'.tick = k.tick
    BY <1>1, <1>5 DEF Step, KernelType
  <2>3. QED
    BY <2>1, <2>2 DEF Since
<1>6. CASE Poll \/ Pause \/ UNCHANGED vars
  <2>1. UNCHANGED kernelVars
    BY <1>6, PollCases DEF Pause, vars
  <2>2. QED
    BY <2>1 DEF Since, kernelVars
<1>7. QED
  BY <1>2, <1>3, <1>4, <1>5, <1>6 DEF Next, KernelStep

\* The kernel turns to the files at least every Interval ticks, whatever the
\* interval and the width of the tick.
THEOREM SnapsOften == Spec => []SnapshotsOften
<1>1. Init => Since
  <2>1. 0 % Interval = 0
    BY Constants
  <2>2. ASSUME Init PROVE time = 0 /\ snapped = 0 /\ at = "tick" /\ k.tick = 0
    BY <2>2 DEF Init
  <2>3. QED
    BY <2>1, <2>2 DEF Since
<1>2. TypeInv /\ Since => SnapshotsOften
  <2> SUFFICES ASSUME TypeInv, Since PROVE SnapshotsOften
    OBVIOUS
  <2>1. k.tick \in Nat /\ time \in Nat /\ snapped \in Nat /\ (at = "step" => k.state # "HALT")
    BY Constants DEF TypeInv, TypeOK, KernelType, Progress
  <2>2. k.tick % Interval \in 0 .. Interval - 1
    BY <2>1, Constants
  <2>3. QED
    BY <2>1, <2>2, Constants DEF Since, SnapshotsOften
<1>3. QED
  BY <1>1, <1>2, SinceStep, TypeInvariant, PTL DEF Spec

-----------------------------------------------------------------------------
(* Torn tapes.                                                             *)

\* A sequence of parts is older towards its front, and none is of the future.
Older(s) ==
    /\ \A i, j \in 1 .. Len(s) : i < j => s[i].time <= s[j].time
    /\ \A i \in 1 .. Len(s) : s[i].time <= time

\* Nothing in the tape from place i on is older than what the visualizer has
\* read of the tape up to place i.
Follows ==
    reader.on = "tape" =>
        \A i \in 1 .. Len(reader.got), j \in 1 .. Len(tape) :
            i <= j => reader.got[i].time <= tape[j].time

OlderInv == Older(tape) /\ (reader.on = "tape" => Older(reader.got)) /\ Follows /\ OlderInFront

\* The times of the parts are numbers.
LEMMA TimesOf ==
    ASSUME NEW s \in Seq(Part)
    PROVE  Len(s) \in Nat /\ \A i \in 1 .. Len(s) : s[i].time \in Int
<1>1. \A i \in 1 .. Len(s) : s[i] \in Part
  OBVIOUS
<1>2. \A p \in Part : p.time \in Int
  BY Constants DEF Part
<1>3. QED
  BY <1>1, <1>2

\* The kernel truncates the tape and writes on at its end.
LEMMA OlderKernel == ASSUME TypeInv, OlderInv, KernelStep PROVE OlderInv'
<1>1. /\ time \in Nat /\ tape \in Seq(Part) /\ reader.got \in Seq(Part)
      /\ Older(tape) /\ (reader.on = "tape" => Older(reader.got)) /\ Follows /\ OlderInFront
  BY Constants DEF TypeInv, TypeOK, KernelType, TapeType, ReaderType, OlderInv
<1>2. UNCHANGED viewerVars
  BY DEF KernelStep, BeginTick, Finish, OpenTape, WriteTape, OpenMeta, WriteMeta, Step
<1>3. OlderInFront' /\ UNCHANGED <<reader, shown>>
  BY <1>1, <1>2 DEF viewerVars, OlderInFront
<1>4. time' \in Nat /\ time <= time'
  <2>1. (BeginTick \/ Finish) => time' = time + 1
    BY DEF BeginTick, Finish
  <2>2. (OpenTape \/ WriteTape \/ OpenMeta \/ WriteMeta \/ Step) => time' = time
    BY DEF OpenTape, WriteTape, OpenMeta, WriteMeta, Step
  <2>3. time' = time + 1 \/ time' = time
    BY <2>1, <2>2 DEF KernelStep
  <2>4. QED
    BY <1>1, <2>3
<1>5. (reader.on = "tape" => Older(reader.got))'
  <2>1. SUFFICES ASSUME reader.on = "tape" PROVE Older(reader.got)'
    BY <1>3
  <2>2. Older(reader.got) /\ \A i \in 1 .. Len(reader.got) : reader.got[i].time \in Int
    BY <1>1, <2>1, TimesOf
  <2>3. QED
    BY <1>1, <1>3, <1>4, <2>2 DEF Older
<1>6. CASE UNCHANGED tape
  <2>1. \A i \in 1 .. Len(tape) : tape[i].time \in Int
    BY <1>1, TimesOf
  <2>2. Older(tape)'
    BY <1>1, <1>4, <1>6, <2>1 DEF Older
  <2>3. Follows'
    BY <1>1, <1>3, <1>6 DEF Follows
  <2>4. QED
    BY <1>3, <1>5, <2>2, <2>3 DEF OlderInv
<1>7. CASE tape' = <<>>
  BY <1>3, <1>5, <1>7, EmptyFile DEF OlderInv, Older, Follows
<1>8. CASE WriteTape
  <2> DEFINE part == [time |-> time, area |-> area]
  <2>1. tape' = Append(tape, part) /\ part.time = time /\ time' = time
    BY <1>8 DEF WriteTape
  <2> HIDE DEF part
  <2>2. /\ Len(tape) \in Nat /\ Len(tape') = Len(tape) + 1 /\ tape'[Len(tape) + 1].time = time
        /\ \A i \in 1 .. Len(tape) : tape'[i] = tape[i] /\ tape[i].time \in Int
    BY <1>1, <2>1, TimesOf
  <2>3. \A i \in 1 .. Len(tape) : tape[i].time <= time
    BY <1>1 DEF Older
  <2>4. ASSUME NEW i \in 1 .. Len(tape'), NEW j \in 1 .. Len(tape'), i < j
        PROVE  tape'[i].time <= tape'[j].time
    <3>1. CASE j = Len(tape) + 1
      BY <2>2, <2>3, <2>4, <3>1
    <3>2. CASE j # Len(tape) + 1
      <4>1. i \in 1 .. Len(tape) /\ j \in 1 .. Len(tape)
        BY <2>2, <2>4, <3>2
      <4>2. QED
        BY <1>1, <2>2, <2>4, <4>1 DEF Older
    <3>3. QED
      BY <3>1, <3>2
  <2>5. \A i \in 1 .. Len(tape') : tape'[i].time <= time'
    BY <1>1, <2>1, <2>2, <2>3
  <2>6. Older(tape)'
    BY <2>4, <2>5 DEF Older
  <2>7. Follows'
    <3>1. SUFFICES ASSUME reader.on = "tape", NEW i \in 1 .. Len(reader.got),
                          NEW j \in 1 .. Len(tape'), i <= j
                   PROVE  reader.got[i].time <= tape'[j].time
      BY <1>3 DEF Follows
    <3>2. CASE j = Len(tape) + 1
      BY <1>1, <2>2, <3>1, <3>2 DEF Older
    <3>3. CASE j # Len(tape) + 1
      <4>1. j \in 1 .. Len(tape)
        BY <2>2, <3>3
      <4>2. QED
        BY <1>1, <2>2, <3>1, <4>1 DEF Follows
    <3>4. QED
      BY <3>2, <3>3
  <2>8. QED
    BY <1>3, <1>5, <2>6, <2>7 DEF OlderInv
<1>9. KernelStep => UNCHANGED tape \/ tape' = <<>> \/ WriteTape
  BY DEF KernelStep, BeginTick, Finish, OpenTape, OpenMeta, WriteMeta, Step
<1>10. QED
  BY <1>6, <1>7, <1>8, <1>9

\* The visualizer reads on at the place where it is.
LEMMA OlderPoll == ASSUME TypeInv, OlderInv, Poll PROVE OlderInv'
<1> DEFINE got == Append(reader.got, File(reader.on)[Len(reader.got) + 1])
<1>1. /\ time \in Nat /\ tape \in Seq(Part) /\ reader.got \in Seq(Part) /\ ReaderType /\ ShownType
      /\ Older(tape) /\ (reader.on = "tape" => Older(reader.got)) /\ Follows /\ OlderInFront
  BY Constants DEF TypeInv, TypeOK, KernelType, TapeType, ReaderType, OlderInv
<1>2. UNCHANGED <<time, tape>>
  BY PollCases DEF kernelVars
<1>3. Older(tape)'
  BY <1>1, <1>2 DEF Older
<1>4. UNCHANGED shown => OlderInFront'
  BY <1>1 DEF OlderInFront
<1>5. PassesOn => (reader.on = "tape" => Older(reader.got))' /\ Follows'
  <2>1. SUFFICES ASSUME NEW o \in {"none", "tape", "meta", "pc"}, reader' = [Idle EXCEPT !.on = o]
                 PROVE  Older(reader.got)' /\ Follows'
    BY DEF PassesOn
  <2>2. reader'.got = <<>>
    BY <2>1 DEF Idle
  <2>3. QED
    BY <2>2, EmptyFile DEF Older, Follows
<1>6. CASE PassesOn /\ UNCHANGED shown
  BY <1>3, <1>4, <1>5, <1>6 DEF OlderInv
<1>7. CASE UNCHANGED shown /\ reader' = [reader EXCEPT !.open = TRUE]
  <2>1. reader'.on = reader.on /\ reader'.got = reader.got
    BY <1>1, <1>7 DEF ReaderType
  <2>2. QED
    BY <1>1, <1>2, <1>3, <1>4, <1>7, <2>1 DEF OlderInv, Older, Follows
\* What it has with the next part of the tape.
<1>8. ASSUME reader.on = "tape", Len(reader.got) < Len(File(reader.on))
      PROVE  /\ Len(got) = Len(reader.got) + 1
             /\ Older(got)
             /\ \A i \in 1 .. Len(got), j \in 1 .. Len(tape) : i <= j => got[i].time <= tape[j].time
  <2> DEFINE n == Len(reader.got) + 1
  <2>1. /\ n \in 1 .. Len(tape) /\ got = Append(reader.got, tape[n])
        /\ Len(reader.got) \in Nat /\ Len(tape) \in Nat
    BY <1>1, <1>8 DEF File
  <2>2. /\ Len(got) = n /\ got[n] = tape[n]
        /\ \A i \in 1 .. n - 1 : got[i] = reader.got[i] /\ reader.got[i].time \in Int
    BY <1>1, <2>1, TimesOf
  <2>3. \A j \in 1 .. Len(tape) : tape[j].time \in Int
    BY <1>1, TimesOf
  <2> HIDE DEF got
  <2>4. ASSUME NEW i \in 1 .. n, NEW j \in 1 .. Len(tape), i <= j
        PROVE  got[i].time <= tape[j].time
    <3>1. CASE i = n
      BY <1>1, <2>1, <2>2, <2>3, <2>4, <3>1 DEF Older
    <3>2. CASE i # n
      <4>1. i \in 1 .. Len(reader.got) /\ i \in 1 .. n - 1
        BY <2>1, <3>2
      <4>2. QED
        BY <1>1, <1>8, <2>2, <2>4, <4>1 DEF Follows
    <3>3. QED
      BY <3>1, <3>2
  <2>5. ASSUME NEW i \in 1 .. n, NEW j \in 1 .. n, i < j PROVE got[i].time <= got[j].time
    <3>1. CASE j = n
      BY <2>1, <2>2, <2>4, <2>5, <3>1
    <3>2. CASE j # n
      <4>1. i \in 1 .. Len(reader.got) /\ j \in 1 .. Len(reader.got)
        BY <2>1, <2>5, <3>2
      <4>2. QED
        BY <1>1, <1>8, <2>1, <2>2, <2>5, <4>1 DEF Older
    <3>3. QED
      BY <3>1, <3>2
  <2>6. ASSUME NEW i \in 1 .. n PROVE got[i].time <= time
    <3>1. CASE i = n
      BY <1>1, <2>1, <2>2, <3>1 DEF Older
    <3>2. CASE i # n
      <4>1. i \in 1 .. Len(reader.got) /\ i \in 1 .. n - 1
        BY <2>1, <3>2
      <4>2. QED
        BY <1>1, <1>8, <2>2, <4>1 DEF Older
    <3>3. QED
      BY <3>1, <3>2
  <2>7. QED
    BY <2>2, <2>4, <2>5, <2>6 DEF Older
<1>9. CASE UNCHANGED shown /\ TakesPart /\ reader.on # "none"
  <2>1. reader'.got = got /\ reader'.on = reader.on
    BY <1>1, <1>9 DEF TakesPart, ReaderType
  <2>2. CASE reader.on = "tape"
    <3>1. /\ Older(got)
          /\ \A i \in 1 .. Len(got), j \in 1 .. Len(tape) : i <= j => got[i].time <= tape[j].time
      BY <1>8, <1>9, <2>2 DEF TakesPart
    <3> HIDE DEF got
    <3>2. Older(reader.got)' /\ Follows'
      BY <1>2, <2>1, <3>1 DEF Older, Follows
    <3>3. QED
      BY <1>3, <1>4, <1>9, <3>2 DEF OlderInv
  <2>3. CASE reader.on # "tape"
    BY <1>3, <1>4, <1>9, <2>1, <2>3 DEF OlderInv, Follows
  <2>4. QED
    BY <2>2, <2>3
<1>10. CASE ShowsFile
  <2>1. PassesOn /\ Show(reader.on, got) /\ reader.on # "none"
        /\ Len(reader.got) < Len(File(reader.on))
    BY <1>10 DEF ShowsFile
  <2>2. OlderInFront'
    <3>1. CASE reader.on = "tape"
      <4>1. Older(got)
        BY <1>8, <2>1, <3>1
      <4> HIDE DEF got
      <4>2. shown' = [shown EXCEPT !.tape = got]
        BY <2>1, <3>1 DEF Show
      <4>3. shown'.tape = got
        BY <1>1, <4>2 DEF ShownType
      <4>4. QED
        BY <4>1, <4>3 DEF Older, OlderInFront
    <3>2. CASE reader.on # "tape"
      <4> HIDE DEF got
      <4>1. shown' = [shown EXCEPT !.meta = got] \/ shown' = [shown EXCEPT !.pc = got[1].time]
        BY <1>1, <2>1, <3>2 DEF Show, ReaderType
      <4>2. shown'.tape = shown.tape
        BY <1>1, <4>1 DEF ShownType
      <4>3. QED
        BY <1>1, <4>2 DEF OlderInFront
    <3>3. QED
      BY <3>1, <3>2
  <2>3. QED
    BY <1>3, <1>5, <2>1, <2>2 DEF OlderInv
<1>11. QED
  BY <1>6, <1>7, <1>9, <1>10, PollCases

\* However the two processes interleave, a tape that is shown is put together
\* from snapshots in their order.
THEOREM TornInOrder == Spec => []OlderInFront
<1>1. Init => OlderInv
  <2> SUFFICES ASSUME Init PROVE OlderInv
    OBVIOUS
  <2>1. \A i \in 1 .. Len(OldTape) : OldTape[i].time = 0
    BY Constants DEF OldTape
  <2>2. time = 0 /\ reader.on = "none" /\ shown.tape = <<>> /\ tape \in {<<>>, OldTape}
    BY DEF Init, Idle, Blank
  <2>3. \A i \in 1 .. Len(tape) : tape[i].time = 0
    BY <2>1, <2>2
  <2>4. Older(tape)
    BY <2>2, <2>3 DEF Older
  <2>5. QED
    BY <2>2, <2>4, EmptyFile DEF OlderInv, Follows, OlderInFront
<1>2. TypeInv /\ OlderInv /\ [Next]_vars => OlderInv'
  <2> SUFFICES ASSUME TypeInv, OlderInv, [Next]_vars PROVE OlderInv'
    OBVIOUS
  <2>1. CASE Pause \/ UNCHANGED vars
    <3>1. UNCHANGED <<time, tape, reader, shown>>
      BY <2>1 DEF Pause, vars, kernelVars, viewerVars
    <3>2. QED
      BY <3>1 DEF OlderInv, Older, Follows, OlderInFront
  <2>2. QED
    BY <2>1, OlderKernel, OlderPoll DEF Next
<1>3. OlderInv => OlderInFront
  BY DEF OlderInv
<1>4. QED
  BY <1>1, <1>2, <1>3, TypeInvariant, PTL DEF Spec

-----------------------------------------------------------------------------
(* The META area in the tape.                                              *)

Img(s) == {s[i] : i \in 1 .. Len(s)}

\* Every part there is, in the files, in the visualizer and on the screen.
Parts == Img(tape) \cup Img(meta) \cup Img(reader.got) \cup Img(shown.tape) \cup Img(shown.meta)

Filing == at \in {"open_tape", "write_tape", "open_meta", "write_meta"}

\* Parts of one time agree, none is of the future, and while the files are
\* written the META area is what the kernel tells, and so are the parts of now.
Agree ==
    /\ \A p \in Parts : p.time <= time
    /\ \A p, q \in Parts : p.time = q.time => p.area = q.area
    /\ Filing => area = Told /\ \A p \in Parts : p.time = time => p.area = Told

\* A file that is written on.
LEMMA ImgAppend ==
    ASSUME NEW s \in Seq(Part), NEW e \in Part
    PROVE  Img(Append(s, e)) \subseteq Img(s) \cup {e}
<1>1. /\ Len(s) \in Nat /\ Len(Append(s, e)) = Len(s) + 1 /\ Append(s, e)[Len(s) + 1] = e
      /\ \A i \in 1 .. Len(s) : Append(s, e)[i] = s[i]
  OBVIOUS
<1>2. ASSUME NEW i \in 1 .. Len(s) + 1 PROVE i = Len(s) + 1 \/ i \in 1 .. Len(s)
  BY <1>1
<1>3. QED
  BY <1>1, <1>2 DEF Img

LEMMA ImgEmpty == Img(<<>>) = {}
BY EmptyFile DEF Img

\* The parts are typed.
LEMMA PartsTyped == ASSUME TypeInv PROVE Parts \subseteq Part /\ \A p \in Parts : p.time \in Nat
<1>1. ASSUME NEW s \in Seq(Part) PROVE Img(s) \subseteq Part
  BY DEF Img
<1>2. /\ tape \in Seq(Part) /\ meta \in Seq(Part) /\ reader.got \in Seq(Part)
      /\ shown.tape \in Seq(Part) /\ shown.meta \in Seq(Part)
  BY DEF TypeInv, TypeOK, TapeType, MetaType, ReaderType, ShownType
<1>3. Parts \subseteq Part
  BY <1>1, <1>2, Zenon DEF Parts
<1>4. \A p \in Part : p.time \in Nat
  BY Constants DEF Part
<1>5. QED
  BY <1>3, <1>4

\* No step of the visualizer makes a part.
LEMMA PartsPoll == ASSUME TypeInv, Poll PROVE Parts' \subseteq Parts
<1> DEFINE next == File(reader.on)[Len(reader.got) + 1]
           got  == Append(reader.got, next)
<1>1. /\ tape \in Seq(Part) /\ meta \in Seq(Part) /\ reader.got \in Seq(Part)
      /\ ReaderType /\ ShownType
  BY DEF TypeInv, TypeOK, TapeType, MetaType, ReaderType
<1>2. UNCHANGED <<tape, meta>>
  BY PollCases DEF kernelVars
<1>3. PassesOn => Img(reader'.got) = {}
  BY ImgEmpty DEF PassesOn, Idle
<1>4. ASSUME Len(reader.got) < Len(File(reader.on)) PROVE Img(got) \subseteq Parts
  <2>1. Len(reader.got) \in Nat /\ Len(File(reader.on)) \in Nat
        /\ File(reader.on) \in Seq(Part) /\ File(reader.on) \in {tape, meta}
    BY <1>1 DEF File
  <2>2. next \in Img(File(reader.on)) /\ next \in Part
    BY <1>4, <2>1 DEF Img
  <2>3. next \in Parts
    BY <2>1, <2>2 DEF Parts
  <2> HIDE DEF next
  <2>4. Img(got) \subseteq Img(reader.got) \cup {next}
    BY <1>1, <2>2, ImgAppend
  <2>5. QED
    BY <2>3, <2>4, Zenon DEF Parts
<1>5. CASE PassesOn /\ UNCHANGED shown
  BY <1>2, <1>3, <1>5, Zenon DEF Parts
<1>6. CASE UNCHANGED shown /\ reader' = [reader EXCEPT !.open = TRUE]
  <2>1. reader'.got = reader.got
    BY <1>1, <1>6 DEF ReaderType
  <2>2. QED
    BY <1>2, <1>6, <2>1 DEF Parts
<1>7. CASE UNCHANGED shown /\ TakesPart
  <2>1. reader'.got = got
    BY <1>1, <1>7 DEF TakesPart, ReaderType
  <2>2. Img(got) \subseteq Parts
    BY <1>4, <1>7 DEF TakesPart
  <2> HIDE DEF got
  <2>3. QED
    BY <1>2, <1>7, <2>1, <2>2 DEF Parts
<1>8. CASE ShowsFile
  <2>1. PassesOn /\ Show(reader.on, got) /\ reader.on \in {"tape", "meta", "pc"}
        /\ Img(got) \subseteq Parts
    BY <1>1, <1>4, <1>8 DEF ShowsFile, ReaderType
  <2> HIDE DEF got
  <2>2. \/ shown' = [shown EXCEPT !.tape = got] \/ shown' = [shown EXCEPT !.meta = got]
        \/ shown' = [shown EXCEPT !.pc = got[1].time]
    BY <2>1 DEF Show
  <2>3. /\ shown'.tape = shown.tape \/ shown'.tape = got
        /\ shown'.meta = shown.meta \/ shown'.meta = got
    BY <1>1, <2>2 DEF ShownType
  <2>4. Img(shown'.tape) \subseteq Parts /\ Img(shown'.meta) \subseteq Parts
    <3>1. Img(shown.tape) \subseteq Parts /\ Img(shown.meta) \subseteq Parts
      BY Zenon DEF Parts
    <3>2. QED
      BY <2>1, <2>3, <3>1
  <2>5. Img(tape') \subseteq Parts /\ Img(meta') \subseteq Parts /\ Img(reader'.got) = {}
    BY <1>2, <1>3, <2>1 DEF Parts
  <2>6. Parts' = Img(tape') \cup Img(meta') \cup Img(reader'.got) \cup Img(shown'.tape) \cup Img(shown'.meta)
    BY DEF Parts, Img
  <2>7. QED
    BY <2>4, <2>5, <2>6
<1>9. QED
  BY <1>5, <1>6, <1>7, <1>8, PollCases

\* While it turns to the files the kernel makes parts that tell the state;
\* otherwise it makes none.
LEMMA PartsKernel ==
    ASSUME TypeInv, Agree, KernelStep
    PROVE  \/ Parts' \subseteq Parts
           \/ Filing /\ UNCHANGED <<time, k, area>>
              /\ Parts' \subseteq Parts \cup {[time |-> time, area |-> Told]}
<1>1. tape \in Seq(Part) /\ meta \in Seq(Part)
  BY DEF TypeInv, TypeOK, TapeType, MetaType
<1>2. UNCHANGED <<reader, shown>>
  BY DEF KernelStep, BeginTick, Finish, OpenTape, WriteTape, OpenMeta, WriteMeta, Step, viewerVars
<1>3. CASE UNCHANGED <<tape, meta>>
  BY <1>2, <1>3 DEF Parts
<1>4. CASE tape' = <<>> /\ UNCHANGED meta
  BY <1>2, <1>4, ImgEmpty DEF Parts
<1>5. CASE meta' = <<>> /\ UNCHANGED tape
  BY <1>2, <1>5, ImgEmpty DEF Parts
<1>6. CASE WriteTape
  <2> DEFINE part == [time |-> time, area |-> area]
  <2>1. tape' = Append(tape, part) /\ Filing /\ UNCHANGED <<time, k, area, meta>>
    BY <1>6 DEF WriteTape, Filing
  <2>2. part \in Part /\ part = [time |-> time, area |-> Told]
    BY <2>1, PartTypes DEF TypeInv, TypeOK, Agree
  <2> HIDE DEF part
  <2>3. Img(tape') \subseteq Img(tape) \cup {part}
    BY <1>1, <2>1, <2>2, ImgAppend
  <2>4. QED
    BY <1>2, <2>1, <2>2, <2>3 DEF Parts
<1>7. CASE WriteMeta
  <2> DEFINE part == [time |-> time, area |-> [Told EXCEPT !.dirty = area.dirty]]
  <2>1. meta' = <<part>> /\ Filing /\ UNCHANGED <<time, k, area, tape>>
    BY <1>7 DEF WriteMeta, Filing
  <2>2. part = [time |-> time, area |-> Told]
    BY <2>1 DEF Agree, Told
  <2> HIDE DEF part
  <2>3. Img(meta') = {part}
    BY <2>1 DEF Img
  <2>4. QED
    BY <1>2, <2>1, <2>2, <2>3 DEF Parts
<1>8. KernelStep => \/ UNCHANGED <<tape, meta>>
                    \/ tape' = <<>> /\ UNCHANGED meta
                    \/ meta' = <<>> /\ UNCHANGED tape
                    \/ WriteTape \/ WriteMeta
  BY DEF KernelStep, BeginTick, Finish, OpenTape, OpenMeta, Step
<1>9. QED
  BY <1>3, <1>4, <1>5, <1>6, <1>7, <1>8

\* The parts there are go on agreeing when the kernel makes a step.
LEMMA AgreeKernel == ASSUME TypeInv, Agree, KernelStep PROVE Agree'
<1> DEFINE now == [time |-> time, area |-> Told]
<1>1. time \in Nat /\ \A p \in Parts : p.time \in Nat
  BY PartsTyped, Constants DEF TypeInv, TypeOK, KernelType
<1>2. CASE Filing /\ UNCHANGED <<time, k, area>> /\ Parts' \subseteq Parts \cup {now}
  <2>1. Told' = Told
    BY <1>2 DEF Told
  <2>2. now.time = time /\ now.area = Told
    OBVIOUS
  <2>3. \A p \in Parts : p.time <= time /\ (p.time = time => p.area = Told)
    BY <1>2 DEF Agree
  <2> HIDE DEF now
  <2>4. \A p \in Parts' : p.time <= time /\ (p.time = time => p.area = Told)
    BY <1>1, <1>2, <2>2, <2>3
  <2>5. ASSUME NEW p \in Parts', NEW q \in Parts', p.time = q.time PROVE p.area = q.area
    <3>1. CASE p = now \/ q = now
      BY <2>2, <2>4, <2>5, <3>1
    <3>2. CASE p \in Parts /\ q \in Parts
      BY <2>5, <3>2 DEF Agree
    <3>3. QED
      BY <1>2, <3>1, <3>2
  <2>6. QED
    BY <1>2, <2>1, <2>4, <2>5 DEF Agree
<1>3. CASE Parts' \subseteq Parts
  <2>1. \A p \in Parts' : p.time <= time /\ p.time \in Nat
    BY <1>1, <1>3 DEF Agree
  <2>2. \A p, q \in Parts' : p.time = q.time => p.area = q.area
    BY <1>3 DEF Agree
  <2>3. CASE BeginTick \/ Finish
    <3>1. time' = time + 1 /\ area' = Told
      BY <2>3 DEF BeginTick, Finish
    <3>2. Told' = Told
      <4>1. k'.state = k.state /\ k'.steps = k.steps
        BY <2>3 DEF BeginTick, Finish, TypeInv, TypeOK, KernelType
      <4>2. QED
        BY <4>1 DEF Told
    <3>3. \A p \in Parts' : p.time <= time' /\ p.time # time'
      BY <1>1, <2>1, <3>1
    <3>4. QED
      BY <2>2, <3>1, <3>2, <3>3 DEF Agree
  <2>4. CASE OpenTape \/ WriteTape \/ OpenMeta \/ WriteMeta
    <3>1. UNCHANGED <<time, k, area>> /\ Filing
      BY <2>4 DEF OpenTape, WriteTape, OpenMeta, WriteMeta, Filing
    <3>2. Told' = Told
      BY <3>1 DEF Told
    <3>3. QED
      BY <1>3, <2>1, <2>2, <3>1, <3>2 DEF Agree
  <2>5. CASE Step
    <3>1. time' = time /\ ~Filing'
      BY <2>5 DEF Step, Filing
    <3>2. QED
      BY <2>1, <2>2, <3>1 DEF Agree
  <2>6. QED
    BY <2>3, <2>4, <2>5 DEF KernelStep
<1>4. QED
  BY <1>2, <1>3, PartsKernel

\* Whatever programs write to the META area, and however the two processes
\* interleave, the tape and the META record that are shown agree on the state
\* of the kernel if they are of one time.
THEOREM MetaAgrees == Spec => []MetaInTape
<1>1. Init => Agree
  <2> SUFFICES ASSUME Init PROVE Agree
    OBVIOUS
  <2>1. Img(OldTape) \subseteq {[time |-> 0, area |-> OldArea]} /\ Img(OldMeta) = {[time |-> 0, area |-> OldArea]}
    BY Constants DEF Img, OldTape, OldMeta
  <2>2. /\ time = 0 /\ at = "tick" /\ reader.got = <<>> /\ shown.tape = <<>> /\ shown.meta = <<>>
        /\ tape \in {<<>>, OldTape} /\ meta \in {<<>>, OldMeta}
    BY DEF Init, Idle, Blank
  <2>3. Parts \subseteq {[time |-> 0, area |-> OldArea]}
    BY <2>1, <2>2, ImgEmpty DEF Parts
  <2>4. QED
    BY <2>2, <2>3 DEF Agree, Filing
<1>2. TypeInv /\ Agree /\ [Next]_vars => Agree'
  <2> SUFFICES ASSUME TypeInv, Agree, [Next]_vars PROVE Agree'
    OBVIOUS
  <2>1. CASE Poll
    <3>1. UNCHANGED <<time, k, area, at>> /\ Parts' \subseteq Parts
      BY <2>1, PollCases, PartsPoll DEF kernelVars
    <3>2. Told' = Told /\ Filing' = Filing
      BY <3>1 DEF Told, Filing
    <3>3. QED
      BY <3>1, <3>2 DEF Agree
  <2>2. CASE Pause \/ UNCHANGED vars
    <3>1. UNCHANGED <<time, k, area, at, tape, meta, reader, shown>>
      BY <2>2 DEF Pause, vars, kernelVars, viewerVars
    <3>2. Parts' = Parts /\ Told' = Told /\ Filing' = Filing
      BY <3>1 DEF Parts, Told, Filing
    <3>3. QED
      BY <3>1, <3>2 DEF Agree
  <2>3. QED
    BY <2>1, <2>2, AgreeKernel DEF Next
<1>3. TypeInv /\ Agree => MetaInTape
  <2> SUFFICES ASSUME TypeInv, Agree, shown.tape # <<>>, shown.meta # <<>>,
                      shown.tape[Chunks].time = shown.meta[1].time
               PROVE  shown.tape[Chunks].area = shown.meta[1].area
    BY DEF MetaInTape
  <2>1. /\ shown.tape \in Seq(Part) /\ shown.meta \in Seq(Part)
        /\ Len(shown.tape) \in {0, Chunks}
    BY DEF TypeInv, TypeOK, ShownType
  <2>2. Len(shown.tape) = Chunks /\ Len(shown.meta) \in Nat \ {0}
    BY <2>1, Constants
  <2>3. shown.tape[Chunks] \in Parts /\ shown.meta[1] \in Parts
    BY <2>2, Constants DEF Parts, Img
  <2>4. QED
    BY <2>3 DEF Agree
<1>4. QED
  BY <1>1, <1>2, <1>3, TypeInvariant, PTL DEF Spec

=============================================================================
