------------------------------ MODULE Commands ------------------------------
(***************************************************************************)
(* The BIOS calls of TuringOS that work on files (src/bios/bios.c): type,  *)
(* run, del and cc, each of them a sequence of calls of the file system,   *)
(* any of which may fail, and between any two accesses to the disk the     *)
(* process may be killed.  Bios has their outcomes for the kernel; here    *)
(* are their steps.                                                        *)
(*                                                                         *)
(* Of what a call has read it matters how much it is and whether it is the *)
(* file from its first byte on, without a gap or a repetition.  Of the     *)
(* compiler it matters that it refuses a source or yields a program of     *)
(* some length; a program is made of one byte, which tells it from others. *)
(***************************************************************************)
EXTENDS FileSystem

CONSTANTS
    ComName,    \* The .com file of each .c file (bios_derive_com_name);
                \* other names are refused.
    Buffer,     \* Bytes type and run read at a time (256).
    TpaSize,    \* Bytes of the TPA from 0x0100 on.
    SourceMax,  \* Bytes cc asks for in all (16383); a source must be shorter.
    Outputs,    \* Lengths of compiled programs.
    Images      \* Disks on which the machine may be started: a bound.

ASSUME CommandsAssumption ==
    /\ ComName \in [DOMAIN ComName -> Spellings] /\ DOMAIN ComName \subseteq Spellings
    /\ {Buffer, TpaSize, SourceMax} \subseteq Nat \ {0}
    /\ Outputs \subseteq Nat \ {0}
    /\ Images \subseteq ImageType

VARIABLE
    cmd         \* The BIOS call: which, of which file, where it is; its handle;
                \* the bytes it has read and whether they are the file's first;
                \* the program to write; what comes after the close, or, of a
                \* call that has ended, whether it went well.

allVars == <<vars, cmd>>

NoCommand == [call |-> "none", sp |-> "", at |-> "idle", fh |-> 0, n |-> 0, same |-> TRUE,
              size |-> 0, byte |-> 0, then |-> "ok"]

CommandInit ==
    /\ disk \in Images /\ durable = disk
    /\ mounted = FALSE
    /\ handle = [h \in Handles |-> ClosedHandle]
    /\ job = NoJob /\ dirty = FALSE
    /\ ret = Result("call", 0)
    /\ cmd = NoCommand

-----------------------------------------------------------------------------
(* How a call goes on.                                                     *)

GoesTo(place) == [cmd EXCEPT !.at = place]

Closes(then) == [cmd EXCEPT !.at = "close", !.then = then]

\* The question mark is printed.
Failed == [NoCommand EXCEPT !.then = "error"]

EndsWell == [cmd EXCEPT !.at = "idle", !.then = "ok"]

\* The file cc writes.
Com == ComName[cmd.sp]

\* A program asks for a call; g_type_name holds the name.
Begin(call, sp) ==
    /\ mounted /\ cmd.at = "idle"
    /\ LET asked == [NoCommand EXCEPT !.call = call, !.sp = sp]
       IN  cmd' = CASE call = "DEL"                           -> [asked EXCEPT !.at = "delete"]
                    [] call = "CC" /\ sp \notin DOMAIN ComName -> Failed
                    [] OTHER                                  -> [asked EXCEPT !.at = "open"]
    /\ UNCHANGED vars

OpenFile ==
    /\ cmd.at = "open"
    /\ Open(cmd.sp)
    /\ cmd' = IF ret'.rc < 0 THEN Failed ELSE [GoesTo("read") EXCEPT !.fh = ret'.rc]

-----------------------------------------------------------------------------
(* The loops that read a file.                                             *)

Want == IF cmd.call = "CC" THEN SourceMax - cmd.n ELSE Buffer

\* What has been read with r more bytes: the first ones of the file if the
\* read was made where the last one ended.
Took(r) == [cmd EXCEPT !.n = @ + r, !.same = @ /\ handle[cmd.fh].pos = cmd.n]

\* Where the call goes when it has it all.
AfterReading == IF cmd.call = "CC" THEN "compile" ELSE "ok"

\* What was read does not fit: into the TPA, or into the source buffer.
TooLong(n) == \/ cmd.call = "RUN" /\ n > TpaSize
              \/ cmd.call = "CC" /\ n >= SourceMax

\* A source that fills the buffer is compiled as far as it was read.
ReadFile_CutsSource ==
    /\ cmd.at = "read"
    /\ Read(cmd.fh, Want)
    /\ LET r == ret'.rc
       IN  cmd' = IF r < 0 /\ cmd.call = "CC" THEN Closes("error")
                  ELSE IF r <= 0 THEN Closes(AfterReading)
                  ELSE IF TooLong(cmd.n + r)
                  THEN [Took(r) EXCEPT !.at = "close", !.then = AfterReading]
                  ELSE Took(r)

\* The end of the TPA is not looked for.
ReadFile_NoEnd ==
    /\ cmd.at = "read"
    /\ Read(cmd.fh, Want)
    /\ LET r == ret'.rc
       IN  cmd' = IF r < 0 /\ cmd.call = "CC" THEN Closes("error")
                  ELSE IF r <= 0 THEN Closes(AfterReading)
                  ELSE IF cmd.call = "CC" /\ TooLong(cmd.n + r) THEN Closes("error")
                  ELSE Took(r)

\* A read of nothing is made again.
ReadFile_Again ==
    /\ cmd.at = "read"
    /\ Read(cmd.fh, Want)
    /\ LET r == ret'.rc
       IN  cmd' = IF r < 0 /\ cmd.call = "CC" THEN Closes("error")
                  ELSE IF r < 0 THEN Closes(AfterReading)
                  ELSE IF TooLong(cmd.n + r) THEN Closes("error")
                  ELSE Took(r)

\* One fs_read: type and run take a failure for the end of the file.
ReadFile ==
    /\ cmd.at = "read"
    /\ Read(cmd.fh, Want)
    /\ LET r == ret'.rc
       IN  cmd' = IF r < 0 /\ cmd.call = "CC" THEN Closes("error")
                  ELSE IF r <= 0 THEN Closes(AfterReading)
                  ELSE IF TooLong(cmd.n + r) THEN Closes("error")
                  ELSE Took(r)

\* The image is not flushed.
CloseFile_NoFlush ==
    /\ cmd.at = "close"
    /\ Close(cmd.fh)
    /\ cmd' = CASE cmd.then = "error"           -> Failed
                [] cmd.then \in {"ok", "flush"} -> EndsWell
                [] OTHER                        -> GoesTo(cmd.then)

\* fs_close, and what comes after it.
CloseFile ==
    /\ cmd.at = "close"
    /\ Close(cmd.fh)
    /\ cmd' = CASE cmd.then = "error" -> Failed
                [] cmd.then = "ok"    -> EndsWell
                [] OTHER              -> GoesTo(cmd.then)

-----------------------------------------------------------------------------
(* The rest of del and cc.                                                 *)

\* The stage files and cc_compile: the source is refused, or there is a
\* program.
CompileSource ==
    /\ cmd.at = "compile"
    /\ \/ cmd' = Failed
       \/ \E size \in Outputs, byte \in Payloads :
             cmd' = [GoesTo("replace") EXCEPT !.size = size, !.byte = byte]
    /\ UNCHANGED vars

\* An old program is opened to be written over.
LookForOld_InPlace ==
    /\ cmd.at = "replace"
    /\ Open(Com)
    /\ cmd' = IF ret'.rc < 0 THEN GoesTo("create") ELSE [GoesTo("write") EXCEPT !.fh = ret'.rc]

LookForOld ==
    /\ cmd.at = "replace"
    /\ Exists(Com)
    /\ cmd' = GoesTo(IF ret'.rc = 1 THEN "delete" ELSE "create")

\* fs_delete: of del's file, or of the old program of cc.
DeleteFile ==
    /\ cmd.at = "delete"
    /\ Delete(IF cmd.call = "CC" THEN Com ELSE cmd.sp)
    /\ cmd' = IF ret'.rc # 0 THEN Failed
              ELSE IF cmd.call = "CC" THEN GoesTo("create") ELSE EndsWell

CreateFile ==
    /\ cmd.at = "create"
    /\ Create(Com)
    /\ cmd' = IF ret'.rc < 0 THEN Failed ELSE [GoesTo("write") EXCEPT !.fh = ret'.rc]

\* fs_write is called, and refuses at once or starts.
StartWrite ==
    /\ cmd.at = "write"
    /\ \/ WriteRefused(cmd.fh, cmd.size) /\ cmd' = Closes("error")
       \/ WriteBegin(cmd.fh, cmd.size, cmd.byte) /\ cmd' = GoesTo("writing")

WriteSectors == cmd.at = "writing" /\ (WriteInPlace \/ WriteAllocating) /\ UNCHANGED cmd

\* A call that could not write it all leaves the file open.
EndWrite_LeavesOpen ==
    /\ cmd.at = "writing"
    /\ WriteSectorFails \/ WriteEnd \/ WriteEndFails
    /\ cmd' = IF ret'.rc = cmd.size THEN Closes("flush") ELSE Failed

EndWrite ==
    /\ cmd.at = "writing"
    /\ WriteSectorFails \/ WriteEnd \/ WriteEndFails
    /\ cmd' = Closes(IF ret'.rc = cmd.size THEN "flush" ELSE "error")

\* fs_flush tells nothing.
FlushDisk == cmd.at = "flush" /\ Flush /\ cmd' = EndsWell

-----------------------------------------------------------------------------
CommandStep ==
    \/ OpenFile \/ ReadFile \/ CloseFile \/ CompileSource \/ LookForOld
    \/ DeleteFile \/ CreateFile \/ StartWrite \/ WriteSectors \/ EndWrite \/ FlushDisk

\* kernel_init; without a disk the calls are refused, which FileSystem shows.
Boot == ~mounted /\ FsInit /\ UNCHANGED cmd

\* The process is killed, or ends when the machine halts.
Killed == Crash /\ cmd' = NoCommand
Leaves == cmd.at = "idle" /\ Exit /\ cmd' = NoCommand

CommandNext ==
    \/ \E call \in {"TYPE", "RUN", "DEL", "CC"}, sp \in Spellings : Begin(call, sp)
    \/ CommandStep
    \/ Boot
    \/ Killed
    \/ Leaves

\* A call that has been made runs on.
CommandSpec == CommandInit /\ [][CommandNext]_allVars /\ WF_allVars(CommandStep)

-----------------------------------------------------------------------------
(* The disks fs.c makes: no sector in two places, one entry of a name, no  *)
(* file with a hole.                                                       *)

\* Every slot the size of a file covers has a sector.
NoHoles(dir) ==
    \A e \in Entries : dir[e].active =>
        /\ dir[e].count <= SlotsPerFile
        /\ \A s \in Slots : s < dir[e].count => dir[e].alloc[s] # 0

ImageSound(image) ==
    SectorsOwnedOnce(image.dir) /\ OneEntryPerName(image.dir) /\ NoHoles(image.dir)

-----------------------------------------------------------------------------
(* What must hold.                                                         *)

\* The types, and the limits: run writes nothing past the TPA, cc nothing
\* past its buffer.
CommandTypeOK ==
    /\ TypeOK
    /\ cmd.call \in {"none", "TYPE", "RUN", "DEL", "CC"}
    /\ cmd.fh \in Handles /\ cmd.same \in BOOLEAN /\ cmd.size \in Nat /\ cmd.n \in Nat
    /\ cmd.call = "RUN" => cmd.n <= TpaSize
    /\ cmd.call = "CC" => cmd.n < SourceMax

\* What has been read is the whole of the file, and the file as it is now.
HasWhole == /\ cmd.same
            /\ \E e \in Entries : /\ Found(disk.dir, CpmName[cmd.sp], e)
                                  /\ cmd.n = SizeOf(disk.dir[e])

\* What type and run have taken when they report no error, and what cc
\* compiles, is the whole file (spec.md: "Print file contents", "Load and
\* execute a .com binary", "Compile a .c source file").
TakesWhole ==
    (cmd.at = "idle" /\ cmd.then = "ok" /\ cmd.call \in {"TYPE", "RUN"}) \/ cmd.at = "compile"
        => HasWhole

\* The bytes of file e of an image are a program of some call of cc, cut off
\* at a sector or not at all: one byte throughout, but for the zeros that
\* fill the last sector.
ByteOf(image, e, q) == image.sec[image.dir[e].alloc[SlotOf(q)] - 1][q % SectorBytes]

OneProgram(image, e) ==
    \A p, q \in 0 .. SizeOf(image.dir[e]) - 1 :
        p < q /\ ByteOf(image, e, q) # 0 => ByteOf(image, e, p) = ByteOf(image, e, q)

ComNames == {CpmName[ComName[sp]] : sp \in DOMAIN ComName}

Unmixed(image) ==
    \A e \in Entries :
        image.dir[e].active /\ image.dir[e].name \in ComNames => OneProgram(image, e)

\* Whatever fails and whenever the process is killed, a .com file is never
\* part of one program and part of another, in what the process sees and in
\* what is left on the host: cc deletes the old file before it writes.
NeverMixed == Unmixed(disk) /\ Unmixed(durable)

\* When cc has ended well, the program is whole and in the host file: a kill
\* does not lose it any more.
Saved ==
    cmd.at = "idle" /\ cmd.call = "CC" =>
        /\ durable = disk
        /\ \E e \in Entries :
              /\ Found(disk.dir, CpmName[Com], e)
              /\ SizeOf(disk.dir[e]) >= cmd.size /\ SizeOf(disk.dir[e]) < cmd.size + SectorBytes
              /\ \A q \in 0 .. cmd.size - 1 : ByteOf(disk, e, q) = cmd.byte

\* However a call ends, it leaves no handle behind; OpenMax such calls would
\* leave the machine without files.
NoHandleLeft == cmd.at = "idle" => FreeHandles = Handles

\* Every call ends.
CommandEnds == cmd.at # "idle" ~> cmd.at = "idle"
=============================================================================
