--------------------------- MODULE CommandsProofs ---------------------------
(***************************************************************************)
(* Theorems about Commands, for every disk, set of names, buffer and limit *)
(* the assumptions allow.                                                  *)
(***************************************************************************)
EXTENDS Commands, FileSystemProofs

-----------------------------------------------------------------------------
(* The inductive invariant: where a call is, and the handle it has.        *)

Calls == {"TYPE", "RUN", "DEL", "CC"}

\* The places of a call that has a file open, and those that only cc reaches.
Holding == {"read", "close", "write", "writing"}
OfCc    == {"compile", "replace", "create", "write", "writing", "flush"}
Places  == {"idle", "open", "delete"} \cup Holding \cup OfCc

CmdType == [call : Calls \cup {"none"}, sp : Spellings \cup {""}, at : Places,
            fh : Handles, n : Nat, same : BOOLEAN, size : Nat,
            byte : Payloads \cup {0}, then : {"ok", "error", "compile", "flush"}]

\* A call that runs was made, of a file, on a disk that is there.
Asked ==
    /\ cmd.at # "idle" => mounted /\ cmd.call \in Calls /\ cmd.sp \in Spellings
    /\ cmd.call = "CC" => cmd.sp \in DOMAIN ComName
    /\ cmd.at \in OfCc => cmd.call = "CC"
    /\ cmd.at = "close" /\ cmd.then \in {"compile", "flush"} => cmd.call = "CC"
    /\ cmd.at \in {"replace", "create", "write"} \/ (cmd.at = "delete" /\ cmd.call = "CC")
          => cmd.byte \in Payloads

\* One handle is open while the call has one, and fs_write runs on it.
OneHandle ==
    /\ job.busy <=> cmd.at = "writing"
    /\ job.busy => job.fh = cmd.fh
    /\ \A h \in Handles : handle[h].used <=> cmd.at \in Holding /\ h = cmd.fh

Limits == /\ cmd.call = "RUN" => cmd.n <= TpaSize
          /\ cmd.call = "CC" => cmd.n < SourceMax

CommandInv == TypeOK /\ cmd \in CmdType /\ Asked /\ OneHandle /\ Limits

LEMMA NoCommandType ==
    /\ NoCommand \in CmdType /\ Failed \in CmdType
    /\ NoCommand.at = "idle" /\ NoCommand.call = "none"
    /\ Failed.at = "idle" /\ Failed.call = "none" /\ Failed.then = "error"
BY ZeroInRange DEF NoCommand, Failed, CmdType, Places

\* A call that is over, or never was.
LEMMA CommandOver ==
    ASSUME TypeOK', cmd' \in {NoCommand, Failed}, ~job'.busy,
           \A h \in Handles : ~handle'[h].used
    PROVE  CommandInv'
<1>1. cmd' \in CmdType /\ cmd'.at = "idle" /\ cmd'.call = "none"
  BY NoCommandType
<1>2. Asked' /\ Limits'
  BY <1>1 DEF Asked, Limits, OfCc
<1>3. OneHandle'
  BY <1>1 DEF OneHandle, Holding
<1>4. QED
  BY <1>1, <1>2, <1>3 DEF CommandInv

-----------------------------------------------------------------------------
(* Every step is an operation of the file system.                          *)

LEMMA ComIsSpelling ==
    ASSUME cmd.sp \in DOMAIN ComName
    PROVE  Com \in Spellings
BY CommandsAssumption DEF Com

LEMMA Sizes ==
    /\ Buffer \in Nat /\ Buffer > 0
    /\ TpaSize \in Nat
    /\ SourceMax \in Nat /\ SourceMax > 0
<1>1. {Buffer, TpaSize, SourceMax} \subseteq Nat \ {0}
  BY CommandsAssumption
<1>2. QED
  BY <1>1

LEMMA WantType ==
    ASSUME cmd \in CmdType, Limits
    PROVE  Want \in Nat /\ Want > 0
<1>1. cmd.n \in Nat
  BY DEF CmdType
<1>2. QED
  BY <1>1, Sizes DEF Want, Limits

LEMMA StepsOperate ==
    ASSUME CommandInv, [CommandNext]_allVars
    PROVE  [Operation]_vars
<1>0. cmd \in CmdType /\ Asked /\ cmd.fh \in HandleArgs
  <2>1. cmd \in CmdType /\ Asked
    BY DEF CommandInv
  <2>2. cmd.fh \in Handles
    BY <2>1 DEF CmdType
  <2>3. OpenMax \in Nat
    BY FileSystemAssumption
  <2>4. QED
    BY <2>1, <2>2, <2>3 DEF Handles, HandleArgs
<1>1. ASSUME NEW call, NEW sp, Begin(call, sp) PROVE UNCHANGED vars
  BY <1>1 DEF Begin
<1>2. CASE OpenFile
  <2>1. cmd.sp \in Spellings
    BY <1>0, <1>2 DEF OpenFile, Asked
  <2>2. QED
    BY <1>2, <2>1 DEF OpenFile, Operation
<1>3. CASE ReadFile
  <2>1. Want \in Nat
    BY WantType DEF CommandInv
  <2>2. QED
    BY <1>0, <1>3, <2>1 DEF ReadFile, Operation
<1>4. CASE CloseFile
  BY <1>0, <1>4 DEF CloseFile, Operation
<1>5. CASE CompileSource
  BY <1>5 DEF CompileSource
<1>6. CASE LookForOld \/ CreateFile
  <2>1. Com \in Spellings
    BY <1>0, <1>6, ComIsSpelling DEF LookForOld, CreateFile, Asked, OfCc
  <2>2. QED
    BY <1>6, <2>1 DEF LookForOld, CreateFile, Operation
<1>7. CASE DeleteFile
  <2>1. (IF cmd.call = "CC" THEN Com ELSE cmd.sp) \in Spellings
    BY <1>0, <1>7, ComIsSpelling DEF DeleteFile, Asked
  <2>2. QED
    BY <1>7, <2>1 DEF DeleteFile, Operation
<1>8. CASE StartWrite
  <2>1. cmd.byte \in Payloads /\ cmd.size \in Nat
    BY <1>0, <1>8 DEF StartWrite, Asked, CmdType
  <2>2. QED
    BY <1>0, <1>8, <2>1 DEF StartWrite, Operation
<1>9. CASE WriteSectors \/ EndWrite
  BY <1>9 DEF WriteSectors, EndWrite, Operation
<1>10. CASE FlushDisk \/ Boot \/ Killed \/ Leaves
  BY <1>10 DEF FlushDisk, Boot, Killed, Leaves, Operation
<1>11. CASE UNCHANGED allVars
  BY <1>11 DEF allVars
<1>12. QED
  BY <1>1, <1>2, <1>3, <1>4, <1>5, <1>6, <1>7, <1>8, <1>9, <1>10, <1>11
     DEF CommandNext, CommandStep

-----------------------------------------------------------------------------
(* What the operations do to the handles.                                  *)

\* A call that opens a file, while none is open.
LEMMA Opens ==
    ASSUME TypeOK, NEW sp, Open(sp) \/ Create(sp), \A h \in Handles : ~handle[h].used
    PROVE  /\ mounted' = mounted /\ job' = job /\ ~job.busy
           /\ \/ ret'.rc < 0 /\ \A h \in Handles : ~handle'[h].used
              \/ /\ ret'.rc \in Handles
                 /\ ~(ret'.rc < 0)
                 /\ \A h \in Handles : handle'[h].used <=> h = ret'.rc
<1>1. ASSUME NEW e, NEW h \in Handles,
             handle' = [handle EXCEPT ![h] = OpenedHandle(e)], Returns(h)
      PROVE  /\ ret'.rc \in Handles /\ ~(ret'.rc < 0)
             /\ \A x \in Handles : handle'[x].used <=> x = ret'.rc
  BY <1>1 DEF TypeOK, OpenedHandle, Returns, Result, Handles
<1>2. ASSUME Returns(-1) PROVE ret'.rc < 0
  BY <1>2 DEF Returns, Result
<1>3. CASE Open(sp)
  BY <1>1, <1>2, <1>3
     DEF Open, NameCallFails, Refused, Fails, Answers, Idle
<1>4. CASE Create(sp)
  BY <1>1, <1>2, <1>4
     DEF Create, NameCallFails, Refused, Fails, Answers, Idle
<1>5. QED
  BY <1>3, <1>4

LEMMA Deletes ==
    ASSUME NEW sp, Delete(sp) \/ Exists(sp), \A h \in Handles : ~handle[h].used
    PROVE  /\ mounted' = mounted /\ job' = job /\ ~job.busy
           /\ \A h \in Handles : ~handle'[h].used
BY DEF Delete, Exists, NameCallFails, Refused, Fails, Answers, Idle, HandlesWithout

LEMMA Reads ==
    ASSUME TypeOK, NEW fh \in Handles, NEW len, Read(fh, len)
    PROVE  /\ mounted' = mounted /\ job' = job /\ ~job.busy
           /\ \A h \in Handles : handle'[h].used = handle[h].used
<1>1. ASSUME NEW n, handle' = [handle EXCEPT ![fh].pos = @ + n]
      PROVE  \A h \in Handles : handle'[h].used = handle[h].used
  BY <1>1 DEF TypeOK, HandleType
<1>2. QED
  BY <1>1 DEF Read, Refused, Fails, Idle

LEMMA Closing ==
    ASSUME NEW fh, Close(fh)
    PROVE  /\ mounted' = mounted /\ job' = job /\ ~job.busy
           /\ \A h \in Handles : handle'[h].used <=> handle[h].used /\ h # fh
BY DEF Close, ClosedHandle, Idle

LEMMA Writing ==
    ASSUME TypeOK, WriteInPlace \/ WriteAllocating
    PROVE  /\ mounted' = mounted /\ handle' = handle
           /\ job'.busy /\ job'.fh = job.fh
BY DEF WriteInPlace, WriteAllocating, WriteMore, Advanced, TypeOK, JobType

LEMMA WriteOver ==
    ASSUME TypeOK, WriteSectorFails \/ WriteEnd \/ WriteEndFails
    PROVE  /\ mounted' = mounted /\ ~job'.busy
           /\ \A h \in Handles : handle'[h].used = handle[h].used
<1>1. ASSUME handle' = [handle EXCEPT ![job.fh].pos = job.pos]
      PROVE  \A h \in Handles : handle'[h].used = handle[h].used
  BY <1>1 DEF TypeOK, HandleType, JobType
<1>2. QED
  BY <1>1 DEF WriteSectorFails, WriteEnd, WriteEndFails, NoJob

-----------------------------------------------------------------------------
(* The steps of a call.                                                    *)

\* A call that has no handle, and goes on without one.
LEMMA Waiting ==
    ASSUME TypeOK', cmd' \in CmdType, Asked', Limits', ~job'.busy,
           cmd'.at \notin Holding, \A h \in Handles : ~handle'[h].used
    PROVE  CommandInv'
BY DEF CommandInv, OneHandle, Holding

\* A call that has its handle and is not in the middle of a write.
LEMMA HoldsHandle ==
    ASSUME TypeOK', cmd' \in CmdType, Asked', Limits', ~job'.busy,
           cmd'.at \in Holding, cmd'.at # "writing",
           \A h \in Handles : handle'[h].used <=> h = cmd'.fh
    PROVE  CommandInv'
BY DEF CommandInv, OneHandle

LEMMA BeginKeeps ==
    ASSUME CommandInv, TypeOK', NEW call \in Calls, NEW sp \in Spellings, Begin(call, sp)
    PROVE  CommandInv'
<1> DEFINE asked == [NoCommand EXCEPT !.call = call, !.sp = sp]
<1>1. /\ mounted /\ mounted' = mounted /\ ~job'.busy
      /\ \A h \in Handles : ~handle'[h].used
  BY DEF Begin, vars, CommandInv, OneHandle, Holding
<1>2. CASE cmd' = Failed
  BY <1>1, <1>2, CommandOver
<1>3. ASSUME NEW at \in {"open", "delete"}, cmd' = [asked EXCEPT !.at = at],
             call = "CC" => sp \in DOMAIN ComName /\ at = "open"
      PROVE  CommandInv'
  <2>1. /\ cmd' \in CmdType /\ cmd'.at = at /\ cmd'.call = call /\ cmd'.sp = sp
        /\ cmd'.n = 0
    BY <1>3, ZeroInRange DEF NoCommand, CmdType, Places
  <2>2. Asked'
    BY <1>1, <1>3, <2>1 DEF Asked, OfCc
  <2>3. Limits'
    BY <2>1, CommandsAssumption DEF Limits
  <2>4. QED
    BY <1>1, <1>3, <2>1, <2>2, <2>3, Waiting DEF Holding
<1>4. CASE call = "DEL"
  BY <1>3, <1>4 DEF Begin
<1>5. CASE call = "CC" /\ sp \in DOMAIN ComName
  BY <1>3, <1>5 DEF Begin
<1>6. CASE call = "CC" /\ sp \notin DOMAIN ComName
  BY <1>2, <1>6 DEF Begin
<1>7. CASE call \in {"TYPE", "RUN"}
  BY <1>3, <1>7 DEF Begin
<1>8. QED
  BY <1>4, <1>5, <1>6, <1>7 DEF Calls

LEMMA OpenKeeps ==
    ASSUME CommandInv, TypeOK', OpenFile
    PROVE  CommandInv'
<1>1. cmd.at = "open" /\ Open(cmd.sp) /\ cmd \in CmdType /\ Asked /\ Limits /\ TypeOK
  BY DEF OpenFile, CommandInv
<1>2. \A h \in Handles : ~handle[h].used
  BY <1>1 DEF CommandInv, OneHandle, Holding
<1>3. /\ mounted' = mounted /\ ~job'.busy
      /\ \/ ret'.rc < 0 /\ \A h \in Handles : ~handle'[h].used
         \/ /\ ret'.rc \in Handles
            /\ ~(ret'.rc < 0)
            /\ \A h \in Handles : handle'[h].used <=> h = ret'.rc
  BY <1>1, <1>2, Opens
<1>4. CASE ret'.rc < 0
  <2>1. cmd' = Failed
    BY <1>4 DEF OpenFile
  <2>2. \A h \in Handles : ~handle'[h].used
    BY <1>3, <1>4
  <2>3. QED
    BY <1>3, <2>1, <2>2, CommandOver
<1>5. CASE ~(ret'.rc < 0)
  <2>1. cmd' = [cmd EXCEPT !.at = "read", !.fh = ret'.rc]
    BY <1>5 DEF OpenFile, GoesTo
  <2>2. /\ cmd' \in CmdType /\ cmd'.at = "read" /\ cmd'.fh = ret'.rc
        /\ cmd'.call = cmd.call /\ cmd'.sp = cmd.sp /\ cmd'.n = cmd.n
    BY <1>1, <1>3, <1>5, <2>1 DEF CmdType, Places, Holding
  <2>3. Asked' /\ Limits'
    BY <1>1, <1>3, <2>2 DEF Asked, Limits, OfCc
  <2>4. QED
    BY <1>3, <1>5, <2>2, <2>3, HoldsHandle DEF Holding
<1>6. QED
  BY <1>4, <1>5

LEMMA ReadKeeps ==
    ASSUME CommandInv, TypeOK', ReadFile
    PROVE  CommandInv'
<1>1. /\ cmd.at = "read" /\ Read(cmd.fh, Want) /\ cmd \in CmdType /\ Asked /\ Limits
      /\ TypeOK /\ cmd.fh \in Handles
  BY DEF ReadFile, CommandInv, CmdType
<1>2. \A h \in Handles : handle[h].used <=> h = cmd.fh
  BY <1>1 DEF CommandInv, OneHandle, Holding
<1>3. /\ mounted' = mounted /\ ~job'.busy
      /\ \A h \in Handles : handle'[h].used <=> h = cmd.fh
  BY <1>1, <1>2, Reads
<1>4. ret'.rc \in Int
  BY DEF TypeOK, RetType
<1>5. /\ cmd.call \in Calls /\ cmd.sp \in Spellings /\ mounted
      /\ cmd.call = "CC" => cmd.sp \in DOMAIN ComName
  BY <1>1 DEF Asked
<1>6. ASSUME NEW then \in {"ok", "error", "compile"}, cmd' = Closes(then),
             then = "compile" => cmd.call = "CC"
      PROVE  CommandInv'
  <2>1. /\ cmd' \in CmdType /\ cmd'.at = "close" /\ cmd'.then = then
        /\ cmd'.fh = cmd.fh /\ cmd'.call = cmd.call /\ cmd'.sp = cmd.sp /\ cmd'.n = cmd.n
    BY <1>1, <1>6 DEF Closes, CmdType, Places, Holding
  <2>2. Asked' /\ Limits'
    BY <1>1, <1>3, <1>5, <1>6, <2>1 DEF Asked, Limits, OfCc
  <2>3. QED
    BY <1>3, <2>1, <2>2, HoldsHandle DEF Holding
<1>7. ASSUME ret'.rc > 0, ~TooLong(cmd.n + ret'.rc), cmd' = Took(ret'.rc)
      PROVE  CommandInv'
  <2>1. cmd.n \in Nat /\ cmd.n + ret'.rc \in Nat
    <3>1. cmd.n \in Nat
      BY <1>1 DEF CmdType
    <3>2. QED
      BY <1>4, <1>7, <3>1
  <2>2. (cmd.same /\ handle[cmd.fh].pos = cmd.n) \in BOOLEAN
    BY <1>1 DEF CmdType
  <2>3. /\ cmd' \in CmdType /\ cmd'.at = "read" /\ cmd'.fh = cmd.fh
        /\ cmd'.call = cmd.call /\ cmd'.sp = cmd.sp /\ cmd'.n = cmd.n + ret'.rc
    BY <1>1, <1>7, <2>1, <2>2 DEF Took, CmdType
  <2>4. Asked'
    BY <1>3, <1>5, <2>3 DEF Asked, OfCc
  <2>5. Limits'
    BY <1>7, <2>1, <2>3, Sizes DEF Limits, TooLong
  <2>6. QED
    BY <1>3, <2>3, <2>4, <2>5, HoldsHandle DEF Holding
<1>8. AfterReading \in {"ok", "compile"} /\ (AfterReading = "compile" => cmd.call = "CC")
  BY DEF AfterReading
<1>9. \/ cmd' = Closes("error") \/ cmd' = Closes(AfterReading)
      \/ ret'.rc > 0 /\ ~TooLong(cmd.n + ret'.rc) /\ cmd' = Took(ret'.rc)
  BY <1>4 DEF ReadFile
<1>10. QED
  BY <1>6, <1>7, <1>8, <1>9

LEMMA CloseKeeps ==
    ASSUME CommandInv, TypeOK', CloseFile
    PROVE  CommandInv'
<1>1. cmd.at = "close" /\ Close(cmd.fh) /\ cmd \in CmdType /\ Asked /\ Limits
  BY DEF CloseFile, CommandInv
<1>2. \A h \in Handles : handle[h].used <=> h = cmd.fh
  BY <1>1 DEF CommandInv, OneHandle, Holding
<1>3. /\ mounted' = mounted /\ ~job'.busy
      /\ \A h \in Handles : ~handle'[h].used
  BY <1>1, <1>2, Closing
<1>4. CASE cmd' = Failed
  BY <1>3, <1>4, CommandOver
<1>5. ASSUME NEW at \in {"idle", "compile", "flush"}, NEW then \in {"ok", "error", "compile", "flush"},
             at # "idle" => cmd.call = "CC",
             cmd' = [cmd EXCEPT !.at = at, !.then = then]
      PROVE  CommandInv'
  <2>1. /\ cmd' \in CmdType /\ cmd'.at = at
        /\ cmd'.call = cmd.call /\ cmd'.sp = cmd.sp /\ cmd'.n = cmd.n
    BY <1>1, <1>5 DEF CmdType, Places, OfCc
  <2>2. Asked' /\ Limits'
    BY <1>1, <1>3, <1>5, <2>1 DEF Asked, Limits, OfCc
  <2>3. QED
    BY <1>3, <2>1, <2>2, Waiting DEF Holding
<1>6. CASE cmd.then = "error"
  BY <1>4, <1>6 DEF CloseFile
<1>7. CASE cmd.then = "ok"
  BY <1>5, <1>7 DEF CloseFile, EndsWell
<1>8. CASE cmd.then \in {"compile", "flush"}
  <2>1. cmd' = [cmd EXCEPT !.at = cmd.then]
    BY <1>8 DEF CloseFile, GoesTo
  <2>2. cmd' = [cmd EXCEPT !.at = cmd.then, !.then = cmd.then]
    BY <1>1, <2>1 DEF CmdType
  <2>3. cmd.call = "CC"
    BY <1>1, <1>8 DEF Asked
  <2>4. QED
    BY <1>5, <1>8, <2>2, <2>3
<1>9. QED
  BY <1>1, <1>6, <1>7, <1>8 DEF CmdType

\* The steps of a call that has no handle, to another place without one.
LEMMA WaitsOn ==
    ASSUME CommandInv, TypeOK', mounted' = mounted, ~job'.busy,
           \A h \in Handles : ~handle'[h].used,
           cmd.call = "CC", cmd.at # "idle",
           NEW at \in {"replace", "delete", "create"}, NEW size \in Nat, NEW byte \in Payloads,
           cmd' = [cmd EXCEPT !.at = at, !.size = size, !.byte = byte]
    PROVE  CommandInv'
<1>1. cmd \in CmdType /\ Asked /\ Limits
  BY DEF CommandInv
<1>2. /\ cmd' \in CmdType /\ cmd'.at = at /\ cmd'.byte \in Payloads
      /\ cmd'.call = cmd.call /\ cmd'.sp = cmd.sp /\ cmd'.n = cmd.n
  BY <1>1 DEF CmdType, Places, OfCc
<1>3. Asked' /\ Limits'
  BY <1>1, <1>2 DEF Asked, Limits, OfCc
<1>4. QED
  BY <1>2, <1>3, Waiting DEF Holding

LEMMA CompileKeeps ==
    ASSUME CommandInv, TypeOK', CompileSource
    PROVE  CommandInv'
<1>1. cmd.at = "compile" /\ cmd.call = "CC" /\ UNCHANGED vars
  BY DEF CompileSource, CommandInv, Asked, OfCc
<1>2. /\ mounted' = mounted /\ ~job'.busy
      /\ \A h \in Handles : ~handle'[h].used
  BY <1>1 DEF vars, CommandInv, OneHandle, Holding
<1>3. CASE cmd' = Failed
  BY <1>2, <1>3, CommandOver
<1>4. ASSUME NEW size \in Outputs, NEW byte \in Payloads,
             cmd' = [GoesTo("replace") EXCEPT !.size = size, !.byte = byte]
      PROVE  CommandInv'
  <2>1. size \in Nat
    BY CommandsAssumption
  <2>2. cmd' = [cmd EXCEPT !.at = "replace", !.size = size, !.byte = byte]
    BY <1>4 DEF GoesTo
  <2>3. QED
    BY <1>1, <1>2, <2>1, <2>2, WaitsOn
<1>5. QED
  BY <1>3, <1>4 DEF CompileSource

\* What cc carries from place to place.
LEMMA Carries ==
    ASSUME CommandInv, cmd.call = "CC", cmd.at \in {"replace", "delete", "create", "write"}
    PROVE  /\ cmd.size \in Nat /\ cmd.byte \in Payloads
           /\ \A at : GoesTo(at) = [cmd EXCEPT !.at = at, !.size = cmd.size, !.byte = cmd.byte]
BY DEF CommandInv, Asked, CmdType, GoesTo

LEMMA LookKeeps ==
    ASSUME CommandInv, TypeOK', LookForOld
    PROVE  CommandInv'
<1>1. cmd.at = "replace" /\ cmd.call = "CC" /\ Exists(Com)
  BY DEF LookForOld, CommandInv, Asked, OfCc
<1>2. \A h \in Handles : ~handle[h].used
  BY <1>1 DEF CommandInv, OneHandle, Holding
<1>3. mounted' = mounted /\ ~job'.busy /\ \A h \in Handles : ~handle'[h].used
  BY <1>1, <1>2, Deletes
<1>4. cmd' = GoesTo("delete") \/ cmd' = GoesTo("create")
  BY DEF LookForOld
<1>5. QED
  BY <1>1, <1>3, <1>4, Carries, WaitsOn

LEMMA DeleteKeeps ==
    ASSUME CommandInv, TypeOK', DeleteFile
    PROVE  CommandInv'
<1>1. cmd.at = "delete" /\ cmd \in CmdType /\ Asked /\ Limits
  BY DEF DeleteFile, CommandInv
<1>2. \A h \in Handles : ~handle[h].used
  BY <1>1 DEF CommandInv, OneHandle, Holding
<1>3. mounted' = mounted /\ ~job'.busy /\ \A h \in Handles : ~handle'[h].used
  BY <1>2, Deletes DEF DeleteFile
<1>4. CASE cmd' = Failed
  BY <1>3, <1>4, CommandOver
<1>5. CASE cmd.call = "CC" /\ cmd' = GoesTo("create")
  BY <1>1, <1>3, <1>5, Carries, WaitsOn
<1>6. CASE cmd.call # "CC" /\ cmd' = EndsWell
  <2>1. /\ cmd' \in CmdType /\ cmd'.at = "idle"
        /\ cmd'.call = cmd.call /\ cmd'.sp = cmd.sp /\ cmd'.n = cmd.n
    BY <1>1, <1>6 DEF EndsWell, CmdType, Places
  <2>2. Asked' /\ Limits'
    BY <1>1, <1>6, <2>1 DEF Asked, Limits, OfCc
  <2>3. QED
    BY <1>3, <2>1, <2>2, Waiting DEF Holding
<1>7. QED
  BY <1>4, <1>5, <1>6 DEF DeleteFile

LEMMA CreateKeeps ==
    ASSUME CommandInv, TypeOK', CreateFile
    PROVE  CommandInv'
<1>1. /\ cmd.at = "create" /\ cmd.call = "CC" /\ Create(Com)
      /\ cmd \in CmdType /\ Asked /\ Limits /\ TypeOK
  BY DEF CreateFile, CommandInv, Asked, OfCc
<1>2. \A h \in Handles : ~handle[h].used
  BY <1>1 DEF CommandInv, OneHandle, Holding
<1>3. /\ mounted' = mounted /\ ~job'.busy
      /\ \/ ret'.rc < 0 /\ \A h \in Handles : ~handle'[h].used
         \/ /\ ret'.rc \in Handles
            /\ ~(ret'.rc < 0)
            /\ \A h \in Handles : handle'[h].used <=> h = ret'.rc
  BY <1>1, <1>2, Opens
<1>4. CASE ret'.rc < 0
  <2>1. cmd' = Failed
    BY <1>4 DEF CreateFile
  <2>2. \A h \in Handles : ~handle'[h].used
    BY <1>3, <1>4
  <2>3. QED
    BY <1>3, <2>1, <2>2, CommandOver
<1>5. CASE ~(ret'.rc < 0)
  <2>1. cmd' = [cmd EXCEPT !.at = "write", !.fh = ret'.rc]
    BY <1>5 DEF CreateFile, GoesTo
  <2>2. /\ cmd' \in CmdType /\ cmd'.at = "write" /\ cmd'.fh = ret'.rc
        /\ cmd'.call = cmd.call /\ cmd'.sp = cmd.sp /\ cmd'.n = cmd.n /\ cmd'.byte = cmd.byte
    BY <1>1, <1>3, <1>5, <2>1 DEF CmdType, Places, Holding
  <2>3. Asked' /\ Limits'
    BY <1>1, <1>3, <2>2 DEF Asked, Limits, OfCc
  <2>4. QED
    BY <1>3, <1>5, <2>2, <2>3, HoldsHandle DEF Holding
<1>6. QED
  BY <1>4, <1>5

LEMMA StartKeeps ==
    ASSUME CommandInv, TypeOK', StartWrite
    PROVE  CommandInv'
<1>1. /\ cmd.at = "write" /\ cmd.call = "CC" /\ cmd \in CmdType /\ Asked /\ Limits /\ TypeOK
  BY DEF StartWrite, CommandInv, Asked, OfCc
<1>2. \A h \in Handles : handle[h].used <=> h = cmd.fh
  BY <1>1 DEF CommandInv, OneHandle, Holding
<1>3. CASE WriteRefused(cmd.fh, cmd.size) /\ cmd' = Closes("error")
  <2>1. mounted' = mounted /\ ~job'.busy /\ \A h \in Handles : handle'[h].used <=> h = cmd.fh
    BY <1>2, <1>3 DEF WriteRefused, Refused, Fails, Idle
  <2>2. /\ cmd' \in CmdType /\ cmd'.at = "close" /\ cmd'.fh = cmd.fh /\ cmd'.then = "error"
        /\ cmd'.call = cmd.call /\ cmd'.sp = cmd.sp /\ cmd'.n = cmd.n
    BY <1>1, <1>3 DEF Closes, CmdType, Places, Holding
  <2>3. Asked' /\ Limits'
    BY <1>1, <2>1, <2>2 DEF Asked, Limits, OfCc
  <2>4. QED
    BY <2>1, <2>2, <2>3, HoldsHandle DEF Holding
<1>4. CASE WriteBegin(cmd.fh, cmd.size, cmd.byte) /\ cmd' = GoesTo("writing")
  <2>1. mounted' = mounted /\ handle' = handle /\ job'.busy /\ job'.fh = cmd.fh
    BY <1>4 DEF WriteBegin
  <2>2. /\ cmd' \in CmdType /\ cmd'.at = "writing" /\ cmd'.fh = cmd.fh
        /\ cmd'.call = cmd.call /\ cmd'.sp = cmd.sp /\ cmd'.n = cmd.n
    BY <1>1, <1>4 DEF GoesTo, CmdType, Places, Holding
  <2>3. Asked' /\ Limits'
    BY <1>1, <2>1, <2>2 DEF Asked, Limits, OfCc
  <2>4. OneHandle'
    BY <1>2, <2>1, <2>2 DEF OneHandle, Holding
  <2>5. QED
    BY <2>2, <2>3, <2>4 DEF CommandInv
<1>5. QED
  BY <1>3, <1>4 DEF StartWrite

LEMMA SectorsKeep ==
    ASSUME CommandInv, TypeOK', WriteSectors
    PROVE  CommandInv'
<1>1. /\ cmd.at = "writing" /\ cmd' = cmd /\ cmd \in CmdType /\ Asked /\ Limits /\ OneHandle
      /\ mounted' = mounted /\ handle' = handle /\ job'.busy /\ job'.fh = job.fh
  BY Writing DEF WriteSectors, CommandInv
<1>2. Asked' /\ Limits' /\ OneHandle'
  BY <1>1 DEF Asked, Limits, OneHandle
<1>3. QED
  BY <1>1, <1>2 DEF CommandInv

LEMMA EndKeeps ==
    ASSUME CommandInv, TypeOK', EndWrite
    PROVE  CommandInv'
<1>1. /\ cmd.at = "writing" /\ cmd.call = "CC" /\ cmd \in CmdType /\ Asked /\ Limits
      /\ mounted' = mounted /\ ~job'.busy
      /\ \A h \in Handles : handle'[h].used = handle[h].used
  BY WriteOver DEF EndWrite, CommandInv, Asked, OfCc
<1>2. \A h \in Handles : handle[h].used <=> h = cmd.fh
  BY <1>1 DEF CommandInv, OneHandle, Holding
<1>3. PICK then \in {"flush", "error"} : cmd' = Closes(then)
  BY DEF EndWrite
<1>4. /\ cmd' \in CmdType /\ cmd'.at = "close" /\ cmd'.fh = cmd.fh /\ cmd'.then = then
      /\ cmd'.call = cmd.call /\ cmd'.sp = cmd.sp /\ cmd'.n = cmd.n
  BY <1>1, <1>3 DEF Closes, CmdType, Places, Holding
<1>5. Asked' /\ Limits'
  BY <1>1, <1>4 DEF Asked, Limits, OfCc
<1>6. QED
  BY <1>1, <1>2, <1>4, <1>5, HoldsHandle DEF Holding

LEMMA FlushKeeps ==
    ASSUME CommandInv, TypeOK', FlushDisk
    PROVE  CommandInv'
<1>1. /\ cmd.at = "flush" /\ cmd \in CmdType /\ Asked /\ Limits
      /\ cmd' = [cmd EXCEPT !.at = "idle", !.then = "ok"]
  BY DEF FlushDisk, CommandInv, EndsWell
<1>2. \A h \in Handles : ~handle[h].used
  BY <1>1 DEF CommandInv, OneHandle, Holding
<1>3. /\ mounted' = mounted /\ ~job'.busy
      /\ \A h \in Handles : ~handle'[h].used
  BY <1>2 DEF FlushDisk, Flush, Refused, Fails, Idle
<1>4. /\ cmd' \in CmdType /\ cmd'.at = "idle"
      /\ cmd'.call = cmd.call /\ cmd'.sp = cmd.sp /\ cmd'.n = cmd.n
  BY <1>1 DEF CmdType, Places
<1>5. Asked' /\ Limits'
  BY <1>1, <1>4 DEF Asked, Limits, OfCc
<1>6. QED
  BY <1>3, <1>4, <1>5, Waiting DEF Holding

LEMMA RestKeeps ==
    ASSUME CommandInv, TypeOK', Boot \/ Killed \/ Leaves \/ UNCHANGED allVars
    PROVE  CommandInv'
<1>1. CASE Boot
  <2>1. cmd.at = "idle" /\ cmd' = cmd /\ cmd \in CmdType /\ Asked /\ Limits
    BY <1>1 DEF Boot, CommandInv, Asked
  <2>2. ~job'.busy /\ \A h \in Handles : ~handle'[h].used
    BY <1>1 DEF Boot, FsInit, Idle, ClosedHandle
  <2>3. Asked' /\ Limits'
    BY <2>1 DEF Asked, Limits, OfCc
  <2>4. QED
    BY <2>1, <2>2, <2>3, Waiting DEF Holding
<1>2. CASE Killed \/ Leaves
  <2>1. ~job'.busy /\ \A h \in Handles : ~handle'[h].used
    BY <1>2 DEF Killed, Leaves, Crash, Exit, Restarted, NoJob, ClosedHandle
  <2>2. cmd' = NoCommand
    BY <1>2 DEF Killed, Leaves
  <2>3. QED
    BY <2>1, <2>2, CommandOver
<1>3. CASE UNCHANGED allVars
  BY <1>3 DEF allVars, vars, CommandInv, Asked, OneHandle, Limits
<1>4. QED
  BY <1>1, <1>2, <1>3

LEMMA CommandStepKeeps ==
    ASSUME CommandInv, [CommandNext]_allVars
    PROVE  CommandInv'
<1>1. TypeOK'
  BY StepsOperate, TypeStep DEF CommandInv
<1>2. QED
  BY <1>1, BeginKeeps, OpenKeeps, ReadKeeps, CloseKeeps, CompileKeeps, LookKeeps,
     DeleteKeeps, CreateKeeps, StartKeeps, SectorsKeep, EndKeeps, FlushKeeps, RestKeeps
     DEF CommandNext, CommandStep, Calls

LEMMA CommandStart == CommandInit => CommandInv
<1> SUFFICES ASSUME CommandInit PROVE CommandInv
  OBVIOUS
<1>1. TypeOK
  <2>1. Images \subseteq ImageType
    BY CommandsAssumption
  <2>2. Result("call", 0) \in RetType
    BY InitialValues
  <2>3. disk \in ImageType /\ durable \in ImageType
    BY <2>1 DEF CommandInit
  <2>4. QED
    BY <2>2, <2>3, InitialValues, AllClosedType DEF CommandInit, TypeOK
<1>2. cmd = NoCommand /\ ~job.busy /\ \A h \in Handles : ~handle[h].used
  BY DEF CommandInit, NoJob, ClosedHandle
<1>3. cmd \in CmdType /\ cmd.at = "idle" /\ cmd.call = "none"
  BY <1>2, NoCommandType
<1>4. Asked /\ Limits /\ OneHandle
  BY <1>2, <1>3 DEF Asked, Limits, OneHandle, OfCc, Holding
<1>5. QED
  BY <1>1, <1>3, <1>4 DEF CommandInv

LEMMA CommandsSafe == CommandSpec => []CommandInv
BY CommandStart, CommandStepKeeps, PTL DEF CommandSpec

\* run writes nothing past the TPA and cc nothing past its buffer, whatever the
\* sizes of the files, the disk and the buffers, the failures and the kills
\* (bios_runfile, bios_cccompile).
THEOREM CommandTypesHold == CommandSpec => []CommandTypeOK
<1>1. CommandInv => CommandTypeOK
  BY DEF CommandInv, CommandTypeOK, CmdType, Limits, Calls
<1>2. QED
  BY <1>1, CommandsSafe, PTL

\* However type, run, del and cc end, each has closed what it opened, so that
\* no sequence of calls uses up the table of handles.
THEOREM NoHandleIsLeft == CommandSpec => []NoHandleLeft
<1>1. CommandInv => NoHandleLeft
  BY DEF CommandInv, OneHandle, Holding, NoHandleLeft, FreeHandles
<1>2. QED
  BY <1>1, CommandsSafe, PTL

-----------------------------------------------------------------------------
(* Files without holes.                                                    *)

\* On such files, and a host that does not fail, a read gives bytes that
\* follow those before it, and none at the end of the file only.
LEMMA ReadTakes ==
    ASSUME IOErrors = FALSE, TypeOK, NoHoles(disk.dir), NEW fh \in Handles, NEW len \in Nat,
           len > 0, Read(fh, len), handle[fh].used,
           disk.dir[handle[fh].entry].active,
           handle[fh].pos <= SizeOf(disk.dir[handle[fh].entry])
    PROVE  /\ disk' = disk /\ ret'.rc \in Nat
           /\ handle'[fh].entry = handle[fh].entry
           /\ handle'[fh].pos = handle[fh].pos + ret'.rc
           /\ handle'[fh].pos <= SizeOf(disk.dir[handle[fh].entry])
           /\ ret'.rc = 0 => handle[fh].pos = SizeOf(disk.dir[handle[fh].entry])
<1> DEFINE e == handle[fh].entry
           size == SizeOf(disk.dir[e])
           pos == handle[fh].pos
<1>1. e \in Entries /\ pos \in Nat /\ disk.dir[e] \in EntryType
  BY DEF TypeOK, HandleType, ImageType
<1>2. size \in Nat
  BY <1>1, SectorSize DEF EntryType, SizeOf
<1>3. PICK n \in 0 .. len :
        /\ IsLeast(n, ReadLimits(disk.dir[e], pos, len))
        /\ handle' = [handle EXCEPT ![fh].pos = @ + n]
        /\ Returns(n)
        /\ SeekAndRead
  BY DEF Read, BadHandle, Fails, HostFails, Refreshed
<1>4. ret'.rc = n /\ disk' = disk
  BY <1>3 DEF Returns, Result, SeekAndRead
<1>5. handle'[fh].entry = e /\ handle'[fh].pos = pos + n
  BY <1>3 DEF TypeOK, HandleType
<1>6. n <= Ahead(size, pos)
  BY <1>3 DEF IsLeast, ReadLimits
<1>7. pos + n <= size
  BY <1>1, <1>2, <1>3, <1>6 DEF Ahead
<1>8. ASSUME n = 0 PROVE pos = size
  <2>1. CASE Ahead(size, pos) = 0
    BY <1>1, <1>2, <2>1 DEF Ahead
  <2>2. ASSUME NEW s \in Slots, disk.dir[e].alloc[s] = 0, Ahead(s * SectorBytes, pos) = 0
        PROVE  pos = size
    <3>1. ~(s < disk.dir[e].count)
      BY <1>1, <2>2 DEF NoHoles
    <3>2. s \in Nat /\ disk.dir[e].count \in Nat
      BY <1>1 DEF Slots, EntryType
    <3>3. s * SectorBytes \in Nat
      BY <3>2, SectorSize
    <3>4. size <= s * SectorBytes
      BY <3>1, <3>2, <3>3, Multiples, SectorSize DEF SizeOf
    <3>5. s * SectorBytes <= pos
      BY <1>1, <2>2, <3>3 DEF Ahead
    <3>6. QED
      BY <1>1, <1>2, <3>3, <3>4, <3>5
  <2>3. 0 \in {len, Ahead(size, pos)} \cup
               {Ahead(s * SectorBytes, pos) :
                    s \in {x \in Slots : x >= SlotOf(pos) /\ disk.dir[e].alloc[x] = 0}}
    BY <1>3, <1>8 DEF IsLeast, ReadLimits
  <2>4. QED
    BY <2>1, <2>2, <2>3
<1>9. QED
  BY <1>3, <1>4, <1>5, <1>7, <1>8

\* A write to a file that had nothing: its entry covers what was written.
LEMMA FreshIsWritten ==
    ASSUME TypeOK, JobReads, WriteEnd, job.rec.count = 0, job.pos = job.total
    PROVE  /\ job.total <= SizeOf(WrittenEntry)
           /\ SizeOf(WrittenEntry) < job.total + SectorBytes
           /\ WrittenEntry.count <= SlotsPerFile
           /\ \A s \in Slots : s < WrittenEntry.count => WrittenEntry.alloc[s] # 0
<1>1. job.busy /\ job.total \in Nat /\ job.rec \in EntryType /\ SlotsPerFile \in Nat
  BY FileSystemAssumption, JobDirType DEF TypeOK, JobType, WriteEnd, WriteDone
<1>2. SizeOf(job.rec) = 0
  BY SectorSize DEF SizeOf
<1>3. /\ WrittenEntry.count = IF job.total > 0
                              THEN (job.total + (SectorBytes - 1)) \div SectorBytes ELSE 0
      /\ WrittenEntry.alloc = job.rec.alloc
  BY <1>1, <1>2 DEF WrittenEntry, EntryType
<1>4. CASE job.total = 0
  <2>1. WrittenEntry.count = 0
    BY <1>3, <1>4
  <2>2. \A s \in Slots : ~(s < 0)
    BY DEF Slots
  <2>3. QED
    BY <1>1, <1>4, <2>1, <2>2, SectorSize DEF SizeOf
<1>5. CASE job.total > 0
  <2> DEFINE c == WrittenEntry.count
  <2>1. /\ c \in Nat /\ c * SectorBytes \in Nat
        /\ job.total <= c * SectorBytes /\ c * SectorBytes < job.total + SectorBytes
    BY <1>1, <1>3, <1>5, RoundedUp
  <2>2. ASSUME NEW s \in Nat, s < c
        PROVE  s \in Slots /\ WrittenEntry.alloc[s] # 0
    <3>1. s * SectorBytes \in Nat /\ SlotOf(s * SectorBytes) = s
      BY SlotStart
    <3>2. s * SectorBytes < job.total
      <4>1. s * SectorBytes + SectorBytes <= c * SectorBytes
        BY <2>1, <2>2, Multiples
      <4>2. QED
        BY <1>1, <2>1, <3>1, <4>1, SectorSize
    <3>3. job.pos - job.total <= s * SectorBytes /\ s * SectorBytes < job.pos
      BY <1>1, <3>1, <3>2
    <3>4. SlotOf(s * SectorBytes) \in Slots /\ job.rec.alloc[SlotOf(s * SectorBytes)] # 0
      BY <1>1, <3>1, <3>3 DEF JobReads
    <3>5. QED
      BY <1>3, <3>1, <3>4
  <2>3. c <= SlotsPerFile
    <3>1. c > 0
      BY <1>1, <1>5, <2>1, SectorSize
    <3>2. c - 1 \in Nat /\ c - 1 < c
      BY <2>1, <3>1
    <3>3. c - 1 \in Slots
      BY <2>2, <3>2
    <3>4. QED
      BY <1>1, <2>1, <3>3 DEF Slots
  <2>4. \A s \in Slots : s < c => WrittenEntry.alloc[s] # 0
    BY <2>2 DEF Slots
  <2>5. QED
    BY <2>1, <2>3, <2>4 DEF SizeOf
<1>6. QED
  BY <1>1, <1>4, <1>5

-----------------------------------------------------------------------------
(* What was taken, and what was made.                                      *)

\* What every file call finds and leaves: the invariants of the file system,
\* and files without holes.
FilesInv ==
    /\ CommandInv /\ SafeInv /\ HandlesLive
    /\ JobReads /\ WriteReadBack /\ FlushNotSkipped
    /\ NoHoles(disk.dir) /\ NoHoles(durable.dir)

\* The entry the call has open.
Opened == handle[cmd.fh].entry

\* What is read is the named file, from its first byte to the position.
Reading == cmd.at = "read" =>
    /\ cmd.same
    /\ Found(disk.dir, CpmName[cmd.sp], Opened)
    /\ handle[cmd.fh].pos = cmd.n
    /\ cmd.n <= SizeOf(disk.dir[Opened])

\* The whole of it has been read.
Taken == \/ cmd.at = "close" /\ cmd.then \in {"ok", "compile"}
         \/ cmd.at = "compile"
         \/ cmd.at = "idle" /\ cmd.then = "ok" /\ cmd.call \in {"TYPE", "RUN"}

\* The new file of cc, before it is written.
IsNew(rec) == rec.active /\ rec.name = CpmName[Com] /\ rec.count = 0

Fresh == cmd.at = "write" => IsNew(disk.dir[Opened]) /\ handle[cmd.fh].pos = 0

\* The write that fills it.
Filling == cmd.at = "writing" =>
    /\ IsNew(job.rec)
    /\ job.pos = job.total /\ job.data = cmd.byte

\* The program is whole in what the process sees.
Program ==
    \E e \in Entries :
        /\ Found(disk.dir, CpmName[Com], e)
        /\ SizeOf(disk.dir[e]) >= cmd.size /\ SizeOf(disk.dir[e]) < cmd.size + SectorBytes
        /\ \A q \in 0 .. cmd.size - 1 : ByteOf(disk, e, q) = cmd.byte

Made == \/ cmd.at = "close" /\ cmd.then = "flush"
        \/ cmd.at = "flush"
        \/ cmd.at = "idle" /\ cmd.call = "CC"

TakingInv == /\ cmd.at = "open" => cmd.same /\ cmd.n = 0
             /\ Reading
             /\ Taken => HasWhole
             /\ cmd.at = "delete" => cmd.call \in {"DEL", "CC"}

MakingInv == /\ Fresh /\ Filling
             /\ Made => Program
             /\ cmd.at = "close" /\ cmd.then = "ok" => cmd.call # "CC"
             /\ cmd.at = "idle" /\ cmd.call = "CC" => durable = disk

\* Steps that leave the directory as it is.
LEMMA OnlyThese ==
    ASSUME IOErrors = FALSE, CommandInv, [CommandNext]_allVars,
           ~CreateFile, ~DeleteFile, ~EndWrite, ~Killed
    PROVE  disk'.dir = disk.dir
<1>1. disk \in ImageType
  BY DEF CommandInv, TypeOK
<1>2. ASSUME NEW rc, Refused(rc) \/ Fails(rc) \/ Answers(rc) PROVE disk' = disk
  BY <1>2 DEF Refused, Fails, HostFails, Answers, SeekAndRead
<1>3. ASSUME NEW sp, Open(sp) \/ Exists(sp) PROVE disk' = disk
  BY <1>2, <1>3 DEF Open, Exists, NameCallFails, SeekAndRead
<1>4. ASSUME NEW fh, NEW len, NEW byte,
             Read(fh, len) \/ WriteRefused(fh, len) \/ WriteBegin(fh, len, byte) \/ Close(fh)
      PROVE  disk' = disk
  BY <1>2, <1>4 DEF Read, WriteRefused, WriteBegin, Close, SeekAndRead
<1>5. CASE OpenFile \/ LookForOld
  BY <1>3, <1>5 DEF OpenFile, LookForOld
<1>6. CASE ReadFile \/ CloseFile \/ StartWrite
  BY <1>4, <1>6 DEF ReadFile, CloseFile, StartWrite
<1>7. CASE WriteSectors
  <2>1. PICK l, block : disk' = [disk EXCEPT !.sec[l] = block]
    BY <1>7 DEF WriteSectors, WriteInPlace, WriteAllocating, SeekAndWrite
  <2>2. QED
    BY <1>1, <2>1 DEF ImageType
<1>8. CASE FlushDisk
  BY <1>2, <1>8 DEF FlushDisk, Flush
<1>9. CASE Boot \/ Leaves
  BY <1>9 DEF Boot, Leaves, FsInit, Exit, Restarted
<1>10. ASSUME NEW call, NEW sp, Begin(call, sp) PROVE disk' = disk
  BY <1>10 DEF Begin, vars
<1>11. CASE CompileSource \/ UNCHANGED allVars
  BY <1>11 DEF CompileSource, allVars, vars
<1>12. QED
  BY <1>5, <1>6, <1>7, <1>8, <1>9, <1>10, <1>11 DEF CommandNext, CommandStep

\* cc creates its file.
LEMMA CreatesNew ==
    ASSUME IOErrors = FALSE, TypeOK, NEW sp \in Spellings, Create(sp)
    PROVE  \/ disk' = disk /\ ret'.rc < 0
           \/ \E e \in Entries :
                /\ CpmName[sp] \in Names
                /\ disk' = [disk EXCEPT !.dir[e] = NewEntry(CpmName[sp])]
                /\ \/ ret'.rc < 0
                   \/ /\ ret'.rc \in Handles
                      /\ handle' = [handle EXCEPT ![ret'.rc] = OpenedHandle(e)]
<1>1. ASSUME NEW rc, Refused(rc) \/ Fails(rc) \/ Answers(rc)
      PROVE  disk' = disk /\ ret'.rc = rc
  BY <1>1 DEF Refused, Fails, HostFails, Answers, SeekAndRead, Returns, Result
<1>2. CASE NameCallFails(sp, -1) \/ Answers(-1)
  BY <1>1, <1>2 DEF NameCallFails
<1>3. ASSUME Named(sp), NEW e \in Entries,
             SeekAndWrite([disk EXCEPT !.dir[e] = NewEntry(CpmName[sp])]),
             \/ Returns(-1)
             \/ \E h \in Handles :
                    /\ handle' = [handle EXCEPT ![h] = OpenedHandle(e)]
                    /\ Returns(h)
      PROVE  \E x \in Entries :
                /\ CpmName[sp] \in Names
                /\ disk' = [disk EXCEPT !.dir[x] = NewEntry(CpmName[sp])]
                /\ \/ ret'.rc < 0
                   \/ /\ ret'.rc \in Handles
                      /\ handle' = [handle EXCEPT ![ret'.rc] = OpenedHandle(x)]
  <2>1. CpmName[sp] \in Names
    BY <1>3, FileSystemAssumption DEF Named
  <2>2. disk' = [disk EXCEPT !.dir[e] = NewEntry(CpmName[sp])]
    BY <1>3 DEF SeekAndWrite
  <2>3. \/ ret'.rc < 0
        \/ ret'.rc \in Handles /\ handle' = [handle EXCEPT ![ret'.rc] = OpenedHandle(e)]
    BY <1>3 DEF Returns, Result
  <2>4. QED
    BY <2>1, <2>2, <2>3
<1>4. QED
  BY <1>2, <1>3 DEF Create

LEMMA DeletesOne ==
    ASSUME IOErrors = FALSE, NEW sp, Delete(sp)
    PROVE  disk' = disk \/ \E e \in Entries : disk' = [disk EXCEPT !.dir[e] = FreeEntry]
<1>1. ASSUME NEW rc, Refused(rc) \/ Fails(rc) \/ Answers(rc)
      PROVE  disk' = disk
  BY <1>1 DEF Refused, Fails, HostFails, Answers, SeekAndRead
<1>2. QED
  BY <1>1 DEF Delete, NameCallFails, SeekAndWrite

\* The end of the write, on a host that does not fail.
LEMMA EndsWhole ==
    ASSUME IOErrors = FALSE, FilesInv, Filling, EndWrite
    PROVE  /\ WriteEnd /\ job.busy /\ job.rec.count = 0 /\ job.pos = job.total
           /\ JobEntry \in Entries
           /\ disk' = [disk EXCEPT !.dir[JobEntry] = WrittenEntry]
           /\ ret'.rc = job.total
           /\ WrittenEntry.active /\ WrittenEntry.name = CpmName[Com]
<1>1. WriteEnd /\ cmd.at = "writing"
  BY DEF EndWrite, WriteSectorFails, WriteEndFails, HostFails
<1>2. /\ job.rec.count = 0 /\ job.pos = job.total
      /\ job.rec.active /\ job.rec.name = CpmName[Com]
  BY <1>1 DEF Filling, IsNew
<1>3. TypeOK /\ JobEntry \in Entries /\ job.rec \in EntryType
  BY JobDirType DEF FilesInv, CommandInv
<1>4. WrittenEntry.active = job.rec.active /\ WrittenEntry.name = job.rec.name
  BY <1>3 DEF WrittenEntry, EntryType
<1>5. QED
  BY <1>1, <1>2, <1>3, <1>4 DEF WriteEnd, WriteDone, SeekAndWrite, WriteReturns

LEMMA HolesStep ==
    ASSUME IOErrors = FALSE, FilesInv, Filling, [CommandNext]_allVars
    PROVE  NoHoles(disk'.dir) /\ NoHoles(durable'.dir)
<1>1. CommandInv /\ TypeOK /\ disk \in ImageType /\ NoHoles(disk.dir) /\ NoHoles(durable.dir)
  BY DEF FilesInv, CommandInv, TypeOK
<1>2. durable' = disk \/ durable' = durable
  BY <1>1, StepsOperate, HostFollows
<1>3. ASSUME NEW e \in Entries, NEW rec, disk' = [disk EXCEPT !.dir[e] = rec],
             rec.active => /\ rec.count <= SlotsPerFile
                           /\ \A s \in Slots : s < rec.count => rec.alloc[s] # 0
      PROVE  NoHoles(disk'.dir)
  <2>1. disk'.dir[e] = rec /\ \A x \in Entries \ {e} : disk'.dir[x] = disk.dir[x]
    BY <1>1, <1>3 DEF ImageType
  <2>2. QED
    BY <1>1, <1>3, <2>1 DEF NoHoles
<1>4. ASSUME CreateFile PROVE NoHoles(disk'.dir)
  <2>1. Com \in Spellings
    BY <1>1, <1>4, ComIsSpelling DEF CreateFile, CommandInv, Asked, OfCc
  <2>2. ASSUME disk' = disk PROVE NoHoles(disk'.dir)
    BY <1>1, <2>2
  <2>3. ASSUME NEW e \in Entries, disk' = [disk EXCEPT !.dir[e] = NewEntry(CpmName[Com])]
        PROVE  NoHoles(disk'.dir)
    <3>1. NewEntry(CpmName[Com]).count = 0 /\ SlotsPerFile \in Nat
      BY FileSystemAssumption DEF NewEntry
    <3>2. \A s \in Slots : ~(s < 0)
      BY DEF Slots
    <3>3. QED
      BY <1>3, <2>3, <3>1, <3>2
  <2>4. \/ disk' = disk
        \/ \E e \in Entries : disk' = [disk EXCEPT !.dir[e] = NewEntry(CpmName[Com])]
    BY <1>1, <1>4, <2>1, CreatesNew DEF CreateFile
  <2>5. QED
    BY <2>2, <2>3, <2>4
<1>5. ASSUME DeleteFile PROVE NoHoles(disk'.dir)
  <2>1. ~FreeEntry.active
    BY DEF FreeEntry
  <2>2. ASSUME disk' = disk PROVE NoHoles(disk'.dir)
    BY <1>1, <2>2
  <2>3. ASSUME NEW e \in Entries, disk' = [disk EXCEPT !.dir[e] = FreeEntry]
        PROVE  NoHoles(disk'.dir)
    BY <1>3, <2>1, <2>3
  <2>4. \/ disk' = disk
        \/ \E e \in Entries : disk' = [disk EXCEPT !.dir[e] = FreeEntry]
    BY <1>5, DeletesOne DEF DeleteFile
  <2>5. QED
    BY <2>2, <2>3, <2>4
<1>6. ASSUME EndWrite PROVE NoHoles(disk'.dir)
  <2>1. /\ WriteEnd /\ job.rec.count = 0 /\ job.pos = job.total /\ JobEntry \in Entries
        /\ disk' = [disk EXCEPT !.dir[JobEntry] = WrittenEntry]
    BY <1>6, EndsWhole
  <2>2. /\ WrittenEntry.count <= SlotsPerFile
        /\ \A s \in Slots : s < WrittenEntry.count => WrittenEntry.alloc[s] # 0
    BY <1>1, <2>1, FreshIsWritten DEF FilesInv
  <2>3. QED
    BY <1>3, <2>1, <2>2
<1>7. ASSUME Killed PROVE NoHoles(disk'.dir)
  BY <1>1, <1>7 DEF Killed, Crash, Restarted
<1>8. NoHoles(disk'.dir)
  BY <1>1, <1>4, <1>5, <1>6, <1>7, OnlyThese
<1>9. QED
  BY <1>1, <1>2, <1>8

LEMMA FilesStep ==
    ASSUME IOErrors = FALSE, InReach, FilesInv, Filling, [CommandNext]_allVars
    PROVE  FilesInv'
<1>1. /\ CommandInv /\ SafeInv /\ HandlesLive /\ JobReads /\ WriteReadBack /\ FlushNotSkipped
      /\ [Operation]_vars
  BY StepsOperate DEF FilesInv
<1>2. JobOpen
  <2>1. job.fh \in Handles
    BY <1>1 DEF CommandInv, TypeOK, JobType
  <2>2. QED
    BY <1>1, <2>1 DEF JobOpen, CommandInv, OneHandle, Holding
<1>3. SafeInv' /\ HandlesLive' /\ FlushNotSkipped'
  BY <1>1, SafeStep, LiveStep, FlushStep
<1>4. JobReads' /\ WriteReadBack'
  BY <1>1, <1>2, ReadsStep
<1>5. CommandInv'
  BY <1>1, CommandStepKeeps
<1>6. NoHoles(disk'.dir) /\ NoHoles(durable'.dir)
  BY HolesStep
<1>7. QED
  BY <1>3, <1>4, <1>5, <1>6 DEF FilesInv

-----------------------------------------------------------------------------
(* Taking the whole of a file.                                             *)

\* Where nothing is being taken.
LEMMA NotTaking ==
    ASSUME \/ cmd'.call = "none"
           \/ cmd'.at = "idle" /\ cmd'.call \notin {"TYPE", "RUN"}
           \/ cmd'.at = "close" /\ cmd'.then \in {"error", "flush"}
           \/ cmd'.at \in {"replace", "create", "write", "writing", "flush"}
           \/ cmd'.at = "delete" /\ cmd'.call \in {"DEL", "CC"},
           cmd'.call = "none" => cmd'.at = "idle"
    PROVE  TakingInv'
BY DEF TakingInv, Reading, Taken

\* The file stays what it was.
LEMMA WholeStays ==
    ASSUME HasWhole, disk'.dir = disk.dir,
           cmd'.same = cmd.same, cmd'.sp = cmd.sp, cmd'.n = cmd.n
    PROVE  HasWhole'
BY DEF HasWhole

LEMMA BeginTakes ==
    ASSUME NEW call \in Calls, NEW sp, Begin(call, sp)
    PROVE  TakingInv'
<1>1. CASE call = "DEL"
  <2>1. cmd'.at = "delete" /\ cmd'.call = "DEL"
    BY <1>1 DEF Begin, NoCommand
  <2>2. QED
    BY <2>1, NotTaking
<1>2. CASE call = "CC" /\ sp \notin DOMAIN ComName
  <2>1. cmd' = Failed
    BY <1>2 DEF Begin
  <2>2. QED
    BY <2>1, NoCommandType, NotTaking
<1>3. CASE call # "DEL" /\ ~(call = "CC" /\ sp \notin DOMAIN ComName)
  <2>1. cmd'.at = "open" /\ cmd'.same /\ cmd'.n = 0
    BY <1>3 DEF Begin, NoCommand
  <2>2. QED
    BY <2>1 DEF TakingInv, Reading, Taken
<1>4. QED
  BY <1>1, <1>2, <1>3

LEMMA OpenTakes ==
    ASSUME IOErrors = FALSE, CommandInv, TakingInv, OpenFile
    PROVE  TakingInv'
<1>1. /\ cmd.at = "open" /\ Open(cmd.sp) /\ cmd \in CmdType /\ TypeOK
      /\ cmd.same /\ cmd.n = 0
  BY DEF OpenFile, CommandInv, TakingInv
<1>2. CASE ret'.rc < 0
  BY <1>2, NoCommandType, NotTaking DEF OpenFile
<1>3. CASE ~(ret'.rc < 0)
  <2>1. PICK e \in Entries, h \in Handles :
          /\ Found(disk.dir, CpmName[cmd.sp], e)
          /\ handle' = [handle EXCEPT ![h] = OpenedHandle(e)]
          /\ ret'.rc = h /\ disk' = disk
    BY <1>1, <1>3
       DEF Open, NameCallFails, Refused, Fails, Answers, Returns, Result, Refreshed, SeekAndRead
  <2>2. cmd' = [cmd EXCEPT !.at = "read", !.fh = h]
    BY <1>3, <2>1 DEF OpenFile, GoesTo
  <2>3. /\ cmd'.at = "read" /\ cmd'.fh = h /\ cmd'.same /\ cmd'.n = 0 /\ cmd'.sp = cmd.sp
    BY <1>1, <2>2 DEF CmdType
  <2>4. handle'[h].entry = e /\ handle'[h].pos = 0
    BY <1>1, <2>1 DEF TypeOK, OpenedHandle
  <2>5. 0 <= SizeOf(disk.dir[e])
    BY <1>1, SectorSize DEF TypeOK, ImageType, EntryType, SizeOf
  <2>6. Reading'
    BY <2>1, <2>3, <2>4, <2>5 DEF Reading, Opened
  <2>7. QED
    BY <2>3, <2>6 DEF TakingInv, Taken
<1>4. QED
  BY <1>2, <1>3

LEMMA ReadFileTakes ==
    ASSUME IOErrors = FALSE, FilesInv, TakingInv, ReadFile
    PROVE  TakingInv'
<1>1. /\ cmd.at = "read" /\ Read(cmd.fh, Want) /\ cmd \in CmdType /\ TypeOK
      /\ cmd.fh \in Handles /\ NoHoles(disk.dir) /\ Want \in Nat /\ Want > 0
  BY WantType DEF ReadFile, FilesInv, CommandInv, CmdType
<1>2. handle[cmd.fh].used
  BY <1>1 DEF FilesInv, CommandInv, OneHandle, Holding
<1>3. /\ cmd.same /\ Found(disk.dir, CpmName[cmd.sp], Opened)
      /\ handle[cmd.fh].pos = cmd.n /\ cmd.n <= SizeOf(disk.dir[Opened])
  BY <1>1 DEF TakingInv, Reading
<1>4. Opened \in Entries /\ disk.dir[Opened].active
  BY <1>3 DEF Found, IsLeast
<1>5. /\ disk' = disk /\ ret'.rc \in Nat
      /\ handle'[cmd.fh].entry = Opened
      /\ handle'[cmd.fh].pos = cmd.n + ret'.rc
      /\ handle'[cmd.fh].pos <= SizeOf(disk.dir[Opened])
      /\ ret'.rc = 0 => cmd.n = SizeOf(disk.dir[Opened])
  BY <1>1, <1>2, <1>3, <1>4, ReadTakes DEF Opened
<1>6. CASE cmd' = Closes("error")
  <2>1. cmd'.at = "close" /\ cmd'.then = "error" /\ cmd'.call = cmd.call
    BY <1>1, <1>6 DEF Closes, CmdType
  <2>2. QED
    BY <2>1 DEF TakingInv, Reading, Taken
<1>7. CASE ret'.rc = 0 /\ cmd' = Closes(AfterReading)
  <2>1. /\ cmd'.at = "close" /\ cmd'.same = cmd.same /\ cmd'.sp = cmd.sp /\ cmd'.n = cmd.n
    BY <1>1, <1>7 DEF Closes, CmdType
  <2>2. HasWhole
    BY <1>3, <1>4, <1>5, <1>7 DEF HasWhole
  <2>3. HasWhole'
    BY <1>5, <2>1, <2>2, WholeStays
  <2>4. QED
    BY <2>1, <2>3 DEF TakingInv, Reading
<1>8. CASE cmd' = Took(ret'.rc)
  <2>1. /\ cmd'.at = "read" /\ cmd'.fh = cmd.fh /\ cmd'.sp = cmd.sp
        /\ cmd'.n = cmd.n + ret'.rc /\ cmd'.same = (cmd.same /\ handle[cmd.fh].pos = cmd.n)
    BY <1>1, <1>8 DEF Took, CmdType
  <2>2. cmd'.same
    BY <1>3, <2>1
  <2>3. Reading'
    BY <1>3, <1>5, <2>1, <2>2 DEF Reading, Opened
  <2>4. QED
    BY <2>1, <2>3 DEF TakingInv, Taken
<1>9. \/ cmd' = Closes("error")
      \/ ret'.rc = 0 /\ cmd' = Closes(AfterReading)
      \/ cmd' = Took(ret'.rc)
  <2>1. ret'.rc \in Nat
    BY <1>5
  <2>2. ~(ret'.rc < 0) /\ (ret'.rc <= 0 => ret'.rc = 0)
    BY <2>1
  <2>3. QED
    BY <2>2 DEF ReadFile
<1>10. QED
  BY <1>6, <1>7, <1>8, <1>9

LEMMA CloseTakes ==
    ASSUME CommandInv, TakingInv, CloseFile
    PROVE  TakingInv'
<1>1. cmd.at = "close" /\ cmd \in CmdType /\ disk' = disk
  BY DEF CloseFile, Close, CommandInv
<1>2. CASE cmd.then \in {"ok", "compile"}
  <2>1. HasWhole
    BY <1>1, <1>2 DEF TakingInv, Taken
  <2>2. /\ cmd'.at \in {"idle", "compile"}
        /\ cmd'.same = cmd.same /\ cmd'.sp = cmd.sp /\ cmd'.n = cmd.n
    BY <1>1, <1>2 DEF CloseFile, EndsWell, GoesTo, CmdType
  <2>3. HasWhole'
    BY <1>1, <2>1, <2>2, WholeStays
  <2>4. QED
    BY <2>2, <2>3 DEF TakingInv, Reading
<1>3. CASE cmd.then = "error"
  BY <1>3, NoCommandType, NotTaking DEF CloseFile
<1>4. CASE cmd.then = "flush"
  <2>1. cmd'.at = "flush"
    BY <1>1, <1>4 DEF CloseFile, GoesTo, CmdType
  <2>2. QED
    BY <2>1 DEF TakingInv, Reading, Taken
<1>5. QED
  BY <1>1, <1>2, <1>3, <1>4 DEF CmdType

\* The part of cc that follows, and the ends of calls.
LEMMA RestTakes ==
    ASSUME IOErrors = FALSE, CommandInv, TakingInv, [CommandNext]_allVars,
           ~OpenFile, ~ReadFile, ~CloseFile,
           ~\E call \in Calls, sp \in Spellings : Begin(call, sp)
    PROVE  TakingInv'
<1>1. cmd \in CmdType /\ Asked
  BY DEF CommandInv
<1>2. CASE cmd' \in {Failed, NoCommand}
  BY <1>2, NoCommandType, NotTaking
<1>3. ASSUME NEW at \in {"replace", "create", "write", "writing"}, cmd'.at = at
      PROVE  TakingInv'
  BY <1>3 DEF TakingInv, Reading, Taken
<1>4. CASE CompileSource
  <2>1. cmd' = Failed \/ cmd'.at = "replace"
    BY <1>1, <1>4 DEF CompileSource, GoesTo, CmdType
  <2>2. QED
    BY <1>2, <1>3, <2>1
<1>5. CASE LookForOld
  <2>1. cmd.call = "CC"
    BY <1>1, <1>5 DEF LookForOld, Asked, OfCc
  <2>2. cmd'.at \in {"delete", "create"} /\ cmd'.call = "CC"
    BY <1>1, <1>5, <2>1 DEF LookForOld, GoesTo, CmdType
  <2>3. QED
    BY <2>2 DEF TakingInv, Reading, Taken
<1>6. CASE DeleteFile
  <2>1. cmd.call \in {"DEL", "CC"}
    BY <1>6 DEF DeleteFile, TakingInv
  <2>2. CASE cmd' = GoesTo("create")
    BY <1>1, <1>3, <2>2 DEF GoesTo, CmdType
  <2>3. CASE cmd' = EndsWell
    <3>1. cmd'.at = "idle" /\ cmd'.call = cmd.call
      BY <1>1, <2>3 DEF EndsWell, CmdType
    <3>2. QED
      BY <2>1, <3>1 DEF TakingInv, Reading, Taken
  <2>4. QED
    BY <1>2, <1>6, <2>2, <2>3 DEF DeleteFile
<1>7. CASE CreateFile
  <2>1. cmd' = Failed \/ cmd'.at = "write"
    BY <1>1, <1>7 DEF CreateFile, GoesTo, CmdType
  <2>2. QED
    BY <1>2, <1>3, <2>1
<1>8. CASE StartWrite \/ EndWrite
  <2>1. cmd'.at = "writing" \/ (cmd'.at = "close" /\ cmd'.then \in {"error", "flush"})
    BY <1>1, <1>8 DEF StartWrite, EndWrite, GoesTo, Closes, CmdType
  <2>2. QED
    BY <2>1 DEF TakingInv, Reading, Taken
<1>9. CASE WriteSectors
  BY <1>3, <1>9 DEF WriteSectors
<1>10. CASE FlushDisk
  <2>1. cmd.call = "CC"
    BY <1>1, <1>10 DEF FlushDisk, Asked, OfCc
  <2>2. cmd'.at = "idle" /\ cmd'.call = "CC"
    BY <1>1, <1>10, <2>1 DEF FlushDisk, EndsWell, CmdType
  <2>3. QED
    BY <2>2 DEF TakingInv, Reading, Taken
<1>11. CASE Boot \/ UNCHANGED allVars
  <2>1. cmd' = cmd /\ disk'.dir = disk.dir
    BY <1>11 DEF Boot, FsInit, allVars, vars
  <2>2. CASE UNCHANGED allVars
    BY <2>2 DEF allVars, vars, TakingInv, Reading, Opened, Taken, HasWhole
  <2>3. CASE Boot
    <3>1. cmd.at = "idle"
      BY <1>1, <2>3 DEF Boot, Asked
    <3>2. QED
      BY <2>1, <3>1, WholeStays DEF TakingInv, Reading, Taken
  <2>4. QED
    BY <1>11, <2>2, <2>3
<1>12. CASE Killed \/ Leaves
  BY <1>2, <1>12 DEF Killed, Leaves
<1>13. QED
  BY <1>4, <1>5, <1>6, <1>7, <1>8, <1>9, <1>10, <1>11, <1>12
     DEF CommandNext, CommandStep, Calls

LEMMA TakingStep ==
    ASSUME IOErrors = FALSE, FilesInv, TakingInv, [CommandNext]_allVars
    PROVE  TakingInv'
<1>1. CommandInv
  BY DEF FilesInv
<1>2. (\E call \in Calls, sp \in Spellings : Begin(call, sp)) => TakingInv'
  BY BeginTakes
<1>3. QED
  BY <1>1, <1>2, OpenTakes, ReadFileTakes, CloseTakes, RestTakes

-----------------------------------------------------------------------------
(* Making a program.                                                       *)

\* Where nothing is being made.
LEMMA NotMaking ==
    ASSUME \/ cmd'.at = "idle" /\ cmd'.call # "CC"
           \/ cmd'.at \in {"open", "read", "compile", "replace", "delete", "create"}
           \/ cmd'.at = "close" /\ cmd'.then \in {"error", "compile"}
           \/ cmd'.at = "close" /\ cmd'.then = "ok" /\ cmd'.call # "CC"
    PROVE  MakingInv'
BY DEF MakingInv, Fresh, Filling, Made

LEMMA OverMakes == ASSUME cmd' \in {Failed, NoCommand} PROVE MakingInv'
BY NoCommandType, NotMaking

\* A program that is there stays.
LEMMA ProgramStays ==
    ASSUME Program, disk'.dir = disk.dir, disk'.sec = disk.sec,
           cmd'.sp = cmd.sp, cmd'.size = cmd.size, cmd'.byte = cmd.byte
    PROVE  Program'
BY DEF Program, ByteOf, Com

LEMMA CreateMakes ==
    ASSUME IOErrors = FALSE, CommandInv, CreateFile
    PROVE  MakingInv'
<1>1. /\ cmd.at = "create" /\ cmd \in CmdType /\ TypeOK /\ Com \in Spellings /\ Create(Com)
  BY ComIsSpelling DEF CreateFile, CommandInv, Asked, OfCc
<1>2. CASE ret'.rc < 0
  BY <1>2, OverMakes DEF CreateFile
<1>3. CASE ~(ret'.rc < 0)
  <2>1. PICK e \in Entries :
          /\ disk' = [disk EXCEPT !.dir[e] = NewEntry(CpmName[Com])]
          /\ ret'.rc \in Handles
          /\ handle' = [handle EXCEPT ![ret'.rc] = OpenedHandle(e)]
    BY <1>1, <1>3, CreatesNew
  <2>2. cmd' = [cmd EXCEPT !.at = "write", !.fh = ret'.rc]
    BY <1>3 DEF CreateFile, GoesTo
  <2>3. cmd'.at = "write" /\ cmd'.fh = ret'.rc /\ cmd'.sp = cmd.sp
    BY <1>1, <2>2 DEF CmdType
  <2>4. handle'[cmd'.fh].entry = e /\ handle'[cmd'.fh].pos = 0
    BY <1>1, <2>1, <2>3 DEF TypeOK, OpenedHandle
  <2>5. disk'.dir[e] = NewEntry(CpmName[Com])
    BY <1>1, <2>1 DEF TypeOK, ImageType
  <2>6. Com' = Com
    BY <2>3 DEF Com
  <2>7. Fresh'
    BY <2>4, <2>5, <2>6 DEF Fresh, Opened, IsNew, NewEntry
  <2>8. QED
    BY <2>3, <2>7 DEF MakingInv, Filling, Made
<1>4. QED
  BY <1>2, <1>3

LEMMA StartMakes ==
    ASSUME CommandInv, MakingInv, StartWrite
    PROVE  MakingInv'
<1>1. cmd.at = "write" /\ cmd \in CmdType
  BY DEF StartWrite, CommandInv
<1>2. IsNew(disk.dir[Opened]) /\ handle[cmd.fh].pos = 0
  BY <1>1 DEF MakingInv, Fresh
<1>3. CASE cmd' = Closes("error")
  <2>1. cmd'.at = "close" /\ cmd'.then = "error"
    BY <1>1, <1>3 DEF Closes, CmdType
  <2>2. QED
    BY <2>1, NotMaking
<1>4. CASE WriteBegin(cmd.fh, cmd.size, cmd.byte) /\ cmd' = GoesTo("writing")
  <2>1. cmd'.at = "writing" /\ cmd'.sp = cmd.sp /\ cmd'.byte = cmd.byte
    BY <1>1, <1>4 DEF GoesTo, CmdType
  <2>2. /\ job'.rec = disk.dir[Opened] /\ job'.data = cmd.byte
        /\ job'.pos = 0 /\ job'.total = 0
    BY <1>2, <1>4 DEF WriteBegin, Refreshed, Opened
  <2>3. Filling'
    BY <1>2, <2>1, <2>2 DEF Filling, IsNew, Com
  <2>4. QED
    BY <2>1, <2>3 DEF MakingInv, Fresh, Made
<1>5. QED
  BY <1>3, <1>4 DEF StartWrite

LEMMA SectorMakes ==
    ASSUME CommandInv, MakingInv, WriteSectors
    PROVE  MakingInv'
<1>1. /\ cmd.at = "writing" /\ cmd' = cmd /\ TypeOK /\ job \in JobType /\ job.rec \in EntryType
  BY DEF WriteSectors, CommandInv, TypeOK, JobType
<1>2. IsNew(job.rec) /\ job.pos = job.total /\ job.data = cmd.byte
  BY <1>1 DEF MakingInv, Filling
<1>3. PICK rec : /\ job' = Advanced(rec)
                 /\ rec.active = job.rec.active /\ rec.name = job.rec.name
                 /\ rec.count = job.rec.count
  <2>1. CASE WriteInPlace
    BY <2>1 DEF WriteInPlace
  <2>2. CASE WriteAllocating
    <3>1. PICK l \in DataSectors :
            job' = Advanced([job.rec EXCEPT !.alloc[SlotOf(job.pos)] = AllocByte(l)])
      BY <2>2 DEF WriteAllocating
    <3>2. QED
      BY <1>1, <3>1 DEF EntryType
  <2>3. QED
    BY <2>1, <2>2 DEF WriteSectors
<1>4. /\ job'.rec = rec /\ job'.data = job.data
      /\ job'.pos = job.pos + Chunk /\ job'.total = job.total + Chunk
  BY <1>1, <1>3 DEF Advanced, JobType
<1>5. Filling'
  BY <1>1, <1>2, <1>3, <1>4 DEF Filling, IsNew, Com
<1>6. QED
  BY <1>1, <1>5 DEF MakingInv, Fresh, Made

LEMMA EndMakes ==
    ASSUME IOErrors = FALSE, FilesInv, FilesInv', MakingInv, EndWrite
    PROVE  MakingInv'
<1>1. /\ WriteEnd /\ job.busy /\ job.rec.count = 0 /\ job.pos = job.total
      /\ JobEntry \in Entries
      /\ disk' = [disk EXCEPT !.dir[JobEntry] = WrittenEntry]
      /\ ret'.rc = job.total
      /\ WrittenEntry.active /\ WrittenEntry.name = CpmName[Com]
  BY EndsWhole DEF MakingInv
<1>2. /\ cmd.at = "writing" /\ cmd \in CmdType /\ TypeOK /\ job \in JobType
      /\ job.data = cmd.byte /\ JobReads
  BY DEF EndWrite, FilesInv, CommandInv, TypeOK, MakingInv, Filling
<1>3. job.total \in Nat /\ job.fh \in Handles /\ cmd.size \in Nat
  BY <1>2 DEF JobType, CmdType
<1>4. CASE cmd' = Closes("error")
  <2>1. cmd'.at = "close" /\ cmd'.then = "error"
    BY <1>2, <1>4 DEF Closes, CmdType
  <2>2. QED
    BY <2>1, NotMaking
<1>5. CASE job.total = cmd.size /\ cmd' = Closes("flush")
  <2>1. /\ cmd'.at = "close" /\ cmd'.then = "flush"
        /\ cmd'.sp = cmd.sp /\ cmd'.size = cmd.size /\ cmd'.byte = cmd.byte
    BY <1>2, <1>5 DEF Closes, CmdType
  <2>2. disk'.dir[JobEntry] = WrittenEntry
    BY <1>1, <1>2 DEF TypeOK, ImageType
  <2>3. Found(disk'.dir, CpmName[Com], JobEntry)
    <3>1. OneEntryPerName(disk'.dir)
      BY DEF FilesInv, SafeInv, NamesUnique
    <3>2. \A x \in Entries : disk'.dir[x].active /\ disk'.dir[x].name = CpmName[Com] => x = JobEntry
      BY <1>1, <2>2, <3>1 DEF OneEntryPerName
    <3>3. JobEntry <= JobEntry
      BY <1>1 DEF Entries
    <3>4. QED
      BY <1>1, <2>2, <3>2, <3>3 DEF Found, IsLeast
  <2>4. /\ SizeOf(disk'.dir[JobEntry]) >= cmd.size
        /\ SizeOf(disk'.dir[JobEntry]) < cmd.size + SectorBytes
    <3>1. job.total <= SizeOf(WrittenEntry) /\ SizeOf(WrittenEntry) < job.total + SectorBytes
      BY <1>1, <1>2, FreshIsWritten
    <3>2. WrittenEntry \in EntryType
      BY <1>2, WrittenEntryType
    <3>3. SizeOf(WrittenEntry) \in Nat
      BY <3>2, SectorSize DEF SizeOf, EntryType
    <3>4. QED
      BY <1>3, <1>5, <2>2, <3>1, <3>3
  <2>5. /\ ret'.op = "write" /\ ret'.at = 0 /\ ret'.fh = job.fh /\ ret'.data = cmd.byte
    BY <1>1, <1>2, <1>3 DEF WriteEnd, WriteReturns
  <2>6. handle'[job.fh].entry = JobEntry
    BY <1>1, <1>2, <1>3 DEF WriteEnd, TypeOK, HandleType, JobEntry
  <2>7. ASSUME NEW q \in 0 .. cmd.size - 1 PROVE ByteOf(disk', JobEntry, q) = cmd.byte
    <3>1. ret'.rc > 0 /\ q \in ret'.at .. ret'.at + ret'.rc - 1
      BY <1>1, <1>3, <1>5, <2>5, <2>7
    <3>2. WriteReadBack'
      BY DEF FilesInv
    <3>3. LET entry == disk'.dir[handle'[ret'.fh].entry]
          IN  disk'.sec[entry.alloc[SlotOf(q)] - 1][q % SectorBytes] = ret'.data
      BY <2>5, <3>1, <3>2 DEF WriteReadBack
    <3>4. QED
      BY <2>5, <2>6, <3>3 DEF ByteOf
  <2>8. Program'
    BY <1>1, <2>1, <2>3, <2>4, <2>7 DEF Program, ByteOf, Com
  <2>9. QED
    BY <2>1, <2>8 DEF MakingInv, Fresh, Filling
<1>6. QED
  BY <1>1, <1>4, <1>5 DEF EndWrite

LEMMA CloseMakes ==
    ASSUME CommandInv, MakingInv, CloseFile
    PROVE  MakingInv'
<1>1. cmd.at = "close" /\ cmd \in CmdType /\ disk' = disk
  BY DEF CloseFile, Close, CommandInv
<1>2. CASE cmd.then = "error"
  BY <1>2, OverMakes DEF CloseFile
<1>3. CASE cmd.then = "ok"
  <2>1. cmd.call # "CC"
    BY <1>1, <1>3 DEF MakingInv
  <2>2. cmd'.at = "idle" /\ cmd'.call = cmd.call
    BY <1>1, <1>3 DEF CloseFile, EndsWell, CmdType
  <2>3. QED
    BY <2>1, <2>2, NotMaking
<1>4. CASE cmd.then = "compile"
  <2>1. cmd'.at = "compile"
    BY <1>1, <1>4 DEF CloseFile, GoesTo, CmdType
  <2>2. QED
    BY <2>1, NotMaking
<1>5. CASE cmd.then = "flush"
  <2>1. /\ cmd'.at = "flush"
        /\ cmd'.sp = cmd.sp /\ cmd'.size = cmd.size /\ cmd'.byte = cmd.byte
    BY <1>1, <1>5 DEF CloseFile, GoesTo, CmdType
  <2>2. Program
    BY <1>1, <1>5 DEF MakingInv, Made
  <2>3. Program'
    BY <1>1, <2>1, <2>2, ProgramStays
  <2>4. QED
    BY <2>1, <2>3 DEF MakingInv, Fresh, Filling
<1>6. QED
  BY <1>1, <1>2, <1>3, <1>4, <1>5 DEF CmdType

LEMMA FlushMakes ==
    ASSUME IOErrors = FALSE, FilesInv, MakingInv, FlushDisk
    PROVE  MakingInv'
<1>1. cmd.at = "flush" /\ cmd \in CmdType /\ mounted /\ Flush
  BY DEF FlushDisk, FilesInv, CommandInv, Asked
<1>2. disk' = disk /\ durable' = disk'
  <2>1. CASE mounted /\ dirty
    BY <2>1 DEF FlushDisk, Flush, Fails, HostFails, Seek
  <2>2. CASE ~dirty
    BY <1>1, <2>2 DEF Flush, Refused, FilesInv, FlushNotSkipped
  <2>3. QED
    BY <1>1, <2>1, <2>2
<1>3. /\ cmd'.at = "idle"
      /\ cmd'.sp = cmd.sp /\ cmd'.size = cmd.size /\ cmd'.byte = cmd.byte
  BY <1>1 DEF FlushDisk, EndsWell, CmdType
<1>4. Program
  BY <1>1 DEF MakingInv, Made
<1>5. Program'
  BY <1>2, <1>3, <1>4, ProgramStays
<1>6. QED
  BY <1>2, <1>3, <1>5 DEF MakingInv, Fresh, Filling

\* Before there is a program, and the ends of calls.
LEMMA RestMakes ==
    ASSUME IOErrors = FALSE, CommandInv, MakingInv, [CommandNext]_allVars,
           ~CreateFile, ~StartWrite, ~WriteSectors, ~EndWrite, ~CloseFile, ~FlushDisk
    PROVE  MakingInv'
<1>1. cmd \in CmdType /\ Asked
  BY DEF CommandInv
<1>2. ASSUME NEW call \in Calls, NEW sp, Begin(call, sp) PROVE MakingInv'
  <2>1. cmd' = Failed \/ cmd'.at \in {"open", "delete"}
    BY <1>2 DEF Begin, NoCommand
  <2>2. QED
    BY <2>1, OverMakes, NotMaking
<1>3. CASE OpenFile
  <2>1. cmd' = Failed \/ cmd'.at = "read"
    BY <1>1, <1>3 DEF OpenFile, GoesTo, CmdType
  <2>2. QED
    BY <2>1, OverMakes, NotMaking
<1>4. CASE ReadFile
  <2>1. \/ cmd' = Closes("error")
        \/ cmd' = Closes(AfterReading)
        \/ cmd' = Took(ret'.rc)
    BY <1>4, Zenon DEF ReadFile
  <2>2. CASE cmd' = Closes("error")
    <3>1. cmd'.at = "close" /\ cmd'.then = "error"
      BY <1>1, <2>2 DEF Closes, CmdType
    <3>2. QED
      BY <3>1, NotMaking
  <2>3. CASE cmd' = Closes(AfterReading)
    <3>1. cmd'.at = "close" /\ cmd'.then = AfterReading /\ cmd'.call = cmd.call
      BY <1>1, <2>3 DEF Closes, CmdType
    <3>2. QED
      BY <3>1, NotMaking DEF AfterReading
  <2>4. CASE cmd' = Took(ret'.rc)
    <3>1. cmd'.at = "read"
      BY <1>1, <1>4, <2>4 DEF ReadFile, Took, CmdType
    <3>2. QED
      BY <3>1, NotMaking
  <2>5. QED
    BY <2>1, <2>2, <2>3, <2>4
<1>5. CASE CompileSource \/ LookForOld
  <2>1. cmd' = Failed \/ cmd'.at \in {"replace", "delete", "create"}
    BY <1>1, <1>5 DEF CompileSource, LookForOld, GoesTo, CmdType
  <2>2. QED
    BY <2>1, OverMakes, NotMaking
<1>6. CASE DeleteFile
  <2>1. \/ cmd' = Failed
        \/ cmd'.at = "create"
        \/ cmd'.at = "idle" /\ cmd'.call # "CC"
    BY <1>1, <1>6 DEF DeleteFile, GoesTo, EndsWell, CmdType
  <2>2. QED
    BY <2>1, OverMakes, NotMaking
<1>7. CASE Boot
  <2>1. cmd' = cmd /\ disk' = disk /\ durable' = disk /\ cmd.at = "idle"
    BY <1>1, <1>7 DEF Boot, FsInit, Asked
  <2>2. Program => Program'
    BY <2>1, ProgramStays
  <2>3. QED
    BY <2>1, <2>2 DEF MakingInv, Fresh, Filling, Made
<1>8. CASE Killed \/ Leaves
  BY <1>8, OverMakes DEF Killed, Leaves
<1>9. CASE UNCHANGED allVars
  <2>1. cmd' = cmd /\ disk' = disk /\ durable' = durable /\ handle' = handle /\ job' = job
    BY <1>9 DEF allVars, vars
  <2>2. Program => Program'
    BY <2>1, ProgramStays
  <2>3. QED
    BY <2>1, <2>2 DEF MakingInv, Fresh, Filling, Made, IsNew, Opened, Com
<1>10. QED
  BY <1>2, <1>3, <1>4, <1>5, <1>6, <1>7, <1>8, <1>9 DEF CommandNext, CommandStep, Calls

LEMMA MakingStep ==
    ASSUME IOErrors = FALSE, FilesInv, FilesInv', MakingInv, [CommandNext]_allVars
    PROVE  MakingInv'
<1>1. CommandInv
  BY DEF FilesInv
<1>2. QED
  BY <1>1, CreateMakes, StartMakes, SectorMakes, EndMakes, CloseMakes, FlushMakes, RestMakes

-----------------------------------------------------------------------------
(* From the disks fs.c makes.                                              *)

LEMMA FilesStart ==
    ASSUME \A image \in Images : ImageSound(image), CommandInit
    PROVE  FilesInv /\ TakingInv /\ MakingInv
<1>1. /\ CommandInv
      /\ cmd = NoCommand /\ ~job.busy /\ ret = Result("call", 0)
      /\ \A h \in Handles : ~handle[h].used
  BY CommandStart DEF CommandInit, NoJob, ClosedHandle
<1>2. durable = disk /\ ImageSound(disk)
  BY DEF CommandInit
<1>3. SafeInv
  BY <1>1, <1>2 DEF SafeInv, CommandInv, AllocSafe, NamesUnique, JobKeepsName, ImageSound
<1>4. JobReads /\ HandlesLive /\ FlushNotSkipped
  BY <1>1, <1>2 DEF JobReads, HandlesLive, FlushNotSkipped
<1>5. WriteReadBack
  <2>1. ret.op = "call"
    BY <1>1 DEF Result
  <2>2. QED
    BY <2>1 DEF WriteReadBack
<1>6. FilesInv
  BY <1>1, <1>2, <1>3, <1>4, <1>5 DEF FilesInv, ImageSound
<1>7. cmd.call = "none" /\ cmd.at = "idle"
  BY <1>1 DEF NoCommand
<1>8. TakingInv /\ MakingInv
  BY <1>7 DEF TakingInv, Reading, Taken, MakingInv, Fresh, Filling, Made
<1>9. QED
  BY <1>6, <1>8

LEMMA FilesKept ==
    ASSUME IOErrors = FALSE,
           \A image \in Images : ImageSound(image)
    PROVE  CommandSpec /\ []InReach => [](FilesInv /\ TakingInv /\ MakingInv)
<1>1. CommandInit => FilesInv /\ TakingInv /\ MakingInv
  BY FilesStart
<1>2. FilesInv /\ TakingInv /\ MakingInv /\ InReach /\ [CommandNext]_allVars
        => FilesInv' /\ TakingInv' /\ MakingInv'
  <2> SUFFICES ASSUME FilesInv, TakingInv, MakingInv, InReach, [CommandNext]_allVars
               PROVE  FilesInv' /\ TakingInv' /\ MakingInv'
    OBVIOUS
  <2>1. FilesInv'
    BY FilesStep DEF MakingInv
  <2>2. QED
    BY <2>1, TakingStep, MakingStep
<1>3. QED
  BY <1>1, <1>2, PTL DEF CommandSpec

\* What type and run take, and what cc compiles, is the whole of the file named
\* and nothing else, whatever the sizes: the chunks fs_read gives follow one
\* another, and it gives none only at the end.  It takes a host that does not
\* fail, disks that start without holes, and that no write has to take a sector
\* whose allocation byte wraps (bios_typefile, bios_runfile, bios_cccompile).
THEOREM WholeIsTaken ==
    ASSUME IOErrors = FALSE,
           \A image \in Images : ImageSound(image)
    PROVE  CommandSpec /\ []InReach => []TakesWhole
<1>1. TakingInv => TakesWhole
  BY DEF TakingInv, Taken, TakesWhole
<1>2. QED
  BY <1>1, FilesKept, PTL

\* When cc has ended well, the file under the program's name has every byte
\* compiler_compile made, and the host file is the disk: no kill loses it
\* (bios_cccompile: what fs_write says it wrote is compared with what it was
\* to write, and the disk is flushed).  The conditions are those of WholeIsTaken.
THEOREM CompiledIsSaved ==
    ASSUME IOErrors = FALSE,
           \A image \in Images : ImageSound(image)
    PROVE  CommandSpec /\ []InReach => []Saved
<1>1. MakingInv => Saved
  BY DEF MakingInv, Made, Program, Saved
<1>2. QED
  BY <1>1, FilesKept, PTL

-----------------------------------------------------------------------------
(* No file is part of two programs, whatever fails.                        *)

GoodImage(image) == NoHoles(image.dir) /\ Unmixed(image)

\* The new file of cc has no sector before it is written.
Blank == cmd.at = "write" =>
    /\ IsNew(disk.dir[Opened]) /\ handle[cmd.fh].pos = 0
    /\ \A s \in Slots : disk.dir[Opened].alloc[s] = 0

\* While it is written, the disk has it as empty, and the slots up to the
\* position have sectors that hold the program, and zeros past its end.
Growing == cmd.at = "writing" =>
    /\ IsNew(job.rec)
    /\ disk.dir[JobEntry].count = 0
    /\ job.pos = job.total /\ job.pos <= SlotsPerFile * SectorBytes
    /\ \A s \in Slots :
          /\ job.rec.alloc[s] # 0 <=> s * SectorBytes < job.pos
          /\ job.rec.alloc[s] # 0 => \A i \in 0 .. SectorBytes - 1 :
                disk.sec[job.rec.alloc[s] - 1][i] =
                    IF s * SectorBytes + i < job.pos THEN job.data ELSE 0

MixedInv == GoodImage(disk) /\ GoodImage(durable) /\ Blank /\ Growing

\* A file that keeps its sectors is as much of one program as before.
LEMMA SameProgram ==
    ASSUME NEW one, NEW two, NEW e \in Entries, OneProgram(one, e),
           two.dir[e] = one.dir[e], one.dir[e].count \in Nat, one.dir[e].count <= SlotsPerFile,
           \A s \in Slots : s < one.dir[e].count =>
              two.sec[one.dir[e].alloc[s] - 1] = one.sec[one.dir[e].alloc[s] - 1]
    PROVE  OneProgram(two, e)
<1> DEFINE size == SizeOf(one.dir[e])
<1>1. size \in Nat /\ SizeOf(two.dir[e]) = size /\ size = one.dir[e].count * SectorBytes
  BY SectorSize DEF SizeOf
<1>2. ASSUME NEW q \in 0 .. size - 1 PROVE ByteOf(two, e, q) = ByteOf(one, e, q)
  <2>1. q \in Nat /\ q < one.dir[e].count * SectorBytes
    BY <1>1, <1>2
  <2>2. SlotOf(q) \in Nat /\ SlotOf(q) < one.dir[e].count
    BY <2>1, SlotBefore, Remainder
  <2>3. SlotOf(q) \in Slots
    BY <2>2, FileSystemAssumption DEF Slots
  <2>4. QED
    BY <2>2, <2>3 DEF ByteOf
<1>3. QED
  BY <1>1, <1>2 DEF OneProgram

\* One entry is written, and is of one program or of none.
LEMMA EntryUnmixes ==
    ASSUME disk \in ImageType, GoodImage(disk), NEW e \in Entries, NEW rec,
           disk' = [disk EXCEPT !.dir[e] = rec],
           rec.active => /\ rec.count <= SlotsPerFile
                         /\ \A s \in Slots : s < rec.count => rec.alloc[s] # 0
                         /\ OneProgram(disk', e)
    PROVE  GoodImage(disk')
<1>1. /\ disk'.dir[e] = rec /\ disk'.sec = disk.sec
      /\ \A x \in Entries : x # e => disk'.dir[x] = disk.dir[x]
  BY DEF ImageType
<1>2. NoHoles(disk'.dir)
  BY <1>1 DEF GoodImage, NoHoles
<1>3. ASSUME NEW x \in Entries, disk'.dir[x].active, disk'.dir[x].name \in ComNames
      PROVE  OneProgram(disk', x)
  <2>1. CASE x = e
    BY <1>1, <1>3, <2>1
  <2>2. CASE x # e
    <3>1. disk'.dir[x] = disk.dir[x]
      BY <1>1, <2>2
    <3>2. OneProgram(disk, x)
      BY <1>3, <3>1 DEF GoodImage, Unmixed
    <3>3. disk.dir[x].count \in Nat /\ disk.dir[x].count <= SlotsPerFile
      BY <1>3, <3>1 DEF GoodImage, NoHoles, ImageType, EntryType
    <3>4. \A s \in Slots : s < disk.dir[x].count =>
             disk'.sec[disk.dir[x].alloc[s] - 1] = disk.sec[disk.dir[x].alloc[s] - 1]
      BY <1>1
    <3> DEFINE one == disk
               two == disk'
    <3>5. /\ OneProgram(one, x) /\ two.dir[x] = one.dir[x]
          /\ one.dir[x].count \in Nat /\ one.dir[x].count <= SlotsPerFile
          /\ \A s \in Slots : s < one.dir[x].count =>
                two.sec[one.dir[x].alloc[s] - 1] = one.sec[one.dir[x].alloc[s] - 1]
      BY <3>1, <3>2, <3>3, <3>4
    <3> HIDE DEF one, two
    <3>6. OneProgram(two, x)
      BY <3>5, SameProgram
    <3>7. QED
      BY <3>6 DEF two
  <2>3. QED
    BY <2>1, <2>2
<1>4. QED
  BY <1>2, <1>3 DEF GoodImage, Unmixed

\* A file without bytes.
LEMMA EmptyIsOne ==
    ASSUME NEW image, NEW e, image.dir[e].count = 0
    PROVE  OneProgram(image, e)
<1>1. SizeOf(image.dir[e]) = 0
  BY SectorSize DEF SizeOf
<1>2. QED
  BY <1>1 DEF OneProgram

\* A sector is written that belongs to no file, or to one without bytes.
LEMMA SectorUnmixes ==
    ASSUME disk \in ImageType, GoodImage(disk), disk'.dir = disk.dir, NEW l,
           \A x : x # l => disk'.sec[x] = disk.sec[x],
           \A e \in Entries, s \in Slots :
              disk.dir[e].active /\ s < disk.dir[e].count => disk.dir[e].alloc[s] - 1 # l
    PROVE  GoodImage(disk')
<1>1. NoHoles(disk'.dir)
  BY DEF GoodImage
<1>2. ASSUME NEW x \in Entries, disk'.dir[x].active, disk'.dir[x].name \in ComNames
      PROVE  OneProgram(disk', x)
  <2>1. OneProgram(disk, x)
    BY <1>2 DEF GoodImage, Unmixed
  <2>2. disk.dir[x].count \in Nat /\ disk.dir[x].count <= SlotsPerFile
    BY <1>2 DEF GoodImage, NoHoles, ImageType, EntryType
  <2>3. \A s \in Slots : s < disk.dir[x].count =>
           disk'.sec[disk.dir[x].alloc[s] - 1] = disk.sec[disk.dir[x].alloc[s] - 1]
    BY <1>2
  <2>4. disk'.dir[x] = disk.dir[x]
    OBVIOUS
  <2>5. QED
    BY <2>1, <2>2, <2>3, <2>4, SameProgram
<1>3. QED
  BY <1>1, <1>2 DEF GoodImage, Unmixed

-----------------------------------------------------------------------------
(* The steps.                                                              *)

\* Whatever fails, the two images change places at most.
LEMMA ImagesStay ==
    ASSUME NEW rc, Refused(rc) \/ Fails(rc) \/ Answers(rc)
    PROVE  disk' \in {disk, durable} /\ durable' \in {disk, durable} /\ ret'.rc = rc
BY DEF Refused, Fails, HostFails, Answers, SeekAndRead, Seek, Returns, Result

LEMMA OthersStay ==
    ASSUME CommandInv, [CommandNext]_allVars,
           ~CreateFile, ~DeleteFile, ~WriteSectors, ~EndWrite
    PROVE  disk' \in {disk, durable} /\ durable' \in {disk, durable}
<1>1. ASSUME NEW sp, Open(sp) \/ Exists(sp)
      PROVE  disk' \in {disk, durable} /\ durable' \in {disk, durable}
  BY <1>1, ImagesStay DEF Open, Exists, NameCallFails, SeekAndRead, Seek
<1>2. ASSUME NEW fh, NEW len, NEW byte,
             Read(fh, len) \/ WriteRefused(fh, len) \/ WriteBegin(fh, len, byte) \/ Close(fh)
      PROVE  disk' \in {disk, durable} /\ durable' \in {disk, durable}
  BY <1>2, ImagesStay DEF Read, WriteRefused, WriteBegin, Close, SeekAndRead, Seek
<1>3. CASE OpenFile \/ LookForOld
  BY <1>1, <1>3 DEF OpenFile, LookForOld
<1>4. CASE ReadFile \/ CloseFile \/ StartWrite
  BY <1>2, <1>4 DEF ReadFile, CloseFile, StartWrite
<1>5. CASE FlushDisk
  BY <1>5, ImagesStay DEF FlushDisk, Flush, Seek
<1>6. CASE Boot \/ Leaves \/ Killed
  BY <1>6 DEF Boot, Leaves, Killed, FsInit, Exit, Crash, Restarted
<1>7. ASSUME NEW call, NEW sp, Begin(call, sp)
      PROVE  disk' \in {disk, durable} /\ durable' \in {disk, durable}
  BY <1>7 DEF Begin, vars
<1>8. CASE CompileSource \/ UNCHANGED allVars
  BY <1>8 DEF CompileSource, allVars, vars
<1>9. QED
  BY <1>3, <1>4, <1>5, <1>6, <1>7, <1>8 DEF CommandNext, CommandStep

\* Where nothing is written.
LEMMA NotGrowing ==
    ASSUME cmd'.at \notin {"write", "writing"}
    PROVE  Blank' /\ Growing'
BY DEF Blank, Growing

LEMMA RestGrows ==
    ASSUME CommandInv, [CommandNext]_allVars, ~CreateFile, ~StartWrite, ~WriteSectors
    PROVE  cmd'.at \notin {"write", "writing"} \/ UNCHANGED allVars
<1>1. cmd \in CmdType /\ Asked
  BY DEF CommandInv
<1>2. ASSUME cmd' \in {Failed, NoCommand} PROVE cmd'.at \notin {"write", "writing"}
  BY <1>2, NoCommandType
<1>3. ASSUME NEW then, cmd' = Closes(then) PROVE cmd'.at \notin {"write", "writing"}
  BY <1>1, <1>3 DEF Closes, CmdType
<1>4. ASSUME NEW at, cmd' = GoesTo(at), at \notin {"write", "writing"}
      PROVE  cmd'.at \notin {"write", "writing"}
  BY <1>1, <1>4 DEF GoesTo, CmdType
<1>5. ASSUME NEW call \in Calls, NEW sp, Begin(call, sp)
      PROVE  cmd'.at \notin {"write", "writing"}
  <2>1. cmd' = Failed \/ cmd'.at \in {"open", "delete"}
    BY <1>5 DEF Begin, NoCommand
  <2>2. QED
    BY <1>2, <2>1
<1>6. ASSUME OpenFile PROVE cmd'.at \notin {"write", "writing"}
  <2>1. cmd' = Failed \/ cmd'.at = "read"
    BY <1>1, <1>6 DEF OpenFile, GoesTo, CmdType
  <2>2. QED
    BY <1>2, <2>1
<1>7. ASSUME ReadFile PROVE cmd'.at \notin {"write", "writing"}
  <2>1. \/ cmd' = Closes("error")
        \/ cmd' = Closes(AfterReading)
        \/ cmd' = Took(ret'.rc)
    BY <1>7, Zenon DEF ReadFile
  <2>2. cmd' = Took(ret'.rc) => cmd'.at = "read"
    BY <1>1, <1>7 DEF ReadFile, Took, CmdType
  <2>3. QED
    BY <1>3, <2>1, <2>2
<1>8. ASSUME CloseFile PROVE cmd'.at \notin {"write", "writing"}
  <2>1. cmd.then \in {"ok", "error", "compile", "flush"}
    BY <1>1 DEF CmdType
  <2>2. \/ cmd' = Failed
        \/ cmd' = EndsWell
        \/ cmd.then \in {"compile", "flush"} /\ cmd' = GoesTo(cmd.then)
    BY <1>8, <2>1 DEF CloseFile
  <2>3. cmd' = EndsWell => cmd'.at = "idle"
    BY <1>1 DEF EndsWell, CmdType
  <2>4. QED
    BY <1>2, <1>4, <2>2, <2>3
<1>9. ASSUME CompileSource PROVE cmd'.at \notin {"write", "writing"}
  <2>1. cmd' = Failed \/ cmd'.at = "replace"
    BY <1>1, <1>9 DEF CompileSource, GoesTo, CmdType
  <2>2. QED
    BY <1>2, <2>1
<1>10. ASSUME LookForOld PROVE cmd'.at \notin {"write", "writing"}
  BY <1>4, <1>10 DEF LookForOld
<1>11. ASSUME DeleteFile PROVE cmd'.at \notin {"write", "writing"}
  <2>1. cmd' = Failed \/ cmd' = GoesTo("create") \/ cmd' = EndsWell
    BY <1>11 DEF DeleteFile
  <2>2. cmd' = EndsWell => cmd'.at = "idle"
    BY <1>1 DEF EndsWell, CmdType
  <2>3. QED
    BY <1>2, <1>4, <2>1, <2>2
<1>12. ASSUME EndWrite PROVE cmd'.at \notin {"write", "writing"}
  BY <1>3, <1>12 DEF EndWrite
<1>13. ASSUME FlushDisk PROVE cmd'.at \notin {"write", "writing"}
  <2>1. cmd'.at = "idle"
    BY <1>1, <1>13 DEF FlushDisk, EndsWell, CmdType
  <2>2. QED
    BY <2>1
<1>14. ASSUME Boot PROVE cmd'.at \notin {"write", "writing"}
  <2>1. cmd' = cmd /\ cmd.at = "idle"
    BY <1>1, <1>14 DEF Boot, Asked
  <2>2. QED
    BY <2>1
<1>15. ASSUME Killed \/ Leaves PROVE cmd'.at \notin {"write", "writing"}
  BY <1>2, <1>15 DEF Killed, Leaves
<1>16. QED
  BY <1>5, <1>6, <1>7, <1>8, <1>9, <1>10, <1>11, <1>12, <1>13, <1>14, <1>15
     DEF CommandNext, CommandStep, Calls

LEMMA ImagesNow ==
    ASSUME CommandInv, MixedInv, [CommandNext]_allVars,
           GoodImage(disk'), durable' \in {disk, durable}
    PROVE  GoodImage(disk') /\ GoodImage(durable')
BY DEF MixedInv

LEMMA CreateMixes ==
    ASSUME CommandInv, MixedInv, CreateFile
    PROVE  MixedInv'
<1>1. /\ cmd.at = "create" /\ cmd \in CmdType /\ TypeOK /\ Com \in Spellings /\ Create(Com)
      /\ disk \in ImageType /\ handle \in [Handles -> HandleType]
  BY ComIsSpelling DEF CreateFile, CommandInv, Asked, OfCc, TypeOK
<1>2. ASSUME disk' \in {disk, durable}, durable' \in {disk, durable}, ret'.rc = -1
      PROVE  MixedInv'
  <2>1. cmd' = Failed
    BY <1>2 DEF CreateFile
  <2>2. Blank' /\ Growing'
    BY <2>1, NoCommandType, NotGrowing
  <2>3. QED
    BY <1>2, <2>2 DEF MixedInv
<1>3. ASSUME NEW e \in Entries, SeekAndWrite([disk EXCEPT !.dir[e] = NewEntry(CpmName[Com])]),
             \/ Returns(-1)
             \/ \E h \in Handles :
                    /\ handle' = [handle EXCEPT ![h] = OpenedHandle(e)]
                    /\ Returns(h)
      PROVE  MixedInv'
  <2> DEFINE rec == NewEntry(CpmName[Com])
  <2>1. /\ disk' = [disk EXCEPT !.dir[e] = rec] /\ durable' = disk /\ disk'.dir[e] = rec
    BY <1>1, <1>3 DEF SeekAndWrite, Seek, ImageType
  <2>2. /\ rec.count = 0 /\ rec.active /\ rec.name = CpmName[Com]
        /\ SlotsPerFile \in Nat /\ \A s \in Slots : rec.alloc[s] = 0 /\ ~(s < 0)
    BY FileSystemAssumption DEF NewEntry, NoAlloc, Slots
  <2>3. OneProgram(disk', e)
    BY <2>1, <2>2, EmptyIsOne
  <2> HIDE DEF rec
  <2>4. GoodImage(disk') /\ GoodImage(durable')
    BY <1>1, <2>1, <2>2, <2>3, EntryUnmixes DEF MixedInv
  <2>5. CASE Returns(-1)
    <3>1. cmd' = Failed
      BY <2>5 DEF CreateFile, Returns, Result
    <3>2. QED
      BY <2>4, <3>1, NoCommandType, NotGrowing DEF MixedInv
  <2>6. ASSUME NEW h \in Handles, handle' = [handle EXCEPT ![h] = OpenedHandle(e)], Returns(h)
        PROVE  MixedInv'
    <3>1. ret'.rc = h /\ ~(h < 0)
      BY <2>6 DEF Returns, Result, Handles
    <3>2. cmd' = [cmd EXCEPT !.at = "write", !.fh = h]
      BY <3>1 DEF CreateFile, GoesTo
    <3>3. cmd'.at = "write" /\ cmd'.fh = h /\ cmd'.sp = cmd.sp
      BY <1>1, <3>2 DEF CmdType
    <3>4. handle'[h].entry = e /\ handle'[h].pos = 0
      BY <1>1, <2>6 DEF OpenedHandle
    <3>5. Opened' = e /\ Com' = Com
      BY <3>3, <3>4 DEF Opened, Com
    <3>6. Blank'
      BY <2>1, <2>2, <3>3, <3>4, <3>5 DEF Blank, IsNew
    <3>7. QED
      BY <2>4, <3>3, <3>6 DEF MixedInv, Growing
  <2>7. QED
    BY <1>3, <2>5, <2>6
<1>4. CASE NameCallFails(Com, -1) \/ Answers(-1)
  <2>1. Refused(-1) \/ Fails(-1) \/ Answers(-1)
    BY <1>4 DEF NameCallFails
  <2>2. QED
    BY <1>2, <2>1, ImagesStay
<1>5. QED
  BY <1>1, <1>3, <1>4 DEF Create

LEMMA DeleteMixes ==
    ASSUME CommandInv, MixedInv, DeleteFile
    PROVE  MixedInv'
<1>1. disk \in ImageType /\ cmd.at = "delete"
  BY DEF CommandInv, TypeOK, DeleteFile
<1>2. Blank' /\ Growing'
  <2>1. [CommandNext]_allVars /\ ~CreateFile /\ ~StartWrite /\ ~WriteSectors
    BY <1>1 DEF CommandNext, CommandStep, CreateFile, StartWrite, WriteSectors
  <2>2. cmd'.at \notin {"write", "writing"} \/ cmd' = cmd
    BY <2>1, RestGrows DEF allVars
  <2>3. QED
    BY <1>1, <2>2, NotGrowing
<1>3. GoodImage(disk') /\ GoodImage(durable')
  <2>1. ASSUME disk' \in {disk, durable}, durable' \in {disk, durable}
        PROVE  GoodImage(disk') /\ GoodImage(durable')
    BY <2>1 DEF MixedInv
  <2>2. ASSUME NEW e \in Entries, SeekAndWrite([disk EXCEPT !.dir[e] = FreeEntry])
        PROVE  GoodImage(disk') /\ GoodImage(durable')
    <3>1. disk' = [disk EXCEPT !.dir[e] = FreeEntry] /\ durable' = disk /\ ~FreeEntry.active
      BY <2>2 DEF SeekAndWrite, Seek, FreeEntry
    <3>2. QED
      BY <1>1, <3>1, EntryUnmixes DEF MixedInv
  <2>3. ASSUME NEW sp, Delete(sp)
        PROVE  GoodImage(disk') /\ GoodImage(durable')
    <3>1. CASE NameCallFails(sp, -1) \/ Answers(-1)
      <4>1. Refused(-1) \/ Fails(-1) \/ Answers(-1)
        BY <3>1 DEF NameCallFails
      <4>2. QED
        BY <2>1, <4>1, ImagesStay
    <3>2. QED
      BY <2>2, <2>3, <3>1 DEF Delete
  <2>4. QED
    BY <2>3 DEF DeleteFile
<1>4. QED
  BY <1>2, <1>3 DEF MixedInv

LEMMA StartMixes ==
    ASSUME CommandInv, MixedInv, StartWrite
    PROVE  MixedInv'
<1>1. /\ cmd.at = "write" /\ cmd \in CmdType /\ cmd.fh \in Handles
      /\ [CommandNext]_allVars /\ ~CreateFile /\ ~DeleteFile /\ ~WriteSectors /\ ~EndWrite
  BY DEF StartWrite, CommandInv, CmdType, CommandNext, CommandStep, CreateFile, DeleteFile,
         WriteSectors, EndWrite
<1>2. GoodImage(disk') /\ GoodImage(durable')
  <2>1. disk' \in {disk, durable} /\ durable' \in {disk, durable}
    BY <1>1, OthersStay
  <2>2. QED
    BY <2>1 DEF MixedInv
<1>3. CASE cmd' = Closes("error")
  <2>1. cmd'.at = "close"
    BY <1>1, <1>3 DEF Closes, CmdType
  <2>2. QED
    BY <1>2, <2>1, NotGrowing DEF MixedInv
<1>4. CASE WriteBegin(cmd.fh, cmd.size, cmd.byte) /\ cmd' = GoesTo("writing")
  <2>1. cmd'.at = "writing" /\ cmd'.sp = cmd.sp
    BY <1>1, <1>4 DEF GoesTo, CmdType
  <2>2. /\ job'.rec = disk.dir[Opened] /\ job'.pos = handle[cmd.fh].pos /\ job'.total = 0
        /\ disk' = disk /\ handle' = handle /\ job'.fh = cmd.fh
    BY <1>4 DEF WriteBegin, Refreshed, Opened, SeekAndRead
  <2>3. JobEntry' = Opened
    BY <2>2 DEF JobEntry, Opened
  <2>4. /\ IsNew(disk.dir[Opened]) /\ handle[cmd.fh].pos = 0
        /\ \A s \in Slots : disk.dir[Opened].alloc[s] = 0
    BY <1>1 DEF MixedInv, Blank
  <2>5. SlotsPerFile * SectorBytes \in Nat /\ SlotsPerFile \in Nat
    BY FileSystemAssumption, SlotStart
  <2>6. \A s \in Slots : ~(s * SectorBytes < 0)
    BY SlotStart DEF Slots
  <2>7. Growing'
    BY <2>1, <2>2, <2>3, <2>4, <2>5, <2>6 DEF Growing, IsNew, Com
  <2>8. QED
    BY <1>2, <2>1, <2>7 DEF MixedInv, Blank
<1>5. QED
  BY <1>3, <1>4 DEF StartWrite

\* One sector: it holds the program up to the new position, then zeros.
LEMMA SectorGrows ==
    ASSUME TypeOK, Growing, cmd.at = "writing", cmd' = cmd, WriteMore, handle' = handle,
           disk'.dir = disk.dir, NEW rec, NEW old, job' = Advanced(rec),
           rec.active = job.rec.active, rec.name = job.rec.name, rec.count = job.rec.count,
           rec.alloc[SlotOf(job.pos)] # 0,
           disk'.sec[rec.alloc[SlotOf(job.pos)] - 1] = Patched(old),
           \A s \in Slots : s # SlotOf(job.pos) =>
              /\ rec.alloc[s] = job.rec.alloc[s]
              /\ rec.alloc[s] # 0 =>
                    disk'.sec[rec.alloc[s] - 1] = disk.sec[rec.alloc[s] - 1],
           \A i \in 0 .. SectorBytes - 1 :
              old[i] = IF SlotOf(job.pos) * SectorBytes + i < job.pos THEN job.data ELSE 0
    PROVE  Growing'
<1> DEFINE s0 == SlotOf(job.pos)
           off == job.pos % SectorBytes
           end == job.pos + Chunk
<1>1. /\ s0 \in Slots /\ s0 \in Nat /\ Chunk \in Nat /\ Chunk > 0
      /\ off \in Nat /\ s0 * SectorBytes \in Nat
      /\ off + Chunk <= SectorBytes /\ job.pos = s0 * SectorBytes + off
  BY ChunkSize
<1>2. /\ job'.pos = end /\ job'.total = job.total + Chunk /\ job'.rec = rec
      /\ job'.data = job.data /\ job'.fh = job.fh /\ job.pos \in Nat /\ job.total \in Nat
  BY DEF Advanced, TypeOK, JobType
<1>3. /\ IsNew(job.rec) /\ disk.dir[JobEntry].count = 0 /\ job.pos = job.total
  BY DEF Growing
<1>4. JobEntry' = JobEntry /\ Com' = Com
  BY <1>2 DEF JobEntry, Com
<1>5. SectorBytes \in Nat /\ SlotsPerFile \in Nat /\ SlotsPerFile * SectorBytes \in Nat
  BY SectorSize, FileSystemAssumption, SlotStart
<1>6. end <= SlotsPerFile * SectorBytes
  <2>1. s0 < SlotsPerFile
    BY <1>1, <1>5 DEF Slots
  <2>2. s0 * SectorBytes + SectorBytes <= SlotsPerFile * SectorBytes
    BY <1>1, <1>5, <2>1, Multiples
  <2>3. QED
    BY <1>1, <1>2, <1>5, <2>2
<1>7. ASSUME NEW s \in Slots
      PROVE  /\ rec.alloc[s] # 0 <=> s * SectorBytes < end
             /\ rec.alloc[s] # 0 => \A i \in 0 .. SectorBytes - 1 :
                  disk'.sec[rec.alloc[s] - 1][i] =
                      IF s * SectorBytes + i < end THEN job.data ELSE 0
  <2>1. s \in Nat /\ s * SectorBytes \in Nat
    BY SlotStart DEF Slots
  <2>2. /\ job.rec.alloc[s] # 0 <=> s * SectorBytes < job.pos
        /\ job.rec.alloc[s] # 0 => \A i \in 0 .. SectorBytes - 1 :
              disk.sec[job.rec.alloc[s] - 1][i] =
                  IF s * SectorBytes + i < job.pos THEN job.data ELSE 0
    BY DEF Growing
  <2>3. CASE s = s0
    <3>1. rec.alloc[s] # 0 /\ s * SectorBytes < end
      BY <1>1, <1>2, <2>3
    <3>2. ASSUME NEW i \in 0 .. SectorBytes - 1
          PROVE  disk'.sec[rec.alloc[s] - 1][i] =
                      IF s * SectorBytes + i < end THEN job.data ELSE 0
      <4>1. Patched(old)[i] = IF off <= i /\ i < off + Chunk THEN job.data ELSE old[i]
        BY DEF Patched
      <4>2. old[i] = IF s0 * SectorBytes + i < job.pos THEN job.data ELSE 0
        OBVIOUS
      <4>3. /\ s0 * SectorBytes + i < job.pos <=> i < off
            /\ s0 * SectorBytes + i < end <=> i < off + Chunk
        BY <1>1, <1>5
      <4>4. disk'.sec[rec.alloc[s] - 1] = Patched(old)
        BY <2>3
      <4> HIDE DEF s0, off, end
      <4>5. QED
        BY <1>1, <1>5, <2>3, <4>1, <4>2, <4>3, <4>4
    <3>3. QED
      BY <3>1, <3>2
  <2>4. CASE s < s0
    <3>1. s * SectorBytes + SectorBytes <= s0 * SectorBytes
      BY <1>1, <2>1, <2>4, Multiples
    <3>2. s * SectorBytes < job.pos /\ s * SectorBytes < end
      BY <1>1, <1>2, <1>5, <2>1, <3>1, SectorSize
    <3>3. \A i \in 0 .. SectorBytes - 1 :
             s * SectorBytes + i < job.pos /\ s * SectorBytes + i < end
      BY <1>1, <1>2, <1>5, <2>1, <3>1
    <3>4. s # s0
      BY <1>1, <2>1, <2>4
    <3> HIDE DEF s0, off, end
    <3>5. rec.alloc[s] = job.rec.alloc[s] /\ rec.alloc[s] # 0
      BY <2>2, <3>2, <3>4 DEF s0
    <3>6. disk'.sec[rec.alloc[s] - 1] = disk.sec[rec.alloc[s] - 1]
      BY <3>4, <3>5 DEF s0
    <3>7. QED
      BY <2>2, <3>2, <3>3, <3>5, <3>6
  <2>5. CASE s0 < s
    <3>1. s0 * SectorBytes + SectorBytes <= s * SectorBytes
      BY <1>1, <2>1, <2>5, Multiples
    <3>2. ~(s * SectorBytes < job.pos) /\ ~(s * SectorBytes < end)
      BY <1>1, <1>2, <1>5, <2>1, <3>1
    <3>3. s # s0
      BY <1>1, <2>1, <2>5
    <3> HIDE DEF s0, off, end
    <3>4. rec.alloc[s] = job.rec.alloc[s]
      BY <3>3 DEF s0
    <3>5. QED
      BY <2>2, <3>2, <3>4
  <2>6. s = s0 \/ s < s0 \/ s0 < s
    BY <1>1, <2>1
  <2>7. QED
    BY <2>3, <2>4, <2>5, <2>6
<1> HIDE DEF s0, off, end
<1>8. IsNew(rec)'
  BY <1>3, <1>4 DEF IsNew
<1>9. job'.pos = job'.total
  BY <1>2, <1>3 DEF end
<1>10. QED
  BY <1>2, <1>3, <1>4, <1>6, <1>7, <1>8, <1>9 DEF Growing, IsNew

\* The sector a running write changes is its own, or no file's.
LEMMA WritesOwn ==
    ASSUME CommandInv, SafeInv, Growing, cmd.at = "writing", NEW l,
           \/ ~SectorInUse(JobDir, l)
           \/ \E s \in Slots : job.rec.alloc[s] # 0 /\ job.rec.alloc[s] - 1 = l,
           NoHoles(disk.dir), NEW e \in Entries, NEW t \in Slots,
           disk.dir[e].active, t < disk.dir[e].count
    PROVE  disk.dir[e].alloc[t] - 1 # l
<1>1. /\ TypeOK /\ job.busy /\ JobEntry \in Entries /\ JobDir[JobEntry] = job.rec
      /\ job.rec.active /\ disk.dir[JobEntry].count = 0 /\ disk \in ImageType
  BY JobDirType DEF CommandInv, OneHandle, Growing, IsNew, TypeOK
<1>2. e # JobEntry
  BY <1>1 DEF Slots
<1>3. JobDir[e] = disk.dir[e]
  BY <1>1, <1>2 DEF JobDir, ImageType
<1>4. disk.dir[e].alloc[t] # 0 /\ SectorsOwnedOnce(JobDir)
  BY <1>1 DEF NoHoles, SafeInv, AllocSafe
<1>5. CASE ~SectorInUse(JobDir, l)
  BY <1>3, <1>4, <1>5 DEF SectorInUse
<1>6. ASSUME NEW s \in Slots, job.rec.alloc[s] # 0, job.rec.alloc[s] - 1 = l
      PROVE  disk.dir[e].alloc[t] - 1 # l
  <2>1. JobDir[JobEntry].active /\ JobDir[JobEntry].alloc[s] # 0 /\ JobDir[e].active
    BY <1>1, <1>3, <1>6
  <2>2. JobDir[e].alloc[t] # JobDir[JobEntry].alloc[s]
    BY <1>1, <1>2, <1>4, <2>1 DEF SectorsOwnedOnce
  <2>3. job.rec.alloc[s] \in Nat /\ disk.dir[e].alloc[t] \in Nat
    BY <1>1, JobDirType, FileSystemAssumption DEF ImageType, EntryType, Allocs
  <2>4. QED
    BY <1>1, <1>3, <1>6, <2>2, <2>3
<1>7. QED
  BY <1>5, <1>6

LEMMA InPlaceMixes ==
    ASSUME CommandInv, SafeInv, MixedInv, cmd.at = "writing", cmd' = cmd, WriteInPlace
    PROVE  MixedInv'
<1> DEFINE s0 == SlotOf(job.pos)
           k == job.rec.alloc[s0]
<1>1. /\ disk' = [disk EXCEPT !.sec[k - 1] = Patched(disk.sec[k - 1])] /\ durable' = disk
      /\ job' = Advanced(job.rec) /\ handle' = handle
      /\ WriteMore /\ job.busy /\ s0 \in Slots /\ k # 0
  BY DEF WriteInPlace, WriteMore, SeekAndWrite, Seek
<1>2. /\ TypeOK /\ disk \in ImageType /\ job.rec.active /\ Growing
      /\ GoodImage(disk) /\ NoHoles(disk.dir)
  BY DEF CommandInv, TypeOK, MixedInv, Growing, IsNew, GoodImage
<1>3. JobDir[JobEntry] = job.rec /\ JobEntry \in Entries
  BY <1>2, JobDirType
<1>4. SectorsOwnedOnce(JobDir)
  BY <1>1 DEF SafeInv, AllocSafe
<1>5. k - 1 \in DataSectors /\ \A s \in Slots : job.rec.alloc[s] = k => s = s0
  BY <1>1, <1>2, <1>3, <1>4 DEF SectorsOwnedOnce
<1>6. k \in Nat /\ \A s \in Slots : job.rec.alloc[s] \in Nat
  BY <1>1, <1>2, JobDirType, FileSystemAssumption DEF EntryType, Allocs
<1>7. /\ disk'.dir = disk.dir
      /\ disk'.sec[k - 1] = Patched(disk.sec[k - 1])
      /\ \A l : l # k - 1 => disk'.sec[l] = disk.sec[l]
  BY <1>1, <1>2, <1>5 DEF ImageType
<1>8. \A s \in Slots : s # s0 =>
        disk'.sec[job.rec.alloc[s] - 1] = disk.sec[job.rec.alloc[s] - 1]
  BY <1>5, <1>6, <1>7
<1>9. \A i \in 0 .. SectorBytes - 1 :
        disk.sec[k - 1][i] = IF s0 * SectorBytes + i < job.pos THEN job.data ELSE 0
  BY <1>1, <1>2 DEF Growing
<1>10. Growing'
  <2>1. \A s \in Slots : s # SlotOf(job.pos) =>
           /\ job.rec.alloc[s] = job.rec.alloc[s]
           /\ job.rec.alloc[s] # 0 =>
                disk'.sec[job.rec.alloc[s] - 1] = disk.sec[job.rec.alloc[s] - 1]
    BY <1>8
  <2>2. /\ job.rec.alloc[SlotOf(job.pos)] # 0
        /\ disk'.sec[job.rec.alloc[SlotOf(job.pos)] - 1] = Patched(disk.sec[k - 1])
        /\ \A i \in 0 .. SectorBytes - 1 : disk.sec[k - 1][i] =
              IF SlotOf(job.pos) * SectorBytes + i < job.pos THEN job.data ELSE 0
    BY <1>1, <1>7, <1>9
  <2> DEFINE old == disk.sec[k - 1]
  <2> HIDE DEF old, k
  <2>3. /\ disk'.sec[job.rec.alloc[SlotOf(job.pos)] - 1] = Patched(old)
        /\ \A i \in 0 .. SectorBytes - 1 : old[i] =
              IF SlotOf(job.pos) * SectorBytes + i < job.pos THEN job.data ELSE 0
    BY <2>2 DEF old
  <2>4. /\ TypeOK /\ Growing /\ WriteMore /\ handle' = handle /\ disk'.dir = disk.dir
        /\ job' = Advanced(job.rec)
    BY <1>1, <1>2, <1>7
  <2>5. QED
    BY <2>1, <2>2, <2>3, <2>4, SectorGrows
<1>11. \A e \in Entries, t \in Slots :
          disk.dir[e].active /\ t < disk.dir[e].count => disk.dir[e].alloc[t] - 1 # k - 1
  BY <1>1, <1>2, WritesOwn
<1> HIDE DEF k, s0
<1>12. GoodImage(disk')
  BY <1>2, <1>7, <1>11, SectorUnmixes
<1>13. QED
  BY <1>1, <1>2, <1>10, <1>12 DEF MixedInv, Blank

LEMMA AllocatingMixes ==
    ASSUME InReach, CommandInv, SafeInv, MixedInv,
           cmd.at = "writing", cmd' = cmd, WriteAllocating
    PROVE  MixedInv'
<1> DEFINE s0 == SlotOf(job.pos)
<1>1. PICK l \in DataSectors :
        /\ IsLeast(l, FreeSectors(JobDir))
        /\ SeekAndWrite([disk EXCEPT !.sec[l] = Patched(ZeroBlock)])
        /\ job' = Advanced([job.rec EXCEPT !.alloc[s0] = AllocByte(l)])
  BY DEF WriteAllocating
<1>2. /\ WriteMore /\ job.busy /\ s0 \in Slots /\ job.rec.alloc[s0] = 0 /\ handle' = handle
      /\ durable' = disk
  BY <1>1 DEF WriteAllocating, WriteMore, SeekAndWrite, Seek
<1>3. /\ TypeOK /\ disk \in ImageType /\ job.rec \in EntryType /\ job.rec.active /\ Growing
      /\ GoodImage(disk) /\ NoHoles(disk.dir) /\ job \in JobType
  BY JobDirType DEF CommandInv, TypeOK, MixedInv, Growing, IsNew, GoodImage
<1>4. JobEntry \in Entries /\ JobDir[JobEntry] = job.rec /\ ~SectorInUse(JobDir, l)
  BY <1>1, <1>3, JobDirType DEF IsLeast, FreeSectors
<1>5. AllocByte(l) = l + 1 /\ l \in Nat
  BY <1>1, <1>2, ByteInReach
<1>6. \A s \in Slots : job.rec.alloc[s] # 0 => job.rec.alloc[s] - 1 # l
  BY <1>3, <1>4 DEF SectorInUse
<1> DEFINE rec == [job.rec EXCEPT !.alloc[s0] = AllocByte(l)]
<1>7. /\ rec.alloc[s0] = l + 1 /\ rec.active = job.rec.active
      /\ rec.name = job.rec.name /\ rec.count = job.rec.count
      /\ \A s \in Slots : s # s0 => rec.alloc[s] = job.rec.alloc[s]
  BY <1>2, <1>3, <1>5 DEF EntryType
<1>8. /\ disk'.dir = disk.dir /\ disk'.sec[l] = Patched(ZeroBlock)
      /\ \A x : x # l => disk'.sec[x] = disk.sec[x]
  BY <1>1, <1>3 DEF SeekAndWrite, ImageType
<1>9. job' = Advanced(rec)
  BY <1>1
<1> HIDE DEF rec
<1>10. rec.alloc[s0] # 0 /\ rec.alloc[s0] - 1 = l
  BY <1>5, <1>7
<1>11. \A s \in Slots : s # s0 =>
         /\ rec.alloc[s] = job.rec.alloc[s]
         /\ rec.alloc[s] # 0 => disk'.sec[rec.alloc[s] - 1] = disk.sec[rec.alloc[s] - 1]
  BY <1>6, <1>7, <1>8
<1>12. ASSUME NEW i \in 0 .. SectorBytes - 1
       PROVE  ZeroBlock[i] = IF s0 * SectorBytes + i < job.pos THEN job.data ELSE 0
  <2>1. s0 * SectorBytes \in Nat /\ job.pos \in Nat
    BY <1>2, <1>3, SlotStart DEF Slots, JobType
  <2>2. ~(s0 * SectorBytes < job.pos)
    BY <1>2, <1>3 DEF Growing
  <2>3. QED
    BY <1>12, <2>1, <2>2 DEF ZeroBlock
<1>13. Growing'
  <2>1. /\ rec.alloc[SlotOf(job.pos)] # 0
        /\ disk'.sec[rec.alloc[SlotOf(job.pos)] - 1] = Patched(ZeroBlock)
        /\ \A s \in Slots : s # SlotOf(job.pos) =>
              /\ rec.alloc[s] = job.rec.alloc[s]
              /\ rec.alloc[s] # 0 =>
                    disk'.sec[rec.alloc[s] - 1] = disk.sec[rec.alloc[s] - 1]
        /\ \A i \in 0 .. SectorBytes - 1 :
              ZeroBlock[i] = IF SlotOf(job.pos) * SectorBytes + i < job.pos THEN job.data ELSE 0
    BY <1>8, <1>10, <1>11, <1>12
  <2>2. /\ TypeOK /\ Growing /\ WriteMore /\ handle' = handle /\ disk'.dir = disk.dir
        /\ rec.active = job.rec.active /\ rec.name = job.rec.name /\ rec.count = job.rec.count
    BY <1>2, <1>3, <1>7, <1>8
  <2>3. QED
    BY <1>9, <2>1, <2>2, SectorGrows
<1>14. \A e \in Entries, t \in Slots :
          disk.dir[e].active /\ t < disk.dir[e].count => disk.dir[e].alloc[t] - 1 # l
  BY <1>3, <1>4, WritesOwn
<1>15. GoodImage(disk')
  BY <1>3, <1>8, <1>14, SectorUnmixes
<1>16. QED
  BY <1>2, <1>3, <1>13, <1>15 DEF MixedInv, Blank

\* The entry of the new file is stored.
LEMMA WriteEndMixes ==
    ASSUME CommandInv, MixedInv, cmd.at = "writing", WriteEnd
    PROVE  GoodImage(disk') /\ GoodImage(durable')
<1> DEFINE c == WrittenEntry.count
           alloc == job.rec.alloc
<1>1. /\ disk' = [disk EXCEPT !.dir[JobEntry] = WrittenEntry] /\ durable' = disk /\ job.busy
  BY DEF WriteEnd, WriteDone, SeekAndWrite, Seek
<1>2. /\ TypeOK /\ disk \in ImageType /\ job.rec \in EntryType /\ JobEntry \in Entries
      /\ job.pos \in Nat /\ GoodImage(disk)
      /\ job.rec.count = 0 /\ job.pos <= SlotsPerFile * SectorBytes
  BY JobDirType DEF CommandInv, TypeOK, MixedInv, Growing, IsNew, JobType
<1>3. SectorBytes \in Nat \ {0} /\ SlotsPerFile \in Nat /\ SlotsPerFile * SectorBytes \in Nat
  BY SectorSize, FileSystemAssumption, SlotStart
<1>4. \A s \in Slots :
          /\ alloc[s] # 0 <=> s * SectorBytes < job.pos
          /\ alloc[s] # 0 => \A i \in 0 .. SectorBytes - 1 :
                disk.sec[alloc[s] - 1][i] = IF s * SectorBytes + i < job.pos THEN job.data ELSE 0
  BY DEF MixedInv, Growing
<1>5. SizeOf(job.rec) = 0
  BY <1>2, <1>3 DEF SizeOf
<1>6. /\ WrittenEntry.alloc = alloc
      /\ c = IF job.pos > 0 THEN (job.pos + (SectorBytes - 1)) \div SectorBytes ELSE 0
  BY <1>2, <1>5 DEF WrittenEntry, EntryType
<1>7. /\ c \in Nat /\ c * SectorBytes \in Nat /\ c * SectorBytes < job.pos + SectorBytes
  <2>1. CASE job.pos > 0
    BY <1>2, <1>6, <2>1, RoundedUp
  <2>2. CASE ~(job.pos > 0)
    <3>1. c = 0 /\ c * SectorBytes = 0
      BY <1>3, <1>6, <2>2
    <3>2. QED
      BY <1>2, <1>3, <3>1
  <2>3. QED
    BY <2>1, <2>2
<1> HIDE DEF c, alloc
<1>8. c <= SlotsPerFile
  <2>1. CASE SlotsPerFile < c
    <3>1. SlotsPerFile * SectorBytes + SectorBytes <= c * SectorBytes
      BY <1>3, <1>7, <2>1, Multiples
    <3>2. QED
      BY <1>2, <1>3, <1>7, <3>1
  <2>2. QED
    BY <1>3, <1>7, <2>1
<1>9. ASSUME NEW s \in Slots, s < c PROVE alloc[s] # 0
  <2>1. s \in Nat /\ s * SectorBytes \in Nat
    BY SlotStart DEF Slots
  <2>2. s * SectorBytes + SectorBytes <= c * SectorBytes
    BY <1>7, <1>9, <2>1, Multiples
  <2>3. s * SectorBytes < job.pos
    BY <1>2, <1>3, <1>7, <2>1, <2>2
  <2>4. QED
    BY <1>4, <2>3
<1>10. /\ disk'.dir[JobEntry].alloc = alloc /\ SizeOf(disk'.dir[JobEntry]) = c * SectorBytes
       /\ disk'.sec = disk.sec
  BY <1>1, <1>2, <1>6 DEF ImageType, SizeOf, c
<1>11. ASSUME NEW q \in 0 .. c * SectorBytes - 1
       PROVE  ByteOf(disk', JobEntry, q) = IF q < job.pos THEN job.data ELSE 0
  <2>1. q \in Nat /\ q < c * SectorBytes
    BY <1>7, <1>11
  <2>2. /\ SlotOf(q) \in Nat /\ (q % SectorBytes) \in 0 .. SectorBytes - 1
        /\ q = SlotOf(q) * SectorBytes + (q % SectorBytes)
    BY <2>1, PlaceOf
  <2>3. SlotOf(q) < c
    BY <1>7, <2>1, SlotBefore
  <2>4. SlotOf(q) \in Slots
    BY <1>3, <1>7, <1>8, <2>2, <2>3 DEF Slots
  <2>5. disk.sec[alloc[SlotOf(q)] - 1][q % SectorBytes] =
          IF SlotOf(q) * SectorBytes + (q % SectorBytes) < job.pos THEN job.data ELSE 0
    BY <1>4, <1>9, <2>2, <2>3, <2>4
  <2>6. QED
    BY <1>10, <2>2, <2>5 DEF ByteOf
<1>12. OneProgram(disk', JobEntry)
  <2> SUFFICES ASSUME NEW p \in 0 .. c * SectorBytes - 1, NEW q \in 0 .. c * SectorBytes - 1,
                      p < q, ByteOf(disk', JobEntry, q) # 0
               PROVE  ByteOf(disk', JobEntry, p) = ByteOf(disk', JobEntry, q)
    BY <1>10 DEF OneProgram
  <2>1. q < job.pos
    BY <1>11
  <2>2. p < job.pos
    BY <1>2, <1>7, <2>1
  <2>3. QED
    BY <1>11, <2>1, <2>2
<1>13. /\ WrittenEntry.count <= SlotsPerFile
       /\ \A s \in Slots : s < WrittenEntry.count => WrittenEntry.alloc[s] # 0
  BY <1>6, <1>8, <1>9 DEF c
<1>14. GoodImage(disk')
  BY <1>1, <1>2, <1>12, <1>13, EntryUnmixes
<1>15. QED
  BY <1>1, <1>2, <1>14

LEMMA EndMixes ==
    ASSUME CommandInv, MixedInv, EndWrite
    PROVE  MixedInv'
<1>1. cmd.at = "writing" /\ cmd \in CmdType
  BY DEF EndWrite, CommandInv
<1>2. ASSUME HostFails PROVE GoodImage(disk') /\ GoodImage(durable')
  BY <1>2 DEF HostFails, MixedInv
<1>3. GoodImage(disk') /\ GoodImage(durable')
  BY <1>1, <1>2, WriteEndMixes DEF EndWrite, WriteSectorFails, WriteEndFails
<1>4. cmd'.at = "close"
  BY <1>1 DEF EndWrite, Closes, CmdType
<1>5. QED
  BY <1>3, <1>4, NotGrowing DEF MixedInv

LEMMA MixedStep ==
    ASSUME InReach, CommandInv, SafeInv, MixedInv, [CommandNext]_allVars
    PROVE  MixedInv'
<1>1. CASE WriteSectors
  BY <1>1, InPlaceMixes, AllocatingMixes DEF WriteSectors
<1>2. ASSUME ~CreateFile, ~DeleteFile, ~StartWrite, ~WriteSectors, ~EndWrite
      PROVE  MixedInv'
  <2>1. GoodImage(disk') /\ GoodImage(durable')
    BY <1>2, OthersStay DEF MixedInv
  <2>2. CASE UNCHANGED allVars
    BY <2>1, <2>2
       DEF allVars, vars, MixedInv, Blank, Growing, IsNew, Opened, JobEntry, Com
  <2>3. CASE cmd'.at \notin {"write", "writing"}
    BY <2>1, <2>3, NotGrowing DEF MixedInv
  <2>4. QED
    BY <1>2, <2>2, <2>3, RestGrows
<1>3. QED
  BY <1>1, <1>2, CreateMixes, DeleteMixes, StartMixes, EndMixes

\* Whatever fails, and whenever the process is killed, a .com file never is part
\* of one program and part of another, in memory or on the host, if none was
\* when the machine started: a write starts on an empty file, keeps every sector
\* it takes out of the other files, and the entry is stored when the sectors
\* hold the program (bios_cccompile, fs_write).  It takes that no
\* write has to take a sector whose allocation byte wraps.
THEOREM NoneIsMixed ==
    ASSUME \A image \in Images : ImageSound(image) /\ Unmixed(image)
    PROVE  CommandSpec /\ []InReach => []NeverMixed
<1>1. CommandInit => SafeInv /\ MixedInv
  <2> SUFFICES ASSUME CommandInit PROVE SafeInv /\ MixedInv
    OBVIOUS
  <2>1. CommandInv /\ ~job.busy /\ cmd = NoCommand
    BY CommandStart DEF CommandInit, NoJob
  <2>2. durable = disk /\ ImageSound(disk) /\ Unmixed(disk)
    BY DEF CommandInit
  <2>3. SafeInv
    BY <2>1, <2>2 DEF SafeInv, CommandInv, AllocSafe, NamesUnique, JobKeepsName, ImageSound
  <2>4. cmd.at = "idle"
    BY <2>1 DEF NoCommand
  <2>5. QED
    BY <2>2, <2>3, <2>4 DEF MixedInv, GoodImage, ImageSound, Blank, Growing
<1>2. CommandInv /\ SafeInv /\ MixedInv /\ InReach /\ [CommandNext]_allVars
        => SafeInv' /\ MixedInv'
  BY StepsOperate, SafeStep, MixedStep
<1>3. MixedInv => NeverMixed
  BY DEF MixedInv, GoodImage, NeverMixed
<1>4. QED
  BY <1>1, <1>2, <1>3, CommandsSafe, PTL DEF CommandSpec
=============================================================================
