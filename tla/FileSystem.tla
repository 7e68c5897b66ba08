----------------------------- MODULE FileSystem -----------------------------
(***************************************************************************)
(* The TuringOS file system (src/fs/fs.c): a flat directory and 16 one-    *)
(* byte allocation slots per file, in a disk image that the emulator opens *)
(* through one stdio stream.                                               *)
(*                                                                         *)
(* Two things the code leaves to the C library decide what a crash may     *)
(* lose.  The stream buffers: what fwrite wrote is seen by every later     *)
(* read of the process but is in the host file only after the stream is    *)
(* flushed.  And every access is an fseek followed by one transfer, and    *)
(* fseek flushes: so whatever is written next, the write before it is in   *)
(* the host file first.  The image is therefore two variables: disk, what  *)
(* the process sees, and durable, what the host file holds.                *)
(*                                                                         *)
(* Every operation re-reads the whole directory before it looks at it      *)
(* (fs_refresh_directory), so g_dir_raw carries nothing from one operation *)
(* to the next; inside fs_write, whose sectors are written one by one, the *)
(* entry being changed is kept in job.rec.                                 *)
(*                                                                         *)
(* The program is single threaded: operations do not interleave, but the   *)
(* process may be killed between any two accesses to the host file.        *)
(*                                                                         *)
(* A definition named after another one and a mistake is that one with the *)
(* mistake put in: in its place TLC refutes one of the properties below.   *)
(***************************************************************************)
EXTENDS DiskGeometry, FiniteSets, Sequences

CONSTANTS
    NumEntries,     \* FS_DIR_ENTRIES (64).
    OpenMax,        \* FS_OPEN_MAX, the size of the handle table (16).
    SlotsPerFile,   \* Allocation bytes in a directory entry (16).
    AllocMod,       \* Values an allocation byte can hold (256).
    Names,          \* The 8.3 names fs_build_cpm_name can produce.
    BadName,        \* What stands for a string it refuses.
    Spellings,      \* The strings callers pass as file names.
    CpmName,        \* The name of each spelling: letters are upcased, so
                    \* several spellings have one name.
    Bytes,          \* The bytes files are made of; 0 is one.
    Payloads,       \* The bytes callers write (a subset of Bytes).
    Lengths,        \* Lengths callers pass to fs_read and fs_write.
    RawSectors,     \* Data sectors that programs write directly, by track
                    \* and sector, below the file operations.
    IOErrors        \* Whether the host's seek, read and write may fail.

Entries == 0 .. NumEntries - 1
Handles == 0 .. OpenMax - 1
Slots   == 0 .. SlotsPerFile - 1
Allocs  == 0 .. AllocMod - 1
Blocks  == [0 .. SectorBytes - 1 -> Bytes]

ASSUME FileSystemAssumption ==
    /\ NumEntries \in Nat \ {0}
    /\ OpenMax \in Nat \ {0}
    /\ SlotsPerFile \in Nat \ {0}
    /\ AllocMod \in Nat
    /\ FirstData < AllocMod
    /\ BadName \notin Names
    /\ CpmName \in [Spellings -> Names \cup {BadName}]
    /\ 0 \in Bytes
    /\ Payloads \subseteq Bytes
    /\ Lengths \subseteq Nat
    /\ RawSectors \subseteq DataSectors
    /\ IOErrors \in BOOLEAN

VARIABLES
    disk,       \* The image as the process sees it through the stream.
    durable,    \* The image in the host file, what a killed process leaves.
    mounted,    \* g_disk_fp is not NULL.
    handle,     \* g_open_in_use, g_open_dir_index and g_open_pos.
    job,        \* The fs_write in progress, if any: its locals.
    dirty,      \* g_dirty.
    ret         \* What the last operation returned; of a write, what it
                \* wrote and where.

vars == <<disk, durable, mounted, handle, job, dirty, ret>>

-----------------------------------------------------------------------------
(* Directory entries and images.                                           *)

NoAlloc == [s \in Slots |-> 0]

\* A deleted entry keeps its name on the disk, but nothing looks at the name
\* of an inactive entry.
FreeEntry == [active |-> FALSE, name |-> BadName, count |-> 0, alloc |-> NoAlloc]

NewEntry(n) == [active |-> TRUE, name |-> n, count |-> 0, alloc |-> NoAlloc]

EntryType == [active : BOOLEAN, name : Names \cup {BadName}, count : Nat,
              alloc : [Slots -> Allocs]]

ImageType == [dir : [Entries -> EntryType], sec : [DataSectors -> Blocks]]

ZeroBlock == [i \in 0 .. SectorBytes - 1 |-> 0]

\* The image tools/mkdisk.c writes: every entry 0xE5, every sector zero.
FormattedImage == [dir |-> [e \in Entries |-> FreeEntry],
                   sec |-> [l \in DataSectors |-> ZeroBlock]]

\* fs_refresh_directory: the directory every operation works on.
Refreshed == disk.dir

\* The scan misses an entry's last allocation byte.
SectorInUse_LastSlotMissed(dir, l) ==
    \E e \in Entries, s \in Slots \ {SlotsPerFile - 1} :
        dir[e].active /\ dir[e].alloc[s] # 0 /\ dir[e].alloc[s] - 1 = l

\* fs_sector_in_use; an allocation byte holds a sector's number plus one.
SectorInUse(dir, l) ==
    \E e \in Entries, s \in Slots :
        dir[e].active /\ dir[e].alloc[s] # 0 /\ dir[e].alloc[s] - 1 = l

IsLeast(x, S) == x \in S /\ \A y \in S : x <= y

\* fs_alloc_free_sector scans the sectors upwards.
FreeSectors(dir) == {l \in DataSectors : ~SectorInUse(dir, l)}

\* The byte stored for sector l, a uint8_t.
AllocByte(l) == (l + 1) % AllocMod

\* The scan stops one entry early.
NameFound_LastMissed(dir, n) ==
    \E e \in Entries \ {NumEntries - 1} : dir[e].active /\ dir[e].name = n

\* fs_find_dir_index_by_cpm_name.
NameFound(dir, n) == \E e \in Entries : dir[e].active /\ dir[e].name = n
Found(dir, n, e)  ==
    IsLeast(e, {x \in Entries : dir[x].active /\ dir[x].name = n})

\* The slots fs_create looks for.
FreeEntries(dir) == {e \in Entries : ~dir[e].active}
FreeHandles      == {h \in Handles : ~handle[h].used}

ClosedHandle       == [used |-> FALSE, entry |-> 0, pos |-> 0]
OpenedHandle(e)    == [used |-> TRUE, entry |-> e, pos |-> 0]
HandleType         == [used : BOOLEAN, entry : Entries, pos : Nat]

\* The argument checks that open fs_read and fs_write.
BadHandle(fh) == fh \in Handles => ~handle[fh].used

-----------------------------------------------------------------------------
(* Calls, returns and the host file.                                       *)

NoJob == [busy |-> FALSE, fh |-> 0, data |-> 0, len |-> 0, total |-> 0,
          pos |-> 0, rec |-> FreeEntry]

JobType == [busy : BOOLEAN, fh : Handles, data : Bytes, len : Nat,
            total : Nat, pos : Nat, rec : EntryType]

\* The entry the running write changes, and the directory with its changes
\* (g_dir_raw), which the allocator looks at.
JobEntry == handle[job.fh].entry

JobDir == [disk.dir EXCEPT ![JobEntry] = job.rec]

Result(op, rc) == [op |-> op, rc |-> rc, fh |-> 0, at |-> 0, data |-> 0]

Returns(rc) == ret' = Result("call", rc)

\* What fs_write returns, with the bytes the caller may rely on.
WriteReturns(rc) ==
    ret' = [op |-> "write", rc |-> rc, fh |-> job.fh,
            at |-> job.pos - job.total, data |-> job.data]

RetType == [op : {"call", "write"}, rc : Int,
            fh : Handles, at : Int, data : Bytes]

\* A successful fseek: the buffered write reaches the host file.
Seek == durable' = disk

\* Writes that follow one another in the buffer.
SeekAndWrite_NoSeek(image) == UNCHANGED durable /\ disk' = image /\ dirty' = TRUE

\* A write that does not mark the image dirty.
SeekAndWrite_NotDirty(image) == Seek /\ disk' = image /\ UNCHANGED dirty

\* A seek, then a transfer into the image.
SeekAndWrite(image) == Seek /\ disk' = image /\ dirty' = TRUE

SeekAndRead == Seek /\ UNCHANGED <<disk, dirty>>

\* An access that fails: the seek, whose flush did not reach the host file
\* and whose buffer is kept or lost, or the transfer after a good seek.
HostFails ==
    /\ IOErrors
    /\ \/ durable' = durable /\ disk' \in {disk, durable}
       \/ durable' = disk /\ disk' = disk
    /\ UNCHANGED dirty

\* The operations are calls of one thread: none starts while a write runs.
Idle == ~job.busy

Refused(rc) ==
    /\ Returns(rc)
    /\ UNCHANGED <<disk, durable, mounted, handle, job, dirty>>

Fails(rc) ==
    /\ HostFails
    /\ Returns(rc)
    /\ UNCHANGED <<mounted, handle, job>>

\* A call that read the directory and changed nothing.
Answers(rc) ==
    /\ SeekAndRead
    /\ Returns(rc)
    /\ UNCHANGED <<mounted, handle, job>>

\* The ways out shared by the calls that take a file name: the name or the
\* disk is refused before any access, or an access fails.  A persist that
\* fails after a good refresh leaves what a refresh that fails leaves.
Named(sp) == mounted /\ CpmName[sp] # BadName

NameCallFails(sp, rc) ==
    \/ ~Named(sp) /\ Refused(rc)
    \/ Named(sp) /\ Fails(rc)

-----------------------------------------------------------------------------
(* The directory operations.                                              *)

Open(sp) ==
    /\ Idle
    /\ \/ NameCallFails(sp, -1)
       \/ /\ Named(sp)
          /\ ~NameFound(Refreshed, CpmName[sp]) \/ FreeHandles = {}
          /\ Answers(-1)
       \/ /\ Named(sp)
          /\ \E e \in Entries, h \in Handles :
                /\ Found(Refreshed, CpmName[sp], e)
                /\ IsLeast(h, FreeHandles)
                /\ handle' = [handle EXCEPT ![h] = OpenedHandle(e)]
                /\ Returns(h)
          /\ SeekAndRead
          /\ UNCHANGED <<mounted, job>>

\* The new entry is on the disk before the handle table is searched: with
\* no handle left the call fails and the file stays.
Create(sp) ==
    /\ Idle
    /\ \/ NameCallFails(sp, -1)
       \/ /\ Named(sp)
          /\ NameFound(Refreshed, CpmName[sp]) \/ FreeEntries(Refreshed) = {}
          /\ Answers(-1)
       \/ /\ Named(sp)
          /\ ~NameFound(Refreshed, CpmName[sp])
          /\ \E e \in Entries :
                /\ IsLeast(e, FreeEntries(Refreshed))
                /\ SeekAndWrite([disk EXCEPT !.dir[e] = NewEntry(CpmName[sp])])
                /\ \/ /\ FreeHandles = {}
                      /\ Returns(-1)
                      /\ UNCHANGED handle
                   \/ \E h \in Handles :
                        /\ IsLeast(h, FreeHandles)
                        /\ handle' = [handle EXCEPT ![h] = OpenedHandle(e)]
                        /\ Returns(h)
          /\ UNCHANGED <<mounted, job>>

\* A delete that leaves the handles of the file, or all but the first, open.
HandlesWithout_AllKept(e) == handle

\* fs_delete closes every handle on the entry.
HandlesWithout(e) ==
    [h \in Handles |-> IF handle[h].used /\ handle[h].entry = e
                       THEN ClosedHandle ELSE handle[h]]

Delete(sp) ==
    /\ Idle
    /\ \/ NameCallFails(sp, -1)
       \/ /\ Named(sp)
          /\ ~NameFound(Refreshed, CpmName[sp])
          /\ Answers(-1)
       \/ /\ Named(sp)
          /\ \E e \in Entries :
                /\ Found(Refreshed, CpmName[sp], e)
                /\ SeekAndWrite([disk EXCEPT !.dir[e] = FreeEntry])
                /\ handle' = HandlesWithout(e)
          /\ Returns(0)
          /\ UNCHANGED <<mounted, job>>

Exists(sp) ==
    /\ Idle
    /\ \/ NameCallFails(sp, 0)
       \/ /\ Named(sp)
          /\ Answers(IF NameFound(Refreshed, CpmName[sp]) THEN 1 ELSE 0)

List ==
    /\ Idle
    /\ \/ ~mounted /\ Refused(-1)
       \/ mounted /\ Fails(-1)
       \/ /\ mounted
          /\ Answers(Cardinality({e \in Entries : Refreshed[e].active}))

\* A close that does not check its argument.
Close_Unchecked(fh) ==
    /\ Idle
    /\ handle' = [h \in Handles \cup {fh} |-> IF h = fh THEN ClosedHandle ELSE handle[h]]
    /\ Returns(0)
    /\ UNCHANGED <<disk, durable, mounted, job, dirty>>

Close(fh) ==
    /\ Idle
    /\ handle' = [h \in Handles |-> IF h = fh THEN ClosedHandle ELSE handle[h]]
    /\ Returns(0)
    /\ UNCHANGED <<disk, durable, mounted, job, dirty>>

-----------------------------------------------------------------------------
(* fs_read.                                                                *)

SlotOf(pos)   == pos \div SectorBytes
SizeOf(entry) == entry.count * SectorBytes
Lesser(a, b)  == IF a <= b THEN a ELSE b

\* The bytes between pos and place q of the file.
Ahead(q, pos) == IF q > pos THEN q - pos ELSE 0

\* What ends the loop of fs_read that starts at pos: len bytes, the end of
\* the file, the first slot without a sector.  The least of them is what it
\* reads.
ReadLimits(entry, pos, len) ==
    {len, Ahead(SizeOf(entry), pos)} \cup
    {Ahead(s * SectorBytes, pos) :
        s \in {x \in Slots : x >= SlotOf(pos) /\ entry.alloc[x] = 0}}

Read(fh, len) ==
    /\ Idle
    /\ \/ BadHandle(fh) /\ Refused(-1)
       \/ ~BadHandle(fh) /\ len = 0 /\ Refused(0)
       \/ ~BadHandle(fh) /\ len > 0 /\ Fails(-1)
       \/ /\ ~BadHandle(fh)
          /\ len > 0
          /\ \E n \in 0 .. len :
                /\ IsLeast(n, ReadLimits(Refreshed[handle[fh].entry],
                                        handle[fh].pos, len))
                /\ \/ /\ handle' = [handle EXCEPT ![fh].pos = @ + n]
                      /\ Returns(n)
                   \* A later sector fails: what was read is returned, and
                   \* the position stays where it was.
                   \/ /\ IOErrors
                      /\ \E k \in 1 .. n - 1 :
                            /\ (handle[fh].pos + k) % SectorBytes = 0
                            /\ Returns(k)
                      /\ UNCHANGED handle
          /\ SeekAndRead
          /\ UNCHANGED <<mounted, job>>

-----------------------------------------------------------------------------
(* fs_write: the checks, one step per sector, then the directory entry.    *)

WriteRefused(fh, len) ==
    /\ Idle
    /\ \/ BadHandle(fh) /\ Refused(-1)
       \/ ~BadHandle(fh) /\ len = 0 /\ Refused(0)
       \/ ~BadHandle(fh) /\ len > 0 /\ Fails(-1)

WriteBegin(fh, len, byte) ==
    /\ Idle
    /\ ~BadHandle(fh)
    /\ len > 0
    /\ SeekAndRead
    /\ job' = [busy |-> TRUE, fh |-> fh, data |-> byte, len |-> len, total |-> 0,
               pos |-> handle[fh].pos, rec |-> Refreshed[handle[fh].entry]]
    /\ Returns(0)
    /\ UNCHANGED <<mounted, handle>>

WriteMore == job.busy /\ job.total < job.len /\ SlotOf(job.pos) \in Slots

\* The bytes of this sector the write covers.
Chunk == Lesser(job.len - job.total, SectorBytes - (job.pos % SectorBytes))

\* The chunk copied to the start of the sector.
Patched_AtStart(old) ==
    [i \in 0 .. SectorBytes - 1 |-> IF i < Chunk THEN job.data ELSE old[i]]

\* The sector holding old once the chunk is copied over it.
Patched(old) ==
    [i \in 0 .. SectorBytes - 1 |->
        IF /\ job.pos % SectorBytes <= i
           /\ i < (job.pos % SectorBytes) + Chunk
        THEN job.data ELSE old[i]]

\* What a sector write does to the job: rec is the entry after it.
Advanced(rec) ==
    [job EXCEPT !.total = @ + Chunk, !.pos = @ + Chunk, !.rec = rec]

\* The slot has a sector: read it, change it, write it back.
WriteInPlace ==
    /\ WriteMore
    /\ job.rec.alloc[SlotOf(job.pos)] # 0
    /\ LET l == job.rec.alloc[SlotOf(job.pos)] - 1
       IN  /\ SeekAndWrite([disk EXCEPT !.sec[l] = Patched(disk.sec[l])])
           /\ job' = Advanced(job.rec)
    /\ UNCHANGED <<mounted, handle, ret>>

\* A sector taken with what the file before it left there.
WriteAllocating_OldBytes ==
    /\ WriteMore
    /\ job.rec.alloc[SlotOf(job.pos)] = 0
    /\ \E l \in DataSectors :
        /\ IsLeast(l, FreeSectors(JobDir))
        /\ SeekAndWrite([disk EXCEPT !.sec[l] = Patched(disk.sec[l])])
        /\ job' = Advanced([job.rec EXCEPT !.alloc[SlotOf(job.pos)] = AllocByte(l)])
    /\ UNCHANGED <<mounted, handle, ret>>

\* The slot has none: take the first free sector.
WriteAllocating ==
    /\ WriteMore
    /\ job.rec.alloc[SlotOf(job.pos)] = 0
    /\ \E l \in DataSectors :
        /\ IsLeast(l, FreeSectors(JobDir))
        /\ SeekAndWrite([disk EXCEPT !.sec[l] = Patched(ZeroBlock)])
        /\ job' = Advanced([job.rec EXCEPT !.alloc[SlotOf(job.pos)] = AllocByte(l)])
    /\ UNCHANGED <<mounted, handle, ret>>

\* A sector that cannot be read or written ends the call: the entry and the
\* position are not updated.
WriteSectorFails ==
    /\ WriteMore
    /\ job.rec.alloc[SlotOf(job.pos)] = 0 => FreeSectors(JobDir) # {}
    /\ HostFails
    /\ WriteReturns(IF job.total > 0 THEN job.total ELSE -1)
    /\ job' = NoJob
    /\ UNCHANGED <<mounted, handle>>

\* The loop is over: all is written, the slots are used up, or no sector is
\* free for the next slot.
WriteDone ==
    /\ job.busy
    /\ WriteMore => job.rec.alloc[SlotOf(job.pos)] = 0 /\ FreeSectors(JobDir) = {}

\* The entry that is persisted: the count grows with the position.
WrittenEntry ==
    [job.rec EXCEPT !.count =
        IF job.pos > SizeOf(job.rec)
        THEN (job.pos + (SectorBytes - 1)) \div SectorBytes ELSE @]

WriteEnd ==
    /\ WriteDone
    /\ SeekAndWrite([disk EXCEPT !.dir[JobEntry] = WrittenEntry])
    /\ handle' = [handle EXCEPT ![job.fh].pos = job.pos]
    /\ WriteReturns(job.total)
    /\ job' = NoJob
    /\ UNCHANGED mounted

\* The entry cannot be persisted: the position has moved all the same, and
\* the call returns the bytes it wrote to the sectors.
WriteEndFails ==
    /\ WriteDone
    /\ HostFails
    /\ handle' = [handle EXCEPT ![job.fh].pos = job.pos]
    /\ WriteReturns(IF job.total > 0 THEN job.total ELSE -1)
    /\ job' = NoJob
    /\ UNCHANGED mounted

-----------------------------------------------------------------------------
(* Sectors by address, the flush, and the life of the process.             *)

ReadSector(track, sector) ==
    /\ Idle
    /\ \/ ~(mounted /\ ValidAddress(track, sector)) /\ Refused(-1)
       \/ mounted /\ ValidAddress(track, sector) /\ Fails(-1)
       \/ mounted /\ ValidAddress(track, sector) /\ Answers(0)

\* A program that writes the directory's own sectors this way is outside the
\* model: RawSectors are data sectors.
WriteSector(track, sector, byte) ==
    /\ Idle
    /\ \/ ~(mounted /\ ValidAddress(track, sector)) /\ Refused(-1)
       \/ /\ mounted /\ ValidAddress(track, sector)
          /\ TrackSectorToLinear(track, sector) \in RawSectors
          /\ \/ Fails(-1)
             \/ /\ SeekAndWrite([disk EXCEPT
                        !.sec[TrackSectorToLinear(track, sector)] =
                            [i \in 0 .. SectorBytes - 1 |-> byte]])
                /\ Returns(0)
                /\ UNCHANGED <<mounted, handle, job>>

Flush ==
    /\ Idle
    /\ \/ ~(mounted /\ dirty) /\ Refused(0)
       \/ mounted /\ dirty /\ Fails(0)
       \/ /\ mounted /\ dirty
          /\ Seek
          /\ dirty' = FALSE
          /\ Returns(0)
          /\ UNCHANGED <<disk, mounted, handle, job>>

\* fs_init.  It opens the image again, then closes the stream it had, whose
\* flush may fail; a directory that cannot be read leaves no disk mounted.
FsInitRefused ==
    /\ Idle
    /\ IOErrors
    /\ Refused(-1)

FsInit ==
    /\ Idle
    /\ \/ durable' = disk
       \/ IOErrors /\ durable' = durable
    /\ disk' = durable'
    /\ dirty' = FALSE
    /\ handle' = [h \in Handles |-> ClosedHandle]
    /\ \/ mounted' = TRUE /\ Returns(0)
       \/ IOErrors /\ mounted' = FALSE /\ Returns(-1)
    /\ UNCHANGED job

\* A new process: its static variables are zero.
Restarted ==
    /\ disk' = durable'
    /\ mounted' = FALSE
    /\ handle' = [h \in Handles |-> ClosedHandle]
    /\ job' = NoJob
    /\ dirty' = FALSE
    /\ Returns(0)

\* The process is killed: the stream's buffer is gone.
Crash == mounted /\ durable' = durable /\ Restarted

\* The process returns from main, and the C library flushes the stream.
Exit ==
    /\ mounted
    /\ Idle
    /\ \/ durable' = disk
       \/ IOErrors /\ durable' = durable
    /\ Restarted

-----------------------------------------------------------------------------
Init ==
    /\ disk = FormattedImage
    /\ durable = FormattedImage
    /\ mounted = FALSE
    /\ handle = [h \in Handles |-> ClosedHandle]
    /\ job = NoJob
    /\ dirty = FALSE
    /\ ret = Result("call", 0)

\* Arguments include handles past the table, addresses past the disk.
HandleArgs == -1 .. OpenMax

Next ==
    \/ \E sp \in Spellings : Open(sp) \/ Create(sp) \/ Delete(sp) \/ Exists(sp)
    \/ List
    \/ \E fh \in HandleArgs : Close(fh)
    \/ \E fh \in HandleArgs, len \in Lengths : Read(fh, len) \/ WriteRefused(fh, len)
    \/ \E fh \in HandleArgs, len \in Lengths, byte \in Payloads :
            WriteBegin(fh, len, byte)
    \/ WriteInPlace
    \/ WriteAllocating
    \/ WriteSectorFails
    \/ WriteEnd
    \/ WriteEndFails
    \/ \E track \in 0 .. Tracks, sector \in 0 .. SectorsPerTrack + 1 :
        \/ ReadSector(track, sector)
        \/ \E byte \in Payloads : WriteSector(track, sector, byte)
    \/ Flush
    \/ FsInitRefused
    \/ FsInit
    \/ Crash
    \/ Exit

Spec == Init /\ [][Next]_vars

-----------------------------------------------------------------------------
(* Properties.                                                             *)

\* The types of the variables.
TypeOK ==
    /\ disk \in ImageType
    /\ durable \in ImageType
    /\ mounted \in BOOLEAN
    /\ handle \in [Handles -> HandleType]
    /\ job \in JobType
    /\ dirty \in BOOLEAN
    /\ ret \in RetType

SectorsOwnedOnce(dir) ==
    \A e1, e2 \in Entries, s1, s2 \in Slots :
        dir[e1].active /\ dir[e1].alloc[s1] # 0 =>
            /\ dir[e1].alloc[s1] - 1 \in DataSectors
            /\ dir[e2].active /\ dir[e2].alloc[s2] = dir[e1].alloc[s1]
                => e1 = e2 /\ s1 = s2

\* No sector belongs to two files or to two places of one file, and none of
\* the directory's own sectors belongs to a file: in what the process sees,
\* in what a crash leaves, and in the directory fs_write is changing.  This
\* is what fs_alloc_free_sector, which keeps no free list, is for.
AllocSafe ==
    /\ SectorsOwnedOnce(disk.dir)
    /\ SectorsOwnedOnce(durable.dir)
    /\ job.busy => SectorsOwnedOnce(JobDir)

OneEntryPerName(dir) ==
    \A e1, e2 \in Entries :
        dir[e1].active /\ dir[e2].active /\ dir[e1].name = dir[e2].name => e1 = e2

\* Two active entries never have one name, whatever its spelling and whether
\* or not a crash came between: fs_open would only ever find the first.
NamesUnique == OneEntryPerName(disk.dir) /\ OneEntryPerName(durable.dir)

\* While the host does not fail, an open handle is on an active entry, so
\* that deleting a file and creating another in its entry never turns an old
\* handle into a handle on the new file (fs_delete closes the handles).
HandlesLive ==
    \A h \in Handles : handle[h].used => disk.dir[handle[h].entry].active

\* The bytes fs_write reports written can be read at their place in the file
\* as soon as it returns (tests/fs/test_fs.c writes a payload of 300 bytes
\* and reads it back).
WriteReadBack ==
    (ret.op = "write" /\ ret.rc > 0) =>
        LET entry == disk.dir[handle[ret.fh].entry]
        IN  \A q \in ret.at .. ret.at + ret.rc - 1 :
                /\ q < SizeOf(entry)
                /\ entry.alloc[SlotOf(q)] # 0
                /\ disk.sec[entry.alloc[SlotOf(q)] - 1][q % SectorBytes] = ret.data

\* A kill of the process loses at most the last entry or the last sector
\* written: the host file never lags by more than one write, because every
\* access seeks first.
LagsByOneWrite ==
    Cardinality({e \in Entries : disk.dir[e] # durable.dir[e]}) +
    Cardinality({l \in DataSectors : disk.sec[l] # durable.sec[l]}) <= 1

\* fs_flush, which does nothing when g_dirty is clear, is never skipped
\* while the host file lags.
FlushNotSkipped == disk # durable => dirty

\* What reaches the host file changes no file but the one being written: a
\* file whose entry is there, and stays as it is, keeps its sectors, even
\* when the sectors of a deleted file go to another and the process is killed
\* in between.  (Sectors that programs write by address are theirs to change.)
HostFileConfined ==
    [][\A e \in Entries, s \in Slots :
        (/\ durable.dir[e].active
         /\ durable'.dir[e] = durable.dir[e]
         /\ durable.dir[e].alloc[s] - 1 \in DataSectors \ RawSectors
         /\ durable'.sec[durable.dir[e].alloc[s] - 1]
                # durable.sec[durable.dir[e].alloc[s] - 1])
        => job.busy /\ JobEntry = e]_vars

\* .cursor/spec.md: "Track 0 is reserved for the boot loader and directory".
TrackZeroReserved ==
    \A e \in Entries, s \in Slots :
        disk.dir[e].active /\ disk.dir[e].alloc[s] # 0 =>
            LinearToTrack(disk.dir[e].alloc[s] - 1) # 0

-----------------------------------------------------------------------------
\* The bytes of entry e of an image.  No file of a store has a hole.
Hole == -1

Content(image, e) ==
    [q \in 1 .. SizeOf(image.dir[e]) |->
        LET byte == image.dir[e].alloc[SlotOf(q - 1)]
        IN  IF byte = 0 THEN Hole ELSE image.sec[byte - 1][(q - 1) % SectorBytes]]

Stored(image) ==
    LET active == {e \in Entries : image.dir[e].active}
    IN  [n \in {image.dir[e].name : e \in active} |->
            Content(image, CHOOSE e \in active : image.dir[e].name = n)]

OpenFiles == [h \in {x \in Handles : handle[x].used} |->
                [name |-> disk.dir[handle[h].entry].name, pos |-> handle[h].pos]]

JobWriting == [busy |-> job.busy, fh |-> job.fh, byte |-> job.data, len |-> job.len,
               done |-> job.total, pos |-> job.pos]

Store == INSTANCE FileStore WITH
    Block      <- SectorBytes,
    FileBlocks <- SlotsPerFile,
    Blocks     <- TotalSectors - FirstData,
    MaxFiles   <- NumEntries,
    files      <- Stored(disk),
    kept       <- Stored(durable),
    up         <- mounted,
    opened     <- OpenFiles,
    writing    <- JobWriting,
    ret        <- ret.rc

\* The directory and the allocation bytes are a store of files by name: no
\* call changes a file but the one it is for; what is written is in the file,
\* with its old bytes around it, and zeros after it; a delete gives back every
\* sector, so that a write stops early on a full store only; and a kill undoes
\* the last step or nothing.
ImplementsStore == Store!Spec
=============================================================================
