-------------------------- MODULE FileSystemProofs --------------------------
(***************************************************************************)
(* Theorems about FileSystem, for every geometry, directory size, handle   *)
(* table, allocation-byte width and set of names the assumptions allow.    *)
(***************************************************************************)
EXTENDS FileSystem, FiniteSetTheorems, TLAPS

-----------------------------------------------------------------------------
(* Lemmas about the constants and the operators.                           *)

\* Zero is an entry, a handle and an allocation byte.
LEMMA ZeroInRange == 0 \in Entries /\ 0 \in Handles /\ 0 \in Allocs
BY GeometryAssumption, FileSystemAssumption DEF Entries, Handles, Allocs

\* The values the operations start from have the types of the variables.
LEMMA InitialValues ==
    /\ FreeEntry \in EntryType
    /\ \A n \in Names : NewEntry(n) \in EntryType
    /\ ZeroBlock \in Blocks
    /\ FormattedImage \in ImageType
    /\ ClosedHandle \in HandleType
    /\ \A e \in Entries : OpenedHandle(e) \in HandleType
    /\ NoJob \in JobType
    /\ \A rc \in Int : Result("call", rc) \in RetType
<1>1. FreeEntry \in EntryType /\ \A n \in Names : NewEntry(n) \in EntryType
  BY ZeroInRange DEF FreeEntry, NewEntry, EntryType, NoAlloc
<1>2. ZeroBlock \in Blocks
  BY FileSystemAssumption DEF ZeroBlock, Blocks
<1>3. FormattedImage \in ImageType
  BY <1>1, <1>2 DEF FormattedImage, ImageType
<1>4. ClosedHandle \in HandleType /\ \A e \in Entries : OpenedHandle(e) \in HandleType
  BY ZeroInRange DEF ClosedHandle, OpenedHandle, HandleType
<1>5. NoJob \in JobType
  BY <1>1, ZeroInRange, FileSystemAssumption DEF NoJob, JobType
<1>6. \A rc \in Int : Result("call", rc) \in RetType
  BY ZeroInRange, FileSystemAssumption DEF Result, RetType
<1>7. QED
  BY <1>1, <1>2, <1>3, <1>4, <1>5, <1>6

\* Replacing a directory entry gives an image.
LEMMA EntryWritten ==
    ASSUME NEW image \in ImageType, NEW e \in Entries, NEW rec \in EntryType
    PROVE  /\ [image EXCEPT !.dir[e] = rec] \in ImageType
           /\ [image EXCEPT !.dir[e] = rec].dir = [image.dir EXCEPT ![e] = rec]
BY DEF ImageType

\* Replacing the bytes of a sector gives an image with the same directory.
LEMMA SectorWritten ==
    ASSUME NEW image \in ImageType, NEW l, NEW block,
           l \in DataSectors => block \in Blocks
    PROVE  /\ [image EXCEPT !.sec[l] = block] \in ImageType
           /\ [image EXCEPT !.sec[l] = block].dir = image.dir
BY DEF ImageType

\* A position's slot and offset, and what is left of its sector.
LEMMA Division ==
    ASSUME NEW pos \in Nat
    PROVE  /\ SlotOf(pos) \in Nat
           /\ pos % SectorBytes \in 0 .. SectorBytes - 1
           /\ (pos + (SectorBytes - 1)) \div SectorBytes \in Nat
BY GeometryAssumption DEF SlotOf

\* The bytes a sector write covers.
LEMMA ChunkType ==
    ASSUME TypeOK, WriteMore
    PROVE  Chunk \in Nat
<1>1. job.pos \in Nat /\ job.len \in Nat /\ job.total \in Nat /\ job.total < job.len
  BY DEF TypeOK, JobType, WriteMore
<1>2. job.pos % SectorBytes \in 0 .. SectorBytes - 1
  BY <1>1, Division
<1>3. QED
  BY <1>1, <1>2, GeometryAssumption DEF Chunk, Lesser

\* A sector a write has changed is still a sector.
LEMMA PatchedType ==
    ASSUME TypeOK, NEW old \in Blocks
    PROVE  Patched(old) \in Blocks
BY DEF Patched, Blocks, TypeOK, JobType

\* An allocation byte fits.
LEMMA AllocByteType ==
    ASSUME NEW l \in DataSectors
    PROVE  AllocByte(l) \in Allocs
BY GeometryAssumption, FileSystemAssumption DEF AllocByte, Allocs, DataSectors

\* The running write's copy of the directory is a directory.
LEMMA JobDirType ==
    ASSUME TypeOK
    PROVE  /\ JobEntry \in Entries
           /\ JobDir \in [Entries -> EntryType]
           /\ job.rec \in EntryType
           /\ JobDir[JobEntry] = job.rec
BY DEF TypeOK, JobDir, JobEntry, JobType, HandleType, ImageType

\* What a sector write makes of the job.
LEMMA AdvancedType ==
    ASSUME TypeOK, WriteMore, NEW rec \in EntryType
    PROVE  Advanced(rec) \in JobType
<1>1. job \in JobType /\ job.total \in Nat /\ job.pos \in Nat
  BY DEF TypeOK, JobType
<1>2. Chunk \in Nat
  BY ChunkType
<1>3. job.total + Chunk \in Nat /\ job.pos + Chunk \in Nat
  BY <1>1, <1>2
<1>4. QED
  BY <1>1, <1>3 DEF Advanced, JobType

\* fs_alloc_free_sector turns the sector it chose into a track and a sector,
\* and fs_write turns them back into the number it stores: nothing is lost,
\* and the pair is one that fs_write_sector accepts, whose bytes are those of
\* the sector.
THEOREM AddressesAgree ==
    ASSUME NEW l \in Sectors
    PROVE  /\ ValidAddress(LinearToTrack(l), LinearToSector(l))
           /\ TrackSectorToLinear(LinearToTrack(l), LinearToSector(l)) = l
           /\ SectorOffset(LinearToTrack(l), LinearToSector(l)) = l * SectorBytes
<1> DEFINE q == l \div SectorsPerTrack
           r == l % SectorsPerTrack
<1>1. /\ l \in Nat /\ l < Tracks * SectorsPerTrack
      /\ SectorsPerTrack \in Nat \ {0} /\ Tracks \in Nat \ {0}
  BY GeometryAssumption DEF Sectors, TotalSectors
<1>2. r \in 0 .. SectorsPerTrack - 1 /\ q \in Nat /\ l = q * SectorsPerTrack + r
  BY <1>1
<1> HIDE DEF q, r
<1>3. q < Tracks
  <2> SUFFICES ASSUME q >= Tracks PROVE FALSE
    BY <1>1, <1>2
  <2>1. q * SectorsPerTrack >= Tracks * SectorsPerTrack
    BY <1>1, <1>2
  <2>2. QED
    BY <1>1, <1>2, <2>1
<1>4. QED
  BY <1>1, <1>2, <1>3
     DEF q, r, ValidAddress, LinearToTrack, LinearToSector, TrackSectorToLinear,
         SectorOffset

-----------------------------------------------------------------------------
(* Type correctness.                                                       *)

\* The calls that refuse, that fail and that only answer keep the types.
LEMMA PlainCalls ==
    ASSUME TypeOK, NEW rc \in Int
    PROVE  Refused(rc) \/ Fails(rc) \/ Answers(rc) => TypeOK'
<1>1. Returns(rc) => ret' \in RetType
  BY InitialValues DEF Returns
<1>2. CASE Refused(rc)
  BY <1>1, <1>2 DEF Refused, TypeOK
<1>3. CASE Fails(rc)
  <2>1. disk' \in ImageType /\ durable' \in ImageType
    BY <1>3 DEF Fails, HostFails, TypeOK
  <2>2. QED
    BY <1>1, <1>3, <2>1 DEF Fails, HostFails, TypeOK
<1>4. CASE Answers(rc)
  BY <1>1, <1>4 DEF Answers, SeekAndRead, Seek, TypeOK
<1>5. QED
  BY <1>2, <1>3, <1>4

\* A call that only gives or takes a handle, or neither, keeps the types.
LEMMA NameCallsType ==
    ASSUME TypeOK, NEW sp, NEW rc \in Int
    PROVE  NameCallFails(sp, rc) => TypeOK'
BY PlainCalls DEF NameCallFails

\* fs_open keeps the types.
LEMMA OpenType ==
    ASSUME TypeOK, NEW sp \in Spellings, Open(sp)
    PROVE  TypeOK'
<1>1. CASE NameCallFails(sp, -1)
  BY <1>1, NameCallsType
<1>2. CASE Answers(-1)
  BY <1>2, PlainCalls
<1>3. ASSUME NEW e \in Entries, NEW h \in Handles,
             handle' = [handle EXCEPT ![h] = OpenedHandle(e)], Returns(h),
             SeekAndRead, UNCHANGED <<mounted, job>>
      PROVE  TypeOK'
  <2>1. handle' \in [Handles -> HandleType]
    BY <1>3, InitialValues DEF TypeOK
  <2>2. ret' \in RetType
    BY <1>3, InitialValues DEF Returns, Handles
  <2>3. QED
    BY <1>3, <2>1, <2>2 DEF SeekAndRead, Seek, TypeOK
<1>4. QED
  BY <1>1, <1>2, <1>3 DEF Open

\* fs_create keeps the types.
LEMMA CreateType ==
    ASSUME TypeOK, NEW sp \in Spellings, Create(sp)
    PROVE  TypeOK'
<1>1. CASE NameCallFails(sp, -1)
  BY <1>1, NameCallsType
<1>2. CASE Answers(-1)
  BY <1>2, PlainCalls
<1>3. ASSUME Named(sp), NEW e \in Entries,
             SeekAndWrite([disk EXCEPT !.dir[e] = NewEntry(CpmName[sp])]),
             \/ Returns(-1) /\ UNCHANGED handle
             \/ \E h \in Handles :
                    /\ handle' = [handle EXCEPT ![h] = OpenedHandle(e)]
                    /\ Returns(h),
             UNCHANGED <<mounted, job>>
      PROVE  TypeOK'
  <2>1. CpmName[sp] \in Names
    BY <1>3, FileSystemAssumption DEF Named
  <2>2. disk' \in ImageType
    BY <1>3, <2>1, InitialValues, EntryWritten DEF SeekAndWrite, TypeOK
  <2>3. handle' \in [Handles -> HandleType] /\ ret' \in RetType
    BY <1>3, InitialValues DEF TypeOK, Returns, Handles
  <2>4. QED
    BY <1>3, <2>2, <2>3 DEF SeekAndWrite, Seek, TypeOK
<1>4. QED
  BY <1>1, <1>2, <1>3 DEF Create

\* fs_delete keeps the types.
LEMMA DeleteType ==
    ASSUME TypeOK, NEW sp \in Spellings, Delete(sp)
    PROVE  TypeOK'
<1>1. CASE NameCallFails(sp, -1)
  BY <1>1, NameCallsType
<1>2. CASE Answers(-1)
  BY <1>2, PlainCalls
<1>3. ASSUME NEW e \in Entries,
             SeekAndWrite([disk EXCEPT !.dir[e] = FreeEntry]),
             handle' = HandlesWithout(e), Returns(0), UNCHANGED <<mounted, job>>
      PROVE  TypeOK'
  <2>1. disk' \in ImageType
    BY <1>3, InitialValues, EntryWritten DEF SeekAndWrite, TypeOK
  <2>2. handle' \in [Handles -> HandleType]
    BY <1>3, InitialValues DEF HandlesWithout, TypeOK
  <2>3. ret' \in RetType
    BY <1>3, InitialValues DEF Returns
  <2>4. QED
    BY <1>3, <2>1, <2>2, <2>3 DEF SeekAndWrite, Seek, TypeOK
<1>4. QED
  BY <1>1, <1>2, <1>3 DEF Delete

\* fs_list keeps the types.
LEMMA ListType ==
    ASSUME TypeOK, List
    PROVE  TypeOK'
<1>1. CASE Refused(-1) \/ Fails(-1)
  BY <1>1, PlainCalls
<1>2. ASSUME Answers(Cardinality({e \in Entries : Refreshed[e].active}))
      PROVE  TypeOK'
  <2>1. IsFiniteSet(Entries)
    BY FS_Interval, FileSystemAssumption DEF Entries
  <2>2. IsFiniteSet({e \in Entries : Refreshed[e].active})
    BY <2>1, FS_Subset
  <2>3. Cardinality({e \in Entries : Refreshed[e].active}) \in Nat
    BY <2>2, FS_CardinalityType
  <2>4. QED
    BY <1>2, <2>3, PlainCalls
<1>3. QED
  BY <1>1, <1>2 DEF List

\* fs_read keeps the types.
LEMMA ReadType ==
    ASSUME TypeOK, NEW fh, NEW len \in Nat, Read(fh, len)
    PROVE  TypeOK'
<1>1. CASE Refused(-1) \/ Refused(0) \/ Fails(-1)
  BY <1>1, PlainCalls
<1>2. ASSUME ~BadHandle(fh), NEW n \in 0 .. len,
             \/ handle' = [handle EXCEPT ![fh].pos = @ + n] /\ Returns(n)
             \/ \E k \in 1 .. n - 1 : Returns(k) /\ UNCHANGED handle,
             SeekAndRead, UNCHANGED <<mounted, job>>
      PROVE  TypeOK'
  <2>1. handle' \in [Handles -> HandleType]
    BY <1>2 DEF BadHandle, TypeOK, HandleType
  <2>2. ret' \in RetType
    BY <1>2, InitialValues DEF Returns
  <2>3. QED
    BY <1>2, <2>1, <2>2 DEF SeekAndRead, Seek, TypeOK
<1>3. QED
  BY <1>1, <1>2 DEF Read

\* What a write returns has the type of a result.
LEMMA WriteReturnsType ==
    ASSUME TypeOK, NEW rc \in Int, WriteReturns(rc)
    PROVE  ret' \in RetType
BY DEF TypeOK, JobType, WriteReturns, RetType

\* The start of fs_write keeps the types.
LEMMA WriteBeginType ==
    ASSUME TypeOK, NEW fh, NEW len \in Nat, NEW byte \in Payloads,
           WriteBegin(fh, len, byte)
    PROVE  TypeOK'
<1>1. fh \in Handles /\ handle[fh] \in HandleType
  BY DEF WriteBegin, BadHandle, TypeOK
<1>2. job' \in JobType
  <2>1. handle[fh].pos \in Nat /\ handle[fh].entry \in Entries
    BY <1>1 DEF HandleType
  <2>2. Refreshed[handle[fh].entry] \in EntryType
    BY <2>1 DEF Refreshed, TypeOK, ImageType
  <2>3. byte \in Bytes
    BY FileSystemAssumption
  <2>4. QED
    BY <1>1, <2>1, <2>2, <2>3 DEF WriteBegin, JobType
<1>3. ret' \in RetType
  BY InitialValues DEF WriteBegin, Returns
<1>4. QED
  BY <1>2, <1>3 DEF WriteBegin, SeekAndRead, Seek, TypeOK

\* A sector fs_write rewrites keeps the types.
LEMMA WriteInPlaceType ==
    ASSUME TypeOK, WriteInPlace
    PROVE  TypeOK'
<1> DEFINE l == job.rec.alloc[SlotOf(job.pos)] - 1
<1>1. l \in DataSectors => Patched(disk.sec[l]) \in Blocks
  BY PatchedType DEF TypeOK, ImageType
<1>2. disk' = [disk EXCEPT !.sec[l] = Patched(disk.sec[l])] /\ durable' = disk /\ dirty' = TRUE
  BY DEF WriteInPlace, SeekAndWrite, Seek
<1>3. disk' \in ImageType
  <2> HIDE DEF l
  <2>1. QED
    BY <1>1, <1>2, SectorWritten DEF TypeOK
<1>4. job' \in JobType
  BY JobDirType, AdvancedType DEF WriteInPlace
<1>5. QED
  BY <1>2, <1>3, <1>4 DEF WriteInPlace, TypeOK

\* The entry with a sector put in the slot of the position is an entry.
LEMMA AllocatedType ==
    ASSUME TypeOK, NEW l \in DataSectors
    PROVE  [job.rec EXCEPT !.alloc[SlotOf(job.pos)] = AllocByte(l)] \in EntryType
<1>1. job.rec \in EntryType
  BY JobDirType
<1>2. AllocByte(l) \in Allocs
  BY AllocByteType
<1>3. QED
  BY <1>1, <1>2 DEF EntryType

\* A sector fs_write allocates keeps the types.
LEMMA WriteAllocatingType ==
    ASSUME TypeOK, WriteAllocating
    PROVE  TypeOK'
<1>1. PICK l \in DataSectors :
        /\ SeekAndWrite([disk EXCEPT !.sec[l] = Patched(ZeroBlock)])
        /\ job' = Advanced([job.rec EXCEPT !.alloc[SlotOf(job.pos)] = AllocByte(l)])
  BY DEF WriteAllocating
<1>2. disk' \in ImageType
  BY <1>1, InitialValues, PatchedType, SectorWritten DEF SeekAndWrite, TypeOK
<1>3. job' \in JobType
  BY <1>1, AllocatedType, AdvancedType DEF WriteAllocating
<1>4. QED
  BY <1>1, <1>2, <1>3 DEF WriteAllocating, SeekAndWrite, Seek, TypeOK

\* An fs_write that a sector's access ends early keeps the types.
LEMMA WriteSectorFailsType ==
    ASSUME TypeOK, WriteSectorFails
    PROVE  TypeOK'
<1>1. (IF job.total > 0 THEN job.total ELSE -1) \in Int
  BY DEF TypeOK, JobType
<1>2. ret' \in RetType
  BY <1>1, WriteReturnsType DEF WriteSectorFails
<1>3. disk' \in ImageType /\ durable' \in ImageType
  BY DEF WriteSectorFails, HostFails, TypeOK
<1>4. QED
  BY <1>2, <1>3, InitialValues DEF WriteSectorFails, HostFails, TypeOK

\* The entry a write persists is an entry.
LEMMA WrittenEntryType ==
    ASSUME TypeOK
    PROVE  WrittenEntry \in EntryType
<1>1. job.rec \in EntryType /\ job.pos \in Nat
  BY DEF TypeOK, JobType
<1>2. (job.pos + (SectorBytes - 1)) \div SectorBytes \in Nat
  BY <1>1, Division
<1>3. QED
  BY <1>1, <1>2 DEF WrittenEntry, EntryType

\* A write ends with its handle at the position it reached.
LEMMA MovedHandleType ==
    ASSUME TypeOK
    PROVE  [handle EXCEPT ![job.fh].pos = job.pos] \in [Handles -> HandleType]
BY DEF TypeOK, JobType, HandleType

\* The end of fs_write keeps the types.
LEMMA WriteEndType ==
    ASSUME TypeOK, WriteEnd
    PROVE  TypeOK'
<1>1. disk' \in ImageType
  BY WrittenEntryType, JobDirType, EntryWritten DEF WriteEnd, SeekAndWrite, TypeOK
<1>2. ret' \in RetType
  BY WriteReturnsType DEF WriteEnd, TypeOK, JobType
<1>3. handle' \in [Handles -> HandleType]
  BY MovedHandleType DEF WriteEnd
<1>4. QED
  BY <1>1, <1>2, <1>3, InitialValues DEF WriteEnd, SeekAndWrite, Seek, TypeOK

\* The end of an fs_write that cannot store the entry keeps the types.
LEMMA WriteEndFailsType ==
    ASSUME TypeOK, WriteEndFails
    PROVE  TypeOK'
<1>1. (IF job.total > 0 THEN job.total ELSE -1) \in Int
  BY DEF TypeOK, JobType
<1>2. ret' \in RetType
  BY <1>1, WriteReturnsType DEF WriteEndFails
<1>3. disk' \in ImageType /\ durable' \in ImageType
  BY DEF WriteEndFails, HostFails, TypeOK
<1>4. handle' \in [Handles -> HandleType]
  BY MovedHandleType DEF WriteEndFails
<1>5. QED
  BY <1>2, <1>3, <1>4, InitialValues DEF WriteEndFails, HostFails, TypeOK

\* fs_write_sector keeps the types.
LEMMA WriteSectorType ==
    ASSUME TypeOK, NEW track, NEW sector, NEW byte \in Payloads,
           WriteSector(track, sector, byte)
    PROVE  TypeOK'
<1>1. CASE Refused(-1) \/ Fails(-1)
  BY <1>1, PlainCalls
<1> DEFINE l == TrackSectorToLinear(track, sector)
           block == [i \in 0 .. SectorBytes - 1 |-> byte]
<1>2. ASSUME SeekAndWrite([disk EXCEPT !.sec[l] = block]), Returns(0),
             UNCHANGED <<mounted, handle, job>>
      PROVE  TypeOK'
  <2>1. block \in Blocks
    BY FileSystemAssumption DEF Blocks
  <2> HIDE DEF l, block
  <2>2. disk' \in ImageType
    BY <1>2, <2>1, SectorWritten DEF SeekAndWrite, TypeOK
  <2>3. ret' \in RetType
    BY <1>2, InitialValues DEF Returns
  <2>4. QED
    BY <1>2, <2>2, <2>3 DEF SeekAndWrite, Seek, TypeOK
<1>3. QED
  BY <1>1, <1>2 DEF WriteSector

\* fs_flush keeps the types.
LEMMA FlushType ==
    ASSUME TypeOK, Flush
    PROVE  TypeOK'
<1>1. CASE Refused(0) \/ Fails(0)
  BY <1>1, PlainCalls
<1>2. CASE Seek /\ dirty' = FALSE /\ Returns(0) /\ UNCHANGED <<disk, mounted, handle, job>>
  <2>1. ret' \in RetType
    BY <1>2, InitialValues DEF Returns
  <2>2. QED
    BY <1>2, <2>1 DEF Seek, TypeOK
<1>3. QED
  BY <1>1, <1>2 DEF Flush

\* Closing every handle at once.
LEMMA AllClosedType == [h \in Handles |-> ClosedHandle] \in [Handles -> HandleType]
BY InitialValues

\* fs_init keeps the types.
LEMMA FsInitType ==
    ASSUME TypeOK, FsInit
    PROVE  TypeOK'
<1>1. durable' \in ImageType /\ disk' \in ImageType
  BY DEF FsInit, TypeOK
<1>2. ret' \in RetType
  BY InitialValues DEF FsInit, Returns
<1>3. QED
  BY <1>1, <1>2, AllClosedType DEF FsInit, TypeOK

\* A restart of the process on an image leaves well-typed state.
LEMMA RestartedType ==
    ASSUME durable' \in ImageType, Restarted
    PROVE  TypeOK'
<1>1. ret' \in RetType
  BY InitialValues DEF Restarted, Returns
<1>2. QED
  BY <1>1, AllClosedType, InitialValues DEF Restarted, TypeOK

\* fs_close keeps the types.
LEMMA CloseType ==
    ASSUME TypeOK, NEW fh, Close(fh)
    PROVE  TypeOK'
<1>1. handle' \in [Handles -> HandleType]
  BY InitialValues DEF Close, TypeOK
<1>2. ret' \in RetType
  BY InitialValues DEF Close, Returns
<1>3. QED
  BY <1>1, <1>2 DEF Close, TypeOK

\* The operations, with lengths of any size: the steps of this module, and of
\* those that call it.
Operation ==
    \/ \E sp \in Spellings : Open(sp) \/ Create(sp) \/ Delete(sp) \/ Exists(sp)
    \/ List \/ Flush \/ FsInitRefused \/ FsInit \/ Crash \/ Exit
    \/ \E fh \in HandleArgs : Close(fh)
    \/ \E fh \in HandleArgs, len \in Nat : Read(fh, len) \/ WriteRefused(fh, len)
    \/ \E fh \in HandleArgs, len \in Nat, byte \in Payloads : WriteBegin(fh, len, byte)
    \/ WriteInPlace \/ WriteAllocating \/ WriteSectorFails \/ WriteEnd \/ WriteEndFails
    \/ \E track \in 0 .. Tracks, sector \in 0 .. SectorsPerTrack + 1 :
        \/ ReadSector(track, sector)
        \/ \E byte \in Payloads : WriteSector(track, sector, byte)

LEMMA NextOperates == [Next]_vars => [Operation]_vars
<1> SUFFICES ASSUME Next PROVE Operation
  OBVIOUS
<1>1. Lengths \subseteq Nat
  BY FileSystemAssumption
<1>2. QED
  BY <1>1 DEF Next, Operation

\* Every step keeps the types.
LEMMA TypeStep == TypeOK /\ [Operation]_vars => TypeOK'
<1> SUFFICES ASSUME TypeOK, [Operation]_vars PROVE TypeOK'
  OBVIOUS
<1>1. ASSUME NEW sp \in Spellings, Open(sp) \/ Create(sp) \/ Delete(sp) \/ Exists(sp)
      PROVE  TypeOK'
  <2>1. CASE Exists(sp)
    BY <2>1, NameCallsType, PlainCalls DEF Exists
  <2>2. QED
    BY <1>1, <2>1, OpenType, CreateType, DeleteType
<1>2. CASE List
  BY <1>2, ListType
<1>3. ASSUME NEW fh \in HandleArgs, Close(fh)
      PROVE  TypeOK'
  BY <1>3, CloseType
<1>4. ASSUME NEW fh \in HandleArgs, NEW len \in Nat,
             Read(fh, len) \/ WriteRefused(fh, len)
      PROVE  TypeOK'
  <2>1. CASE Read(fh, len)
    BY <2>1, ReadType
  <2>2. CASE WriteRefused(fh, len)
    BY <2>2, PlainCalls DEF WriteRefused
  <2>3. QED
    BY <1>4, <2>1, <2>2
<1>5. ASSUME NEW fh \in HandleArgs, NEW len \in Nat, NEW byte \in Payloads,
             WriteBegin(fh, len, byte)
      PROVE  TypeOK'
  BY <1>5, WriteBeginType
<1>6. CASE WriteInPlace
  BY <1>6, WriteInPlaceType
<1>7. CASE WriteAllocating
  BY <1>7, WriteAllocatingType
<1>8. CASE WriteSectorFails
  BY <1>8, WriteSectorFailsType
<1>9. CASE WriteEnd
  BY <1>9, WriteEndType
<1>10. CASE WriteEndFails
  BY <1>10, WriteEndFailsType
<1>11. ASSUME NEW track, NEW sector, ReadSector(track, sector)
       PROVE  TypeOK'
  BY <1>11, PlainCalls DEF ReadSector
<1>12. ASSUME NEW track, NEW sector, NEW byte \in Payloads,
              WriteSector(track, sector, byte)
       PROVE  TypeOK'
  BY <1>12, WriteSectorType
<1>13. CASE Flush
  BY <1>13, FlushType
<1>14. CASE FsInitRefused
  BY <1>14, PlainCalls DEF FsInitRefused
<1>15. CASE FsInit
  BY <1>15, FsInitType
<1>16. CASE Crash \/ Exit
  BY <1>16, RestartedType DEF Crash, Exit, TypeOK
<1>17. CASE UNCHANGED vars
  BY <1>17 DEF vars, TypeOK
<1>18. QED
  BY <1>1, <1>2, <1>3, <1>4, <1>5, <1>6, <1>7, <1>8, <1>9, <1>10, <1>11,
     <1>12, <1>13, <1>14, <1>15, <1>16, <1>17 DEF Operation

\* Every reachable state has well-typed variables: in particular allocation
\* bytes stay within their width, and handles within the directory.
THEOREM TypeCorrect == Spec => []TypeOK
<1>1. Result("call", 0) \in RetType
  BY InitialValues
<1>2. Init => TypeOK
  BY <1>1, InitialValues, AllClosedType DEF Init, TypeOK
<1>3. QED
  BY <1>2, TypeStep, NextOperates, PTL DEF Spec

-----------------------------------------------------------------------------
(* Allocation.                                                             *)

Directories == [Entries -> EntryType]

\* The first free sector is never past the largest an allocation byte can
\* name plus one: that one, whose byte wraps to zero, is never in use.  So
\* the byte stored for it is its number plus one, or zero, "no sector".
LEMMA FirstFreeSector ==
    ASSUME NEW dir \in Directories, NEW l \in DataSectors,
           IsLeast(l, FreeSectors(dir))
    PROVE  AllocByte(l) = 0 \/ AllocByte(l) = l + 1
<1>1. AllocMod \in Nat /\ FirstData \in Nat /\ FirstData <= AllocMod - 1
  BY GeometryAssumption, FileSystemAssumption
<1>2. l \in Nat /\ l >= FirstData /\ l <= TotalSectors - 1
  BY GeometryAssumption DEF DataSectors
<1>3. l <= AllocMod - 1
  <2> SUFFICES ASSUME l > AllocMod - 1 PROVE FALSE
    BY <1>1, <1>2
  <2>1. AllocMod - 1 \in DataSectors
    BY <1>1, <1>2, GeometryAssumption DEF DataSectors
  <2>2. \A e \in Entries, s \in Slots : dir[e].alloc[s] \in 0 .. AllocMod - 1
    BY DEF Directories, EntryType, Allocs
  <2>3. ~SectorInUse(dir, AllocMod - 1)
    BY <1>1, <2>2 DEF SectorInUse
  <2>4. QED
    BY <1>1, <1>2, <2>1, <2>3 DEF IsLeast, FreeSectors
<1>4. l + 1 < AllocMod \/ l + 1 = AllocMod
  BY <1>1, <1>2, <1>3
<1>5. QED
  BY <1>1, <1>2, <1>4 DEF AllocByte

\* Giving the first free sector to a slot that has none keeps every sector
\* with one owner.
LEMMA AllocationIsSafe ==
    ASSUME NEW dir \in Directories, SectorsOwnedOnce(dir),
           NEW l \in DataSectors, IsLeast(l, FreeSectors(dir)),
           NEW e \in Entries, NEW s \in Slots, dir[e].alloc[s] = 0
    PROVE  SectorsOwnedOnce([dir EXCEPT ![e] =
                [dir[e] EXCEPT !.alloc[s] = AllocByte(l)]])
<1> DEFINE new == [dir EXCEPT ![e] = [dir[e] EXCEPT !.alloc[s] = AllocByte(l)]]
<1>1. \A x \in Entries : dir[x] \in EntryType
  BY DEF Directories
<1>2. \A x \in Entries, t \in Slots :
        /\ new[x].active = dir[x].active
        /\ new[x].alloc[t] = IF x = e /\ t = s THEN AllocByte(l) ELSE dir[x].alloc[t]
  BY <1>1 DEF Directories, EntryType
<1>3. ~SectorInUse(dir, l)
  BY DEF IsLeast, FreeSectors
<1>4. AllocByte(l) = 0 \/ AllocByte(l) = l + 1
  BY FirstFreeSector
<1>5. \A x \in Entries, t \in Slots : dir[x].alloc[t] \in Nat
  BY <1>1, FileSystemAssumption DEF EntryType, Allocs
<1>6. l \in Nat
  BY GeometryAssumption DEF DataSectors
<1>7. \A x \in Entries, t \in Slots :
        dir[x].active => dir[x].alloc[t] = 0 \/ dir[x].alloc[t] # l + 1
  BY <1>3, <1>5, <1>6 DEF SectorInUse
<1> HIDE DEF new
<1>8. SectorsOwnedOnce(new)
  <2> SUFFICES ASSUME NEW e1 \in Entries, NEW e2 \in Entries,
                      NEW s1 \in Slots, NEW s2 \in Slots,
                      new[e1].active, new[e1].alloc[s1] # 0
               PROVE  /\ new[e1].alloc[s1] - 1 \in DataSectors
                      /\ new[e2].active /\ new[e2].alloc[s2] = new[e1].alloc[s1]
                            => e1 = e2 /\ s1 = s2
    BY DEF SectorsOwnedOnce
  <2>1. CASE e1 = e /\ s1 = s
    <3>1. new[e1].alloc[s1] = l + 1
      BY <1>2, <1>4, <2>1
    <3>2. QED
      BY <1>2, <1>6, <1>7, <2>1, <3>1
  <2>2. CASE ~(e1 = e /\ s1 = s)
    <3>1. new[e1].alloc[s1] = dir[e1].alloc[s1] /\ dir[e1].active
      BY <1>2, <2>2
    <3>2. dir[e1].alloc[s1] - 1 \in DataSectors
      BY <3>1 DEF SectorsOwnedOnce
    <3>3. CASE e2 = e /\ s2 = s
      BY <1>2, <1>4, <1>7, <3>1, <3>2, <3>3
    <3>4. CASE ~(e2 = e /\ s2 = s)
      BY <1>2, <3>1, <3>2, <3>4 DEF SectorsOwnedOnce
    <3>5. QED
      BY <3>2, <3>3, <3>4, <3>1
  <2>3. QED
    BY <2>1, <2>2
<1>9. QED
  BY <1>8 DEF new

\* An entry that holds no sector takes none from the others.
LEMMA EmptyEntryIsSafe ==
    ASSUME NEW dir \in Directories, SectorsOwnedOnce(dir), NEW e \in Entries,
           NEW rec, rec.alloc = NoAlloc
    PROVE  SectorsOwnedOnce([dir EXCEPT ![e] = rec])
<1> DEFINE new == [dir EXCEPT ![e] = rec]
<1>1. \A s \in Slots : new[e].alloc[s] = 0
  BY DEF NoAlloc, Directories
<1>2. \A x \in Entries \ {e} : new[x] = dir[x]
  BY DEF Directories
<1> HIDE DEF new
<1>3. SectorsOwnedOnce(new)
  BY <1>1, <1>2 DEF SectorsOwnedOnce
<1>4. QED
  BY <1>3 DEF new

\* Who owns which sector depends on nothing but the flags and the bytes.
LEMMA OwnershipIsInAlloc ==
    ASSUME NEW dir, NEW new, SectorsOwnedOnce(dir),
           \A e \in Entries : /\ new[e].active = dir[e].active
                              /\ new[e].alloc = dir[e].alloc
    PROVE  SectorsOwnedOnce(new)
BY DEF SectorsOwnedOnce

-----------------------------------------------------------------------------
(* The safety invariant.                                                   *)

\* A running write changes neither the name nor the flag of its entry.  The
\* invariant needs it to say that persisting the entry makes no second
\* owner of the name.
JobKeepsName ==
    job.busy => /\ job.rec.name = disk.dir[JobEntry].name
                /\ job.rec.active = disk.dir[JobEntry].active

\* The inductive invariant: the safety properties, and what they need.
SafeInv == TypeOK /\ AllocSafe /\ NamesUnique /\ JobKeepsName

\* The part of it that speaks of images, for one directory.
GoodDir(dir) == SectorsOwnedOnce(dir) /\ OneEntryPerName(dir)

\* A step after which no write is running keeps the invariant if the two
\* directories it leaves are good.
LEMMA NotWriting ==
    ASSUME SafeInv, TypeOK', ~job'.busy,
           GoodDir(disk'.dir), GoodDir(durable'.dir)
    PROVE  SafeInv'
BY DEF SafeInv, AllocSafe, NamesUnique, JobKeepsName, GoodDir

\* The invariant makes both images' directories good.
LEMMA GoodNow ==
    ASSUME SafeInv
    PROVE  /\ GoodDir(disk.dir) /\ GoodDir(durable.dir)
           /\ disk.dir \in Directories /\ durable.dir \in Directories
BY DEF SafeInv, AllocSafe, NamesUnique, GoodDir, TypeOK, ImageType, Directories

\* Steps that choose between the two images there were.
LEMMA OldImages ==
    ASSUME SafeInv, TypeOK', ~job'.busy,
           disk' \in {disk, durable}, durable' \in {disk, durable}
    PROVE  SafeInv'
BY NotWriting, GoodNow

\* Creating the entry of a name that was not there.
LEMMA CreatedIsGood ==
    ASSUME NEW dir \in Directories, GoodDir(dir), NEW n, ~NameFound(dir, n),
           NEW e \in Entries
    PROVE  GoodDir([dir EXCEPT ![e] = NewEntry(n)])
<1>1. SectorsOwnedOnce([dir EXCEPT ![e] = NewEntry(n)])
  BY EmptyEntryIsSafe DEF NewEntry, GoodDir
<1>2. OneEntryPerName([dir EXCEPT ![e] = NewEntry(n)])
  BY DEF OneEntryPerName, GoodDir, NameFound, NewEntry, Directories
<1>3. QED
  BY <1>1, <1>2 DEF GoodDir

\* Freeing an entry keeps a directory good.
LEMMA DeletedIsGood ==
    ASSUME NEW dir \in Directories, GoodDir(dir), NEW e \in Entries
    PROVE  GoodDir([dir EXCEPT ![e] = FreeEntry])
<1>1. SectorsOwnedOnce([dir EXCEPT ![e] = FreeEntry])
  BY EmptyEntryIsSafe DEF FreeEntry, GoodDir
<1>2. OneEntryPerName([dir EXCEPT ![e] = FreeEntry])
  BY DEF OneEntryPerName, GoodDir, FreeEntry, Directories
<1>3. QED
  BY <1>1, <1>2 DEF GoodDir

\* Calls that refuse, fail or answer leave the images that were there.
LEMMA PlainCallsSafe ==
    ASSUME SafeInv, TypeOK', Idle, NEW rc \in Int,
           Refused(rc) \/ Fails(rc) \/ Answers(rc)
    PROVE  SafeInv'
<1>1. ~job'.busy
  BY DEF Idle, Refused, Fails, Answers
<1>2. disk' \in {disk, durable} /\ durable' \in {disk, durable}
  BY DEF Refused, Fails, HostFails, Answers, SeekAndRead, Seek
<1>3. QED
  BY <1>1, <1>2, OldImages

\* A call whose name is refused or whose directory cannot be read.
LEMMA NameCallsSafe ==
    ASSUME SafeInv, TypeOK', Idle, NEW sp, NEW rc \in Int, NameCallFails(sp, rc)
    PROVE  SafeInv'
BY PlainCallsSafe DEF NameCallFails

\* fs_open keeps the inductive invariant.
LEMMA OpenSafe ==
    ASSUME SafeInv, TypeOK', NEW sp, Open(sp)
    PROVE  SafeInv'
<1>1. CASE NameCallFails(sp, -1) \/ Answers(-1)
  BY <1>1, NameCallsSafe, PlainCallsSafe DEF Open
<1>2. CASE SeekAndRead /\ UNCHANGED job
  BY <1>2, OldImages DEF Open, Idle, SeekAndRead, Seek
<1>3. QED
  BY <1>1, <1>2 DEF Open

\* fs_create keeps the inductive invariant.
LEMMA CreateSafe ==
    ASSUME SafeInv, TypeOK', NEW sp, Create(sp)
    PROVE  SafeInv'
<1>1. CASE NameCallFails(sp, -1) \/ Answers(-1)
  BY <1>1, NameCallsSafe, PlainCallsSafe DEF Create
<1>2. ASSUME Named(sp), ~NameFound(Refreshed, CpmName[sp]), NEW e \in Entries,
             SeekAndWrite([disk EXCEPT !.dir[e] = NewEntry(CpmName[sp])]),
             UNCHANGED job
      PROVE  SafeInv'
  <2>1. CpmName[sp] \in Names \/ sp \notin Spellings
    BY <1>2, FileSystemAssumption DEF Named
  <2>2. disk'.dir = [disk.dir EXCEPT ![e] = NewEntry(CpmName[sp])]
    BY <1>2 DEF SafeInv, TypeOK, ImageType, SeekAndWrite
  <2>3. GoodDir(disk'.dir)
    BY <1>2, <2>2, GoodNow, CreatedIsGood DEF Refreshed
  <2>4. durable' = disk /\ ~job'.busy
    BY <1>2 DEF SeekAndWrite, Seek, Create, Idle
  <2>5. QED
    BY <2>3, <2>4, NotWriting, GoodNow
<1>3. QED
  BY <1>1, <1>2 DEF Create

\* fs_delete keeps the inductive invariant.
LEMMA DeleteSafe ==
    ASSUME SafeInv, TypeOK', NEW sp, Delete(sp)
    PROVE  SafeInv'
<1>1. CASE NameCallFails(sp, -1) \/ Answers(-1)
  BY <1>1, NameCallsSafe, PlainCallsSafe DEF Delete
<1>2. ASSUME NEW e \in Entries,
             SeekAndWrite([disk EXCEPT !.dir[e] = FreeEntry]), UNCHANGED job
      PROVE  SafeInv'
  <2>1. disk'.dir = [disk.dir EXCEPT ![e] = FreeEntry]
    BY <1>2 DEF SafeInv, TypeOK, ImageType, SeekAndWrite
  <2>2. GoodDir(disk'.dir)
    BY <2>1, GoodNow, DeletedIsGood
  <2>3. durable' = disk /\ ~job'.busy
    BY <1>2 DEF SeekAndWrite, Seek, Delete, Idle
  <2>4. QED
    BY <2>2, <2>3, NotWriting, GoodNow
<1>3. QED
  BY <1>1, <1>2 DEF Delete

\* fs_read keeps the inductive invariant.
LEMMA ReadSafe ==
    ASSUME SafeInv, TypeOK', NEW fh, NEW len, Read(fh, len)
    PROVE  SafeInv'
<1>1. CASE Refused(-1) \/ Refused(0) \/ Fails(-1)
  BY <1>1, PlainCallsSafe DEF Read
<1>2. CASE SeekAndRead /\ UNCHANGED job
  BY <1>2, OldImages DEF Read, Idle, SeekAndRead, Seek
<1>3. QED
  BY <1>1, <1>2 DEF Read

\* A write that begins works on the directory it has just read.
LEMMA WriteBeginSafe ==
    ASSUME SafeInv, TypeOK', NEW fh, NEW len, NEW byte, WriteBegin(fh, len, byte)
    PROVE  SafeInv'
<1>1. disk' = disk /\ durable' = disk /\ handle' = handle
  BY DEF WriteBegin, SeekAndRead, Seek
<1>2. job'.rec = disk.dir[JobEntry']
  BY <1>1 DEF WriteBegin, JobEntry, Refreshed
<1>3. JobEntry' \in Entries
  BY DEF TypeOK, JobEntry, JobType, HandleType
<1>4. JobDir' = disk.dir
  BY <1>1, <1>2, <1>3, GoodNow DEF JobDir, Directories
<1>5. QED
  BY <1>1, <1>2, <1>4, GoodNow
     DEF SafeInv, AllocSafe, NamesUnique, JobKeepsName, GoodDir

\* A sector fs_write rewrites keeps the inductive invariant.
LEMMA WriteInPlaceSafe ==
    ASSUME SafeInv, TypeOK', WriteInPlace
    PROVE  SafeInv'
<1>1. disk'.dir = disk.dir /\ durable' = disk
  BY DEF WriteInPlace, SeekAndWrite, Seek, SafeInv, TypeOK, ImageType
<1>2. job \in JobType
  BY DEF SafeInv, TypeOK
<1>3. job'.rec = job.rec /\ job'.fh = job.fh /\ job.busy
  BY <1>2 DEF WriteInPlace, Advanced, JobType, WriteMore
<1>4. JobEntry' = JobEntry /\ JobDir' = JobDir
  BY <1>1, <1>3 DEF JobEntry, JobDir, WriteInPlace
<1>5. QED
  BY <1>1, <1>3, <1>4, GoodNow
     DEF SafeInv, AllocSafe, NamesUnique, JobKeepsName, GoodDir

\* A sector fs_write allocates keeps the inductive invariant.
LEMMA WriteAllocatingSafe ==
    ASSUME SafeInv, TypeOK', WriteAllocating
    PROVE  SafeInv'
<1> DEFINE s == SlotOf(job.pos)
<1>1. PICK l \in DataSectors :
        /\ IsLeast(l, FreeSectors(JobDir))
        /\ SeekAndWrite([disk EXCEPT !.sec[l] = Patched(ZeroBlock)])
        /\ job' = Advanced([job.rec EXCEPT !.alloc[s] = AllocByte(l)])
  BY DEF WriteAllocating
<1>2. disk'.dir = disk.dir /\ durable' = disk /\ handle' = handle
  BY <1>1 DEF WriteAllocating, SeekAndWrite, Seek, SafeInv, TypeOK, ImageType
<1>3. job \in JobType /\ job.rec \in EntryType
  BY DEF SafeInv, TypeOK, JobType
<1>4. /\ job'.rec = [job.rec EXCEPT !.alloc[s] = AllocByte(l)]
      /\ job'.fh = job.fh
      /\ job.busy /\ s \in Slots /\ job.rec.alloc[s] = 0
  BY <1>1, <1>3 DEF Advanced, JobType, WriteAllocating, WriteMore
<1>5. JobEntry' = JobEntry
  BY <1>2, <1>4 DEF JobEntry
<1>6. JobEntry \in Entries /\ JobDir \in Directories /\ JobDir[JobEntry] = job.rec
  BY JobDirType DEF SafeInv, Directories
<1> HIDE DEF s
<1>7. JobDir' = [JobDir EXCEPT ![JobEntry] =
                    [JobDir[JobEntry] EXCEPT !.alloc[s] = AllocByte(l)]]
  <2>1. JobDir' = [disk.dir EXCEPT ![JobEntry] = job'.rec]
    BY <1>2, <1>5 DEF JobDir
  <2>2. QED
    BY <1>4, <1>6, <2>1, GoodNow DEF JobDir, Directories
<1>8. SectorsOwnedOnce(JobDir')
  <2>1. SectorsOwnedOnce(JobDir)
    BY <1>4 DEF SafeInv, AllocSafe
  <2>2. QED
    BY <1>1, <1>4, <1>6, <1>7, <2>1, AllocationIsSafe
<1>9. job'.rec.name = job.rec.name /\ job'.rec.active = job.rec.active
  BY <1>3, <1>4 DEF EntryType
<1>10. QED
  BY <1>2, <1>4, <1>5, <1>8, <1>9, GoodNow
     DEF SafeInv, AllocSafe, NamesUnique, JobKeepsName, GoodDir

\* An fs_write that a sector's access ends early keeps the inductive invariant.
LEMMA WriteFailsSafe ==
    ASSUME SafeInv, TypeOK', WriteSectorFails \/ WriteEndFails
    PROVE  SafeInv'
<1>1. ~job'.busy
  BY DEF WriteSectorFails, WriteEndFails, NoJob
<1>2. disk' \in {disk, durable} /\ durable' \in {disk, durable}
  BY DEF WriteSectorFails, WriteEndFails, HostFails
<1>3. QED
  BY <1>1, <1>2, OldImages

\* What a write persists differs from its copy in the count only.
LEMMA WriteEndSafe ==
    ASSUME SafeInv, TypeOK', WriteEnd
    PROVE  SafeInv'
<1>1. /\ JobEntry \in Entries /\ JobDir \in Directories /\ job.rec \in EntryType
      /\ JobDir[JobEntry] = job.rec
  BY JobDirType DEF SafeInv, Directories
<1>2. /\ WrittenEntry.name = job.rec.name
      /\ WrittenEntry.active = job.rec.active
      /\ WrittenEntry.alloc = job.rec.alloc
  BY <1>1 DEF WrittenEntry, EntryType
<1>3. disk'.dir = [disk.dir EXCEPT ![JobEntry] = WrittenEntry] /\ durable' = disk
  BY DEF WriteEnd, SeekAndWrite, Seek, SafeInv, TypeOK, ImageType
<1>4. job.busy /\ ~job'.busy
  BY DEF WriteEnd, WriteDone, NoJob
<1>5. SectorsOwnedOnce(disk'.dir)
  <2>1. \A e \in Entries : /\ disk'.dir[e].active = JobDir[e].active
                           /\ disk'.dir[e].alloc = JobDir[e].alloc
    BY <1>1, <1>2, <1>3, GoodNow DEF JobDir, Directories
  <2>2. QED
    BY <1>4, <2>1, OwnershipIsInAlloc DEF SafeInv, AllocSafe
<1>6. OneEntryPerName(disk'.dir)
  <2>1. \A e \in Entries : /\ disk'.dir[e].active = disk.dir[e].active
                           /\ disk'.dir[e].name = disk.dir[e].name
    BY <1>1, <1>2, <1>3, <1>4, GoodNow DEF SafeInv, JobKeepsName, Directories
  <2>2. QED
    BY <2>1, GoodNow DEF GoodDir, OneEntryPerName
<1>7. QED
  BY <1>3, <1>4, <1>5, <1>6, NotWriting, GoodNow DEF GoodDir

\* fs_flush, fs_init, a crash and the end of the process leave old images.
LEMMA RestSafe ==
    ASSUME SafeInv, TypeOK', Flush \/ FsInit \/ Crash \/ Exit
    PROVE  SafeInv'
<1>1. ~job'.busy
  BY DEF Flush, Refused, Fails, FsInit, Crash, Exit, Restarted, Idle, NoJob
<1>2. disk' \in {disk, durable} /\ durable' \in {disk, durable}
  BY DEF Flush, Refused, Fails, HostFails, Seek, FsInit, Crash, Exit, Restarted
<1>3. QED
  BY <1>1, <1>2, OldImages

\* fs_write_sector keeps the inductive invariant.
LEMMA WriteSectorSafe ==
    ASSUME SafeInv, TypeOK', NEW track, NEW sector, NEW byte,
           WriteSector(track, sector, byte)
    PROVE  SafeInv'
<1>1. CASE Refused(-1) \/ Fails(-1)
  <2>1. Idle
    BY DEF WriteSector
  <2>2. QED
    BY <1>1, <2>1, PlainCallsSafe
<1> DEFINE l == TrackSectorToLinear(track, sector)
           block == [i \in 0 .. SectorBytes - 1 |-> byte]
<1>2. ASSUME SeekAndWrite([disk EXCEPT !.sec[l] = block]), UNCHANGED job
      PROVE  SafeInv'
  <2> HIDE DEF l, block
  <2>1. disk'.dir = disk.dir /\ durable' = disk
    BY <1>2 DEF SeekAndWrite, Seek, SafeInv, TypeOK, ImageType
  <2>2. ~job'.busy
    BY <1>2 DEF WriteSector, Idle
  <2>3. QED
    BY <2>1, <2>2, NotWriting, GoodNow
<1>3. QED
  BY <1>1, <1>2 DEF WriteSector

\* Every step keeps the invariant.
LEMMA SafeStep == SafeInv /\ [Operation]_vars => SafeInv'
<1> SUFFICES ASSUME SafeInv, [Operation]_vars PROVE SafeInv'
  OBVIOUS
<1>0. TypeOK'
  BY TypeStep DEF SafeInv
<1>1. ASSUME NEW sp, Open(sp) \/ Create(sp) \/ Delete(sp) \/ Exists(sp)
      PROVE  SafeInv'
  <2>1. CASE Exists(sp)
    BY <1>0, <2>1, NameCallsSafe, PlainCallsSafe DEF Exists
  <2>2. QED
    BY <1>0, <1>1, <2>1, OpenSafe, CreateSafe, DeleteSafe
<1>2. CASE List
  <2>1. ~job'.busy
    BY <1>2 DEF List, Idle, Refused, Fails, Answers
  <2>2. disk' \in {disk, durable} /\ durable' \in {disk, durable}
    BY <1>2 DEF List, Refused, Fails, HostFails, Answers, SeekAndRead, Seek
  <2>3. QED
    BY <1>0, <2>1, <2>2, OldImages
<1>3. ASSUME NEW fh, Close(fh)
      PROVE  SafeInv'
  BY <1>0, <1>3, OldImages DEF Close, Idle
<1>4. ASSUME NEW fh, NEW len, Read(fh, len) \/ WriteRefused(fh, len)
      PROVE  SafeInv'
  <2>1. CASE WriteRefused(fh, len)
    BY <1>0, <2>1, PlainCallsSafe DEF WriteRefused
  <2>2. QED
    BY <1>0, <1>4, <2>1, ReadSafe
<1>5. ASSUME NEW fh, NEW len, NEW byte, WriteBegin(fh, len, byte)
      PROVE  SafeInv'
  BY <1>0, <1>5, WriteBeginSafe
<1>6. CASE WriteInPlace
  BY <1>0, <1>6, WriteInPlaceSafe
<1>7. CASE WriteAllocating
  BY <1>0, <1>7, WriteAllocatingSafe
<1>8. CASE WriteSectorFails \/ WriteEndFails
  BY <1>0, <1>8, WriteFailsSafe
<1>9. CASE WriteEnd
  BY <1>0, <1>9, WriteEndSafe
<1>10. ASSUME NEW track, NEW sector, ReadSector(track, sector)
       PROVE  SafeInv'
  BY <1>0, <1>10, PlainCallsSafe DEF ReadSector
<1>11. ASSUME NEW track, NEW sector, NEW byte, WriteSector(track, sector, byte)
       PROVE  SafeInv'
  BY <1>0, <1>11, WriteSectorSafe
<1>12. CASE Flush \/ FsInit \/ Crash \/ Exit
  BY <1>0, <1>12, RestSafe
<1>13. CASE FsInitRefused
  BY <1>0, <1>13, PlainCallsSafe DEF FsInitRefused
<1>14. CASE UNCHANGED vars
  <2>1. /\ disk' = disk /\ durable' = durable /\ job' = job
        /\ JobEntry' = JobEntry /\ JobDir' = JobDir
    BY <1>14 DEF vars, JobEntry, JobDir
  <2>2. QED
    BY <1>0, <2>1 DEF SafeInv, AllocSafe, NamesUnique, JobKeepsName
<1>15. QED
  BY <1>1, <1>2, <1>3, <1>4, <1>5, <1>6, <1>7, <1>8, <1>9, <1>10, <1>11,
     <1>12, <1>13, <1>14 DEF Operation

\* A formatted disk satisfies the invariant.
LEMMA SafeInit == Init => SafeInv
<1> SUFFICES ASSUME Init PROVE SafeInv
  OBVIOUS
<1>1. Result("call", 0) \in RetType
  BY InitialValues
<1>2. TypeOK
  BY <1>1, InitialValues, AllClosedType DEF Init, TypeOK
<1>3. \A e \in Entries : disk.dir[e] = FreeEntry /\ durable.dir[e] = FreeEntry
  BY DEF Init, FormattedImage
<1>4. ~job.busy
  BY DEF Init, NoJob
<1>5. QED
  BY <1>2, <1>3, <1>4
     DEF SafeInv, AllocSafe, NamesUnique, JobKeepsName, SectorsOwnedOnce,
         OneEntryPerName, FreeEntry

\* The inductive invariant holds in every reachable state.
LEMMA Safe == Spec => []SafeInv
BY SafeInit, SafeStep, NextOperates, PTL DEF Spec

\* On a disk of any size, whatever the width of the allocation byte, with
\* host errors and kills at any point, no sector ever belongs to two files
\* or to two places of a file, nor does a directory sector belong to one.
THEOREM AllocationSafe == Spec => []AllocSafe
<1>1. SafeInv => AllocSafe
  BY DEF SafeInv
<1>2. QED
  BY <1>1, Safe, PTL

\* No two active entries ever have one name, in the process or after a kill.
THEOREM NamesStayUnique == Spec => []NamesUnique
<1>1. SafeInv => NamesUnique
  BY DEF SafeInv
<1>2. QED
  BY <1>1, Safe, PTL

-----------------------------------------------------------------------------
(* Flushing and handles.                                                   *)

LEMMA FlushStep == FlushNotSkipped /\ [Operation]_vars => FlushNotSkipped'
<1> SUFFICES ASSUME FlushNotSkipped, [Operation]_vars PROVE FlushNotSkipped'
  OBVIOUS
<1>1. ASSUME NEW rc, Refused(rc) \/ Fails(rc) \/ Answers(rc)
      PROVE  FlushNotSkipped'
  BY <1>1 DEF FlushNotSkipped, Refused, Fails, HostFails, Answers, SeekAndRead, Seek
<1>2. ASSUME NEW image, SeekAndWrite(image)
      PROVE  FlushNotSkipped'
  BY <1>2 DEF FlushNotSkipped, SeekAndWrite
<1>3. CASE SeekAndRead
  BY <1>3 DEF FlushNotSkipped, SeekAndRead, Seek
<1>4. CASE HostFails
  BY <1>4 DEF FlushNotSkipped, HostFails
<1>5. CASE durable' = disk'
  BY <1>5 DEF FlushNotSkipped
<1>6. ASSUME NEW sp, Open(sp) \/ Create(sp) \/ Delete(sp) \/ Exists(sp)
      PROVE  FlushNotSkipped'
  BY <1>1, <1>2, <1>3, <1>6 DEF Open, Create, Delete, Exists, NameCallFails
<1>7. ASSUME NEW fh, NEW len, NEW byte,
             Read(fh, len) \/ WriteRefused(fh, len) \/ WriteBegin(fh, len, byte)
      PROVE  FlushNotSkipped'
  BY <1>1, <1>3, <1>7 DEF Read, WriteRefused, WriteBegin
<1>8. CASE WriteInPlace \/ WriteAllocating \/ WriteEnd
  BY <1>2, <1>8 DEF WriteInPlace, WriteAllocating, WriteEnd
<1>9. CASE WriteSectorFails \/ WriteEndFails
  BY <1>4, <1>9 DEF WriteSectorFails, WriteEndFails
<1>10. ASSUME NEW track, NEW sector, NEW byte,
              ReadSector(track, sector) \/ WriteSector(track, sector, byte)
       PROVE  FlushNotSkipped'
  BY <1>1, <1>2, <1>10 DEF ReadSector, WriteSector
<1>11. CASE Flush
  BY <1>1, <1>5, <1>11 DEF Flush, Seek
<1>12. CASE FsInit \/ Crash \/ Exit
  BY <1>5, <1>12 DEF FsInit, Crash, Exit, Restarted
<1>13. CASE List \/ FsInitRefused
  BY <1>1, <1>13 DEF List, FsInitRefused
<1>14. ASSUME NEW fh, Close(fh)
       PROVE  FlushNotSkipped'
  BY <1>14 DEF FlushNotSkipped, Close
<1>15. CASE UNCHANGED vars
  BY <1>15 DEF FlushNotSkipped, vars
<1>16. QED
  BY <1>6, <1>7, <1>8, <1>9, <1>10, <1>11, <1>12, <1>13, <1>14, <1>15 DEF Operation

\* Whenever the host file lags behind what the process wrote, g_dirty is
\* set, so that fs_flush does flush.
THEOREM FlushIsNeverSkipped == Spec => []FlushNotSkipped
<1>1. Init => FlushNotSkipped
  BY DEF Init, FlushNotSkipped
<1>2. FlushNotSkipped /\ [Operation]_vars => FlushNotSkipped'
  BY FlushStep
<1>3. QED
  BY <1>1, <1>2, NextOperates, PTL DEF Spec

\* Calls that change neither the entries nor the table.
LEMMA SameLive ==
    ASSUME HandlesLive, handle' = handle, disk'.dir = disk.dir
    PROVE  HandlesLive'
BY DEF HandlesLive

\* Calls that refuse or answer, when the host does not fail.
LEMMA PlainLive ==
    ASSUME IOErrors = FALSE, HandlesLive, NEW rc,
           Refused(rc) \/ Fails(rc) \/ Answers(rc)
    PROVE  HandlesLive'
BY SameLive DEF Refused, Fails, HostFails, Answers, SeekAndRead

\* A handle on an active entry.
LEMMA OpenedLive ==
    ASSUME TypeOK, NEW h \in Handles, NEW e \in Entries,
           handle' = [handle EXCEPT ![h] = OpenedHandle(e)],
           disk'.dir[e].active,
           \A g \in Handles : handle[g].used => disk'.dir[handle[g].entry].active
    PROVE  HandlesLive'
<1>1. handle'[h].entry = e
  BY DEF TypeOK, OpenedHandle
<1>2. \A g \in Handles \ {h} : handle'[g] = handle[g]
  BY DEF TypeOK
<1>3. QED
  BY <1>1, <1>2 DEF HandlesLive

\* fs_open keeps open handles on active entries.
LEMMA OpenLive ==
    ASSUME IOErrors = FALSE, TypeOK, HandlesLive, NEW sp, Open(sp)
    PROVE  HandlesLive'
<1>1. CASE NameCallFails(sp, -1) \/ Answers(-1)
  BY <1>1, PlainLive DEF NameCallFails
<1>2. ASSUME NEW e \in Entries, NEW h \in Handles,
             Found(Refreshed, CpmName[sp], e),
             handle' = [handle EXCEPT ![h] = OpenedHandle(e)], SeekAndRead
      PROVE  HandlesLive'
  <2>1. disk' = disk /\ disk.dir[e].active
    BY <1>2 DEF Found, IsLeast, Refreshed, SeekAndRead
  <2>2. QED
    BY <1>2, <2>1, OpenedLive DEF HandlesLive
<1>3. QED
  BY <1>1, <1>2 DEF Open

\* fs_create keeps open handles on active entries.
LEMMA CreateLive ==
    ASSUME IOErrors = FALSE, TypeOK, HandlesLive, NEW sp, Create(sp)
    PROVE  HandlesLive'
<1>1. CASE NameCallFails(sp, -1) \/ Answers(-1)
  BY <1>1, PlainLive DEF NameCallFails
<1>2. ASSUME NEW e \in Entries,
             SeekAndWrite([disk EXCEPT !.dir[e] = NewEntry(CpmName[sp])]),
             \/ UNCHANGED handle
             \/ \E h \in Handles : handle' = [handle EXCEPT ![h] = OpenedHandle(e)]
      PROVE  HandlesLive'
  <2>1. /\ disk'.dir[e].active
        /\ \A x \in Entries : disk.dir[x].active => disk'.dir[x].active
    BY <1>2 DEF SeekAndWrite, TypeOK, ImageType, NewEntry
  <2>2. \A g \in Handles : handle[g].entry \in Entries
    BY DEF TypeOK, HandleType
  <2>3. \A g \in Handles : handle[g].used => disk'.dir[handle[g].entry].active
    BY <2>1, <2>2 DEF HandlesLive
  <2>4. QED
    BY <1>2, <2>1, <2>3, OpenedLive DEF HandlesLive
<1>3. QED
  BY <1>1, <1>2 DEF Create

\* fs_delete keeps open handles on active entries.
LEMMA DeleteLive ==
    ASSUME IOErrors = FALSE, TypeOK, HandlesLive, NEW sp, Delete(sp)
    PROVE  HandlesLive'
<1>1. CASE NameCallFails(sp, -1) \/ Answers(-1)
  BY <1>1, PlainLive DEF NameCallFails
<1>2. ASSUME NEW e \in Entries,
             SeekAndWrite([disk EXCEPT !.dir[e] = FreeEntry]),
             handle' = HandlesWithout(e)
      PROVE  HandlesLive'
  <2>1. \A x \in Entries \ {e} : disk'.dir[x] = disk.dir[x]
    BY <1>2 DEF SeekAndWrite, TypeOK, ImageType
  <2>2. \A h \in Handles : handle[h].entry \in Entries
    BY DEF TypeOK, HandleType
  <2>3. \A h \in Handles : handle'[h].used =>
            handle'[h] = handle[h] /\ handle[h].entry # e
    BY <1>2 DEF HandlesWithout, ClosedHandle
  <2>4. QED
    BY <2>1, <2>2, <2>3 DEF HandlesLive
<1>3. QED
  BY <1>1, <1>2 DEF Delete

\* Only the position of a handle moves.
LEMMA MovedLive ==
    ASSUME TypeOK, HandlesLive, NEW fh \in Handles, NEW p,
           handle' = [handle EXCEPT ![fh].pos = p], disk'.dir = disk.dir
    PROVE  HandlesLive'
<1>1. \A h \in Handles : handle'[h].used = handle[h].used
                      /\ handle'[h].entry = handle[h].entry
  BY DEF TypeOK, HandleType
<1>2. QED
  BY <1>1 DEF HandlesLive

\* fs_read keeps open handles on active entries.
LEMMA ReadLive ==
    ASSUME IOErrors = FALSE, TypeOK, HandlesLive, NEW fh, NEW len, Read(fh, len)
    PROVE  HandlesLive'
<1>1. CASE Refused(-1) \/ Refused(0) \/ Fails(-1)
  BY <1>1, PlainLive
<1>2. ASSUME ~BadHandle(fh), NEW n, handle' = [handle EXCEPT ![fh].pos = @ + n],
             SeekAndRead
      PROVE  HandlesLive'
  BY <1>2, MovedLive DEF BadHandle, SeekAndRead
<1>3. QED
  BY <1>1, <1>2 DEF Read

\* The end of fs_write keeps open handles on active entries.
LEMMA WriteEndLive ==
    ASSUME SafeInv, HandlesLive, WriteEnd
    PROVE  HandlesLive'
<1>1. TypeOK /\ JobEntry \in Entries /\ job.rec \in EntryType /\ job.fh \in Handles
  BY JobDirType DEF SafeInv, TypeOK, JobType
<1>2. WrittenEntry.active = disk.dir[JobEntry].active
  BY <1>1 DEF WriteEnd, WriteDone, SafeInv, JobKeepsName, WrittenEntry, EntryType
<1>3. disk'.dir = [disk.dir EXCEPT ![JobEntry] = WrittenEntry]
  BY DEF WriteEnd, SeekAndWrite, SafeInv, TypeOK, ImageType
<1>4. \A e \in Entries : disk'.dir[e].active = disk.dir[e].active
  BY <1>1, <1>2, <1>3, GoodNow DEF Directories
<1>5. \A h \in Handles : /\ handle'[h].used = handle[h].used
                         /\ handle'[h].entry = handle[h].entry
                         /\ handle[h].entry \in Entries
  BY <1>1 DEF WriteEnd, TypeOK, HandleType
<1>6. QED
  BY <1>4, <1>5 DEF HandlesLive

LEMMA LiveStep ==
    ASSUME IOErrors = FALSE
    PROVE  SafeInv /\ HandlesLive /\ [Operation]_vars => HandlesLive'
<1> SUFFICES ASSUME SafeInv, HandlesLive, [Operation]_vars PROVE HandlesLive'
  OBVIOUS
<1>0. TypeOK
  BY DEF SafeInv
<1>1. ASSUME NEW sp, Open(sp) \/ Create(sp) \/ Delete(sp) \/ Exists(sp)
      PROVE  HandlesLive'
  <2>1. CASE Exists(sp)
    BY <2>1, PlainLive DEF Exists, NameCallFails
  <2>2. QED
    BY <1>0, <1>1, <2>1, OpenLive, CreateLive, DeleteLive
<1>2. ASSUME NEW fh, Close(fh)
      PROVE  HandlesLive'
  BY <1>2 DEF Close, HandlesLive, ClosedHandle
<1>3. ASSUME NEW fh, NEW len, NEW byte,
             Read(fh, len) \/ WriteRefused(fh, len) \/ WriteBegin(fh, len, byte)
      PROVE  HandlesLive'
  <2>1. CASE WriteRefused(fh, len)
    BY <2>1, PlainLive DEF WriteRefused
  <2>2. CASE WriteBegin(fh, len, byte)
    BY <2>2, SameLive DEF WriteBegin, SeekAndRead
  <2>3. QED
    BY <1>0, <1>3, <2>1, <2>2, ReadLive
<1>4. CASE WriteInPlace \/ WriteAllocating
  BY <1>0, <1>4, SameLive
     DEF WriteInPlace, WriteAllocating, SeekAndWrite, TypeOK, ImageType
<1>5. CASE WriteEnd
  BY <1>5, WriteEndLive
<1>6. CASE WriteSectorFails \/ WriteEndFails
  BY <1>6 DEF WriteSectorFails, WriteEndFails, HostFails
<1>7. ASSUME NEW track, NEW sector, NEW byte,
             ReadSector(track, sector) \/ WriteSector(track, sector, byte)
      PROVE  HandlesLive'
  <2>1. CASE ReadSector(track, sector)
    BY <2>1, PlainLive DEF ReadSector
  <2>2. CASE Refused(-1) \/ Fails(-1)
    BY <2>2, PlainLive
  <2>3. ASSUME NEW l, NEW block,
               SeekAndWrite([disk EXCEPT !.sec[l] = block]), UNCHANGED handle
        PROVE  HandlesLive'
    BY <1>0, <2>3, SameLive DEF SeekAndWrite, TypeOK, ImageType
  <2>4. QED
    BY <1>7, <2>1, <2>2, <2>3 DEF WriteSector
<1>8. CASE List \/ FsInitRefused
  BY <1>8, PlainLive DEF List, FsInitRefused
<1>9. CASE Flush
  BY <1>9, PlainLive, SameLive DEF Flush
<1>10. CASE FsInit \/ Crash \/ Exit
  BY <1>10 DEF FsInit, Crash, Exit, Restarted, HandlesLive, ClosedHandle
<1>11. CASE UNCHANGED vars
  BY <1>11, SameLive DEF vars
<1>12. QED
  BY <1>1, <1>2, <1>3, <1>4, <1>5, <1>6, <1>7, <1>8, <1>9, <1>10, <1>11 DEF Operation

\* When the host does not fail, an open handle is on an active entry: no
\* sequence of calls, and no kill, leaves a handle on a deleted file, which
\* the next file created would inherit.
THEOREM HandlesStayLive == ASSUME IOErrors = FALSE PROVE Spec => []HandlesLive
<1>1. Init => HandlesLive
  BY DEF Init, HandlesLive, ClosedHandle
<1>2. SafeInv /\ HandlesLive /\ [Operation]_vars => HandlesLive'
  BY LiveStep
<1>3. QED
  BY <1>1, <1>2, Safe, NextOperates, PTL DEF Spec

-----------------------------------------------------------------------------
(* The host file.                                                          *)

\* Images with the same sectors and entries, or all but one.
Apart(one, other) ==
    Cardinality({e \in Entries : one.dir[e] # other.dir[e]}) +
    Cardinality({l \in DataSectors : one.sec[l] # other.sec[l]})

\* A set with no other element than x has one or none.
LEMMA AtMostOne ==
    ASSUME NEW S, NEW x, S \subseteq {x}
    PROVE  Cardinality(S) \in {0, 1}
<1>1. CASE S = {}
  BY <1>1, FS_EmptySet
<1>2. CASE S = {x}
  BY <1>2, FS_Singleton
<1>3. QED
  BY <1>1, <1>2

\* An image and itself, with an entry or a sector replaced.
LEMMA NotApart == ASSUME NEW image PROVE Apart(image, image) = 0
<1>1. /\ {e \in Entries : image.dir[e] # image.dir[e]} = {}
      /\ {l \in DataSectors : image.sec[l] # image.sec[l]} = {}
  OBVIOUS
<1>2. Cardinality({}) = 0
  BY FS_EmptySet
<1>3. QED
  BY <1>1, <1>2 DEF Apart

LEMMA EntryApart ==
    ASSUME NEW image \in ImageType, NEW e, NEW rec
    PROVE  Apart([image EXCEPT !.dir[e] = rec], image) <= 1
<1> DEFINE new == [image EXCEPT !.dir[e] = rec]
           D == {x \in Entries : new.dir[x] # image.dir[x]}
           S == {l \in DataSectors : new.sec[l] # image.sec[l]}
<1>1. D \subseteq {e} /\ S = {}
  BY DEF ImageType
<1>2. Cardinality(S) = 0
  BY <1>1, FS_EmptySet
<1> HIDE DEF D, S
<1>3. Cardinality(D) \in {0, 1}
  BY <1>1, AtMostOne
<1>4. Cardinality(D) + Cardinality(S) <= 1
  BY <1>2, <1>3
<1>5. QED
  BY <1>4 DEF Apart, D, S

LEMMA SectorApart ==
    ASSUME NEW image \in ImageType, NEW l, NEW block
    PROVE  Apart([image EXCEPT !.sec[l] = block], image) <= 1
<1> DEFINE new == [image EXCEPT !.sec[l] = block]
           D == {x \in Entries : new.dir[x] # image.dir[x]}
           S == {x \in DataSectors : new.sec[x] # image.sec[x]}
<1>1. D = {} /\ S \subseteq {l}
  BY DEF ImageType
<1>2. Cardinality(D) = 0
  BY <1>1, FS_EmptySet
<1> HIDE DEF D, S
<1>3. Cardinality(S) \in {0, 1}
  BY <1>1, AtMostOne
<1>4. Cardinality(D) + Cardinality(S) <= 1
  BY <1>2, <1>3
<1>5. QED
  BY <1>4 DEF Apart, D, S

LEMMA LagIsApart == LagsByOneWrite <=> Apart(disk, durable) <= 1
BY Zenon DEF LagsByOneWrite, Apart

LEMMA LagIsApartNext == LagsByOneWrite' <=> Apart(disk', durable') <= 1
BY Zenon DEF LagsByOneWrite, Apart

\* Every step flushes what was written before it writes.
LEMMA LagStep == TypeOK /\ LagsByOneWrite /\ [Operation]_vars => LagsByOneWrite'
<1> SUFFICES ASSUME TypeOK, LagsByOneWrite, [Operation]_vars PROVE LagsByOneWrite'
  OBVIOUS
<1>1. disk \in ImageType
  BY DEF TypeOK
<1>2. ASSUME disk' = durable' PROVE LagsByOneWrite'
  BY <1>2, NotApart, LagIsApartNext
<1>3. ASSUME disk' = disk, durable' = durable PROVE LagsByOneWrite'
  BY <1>3, LagIsApart, LagIsApartNext
<1>4. ASSUME NEW e, NEW rec, SeekAndWrite([disk EXCEPT !.dir[e] = rec])
      PROVE  LagsByOneWrite'
  BY <1>1, <1>4, EntryApart, LagIsApartNext DEF SeekAndWrite, Seek
<1>5. ASSUME NEW l, NEW block, SeekAndWrite([disk EXCEPT !.sec[l] = block])
      PROVE  LagsByOneWrite'
  BY <1>1, <1>5, SectorApart, LagIsApartNext DEF SeekAndWrite, Seek
<1>6. CASE HostFails
  BY <1>2, <1>3, <1>6 DEF HostFails
<1>7. CASE SeekAndRead
  BY <1>2, <1>7 DEF SeekAndRead, Seek
<1>8. ASSUME NEW rc, Refused(rc) \/ Fails(rc) \/ Answers(rc) PROVE LagsByOneWrite'
  BY <1>3, <1>6, <1>7, <1>8 DEF Refused, Fails, Answers
<1>9. ASSUME NEW sp, Open(sp) \/ Create(sp) \/ Delete(sp) \/ Exists(sp)
      PROVE  LagsByOneWrite'
  BY <1>4, <1>7, <1>8, <1>9 DEF Open, Create, Delete, Exists, NameCallFails
<1>10. ASSUME NEW fh, NEW len, NEW byte,
              Read(fh, len) \/ WriteRefused(fh, len) \/ WriteBegin(fh, len, byte)
       PROVE  LagsByOneWrite'
  BY <1>7, <1>8, <1>10 DEF Read, WriteRefused, WriteBegin
<1>11. CASE WriteInPlace \/ WriteAllocating \/ WriteEnd
  BY <1>4, <1>5, <1>11 DEF WriteInPlace, WriteAllocating, WriteEnd
<1>12. CASE WriteSectorFails \/ WriteEndFails
  BY <1>6, <1>12 DEF WriteSectorFails, WriteEndFails
<1>13. ASSUME NEW track, NEW sector, NEW byte,
              ReadSector(track, sector) \/ WriteSector(track, sector, byte)
       PROVE  LagsByOneWrite'
  BY <1>5, <1>8, <1>13 DEF ReadSector, WriteSector
<1>14. CASE Flush
  BY <1>2, <1>8, <1>14 DEF Flush, Seek
<1>15. CASE FsInit \/ Crash \/ Exit
  BY <1>2, <1>15 DEF FsInit, Crash, Exit, Restarted
<1>16. CASE List \/ FsInitRefused
  BY <1>8, <1>16 DEF List, FsInitRefused
<1>17. ASSUME NEW fh, Close(fh) PROVE LagsByOneWrite'
  BY <1>3, <1>17 DEF Close
<1>18. CASE UNCHANGED vars
  BY <1>3, <1>18 DEF vars
<1>19. QED
  BY <1>9, <1>10, <1>11, <1>12, <1>13, <1>14, <1>15, <1>16, <1>17, <1>18 DEF Operation

\* Whatever fails, a kill of the process loses one entry or one sector at
\* most: every access of fs.c seeks first, and fseek flushes.
THEOREM HostFileLags == Spec => []LagsByOneWrite
<1>1. Init => LagsByOneWrite
  BY NotApart, LagIsApart DEF Init
<1>2. TypeOK /\ LagsByOneWrite /\ [Operation]_vars => LagsByOneWrite'
  BY LagStep
<1>3. QED
  BY TypeCorrect, <1>1, <1>2, NextOperates, PTL DEF Spec

-----------------------------------------------------------------------------
(* What reaches the host file.                                             *)

\* A sector that is still to reach the host file is of no file there but the
\* one being written, and a write runs on an open handle.
Pending == \A l \in DataSectors \ RawSectors : disk.sec[l] # durable.sec[l] =>
    /\ job.busy
    /\ \A e \in Entries, s \in Slots :
          durable.dir[e].active /\ durable.dir[e].alloc[s] - 1 = l => e = JobEntry

JobOpen == job.busy => handle[job.fh].used

\* Steps of a host that does not fail that leave nothing to be flushed, or
\* only an entry, or a sector that a program wrote by address.
LEMMA AllFlushed ==
    ASSUME \A l \in DataSectors \ RawSectors : disk'.sec[l] = durable'.sec[l]
    PROVE  Pending'
BY Zenon DEF Pending

LEMMA EntryFlushes ==
    ASSUME TypeOK, NEW e, NEW rec, SeekAndWrite([disk EXCEPT !.dir[e] = rec])
    PROVE  Pending'
<1>1. disk'.sec = disk.sec /\ durable' = disk
  BY DEF SeekAndWrite, Seek, TypeOK, ImageType
<1>2. QED
  BY <1>1, AllFlushed

\* Calls that change neither a file nor the table.
LEMMA PlainPending ==
    ASSUME IOErrors = FALSE, Idle, Pending, NEW rc, Refused(rc) \/ Fails(rc) \/ Answers(rc)
    PROVE  Pending' /\ JobOpen'
<1>1. \/ disk' = disk /\ durable' = durable
      \/ disk' = durable'
  BY DEF Refused, Fails, HostFails, Answers, SeekAndRead, Seek
<1>2. \A l \in DataSectors \ RawSectors : disk.sec[l] = durable.sec[l]
  BY DEF Pending, Idle
<1>3. Pending'
  BY <1>1, <1>2, AllFlushed
<1>4. ~job'.busy
  BY DEF Idle, Refused, Fails, Answers
<1>5. QED
  BY <1>3, <1>4 DEF JobOpen

\* A sector write of fs_write.
LEMMA InPlacePending ==
    ASSUME SafeInv, HandlesLive, JobOpen, WriteInPlace
    PROVE  Pending' /\ JobOpen'
<1> DEFINE k == job.rec.alloc[SlotOf(job.pos)]
<1>1. /\ SeekAndWrite([disk EXCEPT !.sec[k - 1] = Patched(disk.sec[k - 1])])
      /\ job.busy /\ SlotOf(job.pos) \in Slots /\ k # 0
  BY DEF WriteInPlace, WriteMore
<1>2. job \in JobType /\ disk \in ImageType
  BY DEF SafeInv, TypeOK
<1>3. job'.fh = job.fh /\ job'.busy /\ handle' = handle /\ job'.rec = job.rec
  BY <1>1, <1>2 DEF WriteInPlace, Advanced, JobType
<1>4. JobEntry' = JobEntry /\ JobOpen'
  BY <1>1, <1>3 DEF JobEntry, JobOpen
<1>5. /\ JobEntry \in Entries /\ JobDir[JobEntry] = job.rec
      /\ \A e \in Entries : e # JobEntry => JobDir[e] = disk.dir[e]
  BY <1>2, JobDirType DEF SafeInv, JobDir, ImageType
<1>6. job.rec.active
  <2>1. job.fh \in Handles /\ handle[job.fh].used
    BY <1>1, <1>2 DEF JobOpen, JobType
  <2>2. disk.dir[JobEntry].active
    BY <2>1 DEF HandlesLive, JobEntry
  <2>3. job.rec.active = disk.dir[JobEntry].active
    BY <1>1 DEF SafeInv, JobKeepsName
  <2>4. QED
    BY <2>2, <2>3
<1>7. /\ disk'.dir = disk.dir /\ durable' = disk
      /\ \A l \in DataSectors : l # k - 1 => disk'.sec[l] = disk.sec[l]
  BY <1>1, <1>2 DEF SeekAndWrite, Seek, ImageType
<1>8. ASSUME NEW e \in Entries, NEW s \in Slots,
             disk.dir[e].active, disk.dir[e].alloc[s] - 1 = k - 1
      PROVE  e = JobEntry
  <2> SUFFICES ASSUME e # JobEntry PROVE FALSE
    OBVIOUS
  <2>1. JobDir[e].active /\ JobDir[e].alloc[s] = disk.dir[e].alloc[s]
    BY <1>5, <1>8
  <2>2. disk.dir[e].alloc[s] \in Nat /\ k \in Nat
    BY <1>1, <1>2, JobDirType, FileSystemAssumption DEF SafeInv, ImageType, EntryType, Allocs
  <2>3. JobDir[e].alloc[s] = JobDir[JobEntry].alloc[SlotOf(job.pos)]
    BY <1>5, <1>8, <2>1, <2>2
  <2>4. SectorsOwnedOnce(JobDir)
    BY <1>1 DEF SafeInv, AllocSafe
  <2>5. JobDir[JobEntry].active /\ JobDir[JobEntry].alloc[SlotOf(job.pos)] # 0
    BY <1>1, <1>5, <1>6
  <2>6. QED
    BY <1>1, <1>5, <2>1, <2>3, <2>4, <2>5 DEF SectorsOwnedOnce
<1> HIDE DEF k
<1>9. ASSUME NEW l \in DataSectors, disk'.sec[l] # durable'.sec[l]
      PROVE  /\ job'.busy
             /\ \A e \in Entries, s \in Slots :
                   durable'.dir[e].active /\ durable'.dir[e].alloc[s] - 1 = l => e = JobEntry'
  BY <1>3, <1>4, <1>7, <1>8, <1>9
<1>10. QED
  BY <1>4, <1>9, Zenon DEF Pending

LEMMA AllocatingPending ==
    ASSUME SafeInv, JobOpen, WriteAllocating
    PROVE  Pending' /\ JobOpen'
<1>1. PICK k \in DataSectors :
        /\ IsLeast(k, FreeSectors(JobDir))
        /\ SeekAndWrite([disk EXCEPT !.sec[k] = Patched(ZeroBlock)])
        /\ job' = Advanced([job.rec EXCEPT !.alloc[SlotOf(job.pos)] = AllocByte(k)])
  BY DEF WriteAllocating
<1>2. job \in JobType /\ disk \in ImageType /\ job.busy
  BY DEF SafeInv, TypeOK, WriteAllocating, WriteMore
<1>3. job'.fh = job.fh /\ job'.busy /\ handle' = handle
  BY <1>1, <1>2 DEF WriteAllocating, Advanced, JobType
<1>4. JobEntry' = JobEntry /\ JobOpen'
  BY <1>2, <1>3 DEF JobEntry, JobOpen
<1>5. \A e \in Entries : e # JobEntry => JobDir[e] = disk.dir[e]
  BY <1>2, JobDirType DEF SafeInv, JobDir, ImageType
<1>6. ~SectorInUse(JobDir, k)
  BY <1>1 DEF IsLeast, FreeSectors
<1>7. /\ disk'.dir = disk.dir /\ durable' = disk
      /\ \A l \in DataSectors : l # k => disk'.sec[l] = disk.sec[l]
  BY <1>1, <1>2 DEF SeekAndWrite, Seek, ImageType
<1>8. ASSUME NEW e \in Entries, NEW s \in Slots,
             disk.dir[e].active, disk.dir[e].alloc[s] - 1 = k
      PROVE  e = JobEntry
  <2>1. disk.dir[e].alloc[s] # 0
    <3>1. k \in Nat /\ disk.dir[e].alloc[s] \in Nat
      BY <1>2, GeometryAssumption, FileSystemAssumption DEF DataSectors, ImageType, EntryType, Allocs
    <3>2. QED
      BY <1>8, <3>1
  <2>2. QED
    BY <1>5, <1>6, <1>8, <2>1 DEF SectorInUse
<1>9. ASSUME NEW l \in DataSectors, disk'.sec[l] # durable'.sec[l]
      PROVE  /\ job'.busy
             /\ \A e \in Entries, s \in Slots :
                   durable'.dir[e].active /\ durable'.dir[e].alloc[s] - 1 = l => e = JobEntry'
  BY <1>3, <1>4, <1>7, <1>8, <1>9
<1>10. QED
  BY <1>4, <1>9, Zenon DEF Pending

\* A sector that a program writes by address is in RawSectors.
LEMMA RawPending ==
    ASSUME TypeOK, IOErrors = FALSE, Pending,
           NEW track, NEW sector, NEW byte, WriteSector(track, sector, byte)
    PROVE  Pending' /\ JobOpen'
<1>1. Idle
  BY DEF WriteSector
<1>2. CASE Refused(-1) \/ Fails(-1)
  BY <1>1, <1>2, PlainPending
<1> DEFINE k == TrackSectorToLinear(track, sector)
           block == [i \in 0 .. SectorBytes - 1 |-> byte]
<1>3. CASE /\ k \in RawSectors /\ SeekAndWrite([disk EXCEPT !.sec[k] = block])
           /\ UNCHANGED <<handle, job>>
  <2> HIDE DEF k, block
  <2>1. \A l \in DataSectors \ RawSectors : disk'.sec[l] = durable'.sec[l]
    BY <1>3 DEF SeekAndWrite, Seek, TypeOK, ImageType
  <2>2. ~job'.busy
    BY <1>1, <1>3 DEF Idle
  <2>3. QED
    BY <2>1, <2>2, AllFlushed DEF JobOpen
<1>4. QED
  BY <1>2, <1>3 DEF WriteSector

\* Each step keeps both.
LEMMA PendingStep ==
    ASSUME IOErrors = FALSE, SafeInv, HandlesLive, Pending, JobOpen, [Operation]_vars
    PROVE  Pending' /\ JobOpen'
<1>0. TypeOK
  BY DEF SafeInv
<1>1. ASSUME NEW rc, Idle, Refused(rc) \/ Fails(rc) \/ Answers(rc) PROVE Pending' /\ JobOpen'
  BY <1>1, PlainPending
<1>2. ASSUME NEW e, NEW rec, SeekAndWrite([disk EXCEPT !.dir[e] = rec]), ~job'.busy
      PROVE  Pending' /\ JobOpen'
  BY <1>0, <1>2, EntryFlushes DEF JobOpen
<1>3. ASSUME disk' = durable', ~job'.busy PROVE Pending' /\ JobOpen'
  BY <1>3, AllFlushed DEF JobOpen
<1>4. ASSUME NEW sp, Open(sp) \/ Create(sp) \/ Delete(sp) \/ Exists(sp)
      PROVE  Pending' /\ JobOpen'
  BY <1>1, <1>2, <1>3, <1>4
     DEF Open, Create, Delete, Exists, NameCallFails, SeekAndRead, Seek, Idle
<1>5. CASE List \/ FsInitRefused
  BY <1>1, <1>5 DEF List, FsInitRefused
<1>6. ASSUME NEW fh, Close(fh) PROVE Pending' /\ JobOpen'
  <2>1. \A l \in DataSectors \ RawSectors : disk.sec[l] = durable.sec[l]
    BY <1>6 DEF Pending, Close, Idle
  <2>2. disk' = disk /\ durable' = durable /\ ~job'.busy
    BY <1>6 DEF Close, Idle
  <2>3. QED
    BY <2>1, <2>2, AllFlushed DEF JobOpen
<1>7. ASSUME NEW fh, NEW len, Read(fh, len) \/ WriteRefused(fh, len)
      PROVE  Pending' /\ JobOpen'
  BY <1>1, <1>3, <1>7 DEF Read, WriteRefused, SeekAndRead, Seek, Idle
<1>8. ASSUME NEW fh, NEW len, NEW byte, WriteBegin(fh, len, byte)
      PROVE  Pending' /\ JobOpen'
  <2>1. disk' = durable'
    BY <1>8 DEF WriteBegin, SeekAndRead, Seek
  <2>2. JobOpen'
    BY <1>8 DEF WriteBegin, BadHandle, JobOpen
  <2>3. QED
    BY <2>1, <2>2, AllFlushed
<1>9. CASE WriteInPlace
  BY <1>9, InPlacePending
<1>10. CASE WriteAllocating
  BY <1>10, AllocatingPending
<1>11. CASE WriteSectorFails \/ WriteEndFails
  BY <1>11 DEF WriteSectorFails, WriteEndFails, HostFails
<1>12. CASE WriteEnd
  BY <1>2, <1>12 DEF WriteEnd, NoJob
<1>13. ASSUME NEW track, NEW sector, ReadSector(track, sector) PROVE Pending' /\ JobOpen'
  BY <1>1, <1>13 DEF ReadSector
<1>14. ASSUME NEW track, NEW sector, NEW byte, WriteSector(track, sector, byte)
       PROVE  Pending' /\ JobOpen'
  BY <1>0, <1>14, RawPending
<1>15. CASE Flush
  BY <1>1, <1>3, <1>15 DEF Flush, Seek, Idle
<1>16. CASE FsInit \/ Crash \/ Exit
  BY <1>3, <1>16 DEF FsInit, Crash, Exit, Restarted, Idle, NoJob
<1>17. CASE UNCHANGED vars
  <2>1. /\ disk' = disk /\ durable' = durable /\ job' = job /\ handle' = handle
        /\ JobEntry' = JobEntry
    BY <1>17 DEF vars, JobEntry
  <2>2. QED
    BY <2>1 DEF Pending, JobOpen
<1>18. QED
  BY <1>4, <1>5, <1>6, <1>7, <1>8, <1>9, <1>10, <1>11, <1>12, <1>13, <1>14, <1>15,
     <1>16, <1>17 DEF Operation

\* The host file becomes what the process saw, or stays.
LEMMA HostFollows ==
    ASSUME IOErrors = FALSE, [Operation]_vars
    PROVE  durable' = disk \/ durable' = durable
<1>1. ASSUME NEW rc, Refused(rc) \/ Fails(rc) \/ Answers(rc)
      PROVE  durable' = disk \/ durable' = durable
  BY <1>1 DEF Refused, Fails, HostFails, Answers, SeekAndRead, Seek
<1>2. CASE durable' = disk
  BY <1>2
<1>3. ASSUME NEW sp, Open(sp) \/ Create(sp) \/ Delete(sp) \/ Exists(sp)
      PROVE  durable' = disk \/ durable' = durable
  BY <1>1, <1>3
     DEF Open, Create, Delete, Exists, NameCallFails, SeekAndRead, SeekAndWrite, Seek
<1>4. ASSUME NEW fh, NEW len, NEW byte,
             Read(fh, len) \/ WriteRefused(fh, len) \/ WriteBegin(fh, len, byte)
      PROVE  durable' = disk \/ durable' = durable
  BY <1>1, <1>4 DEF Read, WriteRefused, WriteBegin, SeekAndRead, Seek
<1>5. CASE WriteInPlace \/ WriteAllocating \/ WriteEnd
  BY <1>5 DEF WriteInPlace, WriteAllocating, WriteEnd, SeekAndWrite, Seek
<1>6. CASE WriteSectorFails \/ WriteEndFails
  BY <1>6 DEF WriteSectorFails, WriteEndFails, HostFails
<1>7. ASSUME NEW track, NEW sector, NEW byte,
             ReadSector(track, sector) \/ WriteSector(track, sector, byte)
      PROVE  durable' = disk \/ durable' = durable
  BY <1>1, <1>7 DEF ReadSector, WriteSector, SeekAndWrite, Seek
<1>8. CASE Flush
  BY <1>1, <1>8 DEF Flush, Seek
<1>9. CASE FsInit \/ Crash \/ Exit
  BY <1>9 DEF FsInit, Crash, Exit
<1>10. CASE List \/ FsInitRefused
  BY <1>1, <1>10 DEF List, FsInitRefused
<1>11. ASSUME NEW fh, Close(fh) PROVE durable' = durable
  BY <1>11 DEF Close
<1>12. CASE UNCHANGED vars
  BY <1>12 DEF vars
<1>13. QED
  BY <1>3, <1>4, <1>5, <1>6, <1>7, <1>8, <1>9, <1>10, <1>11, <1>12 DEF Operation

\* On a host that does not fail, however the process ends, what reaches the
\* host file changes the sectors of no file there but the one that is being
\* written: sectors of a deleted file are given away only after its entry is
\* gone from the host file, since every access of fs.c seeks first.
THEOREM HostFileIsConfined == ASSUME IOErrors = FALSE PROVE Spec => HostFileConfined
<1>1. Init => Pending /\ JobOpen
  BY DEF Init, Pending, JobOpen, NoJob
<1>2. SafeInv /\ HandlesLive /\ Pending /\ JobOpen /\ [Operation]_vars => (Pending /\ JobOpen)'
  BY PendingStep
<1> DEFINE Confined == \A e \in Entries, s \in Slots :
        (/\ durable.dir[e].active
         /\ durable'.dir[e] = durable.dir[e]
         /\ durable.dir[e].alloc[s] - 1 \in DataSectors \ RawSectors
         /\ durable'.sec[durable.dir[e].alloc[s] - 1]
                # durable.sec[durable.dir[e].alloc[s] - 1])
        => job.busy /\ JobEntry = e
<1>3. Pending /\ [Operation]_vars => [Confined]_vars
  <2> SUFFICES ASSUME Pending, [Operation]_vars PROVE Confined
    OBVIOUS
  <2> SUFFICES ASSUME NEW e \in Entries, NEW s \in Slots,
                      durable.dir[e].active,
                      durable.dir[e].alloc[s] - 1 \in DataSectors \ RawSectors,
                      durable'.sec[durable.dir[e].alloc[s] - 1]
                          # durable.sec[durable.dir[e].alloc[s] - 1]
               PROVE  job.busy /\ JobEntry = e
    OBVIOUS
  <2>1. durable' = disk
    BY HostFollows
  <2>2. QED
    BY <2>1 DEF Pending
<1>4. [][Confined]_vars => HostFileConfined
  BY DEF HostFileConfined
<1> HIDE DEF Confined
<1>5. QED
  BY <1>1, <1>2, <1>3, <1>4, Safe, HandlesStayLive, NextOperates, PTL DEF Spec

-----------------------------------------------------------------------------
(* What is written is read.                                                *)

\* Slot and offset of a position, and the position of a slot and an offset.
LEMMA SectorSize == SectorBytes \in Nat \ {0}
BY GeometryAssumption

LEMMA Remainder ==
    ASSUME NEW q \in Nat
    PROVE  SlotOf(q) \in Nat /\ (q % SectorBytes) \in 0 .. SectorBytes - 1
BY SectorSize DEF SlotOf

LEMMA PlaceOf ==
    ASSUME NEW q \in Nat
    PROVE  /\ SlotOf(q) \in Nat /\ q % SectorBytes \in 0 .. SectorBytes - 1
           /\ q = SlotOf(q) * SectorBytes + (q % SectorBytes)
<1>1. SectorBytes \in Nat \ {0}
  BY SectorSize
<1>2. QED
  BY <1>1 DEF SlotOf

LEMMA Multiples ==
    \A x, y \in Nat : x < y => x * SectorBytes + SectorBytes <= y * SectorBytes
<1> SUFFICES ASSUME NEW x \in Nat, NEW y \in Nat, x < y
             PROVE  x * SectorBytes + SectorBytes <= y * SectorBytes
  OBVIOUS
<1>1. PICK d \in Nat : y = x + 1 + d
  <2>1. y - x - 1 \in Nat /\ y = x + 1 + (y - x - 1)
    OBVIOUS
  <2>2. QED
    BY <2>1
<1>2. y * SectorBytes = x * SectorBytes + SectorBytes + d * SectorBytes
  BY <1>1, SectorSize
<1>3. x * SectorBytes \in Nat /\ d * SectorBytes \in Nat
  BY SectorSize
<1>4. QED
  BY <1>2, <1>3, SectorSize

LEMMA OnePlace ==
    ASSUME NEW a \in Nat, NEW b \in Nat,
           NEW r \in 0 .. SectorBytes - 1, NEW s \in 0 .. SectorBytes - 1,
           a * SectorBytes + r = b * SectorBytes + s
    PROVE  a = b /\ r = s
<1>1. SectorBytes \in Nat \ {0}
  BY GeometryAssumption
<1>2. a * SectorBytes \in Nat /\ b * SectorBytes \in Nat
  BY <1>1
<1>3. ~(a < b) /\ ~(b < a)
  BY <1>1, <1>2, Multiples
<1>4. a = b
  BY <1>3
<1>5. QED
  BY <1>2, <1>4

\* Positions in the sector of another one.
LEMMA SamePlace ==
    ASSUME NEW pos \in Nat, NEW q \in Nat, pos <= q,
           (pos % SectorBytes) + (q - pos) < SectorBytes
    PROVE  SlotOf(q) = SlotOf(pos) /\ q % SectorBytes = (pos % SectorBytes) + (q - pos)
<1> DEFINE r == (pos % SectorBytes) + (q - pos)
<1>1. r \in 0 .. SectorBytes - 1
  <2>1. (pos % SectorBytes) \in 0 .. SectorBytes - 1
    BY Remainder
  <2>2. QED
    BY <2>1, SectorSize
<1>2. /\ SlotOf(pos) \in Nat /\ SlotOf(q) \in Nat /\ q % SectorBytes \in 0 .. SectorBytes - 1
      /\ q = SlotOf(q) * SectorBytes + (q % SectorBytes)
  BY PlaceOf
<1>3. q = SlotOf(pos) * SectorBytes + r
  <2>1. pos = SlotOf(pos) * SectorBytes + (pos % SectorBytes)
    BY PlaceOf
  <2>2. SlotOf(pos) * SectorBytes \in Nat /\ pos % SectorBytes \in Nat
    <3>1. (pos % SectorBytes) \in 0 .. SectorBytes - 1
      BY Remainder
    <3>2. QED
      BY <1>2, <3>1, SectorSize
  <2>3. QED
    BY <2>1, <2>2
<1> HIDE DEF r
<1>4. SlotOf(q) = SlotOf(pos) /\ q % SectorBytes = r
  BY <1>1, <1>2, <1>3, OnePlace
<1>5. QED
  BY <1>4 DEF r

LEMMA EarlierInSlot ==
    ASSUME NEW pos \in Nat, NEW q \in Nat, q < pos, SlotOf(q) = SlotOf(pos)
    PROVE  q % SectorBytes < pos % SectorBytes
<1>1. SlotOf(pos) \in Nat
  BY Remainder
<1>2. SlotOf(pos) * SectorBytes \in Nat
  BY <1>1, SectorSize
<1>3. QED
  BY <1>2, PlaceOf

\* A slot's first position.
LEMMA SlotStart ==
    ASSUME NEW s \in Nat
    PROVE  s * SectorBytes \in Nat /\ SlotOf(s * SectorBytes) = s
<1>1. s * SectorBytes \in Nat
  BY SectorSize
<1>2. /\ SlotOf(s * SectorBytes) \in Nat
      /\ ((s * SectorBytes) % SectorBytes) \in 0 .. SectorBytes - 1
      /\ s * SectorBytes = SlotOf(s * SectorBytes) * SectorBytes + ((s * SectorBytes) % SectorBytes)
  BY <1>1, PlaceOf
<1> DEFINE r == (s * SectorBytes) % SectorBytes
           c == SlotOf(s * SectorBytes)
<1> HIDE DEF r, c
<1>3. c \in Nat /\ r \in 0 .. SectorBytes - 1 /\ c * SectorBytes + r = s * SectorBytes + 0
  BY <1>1, <1>2 DEF r, c
<1>4. 0 \in 0 .. SectorBytes - 1
  BY SectorSize
<1>5. c = s
  BY <1>3, <1>4, OnePlace
<1>6. QED
  BY <1>1, <1>5 DEF c

\* A count of sectors rounded up.
LEMMA RoundedUp ==
    ASSUME NEW pos \in Nat, NEW c, c = (pos + (SectorBytes - 1)) \div SectorBytes
    PROVE  /\ c \in Nat /\ c * SectorBytes \in Nat
           /\ pos <= c * SectorBytes /\ c * SectorBytes < pos + SectorBytes
<1> DEFINE end == pos + (SectorBytes - 1)
<1>1. end \in Nat
  BY SectorSize
<1>2. /\ SlotOf(end) \in Nat /\ (end % SectorBytes) \in 0 .. SectorBytes - 1
      /\ end = SlotOf(end) * SectorBytes + (end % SectorBytes)
  BY <1>1, PlaceOf
<1>3. c = SlotOf(end)
  BY DEF SlotOf
<1>4. c \in Nat /\ c * SectorBytes \in Nat
  BY <1>2, <1>3, SectorSize
<1>5. QED
  BY <1>2, <1>3, <1>4, SectorSize

\* The slot of a position before the end of slot c - 1, and of one at or past
\* the start of slot c.
LEMMA SlotBefore ==
    ASSUME NEW q \in Nat, NEW c \in Nat
    PROVE  q < c * SectorBytes <=> SlotOf(q) < c
<1>1. /\ SlotOf(q) \in Nat /\ (q % SectorBytes) \in 0 .. SectorBytes - 1
      /\ q = SlotOf(q) * SectorBytes + (q % SectorBytes)
  BY PlaceOf
<1>2. SectorBytes \in Nat /\ SlotOf(q) * SectorBytes \in Nat /\ c * SectorBytes \in Nat
  BY <1>1, SectorSize
<1>3. ASSUME SlotOf(q) < c PROVE q < c * SectorBytes
  <2>1. SlotOf(q) * SectorBytes + SectorBytes <= c * SectorBytes
    BY <1>1, <1>3, Multiples
  <2>2. QED
    BY <1>1, <1>2, <2>1
<1>4. ASSUME ~(SlotOf(q) < c) PROVE ~(q < c * SectorBytes)
  <2>1. CASE c = SlotOf(q)
    BY <1>1, <1>2, <2>1
  <2>2. CASE c < SlotOf(q)
    <3>1. c * SectorBytes + SectorBytes <= SlotOf(q) * SectorBytes
      BY <1>1, <2>2, Multiples
    <3>2. QED
      BY <1>1, <1>2, <3>1
  <2>3. QED
    BY <1>1, <1>4, <2>1, <2>2
<1>5. QED
  BY <1>3, <1>4

LEMMA MultiplesUpTo ==
    ASSUME NEW x \in Nat, NEW y \in Nat, x <= y
    PROVE  x * SectorBytes <= y * SectorBytes
<1>1. x * SectorBytes \in Nat /\ y * SectorBytes \in Nat /\ SectorBytes \in Nat
  BY SlotStart, SectorSize
<1>2. CASE x = y
  BY <1>1, <1>2
<1>3. CASE x < y
  BY <1>1, <1>3, Multiples
<1>4. QED
  BY <1>2, <1>3

\* The part of the sector that the next step writes.
LEMMA ChunkSize ==
    ASSUME TypeOK, WriteMore
    PROVE  /\ job.busy /\ SlotOf(job.pos) \in Slots /\ SlotOf(job.pos) \in Nat
           /\ Chunk \in Nat /\ Chunk > 0 /\ job.total + Chunk <= job.len
           /\ job.pos % SectorBytes \in Nat /\ SlotOf(job.pos) * SectorBytes \in Nat
           /\ (job.pos % SectorBytes) + Chunk <= SectorBytes
           /\ job.pos = SlotOf(job.pos) * SectorBytes + (job.pos % SectorBytes)
<1>1. job.busy /\ SlotOf(job.pos) \in Slots /\ job.total < job.len
  BY DEF WriteMore
<1>2. job.pos \in Nat /\ job.total \in Nat /\ job.len \in Nat
  BY DEF TypeOK, JobType
<1>3. /\ SlotOf(job.pos) \in Nat /\ (job.pos % SectorBytes) \in 0 .. SectorBytes - 1
      /\ job.pos = SlotOf(job.pos) * SectorBytes + (job.pos % SectorBytes)
  BY <1>2, PlaceOf
<1>4. SectorBytes \in Nat /\ SlotOf(job.pos) * SectorBytes \in Nat
  BY <1>3, SectorSize
<1>5. /\ job.len - job.total \in Nat /\ job.len - job.total > 0
      /\ SectorBytes - (job.pos % SectorBytes) \in Nat /\ SectorBytes - (job.pos % SectorBytes) > 0
  BY <1>1, <1>2, <1>3, <1>4
<1>6. /\ Chunk \in Nat /\ Chunk > 0 /\ Chunk <= job.len - job.total
      /\ Chunk <= SectorBytes - (job.pos % SectorBytes)
  BY <1>5 DEF Chunk, Lesser
<1>7. QED
  BY <1>1, <1>2, <1>3, <1>4, <1>6

\* The bytes of the running write that are in their sectors.
JobReads == job.busy =>
    /\ ret.op = "call"
    /\ job.total <= job.pos
    /\ \A q \in Nat : job.pos - job.total <= q /\ q < job.pos =>
          /\ SlotOf(q) \in Slots
          /\ job.rec.alloc[SlotOf(q)] # 0
          /\ disk.sec[job.rec.alloc[SlotOf(q)] - 1][q % SectorBytes] = job.data

\* A sector write: the bytes before it stay where they are.
LEMMA SectorReads ==
    ASSUME TypeOK, JobReads, WriteMore, ret' = ret,
           NEW rec, NEW old, job' = Advanced(rec),
           rec.alloc[SlotOf(job.pos)] # 0,
           disk'.sec[rec.alloc[SlotOf(job.pos)] - 1] = Patched(old),
           \A s \in Slots : s # SlotOf(job.pos) =>
              /\ rec.alloc[s] = job.rec.alloc[s]
              /\ rec.alloc[s] # 0 =>
                    disk'.sec[rec.alloc[s] - 1] = disk.sec[rec.alloc[s] - 1],
           \A q \in Nat : /\ job.pos - job.total <= q /\ q < job.pos
                           /\ SlotOf(q) = SlotOf(job.pos)
                 => old[q % SectorBytes] = job.data
    PROVE  JobReads'
<1>1. /\ job.busy /\ job.pos \in Nat /\ job.total \in Nat /\ job.len \in Nat
      /\ SlotOf(job.pos) \in Slots /\ Chunk \in Nat /\ job.total <= job.pos /\ job \in JobType
  BY ChunkType DEF TypeOK, JobType, WriteMore, JobReads
<1>2. /\ job'.pos = job.pos + Chunk /\ job'.total = job.total + Chunk
      /\ job'.rec = rec /\ job'.data = job.data /\ ret'.op = "call"
  BY <1>1 DEF Advanced, JobType, JobReads
<1>3. Chunk <= SectorBytes - (job.pos % SectorBytes)
  <2>1. (job.pos % SectorBytes) \in 0 .. SectorBytes - 1
    BY <1>1, Remainder
  <2>2. QED
    BY <1>1, <2>1, SectorSize DEF Chunk, Lesser
<1>4. ASSUME NEW q \in Nat, job.pos - job.total <= q, q < job.pos + Chunk
      PROVE  /\ SlotOf(q) \in Slots
             /\ rec.alloc[SlotOf(q)] # 0
             /\ disk'.sec[rec.alloc[SlotOf(q)] - 1][q % SectorBytes] = job.data
  <2>1. q % SectorBytes \in 0 .. SectorBytes - 1
    BY PlaceOf
  <2>2. CASE q < job.pos /\ SlotOf(q) # SlotOf(job.pos)
    BY <1>1, <1>4, <2>2 DEF JobReads
  <2>3. CASE q < job.pos /\ SlotOf(q) = SlotOf(job.pos)
    <3>1. q % SectorBytes < job.pos % SectorBytes
      BY <1>1, <2>3, EarlierInSlot
    <3>2. job.pos % SectorBytes \in Nat
      BY <1>1, PlaceOf
    <3>3. Patched(old)[q % SectorBytes] = old[q % SectorBytes]
      BY <2>1, <3>1, <3>2 DEF Patched
    <3>4. QED
      BY <1>1, <1>4, <2>3, <3>3
  <2>4. CASE job.pos <= q
    <3>1. job.pos % SectorBytes \in 0 .. SectorBytes - 1
      BY <1>1, PlaceOf
    <3>2. (job.pos % SectorBytes) + (q - job.pos) < SectorBytes
      BY <1>1, <1>3, <1>4, <2>4, <3>1, GeometryAssumption
    <3>3. SlotOf(q) = SlotOf(job.pos) /\ q % SectorBytes = (job.pos % SectorBytes) + (q - job.pos)
      BY <1>1, <2>4, <3>2, SamePlace
    <3>4. /\ job.pos % SectorBytes <= q % SectorBytes
          /\ q % SectorBytes < (job.pos % SectorBytes) + Chunk
      BY <1>1, <1>4, <2>4, <3>1, <3>3
    <3>5. Patched(old)[q % SectorBytes] = job.data
      BY <2>1, <3>4 DEF Patched
    <3>6. QED
      BY <1>1, <3>3, <3>5
  <2>5. QED
    BY <1>1, <2>2, <2>3, <2>4
<1>5. job'.pos - job'.total = job.pos - job.total /\ job'.total <= job'.pos
  BY <1>1, <1>2
<1>6. QED
  BY <1>2, <1>4, <1>5 DEF JobReads

LEMMA InPlaceReads ==
    ASSUME SafeInv, HandlesLive, JobOpen, JobReads, WriteInPlace
    PROVE  JobReads'
<1> DEFINE k == job.rec.alloc[SlotOf(job.pos)]
<1>1. /\ SeekAndWrite([disk EXCEPT !.sec[k - 1] = Patched(disk.sec[k - 1])])
      /\ job' = Advanced(job.rec) /\ ret' = ret
      /\ WriteMore /\ job.busy /\ SlotOf(job.pos) \in Slots /\ k # 0
  BY DEF WriteInPlace, WriteMore
<1>2. TypeOK /\ job \in JobType /\ disk \in ImageType
  BY DEF SafeInv, TypeOK
<1>3. JobEntry \in Entries /\ JobDir[JobEntry] = job.rec
  BY <1>2, JobDirType
<1>4. job.rec.active
  <2>1. job.fh \in Handles /\ handle[job.fh].used
    BY <1>1, <1>2 DEF JobOpen, JobType
  <2>2. disk.dir[JobEntry].active
    BY <2>1 DEF HandlesLive, JobEntry
  <2>3. QED
    BY <1>1, <2>2 DEF SafeInv, JobKeepsName
<1>5. SectorsOwnedOnce(JobDir)
  BY <1>1 DEF SafeInv, AllocSafe
<1>6. k - 1 \in DataSectors /\ \A s \in Slots : job.rec.alloc[s] = k => s = SlotOf(job.pos)
  BY <1>1, <1>3, <1>4, <1>5 DEF SectorsOwnedOnce
<1>7. k \in Nat /\ \A s \in Slots : job.rec.alloc[s] \in Nat
  BY <1>1, <1>2, JobDirType, FileSystemAssumption DEF EntryType, Allocs
<1>8. /\ disk'.sec[k - 1] = Patched(disk.sec[k - 1])
      /\ \A l : l # k - 1 => disk'.sec[l] = disk.sec[l]
  BY <1>1, <1>2, <1>6 DEF SeekAndWrite, ImageType
<1>9. \A s \in Slots : s # SlotOf(job.pos) =>
        disk'.sec[job.rec.alloc[s] - 1] = disk.sec[job.rec.alloc[s] - 1]
  BY <1>6, <1>7, <1>8
<1>10. \A q \in Nat : /\ job.pos - job.total <= q /\ q < job.pos
                       /\ SlotOf(q) = SlotOf(job.pos)
          => disk.sec[k - 1][q % SectorBytes] = job.data
  BY <1>1 DEF JobReads
<1>11. QED
  BY <1>1, <1>2, <1>8, <1>9, <1>10, SectorReads

\* While a file is written, the first free sector, if there is one, is one that
\* an allocation byte can name: the files have not used up the sectors below
\* AllocMod - 1.  A disk may have any number of sectors.
InReach == job.busy =>
    \A l \in DataSectors : IsLeast(l, FreeSectors(JobDir)) => l + 1 < AllocMod

\* The byte of a sector that is taken in reach is its number plus one.
LEMMA ByteInReach ==
    ASSUME InReach, job.busy, NEW l \in DataSectors, IsLeast(l, FreeSectors(JobDir))
    PROVE  AllocByte(l) = l + 1 /\ l \in Nat
<1>1. l \in Nat /\ AllocMod \in Nat
  BY GeometryAssumption, FileSystemAssumption DEF DataSectors
<1>2. l + 1 < AllocMod
  BY DEF InReach
<1>3. (l + 1) % AllocMod = l + 1
  BY <1>1, <1>2
<1>4. QED
  BY <1>1, <1>3 DEF AllocByte

LEMMA AllocatingReads ==
    ASSUME InReach, SafeInv, HandlesLive, JobOpen, JobReads, WriteAllocating
    PROVE  JobReads'
<1> DEFINE s0 == SlotOf(job.pos)
<1>1. PICK l \in DataSectors :
        /\ IsLeast(l, FreeSectors(JobDir))
        /\ SeekAndWrite([disk EXCEPT !.sec[l] = Patched(ZeroBlock)])
        /\ job' = Advanced([job.rec EXCEPT !.alloc[s0] = AllocByte(l)])
  BY DEF WriteAllocating
<1>2. WriteMore /\ job.busy /\ s0 \in Slots /\ job.rec.alloc[s0] = 0 /\ ret' = ret
  BY DEF WriteAllocating, WriteMore
<1>3. TypeOK /\ job \in JobType /\ disk \in ImageType /\ job.rec \in EntryType
  BY JobDirType DEF SafeInv, TypeOK
<1>4. JobEntry \in Entries /\ JobDir[JobEntry] = job.rec
  BY <1>3, JobDirType
<1>5. job.rec.active
  <2>1. job.fh \in Handles /\ handle[job.fh].used
    BY <1>2, <1>3 DEF JobOpen, JobType
  <2>2. disk.dir[JobEntry].active
    BY <2>1 DEF HandlesLive, JobEntry
  <2>3. QED
    BY <1>2, <2>2 DEF SafeInv, JobKeepsName
<1>6. AllocByte(l) = l + 1 /\ l \in Nat
  BY <1>1, <1>2, ByteInReach
<1>7. \A s \in Slots : job.rec.alloc[s] # 0 => job.rec.alloc[s] - 1 # l
  BY <1>1, <1>4, <1>5 DEF IsLeast, FreeSectors, SectorInUse
<1> DEFINE rec == [job.rec EXCEPT !.alloc[s0] = AllocByte(l)]
<1>8. /\ rec.alloc[s0] = l + 1
      /\ \A s \in Slots : s # s0 => rec.alloc[s] = job.rec.alloc[s]
  BY <1>2, <1>3, <1>6 DEF EntryType
<1>9. /\ disk'.sec[l] = Patched(ZeroBlock)
      /\ \A x : x # l => disk'.sec[x] = disk.sec[x]
  BY <1>1, <1>3 DEF SeekAndWrite, ImageType
<1> HIDE DEF rec
<1>10. rec.alloc[s0] # 0 /\ rec.alloc[s0] - 1 = l
  BY <1>6, <1>8
<1>11. \A s \in Slots : s # s0 =>
         /\ rec.alloc[s] = job.rec.alloc[s]
         /\ rec.alloc[s] # 0 => disk'.sec[rec.alloc[s] - 1] = disk.sec[rec.alloc[s] - 1]
  BY <1>7, <1>8, <1>9
<1>12. \A q \in Nat : /\ job.pos - job.total <= q /\ q < job.pos
                       /\ SlotOf(q) = SlotOf(job.pos)
          => ZeroBlock[q % SectorBytes] = job.data
  BY <1>2 DEF JobReads
<1>13. job' = Advanced(rec)
  BY <1>1 DEF rec
<1>14. QED
  BY <1>2, <1>3, <1>9, <1>10, <1>11, <1>12, <1>13, SectorReads

\* The end of fs_write: the entry covers what was written.
LEMMA WriteEndReads ==
    ASSUME TypeOK, JobReads, WriteEnd
    PROVE  WriteReadBack'
<1>1. /\ job.busy /\ job \in JobType /\ disk \in ImageType /\ job.fh \in Handles
      /\ job.pos \in Nat /\ job.total \in Nat /\ handle \in [Handles -> HandleType]
      /\ job.rec \in EntryType /\ JobEntry \in Entries
  BY JobDirType DEF TypeOK, JobType, WriteEnd, WriteDone
<1>2. /\ disk'.dir[JobEntry] = WrittenEntry /\ disk'.sec = disk.sec
      /\ handle'[job.fh].entry = JobEntry
  BY <1>1 DEF WriteEnd, SeekAndWrite, ImageType, JobEntry, HandleType
<1>3. /\ ret'.rc = job.total /\ ret'.fh = job.fh /\ ret'.at = job.pos - job.total
      /\ ret'.data = job.data
  BY DEF WriteEnd, WriteReturns
<1>4. WrittenEntry.alloc = job.rec.alloc
  BY <1>1 DEF WrittenEntry, EntryType
<1>5. job.pos <= SizeOf(WrittenEntry) /\ SizeOf(WrittenEntry) \in Nat
  <2>1. WrittenEntry.count = IF job.pos > SizeOf(job.rec)
                             THEN (job.pos + (SectorBytes - 1)) \div SectorBytes
                             ELSE job.rec.count
    BY <1>1 DEF WrittenEntry, EntryType
  <2>2. SectorBytes \in Nat \ {0} /\ job.rec.count \in Nat /\ SizeOf(job.rec) \in Nat
    BY <1>1, GeometryAssumption DEF EntryType, SizeOf
  <2>3. CASE job.pos > SizeOf(job.rec)
    <3> DEFINE end == job.pos + (SectorBytes - 1)
    <3>1. end \in Nat
      BY <1>1, <2>2
    <3>2. /\ SlotOf(end) \in Nat /\ end % SectorBytes \in 0 .. SectorBytes - 1
          /\ end = SlotOf(end) * SectorBytes + (end % SectorBytes)
      BY <3>1, PlaceOf
    <3>3. SlotOf(end) * SectorBytes \in Nat
      BY <2>2, <3>2
    <3>4. job.pos <= SlotOf(end) * SectorBytes
      BY <1>1, <2>2, <3>2, <3>3
    <3>5. WrittenEntry.count = SlotOf(end)
      BY <2>1, <2>3 DEF SlotOf
    <3>6. QED
      BY <3>3, <3>4, <3>5 DEF SizeOf
  <2>4. CASE ~(job.pos > SizeOf(job.rec))
    BY <1>1, <2>1, <2>2, <2>4 DEF SizeOf
  <2>5. QED
    BY <2>3, <2>4
<1>6. ASSUME NEW q \in ret'.at .. ret'.at + ret'.rc - 1
      PROVE  /\ q < SizeOf(WrittenEntry)
             /\ WrittenEntry.alloc[SlotOf(q)] # 0
             /\ disk'.sec[WrittenEntry.alloc[SlotOf(q)] - 1][q % SectorBytes] = ret'.data
  <2>1. job.total <= job.pos
    BY <1>1 DEF JobReads
  <2>2. q \in Nat /\ job.pos - job.total <= q /\ q < job.pos
    BY <1>1, <1>3, <2>1
  <2>3. QED
    BY <1>1, <1>2, <1>3, <1>4, <1>5, <2>2 DEF JobReads
<1>7. disk'.dir[handle'[ret'.fh].entry] = WrittenEntry
  BY <1>2, <1>3
<1>8. QED
  BY <1>6, <1>7 DEF WriteReadBack

\* A call that is not a write tells of no bytes.
LEMMA CallReads ==
    ASSUME ret'.op = "call", ~job'.busy
    PROVE  JobReads' /\ WriteReadBack'
BY DEF JobReads, WriteReadBack

LEMMA ReadsStep ==
    ASSUME IOErrors = FALSE, InReach,
           SafeInv, HandlesLive, JobOpen, JobReads, WriteReadBack, [Operation]_vars
    PROVE  JobReads' /\ WriteReadBack'
<1>0. TypeOK
  BY DEF SafeInv
<1>1. ASSUME NEW rc, ret' = Result("call", rc), ~job'.busy PROVE JobReads' /\ WriteReadBack'
  BY <1>1, CallReads DEF Result
<1>2. ASSUME NEW rc, Idle, Refused(rc) \/ Fails(rc) \/ Answers(rc)
      PROVE  JobReads' /\ WriteReadBack'
  BY <1>1, <1>2 DEF Refused, Fails, Answers, Returns, Idle
<1>3. ASSUME NEW sp, Open(sp) \/ Create(sp) \/ Delete(sp) \/ Exists(sp)
      PROVE  JobReads' /\ WriteReadBack'
  BY <1>1, <1>2, <1>3 DEF Open, Create, Delete, Exists, NameCallFails, Returns, Idle
<1>4. CASE List \/ FsInitRefused
  BY <1>2, <1>4 DEF List, FsInitRefused
<1>5. ASSUME NEW fh, Close(fh) PROVE JobReads' /\ WriteReadBack'
  BY <1>1, <1>5 DEF Close, Returns, Idle
<1>6. ASSUME NEW fh, NEW len, Read(fh, len) \/ WriteRefused(fh, len)
      PROVE  JobReads' /\ WriteReadBack'
  BY <1>1, <1>2, <1>6 DEF Read, WriteRefused, Returns, Idle
<1>7. ASSUME NEW fh, NEW len, NEW byte, WriteBegin(fh, len, byte)
      PROVE  JobReads' /\ WriteReadBack'
  <2>1. ret'.op = "call" /\ job'.total = 0 /\ job'.pos = handle[fh].pos
    BY <1>7 DEF WriteBegin, Returns, Result
  <2>2. job'.pos \in Nat
    BY <1>0, <1>7, <2>1 DEF WriteBegin, BadHandle, TypeOK, HandleType
  <2>3. \A q \in Nat : ~(job'.pos - job'.total <= q /\ q < job'.pos)
    BY <2>1, <2>2
  <2>4. job'.total <= job'.pos
    BY <2>1, <2>2
  <2>5. JobReads'
    BY <2>1, <2>3, <2>4 DEF JobReads
  <2>6. QED
    BY <2>1, <2>5 DEF WriteReadBack
<1>8. CASE WriteInPlace
  <2>1. ret'.op = "call"
    BY <1>8 DEF WriteInPlace, WriteMore, JobReads
  <2>2. QED
    BY <1>8, <2>1, InPlaceReads DEF WriteReadBack
<1>9. CASE WriteAllocating
  <2>1. ret'.op = "call"
    BY <1>9 DEF WriteAllocating, WriteMore, JobReads
  <2>2. QED
    BY <1>9, <2>1, AllocatingReads DEF WriteReadBack
<1>10. CASE WriteSectorFails \/ WriteEndFails
  BY <1>10 DEF WriteSectorFails, WriteEndFails, HostFails
<1>11. CASE WriteEnd
  BY <1>0, <1>11, WriteEndReads DEF WriteEnd, NoJob, JobReads
<1>12. ASSUME NEW track, NEW sector, NEW byte,
              ReadSector(track, sector) \/ WriteSector(track, sector, byte)
       PROVE  JobReads' /\ WriteReadBack'
  BY <1>1, <1>2, <1>12 DEF ReadSector, WriteSector, Returns, Idle
<1>13. CASE Flush
  BY <1>1, <1>2, <1>13 DEF Flush, Returns, Idle
<1>14. CASE FsInit \/ Crash \/ Exit
  BY <1>1, <1>14 DEF FsInit, Crash, Exit, Restarted, Returns, Idle, NoJob
<1>15. CASE UNCHANGED vars
  BY <1>15 DEF vars, JobReads, WriteReadBack
<1>16. QED
  BY <1>3, <1>4, <1>5, <1>6, <1>7, <1>8, <1>9, <1>10, <1>11, <1>12, <1>13, <1>14, <1>15 DEF Operation

\* On a host that does not fail, and as long as no write has to take a sector
\* whose allocation byte wraps, the bytes fs_write reports are at their place in
\* the file, however the write starts and ends in its sectors, reuses sectors of
\* the file or takes free ones, and stops short (fs_write).
THEOREM WrittenIsRead ==
    ASSUME IOErrors = FALSE
    PROVE  Spec /\ []InReach => []WriteReadBack
<1>1. Init => Pending /\ JobOpen /\ JobReads /\ WriteReadBack
  BY DEF Init, Pending, JobOpen, JobReads, WriteReadBack, NoJob, Result
<1>2. /\ SafeInv /\ HandlesLive /\ Pending /\ JobOpen /\ JobReads /\ WriteReadBack
      /\ InReach /\ [Operation]_vars
      => (Pending /\ JobOpen /\ JobReads /\ WriteReadBack)'
  BY PendingStep, ReadsStep
<1>3. QED
  BY <1>1, <1>2, Safe, HandlesStayLive, NextOperates, PTL DEF Spec
=============================================================================
