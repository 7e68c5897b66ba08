----------------------------- MODULE MCCommands -----------------------------
(***************************************************************************)
(* Small disks for Commands: a source of one to three sectors, an old      *)
(* program of one or two or none, another file or none.                    *)
(***************************************************************************)
EXTENDS Commands

CONSTANTS src, com, other, bad

MCCpmName == [s \in {"a.c", "a.com", "b"} |->
                CASE s = "a.c" -> src [] s = "a.com" -> com [] s = "b" -> other]

MCComName == [s \in {"a.c"} |-> "a.com"]

\* A file of n sectors that starts at data sector l.
FileOf(name, l, n) ==
    [active |-> TRUE, name |-> name, count |-> n,
     alloc |-> [s \in Slots |-> IF s < n THEN AllocByte(l + s) ELSE 0]]

\* The source, the old program (filled with the byte 1) and the other file.
Disk(n, old, others) ==
    [dir |-> [e \in Entries |->
        CASE e = 0                 -> FileOf(src, FirstData, n)
          [] e = 1 /\ old > 0      -> FileOf(com, FirstData + n, old)
          [] e = 2 /\ others > 0   -> FileOf(other, FirstData + n + old, others)
          [] OTHER                 -> FreeEntry],
     sec |-> [l \in DataSectors |->
        [i \in 0 .. SectorBytes - 1 |->
            IF FirstData + n <= l /\ l < FirstData + n + old THEN 1 ELSE 0]]]

MCImages == {Disk(z[1], z[2], z[3]) :
                z \in {y \in {1, 2, 3} \X {0, 2} \X {0, 1} :
                        FirstData + y[1] + y[2] + y[3] <= Tracks * SectorsPerTrack}}

ASSUME MCImagesSound ==
    \A image \in MCImages : ImageSound(image) /\ Unmixed(image)
=============================================================================
