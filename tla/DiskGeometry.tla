---------------------------- MODULE DiskGeometry ----------------------------
(***************************************************************************)
(* The geometry of the TuringOS disk image (src/fs/fs.c, the FS_ macros    *)
(* and the address helpers): sectors are addressed either by their linear  *)
(* number, from 0, or by a track, from 0, and a sector of the track, from  *)
(* 1.  The first sectors of the image hold the directory.                  *)
(***************************************************************************)
EXTENDS Integers

CONSTANTS
    Tracks,             \* FS_TRACKS (77 in the program).
    SectorsPerTrack,    \* FS_SECTORS_PER_TRACK (26).
    SectorBytes,        \* FS_BYTES_PER_SECTOR (256).
    FirstData           \* First sector the allocator hands out (8): the
                        \* directory's 64 entries of 32 bytes come before it.

TotalSectors == Tracks * SectorsPerTrack

ASSUME GeometryAssumption ==
    /\ Tracks \in Nat \ {0}
    /\ SectorsPerTrack \in Nat \ {0}
    /\ SectorBytes \in Nat \ {0}
    /\ TotalSectors \in Nat
    /\ FirstData \in 1 .. TotalSectors

Sectors     == 0 .. TotalSectors - 1
DataSectors == FirstData .. TotalSectors - 1

\* A pair that fs_read_sector and fs_write_sector accept.
ValidAddress(track, sector) ==
    /\ track \in 0 .. Tracks - 1
    /\ sector \in 1 .. SectorsPerTrack

LinearToTrack(linear)  == linear \div SectorsPerTrack
LinearToSector(linear) == (linear % SectorsPerTrack) + 1

TrackSectorToLinear(track, sector) == track * SectorsPerTrack + (sector - 1)

\* fs_sector_offset: the byte of the image where a sector starts.
SectorOffset(track, sector) ==
    TrackSectorToLinear(track, sector) * SectorBytes
=============================================================================
