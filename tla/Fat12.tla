--------------------------------- MODULE Fat12 ---------------------------------
(***************************************************************************)
(* The floppy as boot.asm and loader.asm read it, with the layout of       *)
(* boot/legacy/include/fat12hdr.inc: the boot sector, two copies of the    *)
(* file allocation table, the root directory, and the clusters from number *)
(* 2 on, each of one sector.  A sector's number stands for its data.       *)
(***************************************************************************)
EXTENDS Integers

CONSTANTS
    BytesPerSec,     \* 512, a FAT entry taking one and a half bytes
    SecPerTrk,       \* 18
    TotSec,          \* 2880
    FATsz,           \* 9 sectors
    RootDirSectors,  \* 14
    DirEntries       \* 16 entries in a sector of the root directory

NumHeads == 2
SectorNoOfFAT1 == 1
SectorNoOfRootDirectory == SectorNoOfFAT1 + 2 * FATsz
DeltaSectorNo == SectorNoOfRootDirectory - 2
FatEntries == (2 * FATsz * BytesPerSec) \div 3

Entries == 0 .. 4095
EndOfFile == 4095

ASSUME GeometryAssumption ==
    /\ {BytesPerSec, SecPerTrk, FATsz, RootDirSectors, DirEntries, TotSec} \subseteq Nat \ {0}
    /\ BytesPerSec > 1 /\ (FATsz * BytesPerSec) % 3 = 0
    /\ SectorNoOfFAT1 + FATsz < SecPerTrk
    /\ TotSec <= SectorNoOfRootDirectory + RootDirSectors + FatEntries - 2

\* The file allocation table on the disk: byte k, of a table with the
\* entries fat, which are packed two to three bytes.
FatByte(fat, k) ==
    LET even == fat[2 * (k \div 3)]
        odd  == fat[2 * (k \div 3) + 1]
    IN IF k % 3 = 0 THEN even % 256
       ELSE IF k % 3 = 1 THEN even \div 256 + 16 * (odd % 16)
       ELSE odd \div 16

\* Where the BIOS is asked for a sector, and the sector that is there.
Place(lba) == [sector   |-> (lba % SecPerTrk) + 1,
               head     |-> (lba \div SecPerTrk) % 2,
               cylinder |-> (lba \div SecPerTrk) \div 2]

SectorAt(place) ==
    (place.cylinder * NumHeads + place.head) * SecPerTrk + place.sector - 1

\* The drive can read count sectors from there, all on one track.
Readable(lba, count) == /\ Place(lba).sector + count - 1 <= SecPerTrk
                        /\ SectorAt(Place(lba)) + count <= TotSec

\* ReadSector: the sector read; one that fails is asked for again.
ReadSector(lba) == SectorAt(Place(lba))

SectorOf(cluster) == cluster + RootDirSectors + DeltaSectorNo

\* Where in the table the entry of a cluster begins.
FatOffset(cluster) == (cluster * 3) \div 2
FatSectorOf(cluster) == SectorNoOfFAT1 + FatOffset(cluster) \div BytesPerSec

\* Byte i of the buffer after two sectors from lba on are read into it.
Buffer(fat, lba, i) ==
    LET sector == ReadSector(lba) + i \div BytesPerSec - SectorNoOfFAT1
    IN FatByte(fat, sector * BytesPerSec + (i % BytesPerSec))

\* Mutant: as if an entry never went on in the next sector
GetFATEntry_oneSector(fat, cluster) ==
    LET at == FatOffset(cluster) % BytesPerSec
        lba == FatSectorOf(cluster)
        word == Buffer(fat, lba, at) + 256 * Buffer(fat, lba, (at + 1) % BytesPerSec)
    IN (IF (cluster * 3) % 2 = 1 THEN word \div 16 ELSE word) % 4096

GetFATEntry(fat, cluster) ==
    LET at == FatOffset(cluster) % BytesPerSec
        lba == FatSectorOf(cluster)
        word == Buffer(fat, lba, at) + 256 * Buffer(fat, lba, at + 1)
    IN (IF (cluster * 3) % 2 = 1 THEN word \div 16 ELSE word) % 4096
=============================================================================
