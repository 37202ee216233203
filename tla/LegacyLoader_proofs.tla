-------------------------- MODULE LegacyLoader_proofs --------------------------
(***************************************************************************)
(* LegacyInv is an inductive invariant of the legacy boot, for every disk, *)
(* every memory map and every geometry: the files arrive whole, memory is  *)
(* sized from the map and mapped to itself.                                *)
(***************************************************************************)
EXTENDS LegacyLoader, TLAPS

-----------------------------------------------------------------------------
\* The arithmetic of boot.asm and loader.asm: ReadSector reads the sector it
\* is asked for, and GetFATEntry the entry of the cluster, on both sides of a
\* sector border.

\* Division with remainder.
LEMMA DivMod ==
    ASSUME NEW a \in Nat, NEW b \in Nat \ {0}
    PROVE  /\ a \div b \in Nat /\ a % b \in Nat
           /\ a = b * (a \div b) + (a % b)
  OBVIOUS

\* A quotient and a remainder are the only ones.
LEMMA DivUnique ==
    ASSUME NEW q \in Nat, NEW b \in Nat \ {0}, NEW r \in 0 .. b - 1
    PROVE  (q * b + r) \div b = q /\ (q * b + r) % b = r
  OBVIOUS

\* Cylinder, head and sector, computed by ReadSector of both programs, are
\* those of the sector asked for.
THEOREM SectorsInPlace ==
    ASSUME GeometryAssumption, NEW lba \in Nat
    PROVE  ReadSector(lba) = lba
  <1> DEFINE track == lba \div SecPerTrk
             rest == lba % SecPerTrk
  <1>1. SecPerTrk \in Nat \ {0}  BY DEF GeometryAssumption
  <1>2. track \in Nat /\ rest \in Nat /\ lba = SecPerTrk * track + rest
    BY <1>1, DivMod, Zenon
  <1>3. (track \div 2) * 2 + (track % 2) = track
    <2> HIDE DEF track
    <2> QED  BY <1>2
  <1>4. ReadSector(lba) = ((track \div 2) * 2 + (track % 2)) * SecPerTrk + (rest + 1) - 1
    BY DEF ReadSector, SectorAt, Place, NumHeads
  <1> HIDE DEF track, rest
  <1> QED  BY <1>1, <1>2, <1>3, <1>4

\* The two sectors GetFATEntry reads hold the table's bytes from the first
\* of them on.
LEMMA BufferBytes ==
    ASSUME GeometryAssumption, NEW fat, NEW o \in Nat, NEW j \in Nat
    PROVE  Buffer(fat, SectorNoOfFAT1 + o \div BytesPerSec, (o % BytesPerSec) + j)
             = FatByte(fat, o + j)
  <1> DEFINE B == BytesPerSec
             q == o \div B
             r == o % B
             i == r + j
  <1>1. B \in Nat \ {0}  BY DEF GeometryAssumption
  <1>2. q \in Nat /\ r \in Nat /\ o = B * q + r  BY <1>1, DivMod, Zenon
  <1>3. i \in Nat /\ i \div B \in Nat /\ i % B \in Nat /\ i = B * (i \div B) + (i % B)
    <2>1. i \in Nat  BY <1>2
    <2> HIDE DEF i, B
    <2> QED  BY <1>1, <2>1, DivMod, Zenon
  <1>4. SectorNoOfFAT1 + q \in Nat  BY <1>2 DEF SectorNoOfFAT1
  <1>5. ReadSector(SectorNoOfFAT1 + q) = SectorNoOfFAT1 + q
    BY <1>4, SectorsInPlace
  <1>6. Buffer(fat, SectorNoOfFAT1 + q, i)
          = FatByte(fat, (SectorNoOfFAT1 + q + i \div B - SectorNoOfFAT1) * B + (i % B))
    BY <1>5 DEF Buffer
  <1>7. (SectorNoOfFAT1 + q + i \div B - SectorNoOfFAT1) * B + (i % B) = o + j
    <2> HIDE DEF q, r
    <2>1. SectorNoOfFAT1 + q + i \div B - SectorNoOfFAT1 = q + i \div B
      BY <1>2, <1>3 DEF SectorNoOfFAT1
    <2>2. (q + i \div B) * B + (i % B) = q * B + i
      <3> HIDE DEF i, B
      <3> QED  BY <1>1, <1>2, <1>3
    <2> QED  BY <1>1, <1>2, <2>1, <2>2
  <1> QED  BY <1>6, <1>7

\* The first of two packed entries, read from its two bytes.
LEMMA EvenEntry ==
    ASSUME NEW f \in Entries, NEW g \in Entries
    PROVE  ((f % 256) + 256 * (f \div 256 + 16 * (g % 16))) % 4096 = f
  <1> DEFINE a == f % 256
             b == f \div 256
             c == g % 16
  <1>1. f = 256 * b + a /\ a \in Nat /\ b \in Nat /\ c \in Nat  BY DEF Entries
  <1>2. (c * 4096 + f) % 4096 = f  BY <1>1 DEF Entries
  <1>3. a + 256 * (b + 16 * c) = c * 4096 + f
    <2> HIDE DEF a, b, c
    <2> QED  BY <1>1
  <1> QED  BY <1>2, <1>3

\* The second of them.
LEMMA OddEntry ==
    ASSUME NEW f \in Entries, NEW g \in Entries
    PROVE  ((f \div 256 + 16 * (g % 16) + 256 * (g \div 16)) \div 16) % 4096 = g
  <1> DEFINE a == g % 16
             b == f \div 256
             c == g \div 16
  <1>1. g = 16 * c + a /\ a \in Nat /\ c \in Nat  BY DEF Entries
  <1>4. b \in 0 .. 15  BY DEF Entries
  <1>2. (16 * g + b) \div 16 = g /\ g % 4096 = g
    <2> HIDE DEF b
    <2> QED  BY <1>4 DEF Entries
  <1>3. b + 16 * a + 256 * c = 16 * g + b
    <2> HIDE DEF a, b, c
    <2> QED  BY <1>1, <1>4
  <1> QED  BY <1>2, <1>3

\* The table has room for an even number of entries.
LEMMA EntriesEven ==
    ASSUME GeometryAssumption
    PROVE  FatEntries \in Nat /\ FatEntries % 2 = 0
  <1> DEFINE t == FATsz * BytesPerSec
  <1>1. t \in Nat /\ t % 3 = 0  BY DEF GeometryAssumption
  <1>2. 2 * FATsz * BytesPerSec = 2 * t  BY DEF GeometryAssumption
  <1>3. FatEntries = (2 * t) \div 3  BY <1>2 DEF FatEntries
  <1> HIDE DEF t
  <1>4. (2 * t) \div 3 = 2 * (t \div 3) /\ t \div 3 \in Nat  BY <1>1
  <1> QED  BY <1>3, <1>4

\* GetFATEntry returns the entry of the cluster, although entries are packed
\* two to three bytes and may lie across the border of two sectors.
THEOREM EntryReadBack ==
    ASSUME GeometryAssumption,
           NEW fat \in [0 .. FatEntries - 1 -> Entries],
           NEW n \in 0 .. FatEntries - 1
    PROVE  GetFATEntry(fat, n) = fat[n]
  <1> DEFINE o == FatOffset(n)
             word == FatByte(fat, o) + 256 * FatByte(fat, o + 1)
  <1>1. n \in Nat /\ o \in Nat  BY EntriesEven DEF FatOffset
  <1>2. GetFATEntry(fat, n)
          = (IF (n * 3) % 2 = 1 THEN word \div 16 ELSE word) % 4096
    <2>1. /\ Buffer(fat, FatSectorOf(n), (o % BytesPerSec) + 0) = FatByte(fat, o + 0)
          /\ Buffer(fat, FatSectorOf(n), (o % BytesPerSec) + 1) = FatByte(fat, o + 1)
      BY <1>1, BufferBytes DEF FatSectorOf
    <2>2. o + 0 = o /\ (o % BytesPerSec) + 0 = o % BytesPerSec
      <3>1. BytesPerSec \in Nat \ {0}  BY DEF GeometryAssumption
      <3>2. o % BytesPerSec \in Nat  BY <1>1, <3>1, DivMod, Zenon
      <3> QED  BY <1>1, <3>2
    <2> QED  BY <2>1, <2>2 DEF GetFATEntry
  <1>3. CASE n % 2 = 0
    <2> DEFINE m == n \div 2
               f == fat[n]
               g == fat[n + 1]
    <2>1. m \in Nat /\ n = 2 * m /\ o = 3 * m  BY <1>1, <1>3 DEF FatOffset
    <2>2. FatByte(fat, o) = f % 256
      <3>1. o % 3 = 0 /\ 2 * (o \div 3) = n  BY <2>1
      <3> QED  BY <3>1 DEF FatByte
    <2>3. FatByte(fat, o + 1) = f \div 256 + 16 * (g % 16)
      <3>1. (o + 1) % 3 = 1 /\ 2 * ((o + 1) \div 3) = n  BY <2>1
      <3> QED  BY <3>1 DEF FatByte
    <2>4. f \in Entries /\ g \in Entries
      <3>1. FatEntries \in Nat /\ FatEntries % 2 = 0  BY EntriesEven
      <3>2. n + 1 \in 0 .. FatEntries - 1  BY <1>1, <1>3, <3>1
      <3> QED  BY <3>2
    <2>5. (n * 3) % 2 = 0  BY <2>1
    <2>6. ((f % 256) + 256 * (f \div 256 + 16 * (g % 16))) % 4096 = f
      <3> HIDE DEF f, g
      <3> QED  BY <2>4, EvenEntry, SMTT(30)
    <2> QED  BY <1>2, <2>2, <2>3, <2>5, <2>6
  <1>4. CASE n % 2 = 1
    <2> DEFINE m == n \div 2
               f == fat[n - 1]
               g == fat[n]
    <2>1. m \in Nat /\ n = 2 * m + 1 /\ o = 3 * m + 1  BY <1>1, <1>4 DEF FatOffset
    <2>2. FatByte(fat, o) = f \div 256 + 16 * (g % 16)
      <3>1. o % 3 = 1 /\ 2 * (o \div 3) = n - 1 /\ n - 1 + 1 = n  BY <2>1
      <3> QED  BY <3>1 DEF FatByte
    <2>3. FatByte(fat, o + 1) = g \div 16
      <3>1. (o + 1) % 3 = 2 /\ 2 * ((o + 1) \div 3) + 1 = n  BY <2>1
      <3> QED  BY <3>1 DEF FatByte
    <2>4. f \in Entries /\ g \in Entries
      <3>1. FatEntries \in Nat  BY EntriesEven
      <3>2. n - 1 \in 0 .. FatEntries - 1  BY <2>1, <3>1
      <3> QED  BY <3>2
    <2>5. (n * 3) % 2 = 1  BY <2>1
    <2>6. ((f \div 256 + 16 * (g % 16) + 256 * (g \div 16)) \div 16) % 4096 = g
      <3> HIDE DEF f, g
      <3> QED  BY <2>4, OddEntry, SMTT(30)
    <2> QED  BY <1>2, <2>2, <2>3, <2>5, <2>6
  <1> QED  BY <1>1, <1>3, <1>4

-----------------------------------------------------------------------------
\* What a definition of LegacyInv that reads only the disk and the files keeps
\* when a step leaves these alone.
LEMMA FilesKept ==
    ASSUME disk' = disk, window' = window, bx' = bx
    PROVE  /\ \A p : Names(p)' = Names(p)
           /\ \A p, c : FirstClusterIs(p, c)' = FirstClusterIs(p, c)
           /\ \A p, i : ClusterIn(p, i)' = ClusterIn(p, i)
           /\ \A p, n : HoldsChain(p, n)' = HoldsChain(p, n)
           /\ \A p : HoldsFile(p)' = HoldsFile(p)
  BY DEF Names, FirstClusterIs, IsFirst, ClusterIn, HoldsChain, HoldsFile

LEMMA InitInv == BInit => LegacyInv
  <1> SUFFICES ASSUME BInit PROVE LegacyInv
    OBVIOUS
  <1>1. BTypeOK
    <2>1. Window \in Nat \ {0} /\ RootDirSectors \in Nat /\ FATsz \in Nat
      BY SizesAssumption, GeometryAssumption DEF GeometryAssumption
    <2>2. wRootDirSizeForLoop \in 0 .. RootDirSectors /\ wSectorNo \in Nat /\ cluster \in Nat
      BY <2>1 DEF BInit, SectorNoOfRootDirectory, SectorNoOfFAT1
    <2>3. bx \in [Programs -> 0 .. Window - 1] /\ wrapped \in [Programs -> BOOLEAN]
      BY <2>1 DEF BInit
    <2>4. window \in [Programs -> [0 .. Window - 1 -> Sectors \cup {Junk}]]
      BY DEF BInit
    <2>5. records \in Seq(Reports) /\ usable \subseteq [base : Nat, length : Nat]
      BY DEF BInit
    <2>6. /\ directory \in [0 .. TableCount - 1 -> 0 .. TableCount - 1 \cup {Junk}]
          /\ table \in [0 .. AddressLimit - 1 -> 0 .. AddressLimit - 1 \cup {Junk}]
      BY DEF BInit
    <2> QED  BY <2>2, <2>3, <2>4, <2>5, <2>6 DEF BInit, BTypeOK, Programs
  <1>2. Searched
    BY GeometryAssumption DEF BInit, Searched, SectorNoOfRootDirectory, SectorNoOfFAT1, Names
  <1>3. ChainSoFar
    BY DEF BInit, ChainSoFar, Loaded
  <1>4. Sized
    BY DEF BInit, Sized, UsableRecords
  <1>5. MemorySized /\ MemoryMapped /\ Copied
    BY DEF BInit, MemorySized, MemoryMapped, Copied
  <1> QED  BY <1>1, <1>2, <1>3, <1>4, <1>5 DEF LegacyInv

LEMMA NoFileKeeps == LegacyInv /\ NoFile => LegacyInv'
  <1> SUFFICES ASSUME LegacyInv, NoFile PROVE LegacyInv'
    OBVIOUS
  <1> USE DEF LegacyInv
  <1>1. BTypeOK'
    BY DEF BTypeOK, NoFile, Goto, files, sizing, memory
  <1>2. Searched'
    BY FilesKept DEF Searched, NoFile, Goto, files, sizing, memory
  <1>3. ChainSoFar'
    BY FilesKept DEF ChainSoFar, Loaded, NoFile, Goto, files, sizing, memory
  <1>4. Sized'
    BY DEF Sized, UsableRecords, NoFile, Goto, files, sizing, memory
  <1>5. MemorySized' /\ MemoryMapped' /\ Copied'
    BY DEF MemorySized, MemoryMapped, Copied, NoFile, Goto
  <1> QED  BY <1>1, <1>2, <1>3, <1>4, <1>5

LEMMA EntriesNat == \A e \in Entries : e \in Nat
  BY DEF Entries

LEMMA RootClusters ==
    ASSUME NEW e \in RootEntry
    PROVE  e.cluster \in Nat
  BY DEF RootEntry

LEMMA SearchKeeps == LegacyInv /\ SearchSector => LegacyInv'
  <1> SUFFICES ASSUME LegacyInv, SearchSector PROVE LegacyInv'
    OBVIOUS
  <1> DEFINE done == RootDirSectors - wRootDirSizeForLoop
             entries == disk.root[done]
  <1> USE DEF LegacyInv
  <1>1. /\ pc = "search" /\ prog \in Programs /\ disk \in Disks
        /\ wRootDirSizeForLoop \in 1 .. RootDirSectors
        /\ RootDirSectors \in Nat /\ done \in 0 .. RootDirSectors - 1
    BY GeometryAssumption DEF SearchSector, BTypeOK
  <1>2. /\ SectorNoOfRootDirectory \in Nat
        /\ wSectorNo = SectorNoOfRootDirectory + done /\ wSectorNo \in Nat
    BY <1>1, GeometryAssumption DEF Searched, SectorNoOfRootDirectory, SectorNoOfFAT1
  <1>3. ReadSector(wSectorNo) = wSectorNo
    BY <1>2, SectorsInPlace, GeometryAssumption
  <1>4. ReadSector(wSectorNo) - SectorNoOfRootDirectory = done
    BY <1>1, <1>2, <1>3
  <1>5. wSectorNo \in Sectors
    <2>1. SectorAt(Place(wSectorNo)) + 1 <= TotSec  BY DEF SearchSector, Readable
    <2>2. TotSec \in Nat  BY GeometryAssumption DEF GeometryAssumption
    <2> QED  BY <1>2, <1>3, <2>1, <2>2 DEF ReadSector, Sectors
  <1>6. /\ disk' = disk /\ prog' = prog /\ wrapped' = wrapped
        /\ wRootDirSizeForLoop' = wRootDirSizeForLoop - 1
        /\ window' = [window EXCEPT ![prog][0] = wSectorNo]
        /\ UNCHANGED <<sizing, memory>>
    BY <1>3 DEF SearchSector
  <1>7. \/ /\ Named(wSectorNo, prog) = {} /\ wSectorNo' = wSectorNo + 1
           /\ UNCHANGED <<pc, cluster, bx>>
        \/ /\ pc' = "load" /\ bx' = [bx EXCEPT ![prog] = 0] /\ wSectorNo' = wSectorNo
           /\ \E e \in Named(wSectorNo, prog) :
                /\ \A n \in Named(wSectorNo, prog) : e <= n
                /\ cluster' = entries[e].cluster
    BY <1>3, <1>4 DEF SearchSector
  <1>8. Named(wSectorNo, prog) = {e \in 1 .. DirEntries : entries[e].name = FileName(prog)}
    BY <1>3, <1>4 DEF Named
  <1>9. \A n \in Names(prog) : n[1] >= done
    BY <1>1 DEF Searched
  <1>10. Names(prog)' = Names(prog)
    BY <1>6 DEF Names
  <1>11. BTypeOK'
    <2>1. cluster' \in Nat
      <3>1. CASE UNCHANGED cluster  BY <3>1 DEF BTypeOK
      <3>2. CASE \E e \in Named(wSectorNo, prog) : cluster' = entries[e].cluster
        <4>1. entries \in [1 .. DirEntries -> RootEntry]
          BY <1>1, DisksAssumption DEF Disk
        <4>2. PICK e \in 1 .. DirEntries : cluster' = entries[e].cluster
          BY <3>2, <1>8
        <4>3. entries[e] \in RootEntry  BY <4>1
        <4> HIDE DEF entries
        <4>4. entries[e].cluster \in Nat  BY <4>3, RootClusters
        <4> QED  BY <4>2, <4>4
      <3> QED  BY <1>7, <3>1, <3>2
    <2>2. window' \in [Programs -> [0 .. Window - 1 -> Sectors \cup {Junk}]]
      BY <1>5, <1>6 DEF BTypeOK
    <2>3. bx' \in [Programs -> 0 .. Window - 1]
      <3>1. bx \in [Programs -> 0 .. Window - 1] /\ 0 \in 0 .. Window - 1
        BY SizesAssumption DEF BTypeOK
      <3>2. bx' = bx \/ bx' = [bx EXCEPT ![prog] = 0]  BY <1>7
      <3> QED  BY <3>1, <3>2
    <2>4. wRootDirSizeForLoop' \in 0 .. RootDirSectors /\ wSectorNo' \in Nat
      BY <1>1, <1>2, <1>6, <1>7
    <2>5. pc' \in {"search", "load"}
      BY <1>1, <1>7
    <2> QED  BY <1>6, <2>1, <2>2, <2>3, <2>4, <2>5 DEF BTypeOK, sizing, memory
  <1>12. Searched'
    <2>1. CASE pc' = "load"
      BY <2>1 DEF Searched
    <2>2. CASE pc' # "load"
      <3>1. /\ Named(wSectorNo, prog) = {} /\ wSectorNo' = wSectorNo + 1 /\ pc' = "search"
        BY <1>1, <1>7, <2>2
      <3>2. \A n \in Names(prog) : n[1] # done
        BY <3>1, <1>8 DEF Names
      <3>3. RootDirSectors - wRootDirSizeForLoop' = done + 1
        BY <1>1, <1>6
      <3>4. \A n \in Names(prog) : n[1] \in Nat
        BY DEF Names
      <3>5. \A n \in Names(prog) : n[1] >= done + 1
        BY <1>1, <1>9, <3>2, <3>4
      <3> QED  BY <1>2, <1>6, <1>10, <3>1, <3>3, <3>5, <1>1 DEF Searched
    <2> QED  BY <2>1, <2>2
  <1>13. ChainSoFar'
    <2>1. pc' = "load" => FirstClusterIs(prog, cluster')
      <3> SUFFICES ASSUME pc' = "load" PROVE FirstClusterIs(prog, cluster')
        OBVIOUS
      <3>1. PICK e \in Named(wSectorNo, prog) :
              /\ \A n \in Named(wSectorNo, prog) : e <= n
              /\ cluster' = entries[e].cluster
        BY <1>1, <1>7
      <3>2. <<done, e>> \in Names(prog)
        BY <1>1, <1>8, <3>1 DEF Names
      <3>3. IsFirst(prog, <<done, e>>)
        <4> SUFFICES ASSUME NEW n \in Names(prog)
                     PROVE  n[1] > done \/ (n[1] = done /\ n[2] >= e)
          BY <3>2 DEF IsFirst
        <4>1. n[1] \in Nat /\ n[2] \in 1 .. DirEntries /\ disk.root[n[1]][n[2]].name = FileName(prog)
          BY DEF Names
        <4>2. CASE n[1] = done
          <5>1. n[2] \in Named(wSectorNo, prog)  BY <4>1, <4>2, <1>8
          <5> QED  BY <5>1, <4>2, <3>1, <4>1, <1>8
        <4>3. CASE n[1] # done
          BY <4>1, <4>3, <1>1, <1>9
        <4> QED  BY <4>2, <4>3
      <3> QED  BY <3>1, <3>2, <3>3 DEF FirstClusterIs
    <2>2. pc' = "load" => FirstClusterIs(prog, cluster)'
      BY <2>1, <1>6 DEF FirstClusterIs, IsFirst, Names
    <2>3. pc' \in {"search", "load"} /\ (pc' = "load" => bx'[prog] = 0)
      BY <1>1, <1>7 DEF BTypeOK
    <2>4. \A p \in Programs : Loaded(p)' => p = "boot" /\ prog = "loader" /\ Loaded(p)
      BY <1>6, <2>3 DEF Loaded, Programs
    <2>5. ASSUME prog = "loader" PROVE HoldsFile("boot")' = HoldsFile("boot")
      <3>1. bx'["boot"] = bx["boot"]
        BY <2>5, <1>7 DEF BTypeOK, Programs
      <3>2. window'["boot"] = window["boot"]
        BY <2>5, <1>6 DEF BTypeOK, Programs
      <3> QED  BY <1>6, <3>1, <3>2
               DEF HoldsFile, HoldsChain, FirstClusterIs, IsFirst, Names, ClusterIn
    <2> QED  BY <1>6, <2>2, <2>3, <2>4, <2>5 DEF ChainSoFar
  <1>14. Sized'
    BY <1>1, <1>6, <1>7 DEF Sized, UsableRecords, sizing
  <1>15. MemorySized' /\ MemoryMapped' /\ Copied'
    BY <1>1, <1>7 DEF MemorySized, MemoryMapped, Copied
  <1> QED  BY <1>11, <1>12, <1>13, <1>14, <1>15

\* A sector that can be read for a cluster is on the disk, and the cluster in
\* the table.
LEMMA ClusterOnDisk ==
    ASSUME NEW c \in Nat, Readable(SectorOf(c), 1)
    PROVE  /\ ReadSector(SectorOf(c)) = SectorOf(c) /\ SectorOf(c) \in Sectors
           /\ c \in 0 .. FatEntries - 1
           /\ SectorOf(c) - SectorOf(0) = c
  <1>1. /\ RootDirSectors \in Nat /\ TotSec \in Nat /\ FATsz \in Nat \ {0}
        /\ TotSec <= SectorNoOfRootDirectory + RootDirSectors + FatEntries - 2
    BY GeometryAssumption DEF GeometryAssumption
  <1>2. FatEntries \in Nat  BY EntriesEven, GeometryAssumption
  <1>3. SectorNoOfRootDirectory \in Nat \ {0, 1, 2}
    BY <1>1 DEF SectorNoOfRootDirectory, SectorNoOfFAT1
  <1>4. SectorOf(c) = c + RootDirSectors + (SectorNoOfRootDirectory - 2) /\ SectorOf(c) \in Nat
    BY <1>1, <1>3 DEF SectorOf, DeltaSectorNo
  <1>5. ReadSector(SectorOf(c)) = SectorOf(c)
    BY <1>4, SectorsInPlace, GeometryAssumption
  <1>6. SectorOf(c) + 1 <= TotSec
    BY <1>5 DEF Readable, ReadSector
  <1>7. SectorOf(0) = RootDirSectors + (SectorNoOfRootDirectory - 2)
    BY <1>1, <1>3 DEF SectorOf, DeltaSectorNo
  <1> HIDE DEF SectorOf
  <1> QED  BY <1>1, <1>2, <1>3, <1>4, <1>5, <1>6, <1>7 DEF Sectors

LEMMA LoadKeeps == LegacyInv /\ LoadSector => LegacyInv'
  <1> SUFFICES ASSUME LegacyInv, LoadSector, NEW q, q = prog, NEW n, n = bx[prog]
               PROVE  LegacyInv'
    OBVIOUS
  <1> USE DEF LegacyInv
  <1>1. /\ pc = "load" /\ pc' = "next" /\ prog \in Programs
        /\ cluster \in Nat /\ n \in 0 .. Window - 1 /\ Window \in Nat
    BY SizesAssumption DEF LoadSector, Goto, BTypeOK
  <1>2. /\ ReadSector(SectorOf(cluster)) = SectorOf(cluster) /\ SectorOf(cluster) \in Sectors
        /\ SectorOf(cluster) - SectorOf(0) = cluster /\ cluster \in 0 .. FatEntries - 1
    BY <1>1, ClusterOnDisk DEF LoadSector
  <1>3. window' = [window EXCEPT ![prog][n] = SectorOf(cluster)]
    BY <1>2 DEF LoadSector
  <1>4. UNCHANGED <<disk, prog, wRootDirSizeForLoop, wSectorNo, cluster, bx, wrapped, sizing, memory>>
    BY DEF LoadSector
  <1>5. window' \in [Programs -> [0 .. Window - 1 -> Sectors \cup {Junk}]]
    BY <1>2, <1>3 DEF BTypeOK
  <1>6. BTypeOK'
    BY <1>1, <1>2, <1>4, <1>5 DEF BTypeOK, sizing, memory
  <1>7. \A p : Names(p)' = Names(p) /\ (\A c : FirstClusterIs(p, c)' = FirstClusterIs(p, c))
    BY <1>4 DEF FirstClusterIs, IsFirst, Names
  <1>8. Searched'
    BY <1>1, <1>4 DEF Searched
  <1>9. /\ ClusterIn(q, n)' = cluster
        /\ \A i \in 0 .. n - 1 : ClusterIn(q, i)' = ClusterIn(q, i)
    BY <1>1, <1>2, <1>3, <1>4 DEF ClusterIn, BTypeOK
  <1>10. ChainSoFar'
    <2>1. ASSUME ~wrapped[q] PROVE HoldsChain(q, n)'
      <3>1. CASE n = 0
        <4>1. FirstClusterIs(q, cluster)  BY <1>1, <2>1, <3>1 DEF ChainSoFar
        <4> QED  BY <1>1, <1>2, <1>4, <1>7, <1>9, <3>1, <4>1 DEF HoldsChain, FirstClusterIs, IsFirst, Names, FatEntries
      <3>2. CASE n # 0
        <4>1. HoldsChain(q, n - 1) /\ disk.fat[ClusterIn(q, n - 1)] = cluster
          BY <1>1, <2>1, <3>2 DEF ChainSoFar
        <4>2. FirstClusterIs(q, ClusterIn(q, 0))'
          <5>1. FirstClusterIs(q, ClusterIn(q, 0))  BY <4>1 DEF HoldsChain
          <5>2. ClusterIn(q, 0)' = ClusterIn(q, 0)  BY <1>1, <1>9, <3>2
          <5> QED  BY <1>4, <5>1, <5>2 DEF FirstClusterIs, IsFirst, Names
        <4>3. ASSUME NEW i \in 1 .. n
              PROVE  disk.fat[ClusterIn(q, i - 1)'] = ClusterIn(q, i)'
          <5>1. CASE i = n
            <6>1. n - 1 \in 0 .. n - 1  BY <1>1, <3>2
            <6>2. ClusterIn(q, n - 1)' = ClusterIn(q, n - 1)  BY <1>9, <6>1
            <6>3. ClusterIn(q, i - 1)' = ClusterIn(q, n - 1)' /\ ClusterIn(q, i)' = cluster
              BY <1>9, <5>1
            <6> QED  BY <4>1, <6>2, <6>3
          <5>2. CASE i # n
            <6>1. i \in 1 .. n - 1 /\ i \in 0 .. n - 1 /\ i - 1 \in 0 .. n - 1
              BY <1>1, <5>2
            <6>2. disk.fat[ClusterIn(q, i - 1)] = ClusterIn(q, i)
              BY <4>1, <6>1 DEF HoldsChain
            <6> QED  BY <1>9, <6>1, <6>2
          <5> QED  BY <5>1, <5>2
        <4>4. ASSUME NEW i \in 0 .. n
              PROVE  ClusterIn(q, i)' \in 0 .. FatEntries - 1
          <5>1. CASE i = n  BY <1>2, <1>9, <5>1
          <5>2. CASE i # n
            <6>1. i \in 0 .. n - 1  BY <1>1, <5>2
            <6>2. ClusterIn(q, i) \in 0 .. FatEntries - 1
              BY <4>1, <6>1 DEF HoldsChain
            <6> QED  BY <1>9, <6>1, <6>2
          <5> QED  BY <5>1, <5>2
        <4> QED  BY <1>4, <4>2, <4>3, <4>4 DEF HoldsChain, FatEntries
      <3> QED  BY <3>1, <3>2
    <2>2. \A p \in Programs : Loaded(p)' => p = "boot" /\ prog = "loader" /\ Loaded(p)
      BY <1>1, <1>4 DEF Loaded, Programs
    <2>3. ASSUME prog = "loader" PROVE HoldsFile("boot")' = HoldsFile("boot")
      <3>1. window'["boot"] = window["boot"]
        BY <2>3, <1>3 DEF BTypeOK, Programs
      <3> QED  BY <1>4, <3>1 DEF HoldsFile, HoldsChain, FirstClusterIs, IsFirst, Names, ClusterIn
    <2> QED  BY <1>1, <1>4, <1>9, <2>1, <2>2, <2>3 DEF ChainSoFar
  <1>11. Sized'
    BY <1>1, <1>4 DEF Sized, UsableRecords, sizing
  <1>12. MemorySized' /\ MemoryMapped' /\ Copied'
    BY <1>1 DEF MemorySized, MemoryMapped, Copied
  <1> QED  BY <1>6, <1>8, <1>10, <1>11, <1>12

LEMMA NextKeeps == LegacyInv /\ NextCluster => LegacyInv'
  <1> SUFFICES ASSUME LegacyInv, NextCluster, NEW q, q = prog, NEW n, n = bx[prog]
               PROVE  LegacyInv'
    OBVIOUS
  <1> DEFINE entry == disk.fat[cluster]
  <1> USE DEF LegacyInv
  <1>1. /\ pc = "next" /\ prog \in Programs /\ disk \in Disks
        /\ cluster \in Nat /\ n \in 0 .. Window - 1 /\ Window \in Nat \ {0}
    BY SizesAssumption DEF NextCluster, BTypeOK
  <1>2. UNCHANGED <<disk, prog, wRootDirSizeForLoop, wSectorNo, window, sizing, memory>>
    BY DEF NextCluster
  <1>3. cluster \in 0 .. FatEntries - 1
    BY <1>1 DEF BTypeOK
  <1>4. disk.fat \in [0 .. FatEntries - 1 -> Entries]
    BY <1>1, DisksAssumption DEF Disk
  <1>5. GetFATEntry(disk.fat, cluster) = entry
    BY <1>3, <1>4, EntryReadBack, GeometryAssumption
  <1>6. \/ entry = EndOfFile /\ pc' = "loaded" /\ UNCHANGED <<cluster, bx, wrapped>>
        \/ /\ entry # EndOfFile /\ pc' = "load" /\ cluster' = entry
           /\ bx' = [bx EXCEPT ![prog] = (n + 1) % Window]
           /\ wrapped' = [wrapped EXCEPT ![prog] = wrapped[prog] \/ bx'[prog] = 0]
    BY <1>5 DEF NextCluster
  <1>7. entry \in Nat
    <2>1. entry \in Entries  BY <1>3, <1>4
    <2> QED  BY <2>1, EntriesNat, Zenon
  <1>8. (n + 1) % Window = (IF n = Window - 1 THEN 0 ELSE n + 1)
    <2>1. CASE n = Window - 1
      BY <1>1, <2>1
    <2>2. CASE n # Window - 1
      <3>1. n + 1 \in 0 .. Window - 1  BY <1>1, <2>2
      <3>2. (0 * Window + (n + 1)) % Window = n + 1  BY <1>1, <3>1, DivUnique
      <3> QED  BY <1>1, <2>2, <3>1, <3>2
    <2> QED  BY <2>1, <2>2
  <1>9. BTypeOK'
    <2>1. bx' \in [Programs -> 0 .. Window - 1]
      <3>1. (n + 1) % Window \in 0 .. Window - 1
        <4> QED  BY <1>1, <1>8
      <3> QED  BY <1>6, <3>1 DEF BTypeOK
    <2>2. wrapped' \in [Programs -> BOOLEAN]
      BY <1>6 DEF BTypeOK
    <2> QED  BY <1>1, <1>2, <1>6, <1>7, <2>1, <2>2 DEF BTypeOK, sizing, memory
  <1>10. \A p : /\ Names(p)' = Names(p)
                /\ \A c : FirstClusterIs(p, c)' = FirstClusterIs(p, c)
                /\ \A i : ClusterIn(p, i)' = ClusterIn(p, i)
                /\ \A i : HoldsChain(p, i)' = HoldsChain(p, i)
    BY <1>2 DEF Names, FirstClusterIs, IsFirst, ClusterIn, HoldsChain
  <1>11. Searched'
    BY <1>1, <1>2, <1>6 DEF Searched
  <1>12. ChainSoFar'
    <2>1. ASSUME ~wrapped[q]
          PROVE  HoldsChain(q, n) /\ ClusterIn(q, n) = cluster
      BY <1>1, <2>1 DEF ChainSoFar
    <2>2. CASE entry = EndOfFile /\ pc' = "loaded" /\ UNCHANGED <<cluster, bx, wrapped>>
      <3>1. ASSUME ~wrapped'[q] PROVE HoldsFile(q)'
        BY <1>2, <1>10, <2>1, <2>2, <3>1 DEF HoldsFile
      <3>2. ASSUME prog = "loader" PROVE HoldsFile("boot")' = HoldsFile("boot")
        BY <1>2, <1>10, <2>2 DEF HoldsFile
      <3>3. \A p \in Programs : Loaded(p)' => p = prog \/ (p = "boot" /\ prog = "loader" /\ Loaded(p))
        BY <1>1, <1>2, <2>2 DEF Loaded, Programs
      <3> QED  BY <1>2, <2>2, <3>1, <3>2, <3>3 DEF ChainSoFar
    <2>3. CASE /\ entry # EndOfFile /\ pc' = "load" /\ cluster' = entry
               /\ bx' = [bx EXCEPT ![q] = (n + 1) % Window]
               /\ wrapped' = [wrapped EXCEPT ![q] = wrapped[q] \/ bx'[q] = 0]
      <3>1. bx'[q] = (n + 1) % Window /\ (wrapped'[q] <=> wrapped[q] \/ bx'[q] = 0)
        BY <1>1, <2>3 DEF BTypeOK
      <3>2. ASSUME ~wrapped'[q]
            PROVE  /\ bx'[q] # 0 /\ HoldsChain(q, bx[q] - 1)'
                   /\ disk'.fat[ClusterIn(q, bx[q] - 1)'] = cluster'
        <4>1. ~wrapped[q] /\ bx'[q] = n + 1 /\ bx'[q] # 0 /\ bx'[q] - 1 = n
          BY <1>1, <1>8, <3>1, <3>2
        <4> QED  BY <1>2, <1>10, <2>1, <2>3, <4>1
      <3>3. \A p \in Programs : Loaded(p)' => p = "boot" /\ prog = "loader" /\ Loaded(p)
        BY <1>2, <2>3 DEF Loaded, Programs
      <3>4. ASSUME prog = "loader"
            PROVE  /\ HoldsFile("boot")' = HoldsFile("boot")
                   /\ wrapped'["boot"] = wrapped["boot"]
        <4>1. bx'["boot"] = bx["boot"] /\ wrapped'["boot"] = wrapped["boot"]
          BY <2>3, <3>4 DEF BTypeOK, Programs
        <4> QED  BY <1>2, <1>10, <4>1 DEF HoldsFile
      <3> QED  BY <1>2, <2>3, <3>2, <3>3, <3>4 DEF ChainSoFar
    <2> QED  BY <1>6, <2>2, <2>3
  <1>13. Sized'
    BY <1>1, <1>2, <1>6 DEF Sized, UsableRecords, sizing
  <1>14. MemorySized' /\ MemoryMapped' /\ Copied'
    BY <1>1, <1>6 DEF MemorySized, MemoryMapped, Copied
  <1> QED  BY <1>9, <1>11, <1>12, <1>13, <1>14

LEMMA EnterKeeps == LegacyInv /\ EnterLoader => LegacyInv'
  <1> SUFFICES ASSUME LegacyInv, EnterLoader PROVE LegacyInv'
    OBVIOUS
  <1> USE DEF LegacyInv
  <1>1. /\ prog = "boot" /\ prog' = "loader" /\ pc = "loaded"
        /\ pc' = "detect"
        /\ wRootDirSizeForLoop' = RootDirSectors /\ wSectorNo' = SectorNoOfRootDirectory
        /\ UNCHANGED <<disk, cluster, bx, window, wrapped, sizing, memory>>
    BY DEF EnterLoader, Goto
  <1>2. RootDirSectors \in Nat /\ SectorNoOfRootDirectory \in Nat
    BY GeometryAssumption DEF GeometryAssumption, SectorNoOfRootDirectory, SectorNoOfFAT1
  <1>3. BTypeOK'
    BY <1>1, <1>2 DEF BTypeOK, sizing, memory, Programs
  <1>4. Searched'
    <2>1. \A n \in Names("loader") : n[1] >= 0
      BY DEF Names
    <2>2. Names(prog)' = Names("loader")
      BY <1>1 DEF Names
    <2> QED  BY <1>1, <1>2, <2>1, <2>2 DEF Searched
  <1>5. ChainSoFar'
    <2>1. ~wrapped["boot"] => HoldsFile("boot")'
      BY <1>1, FilesKept DEF ChainSoFar
    <2>2. ~Loaded("loader")'
      BY <1>1 DEF Loaded
    <2> QED  BY <1>1, <2>1, <2>2 DEF ChainSoFar, Programs
  <1>6. Sized'
    BY <1>1 DEF Sized, UsableRecords, sizing
  <1>7. MemorySized' /\ MemoryMapped' /\ Copied'
    BY <1>1 DEF MemorySized, MemoryMapped, Copied
  <1> QED  BY <1>3, <1>4, <1>5, <1>6, <1>7

\* The usable records with one more report.
LEMMA StoreKeeps ==
    ASSUME NEW r \in Reports, records \in Seq(Reports), usable = UsableRecords,
           usable \subseteq [base : Nat, length : Nat], Store(r)
    PROVE  /\ records' \in Seq(Reports)
           /\ usable' = UsableRecords' /\ usable' \subseteq [base : Nat, length : Nat]
  <1>1. r \in Report  BY ReportsAssumption
  <1>2. r.base \in Nat /\ r.length \in Nat  BY <1>1 DEF Report
  <1>3. [base |-> r.base, length |-> r.length] \in [base : Nat, length : Nat]
    BY <1>2
  <1>4. CASE ~Counts(r)
    BY <1>4 DEF Store, UsableRecords
  <1>5. CASE Counts(r)
    <2> DEFINE region(s, i) == [base |-> s[i].base, length |-> s[i].length]
               n == Len(records)
    <2>1. /\ records' = Append(records, r)
          /\ usable' = usable \cup (IF r.usable THEN {[base |-> r.base, length |-> r.length]} ELSE {})
      BY <1>5 DEF Store
    <2>2. /\ records' \in Seq(Reports) /\ n \in Nat
          /\ DOMAIN records = 1 .. n /\ DOMAIN records' = 1 .. n + 1
          /\ records'[n + 1] = r /\ \A i \in 1 .. n : records'[i] = records[i]
      BY <2>1
    <2>3. UsableRecords = {region(records, i) : i \in {j \in 1 .. n : records[j].usable}}
      BY <2>2 DEF UsableRecords
    <2>4. UsableRecords' = {region(records', i) : i \in {j \in 1 .. n + 1 : records'[j].usable}}
      BY <2>2 DEF UsableRecords
    <2>5. UsableRecords' = usable'
      <3>1. ASSUME NEW m \in UsableRecords' PROVE m \in usable'
        <4>1. PICK i \in 1 .. n + 1 : records'[i].usable /\ m = region(records', i)
          BY <2>4
        <4>2. CASE i = n + 1  BY <2>1, <2>2, <4>1, <4>2
        <4>3. CASE i # n + 1
          <5>1. i \in 1 .. n  BY <2>2, <4>3
          <5> QED  BY <2>1, <2>2, <2>3, <4>1, <5>1
        <4> QED  BY <4>2, <4>3
      <3>2. ASSUME NEW m \in usable' PROVE m \in UsableRecords'
        <4>1. CASE m \in usable
          <5>1. PICK i \in 1 .. n : records[i].usable /\ m = region(records, i)
            BY <2>3, <4>1
          <5>2. i \in 1 .. n + 1  BY <2>2
          <5> QED  BY <2>2, <2>4, <5>1, <5>2
        <4>2. CASE r.usable /\ m = [base |-> r.base, length |-> r.length]
          <5>1. n + 1 \in 1 .. n + 1  BY <2>2
          <5> QED  BY <2>2, <2>4, <4>2, <5>1
        <4> QED  BY <2>1, <4>1, <4>2
      <3> QED  BY <3>1, <3>2
    <2> QED  BY <1>3, <2>1, <2>2, <2>5
  <1> QED  BY <1>4, <1>5

LEMMA DetectKeeps == LegacyInv /\ DetectMemory => LegacyInv'
  <1> SUFFICES ASSUME LegacyInv, DetectMemory PROVE LegacyInv'
    OBVIOUS
  <1> USE DEF LegacyInv
  <1>1. PICK r \in Reports : FirstReport(r) \/ NextReport(r)
    BY DEF DetectMemory
  <1>2. UNCHANGED <<disk, prog, files, dwMemSize, memory>>
    BY DEF DetectMemory
  <1>3. /\ pc \in {"detect", "again"} /\ pc' \in {"failed", "again", "search", "wild"}
        /\ Store(r) \/ UNCHANGED <<records, usable>>
    BY <1>1 DEF FirstReport, NextReport
  <1>4. prog = "loader"
    BY <1>3 DEF Searched
  <1>5. /\ records' \in Seq(Reports) /\ usable' \subseteq [base : Nat, length : Nat]
        /\ usable' = UsableRecords'
    <2>1. CASE Store(r)
      BY <2>1, StoreKeeps DEF BTypeOK, Sized
    <2>2. CASE UNCHANGED <<records, usable>>
      BY <2>2 DEF BTypeOK, Sized, UsableRecords
    <2> QED  BY <1>3, <2>1, <2>2
  <1>6. BTypeOK'
    BY <1>2, <1>3, <1>5 DEF BTypeOK, files, memory
  <1>7. /\ disk' = disk /\ window' = window /\ bx' = bx /\ prog' = prog /\ wrapped' = wrapped
        /\ wRootDirSizeForLoop' = wRootDirSizeForLoop /\ wSectorNo' = wSectorNo
    BY <1>2 DEF files
  <1>8. Searched'
    BY <1>3, <1>4, <1>7, FilesKept DEF Searched
  <1>9. ChainSoFar'
    <2>1. HoldsFile("boot")' = HoldsFile("boot")
      BY <1>7, FilesKept
    <2>2. ~Loaded("loader")' /\ Loaded("boot")
      BY <1>3, <1>4, <1>7 DEF Loaded
    <2> QED  BY <1>3, <1>7, <2>1, <2>2 DEF ChainSoFar, Programs
  <1>10. Sized'
    BY <1>2, <1>3, <1>5 DEF Sized
  <1>11. MemorySized' /\ MemoryMapped' /\ Copied'
    BY <1>3 DEF MemorySized, MemoryMapped, Copied
  <1> QED  BY <1>6, <1>8, <1>9, <1>10, <1>11
LEMMA ReportNumbers ==
    ASSUME NEW r \in Report
    PROVE  r.base \in Nat /\ r.length \in Nat
  BY DEF Report

\* Below the limit, the low 32 bits of a sum are the sum.
LEMMA NoWrap ==
    ASSUME NEW L \in Nat \ {0}, NEW b \in Nat, NEW l \in Nat, b + l < L
    PROVE  ((b % L) + (l % L)) % L = b + l
  <1>1. \A x \in 0 .. L - 1 : (0 * L + x) % L = x  BY DivUnique
  <1>2. b \in 0 .. L - 1 /\ l \in 0 .. L - 1 /\ b + l \in 0 .. L - 1  OBVIOUS
  <1> QED  BY <1>1, <1>2

\* The size is the end of the highest usable record.
LEMMA PrintKeeps == LegacyInv /\ PrintMemInfo => LegacyInv'
  <1> SUFFICES ASSUME LegacyInv, PrintMemInfo PROVE LegacyInv'
    OBVIOUS
  <1> DEFINE L == AddressLimit
             used == {j \in DOMAIN records : records[j].usable}
  <1> USE DEF LegacyInv
  <1>1. /\ prog = "loader" /\ pc = "loaded" /\ dwMemSize = 0
        /\ pc' = (IF records = <<>> THEN "wild" ELSE "paging")
        /\ UNCHANGED <<disk, prog, files, records, usable, memory>>
    BY DEF PrintMemInfo, Sized
  <1>2. L \in Nat \ {0}  BY SizesAssumption DEF AddressLimit
  <1>3. /\ dwMemSize' \in LowEnds \cup {0}
        /\ \A e \in LowEnds \cup {0} : e <= dwMemSize'
    BY <1>1 DEF PrintMemInfo
  <1>4. \A j \in DOMAIN records : records[j].base \in Nat /\ records[j].length \in Nat
    BY ReportsAssumption, ReportNumbers DEF BTypeOK
  <1>5. dwMemSize' \in Nat
    <2>1. LowEnds \subseteq Nat
      <3> SUFFICES ASSUME NEW j \in used
                   PROVE  ((records[j].base % L) + (records[j].length % L)) % L \in Nat
        BY DEF LowEnds
      <3>1. records[j].base % L \in Nat /\ records[j].length % L \in Nat
        BY <1>2, <1>4, DivMod, Zenon
      <3>2. (records[j].base % L) + (records[j].length % L) \in Nat  BY <3>1
      <3> HIDE DEF L
      <3> QED  BY <1>2, <3>2, DivMod, Zenon
    <2> QED  BY <1>3, <2>1
  <1>6. BTypeOK'
    BY <1>1, <1>5 DEF BTypeOK, files, memory
  <1>7. /\ disk' = disk /\ window' = window /\ bx' = bx /\ wrapped' = wrapped
        /\ wRootDirSizeForLoop' = wRootDirSizeForLoop /\ wSectorNo' = wSectorNo
    BY <1>1 DEF files
  <1>8. Searched'
    BY <1>1 DEF Searched
  <1>9. ChainSoFar'
    <2>1. \A p : HoldsFile(p)' = HoldsFile(p)
      BY <1>7, FilesKept
    <2>2. \A p \in Programs : Loaded(p) /\ Loaded(p)' => (~wrapped[p] => HoldsFile(p))
      BY DEF ChainSoFar
    <2>3. \A p \in Programs : Loaded(p)
      BY <1>1 DEF Loaded, Programs
    <2> QED  BY <1>1, <1>7, <2>1, <2>2, <2>3 DEF ChainSoFar
  <1>10. Sized'
    BY <1>1 DEF Sized, UsableRecords
  <1>11. \A m \in usable : Below4G(m) => m.base + m.length \in LowEnds
    <2> SUFFICES ASSUME NEW m \in usable, Below4G(m)
                 PROVE  m.base + m.length \in LowEnds
      OBVIOUS
    <2>1. PICK j \in used : m = [base |-> records[j].base, length |-> records[j].length]
      BY DEF Sized, UsableRecords
    <2> DEFINE b == records[j].base
               l == records[j].length
    <2>2. b \in Nat /\ l \in Nat /\ m.base = b /\ m.length = l /\ b + l < L
      BY <1>4, <2>1 DEF Below4G
    <2>3. ((b % L) + (l % L)) % L = b + l
      <3> HIDE DEF b, l, L
      <3> QED  BY <1>2, <2>2, NoWrap
    <2>4. ((b % L) + (l % L)) % L \in LowEnds
      BY <2>1 DEF LowEnds
    <2> QED  BY <2>2, <2>3, <2>4
  <1>12. MemorySized'
    <2>1. \A m \in usable : Below4G(m) => m.base + m.length <= dwMemSize'
      BY <1>3, <1>11
    <2>2. ASSUME \A m \in usable : Below4G(m), usable # {}
          PROVE  \E m \in usable : dwMemSize' = m.base + m.length
      <3>1. CASE dwMemSize' \in LowEnds
        <4>1. PICK j \in used :
                dwMemSize' = (((records[j].base % L) + (records[j].length % L)) % L)
          BY <3>1 DEF LowEnds
        <4> DEFINE m == [base |-> records[j].base, length |-> records[j].length]
        <4>2. m \in usable  BY DEF Sized, UsableRecords
        <4>3. m.base \in Nat /\ m.length \in Nat /\ m.base + m.length < L
          BY <1>4, <2>2, <4>2 DEF Below4G
        <4>4. m.base + m.length = dwMemSize'
          <5> DEFINE b == records[j].base
                     l == records[j].length
          <5>1. b \in Nat /\ l \in Nat /\ b + l < L  BY <4>3
          <5>2. ((b % L) + (l % L)) % L = b + l
            <6> HIDE DEF b, l, L
            <6> QED  BY <1>2, <5>1, NoWrap
          <5> QED  BY <4>1, <5>2
        <4> QED  BY <4>2, <4>4
      <3>2. CASE dwMemSize' = 0
        <4>1. PICK m \in usable : TRUE  BY <2>2
        <4>2. m.base + m.length <= 0  BY <2>1, <2>2, <3>2
        <4>3. m.base \in Nat /\ m.length \in Nat  BY DEF BTypeOK
        <4> QED  BY <3>2, <4>2, <4>3
      <3> QED  BY <1>3, <3>1, <3>2
    <2> QED  BY <1>1, <2>1, <2>2 DEF MemorySized, Below4G
  <1>13. MemoryMapped'
    BY <1>1 DEF MemoryMapped
  <1>14. Copied'
    BY <1>1 DEF Copied
  <1> QED  BY <1>6, <1>8, <1>9, <1>10, <1>12, <1>13, <1>14
\* A smaller product has the smaller factor.
LEMMA Quotients ==
    ASSUME NEW P \in Nat \ {0}, NEW a \in Int, NEW d \in Int, P * d < P * a
    PROVE  d < a
  <1> SUFFICES ASSUME a <= d PROVE FALSE
    OBVIOUS
  <1>1. P * (d - a) >= 0  OBVIOUS
  <1> QED  BY <1>1

\* The pages below the size are in the tables that are set up.
LEMMA TablesCover ==
    ASSUME NEW P \in Nat \ {0}, NEW size \in Nat, NEW page \in 0 .. size - 1
    PROVE  LET tables == size \div P + (IF size % P = 0 THEN 0 ELSE 1)
           IN /\ tables \in Nat /\ page \div P \in Nat /\ page \div P < tables
              /\ page < tables * P
              /\ (page \div P) * P + (page % P) = page
  <1> DEFINE a == size \div P
             b == size % P
             d == page \div P
             r == page % P
             tables == a + (IF b = 0 THEN 0 ELSE 1)
  <1>1. a \in Nat /\ b \in Nat /\ size = P * a + b  BY DivMod, Zenon
  <1>2. page \in Nat  OBVIOUS
  <1>3. d \in Nat /\ r \in Nat /\ page = P * d + r  BY <1>2, DivMod, Zenon
  <1>4. b < P  OBVIOUS
  <1> HIDE DEF a, b, d, r
  <1>5. page < P * tables
    <2>1. CASE b = 0  BY <1>1, <2>1
    <2>2. CASE b # 0
      <3>1. P * tables = P * a + P  BY <1>1, <2>2
      <3> QED  BY <1>1, <1>4, <3>1
    <2> QED  BY <2>1, <2>2
  <1>6. tables \in Nat  BY <1>1
  <1> HIDE DEF tables
  <1>7. P * d < P * tables  BY <1>2, <1>3, <1>5, <1>6
  <1>8. d < tables  BY <1>3, <1>6, <1>7, Quotients
  <1>9. d * P + r = page /\ page < tables * P  BY <1>3, <1>5, <1>6
  <1> QED  BY <1>3, <1>6, <1>8, <1>9 DEF a, b, d, r, tables

\* The identity map reaches to the size of memory.
LEMMA PagingKeeps == LegacyInv /\ SetupPaging => LegacyInv'
  <1> SUFFICES ASSUME LegacyInv, SetupPaging PROVE LegacyInv'
    OBVIOUS
  <1> DEFINE P == PagesPerTable
             tables == dwMemSize \div P + (IF dwMemSize % P = 0 THEN 0 ELSE 1)
  <1> USE DEF LegacyInv
  <1>1. /\ pc = "paging" /\ pc' = (IF tables = 0 THEN "wild" ELSE "init")
        /\ directory' = [d \in 0 .. TableCount - 1 |-> IF d < tables THEN d ELSE directory[d]]
        /\ table' = [t \in 0 .. AddressLimit - 1 |->
                       IF t < tables * P THEN t ELSE table[t]]
        /\ UNCHANGED <<disk, prog, files, sizing, ram>>
    BY DEF SetupPaging
  <1>2. /\ disk' = disk /\ window' = window /\ bx' = bx /\ wrapped' = wrapped /\ prog' = prog
        /\ dwMemSize' = dwMemSize /\ usable' = usable /\ records' = records
    BY <1>1 DEF files, sizing
  <1>3. P \in Nat \ {0} /\ TableCount \in Nat \ {0} /\ AddressLimit = P * TableCount
    BY SizesAssumption DEF AddressLimit
  <1>4. BTypeOK'
    <2>1. directory' \in [0 .. TableCount - 1 -> 0 .. TableCount - 1 \cup {Junk}]
      <3> HIDE DEF tables
      <3> QED  BY <1>1 DEF BTypeOK
    <2>2. table' \in [0 .. AddressLimit - 1 -> 0 .. AddressLimit - 1 \cup {Junk}]
      <3> HIDE DEF tables
      <3> QED  BY <1>1 DEF BTypeOK
    <2>3. pc' \in {"wild", "init"}  BY <1>1
    <2> QED  BY <1>1, <1>2, <2>1, <2>2, <2>3 DEF BTypeOK, files, sizing
  <1>5. Searched'
    BY <1>1, FilesKept DEF Searched
  <1>6. ChainSoFar'
    <2>1. \A p : HoldsFile(p)' = HoldsFile(p)
      BY <1>2, FilesKept
    <2>2. \A p \in Programs : Loaded(p)' => Loaded(p)
      BY <1>1, <1>2 DEF Loaded, Programs
    <2> QED  BY <1>1, <1>2, <2>1, <2>2 DEF ChainSoFar
  <1>7. Sized'
    BY <1>1, <1>2 DEF Sized, UsableRecords
  <1>8. MemorySized'
    BY <1>1, <1>2 DEF MemorySized, Below4G
  <1>9. MemoryMapped'
    <2> SUFFICES ASSUME NEW m \in usable, Below4G(m),
                        NEW page \in 0 .. m.base + m.length - 1
                 PROVE  Walk(page)' = page
      BY <1>2 DEF MemoryMapped, Below4G
    <2>1. m.base + m.length <= dwMemSize /\ dwMemSize \in Nat /\ m.base \in Nat /\ m.length \in Nat
      BY <1>1 DEF MemorySized, BTypeOK
    <2>2. page \in 0 .. dwMemSize - 1 /\ page \in Nat /\ page < P * TableCount
      BY <1>3, <2>1 DEF Below4G
    <2> DEFINE d == page \div P
               r == page % P
    <2>3. d \in Nat /\ d < tables /\ page < tables * P /\ d * P + r = page
      BY <1>3, <2>1, <2>2, TablesCover, Zenon
    <2>4. d < TableCount
      <3>1. page = P * d + r /\ r \in Nat
        BY <1>3, <2>2, DivMod, Zenon
      <3>2. P * d < P * TableCount
        <4> HIDE DEF d, r, P
        <4> QED  BY <1>3, <2>2, <2>3, <3>1
      <3> HIDE DEF d, P
      <3> QED  BY <1>3, <2>3, <3>2, Quotients
    <2>5. directory'[d] = d /\ d # Junk
      <3> HIDE DEF d, tables
      <3>1. d \in 0 .. TableCount - 1  BY <1>3, <2>3, <2>4
      <3> QED  BY <1>1, <2>3, <3>1 DEF Junk
    <2>6. table'[page] = page
      <3> HIDE DEF tables
      <3>1. page \in 0 .. AddressLimit - 1  BY <1>3, <2>2
      <3> QED  BY <1>1, <2>3, <3>1
    <2>7. Walk(page)' = (IF directory'[d] = Junk THEN Junk
                         ELSE table'[directory'[d] * P + r])
      BY DEF Walk
    <2> QED  BY <2>3, <2>5, <2>6, <2>7
  <1>10. Copied'
    BY <1>1 DEF Copied
  <1> QED  BY <1>4, <1>5, <1>6, <1>7, <1>8, <1>9, <1>10

\* A file that was loaded from its first cluster on begins at a sector of the
\* disk, whose headers are those the kernel's segments are taken from.
LEMMA FirstSector ==
    ASSUME BTypeOK, NEW p \in Programs, NEW n \in 0 .. Window - 1, HoldsChain(p, n)
    PROVE  /\ \A i \in 0 .. n : window[p][i] = SectorOf(ClusterIn(p, i))
           /\ window[p][0] \in Sectors
           /\ disk.headers \in [Sectors -> Seq(Header)]
  <1>1. SectorNoOfRootDirectory \in Nat /\ SectorNoOfRootDirectory >= 2
        /\ RootDirSectors \in Nat /\ TotSec \in Nat /\ Window \in Nat
    BY GeometryAssumption, SizesAssumption DEF SectorNoOfRootDirectory, SectorNoOfFAT1
  <1>2. /\ SectorOf(0) \in Nat
        /\ \A c : SectorOf(c) = c + RootDirSectors + (SectorNoOfRootDirectory - 2)
    BY <1>1 DEF SectorOf, DeltaSectorNo
  <1>3. \A i \in 0 .. n : /\ window[p][i] \in Sectors \cup {Junk}
                          /\ ClusterIn(p, i) \in 0 .. FatEntries - 1
    BY <1>1 DEF BTypeOK, HoldsChain
  <1>4. ASSUME NEW i \in 0 .. n
        PROVE  window[p][i] \in Sectors /\ window[p][i] = SectorOf(ClusterIn(p, i))
    <2> DEFINE w == window[p][i]
    <2>1. w \in Int /\ ClusterIn(p, i) = w - SectorOf(0)
      BY <1>3 DEF Sectors, Junk, ClusterIn
    <2>2. w - SectorOf(0) >= 0  BY <1>3, <2>1
    <2>3. w # Junk  BY <1>2, <2>1, <2>2 DEF Junk
    <2>4. SectorOf(w - SectorOf(0)) = w
      <3>1. SectorOf(0) = 0 + RootDirSectors + (SectorNoOfRootDirectory - 2)
        BY <1>2
      <3>2. SectorOf(w - SectorOf(0))
              = (w - SectorOf(0)) + RootDirSectors + (SectorNoOfRootDirectory - 2)
        BY <1>2
      <3> HIDE DEF w
      <3> QED  BY <1>1, <2>1, <3>1, <3>2
    <2> QED  BY <1>3, <2>1, <2>3, <2>4
  <1>5. disk.headers \in [Sectors -> Seq(Header)]
    BY DisksAssumption DEF BTypeOK, Disk
  <1> QED  BY <1>1, <1>4, <1>5

LEMMA InitKernelKeeps == LegacyInv /\ InitKernel => LegacyInv'
  <1> SUFFICES ASSUME LegacyInv, InitKernel PROVE LegacyInv'
    OBVIOUS
  <1> USE DEF LegacyInv
  <1>1. /\ pc = "init" /\ pc' \in {"wild", "kernel"}
        /\ UNCHANGED <<disk, prog, files, sizing, directory, table>>
    BY DEF InitKernel
  <1>2. /\ disk' = disk /\ window' = window /\ bx' = bx /\ wrapped' = wrapped /\ prog' = prog
        /\ dwMemSize' = dwMemSize /\ usable' = usable /\ records' = records
        /\ directory' = directory /\ table' = table
    BY <1>1 DEF files, sizing
  <1>3. BTypeOK'
    BY <1>1 DEF BTypeOK, files, sizing
  <1>4. Searched'
    BY <1>1 DEF Searched
  <1>5. ChainSoFar'
    <2>1. \A p : HoldsFile(p)' = HoldsFile(p)
      BY <1>2, FilesKept
    <2>2. \A p \in Programs : Loaded(p)' => Loaded(p)
      BY <1>1, <1>2 DEF Loaded, Programs
    <2> QED  BY <1>1, <1>2, <2>1, <2>2 DEF ChainSoFar
  <1>6. Sized'
    BY <1>1, <1>2 DEF Sized, UsableRecords
  <1>7. MemorySized' /\ MemoryMapped'
    BY <1>1, <1>2 DEF MemorySized, MemoryMapped, Below4G, Walk
  <1>8. Copied'
    <2> DEFINE headers == disk.headers[window["loader"][0]]
               Source(c) == LET h == headers[Max(Covering(headers, c))]
                            IN h.offset + (c - h.vaddr)
    <2>1. ram' = [c \in 0 .. Cells - 1 |->
                    IF Covering(headers, c) = {} THEN ram[c]
                    ELSE window["loader"][Source(c)]]
      BY DEF InitKernel
    <2> SUFFICES ASSUME ~wrapped["loader"],
                        NEW c \in 0 .. Cells - 1, NEW i \in Covering(headers, c),
                        \A j \in Covering(headers, c) : j <= i
                 PROVE  ram'[c] = window["loader"][headers[i].offset + (c - headers[i].vaddr)]
      BY <1>2 DEF Copied, Covering
    <2>2. Max(Covering(headers, c)) = i
      <3>1. HoldsFile("loader")
        BY <1>1 DEF ChainSoFar, Searched, Loaded, Programs
      <3>2. headers \in Seq(Header)
        <4>1. bx["loader"] \in 0 .. Window - 1 /\ "loader" \in Programs
          BY DEF BTypeOK, Programs
        <4>2. HoldsChain("loader", bx["loader"])
          BY <3>1 DEF HoldsFile
        <4> QED  BY <4>1, <4>2, FirstSector
      <3>3. Covering(headers, c) \subseteq Nat
        BY <3>2 DEF Covering
      <3> HIDE DEF headers
      <3>4. \A x \in Covering(headers, c) :
              (\A y \in Covering(headers, c) : x >= y) => x = i
        BY <3>3
      <3>5. \A y \in Covering(headers, c) : i >= y
        BY <3>3
      <3> QED  BY <3>4, <3>5 DEF Max
    <2>3. ram'[c] = window["loader"][Source(c)]
      BY <2>1
    <2> QED  BY <2>2, <2>3
  <1> QED  BY <1>3, <1>4, <1>5, <1>6, <1>7, <1>8

LEMMA StutterKeeps == LegacyInv /\ UNCHANGED bvars => LegacyInv'
  <1> SUFFICES ASSUME LegacyInv, UNCHANGED bvars PROVE LegacyInv'
    OBVIOUS
  <1> USE DEF LegacyInv, bvars, files, sizing, memory
  <1>1. BTypeOK'  BY DEF BTypeOK
  <1>2. Searched'  BY FilesKept DEF Searched
  <1>3. ChainSoFar'  BY FilesKept DEF ChainSoFar, Loaded
  <1>4. Sized'  BY DEF Sized, UsableRecords
  <1>5. MemorySized' /\ MemoryMapped' /\ Copied'
    BY DEF MemorySized, MemoryMapped, Below4G, Walk, Copied, Covering
  <1> QED  BY <1>1, <1>2, <1>3, <1>4, <1>5

\* LegacyInv holds in every state of the boot.
THEOREM LegacyInvariance == BSpec => []LegacyInv
  <1>1. LegacyInv /\ [BNext]_bvars => LegacyInv'
    BY NoFileKeeps, SearchKeeps, LoadKeeps, NextKeeps, EnterKeeps, DetectKeeps,
       PrintKeeps, PagingKeeps, InitKernelKeeps, StutterKeeps DEF BNext
  <1> QED  BY <1>1, InitInv, PTL DEF BSpec

\* LOADER.BIN and KERNEL.BIN arrive whole and in order when they fit, and are
\* missed only when the directory has no entry for them.
THEOREM FilesArriveWhole == BSpec => []FileInPlace
  <1>1. LegacyInv => FileInPlace
    <2> SUFFICES ASSUME LegacyInv PROVE FileInPlace
      OBVIOUS
    <2>1. ASSUME NEW p \in Programs, Loaded(p), ~wrapped[p]
          PROVE  /\ FirstClusterIs(p, ClusterIn(p, 0))
                 /\ \A i \in 1 .. bx[p] : disk.fat[ClusterIn(p, i - 1)] = ClusterIn(p, i)
                 /\ disk.fat[ClusterIn(p, bx[p])] = EndOfFile
      BY <2>1 DEF LegacyInv, ChainSoFar, HoldsFile, HoldsChain
    <2>2. ASSUME pc = "noFile" PROVE Names(prog) = {}
      <3>1. RootDirSectors - wRootDirSizeForLoop = RootDirSectors
        BY <2>2, GeometryAssumption DEF LegacyInv, Searched, GeometryAssumption
      <3>2. \A n \in Names(prog) : n[1] >= RootDirSectors /\ n[1] \in 0 .. RootDirSectors - 1
        BY <2>2, <3>1 DEF LegacyInv, Searched, Names
      <3>3. RootDirSectors \in Nat  BY GeometryAssumption DEF GeometryAssumption
      <3> QED  BY <3>2, <3>3
    <2> QED  BY <2>1, <2>2 DEF FileInPlace
  <1> QED  BY <1>1, LegacyInvariance, PTL

\* The kernel is entered with its segments in place, as the floppy holds them.
THEOREM KernelArrivesWhole == BSpec => []KernelInPlace
  <1>1. LegacyInv => KernelInPlace
    <2> DEFINE n == bx["loader"]
               chain == [i \in 0 .. n |-> ClusterIn("loader", i)]
               headers == disk.headers[SectorOf(chain[0])]
    <2> SUFFICES ASSUME LegacyInv, pc = "kernel", ~wrapped["loader"]
                 PROVE  /\ chain \in [0 .. n -> 0 .. FatEntries - 1]
                        /\ n \in 0 .. Window - 1
                        /\ IsFileOf("loader", chain, n)
                        /\ \A i \in DOMAIN headers : \A k \in 0 .. headers[i].filesz - 1 :
                             LET h == headers[i] IN
                             h.type # 0 /\ h.offset + k <= n
                               /\ (\A j \in Covering(headers, h.vaddr + k) : j <= i)
                               => ram[h.vaddr + k] = SectorOf(chain[h.offset + k])
      BY DEF KernelInPlace
    <2>1. HoldsFile("loader")
      BY DEF LegacyInv, ChainSoFar, Searched, Loaded, Programs
    <2>2. n \in 0 .. Window - 1 /\ "loader" \in Programs
      BY DEF LegacyInv, BTypeOK, Programs
    <2>3. HoldsChain("loader", n) /\ disk.fat[ClusterIn("loader", n)] = EndOfFile
      BY <2>1 DEF HoldsFile
    <2>4. /\ \A i \in 0 .. n : window["loader"][i] = SectorOf(ClusterIn("loader", i))
          /\ window["loader"][0] \in Sectors
          /\ disk.headers \in [Sectors -> Seq(Header)]
      BY <2>2, <2>3, FirstSector DEF LegacyInv
    <2>5. chain \in [0 .. n -> 0 .. FatEntries - 1]
      BY <2>3 DEF HoldsChain
    <2>6. \A i \in 0 .. n : chain[i] = ClusterIn("loader", i)
      OBVIOUS
    <2>7. IsFileOf("loader", chain, n)
      <3> HIDE DEF chain
      <3>1. chain[0] = ClusterIn("loader", 0) /\ chain[n] = ClusterIn("loader", n)
        BY <2>2, <2>6
      <3>2. ASSUME NEW i \in 1 .. n
            PROVE  disk.fat[chain[i - 1]] = chain[i]
        <4>1. i \in 0 .. n /\ i - 1 \in 0 .. n  BY <2>2
        <4> QED  BY <2>3, <2>6, <4>1 DEF HoldsChain
      <3> QED  BY <2>3, <3>1, <3>2 DEF IsFileOf, HoldsChain
    <2>8. headers = disk.headers[window["loader"][0]]
      BY <2>2, <2>4
    <2>9. ASSUME NEW i \in DOMAIN headers, NEW k \in 0 .. headers[i].filesz - 1,
                 headers[i].type # 0, headers[i].offset + k <= n,
                 \A j \in Covering(headers, headers[i].vaddr + k) : j <= i
          PROVE  ram[headers[i].vaddr + k] = SectorOf(chain[headers[i].offset + k])
      <3> DEFINE h == headers[i]
                 c == h.vaddr + k
      <3>1. headers \in Seq(Header)  BY <2>4, <2>8
      <3>2. h \in Header  BY <3>1
      <3>3. h.offset \in Nat /\ h.vaddr \in Nat /\ h.filesz \in Nat /\ h.type \in Nat
        BY <3>2 DEF Header
      <3>4. h.vaddr + h.filesz <= Cells /\ Cells \in Nat
        <4>1. disk \in Disks  BY DEF LegacyInv, BTypeOK
        <4> QED  BY <2>4, <2>8, <4>1, DisksAssumption, SizesAssumption
      <3> HIDE DEF headers
      <3>5. c \in 0 .. Cells - 1 /\ c - h.vaddr = k /\ c < h.vaddr + h.filesz /\ c >= h.vaddr
        BY <3>3, <3>4
      <3>6. i \in Covering(headers, c)
        BY <2>9, <3>5 DEF Covering
      <3>7. ram[c] = window["loader"][h.offset + (c - h.vaddr)]
        BY <2>8, <2>9, <3>5, <3>6 DEF LegacyInv, Copied
      <3>8. h.offset + k \in 0 .. n  BY <2>2, <2>9, <3>3
      <3> QED  BY <2>4, <2>6, <3>5, <3>7, <3>8
    <2> QED  BY <2>2, <2>5, <2>7, <2>9
  <1> QED  BY <1>1, LegacyInvariance, PTL

\* Memory is sized from the usable records, and mapped to itself up to there.
THEOREM MemorySizedAlways == BSpec => []MemorySized
  <1>1. LegacyInv => MemorySized  BY DEF LegacyInv
  <1> QED  BY <1>1, LegacyInvariance, PTL

THEOREM MemoryMappedAlways == BSpec => []MemoryMapped
  <1>1. LegacyInv => MemoryMapped  BY DEF LegacyInv
  <1> QED  BY <1>1, LegacyInvariance, PTL
=============================================================================
