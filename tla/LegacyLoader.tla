----------------------------- MODULE LegacyLoader -----------------------------
(***************************************************************************)
(* The legacy boot: boot.asm loads LOADER.BIN from the floppy, loader.asm  *)
(* takes the memory map of the BIOS, loads KERNEL.BIN, maps memory and     *)
(* copies the kernel's segments in place.                                  *)
(*                                                                         *)
(* Both find a file in the root directory and follow its clusters with the *)
(* same code.  A file is loaded sector by sector into one segment, where   *)
(* the 16-bit offset bx returns to the first slot after the last; a slot   *)
(* holds a sector.  The BIOS may fail to read: it is asked again, which    *)
(* changes nothing; for a sector the disk does not have, and for a slot it *)
(* cannot transfer to, for ever.                                           *)
(*                                                                         *)
(* Addresses count pages, and cells of a sector's size for the kernel's    *)
(* segments.  What runs wild, such as the loop instruction on a count of   *)
(* 0, is one place where nothing more is known.                            *)
(***************************************************************************)
EXTENDS Fat12, Sequences, FiniteSetsExt

CONSTANTS
    Disks,          \* the floppies that may be in the drive
    Window,         \* slots of the segment a file is loaded into: 128
    Reports,        \* what a call of int 15h may answer
    RoomFor,        \* records before MemChkBuf's end reaches variables: 25
    PagesPerTable,  \* 1024
    TableCount,     \* 1024
    Cells           \* the cells of memory that segments are copied to

AddressLimit == PagesPerTable * TableCount
Junk == -1
Programs == {"boot", "loader"}

\* The sectors of FAT1 are numbered from 1 and clusters from 2.
Sectors == 0 .. TotSec - 1
RootEntry == [name : {"LOADER", "KERNEL", "other"}, cluster : Nat]
Header == [type : Nat, offset : Nat, filesz : Nat, vaddr : Nat]
Disk == [fat : [0 .. FatEntries - 1 -> Entries],
         root : [0 .. RootDirSectors - 1 -> [1 .. DirEntries -> RootEntry]],
         headers : [Sectors -> Seq(Header)]]
Report == [failed : BOOLEAN,           \* carry, or (first call) no signature
           size : {0, 20, 24}, valid : BOOLEAN,
           base : Nat, length : Nat, usable : BOOLEAN,
           more : BOOLEAN]             \* ebx # 0

ASSUME DisksAssumption ==
    /\ Disks \subseteq Disk
    /\ \A d \in Disks, s \in Sectors : \A i \in DOMAIN d.headers[s] :
         LET h == d.headers[s][i]
         IN h.offset + h.filesz <= Window /\ h.vaddr + h.filesz <= Cells
ASSUME SizesAssumption ==
    {Window, RoomFor, PagesPerTable, TableCount, Cells} \subseteq Nat \ {0}
ASSUME ReportsAssumption == Reports \subseteq Report

VARIABLES
    disk, prog, pc,
    wRootDirSizeForLoop, wSectorNo,
    cluster,       \* ax: the cluster being loaded
    bx,            \* of each program, as a slot
    window,        \* of each program: the sector in each slot
    records,       \* the MemNum records of MemChkBuf
    dwMemSize,
    directory,     \* the page directory: the number of a table
    table,         \* the tables, one after the other: the number of a page
    ram,           \* the sector in each cell
    \* what the properties refer to and the programs do not keep:
    wrapped,       \* of each program: bx returned to the first slot
    usable         \* the memory the BIOS reported as usable

files == <<wRootDirSizeForLoop, wSectorNo, cluster, bx, window, wrapped>>
sizing == <<records, dwMemSize, usable>>
memory == <<directory, table, ram>>
bvars == <<disk, prog, pc, files, sizing, memory>>

FileName(p) == IF p = "boot" THEN "LOADER" ELSE "KERNEL"
Goto(here, there) == pc = here /\ pc' = there

BInit ==
    /\ disk \in Disks
    /\ prog = "boot" /\ pc = "search"
    /\ wRootDirSizeForLoop = RootDirSectors /\ wSectorNo = SectorNoOfRootDirectory
    /\ cluster = 0 /\ bx = [p \in Programs |-> 0]
    /\ window = [p \in Programs |-> [i \in 0 .. Window - 1 |-> Junk]]
    /\ wrapped = [p \in Programs |-> FALSE]
    /\ records = <<>> /\ dwMemSize = 0 /\ usable = {}
    /\ directory = [d \in 0 .. TableCount - 1 |-> Junk]
    /\ table = [t \in 0 .. AddressLimit - 1 |-> Junk]
    /\ ram = [c \in 0 .. Cells - 1 |-> Junk]

-----------------------------------------------------------------------------
(* Finding and loading a file.                                             *)

NoFile ==
    /\ Goto("search", "noFile") /\ wRootDirSizeForLoop = 0
    /\ UNCHANGED <<disk, prog, files, sizing, memory>>

\* The entries of a sector of the root directory that have the name.
Named(sector, p) ==
    LET entries == disk.root[sector - SectorNoOfRootDirectory]
    IN {e \in 1 .. DirEntries : entries[e].name = FileName(p)}

\* The first of them is taken.  The sector is read into the file's first slot.
SearchSector ==
    LET sector == ReadSector(wSectorNo)
        named == Named(sector, prog)
    IN
    /\ pc = "search" /\ wRootDirSizeForLoop # 0 /\ Readable(wSectorNo, 1)
    /\ wRootDirSizeForLoop' = wRootDirSizeForLoop - 1
    /\ window' = [window EXCEPT ![prog][0] = sector]
    /\ \/ /\ named = {} /\ wSectorNo' = wSectorNo + 1
          /\ UNCHANGED <<pc, cluster, bx>>
       \/ /\ pc' = "load"
          /\ \E e \in named :
               /\ \A n \in named : e <= n
               /\ cluster' = disk.root[sector - SectorNoOfRootDirectory][e].cluster
          /\ bx' = [bx EXCEPT ![prog] = 0]
          /\ UNCHANGED wSectorNo
    /\ UNCHANGED <<disk, prog, wrapped, sizing, memory>>

\* The boot sector's slots begin 100h bytes into the segment, so that its last
\* one goes on behind the segment's end, a boundary of 64K that no transfer may
\* cross: the BIOS refuses it, and is asked again for ever.
Refused == prog = "boot" /\ bx[prog] = Window - 1

LoadSector ==
    /\ Goto("load", "next") /\ Readable(SectorOf(cluster), 1) /\ ~Refused
    /\ window' = [window EXCEPT ![prog][bx[prog]] = ReadSector(SectorOf(cluster))]
    /\ UNCHANGED <<disk, prog, wRootDirSizeForLoop, wSectorNo, cluster, bx, wrapped,
                   sizing, memory>>

\* Mutant: the last slot of the segment is not used
NextCluster_stays ==
    LET entry == GetFATEntry(disk.fat, cluster)
    IN
    /\ pc = "next" /\ Readable(FatSectorOf(cluster), 2)
    /\ \/ /\ entry = EndOfFile /\ pc' = "loaded"
          /\ UNCHANGED <<cluster, bx, wrapped>>
       \/ /\ entry # EndOfFile /\ pc' = "load"
          /\ cluster' = entry
          /\ bx' = [bx EXCEPT ![prog] = IF @ + 1 < Window - 1 THEN @ + 1 ELSE @]
          /\ UNCHANGED wrapped
    /\ UNCHANGED <<disk, prog, wRootDirSizeForLoop, wSectorNo, window, sizing, memory>>

NextCluster ==
    LET entry == GetFATEntry(disk.fat, cluster)
    IN
    /\ pc = "next" /\ Readable(FatSectorOf(cluster), 2)
    /\ \/ /\ entry = EndOfFile /\ pc' = "loaded"
          /\ UNCHANGED <<cluster, bx, wrapped>>
       \/ /\ entry # EndOfFile /\ pc' = "load"
          /\ cluster' = entry
          /\ bx' = [bx EXCEPT ![prog] = (@ + 1) % Window]
          /\ wrapped' = [wrapped EXCEPT ![prog] = @ \/ bx'[prog] = 0]
    /\ UNCHANGED <<disk, prog, wRootDirSizeForLoop, wSectorNo, window, sizing, memory>>

\* The loader starts, with its own count of the directory's sectors.
EnterLoader ==
    /\ prog = "boot" /\ Goto("loaded", "detect")
    /\ prog' = "loader"
    /\ wRootDirSizeForLoop' = RootDirSectors
    /\ wSectorNo' = SectorNoOfRootDirectory
    /\ UNCHANGED <<disk, cluster, bx, window, wrapped, sizing, memory>>
-----------------------------------------------------------------------------
(* DetectMemory: the memory map of the BIOS.                               *)

\* Whether a report is a record: not empty, and not marked to be ignored.
Counts(r) == /\ r.size # 0 /\ (r.size > 20 => r.valid)
             /\ r.length # 0

Store(r) ==
    /\ records' = IF Counts(r) THEN Append(records, r) ELSE records
    /\ usable' = usable \cup
         (IF Counts(r) /\ r.usable THEN {[base |-> r.base, length |-> r.length]} ELSE {})

\* A list that ends with its first report is taken for a failure.
FirstReport(r) ==
    /\ pc = "detect"
    /\ \/ /\ r.failed \/ ~r.more
          /\ pc' = "failed" /\ UNCHANGED <<records, usable>>
       \/ /\ ~r.failed /\ r.more
          /\ pc' = "again" /\ Store(r)

\* Each report goes behind the records; with a record too many, the
\* variables behind the buffer are lost.
NextReport(r) ==
    /\ pc = "again"
    /\ \/ /\ r.failed
          /\ pc' = "search" /\ UNCHANGED <<records, usable>>
       \/ /\ ~r.failed /\ Store(r)
          /\ pc' = IF Len(records') > RoomFor THEN "wild"
                   ELSE IF r.more THEN "again" ELSE "search"

DetectMemory ==
    /\ \E r \in Reports : FirstReport(r) \/ NextReport(r)
    /\ UNCHANGED <<disk, prog, files, dwMemSize, memory>>

-----------------------------------------------------------------------------
(* In protected mode.                                                      *)

\* The ends of usable memory, in the low 32 bits of each number.
LowEnds == {(((records[i].base % AddressLimit) + (records[i].length % AddressLimit))
               % AddressLimit) : i \in {j \in DOMAIN records : records[j].usable}}

PrintMemInfo ==
    /\ prog = "loader" /\ pc = "loaded"
    /\ pc' = IF records = <<>> THEN "wild" ELSE "paging"
    /\ dwMemSize' \in LowEnds \cup {dwMemSize}
    /\ \A e \in LowEnds \cup {dwMemSize} : e <= dwMemSize'
    /\ UNCHANGED <<disk, prog, files, records, usable, memory>>

\* Mutant: no table for the remainder
SetupPaging_fullTables ==
    LET tables == dwMemSize \div PagesPerTable
    IN
    /\ pc = "paging"
    /\ pc' = IF tables = 0 THEN "wild" ELSE "init"
    /\ directory' = [d \in 0 .. TableCount - 1 |-> IF d < tables THEN d ELSE directory[d]]
    /\ table' = [t \in 0 .. AddressLimit - 1 |->
                   IF t < tables * PagesPerTable THEN t ELSE table[t]]
    /\ UNCHANGED <<disk, prog, files, sizing, ram>>

\* Each page is mapped to itself; the rest of the directory is left as it is.
SetupPaging ==
    LET tables == dwMemSize \div PagesPerTable
                    + (IF dwMemSize % PagesPerTable = 0 THEN 0 ELSE 1)
    IN
    /\ pc = "paging"
    /\ pc' = IF tables = 0 THEN "wild" ELSE "init"
    /\ directory' = [d \in 0 .. TableCount - 1 |-> IF d < tables THEN d ELSE directory[d]]
    /\ table' = [t \in 0 .. AddressLimit - 1 |->
                   IF t < tables * PagesPerTable THEN t ELSE table[t]]
    /\ UNCHANGED <<disk, prog, files, sizing, ram>>

\* The segments that are copied to a cell.
Covering(headers, c) ==
    {i \in DOMAIN headers : /\ headers[i].type # 0
                            /\ c >= headers[i].vaddr
                            /\ c < headers[i].vaddr + headers[i].filesz}

\* Mutant: a segment is taken from the file as if headers had no offset
InitKernel_noOffset ==
    LET headers == disk.headers[window["loader"][0]]
        Source(c) == c - headers[Max(Covering(headers, c))].vaddr
    IN
    /\ pc = "init"
    /\ pc' = IF headers = <<>> THEN "wild" ELSE "kernel"
    /\ ram' = [c \in 0 .. Cells - 1 |->
                 IF Covering(headers, c) = {} THEN ram[c]
                 ELSE window["loader"][Source(c)]]
    /\ UNCHANGED <<disk, prog, files, sizing, directory, table>>

\* The segments named by the headers of what the window begins with are
\* copied in turn, filesz of each; the kernel is entered at a fixed address.
\* Neither is tested that a segment lies within the window nor that its place
\* keeps clear of window, loader and page tables: DisksAssumption, and that ram
\* is apart from all of them, suppose it.
InitKernel ==
    LET headers == disk.headers[window["loader"][0]]
        Source(c) == LET h == headers[Max(Covering(headers, c))]
                     IN h.offset + (c - h.vaddr)
    IN
    /\ pc = "init"
    /\ pc' = IF headers = <<>> THEN "wild" ELSE "kernel"
    /\ ram' = [c \in 0 .. Cells - 1 |->
                 IF Covering(headers, c) = {} THEN ram[c]
                 ELSE window["loader"][Source(c)]]
    /\ UNCHANGED <<disk, prog, files, sizing, directory, table>>

-----------------------------------------------------------------------------
BNext == \/ NoFile \/ SearchSector \/ LoadSector \/ NextCluster
         \/ EnterLoader \/ DetectMemory
         \/ PrintMemInfo \/ SetupPaging \/ InitKernel

\* A sector the disk has is read in the end, and the BIOS has a last report.
BSpec == BInit /\ [][BNext]_bvars
BFairSpec == BSpec /\ WF_bvars(BNext)

-----------------------------------------------------------------------------
(* Properties.                                                             *)

\* Where the first entry of the name in the root directory says p's file is.
Names(p) == {at \in (0 .. RootDirSectors - 1) \X (1 .. DirEntries) :
               disk.root[at[1]][at[2]].name = FileName(p)}
IsFirst(p, at) == /\ at \in Names(p)
                  /\ \A n \in Names(p) : n[1] > at[1] \/ (n[1] = at[1] /\ n[2] >= at[2])
FirstClusterIs(p, c) ==
    \E at \in Names(p) : IsFirst(p, at) /\ disk.root[at[1]][at[2]].cluster = c

\* The clusters of the file, by its place in the chain.
Chain(first) ==
    LET next[k \in Nat] == IF k = 0 THEN first ELSE disk.fat[next[k - 1]]
    IN next

ClusterIn(p, i) == window[p][i] - SectorOf(0)
Loaded(p) == IF p = "boot" THEN prog = "loader"
             ELSE prog = "loader" /\ pc \in {"loaded", "paging", "init", "kernel"}

\* A file that fits the segment is there from its first sector to its last, each
\* followed by the one its entry in the table names: what boot.asm:97 and
\* loader.asm:125 load, although the entries lie across sectors and reads are
\* repeated.  The search gives up only when the root directory has no such file.
FileInPlace ==
    /\ \A p \in Programs : Loaded(p) /\ ~wrapped[p] =>
         /\ FirstClusterIs(p, ClusterIn(p, 0))
         /\ \A i \in 1 .. bx[p] : disk.fat[ClusterIn(p, i - 1)] = ClusterIn(p, i)
         /\ disk.fat[ClusterIn(p, bx[p])] = EndOfFile
    /\ pc = "noFile" => Names(prog) = {}

Below4G(m) == m.base + m.length < AddressLimit

\* The size of memory is the end of its highest usable part, whatever the order
\* of the reports and the records left out (loader.asm:287, 476), and when parts
\* lie above 4G, at least the end of what lies below.
MemorySized ==
    pc \in {"paging", "init", "kernel"} =>
      /\ \A m \in usable : Below4G(m) => m.base + m.length <= dwMemSize
      /\ (\A m \in usable : Below4G(m)) /\ usable # {} =>
           \E m \in usable : dwMemSize = m.base + m.length

\* A linear address, translated; a directory entry that is not set is Junk.
Walk(page) ==
    LET t == directory[page \div PagesPerTable]
    IN IF t = Junk THEN Junk ELSE table[t * PagesPerTable + (page % PagesPerTable)]

\* With paging on (loader.asm:417), every page up to the end of usable memory is
\* mapped to itself, the pages between its parts too.
MemoryMapped ==
    pc \in {"init", "kernel"} =>
      \A m \in usable : Below4G(m) =>
        \A page \in 0 .. m.base + m.length - 1 : Walk(page) = page

\* The clusters of p's file on the floppy, from the first to the last.
IsFileOf(p, chain, n) ==
    /\ FirstClusterIs(p, chain[0])
    /\ \A i \in 1 .. n : disk.fat[chain[i - 1]] = chain[i]
    /\ disk.fat[chain[n]] = EndOfFile

\* When the kernel is entered, the cells of every segment hold the sectors of
\* KERNEL.BIN the segment is in, unless a later segment lies over them: what was
\* searched, loaded through a window of 64K and copied (loader.asm:390) is what
\* the floppy holds, of a file that fits the window.
KernelInPlace ==
    pc = "kernel" /\ ~wrapped["loader"] =>
      \E n \in 0 .. Window - 1 : \E chain \in [0 .. n -> 0 .. FatEntries - 1] :
        /\ IsFileOf("loader", chain, n)
        /\ LET headers == disk.headers[SectorOf(chain[0])]
           IN \A i \in DOMAIN headers : \A k \in 0 .. headers[i].filesz - 1 :
                LET h == headers[i] IN
                h.type # 0 /\ h.offset + k <= n
                  /\ (\A j \in Covering(headers, h.vaddr + k) : j <= i)
                  => ram[h.vaddr + k] = SectorOf(chain[h.offset + k])

\* What holds while a file is searched and loaded, from which FileInPlace and the
\* others follow: the directory's sectors that were read have no such entry, and
\* the slots up to bx hold the chain so far, which ax continues.
BTypeOK ==
    /\ disk \in Disks /\ prog \in Programs
    /\ pc \in {"search", "load", "next", "loaded", "detect", "again", "paging", "init",
               "kernel", "noFile", "failed", "wild"}
    /\ wRootDirSizeForLoop \in 0 .. RootDirSectors /\ wSectorNo \in Nat
    /\ cluster \in Nat /\ (pc = "next" => cluster \in 0 .. FatEntries - 1)
    /\ bx \in [Programs -> 0 .. Window - 1]
    /\ window \in [Programs -> [0 .. Window - 1 -> Sectors \cup {Junk}]]
    /\ wrapped \in [Programs -> BOOLEAN]
    /\ records \in Seq(Reports) /\ usable \subseteq [base : Nat, length : Nat]
    /\ dwMemSize \in Nat
    /\ directory \in [0 .. TableCount - 1 -> 0 .. TableCount - 1 \cup {Junk}]
    /\ table \in [0 .. AddressLimit - 1 -> 0 .. AddressLimit - 1 \cup {Junk}]

Searched ==
    LET done == RootDirSectors - wRootDirSizeForLoop
    IN /\ pc \in {"search", "noFile", "detect", "again"} =>
            /\ wSectorNo = SectorNoOfRootDirectory + done
            /\ \A n \in Names(prog) : n[1] >= done
       /\ pc \in {"detect", "again"} => wRootDirSizeForLoop = RootDirSectors
       /\ pc = "noFile" => wRootDirSizeForLoop = 0
       /\ pc \in {"detect", "again", "paging", "init", "kernel", "failed"} => prog = "loader"

HoldsChain(p, n) ==
    /\ FirstClusterIs(p, ClusterIn(p, 0))
    /\ \A i \in 0 .. n : ClusterIn(p, i) \in 0 .. FatEntries - 1
    /\ \A i \in 1 .. n : disk.fat[ClusterIn(p, i - 1)] = ClusterIn(p, i)

HoldsFile(p) == HoldsChain(p, bx[p]) /\ disk.fat[ClusterIn(p, bx[p])] = EndOfFile

ChainSoFar ==
    /\ pc = "load" /\ ~wrapped[prog] =>
         IF bx[prog] = 0 THEN FirstClusterIs(prog, cluster)
         ELSE /\ HoldsChain(prog, bx[prog] - 1)
              /\ disk.fat[ClusterIn(prog, bx[prog] - 1)] = cluster
    /\ pc = "next" /\ ~wrapped[prog] =>
         HoldsChain(prog, bx[prog]) /\ ClusterIn(prog, bx[prog]) = cluster
    /\ pc = "loaded" /\ ~wrapped[prog] => HoldsFile(prog)
    /\ \A p \in Programs : Loaded(p) /\ ~wrapped[p] => HoldsFile(p)

UsableRecords ==
    {[base |-> records[i].base, length |-> records[i].length] :
       i \in {j \in DOMAIN records : records[j].usable}}

Sized == /\ usable = UsableRecords
         /\ pc \notin {"paging", "init", "kernel", "wild"} => dwMemSize = 0

\* The kernel is entered with each cell copied from the last segment over it.
Copied ==
    pc = "kernel" /\ ~wrapped["loader"] =>
      LET headers == disk.headers[window["loader"][0]]
      IN \A c \in 0 .. Cells - 1 : \A i \in Covering(headers, c) :
           (\A j \in Covering(headers, c) : j <= i) =>
             ram[c] = window["loader"][headers[i].offset + (c - headers[i].vaddr)]

LegacyInv == /\ BTypeOK /\ Searched /\ ChainSoFar /\ Sized
             /\ MemorySized /\ MemoryMapped /\ Copied

\* The file of p is not there, or its chain ends with the mark the code knows
\* and stays on the disk; the loader's, before the slot that is refused.
Ends(p) ==
    \A at \in Names(p) : IsFirst(p, at) =>
      LET chain == Chain(disk.root[at[1]][at[2]].cluster)
      IN \E n \in 1 .. FatEntries :
           /\ p = "boot" => n < Window
           /\ \A k \in 0 .. n - 1 : /\ chain[k] < FatEntries
                                   /\ Readable(SectorOf(chain[k]), 1)
           /\ chain[n] = EndOfFile

\* With such files the boot comes to an end: in the kernel, at a message, or in
\* the wild with a file or a memory map that is too large or empty.  No read is
\* waited for that the disk cannot serve.
BootEndsSomewhere ==
    (\A p \in Programs : Ends(p)) ~> pc \in {"kernel", "noFile", "failed", "wild"}
=============================================================================
