------------------------------ MODULE UefiLoader ------------------------------
(***************************************************************************)
(* The UEFI boot loader, boot/uefi/gnu-efi/bootloader/uefi_main.c: it      *)
(* places the segments of the kernel at their physical addresses, reads a  *)
(* font, takes the firmware's memory map, leaves boot services and enters  *)
(* the kernel, ignoring the result of nearly every call.                   *)
(*                                                                         *)
(* The firmware keeps running until boot services end: between any two of  *)
(* the loader's calls its events may take or release pages.  memory is its *)
(* book of who owns each page; a memory map is a copy of that book with    *)
(* one descriptor for each run of pages of one owner.  What is kept of the *)
(* contents of a page is which segment of the kernel is in it.             *)
(*                                                                         *)
(* Pool memory comes in blocks that fit a page: a new page, or room left   *)
(* in a page that holds blocks already.  Segments start on page boundaries *)
(* (uefi.ld aligns every section).  Files are read in full, messages and   *)
(* what the file information says, which nothing uses, are left out.       *)
(***************************************************************************)
EXTENDS Integers, Sequences, FiniteSets

CONSTANTS
    PageBytes,   \* 4096 in the code
    PageCount,   \* pages of memory
    Memories,    \* how the memory may be occupied when the loader starts
    Kernels,     \* the kernels that may be found: sequences of segments
    NULL

Pages == 0 .. PageCount - 1
Owners == {"free", "loader", "firmware"}

\* p_paddr / 4096, p_memsz and p_filesz of a PT_LOAD entry
Segment == [first : Pages, memsz : Nat \ {0}, filesz : Nat]

ASSUME LPageAssumption == /\ PageBytes \in Nat \ {0}
                          /\ PageCount \in Nat \ {0}
ASSUME MemoriesAssumption == Memories \subseteq [Pages -> {"free", "firmware"}]
ASSUME KernelsAssumption ==
    \A k \in Kernels :
        /\ k \in Seq(Segment)
        /\ \A i \in DOMAIN k :
             /\ k[i].filesz <= k[i].memsz
             /\ k[i].first * PageBytes + k[i].memsz <= PageCount * PageBytes
ASSUME NULLAssumption == NULL \notin Pages

VARIABLES
    memory,      \* the firmware's book: the owner of each page
    content,     \* the segment in each page, or 0
    services,    \* boot services have not ended
    current,     \* MapKey is the key of the memory map as it is now
    pc,
    kernel,      \* the segments of the kernel file
    seg,         \* the segment being loaded
    image,       \* the pages AllocatePages gave for them
    kept,        \* the pages with blocks of the pool that are never freed
    MMap,        \* the buffer of the memory map
    MapSize,     \* its size, in descriptors
    map,         \* the memory map in it
    \* what the properties refer to and the program does not keep:
    refused,     \* AllocatePages failed for a segment
    starved,     \* AllocatePool failed
    stirred,     \* the firmware changed the map since the loader took it
    trampled     \* the loader wrote to a page it was not given

firmware == <<memory, services, current>>
loading == <<content, kernel, seg, image>>
fetching == <<MMap, MapSize, map>>
ghosts == <<refused, starved, stirred, trampled>>
lvars == <<firmware, loading, fetching, pc, kept, ghosts>>

-----------------------------------------------------------------------------
(* Boot services.                                                          *)

Owned(who) == {p \in Pages : memory[p] = who}

\* The descriptors of the memory map: one for each run of pages.
Descriptors ==
    Cardinality({p \in Pages : p = 0 \/ memory[p] # memory[p - 1]})

\* A page changes hands; the key changes with every change of the map.
Give(pages, who) ==
    /\ memory' = [p \in Pages |-> IF p \in pages THEN who ELSE memory[p]]
    /\ current' = (current /\ memory' = memory)
    /\ UNCHANGED services

\* AllocatePool, successful: a block in page p.
AllocatePool(p) ==
    /\ p \in Owned("free") \cup (Owned("loader") \ image)
    /\ Give({p}, "loader")

\* AllocatePool fails only when no page is left.
PoolExhausted == Owned("free") = {} /\ UNCHANGED firmware

FirmwareActs ==
    /\ services
    /\ \E p \in Owned("free") \cup Owned("firmware") :
         /\ Give({p}, IF memory[p] = "free" THEN "firmware" ELSE "free")
         /\ content' = [content EXCEPT ![p] = 0]
    /\ stirred' = TRUE
    /\ UNCHANGED <<pc, kernel, seg, image, kept, fetching,
                   refused, starved, trampled>>

-----------------------------------------------------------------------------
(* The kernel.                                                             *)

Goto(here, there) == pc = here /\ pc' = there

\* A kernel that is not found is a NULL pointer the loader goes on to use.
LoadKernel ==
    /\ \/ Goto("loadKernel", "fileInfo")
       \/ Goto("loadKernel", "wild")
    /\ UNCHANGED <<firmware, loading, fetching, kept, ghosts>>

\* A block that is never freed.
Keep(here, there, onFailure) ==
    /\ \/ /\ Goto(here, there)
          /\ \E p \in Pages : AllocatePool(p) /\ kept' = kept \cup {p}
          /\ UNCHANGED starved
       \/ /\ Goto(here, onFailure)
          /\ PoolExhausted
          /\ starved' = TRUE
          /\ UNCHANGED kept
    /\ UNCHANGED <<loading, fetching, refused, stirred, trampled>>

\* The file information is not written into its block but from the pointer to
\* it on, over whatever locals of efi_main the compiler put there; the loader
\* goes on if it does without what they held.
ReadHeader == \E there \in {"readPhdrs", "wild"} : Keep("fileInfo", there, there)
ReadPhdrs == Keep("readPhdrs", "loadSegments", "wild")

\* Mutant: a last page that is not full is not allocated
SegmentPages_full(s) == s.first .. s.first + (s.memsz \div PageBytes) - 1

SegmentPages(s) ==
    s.first .. s.first + ((s.memsz + PageBytes - 1) \div PageBytes) - 1

FilePages(s) == {s.first + (b \div PageBytes) : b \in 0 .. s.filesz - 1}

AllocatePages ==
    /\ seg <= Len(kernel)
    /\ Goto("loadSegments", "readSegment")
    /\ LET pages == SegmentPages(kernel[seg])
       IN IF pages \subseteq Owned("free")
            THEN /\ Give(pages, "loader")
                 /\ image' = image \cup pages
                 /\ UNCHANGED refused
            ELSE /\ refused' = TRUE
                 /\ UNCHANGED <<firmware, image>>
    /\ UNCHANGED <<content, kernel, seg, kept, fetching,
                   starved, stirred, trampled>>

ReadSegment ==
    /\ Goto("readSegment", "loadSegments")
    /\ LET pages == FilePages(kernel[seg])
       IN /\ content' = [p \in Pages |->
                           IF p \in pages THEN seg ELSE content[p]]
          /\ trampled' = (trampled \/ ~(pages \subseteq Owned("loader")))
    /\ seg' = seg + 1
    /\ UNCHANGED <<firmware, kernel, image, kept, fetching,
                   refused, starved, stirred>>

SegmentsLoaded ==
    /\ seg > Len(kernel)
    /\ Goto("loadSegments", "loadFont")
    /\ UNCHANGED <<firmware, loading, fetching, kept, ghosts>>

-----------------------------------------------------------------------------
(* The font, which may be missing or not a font, and the frame buffer.     *)

OpenFont ==
    /\ \/ Goto("loadFont", "fontHeader")
       \/ Goto("loadFont", "gop")
    /\ UNCHANGED <<firmware, loading, fetching, kept, ghosts>>

CheckMagic ==
    /\ \/ Goto("fontMagic", "glyphs")
       \/ Goto("fontMagic", "gop")
    /\ UNCHANGED <<firmware, loading, fetching, kept, ghosts>>

LoadPSF1Font == \/ OpenFont
                \/ Keep("fontHeader", "fontMagic", "wild")
                \/ CheckMagic
                \/ Keep("glyphs", "fontRecord", "wild")
                \/ Keep("fontRecord", "gop", "wild")

InitializeGOP ==
    /\ \/ Goto("gop", "mapSize")
       \/ Goto("gop", "aborted")
    /\ UNCHANGED <<firmware, loading, fetching, kept, ghosts>>

-----------------------------------------------------------------------------
(* The memory map.                                                         *)

\* GetMemoryMap with no buffer, for the size.
AskMapSize ==
    /\ Goto("mapSize", "allocateMap")
    /\ MapSize' = Descriptors
    /\ UNCHANGED <<firmware, loading, MMap, map, kept, ghosts>>

\* Mutant: only the first buffer is allocated
AllocateMap_once ==
    /\ Goto("allocateMap", "getMap")
    /\ IF MMap = NULL
         THEN \E p \in Pages : AllocatePool(p) /\ MMap' = p
         ELSE UNCHANGED <<firmware, MMap>>
    /\ UNCHANGED <<loading, MapSize, map, kept, ghosts>>

\* A failure leaves MMap as it was: NULL, or the buffer just freed.
AllocateMap ==
    /\ Goto("allocateMap", "getMap")
    /\ \/ /\ \E p \in Pages : AllocatePool(p) /\ MMap' = p
          /\ UNCHANGED starved
       \/ /\ PoolExhausted
          /\ starved' = TRUE
          /\ UNCHANGED MMap
    /\ UNCHANGED <<loading, MapSize, map, kept, refused, stirred, trampled>>

\* Mutant: the size the firmware asks for is not taken over
BufferTooSmall_keepsSize ==
    /\ Goto("getMap", "freeMap")
    /\ Descriptors > MapSize
    /\ UNCHANGED <<firmware, loading, fetching, kept, ghosts>>

BufferTooSmall ==
    /\ Goto("getMap", "freeMap")
    /\ Descriptors > MapSize
    /\ MapSize' = Descriptors
    /\ UNCHANGED <<firmware, loading, MMap, map, kept, ghosts>>

\* Without a buffer GetMemoryMap returns another error, and the loader gives up.
NoBuffer ==
    /\ Goto("getMap", "aborted")
    /\ Descriptors <= MapSize /\ MMap = NULL
    /\ UNCHANGED <<firmware, loading, fetching, kept, ghosts>>

\* Mutant: the buffer is freed after the call whatever came of it
GetMemoryMap_frees ==
    /\ Goto("getMap", "exit")
    /\ Descriptors <= MapSize /\ MMap # NULL
    /\ MapSize' = Descriptors
    /\ map' = memory
    /\ current' = TRUE
    /\ stirred' = FALSE
    /\ memory' = IF MMap \in kept THEN memory
                                  ELSE [memory EXCEPT ![MMap] = "free"]
    /\ UNCHANGED <<services, loading, MMap, kept, refused, starved, trampled>>

GetMemoryMap ==
    /\ Goto("getMap", "exit")
    /\ Descriptors <= MapSize /\ MMap # NULL
    /\ MapSize' = Descriptors
    /\ map' = memory
    /\ current' = TRUE
    /\ stirred' = FALSE
    /\ trampled' = (trampled \/ memory[MMap] # "loader")
    /\ UNCHANGED <<memory, services, loading, MMap, kept, refused, starved>>

\* FreePool: the page goes back to the firmware, or stays with the pool, as it
\* does while it holds other blocks.  A pointer that is NULL or was freed
\* before is turned down.
FreeMap ==
    /\ Goto("freeMap", "allocateMap")
    /\ \/ UNCHANGED firmware
       \/ /\ MMap \in Owned("loader") \ (kept \cup image)
          /\ Give({MMap}, "free")
    /\ UNCHANGED <<loading, fetching, kept, ghosts>>

\* Mutant: BootInfo is allocated from the pool, after the map was taken
ExitBootServices_allocates ==
    /\ Goto("exit", "start")
    /\ \/ \E p \in Owned("free") :
            /\ memory' = [memory EXCEPT ![p] = "loader"]
            /\ current' = FALSE
            /\ UNCHANGED services
       \/ services' = ~current /\ UNCHANGED <<memory, current>>
    /\ UNCHANGED <<loading, fetching, kept, ghosts>>

\* With a key that is not the map's ExitBootServices fails; nobody looks.
ExitBootServices ==
    /\ Goto("exit", "start")
    /\ services' = ~current
    /\ UNCHANGED <<memory, current, loading, fetching, kept, ghosts>>

KernelStart ==
    /\ Goto("start", "kernel")
    /\ UNCHANGED <<firmware, loading, fetching, kept, ghosts>>

efi_main ==
    \/ LoadKernel \/ ReadHeader \/ ReadPhdrs
    \/ AllocatePages \/ ReadSegment \/ SegmentsLoaded
    \/ LoadPSF1Font \/ InitializeGOP
    \/ AskMapSize \/ AllocateMap \/ BufferTooSmall \/ NoBuffer
    \/ GetMemoryMap \/ FreeMap
    \/ ExitBootServices \/ KernelStart

LInit ==
    /\ memory \in Memories
    /\ content = [p \in Pages |-> 0]
    /\ services = TRUE /\ current = FALSE
    /\ pc = "loadKernel"
    /\ kernel \in Kernels
    /\ seg = 1
    /\ image = {} /\ kept = {}
    /\ MMap = NULL /\ MapSize = 0
    /\ map = memory
    /\ refused = FALSE /\ starved = FALSE
    /\ stirred = FALSE /\ trampled = FALSE

LNext == efi_main \/ FirmwareActs

LSpec == LInit /\ [][LNext]_lvars

\* Every call of the firmware returns.
LFairSpec == LSpec /\ WF_lvars(efi_main)

-----------------------------------------------------------------------------
Ends == {"kernel", "aborted", "wild"}

\* Type correctness, and that all blocks of the pool are in the loader's pages.
LTypeOK ==
    /\ memory \in [Pages -> Owners] /\ map \in [Pages -> Owners]
    /\ content \in [Pages -> 0 .. Len(kernel)]
    /\ {services, current, refused, starved, stirred, trampled} \subseteq BOOLEAN
    /\ pc \in {"loadKernel", "fileInfo", "readPhdrs", "loadSegments",
               "readSegment", "loadFont", "fontHeader", "fontMagic", "glyphs",
               "fontRecord", "gop", "mapSize", "allocateMap", "getMap",
               "freeMap", "exit", "start"} \cup Ends
    /\ kernel \in Kernels /\ seg \in 1 .. Len(kernel) + 1
    /\ image \subseteq Owned("loader") /\ kept \subseteq Owned("loader")
    /\ image \cap kept = {}
    /\ MMap \in Pages \cup {NULL} /\ MapSize \in 0 .. PageCount

\* Every segment is where its program header wants it when the kernel is
\* entered, in pages of its own that nobody used meanwhile, unless the
\* firmware had one of its pages.
KernelInPlace ==
    pc = "kernel" /\ ~refused =>
        \A i \in DOMAIN kernel :
            /\ \A p \in FilePages(kernel[i]) : content[p] = i
            /\ \A b \in 0 .. kernel[i].memsz - 1 :
                 memory[kernel[i].first + (b \div PageBytes)] = "loader"

\* The map the kernel is given has all that the kernel goes on using down as
\* the loader's, whatever the firmware did since: its image, the font, and
\* the buffer of the map itself.  mem.c reserves such pages.
KernelReserved ==
    pc = "kernel" /\ ~starved =>
        \A p \in image \cup kept \cup {MMap} :
            map[p] = "loader" /\ memory[p] = "loader"

\* The loader itself does nothing that changes the map between taking it and
\* leaving boot services: unless the firmware did, the kernel has the machine
\* for itself, and the map is that of the machine it got.
MapCurrent == pc = "kernel" /\ ~stirred => ~services /\ map = memory

\* Only an allocation that failed makes the loader write to memory it was not
\* given.
NoTrampling == trampled => refused \/ starved

\* How far the segments have got, as long as none was refused: those loaded
\* are in pages of the image, and the one being loaded has pages that none of
\* them has.
Loading ==
    /\ pc = "readSegment" => seg <= Len(kernel)
    /\ ~refused =>
         /\ \A i \in 1 .. seg - 1 :
              /\ SegmentPages(kernel[i]) \subseteq image
              /\ \A p \in FilePages(kernel[i]) : content[p] = i
         /\ pc = "readSegment" =>
              /\ SegmentPages(kernel[seg]) \subseteq image
              /\ \A i \in 1 .. seg - 1 :
                   SegmentPages(kernel[i]) \cap SegmentPages(kernel[seg]) = {}

Loaded == pc \notin {"loadKernel", "fileInfo", "readPhdrs", "loadSegments",
                     "readSegment", "aborted", "wild"}
            => seg = Len(kernel) + 1

\* The buffer of the map is the loader's from its allocation on, and so the
\* map says.
Fetching ==
    /\ pc \in {"getMap", "freeMap", "exit", "start", "kernel"} /\ ~starved =>
         MMap \in Owned("loader") \ image
    /\ pc \in {"exit", "start", "kernel"} /\ ~starved =>
         \A p \in image \cup kept \cup {MMap} : map[p] = "loader"

Leaving ==
    /\ pc = "exit" /\ ~stirred => current /\ map = memory
    /\ pc \in {"start", "kernel"} /\ ~stirred => ~services /\ map = memory

\* The inductive invariant: pages the loader was given stay its own and keep
\* what it read into them, whatever the firmware does between its calls.
LoaderInv == LTypeOK /\ Loading /\ Loaded /\ Fetching /\ Leaving /\ NoTrampling

\* The loop around GetMemoryMap ends although its own buffer changes the map,
\* and although the firmware may change it at every turn.
LoaderEnds == <>(pc \in Ends)
=============================================================================
