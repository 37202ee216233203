----------------------------- MODULE KernelBoot -----------------------------
(***************************************************************************)
(* kernel/uefi/kernel.c, kmain, from the reading of the memory map to its  *)
(* main loop, with the page tables of kernel/uefi/mem.c: kmain measures    *)
(* and reads the memory map (PageFrames), locks the kernel image, takes a  *)
(* page for the PML4, maps every page of the measured memory onto itself,  *)
(* locks and maps the frame buffer, loads CR3, and lets prepareInterrupts  *)
(* take the page of the IDT.                                               *)
(*                                                                         *)
(* The only memory whose content matters here is that of the page tables:  *)
(* `tables' is what memory holds in the frames memset as a table.          *)
(***************************************************************************)
EXTENDS PageFrames

CONSTANTS
    Fan,        \* entries of a page table: 512 in the code
    Machines    \* memory map, kernel image and frame buffer of a machine

ASSUME FanAssumption == Fan \in Nat /\ Fan > 1
ASSUME MachinesAssumption ==
    \A m \in Machines :
        /\ m.mmap \in MemoryMaps
        /\ {m.kernel, m.fb} \subseteq [first : Nat, bytes : Nat]

\* What getMemSize adds up of a memory map, descriptor by descriptor.
Measured(m) ==
    LET sum[i \in 0 .. Len(m)] ==
          IF i = 0 THEN 0 ELSE sum[i - 1] + m[i].pages
    IN  sum

\* The pages a walk of four tables tells apart.
WalkPages == Fan * Fan * Fan * Fan

\* The firmware runs on page tables of four levels that map every page onto
\* itself, so what it reports lies in reach of such tables.
ASSUME ReachAssumption ==
    \A m \in Machines :
        /\ Measured(m.mmap)[Len(m.mmap)] <= WalkPages
        /\ m.fb.first + (m.fb.bytes + PageBytes + PageBytes - 1) \div PageBytes
             <= WalkPages
\* kmain's calls of lockPages are among those PageFrames' clients make.
ASSUME KmainRangesAssumption ==
    \A m \in Machines :
        /\ <<m.kernel.first, m.kernel.bytes \div PageBytes + 1>> \in Ranges
        /\ <<m.fb.first, (m.fb.bytes + PageBytes) \div PageBytes + 1>> \in Ranges

VARIABLES
    machine,
    kpc,        \* where kmain is
    t,          \* the page its mapping loop is at
    level,      \* how many tables down the walk for t is
    table,      \* the frame of the table the walk has reached
    tables,     \* contents of the frames used as page tables
    pml4,       \* ptm.PML4
    cr3,        \* the root the processor translates with
    idtr        \* idtr.base

treeVars == <<level, table, tables, pml4>>
kernelVars == <<machine, kpc, t, level, table, tables, pml4, cr3, idtr>>
kvars == <<vars, kernelVars>>

NotPresent == -1          \* an entry without its Present bit
NoRoot     == -1          \* CR3 and IDTR before the kernel loads them
EmptyTable == [i \in 0 .. Fan - 1 |-> NotPresent]

\* A page's number shifted right by the bits of k levels.
Shifted(v, k) ==
    LET once == v \div Fan
        twice == once \div Fan
        thrice == twice \div Fan
    IN  IF k = 0 THEN v ELSE IF k = 1 THEN once
        ELSE IF k = 2 THEN twice ELSE IF k = 3 THEN thrice
        ELSE thrice \div Fan

\* initPageMapIndexer: PDP_i, PD_i, PT_i and P_i, for level 0, 1, 2 and 3.
Index(v, lvl) == Shifted(v, 3 - lvl) % Fan

\* kmain's sizes: kernel_size / 4096 + 1 pages of kernel; fbSize is a page
\* more than the buffer, and its mapping loop runs up to fbBase + fbSize.
kernel_pages   == machine.kernel.bytes \div PageBytes + 1
fbSize         == machine.fb.bytes + PageBytes
fbLockedPages  == fbSize \div PageBytes + 1

\* Mutant: the mapping loop ends with the last full page of the buffer.
fbMappedPages_full == machine.fb.bytes \div PageBytes

fbMappedPages  == (fbSize + PageBytes - 1) \div PageBytes

KInit ==
    /\ Init
    /\ machine \in Machines /\ machine.mmap = mmap
    /\ kpc = "lockKernel"
    /\ t = 0 /\ level = 0 /\ table = 0
    /\ tables = << >>
    /\ pml4 = NoRoot /\ cr3 = NoRoot /\ idtr = NoRoot

\* getMemSize and readEFIMemoryMap run before the rest of kmain; the loops of
\* the allocator's calls run while kmain waits for them.
Allocator ==
    /\ Boot \/ Looping
    /\ UNCHANGED kernelVars

\* Mutant: the kernel image is not locked.
LockKernel_skips ==
    /\ kpc = "lockKernel" /\ Serving
    /\ kpc' = "pml4"
    /\ UNCHANGED <<vars, machine, t, level, table, tables, pml4, cr3, idtr>>

LockKernel ==
    /\ kpc = "lockKernel"
    /\ lockPages(machine.kernel.first, kernel_pages)
    /\ kpc' = "pml4"
    /\ UNCHANGED <<machine, t, level, table, tables, pml4, cr3, idtr>>

\* memset(page, 0, 0x1000) of a page that becomes a table.
Zeroed(p) == [f \in DOMAIN tables \cup {p} |->
                IF f = p THEN EmptyTable ELSE tables[f]]

\* requestPage returns NULL, and no caller looks: kmain and getNextPageTable
\* go on to use page 0 as a table, prepareInterrupts as the IDT.  What the
\* kernel does from there on is not modelled.
Wild ==
    /\ Serving /\ Clear = {}
    /\ kpc' = "wild"
    /\ UNCHANGED <<vars, machine, t, level, table, tables, pml4, cr3, idtr>>

\* Mutant: the mapping of page 0 is left out.
RequestPML4_fromOne ==
    /\ kpc = "pml4"
    /\ \E p \in Clear :
         /\ requestPage(p)
         /\ tables' = Zeroed(p)
         /\ pml4' = p
         /\ table' = p
    /\ kpc' = "mapMemory"
    /\ t' = 1 /\ level' = 0
    /\ UNCHANGED <<machine, cr3, idtr>>

RequestPML4 ==
    /\ kpc = "pml4"
    /\ \E p \in Clear :
         /\ requestPage(p)
         /\ tables' = Zeroed(p)
         /\ pml4' = p
         /\ table' = p
    /\ kpc' = "mapMemory"
    /\ t' = 0 /\ level' = 0
    /\ UNCHANGED <<machine, cr3, idtr>>

Mapping ==
    \/ kpc = "mapMemory" /\ t < mem_size
    \/ kpc = "mapFb" /\ t < machine.fb.first + fbMappedPages

Entry == tables[table][Index(t, level)]

\* getNextPageTable, when the entry is present.
FollowEntry ==
    /\ Mapping /\ Serving
    /\ level < 3 /\ Entry # NotPresent
    /\ table' = Entry
    /\ level' = level + 1
    /\ UNCHANGED <<vars, machine, kpc, t, tables, pml4, cr3, idtr>>

\* Mutant: the new table is not entered in the one above it.
NewTable_unlinked ==
    /\ Mapping
    /\ level < 3 /\ Entry = NotPresent
    /\ \E p \in Clear :
         /\ requestPage(p)
         /\ tables' = Zeroed(p)
         /\ table' = p
    /\ level' = level + 1
    /\ UNCHANGED <<machine, kpc, t, pml4, cr3, idtr>>

\* getNextPageTable, when a table has to be made.
NewTable ==
    /\ Mapping
    /\ level < 3 /\ Entry = NotPresent
    /\ \E p \in Clear :
         /\ requestPage(p)
         /\ tables' = [Zeroed(p) EXCEPT ![table][Index(t, level)] = p]
         /\ table' = p
    /\ level' = level + 1
    /\ UNCHANGED <<machine, kpc, t, pml4, cr3, idtr>>

\* Mutant: the loop variable is not advanced.
SetLeaf_stuck ==
    /\ Mapping /\ Serving
    /\ level = 3
    /\ tables' = [tables EXCEPT ![table][Index(t, 3)] = t]
    /\ level' = 0 /\ table' = pml4
    /\ UNCHANGED <<vars, machine, kpc, t, pml4, cr3, idtr>>

\* The end of pageTableManagerMapMemory(&ptm, t, t), and t += 0x1000.
SetLeaf ==
    /\ Mapping /\ Serving
    /\ level = 3
    /\ tables' = [tables EXCEPT ![table][Index(t, 3)] = t]
    /\ t' = t + 1
    /\ level' = 0 /\ table' = pml4
    /\ UNCHANGED <<vars, machine, kpc, pml4, cr3, idtr>>

LockFramebuffer ==
    /\ kpc = "mapMemory" /\ t >= mem_size
    /\ lockPages(machine.fb.first, fbLockedPages)
    /\ kpc' = "mapFb"
    /\ t' = machine.fb.first
    /\ UNCHANGED <<machine, level, table, tables, pml4, cr3, idtr>>

LoadCR3 ==
    /\ kpc = "mapFb" /\ ~Mapping /\ Serving
    /\ cr3' = pml4
    /\ kpc' = "idt"
    /\ UNCHANGED <<vars, machine, t, level, table, tables, pml4, idtr>>

RequestIDT ==
    /\ kpc = "idt"
    /\ \E p \in Clear : requestPage(p) /\ idtr' = p
    /\ kpc' = "main"
    /\ UNCHANGED <<machine, t, level, table, tables, pml4, cr3>>

RequestFails ==
    /\ \/ kpc \in {"pml4", "idt"}
       \/ Mapping /\ level < 3 /\ Entry = NotPresent
    /\ Wild

Kmain ==
    \/ LockKernel \/ RequestPML4 \/ FollowEntry \/ NewTable \/ SetLeaf
    \/ LockFramebuffer \/ LoadCR3 \/ RequestIDT \/ RequestFails

KNext == Allocator \/ Kmain

KSpec == KInit /\ [][KNext]_kvars

\* One thread of control with its interrupts off.
KFairSpec == KSpec /\ WF_kvars(KNext)

-----------------------------------------------------------------------------
(* What boot achieves. *)

\* The processor's walk: four entries, from the PML4 down, each selected by
\* its part of the virtual address, from the highest to the lowest.
Lookup(f, i) == IF f \in DOMAIN tables THEN tables[f][i] ELSE NotPresent

Translate(v) ==
    LET Selector(k) == Shifted(v, k) % Fan
    IN  Lookup(Lookup(Lookup(Lookup(pml4, Selector(3)), Selector(2)),
                      Selector(1)), Selector(0))

VirtualPages == 0 .. WalkPages - 1

\* The pages the kernel image and the frame buffer really touch.
PagesOf(region) ==
    {region.first + (b \div PageBytes) : b \in 0 .. region.bytes - 1}

KernelPages == PagesOf(machine.kernel)
FbPages     == PagesOf(machine.fb)

KTypeOK ==
    /\ TypeOK
    /\ machine \in Machines
    /\ kpc \in {"lockKernel", "pml4", "mapMemory", "mapFb", "idt", "main",
                "wild"}
    /\ t \in Nat /\ level \in 0 .. 3 /\ table \in Nat
    /\ \A f \in DOMAIN tables :
         tables[f] \in [0 .. Fan - 1 -> Nat \cup {NotPresent}]
    /\ {pml4, cr3, idtr} \subseteq Nat \cup {NoRoot}

\* No mapping ever sends a page anywhere but to itself, at any step of the
\* construction: no two pages share a table entry and no table is taken for
\* memory of another table.
OnlyIdentity ==
    kpc # "wild" => \A v \in VirtualPages : Translate(v) \in {v, NotPresent}

\* When the processor switches to the new tables, every page of the measured
\* memory and of the frame buffer is mapped onto itself, so that the kernel,
\* its stack and the screen stay where they were.
IdentityMapped ==
    cr3 # NoRoot =>
        \A v \in (0 .. mem_size - 1) \cup FbPages : Translate(v) = v

\* At every step the mapping is right as far as it goes, and once it is in use
\* it goes all the way.
MappingInv == KTypeOK /\ OnlyIdentity /\ IdentityMapped

\* The entries of the three upper levels, as links between tables.
Below(fs) == {Lookup(f, i) : f \in fs, i \in 0 .. Fan - 1} \ {NotPresent}
Upper     == {pml4} \cup Below({pml4}) \cup Below(Below({pml4}))
Links     == {e \in Upper \X (0 .. Fan - 1) : Lookup(e[1], e[2]) # NotPresent}

\* The page tables form a tree of their own memory: every table but the root
\* is entered in exactly one table, once, and no table is the bitmap's, the
\* firmware's, the kernel image's or the IDT's page; nor is the IDT's page one
\* of those.
TablesExclusive ==
    /\ (DOMAIN tables \cup ({idtr} \ {NoRoot})) \cap (Pinned \cup KernelPages) = {}
    /\ idtr \notin DOMAIN tables
    /\ pml4 # NoRoot =>
         /\ {Lookup(e[1], e[2]) : e \in Links} = DOMAIN tables \ {pml4}
         /\ Cardinality(Links) = Cardinality(DOMAIN tables) - 1

\* The pages the tables of these mappings take: the PML4, and one table for
\* each different prefix of the mapped pages at each of the lower levels.
MappedPages ==
    (0 .. mem_size - 1) \cup Pages(machine.fb.first, fbMappedPages)
TableBudget ==
    1 + Cardinality({<<k, Shifted(v, k)>> : k \in 1 .. 3, v \in MappedPages})

\* The pages requestPage has given kmain or can still give.
KmainPool == Clear \cup DOMAIN tables \cup ({idtr} \ {NoRoot})

\* Those of them that lie below a bound suffice for the tables and the IDT.
EnoughBelow(bound) ==
    Cardinality({p \in KmainPool : p < bound}) >= TableBudget + 1

\* requestPage never comes back with NULL while memory is left for the tables
\* and the IDT: mapping is frugal, and takes a page only for a table that no
\* earlier mapping made.
NeverOutOfPages ==
    /\ kpc = "wild" => Cardinality(KmainPool) < TableBudget + 1
    /\ cr3 # NoRoot => Cardinality(DOMAIN tables) = TableBudget

\* The frame buffer is locked only after the tables of the measured memory
\* were taken from the pool.  First fit keeps them off it wherever the pages
\* below the frame buffer are enough for them.
FramebufferNotATable ==
    EnoughBelow(machine.fb.first)
        => FbPages \cap (DOMAIN tables \cup {idtr}) = {}

\* No table shares its page: neither with another use of memory that was there
\* before it, nor with the screen, which is written to from then on.
TablesSafe == TablesExclusive /\ FramebufferNotATable

\* What the kernel goes on using after the switch is mapped: the bitmap's
\* bytes, the tables, the IDT.  It takes a memory map without holes, where no
\* descriptor lies beyond the measured size; a segment with room for the
\* bitmap, which the kernel does not check; and enough free memory: the last
\* pages of the bitmap stand for no memory at all, and requestPage hands them
\* out as well once the others are gone.
NoHoles ==
    \A i \in DOMAIN mmap : mmap[i].first + mmap[i].pages <= mem_size

BitmapFits ==
    \E i \in DOMAIN mmap : IsLargest(mmap, i) /\ mmap[i].pages > size \div PageBytes

LiveMemoryMapped ==
    cr3 # NoRoot /\ NoHoles /\ BitmapFits /\ EnoughBelow(mem_size) =>
        \A p \in AccessedPages \cup DOMAIN tables \cup ({idtr} \ {NoRoot}) :
            Translate(p) = p

\* Boot ends: in the main loop, unless a page was missing or the firmware's
\* map has a descriptor of an unknown type.
BootEnds ==
    (\A i \in DOMAIN mmap : mmap[i].type <= MaxMemoryType)
        => <>(kpc \in {"main", "wild"})
=============================================================================
