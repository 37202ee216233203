----------------------------- MODULE PageFrames -----------------------------
(***************************************************************************)
(* kernel/uefi/mem.c, the physical page allocator: the measuring of the    *)
(* firmware's memory map, the placing and zeroing of the bitmap, the       *)
(* locking of the bitmap's own pages, the reservation of every descriptor  *)
(* the firmware keeps, and then the calls of the allocator's clients in    *)
(* any order.                                                              *)
(*                                                                         *)
(* Addresses are page numbers: every address the allocator is handed or    *)
(* returns is divided by 4096 before anything else is done with it.  The   *)
(* loops of lockPages, freePages and ReservePages take one step per page;  *)
(* `loop' is the call in progress and the rest of its range.               *)
(*                                                                         *)
(* The counters are uint64_t in bytes, changed by one page at a time.      *)
(* Here they are integers in pages that may leave the range of the word;   *)
(* since C's unsigned arithmetic is arithmetic modulo the word, the word   *)
(* stored is the integer's residue, which the getters take.                *)
(***************************************************************************)
EXTENDS Integers, Sequences, FiniteSets, Bitmap

CONSTANTS
    PageBytes,      \* bytes in a page: 4096 in the code
    WordPages,      \* pages in 2^64 bytes: 2^52 in the code
    MemoryMaps,     \* the memory maps the firmware may hand over
    Ranges          \* the page ranges clients lock or free: <<first, pages>>

\* EFI_MEMORY_TYPE, the values mem.c tells apart.
EfiConventionalMemory      == 7
EfiMemoryMappedIO          == 11
EfiMemoryMappedIOPortSpace == 12
MaxMemoryType              == 15

Descriptor == [type : Nat, first : Nat, pages : Nat]

ASSUME PageBytesAssumption == PageBytes \in Nat \ {0}
ASSUME WordPagesAssumption == WordPages \in Nat \ {0}
ASSUME MemoryMapsAssumption == \A m \in MemoryMaps : m \in Seq(Descriptor)
ASSUME RangesAssumption == \A r \in Ranges : r \in Nat \X Nat

VARIABLES
    mmap,       \* the firmware's descriptors
    phase,      \* where readEFIMemoryMap is: "measure", "reserve", "ready"
    desc,       \* the loop index over the descriptors
    loop,       \* the call that is walking a range, and what is left of it
    mem_size,   \* mem_info.mem_size_bytes, in pages
    size,       \* mem_info.MemBitMap.size, in bytes
    buffer,     \* mem_info.MemBitMap.buffer, as a page number
    bits,       \* the bits in reach of the bitmap's accessors
    free, used, reserved,  \* the three counters, in pages
    held        \* history: pages requestPage returned and nobody freed

bitmapVars  == <<size, buffer, bits>>
counterVars == <<free, used, reserved>>
mapVars     == <<mmap, mem_size>>
vars == <<mmap, phase, desc, loop, mem_size, size, buffer, bits,
          free, used, reserved, held>>

\* The counters as their getters return them: the words stored.
getFreeMemSize     == free % WordPages
getUsedMemSize     == used % WordPages
getReservedMemSize == reserved % WordPages

Pages(first, n) == first .. first + n - 1

-----------------------------------------------------------------------------
(* The memory map. *)

IsConventional(d) == d.type = EfiConventionalMemory

\* _descReservePage skips these types and reserves all the others.
Unreserved == {EfiConventionalMemory, EfiMemoryMappedIO,
               EfiMemoryMappedIOPortSpace}

\* The scan of readEFIMemoryMap replaces its candidate only by a strictly
\* larger one, so the first of the largest conventional segments wins.
IsLargest(m, i) ==
    /\ IsConventional(m[i])
    /\ m[i].pages > 0
    /\ \A j \in DOMAIN m :
         IsConventional(m[j]) => IF j < i THEN m[j].pages < m[i].pages
                                          ELSE m[j].pages <= m[i].pages

\* Without any conventional memory the candidate stays NULL, page 0.
LargestSegment(m) ==
    IF \E i \in DOMAIN m : IsLargest(m, i)
    THEN m[CHOOSE i \in DOMAIN m : IsLargest(m, i)].first
    ELSE 0

-----------------------------------------------------------------------------
(* The bitmap's view of the pages. *)

Tracked == Buffered(size)                \* what requestPage scans
Marked == {p \in Reach(size) : bits[p]}
\* Mutant: requestPage's scan bounded by the accessors' guard, not by size * 8.
Clear_scansPastEnd == {p \in Reach(size) : ~bits[p]}

Clear == {p \in Tracked : ~bits[p]}

\* The pages lockPages is called with for the bitmap's buffer.
BitmapPages == IF size = 0 THEN {}
               ELSE Pages(buffer, size \div PageBytes + 1)

FirmwarePages ==
    UNION {Pages(mmap[i].first, mmap[i].pages) :
             i \in {j \in DOMAIN mmap : mmap[j].type \notin Unreserved}}

Pinned == BitmapPages \cup FirmwarePages

-----------------------------------------------------------------------------
(* One page: _LockPage, _ReservePage and _FreePage. *)

\* Mutant: without the early return for a page already used.
_LockPage_twice(p) ==
    /\ bits' = bitmapSetVal(size, bits, p, TRUE)
    /\ free' = free - 1
    /\ used' = used + 1
    /\ UNCHANGED reserved

_LockPage(p) ==
    /\ IF ~ bitmapGetVal(size, bits, p) /\ SetValReturns(size, p)
       THEN /\ bits' = bitmapSetVal(size, bits, p, TRUE)
            /\ free' = free - 1
            /\ used' = used + 1
       ELSE UNCHANGED <<bits, free, used>>
    /\ UNCHANGED reserved

_ReservePage(p) ==
    /\ IF ~ bitmapGetVal(size, bits, p) /\ SetValReturns(size, p)
       THEN /\ bits' = bitmapSetVal(size, bits, p, TRUE)
            /\ free' = free - 1
            /\ reserved' = reserved + 1
       ELSE UNCHANGED <<bits, free, reserved>>
    /\ UNCHANGED used

_FreePage(p) ==
    /\ IF bitmapGetVal(size, bits, p)
       THEN /\ bits' = bitmapSetVal(size, bits, p, FALSE)
            /\ free' = free + 1
            /\ used' = used - 1
       ELSE UNCHANGED <<bits, free, used>>
    /\ UNCHANGED reserved

-----------------------------------------------------------------------------
(* A call that walks a range of pages. *)

Busy == loop.next < loop.end
Idle == [op |-> "lock", next |-> 0, end |-> 0]

Walk(op, first, n) == [op |-> op, next |-> first, end |-> first + n]

Advance ==
    loop' = IF loop.next + 1 = loop.end THEN Idle
            ELSE [loop EXCEPT !.next = loop.next + 1]

LockLoop ==
    /\ Busy /\ loop.op = "lock"
    /\ _LockPage(loop.next)
    /\ Advance
    /\ UNCHANGED <<mmap, phase, desc, mem_size, size, buffer, held>>

ReserveLoop ==
    /\ Busy /\ loop.op = "reserve"
    /\ _ReservePage(loop.next)
    /\ Advance
    /\ UNCHANGED <<mmap, phase, desc, mem_size, size, buffer, held>>

FreeLoop ==
    /\ Busy /\ loop.op = "free"
    /\ _FreePage(loop.next)
    /\ Advance
    /\ held' = held \ {loop.next}
    /\ UNCHANGED <<mmap, phase, desc, mem_size, size, buffer>>

-----------------------------------------------------------------------------
(* getMemSize and readEFIMemoryMap. *)

Init ==
    /\ mmap \in MemoryMaps
    /\ phase = "measure" /\ desc = 1 /\ loop = Idle
    /\ mem_size = 0 /\ size = 0 /\ buffer = 0
    /\ bits = [p \in Reach(0) |-> FALSE]
    /\ free = 0 /\ used = 0 /\ reserved = 0
    /\ held = {}

\* A descriptor whose type is unknown stops the kernel in an endless loop.
_descAddMemSize ==
    /\ phase = "measure"
    /\ desc \in DOMAIN mmap
    /\ mmap[desc].type <= MaxMemoryType
    /\ mem_size' = mem_size + mmap[desc].pages
    /\ desc' = desc + 1
    /\ UNCHANGED <<mmap, phase, loop, size, buffer, bits, free, used,
                   reserved, held>>

\* The buffer is zeroed byte by byte; the byte after it keeps what the memory
\* held before.
PGinitBitMap(newSize, addr) ==
    /\ size' = newSize
    /\ buffer' = addr
    /\ \E rest \in SUBSET (Reach(newSize) \ Buffered(newSize)) :
         bits' = [p \in Reach(newSize) |-> p \in rest]

\* Mutant: the bitmap's last page is not locked.
readEFIMemoryMap_lastPage ==
    /\ phase = "measure"
    /\ desc \notin DOMAIN mmap
    /\ PGinitBitMap(mem_size \div BitsPerByte + 1, LargestSegment(mmap))
    /\ free' = mem_size
    /\ loop' = Walk("lock", buffer', size' \div PageBytes)
    /\ phase' = "reserve"
    /\ desc' = 1
    /\ UNCHANGED <<mmap, mem_size, used, reserved, held>>

readEFIMemoryMap ==
    /\ phase = "measure"
    /\ desc \notin DOMAIN mmap
    /\ PGinitBitMap(mem_size \div BitsPerByte + 1, LargestSegment(mmap))
    /\ free' = mem_size
    /\ loop' = Walk("lock", buffer', size' \div PageBytes + 1)
    /\ phase' = "reserve"
    /\ desc' = 1
    /\ UNCHANGED <<mmap, mem_size, used, reserved, held>>

\* Mutant: the last page of a segment is left out.
_descReservePage_short ==
    /\ phase = "reserve" /\ ~Busy
    /\ desc \in DOMAIN mmap
    /\ desc' = desc + 1
    /\ loop' = IF mmap[desc].type \in Unreserved THEN loop
               ELSE Walk("reserve", mmap[desc].first, mmap[desc].pages - 1)
    /\ UNCHANGED <<mmap, phase, mem_size, size, buffer, bits, free, used,
                   reserved, held>>

_descReservePage ==
    /\ phase = "reserve" /\ ~Busy
    /\ desc \in DOMAIN mmap
    /\ desc' = desc + 1
    /\ loop' = IF mmap[desc].type \in Unreserved THEN loop
               ELSE Walk("reserve", mmap[desc].first, mmap[desc].pages)
    /\ UNCHANGED <<mmap, phase, mem_size, size, buffer, bits, free, used,
                   reserved, held>>

MapRead ==
    /\ phase = "reserve" /\ ~Busy
    /\ desc \notin DOMAIN mmap
    /\ phase' = "ready"
    /\ UNCHANGED <<mmap, desc, loop, mem_size, size, buffer, bits, free,
                   used, reserved, held>>

-----------------------------------------------------------------------------
(* The clients' calls. *)

Serving == phase = "ready" /\ ~Busy

lockPages(first, n) ==
    /\ Serving
    /\ loop' = Walk("lock", first, n)
    /\ UNCHANGED <<mmap, phase, desc, mem_size, size, buffer, bits, free,
                   used, reserved, held>>

\* Nobody frees the bitmap's pages or the firmware's: freePages has no caller
\* in the tree, and this is the contract its accounting supposes, since it
\* takes every page it frees from used_memory.
freePages(first, n) ==
    /\ Serving
    /\ Pages(first, n) \cap Pinned = {}
    /\ loop' = Walk("free", first, n)
    /\ UNCHANGED <<mmap, phase, desc, mem_size, size, buffer, bits, free,
                   used, reserved, held>>

\* Mutant: the scan runs from the top of the bitmap.
FirstClear_last(p) == p \in Clear /\ \A q \in Clear : p >= q

FirstClear(p) == p \in Clear /\ \A q \in Clear : p <= q

\* With no clear bit left requestPage returns NULL and changes nothing.
requestPage(p) ==
    /\ Serving
    /\ FirstClear(p)
    /\ _LockPage(p)
    /\ held' = held \cup {p}
    /\ UNCHANGED <<mmap, phase, desc, loop, mem_size, size, buffer>>

Boot == _descAddMemSize \/ readEFIMemoryMap \/ _descReservePage \/ MapRead

Looping == LockLoop \/ ReserveLoop \/ FreeLoop

Next ==
    \/ Boot
    \/ Looping
    \/ \E r \in Ranges : lockPages(r[1], r[2])
    \/ \E r \in Ranges : freePages(r[1], r[2])
    \/ \E p \in Clear : requestPage(p)

Spec == Init /\ [][Next]_vars

-----------------------------------------------------------------------------
(* What the allocator promises. *)

\* The types of the variables: the bits are those in reach of the accessors,
\* and only the tracked pages are ever handed out.
TypeOK ==
    /\ mmap \in MemoryMaps
    /\ phase \in {"measure", "reserve", "ready"}
    /\ desc \in Nat \ {0}
    /\ loop \in [op : {"lock", "reserve", "free"}, next : Nat, end : Nat]
    /\ mem_size \in Nat /\ size \in Nat /\ buffer \in Nat
    /\ bits \in [Reach(size) -> BOOLEAN]
    /\ free \in Int /\ used \in Int /\ reserved \in Int
    /\ held \subseteq Tracked

\* Every page is in exactly one of the three counters: whatever is locked,
\* reserved, refused or freed, in any order, free, used and reserved memory
\* add up to the size getMemSize measured.
Conservation ==
    phase # "measure" => free + used + reserved = mem_size

\* free_memory is what requestPage can still deliver, to within the bits the
\* bitmap has and the memory map does not: the tail of its last byte, and the
\* byte behind it that the accessors also let through.
PoolMatchesFree ==
    phase # "measure" =>
        LET surplus == Cardinality(Clear) - free
        IN  surplus > -BitsPerByte /\ surplus <= 2 * BitsPerByte

\* The pages of the bytes that the bitmap's accessors read or write, the byte
\* one past the buffer included.
AccessedPages == {buffer + (b \div PageBytes) : b \in 0 .. size}

\* The bitmap never gives away its own memory: once its pages have been
\* locked, requestPage cannot return a page that a bitmap access touches.
BitmapNotInPool ==
    (phase = "ready" \/ (phase = "reserve" /\ desc > 1)) =>
        AccessedPages \cap Clear = {}

\* Nothing the firmware keeps (its code and data, ACPI tables, the loaded
\* kernel) is ever in the pool once the memory map has been read.
FirmwareNotInPool ==
    phase = "ready" => FirmwarePages \cap Clear = {}

\* A page given to a client leaves the pool until it is freed, and was neither
\* the bitmap's nor the firmware's: no page has two owners.
HeldExclusively ==
    held \cap (Clear \cup Pinned) = {}

\* The allocator implements the abstract pool of frames: the pool is the set
\* of clear bits that requestPage scans, the kept frames the pinned ones whose
\* bit is set.
Pool == INSTANCE FramePool WITH
            stage  <- phase,
            frames <- Tracked,
            pool   <- Clear,
            kept   <- Pinned \cap (Tracked \ Clear),
            lent   <- held

ImplementsPool == Pool!PoolSpec

\* mem.c:128-133: "higher memory address will eventually be included in the
\* table regardless of how many `holes' are there": every conventional page
\* has a bit that requestPage scans.
HighMemoryTracked ==
    phase = "ready" =>
        \A i \in DOMAIN mmap :
            IsConventional(mmap[i]) =>
                Pages(mmap[i].first, mmap[i].pages) \subseteq Tracked

-----------------------------------------------------------------------------
(* The inductive invariant. *)

\* The call in progress is still to come to page p.
Coming(op, p) == Busy /\ loop.op = op /\ loop.next <= p /\ p < loop.end

\* Which calls run in which phase, and what each phase has set up.
Stages ==
    /\ desc \in 1 .. Len(mmap) + 1
    /\ phase = "measure" =>
         ~Busy /\ size = 0 /\ used = 0 /\ reserved = 0 /\ held = {}
    /\ phase # "measure" => size = mem_size \div BitsPerByte + 1
    /\ phase = "reserve" => held = {}
    /\ Busy /\ loop.op = "reserve" => phase = "reserve"
    /\ Busy /\ loop.op = "free" => phase = "ready"
    /\ phase = "reserve" /\ Busy /\ loop.op = "lock" =>
         /\ desc = 1
         /\ \A p \in loop.next .. loop.end - 1 : p \in BitmapPages
    /\ phase = "reserve" /\ Busy /\ loop.op = "reserve" =>
         \A p \in loop.next .. loop.end - 1 : p \in FirmwarePages

\* No page of the bitmap or of the firmware is being freed.
FreesOnlyClients ==
    Busy /\ loop.op = "free" =>
        \A p \in loop.next .. loop.end - 1 : p \notin Pinned

\* The pages of the bitmap, and those of the descriptors already visited, have
\* left the pool or are about to.
BitmapLeaving ==
    phase # "measure" =>
        \A p \in BitmapPages :
            p \notin Clear \/ (phase = "reserve" /\ Coming("lock", p))

FirmwareLeaving ==
    phase # "measure" =>
        \A i \in DOMAIN mmap :
            mmap[i].type \notin Unreserved /\ (phase = "reserve" => i < desc) =>
                \A p \in Pages(mmap[i].first, mmap[i].pages) :
                    p \notin Clear \/ Coming("reserve", p)

\* Every step moves the free counter against the number of set bits, which
\* started out as those that the byte behind the buffer happened to hold.
Ledger ==
    phase # "measure" =>
        free + Cardinality(Marked) \in mem_size .. mem_size + BitsPerByte

\* Together they are preserved by every step.
IInv ==
    /\ TypeOK
    /\ Stages
    /\ FreesOnlyClients
    /\ BitmapLeaving
    /\ FirmwareLeaving
    /\ HeldExclusively
    /\ Conservation
    /\ Ledger
=============================================================================
