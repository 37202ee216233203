-------------------------- MODULE KernelBoot_proofs --------------------------
(***************************************************************************)
(* Proofs about the physical page allocator, for every memory map, every   *)
(* range of pages clients lock or free, and every size of bytes and pages; *)
(* and about kmain, a client of it like any other, whose page tables these *)
(* proofs follow from the first request to the main loop.                  *)
(***************************************************************************)
EXTENDS KernelBoot, FiniteSetTheorems, TLAPS

-----------------------------------------------------------------------------
(* Arithmetic. *)

\* Integer division of naturals gives a natural, and the remainder is less
\* than the divisor.
LEMMA Division ==
    ASSUME NEW a \in Nat, NEW b \in Nat \ {0}
    PROVE  /\ a \div b \in Nat
           /\ (a \div b) * b <= a
           /\ a < (a \div b) * b + b
    OBVIOUS

\* Multiplication by a positive number keeps the order of naturals.
LEMMA ProductOrder ==
    ASSUME NEW a \in Nat, NEW b \in Nat, NEW c \in Nat \ {0}
    PROVE  /\ a <= b => a * c <= b * c
           /\ a * c \in Nat
           /\ (a + 1) * c = a * c + c
    OBVIOUS

\* A smaller number has at most the larger one's quotient.
LEMMA QuotientOrder ==
    ASSUME NEW a \in Nat, NEW b \in Nat, NEW c \in Nat \ {0}, a <= b
    PROVE  a \div c <= b \div c
<1> DEFINE qa == a \div c
           qb == b \div c
<1>1. qa \in Nat /\ qb \in Nat /\ qa * c <= a /\ b < qb * c + c
    BY Division
<1>2. SUFFICES ASSUME qb + 1 <= qa PROVE FALSE
    BY <1>1
<1>3. (qb + 1) * c <= qa * c
    BY <1>1, <1>2, ProductOrder
<1>4. (qb + 1) * c = qb * c + c
    BY <1>1, ProductOrder
<1> QED
    BY <1>1, <1>3, <1>4, ProductOrder

\* The accessors' guard lets through exactly the indices in reach.
LEMMA GuardIsReach ==
    ASSUME NEW s \in Nat, NEW p \in Nat
    PROVE  PassesGuard(s, p) <=> p \in Reach(s)
<1> DEFINE q == p \div BitsPerByte
           B == BitsPerByte
<1>0. B \in Nat \ {0}
    BY BitsPerByteAssumption
<1>1. q \in Nat /\ q * B <= p /\ p < q * B + B
    BY <1>0, Division
<1>2. ASSUME q <= s PROVE p <= (s + 1) * B - 1
    BY <1>0, <1>1, <1>2, ProductOrder
<1>3. ASSUME ~(q <= s) PROVE p > (s + 1) * B - 1
  <2>1. (s + 1) * B <= q * B
    BY <1>0, <1>1, <1>3, ProductOrder
  <2> QED
    BY <2>1, <1>0, <1>1, ProductOrder
<1>4. p \in Reach(s) <=> p <= (s + 1) * B - 1
    BY <1>0, ProductOrder DEF Reach
<1> QED
    BY <1>2, <1>3, <1>4, <1>0, <1>1, ProductOrder DEF PassesGuard, ByteOf

\* The bits of the buffer are among those in reach; both sets are finite.
LEMMA TrackedInReach ==
    ASSUME NEW s \in Nat
    PROVE  /\ Buffered(s) \subseteq Reach(s)
           /\ Reach(s) \subseteq Nat
           /\ IsFiniteSet(Reach(s))
           /\ Cardinality(Buffered(s)) = s * BitsPerByte
           /\ Cardinality(Reach(s) \ Buffered(s)) = BitsPerByte
<1> DEFINE B  == BitsPerByte
           lo == s * B
<1>0. B \in Nat \ {0}
    BY BitsPerByteAssumption
<1>1. lo \in Nat /\ (s + 1) * B = lo + B
    BY <1>0, ProductOrder
<1>2. Buffered(s) = 0 .. lo - 1
    BY DEF Buffered
<1>3. /\ Reach(s) = 0 .. (s + 1) * B - 1
      /\ lo = s * BitsPerByte /\ B = BitsPerByte
    BY DEF Reach
<1> HIDE DEF B, lo
<1>4. Reach(s) = 0 .. lo + B - 1
  <2> DEFINE hi == (s + 1) * B
  <2>1. hi = lo + B /\ Reach(s) = 0 .. hi - 1
    BY <1>1, <1>3
  <2> HIDE DEF hi
  <2> QED
    BY <2>1, <1>0, <1>1
<1>5. Reach(s) \ Buffered(s) = lo .. lo + B - 1
    BY <1>0, <1>1, <1>2, <1>4
<1>6. IsFiniteSet(0 .. lo + B - 1)
    BY <1>0, <1>1, FS_Interval
<1>7. Cardinality(0 .. lo - 1) = lo
  <2>1. Cardinality(0 .. lo - 1) = IF 0 > lo - 1 THEN 0 ELSE (lo - 1) - 0 + 1
    BY <1>1, FS_Interval
  <2> QED
    BY <2>1, <1>1
<1>8. Cardinality(lo .. lo + B - 1) = B
  <2>1. Cardinality(lo .. lo + B - 1)
          = IF lo > lo + B - 1 THEN 0 ELSE (lo + B - 1) - lo + 1
    BY <1>0, <1>1, FS_Interval
  <2> QED
    BY <2>1, <1>0, <1>1
<1>9. Buffered(s) \subseteq Reach(s) /\ Reach(s) \subseteq Nat
    BY <1>0, <1>1, <1>2, <1>4
<1> QED
    BY <1>2, <1>3, <1>4, <1>5, <1>6, <1>7, <1>8, <1>9

\* Disjoint finite sets are counted apart.
LEMMA DisjointUnion ==
    ASSUME NEW S, NEW T, IsFiniteSet(S), IsFiniteSet(T), S \cap T = {}
    PROVE  Cardinality(S \cup T) = Cardinality(S) + Cardinality(T)
<1>1. Cardinality(S \cup T)
        = Cardinality(S) + Cardinality(T) - Cardinality(S \cap T)
    BY FS_Union
<1>2. Cardinality(S \cap T) = 0
    BY FS_EmptySet
<1>3. Cardinality(S) \in Nat /\ Cardinality(T) \in Nat
    BY FS_CardinalityType
<1> QED
    BY <1>1, <1>2, <1>3

-----------------------------------------------------------------------------
(* One page. *)

\* Setting a clear bit in reach moves one page out of the clear ones.
LEMMA SetBit ==
    ASSUME TypeOK, UNCHANGED size, NEW p \in Reach(size), ~bits[p],
           bits' = [bits EXCEPT ![p] = TRUE]
    PROVE  /\ bits' \in [Reach(size) -> BOOLEAN]
           /\ Clear' = Clear \ {p}
           /\ Cardinality(Marked') = Cardinality(Marked) + 1
           /\ Cardinality(Marked) \in Nat
<1> USE DEF TypeOK
<1>1. bits' \in [Reach(size) -> BOOLEAN]
    OBVIOUS
<1>2. Tracked' = Tracked /\ Tracked \subseteq Reach(size)
    BY TrackedInReach DEF Tracked
<1>3. Clear' = Clear \ {p}
    BY <1>2 DEF Clear
<1>4. Marked' = Marked \cup {p} /\ p \notin Marked
    BY DEF Marked
<1>5. IsFiniteSet(Marked)
    BY TrackedInReach, FS_Subset DEF Marked
<1>6. Cardinality(Marked') = Cardinality(Marked) + 1
    BY <1>4, <1>5, FS_AddElement
<1> QED
    BY <1>1, <1>3, <1>5, <1>6, FS_CardinalityType

\* Clearing a set bit puts its page back, if it is a tracked one.
LEMMA ClearBit ==
    ASSUME TypeOK, UNCHANGED size, NEW p \in Reach(size), bits[p],
           bits' = [bits EXCEPT ![p] = FALSE]
    PROVE  /\ bits' \in [Reach(size) -> BOOLEAN]
           /\ Clear' = Clear \cup ({p} \cap Tracked)
           /\ Cardinality(Marked') = Cardinality(Marked) - 1
           /\ Cardinality(Marked) \in Nat
<1> USE DEF TypeOK
<1>1. bits' \in [Reach(size) -> BOOLEAN]
    OBVIOUS
<1>2. Tracked' = Tracked /\ Tracked \subseteq Reach(size)
    BY TrackedInReach DEF Tracked
<1>3. Clear' = Clear \cup ({p} \cap Tracked)
    BY <1>2 DEF Clear
<1>4. Marked' = Marked \ {p} /\ p \in Marked
    BY DEF Marked
<1>5. IsFiniteSet(Marked)
    BY TrackedInReach, FS_Subset DEF Marked
<1>6. Cardinality(Marked') = Cardinality(Marked) - 1
    BY <1>4, <1>5, FS_RemoveElement
<1> QED
    BY <1>1, <1>3, <1>5, <1>6, FS_CardinalityType

\* What _LockPage does to the pool and to the books.
LEMMA LockEffect ==
    ASSUME TypeOK, UNCHANGED size, NEW p \in Nat, _LockPage(p)
    PROVE  /\ bits' \in [Reach(size) -> BOOLEAN]
           /\ free' \in Int /\ used' \in Int /\ reserved' \in Int
           /\ Clear' = Clear \ {p}
           /\ free' + used' + reserved' = free + used + reserved
           /\ free' + Cardinality(Marked') = free + Cardinality(Marked)
<1>1. CASE p \in Reach(size) /\ ~bits[p]
  <2>1. /\ bits' = [bits EXCEPT ![p] = TRUE]
        /\ free' = free - 1 /\ used' = used + 1 /\ reserved' = reserved
    BY <1>1, GuardIsReach
       DEF _LockPage, bitmapGetVal, bitmapSetVal, SetValReturns, TypeOK
  <2>2. /\ bits' \in [Reach(size) -> BOOLEAN]
        /\ Clear' = Clear \ {p}
        /\ Cardinality(Marked') = Cardinality(Marked) + 1
        /\ Cardinality(Marked) \in Nat
    BY <1>1, <2>1, SetBit
  <2> QED
    BY <2>1, <2>2 DEF TypeOK
<1>2. CASE ~(p \in Reach(size) /\ ~bits[p])
  <2>1. UNCHANGED <<bits, free, used, reserved>>
    BY <1>2, GuardIsReach
       DEF _LockPage, bitmapGetVal, SetValReturns, TypeOK
  <2>2. Clear' = Clear /\ Marked' = Marked
    BY <2>1 DEF Clear, Tracked, Marked
  <2>3. p \notin Clear
    BY <1>2, TrackedInReach DEF Clear, Tracked, TypeOK
  <2> QED
    BY <2>1, <2>2, <2>3 DEF TypeOK
<1> QED
    BY <1>1, <1>2

\* What _ReservePage does to the pool and to the books.
LEMMA ReserveEffect ==
    ASSUME TypeOK, UNCHANGED size, NEW p \in Nat, _ReservePage(p)
    PROVE  /\ bits' \in [Reach(size) -> BOOLEAN]
           /\ free' \in Int /\ used' \in Int /\ reserved' \in Int
           /\ Clear' = Clear \ {p}
           /\ free' + used' + reserved' = free + used + reserved
           /\ free' + Cardinality(Marked') = free + Cardinality(Marked)
<1>1. CASE p \in Reach(size) /\ ~bits[p]
  <2>1. /\ bits' = [bits EXCEPT ![p] = TRUE]
        /\ free' = free - 1 /\ reserved' = reserved + 1 /\ used' = used
    BY <1>1, GuardIsReach
       DEF _ReservePage, bitmapGetVal, bitmapSetVal, SetValReturns, TypeOK
  <2>2. /\ bits' \in [Reach(size) -> BOOLEAN]
        /\ Clear' = Clear \ {p}
        /\ Cardinality(Marked') = Cardinality(Marked) + 1
        /\ Cardinality(Marked) \in Nat
    BY <1>1, <2>1, SetBit
  <2> QED
    BY <2>1, <2>2 DEF TypeOK
<1>2. CASE ~(p \in Reach(size) /\ ~bits[p])
  <2>1. UNCHANGED <<bits, free, used, reserved>>
    BY <1>2, GuardIsReach
       DEF _ReservePage, bitmapGetVal, SetValReturns, TypeOK
  <2>2. Clear' = Clear /\ Marked' = Marked
    BY <2>1 DEF Clear, Tracked, Marked
  <2>3. p \notin Clear
    BY <1>2, TrackedInReach DEF Clear, Tracked, TypeOK
  <2> QED
    BY <2>1, <2>2, <2>3 DEF TypeOK
<1> QED
    BY <1>1, <1>2

\* What _FreePage does to the pool and to the books.
LEMMA FreeEffect ==
    ASSUME TypeOK, UNCHANGED size, NEW p \in Nat, _FreePage(p)
    PROVE  /\ bits' \in [Reach(size) -> BOOLEAN]
           /\ free' \in Int /\ used' \in Int /\ reserved' \in Int
           /\ Clear' = Clear \cup ({p} \cap Tracked)
           /\ free' + used' + reserved' = free + used + reserved
           /\ free' + Cardinality(Marked') = free + Cardinality(Marked)
<1>1. CASE p \in Reach(size) /\ bits[p]
  <2>1. /\ bits' = [bits EXCEPT ![p] = FALSE]
        /\ free' = free + 1 /\ used' = used - 1 /\ reserved' = reserved
    BY <1>1, GuardIsReach
       DEF _FreePage, bitmapGetVal, bitmapSetVal, TypeOK
  <2>2. /\ bits' \in [Reach(size) -> BOOLEAN]
        /\ Clear' = Clear \cup ({p} \cap Tracked)
        /\ Cardinality(Marked') = Cardinality(Marked) - 1
        /\ Cardinality(Marked) \in Nat
    BY <1>1, <2>1, ClearBit
  <2> QED
    BY <2>1, <2>2 DEF TypeOK
<1>2. CASE ~(p \in Reach(size) /\ bits[p])
  <2>1. UNCHANGED <<bits, free, used, reserved>>
    BY <1>2, GuardIsReach DEF _FreePage, bitmapGetVal, TypeOK
  <2>2. Clear' = Clear /\ Marked' = Marked
    BY <2>1 DEF Clear, Tracked, Marked
  <2>3. p \in Tracked => p \in Clear
    BY <1>2, TrackedInReach DEF Clear, Tracked, TypeOK
  <2> QED
    BY <2>1, <2>2, <2>3 DEF TypeOK
<1> QED
    BY <1>1, <1>2

-----------------------------------------------------------------------------
(* The inductive invariant. *)

\* A step of any of the three loops goes on to the next page or ends the call.
LEMMA AdvanceRange ==
    ASSUME TypeOK, Busy, Advance
    PROVE  /\ loop' \in [op : {"lock", "reserve", "free"}, next : Nat, end : Nat]
           /\ loop.next \in Nat
           /\ Busy' => /\ loop'.op = loop.op
                        /\ loop'.next = loop.next + 1
                        /\ loop'.end = loop.end
           /\ ~Busy' => loop.next + 1 = loop.end
<1>1. CASE loop.next + 1 = loop.end
    BY <1>1 DEF TypeOK, Advance, Busy, Idle
<1>2. CASE loop.next + 1 # loop.end
    BY <1>2 DEF TypeOK, Advance, Busy, Idle
<1> QED
    BY <1>1, <1>2

\* The descriptors of a map have their declared types.
LEMMA MapType ==
    ASSUME TypeOK
    PROVE  /\ Len(mmap) \in Nat
           /\ DOMAIN mmap = 1 .. Len(mmap)
           /\ \A i \in DOMAIN mmap :
                /\ mmap[i].type \in Nat
                /\ mmap[i].first \in Nat
                /\ mmap[i].pages \in Nat
<1>1. mmap \in Seq(Descriptor)
    BY MemoryMapsAssumption DEF TypeOK
<1>2. Len(mmap) \in Nat /\ DOMAIN mmap = 1 .. Len(mmap)
    BY <1>1
<1>3. \A i \in DOMAIN mmap : mmap[i] \in Descriptor
    BY <1>1
<1> QED
    BY <1>2, <1>3 DEF Descriptor

LEMMA InitInvariant == Init => IInv
<1> SUFFICES ASSUME Init PROVE IInv
    OBVIOUS
<1>1. Len(mmap) \in Nat
    BY MemoryMapsAssumption DEF Init
<1>2. Tracked = {} 
    BY BitsPerByteAssumption DEF Init, Tracked, Buffered
<1>3. TypeOK
    BY <1>2 DEF Init, TypeOK, Idle
<1> QED
    BY <1>1, <1>3
       DEF Init, IInv, Stages, Busy, Idle, FreesOnlyClients, BitmapLeaving,
           FirmwareLeaving, HeldExclusively, Conservation, Ledger

\* A step of lockPages' loop.
LEMMA LockLoopInvariant ==
    ASSUME IInv, LockLoop
    PROVE  IInv'
<1> DEFINE p == loop.next
<1>1. /\ TypeOK /\ Busy /\ loop.op = "lock" /\ Advance /\ _LockPage(p)
      /\ UNCHANGED <<mmap, phase, desc, mem_size, size, buffer, held>>
    BY DEF IInv, LockLoop
<1>2. p \in Nat /\ phase # "measure"
    BY <1>1 DEF TypeOK, IInv, Stages
<1>3. /\ bits' \in [Reach(size) -> BOOLEAN]
      /\ free' \in Int /\ used' \in Int /\ reserved' \in Int
      /\ Clear' = Clear \ {p}
      /\ free' + used' + reserved' = free + used + reserved
      /\ free' + Cardinality(Marked') = free + Cardinality(Marked)
    BY <1>1, <1>2, LockEffect
<1>4. /\ Pinned' = Pinned /\ BitmapPages' = BitmapPages
      /\ FirmwarePages' = FirmwarePages /\ Tracked' = Tracked
    BY <1>1 DEF Pinned, BitmapPages, FirmwarePages, Tracked
<1>5. /\ loop' \in [op : {"lock", "reserve", "free"}, next : Nat, end : Nat]
      /\ Busy' => loop'.op = "lock" /\ loop'.next = p + 1 /\ loop'.end = loop.end
      /\ ~Busy' => p + 1 = loop.end
    BY <1>1, AdvanceRange
<1>6. TypeOK'
    BY <1>1, <1>3, <1>4, <1>5 DEF TypeOK
<1>7. Stages'
    BY <1>1, <1>2, <1>4, <1>5 DEF Stages, IInv, TypeOK, Busy
<1>8. FreesOnlyClients'
    BY <1>5 DEF FreesOnlyClients
<1>9. BitmapLeaving'
  <2>1. \A q \in Nat : Coming("lock", q) => q = p \/ Coming("lock", q)'
    BY <1>1, <1>2, <1>5 DEF Coming, TypeOK, Busy
  <2>2. BitmapPages \subseteq Nat
    BY <1>1, PageBytesAssumption, Division DEF BitmapPages, Pages, TypeOK
  <2> QED
    BY <1>1, <1>2, <1>3, <1>4, <2>1, <2>2 DEF BitmapLeaving, IInv
<1>10. FirmwareLeaving'
    BY <1>1, <1>2, <1>3 DEF FirmwareLeaving, IInv, Coming
<1>11. HeldExclusively'
    BY <1>1, <1>3, <1>4 DEF HeldExclusively, IInv
<1>12. Conservation' /\ Ledger'
    BY <1>1, <1>3 DEF Conservation, Ledger, IInv
<1> QED
    BY <1>6, <1>7, <1>8, <1>9, <1>10, <1>11, <1>12 DEF IInv

\* A step of ReservePages' loop.
LEMMA ReserveLoopInvariant ==
    ASSUME IInv, ReserveLoop
    PROVE  IInv'
<1> DEFINE p == loop.next
<1>1. /\ TypeOK /\ Busy /\ loop.op = "reserve" /\ Advance
      /\ _ReservePage(p)
      /\ UNCHANGED <<mmap, phase, desc, mem_size, size, buffer, held>>
    BY DEF IInv, ReserveLoop
<1>2. p \in Nat /\ phase = "reserve"
    BY <1>1 DEF TypeOK, IInv, Stages
<1>3. /\ bits' \in [Reach(size) -> BOOLEAN]
      /\ free' \in Int /\ used' \in Int /\ reserved' \in Int
      /\ Clear' = Clear \ {p}
      /\ free' + used' + reserved' = free + used + reserved
      /\ free' + Cardinality(Marked') = free + Cardinality(Marked)
    BY <1>1, <1>2, ReserveEffect
<1>4. /\ Pinned' = Pinned /\ BitmapPages' = BitmapPages
      /\ FirmwarePages' = FirmwarePages /\ Tracked' = Tracked
    BY <1>1 DEF Pinned, BitmapPages, FirmwarePages, Tracked
<1>5. /\ loop' \in [op : {"lock", "reserve", "free"}, next : Nat, end : Nat]
      /\ Busy' => loop'.op = "reserve" /\ loop'.next = p + 1 /\ loop'.end = loop.end
      /\ ~Busy' => p + 1 = loop.end
    BY <1>1, AdvanceRange
<1>6. TypeOK'
    BY <1>1, <1>3, <1>4, <1>5 DEF TypeOK
<1>7. Stages'
    BY <1>1, <1>2, <1>4, <1>5 DEF Stages, IInv, TypeOK, Busy
<1>8. FreesOnlyClients'
    BY <1>5 DEF FreesOnlyClients
<1>9. BitmapLeaving'
    BY <1>1, <1>2, <1>3, <1>4 DEF BitmapLeaving, IInv, Coming
<1>10. FirmwareLeaving'
  <2>1. \A q \in Nat : Coming("reserve", q) => q = p \/ Coming("reserve", q)'
    BY <1>1, <1>2, <1>5 DEF Coming, TypeOK, Busy
  <2>2. \A i \in DOMAIN mmap : Pages(mmap[i].first, mmap[i].pages) \subseteq Nat
    BY <1>1, MapType DEF Pages
  <2> QED
    BY <1>1, <1>2, <1>3, <2>1, <2>2 DEF FirmwareLeaving, IInv
<1>11. HeldExclusively'
    BY <1>1, <1>3, <1>4 DEF HeldExclusively, IInv
<1>12. Conservation' /\ Ledger'
    BY <1>1, <1>3 DEF Conservation, Ledger, IInv
<1> QED
    BY <1>6, <1>7, <1>8, <1>9, <1>10, <1>11, <1>12 DEF IInv

\* A step of freePages' loop.
LEMMA FreeLoopInvariant ==
    ASSUME IInv, FreeLoop
    PROVE  IInv'
<1> DEFINE p == loop.next
<1>1. /\ TypeOK /\ Busy /\ loop.op = "free" /\ Advance /\ _FreePage(p)
      /\ held' = held \ {p}
      /\ UNCHANGED <<mmap, phase, desc, mem_size, size, buffer>>
    BY DEF IInv, FreeLoop
<1>2. p \in Nat /\ phase = "ready" /\ p \notin Pinned
    BY <1>1 DEF TypeOK, IInv, Stages, FreesOnlyClients, Busy
<1>3. /\ bits' \in [Reach(size) -> BOOLEAN]
      /\ free' \in Int /\ used' \in Int /\ reserved' \in Int
      /\ Clear' = Clear \cup ({p} \cap Tracked)
      /\ free' + used' + reserved' = free + used + reserved
      /\ free' + Cardinality(Marked') = free + Cardinality(Marked)
    BY <1>1, <1>2, FreeEffect
<1>4. /\ Pinned' = Pinned /\ BitmapPages' = BitmapPages
      /\ FirmwarePages' = FirmwarePages /\ Tracked' = Tracked
    BY <1>1 DEF Pinned, BitmapPages, FirmwarePages, Tracked
<1>5. /\ loop' \in [op : {"lock", "reserve", "free"}, next : Nat, end : Nat]
      /\ Busy' => loop'.op = "free" /\ loop'.next = p + 1 /\ loop'.end = loop.end
      /\ ~Busy' => p + 1 = loop.end
    BY <1>1, AdvanceRange
<1>6. TypeOK'
    BY <1>1, <1>3, <1>4, <1>5 DEF TypeOK
<1>7. Stages'
    BY <1>1, <1>2, <1>4, <1>5 DEF Stages, IInv, TypeOK, Busy
<1>8. FreesOnlyClients'
    BY <1>1, <1>2, <1>4, <1>5 DEF FreesOnlyClients, IInv, TypeOK
<1>9. BitmapLeaving'
    BY <1>1, <1>2, <1>3, <1>4 DEF BitmapLeaving, IInv, Pinned
<1>10. FirmwareLeaving'
  <2>1. \A i \in DOMAIN mmap : mmap[i].type \notin Unreserved =>
          p \notin Pages(mmap[i].first, mmap[i].pages)
    BY <1>2 DEF Pinned, FirmwarePages
  <2> QED
    BY <1>1, <1>2, <1>3, <2>1 DEF FirmwareLeaving, IInv, Coming
<1>11. HeldExclusively'
    BY <1>1, <1>2, <1>3, <1>4 DEF HeldExclusively, IInv
<1>12. Conservation' /\ Ledger'
    BY <1>1, <1>3 DEF Conservation, Ledger, IInv
<1> QED
    BY <1>6, <1>7, <1>8, <1>9, <1>10, <1>11, <1>12 DEF IInv

\* Measuring the map touches no bitmap: there is none yet.
LEMMA MeasureInvariant ==
    ASSUME IInv, _descAddMemSize
    PROVE  IInv'
<1>1. /\ TypeOK /\ phase = "measure" /\ phase' = phase
      /\ desc \in DOMAIN mmap /\ desc' = desc + 1
      /\ mem_size' = mem_size + mmap[desc].pages
      /\ UNCHANGED <<mmap, loop, size, buffer, bits, free, used, reserved, held>>
    BY DEF IInv, _descAddMemSize
<1>2. desc \in 1 .. Len(mmap) /\ Len(mmap) \in Nat /\ mmap[desc].pages \in Nat
    BY <1>1, MapType
<1>3. TypeOK'
    BY <1>1, <1>2 DEF TypeOK, Tracked
<1>4. Stages'
    BY <1>1, <1>2 DEF Stages, IInv, Busy
<1>5. HeldExclusively'
    BY <1>1 DEF HeldExclusively, IInv, Stages
<1> QED
    BY <1>1, <1>3, <1>4, <1>5
       DEF IInv, Stages, FreesOnlyClients, Busy, BitmapLeaving,
           FirmwareLeaving, Conservation, Ledger

\* The bitmap is created with every tracked bit clear, and the call that locks
\* its own pages begins.
LEMMA CreateInvariant ==
    ASSUME IInv, readEFIMemoryMap
    PROVE  IInv'
<1> DEFINE n == mem_size \div BitsPerByte + 1
           k == n \div PageBytes + 1
<1>1. PICK rest \in SUBSET (Reach(n) \ Buffered(n)) :
        bits' = [p \in Reach(n) |-> p \in rest]
    BY DEF readEFIMemoryMap, PGinitBitMap
<1>2. /\ TypeOK /\ phase = "measure" /\ phase' = "reserve"
      /\ size' = n /\ buffer' = LargestSegment(mmap)
      /\ free' = mem_size /\ desc' = 1
      /\ loop' = Walk("lock", buffer', k)
      /\ UNCHANGED <<mmap, mem_size, used, reserved, held>>
    BY DEF IInv, readEFIMemoryMap, PGinitBitMap
<1>3. n \in Nat /\ k \in Nat /\ k > 0 /\ n > 0
    BY <1>2, BitsPerByteAssumption, PageBytesAssumption, Division DEF TypeOK
<1>4. LargestSegment(mmap) \in Nat
  <2>1. CASE \E i \in DOMAIN mmap : IsLargest(mmap, i)
    BY <1>2, <2>1, MapType DEF LargestSegment
  <2>2. CASE ~ \E i \in DOMAIN mmap : IsLargest(mmap, i)
    BY <2>2 DEF LargestSegment
  <2> QED
    BY <2>1, <2>2
<1>5. loop' = [op |-> "lock", next |-> buffer', end |-> buffer' + k]
    BY <1>2 DEF Walk
<1>6. used = 0 /\ reserved = 0 /\ held = {}
    BY <1>2 DEF IInv, Stages
<1>7. bits' \in [Reach(n) -> BOOLEAN]
    BY <1>1
<1> HIDE DEF n, k
<1>8. TypeOK'
    BY <1>2, <1>3, <1>4, <1>5, <1>6, <1>7 DEF TypeOK, Tracked
<1>9. BitmapPages' = buffer' .. buffer' + k - 1
    BY <1>2, <1>3, <1>4 DEF BitmapPages, Pages, k
<1>10. Stages'
    BY <1>2, <1>3, <1>4, <1>5, <1>6, <1>9, MapType DEF Stages, n
<1>11. FreesOnlyClients'
    BY <1>5 DEF FreesOnlyClients
<1>12. BitmapLeaving'
    BY <1>2, <1>3, <1>4, <1>5, <1>9 DEF BitmapLeaving, Coming, Busy
<1>13. FirmwareLeaving'
    BY <1>2, MapType DEF FirmwareLeaving
<1>14. HeldExclusively'
    BY <1>2, <1>6 DEF HeldExclusively
<1>15. Conservation'
    BY <1>2, <1>6 DEF Conservation, TypeOK
<1>16. Ledger'
  <2>1. Marked' = rest
    BY <1>1, <1>2 DEF Marked
  <2>2. Cardinality(Reach(n) \ Buffered(n)) = BitsPerByte
        /\ IsFiniteSet(Reach(n) \ Buffered(n))
    BY <1>3, TrackedInReach, FS_Subset
  <2>3. Cardinality(rest) \in Nat /\ Cardinality(rest) <= BitsPerByte
    BY <2>2, FS_Subset, FS_CardinalityType
  <2> QED
    BY <1>2, <2>1, <2>3, BitsPerByteAssumption DEF Ledger, TypeOK
<1> QED
    BY <1>8, <1>10, <1>11, <1>12, <1>13, <1>14, <1>15, <1>16 DEF IInv

\* Nothing the books are kept in changes while a call begins or a phase ends.
LEMMA BooksUnchanged ==
    ASSUME IInv,
           UNCHANGED <<mmap, mem_size, size, buffer, bits, free, used, reserved>>
    PROVE  /\ Clear' = Clear /\ Marked' = Marked /\ Tracked' = Tracked
           /\ Pinned' = Pinned /\ BitmapPages' = BitmapPages
           /\ FirmwarePages' = FirmwarePages
           /\ (phase # "measure" => Conservation' /\ Ledger')
<1>1. /\ Clear' = Clear /\ Marked' = Marked /\ Tracked' = Tracked
      /\ Pinned' = Pinned /\ BitmapPages' = BitmapPages
      /\ FirmwarePages' = FirmwarePages
    BY DEF Clear, Marked, Tracked, Pinned, BitmapPages, FirmwarePages
<1> QED
    BY <1>1 DEF IInv, Conservation, Ledger

\* The next descriptor begins to be reserved, or is passed over.
LEMMA DescriptorInvariant ==
    ASSUME IInv, _descReservePage
    PROVE  IInv'
<1> DEFINE d == mmap[desc]
<1>1. /\ TypeOK /\ phase = "reserve" /\ phase' = phase /\ ~Busy
      /\ desc \in DOMAIN mmap /\ desc' = desc + 1
      /\ loop' = IF d.type \in Unreserved THEN loop
                 ELSE [op |-> "reserve", next |-> d.first,
                       end |-> d.first + d.pages]
      /\ UNCHANGED <<mmap, mem_size, size, buffer, bits, free, used, reserved>>
      /\ held' = held
    BY DEF IInv, _descReservePage, Walk
<1>2. /\ desc \in 1 .. Len(mmap) /\ Len(mmap) \in Nat
      /\ d.first \in Nat /\ d.pages \in Nat
    BY <1>1, MapType
<1>3. /\ Clear' = Clear /\ Tracked' = Tracked /\ Pinned' = Pinned
      /\ BitmapPages' = BitmapPages /\ FirmwarePages' = FirmwarePages
      /\ Conservation' /\ Ledger'
    BY <1>1, BooksUnchanged
<1>4. loop' \in [op : {"lock", "reserve", "free"}, next : Nat, end : Nat]
    BY <1>1, <1>2 DEF TypeOK
<1>5. TypeOK'
    BY <1>1, <1>2, <1>3, <1>4 DEF TypeOK
<1>6. Busy' => /\ loop'.op = "reserve" /\ d.type \notin Unreserved
               /\ loop'.next = d.first /\ loop'.end = d.first + d.pages
    BY <1>1 DEF Busy
<1>7. Stages'
  <2>1. Busy' => Pages(d.first, d.pages) \subseteq FirmwarePages'
    BY <1>1, <1>3, <1>6 DEF FirmwarePages
  <2>2. desc' \in 1 .. Len(mmap') + 1
    BY <1>1, <1>2
  <2>3. phase' # "measure" => size' = mem_size' \div BitsPerByte + 1
    BY <1>1 DEF IInv, Stages
  <2>4. held' = {}
    BY <1>1 DEF IInv, Stages
  <2>5. Busy' => \A q \in loop'.next .. loop'.end - 1 : q \in FirmwarePages'
    BY <1>2, <1>6, <2>1 DEF Pages
  <2> QED
    BY <1>1, <1>6, <2>2, <2>3, <2>4, <2>5 DEF Stages
<1>8. FreesOnlyClients'
    BY <1>6 DEF FreesOnlyClients
<1>9. BitmapLeaving'
    BY <1>1, <1>3 DEF BitmapLeaving, IInv, Coming
<1>10. FirmwareLeaving'
  <2>1. ASSUME NEW i \in DOMAIN mmap, mmap[i].type \notin Unreserved, i < desc + 1,
               NEW q \in Pages(mmap[i].first, mmap[i].pages)
        PROVE  q \notin Clear \/ Coming("reserve", q)'
    <3>1. CASE i = desc
      <4>1. q \in Nat /\ d.first <= q /\ q < d.first + d.pages
        BY <2>1, <3>1, <1>2 DEF Pages
      <4> QED
        BY <1>1, <1>2, <2>1, <3>1, <4>1 DEF Coming, Busy
    <3>2. CASE i < desc
      BY <1>1, <2>1, <3>2 DEF FirmwareLeaving, IInv, Coming
    <3> QED
      BY <2>1, <3>1, <3>2, <1>2, MapType, <1>1
  <2> QED
    BY <1>1, <1>3, <2>1 DEF FirmwareLeaving
<1>11. HeldExclusively'
    BY <1>1, <1>3 DEF HeldExclusively, IInv
<1> QED
    BY <1>3, <1>5, <1>7, <1>8, <1>9, <1>10, <1>11 DEF IInv

\* After the last descriptor everything pinned has left the pool.
LEMMA ReadyInvariant ==
    ASSUME IInv, MapRead
    PROVE  IInv'
<1>1. /\ TypeOK /\ phase = "reserve" /\ phase' = "ready" /\ ~Busy
      /\ desc \notin DOMAIN mmap
      /\ UNCHANGED <<mmap, mem_size, size, buffer, bits, free, used, reserved>>
      /\ UNCHANGED <<desc, loop, held>>
    BY DEF IInv, MapRead
<1>2. /\ Clear' = Clear /\ Tracked' = Tracked /\ Pinned' = Pinned
      /\ BitmapPages' = BitmapPages /\ FirmwarePages' = FirmwarePages
      /\ Conservation' /\ Ledger'
    BY <1>1, BooksUnchanged
<1>3. TypeOK'
    BY <1>1, <1>2 DEF TypeOK
<1>4. ~Busy'
    BY <1>1 DEF Busy
<1>5. Stages'
    BY <1>1, <1>4 DEF Stages, IInv
<1>6. \A i \in DOMAIN mmap : i < desc
    BY <1>1, MapType DEF IInv, Stages
<1>7. FirmwareLeaving'
    BY <1>1, <1>2, <1>6 DEF FirmwareLeaving, IInv, Coming
<1>8. BitmapLeaving'
    BY <1>1, <1>2 DEF BitmapLeaving, IInv, Coming
<1> QED
    BY <1>1, <1>2, <1>3, <1>4, <1>5, <1>7, <1>8
       DEF IInv, FreesOnlyClients, HeldExclusively

\* A client's lockPages or freePages begins.
LEMMA CallInvariant ==
    ASSUME IInv, NEW r \in Ranges,
           lockPages(r[1], r[2]) \/ freePages(r[1], r[2])
    PROVE  IInv'
<1>0. r[1] \in Nat /\ r[2] \in Nat
    BY RangesAssumption
<1>1. /\ TypeOK /\ phase = "ready" /\ phase' = phase /\ ~Busy
      /\ UNCHANGED <<mmap, mem_size, size, buffer, bits, free, used, reserved>>
      /\ UNCHANGED <<desc, held>>
    BY DEF IInv, lockPages, freePages, Serving
<1>2. /\ Clear' = Clear /\ Tracked' = Tracked /\ Pinned' = Pinned
      /\ BitmapPages' = BitmapPages /\ FirmwarePages' = FirmwarePages
      /\ Conservation' /\ Ledger'
    BY <1>1, BooksUnchanged
<1>3. PICK op \in {"lock", "free"} :
        /\ loop' = [op |-> op, next |-> r[1], end |-> r[1] + r[2]]
        /\ op = "free" => Pages(r[1], r[2]) \cap Pinned = {}
    BY DEF lockPages, freePages, Walk
<1>4. TypeOK'
    BY <1>0, <1>1, <1>2, <1>3 DEF TypeOK
<1>5. Stages'
    BY <1>1, <1>3 DEF Stages, IInv
<1>6. FreesOnlyClients'
    BY <1>0, <1>2, <1>3 DEF FreesOnlyClients, Pages
<1>7. BitmapLeaving' /\ FirmwareLeaving'
    BY <1>1, <1>2 DEF BitmapLeaving, FirmwareLeaving, IInv, Coming
<1> QED
    BY <1>1, <1>2, <1>4, <1>5, <1>6, <1>7 DEF IInv, HeldExclusively

\* A page requestPage hands out was in the pool, so it was nobody's.
LEMMA RequestInvariant ==
    ASSUME IInv, NEW p \in Clear, requestPage(p)
    PROVE  IInv'
<1>1. /\ TypeOK /\ phase = "ready" /\ phase' = phase /\ ~Busy /\ _LockPage(p)
      /\ held' = held \cup {p}
      /\ UNCHANGED <<mmap, desc, loop, mem_size, size, buffer>>
    BY DEF IInv, requestPage, Serving
<1>2. p \in Nat /\ p \in Tracked
    BY <1>1, TrackedInReach DEF Clear, Tracked, TypeOK
<1>3. /\ bits' \in [Reach(size) -> BOOLEAN]
      /\ free' \in Int /\ used' \in Int /\ reserved' \in Int
      /\ Clear' = Clear \ {p}
      /\ free' + used' + reserved' = free + used + reserved
      /\ free' + Cardinality(Marked') = free + Cardinality(Marked)
    BY <1>1, <1>2, LockEffect
<1>4. /\ Pinned' = Pinned /\ BitmapPages' = BitmapPages
      /\ FirmwarePages' = FirmwarePages /\ Tracked' = Tracked /\ Busy' = Busy
    BY <1>1 DEF Pinned, BitmapPages, FirmwarePages, Tracked, Busy
<1>5. TypeOK'
    BY <1>1, <1>2, <1>3, <1>4 DEF TypeOK
<1>6. p \notin BitmapPages
    BY <1>1 DEF IInv, BitmapLeaving
<1>7. p \notin FirmwarePages
    BY <1>1 DEF IInv, FirmwareLeaving, FirmwarePages, Coming
<1>8. HeldExclusively'
    BY <1>1, <1>3, <1>4, <1>6, <1>7 DEF HeldExclusively, IInv, Pinned
<1>9. Stages' /\ FreesOnlyClients'
    BY <1>1, <1>4 DEF Stages, FreesOnlyClients, IInv
<1>10. BitmapLeaving' /\ FirmwareLeaving'
    BY <1>1, <1>3, <1>4 DEF BitmapLeaving, FirmwareLeaving, IInv, Coming
<1>11. Conservation' /\ Ledger'
    BY <1>1, <1>3 DEF Conservation, Ledger, IInv
<1> QED
    BY <1>5, <1>8, <1>9, <1>10, <1>11 DEF IInv

LEMMA StutterInvariant ==
    ASSUME IInv, UNCHANGED vars
    PROVE  IInv'
<1>1. UNCHANGED <<mmap, phase, desc, loop, mem_size, size, buffer, bits, free,
                  used, reserved, held>>
    BY DEF vars
<1>2. /\ Clear' = Clear /\ Marked' = Marked /\ Tracked' = Tracked
      /\ Pinned' = Pinned /\ BitmapPages' = BitmapPages
      /\ FirmwarePages' = FirmwarePages /\ Busy' = Busy
    BY <1>1 DEF Clear, Marked, Tracked, Pinned, BitmapPages, FirmwarePages, Busy
<1> QED
    BY <1>1, <1>2
       DEF IInv, TypeOK, Stages, FreesOnlyClients, BitmapLeaving,
           FirmwareLeaving, Coming, HeldExclusively, Conservation, Ledger

-----------------------------------------------------------------------------
(* The theorems. *)

\* The inductive invariant holds in every reachable state: reading the memory
\* map and every order of the clients' calls preserve it.
THEOREM Invariance == Spec => []IInv
<1>1. Init => IInv
    BY InitInvariant
<1>2. IInv /\ [Next]_vars => IInv'
  <2> SUFFICES ASSUME IInv, [Next]_vars PROVE IInv'
    OBVIOUS
  <2>1. CASE Boot
    BY <2>1, MeasureInvariant, CreateInvariant, DescriptorInvariant,
       ReadyInvariant DEF Boot
  <2>2. CASE Looping
    BY <2>2, LockLoopInvariant, ReserveLoopInvariant, FreeLoopInvariant
       DEF Looping
  <2>3. CASE \E r \in Ranges : lockPages(r[1], r[2]) \/ freePages(r[1], r[2])
    BY <2>3, CallInvariant
  <2>4. CASE \E p \in Clear : requestPage(p)
    BY <2>4, RequestInvariant
  <2>5. CASE UNCHANGED vars
    BY <2>5, StutterInvariant
  <2> QED
    BY <2>1, <2>2, <2>3, <2>4, <2>5 DEF Next
<1> QED
    BY <1>1, <1>2, PTL DEF Spec

\* The variables keep their types: what requestPage has handed out is always
\* tracked by the bitmap.
THEOREM TypeCorrect == Spec => []TypeOK
<1>1. IInv => TypeOK
    BY DEF IInv
<1> QED
    BY <1>1, Invariance, PTL

\* The three counters of mem.c always add up to the measured memory.
THEOREM Conserved == Spec => []Conservation
<1>1. IInv => Conservation
    BY DEF IInv
<1> QED
    BY <1>1, Invariance, PTL

\* No page that requestPage handed out is in the pool, the bitmap's or the
\* firmware's.
THEOREM Exclusive == Spec => []HeldExclusively
<1>1. IInv => HeldExclusively
    BY DEF IInv
<1> QED
    BY <1>1, Invariance, PTL

\* Once the memory map has been read, the pool has none of the firmware's pages.
THEOREM FirmwareSafe == Spec => []FirmwareNotInPool
<1>1. IInv => FirmwareNotInPool
    BY DEF IInv, FirmwareNotInPool, FirmwareLeaving, FirmwarePages, Stages,
           Coming
<1> QED
    BY <1>1, Invariance, PTL

\* The pages a bitmap access touches are the pages locked for the buffer.
LEMMA AccessesLocked ==
    ASSUME TypeOK, size > 0
    PROVE  AccessedPages \subseteq BitmapPages
<1> SUFFICES ASSUME NEW b \in 0 .. size
             PROVE  buffer + (b \div PageBytes) \in BitmapPages
    BY DEF AccessedPages
<1>1. /\ b \in Nat /\ size \in Nat /\ b <= size /\ buffer \in Nat
      /\ PageBytes \in Nat \ {0}
    BY PageBytesAssumption DEF TypeOK
<1>2. /\ b \div PageBytes \in Nat /\ size \div PageBytes \in Nat
      /\ b \div PageBytes <= size \div PageBytes
    BY <1>1, Division, QuotientOrder
<1> QED
    BY <1>1, <1>2 DEF BitmapPages, Pages

\* The pool never has a page that holds a byte of the bitmap, the byte behind
\* its buffer included, from the moment the bitmap's pages have been locked.
THEOREM BitmapSafe == Spec => []BitmapNotInPool
<1>1. ASSUME IInv PROVE BitmapNotInPool
  <2>1. SUFFICES ASSUME phase # "measure",
                        phase = "ready" \/ (phase = "reserve" /\ desc > 1)
                 PROVE  AccessedPages \cap Clear = {}
    BY DEF BitmapNotInPool
  <2>2. size = mem_size \div BitsPerByte + 1
    BY <1>1, <2>1 DEF IInv, Stages
  <2>3. size > 0
    BY <1>1, <2>2, Division, BitsPerByteAssumption DEF IInv, TypeOK
  <2>4. AccessedPages \subseteq BitmapPages
    BY <1>1, <2>3, AccessesLocked DEF IInv
  <2>5. \A p \in BitmapPages : p \notin Clear
    BY <1>1, <2>1 DEF IInv, BitmapLeaving, Stages, Coming
  <2> QED
    BY <2>4, <2>5
<1> QED
    BY <1>1, Invariance, PTL

\* Exactly: once the bitmap is set up, free_memory falls by as many pages as
\* bits are set by a step and rises by as many as are cleared, in whatever part
\* of the accessors' reach they are.
THEOREM CounterFollowsBits ==
    Spec => [][phase # "measure" =>
                 free' + Cardinality(Marked') = free + Cardinality(Marked)]_vars
<1>1. ASSUME IInv, [Next]_vars, phase # "measure"
      PROVE  free' + Cardinality(Marked') = free + Cardinality(Marked)
  <2>1. CASE UNCHANGED <<size, bits, free>>
    BY <2>1 DEF Marked
  <2>2. CASE Looping
    <3>1. TypeOK /\ UNCHANGED size /\ loop.next \in Nat
      BY <1>1, <2>2 DEF IInv, TypeOK, Looping, LockLoop, ReserveLoop, FreeLoop
    <3>2. \/ _LockPage(loop.next)
          \/ _ReservePage(loop.next)
          \/ _FreePage(loop.next)
      BY <2>2 DEF Looping, LockLoop, ReserveLoop, FreeLoop
    <3> QED
      BY <3>1, <3>2, LockEffect, ReserveEffect, FreeEffect
  <2>3. CASE \E p \in Clear : requestPage(p)
    <3>1. PICK p \in Clear : requestPage(p)
      BY <2>3
    <3>2. TypeOK /\ UNCHANGED size /\ p \in Nat /\ _LockPage(p)
      BY <1>1, <3>1, TrackedInReach DEF IInv, TypeOK, Clear, Tracked, requestPage
    <3> QED
      BY <3>2, LockEffect
  <2>4. CASE \E r \in Ranges : lockPages(r[1], r[2]) \/ freePages(r[1], r[2])
    BY <2>1, <2>4 DEF lockPages, freePages
  <2>5. CASE Boot
    BY <1>1, <2>1, <2>5 DEF Boot, _descAddMemSize, readEFIMemoryMap,
                            _descReservePage, MapRead
  <2>6. CASE UNCHANGED vars
    BY <2>1, <2>6 DEF vars
  <2> QED
    BY <1>1, <2>2, <2>3, <2>4, <2>5, <2>6 DEF Next
<1> QED
    BY <1>1, Invariance, PTL DEF Spec

\* It is not the number of clear bits of the measured memory.  It is off from
\* what requestPage can still deliver by less than a byte's bits below and at
\* most two bytes' bits above: the bitmap has a bit for pages beyond the
\* measured memory, and those of the byte behind its buffer are counted too.
THEOREM PoolCounted == Spec => []PoolMatchesFree
<1>1. ASSUME IInv PROVE PoolMatchesFree
  <2>1. SUFFICES ASSUME phase # "measure"
        PROVE  /\ Cardinality(Clear) - free > -BitsPerByte
               /\ Cardinality(Clear) - free <= 2 * BitsPerByte
    BY DEF PoolMatchesFree
  <2> DEFINE out == Marked \ Tracked
             in  == Marked \cap Tracked
             B   == BitsPerByte
  <2>2. /\ B \in Nat \ {0} /\ mem_size \in Nat /\ size \in Nat /\ free \in Int
        /\ bits \in [Reach(size) -> BOOLEAN]
    BY <1>1, BitsPerByteAssumption DEF IInv, TypeOK
  <2>3. /\ Tracked \subseteq Reach(size) /\ IsFiniteSet(Reach(size))
        /\ Cardinality(Tracked) = size * B
        /\ Cardinality(Reach(size) \ Tracked) = B
    BY <2>2, TrackedInReach DEF Tracked
  <2>4. /\ IsFiniteSet(Tracked) /\ IsFiniteSet(Marked)
        /\ IsFiniteSet(Reach(size) \ Tracked)
    BY <2>3, FS_Subset DEF Marked
  <2>5. IsFiniteSet(out) /\ Cardinality(out) \in Nat /\ Cardinality(out) <= B
    <3>1. out \subseteq Reach(size) \ Tracked
      BY DEF Marked
    <3> QED
      BY <3>1, <2>3, <2>4, FS_Subset, FS_CardinalityType
  <2>6. IsFiniteSet(in) /\ Cardinality(in) \in Nat
    BY <2>4, FS_Subset, FS_CardinalityType
  <2>7. Cardinality(Marked) = Cardinality(in) + Cardinality(out)
    <3>1. Marked = in \cup out /\ in \cap out = {}
      OBVIOUS
    <3> HIDE DEF in, out
    <3> QED
      BY <3>1, <2>5, <2>6, DisjointUnion
  <2>8. IsFiniteSet(Clear) /\ Cardinality(Clear) \in Nat
    BY <2>4, FS_Subset, FS_CardinalityType DEF Clear
  <2>9. Cardinality(Tracked) = Cardinality(Clear) + Cardinality(in)
    <3>1. Tracked = Clear \cup in /\ Clear \cap in = {}
      BY <2>3 DEF Clear, Marked
    <3> HIDE DEF in
    <3> QED
      BY <3>1, <2>6, <2>8, DisjointUnion
  <2>10. size * B > mem_size /\ size * B <= mem_size + B /\ size * B \in Nat
    <3> DEFINE q == mem_size \div B
    <3>1. size = q + 1
      BY <1>1, <2>1 DEF IInv, Stages
    <3>2. q \in Nat /\ q * B <= mem_size /\ mem_size < q * B + B
      BY <2>2, Division
    <3>3. size * B = q * B + B /\ q * B \in Nat
      BY <2>2, <3>1, <3>2, ProductOrder
    <3> QED
      BY <2>2, <3>2, <3>3
  <2>11. /\ free + Cardinality(Marked) >= mem_size
         /\ free + Cardinality(Marked) <= mem_size + B
    BY <1>1, <2>1, <2>2 DEF IInv, Ledger
  <2> DEFINE total == size * B
             cc == Cardinality(Clear)
             ci == Cardinality(in)
             co == Cardinality(out)
  <2>12. /\ total = cc + ci /\ total > mem_size /\ total <= mem_size + B
         /\ free + (ci + co) >= mem_size /\ free + (ci + co) <= mem_size + B
         /\ co <= B /\ {total, cc, ci, co} \subseteq Nat
    BY <2>3, <2>5, <2>6, <2>7, <2>8, <2>9, <2>10, <2>11
  <2>13. B = BitsPerByte /\ cc = Cardinality(Clear)
    OBVIOUS
  <2> HIDE DEF total, cc, ci, co, B
  <2>14. cc - free > -B /\ cc - free <= 2 * B
    BY <2>2, <2>12
  <2> QED
    BY <2>13, <2>14
<1> QED
    BY <1>1, Invariance, PTL

-----------------------------------------------------------------------------
(* The allocator implements the abstract pool. *)

\* The frames kept, as the refinement maps them.
Kept == Pinned \cap (Tracked \ Clear)

\* A page that is marked leaves the pool, and is kept if it was pinned.
LEMMA MarkMaps ==
    ASSUME NEW p \in Clear, Clear' = Clear \ {p}, Tracked' = Tracked,
           Pinned' = Pinned
    PROVE  /\ p \in Pinned => Kept' = Kept \cup {p}
           /\ p \notin Pinned => Kept' = Kept
    BY DEF Kept, Clear

LEMMA LockLoopMaps ==
    ASSUME IInv, LockLoop
    PROVE  [Pool!Step]_(Pool!poolVars)
<1> DEFINE p == loop.next
<1>1. /\ TypeOK /\ Busy /\ loop.op = "lock" /\ _LockPage(p)
      /\ UNCHANGED <<mmap, phase, desc, mem_size, size, buffer, held>>
    BY DEF IInv, LockLoop
<1>2. p \in Nat /\ phase \in {"reserve", "ready"}
    BY <1>1 DEF TypeOK, IInv, Stages
<1>3. Clear' = Clear \ {p}
    BY <1>1, <1>2, LockEffect
<1>4. Pinned' = Pinned /\ Tracked' = Tracked
    BY <1>1 DEF Pinned, BitmapPages, FirmwarePages, Tracked
<1>5. CASE p \notin Clear
    BY <1>1, <1>3, <1>4, <1>5 DEF Pool!poolVars
<1>6. CASE p \in Clear /\ phase = "reserve"
  <2>1. p \in Pinned
    BY <1>1, <1>2, <1>6 DEF IInv, Stages, Pinned, Busy, TypeOK
  <2>2. Pool!Keep(p)
    BY <1>1, <1>3, <1>4, <1>6, <2>1, MarkMaps DEF Pool!Keep, Kept
  <2> QED
    BY <1>6, <2>2 DEF Pool!Step
<1>7. CASE p \in Clear /\ phase = "ready"
  <2>1. p \notin Pinned
    BY <1>1, <1>7 DEF IInv, BitmapLeaving, FirmwareLeaving, Pinned,
                      FirmwarePages, Coming
  <2>2. Pool!Withdraw(p)
    BY <1>1, <1>3, <1>4, <1>7, <2>1, MarkMaps DEF Pool!Withdraw, Kept
  <2> QED
    BY <1>7, <2>2 DEF Pool!Step
<1> QED
    BY <1>2, <1>5, <1>6, <1>7

LEMMA ReserveLoopMaps ==
    ASSUME IInv, ReserveLoop
    PROVE  [Pool!Step]_(Pool!poolVars)
<1> DEFINE p == loop.next
<1>1. /\ TypeOK /\ Busy /\ loop.op = "reserve" /\ _ReservePage(p)
      /\ UNCHANGED <<mmap, phase, desc, mem_size, size, buffer, held>>
    BY DEF IInv, ReserveLoop
<1>2. p \in Nat /\ phase = "reserve"
    BY <1>1 DEF TypeOK, IInv, Stages
<1>3. Clear' = Clear \ {p}
    BY <1>1, <1>2, ReserveEffect
<1>4. Pinned' = Pinned /\ Tracked' = Tracked
    BY <1>1 DEF Pinned, BitmapPages, FirmwarePages, Tracked
<1>5. CASE p \notin Clear
    BY <1>1, <1>3, <1>4, <1>5 DEF Pool!poolVars
<1>6. CASE p \in Clear
  <2>1. p \in Pinned
    BY <1>1, <1>2 DEF IInv, Stages, Pinned, Busy, TypeOK
  <2>2. Pool!Keep(p)
    BY <1>1, <1>2, <1>3, <1>4, <1>6, <2>1, MarkMaps DEF Pool!Keep, Kept
  <2> QED
    BY <1>6, <2>2 DEF Pool!Step
<1> QED
    BY <1>5, <1>6

LEMMA FreeLoopMaps ==
    ASSUME IInv, FreeLoop
    PROVE  [Pool!Step]_(Pool!poolVars)
<1> DEFINE p == loop.next
<1>1. /\ TypeOK /\ Busy /\ loop.op = "free" /\ _FreePage(p)
      /\ held' = held \ {p}
      /\ UNCHANGED <<mmap, phase, desc, mem_size, size, buffer>>
    BY DEF IInv, FreeLoop
<1>2. p \in Nat /\ phase = "ready" /\ p \notin Pinned
    BY <1>1 DEF TypeOK, IInv, Stages, FreesOnlyClients, Busy
<1>3. Clear' = Clear \cup ({p} \cap Tracked)
    BY <1>1, <1>2, FreeEffect
<1>4. Pinned' = Pinned /\ Tracked' = Tracked
    BY <1>1 DEF Pinned, BitmapPages, FirmwarePages, Tracked
<1>5. Kept' = Kept
    BY <1>2, <1>3, <1>4 DEF Kept
<1>6. CASE p \in Tracked \ Clear
  <2>1. Pool!GiveBack(p)
    BY <1>1, <1>2, <1>3, <1>4, <1>5, <1>6 DEF Pool!GiveBack, Kept
  <2> QED
    BY <1>6, <2>1 DEF Pool!Step
<1>7. CASE p \notin Tracked \ Clear
  <2>1. held' = held
    BY <1>1, <1>7 DEF IInv, TypeOK, HeldExclusively
  <2>2. Clear' = Clear
    BY <1>3, <1>7
  <2> QED
    BY <1>1, <1>4, <1>5, <2>1, <2>2 DEF Pool!poolVars, Kept
<1> QED
    BY <1>6, <1>7

LEMMA CreateMaps ==
    ASSUME IInv, IInv', readEFIMemoryMap
    PROVE  Pool!Fill
<1> DEFINE n == mem_size \div BitsPerByte + 1
<1>1. PICK rest \in SUBSET (Reach(n) \ Buffered(n)) :
        bits' = [p \in Reach(n) |-> p \in rest]
    BY DEF readEFIMemoryMap, PGinitBitMap
<1>2. /\ phase = "measure" /\ phase' = "reserve" /\ size' = n /\ size = 0
      /\ held' = held /\ mem_size \in Nat
    BY DEF IInv, readEFIMemoryMap, PGinitBitMap, Stages, TypeOK
<1>3. n \in Nat /\ n > 0
    BY <1>2, Division, BitsPerByteAssumption
<1> HIDE DEF n
<1>4. Tracked' = Buffered(n) /\ Buffered(n) \subseteq Reach(n)
    BY <1>2, <1>3, TrackedInReach DEF Tracked
<1>5. Clear' = Tracked'
    BY <1>1, <1>2, <1>4 DEF Clear, Tracked
<1>6. Tracked = {}
    BY <1>2, BitsPerByteAssumption DEF Tracked, Buffered
<1>7. Tracked' # {}
  <2>1. n * BitsPerByte \in Nat /\ n * BitsPerByte > 0
    <3>1. 1 * BitsPerByte <= n * BitsPerByte
      BY <1>3, BitsPerByteAssumption, ProductOrder
    <3> QED
      BY <3>1, <1>3, BitsPerByteAssumption, ProductOrder
  <2>2. 0 \in Buffered(n)
    <3> DEFINE hi == n * BitsPerByte
    <3>1. hi \in Nat /\ hi > 0 /\ Buffered(n) = 0 .. hi - 1
      BY <2>1 DEF Buffered
    <3> HIDE DEF hi
    <3> QED
      BY <3>1
  <2> QED
    BY <1>4, <2>2
<1>8. Kept' = {} /\ Kept = {}
    BY <1>5, <1>6 DEF Kept
<1> QED
    BY <1>2, <1>5, <1>7, <1>8 DEF Pool!Fill, Kept

\* The bitmap, its loops and its counters are an implementation of the pool of
\* frames: every step of the allocator is a step of the pool or none.
THEOREM Refinement == Spec => ImplementsPool
<1>1. Init => Pool!Closed
  <2> SUFFICES ASSUME Init PROVE Pool!Closed
    OBVIOUS
  <2>1. Tracked = {}
    BY BitsPerByteAssumption DEF Init, Tracked, Buffered
  <2> QED
    BY <2>1 DEF Init, Pool!Closed, Clear
<1>2. ASSUME IInv, IInv', [Next]_vars
      PROVE  [Pool!Step]_(Pool!poolVars)
  <2>1. ASSUME UNCHANGED <<phase, mmap, size, buffer, bits, held>>
        PROVE  UNCHANGED Pool!poolVars
    <3>1. Tracked' = Tracked /\ Clear' = Clear /\ Pinned' = Pinned
      BY <2>1 DEF Tracked, Clear, Pinned, BitmapPages, FirmwarePages
    <3> QED
      BY <2>1, <3>1 DEF Pool!poolVars
  <2>2. CASE _descAddMemSize
    BY <2>1, <2>2 DEF _descAddMemSize
  <2>3. CASE readEFIMemoryMap
    BY <1>2, <2>3, CreateMaps DEF Pool!Step
  <2>4. CASE _descReservePage
    BY <2>1, <2>4 DEF _descReservePage
  <2>5. CASE MapRead
    <3>1. /\ phase = "reserve" /\ phase' = "ready" /\ held' = held
          /\ Tracked' = Tracked /\ Clear' = Clear /\ Pinned' = Pinned
      BY <2>5 DEF MapRead, Tracked, Clear, Pinned, BitmapPages, FirmwarePages
    <3> QED
      BY <3>1 DEF Pool!Open, Pool!Step
  <2>6. CASE Looping
    BY <1>2, <2>6, LockLoopMaps, ReserveLoopMaps, FreeLoopMaps DEF Looping
  <2>7. CASE \E r \in Ranges : lockPages(r[1], r[2]) \/ freePages(r[1], r[2])
    BY <2>1, <2>7 DEF lockPages, freePages
  <2>8. ASSUME NEW p \in Clear, requestPage(p) PROVE Pool!Step
    <3>1. /\ TypeOK /\ phase = "ready" /\ phase' = phase /\ _LockPage(p)
          /\ held' = held \cup {p} /\ FirstClear(p) /\ ~Busy
          /\ UNCHANGED <<mmap, size, buffer>>
      BY <1>2, <2>8 DEF IInv, requestPage, Serving
    <3>2. p \in Nat
      BY <3>1, TrackedInReach DEF Clear, Tracked, TypeOK
    <3>3. Clear' = Clear \ {p}
      BY <3>1, <3>2, LockEffect
    <3>4. Pinned' = Pinned /\ Tracked' = Tracked
      BY <3>1 DEF Pinned, BitmapPages, FirmwarePages, Tracked
    <3>5. p \notin Pinned
      BY <1>2, <2>8, <3>1
         DEF IInv, BitmapLeaving, FirmwareLeaving, Pinned, FirmwarePages, Coming
    <3>6. Pool!Lend(p)
      BY <2>8, <3>1, <3>3, <3>4, <3>5, MarkMaps
         DEF Pool!Lend, Kept, FirstClear
    <3> QED
      BY <2>8, <3>6 DEF Pool!Step
  <2>9. CASE UNCHANGED vars
    BY <2>1, <2>9 DEF vars
  <2> QED
    BY <1>2, <2>2, <2>3, <2>4, <2>5, <2>6, <2>7, <2>8, <2>9 DEF Next, Boot
<1>3. Pool!Closed /\ [][Pool!Step]_(Pool!poolVars) => ImplementsPool
    BY DEF ImplementsPool, Pool!PoolSpec
<1> QED
    BY <1>1, <1>2, <1>3, Invariance, PTL DEF Spec

-----------------------------------------------------------------------------
(* kmain as a client of the allocator. *)

\* Every step of kmain is a step of the allocator, or leaves it alone.
LEMMA KmainStep ==
    ASSUME KNext, machine \in Machines
    PROVE  [Next]_vars
<1>1. CASE Allocator
    BY <1>1 DEF Allocator, Next
<1>2. CASE LockKernel
  <2> DEFINE r == <<machine.kernel.first, kernel_pages>>
  <2>1. r \in Ranges
    BY KmainRangesAssumption DEF kernel_pages
  <2>2. lockPages(r[1], r[2])
    BY <1>2 DEF LockKernel
  <2> QED
    BY <2>1, <2>2 DEF Next
<1>3. CASE LockFramebuffer
  <2> DEFINE r == <<machine.fb.first, fbLockedPages>>
  <2>1. r \in Ranges
    BY KmainRangesAssumption DEF fbLockedPages, fbSize
  <2>2. lockPages(r[1], r[2])
    BY <1>3 DEF LockFramebuffer
  <2> QED
    BY <2>1, <2>2 DEF Next
<1>4. CASE RequestPML4 \/ NewTable \/ RequestIDT
  <2>1. \E p \in Clear : requestPage(p)
    BY <1>4 DEF RequestPML4, NewTable, RequestIDT
  <2> QED
    BY <2>1 DEF Next
<1>5. CASE FollowEntry \/ SetLeaf \/ LoadCR3 \/ RequestFails
    BY <1>5 DEF FollowEntry, SetLeaf, LoadCR3, RequestFails, Wild
<1> QED
    BY <1>1, <1>2, <1>3, <1>4, <1>5 DEF KNext, Kmain

\* The machine does not change while the kernel boots.
LEMMA MachineFixed ==
    ASSUME KNext
    PROVE  machine' = machine
    BY DEF KNext, Allocator, kernelVars, Kmain, LockKernel, RequestPML4,
           FollowEntry, NewTable, SetLeaf, LockFramebuffer, LoadCR3,
           RequestIDT, RequestFails, Wild

\* What holds of the allocator in all behaviours holds while kmain runs:
\* KernelBoot is written so.
LEMMA AllocatorInBoot == KSpec => Spec
<1>1. KInit => Init /\ machine \in Machines
    BY DEF KInit
<1>2. machine \in Machines /\ [KNext]_kvars
        => (machine \in Machines)' /\ [Next]_vars
  <2> SUFFICES ASSUME machine \in Machines, [KNext]_kvars
               PROVE  (machine \in Machines)' /\ [Next]_vars
    OBVIOUS
  <2>1. CASE KNext
    BY <2>1, KmainStep, MachineFixed
  <2>2. CASE UNCHANGED kvars
    BY <2>2 DEF kvars, kernelVars
  <2> QED
    BY <2>1, <2>2
<1> QED
    BY <1>1, <1>2, PTL DEF KSpec, Spec

\* So no page table, and no page of the IDT, is ever a page of the bitmap or of
\* the firmware, nor one that can be requested again.
THEOREM BootPagesExclusive == KSpec => []HeldExclusively
    BY AllocatorInBoot, Exclusive, PTL

-----------------------------------------------------------------------------
(* Page tables as a tree.  `tabs' are the contents of the tables, `root' is *)
(* the PML4; a table has a level, `lev', from 0 down to 3, and a prefix,    *)
(* `pre': the upper part of the page numbers whose walk comes through it.   *)

\* One step of the processor's walk for v, and l steps of it.
Hop(tabs, f, v, l) ==
    IF f \in DOMAIN tabs THEN tabs[f][Index(v, l)] ELSE NotPresent

Hops(tabs, root, v, l) ==
    LET pdp == Hop(tabs, root, v, 0)
        pd  == Hop(tabs, pdp, v, 1)
        pt  == Hop(tabs, pd, v, 2)
    IN  IF l = 0 THEN root ELSE IF l = 1 THEN pdp
        ELSE IF l = 2 THEN pd ELSE IF l = 3 THEN pt ELSE Hop(tabs, pt, v, 3)

\* What the tables hold, and how they are labelled.
Labels(tabs, root, lev, pre) ==
    /\ DOMAIN tabs \subseteq Nat
    /\ \A f \in DOMAIN tabs : tabs[f] \in [0 .. Fan - 1 -> Nat \cup {NotPresent}]
    /\ lev \in [DOMAIN tabs -> 0 .. 3]
    /\ pre \in [DOMAIN tabs -> Nat]
    /\ root \in DOMAIN tabs /\ lev[root] = 0 /\ pre[root] = 0
    /\ \A f \in DOMAIN tabs : lev[f] = 0 => f = root

\* No two tables stand for the same part of memory.
Unique(tabs, lev, pre) ==
    \A f, g \in DOMAIN tabs : lev[f] = lev[g] /\ pre[f] = pre[g] => f = g

\* An entry leads to the table for its part of memory, and in the last level
\* to the page that it maps.
Entries(tabs, lev, pre) ==
    \A f \in DOMAIN tabs, i \in 0 .. Fan - 1 :
        tabs[f][i] # NotPresent =>
            IF lev[f] < 3
            THEN /\ tabs[f][i] \in DOMAIN tabs
                 /\ lev[tabs[f][i]] = lev[f] + 1
                 /\ pre[tabs[f][i]] = pre[f] * Fan + i
            ELSE tabs[f][i] = pre[f] * Fan + i

\* Every table but the root is entered in one above it.
Parents(tabs, root, lev) ==
    \A f \in DOMAIN tabs \ {root} :
        \E g \in DOMAIN tabs, i \in 0 .. Fan - 1 : lev[g] < 3 /\ tabs[g][i] = f

IsTree(tabs, root, lev, pre) ==
    /\ Labels(tabs, root, lev, pre)
    /\ Unique(tabs, lev, pre)
    /\ Entries(tabs, lev, pre)
    /\ Parents(tabs, root, lev)

\* Each table is on the walk of a page that is to be mapped.
Wanted(lev, pre) ==
    \A f \in DOMAIN tables :
        lev[f] > 0 => \E v \in MappedPages : pre[f] = Shifted(v, 4 - lev[f])

\* Where getNextPageTable has got to.
AtTable(lev, pre) ==
    kpc \in {"mapMemory", "mapFb"} =>
        /\ table \in DOMAIN tables /\ lev[table] = level
        /\ level > 0 => Mapping /\ pre[table] = Shifted(t, 4 - level)

Taken == DOMAIN tables \cup ({idtr} \ {NoRoot})

\* How far kmain is.
StageInv ==
    /\ machine \in Machines /\ machine.mmap = mmap
    /\ kpc \in {"lockKernel", "pml4", "mapMemory", "mapFb", "idt", "main", "wild"}
    /\ t \in Nat /\ level \in 0 .. 3 /\ table \in Nat
    /\ {pml4, cr3, idtr} \subseteq Nat \cup {NoRoot}
    /\ kpc \in {"lockKernel", "pml4"} => pml4 = NoRoot
    /\ kpc \in {"mapMemory", "mapFb", "idt", "main"} => pml4 # NoRoot
    /\ kpc # "lockKernel" => phase = "ready"
    /\ kpc # "main" => idtr = NoRoot
    /\ cr3 # NoRoot => pml4 # NoRoot /\ kpc \in {"idt", "main", "wild"}
    /\ kpc = "mapMemory" => t <= mem_size
    /\ kpc = "mapFb" => t \in machine.fb.first .. machine.fb.first + fbMappedPages
    /\ Busy => loop.op # "free"
    /\ phase # "measure" => buffer = LargestSegment(mmap)
    /\ mem_size = Measured(mmap)[IF phase = "measure" THEN desc - 1 ELSE Len(mmap)]

TreeInv ==
    /\ pml4 = NoRoot => DOMAIN tables = {}
    /\ pml4 # NoRoot =>
         \E lev, pre :
            IsTree(tables, pml4, lev, pre) /\ Wanted(lev, pre) /\ AtTable(lev, pre)

\* The pages kmain has taken, the first the allocator had each time.
PageInv ==
    /\ Taken \subseteq held
    /\ idtr \notin DOMAIN tables
    /\ Taken \cap KernelPages = {}
    /\ kpc # "lockKernel" =>
         \A p \in KernelPages : p \notin Clear \/ Coming("lock", p)
    /\ \A q \in Taken, c \in Clear : q < c

Done(v) == /\ kpc = "mapMemory" => v < t
           /\ kpc = "mapFb" => v < mem_size \/ v < t

DoneInv ==
    kpc \in {"mapMemory", "mapFb"} \/ cr3 # NoRoot =>
        \A v \in MappedPages : Done(v) => Translate(v) = v

FullInv == kpc = "wild" => Cardinality(KmainPool) < TableBudget + 1

\* A number's quotient and remainder.
LEMMA Digits ==
    ASSUME NEW a \in Nat
    PROVE  /\ a \div Fan \in Nat /\ a % Fan \in 0 .. Fan - 1
           /\ a = (a \div Fan) * Fan + (a % Fan)
    BY FanAssumption, Division

LEMMA DigitsUnique ==
    ASSUME NEW a \in Nat, NEW b \in Nat, NEW i \in 0 .. Fan - 1,
           NEW j \in 0 .. Fan - 1, a * Fan + i = b * Fan + j
    PROVE  a = b /\ i = j
    BY FanAssumption

LEMMA Shorter ==
    ASSUME NEW a \in Nat, NEW b \in Nat, a < b * Fan
    PROVE  a \div Fan < b
    BY FanAssumption

\* What is left of a page number after k levels, and after one more.
LEMMA ShiftStep ==
    ASSUME NEW v \in Nat, NEW k \in 0 .. 3
    PROVE  /\ Shifted(v, k) \in Nat /\ Shifted(v, k + 1) \in Nat
           /\ Shifted(v, k) % Fan \in 0 .. Fan - 1
           /\ Shifted(v, k) = Shifted(v, k + 1) * Fan + (Shifted(v, k) % Fan)
<1>1. Shifted(v, k + 1) = Shifted(v, k) \div Fan
    BY DEF Shifted
<1>2. Shifted(v, k) \in Nat
  <2>1. \A a \in Nat : a \div Fan \in Nat
      BY Digits
  <2> QED
      BY <2>1 DEF Shifted
<1> QED
    BY <1>1, <1>2, Digits

LEMMA ShiftNone == \A v : Shifted(v, 0) = v
    BY DEF Shifted

\* Nothing is left of a page that four tables can map.
LEMMA ShiftAll ==
    ASSUME NEW v \in VirtualPages
    PROVE  v \in Nat /\ Shifted(v, 4) = 0
<1> DEFINE a == v \div Fan
           b == a \div Fan
           c == b \div Fan
<1>0. Fan \in Nat /\ Fan * Fan \in Nat /\ Fan * Fan * Fan \in Nat
    BY FanAssumption
<1>1. v \in Nat /\ v < (Fan * Fan * Fan) * Fan
    BY FanAssumption DEF VirtualPages, WalkPages
<1> DEFINE F2 == Fan * Fan
           F3 == Fan * Fan * Fan
<1>2. a \in Nat /\ a < F2 * Fan
  <2>1. F3 \in Nat /\ v < F3 * Fan /\ F3 = F2 * Fan
      BY <1>0, <1>1
  <2>2. a \in Nat
      BY <1>1, Digits
  <2> HIDE DEF F2, F3
  <2>3. a < F3
      BY <1>1, <2>1, Shorter
  <2> QED
      BY <2>1, <2>2, <2>3
<1>3. b \in Nat /\ b < Fan * Fan
  <2>1. F2 \in Nat /\ b \in Nat
      BY <1>0, <1>2, Digits
  <2>2. b < F2
    <3> HIDE DEF F2, a
    <3> QED
        BY <1>2, <2>1, Shorter
  <2> QED
      BY <2>1, <2>2
<1>4. c \in Nat /\ c < 1 * Fan
  <2> HIDE DEF b
  <2>1. c \in Nat
      BY <1>3, Digits
  <2>2. c < Fan
      BY <1>0, <1>3, Shorter
  <2> QED
      BY <1>0, <2>1, <2>2
<1>5. c \div Fan \in Nat /\ c \div Fan < 1
  <2> HIDE DEF c
  <2> QED
      BY <1>4, Shorter, Digits
<1>6. Shifted(v, 4) = c \div Fan
    BY DEF Shifted
<1> QED
  <2> HIDE DEF c
  <2> QED
      BY <1>1, <1>5, <1>6

LEMMA HopsNext ==
    ASSUME NEW tabs, NEW root, NEW v, NEW l \in 0 .. 3
    PROVE  /\ Hops(tabs, root, v, l + 1) = Hop(tabs, Hops(tabs, root, v, l), v, l)
           /\ Hops(tabs, root, v, 0) = root
    BY DEF Hops

\* The processor's walk is four such steps.
LEMMA TranslateHops ==
    ASSUME NEW v
    PROVE  Translate(v) = Hops(tables, pml4, v, 4)
    BY DEF Translate, Lookup, Hops, Hop, Index

-----------------------------------------------------------------------------
(* Walks through a tree. *)

\* An entry on the walk of a page leads to the next table of the walk.
LEMMA HopTree ==
    ASSUME NEW tabs, NEW root, NEW lev, NEW pre, IsTree(tabs, root, lev, pre),
           NEW v \in VirtualPages, NEW f \in DOMAIN tabs, NEW l \in 0 .. 3,
           lev[f] = l, pre[f] = Shifted(v, 4 - l),
           NEW e, e = Hop(tabs, f, v, l), e # NotPresent
    PROVE  /\ l < 3 => /\ e \in DOMAIN tabs /\ lev[e] = l + 1
                       /\ pre[e] = Shifted(v, 4 - (l + 1))
           /\ l = 3 => e = v
<1> DEFINE k == 3 - l
           i == Index(v, l)
<1>1. v \in Nat /\ k \in 0 .. 3 /\ k + 1 = 4 - l /\ k = 4 - (l + 1)
    BY ShiftAll
<1>2. i \in 0 .. Fan - 1 /\ Shifted(v, k) = pre[f] * Fan + i
  <2>1. i = Shifted(v, k) % Fan /\ pre[f] = Shifted(v, k + 1)
      BY <1>1 DEF Index
  <2>2. /\ Shifted(v, k) % Fan \in 0 .. Fan - 1
        /\ Shifted(v, k) = Shifted(v, k + 1) * Fan + (Shifted(v, k) % Fan)
      BY <1>1, ShiftStep
  <2> QED
      BY <2>1, <2>2
<1>3. e = tabs[f][i]
    BY DEF Hop
<1> HIDE DEF i
<1>4. CASE l < 3
    BY <1>1, <1>2, <1>3, <1>4 DEF IsTree, Entries
<1>5. CASE l = 3
  <2>1. e = pre[f] * Fan + i
      BY <1>2, <1>3, <1>5 DEF IsTree, Entries
  <2> QED
      BY <1>2, <1>5, <2>1, ShiftNone
<1> QED
    BY <1>4, <1>5

\* So the walk of a page goes through the tables of its prefixes, and ends at
\* the page itself or nowhere.
LEMMA WalkTree ==
    ASSUME NEW tabs, NEW root, NEW lev, NEW pre, IsTree(tabs, root, lev, pre),
           NEW v \in VirtualPages
    PROVE  /\ \A l \in 0 .. 3 :
                LET h == Hops(tabs, root, v, l)
                IN  h # NotPresent => /\ h \in DOMAIN tabs /\ lev[h] = l
                                      /\ pre[h] = Shifted(v, 4 - l)
           /\ Hops(tabs, root, v, 4) \in {v, NotPresent}
           /\ \A l \in 0 .. 3 : Hops(tabs, root, v, l + 1) # NotPresent
                                  => Hops(tabs, root, v, l) # NotPresent
<1> DEFINE H(l) == Hops(tabs, root, v, l)
           On(l) == H(l) # NotPresent => /\ H(l) \in DOMAIN tabs /\ lev[H(l)] = l
                                         /\ pre[H(l)] = Shifted(v, 4 - l)
<1>1. \A l \in 0 .. 3 : H(l + 1) = Hop(tabs, H(l), v, l)
    BY HopsNext
<1>2. NotPresent \notin DOMAIN tabs
    BY DEF IsTree, Labels, NotPresent
<1>3. \A l \in 0 .. 3 : H(l + 1) # NotPresent => H(l) # NotPresent
    BY <1>1, <1>2 DEF Hop
<1>4. On(0)
  <2>1. H(0) = root
      BY HopsNext
  <2> QED
      BY <2>1, ShiftAll DEF IsTree, Labels
<1>5. ASSUME NEW l \in 0 .. 3, On(l), H(l + 1) # NotPresent
      PROVE  IF l < 3 THEN On(l + 1) ELSE H(l + 1) = v
  <2>1. H(l) \in DOMAIN tabs /\ lev[H(l)] = l /\ pre[H(l)] = Shifted(v, 4 - l)
      BY <1>3, <1>5
  <2>2. H(l + 1) = Hop(tabs, H(l), v, l)
      BY <1>1
  <2> HIDE DEF H
  <2> QED
      BY <1>5, <2>1, <2>2, HopTree
<1> HIDE DEF H
<1>6. On(1)
    BY <1>4, <1>5
<1>7. On(2)
    BY <1>5, <1>6
<1>8. On(3)
    BY <1>5, <1>7
<1>9. H(4) \in {v, NotPresent}
    BY <1>5, <1>8
<1>10. \A l \in 0 .. 3 : On(l)
    BY <1>4, <1>6, <1>7, <1>8
<1> QED
    BY <1>3, <1>9, <1>10 DEF H

\* A table whose prefix is a page's is on the walk of that page.
LEMMA OnWalk ==
    ASSUME NEW tabs, NEW root, NEW lev, NEW pre, IsTree(tabs, root, lev, pre),
           NEW v \in VirtualPages, NEW f \in DOMAIN tabs,
           pre[f] = Shifted(v, 4 - lev[f])
    PROVE  Hops(tabs, root, v, lev[f]) = f
<1> DEFINE H(l) == Hops(tabs, root, v, l)
           On(l) == \A g \in DOMAIN tabs :
                      lev[g] = l /\ pre[g] = Shifted(v, 4 - l) => H(l) = g
<1>1. On(0)
    BY HopsNext DEF IsTree, Labels
<1>2. ASSUME NEW l \in 0 .. 2, On(l)
      PROVE  On(l + 1)
  <2> SUFFICES ASSUME NEW g \in DOMAIN tabs, lev[g] = l + 1,
                      pre[g] = Shifted(v, 4 - (l + 1))
               PROVE  H(l + 1) = g
      OBVIOUS
  <2>1. g # root
      BY DEF IsTree, Labels
  <2>2. PICK h \in DOMAIN tabs, i \in 0 .. Fan - 1 : lev[h] < 3 /\ tabs[h][i] = g
      BY <2>1 DEF IsTree, Parents
  <2>3. g # NotPresent /\ lev[h] \in 0 .. 3 /\ pre[h] \in Nat
      BY DEF IsTree, Labels, NotPresent
  <2>4. lev[h] = l /\ pre[g] = pre[h] * Fan + i
      BY <2>2, <2>3 DEF IsTree, Entries
  <2> DEFINE k == 3 - l
  <2>5. v \in Nat /\ k \in 0 .. 3 /\ k = 4 - (l + 1) /\ k + 1 = 4 - l
      BY ShiftAll
  <2>6. /\ pre[h] * Fan + i = Shifted(v, k + 1) * Fan + (Shifted(v, k) % Fan)
        /\ Shifted(v, k + 1) \in Nat /\ Shifted(v, k) % Fan \in 0 .. Fan - 1
    <3>1. pre[g] = Shifted(v, k)
        BY <2>5
    <3>2. /\ Shifted(v, k) = Shifted(v, k + 1) * Fan + (Shifted(v, k) % Fan)
          /\ Shifted(v, k + 1) \in Nat /\ Shifted(v, k) % Fan \in 0 .. Fan - 1
        BY <2>5, ShiftStep
    <3> HIDE DEF k
    <3> QED
        BY <2>4, <3>1, <3>2
  <2>7. pre[h] = Shifted(v, k + 1) /\ i = Shifted(v, k) % Fan
      BY <2>3, <2>6, DigitsUnique
  <2>8. H(l) = h
      BY <1>2, <2>4, <2>5, <2>7
  <2>9. i = Index(v, l)
      BY <2>7 DEF Index
  <2> QED
      BY <2>2, <2>8, <2>9, HopsNext DEF Hop
<1> HIDE DEF H
<1>3. On(1)
    BY <1>1, <1>2
<1>4. On(2)
    BY <1>2, <1>3
<1>5. On(3)
    BY <1>2, <1>4
<1>6. lev[f] \in 0 .. 3
    BY DEF IsTree, Labels
<1> QED
    BY <1>1, <1>3, <1>4, <1>5, <1>6 DEF H

-----------------------------------------------------------------------------
(* How a tree grows. *)

\* What the tables map stays mapped.
Grows(old, new) ==
    \A f \in DOMAIN old :
        /\ f \in DOMAIN new
        /\ \A i \in 0 .. Fan - 1 :
             old[f][i] # NotPresent => new[f][i] = old[f][i]

LEMMA IndexRange ==
    ASSUME NEW v \in Nat, NEW l \in 0 .. 3
    PROVE  Index(v, l) \in 0 .. Fan - 1
<1>1. 3 - l \in 0 .. 3
    OBVIOUS
<1> QED
    BY <1>1, ShiftStep DEF Index

LEMMA GrowingWalk ==
    ASSUME NEW old, NEW new, Grows(old, new), NEW root, NEW v \in Nat,
           NotPresent \notin DOMAIN old, Hops(old, root, v, 4) # NotPresent
    PROVE  Hops(new, root, v, 4) = Hops(old, root, v, 4)
<1> DEFINE H(l) == Hops(old, root, v, l)
           K(l) == Hops(new, root, v, l)
<1>1. \A l \in 0 .. 3 : H(l + 1) = Hop(old, H(l), v, l) /\ K(l + 1) = Hop(new, K(l), v, l)
    BY HopsNext
<1>2. H(0) = root /\ K(0) = root
    BY HopsNext
<1> HIDE DEF H, K
<1>3. \A l \in 0 .. 3 : H(l + 1) # NotPresent => H(l) # NotPresent
    BY <1>1 DEF Hop
<1>4. ASSUME NEW l \in 0 .. 3, K(l) = H(l), H(l + 1) # NotPresent
      PROVE  K(l + 1) = H(l + 1)
  <2>1. H(l) \in DOMAIN old /\ H(l + 1) = old[H(l)][Index(v, l)]
      BY <1>1, <1>4 DEF Hop
  <2>2. H(l) \in DOMAIN new /\ new[H(l)][Index(v, l)] = old[H(l)][Index(v, l)]
      BY <1>4, <2>1, IndexRange DEF Grows
  <2> QED
      BY <1>1, <1>4, <2>1, <2>2 DEF Hop
<1>5. H(4) # NotPresent
    BY DEF H
<1>6. H(3) # NotPresent /\ H(2) # NotPresent /\ H(1) # NotPresent
    BY <1>3, <1>5
<1>7. K(1) = H(1)
    BY <1>2, <1>4, <1>6
<1>8. K(2) = H(2)
    BY <1>4, <1>6, <1>7
<1>9. K(3) = H(3)
    BY <1>4, <1>6, <1>8
<1>10. K(4) = H(4)
    BY <1>4, <1>5, <1>9
<1> QED
    BY <1>10 DEF H, K

\* The PML4 alone.
LEMMA RootTree ==
    ASSUME NEW p \in Nat
    PROVE  IsTree([f \in {p} |-> EmptyTable], p, [f \in {p} |-> 0], [f \in {p} |-> 0])
<1> DEFINE tabs == [f \in {p} |-> EmptyTable]
<1>1. EmptyTable \in [0 .. Fan - 1 -> Nat \cup {NotPresent}]
      /\ \A i \in 0 .. Fan - 1 : EmptyTable[i] = NotPresent
    BY DEF EmptyTable
<1>2. DOMAIN tabs = {p} /\ tabs[p] = EmptyTable
    OBVIOUS
<1> HIDE DEF tabs
<1>3. Labels(tabs, p, [f \in {p} |-> 0], [f \in {p} |-> 0])
    BY <1>1, <1>2 DEF Labels
<1>4. Unique(tabs, [f \in {p} |-> 0], [f \in {p} |-> 0])
    BY <1>2 DEF Unique
<1>5. Entries(tabs, [f \in {p} |-> 0], [f \in {p} |-> 0])
    BY <1>1, <1>2 DEF Entries
<1>6. Parents(tabs, p, [f \in {p} |-> 0])
    BY <1>2 DEF Parents
<1> QED
    BY <1>3, <1>4, <1>5, <1>6 DEF IsTree, tabs

\* Entry i of table f is written, with the page or the prefix it stands for.
Written(tabs, new, f, i, e) == new = [tabs EXCEPT ![f][i] = e]
Leads(pre, f, i, v) == v = pre[f] * Fan + i

\* Writing a page into the last level where it belongs.
LEMMA LeafTree ==
    ASSUME NEW tabs, NEW root, NEW lev, NEW pre, IsTree(tabs, root, lev, pre),
           NEW f \in DOMAIN tabs, lev[f] = 3, NEW i \in 0 .. Fan - 1,
           NEW v \in Nat, Leads(pre, f, i, v), NEW new, Written(tabs, new, f, i, v)
    PROVE  /\ IsTree(new, root, lev, pre) /\ DOMAIN new = DOMAIN tabs
           /\ Grows(tabs, new) /\ new[f][i] = v
<1>0. v = pre[f] * Fan + i /\ new = [tabs EXCEPT ![f][i] = v]
    BY DEF Written, Leads
<1>1. /\ tabs[f] \in [0 .. Fan - 1 -> Nat \cup {NotPresent}]
      /\ \A g \in DOMAIN tabs : tabs[g] \in [0 .. Fan - 1 -> Nat \cup {NotPresent}]
    BY DEF IsTree, Labels
<1> DEFINE leaf == [tabs[f] EXCEPT ![i] = v]
<1>2. /\ leaf \in [0 .. Fan - 1 -> Nat \cup {NotPresent}]
      /\ \A j \in 0 .. Fan - 1 : leaf[j] = IF j = i THEN v ELSE tabs[f][j]
    BY <1>1
<1>3. /\ DOMAIN new = DOMAIN tabs
      /\ \A g \in DOMAIN tabs : new[g] = IF g = f THEN leaf ELSE tabs[g]
    BY <1>0
<1> HIDE DEF leaf
<1>4. \A g \in DOMAIN tabs, j \in 0 .. Fan - 1 :
         new[g][j] = IF g = f /\ j = i THEN v ELSE tabs[g][j]
    BY <1>2, <1>3
<1>5. Labels(new, root, lev, pre)
    BY <1>2, <1>3 DEF IsTree, Labels
<1>6. Unique(new, lev, pre)
    BY <1>3 DEF IsTree, Unique
<1>7. Entries(new, lev, pre)
    BY <1>0, <1>3, <1>4 DEF IsTree, Entries
<1>8. Parents(new, root, lev)
  <2> SUFFICES ASSUME NEW g \in DOMAIN tabs \ {root}
               PROVE  \E h \in DOMAIN tabs, j \in 0 .. Fan - 1 :
                        lev[h] < 3 /\ new[h][j] = g
      BY <1>3 DEF Parents
  <2>1. PICK h \in DOMAIN tabs, j \in 0 .. Fan - 1 : lev[h] < 3 /\ tabs[h][j] = g
      BY DEF IsTree, Parents
  <2>2. h # f
      BY <2>1
  <2> QED
      BY <1>4, <2>1, <2>2
<1>9. Grows(tabs, new)
  <2>1. tabs[f][i] # NotPresent => tabs[f][i] = v
      BY <1>0 DEF IsTree, Entries
  <2> QED
      BY <1>3, <1>4, <2>1 DEF Grows
<1> QED
    BY <1>3, <1>4, <1>5, <1>6, <1>7, <1>8, <1>9 DEF IsTree

\* An upper table has an empty entry.
Vacant(tabs, lev, f, i) == lev[f] < 3 /\ tabs[f][i] = NotPresent

\* Table p is made, empty, and entered in table f; and its labels.
Linked(tabs, new, f, i, p) ==
    new = [[g \in DOMAIN tabs \cup {p} |->
              IF g = p THEN EmptyTable ELSE tabs[g]] EXCEPT ![f][i] = p]
Labelled(tabs, lev, pre, lev2, pre2, f, i, p) ==
    /\ lev2 = [g \in DOMAIN tabs \cup {p} |->
                 IF g = p THEN lev[f] + 1 ELSE lev[g]]
    /\ pre2 = [g \in DOMAIN tabs \cup {p} |->
                 IF g = p THEN pre[f] * Fan + i ELSE pre[g]]

\* Making a table for an empty entry of an upper level.
LEMMA GrownTree ==
    ASSUME NEW tabs, NEW root, NEW lev, NEW pre, IsTree(tabs, root, lev, pre),
           NEW f \in DOMAIN tabs, NEW i \in 0 .. Fan - 1, Vacant(tabs, lev, f, i),
           NEW p \in Nat, p \notin DOMAIN tabs, NEW new, Linked(tabs, new, f, i, p),
           NEW lev2, NEW pre2, Labelled(tabs, lev, pre, lev2, pre2, f, i, p)
    PROVE  /\ IsTree(new, root, lev2, pre2)
           /\ DOMAIN new = DOMAIN tabs \cup {p}
           /\ Grows(tabs, new)
<1> DEFINE D == DOMAIN tabs
           q == pre[f] * Fan + i
           n == lev[f] + 1
           upper == [tabs[f] EXCEPT ![i] = p]
<1>0. lev[f] < 3 /\ tabs[f][i] = NotPresent
    BY DEF Vacant
<1>1. /\ \A g \in D : tabs[g] \in [0 .. Fan - 1 -> Nat \cup {NotPresent}]
      /\ \A g \in D : lev[g] \in 0 .. 3 /\ pre[g] \in Nat
      /\ root \in D /\ lev[root] = 0 /\ pre[root] = 0
      /\ \A g \in D : lev[g] = 0 => g = root
      /\ D \subseteq Nat
    BY DEF IsTree, Labels
<1>2. n \in 1 .. 3 /\ q \in Nat
  <2>1. pre[f] \in Nat /\ Fan \in Nat /\ lev[f] \in 0 .. 3
      BY <1>1, FanAssumption
  <2> QED
      BY <1>0, <2>1
<1>3. /\ upper \in [0 .. Fan - 1 -> Nat \cup {NotPresent}]
      /\ \A j \in 0 .. Fan - 1 : upper[j] = IF j = i THEN p ELSE tabs[f][j]
    BY <1>1
<1>4. EmptyTable \in [0 .. Fan - 1 -> Nat \cup {NotPresent}]
      /\ \A j \in 0 .. Fan - 1 : EmptyTable[j] = NotPresent
    BY DEF EmptyTable
<1>5. f # p /\ p # root /\ p # NotPresent
    BY <1>1 DEF NotPresent
<1>6. /\ DOMAIN new = D \cup {p}
      /\ \A g \in D \cup {p} : new[g] = IF g = p THEN EmptyTable
                                       ELSE IF g = f THEN upper ELSE tabs[g]
    BY <1>5 DEF Linked
<1>7. /\ lev2 = [g \in D \cup {p} |-> IF g = p THEN n ELSE lev[g]]
      /\ pre2 = [g \in D \cup {p} |-> IF g = p THEN q ELSE pre[g]]
    BY DEF Labelled
<1> HIDE DEF upper, n, q
<1>8. /\ lev2 \in [D \cup {p} -> 0 .. 3] /\ pre2 \in [D \cup {p} -> Nat]
    BY <1>1, <1>2, <1>7
<1>9. \A g \in D, j \in 0 .. Fan - 1 :
         new[g][j] = IF g = f /\ j = i THEN p ELSE tabs[g][j]
    BY <1>3, <1>6
<1>10. Labels(new, root, lev2, pre2)
    BY <1>1, <1>2, <1>3, <1>4, <1>5, <1>6, <1>7, <1>8 DEF Labels
<1>11. \A g \in D : ~(lev[g] = n /\ pre[g] = q)
  <2> SUFFICES ASSUME NEW g \in D, lev[g] = n, pre[g] = q
               PROVE  FALSE
      OBVIOUS
  <2>1. g # root
      BY <1>1, <1>2
  <2>2. PICK h \in D, j \in 0 .. Fan - 1 : lev[h] < 3 /\ tabs[h][j] = g
      BY <2>1 DEF IsTree, Parents
  <2>3. lev[g] = lev[h] + 1 /\ pre[g] = pre[h] * Fan + j
    <3>1. tabs[h][j] # NotPresent
        BY <1>1, <2>2 DEF NotPresent
    <3> QED
        BY <2>2, <3>1 DEF IsTree, Entries
  <2>4. lev[h] = lev[f]
    <3>1. lev[h] \in Nat /\ lev[f] \in Nat /\ lev[h] + 1 = lev[f] + 1
      <4>1. lev[h] \in Nat /\ lev[f] \in Nat
          BY <1>1
      <4>2. lev[g] = lev[f] + 1
          BY DEF n
      <4> QED
          BY <2>3, <4>1, <4>2
    <3> QED
        BY <3>1
  <2>5. pre[h] = pre[f] /\ j = i
    <3>1. pre[h] \in Nat /\ pre[f] \in Nat /\ pre[f] * Fan + i = pre[h] * Fan + j
        BY <1>1, <2>3 DEF q
    <3> QED
        BY <3>1, DigitsUnique
  <2>6. h = f
      BY <2>4, <2>5 DEF IsTree, Unique
  <2> QED
      BY <1>0, <1>1, <2>2, <2>5, <2>6 DEF NotPresent
<1>12. Unique(new, lev2, pre2)
  <2>1. \A g \in D : /\ lev2[g] = lev[g] /\ pre2[g] = pre[g] /\ g # p
      BY <1>7
  <2>2. lev2[p] = n /\ pre2[p] = q
      BY <1>7
  <2>3. \A g, h \in D : lev[g] = lev[h] /\ pre[g] = pre[h] => g = h
      BY DEF IsTree, Unique
  <2> QED
      BY <1>6, <1>11, <2>1, <2>2, <2>3 DEF Unique
<1>13. Entries(new, lev2, pre2)
  <2> SUFFICES ASSUME NEW g \in DOMAIN new, NEW j \in 0 .. Fan - 1,
                      new[g][j] # NotPresent
               PROVE  IF lev2[g] < 3
                      THEN /\ new[g][j] \in DOMAIN new
                           /\ lev2[new[g][j]] = lev2[g] + 1
                           /\ pre2[new[g][j]] = pre2[g] * Fan + j
                      ELSE new[g][j] = pre2[g] * Fan + j
      BY DEF Entries
  <2>0. DOMAIN new = D \cup {p} /\ new[p] = EmptyTable
      BY <1>6
  <2>1. g # p
      BY <1>4, <2>0
  <2>2. CASE g = f /\ j = i
    <3>1. new[g][j] = p /\ lev2[g] = lev[f] /\ pre2[g] = pre[f]
        BY <1>5, <1>7, <1>9, <2>2
    <3>2. lev2[p] = lev[f] + 1 /\ pre2[p] = pre[f] * Fan + i
        BY <1>7 DEF n, q
    <3> QED
        BY <1>0, <2>0, <2>2, <3>1, <3>2
  <2>3. CASE ~(g = f /\ j = i)
    <3>1. g \in D /\ new[g][j] = tabs[g][j] /\ lev2[g] = lev[g] /\ pre2[g] = pre[g]
        BY <2>0, <1>7, <1>9, <2>1, <2>3
    <3> DEFINE e == tabs[g][j]
    <3>2. IF lev[g] < 3
          THEN e \in D /\ lev[e] = lev[g] + 1 /\ pre[e] = pre[g] * Fan + j
          ELSE e = pre[g] * Fan + j
        BY <3>1 DEF IsTree, Entries
    <3>3. e \in D => lev2[e] = lev[e] /\ pre2[e] = pre[e]
        BY <1>7
    <3> HIDE DEF e
    <3> QED
        BY <2>0, <3>1, <3>2, <3>3 DEF e
  <2> QED
      BY <2>2, <2>3
<1>14. Parents(new, root, lev2)
  <2> SUFFICES ASSUME NEW g \in (D \cup {p}) \ {root}
               PROVE  \E h \in D \cup {p}, j \in 0 .. Fan - 1 :
                        lev2[h] < 3 /\ new[h][j] = g
      BY <1>6 DEF Parents
  <2>1. CASE g = p
    <3>1. lev2[f] < 3 /\ new[f][i] = p
        BY <1>0, <1>5, <1>7, <1>9
    <3> QED
        BY <2>1, <3>1
  <2>2. CASE g # p
    <3>1. PICK h \in D, j \in 0 .. Fan - 1 : lev[h] < 3 /\ tabs[h][j] = g
        BY <2>2 DEF IsTree, Parents
    <3>2. ~(h = f /\ j = i)
        BY <1>0, <1>1, <2>2, <3>1 DEF NotPresent
    <3>3. lev2[h] < 3 /\ new[h][j] = g
        BY <1>7, <1>9, <3>1, <3>2
    <3> QED
        BY <3>3
  <2> QED
      BY <2>1, <2>2
<1>15. Grows(tabs, new)
    BY <1>0, <1>6, <1>9 DEF Grows
<1> QED
    BY <1>6, <1>10, <1>12, <1>13, <1>14, <1>15 DEF IsTree

-----------------------------------------------------------------------------
(* The links between the tables, and the number of tables. *)

\* Going down a level from all the tables of one reaches all of the next.
LEMMA LevelBelow ==
    ASSUME NEW lev, NEW pre, IsTree(tables, pml4, lev, pre), NEW l \in 0 .. 2
    PROVE  Below({f \in DOMAIN tables : lev[f] = l})
             = {f \in DOMAIN tables : lev[f] = l + 1}
<1> DEFINE fs == {f \in DOMAIN tables : lev[f] = l}
           gs == {f \in DOMAIN tables : lev[f] = l + 1}
<1>1. \A f \in DOMAIN tables : lev[f] \in 0 .. 3 /\ f \in Nat
    BY DEF IsTree, Labels
<1>2. ASSUME NEW g \in Below(fs)
      PROVE  g \in gs
  <2>1. PICK f \in fs, i \in 0 .. Fan - 1 : g = Lookup(f, i) /\ g # NotPresent
      BY <1>2 DEF Below
  <2>2. g = tables[f][i] /\ lev[f] = l /\ lev[f] < 3
      BY <2>1 DEF Lookup
  <2> QED
      BY <2>1, <2>2 DEF IsTree, Entries
<1>3. ASSUME NEW g \in gs
      PROVE  g \in Below(fs)
  <2>1. g # pml4
      BY DEF IsTree, Labels
  <2>2. PICK f \in DOMAIN tables, i \in 0 .. Fan - 1 : lev[f] < 3 /\ tables[f][i] = g
      BY <2>1 DEF IsTree, Parents
  <2>3. g # NotPresent
      BY <1>1 DEF NotPresent
  <2>4. lev[g] = lev[f] + 1
      BY <2>2, <2>3 DEF IsTree, Entries
  <2>5. lev[f] = l
      BY <1>1, <2>4
  <2>6. g = Lookup(f, i) /\ f \in fs
      BY <2>2, <2>5 DEF Lookup
  <2> HIDE DEF fs, gs
  <2> QED
      BY <2>3, <2>6 DEF Below
<1> QED
    BY <1>2, <1>3

LEMMA UpperTables ==
    ASSUME NEW lev, NEW pre, IsTree(tables, pml4, lev, pre)
    PROVE  Upper = {f \in DOMAIN tables : lev[f] < 3}
<1> DEFINE L(l) == {f \in DOMAIN tables : lev[f] = l}
<1>1. {pml4} = L(0)
    BY DEF IsTree, Labels
<1>2. Below(L(0)) = L(1) /\ Below(L(1)) = L(2)
  <2>1. Below(L(0)) = L(0 + 1) /\ Below(L(1)) = L(1 + 1)
      BY LevelBelow
  <2> QED
      BY <2>1
<1>3. Upper = L(0) \cup L(1) \cup L(2)
  <2> HIDE DEF L
  <2> QED
      BY <1>1, <1>2 DEF Upper
<1>4. \A f \in DOMAIN tables : lev[f] \in 0 .. 3
    BY DEF IsTree, Labels
<1> QED
    BY <1>3, <1>4

\* As many links as tables but one, each to another table.
LEMMA LinksOfTree ==
    ASSUME NEW lev, NEW pre, IsTree(tables, pml4, lev, pre),
           IsFiniteSet(DOMAIN tables)
    PROVE  /\ {Lookup(e[1], e[2]) : e \in Links} = DOMAIN tables \ {pml4}
           /\ Cardinality(Links) = Cardinality(DOMAIN tables) - 1
<1> DEFINE D == DOMAIN tables
           T == D \ {pml4}
           to == [e \in Links |-> Lookup(e[1], e[2])]
<1>1. /\ pml4 \in D /\ lev[pml4] = 0
      /\ \A f \in D : lev[f] \in 0 .. 3 /\ pre[f] \in Nat /\ f \in Nat
    BY DEF IsTree, Labels
<1>2. ASSUME NEW e \in Links
      PROVE  /\ e = <<e[1], e[2]>>
             /\ e[1] \in D /\ e[2] \in 0 .. Fan - 1 /\ lev[e[1]] < 3
             /\ Lookup(e[1], e[2]) = tables[e[1]][e[2]]
             /\ Lookup(e[1], e[2]) # NotPresent
  <2>1. /\ e \in Upper \X (0 .. Fan - 1)
        /\ Lookup(e[1], e[2]) # NotPresent
      BY <1>2 DEF Links
  <2>2. e[1] \in Upper /\ e[2] \in 0 .. Fan - 1 /\ e = <<e[1], e[2]>>
      BY <2>1
  <2>3. e[1] \in D /\ lev[e[1]] < 3
      BY <2>2, UpperTables
  <2> QED
      BY <2>1, <2>2, <2>3 DEF Lookup
<1>3. ASSUME NEW e \in Links
      PROVE  LET g == to[e]
             IN  g \in D /\ lev[g] = lev[e[1]] + 1 /\ pre[g] = pre[e[1]] * Fan + e[2]
  <2>1. to[e] = tables[e[1]][e[2]]
      BY <1>2
  <2> HIDE DEF to
  <2> QED
      BY <1>2, <2>1 DEF IsTree, Entries
<1>4. \A e \in Links : to[e] \in T
  <2> HIDE DEF to
  <2>1. \A e \in Links : lev[e[1]] \in 0 .. 3
      BY <1>1, <1>2
  <2> QED
      BY <1>1, <1>3, <2>1
<1>5. ASSUME NEW d \in Links, NEW e \in Links, to[d] = to[e]
      PROVE  d = e
  <2> HIDE DEF to
  <2>1. /\ lev[d[1]] + 1 = lev[e[1]] + 1
        /\ pre[d[1]] * Fan + d[2] = pre[e[1]] * Fan + e[2]
      BY <1>3, <1>5
  <2>2. /\ d[1] \in D /\ e[1] \in D
        /\ d[2] \in 0 .. Fan - 1 /\ e[2] \in 0 .. Fan - 1
        /\ d = <<d[1], d[2]>> /\ e = <<e[1], e[2]>>
      BY <1>2
  <2>3. pre[d[1]] \in Nat /\ pre[e[1]] \in Nat
        /\ lev[d[1]] \in 0 .. 3 /\ lev[e[1]] \in 0 .. 3
      BY <1>1, <2>2
  <2>4. pre[d[1]] = pre[e[1]] /\ d[2] = e[2]
      BY <2>1, <2>2, <2>3, DigitsUnique
  <2>5. lev[d[1]] = lev[e[1]]
      BY <2>1, <2>3
  <2>6. d[1] = e[1]
      BY <2>2, <2>4, <2>5 DEF IsTree, Unique
  <2> QED
      BY <2>2, <2>4, <2>6
<1>6. ASSUME NEW g \in T
      PROVE  \E e \in Links : to[e] = g
  <2>1. PICK f \in D, i \in 0 .. Fan - 1 : lev[f] < 3 /\ tables[f][i] = g
      BY DEF IsTree, Parents
  <2> DEFINE e == <<f, i>>
  <2>2. Lookup(f, i) = g /\ g # NotPresent
      BY <1>1, <2>1 DEF Lookup, NotPresent
  <2>3. f \in Upper
      BY <2>1, UpperTables
  <2>4. e \in Links
      BY <2>2, <2>3 DEF Links
  <2> QED
      BY <2>2, <2>4
<1>7. to \in [Links -> T]
    BY <1>4
<1>8. {Lookup(e[1], e[2]) : e \in Links} = T
    BY <1>4, <1>6
<1>9. IsFiniteSet(T) /\ Cardinality(T) = Cardinality(D) - 1
    BY <1>1, FS_RemoveElement
<1> HIDE DEF to, T, D
<1>10. to \in Injection(Links, T)
    BY <1>5, <1>7 DEF Injection, IsInjective
<1>11. to \in Surjection(Links, T)
    BY <1>6, <1>7 DEF Surjection
<1>12. Cardinality(Links) = Cardinality(T)
    BY <1>9, <1>10, <1>11, FS_Injection
<1> QED
    BY <1>8, <1>9, <1>12 DEF D, T

\* The prefixes of the pages that are mapped, one for each table there is to
\* be but the PML4.
Prefixes == {<<k, Shifted(v, k)>> : k \in 1 .. 3, v \in MappedPages}

LEMMA PrefixesFinite ==
    ASSUME IsFiniteSet(MappedPages)
    PROVE  /\ IsFiniteSet(Prefixes) /\ Cardinality(Prefixes) \in Nat
           /\ TableBudget = 1 + Cardinality(Prefixes)
<1> DEFINE S == (1 .. 3) \X MappedPages
           h == [e \in S |-> <<e[1], Shifted(e[2], e[1])>>]
<1>1. IsFiniteSet(S)
  <2>1. \A a, b \in Int : IsFiniteSet(a .. b)
      BY FS_Interval
  <2> DEFINE K == 1 .. 3
  <2>2. IsFiniteSet(K)
      BY <2>1
  <2> HIDE DEF K
  <2>3. IsFiniteSet(K \X MappedPages)
      BY <2>2, FS_Product
  <2> QED
      BY <2>3 DEF K
<1>2. \A e \in S : h[e] \in Prefixes
    BY DEF Prefixes
<1>3. ASSUME NEW x \in Prefixes
      PROVE  \E e \in S : h[e] = x
  <2>1. PICK k \in 1 .. 3, v \in MappedPages : x = <<k, Shifted(v, k)>>
      BY DEF Prefixes
  <2>2. <<k, v>> \in S /\ h[<<k, v>>] = x
      BY <2>1
  <2> QED
      BY <2>2
<1>4. h \in [S -> Prefixes]
    BY <1>2
<1> HIDE DEF h, S
<1>5. h \in Surjection(S, Prefixes)
    BY <1>3, <1>4 DEF Surjection
<1>6. IsFiniteSet(Prefixes)
    BY <1>1, <1>5, FS_Surjection
<1> QED
    BY <1>6, FS_CardinalityType DEF TableBudget, Prefixes

\* Different tables stand for different prefixes of mapped pages: there are at
\* most as many, and exactly as many when each prefix has its table.
LEMMA WithinBudget ==
    ASSUME NEW lev, NEW pre, IsTree(tables, pml4, lev, pre), Wanted(lev, pre),
           IsFiniteSet(DOMAIN tables), IsFiniteSet(MappedPages)
    PROVE  /\ Cardinality(DOMAIN tables) \in Nat /\ TableBudget \in Nat
           /\ Cardinality(DOMAIN tables) <= TableBudget
           /\ Cardinality(DOMAIN tables) = TableBudget
                <=> \A v \in MappedPages, k \in 1 .. 3 :
                      \E f \in DOMAIN tables :
                        lev[f] = 4 - k /\ pre[f] = Shifted(v, k)
<1> DEFINE D == DOMAIN tables
           T == D \ {pml4}
           of == [f \in T |-> <<4 - lev[f], pre[f]>>]
<1>1. /\ pml4 \in D /\ lev[pml4] = 0
      /\ \A f \in D : lev[f] \in 0 .. 3 /\ pre[f] \in Nat /\ (lev[f] = 0 => f = pml4)
    BY DEF IsTree, Labels
<1>2. ASSUME NEW f \in T
      PROVE  of[f] \in Prefixes
  <2>1. lev[f] \in 1 .. 3
      BY <1>1
  <2>2. PICK v \in MappedPages : pre[f] = Shifted(v, 4 - lev[f])
      BY <2>1 DEF Wanted
  <2> DEFINE k == 4 - lev[f]
  <2>3. k \in 1 .. 3 /\ of[f] = <<k, Shifted(v, k)>>
      BY <2>1, <2>2
  <2> HIDE DEF k, of
  <2> QED
      BY <2>3 DEF Prefixes
<1>3. ASSUME NEW f \in T, NEW g \in T, of[f] = of[g]
      PROVE  f = g
  <2>1. 4 - lev[f] = 4 - lev[g] /\ pre[f] = pre[g]
      BY <1>3
  <2>2. lev[f] = lev[g]
      BY <1>1, <2>1
  <2> QED
      BY <2>1, <2>2 DEF IsTree, Unique
<1>4. (\A x \in Prefixes : \E f \in T : of[f] = x)
        <=> \A v \in MappedPages, k \in 1 .. 3 :
              \E f \in D : lev[f] = 4 - k /\ pre[f] = Shifted(v, k)
  <2>1. ASSUME NEW v \in MappedPages, NEW k \in 1 .. 3, NEW f \in D
        PROVE  lev[f] = 4 - k /\ pre[f] = Shifted(v, k)
                 <=> f \in T /\ of[f] = <<k, Shifted(v, k)>>
    <3>1. lev[f] = 4 - k => f \in T
        BY <1>1
    <3>2. f \in T => (of[f] = <<k, Shifted(v, k)>>
                        <=> 4 - lev[f] = k /\ pre[f] = Shifted(v, k))
        OBVIOUS
    <3>3. lev[f] = 4 - k <=> 4 - lev[f] = k
        BY <1>1
    <3> QED
        BY <3>1, <3>2, <3>3
  <2> HIDE DEF of
  <2>2. ASSUME \A x \in Prefixes : \E f \in T : of[f] = x,
               NEW v \in MappedPages, NEW k \in 1 .. 3
        PROVE  \E f \in D : lev[f] = 4 - k /\ pre[f] = Shifted(v, k)
    <3>1. <<k, Shifted(v, k)>> \in Prefixes
        BY DEF Prefixes
    <3>2. PICK f \in T : of[f] = <<k, Shifted(v, k)>>
        BY <2>2, <3>1
    <3> QED
        BY <2>1, <3>2
  <2>3. ASSUME \A v \in MappedPages, k \in 1 .. 3 :
                 \E f \in D : lev[f] = 4 - k /\ pre[f] = Shifted(v, k),
               NEW x \in Prefixes
        PROVE  \E f \in T : of[f] = x
    <3>1. PICK k \in 1 .. 3, v \in MappedPages : x = <<k, Shifted(v, k)>>
        BY DEF Prefixes
    <3>2. PICK f \in D : lev[f] = 4 - k /\ pre[f] = Shifted(v, k)
        BY <2>3
    <3> QED
        BY <2>1, <3>1, <3>2
  <2> QED
      BY <2>2, <2>3
<1>5. of \in [T -> Prefixes]
    BY <1>2
<1>6. IsFiniteSet(Prefixes) /\ Cardinality(Prefixes) \in Nat
      /\ TableBudget = 1 + Cardinality(Prefixes)
    BY PrefixesFinite
<1>7. /\ Cardinality(D) \in Nat /\ Cardinality(T) = Cardinality(D) - 1
    BY <1>1, FS_RemoveElement, FS_CardinalityType
<1> HIDE DEF of, T, D
<1>8. of \in Injection(T, Prefixes)
    BY <1>3, <1>5 DEF Injection, IsInjective
<1>9. /\ Cardinality(T) <= Cardinality(Prefixes)
      /\ Cardinality(T) = Cardinality(Prefixes) <=> of \in Surjection(T, Prefixes)
    BY <1>6, <1>8, FS_Injection
<1>10. of \in Surjection(T, Prefixes) <=> \A x \in Prefixes : \E f \in T : of[f] = x
    BY <1>5 DEF Surjection
<1>11. /\ Cardinality(D) <= TableBudget /\ TableBudget \in Nat
       /\ Cardinality(D) = TableBudget <=> Cardinality(T) = Cardinality(Prefixes)
    BY <1>6, <1>7, <1>9
<1> QED
    BY <1>4, <1>7, <1>9, <1>10, <1>11 DEF D

-----------------------------------------------------------------------------
(* What getMemSize measures. *)

\* A set that holds 0, and with a number the next, holds all of them.
LEMMA SetInduction ==
    ASSUME NEW S, 0 \in S, \A k \in Nat : k \in S => k + 1 \in S
    PROVE  Nat \subseteq S
  <1> SUFFICES ASSUME NEW n \in Nat, n \notin S
               PROVE  FALSE
    OBVIOUS
  <1> DEFINE T == {k \in 0 .. n : k \in S}
             next == [k \in T |-> k + 1]
  <1>1. IsFiniteSet(T) /\ Cardinality(T) \in Nat
    <2>1. IsFiniteSet(0 .. n)  BY FS_Interval
    <2> QED  BY <2>1, FS_Subset, FS_CardinalityType
  <1>2. /\ IsFiniteSet(T \ {0})
        /\ Cardinality(T \ {0}) = Cardinality(T) - 1
    <2>1. 0 \in T  OBVIOUS
    <2> HIDE DEF T
    <2> QED  BY <1>1, <2>1, FS_RemoveElement
  <1>3. next \in [T -> T \ {0}]
    OBVIOUS
  <1>4. next \in Injection(T, T \ {0})
    <2>1. \A a, b \in T : next[a] = next[b] => a = b
      OBVIOUS
    <2> HIDE DEF next, T
    <2> QED  BY <1>3, <2>1 DEF Injection, IsInjective
  <1>5. Cardinality(T) <= Cardinality(T \ {0})
    <2> HIDE DEF next, T
    <2> QED  BY <1>2, <1>4, FS_Injection
  <1> HIDE DEF T
  <1> QED  BY <1>1, <1>2, <1>5

LEMMA MeasuredSteps ==
    ASSUME NEW m, Len(m) \in Nat
    PROVE  /\ Measured(m)[0] = 0
           /\ \A k \in 1 .. Len(m) : Measured(m)[k] = Measured(m)[k - 1] + m[k].pages
<1> DEFINE IsSum(f, n) ==
             f = [k \in 0 .. n |-> IF k = 0 THEN 0 ELSE f[k - 1] + m[k].pages]
           S == {n \in Nat : \E f : IsSum(f, n)}
<1>1. 0 \in S
  <2>1. IsSum([k \in 0 .. 0 |-> 0], 0)
      OBVIOUS
  <2> QED
      BY <2>1
<1>2. ASSUME NEW n \in Nat, n \in S
      PROVE  n + 1 \in S
  <2>1. PICK f : IsSum(f, n)
      BY <1>2
  <2> DEFINE g == [k \in 0 .. n + 1 |->
                     IF k = n + 1 THEN f[n] + m[n + 1].pages ELSE f[k]]
  <2>2. \A k \in 0 .. n : g[k] = f[k]
      OBVIOUS
  <2>3. \A k \in 0 .. n : f[k] = IF k = 0 THEN 0 ELSE f[k - 1] + m[k].pages
      BY <2>1, Zenon
  <2>4. ASSUME NEW k \in 0 .. n + 1
        PROVE  g[k] = IF k = 0 THEN 0 ELSE g[k - 1] + m[k].pages
    <3>1. CASE k = n + 1
      <4>1. k # 0 /\ k - 1 = n /\ n \in 0 .. n  BY <3>1
      <4>2. g[k] = f[n] + m[n + 1].pages  BY <3>1
      <4>3. g[k - 1] = f[n]  BY <2>2, <4>1
      <4> HIDE DEF g
      <4> QED  BY <3>1, <4>1, <4>2, <4>3
    <3>2. CASE k # n + 1
      <4>1. k \in 0 .. n /\ (k # 0 => k - 1 \in 0 .. n)  BY <3>2
      <4> HIDE DEF g
      <4> QED  BY <2>2, <2>3, <4>1
    <3> QED  BY <3>1, <3>2
  <2>5. IsSum(g, n + 1)
    <3>1. g = [k \in 0 .. n + 1 |-> g[k]]  OBVIOUS
    <3> HIDE DEF g
    <3> QED  BY <2>4, <3>1
  <2> HIDE DEF IsSum
  <2> QED
      BY <2>5
<1>3. Len(m) \in S
  <2> HIDE DEF S
  <2> QED
      BY <1>1, <1>2, SetInduction
<1> DEFINE sum == CHOOSE f : IsSum(f, Len(m))
<1>4. IsSum(sum, Len(m))
    BY <1>3, Zenon
<1>5. Measured(m) = sum
    BY DEF Measured
<1>6. \A k \in 0 .. Len(m) : sum[k] = IF k = 0 THEN 0 ELSE sum[k - 1] + m[k].pages
  <2> HIDE DEF sum
  <2> QED
      BY <1>4, Zenon
<1> HIDE DEF sum
<1>7. 0 \in 0 .. Len(m) /\ \A k \in 1 .. Len(m) : k \in 0 .. Len(m) /\ k # 0
    OBVIOUS
<1> QED
    BY <1>5, <1>6, <1>7

-----------------------------------------------------------------------------
(* What the steps have in common. *)

\* The sizes are numbers, and what is to be mapped is in reach of a walk.
LEMMA MachineFacts ==
    ASSUME TypeOK, StageInv
    PROVE  /\ mem_size \in Nat /\ machine.fb.first \in Nat /\ fbMappedPages \in Nat
           /\ machine.kernel.first \in Nat /\ machine.kernel.bytes \in Nat
           /\ kernel_pages \in Nat /\ fbLockedPages \in Nat
           /\ machine.fb.first + fbMappedPages <= WalkPages
<1>1. /\ mem_size \in Nat
      /\ {machine.kernel, machine.fb} \subseteq [first : Nat, bytes : Nat]
      /\ PageBytes \in Nat \ {0}
    BY MachinesAssumption, PageBytesAssumption DEF TypeOK, StageInv
<1>2. /\ machine.kernel.first \in Nat /\ machine.kernel.bytes \in Nat
      /\ machine.fb.first \in Nat /\ machine.fb.bytes \in Nat
    BY <1>1
<1>3. fbSize \in Nat /\ fbSize + PageBytes - 1 \in Nat
    BY <1>1, <1>2 DEF fbSize
<1>4. kernel_pages \in Nat /\ fbLockedPages \in Nat /\ fbMappedPages \in Nat
    BY <1>1, <1>2, <1>3, Division DEF kernel_pages, fbLockedPages, fbMappedPages
<1>5. machine.fb.first + fbMappedPages <= WalkPages
    BY ReachAssumption DEF StageInv, fbMappedPages, fbSize
<1> QED
    BY <1>1, <1>2, <1>4, <1>5

LEMMA MappedInReach ==
    ASSUME TypeOK, StageInv, phase = "ready"
    PROVE  /\ MappedPages \subseteq VirtualPages /\ IsFiniteSet(MappedPages)
           /\ MappedPages \subseteq Nat
           /\ Mapping => t \in MappedPages
<1>1. /\ mem_size \in Nat /\ machine.fb.first \in Nat /\ fbMappedPages \in Nat
      /\ machine.fb.first + fbMappedPages <= WalkPages
    BY MachineFacts
<1>2. mem_size <= WalkPages
    BY ReachAssumption DEF StageInv
<1>3. WalkPages \in Nat
  <2>1. Fan \in Nat
      BY FanAssumption
  <2> QED
      BY <2>1 DEF WalkPages
<1>4. /\ MappedPages \subseteq VirtualPages /\ MappedPages \subseteq Nat
    BY <1>1, <1>2, <1>3 DEF MappedPages, Pages, VirtualPages
<1>5. IsFiniteSet(MappedPages)
  <2>1. \A a, b \in Int : IsFiniteSet(a .. b)
      BY FS_Interval
  <2>2. IsFiniteSet(VirtualPages)
    <3>1. 0 \in Int /\ WalkPages - 1 \in Int
        BY <1>3
    <3> QED
        BY <2>1, <3>1 DEF VirtualPages
  <2> QED
      BY <1>4, <2>2, FS_Subset
<1>6. Mapping => t \in MappedPages
    BY <1>1 DEF Mapping, StageInv, MappedPages, Pages
<1> QED
    BY <1>4, <1>5, <1>6

LEMMA RequestEffect ==
    ASSUME TypeOK, NEW p \in Clear, requestPage(p)
    PROVE  /\ p \in Nat /\ Clear' = Clear \ {p} /\ held' = held \cup {p}
           /\ \A c \in Clear : p <= c /\ c \in Nat
           /\ phase = "ready" /\ ~Busy
           /\ UNCHANGED <<mmap, phase, desc, loop, mem_size, size, buffer>>
<1>1. /\ phase = "ready" /\ ~Busy /\ _LockPage(p) /\ held' = held \cup {p}
      /\ \A c \in Clear : p <= c
      /\ UNCHANGED <<mmap, phase, desc, loop, mem_size, size, buffer>>
    BY DEF requestPage, Serving, FirstClear
<1>2. \A c \in Clear : c \in Nat
    BY TrackedInReach DEF Clear, Tracked, TypeOK
<1>3. Clear' = Clear \ {p}
    BY <1>1, <1>2, LockEffect
<1> QED
    BY <1>1, <1>2, <1>3

\* The pages of a call that locks leave the pool, and none comes back.
LEMMA LoopEffect ==
    ASSUME IInv, Looping, Busy => loop.op # "free"
    PROVE  /\ Clear' \subseteq Clear /\ held' = held
           /\ UNCHANGED <<mmap, phase, desc, mem_size, size, buffer>>
           /\ Busy' => loop'.op # "free"
           /\ \A p \in Nat : Coming("lock", p) => p \notin Clear' \/ Coming("lock", p)'
<1>1. TypeOK /\ Busy /\ loop.next \in Nat
    BY DEF IInv, Looping, LockLoop, ReserveLoop, FreeLoop, TypeOK
<1>2. /\ Advance /\ held' = held
      /\ UNCHANGED <<mmap, phase, desc, mem_size, size, buffer>>
      /\ \/ loop.op = "lock" /\ _LockPage(loop.next)
         \/ loop.op = "reserve" /\ _ReservePage(loop.next)
    BY <1>1 DEF Looping, LockLoop, ReserveLoop, FreeLoop
<1>3. Clear' = Clear \ {loop.next}
    BY <1>1, <1>2, LockEffect, ReserveEffect
<1>4. /\ Busy' => /\ loop'.op = loop.op /\ loop'.next = loop.next + 1
                  /\ loop'.end = loop.end
      /\ ~Busy' => loop.next + 1 = loop.end
    BY <1>1, <1>2, AdvanceRange
<1>5. loop.end \in Nat
    BY <1>1 DEF TypeOK
<1>6. ASSUME NEW p \in Nat, Coming("lock", p), p # loop.next
      PROVE  Coming("lock", p)'
    BY <1>1, <1>4, <1>5, <1>6 DEF Coming
<1> QED
    BY <1>1, <1>2, <1>3, <1>4, <1>6

\* kmain's own steps start when the allocator waits for calls, and change what
\* they say.
LEMMA KmainFrame ==
    ASSUME Kmain
    PROVE  /\ phase = "ready" /\ ~Busy
           /\ UNCHANGED <<machine, mmap, phase, desc, mem_size, size, buffer>>
           /\ Busy' => loop'.op = "lock"
<1> USE DEF Serving
<1>1. CASE LockKernel
    BY <1>1 DEF LockKernel, lockPages, Walk
<1>2. CASE RequestPML4
    BY <1>2 DEF RequestPML4, requestPage, Busy
<1>3. CASE FollowEntry
    BY <1>3 DEF FollowEntry, vars, Busy
<1>4. CASE NewTable
    BY <1>4 DEF NewTable, requestPage, Busy
<1>5. CASE SetLeaf
    BY <1>5 DEF SetLeaf, vars, Busy
<1>6. CASE LockFramebuffer
    BY <1>6 DEF LockFramebuffer, lockPages, Walk
<1>7. CASE LoadCR3
    BY <1>7 DEF LoadCR3, vars, Busy
<1>8. CASE RequestIDT
    BY <1>8 DEF RequestIDT, requestPage, Busy
<1>9. CASE RequestFails
    BY <1>9 DEF RequestFails, Wild, vars, Busy
<1> QED
    BY <1>1, <1>2, <1>3, <1>4, <1>5, <1>6, <1>7, <1>8, <1>9 DEF Kmain

-----------------------------------------------------------------------------
(* How far kmain is. *)

LEMMA BootStage ==
    ASSUME IInv, StageInv, Boot, UNCHANGED kernelVars
    PROVE  StageInv'
<1> DEFINE upTo(ph, d) == IF ph = "measure" THEN d - 1 ELSE Len(mmap)
<1>0. /\ TypeOK /\ Stages
      /\ Len(mmap) \in Nat /\ DOMAIN mmap = 1 .. Len(mmap)
    BY MapType DEF IInv
<1>1. /\ phase # "ready" /\ kpc = "lockKernel" /\ mmap' = mmap
      /\ mem_size = Measured(mmap)[upTo(phase, desc)]
    BY DEF Boot, _descAddMemSize, readEFIMemoryMap, _descReservePage, MapRead,
           StageInv
<1>2. CASE _descAddMemSize
  <2>1. /\ phase = "measure" /\ phase' = phase /\ loop' = loop
        /\ desc \in 1 .. Len(mmap) /\ desc' = desc + 1
        /\ mem_size' = mem_size + mmap[desc].pages
      BY <1>0, <1>2 DEF _descAddMemSize
  <2>2. mem_size' = Measured(mmap)[desc' - 1]
    <3>1. mem_size' = Measured(mmap)[desc]
        BY <1>0, <1>1, <2>1, MeasuredSteps
    <3>2. desc' - 1 = desc
        BY <1>0, <2>1
    <3> QED
        BY <3>1, <3>2
  <2>3. /\ phase' # "measure" => buffer' = LargestSegment(mmap')
        /\ mem_size' = Measured(mmap')[IF phase' = "measure" THEN desc' - 1 ELSE Len(mmap')]
        /\ Busy' => loop'.op # "free"
      BY <1>1, <2>1, <2>2 DEF StageInv, Busy
  <2> QED
      BY <1>1, <2>3 DEF StageInv, kernelVars, fbMappedPages, fbSize
<1>3. CASE readEFIMemoryMap
  <2>1. /\ phase = "measure" /\ phase' = "reserve" /\ mem_size' = mem_size
        /\ buffer' = LargestSegment(mmap) /\ loop'.op = "lock"
        /\ desc - 1 = Len(mmap)
      BY <1>0, <1>3 DEF readEFIMemoryMap, PGinitBitMap, Walk, Stages
  <2> QED
      BY <1>1, <2>1 DEF StageInv, kernelVars, fbMappedPages, fbSize
<1>4. CASE _descReservePage
  <2>1. /\ phase = "reserve" /\ phase' = phase /\ mem_size' = mem_size
        /\ buffer' = buffer /\ (loop' = loop \/ loop'.op = "reserve")
      BY <1>4 DEF _descReservePage, Walk
  <2> QED
      BY <1>1, <2>1 DEF StageInv, kernelVars, fbMappedPages, fbSize, Busy
<1>5. CASE MapRead
  <2>1. /\ phase = "reserve" /\ phase' = "ready" /\ mem_size' = mem_size
        /\ buffer' = buffer /\ loop' = loop
      BY <1>5 DEF MapRead
  <2> QED
      BY <1>1, <2>1 DEF StageInv, kernelVars, fbMappedPages, fbSize, Busy
<1> QED
    BY <1>2, <1>3, <1>4, <1>5 DEF Boot

LEMMA LoopStage ==
    ASSUME IInv, StageInv, Looping, UNCHANGED kernelVars
    PROVE  StageInv'
<1>1. /\ UNCHANGED <<mmap, phase, desc, mem_size, size, buffer>>
      /\ Busy' => loop'.op # "free"
    BY LoopEffect DEF StageInv
<1> QED
    BY <1>1 DEF StageInv, kernelVars, fbMappedPages, fbSize

LEMMA KmainStage ==
    ASSUME IInv, StageInv, TreeInv, Kmain
    PROVE  StageInv'
<1>1. /\ phase = "ready" /\ ~Busy
      /\ UNCHANGED <<machine, mmap, phase, desc, mem_size, size, buffer>>
      /\ Busy' => loop'.op = "lock"
    BY KmainFrame
<1>2. /\ mem_size \in Nat /\ machine.fb.first \in Nat /\ fbMappedPages \in Nat
      /\ fbMappedPages' = fbMappedPages
    BY <1>1, MachineFacts DEF IInv, fbMappedPages, fbSize
<1>3. /\ (machine \in Machines /\ machine.mmap = mmap)'
      /\ (Busy => loop.op # "free")'
      /\ (phase # "measure" => buffer = LargestSegment(mmap))'
      /\ (mem_size = Measured(mmap)[IF phase = "measure" THEN desc - 1 ELSE Len(mmap)])'
      /\ (kpc # "lockKernel" => phase = "ready")'
    BY <1>1 DEF StageInv
<1> DEFINE Moves == 
             /\ (kpc \in {"lockKernel", "pml4", "mapMemory", "mapFb", "idt", "main", "wild"})'
             /\ (t \in Nat /\ level \in 0 .. 3 /\ table \in Nat)'
             /\ ({pml4, cr3, idtr} \subseteq Nat \cup {NoRoot})'
             /\ (kpc \in {"lockKernel", "pml4"} => pml4 = NoRoot)'
             /\ (kpc \in {"mapMemory", "mapFb", "idt", "main"} => pml4 # NoRoot)'
             /\ (kpc # "main" => idtr = NoRoot)'
             /\ (cr3 # NoRoot => pml4 # NoRoot /\ kpc \in {"idt", "main", "wild"})'
             /\ (kpc = "mapMemory" => t <= mem_size)'
             /\ (kpc = "mapFb" => t \in machine.fb.first .. machine.fb.first + fbMappedPages)'
<1>4. SUFFICES Moves
    BY <1>3 DEF StageInv
<1>5. CASE LockKernel
    BY <1>1, <1>2, <1>5 DEF LockKernel, StageInv
<1>6. CASE RequestPML4
  <2>1. PICK p \in Clear : requestPage(p) /\ pml4' = p /\ table' = p
      BY <1>6 DEF RequestPML4
  <2>2. p \in Nat /\ p # NoRoot
      BY <2>1, RequestEffect DEF IInv, NoRoot
  <2> QED
      BY <1>1, <1>2, <1>6, <2>1, <2>2 DEF RequestPML4, StageInv
<1>7. CASE FollowEntry
  <2>1. pml4 # NoRoot /\ kpc \in {"mapMemory", "mapFb"}
      BY <1>7 DEF FollowEntry, StageInv, Mapping
  <2>2. PICK lev, pre : IsTree(tables, pml4, lev, pre) /\ AtTable(lev, pre)
      BY <2>1 DEF TreeInv
  <2>3. table \in DOMAIN tables /\ t \in Nat /\ level \in 0 .. 3
      BY <2>1, <2>2 DEF AtTable, StageInv
  <2>4. Entry \in Nat
      BY <1>7, <2>2, <2>3, IndexRange DEF FollowEntry, Entry, IsTree, Labels
  <2> QED
      BY <1>1, <1>2, <1>7, <2>3, <2>4 DEF FollowEntry, StageInv
<1>8. CASE NewTable
  <2>1. PICK p \in Clear : requestPage(p) /\ table' = p
      BY <1>8 DEF NewTable
  <2>2. p \in Nat
      BY <2>1, RequestEffect DEF IInv
  <2> QED
      BY <1>1, <1>2, <1>8, <2>1, <2>2 DEF NewTable, StageInv
<1>9. CASE SetLeaf
  <2>1. pml4 \in Nat /\ kpc \in {"mapMemory", "mapFb"}
      BY <1>9 DEF SetLeaf, StageInv, Mapping
  <2> QED
      BY <1>1, <1>2, <1>9, <2>1 DEF SetLeaf, StageInv, Mapping
<1>10. CASE LockFramebuffer
    BY <1>1, <1>2, <1>10 DEF LockFramebuffer, StageInv
<1>11. CASE LoadCR3
    BY <1>1, <1>2, <1>11 DEF LoadCR3, StageInv
<1>12. CASE RequestIDT
  <2>1. PICK p \in Clear : requestPage(p) /\ idtr' = p
      BY <1>12 DEF RequestIDT
  <2>2. p \in Nat
      BY <2>1, RequestEffect DEF IInv
  <2> QED
      BY <1>1, <1>2, <1>12, <2>1, <2>2 DEF RequestIDT, StageInv
<1>13. CASE RequestFails
    BY <1>1, <1>2, <1>13 DEF RequestFails, Wild, StageInv, Mapping
<1> HIDE DEF Moves
<1> QED
    BY <1>5, <1>6, <1>7, <1>8, <1>9, <1>10, <1>11, <1>12, <1>13 DEF Kmain

-----------------------------------------------------------------------------
(* The tree. *)

\* Where getNextPageTable is while a page is being mapped: at the table of that
\* page's walk, the PML4 included.
LEMMA AtWalk ==
    ASSUME TypeOK, StageInv, Mapping, NEW lev, NEW pre,
           IsTree(tables, pml4, lev, pre), AtTable(lev, pre)
    PROVE  /\ kpc \in {"mapMemory", "mapFb"} /\ phase = "ready"
           /\ t \in MappedPages /\ t \in VirtualPages /\ t \in Nat
           /\ level \in 0 .. 3 /\ table \in DOMAIN tables /\ lev[table] = level
           /\ pre[table] = Shifted(t, 4 - level)
           /\ Index(t, level) \in 0 .. Fan - 1
           /\ pre[table] * Fan + Index(t, level) = Shifted(t, 3 - level)
           /\ Entry = Hop(tables, table, t, level)
<1>1. /\ kpc \in {"mapMemory", "mapFb"} /\ phase = "ready" /\ pml4 # NoRoot
      /\ level \in 0 .. 3
    BY DEF Mapping, StageInv
<1>2. t \in MappedPages /\ t \in VirtualPages /\ t \in Nat
    BY <1>1, MappedInReach DEF StageInv
<1>3. table \in DOMAIN tables /\ lev[table] = level
    BY <1>1 DEF AtTable
<1>4. pre[table] = Shifted(t, 4 - level)
  <2>1. CASE level = 0
    <3>1. table = pml4 /\ pre[table] = 0
        BY <1>3, <2>1 DEF IsTree, Labels
    <3> QED
        BY <1>2, <2>1, <3>1, ShiftAll
  <2>2. CASE level # 0
      BY <1>1, <2>2 DEF AtTable
  <2> QED
      BY <2>1, <2>2
<1>5. Index(t, level) \in 0 .. Fan - 1
    BY <1>1, <1>2, IndexRange
<1>6. pre[table] * Fan + Index(t, level) = Shifted(t, 3 - level)
  <2> DEFINE k == 3 - level
  <2>1. k \in 0 .. 3 /\ k + 1 = 4 - level
      BY <1>1
  <2>2. Shifted(t, k) = Shifted(t, k + 1) * Fan + (Shifted(t, k) % Fan)
    <3> HIDE DEF k
    <3> QED
        BY <1>2, <2>1, ShiftStep
  <2>3. Shifted(t, k) = pre[table] * Fan + Index(t, level)
    <3>1. Index(t, level) = Shifted(t, k) % Fan
        BY DEF Index
    <3>2. pre[table] = Shifted(t, k + 1)
        BY <1>4, <2>1, Zenon
    <3> HIDE DEF k
    <3> QED
        BY <2>2, <3>1, <3>2
  <2> QED
      BY <2>3
<1>7. Entry = Hop(tables, table, t, level)
    BY <1>3 DEF Entry, Hop
<1> QED
    BY <1>1, <1>2, <1>3, <1>4, <1>5, <1>6, <1>7

LEMMA MappedSame ==
    ASSUME UNCHANGED <<machine, mem_size>>
    PROVE  MappedPages' = MappedPages
    BY DEF MappedPages, fbMappedPages, fbSize

\* Steps that leave the tables as they are, and the walk or its end.
LEMMA TreeFrame ==
    ASSUME StageInv, TreeInv, UNCHANGED treeVars,
           pml4 # NoRoot => MappedPages' = MappedPages,
           \/ kpc' \notin {"mapMemory", "mapFb"}
           \/ UNCHANGED <<kpc, t, mem_size, machine>>
           \/ kpc = "mapMemory" /\ ~Mapping
    PROVE  TreeInv'
<1>1. UNCHANGED <<level, table, tables, pml4>>
    BY DEF treeVars
<1>2. CASE pml4 = NoRoot
    BY <1>1, <1>2 DEF TreeInv
<1>3. CASE pml4 # NoRoot
  <2>1. PICK lev, pre : /\ IsTree(tables, pml4, lev, pre)
                        /\ Wanted(lev, pre) /\ AtTable(lev, pre)
      BY <1>3 DEF TreeInv
  <2>2. Wanted(lev, pre)'
      BY <1>1, <1>3, <2>1 DEF Wanted
  <2>3. AtTable(lev, pre)'
    <3>1. CASE kpc' \notin {"mapMemory", "mapFb"}
        BY <3>1 DEF AtTable
    <3>2. CASE UNCHANGED <<kpc, t, mem_size, machine>>
        BY <1>1, <2>1, <3>2 DEF AtTable, Mapping, fbMappedPages, fbSize
    <3>3. CASE kpc = "mapMemory" /\ ~Mapping
      <4>1. table \in DOMAIN tables /\ lev[table] = level /\ ~(level > 0)
          BY <2>1, <3>3 DEF AtTable
      <4> QED
          BY <1>1, <4>1 DEF AtTable
    <3> QED
        BY <3>1, <3>2, <3>3
  <2> QED
      BY <1>1, <1>3, <2>1, <2>2, <2>3 DEF TreeInv
<1> QED
    BY <1>2, <1>3

LEMMA RootStep ==
    ASSUME IInv, StageInv, TreeInv, RequestPML4
    PROVE  TreeInv'
<1>1. PICK p \in Clear :
         requestPage(p) /\ tables' = Zeroed(p) /\ pml4' = p /\ table' = p
    BY DEF RequestPML4
<1>2. p \in Nat /\ p # NoRoot /\ level' = 0 /\ DOMAIN tables = {}
    BY <1>1, RequestEffect DEF IInv, NoRoot, RequestPML4, StageInv, TreeInv
<1>3. tables' = [f \in {p} |-> EmptyTable]
    BY <1>1, <1>2 DEF Zeroed
<1>4. PICK lev, pre : lev = [f \in {p} |-> 0] /\ pre = [f \in {p} |-> 0]
    OBVIOUS
<1>5. IsTree(tables', pml4', lev, pre)
    BY <1>1, <1>2, <1>3, <1>4, RootTree
<1>6. Wanted(lev, pre)' /\ AtTable(lev, pre)'
    BY <1>1, <1>2, <1>3, <1>4 DEF Wanted, AtTable
<1> QED
    BY <1>1, <1>2, <1>5, <1>6 DEF TreeInv

LEMMA FollowStep ==
    ASSUME IInv, StageInv, TreeInv, FollowEntry
    PROVE  TreeInv'
<1>1. /\ Mapping /\ level < 3 /\ Entry # NotPresent /\ TypeOK
      /\ table' = Entry /\ level' = level + 1 /\ pml4 # NoRoot
      /\ UNCHANGED <<kpc, t, tables, pml4, mem_size, machine>>
    BY DEF FollowEntry, vars, IInv, StageInv, Mapping
<1>2. PICK lev, pre : /\ IsTree(tables, pml4, lev, pre)
                      /\ Wanted(lev, pre) /\ AtTable(lev, pre)
    BY <1>1 DEF TreeInv
<1>3. /\ t \in VirtualPages /\ level \in 0 .. 3
      /\ table \in DOMAIN tables /\ lev[table] = level
      /\ pre[table] = Shifted(t, 4 - level)
      /\ Entry = Hop(tables, table, t, level)
    BY <1>1, <1>2, AtWalk
<1>4. /\ Entry \in DOMAIN tables /\ lev[Entry] = level + 1
      /\ pre[Entry] = Shifted(t, 4 - (level + 1))
    BY <1>1, <1>2, <1>3, HopTree
<1>5. Wanted(lev, pre)'
    BY <1>1, <1>2, MappedSame DEF Wanted
<1>6. AtTable(lev, pre)'
    BY <1>1, <1>4 DEF AtTable, Mapping, fbMappedPages, fbSize
<1> QED
    BY <1>1, <1>2, <1>5, <1>6 DEF TreeInv

LEMMA NewStep ==
    ASSUME IInv, StageInv, TreeInv, PageInv, NewTable
    PROVE  TreeInv'
<1>1. PICK p \in Clear :
         /\ requestPage(p) /\ table' = p
         /\ tables' = [Zeroed(p) EXCEPT ![table][Index(t, level)] = p]
    BY DEF NewTable
<1>2. /\ Mapping /\ level < 3 /\ Entry = NotPresent /\ TypeOK
      /\ level' = level + 1 /\ pml4 # NoRoot
      /\ UNCHANGED <<kpc, t, pml4, machine>>
    BY DEF NewTable, IInv, StageInv, Mapping
<1>3. /\ p \in Nat /\ mem_size' = mem_size /\ p \notin DOMAIN tables
    BY <1>1, <1>2, RequestEffect DEF PageInv, Taken
<1>4. PICK lev, pre : /\ IsTree(tables, pml4, lev, pre)
                      /\ Wanted(lev, pre) /\ AtTable(lev, pre)
    BY <1>2 DEF TreeInv
<1> DEFINE f == table
           i == Index(t, level)
<1>5. /\ t \in MappedPages /\ t \in Nat /\ level \in 0 .. 3
      /\ f \in DOMAIN tables /\ lev[f] = level
      /\ i \in 0 .. Fan - 1 /\ pre[f] * Fan + i = Shifted(t, 3 - level)
    BY <1>2, <1>4, AtWalk
<1>6. tables[f][i] = NotPresent
    BY <1>2 DEF Entry
<1>7. PICK lev2, pre2 : Labelled(tables, lev, pre, lev2, pre2, f, i, p)
    BY DEF Labelled
<1>8. Linked(tables, tables', f, i, p)
    BY <1>1 DEF Zeroed, Linked
<1>9. IsTree(tables', pml4, lev2, pre2) /\ DOMAIN tables' = DOMAIN tables \cup {p}
  <2>1. /\ IsTree(tables, pml4, lev, pre) /\ f \in DOMAIN tables
        /\ i \in 0 .. Fan - 1 /\ Vacant(tables, lev, f, i)
        /\ p \in Nat /\ p \notin DOMAIN tables
      BY <1>2, <1>3, <1>4, <1>5, <1>6 DEF Vacant
  <2> HIDE DEF f, i
  <2> QED
      BY <2>1, <1>7, <1>8, GrownTree
<1>10. lev2[p] = level + 1 /\ pre2[p] = Shifted(t, 4 - (level + 1))
  <2>1. 3 - level = 4 - (level + 1)
      BY <1>5
  <2> QED
      BY <1>5, <1>7, <2>1 DEF Labelled
<1>11. Wanted(lev2, pre2)'
  <2>1. MappedPages' = MappedPages
      BY <1>2, <1>3, MappedSame
  <2>2. ASSUME NEW g \in DOMAIN tables', lev2[g] > 0
        PROVE  \E v \in MappedPages : pre2[g] = Shifted(v, 4 - lev2[g])
    <3>1. CASE g = p
        BY <1>5, <1>10, <3>1
    <3>2. CASE g # p
      <4>1. g \in DOMAIN tables /\ lev2[g] = lev[g] /\ pre2[g] = pre[g]
          BY <1>7, <1>9, <3>2 DEF Labelled
      <4> QED
          BY <1>4, <2>2, <4>1 DEF Wanted
    <3> QED
        BY <3>1, <3>2
  <2> QED
      BY <2>1, <2>2 DEF Wanted
<1>12. AtTable(lev2, pre2)'
    BY <1>1, <1>2, <1>3, <1>9, <1>10 DEF AtTable, Mapping, fbMappedPages, fbSize
<1> QED
    BY <1>2, <1>9, <1>11, <1>12 DEF TreeInv

LEMMA LeafStep ==
    ASSUME IInv, StageInv, TreeInv, SetLeaf
    PROVE  TreeInv'
<1>1. /\ Mapping /\ level = 3 /\ TypeOK /\ pml4 # NoRoot
      /\ tables' = [tables EXCEPT ![table][Index(t, 3)] = t]
      /\ level' = 0 /\ table' = pml4
      /\ UNCHANGED <<kpc, pml4, mem_size, machine>>
    BY DEF SetLeaf, vars, IInv, StageInv, Mapping
<1>2. PICK lev, pre : /\ IsTree(tables, pml4, lev, pre)
                      /\ Wanted(lev, pre) /\ AtTable(lev, pre)
    BY <1>1 DEF TreeInv
<1>3. /\ t \in Nat /\ table \in DOMAIN tables /\ lev[table] = 3
      /\ Index(t, 3) \in 0 .. Fan - 1 /\ t = pre[table] * Fan + Index(t, 3)
  <2>1. pre[table] * Fan + Index(t, level) = Shifted(t, 3 - level)
      BY <1>1, <1>2, AtWalk
  <2>2. 3 - level = 0
      BY <1>1
  <2>3. t = pre[table] * Fan + Index(t, 3)
      BY <1>1, <2>1, <2>2, ShiftNone
  <2> QED
      BY <1>1, <1>2, <2>3, AtWalk
<1>4. IsTree(tables', pml4, lev, pre) /\ DOMAIN tables' = DOMAIN tables
  <2> DEFINE i == Index(t, 3)
  <2>1. /\ IsTree(tables, pml4, lev, pre) /\ table \in DOMAIN tables
        /\ lev[table] = 3 /\ i \in 0 .. Fan - 1 /\ t \in Nat
        /\ Leads(pre, table, i, t) /\ Written(tables, tables', table, i, t)
      BY <1>1, <1>2, <1>3 DEF Leads, Written
  <2> HIDE DEF i
  <2> QED
      BY <2>1, LeafTree
<1>5. Wanted(lev, pre)'
    BY <1>1, <1>2, <1>4, MappedSame DEF Wanted
<1>6. AtTable(lev, pre)'
    BY <1>1, <1>4 DEF AtTable, IsTree, Labels
<1> QED
    BY <1>1, <1>4, <1>5, <1>6 DEF TreeInv

LEMMA TreeStep ==
    ASSUME IInv, StageInv, TreeInv, PageInv, KNext
    PROVE  TreeInv'
<1>1. CASE Allocator
  <2>1. UNCHANGED kernelVars
      BY <1>1 DEF Allocator
  <2>2. CASE Boot
    <3>1. kpc = "lockKernel"
        BY <2>2 DEF Boot, _descAddMemSize, readEFIMemoryMap, _descReservePage,
                    MapRead, StageInv
    <3> QED
        BY <2>1, <3>1, TreeFrame DEF StageInv, kernelVars, treeVars
  <2>3. CASE Looping
    <3>1. UNCHANGED mem_size
        BY <2>3, LoopEffect DEF StageInv
    <3> QED
        BY <2>1, <3>1, TreeFrame, MappedSame DEF kernelVars, treeVars
  <2> QED
      BY <1>1, <2>2, <2>3 DEF Allocator
<1>2. CASE Kmain
  <2>1. MappedPages' = MappedPages
      BY <1>2, KmainFrame, MappedSame
  <2>2. CASE LockKernel
      BY <2>1, <2>2, TreeFrame DEF LockKernel, treeVars
  <2>3. CASE LockFramebuffer
    <3>1. ~Mapping
        BY <2>3, MachineFacts DEF LockFramebuffer, Mapping, StageInv, IInv
    <3> QED
        BY <2>1, <2>3, <3>1, TreeFrame DEF LockFramebuffer, treeVars
  <2>4. CASE LoadCR3
      BY <2>1, <2>4, TreeFrame DEF LoadCR3, treeVars
  <2>5. CASE RequestIDT
      BY <2>1, <2>5, TreeFrame DEF RequestIDT, treeVars
  <2>6. CASE RequestFails
      BY <2>1, <2>6, TreeFrame DEF RequestFails, Wild, treeVars
  <2> QED
      BY <1>2, <2>2, <2>3, <2>4, <2>5, <2>6, RootStep, FollowStep, NewStep,
         LeafStep DEF Kmain
<1> QED
    BY <1>1, <1>2 DEF KNext

-----------------------------------------------------------------------------
(* The pages kmain has taken. *)

LEMMA PoolFacts ==
    ASSUME IInv, PageInv
    PROVE  /\ IsFiniteSet(Tracked) /\ Tracked \subseteq Nat
           /\ Clear \subseteq Tracked /\ Taken \subseteq Tracked
           /\ Taken \cap Clear = {}
           /\ KmainPool = Clear \cup Taken
           /\ IsFiniteSet(KmainPool) /\ IsFiniteSet(DOMAIN tables)
<1>1. IsFiniteSet(Tracked) /\ Tracked \subseteq Nat
    BY TrackedInReach, FS_Subset DEF IInv, TypeOK, Tracked
<1>2. Clear \subseteq Tracked /\ Taken \subseteq Tracked
    BY DEF Clear, IInv, TypeOK, PageInv
<1>3. Taken \cap Clear = {}
    BY DEF IInv, HeldExclusively, PageInv
<1>4. KmainPool = Clear \cup Taken
    BY DEF KmainPool, Taken
<1>5. IsFiniteSet(KmainPool) /\ IsFiniteSet(DOMAIN tables)
  <2>1. KmainPool \subseteq Tracked /\ DOMAIN tables \subseteq Tracked
      BY <1>2, <1>4 DEF Taken
  <2> QED
      BY <1>1, <2>1, FS_Subset
<1> QED
    BY <1>1, <1>2, <1>3, <1>4, <1>5

LEMMA KernelPagesNat ==
    ASSUME TypeOK, StageInv
    PROVE  KernelPages \subseteq Nat
<1>1. machine.kernel.first \in Nat /\ machine.kernel.bytes \in Nat
    BY MachineFacts
<1> QED
    BY <1>1, PageBytesAssumption, Division DEF KernelPages, PagesOf

\* A page more.
LEMMA TakeStep ==
    ASSUME IInv, StageInv, PageInv, kpc # "lockKernel", NEW p \in Clear,
           requestPage(p), machine' = machine, Taken' = Taken \cup {p},
           idtr' \notin DOMAIN tables'
    PROVE  PageInv'
<1>1. /\ p \in Nat /\ Clear' = Clear \ {p} /\ held' = held \cup {p}
      /\ \A c \in Clear : p <= c /\ c \in Nat
      /\ ~Busy
    BY RequestEffect DEF IInv
<1>2. KernelPages' = KernelPages /\ \A q \in KernelPages : q \notin Clear
    BY <1>1 DEF KernelPages, PageInv, Coming
<1>3. Taken' \subseteq held' /\ Taken' \cap KernelPages' = {}
    BY <1>1, <1>2 DEF PageInv
<1>4. \A q \in Taken', c \in Clear' : q < c
    BY <1>1 DEF PageInv
<1> QED
    BY <1>1, <1>2, <1>3, <1>4 DEF PageInv

\* No page more.
LEMMA KeepStep ==
    ASSUME IInv, StageInv, PageInv, UNCHANGED <<machine, held, idtr>>,
           DOMAIN tables' = DOMAIN tables, Clear' \subseteq Clear,
           kpc # "lockKernel" \/ kpc' = "lockKernel",
           \A p \in Nat : Coming("lock", p) => p \notin Clear' \/ Coming("lock", p)'
    PROVE  PageInv'
<1>1. Taken' = Taken /\ KernelPages' = KernelPages
    BY DEF Taken, KernelPages
<1>2. KernelPages \subseteq Nat
    BY KernelPagesNat DEF IInv
<1> QED
    BY <1>1, <1>2 DEF PageInv

LEMMA LockKernelStep ==
    ASSUME IInv, StageInv, TreeInv, PageInv, LockKernel
    PROVE  PageInv'
<1>1. /\ UNCHANGED <<machine, held, idtr, tables, size, bits>>
      /\ loop' = Walk("lock", machine.kernel.first, kernel_pages)
      /\ Taken = {} /\ idtr = NoRoot /\ DOMAIN tables = {}
    BY DEF LockKernel, lockPages, Taken, StageInv, TreeInv
<1>2. /\ Taken' = {} /\ Clear' = Clear /\ KernelPages' = KernelPages
      /\ idtr' \notin DOMAIN tables'
    BY <1>1 DEF Taken, Clear, Tracked, KernelPages
<1>3. ASSUME NEW p \in KernelPages
      PROVE  Coming("lock", p)'
  <2>1. /\ machine.kernel.first \in Nat /\ machine.kernel.bytes \in Nat
        /\ kernel_pages \in Nat /\ PageBytes \in Nat \ {0}
      BY MachineFacts, PageBytesAssumption DEF IInv
  <2> DEFINE first == machine.kernel.first
             bytes == machine.kernel.bytes
  <2>2. PICK b \in 0 .. bytes - 1 : p = first + (b \div PageBytes)
      BY DEF KernelPages, PagesOf
  <2>3. /\ b \div PageBytes \in Nat /\ bytes \div PageBytes \in Nat
        /\ b \div PageBytes <= bytes \div PageBytes
      BY <2>1, Division, QuotientOrder
  <2>4. kernel_pages = (bytes \div PageBytes) + 1
      BY DEF kernel_pages
  <2>5. loop' = [op |-> "lock", next |-> first, end |-> first + kernel_pages]
      BY <1>1 DEF Walk
  <2> HIDE DEF first, bytes
  <2>6. first \in Nat
      BY <2>1 DEF first
  <2> QED
      BY <2>1, <2>2, <2>3, <2>4, <2>5, <2>6 DEF Coming, Busy
<1> QED
    BY <1>1, <1>2, <1>3 DEF PageInv

LEMMA PageStep ==
    ASSUME IInv, StageInv, TreeInv, PageInv, KNext
    PROVE  PageInv'
<1>1. CASE Allocator
  <2>1. UNCHANGED kernelVars
      BY <1>1 DEF Allocator
  <2>2. CASE Boot
    <3>1. kpc = "lockKernel" /\ idtr = NoRoot /\ DOMAIN tables = {}
        BY <2>2 DEF Boot, _descAddMemSize, readEFIMemoryMap, _descReservePage,
                    MapRead, StageInv, TreeInv
    <3>2. Taken' = {} /\ kpc' = "lockKernel" /\ idtr' \notin DOMAIN tables'
        BY <2>1, <3>1 DEF kernelVars, Taken
    <3> QED
        BY <3>2 DEF PageInv
  <2>3. CASE Looping
    <3>1. Clear' \subseteq Clear /\ held' = held
          /\ \A p \in Nat : Coming("lock", p) => p \notin Clear' \/ Coming("lock", p)'
        BY <2>3, LoopEffect DEF StageInv
    <3> QED
        BY <2>1, <3>1, KeepStep DEF kernelVars
  <2> QED
      BY <1>1, <2>2, <2>3 DEF Allocator
<1>2. CASE RequestPML4
  <2>1. PICK p \in Clear : requestPage(p) /\ tables' = Zeroed(p) /\ pml4' = p
      BY <1>2 DEF RequestPML4
  <2>2. /\ kpc = "pml4" /\ machine' = machine /\ idtr' = NoRoot
        /\ idtr = NoRoot /\ p \in Nat
      BY <1>2, <2>1, RequestEffect DEF RequestPML4, StageInv, IInv
  <2>3. DOMAIN tables' = DOMAIN tables \cup {p} /\ DOMAIN tables \subseteq Nat
      BY <2>1, PoolFacts DEF Zeroed, Taken
  <2> QED
      BY <2>1, <2>2, <2>3, TakeStep DEF Taken, NoRoot
<1>3. CASE NewTable
  <2>1. PICK p \in Clear :
          /\ requestPage(p)
          /\ tables' = [Zeroed(p) EXCEPT ![table][Index(t, level)] = p]
      BY <1>3 DEF NewTable
  <2>2. /\ kpc \in {"mapMemory", "mapFb"} /\ machine' = machine
        /\ idtr' = NoRoot /\ idtr = NoRoot /\ p \in Nat
      BY <1>3, <2>1, RequestEffect DEF NewTable, Mapping, StageInv, IInv
  <2>3. DOMAIN tables' = DOMAIN tables \cup {p} /\ DOMAIN tables \subseteq Nat
      BY <2>1, PoolFacts DEF Zeroed, Taken
  <2> QED
      BY <2>1, <2>2, <2>3, TakeStep DEF Taken, NoRoot
<1>4. CASE RequestIDT
  <2>1. PICK p \in Clear : requestPage(p) /\ idtr' = p
      BY <1>4 DEF RequestIDT
  <2>2. /\ kpc = "idt" /\ machine' = machine /\ tables' = tables
        /\ idtr = NoRoot /\ p \in Nat /\ p # NoRoot
      BY <1>4, <2>1, RequestEffect DEF RequestIDT, StageInv, IInv, NoRoot
  <2>3. p \notin DOMAIN tables
      BY PoolFacts DEF Taken
  <2> QED
      BY <2>1, <2>2, <2>3, TakeStep DEF Taken
<1>5. CASE FollowEntry \/ SetLeaf \/ LockFramebuffer \/ LoadCR3 \/ RequestFails
  <2>1. /\ kpc # "lockKernel" /\ ~Busy
        /\ UNCHANGED <<machine, held, idtr, size, bits>>
      BY <1>5, KmainFrame
         DEF FollowEntry, SetLeaf, LockFramebuffer, lockPages, LoadCR3,
             RequestFails, Wild, Mapping, vars, Kmain
  <2>2. DOMAIN tables' = DOMAIN tables /\ Clear' = Clear
      BY <1>5, <2>1
         DEF FollowEntry, SetLeaf, LockFramebuffer, LoadCR3, RequestFails, Wild,
             Clear, Tracked
  <2> QED
      BY <2>1, <2>2, KeepStep DEF Coming
<1> QED
    BY <1>1, <1>2, <1>3, <1>4, <1>5, LockKernelStep DEF KNext, Kmain

-----------------------------------------------------------------------------
(* What is mapped already. *)

\* Steps that leave the tables as they are, and count no page as mapped that
\* was not before.
LEMMA DoneFrame ==
    ASSUME DoneInv, UNCHANGED <<tables, pml4>>, MappedPages' = MappedPages,
           kpc' \in {"mapMemory", "mapFb"} \/ cr3' # NoRoot =>
              /\ kpc \in {"mapMemory", "mapFb"} \/ cr3 # NoRoot
              /\ \A v \in MappedPages : Done(v)' => Done(v)
    PROVE  DoneInv'
<1>1. \A v : Translate(v)' = Translate(v)
    BY DEF Translate, Lookup
<1> QED
    BY <1>1 DEF DoneInv

\* What the tables map stays mapped while they grow.
LEMMA DoneGrows ==
    ASSUME IInv, StageInv, TreeInv, Mapping, Grows(tables, tables'), pml4' = pml4,
           NEW v \in MappedPages, Translate(v) = v
    PROVE  Translate(v)' = v
<1>1. pml4 # NoRoot /\ phase = "ready"
    BY DEF Mapping, StageInv
<1>2. NotPresent \notin DOMAIN tables
    BY <1>1 DEF TreeInv, IsTree, Labels, NotPresent
<1>3. v \in Nat
    BY <1>1, MappedInReach DEF IInv
<1>4. Hops(tables, pml4, v, 4) = v /\ v # NotPresent
    BY <1>3, TranslateHops DEF NotPresent
<1>5. Hops(tables', pml4, v, 4) = v
    BY <1>2, <1>3, <1>4, GrowingWalk
<1>6. Translate(v)' = Hops(tables', pml4', v, 4)
    BY DEF Translate, Lookup, Hops, Hop, Index
<1> QED
    BY <1>5, <1>6

LEMMA DoneNew ==
    ASSUME IInv, StageInv, TreeInv, PageInv, DoneInv, NewTable
    PROVE  DoneInv'
<1>1. /\ Mapping /\ kpc \in {"mapMemory", "mapFb"} /\ pml4 # NoRoot
      /\ UNCHANGED <<kpc, t, pml4, cr3, machine, mem_size>>
  <2>1. UNCHANGED mem_size
      BY DEF NewTable, requestPage
  <2> QED
      BY <2>1 DEF NewTable, Mapping, StageInv
<1>2. Grows(tables, tables')
  <2>1. PICK p \in Clear : 
             tables' = [Zeroed(p) EXCEPT ![table][Index(t, level)] = p]
      BY DEF NewTable
  <2>2. p \notin DOMAIN tables
      BY PoolFacts DEF Taken
  <2>3. PICK lev, pre : IsTree(tables, pml4, lev, pre) /\ AtTable(lev, pre)
      BY <1>1 DEF TreeInv
  <2>4. table \in DOMAIN tables /\ Index(t, level) \in 0 .. Fan - 1
      BY <1>1, <2>3, AtWalk DEF IInv
  <2>5. tables[table][Index(t, level)] = NotPresent
      BY DEF NewTable, Entry
  <2> DEFINE i == Index(t, level)
             new == [tables[table] EXCEPT ![i] = p]
  <2>6. /\ DOMAIN tables' = DOMAIN tables \cup {p}
        /\ \A f \in DOMAIN tables :
             tables'[f] = IF f = table THEN new ELSE tables[f]
      BY <2>1, <2>2, <2>4 DEF Zeroed
  <2>7. \A j \in 0 .. Fan - 1 : tables[table][j] # NotPresent =>
                                   new[j] = tables[table][j]
    <3>1. tables[table] \in [0 .. Fan - 1 -> Nat \cup {NotPresent}]
        BY <2>3, <2>4 DEF IsTree, Labels
    <3> HIDE DEF i
    <3> QED
        BY <2>5, <3>1 DEF i
  <2> HIDE DEF new
  <2> QED
      BY <2>6, <2>7 DEF Grows
<1>3. MappedPages' = MappedPages
    BY <1>1, MappedSame
<1>4. ASSUME NEW v \in MappedPages, Done(v)'
      PROVE  Translate(v)' = v
  <2>1. Done(v)
      BY <1>1, <1>4 DEF Done
  <2>2. Translate(v) = v
      BY <1>1, <2>1 DEF DoneInv
  <2> QED
      BY <1>1, <1>2, <2>2, DoneGrows
<1> QED
    BY <1>3, <1>4 DEF DoneInv

LEMMA DoneLeaf ==
    ASSUME IInv, StageInv, TreeInv, DoneInv, SetLeaf
    PROVE  DoneInv'
<1>1. /\ Mapping /\ level = 3 /\ kpc \in {"mapMemory", "mapFb"} /\ pml4 # NoRoot
      /\ tables' = [tables EXCEPT ![table][Index(t, 3)] = t]
      /\ t' = t + 1 /\ TypeOK
      /\ UNCHANGED <<kpc, pml4, cr3, machine, mem_size>>
    BY DEF SetLeaf, vars, IInv, Mapping, StageInv
<1>2. PICK lev, pre : IsTree(tables, pml4, lev, pre) /\ AtTable(lev, pre)
    BY <1>1 DEF TreeInv
<1> DEFINE i == Index(t, 3)
<1>3. /\ t \in Nat /\ t \in VirtualPages /\ phase = "ready"
      /\ table \in DOMAIN tables /\ lev[table] = 3 /\ i \in 0 .. Fan - 1
      /\ pre[table] = Shifted(t, 4 - lev[table])
      /\ pre[table] * Fan + i = t
  <2>1. /\ pre[table] * Fan + Index(t, level) = Shifted(t, 3 - level)
        /\ pre[table] = Shifted(t, 4 - level) /\ lev[table] = level
      BY <1>1, <1>2, AtWalk
  <2>2. 3 - level = 0
      BY <1>1
  <2>3. pre[table] * Fan + i = t
      BY <1>1, <2>1, <2>2, ShiftNone
  <2> QED
      BY <1>1, <1>2, <2>1, <2>3, AtWalk
<1>4. /\ IsTree(tables', pml4, lev, pre) /\ DOMAIN tables' = DOMAIN tables
      /\ Grows(tables, tables') /\ tables'[table][i] = t
  <2>1. Leads(pre, table, i, t) /\ Written(tables, tables', table, i, t)
      BY <1>1, <1>3 DEF Leads, Written
  <2> HIDE DEF i
  <2> QED
      BY <1>2, <1>3, <2>1, LeafTree
<1>5. ASSUME NEW v \in MappedPages, Done(v)'
      PROVE  Translate(v)' = v
  <2>1. CASE v = t
    <3>1. Hops(tables', pml4, v, lev[table]) = table
        BY <1>3, <1>4, <2>1, OnWalk
    <3>2. Hops(tables', pml4, v, 3) = table
        BY <1>3, <3>1
    <3>3. Hops(tables', pml4, v, 3 + 1)
            = Hop(tables', Hops(tables', pml4, v, 3), v, 3)
        BY HopsNext
    <3>4. Hop(tables', table, v, 3) = v
        BY <1>3, <1>4, <2>1 DEF Hop
    <3>5. Translate(v)' = Hops(tables', pml4', v, 4)
        BY DEF Translate, Lookup, Hops, Hop, Index
    <3> QED
        BY <1>1, <3>2, <3>3, <3>4, <3>5
  <2>2. CASE v # t
    <3>1. v \in Nat
        BY <1>1, <1>3, MappedInReach
    <3>2. Done(v)
        BY <1>1, <1>3, <1>5, <2>2, <3>1 DEF Done
    <3>3. Translate(v) = v
        BY <1>1, <3>2 DEF DoneInv
    <3> QED
        BY <1>1, <1>4, <3>3, DoneGrows
  <2> QED
      BY <2>1, <2>2
<1>6. MappedPages' = MappedPages
    BY <1>1, MappedSame
<1> QED
    BY <1>5, <1>6 DEF DoneInv

LEMMA DoneStep ==
    ASSUME IInv, StageInv, TreeInv, PageInv, DoneInv, KNext
    PROVE  DoneInv'
<1>1. CASE Allocator
  <2>1. UNCHANGED kernelVars
      BY <1>1 DEF Allocator
  <2>2. CASE Boot
    <3>1. kpc = "lockKernel" /\ cr3 = NoRoot
        BY <2>2 DEF Boot, _descAddMemSize, readEFIMemoryMap, _descReservePage,
                    MapRead, StageInv
    <3> QED
        BY <2>1, <3>1 DEF kernelVars, DoneInv
  <2>3. CASE Looping
    <3>1. UNCHANGED mem_size
        BY <2>3, LoopEffect DEF StageInv
    <3> QED
        BY <2>1, <3>1, DoneFrame, MappedSame DEF kernelVars, Done
  <2> QED
      BY <1>1, <2>2, <2>3 DEF Allocator
<1>2. CASE Kmain
  <2>1. MappedPages' = MappedPages /\ mem_size' = mem_size /\ phase = "ready"
      BY <1>2, KmainFrame, MappedSame
  <2>2. CASE LockKernel
      BY <2>2 DEF LockKernel, StageInv, DoneInv
  <2>3. CASE RequestPML4
    <3>1. /\ kpc' = "mapMemory" /\ t' = 0
        BY <2>3 DEF RequestPML4
    <3>2. \A v \in MappedPages : v \in Nat
        BY <2>1, MappedInReach DEF IInv
    <3> QED
        BY <2>1, <3>1, <3>2 DEF DoneInv, Done
  <2>4. CASE FollowEntry
      BY <2>1, <2>4, DoneFrame DEF FollowEntry, Done
  <2>5. CASE LockFramebuffer
    <3>1. /\ kpc = "mapMemory" /\ t >= mem_size /\ kpc' = "mapFb"
          /\ t' = machine.fb.first /\ UNCHANGED <<tables, pml4, cr3>>
        BY <2>5 DEF LockFramebuffer
    <3>2. /\ mem_size \in Nat /\ machine.fb.first \in Nat /\ fbMappedPages \in Nat
          /\ t \in Nat
        BY MachineFacts DEF IInv, StageInv
    <3>3. \A v \in MappedPages : v \in Nat /\ (v < mem_size \/ v >= machine.fb.first)
        BY <3>2 DEF MappedPages, Pages
    <3>4. \A v \in MappedPages : Done(v)' => Done(v)
        BY <2>1, <3>1, <3>2, <3>3 DEF Done
    <3> QED
        BY <2>1, <3>1, <3>4, DoneFrame
  <2>6. CASE LoadCR3
    <3>1. /\ kpc = "mapFb" /\ ~Mapping /\ UNCHANGED <<tables, pml4>>
        BY <2>6 DEF LoadCR3
    <3>2. /\ mem_size \in Nat /\ machine.fb.first \in Nat /\ fbMappedPages \in Nat
          /\ t \in Nat
        BY MachineFacts DEF IInv, StageInv
    <3>3. \A v \in MappedPages : v \in Nat /\ (v < mem_size \/ v < t)
        BY <3>1, <3>2 DEF MappedPages, Pages, Mapping
    <3>4. \A v \in MappedPages : Done(v)
        BY <3>1, <3>3 DEF Done
    <3> QED
        BY <2>1, <3>1, <3>4, DoneFrame
  <2>7. CASE RequestIDT
      BY <2>1, <2>7, DoneFrame DEF RequestIDT, Done
  <2>8. CASE RequestFails
    <3>1. kpc' = "wild" /\ UNCHANGED <<tables, pml4, cr3>>
        BY <2>8 DEF RequestFails, Wild
    <3>2. cr3 # NoRoot => kpc \in {"idt", "main", "wild"}
        BY DEF StageInv
    <3> QED
        BY <2>1, <3>1, <3>2, DoneFrame DEF Done
  <2> QED
      BY <1>2, <2>2, <2>3, <2>4, <2>5, <2>6, <2>7, <2>8, DoneNew, DoneLeaf
         DEF Kmain
<1> QED
    BY <1>1, <1>2 DEF KNext

-----------------------------------------------------------------------------
(* When memory runs out. *)

LEMMA FullStep ==
    ASSUME IInv, StageInv, TreeInv, PageInv, FullInv, KNext
    PROVE  FullInv'
<1>1. CASE Allocator
  <2>1. UNCHANGED kernelVars
      BY <1>1 DEF Allocator
  <2>2. CASE Boot
    <3>1. kpc = "lockKernel"
        BY <2>2 DEF Boot, _descAddMemSize, readEFIMemoryMap, _descReservePage,
                    MapRead, StageInv
    <3> QED
        BY <2>1, <3>1 DEF kernelVars, FullInv
  <2>3. CASE Looping
    <3> SUFFICES ASSUME kpc = "wild"
                 PROVE  FullInv'
        BY <2>1 DEF FullInv, kernelVars
    <3>1. UNCHANGED mem_size /\ Clear' \subseteq Clear /\ phase = "ready"
        BY <2>3, LoopEffect DEF StageInv
    <3>2. MappedPages' = MappedPages
        BY <2>1, <3>1, MappedSame DEF kernelVars
    <3>3. TableBudget' = TableBudget
        BY <3>2 DEF TableBudget
    <3>4. KmainPool' \subseteq KmainPool /\ IsFiniteSet(KmainPool)
        BY <2>1, <3>1, PoolFacts DEF KmainPool, kernelVars
    <3>5. /\ Cardinality(KmainPool') <= Cardinality(KmainPool)
          /\ Cardinality(KmainPool) \in Nat /\ Cardinality(KmainPool') \in Nat
        BY <3>4, FS_Subset, FS_CardinalityType
    <3>6. TableBudget \in Nat
        BY <3>1, MappedInReach, PrefixesFinite DEF IInv
    <3> QED
        BY <3>3, <3>5, <3>6 DEF FullInv
  <2> QED
      BY <1>1, <2>2, <2>3 DEF Allocator
<1>2. CASE RequestFails
  <2>1. /\ kpc \in {"pml4", "mapMemory", "mapFb", "idt"} /\ Clear = {}
        /\ UNCHANGED <<vars, machine, tables, idtr>>
      BY <1>2 DEF RequestFails, Wild, Mapping
  <2>2. /\ idtr = NoRoot /\ phase = "ready" /\ IsFiniteSet(MappedPages)
      BY <2>1, MappedInReach DEF StageInv, IInv
  <2>3. KmainPool' = DOMAIN tables
      BY <2>1, <2>2 DEF KmainPool, Clear, Tracked, vars
  <2>4. TableBudget' = TableBudget
    <3>1. MappedPages' = MappedPages
        BY <2>1, MappedSame DEF vars
    <3> QED
        BY <3>1 DEF TableBudget
  <2>5. TableBudget \in Nat
      BY <2>2, PrefixesFinite
  <2>6. CASE pml4 = NoRoot
    <3>1. Cardinality(DOMAIN tables) = 0
        BY <2>6, FS_EmptySet DEF TreeInv
    <3> QED
        BY <2>3, <2>4, <2>5, <3>1 DEF FullInv
  <2>7. CASE pml4 # NoRoot
    <3>1. PICK lev, pre : IsTree(tables, pml4, lev, pre) /\ Wanted(lev, pre)
        BY <2>7 DEF TreeInv
    <3>2. /\ Cardinality(DOMAIN tables) \in Nat
          /\ Cardinality(DOMAIN tables) <= TableBudget
        BY <2>2, <3>1, PoolFacts, WithinBudget
    <3> QED
        BY <2>3, <2>4, <2>5, <3>2 DEF FullInv
  <2> QED
      BY <2>6, <2>7
<1>3. CASE Kmain /\ ~RequestFails
  <2>1. kpc' # "wild"
      BY <1>3 DEF Kmain, LockKernel, RequestPML4, FollowEntry, NewTable, SetLeaf,
                  LockFramebuffer, LoadCR3, RequestIDT, Mapping
  <2> QED
      BY <2>1 DEF FullInv
<1> QED
    BY <1>1, <1>2, <1>3 DEF KNext

-----------------------------------------------------------------------------
(* The invariant of the boot. *)

BootInv == IInv /\ StageInv /\ TreeInv /\ PageInv /\ DoneInv /\ FullInv

LEMMA BootInvInit == KInit => BootInv
<1> SUFFICES ASSUME KInit PROVE BootInv
    OBVIOUS
<1>1. IInv
    BY InitInvariant DEF KInit
<1>2. StageInv
  <2>1. Len(mmap) \in Nat
      BY <1>1, MapType DEF IInv
  <2>2. Measured(mmap)[0] = 0
      BY <2>1, MeasuredSteps
  <2> QED
      BY <2>2 DEF KInit, Init, StageInv, Busy, Idle, NoRoot
<1>3. TreeInv /\ PageInv /\ DoneInv /\ FullInv
    BY DEF KInit, TreeInv, PageInv, DoneInv, FullInv, Taken
<1> QED
    BY <1>1, <1>2, <1>3 DEF BootInv

LEMMA BootInvFrame ==
    ASSUME BootInv, UNCHANGED kvars
    PROVE  (StageInv /\ TreeInv /\ PageInv /\ DoneInv /\ FullInv)'
    BY DEF kvars, vars, kernelVars, BootInv, StageInv, TreeInv, PageInv, DoneInv,
           FullInv, Done, Taken, Wanted, AtTable, MappedPages, fbMappedPages,
           fbSize, Mapping, KernelPages, Clear, Tracked, Coming, Busy, Translate,
           Lookup, TableBudget, KmainPool

THEOREM BootInvariant == KSpec => []BootInv
<1>1. KInit => BootInv
    BY BootInvInit
<1>2. BootInv /\ IInv' /\ [KNext]_kvars => BootInv'
  <2> SUFFICES ASSUME BootInv, IInv', [KNext]_kvars
               PROVE  BootInv'
      OBVIOUS
  <2>1. CASE KNext
    <3>1. StageInv'
        BY <2>1, BootStage, LoopStage, KmainStage DEF BootInv, KNext, Allocator
    <3> QED
        BY <2>1, <3>1, TreeStep, PageStep, DoneStep, FullStep DEF BootInv
  <2>2. CASE UNCHANGED kvars
      BY <2>2, BootInvFrame DEF BootInv
  <2> QED
      BY <2>1, <2>2
<1> QED
    BY <1>1, <1>2, AllocatorInBoot, Invariance, PTL DEF KSpec

-----------------------------------------------------------------------------
(* What boot achieves. *)

\* The frame buffer's pages are among those the mapping loop maps.
LEMMA FbPagesMapped ==
    ASSUME TypeOK, StageInv
    PROVE  FbPages \subseteq Pages(machine.fb.first, fbMappedPages)
<1> DEFINE first == machine.fb.first
           bytes == machine.fb.bytes
           B     == PageBytes
           n     == fbMappedPages
<1>1. first \in Nat /\ bytes \in Nat /\ n \in Nat /\ B \in Nat \ {0}
    BY MachineFacts, MachinesAssumption, PageBytesAssumption DEF StageInv
<1>2. n = (bytes + B + B - 1) \div B
    BY DEF fbMappedPages, fbSize
<1> SUFFICES ASSUME NEW b \in 0 .. bytes - 1
             PROVE  first + (b \div B) \in first .. first + n - 1
    BY DEF FbPages, PagesOf, Pages
<1> DEFINE q == b \div B
           a == bytes + B + B - 1
<1> HIDE DEF first, bytes, B, n
<1>3. q \in Nat /\ q * B <= b
    BY <1>1, Division
<1>4. a \in Nat /\ b + B < a
    BY <1>1
<1>5. a < n * B + B
    BY <1>1, <1>2, <1>4, Division
<1>6. q < n
  <2> HIDE DEF q, a
  <2> SUFFICES ASSUME n <= q PROVE FALSE
      BY <1>1, <1>3
  <2>1. n * B <= q * B /\ n * B \in Nat /\ q * B \in Nat
      BY <1>1, <1>3, ProductOrder
  <2> QED
      BY <1>1, <1>3, <1>4, <1>5, <2>1
<1> HIDE DEF q
<1>7. first + q \in first .. first + n - 1
    BY <1>1, <1>3, <1>6
<1> QED
    BY <1>7 DEF q

\* Each table on the way to a page that is mapped has its level and prefix.
LEMMA TablesOfWalk ==
    ASSUME NEW lev, NEW pre, IsTree(tables, pml4, lev, pre),
           NEW v \in VirtualPages, Translate(v) = v, NEW k \in 1 .. 3
    PROVE  \E f \in DOMAIN tables : lev[f] = 4 - k /\ pre[f] = Shifted(v, k)
<1> DEFINE H(l) == Hops(tables, pml4, v, l)
<1>1. H(4) # NotPresent
  <2>1. v # NotPresent
      BY ShiftAll DEF NotPresent
  <2> QED
      BY <2>1, TranslateHops
<1>2. \A l \in 0 .. 3 : H(l + 1) # NotPresent => H(l) # NotPresent
    BY WalkTree
<1>3. \A l \in 0 .. 3 : H(l) # NotPresent =>
         H(l) \in DOMAIN tables /\ lev[H(l)] = l /\ pre[H(l)] = Shifted(v, 4 - l)
    BY WalkTree
<1> HIDE DEF H
<1>4. H(3) # NotPresent
    BY <1>1, <1>2
<1>5. H(2) # NotPresent
    BY <1>2, <1>4
<1>6. H(1) # NotPresent
    BY <1>2, <1>5
<1> DEFINE l == 4 - k
<1>7. l \in 1 .. 3 /\ 4 - l = k
    OBVIOUS
<1> HIDE DEF l
<1>8. H(l) \in DOMAIN tables /\ lev[H(l)] = l /\ pre[H(l)] = Shifted(v, 4 - l)
  <2>1. H(l) # NotPresent
      BY <1>4, <1>5, <1>6, <1>7
  <2>2. l \in 0 .. 3
      BY <1>7
  <2> QED
      BY <1>3, <2>1, <2>2
<1>9. pre[H(l)] = Shifted(v, k)
    BY <1>7, <1>8
<1> QED
    BY <1>8, <1>9 DEF l

\* Once the processor uses the tables, each page to be mapped is mapped.
LEMMA AllMapped ==
    ASSUME BootInv, cr3 # NoRoot
    PROVE  /\ phase = "ready" /\ pml4 # NoRoot
           /\ \A v \in MappedPages : v \in VirtualPages /\ Translate(v) = v
<1>1. kpc \in {"idt", "main", "wild"} /\ phase = "ready" /\ pml4 # NoRoot
    BY DEF BootInv, StageInv
<1>2. \A v \in MappedPages : v \in VirtualPages /\ Translate(v) = v
    BY <1>1, MappedInReach DEF BootInv, IInv, DoneInv, Done
<1> QED
    BY <1>1, <1>2

\* kmain has taken at most a page for each table and one for the IDT.
LEMMA TakenWithinBudget ==
    ASSUME BootInv, Taken # {}
    PROVE  /\ IsFiniteSet(Taken) /\ Cardinality(Taken) \in Nat
           /\ Cardinality(Taken) <= TableBudget + 1 /\ TableBudget \in Nat
<1> USE DEF BootInv
<1>1. pml4 # NoRoot /\ phase = "ready"
    BY DEF Taken, StageInv, TreeInv
<1>2. IsFiniteSet(MappedPages) /\ IsFiniteSet(DOMAIN tables)
    BY <1>1, MappedInReach, PoolFacts DEF IInv
<1>3. PICK lev, pre : IsTree(tables, pml4, lev, pre) /\ Wanted(lev, pre)
    BY <1>1 DEF TreeInv
<1>4. /\ Cardinality(DOMAIN tables) \in Nat /\ TableBudget \in Nat
      /\ Cardinality(DOMAIN tables) <= TableBudget
    BY <1>2, <1>3, WithinBudget
<1>5. /\ IsFiniteSet(DOMAIN tables \cup {idtr})
      /\ Cardinality(DOMAIN tables \cup {idtr}) <= Cardinality(DOMAIN tables) + 1
      /\ Cardinality(DOMAIN tables \cup {idtr}) \in Nat
  <2>1. CASE idtr \in DOMAIN tables
    <3>1. DOMAIN tables \cup {idtr} = DOMAIN tables
        BY <2>1
    <3> QED
        BY <1>2, <1>4, <3>1
  <2>2. CASE idtr \notin DOMAIN tables
    <3>1. /\ IsFiniteSet(DOMAIN tables \cup {idtr})
          /\ Cardinality(DOMAIN tables \cup {idtr}) = Cardinality(DOMAIN tables) + 1
        BY <1>2, <2>2, FS_AddElement
    <3> QED
        BY <1>4, <3>1
  <2> QED
      BY <2>1, <2>2
<1>6. Taken \subseteq DOMAIN tables \cup {idtr}
    BY DEF Taken
<1>7. /\ IsFiniteSet(Taken) /\ Cardinality(Taken) \in Nat
      /\ Cardinality(Taken) <= Cardinality(DOMAIN tables \cup {idtr})
    BY <1>5, <1>6, FS_Subset, FS_CardinalityType
<1> QED
    BY <1>4, <1>5, <1>7

\* First fit takes no page above a bound while those below it suffice: the pages
\* below the bound would all be taken, and the page above it be one too many.
LEMMA FirstFit ==
    ASSUME BootInv, NEW bound \in Nat, EnoughBelow(bound), NEW p \in Taken
    PROVE  p \in Nat /\ p < bound
<1> DEFINE low == {q \in KmainPool : q < bound}
           rest == Taken \ {p}
<1>1. Taken \subseteq Nat /\ KmainPool = Clear \cup Taken
    BY PoolFacts DEF BootInv
<1> SUFFICES ASSUME bound <= p
             PROVE  FALSE
    BY <1>1
<1>2. \A q \in low : q \in rest
  <2>1. \A c \in Clear : p < c /\ c \in Nat
      BY PoolFacts DEF BootInv, PageInv
  <2> QED
      BY <1>1, <2>1
<1>3. /\ IsFiniteSet(Taken) /\ Cardinality(Taken) \in Nat
      /\ Cardinality(Taken) <= TableBudget + 1 /\ TableBudget \in Nat
    BY TakenWithinBudget
<1>4. Cardinality(low) >= TableBudget + 1
    BY DEF EnoughBelow
<1>5. IsFiniteSet(rest) /\ Cardinality(rest) = Cardinality(Taken) - 1
    BY <1>3, FS_RemoveElement
<1> HIDE DEF low, rest
<1>6. low \subseteq rest
    BY <1>2
<1>7. Cardinality(low) <= Cardinality(rest) /\ Cardinality(low) \in Nat
    BY <1>5, <1>6, FS_Subset, FS_CardinalityType
<1> QED
    BY <1>3, <1>4, <1>5, <1>7

\* No step of the construction maps a page anywhere but to itself, and when the
\* tables come into use they map all the measured memory and the screen.
THEOREM MappingCorrect == KSpec => []MappingInv
<1>1. ASSUME BootInv
      PROVE  KTypeOK
  <2>1. \A f \in DOMAIN tables : tables[f] \in [0 .. Fan - 1 -> Nat \cup {NotPresent}]
      BY <1>1 DEF BootInv, TreeInv, IsTree, Labels
  <2> QED
      BY <1>1, <2>1 DEF BootInv, IInv, StageInv, KTypeOK
<1>2. ASSUME BootInv
      PROVE  OnlyIdentity
  <2> SUFFICES ASSUME NEW v \in VirtualPages
               PROVE  Translate(v) \in {v, NotPresent}
      BY DEF OnlyIdentity
  <2>1. CASE pml4 = NoRoot
    <3>1. DOMAIN tables = {}
        BY <1>2, <2>1 DEF BootInv, TreeInv
    <3> QED
        BY <3>1 DEF Translate, Lookup
  <2>2. CASE pml4 # NoRoot
    <3>1. PICK lev, pre : IsTree(tables, pml4, lev, pre)
        BY <1>2, <2>2 DEF BootInv, TreeInv
    <3> QED
        BY <3>1, WalkTree, TranslateHops
  <2> QED
      BY <2>1, <2>2
<1>3. ASSUME BootInv
      PROVE  IdentityMapped
  <2>1. (0 .. mem_size - 1) \cup FbPages \subseteq MappedPages
      BY <1>3, FbPagesMapped DEF BootInv, IInv, MappedPages
  <2> QED
      BY <1>3, <2>1, AllMapped DEF IdentityMapped
<1>4. BootInv => MappingInv
    BY <1>1, <1>2, <1>3 DEF MappingInv
<1> QED
    BY <1>4, BootInvariant, PTL

\* The page tables form a tree of pages nothing else uses, off the screen too
\* if the pages below it suffice.
THEOREM TablesAreSafe == KSpec => []TablesSafe
<1>1. ASSUME BootInv
      PROVE  TablesExclusive
  <2>1. Taken \cap (Pinned \cup KernelPages) = {} /\ idtr \notin DOMAIN tables
      BY <1>1 DEF BootInv, PageInv, IInv, HeldExclusively
  <2>2. ASSUME pml4 # NoRoot
        PROVE  /\ {Lookup(e[1], e[2]) : e \in Links} = DOMAIN tables \ {pml4}
               /\ Cardinality(Links) = Cardinality(DOMAIN tables) - 1
    <3>1. PICK lev, pre : IsTree(tables, pml4, lev, pre)
        BY <1>1, <2>2 DEF BootInv, TreeInv
    <3>2. IsFiniteSet(DOMAIN tables)
        BY <1>1, PoolFacts DEF BootInv
    <3> QED
        BY <3>1, <3>2, LinksOfTree
  <2> QED
      BY <2>1, <2>2 DEF TablesExclusive, Taken
<1>2. ASSUME BootInv
      PROVE  FramebufferNotATable
  <2> SUFFICES ASSUME EnoughBelow(machine.fb.first),
                      NEW p \in FbPages, p \in DOMAIN tables \cup {idtr}
               PROVE  FALSE
      BY DEF FramebufferNotATable
  <2>1. machine.fb.first \in Nat /\ fbMappedPages \in Nat
      BY <1>2, MachineFacts DEF BootInv, IInv
  <2>2. p \in Nat /\ p >= machine.fb.first
      BY <1>2, <2>1, FbPagesMapped DEF BootInv, IInv, Pages
  <2>3. p \in Taken
      BY <2>2 DEF Taken, NoRoot
  <2>4. p < machine.fb.first
      BY <1>2, <2>1, <2>3, FirstFit
  <2> QED
      BY <2>1, <2>2, <2>4
<1>3. BootInv => TablesSafe
    BY <1>1, <1>2 DEF TablesSafe
<1> QED
    BY <1>3, BootInvariant, PTL

\* No table is made twice: kmain runs out of pages only when there were too few
\* for one of each, and ends with exactly one of each.
THEOREM MappingIsFrugal == KSpec => []NeverOutOfPages
<1>1. ASSUME BootInv, cr3 # NoRoot
      PROVE  Cardinality(DOMAIN tables) = TableBudget
  <2>1. /\ phase = "ready" /\ pml4 # NoRoot
        /\ \A v \in MappedPages : v \in VirtualPages /\ Translate(v) = v
      BY <1>1, AllMapped
  <2>2. PICK lev, pre : IsTree(tables, pml4, lev, pre) /\ Wanted(lev, pre)
      BY <1>1, <2>1 DEF BootInv, TreeInv
  <2>3. IsFiniteSet(MappedPages) /\ IsFiniteSet(DOMAIN tables)
      BY <1>1, <2>1, MappedInReach, PoolFacts DEF BootInv, IInv
  <2>4. \A v \in MappedPages, k \in 1 .. 3 :
          \E f \in DOMAIN tables : lev[f] = 4 - k /\ pre[f] = Shifted(v, k)
      BY <2>1, <2>2, TablesOfWalk
  <2> QED
      BY <2>2, <2>3, <2>4, WithinBudget
<1>2. BootInv => NeverOutOfPages
    BY <1>1 DEF NeverOutOfPages, BootInv, FullInv
<1> QED
    BY <1>2, BootInvariant, PTL

\* A map has one largest segment, the first of its size.
LEMMA OneLargest ==
    ASSUME TypeOK, NEW i \in DOMAIN mmap, IsLargest(mmap, i)
    PROVE  LargestSegment(mmap) = mmap[i].first
<1>1. DOMAIN mmap \subseteq Nat /\ \A j \in DOMAIN mmap : mmap[j].pages \in Nat
    BY MapType
<1>2. ASSUME NEW j \in DOMAIN mmap, IsLargest(mmap, j)
      PROVE  j = i
  <2>1. /\ IsConventional(mmap[i]) /\ IsConventional(mmap[j])
        /\ i \in Nat /\ j \in Nat
        /\ mmap[i].pages \in Nat /\ mmap[j].pages \in Nat
      BY <1>1, <1>2 DEF IsLargest
  <2>2. /\ IF j < i THEN mmap[j].pages < mmap[i].pages
                    ELSE mmap[j].pages <= mmap[i].pages
        /\ IF i < j THEN mmap[i].pages < mmap[j].pages
                    ELSE mmap[i].pages <= mmap[j].pages
      BY <1>2, <2>1 DEF IsLargest
  <2> QED
      BY <2>1, <2>2
<1>3. (CHOOSE j \in DOMAIN mmap : IsLargest(mmap, j)) = i
    BY <1>2
<1> QED
    BY <1>3 DEF LargestSegment

\* What the kernel goes on using after the switch is mapped.
THEOREM LiveMemoryStays == KSpec => []LiveMemoryMapped
<1>1. ASSUME BootInv, cr3 # NoRoot, NoHoles, BitmapFits, EnoughBelow(mem_size)
      PROVE  \A p \in AccessedPages \cup Taken : Translate(p) = p
  <2>1. TypeOK /\ mem_size \in Nat /\ size \in Nat /\ buffer \in Nat
      BY <1>1 DEF BootInv, IInv, TypeOK
  <2>2. /\ phase = "ready"
        /\ \A v \in 0 .. mem_size - 1 : Translate(v) = v
      BY <1>1, AllMapped DEF MappedPages
  <2>3. \A p \in Taken : p \in 0 .. mem_size - 1
      BY <1>1, <2>1, FirstFit
  <2>4. ASSUME NEW p \in AccessedPages
        PROVE  p \in 0 .. mem_size - 1
    <3>1. PICK i \in DOMAIN mmap :
            IsLargest(mmap, i) /\ mmap[i].pages > size \div PageBytes
        BY <1>1 DEF BitmapFits
    <3>2. /\ buffer = mmap[i].first /\ mmap[i].first \in Nat /\ mmap[i].pages \in Nat
          /\ mmap[i].first + mmap[i].pages <= mem_size
        BY <1>1, <2>1, <2>2, <3>1, OneLargest, MapType
           DEF BootInv, StageInv, NoHoles
    <3>3. PICK b \in 0 .. size : p = buffer + (b \div PageBytes)
        BY DEF AccessedPages
    <3>4. /\ b \div PageBytes \in Nat /\ size \div PageBytes \in Nat
          /\ b \div PageBytes <= size \div PageBytes
        BY <2>1, PageBytesAssumption, Division, QuotientOrder
    <3> QED
        BY <2>1, <3>1, <3>2, <3>3, <3>4
  <2> QED
      BY <2>2, <2>3, <2>4
<1>2. BootInv => LiveMemoryMapped
    BY <1>1 DEF LiveMemoryMapped, Taken
<1> QED
    BY <1>2, BootInvariant, PTL
=============================================================================
