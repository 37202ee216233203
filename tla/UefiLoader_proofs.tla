-------------------------- MODULE UefiLoader_proofs --------------------------
(***************************************************************************)
(* LoaderInv is an invariant of the boot loader for every memory, kernel,  *)
(* page size and behaviour of the firmware; the safety properties follow.  *)
(***************************************************************************)
EXTENDS UefiLoader, FiniteSetTheorems, TLAPS

-----------------------------------------------------------------------------
(* Bytes and pages.                                                        *)

\* Rounding up leaves room for every byte: the page of a byte below m comes
\* before the page count that AllocatePages is called with.
LEMMA PageOfByte ==
    ASSUME NEW size \in Nat \ {0}, NEW m \in Nat, NEW b \in 0 .. m - 1
    PROVE  /\ b \div size \in Nat
           /\ b \div size <= ((m + size - 1) \div size) - 1
           /\ (m + size - 1) \div size \in Nat
<1> DEFINE q == b \div size
           r == (m + size - 1) \div size
<1>1. b \in Nat /\ m + size - 1 \in Nat
  OBVIOUS
<1>2. q \in Nat /\ size * q <= b
  BY <1>1, Z3
<1>3. r \in Nat /\ m + size - 1 < size * (r + 1)
  BY <1>1, Z3
<1>4. size * (q + 1) < size * (r + 1)
  <2>1. size * (q + 1) = size * q + size
    BY <1>2, Z3
  <2> HIDE DEF q, r
  <2>2. size * (q + 1) \in Int /\ size * (r + 1) \in Int /\ size * q \in Int
    BY <1>2, <1>3
  <2> QED
    BY <1>2, <1>3, <2>1, <2>2
<1>5. q < r
  <2> HIDE DEF q, r
  <2> SUFFICES ASSUME r <= q PROVE FALSE
    BY <1>2, <1>3
  <2>1. size * (r + 1) <= size * (q + 1)
    BY <1>2, <1>3, Z3
  <2> QED
    BY <1>2, <1>3, <1>4, <2>1
<1> QED
  BY <1>2, <1>3, <1>5

\* The kernel's segments are records of numbers.
LEMMA SegmentType ==
    ASSUME NEW k \in Kernels, NEW i \in 1 .. Len(k)
    PROVE  /\ k[i].first \in Nat /\ k[i].memsz \in Nat \ {0}
           /\ k[i].filesz \in Nat /\ k[i].filesz <= k[i].memsz
           /\ k \in Seq(Segment) /\ Len(k) \in Nat
<1>1. k \in Seq(Segment) /\ i \in DOMAIN k
  BY KernelsAssumption
<1>2. k[i] \in Segment
  BY <1>1
<1>3. k[i].filesz <= k[i].memsz
  BY <1>1, KernelsAssumption
<1> QED
  BY <1>1, <1>2, <1>3, LPageAssumption DEF Segment, Pages

\* What is read of a segment lies in the pages it was allocated.
LEMMA BytesInSegment ==
    ASSUME NEW k \in Kernels, NEW i \in 1 .. Len(k)
    PROVE  /\ \A b \in 0 .. k[i].memsz - 1 :
                k[i].first + (b \div PageBytes) \in SegmentPages(k[i])
           /\ FilePages(k[i]) \subseteq SegmentPages(k[i])
<1> USE SegmentType, LPageAssumption
<1>1. ASSUME NEW b \in 0 .. k[i].memsz - 1
      PROVE  k[i].first + (b \div PageBytes) \in SegmentPages(k[i])
  <2>1. /\ b \div PageBytes \in Nat
        /\ b \div PageBytes
             <= ((k[i].memsz + PageBytes - 1) \div PageBytes) - 1
        /\ (k[i].memsz + PageBytes - 1) \div PageBytes \in Nat
    BY PageOfByte
  <2> HIDE LPageAssumption
  <2> DEFINE q == b \div PageBytes
             r == (k[i].memsz + PageBytes - 1) \div PageBytes
  <2>2. k[i].first \in Nat
    OBVIOUS
  <2>3. SegmentPages(k[i]) = k[i].first .. k[i].first + r - 1
    BY DEF SegmentPages
  <2> HIDE DEF q, r
  <2>4. q \in Nat /\ r \in Nat /\ q <= r - 1
    BY <2>1 DEF q, r
  <2>5. k[i].first + q \in k[i].first .. k[i].first + r - 1
    BY <2>2, <2>4
  <2> QED
    BY <2>3, <2>5 DEF q
<1>2. FilePages(k[i]) \subseteq SegmentPages(k[i])
  <2>1. 0 .. k[i].filesz - 1 \subseteq 0 .. k[i].memsz - 1
    OBVIOUS
  <2> QED
    BY <1>1, <2>1 DEF FilePages
<1> QED
  BY <1>1, <1>2

-----------------------------------------------------------------------------
(* The firmware.                                                           *)

\* A map has at most one descriptor for each page.
LEMMA DescriptorsBounded == Descriptors \in 0 .. PageCount
<1> DEFINE S == {p \in Pages : p = 0 \/ memory[p] # memory[p - 1]}
<1>1. IsFiniteSet(Pages) /\ Cardinality(Pages) = PageCount
  BY FS_Interval, LPageAssumption DEF Pages
<1>2. S \subseteq Pages
  OBVIOUS
<1>3. IsFiniteSet(S) /\ Cardinality(S) <= Cardinality(Pages)
  <2> HIDE DEF S
  <2> QED
    BY <1>1, <1>2, FS_Subset
<1>4. Cardinality(S) \in Nat
  BY <1>3, FS_CardinalityType
<1> QED
  BY <1>1, <1>3, <1>4, LPageAssumption DEF Descriptors

\* Who owns what after pages change hands.
LEMMA Giving ==
    ASSUME LTypeOK, NEW S \in SUBSET Pages, NEW who \in Owners, Give(S, who)
    PROVE  /\ memory' \in [Pages -> Owners]
           /\ current' \in BOOLEAN
           /\ services' = services
           /\ \A p \in S : memory'[p] = who
           /\ \A p \in Pages \ S : memory'[p] = memory[p]
BY DEF LTypeOK, Give

\* A block of the pool takes nothing from anybody.
LEMMA Pooling ==
    ASSUME LTypeOK, NEW p, AllocatePool(p)
    PROVE  /\ memory' \in [Pages -> Owners]
           /\ current' \in BOOLEAN
           /\ services' = services
           /\ p \in Pages \ image
           /\ memory'[p] = "loader"
           /\ Owned("loader") \subseteq Owned("loader")'
<1>1. p \in Pages /\ {p} \in SUBSET Pages /\ "loader" \in Owners
  BY DEF AllocatePool, Owned, Owners
<1>2. Give({p}, "loader")
  BY DEF AllocatePool
<1>3. p \notin image
  BY DEF AllocatePool, LTypeOK, Owned
<1> QED
  BY <1>1, <1>2, <1>3, Giving DEF Owned

-----------------------------------------------------------------------------
(* The steps.                                                              *)

\* Steps that only go on, after a call whose outcome decides where.
LEMMA MovesPreserve ==
    ASSUME LoaderInv,
           \/ LoadKernel \/ SegmentsLoaded \/ OpenFont \/ CheckMagic
           \/ InitializeGOP \/ NoBuffer \/ KernelStart
    PROVE  LoaderInv'
<1> USE DEF LoaderInv, firmware, loading, fetching, ghosts
<1>1. UNCHANGED <<firmware, loading, fetching, kept, ghosts>>
  BY DEF LoadKernel, SegmentsLoaded, OpenFont, CheckMagic, InitializeGOP,
         NoBuffer, KernelStart
<1>2. LTypeOK'
  BY DEF LTypeOK, Owned, Ends, Goto, LoadKernel, SegmentsLoaded, OpenFont,
         CheckMagic, InitializeGOP, NoBuffer, KernelStart
<1>3. pc' # "readSegment"
  BY DEF Goto, LoadKernel, SegmentsLoaded, OpenFont, CheckMagic,
         InitializeGOP, NoBuffer, KernelStart
<1>4. Loading'
  BY <1>1, <1>3 DEF Loading
<1>5. Loaded'
  BY DEF Loaded, LTypeOK, Goto, LoadKernel, SegmentsLoaded, OpenFont,
         CheckMagic, InitializeGOP, NoBuffer, KernelStart
<1>6. Fetching'
  BY DEF Fetching, Owned, Goto, LoadKernel, SegmentsLoaded, OpenFont,
         CheckMagic, InitializeGOP, NoBuffer, KernelStart
<1>7. Leaving'
  BY DEF Leaving, Goto, LoadKernel, SegmentsLoaded, OpenFont,
         CheckMagic, InitializeGOP, NoBuffer, KernelStart
<1>8. NoTrampling'
  BY <1>1 DEF NoTrampling
<1> QED
  BY <1>2, <1>4, <1>5, <1>6, <1>7, <1>8

\* A page that changes hands between the firmware and nobody: none of the
\* loader's.
LEMMA FirmwarePreserves ==
    ASSUME LoaderInv, FirmwareActs
    PROVE  LoaderInv'
<1> USE DEF LoaderInv
<1> DEFINE who(q) == IF memory[q] = "free" THEN "firmware" ELSE "free"
<1>1. PICK q \in Owned("free") \cup Owned("firmware") :
        /\ Give({q}, who(q))
        /\ content' = [content EXCEPT ![q] = 0]
  BY DEF FirmwareActs
<1>2. /\ services /\ stirred'
      /\ UNCHANGED <<pc, kernel, seg, image, kept, MMap, MapSize, map,
                     refused, starved, trampled>>
  BY DEF FirmwareActs, fetching
<1>3. q \in Pages /\ q \notin Owned("loader") /\ who(q) \in Owners
  BY DEF Owned, Owners
<1>4. /\ memory' \in [Pages -> Owners] /\ current' \in BOOLEAN
      /\ services' = services
      /\ \A p \in Pages \ {q} : memory'[p] = memory[p]
  BY <1>1, <1>3, Giving
<1>5. Owned("loader") \subseteq Owned("loader")'
  BY <1>3, <1>4 DEF Owned
<1>6. content' \in [Pages -> 0 .. Len(kernel')]
  <2>1. 0 \in 0 .. Len(kernel)
    BY KernelsAssumption DEF LTypeOK
  <2>2. content \in [Pages -> 0 .. Len(kernel)]
    BY DEF LTypeOK
  <2>3. [content EXCEPT ![q] = 0] \in [Pages -> 0 .. Len(kernel)]
    BY <1>3, <2>1, <2>2, Zenon
  <2> QED
    BY <1>1, <1>2, <2>3, Zenon
<1>7. LTypeOK'
  BY <1>2, <1>4, <1>5, <1>6 DEF LTypeOK, FirmwareActs
<1>8. q \notin image
  BY <1>3 DEF LTypeOK
<1>9. Loading'
  <2>1. ASSUME ~refused, NEW i \in 1 .. seg - 1
        PROVE  \A p \in FilePages(kernel[i]) : content'[p] = i
    <3>1. FilePages(kernel[i]) \subseteq image
      <4>1. i \in 1 .. Len(kernel) /\ kernel \in Kernels
        BY KernelsAssumption DEF LTypeOK
      <4> QED
        BY <2>1, <4>1, BytesInSegment DEF Loading
    <3>2. image \subseteq Pages
      BY DEF LTypeOK, Owned
    <3> QED
      BY <1>1, <1>8, <2>1, <3>1, <3>2 DEF Loading, LTypeOK
  <2> QED
    BY <1>2, <2>1 DEF Loading, SegmentPages, FilePages
<1>10. Loaded' /\ NoTrampling'
  BY <1>2 DEF Loaded, NoTrampling
<1>11. Fetching'
  BY <1>2, <1>5 DEF Fetching
<1>12. Leaving'
  BY <1>2 DEF Leaving
<1> QED
  BY <1>7, <1>9, <1>10, <1>11, <1>12

\* A new block of the pool, or none left.
LEMMA KeepPreserves ==
    ASSUME LoaderInv, NEW here, NEW there, NEW onFailure,
           Keep(here, there, onFailure),
           \/ here = "fileInfo" /\ there = "readPhdrs" /\ onFailure = "readPhdrs"
           \/ here = "fileInfo" /\ there = "wild" /\ onFailure = "wild"
           \/ here = "readPhdrs" /\ there = "loadSegments" /\ onFailure = "wild"
           \/ here = "fontHeader" /\ there = "fontMagic" /\ onFailure = "wild"
           \/ here = "glyphs" /\ there = "fontRecord" /\ onFailure = "wild"
           \/ here = "fontRecord" /\ there = "gop" /\ onFailure = "wild"
    PROVE  LoaderInv'
<1> USE DEF LoaderInv
<1>1. UNCHANGED <<content, kernel, seg, image, MMap, MapSize, map,
                  refused, stirred, trampled>>
  BY DEF Keep, loading, fetching
<1>2. /\ pc = here
      /\ pc' \in {"readPhdrs", "loadSegments", "fontMagic", "fontRecord",
                  "gop", "wild"}
      /\ pc' = there \/ pc' = onFailure
  BY DEF Keep, Goto
<1>3. /\ memory' \in [Pages -> Owners] /\ current' \in BOOLEAN
      /\ services' = services
      /\ starved' \in BOOLEAN
      /\ starved => starved'
      /\ Owned("loader") \subseteq Owned("loader")'
      /\ kept' \subseteq Owned("loader")'
      /\ image \cap kept' = {}
  <2>1. CASE \E p \in Pages : AllocatePool(p) /\ kept' = kept \cup {p}
                              /\ UNCHANGED starved
    BY <2>1, Pooling DEF LTypeOK, Owned
  <2>2. CASE PoolExhausted /\ starved' = TRUE /\ UNCHANGED kept
    BY <2>2 DEF PoolExhausted, firmware, LTypeOK, Owned
  <2> QED
    BY <2>1, <2>2 DEF Keep
<1>4. LTypeOK'
  BY <1>1, <1>2, <1>3 DEF LTypeOK, Ends
<1>5. Loading' /\ NoTrampling'
  BY <1>1, <1>2, <1>3 DEF Loading, SegmentPages, FilePages, NoTrampling
<1>6. Loaded'
  BY <1>1, <1>2 DEF Loaded
<1>7. Fetching' /\ Leaving'
  BY <1>2 DEF Fetching, Leaving
<1> QED
  BY <1>4, <1>5, <1>6, <1>7

\* The pages of a segment, all of them or none.
LEMMA AllocatePreserves ==
    ASSUME LoaderInv, AllocatePages
    PROVE  LoaderInv'
<1> USE DEF LoaderInv
<1> DEFINE S == SegmentPages(kernel[seg])
<1>1. /\ pc = "loadSegments" /\ pc' = "readSegment" /\ seg <= Len(kernel)
      /\ UNCHANGED <<content, kernel, seg, kept, MMap, MapSize, map,
                     starved, stirred, trampled>>
  BY DEF AllocatePages, Goto, fetching
<1>2. \/ /\ S \subseteq Owned("free") /\ Give(S, "loader")
         /\ image' = image \cup S /\ UNCHANGED refused
      \/ refused' = TRUE /\ UNCHANGED <<memory, services, current, image>>
  BY DEF AllocatePages, firmware
<1>3. /\ memory' \in [Pages -> Owners] /\ current' \in BOOLEAN
      /\ services' = services /\ refused' \in BOOLEAN
      /\ Owned("loader") \subseteq Owned("loader")'
      /\ image \subseteq image'
      /\ image' \subseteq Owned("loader")'
      /\ image' \cap kept = {}
      /\ ~refused' => /\ ~refused
                      /\ S \subseteq image'
                      /\ S \cap image = {}
  <2>1. CASE S \subseteq Owned("free") /\ Give(S, "loader")
             /\ image' = image \cup S /\ UNCHANGED refused
    <3>1. S \in SUBSET Pages /\ "loader" \in Owners
      BY <2>1 DEF Owned, Owners
    <3>2. /\ memory' \in [Pages -> Owners] /\ current' \in BOOLEAN
          /\ services' = services
          /\ \A p \in S : memory'[p] = "loader"
          /\ \A p \in Pages \ S : memory'[p] = memory[p]
      <4> HIDE DEF S
      <4> QED
        BY <2>1, <3>1, Giving
    <3>3. S \cap Owned("loader") = {}
      BY <2>1 DEF Owned
    <3> HIDE DEF S
    <3> QED
      BY <2>1, <3>1, <3>2, <3>3 DEF LTypeOK, Owned
  <2>2. CASE refused' = TRUE /\ UNCHANGED <<memory, services, current, image>>
    BY <2>2 DEF LTypeOK, Owned
  <2> QED
    BY <1>2, <2>1, <2>2
<1>4. LTypeOK'
  BY <1>1, <1>3 DEF LTypeOK
<1>5. Loading'
  <2>1. ASSUME ~refused', NEW i \in 1 .. seg - 1
        PROVE  SegmentPages(kernel[i]) \cap S = {}
    BY <1>3, <2>1 DEF Loading
  <2>2. kernel' = kernel /\ seg' = seg /\ seg <= Len(kernel)
    BY <1>1
  <2>3. ASSUME ~refused', NEW i \in 1 .. seg' - 1
        PROVE  /\ SegmentPages(kernel'[i]) \subseteq image'
               /\ \A p \in FilePages(kernel'[i]) : content'[p] = i
    BY <1>1, <1>3, <2>2, <2>3 DEF Loading
  <2>4. ASSUME ~refused'
        PROVE  SegmentPages(kernel'[seg']) \subseteq image'
    BY <1>3, <2>2, <2>4
  <2>5. ASSUME ~refused', NEW i \in 1 .. seg' - 1
        PROVE  SegmentPages(kernel'[i]) \cap SegmentPages(kernel'[seg']) = {}
    BY <2>1, <2>2, <2>5
  <2> QED
    BY <2>2, <2>3, <2>4, <2>5, Zenon DEF Loading, SegmentPages, FilePages
<1>6. Loaded' /\ Fetching' /\ Leaving'
  BY <1>1 DEF Loaded, Fetching, Leaving
<1>7. NoTrampling'
  BY <1>1, <1>2 DEF NoTrampling
<1> QED
  BY <1>4, <1>5, <1>6, <1>7

\* What is read goes into pages no other segment is in.
LEMMA ReadPreserves ==
    ASSUME LoaderInv, ReadSegment
    PROVE  LoaderInv'
<1> USE DEF LoaderInv
<1> DEFINE F == FilePages(kernel[seg])
<1>1. /\ pc = "readSegment" /\ pc' = "loadSegments"
      /\ content' = [p \in Pages |-> IF p \in F THEN seg ELSE content[p]]
      /\ trampled' = (trampled \/ ~(F \subseteq Owned("loader")))
      /\ seg' = seg + 1
      /\ UNCHANGED <<memory, services, current, kernel, image, kept, MMap,
                     MapSize, map, refused, starved, stirred>>
  BY DEF ReadSegment, Goto, firmware, fetching
<1>2. /\ kernel \in Kernels /\ Len(kernel) \in Nat /\ seg \in 1 .. Len(kernel)
      /\ image \subseteq Pages
  BY <1>1, KernelsAssumption DEF LTypeOK, Loading, Owned
<1>3. F \subseteq SegmentPages(kernel[seg])
  BY <1>2, BytesInSegment
<1> HIDE DEF F
<1>4. content' \in [Pages -> 0 .. Len(kernel)]
  BY <1>1, <1>2 DEF LTypeOK
<1>5. seg' \in 1 .. Len(kernel) + 1
  BY <1>1, <1>2
<1>6. LTypeOK'
  BY <1>1, <1>4, <1>5 DEF LTypeOK, Owned
<1>7. ASSUME ~refused, NEW i \in 1 .. seg
      PROVE  /\ SegmentPages(kernel[i]) \subseteq image
             /\ \A p \in FilePages(kernel[i]) : content'[p] = i
  <2>1. SegmentPages(kernel[i]) \subseteq image
    BY <1>1, <1>2, <1>7 DEF Loading
  <2>2. FilePages(kernel[i]) \subseteq SegmentPages(kernel[i])
    BY <1>2, BytesInSegment
  <2>3. CASE i = seg
    BY <1>1, <1>2, <2>1, <2>2, <2>3 DEF F
  <2>4. CASE i # seg
    <3>1. i \in 1 .. seg - 1
      BY <1>2, <2>4
    <3>2. SegmentPages(kernel[i]) \cap F = {}
      BY <1>1, <1>3, <1>7, <3>1 DEF Loading
    <3>3. \A p \in FilePages(kernel[i]) : content[p] = i
      BY <1>7, <3>1 DEF Loading
    <3> QED
      BY <1>1, <1>2, <2>1, <2>2, <3>2, <3>3
  <2> QED
    BY <2>1, <2>3, <2>4
<1>8. Loading'
  <2>1. 1 .. seg' - 1 = 1 .. seg
    BY <1>1, <1>2
  <2>2. kernel' = kernel /\ image' = image /\ refused' = refused
        /\ pc' # "readSegment"
    BY <1>1
  <2>3. ASSUME ~refused', NEW i \in 1 .. seg' - 1
        PROVE  /\ SegmentPages(kernel'[i]) \subseteq image'
               /\ \A p \in FilePages(kernel'[i]) : content'[p] = i
    BY <1>7, <2>1, <2>2, <2>3, Zenon
  <2> QED
    BY <2>2, <2>3, Zenon DEF Loading, SegmentPages, FilePages
<1>9. Loaded' /\ Fetching' /\ Leaving'
  BY <1>1 DEF Loaded, Fetching, Leaving
<1>10. NoTrampling'
  <2>1. ~refused => F \subseteq Owned("loader")
    BY <1>1, <1>3 DEF Loading, LTypeOK
  <2> QED
    BY <1>1, <2>1 DEF NoTrampling
<1> QED
  BY <1>6, <1>8, <1>9, <1>10

\* The size of the map, asked for without a buffer.
LEMMA SizePreserves ==
    ASSUME LoaderInv, AskMapSize \/ BufferTooSmall
    PROVE  LoaderInv'
<1> USE DEF LoaderInv
<1>1. /\ UNCHANGED <<memory, services, current, content, kernel, seg, image,
                     MMap, map, kept, refused, starved, stirred, trampled>>
      /\ MapSize' = Descriptors
      /\ \/ pc = "mapSize" /\ pc' = "allocateMap"
         \/ pc = "getMap" /\ pc' = "freeMap"
  BY DEF AskMapSize, BufferTooSmall, Goto, firmware, loading, ghosts
<1>2. MapSize' \in 0 .. PageCount
  BY <1>1, DescriptorsBounded
<1>3. LTypeOK'
  BY <1>1, <1>2 DEF LTypeOK, Owned
<1>4. Loading' /\ Loaded' /\ NoTrampling'
  BY <1>1 DEF Loading, SegmentPages, FilePages, Loaded, NoTrampling
<1>5. Fetching' /\ Leaving'
  BY <1>1 DEF Fetching, Leaving, Owned
<1> QED
  BY <1>3, <1>4, <1>5

\* The buffer is a block of the pool.
LEMMA AllocateMapPreserves ==
    ASSUME LoaderInv, AllocateMap
    PROVE  LoaderInv'
<1> USE DEF LoaderInv
<1>1. /\ UNCHANGED <<content, kernel, seg, image, MapSize, map, kept, refused,
                     stirred, trampled>>
      /\ pc = "allocateMap" /\ pc' = "getMap"
  BY DEF AllocateMap, Goto, loading
<1>2. /\ memory' \in [Pages -> Owners] /\ current' \in BOOLEAN
      /\ services' = services
      /\ starved' \in BOOLEAN /\ (starved => starved')
      /\ MMap' \in Pages \cup {NULL}
      /\ Owned("loader") \subseteq Owned("loader")'
      /\ ~starved' => MMap' \in Owned("loader")' \ image
  <2>1. CASE \E p \in Pages : AllocatePool(p) /\ MMap' = p /\ UNCHANGED starved
    BY <2>1, Pooling DEF LTypeOK, Owned
  <2>2. CASE PoolExhausted /\ starved' = TRUE /\ UNCHANGED MMap
    BY <2>2 DEF PoolExhausted, firmware, LTypeOK, Owned
  <2> QED
    BY <2>1, <2>2 DEF AllocateMap
<1>3. LTypeOK'
  BY <1>1, <1>2 DEF LTypeOK
<1>4. Loading' /\ Loaded' /\ NoTrampling'
  BY <1>1, <1>2 DEF Loading, SegmentPages, FilePages, Loaded, NoTrampling
<1>5. Fetching' /\ Leaving'
  BY <1>1, <1>2 DEF Fetching, Leaving
<1> QED
  BY <1>3, <1>4, <1>5

\* The map is written to the buffer, which is the loader's unless the pool
\* was exhausted; what the loader has by now is the loader's in the map.
LEMMA GetMapPreserves ==
    ASSUME LoaderInv, GetMemoryMap
    PROVE  LoaderInv'
<1> USE DEF LoaderInv
<1>1. /\ UNCHANGED <<memory, services, content, kernel, seg, image, MMap, kept,
                     refused, starved>>
      /\ pc = "getMap" /\ pc' = "exit"
      /\ MapSize' = Descriptors /\ map' = memory
      /\ current' = TRUE /\ stirred' = FALSE
      /\ trampled' = (trampled \/ memory[MMap] # "loader")
  BY DEF GetMemoryMap, Goto, loading
<1>2. MapSize' \in 0 .. PageCount
  BY <1>1, DescriptorsBounded
<1>3. LTypeOK'
  BY <1>1, <1>2 DEF LTypeOK, Owned
<1>4. ~starved => MMap \in Owned("loader") \ image
  BY <1>1 DEF Fetching
<1>5. Loading' /\ Loaded'
  BY <1>1 DEF Loading, SegmentPages, FilePages, Loaded
<1>6. NoTrampling'
  BY <1>1, <1>4 DEF NoTrampling, Owned
<1>7. Fetching'
  <2>1. ~starved => \A p \in image \cup kept \cup {MMap} : memory[p] = "loader"
    BY <1>4 DEF LTypeOK, Owned
  <2> QED
    BY <1>1, <1>4, <2>1 DEF Fetching, Owned
<1>8. Leaving'
  BY <1>1 DEF Leaving
<1> QED
  BY <1>3, <1>5, <1>6, <1>7, <1>8

\* The page of the buffer, unless something else is in it.
LEMMA FreeMapPreserves ==
    ASSUME LoaderInv, FreeMap
    PROVE  LoaderInv'
<1> USE DEF LoaderInv
<1>1. /\ UNCHANGED <<content, kernel, seg, image, MMap, MapSize, map, kept,
                     refused, starved, stirred, trampled>>
      /\ pc = "freeMap" /\ pc' = "allocateMap"
  BY DEF FreeMap, Goto, loading, fetching, ghosts
<1>2. /\ memory' \in [Pages -> Owners] /\ current' \in BOOLEAN
      /\ services' = services
      /\ image \subseteq Owned("loader")' /\ kept \subseteq Owned("loader")'
  <2>1. CASE UNCHANGED firmware
    BY <2>1 DEF firmware, LTypeOK, Owned
  <2>2. CASE /\ MMap \in Owned("loader") \ (kept \cup image)
             /\ Give({MMap}, "free")
    <3>1. {MMap} \in SUBSET Pages /\ "free" \in Owners
      BY <2>2 DEF Owned, Owners
    <3>2. /\ memory' \in [Pages -> Owners] /\ current' \in BOOLEAN
          /\ services' = services
          /\ \A p \in Pages \ {MMap} : memory'[p] = memory[p]
      BY <2>2, <3>1, Giving
    <3> QED
      BY <2>2, <3>2 DEF LTypeOK, Owned
  <2> QED
    BY <2>1, <2>2 DEF FreeMap
<1>3. LTypeOK'
  BY <1>1, <1>2 DEF LTypeOK
<1>4. Loading' /\ Loaded' /\ NoTrampling'
  BY <1>1 DEF Loading, SegmentPages, FilePages, Loaded, NoTrampling
<1>5. Fetching' /\ Leaving'
  BY <1>1 DEF Fetching, Leaving
<1> QED
  BY <1>3, <1>4, <1>5

\* Boot services end when the key is the map's, as it is when the firmware
\* did nothing since.
LEMMA ExitPreserves ==
    ASSUME LoaderInv, ExitBootServices
    PROVE  LoaderInv'
<1> USE DEF LoaderInv
<1>1. /\ UNCHANGED <<memory, current, content, kernel, seg, image, MMap,
                     MapSize, map, kept, refused, starved, stirred, trampled>>
      /\ pc = "exit" /\ pc' = "start" /\ services' = ~current
  BY DEF ExitBootServices, Goto, loading, fetching, ghosts
<1>2. LTypeOK'
  BY <1>1 DEF LTypeOK, Owned
<1>3. Loading' /\ Loaded' /\ NoTrampling'
  BY <1>1 DEF Loading, SegmentPages, FilePages, Loaded, NoTrampling
<1>4. Fetching' /\ Leaving'
  BY <1>1 DEF Fetching, Leaving, Owned
<1> QED
  BY <1>2, <1>3, <1>4

\* The loader has nothing when it starts.
LEMMA StartsRight == LInit => LoaderInv
<1> SUFFICES ASSUME LInit PROVE LoaderInv
  OBVIOUS
<1>1. kernel \in Kernels /\ Len(kernel) \in Nat
  BY KernelsAssumption DEF LInit
<1>2. memory \in [Pages -> Owners]
  BY MemoriesAssumption DEF LInit, Owners
<1>3. content \in [Pages -> 0 .. Len(kernel)]
  <2>1. content = [p \in Pages |-> 0] /\ 0 \in 0 .. Len(kernel)
    BY <1>1 DEF LInit
  <2> QED
    BY <2>1, Zenon
<1>4. LTypeOK
  <2>1. seg \in 1 .. Len(kernel) + 1 /\ MapSize \in 0 .. PageCount
    BY <1>1, LPageAssumption DEF LInit
  <2> QED
    BY <1>1, <1>2, <1>3, <2>1 DEF LInit, LTypeOK
<1>5. Loading /\ Loaded /\ Fetching /\ Leaving /\ NoTrampling
  BY DEF LInit, Loading, Loaded, Fetching, Leaving, NoTrampling
<1> QED
  BY <1>4, <1>5 DEF LoaderInv

-----------------------------------------------------------------------------
(* The theorems.                                                           *)

\* However the calls of the loader and the events of the firmware interleave,
\* the pages the loader was given stay its own and keep what it read into
\* them.
THEOREM LoaderInvariance == LSpec => []LoaderInv
<1>1. LoaderInv /\ [LNext]_lvars => LoaderInv'
  <2> SUFFICES ASSUME LoaderInv, [LNext]_lvars PROVE LoaderInv'
    OBVIOUS
  <2>1. CASE FirmwareActs
    BY <2>1, FirmwarePreserves
  <2>2. CASE LoadKernel \/ SegmentsLoaded \/ InitializeGOP \/ NoBuffer
             \/ KernelStart
    BY <2>2, MovesPreserve
  <2>3. CASE ReadHeader \/ ReadPhdrs
    <3>1. CASE ReadHeader
      BY <3>1, KeepPreserves DEF ReadHeader
    <3>2. CASE ReadPhdrs
      BY <3>2, KeepPreserves DEF ReadPhdrs
    <3> QED
      BY <2>3, <3>1, <3>2
  <2>4. CASE AllocatePages
    BY <2>4, AllocatePreserves
  <2>5. CASE ReadSegment
    BY <2>5, ReadPreserves
  <2>6. CASE LoadPSF1Font
    BY <2>6, MovesPreserve, KeepPreserves DEF LoadPSF1Font
  <2>7. CASE AskMapSize \/ BufferTooSmall
    BY <2>7, SizePreserves
  <2>8. CASE AllocateMap
    BY <2>8, AllocateMapPreserves
  <2>9. CASE GetMemoryMap
    BY <2>9, GetMapPreserves
  <2>10. CASE FreeMap
    BY <2>10, FreeMapPreserves
  <2>11. CASE ExitBootServices
    BY <2>11, ExitPreserves
  <2>12. CASE UNCHANGED lvars
    BY <2>12 DEF lvars, firmware, loading, fetching, ghosts, LoaderInv,
                 LTypeOK, Owned, Loading, SegmentPages, FilePages, Loaded,
                 Fetching, Leaving, NoTrampling
  <2> QED
    BY <2>1, <2>2, <2>3, <2>4, <2>5, <2>6, <2>7, <2>8, <2>9, <2>10, <2>11,
       <2>12 DEF LNext, efi_main
<1> QED
  BY <1>1, StartsRight, PTL DEF LSpec

\* The kernel entered is the kernel of the file, page for page, whatever the
\* firmware allocated while it was read.
THEOREM KernelIsInPlace == LSpec => []KernelInPlace
<1>1. LoaderInv => KernelInPlace
  <2> SUFFICES ASSUME LoaderInv, pc = "kernel", ~refused,
                      NEW i \in DOMAIN kernel
               PROVE  /\ \A p \in FilePages(kernel[i]) : content[p] = i
                      /\ \A b \in 0 .. kernel[i].memsz - 1 :
                           memory[kernel[i].first + (b \div PageBytes)]
                             = "loader"
    BY DEF KernelInPlace
  <2>1. kernel \in Kernels /\ Len(kernel) \in Nat /\ i \in 1 .. Len(kernel)
    BY KernelsAssumption DEF LoaderInv, LTypeOK
  <2>2. seg - 1 = Len(kernel)
    BY <2>1 DEF LoaderInv, Loaded
  <2>3. /\ SegmentPages(kernel[i]) \subseteq image
        /\ \A p \in FilePages(kernel[i]) : content[p] = i
    BY <2>1, <2>2 DEF LoaderInv, Loading
  <2>4. \A b \in 0 .. kernel[i].memsz - 1 :
          kernel[i].first + (b \div PageBytes) \in SegmentPages(kernel[i])
    BY <2>1, BytesInSegment
  <2> QED
    BY <2>3, <2>4 DEF LoaderInv, LTypeOK, Owned
<1> QED
  BY <1>1, LoaderInvariance, PTL

\* What the kernel is given stays the loader's in the map it is given.
THEOREM KernelIsReserved == LSpec => []KernelReserved
<1>1. LoaderInv => KernelReserved
  BY DEF LoaderInv, LTypeOK, Fetching, Owned, KernelReserved
<1> QED
  BY <1>1, LoaderInvariance, PTL

\* The loader leaves boot services with the map it took, unless the firmware
\* changed it in between.
THEOREM MapIsCurrent == LSpec => []MapCurrent
<1>1. LoaderInv => MapCurrent
  BY DEF LoaderInv, Leaving, MapCurrent
<1> QED
  BY <1>1, LoaderInvariance, PTL
=============================================================================
