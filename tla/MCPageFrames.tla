---------------------------- MODULE MCPageFrames ----------------------------
(***************************************************************************)
(* Instances of PageFrames: bytes of two bits and pages of two bytes, so   *)
(* that a handful of pages needs a bitmap of several pages.                *)
(***************************************************************************)
EXTENDS PageFrames

Desc(t, f, n) == [type |-> t, first |-> f, pages |-> n]

Conv(f, n)     == Desc(EfiConventionalMemory, f, n)
Firmware(f, n) == Desc(1, f, n)
MMIO(f, n)     == Desc(EfiMemoryMappedIO, f, n)

\* Contiguous maps: the bitmap at the start of the memory, in the middle, and
\* behind a firmware segment, with bitmap sizes (in bytes) even and odd, so
\* that the byte behind the buffer falls on the last locked page or starts it.
ContiguousMaps ==
    { <<Conv(0, 7), Firmware(7, 1)>>,
      <<Firmware(0, 1), Conv(1, 5)>>,
      <<Conv(0, 2), Firmware(2, 1), Conv(3, 4)>> }

\* A map with a hole that no descriptor covers, one with device memory
\* inside, and one whose pages run past the end of the bitmap.
HoledMaps ==
    { <<Conv(0, 2), Firmware(3, 2), Conv(5, 3)>>,
      <<Conv(0, 3), MMIO(3, 2), Conv(5, 2)>>,
      <<Conv(0, 1), Firmware(2, 1), Conv(7, 5)>>,
      <<Conv(0, 4), Firmware(6, 1)>> }

\* An empty map, one without conventional memory, one with empty segments.
DegenerateMaps ==
    { <<>>, <<Firmware(0, 3)>>, <<Conv(2, 0), MMIO(0, 2), Firmware(2, 0)>>,
      <<Conv(0, 3), Conv(3, 3)>> }

AllMaps == ContiguousMaps \cup HoledMaps \cup DegenerateMaps

\* A map whose second descriptor has a type the code does not know.
UnknownTypeMap == <<Conv(0, 2), Desc(16, 2, 1)>>

BootMaps == AllMaps \cup {UnknownTypeMap}

\* Client ranges: single pages and ranges that run over other owners' pages,
\* over the last tracked page, over the byte behind the buffer, and beyond.
SomeRanges == {<<0, 2>>, <<4, 3>>, <<5, 1>>, <<7, 1>>, <<6, 8>>, <<40, 1>>}
=============================================================================
