---------------------------- MODULE MCKernelBoot ----------------------------
(***************************************************************************)
(* Instances of KernelBoot: page tables of three entries, so that a walk   *)
(* has 81 pages and the measured memory needs several tables.              *)
(***************************************************************************)
EXTENDS KernelBoot

Desc(n, f, k) == [type |-> n, first |-> f, pages |-> k]

Conv(f, n)     == Desc(EfiConventionalMemory, f, n)
Loader(f, n)   == Desc(2, f, n)
Runtime(f, n)  == Desc(6, f, n)
MMIO(f, n)     == Desc(EfiMemoryMappedIO, f, n)
Image(f, b)    == [first |-> f, bytes |-> b]
Machine(m, k, f) == [mmap |-> m, kernel |-> k, fb |-> f]

\* The frame buffer above the memory, as device memory is; page 0 usable or
\* the firmware's; the kernel below or above the free memory, or in two
\* segments with a page between them that the firmware does not count as the
\* kernel's.
PlainMachines ==
    { Machine(<<Conv(0, 12), Loader(12, 2), Runtime(14, 1)>>,
              Image(12, 3), Image(70, 6)),
      Machine(<<Runtime(0, 1), Conv(1, 3), Loader(4, 3), Conv(7, 11)>>,
              Image(4, 8), Image(40, 5)),
      Machine(<<Conv(0, 2), Loader(2, 1), Conv(3, 14)>>,
              Image(2, 1), Image(17, 4)),
      Machine(<<Loader(0, 1), Conv(1, 1), Loader(2, 1), Conv(3, 12)>>,
              Image(0, 10), Image(33, 9)) }

\* Holes and device memory inside the measured range; the frame buffer in a
\* hole; memory beyond the measured range; a bitmap that reaches beyond the
\* segment it was put in.
HoledMachines ==
    { Machine(<<Conv(0, 9), MMIO(9, 3), Loader(13, 2), Conv(15, 4)>>,
              Image(13, 3), Image(9, 2)),
      Machine(<<Conv(0, 10), Loader(10, 2), Conv(20, 6)>>,
              Image(10, 2), Image(13, 2)),
      Machine(<<Conv(0, 4), Loader(4, 1), Conv(20, 9)>>,
              Image(4, 1), Image(5, 3)),
      Machine(<<MMIO(0, 30), Loader(30, 2), Conv(32, 2)>>,
              Image(30, 3), Image(60, 4)) }

\* From far too little memory for the page tables to just enough of it.
SmallMachines ==
    { Machine(<<Conv(0, n), Loader(n, 1)>>, Image(n, 1), Image(60, 2)) :
        n \in {1, 3, 6, 8, 10, 11, 12, 13, 14, 15, 16, 18} }

\* An unknown descriptor type; an empty map.
OddMachines ==
    { Machine(<<Conv(0, 4), Desc(16, 4, 1)>>, Image(3, 1), Image(30, 2)),
      Machine(<<>>, Image(0, 1), Image(30, 2)) }

AllMachines ==
    PlainMachines \cup HoledMachines \cup SmallMachines \cup OddMachines

MapsOfMachines == {m.mmap : m \in AllMachines}

RangesOfMachines ==
    UNION {{<<m.kernel.first, m.kernel.bytes \div 4 + 1>>,
            <<m.fb.first, (m.fb.bytes + 4) \div 4 + 1>>} : m \in AllMachines}
=============================================================================
