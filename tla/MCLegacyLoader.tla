---------------------------- MODULE MCLegacyLoader ----------------------------
(* Sectors of 4 bytes, so that every other entry of the table lies across    *)
(* two of them; two tracks and a half of 6 sectors; four slots.              *)
EXTENDS LegacyLoader, TLC

\* The table has eight entries; clusters from 2 on are sectors from 9 on.
Fat(chains) == [c \in 0 .. 7 |-> IF c = 0 THEN 4080 ELSE
                                 IF c = 1 THEN 4095 ELSE
                                 IF c \in DOMAIN chains THEN chains[c] ELSE 0]
Dir(s1, s2) == [s \in 0 .. 1 |-> IF s = 0 THEN s1 ELSE s2]
Entry(n, c) == [name |-> n, cluster |-> c]
None == Entry("other", 0)
H(t, o, f, v) == [type |-> t, offset |-> o, filesz |-> f, vaddr |-> v]
Elf(sector, headers) == [s \in Sectors |-> IF s = sector THEN headers ELSE <<>>]

TwoSegments == <<H(1, 0, 2, 0), H(0, 0, 2, 2), H(1, 1, 1, 3)>>
Overlapping == <<H(1, 0, 2, 0), H(1, 2, 1, 1)>>

MCDisks == {
    \* a loader of a sector, a kernel of three in disorder
    [fat |-> Fat(2 :> 4095 @@ 3 :> 5 @@ 5 :> 4 @@ 4 :> 4095),
     root |-> Dir(<<Entry("other", 0), Entry("LOADER", 2)>>, <<Entry("KERNEL", 3), None>>),
     headers |-> Elf(10, TwoSegments)],
    \* a loader of two, a kernel that fills its segment
    [fat |-> Fat(7 :> 2 @@ 2 :> 4095 @@ 6 :> 5 @@ 5 :> 3 @@ 3 :> 4 @@ 4 :> 4095),
     root |-> Dir(<<Entry("KERNEL", 6), None>>, <<Entry("other", 3), Entry("LOADER", 7)>>),
     headers |-> Elf(13, Overlapping)],
    \* a kernel of a sector more than its segment holds
    [fat |-> Fat(2 :> 4095 @@ 3 :> 4 @@ 4 :> 5 @@ 5 :> 6 @@ 6 :> 7 @@ 7 :> 4095),
     root |-> Dir(<<Entry("LOADER", 2), Entry("KERNEL", 3)>>, <<None, None>>),
     headers |-> Elf(10, TwoSegments)],
    \* a kernel that ends with another of the marks for an end
    [fat |-> Fat(2 :> 4095 @@ 3 :> 4088),
     root |-> Dir(<<Entry("LOADER", 2), Entry("KERNEL", 3)>>, <<None, None>>),
     headers |-> Elf(10, TwoSegments)],
    \* a loader that reaches the last slot, where it cannot be read to
    [fat |-> Fat(2 :> 3 @@ 3 :> 4 @@ 4 :> 5 @@ 5 :> 4095 @@ 6 :> 4095),
     root |-> Dir(<<Entry("LOADER", 2), Entry("KERNEL", 6)>>, <<None, None>>),
     headers |-> Elf(13, Overlapping)],
    \* no kernel, and no loader
    [fat |-> Fat(2 :> 4095),
     root |-> Dir(<<Entry("LOADER", 2), None>>, <<None, None>>),
     headers |-> Elf(10, <<>>)],
    [fat |-> Fat(2 :> 4095),
     root |-> Dir(<<None, None>>, <<None, None>>),
     headers |-> Elf(10, <<>>)]}

\* Addresses are 32-bit with eight pages.
R(b, l, u, m) == [failed |-> FALSE, size |-> 20, valid |-> TRUE,
                  base |-> b, length |-> l, usable |-> u, more |-> m]
MCReports ==
    {R(b, 3, TRUE, m) : b \in {0, 2, 9}, m \in BOOLEAN}
    \cup {R(3, 1, FALSE, TRUE), R(0, 0, TRUE, TRUE),
          [R(0, 7, TRUE, TRUE) EXCEPT !.size = 24, !.valid = FALSE],
          [R(6, 2, TRUE, FALSE) EXCEPT !.size = 24],
          [R(0, 1, TRUE, TRUE) EXCEPT !.failed = TRUE]}
=============================================================================
