----------------------------- MODULE MCUefiLoader -----------------------------
(* Five pages of two bytes: a kernel of two segments, the first of which    *)
(* does not fill its last page and has memory the file does not give, and   *)
(* one whose two segments overlap.  All memory free, or the firmware in the *)
(* place of each kernel.                                                    *)
EXTENDS UefiLoader

Seg(f, m, n) == [first |-> f, memsz |-> m, filesz |-> n]

MCKernels == { <<Seg(0, 3, 2), Seg(2, 1, 1)>>, <<Seg(1, 3, 3), Seg(2, 2, 2)>> }

Occupied(pages) == [p \in Pages |-> IF p \in pages THEN "firmware" ELSE "free"]

MCMemories == {Occupied({}), Occupied({1})}
=============================================================================
