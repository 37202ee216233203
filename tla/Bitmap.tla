------------------------------- MODULE Bitmap -------------------------------
(***************************************************************************)
(* lib/uefi/bitmap.c: the bit array the page allocator keeps its frames    *)
(* in.  A bitmap has a size in bytes and one bit per page frame; its bits  *)
(* are a function from bit index to BOOLEAN.                               *)
(*                                                                         *)
(* Both accessors return early when byte_index > size, so the byte with    *)
(* index `size', one past the buffer, passes the guard and is read and     *)
(* written.  The domain of `bits' is what the guard lets through, that     *)
(* byte included.                                                          *)
(***************************************************************************)
EXTENDS Integers

CONSTANT BitsPerByte   \* 8 in the code; smaller in the model instances

ASSUME BitsPerByteAssumption == BitsPerByte \in Nat \ {0}

\* The byte the accessors look at: byte_index.
ByteOf(index) == index \div BitsPerByte

\* The negation of the early return `byte_index > bm->size'.
PassesGuard(size, index) == ByteOf(index) <= size

\* Every index some call can reach: the buffer's bits and the byte after it.
Reach(size) == 0 .. (size + 1) * BitsPerByte - 1

\* The indices whose byte lies inside the buffer.
Buffered(size) == 0 .. size * BitsPerByte - 1

bitmapGetVal(size, bits, index) == PassesGuard(size, index) /\ bits[index]

bitmapSetVal(size, bits, index, value) ==
    IF PassesGuard(size, index) THEN [bits EXCEPT ![index] = value] ELSE bits

\* The function's return value: FALSE when the guard stops it.
SetValReturns(size, index) == PassesGuard(size, index)
=============================================================================
