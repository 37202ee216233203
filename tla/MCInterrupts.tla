----------------------------- MODULE MCInterrupts -----------------------------
(* The two devices, the timer, and one more line of the slave 8259.        *)
EXTENDS Interrupts

MCOtherLines == {0, 8}
=============================================================================
