--------------------------- MODULE PointerMailbox ---------------------------
(***************************************************************************)
(* What the PS/2 mouse driver promises: a one-place mailbox between the    *)
(* interrupt handler and the main loop.  The handler posts a packet, which *)
(* is the last three bytes it has read, into an empty mailbox; the main *)
(* loop takes it and moves the pointer by it, in one step.  Mouse          *)
(* implements this although it fills the packet byte by byte, rewrites it  *)
(* in place while it reads it, and can be interrupted between any two      *)
(* steps.                                                                  *)
(***************************************************************************)
EXTENDS Naturals, Sequences

CONSTANTS Bytes,          \* the values a byte from the mouse takes
          NoPacket,       \* the empty mailbox
          Target(_, _)    \* where a packet takes the pointer from a position

VARIABLES heard,     \* the last two bytes the handler has read
          mailbox,   \* the packet waiting for the main loop, or NoPacket
          pointer    \* the position of the pointer

pvars == <<heard, mailbox, pointer>>

PInit == /\ heard \in Bytes \X Bytes
         /\ mailbox = NoPacket
         /\ pointer = <<0, 0>>

\* A byte arrives and is kept for later or ignored.
Hear(d) == /\ heard' = <<heard[2], d>>
           /\ UNCHANGED <<mailbox, pointer>>

\* A byte arrives and completes a packet.
Post(d) == /\ mailbox = NoPacket
           /\ mailbox' = <<heard[1], heard[2], d>>
           /\ heard' = <<heard[2], d>>
           /\ UNCHANGED pointer

\* The main loop takes the packet and moves the pointer.
Take == /\ mailbox # NoPacket
        /\ mailbox' = NoPacket
        /\ pointer' = Target(pointer, mailbox)
        /\ UNCHANGED heard

PNext == \/ \E d \in Bytes : Hear(d) \/ Post(d)
         \/ Take

PSpec == PInit /\ [][PNext]_pvars
=============================================================================
