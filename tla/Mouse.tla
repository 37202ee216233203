-------------------------------- MODULE Mouse --------------------------------
(***************************************************************************)
(* The PS/2 mouse of the UEFI kernel, src/lib/uefi/mouse.c.  IRQ 12 runs   *)
(* intHandlePS2Mouse, which gathers three bytes into mousePacket; the main *)
(* loop of kmain calls ProcessMousePacket for ever, which turns a complete *)
(* packet into a position and draws the pointer there.  The two share      *)
(* mousePacket and mousePacketReady with no lock: the handler runs with    *)
(* interrupts off, so it is one step, and can come between any two steps   *)
(* of the main loop.  The handler of a stray request (StrayRequests) takes *)
(* what it reads for a byte of the mouse, and that of the keyboard may     *)
(* take a byte of the mouse away.                                          *)
(*                                                                         *)
(* A byte is its number.  mousePosX and mousePosY are uint64_t: arithmetic *)
(* on them is modulo WordSize.                                             *)
(***************************************************************************)
EXTENDS Integers, Sequences, StrayRequests

CONSTANTS Width, Height,   \* fb_info.Width and fb_info.Height
          WordSize,        \* 2^64 in the code
          MouseBytes,      \* the bytes the mouse sends
          StrayBytes,      \* what the handler of a stray request reads
          NoPacket         \* no packet is waiting

\* The values of a uint8_t.
Byte == 0 .. 255

ASSUME ScreenAssumption == Width \in Nat \ {0} /\ Height \in Nat \ {0}
ASSUME WordAssumption == WordSize \in Nat \ {0}
ASSUME BytesAssumption == MouseBytes \subseteq Byte /\ StrayBytes \subseteq Byte
ASSUME NoPacketAssumption == NoPacket \notin Byte \X Byte \X Byte

VARIABLES
    mouseCycle,         \* which byte of a packet the handler expects
    mousePacket,        \* the packet, shared by handler and main loop
    mousePacketReady,   \* the packet is complete and not yet processed
    mousePosX,
    mousePosY,
    flags,              \* ProcessMousePacket's xNeg, yNeg, xOver, yOver
    pc,                 \* where ProcessMousePacket is
    shown,              \* where the pointer was last drawn
    \* what the properties refer to and the program does not keep:
    heard,              \* the last two bytes the handler read
    captured,           \* the packet the handler completed, or NoPacket
    settled,            \* the position the last processed packet led to
    sent,               \* the place in its packet of the byte sent next
    lost                \* a byte went missing since the mouse was enabled, or
                        \*   a stray one was read

code == <<mouseCycle, mousePacket, mousePacketReady>>
position == <<mousePosX, mousePosY>>
others == <<heard, captured, settled, sent, lost, strays>>
vars == <<code, position, flags, pc, shown, others>>

-----------------------------------------------------------------------------
(* Bytes.  The mouse sets bit 3 of the first byte of every packet.         *)

Has(b, mask) == (b \div mask) % 2 = 1
AlwaysOne == 8
PS2XSign == 16
PS2YSign == 32
PS2XOverflow == 64
PS2YOverflow == 128

\* 256 - b, stored in a uint8_t
Negated(b) == (256 - b) % 256

\* an int added to a uint64_t
Wrap(i) == i % WordSize

-----------------------------------------------------------------------------
(* The handler.                                                            *)

\* Mutant: the handler does not look at mousePacketReady
Drops_overwrites(d) == mouseCycle = 0 /\ ~Has(d, AlwaysOne)

\* Mutant: a second byte with bit 3 clear is dropped too
Drops_second(d) == \/ mousePacketReady
                   \/ mouseCycle \in {0, 1} /\ ~Has(d, AlwaysOne)

\* handlePS2Mouse drops a byte while a packet waits, and a first byte
\* without bit 3.
Drops(d) == mousePacketReady \/ (mouseCycle = 0 /\ ~Has(d, AlwaysOne))

handlePS2Mouse(d) ==
    IF Drops(d)
      THEN UNCHANGED code
      ELSE /\ mousePacket' = [mousePacket EXCEPT ![mouseCycle + 1] = d]
           /\ mouseCycle' = (mouseCycle + 1) % 3
           /\ mousePacketReady' = (mouseCycle = 2)

\* IRQ 12 is served and reads d (interrupts.c:59).
Receive(d) ==
    /\ handlePS2Mouse(d)
    /\ heard' = <<heard[2], d>>
    /\ captured' = IF mousePacketReady' /\ ~mousePacketReady
                     THEN <<heard[1], heard[2], d>>
                     ELSE captured
    /\ UNCHANGED <<position, flags, pc, shown, settled>>

\* The mouse sends d, in its place in a packet.
Sends(d) == /\ sent = 0 => Has(d, AlwaysOne)
            /\ sent' = (sent + 1) % 3

\* The byte is served by its own handler.  A stray request is gone then, unless
\* it was being served already when the byte came.
intHandlePS2Mouse(d) ==
    /\ Sends(d)
    /\ Receive(d)
    /\ lost' = (lost \/ mousePacketReady)
    /\ UNCHANGED strays \/ Settle("mouse")

\* A stray request is served: the handler reads the last byte once more, such
\* as the acknowledgement of PS2MouseInit, or a byte of the keyboard.
StrayInterrupt(d) ==
    /\ Settle("mouse") \/ Pass("mouse")
    /\ Receive(d)
    /\ lost' = TRUE
    /\ UNCHANGED sent

\* The byte is read by the keyboard's handler, for a stray request of its own.
StolenByte(d) ==
    /\ Pass("keyboard")
    /\ Sends(d)
    /\ lost' = TRUE
    /\ UNCHANGED <<code, position, flags, pc, shown, heard, captured, settled>>

\* The keyboard's stray request is served without a byte of the mouse.
KeyboardServed ==
    /\ Settle("keyboard")
    /\ UNCHANGED <<code, position, flags, pc, shown, heard, captured, settled,
                   sent, lost>>

-----------------------------------------------------------------------------
(* ProcessMousePacket, one statement on shared state at a time.            *)

Sign(set) == IF set THEN -1 ELSE 1

FlagsOf(b) == [xNeg |-> Sign(Has(b, PS2XSign)),
               yNeg |-> Sign(Has(b, PS2YSign)),
               xOver |-> Has(b, PS2XOverflow),
               yOver |-> Has(b, PS2YOverflow)]

Poll ==
    /\ pc = "poll"
    /\ mousePacketReady
    /\ pc' = "readFlags"
    /\ UNCHANGED <<code, position, flags, shown, others>>

ReadFlags ==
    /\ pc = "readFlags"
    /\ flags' = FlagsOf(mousePacket[1])
    /\ pc' = "negateX"
    /\ UNCHANGED <<code, position, shown, others>>

\* Mutant: the packet is handed back before it has been used
NegateX_releases ==
    /\ pc = "negateX"
    /\ mousePacket' = IF flags.xNeg = -1
                        THEN [mousePacket EXCEPT ![2] = Negated(@)]
                        ELSE mousePacket
    /\ mousePacketReady' = FALSE
    /\ pc' = "negateY"
    /\ UNCHANGED <<mouseCycle, position, flags, shown, others>>

NegateX ==
    /\ pc = "negateX"
    /\ mousePacket' = IF flags.xNeg = -1
                        THEN [mousePacket EXCEPT ![2] = Negated(@)]
                        ELSE mousePacket
    /\ pc' = "negateY"
    /\ UNCHANGED <<mouseCycle, mousePacketReady, position, flags, shown, others>>

NegateY ==
    /\ pc = "negateY"
    /\ mousePacket' = IF flags.yNeg = -1
                        THEN [mousePacket EXCEPT ![3] = Negated(@)]
                        ELSE mousePacket
    /\ pc' = "moveX"
    /\ UNCHANGED <<mouseCycle, mousePacketReady, position, flags, shown, others>>

\* The distance a packet byte and its overflow flag stand for.
Distance(neg, b, over) == neg * b + (IF over THEN neg * 255 ELSE 0)

MoveX ==
    /\ pc = "moveX"
    /\ mousePosX' = Wrap(mousePosX
                           + Distance(flags.xNeg, mousePacket[2], flags.xOver))
    /\ pc' = "moveY"
    /\ UNCHANGED <<code, mousePosY, flags, shown, others>>

MoveY ==
    /\ pc = "moveY"
    /\ mousePosY' = Wrap(mousePosY
                           - Distance(flags.yNeg, mousePacket[3], flags.yOver))
    /\ pc' = "clamp"
    /\ UNCHANGED <<code, mousePosX, flags, shown, others>>

\* The test for a value below zero never holds of an unsigned value.
Clamp(p, size) == IF p < 0 THEN 0
                  ELSE IF p > size - 1 THEN size - 1 ELSE p

ClampPosition ==
    /\ pc = "clamp"
    /\ mousePosX' = Clamp(mousePosX, Width)
    /\ mousePosY' = Clamp(mousePosY, Height)
    /\ pc' = "release"
    /\ UNCHANGED <<code, flags, shown, others>>

\* Mutant: mousePacketReady is not cleared
Release_keeps ==
    /\ pc = "release"
    /\ captured' = NoPacket
    /\ settled' = position
    /\ pc' = "draw"
    /\ UNCHANGED <<code, position, flags, shown, heard, sent, lost,
                   strays>>

Release ==
    /\ pc = "release"
    /\ mousePacketReady' = FALSE
    /\ captured' = NoPacket
    /\ settled' = position
    /\ pc' = "draw"
    /\ UNCHANGED <<mouseCycle, mousePacket, position, flags, shown,
                   heard, sent, lost, strays>>

\* _fbPutChar draws an 8 by 16 glyph, or nothing where it would not fit.
Fits(x, y) == x + 8 <= Width /\ y + 16 <= Height

Draw ==
    /\ pc = "draw"
    /\ shown' = IF Fits(mousePosX, mousePosY) THEN position ELSE shown
    /\ pc' = "poll"
    /\ UNCHANGED <<code, position, flags, others>>

ProcessMousePacket == \/ Poll \/ ReadFlags \/ NegateX \/ NegateY
                      \/ MoveX \/ MoveY \/ ClampPosition \/ Release \/ Draw

-----------------------------------------------------------------------------
(* PS2MouseInit ends by reading port 0x60 once more: when the mouse has    *)
(* moved by then, that read takes the first byte of its first packet.  What *)
(* it polled before has left stray requests behind.                        *)
MInit ==
    /\ mouseCycle = 0
    /\ mousePacket = <<0, 0, 0>>
    /\ mousePacketReady = FALSE
    /\ mousePosX = 0 /\ mousePosY = 0
    /\ flags = FlagsOf(0)
    /\ pc = "poll"
    /\ shown = <<0, 0>>
    /\ heard = <<0, 0>>
    /\ captured = NoPacket
    /\ settled = <<0, 0>>
    /\ sent \in {0, 1}
    /\ lost = (sent = 1)
    /\ SInit

MNext == \/ \E d \in MouseBytes : intHandlePS2Mouse(d) \/ StolenByte(d)
         \/ \E d \in StrayBytes : StrayInterrupt(d)
         \/ KeyboardServed
         \/ ProcessMousePacket

MSpec == MInit /\ [][MNext]_vars

\* The main loop is never left, so ProcessMousePacket keeps being called,
\* and every handler returns to it.
MFairSpec == MSpec /\ WF_vars(ProcessMousePacket)

-----------------------------------------------------------------------------
Word == 0 .. WordSize - 1
Busy == {"readFlags", "negateX", "negateY", "moveX", "moveY", "clamp", "release"}

\* Type correctness: the state mouse.c keeps, with the widths it declares.
MTypeOK ==
    /\ mouseCycle \in 0 .. 2
    /\ mousePacket \in Byte \X Byte \X Byte
    /\ mousePacketReady \in BOOLEAN
    /\ mousePosX \in Word /\ mousePosY \in Word
    /\ flags \in [xNeg : {-1, 1}, yNeg : {-1, 1},
                  xOver : BOOLEAN, yOver : BOOLEAN]
    /\ pc \in Busy \cup {"poll", "draw"}
    /\ shown \in Word \X Word
    /\ heard \in Byte \X Byte
    /\ captured \in (Byte \X Byte \X Byte) \cup {NoPacket}
    /\ settled \in Word \X Word
    /\ sent \in 0 .. 2
    /\ lost \in BOOLEAN
    /\ strays \subseteq Ports

\* Where a packet takes the pointer: the whole of ProcessMousePacket, had it
\* run in one step.
Magnitude(b, neg) == IF neg = -1 THEN Negated(b) ELSE b

Target(pos, packet) ==
    LET f == FlagsOf(packet[1])
        dx == Distance(f.xNeg, Magnitude(packet[2], f.xNeg), f.xOver)
        dy == Distance(f.yNeg, Magnitude(packet[3], f.yNeg), f.yOver)
    IN <<Clamp(Wrap(pos[1] + dx), Width), Clamp(Wrap(pos[2] - dy), Height)>>

\* Handler and main loop implement a one-place mailbox: what is posted is
\* always the last three bytes of the line, with none left out between them,
\* the packet is not overwritten while it waits or is being worked on, it is
\* processed exactly once, and the pointer moves by the packet as posted.
Mailbox == INSTANCE PointerMailbox WITH Bytes <- Byte, mailbox <- captured,
                                        pointer <- settled
ImplementsMailbox == Mailbox!PSpec

\* The position is on the screen whenever ProcessMousePacket is not running,
\* and so is every glyph it draws, in full: the clamps come after all the
\* arithmetic that may wrap.
OnScreen(p) == p[1] \in 0 .. Width - 1 /\ p[2] \in 0 .. Height - 1

PointerOnScreen ==
    /\ pc \in {"poll", "readFlags", "draw", "release"} => OnScreen(position)
    /\ pc \in {"poll", "readFlags", "draw"} => position = settled
    /\ OnScreen(shown)
    /\ shown # <<0, 0>> => Fits(shown[1], shown[2])

\* How far ProcessMousePacket has got with the captured packet: what it has
\* already changed of the packet, the flags and the position.
MovedX == Wrap(settled[1] + Distance(flags.xNeg,
                                     Magnitude(captured[2], flags.xNeg),
                                     flags.xOver))
MovedY == Wrap(settled[2] - Distance(flags.yNeg,
                                     Magnitude(captured[3], flags.yNeg),
                                     flags.yOver))

Progress ==
    /\ pc \in Busy => mousePacketReady
    /\ pc \in Busy \ {"readFlags"} => flags = FlagsOf(captured[1])
    /\ pc \in {"negateX", "negateY", "moveX", "moveY"} =>
         mousePacket = <<captured[1],
                         IF pc = "negateX" THEN captured[2]
                           ELSE Magnitude(captured[2], flags.xNeg),
                         IF pc \in {"negateX", "negateY"} THEN captured[3]
                           ELSE Magnitude(captured[3], flags.yNeg)>>
    /\ pc \in {"negateX", "negateY", "moveX"} => position = settled
    /\ pc = "moveY" => position = <<MovedX, settled[2]>>
    /\ pc = "clamp" => position = <<MovedX, MovedY>>
    /\ pc = "release" => position = Target(settled, captured)

\* What a packet under construction holds: the last bytes of the line.
Gathering ==
    /\ mouseCycle # 0 => ~mousePacketReady
    /\ mouseCycle = 1 => mousePacket[1] = heard[2]
    /\ mouseCycle = 2 => mousePacket[1] = heard[1] /\ mousePacket[2] = heard[2]
    /\ mousePacketReady <=> captured # NoPacket
    /\ mousePacketReady /\ pc \in {"poll", "readFlags", "draw"} =>
         mousePacket = captured

\* Handler and mouse agree on where a packet starts until a byte is missed, at
\* the end of PS2MouseInit, because it came while a packet was waiting, or by
\* a stray request.
FramedUntilLoss == ~lost => mouseCycle = sent

\* The inductive invariant: no handler touches the packet from the moment it
\* is complete to its release, so that ProcessMousePacket, at any of its
\* steps, has done its work so far on the packet that was captured.
MouseInv == MTypeOK /\ PointerOnScreen /\ FramedUntilLoss
              /\ Gathering /\ Progress

\* A complete packet is processed: the main loop always empties the mailbox,
\* whatever the handler drops meanwhile.
PacketProcessed == mousePacketReady ~> ~mousePacketReady

\* A packet that moves left or up never takes the pointer right or down: the
\* clamp at zero of mouse.c:165 and :171.
StopsAtEdges ==
    [][pc = "clamp" =>
         /\ flags.xNeg = -1 => mousePosX' <= settled[1]
         /\ flags.yNeg = 1 => mousePosY' <= settled[2]]_vars
=============================================================================
