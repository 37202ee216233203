----------------------------- MODULE Mouse_proofs -----------------------------
(***************************************************************************)
(* Mouse implements its one-place mailbox, for every screen, every word    *)
(* size and every set of bytes the mouse may send.                         *)
(***************************************************************************)
EXTENDS Mouse, TLAPS

-----------------------------------------------------------------------------
(* Lemmas about the arithmetic.                                            *)

\* Storing an int in a uint64_t gives a word.
LEMMA WrapType == \A i \in Int : Wrap(i) \in Word
    BY WordAssumption DEF Wrap, Word

\* 256 - b in a uint8_t is a byte again.
LEMMA NegatedType == \A b \in Byte : Negated(b) \in Byte
    BY DEF Negated, Byte

\* Whatever was computed before, a clamped value is a pixel.
LEMMA ClampRange ==
    ASSUME NEW p \in Nat, NEW size \in Nat \ {0}
    PROVE  Clamp(p, size) \in 0 .. size - 1
    BY DEF Clamp

\* The flags of any byte, and the distance they give.
LEMMA FlagsType ==
    \A b : FlagsOf(b) \in [xNeg : {-1, 1}, yNeg : {-1, 1},
                           xOver : BOOLEAN, yOver : BOOLEAN]
    BY DEF FlagsOf, Sign, Has

LEMMA DistanceType ==
    ASSUME NEW neg \in {-1, 1}, NEW b \in Byte, NEW over \in BOOLEAN
    PROVE  Distance(neg, b, over) \in Int
<1>1. neg * b \in Int
    BY DEF Byte
<1> QED
    BY <1>1 DEF Distance

LEMMA MagnitudeType ==
    ASSUME NEW b \in Byte, NEW neg
    PROVE  Magnitude(b, neg) \in Byte
    BY NegatedType DEF Magnitude

-----------------------------------------------------------------------------
(* The inductive invariant.                                                *)

LEMMA InitInv == MInit => MouseInv
<1> SUFFICES ASSUME MInit PROVE MouseInv
    OBVIOUS
<1>1. MTypeOK
  <2>1. flags \in [xNeg : {-1, 1}, yNeg : {-1, 1},
                   xOver : BOOLEAN, yOver : BOOLEAN]
    BY FlagsType DEF MInit
  <2>2. 0 \in Byte /\ 0 \in Word
    BY WordAssumption DEF Byte, Word
  <2>3. lost \in BOOLEAN /\ strays \subseteq Ports /\ sent \in 0 .. 2
    BY DEF MInit, SInit
  <2>4. mousePacket \in Byte \X Byte \X Byte /\ heard \in Byte \X Byte
    BY <2>2 DEF MInit
  <2>5. shown \in Word \X Word /\ settled \in Word \X Word
    BY <2>2 DEF MInit
  <2>6. /\ mouseCycle \in 0 .. 2
        /\ mousePosX \in Word /\ mousePosY \in Word
    BY <2>2 DEF MInit
  <2>7. /\ mousePacketReady \in BOOLEAN
        /\ pc \in Busy \cup {"poll", "draw"}
        /\ captured \in (Byte \X Byte \X Byte) \cup {NoPacket}
    BY DEF MInit
  <2> QED
    BY <2>1, <2>3, <2>4, <2>5, <2>6, <2>7, Zenon DEF MTypeOK
<1>2. PointerOnScreen
    BY ScreenAssumption DEF MInit, PointerOnScreen, OnScreen, position, Busy
<1>3. FramedUntilLoss /\ Gathering /\ Progress
    BY DEF MInit, FramedUntilLoss, Gathering, Progress, Busy
<1> QED
    BY <1>1, <1>2, <1>3 DEF MouseInv

\* The handler: a byte it keeps goes into a packet nobody reads, and it
\* leaves a packet that is complete alone.
LEMMA ReceiveStep ==
    ASSUME MouseInv, NEW d \in Byte, Receive(d),
           sent' \in 0 .. 2, lost' \in BOOLEAN, FramedUntilLoss',
           strays' \subseteq Ports
    PROVE  MouseInv'
<1> USE DEF MouseInv
<1>1. CASE Drops(d)
  <2>0. UNCHANGED <<code, position, flags, pc, shown, settled, captured>>
      BY <1>1 DEF Receive, handlePS2Mouse, code, MTypeOK
  <2>1. MTypeOK'
      BY <2>0 DEF Receive, MTypeOK, code, position
  <2>2. PointerOnScreen'
      BY <2>0 DEF PointerOnScreen, OnScreen, position
  <2>3. FramedUntilLoss'
      OBVIOUS
  <2>4. Gathering'
      BY <1>1, <2>0 DEF Receive, Gathering, Drops, code, MTypeOK
  <2>5. Progress'
      BY <2>0 DEF Progress, code, position, MovedX, MovedY
  <2> QED
      BY <2>1, <2>2, <2>3, <2>4, <2>5
<1>2. CASE ~Drops(d)
  <2>0. /\ ~mousePacketReady
        /\ pc \in {"poll", "draw"}
        /\ mousePacket' = [mousePacket EXCEPT ![mouseCycle + 1] = d]
        /\ mouseCycle' = (mouseCycle + 1) % 3
        /\ mousePacketReady' = (mouseCycle = 2)
        /\ UNCHANGED <<position, flags, pc, shown, settled>>
        /\ heard' = <<heard[2], d>>
      BY <1>2 DEF Receive, handlePS2Mouse, Drops, Progress, MTypeOK
  <2>1. mousePacket' \in Byte \X Byte \X Byte
      BY <2>0 DEF MTypeOK
  <2>2. /\ mouseCycle = 0 => mousePacket'[1] = d
        /\ mouseCycle = 1 => /\ mousePacket'[1] = mousePacket[1]
                             /\ mousePacket'[2] = d
        /\ mouseCycle = 2 => mousePacket' = <<mousePacket[1], mousePacket[2], d>>
      BY <2>0 DEF MTypeOK
  <2>3. captured' = IF mouseCycle = 2 THEN <<heard[1], heard[2], d>>
                                      ELSE NoPacket
      BY <2>0 DEF Receive, Gathering
  <2>4. captured' \in (Byte \X Byte \X Byte) \cup {NoPacket}
      BY <2>3 DEF MTypeOK
  <2>5. MTypeOK'
    <3>1. mouseCycle' \in 0 .. 2 /\ heard' \in Byte \X Byte
        BY <2>0 DEF MTypeOK
    <3>2. mousePacketReady' \in BOOLEAN
        BY <2>0, Zenon
    <3>3. /\ mousePosX' = mousePosX /\ mousePosY' = mousePosY
          /\ UNCHANGED <<flags, pc, shown, settled>>
        BY <2>0 DEF position
    <3> QED
        BY <2>1, <2>4, <3>1, <3>2, <3>3, Zenon DEF MTypeOK
  <2>6. PointerOnScreen'
      BY <2>0 DEF PointerOnScreen, OnScreen, position
  <2>7. FramedUntilLoss'
      OBVIOUS
  <2>8. Gathering'
    <3>1. CASE mouseCycle = 0
        BY <2>0, <2>2, <2>3, <3>1 DEF Gathering, MTypeOK
    <3>2. CASE mouseCycle = 1
        BY <2>0, <2>2, <2>3, <3>2 DEF Gathering, MTypeOK
    <3>3. CASE mouseCycle = 2
      <4>1. captured' # NoPacket
          BY <2>3, <3>3, NoPacketAssumption DEF MTypeOK
      <4>2. mousePacket' = captured'
          BY <2>2, <2>3, <3>3 DEF Gathering
      <4>3. mouseCycle' = 0
          BY <2>0, <3>3, SMT
      <4>4. mousePacketReady'
          BY <2>0, <3>3, Zenon
      <4> QED
          BY <4>1, <4>2, <4>3, <4>4, SMT DEF Gathering
    <3> QED
        BY <3>1, <3>2, <3>3 DEF MTypeOK
  <2>9. Progress'
      BY <2>0 DEF Progress, Busy
  <2> QED
      BY <2>5, <2>6, <2>7, <2>8, <2>9
<1> QED
    BY <1>1, <1>2

\* A byte of the mouse advances both counts alike, unless it is lost.
LEMMA HandlerStep ==
    ASSUME MouseInv, NEW d \in MouseBytes, intHandlePS2Mouse(d)
    PROVE  MouseInv'
<1> USE DEF MouseInv
<1>1. d \in Byte
    BY BytesAssumption
<1>2. sent' \in 0 .. 2 /\ lost' \in BOOLEAN /\ strays' \subseteq Ports
    BY DEF intHandlePS2Mouse, Sends, MTypeOK, Settle
<1>3. FramedUntilLoss'
  <2>1. SUFFICES ASSUME ~lost' PROVE mouseCycle' = sent'
      BY DEF FramedUntilLoss
  <2>2. ~lost /\ ~mousePacketReady
      BY <2>1 DEF intHandlePS2Mouse, MTypeOK
  <2>3. mouseCycle = sent
      BY <2>2 DEF FramedUntilLoss
  <2>4. ~Drops(d)
      BY <2>2, <2>3 DEF Drops, intHandlePS2Mouse, Sends
  <2> QED
      BY <2>3, <2>4 DEF intHandlePS2Mouse, Sends, Receive, handlePS2Mouse
<1> QED
    BY <1>1, <1>2, <1>3, ReceiveStep DEF intHandlePS2Mouse

LEMMA StrayStep ==
    ASSUME MouseInv, NEW d \in StrayBytes, StrayInterrupt(d)
    PROVE  MouseInv'
<1>1. d \in Byte
    BY BytesAssumption
<1>2. sent' \in 0 .. 2 /\ lost' \in BOOLEAN /\ FramedUntilLoss' /\ strays' \subseteq Ports
    BY DEF StrayInterrupt, MouseInv, MTypeOK, FramedUntilLoss, Settle, Pass, Other, Ports
<1> QED
    BY <1>1, <1>2, ReceiveStep DEF StrayInterrupt

\* What the keyboard's handler does leaves the driver of the mouse alone.
LEMMA ElsewhereStep ==
    ASSUME MouseInv, KeyboardServed \/ \E d \in MouseBytes : StolenByte(d)
    PROVE  MouseInv'
<1>1. /\ UNCHANGED <<code, position, flags, pc, shown, heard, captured, settled>>
      /\ sent' \in 0 .. 2 /\ lost' \in BOOLEAN /\ strays' \subseteq Ports
      /\ UNCHANGED <<sent, lost>> \/ lost'
  <2>1. CASE KeyboardServed
      BY <2>1 DEF KeyboardServed, MouseInv, MTypeOK, Settle
  <2>2. ASSUME NEW d \in MouseBytes, StolenByte(d)
        PROVE  /\ UNCHANGED <<code, position, flags, pc, shown, heard, captured, settled>>
               /\ sent' \in 0 .. 2 /\ lost' = TRUE /\ strays' \subseteq Ports
    <3>1. sent' \in 0 .. 2
        BY <2>2 DEF StolenByte, Sends, MouseInv, MTypeOK
    <3>2. strays' \subseteq Ports
        BY <2>2 DEF StolenByte, Pass, Other, Ports
    <3> QED BY <2>2, <3>1, <3>2 DEF StolenByte
  <2> QED BY <2>1, <2>2
<1>2. MTypeOK' /\ PointerOnScreen' /\ FramedUntilLoss'
    BY <1>1 DEF MouseInv, MTypeOK, PointerOnScreen, FramedUntilLoss, OnScreen,
                code, position
<1>3. Gathering' /\ Progress'
    BY <1>1 DEF MouseInv, Gathering, Progress, MovedX, MovedY, code, position
<1> QED
    BY <1>2, <1>3 DEF MouseInv

-----------------------------------------------------------------------------
\* The main loop: each statement leaves what the next one relies on.
LEMMA ProcessStep ==
    ASSUME MouseInv, ProcessMousePacket
    PROVE  MouseInv'
<1> USE DEF MouseInv
<1>0. CASE Poll
  <2>1. MTypeOK'
      BY <1>0 DEF Poll, MTypeOK, code, position, others, Busy
  <2>2. PointerOnScreen' /\ FramedUntilLoss'
      BY <1>0 DEF Poll, PointerOnScreen, FramedUntilLoss, OnScreen,
                  code, position, others
  <2>3. Gathering' /\ Progress'
      BY <1>0 DEF Poll, Gathering, Progress, PointerOnScreen, Busy,
                  code, position, others
  <2> QED
      BY <2>1, <2>2, <2>3
<1>1. CASE ReadFlags
  <2>1. MTypeOK'
      BY <1>1, FlagsType DEF ReadFlags, MTypeOK, code, position, others, Busy
  <2>2. PointerOnScreen' /\ FramedUntilLoss'
      BY <1>1 DEF ReadFlags, PointerOnScreen, FramedUntilLoss, OnScreen,
                  code, position, others
  <2>3. Gathering'
      BY <1>1 DEF ReadFlags, Gathering, Progress, Busy, code, others
  <2>4. mousePacket = captured
      BY <1>1 DEF ReadFlags, Gathering, Progress, Busy
  <2>5. captured = <<captured[1], captured[2], captured[3]>>
      BY <2>4 DEF MTypeOK
  <2>6. Progress'
      BY <1>1, <2>4, <2>5 DEF ReadFlags, Progress, PointerOnScreen, Busy,
                              code, position, others
  <2> QED
      BY <2>1, <2>2, <2>3, <2>6
<1>2. CASE NegateX
  <2>1. mousePacket' = <<captured[1], Magnitude(captured[2], flags.xNeg),
                         captured[3]>>
      BY <1>2 DEF NegateX, Progress, Magnitude
  <2>2. mousePacket' \in Byte \X Byte \X Byte
      BY <1>2, NegatedType DEF NegateX, MTypeOK
  <2>3. MTypeOK'
      BY <1>2, <2>2 DEF NegateX, MTypeOK, position, others, Busy
  <2>4. PointerOnScreen' /\ FramedUntilLoss'
      BY <1>2 DEF NegateX, PointerOnScreen, FramedUntilLoss, OnScreen,
                  position, others
  <2>5. Gathering'
      BY <1>2 DEF NegateX, Gathering, Progress, Busy, others
  <2>6. Progress'
      BY <1>2, <2>1 DEF NegateX, Progress, Busy, position, others
  <2> QED
      BY <2>3, <2>4, <2>5, <2>6
<1>3. CASE NegateY
  <2>1. mousePacket' = <<captured[1], Magnitude(captured[2], flags.xNeg),
                         Magnitude(captured[3], flags.yNeg)>>
      BY <1>3 DEF NegateY, Progress, Magnitude
  <2>2. mousePacket' \in Byte \X Byte \X Byte
      BY <1>3, NegatedType DEF NegateY, MTypeOK
  <2>3. MTypeOK'
      BY <1>3, <2>2 DEF NegateY, MTypeOK, position, others, Busy
  <2>4. PointerOnScreen' /\ FramedUntilLoss'
      BY <1>3 DEF NegateY, PointerOnScreen, FramedUntilLoss, OnScreen,
                  position, others
  <2>5. Gathering'
      BY <1>3 DEF NegateY, Gathering, Progress, Busy, others
  <2>6. Progress'
      BY <1>3, <2>1 DEF NegateY, Progress, Busy, position, others
  <2> QED
      BY <2>3, <2>4, <2>5, <2>6
<1>4. CASE MoveX
  <2>1. /\ mousePosX' = MovedX
        /\ mousePosY' = settled[2]
      BY <1>4 DEF MoveX, Progress, position, MovedX, Magnitude
  <2>2. Distance(flags.xNeg, mousePacket[2], flags.xOver) \in Int
      BY DistanceType DEF MTypeOK
  <2>3. mousePosX' \in Word
      BY <1>4, <2>2, WrapType DEF MoveX, MTypeOK, Word
  <2>4. MTypeOK'
      BY <1>4, <2>3 DEF MoveX, MTypeOK, code, others, Busy
  <2>5. PointerOnScreen' /\ FramedUntilLoss'
      BY <1>4 DEF MoveX, PointerOnScreen, FramedUntilLoss, OnScreen,
                  code, others
  <2>6. Gathering'
      BY <1>4 DEF MoveX, Gathering, code, others
  <2>7. Progress'
      BY <1>4, <2>1 DEF MoveX, Progress, Busy, position, code, others, MovedX
  <2> QED
      BY <2>4, <2>5, <2>6, <2>7
<1>5. CASE MoveY
  <2>0. /\ mousePacket[3] = Magnitude(captured[3], flags.yNeg)
        /\ mousePosX = MovedX /\ mousePosY = settled[2]
      BY <1>5 DEF MoveY, Progress, position
  <2>1. /\ mousePosX' = MovedX
        /\ mousePosY' = MovedY
      BY <1>5, <2>0 DEF MoveY, MovedY
  <2>2. Distance(flags.yNeg, mousePacket[3], flags.yOver) \in Int
      BY DistanceType DEF MTypeOK
  <2>3. mousePosY' \in Word
      BY <1>5, <2>2, WrapType DEF MoveY, MTypeOK, Word
  <2>4. MTypeOK'
      BY <1>5, <2>3 DEF MoveY, MTypeOK, code, others, Busy
  <2>5. PointerOnScreen' /\ FramedUntilLoss'
      BY <1>5 DEF MoveY, PointerOnScreen, FramedUntilLoss, OnScreen,
                  code, others
  <2>6. Gathering'
      BY <1>5 DEF MoveY, Gathering, code, others
  <2>7. Progress'
      BY <1>5, <2>1 DEF MoveY, Progress, Busy, position, code, others,
                        MovedX, MovedY
  <2> QED
      BY <2>4, <2>5, <2>6, <2>7
<1>6. CASE ClampPosition
  <2>1. mousePosX' \in 0 .. Width - 1 /\ mousePosY' \in 0 .. Height - 1
      BY <1>6, ClampRange, ScreenAssumption
         DEF ClampPosition, MTypeOK, Word
  <2>2. mousePosX' <= mousePosX /\ mousePosY' <= mousePosY
      BY <1>6, ScreenAssumption DEF ClampPosition, Clamp, MTypeOK, Word
  <2>3. mousePosX' \in Word /\ mousePosY' \in Word
      BY <2>1, <2>2, ScreenAssumption, WordAssumption DEF MTypeOK, Word
  <2>4. MTypeOK'
      BY <1>6, <2>3 DEF ClampPosition, MTypeOK, code, others, Busy
  <2>5. PointerOnScreen' /\ FramedUntilLoss'
      BY <1>6, <2>1 DEF ClampPosition, PointerOnScreen, FramedUntilLoss,
                        OnScreen, position, code, others
  <2>6. Gathering'
      BY <1>6 DEF ClampPosition, Gathering, code, others
  <2>7. position' = Target(settled, captured)
      BY <1>6 DEF ClampPosition, Progress, Busy, position, Target,
                  MovedX, MovedY
  <2>8. Progress'
      BY <1>6, <2>7 DEF ClampPosition, Progress, Busy, code, others, Target
  <2> QED
      BY <2>4, <2>5, <2>6, <2>8
<1>7. CASE Release
  <2>1. MTypeOK'
      BY <1>7 DEF Release, MTypeOK, position, Busy
  <2>2. PointerOnScreen' /\ FramedUntilLoss'
      BY <1>7 DEF Release, PointerOnScreen, FramedUntilLoss, OnScreen, position
  <2>3. Gathering'
      BY <1>7 DEF Release, Gathering, Progress, Busy
  <2>4. Progress'
      BY <1>7 DEF Release, Progress, Busy
  <2> QED
      BY <2>1, <2>2, <2>3, <2>4
<1>8. CASE Draw
  <2>1. MTypeOK'
      BY <1>8 DEF Draw, MTypeOK, position, code, others, Busy
  <2>2. PointerOnScreen' /\ FramedUntilLoss'
      BY <1>8 DEF Draw, PointerOnScreen, FramedUntilLoss, OnScreen,
                  position, code, others
  <2>3. Gathering'
      BY <1>8 DEF Draw, Gathering, code, others
  <2>4. Progress'
      BY <1>8 DEF Draw, Progress, Busy
  <2> QED
      BY <2>1, <2>2, <2>3, <2>4
<1> QED
    BY <1>0, <1>1, <1>2, <1>3, <1>4, <1>5, <1>6, <1>7, <1>8 DEF ProcessMousePacket

LEMMA StutterStep ==
    ASSUME MouseInv, UNCHANGED vars
    PROVE  MouseInv'
<1>1. MTypeOK' /\ PointerOnScreen' /\ FramedUntilLoss'
    BY DEF MouseInv, MTypeOK, PointerOnScreen, FramedUntilLoss, OnScreen,
           vars, code, position, others
<1>2. Gathering' /\ Progress'
    BY DEF MouseInv, Gathering, Progress, MovedX, MovedY,
           vars, code, position, others
<1> QED
    BY <1>1, <1>2 DEF MouseInv

\* At every step ProcessMousePacket has done its work so far on the packet
\* that was captured, whatever the handler did between its statements.
THEOREM MouseInvariance == MSpec => []MouseInv
<1>1. MouseInv /\ [MNext]_vars => MouseInv'
    BY HandlerStep, StrayStep, ElsewhereStep, ProcessStep, StutterStep DEF MNext
<1> QED
    BY InitInv, <1>1, PTL DEF MSpec

\* The position and the glyphs drawn stay on the screen.
THEOREM OnScreenAlways == MSpec => []PointerOnScreen
    BY MouseInvariance, PTL DEF MouseInv

\* Handler and mouse agree on packet boundaries until a byte is missed.
THEOREM Framed == MSpec => []FramedUntilLoss
    BY MouseInvariance, PTL DEF MouseInv

\* Handler and main loop implement the one-place mailbox.
THEOREM MailboxRefinement == MSpec => ImplementsMailbox
<1>1. MInit => Mailbox!PInit
    BY DEF MInit, Mailbox!PInit, Byte
<1>2. MouseInv /\ [MNext]_vars => [Mailbox!PNext]_Mailbox!pvars
  <2> SUFFICES ASSUME MouseInv, [MNext]_vars
               PROVE  [Mailbox!PNext]_Mailbox!pvars
      OBVIOUS
  <2>1. ASSUME NEW d \in Byte, Receive(d)
        PROVE  Mailbox!PNext
    <3>1. CASE captured' = captured
        BY <2>1, <3>1 DEF Receive, Mailbox!PNext, Mailbox!Hear
    <3>2. CASE captured' # captured
      <4>1. captured' = <<heard[1], heard[2], d>> /\ captured = NoPacket
          BY <2>1, <3>2 DEF Receive, MouseInv, Gathering
      <4> QED
          BY <2>1, <4>1 DEF Receive, Mailbox!PNext, Mailbox!Post
    <3> QED
        BY <3>1, <3>2
  <2>2. CASE Release
    <3>1. captured # NoPacket /\ position = Target(settled, captured)
        BY <2>2 DEF Release, MouseInv, Gathering, Progress, Busy
    <3> QED
        BY <2>2, <3>1 DEF Release, Mailbox!PNext, Mailbox!Take
  <2>3. CASE \/ Poll \/ ReadFlags \/ NegateX \/ NegateY \/ MoveX \/ MoveY
             \/ ClampPosition \/ Draw \/ UNCHANGED vars
      BY <2>3 DEF Poll, ReadFlags, NegateX, NegateY, MoveX, MoveY, ClampPosition,
                  Draw, vars, others, Mailbox!pvars
  <2>4. ASSUME NEW d \in MouseBytes, intHandlePS2Mouse(d)
        PROVE  Mailbox!PNext
      BY <2>1, <2>4, BytesAssumption DEF intHandlePS2Mouse
  <2>5. ASSUME NEW d \in StrayBytes, StrayInterrupt(d)
        PROVE  Mailbox!PNext
      BY <2>1, <2>5, BytesAssumption DEF StrayInterrupt
  <2>6. CASE KeyboardServed \/ \E d \in MouseBytes : StolenByte(d)
      BY <2>6 DEF KeyboardServed, StolenByte, Mailbox!pvars
  <2> QED
      BY <2>2, <2>3, <2>4, <2>5, <2>6 DEF MNext, ProcessMousePacket
<1> QED
    BY <1>1, <1>2, MouseInvariance, PTL
       DEF MSpec, ImplementsMailbox, Mailbox!PSpec
=============================================================================
