--------------------------- MODULE Interrupts_proofs ---------------------------
(***************************************************************************)
(* That the interrupts of the UEFI kernel find their gates, their bytes    *)
(* and their end, however devices and code interleave, for every set of    *)
(* other devices.                                                          *)
(***************************************************************************)
EXTENDS Interrupts, TLAPS

\* picSendEOI ends the only interrupt in service at a controller.
LEMMA FinishesTheOne ==
    ASSUME NEW lines, NEW l \in Nat, isr \cap lines = {l}
    PROVE  Finish(lines) = isr \ {l}
<1>1. Min({l}) = l
    <2>1. l \in {l} /\ \A y \in {l} : l <= y
        OBVIOUS
    <2>2. (CHOOSE x \in {l} : \A y \in {l} : x <= y) = l
        BY <2>1
    <2> QED BY <2>2 DEF Min
<1> QED BY <1>1 DEF Finish

LEMMA LinesAreNumbers ==
    /\ OtherLines \subseteq Lines /\ Lines \subseteq 0 .. 15
    /\ {IRQ_KEYBOARD_INT, IRQ_CASCADE, IRQ_PS2_MOUSE} \subseteq Lines
    /\ IRQ_KEYBOARD_INT \notin OtherLines /\ IRQ_CASCADE \notin OtherLines
    /\ IRQ_PS2_MOUSE \notin OtherLines
BY LinesAssumption DEF Lines, IRQ_KEYBOARD_INT, IRQ_CASCADE, IRQ_PS2_MOUSE

\* Each kind of byte raises the request of one line.
LEMMA LinesOfKinds ==
    /\ LineOf("keyboard") = {IRQ_KEYBOARD_INT} /\ LineOf("config") = {IRQ_KEYBOARD_INT}
    /\ LineOf("packet") = {IRQ_PS2_MOUSE} /\ LineOf("ack") = {IRQ_PS2_MOUSE}
BY DEF LineOf, KindsOf, IRQ_KEYBOARD_INT, IRQ_PS2_MOUSE

LEMMA Initially == ASSUME IInit PROVE ControllersInv
<1>1. Wired
  <2>1. irr \subseteq Lines /\ isr \subseteq Lines /\ imr \subseteq Lines /\ gates \subseteq Lines
    BY LinesAreNumbers DEF IInit
  <2>2. {keyboardOn, auxOn, auxIRQ, reporting} \subseteq BOOLEAN
    BY DEF IInit
  <2>3. ITypeOK
    BY <2>1, <2>2 DEF IInit, ITypeOK, Kinds
  <2>4. NoStrayInterrupt /\ AllEnded /\ Prepared /\ InService
    BY DEF IInit, NoStrayInterrupt, AllEnded, Prepared, InService, Unloaded,
           Unassigned, IRQ_KEYBOARD_INT, IRQ_CASCADE
  <2> QED BY <2>3, <2>4 DEF Wired
<1>2. Conversation
    BY DEF IInit, Conversation, Unassigned, Unloaded, Enabled, Handlers
<1>3. Owned
    BY DEF IInit, Owned, OwnByteOf, KindsOf, IRQ_KEYBOARD_INT, IRQ_PS2_MOUSE
<1>4. Backed
    BY DEF IInit, Backed, Configured, Enabled, Handlers
<1> QED BY <1>1, <1>2, <1>3, <1>4 DEF ControllersInv

\* A request rises with its byte, and the byte stays until it is read.
LEMMA DevicesKeep ==
    ASSUME ControllersInv, Devices
    PROVE  ControllersInv'
<1> USE DEF ITypeOK, NoStrayInterrupt, AllEnded, Prepared, InService, Unloaded,
            Unassigned, Enabled, Configured, Handlers, Kinds, KindsOf, Owed, Step, idt, pic, i8042,
            IRQ_KEYBOARD_INT, IRQ_CASCADE, IRQ_PS2_MOUSE
<1>0. UNCHANGED <<pc, enabled, gates, loaded, imr, isr, keyboardOn, auxOn, auxIRQ,
                  reporting, late, status>>
    BY DEF Devices
<1>1. CASE KeyboardByte
  <2>1. irr' = irr \cup {1} /\ orphan' = orphan \ {1} /\ from' \in Kinds /\ full' = TRUE
    BY <1>1, LinesOfKinds DEF KeyboardByte, Supply
  <2>2. answers' \subseteq answers
    BY <1>1 DEF KeyboardByte, Supply
  <2>a. Wired'
    BY <1>0, <2>1, <2>2, LinesAreNumbers DEF ControllersInv, Wired
  <2>b. Conversation'
    BY <1>0, <1>1 DEF ControllersInv, Wired, Conversation, KeyboardByte, Supply, LineOf
  <2>c. Owned'
    BY <1>0, <1>1 DEF ControllersInv, Wired, Owned, OwnByteOf, KeyboardByte, Supply, LineOf
  <2>d. Backed'
    BY <1>0, <1>1 DEF ControllersInv, Wired, Backed, KeyboardByte, Supply, LineOf
  <2> QED BY <2>a, <2>b, <2>c, <2>d DEF ControllersInv
<1>2. ASSUME NEW a \in answers, Answer(a) PROVE ControllersInv'
  <2>1. irr' \in {irr, irr \cup {1}, irr \cup {12}} /\ orphan' \subseteq orphan /\ from' \in Kinds /\ full' = TRUE
    BY <1>2, LinesOfKinds DEF Answer, Supply
  <2>2. answers' \subseteq answers
    BY <1>2 DEF Answer, Supply
  <2>a. Wired'
    BY <1>0, <2>1, <2>2, LinesAreNumbers DEF ControllersInv, Wired
  <2>b. Conversation'
    BY <1>0, <1>2 DEF ControllersInv, Wired, Conversation, Answer, Supply, LineOf
  <2>c. Owned'
    BY <1>0, <1>2 DEF ControllersInv, Wired, Owned, OwnByteOf, Answer, Supply, LineOf
  <2>d. Backed'
    BY <1>0, <1>2 DEF ControllersInv, Wired, Backed, Answer, Supply, LineOf
  <2> QED BY <2>a, <2>b, <2>c, <2>d DEF ControllersInv
<1>3. CASE MousePacketByte
  <2>1. irr' \in {irr, irr \cup {12}} /\ orphan' \subseteq orphan /\ from' \in Kinds /\ full' = TRUE
    BY <1>3, LinesOfKinds DEF MousePacketByte, Supply, Acks
  <2>2. answers' \subseteq answers
    BY <1>3 DEF MousePacketByte, Supply, Acks
  <2>a. Wired'
    BY <1>0, <2>1, <2>2, LinesAreNumbers DEF ControllersInv, Wired
  <2>b. Conversation'
    BY <1>0, <1>3 DEF ControllersInv, Wired, Conversation, MousePacketByte, Supply, LineOf, Acks
  <2>c. Owned'
    BY <1>0, <1>3 DEF ControllersInv, Wired, Owned, OwnByteOf, MousePacketByte, Supply, LineOf, Acks
  <2>d. Backed'
    BY <1>0, <1>3 DEF ControllersInv, Wired, Backed, MousePacketByte, Supply, LineOf, Acks
  <2> QED BY <2>a, <2>b, <2>c, <2>d DEF ControllersInv
<1>4. ASSUME NEW l \in OtherLines, OtherRequest(l) PROVE ControllersInv'
  <2>a. Wired'
    BY <1>0, <1>4, LinesAreNumbers DEF ControllersInv, Wired, OtherRequest
  <2>b. Conversation'
    BY <1>0, <1>4 DEF ControllersInv, Wired, Conversation, OtherRequest
  <2>c. Owned'
    BY <1>0, <1>4, LinesAreNumbers DEF ControllersInv, Owned, OwnByteOf, OtherRequest
  <2>d. Backed'
    BY <1>0, <1>4 DEF ControllersInv, Wired, Backed, OtherRequest
  <2> QED BY <2>a, <2>b, <2>c, <2>d DEF ControllersInv
<1> QED BY <1>1, <1>2, <1>3, <1>4 DEF Devices

\* Each statement of prepareInterrupts finds the controllers as the ones before
\* it left them.
LEMMA SetUpKeeps ==
    ASSUME ControllersInv, prepareInterrupts
    PROVE  ControllersInv'
<1> USE DEF ITypeOK, NoStrayInterrupt, AllEnded, Prepared, InService, Unloaded,
            Unassigned, Enabled, Configured, Handlers, Kinds, KindsOf, Owed, Step, idt, pic, i8042,
            IRQ_KEYBOARD_INT, IRQ_CASCADE, IRQ_PS2_MOUSE
<1>1. CASE Cli
  <2>a. Wired'
    BY <1>1, LinesAreNumbers DEF ControllersInv, Wired, Cli
  <2>b. Conversation'
    BY <1>1 DEF ControllersInv, Wired, Conversation, Cli
  <2>c. Owned'
    BY <1>1 DEF ControllersInv, Wired, Owned, OwnByteOf, Cli
  <2>d. Backed'
    BY <1>1 DEF ControllersInv, Wired, Backed, Cli
  <2> QED BY <2>a, <2>b, <2>c, <2>d DEF ControllersInv
<1>2. CASE remapPIC
  <2>a. Wired'
    BY <1>2, LinesAreNumbers DEF ControllersInv, Wired, remapPIC
  <2>b. Conversation'
    BY <1>2 DEF ControllersInv, Wired, Conversation, remapPIC
  <2>c. Owned'
    BY <1>2 DEF ControllersInv, Wired, Owned, OwnByteOf, remapPIC
  <2>d. Backed'
    BY <1>2 DEF ControllersInv, Wired, Backed, remapPIC
  <2> QED BY <2>a, <2>b, <2>c, <2>d DEF ControllersInv
<1>3. CASE Lidt
  <2>a. Wired'
    BY <1>3, LinesAreNumbers DEF ControllersInv, Wired, Lidt
  <2>b. Conversation'
    BY <1>3 DEF ControllersInv, Wired, Conversation, Lidt
  <2>c. Owned'
    BY <1>3 DEF ControllersInv, Wired, Owned, OwnByteOf, Lidt
  <2>d. Backed'
    BY <1>3 DEF ControllersInv, Wired, Backed, Lidt
  <2> QED BY <2>a, <2>b, <2>c, <2>d DEF ControllersInv
<1>4. CASE irqSetMask
  <2>a. Wired'
    BY <1>4, LinesAreNumbers DEF ControllersInv, Wired, irqSetMask
  <2>b. Conversation'
    BY <1>4 DEF ControllersInv, Wired, Conversation, irqSetMask
  <2>c. Owned'
    BY <1>4 DEF ControllersInv, Wired, Owned, OwnByteOf, irqSetMask
  <2>d. Backed'
    BY <1>4 DEF ControllersInv, Wired, Backed, irqSetMask
  <2> QED BY <2>a, <2>b, <2>c, <2>d DEF ControllersInv
<1>5. CASE IntAssignFunc
  <2>a. Wired'
    BY <1>5, LinesAreNumbers DEF ControllersInv, Wired, IntAssignFunc
  <2>b. Conversation'
    BY <1>5 DEF ControllersInv, Wired, Conversation, IntAssignFunc
  <2>c. Owned'
    BY <1>5 DEF ControllersInv, Wired, Owned, OwnByteOf, IntAssignFunc
  <2>d. Backed'
    BY <1>5 DEF ControllersInv, Wired, Backed, IntAssignFunc
  <2> QED BY <2>a, <2>b, <2>c, <2>d DEF ControllersInv
<1>6. CASE UnmaskKeyboard
  <2>a. Wired'
    BY <1>6, LinesAreNumbers DEF ControllersInv, Wired, UnmaskKeyboard, irqClearMask
  <2>b. Conversation'
    BY <1>6 DEF ControllersInv, Wired, Conversation, UnmaskKeyboard, irqClearMask
  <2>c. Owned'
    BY <1>6 DEF ControllersInv, Wired, Owned, OwnByteOf, UnmaskKeyboard, irqClearMask
  <2>d. Backed'
    BY <1>6 DEF ControllersInv, Wired, Backed, UnmaskKeyboard, irqClearMask
  <2> QED BY <2>a, <2>b, <2>c, <2>d DEF ControllersInv
<1>7. CASE UnmaskCascade
  <2>a. Wired'
    BY <1>7, LinesAreNumbers DEF ControllersInv, Wired, UnmaskCascade, irqClearMask
  <2>b. Conversation'
    BY <1>7 DEF ControllersInv, Wired, Conversation, UnmaskCascade, irqClearMask
  <2>c. Owned'
    BY <1>7 DEF ControllersInv, Wired, Owned, OwnByteOf, UnmaskCascade, irqClearMask
  <2>d. Backed'
    BY <1>7 DEF ControllersInv, Wired, Backed, UnmaskCascade, irqClearMask
  <2> QED BY <2>a, <2>b, <2>c, <2>d DEF ControllersInv
<1>8. CASE UnmaskMouse
  <2>a. Wired'
    BY <1>8, LinesAreNumbers DEF ControllersInv, Wired, UnmaskMouse, irqClearMask
  <2>b. Conversation'
    BY <1>8 DEF ControllersInv, Wired, Conversation, UnmaskMouse, irqClearMask
  <2>c. Owned'
    BY <1>8 DEF ControllersInv, Wired, Owned, OwnByteOf, UnmaskMouse, irqClearMask
  <2>d. Backed'
    BY <1>8 DEF ControllersInv, Wired, Backed, UnmaskMouse, irqClearMask
  <2> QED BY <2>a, <2>b, <2>c, <2>d DEF ControllersInv
<1>9. CASE Sti
  <2>a. Wired'
    BY <1>9, LinesAreNumbers DEF ControllersInv, Wired, Sti
  <2>b. Conversation'
    BY <1>9 DEF ControllersInv, Wired, Conversation, Sti
  <2>c. Owned'
    BY <1>9 DEF ControllersInv, Wired, Owned, OwnByteOf, Sti
  <2>d. Backed'
    BY <1>9 DEF ControllersInv, Wired, Backed, Sti
  <2> QED BY <2>a, <2>b, <2>c, <2>d DEF ControllersInv
<1>10. CASE PS2MouseInit
  <2>1. CASE DisableKeyboard
    <3>a. Wired'
      BY <2>1, LinesAreNumbers DEF ControllersInv, Wired, DisableKeyboard
    <3>b. Conversation'
      BY <2>1 DEF ControllersInv, Wired, Conversation, DisableKeyboard
    <3>c. Owned'
      BY <2>1 DEF ControllersInv, Wired, Owned, OwnByteOf, DisableKeyboard
    <3>d. Backed'
      BY <2>1 DEF ControllersInv, Wired, Backed, DisableKeyboard
    <3> QED BY <3>a, <3>b, <3>c, <3>d DEF ControllersInv
  <2>2. CASE Drain
    <3>a. Wired'
      BY <2>2, LinesAreNumbers DEF ControllersInv, Wired, Drain, ReadData, Answered, Acks, LineOf
    <3>b. Conversation'
      BY <2>2 DEF ControllersInv, Wired, Conversation, Drain, ReadData, Answered, Acks, LineOf
    <3>c. Owned'
      BY <2>2 DEF ControllersInv, Wired, Owned, OwnByteOf, Drain, ReadData, Answered, Acks, LineOf
    <3>d. Backed'
      BY <2>2 DEF ControllersInv, Wired, Backed, Drain, ReadData, Answered, Acks, LineOf
    <3> QED BY <3>a, <3>b, <3>c, <3>d DEF ControllersInv
  <2>3. CASE AskConfig
    <3>a. Wired'
      BY <2>3, LinesAreNumbers DEF ControllersInv, Wired, AskConfig
    <3>b. Conversation'
      BY <2>3 DEF ControllersInv, Wired, Conversation, AskConfig
    <3>c. Owned'
      BY <2>3 DEF ControllersInv, Wired, Owned, OwnByteOf, AskConfig
    <3>d. Backed'
      BY <2>3 DEF ControllersInv, Wired, Backed, AskConfig
    <3> QED BY <3>a, <3>b, <3>c, <3>d DEF ControllersInv
  <2>4. CASE ReadConfig
    <3>a. Wired'
      BY <2>4, LinesAreNumbers DEF ControllersInv, Wired, ReadConfig, ReadData, Answered, Acks, LineOf
    <3>b. Conversation'
      BY <2>4 DEF ControllersInv, Wired, Conversation, ReadConfig, ReadData, Answered, Acks, LineOf
    <3>c. Owned'
      BY <2>4 DEF ControllersInv, Wired, Owned, OwnByteOf, ReadConfig, ReadData, Answered, Acks, LineOf
    <3>d. Backed'
      BY <2>4 DEF ControllersInv, Wired, Backed, ReadConfig, ReadData, Answered, Acks, LineOf
    <3> QED BY <3>a, <3>b, <3>c, <3>d DEF ControllersInv
  <2>5. CASE WriteConfig
    <3>a. Wired'
      BY <2>5, LinesAreNumbers DEF ControllersInv, Wired, WriteConfig
    <3>b. Conversation'
      BY <2>5 DEF ControllersInv, Wired, Conversation, WriteConfig
    <3>c. Owned'
      BY <2>5 DEF ControllersInv, Wired, Owned, OwnByteOf, WriteConfig
    <3>d. Backed'
      BY <2>5 DEF ControllersInv, Wired, Conversation, Backed, WriteConfig
    <3> QED BY <3>a, <3>b, <3>c, <3>d DEF ControllersInv
  <2>6. CASE SetDefaults
    <3>a. Wired'
      BY <2>6, LinesAreNumbers DEF ControllersInv, Wired, SetDefaults
    <3>b. Conversation'
      BY <2>6 DEF ControllersInv, Wired, Conversation, SetDefaults
    <3>c. Owned'
      BY <2>6 DEF ControllersInv, Wired, Owned, OwnByteOf, SetDefaults
    <3>d. Backed'
      BY <2>6 DEF ControllersInv, Wired, Backed, SetDefaults
    <3> QED BY <3>a, <3>b, <3>c, <3>d DEF ControllersInv
  <2>7. CASE EnableReporting
    <3>a. Wired'
      BY <2>7, LinesAreNumbers DEF ControllersInv, Wired, EnableReporting
    <3>b. Conversation'
      BY <2>7 DEF ControllersInv, Wired, Conversation, EnableReporting
    <3>c. Owned'
      BY <2>7 DEF ControllersInv, Wired, Owned, OwnByteOf, EnableReporting
    <3>d. Backed'
      BY <2>7 DEF ControllersInv, Wired, Backed, EnableReporting
    <3> QED BY <3>a, <3>b, <3>c, <3>d DEF ControllersInv
  <2>8. CASE EnableKeyboard
    <3>a. Wired'
      BY <2>8, LinesAreNumbers DEF ControllersInv, Wired, EnableKeyboard
    <3>b. Conversation'
      BY <2>8 DEF ControllersInv, Wired, Conversation, EnableKeyboard
    <3>c. Owned'
      BY <2>8 DEF ControllersInv, Wired, Owned, OwnByteOf, EnableKeyboard
    <3>d. Backed'
      BY <2>8 DEF ControllersInv, Wired, Backed, EnableKeyboard
    <3> QED BY <3>a, <3>b, <3>c, <3>d DEF ControllersInv
  <2> QED BY <1>10, <2>1, <2>2, <2>3, <2>4, <2>5, <2>6, <2>7, <2>8 DEF PS2MouseInit
<1> QED
    BY <1>1, <1>2, <1>3, <1>4, <1>5, <1>6, <1>7, <1>8, <1>9, <1>10
       DEF prepareInterrupts

\* Only the two lines with a gate are unmasked when interrupts are taken.
LEMMA TakingKeeps ==
    ASSUME ControllersInv, NEW l \in Lines, TakeInterrupt(l)
    PROVE  ControllersInv'
<1> USE DEF ITypeOK, NoStrayInterrupt, AllEnded, Prepared, InService, Unloaded,
            Unassigned, Enabled, Configured, Handlers, Kinds, KindsOf, Owed, Step, idt, pic, i8042,
            IRQ_KEYBOARD_INT, IRQ_CASCADE, IRQ_PS2_MOUSE
<1>1. l \in {IRQ_KEYBOARD_INT, IRQ_PS2_MOUSE}
    BY LinesAreNumbers DEF TakeInterrupt, Requesting, ControllersInv, Wired, Lines
<1>2. loaded /\ l \in gates /\ isr = {}
    BY <1>1 DEF TakeInterrupt, ControllersInv, Wired
<1>3. pc' = IF l = IRQ_KEYBOARD_INT THEN "intHandlerKB" ELSE "intHandlePS2Mouse"
    BY <1>2 DEF TakeInterrupt, Handler
<1>4. isr' = IF l = IRQ_KEYBOARD_INT THEN {IRQ_KEYBOARD_INT}
             ELSE {IRQ_CASCADE, IRQ_PS2_MOUSE}
    BY <1>1, <1>2 DEF TakeInterrupt
<1>5. l \in irr /\ irr' = irr \ {l} /\ pc = "loop"
    BY DEF TakeInterrupt, Requesting
<1>6. /\ UNCHANGED <<gates, loaded, imr, full, from, keyboardOn, auxOn, auxIRQ,
                     reporting, answers, late, status, orphan>>
      /\ enabled' = FALSE
    BY DEF TakeInterrupt
<1>a. Wired'
  BY <1>1, <1>3, <1>4, <1>5, <1>6, LinesAreNumbers DEF ControllersInv, Wired
<1>b. Conversation'
  BY <1>1, <1>3, <1>4, <1>5, <1>6 DEF ControllersInv, Wired, Conversation
<1>c. Owned'
  BY <1>1, <1>3, <1>4, <1>5, <1>6 DEF ControllersInv, Wired, Owned, OwnByteOf
<1>d. Backed'
  BY <1>1, <1>3, <1>4, <1>5, <1>6 DEF ControllersInv, Wired, Backed
<1> QED BY <1>a, <1>b, <1>c, <1>d DEF ControllersInv

\* Every handler reads its byte and ends what was in service.
LEMMA HandlersKeep ==
    ASSUME ControllersInv, intHandlerKB \/ intHandlePS2Mouse
    PROVE  ControllersInv'
<1> USE DEF ITypeOK, NoStrayInterrupt, AllEnded, Prepared, InService, Unloaded,
            Unassigned, Enabled, Configured, Handlers, Kinds, KindsOf, Owed, Step, idt, pic, i8042,
            IRQ_KEYBOARD_INT, IRQ_CASCADE, IRQ_PS2_MOUSE
<1>1. CASE ReadByte("intHandlerKB", IRQ_KEYBOARD_INT, "endKB")
  <2>a. Wired'
    BY <1>1, LinesAreNumbers DEF ControllersInv, Wired, ReadByte, ReadData, LineOf
  <2>b. Conversation'
    BY <1>1 DEF ControllersInv, Wired, Conversation, ReadByte, ReadData, LineOf
  <2>c. Owned'
    BY <1>1 DEF ControllersInv, Wired, Owned, OwnByteOf, ReadByte, ReadData, LineOf
  <2>d. Backed'
    BY <1>1 DEF ControllersInv, Wired, Backed, ReadByte, ReadData, LineOf
  <2> QED BY <2>a, <2>b, <2>c, <2>d DEF ControllersInv
<1>2. CASE ReadByte("intHandlePS2Mouse", IRQ_PS2_MOUSE, "endMouse")
  <2>a. Wired'
    BY <1>2, LinesAreNumbers DEF ControllersInv, Wired, ReadByte, ReadData, LineOf
  <2>b. Conversation'
    BY <1>2 DEF ControllersInv, Wired, Conversation, ReadByte, ReadData, LineOf
  <2>c. Owned'
    BY <1>2 DEF ControllersInv, Wired, Owned, OwnByteOf, ReadByte, ReadData, LineOf
  <2>d. Backed'
    BY <1>2 DEF ControllersInv, Wired, Backed, ReadByte, ReadData, LineOf
  <2> QED BY <2>a, <2>b, <2>c, <2>d DEF ControllersInv
<1>3. CASE picSendEOI("endKB", Master, "loop")
  <2>1. isr \cap Master = {1} /\ isr = {1}
      BY <1>3 DEF picSendEOI, Master, ControllersInv, Wired
  <2>2. isr' = {}
      BY <1>3, <2>1, FinishesTheOne DEF picSendEOI
  <2>a. Wired'
    BY <1>3, <2>2, LinesAreNumbers DEF ControllersInv, Wired, picSendEOI
  <2>b. Conversation'
    BY <1>3, <2>2 DEF ControllersInv, Wired, Conversation, picSendEOI
  <2>c. Owned'
    BY <1>3, <2>2 DEF ControllersInv, Wired, Owned, OwnByteOf, picSendEOI
  <2>d. Backed'
    BY <1>3, <2>2 DEF ControllersInv, Wired, Backed, picSendEOI
  <2> QED BY <2>a, <2>b, <2>c, <2>d DEF ControllersInv
<1>4. CASE picSendEOI("endMouse", Slave, "endCascade")
  <2>1. isr \cap Slave = {12} /\ isr = {2, 12}
      BY <1>4 DEF picSendEOI, Slave, ControllersInv, Wired
  <2>2. isr' = {2}
      BY <1>4, <2>1, FinishesTheOne DEF picSendEOI
  <2>a. Wired'
    BY <1>4, <2>2, LinesAreNumbers DEF ControllersInv, Wired, picSendEOI
  <2>b. Conversation'
    BY <1>4, <2>2 DEF ControllersInv, Wired, Conversation, picSendEOI
  <2>c. Owned'
    BY <1>4, <2>2 DEF ControllersInv, Wired, Owned, OwnByteOf, picSendEOI
  <2>d. Backed'
    BY <1>4, <2>2 DEF ControllersInv, Wired, Backed, picSendEOI
  <2> QED BY <2>a, <2>b, <2>c, <2>d DEF ControllersInv
<1>5. CASE picSendEOI("endCascade", Master, "loop")
  <2>1. isr \cap Master = {2} /\ isr = {2}
      BY <1>5 DEF picSendEOI, Master, ControllersInv, Wired
  <2>2. isr' = {}
      BY <1>5, <2>1, FinishesTheOne DEF picSendEOI
  <2>a. Wired'
    BY <1>5, <2>2, LinesAreNumbers DEF ControllersInv, Wired, picSendEOI
  <2>b. Conversation'
    BY <1>5, <2>2 DEF ControllersInv, Wired, Conversation, picSendEOI
  <2>c. Owned'
    BY <1>5, <2>2 DEF ControllersInv, Wired, Owned, OwnByteOf, picSendEOI
  <2>d. Backed'
    BY <1>5, <2>2 DEF ControllersInv, Wired, Backed, picSendEOI
  <2> QED BY <2>a, <2>b, <2>c, <2>d DEF ControllersInv
<1> QED BY <1>1, <1>2, <1>3, <1>4, <1>5 DEF intHandlerKB, intHandlePS2Mouse

-----------------------------------------------------------------------------
(* Stray requests. *)

StrayKeyboard == \/ (1 \in irr \/ pc = "intHandlerKB") /\ ~(full /\ from = "keyboard")
                 \/ 1 \in irr /\ pc = "intHandlerKB"
StrayMouse == \/ /\ 12 \in irr \/ pc = "intHandlePS2Mouse"
                 /\ ~(full /\ from \in {"packet", "ack"})
              \/ 12 \in irr /\ pc = "intHandlePS2Mouse"

\* Requests and bytes match but for what is stray: a byte is backed.
StraysTold ==
    ControllersInv /\ pc \in Configured =>
      /\ "keyboard" \in Unmatched <=> StrayKeyboard
      /\ "mouse" \in Unmatched <=> StrayMouse
      /\ Unmatched \subseteq {"keyboard", "mouse"}

LEMMA UnmatchedAre == StraysTold
<1> SUFFICES ASSUME ControllersInv, pc \in Configured
             PROVE  /\ "keyboard" \in Unmatched <=> StrayKeyboard
                    /\ "mouse" \in Unmatched <=> StrayMouse
                    /\ Unmatched \subseteq {"keyboard", "mouse"}
    BY DEF StraysTold
<1> USE DEF IRQ_KEYBOARD_INT, IRQ_PS2_MOUSE
<1>0. /\ full => \/ from = "keyboard" /\ (1 \in irr \/ pc = "intHandlerKB")
                 \/ /\ from \in {"packet", "ack"}
                    /\ 12 \in irr \/ pc = "intHandlePS2Mouse"
    BY DEF ControllersInv, Backed
<1>1. (Requests(1, "intHandlerKB") # Bytes(1)) <=> StrayKeyboard
    BY <1>0 DEF Requests, Bytes, KindsOf, StrayKeyboard
<1>2. (Requests(12, "intHandlePS2Mouse") # Bytes(12)) <=> StrayMouse
    BY <1>0 DEF Requests, Bytes, KindsOf, StrayMouse
<1> QED BY <1>1, <1>2 DEF Unmatched

\* A set of devices is known by which of the two are in it.
LEMMA SameSet ==
    ASSUME NEW U, NEW V, U \subseteq {"keyboard", "mouse"}, V \subseteq {"keyboard", "mouse"},
           "keyboard" \in U <=> "keyboard" \in V, "mouse" \in U <=> "mouse" \in V
    PROVE  U = V
<1>1. \A x \in U : x \in V
    OBVIOUS
<1>2. \A x \in V : x \in U
    OBVIOUS
<1> QED BY <1>1, <1>2

LEMMA UnmatchedWillBe == StraysTold'
    BY UnmatchedAre, PTL

\* While interrupts are enabled a step settles a stray request, passes it on or
\* leaves all as they are.
LEMMA StraysStep ==
    ASSUME ControllersInv, ControllersInv', [INext]_ivars, pc \in Enabled
    PROVE  [Stray!SNext]_Unmatched
<1> USE DEF Enabled, Handlers, Step, idt, pic, i8042, IRQ_KEYBOARD_INT, IRQ_CASCADE,
            IRQ_PS2_MOUSE
<1>1. pc' \in Enabled
    BY DEF INext, Devices, Processor, prepareInterrupts, PS2MouseInit, Cli, remapPIC,
           Lidt, irqSetMask, IntAssignFunc, UnmaskKeyboard, UnmaskCascade,
           UnmaskMouse, Sti, DisableKeyboard, Drain, AskConfig, ReadConfig,
           WriteConfig, SetDefaults, EnableReporting, EnableKeyboard,
           TakeInterrupt, Handler, intHandlerKB, intHandlePS2Mouse, ReadByte,
           picSendEOI, ivars
<1>2. /\ "keyboard" \in Unmatched <=> StrayKeyboard
      /\ "mouse" \in Unmatched <=> StrayMouse
      /\ Unmatched \subseteq {"keyboard", "mouse"}
    BY UnmatchedAre DEF StraysTold, Configured
<1>3. /\ "keyboard" \in Unmatched' <=> StrayKeyboard'
      /\ "mouse" \in Unmatched' <=> StrayMouse'
      /\ Unmatched' \subseteq {"keyboard", "mouse"}
    BY <1>1, UnmatchedWillBe DEF StraysTold, Configured
<1> DEFINE Settled(k, ks, m, ms) == k /\ ~ks /\ (ms <=> m)
           Passed(k, ks, m, ms) == k /\ ~ks /\ ~m /\ ms
           Moves == \/ (StrayKeyboard' <=> StrayKeyboard) /\ (StrayMouse' <=> StrayMouse)
                    \/ Settled(StrayKeyboard, StrayKeyboard', StrayMouse, StrayMouse')
                    \/ Settled(StrayMouse, StrayMouse', StrayKeyboard, StrayKeyboard')
                    \/ Passed(StrayKeyboard, StrayKeyboard', StrayMouse, StrayMouse')
                    \/ Passed(StrayMouse, StrayMouse', StrayKeyboard, StrayKeyboard')
<1>4. Moves
  <2> USE DEF StrayKeyboard, StrayMouse, Kinds
  <2>1. CASE KeyboardByte /\ UNCHANGED <<pc, enabled, gates, loaded, imr, isr>>
    BY <2>1, LinesOfKinds DEF KeyboardByte, Supply
  <2>2. ASSUME NEW a \in answers, Answer(a), UNCHANGED pc PROVE Moves
    BY <2>2, LinesOfKinds DEF Answer, Supply, ControllersInv, Backed, Configured
  <2>3. CASE MousePacketByte /\ UNCHANGED pc
    BY <2>3, LinesOfKinds DEF MousePacketByte, Supply, ControllersInv, Backed, Configured
  <2>4. ASSUME NEW l \in OtherLines, OtherRequest(l), UNCHANGED pc PROVE Moves
    BY <2>4, LinesAreNumbers DEF OtherRequest
  <2>5. CASE prepareInterrupts
    BY <2>5 DEF prepareInterrupts, PS2MouseInit, Cli, remapPIC, Lidt, irqSetMask,
           IntAssignFunc, UnmaskKeyboard, UnmaskCascade, UnmaskMouse, Sti,
           DisableKeyboard, Drain, AskConfig, ReadConfig, WriteConfig, SetDefaults,
           EnableReporting, EnableKeyboard
  <2>6. ASSUME NEW l \in Lines, TakeInterrupt(l) PROVE Moves
    <3>1. l \in {1, 12} /\ l \in irr /\ irr' = irr \ {l} /\ pc = "loop"
          /\ UNCHANGED <<full, from>>
        BY <2>6, LinesAreNumbers DEF TakeInterrupt, Requesting, ControllersInv, Wired,
              Prepared, Unloaded, Unassigned, Lines
    <3>2. pc' = IF l = 1 THEN "intHandlerKB" ELSE "intHandlePS2Mouse"
        BY <2>6, <3>1 DEF TakeInterrupt, Handler, ControllersInv, Wired, Prepared,
              Unloaded, Unassigned
    <3> QED BY <3>1, <3>2
  <2>7. CASE ReadByte("intHandlerKB", IRQ_KEYBOARD_INT, "endKB")
    BY <2>7 DEF ReadByte, ReadData, ControllersInv, Owned, OwnByteOf, KindsOf, Backed,
                Configured
  <2>8. CASE ReadByte("intHandlePS2Mouse", IRQ_PS2_MOUSE, "endMouse")
    BY <2>8 DEF ReadByte, ReadData, ControllersInv, Owned, OwnByteOf, KindsOf, Backed,
                Configured
  <2>9. CASE \/ picSendEOI("endKB", Master, "loop")
             \/ picSendEOI("endMouse", Slave, "endCascade")
             \/ picSendEOI("endCascade", Master, "loop")
    BY <2>9 DEF picSendEOI
  <2>10. CASE UNCHANGED ivars
    BY <2>10 DEF ivars
  <2>11. CASE Devices
    BY <2>1, <2>2, <2>3, <2>4, <2>11 DEF Devices
  <2> HIDE DEF Moves
  <2> QED BY <2>5, <2>6, <2>7, <2>8, <2>9, <2>10, <2>11
          DEF INext, Processor, intHandlerKB, intHandlePS2Mouse
<1>5. "keyboard" # "mouse"
    OBVIOUS
<1>6. CASE (StrayKeyboard' <=> StrayKeyboard) /\ (StrayMouse' <=> StrayMouse)
  <2>1. "keyboard" \in Unmatched' <=> "keyboard" \in Unmatched
    BY <1>2, <1>3, <1>6, Zenon
  <2>2. "mouse" \in Unmatched' <=> "mouse" \in Unmatched
    BY <1>2, <1>3, <1>6, Zenon
  <2>3. Unmatched' = Unmatched
    BY <1>2, <1>3, <2>1, <2>2, SameSet
  <2> QED BY <2>3
<1>7. CASE Settled(StrayKeyboard, StrayKeyboard', StrayMouse, StrayMouse')
  <2>1. "keyboard" \in Unmatched /\ Unmatched' = Unmatched \ {"keyboard"}
    BY <1>2, <1>3, <1>5, <1>7
  <2> QED BY <2>1 DEF Stray!SNext, Stray!Settle, Stray!Ports
<1>8. CASE Settled(StrayMouse, StrayMouse', StrayKeyboard, StrayKeyboard')
  <2>1. "mouse" \in Unmatched /\ Unmatched' = Unmatched \ {"mouse"}
    BY <1>2, <1>3, <1>5, <1>8
  <2> QED BY <2>1 DEF Stray!SNext, Stray!Settle, Stray!Ports
<1>9. CASE Passed(StrayKeyboard, StrayKeyboard', StrayMouse, StrayMouse')
  <2>1. Unmatched = {"keyboard"} /\ Unmatched' = {"mouse"}
    BY <1>2, <1>3, <1>5, <1>9
  <2> QED BY <2>1 DEF Stray!SNext, Stray!Pass, Stray!Ports, Stray!Other
<1>10. CASE Passed(StrayMouse, StrayMouse', StrayKeyboard, StrayKeyboard')
  <2>1. Unmatched = {"mouse"} /\ Unmatched' = {"keyboard"}
    BY <1>2, <1>3, <1>5, <1>10
  <2> QED BY <2>1 DEF Stray!SNext, Stray!Pass, Stray!Ports, Stray!Other
<1> QED BY <1>4, <1>6, <1>7, <1>8, <1>9, <1>10

-----------------------------------------------------------------------------
\* The controllers, the 8042 and the code that programs and serves them are in
\* step in every reachable state, whatever the devices do.
THEOREM ControllersInvariance == ISpec => []ControllersInv
<1>1. ControllersInv /\ [INext]_ivars => ControllersInv'
  <2> SUFFICES ASSUME ControllersInv, [INext]_ivars PROVE ControllersInv'
      OBVIOUS
  <2>1. CASE Devices
    BY <2>1, DevicesKeep
  <2>2. CASE Processor
    BY <2>2, SetUpKeeps, TakingKeeps, HandlersKeep DEF Processor
  <2>3. CASE UNCHANGED ivars
    BY <2>3 DEF ivars, idt, pic, i8042, ControllersInv, Wired, ITypeOK, NoStrayInterrupt,
               AllEnded, Prepared, InService, Conversation, Owed, Owned, OwnByteOf, Backed
  <2> QED BY <2>1, <2>2, <2>3 DEF INext
<1> QED BY Initially, <1>1, PTL DEF ISpec

\* prepareInterrupts leaves no line open that has no gate (idt.c:157-177).
THEOREM NoneStrays == ISpec => []NoStrayInterrupt
<1>1. ControllersInv => NoStrayInterrupt
    BY DEF ControllersInv, Wired
<1> QED BY <1>1, ControllersInvariance, PTL

\* A handler never takes a byte of the other device for its own, unless its
\* request was left behind by polling (interrupts.c:51-66).
THEOREM HandlersReadTheirOwn == ISpec => []OwnByte
<1>1. ControllersInv => OwnByte
    BY DEF ControllersInv, Owned, OwnByte, OwnByteOf, KindsOf, Backed, Configured,
           Enabled, Handlers, IRQ_KEYBOARD_INT, IRQ_PS2_MOUSE
<1> QED BY <1>1, ControllersInvariance, PTL

\* The conversation of PS2MouseInit stays in step with the 8042 and the mouse
\* (mouse.c:46-82).
THEOREM PollingInStep == ISpec => []PolledAsAsked
<1>1. ControllersInv => PolledAsAsked
    BY DEF ControllersInv, Conversation, PolledAsAsked, Enabled, Handlers
<1> QED BY <1>1, ControllersInvariance, PTL

\* Handlers that find no byte of their own never become more.
THEOREM StraysBounded == ISpec => StraysNeverMultiply
<1>1. ControllersInv /\ ControllersInv' /\ [INext]_ivars
        => ((pc \in Enabled) => [Stray!SNext]_Unmatched)
    BY StraysStep
<1> QED BY <1>1, ControllersInvariance, PTL DEF ISpec, StraysNeverMultiply
=============================================================================
