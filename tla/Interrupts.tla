------------------------------ MODULE Interrupts ------------------------------
(***************************************************************************)
(* How the UEFI kernel comes to take interrupts, src/kernel/uefi/idt.c,    *)
(* and serves them, src/kernel/uefi/interrupts.c: prepareInterrupts        *)
(* programs the two 8259 interrupt controllers, fills the interrupt        *)
(* descriptor table and initialises the mouse (PS2MouseInit of             *)
(* src/lib/uefi/mouse.c) by polling; then it unmasks the two devices and   *)
(* enables interrupts.                                                     *)
(*                                                                         *)
(* The 8042 controller hands keyboard and mouse bytes to the kernel        *)
(* through one output buffer, and raises IRQ 1 or IRQ 12 for each byte.    *)
(* The 8259 remembers a request while it is masked, so a byte that is      *)
(* polled leaves a request behind that has no byte any more: an orphan.    *)
(***************************************************************************)
EXTENDS Naturals, FiniteSets, FiniteSetsExt

CONSTANT OtherLines   \* interrupt lines of devices the kernel does not drive

IRQ_KEYBOARD_INT == 1
IRQ_CASCADE == 2
IRQ_PS2_MOUSE == 12

Lines == OtherLines \cup {IRQ_KEYBOARD_INT, IRQ_CASCADE, IRQ_PS2_MOUSE}

\* No device hangs on the cascade, which carries the slave's requests.
ASSUME LinesAssumption ==
    OtherLines \subseteq (0 .. 15) \ {IRQ_KEYBOARD_INT, IRQ_CASCADE, IRQ_PS2_MOUSE}

VARIABLES
    pc,          \* where the processor is
    enabled,     \* the interrupt flag
    gates,       \* the lines whose vector has a gate in the table that is loaded
    loaded,      \* the kernel's own table is loaded
    imr, irr,    \* per line, both 8259s: masked, requested
    isr,         \*   and in service
    full, from,  \* the 8042's output buffer, and what its byte is
    keyboardOn,  \* the keyboard interface, the mouse interface and the mouse's
    auxOn,       \*   interrupt are enabled in the 8042,
    auxIRQ,      \*   and the mouse sends packets
    reporting,
    answers,     \* the answers the controller and the mouse still owe
    late,        \* the mouse may answer after the wait for it has timed out
    status,      \* PS2MouseInit's status: what kind of byte it read
    orphan       \* requests whose byte something else has read

pic == <<imr, irr, isr>>
i8042 == <<full, from, keyboardOn, auxOn, auxIRQ, reporting, answers, late>>
idt == <<gates, loaded>>
ivars == <<pc, enabled, idt, pic, i8042, status, orphan>>

Kinds == {"keyboard", "packet", "ack", "config"}

\* The controller's own answers raise the keyboard's request.
KindsOf(line) == IF line = IRQ_KEYBOARD_INT THEN {"keyboard", "config"}
                 ELSE IF line = IRQ_PS2_MOUSE THEN {"packet", "ack"} ELSE {}
LineOf(kind) == {l \in {IRQ_KEYBOARD_INT, IRQ_PS2_MOUSE} : kind \in KindsOf(l)}

-----------------------------------------------------------------------------
(* The 8042, keyboard and mouse (external).                                *)

\* A byte of some kind enters the empty buffer and raises its request.
Supply(kind) ==
    /\ ~full
    /\ full' = TRUE /\ from' = kind
    /\ LET raised == IF kind \in {"packet", "ack"} /\ ~auxIRQ THEN {}
                     ELSE LineOf(kind)
       IN /\ irr' = irr \cup raised
          /\ orphan' = orphan \ raised

KeyboardByte == /\ keyboardOn
                /\ Supply("keyboard")
                /\ UNCHANGED answers

\* Commands are answered in order, and before anything else is said.
Acks == answers \ {"config"}

Answer(a) == /\ a = "secondAck" => "firstAck" \notin answers
             /\ Supply(IF a = "config" THEN "config" ELSE "ack")
             /\ answers' = answers \ {a}

MousePacketByte == /\ reporting /\ auxOn /\ Acks = {}
                   /\ Supply("packet")
                   /\ UNCHANGED answers

OtherRequest(l) == /\ l \in OtherLines
                   /\ irr' = irr \cup {l}
                   /\ UNCHANGED <<full, from, answers, orphan>>

Devices == /\ \/ KeyboardByte
              \/ \E a \in answers : Answer(a)
              \/ MousePacketByte
              \/ \E l \in OtherLines : OtherRequest(l)
           /\ UNCHANGED <<pc, enabled, idt, imr, isr, keyboardOn, auxOn,
                          auxIRQ, reporting, late, status>>

-----------------------------------------------------------------------------
(* Ports.                                                                  *)

\* inb(0x60), by the handler of the lines in served or by polling: a request
\* for the byte that is pending loses it.
ReadData(served) ==
    /\ full' = FALSE
    /\ orphan' = (orphan \ served)
                   \cup (IF full THEN irr \cap LineOf(from) ELSE {})
    /\ UNCHANGED <<from, keyboardOn, auxOn, auxIRQ, reporting, answers, late>>

\* Mutant: reads do not wait for a byte
Answered_always == TRUE

\* PS2MouseWaitInput returns when there is a byte, or after its 100000 polls
\* when there is none and none is on its way in time.
Answered == full \/ answers = {} \/ (late /\ Acks # {})

\* picSendEOI: the line in service with the highest priority is done.
Finish(lines) == IF isr \cap lines = {} THEN isr
                 ELSE isr \ {Min(isr \cap lines)}
Master == 0 .. 7
Slave == 8 .. 15

-----------------------------------------------------------------------------
(* prepareInterrupts.                                                      *)

Step(here, next) == pc = here /\ pc' = next

Cli == /\ Step("cli", "remap")
       /\ enabled' = FALSE
       /\ UNCHANGED <<idt, pic, i8042, status, orphan>>

\* The first control word resets the requests; the masks are put back.
remapPIC == /\ Step("remap", "lidt")
            /\ irr' = {} /\ isr' = {} /\ orphan' = {}
            /\ UNCHANGED <<enabled, idt, imr, i8042, status>>

\* The gates of the three exceptions are written before lidt, and are of no
\* line.
Lidt == /\ Step("lidt", "mask")
        /\ loaded' = TRUE /\ gates' = {}
        /\ UNCHANGED <<enabled, pic, i8042, status, orphan>>

\* Mutant: the loop that masks the lines starts at 1
irqSetMask_fromOne ==
    /\ Step("mask", "assign")
    /\ imr' = (imr \cap {0}) \cup (Lines \ {0})
    /\ UNCHANGED <<enabled, idt, irr, isr, i8042, status, orphan>>

irqSetMask == /\ Step("mask", "assign")
              /\ imr' = Lines
              /\ UNCHANGED <<enabled, idt, irr, isr, i8042, status, orphan>>

IntAssignFunc == /\ Step("assign", "disableKeyboard")
                 /\ gates' = gates \cup {IRQ_KEYBOARD_INT, IRQ_PS2_MOUSE}
                 /\ UNCHANGED <<enabled, loaded, pic, i8042, status, orphan>>

irqClearMask(l) == /\ imr' = imr \ {l}
                   /\ UNCHANGED <<enabled, idt, irr, isr, i8042, status, orphan>>

UnmaskKeyboard == Step("unmask", "unmaskCascade") /\ irqClearMask(IRQ_KEYBOARD_INT)
\* Mutant: the cascade stays masked
UnmaskCascade_skips ==
    /\ Step("unmaskCascade", "unmaskMouse")
    /\ UNCHANGED <<enabled, idt, pic, i8042, status, orphan>>

UnmaskCascade == Step("unmaskCascade", "unmaskMouse") /\ irqClearMask(IRQ_CASCADE)
UnmaskMouse == Step("unmaskMouse", "sti") /\ irqClearMask(IRQ_PS2_MOUSE)

Sti == /\ Step("sti", "loop")
       /\ enabled' = TRUE
       /\ UNCHANGED <<idt, pic, i8042, status, orphan>>

-----------------------------------------------------------------------------
(* PS2MouseInit.                                                           *)

DisableKeyboard ==
    /\ Step("disableKeyboard", "drain")
    /\ keyboardOn' = FALSE
    /\ UNCHANGED <<enabled, idt, pic, full, from, auxOn, auxIRQ, reporting,
                   answers, late, status, orphan>>

Drain == /\ \/ Step("drain", "askConfig")
            \/ Step("readAck", "enableReporting")
            \/ Step("readSecondAck", "enableKeyboard")
            \/ Step("drainAgain", "unmask")
         /\ Answered
         /\ ReadData({})
         /\ UNCHANGED <<enabled, idt, pic, status>>

\* 0xA8 enables the mouse interface, 0x20 asks for the configuration byte.
AskConfig == /\ Step("askConfig", "readConfig")
             /\ auxOn' = TRUE
             /\ answers' = answers \cup {"config"}
             /\ UNCHANGED <<enabled, idt, pic, full, from, keyboardOn, auxIRQ,
                            reporting, late, status, orphan>>

ReadConfig == /\ Step("readConfig", "writeConfig")
              /\ Answered
              /\ status' = IF full THEN from ELSE "stale"
              /\ ReadData({})
              /\ UNCHANGED <<enabled, idt, pic>>

WriteConfig == /\ Step("writeConfig", "setDefaults")
               /\ auxIRQ' = TRUE
               /\ UNCHANGED <<enabled, idt, pic, full, from, keyboardOn, auxOn,
                              reporting, answers, late, status, orphan>>

SetDefaults == /\ Step("setDefaults", "readAck")
               /\ answers' = answers \cup {"firstAck"}
               /\ UNCHANGED <<enabled, idt, pic, full, from, keyboardOn, auxOn,
                              auxIRQ, reporting, late, status, orphan>>

EnableReporting ==
    /\ Step("enableReporting", "readSecondAck")
    /\ answers' = answers \cup {"secondAck"}
    /\ reporting' = TRUE
    /\ UNCHANGED <<enabled, idt, pic, full, from, keyboardOn, auxOn, auxIRQ,
                   late, status, orphan>>

EnableKeyboard ==
    /\ Step("enableKeyboard", "drainAgain")
    /\ keyboardOn' = TRUE
    /\ UNCHANGED <<enabled, idt, pic, full, from, auxOn, auxIRQ, reporting,
                   answers, late, status, orphan>>

PS2MouseInit == \/ DisableKeyboard \/ Drain \/ AskConfig \/ ReadConfig
                \/ WriteConfig \/ SetDefaults \/ EnableReporting
                \/ EnableKeyboard

prepareInterrupts == \/ Cli \/ remapPIC \/ Lidt \/ irqSetMask \/ IntAssignFunc
                     \/ PS2MouseInit
                     \/ UnmaskKeyboard \/ UnmaskCascade \/ UnmaskMouse \/ Sti

-----------------------------------------------------------------------------
(* Serving an interrupt.  A gate clears the interrupt flag.                *)

Requesting == {l \in irr \ imr : l >= 8 => IRQ_CASCADE \notin imr}

\* The slave's lines rank between line 1 and line 3 of the master.
Rank(l) == IF l < 2 THEN l ELSE IF l >= 8 THEN l - 6 ELSE l + 8

Urgent(l) == \A m \in Requesting : Rank(l) <= Rank(m)

\* Mutant: the two handlers are assigned to each other's vector
Handler_swapped(l) == IF ~loaded \/ l \notin gates THEN "stray"
                      ELSE IF l = IRQ_KEYBOARD_INT THEN "intHandlePS2Mouse"
                      ELSE "intHandlerKB"

Handler(l) == IF ~loaded \/ l \notin gates THEN "stray"
              ELSE IF l = IRQ_KEYBOARD_INT THEN "intHandlerKB"
              ELSE "intHandlePS2Mouse"

TakeInterrupt(l) ==
    /\ pc = "loop" /\ enabled
    /\ l \in Requesting /\ Urgent(l)
    /\ enabled' = FALSE
    /\ irr' = irr \ {l}
    /\ isr' = isr \cup (IF l >= 8 THEN {l, IRQ_CASCADE} ELSE {l})
    /\ pc' = Handler(l)
    /\ UNCHANGED <<idt, imr, i8042, status, orphan>>

\* Mutant: the handler returns without reading its byte
ReadByte_none(handler, line, next) ==
    /\ Step(handler, next)
    /\ UNCHANGED <<enabled, idt, pic, i8042, status, orphan>>

ReadByte(handler, line, next) ==
    /\ Step(handler, next)
    /\ ReadData({line})
    /\ UNCHANGED <<enabled, idt, pic, status>>

\* Mutant: the end of interrupt goes to the master only
picSendEOI_masterOnly(here, lines, next) ==
    /\ Step(here, next)
    /\ isr' = Finish(Master)
    /\ enabled' = (next = "loop")
    /\ UNCHANGED <<idt, imr, irr, i8042, status, orphan>>

picSendEOI(here, lines, next) ==
    /\ Step(here, next)
    /\ isr' = Finish(lines)
    /\ enabled' = (next = "loop")
    /\ UNCHANGED <<idt, imr, irr, i8042, status, orphan>>

intHandlerKB ==
    \/ ReadByte("intHandlerKB", IRQ_KEYBOARD_INT, "endKB")
    \/ picSendEOI("endKB", Master, "loop")

intHandlePS2Mouse ==
    \/ ReadByte("intHandlePS2Mouse", IRQ_PS2_MOUSE, "endMouse")
    \/ picSendEOI("endMouse", Slave, "endCascade")
    \/ picSendEOI("endCascade", Master, "loop")

Processor == \/ prepareInterrupts
             \/ \E l \in Lines : TakeInterrupt(l)
             \/ intHandlerKB
             \/ intHandlePS2Mouse

-----------------------------------------------------------------------------
(* What the firmware leaves behind: any masks, its own table, perhaps a    *)
(* byte from the keyboard; the mouse is not reporting.  The kernel never   *)
(* enables the keyboard's interrupt in the 8042 (mouse.c:63-64 adds the    *)
(* mouse's to what is there) and relies on the firmware to have done it.   *)
IInit == /\ pc = "cli" /\ enabled \in BOOLEAN
         /\ gates = Lines /\ loaded = FALSE
         /\ imr \in {{}, Lines} /\ isr = {}
         /\ full \in BOOLEAN /\ from = "keyboard"
         /\ irr = IF full THEN {IRQ_KEYBOARD_INT} ELSE {}
         /\ keyboardOn = TRUE /\ auxOn = FALSE /\ auxIRQ = FALSE
         /\ reporting = FALSE /\ answers = {} /\ late \in BOOLEAN
         /\ status = "stale"
         /\ orphan = {}

INext == Devices \/ Processor

ISpec == IInit /\ [][INext]_ivars

\* The processor goes on, and a device that was asked answers.
IFairSpec == /\ ISpec
             /\ WF_ivars(Processor)
             /\ WF_ivars(Devices /\ answers' # answers)

-----------------------------------------------------------------------------
Handlers == {"intHandlerKB", "intHandlePS2Mouse", "endKB", "endMouse",
             "endCascade", "stray"}

\* Type correctness, with the registers the state stands for.
ITypeOK ==
    /\ pc \in {"cli", "remap", "lidt", "mask", "assign", "disableKeyboard",
               "drain", "askConfig", "readConfig", "writeConfig",
               "setDefaults", "readAck", "enableReporting", "readSecondAck",
               "enableKeyboard", "drainAgain", "unmask", "unmaskCascade",
               "unmaskMouse", "sti", "loop"} \cup Handlers
    /\ enabled \in BOOLEAN /\ loaded \in BOOLEAN
    /\ gates \subseteq Lines
    /\ imr \subseteq Lines /\ irr \subseteq Lines /\ isr \subseteq Lines
    /\ full \in BOOLEAN /\ from \in Kinds
    /\ {keyboardOn, auxOn, auxIRQ, reporting} \subseteq BOOLEAN
    /\ answers \subseteq {"config", "firstAck", "secondAck"}
    /\ late \in BOOLEAN
    /\ status \in Kinds \cup {"stale"}
    /\ orphan \subseteq irr \cup {IRQ_KEYBOARD_INT, IRQ_PS2_MOUSE}

\* No interrupt is taken through a gate nobody has written.
NoStrayInterrupt == pc # "stray"

\* A handler whose request is no orphan finds its own device's byte in the
\* buffer, whatever the two devices and the two handlers do around it.
OwnByte ==
    /\ pc = "intHandlerKB" /\ IRQ_KEYBOARD_INT \notin orphan =>
         full /\ from = "keyboard"
    /\ pc = "intHandlePS2Mouse" /\ IRQ_PS2_MOUSE \notin orphan =>
         full /\ from \in {"packet", "ack"}

\* Each byte PS2MouseInit polls (mouse.c:41) is the answer to what it asked:
\* the configuration byte that is written back is the controller's, and not a
\* byte of the keyboard or the mouse; and of a mouse that answers in time no
\* acknowledgement is left for the handler, which would take it for the first
\* byte of a packet.
PolledAsAsked ==
    /\ pc = "writeConfig" => status = "config"
    /\ ~late /\ pc \in {"sti", "loop"} \cup Handlers /\ full => from # "ack"

\* When no handler runs, every interrupt that was taken has been ended at
\* each of the controllers it went through.
AllEnded == pc = "loop" => isr = {} /\ enabled

\* What prepareInterrupts has done by the time it gets to a place.
Unloaded == {"cli", "remap", "lidt"}
Unassigned == Unloaded \cup {"mask", "assign"}
Enabled == {"loop"} \cup Handlers

Prepared ==
    /\ pc \notin Unloaded => loaded
    /\ pc \notin Unloaded \cup {"mask"} => OtherLines \subseteq imr
    /\ pc \notin Unassigned => {IRQ_KEYBOARD_INT, IRQ_PS2_MOUSE} \subseteq gates
    /\ IRQ_CASCADE \notin irr

\* What is in service, and is ended before the handler returns.
InService ==
    isr = IF pc \in {"intHandlerKB", "endKB"} THEN {IRQ_KEYBOARD_INT}
          ELSE IF pc \in {"intHandlePS2Mouse", "endMouse"}
            THEN {IRQ_CASCADE, IRQ_PS2_MOUSE}
          ELSE IF pc = "endCascade" THEN {IRQ_CASCADE} ELSE {}

\* A request that is no orphan has its byte in the buffer, from the moment it
\* is raised until the handler reads it.
OwnByteOf(line, kinds, handler) ==
    /\ line \notin orphan /\ (line \in irr \/ pc = handler) => full /\ from \in kinds
    /\ pc = handler /\ line \in irr => line \notin orphan

\* How far the conversation with the 8042 and the mouse has come: what has been
\* asked for is owed, or in the buffer, or read.
Owed(kind, answer) == IF full THEN from = kind /\ answers = {} ELSE answers = {answer}

Conversation ==
    /\ pc \in Unassigned \cup {"disableKeyboard", "drain", "askConfig"} =>
         answers = {} /\ ~reporting
    /\ pc \in {"readConfig", "writeConfig", "setDefaults", "readAck",
               "enableReporting"} => ~reporting
    /\ pc \in {"drain", "askConfig", "readConfig", "writeConfig", "setDefaults",
               "readAck", "enableReporting", "readSecondAck", "enableKeyboard"} =>
         ~keyboardOn
    /\ pc = "askConfig" => ~full
    /\ pc = "readConfig" => Owed("config", "config")
    /\ pc = "writeConfig" => status = "config"
    /\ pc \in {"writeConfig", "setDefaults"} => ~full /\ answers = {}
    /\ ~late =>
         /\ pc = "readAck" => Owed("ack", "firstAck")
         /\ pc = "enableReporting" => ~full /\ answers = {}
         /\ pc = "readSecondAck" => Owed("ack", "secondAck")
         /\ pc \in {"enableKeyboard", "drainAgain", "unmask", "unmaskCascade",
                    "unmaskMouse", "sti"} \cup Enabled =>
              answers = {} /\ (full => from # "ack")

\* The 8259s, the 8042 and the code that programs them are in step.
Wired == ITypeOK /\ NoStrayInterrupt /\ AllEnded /\ Prepared /\ InService

Owned == /\ OwnByteOf(IRQ_KEYBOARD_INT, KindsOf(IRQ_KEYBOARD_INT), "intHandlerKB")
         /\ OwnByteOf(IRQ_PS2_MOUSE, KindsOf(IRQ_PS2_MOUSE), "intHandlePS2Mouse")

\* From the first command to the mouse on, a byte has a request that is
\* pending or being served.
Configured == {"setDefaults", "readAck", "enableReporting", "readSecondAck",
               "enableKeyboard", "drainAgain", "unmask", "unmaskCascade",
               "unmaskMouse", "sti"} \cup Enabled

Backed ==
    pc \in Configured =>
      /\ auxIRQ /\ "config" \notin answers
      /\ full => \/ from = "keyboard" /\ (1 \in irr \/ pc = "intHandlerKB")
                 \/ /\ from \in {"packet", "ack"}
                    /\ 12 \in irr \/ pc = "intHandlePS2Mouse"

ControllersInv == Wired /\ Conversation /\ Owned /\ Backed

\* The device whose requests, pending or being served, are not as many as its
\* bytes.
Requests(line, handler) == (IF line \in irr THEN 1 ELSE 0)
                             + (IF pc = handler THEN 1 ELSE 0)
Bytes(line) == IF full /\ from \in KindsOf(line) THEN 1 ELSE 0

Unmatched ==
    (IF Requests(IRQ_KEYBOARD_INT, "intHandlerKB") # Bytes(IRQ_KEYBOARD_INT)
       THEN {"keyboard"} ELSE {})
    \cup
    (IF Requests(IRQ_PS2_MOUSE, "intHandlePS2Mouse") # Bytes(IRQ_PS2_MOUSE)
       THEN {"mouse"} ELSE {})

\* Requests that polling has robbed of their byte never multiply once
\* interrupts are enabled: a handler that reads the other device's byte robs
\* that device's handler, and is done with its own stray request.
Stray == INSTANCE StrayRequests WITH strays <- Unmatched

StraysNeverMultiply ==
    [][(pc \in Enabled) => [Stray!SNext]_Unmatched]_ivars

\* Once interrupts are enabled, every byte in the buffer is read: no request
\* is lost, even one that comes while its own line is being served.
ByteServed == full ~> ~full
=============================================================================
