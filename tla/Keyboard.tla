------------------------------- MODULE Keyboard -------------------------------
(***************************************************************************)
(* The PS/2 keyboard of the UEFI kernel, src/lib/uefi/keycode.c: IRQ 1     *)
(* runs intHandlerKB, which passes each scan code to keyboardHandle, which *)
(* echoes it on the console.  The handler runs with interrupts off, so it  *)
(* is one step, between any two steps of kmain.                            *)
(*                                                                         *)
(* The keyboard itself sends a key's code when it goes down or repeats,    *)
(* the code plus 128 when it comes up, and a prefix before the codes of    *)
(* some keys.  The handler of a stray request (StrayRequests) takes what   *)
(* it reads for a byte of the keyboard, and that of the mouse may take a   *)
(* byte of the keyboard away.                                              *)
(***************************************************************************)
EXTENDS Console, StrayRequests

CONSTANTS Keys,           \* the codes of the keys somebody uses
          PrefixedCodes,  \* the bytes that come behind a prefix
          StrayBytes,     \* what the handler of a stray request reads
          PrefixMessage   \* what is printed for a prefixed key

KEYCODE_BACKSPACE == 14
KEYCODE_ENTER == 28
KEYCODE_LSHIFT == 42
KEYCODE_RSHIFT == 54
KEYCODE_SPACE == 57

\* No key has a code that is taken for the prefix, 224, when it comes up.
ASSUME KeysAssumption == /\ Keys \subseteq (0 .. 127) \ {96}
                         /\ PrefixedCodes \subseteq (0 .. 255) \ {224}
                         /\ StrayBytes \subseteq 0 .. 255
ASSUME PrefixMessageAssumption == PrefixMessage \in Seq(Forward)

VARIABLES
    lshift, rshift, e0_prefix,   \* keyboardHandle's
    held,                        \* the left shift key is down
    prefixSent,                  \* the keyboard is between prefix and code
    \* what the properties refer to and the program does not keep:
    unsure,     \* a byte was missed or misread, and no byte handled since
    missed      \* the kernel has not seen how the left shift key stands

keyboard == <<lshift, rshift, e0_prefix>>
device == <<held, prefixSent>>
kvars == <<screen, caller, raced, keyboard, device, strays, unsure, missed>>

-----------------------------------------------------------------------------
\* The codes ASCIITable has a character for.
Printable == (2 .. 13) \cup (16 .. 27) \cup (30 .. 41) \cup (43 .. 53)
               \cup {55, 57} \cup (71 .. 83)

\* What a key that goes down does to the console.
Press(t, code) ==
    CASE code = KEYCODE_ENTER -> printf(t, <<"newline">>)
      [] code = KEYCODE_BACKSPACE -> fbClearChar(t)
      [] code = KEYCODE_SPACE -> printf(t, <<" ">>)
      [] OTHER -> IF code \in Printable THEN printf(t, <<"glyph">>) ELSE t

\* Mutant: the shift state toggles with every code of a key that is down
Shifts_toggle(code, pressed) ==
    /\ lshift' = IF code = KEYCODE_LSHIFT /\ pressed THEN ~lshift ELSE lshift
    /\ rshift' = IF code = KEYCODE_RSHIFT THEN FALSE ELSE rshift

Shifts(code, pressed) ==
    /\ lshift' = IF code = KEYCODE_LSHIFT THEN pressed ELSE lshift
    /\ rshift' = IF code = KEYCODE_RSHIFT THEN FALSE ELSE rshift

\* keyboardHandle, for a byte that is no prefix and follows none
PlainCode(scancode) ==
    LET pressed == scancode < 128
        code == scancode % 128
    IN /\ Shifts(code, pressed)
       /\ Show(IF pressed THEN Press(Shown, code) ELSE Shown)
       /\ UNCHANGED e0_prefix

\* keyboardHandle, for the byte after a prefix
PrefixedCode == /\ Show(printf(Shown, PrefixMessage))
                /\ e0_prefix' = FALSE
                /\ UNCHANGED <<lshift, rshift>>

keyboardHandle(scancode) ==
    CASE scancode = 224 -> /\ e0_prefix' = TRUE
                           /\ UNCHANGED <<screen, lshift, rshift>>
      [] scancode # 224 /\ e0_prefix -> PrefixedCode
      [] scancode # 224 /\ ~e0_prefix -> PlainCode(scancode)

\* IRQ 1: the byte is read from the controller and handled.
intHandlerKB(scancode) ==
    /\ keyboardHandle(scancode)
    /\ raced' = (raced \/ printing # "copyX")
    /\ UNCHANGED caller

-----------------------------------------------------------------------------
(* The keyboard.                                                           *)

KeyDown(k) == /\ ~prefixSent
              /\ held' = (held \/ k = KEYCODE_LSHIFT)
              /\ UNCHANGED prefixSent

KeyUp(k) == /\ ~prefixSent
            /\ k = KEYCODE_LSHIFT => held
            /\ held' = (held /\ k # KEYCODE_LSHIFT)
            /\ UNCHANGED prefixSent

Prefix == /\ ~prefixSent
          /\ prefixSent' = TRUE
          /\ UNCHANGED held

Prefixed == /\ prefixSent
            /\ prefixSent' = FALSE
            /\ UNCHANGED held

Released == {k + 128 : k \in Keys}

Sends(b) == \/ b \in Keys /\ KeyDown(b)
            \/ b \in Released /\ KeyUp(b - 128)
            \/ b = 224 /\ Prefix
            \/ b \in PrefixedCodes /\ Prefixed

\* The left shift key itself, and not a fake shift behind a prefix
IsLeftShift(b) == ~prefixSent /\ b % 128 = KEYCODE_LSHIFT

\* The byte is served by its own handler.  A stray request is gone then, unless
\* it was being served already when the byte came.
KeyboardByte(b) ==
    /\ Sends(b)
    /\ intHandlerKB(b)
    /\ UNCHANGED strays \/ Settle("keyboard")
    /\ unsure' = FALSE
    /\ missed' = IF IsLeftShift(b) THEN unsure ELSE missed

\* A stray request is served: the handler reads the last byte once more, or a
\* byte of the mouse.
StrayInterrupt(b) ==
    /\ Settle("keyboard") \/ Pass("keyboard")
    /\ intHandlerKB(b)
    /\ unsure' = TRUE /\ missed' = TRUE
    /\ UNCHANGED device

\* The byte is read by the mouse's handler, for a stray request of its own.
StolenByte(b) ==
    /\ Pass("mouse")
    /\ Sends(b)
    /\ unsure' = TRUE /\ missed' = TRUE
    /\ UNCHANGED <<screen, caller, raced, keyboard>>

\* The mouse's stray request is served without a byte of the keyboard.
MouseServed == /\ Settle("mouse")
               /\ UNCHANGED <<screen, caller, raced, keyboard, device,
                              unsure, missed>>

KmainPrints == /\ Putchar
               /\ UNCHANGED <<raced, keyboard, device, strays, unsure,
                              missed>>

\* PS2MouseInit polls one byte away before it disables the keyboard and one
\* after it has enabled it again (mouse.c:50-51, 79-81): a shift key that went
\* down until then is not seen, and the byte may be a prefix whose code comes
\* when interrupts are enabled.  What it polled leaves stray requests behind.
KInit == /\ ConsoleInit
         /\ lshift = FALSE /\ rshift = FALSE /\ e0_prefix = FALSE
         /\ held \in BOOLEAN
         /\ prefixSent \in BOOLEAN
         /\ SInit
         /\ unsure = prefixSent
         /\ missed = (prefixSent \/ held)

Codes == Keys \cup Released \cup {224} \cup PrefixedCodes

KNext == \/ \E b \in Codes : KeyboardByte(b) \/ StolenByte(b)
         \/ \E b \in StrayBytes : StrayInterrupt(b)
         \/ MouseServed
         \/ KmainPrints

KSpec == KInit /\ [][KNext]_kvars

-----------------------------------------------------------------------------
\* Type correctness: the console, the keyboard driver and the keyboard.
TypeOK ==
    /\ ConsoleTypeOK
    /\ lshift \in BOOLEAN /\ rshift \in BOOLEAN /\ e0_prefix \in BOOLEAN
    /\ held \in BOOLEAN
    /\ prefixSent \in BOOLEAN
    /\ strays \subseteq Ports
    /\ unsure \in BOOLEAN /\ missed \in BOOLEAN

\* The cursor a call of fb_putchar starts from always has room for a glyph,
\* and no glyph is ever drawn across an edge, even when kmain and the
\* handler tear each other's stores of the cursor.
CursorOnScreen ==
    /\ cursor_X <= Width - 8 /\ cursor_Y <= Height - 16
    /\ \A p \in Places : ink[p] > 0 => p[1] <= Width - 8 /\ p[2] <= Height - 16

\* Until the screen has wrapped twice no glyph is printed over another, as
\* long as no handler came between the steps of kmain's fb_putchar.
NoOverprint == clear <= 1 /\ ~raced => \A p \in Places : ink[p] <= 1

\* The driver's left shift state is the key's once the kernel has seen the key
\* move, whatever prefixed codes come in between: the fake shifts sent with a
\* prefix do not count.  A byte missed or misread costs it until the key moves
\* again.
LeftShiftFollowsKey == ~missed => lshift = held

\* The driver and the keyboard agree on which byte follows a prefix.  A byte
\* missed or misread takes them apart for one more byte of the keyboard, and
\* with the next they agree again.
PrefixInStep == ~unsure => e0_prefix = prefixSent

\* What the driver keeps between interrupts is true of the keyboard, whatever
\* keys are pressed and released in between and wherever kmain is interrupted,
\* and becomes true again after a byte that was polled away, stolen or read
\* twice.
DriverInv == TypeOK /\ LeftShiftFollowsKey /\ PrefixInStep /\ (unsure => missed)

\* fb.h: "Print a character to screen and move to next position": nothing
\* else is printed at the same place before the screen wraps.
MovesToNextPosition == clear = 0 => \A p \in Places : ink[p] <= 1
=============================================================================
