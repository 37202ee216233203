------------------------------- MODULE Console -------------------------------
(***************************************************************************)
(* The text console of the UEFI kernel, src/lib/uefi/fb.c: a cursor and    *)
(* the glyphs on the framebuffer.  fb_putchar works on copies of the       *)
(* cursor and stores them back at its end, so that a call made by an       *)
(* interrupt handler in between is undone.                                 *)
(*                                                                         *)
(* Positions are in pixels; a glyph is 8 wide, 16 high and named by its    *)
(* upper left corner.  Of the pixels, ink keeps how many glyphs were drawn *)
(* at a place since it was last cleared, up to 2: one overprinted another. *)
(* Rows of text start at multiples of 16, so clearing 16 lines of pixels   *)
(* clears a row.  A character stands for its class: every glyph alike.     *)
(***************************************************************************)
EXTENDS Integers, Sequences

CONSTANTS Width, Height,   \* fb_info.Width and fb_info.Height, unsigned
          Message          \* what kmain prints once interrupts are enabled

ASSUME ScreenAssumption == /\ Width \in Nat /\ Width >= 16
                           /\ Height \in Nat /\ Height >= 32

Characters == {"glyph", " ", "newline", "return", "tab", "backspace"}

\* The kernel prints no "\r" and no "\b".
Forward == Characters \ {"return", "backspace"}

ASSUME MessageAssumption == Message \in Seq(Forward)

VARIABLES
    cursor_X, cursor_Y,   \* cursor_position
    clear,                \* fb_putchar's count of the times it wrapped
    ink,                  \* the glyphs on the screen
    printing,             \* where kmain is in fb_putchar
    printed,              \* how much of Message kmain has printed
    x_pos, y_pos,         \* the copies fb_putchar works on, in kmain
    raced                 \* a handler printed while kmain was in fb_putchar

screen == <<cursor_X, cursor_Y, clear, ink>>
caller == <<printing, printed, x_pos, y_pos>>

\* Where a glyph can stand: on the grid, or at the place at the right edge
\* that fbClearChar steps back to.
Places == {x \in 0 .. Width : x % 8 \in {0, Width % 8}}
            \X {y \in 0 .. Height : y % 16 = 0}

-----------------------------------------------------------------------------
(* fb_putchar, on a record of the cursor and the screen.                   *)

Shown == [x |-> cursor_X, y |-> cursor_Y, clear |-> clear, ink |-> ink]

Clean(marks, row) == [p \in DOMAIN marks |-> IF p[2] = row THEN 0 ELSE marks[p]]

Overlay(n) == IF n = 0 THEN 1 ELSE 2

\* _fbPutChar: nothing is drawn where a glyph would not fit.
Stamp(t) == IF t.x > Width - 8 \/ t.y > Height - 16 THEN t.ink
            ELSE [t.ink EXCEPT ![<<t.x, t.y>>] = Overlay(@)]

\* Mutant: the second time round a row is not cleared
ClearRow_never(t) == t

\* If secondly prints, clear first.
ClearRow(t) == IF t.clear = 1 THEN [t EXCEPT !.ink = Clean(@, t.y)] ELSE t

NewLine(t) == ClearRow([t EXCEPT !.x = 0, !.y = @ + 16])

Home(t, limit) == IF t.x > limit \/ t.y > Height - 16
                    THEN [t EXCEPT !.x = 0, !.y = 0] ELSE t

Echo(t, c) ==
    CASE c = "backspace" -> IF t.x > 8 THEN [t EXCEPT !.x = @ - 8] ELSE t
      [] c = "tab" -> [t EXCEPT !.x = 64 * ((@ + 64) \div 64)]
      [] c = "return" -> [t EXCEPT !.x = 0]
      [] c = "newline" -> NewLine(t)
      [] c = " " -> [t EXCEPT !.x = @ + 8]
      [] c = "glyph" -> [t EXCEPT !.x = @ + 8, !.ink = Stamp(t)]

WrapLine(t) == IF t.x >= Width - 8 THEN NewLine(t) ELSE t

\* The count is only ever compared with 1: 2 stands for every larger count.
WrapPage(t) == IF t.y >= Height - 16
                 THEN [t EXCEPT !.x = 0, !.y = 0,
                                !.clear = IF @ = 0 THEN 1 ELSE 2,
                                !.ink = Clean(@, 0)]
                 ELSE t

fb_putchar(t, c) == Home(WrapPage(WrapLine(Echo(Home(t, Width), c))), Width - 8)

\* printf, of what is already formatted
printf(t, text) ==
    LET after[k \in 0 .. Len(text)] ==
          IF k = 0 THEN t ELSE fb_putchar(after[k - 1], text[k])
    IN after[Len(text)]

\* Mutant: a backspace at the start of a row goes to the very edge
Back_edge(t) == IF t.x < 8
                  THEN IF t.y < 16 THEN t
                       ELSE [t EXCEPT !.x = Width, !.y = @ - 16]
                  ELSE [t EXCEPT !.x = @ - 8]

\* fbClearChar, on the cursor itself
Back(t) == IF t.x < 8
             THEN IF t.y < 16 THEN t
                  ELSE [t EXCEPT !.x = Width - 8, !.y = @ - 16]
             ELSE [t EXCEPT !.x = @ - 8]

AtHome(t) == t.x < 8 /\ t.y < 16

fbClearChar(t) ==
    IF AtHome(t) THEN t
    ELSE [Back(t) EXCEPT !.ink[<<Back(t).x, Back(t).y>>] = 0]

Show(t) == /\ cursor_X' = t.x /\ cursor_Y' = t.y
           /\ clear' = t.clear /\ ink' = t.ink

-----------------------------------------------------------------------------
(* kmain printing with interrupts enabled: an interrupt can come between   *)
(* the copies, the work on them, and each of the two stores.               *)

CopyX == /\ printing = "copyX"
         /\ printed < Len(Message)
         /\ x_pos' = cursor_X
         /\ printing' = "copyY"
         /\ UNCHANGED <<screen, printed, y_pos>>

CopyY == /\ printing = "copyY"
         /\ y_pos' = cursor_Y
         /\ printing' = "work"
         /\ UNCHANGED <<screen, printed, x_pos>>

Work == /\ printing = "work"
        /\ LET t == fb_putchar([Shown EXCEPT !.x = x_pos, !.y = y_pos],
                               Message[printed + 1])
           IN /\ x_pos' = t.x /\ y_pos' = t.y
              /\ clear' = t.clear /\ ink' = t.ink
        /\ printing' = "storeX"
        /\ UNCHANGED <<cursor_X, cursor_Y, printed>>

StoreX == /\ printing = "storeX"
          /\ cursor_X' = x_pos
          /\ printing' = "storeY"
          /\ UNCHANGED <<cursor_Y, clear, ink, printed, x_pos, y_pos>>

StoreY == /\ printing = "storeY"
          /\ cursor_Y' = y_pos
          /\ printing' = "copyX"
          /\ printed' = printed + 1
          /\ UNCHANGED <<cursor_X, clear, ink, x_pos, y_pos>>

Putchar == CopyX \/ CopyY \/ Work \/ StoreX \/ StoreY

ConsoleInit ==
    /\ cursor_X = 0 /\ cursor_Y = 0 /\ clear = 0
    /\ ink = [p \in Places |-> 0]
    /\ printing = "copyX" /\ printed = 0
    /\ x_pos = 0 /\ y_pos = 0
    /\ raced = FALSE

ConsoleTypeOK ==
    /\ cursor_X \in Nat /\ cursor_Y \in Nat /\ clear \in 0 .. 2
    /\ ink \in [Places -> 0 .. 2]
    /\ printing \in {"copyX", "copyY", "work", "storeX", "storeY"}
    /\ printed \in 0 .. Len(Message)
    /\ x_pos \in Nat /\ y_pos \in Nat
    /\ raced \in BOOLEAN
=============================================================================
