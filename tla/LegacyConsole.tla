----------------------------- MODULE LegacyConsole -----------------------------
(***************************************************************************)
(* fb_putchar of src/lib/legacy/fb.c, which every task, the system call    *)
(* and every interrupt handler of the legacy kernel prints with, over one  *)
(* cursor.  Handlers run with interrupts enabled, so that a printer may be *)
(* interrupted at any statement by another, and that one again; the clock  *)
(* switches tasks in the middle of a character.                            *)
(*                                                                         *)
(* Which handlers nest is what LegacyTasks shows: none within itself, the  *)
(* system call from a task only, and a switch only where the clock's       *)
(* handler was entered from a task.  Of the text only the place that is    *)
(* written is kept.  The code is compiled without optimisation: a step is  *)
(* one access to cursor or clear that the cursor depends on; the places    *)
(* that a row is cleared at and the hardware cursor are left out.          *)
(***************************************************************************)
EXTENDS Naturals, Sequences, FiniteSets

CONSTANTS Cols, Rows,   \* 80 and 25
          MAX_THREAD,   \* the number of tasks
          Callers,      \* the tasks that make a system call
          Openings      \* the sets of lines kmain may enable

Clock == 0
Keyboard == 1
SysCall == 144
Tasks == 0 .. MAX_THREAD - 1

\* What the kernel prints; no caller prints a backspace, tab or return.
Characters == {"glyph", "newline"}

ASSUME ScreenAssumption == Cols \in Nat \ {0} /\ Rows \in Nat \ {0}
ASSUME PrintersAssumption == /\ MAX_THREAD \in Nat \ {0} /\ Callers \subseteq Tasks
                             /\ \A o \in Openings : o \subseteq {Clock, Keyboard}

VARIABLES
    opened,                 \* the lines kmain enables
    x_pos, y_pos, clear,    \* the statics of fb_putchar
    current,                \* the task whose turn it is
    task,                   \* where each task is in fb_putchar
    stack                   \* where the handlers are, the innermost last

cursor == <<x_pos, y_pos, clear>>
lvars == <<opened, cursor, current, task, stack>>

\* A printer between two characters is at "done"; reg is what it has read.
Statements == {"guard", "guardY", "row", "cell", "inc", "incremented",
               "return", "feed", "fed", "testClear", "clearRow",
               "testX", "wrap", "wrapFeed", "wrapFed",
               "testY", "homeX", "homeY", "homeClear", "done", "bug"}

Printers == [who : Tasks \cup {Clock, Keyboard, SysCall}, at : Statements, reg : Nat]

PrinterAt(who, here) == [who |-> who, at |-> here, reg |-> 0]

LCInit == /\ opened \in Openings
          /\ x_pos \in 0 .. Cols - 1 /\ y_pos \in 0 .. Rows - 1 /\ clear \in {0, 1}
          /\ current = 0 /\ stack = <<>>
          /\ task = [t \in Tasks |-> PrinterAt(t, "done")]

-----------------------------------------------------------------------------
(* The printer that runs.                                                  *)

Printer == IF stack = <<>> THEN task[current] ELSE stack[Len(stack)]

Become(p) == IF stack = <<>>
             THEN task' = [task EXCEPT ![current] = p] /\ UNCHANGED stack
             ELSE stack' = [stack EXCEPT ![Len(stack)] = p] /\ UNCHANGED task

Step(here, there, reg) ==
    /\ Printer.at = here
    /\ Become([who |-> Printer.who, at |-> there, reg |-> reg])
    /\ UNCHANGED <<opened, current>>

\* Mutant: the guard is one column too early
guard_early(c) ==
    /\ \/ Step("guard", IF x_pos >= Cols THEN "bug" ELSE "guardY", 0)
       \/ Step("guardY", IF y_pos > Rows THEN "bug"
                         ELSE IF c = "newline" THEN "return" ELSE "row", 0)
    /\ UNCHANGED cursor

\* What the code says should not happen: fb_writer prints through fb_putchar, which
\* comes here again, until the stack is used up.
guard(c) ==
    /\ \/ Step("guard", IF x_pos > Cols THEN "bug" ELSE "guardY", 0)
       \/ Step("guardY", IF y_pos > Rows THEN "bug"
                         ELSE IF c = "newline" THEN "return" ELSE "row", 0)
    /\ UNCHANGED cursor

Glyph ==
    \/ Step("row", "cell", y_pos) /\ UNCHANGED cursor
    \/ Step("cell", "inc", 0) /\ UNCHANGED cursor
    \/ Step("inc", "incremented", x_pos) /\ UNCHANGED cursor
    \/ /\ Step("incremented", "testX", 0)
       /\ x_pos' = Printer.reg + 1 /\ UNCHANGED <<y_pos, clear>>

Newline ==
    \/ /\ Step("return", "feed", 0)
       /\ x_pos' = 0 /\ UNCHANGED <<y_pos, clear>>
    \/ Step("feed", "fed", y_pos) /\ UNCHANGED cursor
    \/ /\ Step("fed", "testClear", 0)
       /\ y_pos' = Printer.reg + 1 /\ UNCHANGED <<x_pos, clear>>
    \/ /\ Step("testClear", IF clear = 1 THEN "clearRow" ELSE "testX", 0)
       /\ UNCHANGED cursor
    \/ Step("clearRow", "testX", 0) /\ UNCHANGED cursor

WrapLine ==
    \/ Step("testX", IF x_pos >= Cols THEN "wrap" ELSE "testY", 0) /\ UNCHANGED cursor
    \/ /\ Step("wrap", "wrapFeed", 0)
       /\ x_pos' = 0 /\ UNCHANGED <<y_pos, clear>>
    \/ Step("wrapFeed", "wrapFed", y_pos) /\ UNCHANGED cursor
    \/ /\ Step("wrapFed", "testY", 0)
       /\ y_pos' = Printer.reg + 1 /\ UNCHANGED <<x_pos, clear>>

WrapPage ==
    \/ Step("testY", IF y_pos >= Rows THEN "homeX" ELSE "done", 0) /\ UNCHANGED cursor
    \/ /\ Step("homeX", "homeY", 0)
       /\ x_pos' = 0 /\ UNCHANGED <<y_pos, clear>>
    \/ /\ Step("homeY", "homeClear", 0)
       /\ y_pos' = 0 /\ UNCHANGED <<x_pos, clear>>
    \/ /\ Step("homeClear", "done", 0)
       /\ clear' = 1 /\ UNCHANGED <<x_pos, y_pos>>

fb_putchar == \/ \E c \in Characters : guard(c)
              \/ Glyph \/ Newline \/ WrapLine \/ WrapPage

-----------------------------------------------------------------------------
(* Tasks, and handlers above them.                                         *)

Between == Printer.at = "done"

PrintNext == Step("done", "guard", 0) /\ UNCHANGED cursor

\* Mutant: a handler may leave without having printed
Enter_silent(who) == /\ stack' = Append(stack, PrinterAt(who, "done"))
                     /\ UNCHANGED <<opened, cursor, current, task>>

\* A handler prints before all else, the clock's a "#".
Enter(who) == /\ stack' = Append(stack, PrinterAt(who, "guard"))
              /\ UNCHANGED <<opened, cursor, current, task>>

Interrupt(l) == l \in opened /\ (\A i \in 1 .. Len(stack) : stack[i].who # l) /\ Enter(l)

test_call == stack = <<>> /\ Between /\ current \in Callers /\ Enter(SysCall)

Return ==
    /\ stack # <<>> /\ Between
    /\ stack' = SubSeq(stack, 1, Len(stack) - 1)
    /\ current' = IF Len(stack) = 1 /\ Printer.who = Clock
                  THEN (current + 1) % MAX_THREAD ELSE current
    /\ UNCHANGED <<opened, cursor, task>>

LCNext == /\ Printer.at # "bug"
          /\ fb_putchar \/ PrintNext \/ test_call \/ Return \/ \E l \in opened : Interrupt(l)

LCSpec == LCInit /\ [][LCNext]_lvars

-----------------------------------------------------------------------------
(* Properties.                                                             *)

LCTypeOK ==
    /\ opened \in Openings
    /\ x_pos \in Nat /\ y_pos \in Nat /\ clear \in {0, 1}
    /\ current \in Tasks
    /\ task \in [Tasks -> Printers]
    /\ stack \in Seq(Printers)

\* The printers that wait for each other: the current task is number 0.
Waiting(i) == IF i = 0 THEN task[current] ELSE stack[i]
InCharacter(p) == p.at \notin {"guard", "guardY", "done", "bug"}
Interrupted(n) == {i \in 0 .. n - 1 : InCharacter(Waiting(i))}
Below(n) == Cardinality(Interrupted(n))

\* However printers interrupt each other, and tasks are switched in the middle
\* of a character, each that is interrupted has taken the cursor at most one
\* place, or one row, beyond the screen (fb.c:56, 44): the wraps of those that
\* have finished make good for all.
OneBeyondEach == /\ x_pos < Cols + Below(Len(stack) + 1)
                 /\ y_pos < Rows + Below(Len(stack) + 1)

\* What fb.c:31 says should not happen needs a printer that interrupts another
\* in the middle of a character, which had interrupted a third: it never comes
\* with the keyboard as the only line, as kmain.c:115 leaves them.
TripsOnlyNested == Printer.at = "bug" => Below(Len(stack)) >= 2

\* Where a printer that runs, above k that it interrupted, has the cursor.
Where(p, k, x, y) ==
    /\ x < Cols + k \/ (p.at \in {"testX", "wrap"} /\ x = Cols + k)
    /\ y < Rows + k \/ (/\ p.at \in {"testClear", "clearRow", "testX", "testY",
                                    "homeX", "homeY"}
                        /\ y = Rows + k /\ x < Cols)
    /\ p.at \in {"feed", "fed", "testClear", "clearRow", "wrapFeed", "wrapFed",
                 "testY", "homeX", "homeY", "homeClear", "done"} => x < Cols
    /\ p.at \in {"homeClear", "done"} => y < Rows
    /\ p.at = "bug" => x > Cols \/ y > Rows

\* What it has read stays within the same bounds while it is interrupted.
Kept(p, k) == /\ p.at = "incremented" => p.reg < Cols + k
              /\ p.at \in {"fed", "wrapFed"} => p.reg < Rows + k

PrintersInv ==
    /\ Where(Printer, Below(Len(stack)), x_pos, y_pos)
    /\ \A t \in Tasks : Kept(task[t], 0)
    /\ \A i \in 1 .. Len(stack) : Kept(stack[i], Below(i))
    /\ \A t \in Tasks : task[t].at = "bug" => t = current /\ stack = <<>>
    /\ \A i \in 1 .. Len(stack) : stack[i].at = "bug" => i = Len(stack)

ConsoleInv == LCTypeOK /\ OneBeyondEach /\ PrintersInv
=============================================================================
