----------------------------- MODULE MCLegacyTasks -----------------------------
(* Three tasks, of which the second makes system calls, as in global.c; the  *)
(* clock, the keyboard and the floppy use the controller.                    *)
EXTENDS LegacyTasks

MCLines == {Clock, Keyboard, 6}

\* With the clock enabled, and without it as kmain.c:115 leaves it.
MCOpenings == {{Clock, Keyboard}, {Keyboard}}
=============================================================================
