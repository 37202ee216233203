---------------------------- MODULE MCLegacyConsole ----------------------------
(* Two tasks, of which the second makes system calls; a screen of two by two. *)
EXTENDS LegacyConsole

\* With the clock enabled, and without it as kmain.c:115 leaves it.
MCOpenings == {{Clock, Keyboard}, {Keyboard}}
=============================================================================
