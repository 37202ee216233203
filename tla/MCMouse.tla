------------------------------- MODULE MCMouse -------------------------------
(* A screen in which a glyph fits, and a few bytes: 8 is a first byte      *)
(* without flags and a short distance right and up, 184 a first byte with  *)
(* both signs and the Y overflow, and 244 never starts a packet and is a   *)
(* short distance left and down.                                           *)
EXTENDS Mouse

MCBytes == {8, 184, 244}

\* As the acknowledgement of PS2MouseInit does, it looks like a first byte.
MCStrayBytes == {184}
=============================================================================
