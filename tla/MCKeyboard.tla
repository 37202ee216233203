------------------------------ MODULE MCKeyboard ------------------------------
(* Two rows of two columns that are used, a key of each kind, and for a    *)
(* prefixed key a message that wraps the line.                             *)
EXTENDS Keyboard

MCKeys == {14, 28, 30, 42, 54, 57}

\* arrow up, arrow up released, and the fake shifts sent around it
MCPrefixedCodes == {72, 200, 42, 170}

\* What may be read twice: a shift, a prefix, and the mouse's acknowledgement
MCStrayBytes == {42, 224, 250}

MCMessage == <<"glyph">>
MCPrefixMessage == <<"glyph", "newline">>
=============================================================================
