----------------------------- MODULE MCLibrary -----------------------------
(* Library for TLC: words of 64 values, so that three digits overflow one. *)
EXTENDS Library
Alphabet == {" ", "-", "0", "x", "1", "6", "7", "9", "f"}
MCTexts == UNION {[1 .. n -> Alphabet] : n \in 0 .. 4}
=============================================================================
