---------------------------- MODULE MCSerialLoad ----------------------------
(* SerialLoad for TLC: lines of up to four keys, and sizes at which the    *)
(* progress bar changes its step.                                          *)
EXTENDS SerialLoad
Lines     == UNION {[1 .. n -> Char \cup {ASCII_SP, ASCII_BS, Ctrl}] : n \in 0 .. 4}
Aligned   == [typed : Lines, size : {4}] \cup [typed : {<<>>}, size : {4 * k : k \in 0 .. 34}]
Unaligned == [typed : {<<>>}, size : {5, 6, 7}]
CrOnly    == {<<CR>>, <<LF>>}
CrLf      == {<<CR, LF>>}
=============================================================================
