----------------------------- MODULE MCBlockIO -----------------------------
(* BlockIO for TLC: requests that fit a transfer, need two or three, run   *)
(* past the end of the card, and wrap the sum of start and blkcnt.         *)
EXTENDS BlockIO
Old  == {[b \in CardBlocks |-> 10 + b]}
Mine == {[i \in Buffer |-> 20 + i], [i \in Buffer |-> 30 + i]}
All  == 0 .. 40
MCStarts == {0, 1, 2, 5, 7}
MCCounts == {0, 1, 2, 3, 4, 5}
=============================================================================
