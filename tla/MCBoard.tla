------------------------------ MODULE MCBoard ------------------------------
(* Board for TLC: a counter of 24 bits, delays of their real lengths, and  *)
(* every chip of up to 2 GB.                                               *)
EXTENDS Board
\* As after a reset, and as after a boot ROM that runs the core from PLL1 divided by two.
MCEntries == {[axi |-> OSC24M * 65536, pll1 |-> [n |-> 16, k |-> 0, m |-> 0, p |-> 0]],
              [axi |-> PLL1 * 65536, pll1 |-> [n |-> 16, k |-> 1, m |-> 0, p |-> 1]]}
MCWakes == {0, Word - 2000, Half - 2000}
MCChips ==
  {c \in [dual : BOOLEAN, full : BOOLEAN, row : 11 .. 16, bank : 2 .. 3,
          page : {512, 1024, 2048, 4096, 8192}, good : {TRUE}] :
     2 ^ (c.row + c.bank) * (c.page \div 512) * (IF c.dual THEN 2 ELSE 1) <= 2 ^ 22}
  \cup [dual : BOOLEAN, full : BOOLEAN, row : {15}, bank : {3}, page : {2048}, good : {FALSE}]
\* The hypotheses of the theorems of BoardProofs hold of this board.
ASSUME CounterSuits /\ SizesFit
=============================================================================
