---------------------------- MODULE MCSunxiMmc ----------------------------
(* SunxiMmc for TLC: the rates mmc.c asks for, 400 kHz to 52 MHz, and one  *)
(* that no divider reaches.                                                *)
EXTENDS SunxiMmc
MCClocks == {1, 4, 200, 250, 260, 500, 520}
TwoClocks == {4, 250}
\* The loop of mmc_set_mod_clk, which Halved and Halvings close.
Halving[k \in Nat, div \in Nat] ==
  IF div <= 16 THEN <<k, div>> ELSE Halving[k + 1, CeilDiv(div, 2)]
ASSUME
  \A hz \in 1 .. 600 :
    LET loop == Halving[0, CeilDiv(Source(hz), hz)]
    IN  IF loop[1] > 3 THEN Fitting(hz) = {}
                       ELSE loop = <<Halvings(hz), Halved(hz, Halvings(hz))>>
=============================================================================
