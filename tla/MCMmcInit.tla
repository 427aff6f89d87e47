----------------------------- MODULE MCMmcInit -----------------------------
(* MmcInit for TLC: an SD 1.0, an SD 1.10, an SD 2.0 of standard and one of *)
(* high capacity, an MMC 3 and two MMC 4.                                   *)
EXTENDS MmcInit
Kind(sd, v2, hcap, wide, fast, v4) ==
  [sd |-> sd, v2 |-> v2, hc |-> hcap, wide |-> wide, hs |-> fast, v4 |-> v4]
SdCards  == {Kind(TRUE, FALSE, FALSE, w, s, FALSE) : w, s \in BOOLEAN}
              \cup {Kind(TRUE, TRUE, h, TRUE, s, FALSE) : h, s \in BOOLEAN}
MmcCards == {Kind(FALSE, FALSE, FALSE, FALSE, FALSE, FALSE)}
              \cup {Kind(FALSE, FALSE, h, TRUE, s, TRUE) : h, s \in BOOLEAN}
AllCards == SdCards \cup MmcCards
=============================================================================
