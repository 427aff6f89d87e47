----------------------------- MODULE MCFatTable -----------------------------
(* FatTable for TLC: entries hold free (0) or reserved (1). *)
EXTENDS FatTable

MCTwoLinks == 0 .. 1
MCHiBoth   == {0, 1}
MCClusters == 0 .. FatSectors * EntriesPerSector - 1
NoFaults   == {}
AllFaults  == {"read", "write"}
=============================================================================
