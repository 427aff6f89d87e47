------------------------------ MODULE MCFat32 ------------------------------
(***************************************************************************)
(* Fat32 for TLC: a volume of two FAT windows, formatted and empty, with   *)
(* deleted slots in the root, or with a root full of other entries.        *)
(***************************************************************************)
EXTENDS Fat32

NameA  == <<1, 1>>
NameB  == <<2, 2>>
NameAB == <<1, 1, 2>>
NameD  == <<3, 3>>

MCEOC      == 100
MCLinks    == (0 .. FatSectors * EntriesPerSector - 1) \cup {MCEOC}
MCHi       == {0}
MCClusters == Cluster
NoFaults   == {}

MCPaths    == {<<NameA>>, <<NameB>>, <<NameD, NameA>>}
MCDirPaths == {<<NameD>>}
LongPaths  == {<<NameA>>, <<NameAB>>}
FillSizes  == {0, 2, 9}

(* A FAT whose root chain is Root .. n; mkfs marks entries 0 and 1 in use. *)
RootChain(n) ==
  [s \in Sectors |-> [o \in Offsets |->
     LET c == s * EntriesPerSector + o
     IN  IF c <= 1 \/ c = n THEN [hi |-> 0, lo |-> MCEOC]
         ELSE IF c < n THEN [hi |-> 0, lo |-> c + 1] ELSE Zero]]

Blank == [c \in Cluster |-> [n \in SlotNumbers |-> End]]

Card(d) == [disk |-> RootChain(Root), data |-> d]

(* Formatted cards, with or without deleted entries in the root. *)
Cards == {Card(Blank), Card([Blank EXCEPT ![Root][1] = Free]),
          Card([Blank EXCEPT ![Root][1] = Free, ![Root][2] = Free])}

(* Roots full of entries written elsewhere: a search and an allocation look *)
(* at DIRMAXCLUSTERS clusters each and share one, so that a root of seven   *)
(* is not seen to its end, and one of five can grow up to the limit.        *)
Other == Short(<<19, 19>>, "arch", 0, 0)
FullRoot(n) == [disk |-> RootChain(Root + n - 1),
                data |-> [c \in Cluster |-> [i \in SlotNumbers |->
                            IF c \in Root .. Root + n - 1 THEN Other ELSE End]]]
AllCards == Cards \cup {FullRoot(5), FullRoot(7)}

ASSUME CardsSound
=============================================================================
