------------------------------ MODULE FatTable ------------------------------
(***************************************************************************)
(* The FAT layer of fs/fat32.c: a window of FATBUFFBLOCKS sectors of the   *)
(* file allocation table is kept in memory (fatBuff, based at sector       *)
(* fatBuffNum), entries are read and changed in the window, and the window *)
(* goes back to the card only when another one is needed or on a flush.    *)
(* AllocateCluster scans window after window for a zero entry.             *)
(*                                                                         *)
(* An entry is 32 bits: the low 28 are the link, the top 4 are kept by     *)
(* WriteEntry, masked by ReadEntry and looked at by AllocateCluster, so a  *)
(* word is a record of both parts.  The card answers a transfer of the     *)
(* whole window, or, when Faults allows it, stops after some sectors.      *)
(***************************************************************************)
EXTENDS Integers, FiniteSets

CONSTANTS
  FatSectors,        \* FatData.fatSectors = fatLength * fatsNum
  EntriesPerSector,  \* sectorSize / 4
  FATBUFFBLOCKS,     \* sectors of the window, 4 in the code
  CountRange,        \* 2^32 for uint32_t sectourCount
  Links,             \* values of the low 28 bits
  Hi,                \* values of the top 4 bits
  Clusters,          \* clusters that callers pass to ReadEntry and WriteEntry
  Faults             \* subset of {"read", "write"}: transfers that may stop short

Sectors == 0 .. FatSectors - 1
Offsets == 0 .. EntriesPerSector - 1
Blocks  == 0 .. FATBUFFBLOCKS - 1
Words   == [hi : Hi, lo : Links]

Zero     == [hi |-> 0, lo |-> 0]
Reserved == [hi |-> 0, lo |-> 1]

SectorOf(c) == c \div EntriesPerSector
OffsetOf(c) == c % EntriesPerSector

ASSUME GeometryAssumption ==
  /\ FatSectors \in Nat /\ EntriesPerSector \in Nat \ {0}
  /\ FATBUFFBLOCKS \in Nat \ {0} /\ FATBUFFBLOCKS <= FatSectors
  /\ CountRange \in Nat /\ FatSectors < CountRange
ASSUME WordAssumption ==
  /\ 0 \in Hi /\ {0, 1} \subseteq Links
ASSUME ClusterAssumption ==
  Clusters \subseteq Nat /\ \A c \in Clusters : SectorOf(c) \in Sectors
ASSUME FaultAssumption == Faults \subseteq {"read", "write"}

VARIABLES
  disk,          \* the FAT area of the card
  fatBuff,       \* FatData.fatBuff
  fatBuffNum,    \* FatData.fatBuffNum, -1 before the first load
  fatDirty,      \* FatData.fatDirty
  pc,            \* "scan" inside the loop of AllocateCluster
  sector,        \* AllocateCluster's sector
  sectourCount,  \* AllocateCluster's sectourCount
  ret            \* what the last call answered

fatVars  == <<disk, fatBuff, fatBuffNum, fatDirty>>
scanVars == <<pc, sector, sectourCount>>
vars     == <<disk, fatBuff, fatBuffNum, fatDirty, pc, sector, sectourCount, ret>>

Table  == [Sectors -> [Offsets -> Words]]
Window == [Blocks -> [Offsets -> Words]]

(* fatBuffNum <= s < fatBuffNum + FATBUFFBLOCKS, and a window is loaded *)
InWindow(s) == /\ fatBuffNum >= 0
               /\ fatBuffNum <= s
               /\ s < fatBuffNum + FATBUFFBLOCKS

(***************************************************************************)
(* Fat32FlushFat: what the card may hold after the window was written      *)
(* back.  A short write is not noticed: the caller clears fatDirty anyway. *)
(***************************************************************************)
Lengths(kind) == IF kind \in Faults THEN 0 .. FATBUFFBLOCKS ELSE {FATBUFFBLOCKS}

FlushedForgotten == {disk}  \* a flush that writes nothing

Flushed ==
  IF fatDirty
  THEN {[s \in Sectors |-> IF fatBuffNum <= s /\ s < fatBuffNum + n
                           THEN fatBuff[s - fatBuffNum] ELSE disk[s]] :
           n \in Lengths("write")}
  ELSE {disk}

(***************************************************************************)
(* Fat32ReadFatSector(s): the possible outcomes.  ok is FALSE when the     *)
(* code returns NULL: the sector is past the area, or the read failed, in  *)
(* which case n sectors were overwritten and fatBuffNum was not moved.     *)
(***************************************************************************)
LoadBase(s) == IF s > FatSectors - FATBUFFBLOCKS
               THEN FatSectors - FATBUFFBLOCKS ELSE s

LoadedUnclamped(d, s, n) ==  \* the base is the sector asked for
  [disk  |-> d,
   buff  |-> [k \in Blocks |-> IF k < n THEN d[LoadBase(s) + k] ELSE fatBuff[k]],
   num   |-> IF n = FATBUFFBLOCKS THEN s ELSE fatBuffNum,
   dirty |-> FALSE,
   ok    |-> n = FATBUFFBLOCKS]

Loaded(d, s, n) ==
  [disk  |-> d,
   buff  |-> [k \in Blocks |-> IF k < n THEN d[LoadBase(s) + k] ELSE fatBuff[k]],
   num   |-> IF n = FATBUFFBLOCKS THEN LoadBase(s) ELSE fatBuffNum,
   dirty |-> FALSE,
   ok    |-> n = FATBUFFBLOCKS]

Kept(found) == [disk |-> disk, buff |-> fatBuff, num |-> fatBuffNum,
                dirty |-> fatDirty, ok |-> found]

ReadFatSectorUnsaved(s) ==  \* a dirty window is not saved before the load
  IF s > FatSectors THEN {Kept(FALSE)}
  ELSE IF InWindow(s) THEN {Kept(TRUE)}
  ELSE {Loaded(disk, s, n) : n \in Lengths("read")}

ReadFatSector(s) ==
  IF s > FatSectors THEN {Kept(FALSE)}
  ELSE IF InWindow(s) THEN {Kept(TRUE)}
  ELSE {Loaded(d, s, n) : d \in Flushed, n \in Lengths("read")}

Become(r) == /\ disk' = r.disk
             /\ fatBuff' = r.buff
             /\ fatBuffNum' = r.num
             /\ fatDirty' = r.dirty

-----------------------------------------------------------------------------
Init == /\ disk \in Table
        /\ \E w \in Words : fatBuff = [k \in Blocks |-> [o \in Offsets |-> w]]
        /\ fatBuffNum = -1
        /\ fatDirty = FALSE
        /\ pc = "ready" /\ sector = 0 /\ sectourCount = 0
        /\ ret = [op |-> "none"]

(* Fat32ReadEntry: through a NULL pointer it reads what is at address 0. *)
ReadEntry(c) ==
  /\ pc = "ready"
  /\ \E r \in ReadFatSector(SectorOf(c)) :
       /\ Become(r)
       /\ \E v \in IF r.ok THEN {r.buff[SectorOf(c) - r.num][OffsetOf(c)].lo}
                           ELSE Links :
            ret' = [op |-> "read", cluster |-> c, val |-> v]
  /\ UNCHANGED scanVars

(* Fat32WriteEntry: fatDirty is set whether or not the window was loaded. *)
WriteEntry(c, v) ==
  /\ pc = "ready"
  /\ \E r \in ReadFatSector(SectorOf(c)) :
       /\ disk' = r.disk
       /\ fatBuffNum' = r.num
       /\ fatBuff' = IF r.ok
                     THEN [r.buff EXCEPT ![SectorOf(c) - r.num][OffsetOf(c)].lo = v]
                     ELSE r.buff
  /\ fatDirty' = TRUE
  /\ ret' = [op |-> "write", cluster |-> c, val |-> v]
  /\ UNCHANGED scanVars

FlushFat ==
  /\ pc = "ready"
  /\ disk' \in Flushed
  /\ fatDirty' = FALSE
  /\ ret' = [op |-> "flush"]
  /\ UNCHANGED <<fatBuff, fatBuffNum, scanVars>>

(* Fat32AllocateCluster up to its loop. *)
AllocateCluster ==
  /\ pc = "ready"
  /\ \E r \in IF fatBuffNum = -1 THEN ReadFatSector(0) ELSE {Kept(TRUE)} :
       Become(r) /\ sector' = r.num
  /\ sectourCount' = FatSectors
  /\ pc' = "scan"
  /\ ret' = [op |-> "none"]

Return == pc' = "ready" /\ sector' = 0 /\ sectourCount' = 0

(* The lowest zero entry of the window, in the order of the inner loop. *)
IsFirstFree(k, o) ==
  /\ fatBuff[k][o] = Zero
  /\ \A j \in Blocks, p \in Offsets :
        fatBuff[j][p] = Zero => k < j \/ (k = j /\ o <= p)

(* The number returned is counted from sector, not from fatBuffNum. *)
ScanFound ==
  /\ pc = "scan" /\ sectourCount > 0
  /\ \E k \in Blocks, o \in Offsets :
       /\ IsFirstFree(k, o)
       /\ fatBuff' = [fatBuff EXCEPT ![k][o] = Reserved]
       /\ ret' = [op |-> "alloc",
                  cluster |-> (sector + k) * EntriesPerSector + o]
  /\ fatDirty' = TRUE
  /\ Return
  /\ UNCHANGED <<disk, fatBuffNum>>

NoFree == \A k \in Blocks, o \in Offsets : fatBuff[k][o] # Zero

ScanNextPastEnd ==  \* the wrap-around test is off by one
  /\ pc = "scan" /\ sectourCount > 0
  /\ NoFree
  /\ LET next == sector + FATBUFFBLOCKS
     IN  sector' = IF next > FatSectors THEN 0 ELSE next
  /\ \E r \in ReadFatSector(sector') : Become(r)
  /\ sectourCount' = (sectourCount - FATBUFFBLOCKS) % CountRange
  /\ UNCHANGED <<pc, ret>>

ScanNextUncounted ==  \* the windows scanned are not counted down
  /\ pc = "scan" /\ sectourCount > 0
  /\ NoFree
  /\ LET next == sector + FATBUFFBLOCKS
     IN  sector' = IF next >= FatSectors THEN 0 ELSE next
  /\ \E r \in ReadFatSector(sector') : Become(r)
  /\ UNCHANGED <<pc, sectourCount, ret>>

ScanNext ==
  /\ pc = "scan" /\ sectourCount > 0
  /\ NoFree
  /\ LET next == sector + FATBUFFBLOCKS
     IN  sector' = IF next >= FatSectors THEN 0 ELSE next
  /\ \E r \in ReadFatSector(sector') : Become(r)
  /\ sectourCount' = (sectourCount - FATBUFFBLOCKS) % CountRange
  /\ UNCHANGED <<pc, ret>>

ScanFull ==
  /\ pc = "scan" /\ sectourCount = 0
  /\ ret' = [op |-> "full"]
  /\ Return
  /\ UNCHANGED fatVars

Scan == ScanFound \/ ScanNext \/ ScanFull

Next == \/ \E c \in Clusters : ReadEntry(c)
        \/ \E c \in Clusters, v \in Links : WriteEntry(c, v)
        \/ FlushFat
        \/ AllocateCluster
        \/ Scan

Spec == Init /\ [][Next]_vars

(* The loop of AllocateCluster is sequential code: it keeps running. *)
FairSpec == Spec /\ WF_vars(Scan)
-----------------------------------------------------------------------------
TypeOK ==
  /\ disk \in Table
  /\ fatBuff \in Window
  /\ fatBuffNum \in Int
  /\ fatDirty \in BOOLEAN
  /\ pc \in {"ready", "scan"}
  /\ sector \in -1 .. FatSectors - 1
  /\ sectourCount \in 0 .. CountRange - 1

(* The window never leaves the FAT area: fat32.c computes its base from a  *)
(* sector a caller asked for, and a flush writes FATBUFFBLOCKS sectors     *)
(* from that base, over the data area if the base were too high.  It holds *)
(* even when transfers fail.                                               *)
WindowInRange == fatBuffNum \in {-1} \cup 0 .. FatSectors - FATBUFFBLOCKS

(* When the card answers every call, only a loaded window is scanned or    *)
(* dirty, and one that is not dirty is a copy of the card: nothing written *)
(* to the window is lost by a reload (fat32.c:108 saves it first).         *)
CleanWindowMatches ==
  /\ fatDirty \/ pc = "scan" => fatBuffNum # -1
  /\ fatBuffNum # -1 /\ ~fatDirty
       => \A k \in Blocks : fatBuff[k] = disk[fatBuffNum + k]

(* The table a caller sees: the window over the card. *)
Logical == [s \in Sectors |-> IF InWindow(s) THEN fatBuff[s - fatBuffNum] ELSE disk[s]]

(* fat32.c:190 "Reserve cluster": the cluster that AllocateCluster returns *)
(* is the one it has reserved.                                             *)
AllocReturnsReserved ==
  ret.op = "alloc" =>
    /\ SectorOf(ret.cluster) \in Sectors
    /\ Logical[SectorOf(ret.cluster)][OffsetOf(ret.cluster)] = Reserved

(* fat32.c:197 "Not free cluster found load more sectors": a scan that     *)
(* gives up has loaded every sector, so there is no zero entry anywhere.   *)
FullMeansFull ==
  ret.op = "full" => \A s \in Sectors, o \in Offsets : Logical[s][o] # Zero

(* A scan ends: AllocateCluster answers with a cluster or gives up. *)
ScanEnds == pc = "scan" ~> pc = "ready"

(* What the abstract table answers: the entry a call was for, and its link. *)
(* The number AllocateCluster returns is not part of it:                    *)
(* AllocReturnsReserved is about that.                                      *)
Answer == IF ret.op \in {"read", "write"}
          THEN [op |-> ret.op, val |-> ret.val,
                at |-> <<SectorOf(ret.cluster), OffsetOf(ret.cluster)>>]
          ELSE [op |-> ret.op]

Map == INSTANCE FatMap WITH fat <- Logical, answer <- Answer

(* With a card that answers, loading and flushing the window is invisible: *)
(* every step of the code is one call on a plain table, or nothing.        *)
ImplementsMap == Map!Spec
=============================================================================
