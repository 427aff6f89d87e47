---------------------------- MODULE Fat32Proofs ----------------------------
(***************************************************************************)
(* Proofs about FatTable and about Fat32, which extends it, for every      *)
(* geometry, card and path.                                                *)
(*                                                                         *)
(* 1. The table alone: types and the range of the window hold even when    *)
(*    transfers stop short; with a card that answers, the window agrees    *)
(*    with the card and FatTable implements FatMap.                        *)
(* 2. Words and chains: what Chain(c) walks through, which takes an        *)
(*    induction by least counterexample.                                   *)
(* 3. Sound volumes: what a sound table and sound names say of the card,   *)
(*    and which stores keep them sound.                                    *)
(* 4. The volume: SoundInv, one lemma for each kind of step, and the       *)
(*    theorems about behaviours in which scans are aligned.                *)
(* 5. Chains, on the card and in the window over it: LinkInv, one lemma    *)
(*    for each kind of step, and NoCrossLink.                              *)
(***************************************************************************)
EXTENDS Fat32, TLAPS, WellFoundedInduction, FiniteSetTheorems

USE GeometryAssumption, WordAssumption, ClusterAssumption

(* What the card may hold after a flush is a table. *)
LEMMA FlushedType ==
  ASSUME TypeOK, NEW d \in Flushed
  PROVE  d \in Table
<1>1. CASE fatDirty
  <2>1. PICK n \in Lengths("write") :
          d = [s \in Sectors |-> IF fatBuffNum <= s /\ s < fatBuffNum + n
                                 THEN fatBuff[s - fatBuffNum] ELSE disk[s]]
    BY <1>1 DEF Flushed
  <2>2. n \in 0 .. FATBUFFBLOCKS
    BY DEF Lengths
  <2>3. ASSUME NEW s \in Sectors
        PROVE  (IF fatBuffNum <= s /\ s < fatBuffNum + n
                THEN fatBuff[s - fatBuffNum] ELSE disk[s]) \in [Offsets -> Words]
    <3>1. CASE fatBuffNum <= s /\ s < fatBuffNum + n
      <4>1. s - fatBuffNum \in Blocks
        BY <2>2, <3>1 DEF TypeOK, Sectors, Blocks
      <4>. QED  BY <3>1, <4>1 DEF TypeOK, Window
    <3>2. CASE ~(fatBuffNum <= s /\ s < fatBuffNum + n)
      BY <3>2 DEF TypeOK, Table
    <3>. QED  BY <3>1, <3>2
  <2>. QED  BY <2>1, <2>3 DEF Table
<1>2. CASE ~fatDirty
  BY <1>2 DEF Flushed, TypeOK
<1>. QED  BY <1>1, <1>2

(* The base Fat32ReadFatSector computes keeps the window in the area, and  *)
(* the sector asked for inside the window.                                 *)
LEMMA LoadBaseInRange ==
  ASSUME NEW s \in Sectors
  PROVE  /\ LoadBase(s) \in 0 .. FatSectors - FATBUFFBLOCKS
         /\ s - LoadBase(s) \in Blocks
BY DEF LoadBase, Sectors, Blocks

(* Every outcome of Fat32ReadFatSector keeps the types and the range. *)
LEMMA ReadFatSectorType ==
  ASSUME TypeOK, WindowInRange, NEW s \in Sectors, NEW r \in ReadFatSector(s)
  PROVE  /\ r.disk \in Table
         /\ r.buff \in Window
         /\ r.num \in {-1} \cup 0 .. FatSectors - FATBUFFBLOCKS
         /\ r.dirty \in BOOLEAN
         /\ r.ok \in BOOLEAN
         /\ r.ok => r.num # -1 /\ s - r.num \in Blocks
<1>1. ~(s > FatSectors)
  BY DEF Sectors
<1>2. CASE InWindow(s)
  <2>1. r = Kept(TRUE)
    BY <1>1, <1>2 DEF ReadFatSector
  <2>2. s - fatBuffNum \in Blocks
    BY <1>2 DEF InWindow, TypeOK, Sectors, Blocks
  <2>. QED  BY <1>2, <2>1, <2>2 DEF Kept, TypeOK, WindowInRange, InWindow
<1>3. CASE ~InWindow(s)
  <2>1. PICK d \in Flushed, n \in Lengths("read") : r = Loaded(d, s, n)
    BY <1>1, <1>3 DEF ReadFatSector
  <2>2. d \in Table
    BY FlushedType
  <2>3. n \in 0 .. FATBUFFBLOCKS
    BY DEF Lengths
  <2>4. r.buff \in Window
    <3>1. ASSUME NEW k \in Blocks
          PROVE  (IF k < n THEN d[LoadBase(s) + k] ELSE fatBuff[k]) \in [Offsets -> Words]
      <4>1. LoadBase(s) + k \in Sectors
        BY LoadBaseInRange DEF Sectors, Blocks
      <4>. QED  BY <2>2, <4>1 DEF Table, TypeOK, Window
    <3>. QED  BY <2>1, <3>1 DEF Loaded, Window
  <2>5. r.num \in {fatBuffNum, LoadBase(s)} /\ (r.ok => r.num = LoadBase(s))
    BY <2>1 DEF Loaded
  <2>6. r.disk = d /\ r.dirty = FALSE /\ r.ok \in BOOLEAN
    BY <2>1 DEF Loaded
  <2>7. LoadBase(s) \in 0 .. FatSectors - FATBUFFBLOCKS /\ s - LoadBase(s) \in Blocks
    BY LoadBaseInRange
  <2>8. r.num \in {-1} \cup 0 .. FatSectors - FATBUFFBLOCKS
    BY <2>5, <2>7 DEF WindowInRange
  <2>9. r.ok => r.num # -1 /\ s - r.num \in Blocks
    BY <2>5, <2>7
  <2>. QED  BY <2>2, <2>4, <2>6, <2>8, <2>9
<1>. QED  BY <1>2, <1>3

-----------------------------------------------------------------------------
(* Storing one entry, or its link alone, keeps a window a window. *)
LEMMA StoreType ==
  ASSUME NEW b \in Window, NEW k \in Blocks, NEW o \in Offsets
  PROVE  /\ \A w \in Words : [b EXCEPT ![k][o] = w] \in Window
         /\ \A v \in Links : [b EXCEPT ![k][o].lo = v] \in Window
<1>1. ASSUME NEW w \in Words
      PROVE  [b EXCEPT ![k][o] = w] \in Window
  <2>1. [b[k] EXCEPT ![o] = w] \in [Offsets -> Words]
    BY DEF Window
  <2>. QED  BY <2>1 DEF Window
<1>2. ASSUME NEW v \in Links
      PROVE  [b EXCEPT ![k][o].lo = v] \in Window
  <2>1. b[k][o] \in Words
    BY DEF Window
  <2>2. [b[k][o] EXCEPT !.lo = v] \in Words
    BY <2>1 DEF Words
  <2>3. [b EXCEPT ![k][o].lo = v] = [b EXCEPT ![k][o] = [b[k][o] EXCEPT !.lo = v]]
    OBVIOUS
  <2>. QED  BY <1>1, <2>2, <2>3
<1>. QED  BY <1>1, <1>2

LEMMA OffsetInRange ==
  ASSUME NEW c \in Clusters
  PROVE  SectorOf(c) \in Sectors /\ OffsetOf(c) \in Offsets
BY DEF OffsetOf, Offsets

(* Every step keeps the types and the range of the window: each call that  *)
(* loads a window is covered by ReadFatSectorType.                         *)
LEMMA TypeStep ==
  ASSUME TypeOK, WindowInRange, Next
  PROVE  TypeOK' /\ WindowInRange'
<1>1. ASSUME NEW c \in Clusters, ReadEntry(c)
      PROVE  TypeOK' /\ WindowInRange'
  <2>1. PICK r \in ReadFatSector(SectorOf(c)) : Become(r)
    BY <1>1 DEF ReadEntry
  <2>2. /\ r.disk \in Table /\ r.buff \in Window /\ r.dirty \in BOOLEAN
        /\ r.num \in {-1} \cup 0 .. FatSectors - FATBUFFBLOCKS
    BY OffsetInRange, ReadFatSectorType
  <2>. QED  BY <1>1, <2>1, <2>2
            DEF ReadEntry, Become, TypeOK, WindowInRange, scanVars
<1>2. ASSUME NEW c \in Clusters, NEW v \in Links, WriteEntry(c, v)
      PROVE  TypeOK' /\ WindowInRange'
  <2>. DEFINE s == SectorOf(c)
              o == OffsetOf(c)
  <2>1. PICK r \in ReadFatSector(s) :
          /\ disk' = r.disk
          /\ fatBuffNum' = r.num
          /\ fatBuff' = IF r.ok THEN [r.buff EXCEPT ![s - r.num][o].lo = v] ELSE r.buff
    BY <1>2 DEF WriteEntry
  <2>2. /\ r.disk \in Table /\ r.buff \in Window
        /\ r.num \in {-1} \cup 0 .. FatSectors - FATBUFFBLOCKS
        /\ r.ok => s - r.num \in Blocks
    BY OffsetInRange, ReadFatSectorType
  <2>3. r.ok => [r.buff EXCEPT ![s - r.num][o].lo = v] \in Window
    BY <2>2, OffsetInRange, StoreType
  <2>4. fatBuff' \in Window
    BY <2>1, <2>2, <2>3
  <2>. QED  BY <1>2, <2>1, <2>2, <2>4 DEF WriteEntry, TypeOK, WindowInRange, scanVars
<1>3. CASE FlushFat
  BY <1>3, FlushedType DEF FlushFat, TypeOK, WindowInRange, scanVars
<1>4. CASE AllocateCluster
  <2>1. 0 \in Sectors
    BY DEF Sectors
  <2>2. PICK r \in (IF fatBuffNum = -1 THEN ReadFatSector(0) ELSE {Kept(TRUE)}) :
          Become(r) /\ sector' = r.num
    BY <1>4 DEF AllocateCluster
  <2>3. /\ r.disk \in Table /\ r.buff \in Window /\ r.dirty \in BOOLEAN
        /\ r.num \in {-1} \cup 0 .. FatSectors - FATBUFFBLOCKS
    <3>1. CASE fatBuffNum = -1
      BY <2>1, <2>2, <3>1, ReadFatSectorType
    <3>2. CASE fatBuffNum # -1
      BY <2>2, <3>2 DEF Kept, TypeOK, WindowInRange
    <3>. QED  BY <3>1, <3>2
  <2>. QED  BY <1>4, <2>2, <2>3 DEF AllocateCluster, Become, TypeOK, WindowInRange
<1>5. CASE ScanFound
  <2>1. PICK k \in Blocks, o \in Offsets :
          fatBuff' = [fatBuff EXCEPT ![k][o] = Reserved]
    BY <1>5 DEF ScanFound
  <2>2. Reserved \in Words /\ fatBuff \in Window
    BY <1>5 DEF TypeOK, Reserved, Words
  <2>3. fatBuff' \in Window
    BY <2>1, <2>2, StoreType
  <2>. QED  BY <1>5, <2>3 DEF ScanFound, Return, TypeOK, WindowInRange
<1>6. CASE ScanNext
  <2>1. sector' \in Sectors
    BY <1>6 DEF ScanNext, TypeOK, Sectors
  <2>2. PICK r \in ReadFatSector(sector') : Become(r)
    BY <1>6 DEF ScanNext
  <2>3. sectourCount' \in 0 .. CountRange - 1
    BY <1>6 DEF ScanNext, TypeOK
  <2>. QED  BY <1>6, <2>1, <2>2, <2>3, ReadFatSectorType
            DEF ScanNext, Become, TypeOK, WindowInRange, Sectors
<1>7. CASE ScanFull
  BY <1>7 DEF ScanFull, Return, fatVars, TypeOK, WindowInRange
<1>. QED  BY <1>1, <1>2, <1>3, <1>4, <1>5, <1>6, <1>7 DEF Next, Scan

(* The window never leaves the FAT area, whatever the card does: the bases *)
(* of fat32.c:112 are in range and no other code moves the window.         *)
THEOREM WindowCorrect == Spec => [](TypeOK /\ WindowInRange)
<1>1. Init => TypeOK /\ WindowInRange
  <2>. SUFFICES ASSUME Init PROVE TypeOK /\ WindowInRange
    OBVIOUS
  <2>1. PICK w \in Words : fatBuff = [k \in Blocks |-> [o \in Offsets |-> w]]
    BY DEF Init
  <2>2. fatBuff \in Window
    BY <2>1 DEF Window
  <2>3. disk \in Table /\ fatBuffNum = -1 /\ fatDirty = FALSE
        /\ pc = "ready" /\ sector = 0 /\ sectourCount = 0
    BY DEF Init
  <2>4. fatDirty \in BOOLEAN
    BY <2>3
  <2>. QED  BY <2>2, <2>3, <2>4 DEF TypeOK, WindowInRange
<1>2. TypeOK /\ WindowInRange /\ [Next]_vars => TypeOK' /\ WindowInRange'
  <2>1. CASE UNCHANGED vars
    BY <2>1 DEF vars, TypeOK, WindowInRange
  <2>. QED  BY <2>1, TypeStep
<1>. QED  BY <1>1, <1>2, PTL DEF Spec

(* The types of the FAT layer, on which all of fat32.c above it rests. *)
THEOREM TableTyped == Spec => []TypeOK
BY WindowCorrect, PTL
-----------------------------------------------------------------------------
(* The table seen through a window b based at n over the sectors of dk. *)
View(dk, b, n) == [t \in Sectors |-> IF n >= 0 /\ n <= t /\ t < n + FATBUFFBLOCKS
                                     THEN b[t - n] ELSE dk[t]]

LEMMA LogicalView == /\ Logical = View(disk, fatBuff, fatBuffNum)
                     /\ Logical' = View(disk', fatBuff', fatBuffNum')
BY DEF Logical, View, InWindow

LEMMA LogicalType ==
  ASSUME TypeOK
  PROVE  Logical \in Table
<1>1. ASSUME NEW s \in Sectors
      PROVE  (IF InWindow(s) THEN fatBuff[s - fatBuffNum] ELSE disk[s])
               \in [Offsets -> Words]
  <2>1. CASE InWindow(s)
    <3>1. s - fatBuffNum \in Blocks
      BY <2>1 DEF InWindow, TypeOK, Sectors, Blocks
    <3>. QED  BY <2>1, <3>1 DEF TypeOK, Window
  <2>2. CASE ~InWindow(s)
    BY <2>2 DEF TypeOK, Table
  <2>. QED  BY <2>1, <2>2
<1>. QED  BY <1>1 DEF Logical, Table

(* With a card that answers, a flush leaves on the card what callers saw. *)
LEMMA FlushedIsLogical ==
  ASSUME TypeOK, WindowInRange, CleanWindowMatches, Faults = {}, NEW d \in Flushed
  PROVE  d = Logical
<1>1. CASE fatDirty
  <2>1. d = [s \in Sectors |->
               IF fatBuffNum <= s /\ s < fatBuffNum + FATBUFFBLOCKS
               THEN fatBuff[s - fatBuffNum] ELSE disk[s]]
    BY <1>1 DEF Flushed, Lengths
  <2>2. fatBuffNum >= 0
    BY <1>1 DEF CleanWindowMatches, WindowInRange
  <2>. QED  BY <2>1, <2>2 DEF Logical, InWindow
<1>2. CASE ~fatDirty
  <2>1. d = disk
    BY <1>2 DEF Flushed
  <2>2. ASSUME NEW s \in Sectors, InWindow(s)
        PROVE  fatBuff[s - fatBuffNum] = disk[s]
    <3>1. /\ s - fatBuffNum \in Blocks
          /\ fatBuffNum # -1
          /\ fatBuffNum + (s - fatBuffNum) = s
      BY <2>2 DEF InWindow, TypeOK, Sectors, Blocks
    <3>. QED  BY <1>2, <3>1 DEF CleanWindowMatches
  <2>3. disk = [s \in Sectors |-> disk[s]]
    BY DEF TypeOK, Table
  <2>. QED  BY <2>1, <2>2, <2>3 DEF Logical
<1>. QED  BY <1>1, <1>2

(* With a card that answers, Fat32ReadFatSector finds the sector, a clean  *)
(* window matches the card, and nothing a caller can see has changed.      *)
LEMMA ReadFatSectorAnswers ==
  ASSUME TypeOK, WindowInRange, CleanWindowMatches, Faults = {},
         NEW s \in Sectors, NEW r \in ReadFatSector(s)
  PROVE  /\ r.ok
         /\ ~r.dirty => \A k \in Blocks : r.buff[k] = r.disk[r.num + k]
         /\ View(r.disk, r.buff, r.num) = Logical
<1>1. ~(s > FatSectors)
  BY DEF Sectors
<1>2. CASE InWindow(s)
  <2>1. r = Kept(TRUE)
    BY <1>1, <1>2 DEF ReadFatSector
  <2>2. fatBuffNum # -1
    BY <1>2 DEF InWindow
  <2>. QED  BY <2>1, <2>2, LogicalView DEF Kept, CleanWindowMatches
<1>3. CASE ~InWindow(s)
  <2>1. PICK d \in Flushed : r = Loaded(d, s, FATBUFFBLOCKS)
    BY <1>1, <1>3 DEF ReadFatSector, Lengths
  <2>2. d = Logical /\ d \in Table
    BY FlushedIsLogical, FlushedType
  <2>. DEFINE base == LoadBase(s)
  <2>3. base \in 0 .. FatSectors - FATBUFFBLOCKS
    BY LoadBaseInRange
  <2>4. /\ r.ok /\ r.disk = d /\ r.num = base
        /\ \A k \in Blocks : r.buff[k] = d[base + k]
    <3>1. r.ok /\ r.disk = d /\ r.num = base
      BY <2>1 DEF Loaded
    <3>2. r.buff = [k \in Blocks |-> IF k < FATBUFFBLOCKS
                                     THEN d[base + k] ELSE fatBuff[k]]
      BY <2>1 DEF Loaded
    <3>3. \A k \in Blocks : k < FATBUFFBLOCKS
      BY DEF Blocks
    <3>. HIDE DEF base
    <3>. QED  BY <3>1, <3>2, <3>3
  <2>. HIDE DEF base
  <2>5. View(r.disk, r.buff, r.num) = d
    <3>1. ASSUME NEW t \in Sectors, base <= t, t < base + FATBUFFBLOCKS
          PROVE  r.buff[t - base] = d[t]
      <4>1. t - base \in Blocks /\ base + (t - base) = t
        BY <2>3, <3>1 DEF Sectors, Blocks
      <4>. QED  BY <2>4, <4>1
    <3>2. d = [t \in Sectors |-> d[t]]
      BY <2>2 DEF Table
    <3>. QED  BY <2>4, <3>1, <3>2 DEF View
  <2>. QED  BY <2>2, <2>4, <2>5
<1>. QED  BY <1>2, <1>3

-----------------------------------------------------------------------------
(* Inside its window, a view shows the window. *)
LEMMA ViewInside ==
  ASSUME NEW dk \in Table, NEW b \in Window,
         NEW n \in 0 .. FatSectors - FATBUFFBLOCKS, NEW k \in Blocks
  PROVE  n + k \in Sectors /\ View(dk, b, n)[n + k] = b[k]
<1>1. n + k \in Sectors /\ n <= n + k /\ n + k < n + FATBUFFBLOCKS /\ (n + k) - n = k
  BY DEF Sectors, Blocks
<1>. QED  BY <1>1 DEF View

(* A view changes in one sector when one sector of its window does. *)
LEMMA StoreView ==
  ASSUME NEW dk \in Table, NEW b \in Window, NEW b2 \in Window,
         NEW n \in 0 .. FatSectors - FATBUFFBLOCKS, NEW k \in Blocks,
         \A j \in Blocks \ {k} : b2[j] = b[j],
         NEW t, t = n + k
  PROVE  View(dk, b2, n) = [View(dk, b, n) EXCEPT ![t] = b2[k]]
<1>1. n + k \in Sectors /\ n <= n + k /\ n + k < n + FATBUFFBLOCKS /\ (n + k) - n = k
  BY DEF Sectors, Blocks
<1>2. ASSUME NEW s \in Sectors
      PROVE  View(dk, b2, n)[s] = IF s = n + k THEN b2[k] ELSE View(dk, b, n)[s]
  <2>1. CASE s = n + k
    BY <1>1, <2>1 DEF View
  <2>2. CASE s # n + k /\ n <= s /\ s < n + FATBUFFBLOCKS
    <3>1. s - n \in Blocks \ {k}
      BY <2>2 DEF Blocks, Sectors
    <3>. QED  BY <2>2, <3>1 DEF View
  <2>3. CASE s # n + k /\ ~(n <= s /\ s < n + FATBUFFBLOCKS)
    BY <2>3 DEF View
  <2>. QED  BY <2>1, <2>2, <2>3
<1>3. View(dk, b2, n) = [s \in Sectors |-> View(dk, b2, n)[s]]
  BY DEF View
<1>4. [View(dk, b, n) EXCEPT ![t] = b2[k]] =
        [s \in Sectors |-> IF s = n + k THEN b2[k] ELSE View(dk, b, n)[s]]
  BY DEF View
<1>. QED  BY <1>2, <1>3, <1>4

(* The inductive invariant of a run without transfer errors. *)
CacheInv == TypeOK /\ WindowInRange /\ CleanWindowMatches

(* The pointer Fat32ReadFatSector returns for a cluster is its entry. *)
LEMMA EntryAddress ==
  ASSUME CacheInv, Faults = {}, NEW c \in Clusters,
         NEW r \in ReadFatSector(SectorOf(c))
  PROVE  /\ r.ok /\ r.disk \in Table /\ r.buff \in Window
         /\ r.num \in 0 .. FatSectors - FATBUFFBLOCKS
         /\ SectorOf(c) - r.num \in Blocks
         /\ r.num + (SectorOf(c) - r.num) = SectorOf(c)
         /\ SectorOf(c) \in Sectors /\ OffsetOf(c) \in Offsets
         /\ View(r.disk, r.buff, r.num) = Logical
         /\ r.buff[SectorOf(c) - r.num] = Logical[SectorOf(c)]
<1>. DEFINE s == SectorOf(c)
<1>1. s \in Sectors /\ OffsetOf(c) \in Offsets
  BY OffsetInRange
<1>2. r.ok /\ View(r.disk, r.buff, r.num) = Logical
  BY <1>1, ReadFatSectorAnswers DEF CacheInv
<1>3. /\ r.disk \in Table /\ r.buff \in Window
      /\ r.num \in 0 .. FatSectors - FATBUFFBLOCKS /\ s - r.num \in Blocks
  BY <1>1, <1>2, ReadFatSectorType DEF CacheInv
<1>4. r.num + (s - r.num) = s
  BY <1>1, <1>3 DEF Sectors
<1>5. ASSUME NEW k \in Blocks
      PROVE  View(r.disk, r.buff, r.num)[r.num + k] = r.buff[k]
  BY <1>1, <1>3, ViewInside
<1>. QED  BY <1>1, <1>2, <1>3, <1>4, <1>5

(* Every step without transfer errors keeps the window and the card in     *)
(* agreement: a store sets fatDirty, and only a load or a flush clears it. *)
LEMMA CleanStep ==
  ASSUME CacheInv, Faults = {}, Next
  PROVE  CleanWindowMatches'
<1>. USE DEF CacheInv
<1>1. ASSUME NEW c \in Clusters, ReadEntry(c)
      PROVE  CleanWindowMatches'
  <2>1. PICK r \in ReadFatSector(SectorOf(c)) : Become(r)
    BY <1>1 DEF ReadEntry
  <2>2. ~r.dirty => \A k \in Blocks : r.buff[k] = r.disk[r.num + k]
    BY OffsetInRange, ReadFatSectorAnswers
  <2>3. r.num # -1
    BY EntryAddress
  <2>. QED  BY <2>1, <2>2, <2>3 DEF Become, CleanWindowMatches
<1>2. ASSUME NEW c \in Clusters, NEW v \in Links, WriteEntry(c, v)
      PROVE  CleanWindowMatches'
  <2>1. PICK r \in ReadFatSector(SectorOf(c)) : fatBuffNum' = r.num
    BY <1>2 DEF WriteEntry
  <2>2. fatBuffNum' # -1
    BY <2>1, EntryAddress
  <2>3. fatDirty' = TRUE
    BY <1>2 DEF WriteEntry
  <2>. QED  BY <2>2, <2>3 DEF CleanWindowMatches
<1>3. CASE FlushFat
  <2>1. disk' = Logical
    BY <1>3, FlushedIsLogical DEF FlushFat
  <2>2. ASSUME NEW k \in Blocks, fatBuffNum # -1
        PROVE  Logical[fatBuffNum + k] = fatBuff[k]
    <3>1. /\ fatBuffNum \in 0 .. FatSectors - FATBUFFBLOCKS
          /\ disk \in Table /\ fatBuff \in Window
      BY <2>2 DEF WindowInRange, TypeOK
    <3>2. fatBuffNum + k \in Sectors /\ InWindow(fatBuffNum + k)
          /\ (fatBuffNum + k) - fatBuffNum = k
      BY <3>1 DEF Sectors, Blocks, InWindow
    <3>. QED  BY <3>2 DEF Logical
  <2>. QED  BY <1>3, <2>1, <2>2 DEF FlushFat, scanVars, CleanWindowMatches
<1>4. CASE AllocateCluster
  <2>1. PICK r \in (IF fatBuffNum = -1 THEN ReadFatSector(0) ELSE {Kept(TRUE)}) : Become(r)
    BY <1>4 DEF AllocateCluster
  <2>2. CASE fatBuffNum = -1
    <3>1. 0 \in Sectors /\ r \in ReadFatSector(0)
      BY <2>1, <2>2 DEF Sectors
    <3>2. /\ ~r.dirty => \A k \in Blocks : r.buff[k] = r.disk[r.num + k]
          /\ r.num # -1
      BY <3>1, ReadFatSectorAnswers, ReadFatSectorType
    <3>. QED  BY <2>1, <3>2 DEF Become, CleanWindowMatches
  <2>3. CASE fatBuffNum # -1
    BY <2>1, <2>3 DEF Kept, Become, CleanWindowMatches
  <2>. QED  BY <2>2, <2>3
<1>5. CASE ScanFound
  <2>1. fatDirty' = TRUE /\ fatBuffNum' = fatBuffNum
    BY <1>5 DEF ScanFound
  <2>2. fatBuffNum # -1
    BY <1>5 DEF ScanFound, CleanWindowMatches
  <2>. QED  BY <2>1, <2>2 DEF CleanWindowMatches
<1>6. CASE ScanNext
  <2>1. sector' \in Sectors
    BY <1>6 DEF ScanNext, TypeOK, Sectors
  <2>2. PICK r \in ReadFatSector(sector') : Become(r)
    BY <1>6 DEF ScanNext
  <2>3. /\ ~r.dirty => \A k \in Blocks : r.buff[k] = r.disk[r.num + k]
        /\ r.num # -1
    BY <2>1, ReadFatSectorAnswers, ReadFatSectorType
  <2>. QED  BY <2>2, <2>3 DEF Become, CleanWindowMatches
<1>7. CASE ScanFull
  BY <1>7 DEF ScanFull, fatVars, CleanWindowMatches
<1>. QED  BY <1>1, <1>2, <1>3, <1>4, <1>5, <1>6, <1>7 DEF Next, Scan

(* Without transfer errors, what each call does to the table callers see. *)
LEMMA ReadMaps ==
  ASSUME CacheInv, Faults = {}, NEW c \in Clusters, ReadEntry(c)
  PROVE  /\ Logical' = Logical
         /\ ret' = [op |-> "read", cluster |-> c,
                    val |-> Logical[SectorOf(c)][OffsetOf(c)].lo]
<1>1. PICK r \in ReadFatSector(SectorOf(c)) :
        /\ Become(r)
        /\ \E v \in IF r.ok THEN {r.buff[SectorOf(c) - r.num][OffsetOf(c)].lo}
                            ELSE Links :
             ret' = [op |-> "read", cluster |-> c, val |-> v]
  BY DEF ReadEntry
<1>2. /\ r.ok /\ View(r.disk, r.buff, r.num) = Logical
      /\ r.buff[SectorOf(c) - r.num] = Logical[SectorOf(c)]
  BY EntryAddress
<1>3. Logical' = Logical
  BY <1>1, <1>2, LogicalView DEF Become
<1>. QED  BY <1>1, <1>2, <1>3

LEMMA WriteMaps ==
  ASSUME CacheInv, Faults = {}, NEW c \in Clusters, NEW v \in Links, WriteEntry(c, v)
  PROVE  Logical' = [Logical EXCEPT ![SectorOf(c)][OffsetOf(c)].lo = v]
<1>. DEFINE s == SectorOf(c)
            o == OffsetOf(c)
            w == [Logical[s][o] EXCEPT !.lo = v]
<1>1. PICK r \in ReadFatSector(s) :
        /\ disk' = r.disk
        /\ fatBuffNum' = r.num
        /\ fatBuff' = IF r.ok THEN [r.buff EXCEPT ![s - r.num][o].lo = v] ELSE r.buff
  BY DEF WriteEntry
<1>2. /\ r.ok /\ r.disk \in Table /\ r.buff \in Window
      /\ r.num \in 0 .. FatSectors - FATBUFFBLOCKS
      /\ s - r.num \in Blocks /\ r.num + (s - r.num) = s
      /\ s \in Sectors /\ o \in Offsets
      /\ View(r.disk, r.buff, r.num) = Logical
      /\ r.buff[s - r.num] = Logical[s]
  BY EntryAddress
<1>3. [r.buff EXCEPT ![s - r.num][o].lo = v] = [r.buff EXCEPT ![s - r.num][o] = w]
  BY <1>2
<1>4. w \in Words
  <2>1. Logical[s][o] \in Words
    BY <1>2, LogicalType DEF CacheInv, Table
  <2>. QED  BY <2>1 DEF Words
<1>. HIDE DEF w, s, o
<1>. DEFINE k == s - r.num
<1>5. fatBuff' = [r.buff EXCEPT ![k][o] = w]
  BY <1>1, <1>2, <1>3
<1>6. k \in Blocks /\ s = r.num + k /\ r.buff[k] = Logical[s]
  BY <1>2
<1>. HIDE DEF k
<1>7. fatBuff' \in Window
  BY <1>2, <1>4, <1>5, <1>6, StoreType
<1>8. fatBuff'[k] = [r.buff[k] EXCEPT ![o] = w]
      /\ \A j \in Blocks \ {k} : fatBuff'[j] = r.buff[j]
  BY <1>2, <1>5, <1>6 DEF Window
<1>9. View(r.disk, fatBuff', r.num) = [View(r.disk, r.buff, r.num) EXCEPT ![s] = fatBuff'[k]]
  BY <1>2, <1>6, <1>7, <1>8, StoreView
<1>10. Logical' = View(r.disk, fatBuff', r.num)
  BY <1>1, LogicalView
<1>11. Logical' = [Logical EXCEPT ![s] = [Logical[s] EXCEPT ![o] = w]]
  BY <1>2, <1>6, <1>8, <1>9, <1>10
<1>. QED  BY <1>11 DEF w, s, o

LEMMA FlushMaps ==
  ASSUME CacheInv, Faults = {}, FlushFat
  PROVE  disk' = Logical /\ Logical' = Logical
<1>1. disk' = Logical /\ UNCHANGED <<fatBuff, fatBuffNum>>
  BY FlushedIsLogical DEF CacheInv, FlushFat
<1>. QED  BY <1>1 DEF Logical, InWindow

LEMMA BeginMaps ==
  ASSUME CacheInv, Faults = {}, AllocateCluster
  PROVE  Logical' = Logical
<1>1. PICK r \in (IF fatBuffNum = -1 THEN ReadFatSector(0) ELSE {Kept(TRUE)}) : Become(r)
  BY DEF AllocateCluster
<1>2. View(r.disk, r.buff, r.num) = Logical
  <2>1. CASE fatBuffNum = -1
    <3>1. 0 \in Sectors /\ r \in ReadFatSector(0)
      BY <1>1, <2>1 DEF Sectors
    <3>. QED  BY <3>1, ReadFatSectorAnswers DEF CacheInv
  <2>2. CASE fatBuffNum # -1
    BY <1>1, <2>2, LogicalView DEF Kept
  <2>. QED  BY <2>1, <2>2
<1>. QED  BY <1>1, <1>2, LogicalView DEF Become

LEMMA ReserveMaps ==
  ASSUME CacheInv, Faults = {}, ScanFound
  PROVE  \E k \in Blocks, o \in Offsets :
           /\ fatBuffNum + k \in Sectors
           /\ Logical[fatBuffNum + k][o] = Zero
           /\ Logical' = [Logical EXCEPT ![fatBuffNum + k][o] = Reserved]
           /\ ret' = [op |-> "alloc", cluster |-> (sector + k) * EntriesPerSector + o]
<1>1. PICK k \in Blocks, o \in Offsets :
        /\ IsFirstFree(k, o)
        /\ fatBuff' = [fatBuff EXCEPT ![k][o] = Reserved]
        /\ ret' = [op |-> "alloc",
                   cluster |-> (sector + k) * EntriesPerSector + o]
  BY DEF ScanFound
<1>2. UNCHANGED <<disk, fatBuffNum>> /\ fatBuffNum # -1
  BY DEF ScanFound, CacheInv, CleanWindowMatches
<1>3. /\ disk \in Table /\ fatBuff \in Window
      /\ fatBuffNum \in 0 .. FatSectors - FATBUFFBLOCKS
  BY <1>2 DEF CacheInv, TypeOK, WindowInRange
<1>4. fatBuffNum + k \in Sectors /\ Logical[fatBuffNum + k] = fatBuff[k]
  BY <1>3, ViewInside, LogicalView
<1>5. /\ fatBuff' \in Window
      /\ fatBuff'[k] = [Logical[fatBuffNum + k] EXCEPT ![o] = Reserved]
      /\ \A j \in Blocks \ {k} : fatBuff'[j] = fatBuff[j]
  <2>1. Reserved \in Words
    BY DEF Reserved, Words
  <2>2. fatBuff' \in Window
    BY <1>1, <1>3, <2>1, StoreType
  <2>3. fatBuff'[k] = [fatBuff[k] EXCEPT ![o] = Reserved]
        /\ \A j \in Blocks \ {k} : fatBuff'[j] = fatBuff[j]
    BY <1>1, <1>3 DEF Window
  <2>. QED  BY <1>4, <2>2, <2>3
<1>6. Logical' = [Logical EXCEPT ![fatBuffNum + k][o] = Reserved]
  <2>. DEFINE t == fatBuffNum + k
  <2>1. t = fatBuffNum + k
    OBVIOUS
  <2>. HIDE DEF t
  <2>2. View(disk, fatBuff', fatBuffNum) =
          [View(disk, fatBuff, fatBuffNum) EXCEPT ![t] = fatBuff'[k]]
    BY <1>3, <1>5, <2>1, StoreView
  <2>3. Logical' = [Logical EXCEPT ![t] = [Logical[t] EXCEPT ![o] = Reserved]]
    BY <1>2, <1>5, <2>1, <2>2, LogicalView
  <2>. QED  BY <2>1, <2>3
<1>7. Logical[fatBuffNum + k][o] = Zero
  BY <1>1, <1>4 DEF IsFirstFree
<1>. QED  BY <1>1, <1>4, <1>6, <1>7

LEMMA MoveMaps ==
  ASSUME CacheInv, Faults = {}, ScanNext
  PROVE  Logical' = Logical
<1>1. sector' \in Sectors
  BY DEF ScanNext, CacheInv, TypeOK, Sectors
<1>2. PICK r \in ReadFatSector(sector') : Become(r)
  BY DEF ScanNext
<1>3. View(r.disk, r.buff, r.num) = Logical
  BY <1>1, ReadFatSectorAnswers DEF CacheInv
<1>. QED  BY <1>2, <1>3, LogicalView DEF Become

(* Every step without transfer errors is one call on the plain table, or   *)
(* invisible there.                                                        *)
LEMMA MapStep ==
  ASSUME CacheInv, Faults = {}, Next
  PROVE  [Map!Next]_(Map!mapVars)
<1>1. ASSUME NEW c \in Clusters, ReadEntry(c)
      PROVE  Map!Read(SectorOf(c), OffsetOf(c))
  BY <1>1, ReadMaps DEF Answer, Map!Read
<1>2. ASSUME NEW c \in Clusters, NEW v \in Links, WriteEntry(c, v)
      PROVE  Map!Write(SectorOf(c), OffsetOf(c), v)
  <2>1. Logical' = [Logical EXCEPT ![SectorOf(c)][OffsetOf(c)].lo = v]
    BY <1>2, WriteMaps
  <2>2. ret' = [op |-> "write", cluster |-> c, val |-> v]
    BY <1>2 DEF WriteEntry
  <2>3. Answer' = [op |-> "write", val |-> v, at |-> <<SectorOf(c), OffsetOf(c)>>]
    BY <2>2 DEF Answer
  <2>. QED  BY <2>1, <2>3 DEF Map!Write
<1>3. CASE FlushFat
  <2>1. Answer' = [op |-> "flush"]
    BY <1>3 DEF FlushFat, Answer
  <2>. QED  BY <1>3, <2>1, FlushMaps DEF Map!Flush, Map!Next
<1>4. CASE AllocateCluster
  <2>1. Answer' = [op |-> "none"]
    BY <1>4 DEF AllocateCluster, Answer
  <2>. QED  BY <1>4, <2>1, BeginMaps DEF Map!Begin, Map!Next
<1>5. CASE ScanFound
  <2>1. PICK k \in Blocks, o \in Offsets :
          /\ fatBuffNum + k \in Sectors
          /\ Logical[fatBuffNum + k][o] = Zero
          /\ Logical' = [Logical EXCEPT ![fatBuffNum + k][o] = Reserved]
          /\ ret' = [op |-> "alloc", cluster |-> (sector + k) * EntriesPerSector + o]
    BY <1>5, ReserveMaps
  <2>2. Answer' = [op |-> "alloc"]
    BY <2>1 DEF Answer
  <2>3. Map!Allocate(fatBuffNum + k, o)
    BY <2>1, <2>2 DEF Map!Allocate
  <2>. QED  BY <2>1, <2>3 DEF Map!Next
<1>6. CASE ScanNext
  <2>1. Answer' = Answer
    BY <1>6 DEF ScanNext, Answer
  <2>. QED  BY <1>6, <2>1, MoveMaps DEF Map!mapVars
<1>7. CASE ScanFull
  <2>1. Logical' = Logical
    BY <1>7 DEF ScanFull, fatVars, Logical, InWindow
  <2>2. Answer' = [op |-> "full"]
    BY <1>7 DEF ScanFull, Answer
  <2>. QED  BY <2>1, <2>2 DEF Map!Refuse, Map!Next
<1>8. ASSUME NEW c \in Clusters
      PROVE  SectorOf(c) \in Sectors /\ OffsetOf(c) \in Offsets
  BY OffsetInRange
<1>. QED  BY <1>1, <1>2, <1>3, <1>4, <1>5, <1>6, <1>7, <1>8 DEF Next, Scan, Map!Next

(* The invariant of the cache, on which the two results below rest. *)
LEMMA CacheInvariant == Faults = {} => (Spec => []CacheInv)
<1>. SUFFICES ASSUME Faults = {} PROVE Spec => []CacheInv
  OBVIOUS
<1>1. Init => CleanWindowMatches
  BY DEF Init, CleanWindowMatches
<1>2. CacheInv /\ [Next]_vars => CleanWindowMatches'
  <2>1. CASE UNCHANGED vars
    BY <2>1 DEF vars, CleanWindowMatches, CacheInv
  <2>. QED  BY <2>1, CleanStep
<1>. QED  BY <1>1, <1>2, WindowCorrect, PTL DEF Spec, CacheInv

(* fat32.c:108: without transfer errors a window that is not dirty is a    *)
(* copy of the card, so a load of another one loses no store.              *)
THEOREM CacheCorrect == Faults = {} => (Spec => []CleanWindowMatches)
BY CacheInvariant, PTL DEF CacheInv

(* Loading and flushing the window is invisible to the callers of the FAT  *)
(* layer: without transfer errors FatTable implements FatMap.              *)
THEOREM TableImplementsMap == Faults = {} => (Spec => ImplementsMap)
<1>. SUFFICES ASSUME Faults = {} PROVE Spec => ImplementsMap
  OBVIOUS
<1>1. Init => Map!Init
  <2>. SUFFICES ASSUME Init PROVE Map!Init
    OBVIOUS
  <2>1. Logical = disk
    BY DEF Init, Logical, InWindow, Table
  <2>. QED  BY <2>1 DEF Init, Map!Init, Answer, Table
<1>2. CacheInv /\ [Next]_vars => [Map!Next]_(Map!mapVars)
  <2>1. CASE UNCHANGED vars
    BY <2>1 DEF vars, Map!mapVars, Logical, InWindow, Answer
  <2>. QED  BY <2>1, MapStep
<1>. QED  BY <1>1, <1>2, CacheInvariant, PTL DEF Spec, ImplementsMap, Map!Spec

-----------------------------------------------------------------------------
(***************************************************************************)
(* 2. Words and chains.                                                    *)
(***************************************************************************)
HIDE ClusterAssumption

(* A product is monotone in its first factor. *)
LEMMA Products ==
  ASSUME NEW a \in Int, NEW b \in Int, NEW e \in Nat, a <= b
  PROVE  a * e \in Int /\ b * e \in Int /\ a * e <= b * e
OBVIOUS

(* A cluster is the number of a word of the table.                         *)
LEMMA Address ==
  ASSUME NEW c \in Cluster
  PROVE  /\ c \in Nat /\ SectorOf(c) \in Sectors /\ OffsetOf(c) \in Offsets
         /\ c = OffsetOf(c) + SectorOf(c) * EntriesPerSector
<1>1. c \in Clusters
  BY VolumeAssumption
<1>2. SectorOf(c) \in Sectors
  BY <1>1, ClusterAssumption
<1>3. c \in Nat
  BY DEF Cluster
<1>4. OffsetOf(c) \in Offsets
  BY <1>3 DEF OffsetOf, Offsets
<1>5. c = (c % EntriesPerSector) + (c \div EntriesPerSector) * EntriesPerSector
  BY <1>3
<1>. QED  BY <1>2, <1>3, <1>4, <1>5 DEF OffsetOf, SectorOf

(* Every word of the table is numbered by a cluster.                       *)
LEMMA AddressOf ==
  ASSUME NEW s \in Sectors, NEW o \in Offsets
  PROVE  /\ s * EntriesPerSector + o \in Cluster
         /\ SectorOf(s * EntriesPerSector + o) = s
         /\ OffsetOf(s * EntriesPerSector + o) = o
<1>. DEFINE e == EntriesPerSector
            x == s * e + o
            q == x \div e
            r == x % e
<1>1. e \in Nat \ {0} /\ s \in Nat /\ o \in 0 .. e - 1 /\ s <= FatSectors - 1
      /\ FatSectors \in Nat
  BY DEF Sectors, Offsets
<1>. HIDE DEF e
<1>2. s * e \in Nat /\ s * e <= (FatSectors - 1) * e /\ (FatSectors - 1) * e = FatSectors * e - e
      /\ FatSectors * e \in Nat
  <2>1. s * e \in Nat /\ FatSectors * e \in Nat
    BY <1>1
  <2>2. s * e <= (FatSectors - 1) * e
    BY <1>1, Products
  <2>3. (FatSectors - 1) * e = FatSectors * e - e
    BY <1>1
  <2>. QED  BY <2>1, <2>2, <2>3
<1>3. x \in Nat /\ x <= FatSectors * e - 1
  BY <1>1, <1>2
<1>4. x = r + q * e /\ r \in 0 .. e - 1 /\ q \in Nat
  <2>. HIDE DEF x
  <2>1. x = (x % e) + (x \div e) * e
    BY <1>1, <1>3
  <2>2. x % e \in 0 .. e - 1 /\ x \div e \in Nat
    BY <1>1, <1>3
  <2>. QED  BY <2>1, <2>2
<1>5. s * e + o = r + q * e
  BY <1>4
<1>. HIDE DEF q, r
<1>6. ~(q < s)
  <2>. SUFFICES ASSUME q + 1 <= s PROVE FALSE
    BY <1>1, <1>4
  <2>1. (q + 1) * e <= s * e /\ (q + 1) * e = q * e + e /\ q * e \in Nat
    BY <1>1, <1>4, Products
  <2>. QED  BY <1>1, <1>2, <1>4, <1>5, <2>1
<1>7. ~(s < q)
  <2>. SUFFICES ASSUME s + 1 <= q PROVE FALSE
    BY <1>1, <1>4
  <2>1. (s + 1) * e <= q * e /\ (s + 1) * e = s * e + e /\ q * e \in Nat
    BY <1>1, <1>4, Products
  <2>. QED  BY <1>1, <1>2, <1>4, <1>5, <2>1
<1>8. q = s /\ r = o
  <2>1. q = s
    BY <1>1, <1>4, <1>6, <1>7
  <2>. QED  BY <1>1, <1>2, <1>4, <1>5, <2>1
<1>. QED  BY <1>3, <1>8 DEF Cluster, SectorOf, OffsetOf, x, q, r, e

(* A store at a cluster changes the word of that cluster and no other. *)
Stored(f, c, w) == [f EXCEPT ![SectorOf(c)][OffsetOf(c)] = w]

LEMMA StoreWord ==
  ASSUME NEW f \in Table, NEW c \in Cluster, NEW w
  PROVE  /\ WordOf(Stored(f, c, w), c) = w
         /\ \A k \in Cluster \ {c} : WordOf(Stored(f, c, w), k) = WordOf(f, k)
<1>1. SectorOf(c) \in Sectors /\ OffsetOf(c) \in Offsets
  BY Address
<1>2. ASSUME NEW k \in Cluster \ {c}
      PROVE  SectorOf(k) \in Sectors /\ OffsetOf(k) \in Offsets
             /\ (SectorOf(k) # SectorOf(c) \/ OffsetOf(k) # OffsetOf(c))
  BY Address
<1>. QED  BY <1>1, <1>2 DEF Stored, WordOf, Table

(* A word of a table holds a link.                                         *)
LEMMA WordType ==
  ASSUME NEW f \in Table, NEW c \in Cluster
  PROVE  WordOf(f, c) \in Words /\ WordOf(f, c).lo \in Nat
<1>1. WordOf(f, c) \in Words
  BY Address DEF WordOf, Table
<1>. QED  BY <1>1, VolumeAssumption DEF Words

HIDE GeometryAssumption
HIDE WordAssumption

(* Least element: induction over naturals without an induction scheme. *)
LEMMA LeastNatural ==
  ASSUME NEW T \in SUBSET Nat, T # {}
  PROVE  \E n \in T : \A m \in T : n <= m
<1>. DEFINE R == {p \in Nat \X Nat : p[1] < p[2]}
<1>1. IsWellFoundedOn(R, Nat)
  BY NatLessThanWellFounded DEF OpToRel
<1>2. ASSUME NEW x \in Nat, NEW y \in Nat, y < x
      PROVE  <<y, x>> \in R
  BY <1>2
<1>. HIDE DEF R
<1>3. PICK x \in T : \A y \in T : <<y, x>> \notin R
  BY <1>1, WFMin
<1>4. \A y \in T : ~(y < x)
  BY <1>2, <1>3
<1>. QED  BY <1>4

(* A walk of ChainIn, one link longer if there is one. *)
Longer(f, w) == LET l == WordOf(f, w[Len(w)]).lo
                IN  IF l \in Cluster \ {0, 1} THEN Append(w, l) ELSE w

(* h is the walk from c of n steps and fewer. *)
IsWalk(f, h, c, n) == /\ h = [i \in 0 .. n |-> h[i]]
                      /\ h[0] = <<c>>
                      /\ \A i \in 1 .. n : h[i] = Longer(f, h[i - 1])

LEMMA WalkExists ==
  ASSUME NEW f, NEW c, NEW n \in Nat
  PROVE  \E h : IsWalk(f, h, c, n)
<1>. DEFINE T == {m \in Nat : ~\E h : IsWalk(f, h, c, m)}
<1>1. SUFFICES ASSUME T # {} PROVE FALSE
  OBVIOUS
<1>2. PICK m \in T : \A k \in T : m <= k
  <2>1. T \in SUBSET Nat
    OBVIOUS
  <2>. QED  BY <1>1, <2>1, LeastNatural
<1>3. m \in Nat /\ ~\E h : IsWalk(f, h, c, m)
  OBVIOUS
<1>4. CASE m = 0
  <2>1. IsWalk(f, [i \in 0 .. 0 |-> <<c>>], c, 0)
    BY DEF IsWalk
  <2>. QED  BY <1>3, <1>4, <2>1
<1>5. CASE m # 0
  <2>1. m - 1 \in Nat /\ m - 1 \notin T
    BY <1>2, <1>3, <1>5
  <2>2. PICK h : IsWalk(f, h, c, m - 1)
    BY <2>1
  <2>. DEFINE g == [i \in 0 .. m |-> IF i = m THEN Longer(f, h[m - 1]) ELSE h[i]]
  <2>3. g = [i \in 0 .. m |-> g[i]] /\ g[0] = h[0]
    BY <1>3, <1>5
  <2>4. ASSUME NEW i \in 1 .. m
        PROVE  g[i] = Longer(f, g[i - 1])
    <3>1. g[i - 1] = h[i - 1]
      BY <1>3
    <3>2. CASE i = m
      BY <3>1, <3>2, <1>3
    <3>3. CASE i # m
      <4>1. i \in 1 .. m - 1 /\ g[i] = h[i]
        BY <3>3, <1>3
      <4>. HIDE DEF g
      <4>. QED  BY <3>1, <4>1, <2>2 DEF IsWalk
    <3>. QED  BY <3>2, <3>3
  <2>. HIDE DEF g
  <2>5. IsWalk(f, g, c, m)
    BY <2>2, <2>3, <2>4 DEF IsWalk
  <2>. QED  BY <1>3, <2>5
<1>. QED  BY <1>4, <1>5

LEMMA WalksAgree ==
  ASSUME NEW f, NEW c, NEW n \in Nat, NEW m \in Nat, n <= m, NEW h, NEW g,
         IsWalk(f, h, c, n), IsWalk(f, g, c, m)
  PROVE  h[n] = g[n]
<1>. DEFINE T == {k \in 0 .. n : h[k] # g[k]}
<1>1. SUFFICES ASSUME T # {} PROVE FALSE
  OBVIOUS
<1>2. PICK k \in T : \A j \in T : k <= j
  <2>1. T \in SUBSET Nat
    OBVIOUS
  <2>. HIDE DEF T
  <2>. QED  BY <1>1, <2>1, LeastNatural
<1>3. k \in 0 .. n /\ h[k] # g[k]
  OBVIOUS
<1>4. k # 0
  BY <1>3 DEF IsWalk
<1>5. k - 1 \in 0 .. n /\ k - 1 \notin T /\ k \in 1 .. n /\ k \in 1 .. m
  BY <1>2, <1>3, <1>4
<1>6. h[k - 1] = g[k - 1]
  BY <1>5
<1>7. h[k] = Longer(f, h[k - 1]) /\ g[k] = Longer(f, g[k - 1])
  BY <1>5 DEF IsWalk
<1>. QED  BY <1>3, <1>6, <1>7

(* The recursive function in ChainIn exists: its values are those of walks. *)
LEMMA ChainIsWalk ==
  ASSUME NEW f, NEW c
  PROVE  \E h : IsWalk(f, h, c, FatSectors * EntriesPerSector)
                /\ ChainIn(f, c) = h[FatSectors * EntriesPerSector]
<1>. DEFINE W(n) == CHOOSE h : IsWalk(f, h, c, n)
            u == [n \in Nat |-> W(n)[n]]
            Rec(w) == [n \in Nat |-> IF n = 0 THEN <<c>> ELSE
                        LET v == w[n - 1]
                            l == WordOf(f, v[Len(v)]).lo
                        IN  IF l \in Cluster \ {0, 1} THEN Append(v, l) ELSE v]
<1>1. \A n \in Nat : IsWalk(f, W(n), c, n)
  BY WalkExists
<1>2. \A n \in Nat : u[n] = W(n)[n]
  OBVIOUS
<1>3. ASSUME NEW n \in Nat
      PROVE  u[n] = IF n = 0 THEN <<c>> ELSE Longer(f, u[n - 1])
  <2>1. CASE n = 0
    BY <1>1, <1>2, <2>1 DEF IsWalk
  <2>2. CASE n # 0
    <3>1. n - 1 \in Nat /\ n - 1 <= n /\ n \in 1 .. n
      BY <2>2
    <3>. HIDE DEF W, u
    <3>2. IsWalk(f, W(n), c, n) /\ IsWalk(f, W(n - 1), c, n - 1)
      BY <1>1, <3>1
    <3>3. W(n - 1)[n - 1] = W(n)[n - 1]
      BY <3>1, <3>2, WalksAgree
    <3>4. W(n)[n] = Longer(f, W(n)[n - 1])
      BY <3>1, <3>2 DEF IsWalk
    <3>. QED  BY <1>2, <2>2, <3>1, <3>3, <3>4
  <2>. QED  BY <2>1, <2>2
<1>4. u = [n \in Nat |-> IF n = 0 THEN <<c>> ELSE Longer(f, u[n - 1])]
  <2>1. u = [n \in Nat |-> u[n]]
    OBVIOUS
  <2>. HIDE DEF u
  <2>. QED  BY <1>3, <2>1
<1>. HIDE DEF u, W
<1>5. u = Rec(u)
  BY <1>4 DEF Longer
<1>. DEFINE g == CHOOSE w : w = Rec(w)
<1>6. g = Rec(g)
  BY <1>5
<1>7. ChainIn(f, c) = g[FatSectors * EntriesPerSector]
  BY DEF ChainIn
<1>. HIDE DEF g
<1>8. g[0] = <<c>> /\ \A n \in Nat \ {0} : g[n] = Longer(f, g[n - 1])
  <2>1. \A n \in Nat : g[n] = IF n = 0 THEN <<c>> ELSE Longer(f, g[n - 1])
    BY <1>6 DEF Longer
  <2>. QED  BY <2>1
<1>. DEFINE size == FatSectors * EntriesPerSector
            h == [i \in 0 .. size |-> g[i]]
<1>9. size \in Nat
  BY GeometryAssumption
<1>. HIDE DEF size
<1>10. IsWalk(f, h, c, size) /\ h[size] = g[size]
  BY <1>8, <1>9 DEF IsWalk
<1>. QED  BY <1>7, <1>10 DEF size

-----------------------------------------------------------------------------
(* w follows the links of the table f from c. *)
PathIn(f, w, c) ==
  /\ w \in Seq(Cluster) /\ Len(w) >= 1 /\ w[1] = c
  /\ \A i \in 1 .. Len(w) - 1 : w[i + 1] = WordOf(f, w[i]).lo /\ w[i + 1] \in Cluster \ {0, 1}

Ended(f, w) == WordOf(f, w[Len(w)]).lo \notin Cluster \ {0, 1}

LEMMA LongerPath ==
  ASSUME NEW f, NEW c \in Cluster, NEW w, PathIn(f, w, c)
  PROVE  /\ PathIn(f, Longer(f, w), c)
         /\ Ended(f, w) => Longer(f, w) = w
         /\ ~Ended(f, w) => Len(Longer(f, w)) = Len(w) + 1
<1>. DEFINE l == WordOf(f, w[Len(w)]).lo
<1>1. CASE l \notin Cluster \ {0, 1}
  BY <1>1 DEF Longer, Ended
<1>2. CASE l \in Cluster \ {0, 1}
  <2>1. Longer(f, w) = Append(w, l)
    BY <1>2 DEF Longer
  <2>2. w \in Seq(Cluster) /\ Len(w) \in Nat /\ Len(w) >= 1
    BY DEF PathIn
  <2>. HIDE DEF l
  <2>3. /\ Append(w, l) \in Seq(Cluster) /\ Len(Append(w, l)) = Len(w) + 1
        /\ \A i \in 1 .. Len(w) : Append(w, l)[i] = w[i]
        /\ Append(w, l)[Len(w) + 1] = l
    BY <1>2, <2>2
  <2>. DEFINE u == Append(w, l)
  <2>4. ASSUME NEW i \in 1 .. Len(u) - 1
        PROVE  u[i + 1] = WordOf(f, u[i]).lo /\ u[i + 1] \in Cluster \ {0, 1}
    <3>1. CASE i = Len(w)
      <4>1. u[i] = w[Len(w)] /\ u[i + 1] = l
        BY <2>2, <2>3, <3>1
      <4>. QED  BY <1>2, <4>1 DEF l
    <3>2. CASE i # Len(w)
      <4>1. i \in 1 .. Len(w) - 1 /\ u[i] = w[i] /\ u[i + 1] = w[i + 1]
        BY <2>2, <2>3, <3>2
      <4>. QED  BY <4>1 DEF PathIn
    <3>. QED  BY <3>1, <3>2
  <2>5. u \in Seq(Cluster) /\ Len(u) >= 1 /\ u[1] = c
    BY <2>2, <2>3 DEF PathIn
  <2>. HIDE DEF u
  <2>6. PathIn(f, u, c)
    BY <2>4, <2>5 DEF PathIn
  <2>. QED  BY <1>2, <2>1, <2>3, <2>6 DEF u, Ended, l
<1>. QED  BY <1>1, <1>2

(* A chain is a path from its head, as long as there are clusters or up to *)
(* where its links end.                                                    *)
LEMMA ChainIsPath ==
  ASSUME NEW f, NEW c \in Cluster
  PROVE  /\ PathIn(f, ChainIn(f, c), c)
         /\ Ended(f, ChainIn(f, c)) \/ Len(ChainIn(f, c)) = FatSectors * EntriesPerSector + 1
<1>. DEFINE size == FatSectors * EntriesPerSector
<1>1. size \in Nat
  BY GeometryAssumption
<1>2. PICK h : IsWalk(f, h, c, size) /\ ChainIn(f, c) = h[size]
  BY ChainIsWalk
<1>. HIDE DEF size
<1>. DEFINE Good(n) == PathIn(f, h[n], c) /\ (Ended(f, h[n]) \/ Len(h[n]) = n + 1)
            T == {n \in 0 .. size : ~Good(n)}
<1>3. SUFFICES ASSUME T # {} PROVE FALSE
  BY <1>1, <1>2 DEF size
<1>4. PICK n \in T : \A m \in T : n <= m
  <2>1. T \in SUBSET Nat
    BY <1>1
  <2>. HIDE DEF T
  <2>. QED  BY <1>3, <2>1, LeastNatural
<1>5. n \in 0 .. size /\ ~Good(n)
  OBVIOUS
<1>6. n # 0
  <2>1. h[0] = <<c>>
    BY <1>2 DEF IsWalk
  <2>2. Good(0)
    BY <2>1 DEF PathIn
  <2>. HIDE DEF Good
  <2>. QED  BY <1>5, <2>2
<1>7. n - 1 \in 0 .. size /\ n \in 1 .. size /\ n - 1 \notin T
  BY <1>1, <1>4, <1>5, <1>6
<1>8. Good(n - 1)
  BY <1>7
<1>9. h[n] = Longer(f, h[n - 1])
  BY <1>2, <1>7 DEF IsWalk
<1>10. PathIn(f, h[n], c) /\ (Ended(f, h[n - 1]) => h[n] = h[n - 1])
       /\ (~Ended(f, h[n - 1]) => Len(h[n]) = Len(h[n - 1]) + 1)
  BY <1>8, <1>9, LongerPath
<1>11. Ended(f, h[n]) \/ Len(h[n]) = n + 1
  BY <1>7, <1>8, <1>10
<1>. QED  BY <1>5, <1>10, <1>11

(* No path comes to c from another cluster.                                *)
Start(f, c) == c \in {0, 1} \/ ~LeadsTo(f, c)

(* In a sound table two paths from such clusters meet only if they are one *)
(* path.                                                                   *)
LEMMA PathsMeet ==
  ASSUME NEW f, NEW open, TableSound(f, open),
         NEW c \in Cluster, NEW k \in Cluster, Start(f, c), Start(f, k),
         NEW u, NEW v, PathIn(f, u, c), PathIn(f, v, k),
         NEW i \in 1 .. Len(u), NEW j \in 1 .. Len(v), u[i] = v[j]
  PROVE  c = k /\ i = j
<1>1. u \in Seq(Cluster) /\ v \in Seq(Cluster) /\ Len(u) \in Nat /\ Len(v) \in Nat
  BY DEF PathIn
<1>. DEFINE T == {n \in Nat : \E m \in 1 .. Len(v) :
                    n \in 1 .. Len(u) /\ u[n] = v[m] /\ ~(c = k /\ n = m)}
<1>2. SUFFICES ASSUME T # {} PROVE FALSE
  BY <1>1
<1>3. PICK n \in T : \A m \in T : n <= m
  <2>1. T \in SUBSET Nat
    OBVIOUS
  <2>. HIDE DEF T
  <2>. QED  BY <1>2, <2>1, LeastNatural
<1>4. PICK m \in 1 .. Len(v) : n \in 1 .. Len(u) /\ u[n] = v[m] /\ ~(c = k /\ n = m)
  OBVIOUS
<1>5. ASSUME NEW w, NEW h \in Cluster, PathIn(f, w, h), NEW x \in 1 .. Len(w), x # 1
      PROVE  /\ x - 1 \in 1 .. Len(w) - 1 /\ w[x - 1] \in Cluster
             /\ w[x] = WordOf(f, w[x - 1]).lo /\ w[x] \in Cluster \ {0, 1}
  <2>1. w \in Seq(Cluster) /\ Len(w) \in Nat
    BY <1>5 DEF PathIn
  <2>2. x - 1 \in 1 .. Len(w) - 1 /\ (x - 1) + 1 = x /\ x - 1 \in 1 .. Len(w)
    BY <1>5, <2>1
  <2>3. w[x - 1] \in Cluster
    BY <2>1, <2>2
  <2>. QED  BY <1>5, <2>2, <2>3 DEF PathIn
<1>6. CASE n = 1
  <2>1. u[1] = c /\ v[1] = k
    BY DEF PathIn
  <2>2. m # 1
    BY <1>4, <1>6, <2>1
  <2>3. v[m] = WordOf(f, v[m - 1]).lo /\ v[m - 1] \in Cluster /\ v[m] \notin {0, 1}
    BY <1>4, <1>5, <2>2
  <2>4. v[m] = c
    BY <1>4, <1>6, <2>1
  <2>. QED  BY ONLY <2>3, <2>4, Start(f, c) DEF Start, LeadsTo
<1>7. CASE n # 1
  <2>1. u[n] = WordOf(f, u[n - 1]).lo /\ u[n] \in Cluster \ {0, 1}
        /\ u[n - 1] \in Cluster /\ n - 1 \in 1 .. Len(u) - 1
    BY <1>4, <1>5, <1>7
  <2>2. m # 1
    BY <1>4, <2>1 DEF PathIn, LeadsTo, Start
  <2>3. v[m] = WordOf(f, v[m - 1]).lo /\ v[m - 1] \in Cluster
        /\ m - 1 \in 1 .. Len(v) - 1
    BY <1>5, <2>2
  <2>4. u[n - 1] = v[m - 1]
    BY <1>4, <2>1, <2>3 DEF TableSound
  <2>5. n - 1 \in T
    BY <1>1, <1>4, <2>1, <2>3, <2>4
  <2>. QED  BY <1>1, <1>3, <1>4, <2>1, <2>5
<1>. QED  BY <1>6, <1>7

(* Cluster numbers are below the end-of-chain marks.                       *)
LEMMA BelowEOC ==
  EOC \in Nat /\ EOC \in Links /\ \A c \in Cluster : c \in Nat /\ c \in Links /\ ~(c >= EOC)
<1>1. EOC \in Nat /\ EOC \in Links /\ \A c \in Cluster : c \in Links /\ c \in Nat /\ c < EOC
  BY VolumeAssumption
<1>. QED  BY ONLY <1>1

(* There are finitely many clusters, one for each word.                    *)
LEMMA ClusterCount == IsFiniteSet(Cluster)
                      /\ Cardinality(Cluster) = FatSectors * EntriesPerSector
<1>. DEFINE size == FatSectors * EntriesPerSector
<1>1. size \in Nat
  BY GeometryAssumption
<1>. HIDE DEF size
<1>2. IsFiniteSet(0 .. size - 1) /\ Cardinality(0 .. size - 1) = size
  BY <1>1, FS_Interval
<1>. QED  BY <1>2 DEF Cluster, size

(* A path of the table f from c to k, and one that ends there. *)
Reach(f, c, k)  == \E w : PathIn(f, w, c) /\ w[Len(w)] = k
Whole(f, w, c)  == PathIn(f, w, c) /\ WordOf(f, w[Len(w)]).lo \notin Cluster \ {0, 1}

(* g has the used entries and the links of f, and perhaps more. *)
Extends(f, g) ==
  \A k \in Cluster :
    /\ InUse(f, k) => InUse(g, k)
    /\ WordOf(g, k) = WordOf(f, k) \/ WordOf(f, k).lo \notin Cluster \ {0, 1}

(* What a path leads to is a cluster, and in use if its head is.           *)
LEMMA PathInUse ==
  ASSUME NEW f, NEW open, TableSound(f, open), NEW c, NEW w, PathIn(f, w, c), InUse(f, c)
  PROVE  \A k \in 1 .. Len(w) : w[k] \in Cluster /\ InUse(f, w[k])
<1>. SUFFICES ASSUME NEW k \in 1 .. Len(w)
              PROVE  w[k] \in Cluster /\ InUse(f, w[k])
  OBVIOUS
<1>1. w \in Seq(Cluster) /\ Len(w) \in Nat /\ w[1] = c
  BY DEF PathIn
<1>2. w[k] \in Cluster
  BY <1>1
<1>3. CASE k = 1
  BY <1>1, <1>2, <1>3
<1>4. CASE k # 1
  <2>1. k - 1 \in 1 .. Len(w) - 1 /\ (k - 1) + 1 = k /\ k - 1 \in 1 .. Len(w)
    BY <1>1, <1>4
  <2>2. w[k] = WordOf(f, w[k - 1]).lo /\ w[k - 1] \in Cluster
    BY <1>1, <2>1 DEF PathIn
  <2>3. ~(w[k] >= EOC)
    BY <1>2, BelowEOC
  <2>. QED  BY <1>2, <2>2, <2>3 DEF TableSound
<1>. QED  BY <1>3, <1>4

(* So is what is reached. *)
LEMMA ReachInUse ==
  ASSUME NEW f, NEW open, TableSound(f, open), NEW c, NEW k, Reach(f, c, k), InUse(f, c)
  PROVE  k \in Cluster /\ InUse(f, k)
<1>1. PICK w : PathIn(f, w, c) /\ w[Len(w)] = k
  BY DEF Reach
<1>2. Len(w) \in 1 .. Len(w)
  BY <1>1 DEF PathIn
<1>. QED  BY <1>1, <1>2, PathInUse

(* Paths are kept by a table that extends their own. *)
LEMMA PathExtends ==
  ASSUME NEW f, NEW g, Extends(f, g), NEW c, NEW w, PathIn(f, w, c)
  PROVE  PathIn(g, w, c)
<1>1. w \in Seq(Cluster) /\ Len(w) \in Nat
  BY DEF PathIn
<1>2. ASSUME NEW i \in 1 .. Len(w) - 1
      PROVE  w[i + 1] = WordOf(g, w[i]).lo
  <2>1. i \in 1 .. Len(w)
    BY <1>1
  <2>2. w[i] \in Cluster /\ w[i + 1] = WordOf(f, w[i]).lo /\ w[i + 1] \in Cluster \ {0, 1}
    BY <1>1, <2>1 DEF PathIn
  <2>. QED  BY <2>2 DEF Extends
<1>. QED  BY <1>2 DEF PathIn

(* So is what they reach. *)
LEMMA ReachExtends ==
  ASSUME NEW f, NEW g, Extends(f, g), NEW c, NEW k, Reach(f, c, k)
  PROVE  Reach(g, c, k)
BY PathExtends DEF Reach

(* A cluster reaches itself ... *)
LEMMA ReachSelf ==
  ASSUME NEW f, NEW c \in Cluster
  PROVE  Reach(f, c, c)
<1>1. PathIn(f, <<c>>, c) /\ <<c>>[Len(<<c>>)] = c
  BY DEF PathIn
<1>. QED  BY <1>1 DEF Reach

(* A path and the link of its last cluster. *)
LEMMA PathAppend ==
  ASSUME NEW f, NEW c, NEW w, PathIn(f, w, c), NEW l \in Cluster \ {0, 1},
         WordOf(f, w[Len(w)]).lo = l
  PROVE  /\ PathIn(f, Append(w, l), c) /\ Len(Append(w, l)) = Len(w) + 1
         /\ Append(w, l)[Len(w) + 1] = l
         /\ \A i \in 1 .. Len(w) : Append(w, l)[i] = w[i]
<1>2. w \in Seq(Cluster) /\ Len(w) \in Nat /\ Len(w) >= 1 /\ w[1] = c
  BY DEF PathIn
<1>. DEFINE u == Append(w, l)
<1>3. /\ u \in Seq(Cluster) /\ Len(u) = Len(w) + 1
      /\ \A i \in 1 .. Len(w) : u[i] = w[i]
      /\ u[Len(w) + 1] = l
  BY <1>2
<1>. HIDE DEF u
<1>4. ASSUME NEW i \in 1 .. Len(u) - 1
      PROVE  u[i + 1] = WordOf(f, u[i]).lo /\ u[i + 1] \in Cluster \ {0, 1}
  <2>1. CASE i = Len(w)
    <3>1. u[i] = w[Len(w)] /\ u[i + 1] = l
      BY <1>2, <1>3, <2>1
    <3>. QED  BY <3>1
  <2>2. CASE i # Len(w)
    <3>1. i \in 1 .. Len(w) - 1 /\ u[i] = w[i] /\ u[i + 1] = w[i + 1]
      BY <1>2, <1>3, <2>2
    <3>. QED  BY <3>1 DEF PathIn
  <2>. QED  BY <2>1, <2>2
<1>5. Len(u) >= 1 /\ u[1] = c
  BY <1>2, <1>3
<1>6. PathIn(f, u, c)
  BY <1>3, <1>4, <1>5 DEF PathIn
<1>. QED  BY <1>3, <1>6 DEF u

(* ... and with a cluster, the one it links to. *)
LEMMA ReachNext ==
  ASSUME NEW f, NEW c, NEW k, Reach(f, c, k), WordOf(f, k).lo \in Cluster \ {0, 1}
  PROVE  Reach(f, c, WordOf(f, k).lo)
<1>1. PICK w : PathIn(f, w, c) /\ w[Len(w)] = k
  BY DEF Reach
<1>. DEFINE l == WordOf(f, k).lo
<1>2. PathIn(f, Append(w, l), c) /\ Len(Append(w, l)) = Len(w) + 1 /\ Append(w, l)[Len(w) + 1] = l
  BY <1>1, PathAppend
<1>. QED  BY <1>2 DEF Reach

(* A path that comes to a cluster nothing leads to begins there. *)
LEMMA OnlyStart ==
  ASSUME NEW f, NEW c, NEW w, PathIn(f, w, c), NEW x, Start(f, x),
         NEW k \in 1 .. Len(w), w[k] = x
  PROVE  c = x
<1>1. w \in Seq(Cluster) /\ Len(w) \in Nat /\ w[1] = c
  BY DEF PathIn
<1>2. CASE k = 1
  BY <1>1, <1>2
<1>3. CASE k # 1
  <2>1. k - 1 \in 1 .. Len(w) - 1 /\ (k - 1) + 1 = k /\ k - 1 \in 1 .. Len(w)
    BY <1>1, <1>3
  <2>2. w[k] = WordOf(f, w[k - 1]).lo /\ w[k - 1] \in Cluster /\ w[k] \notin {0, 1}
    BY <1>1, <2>1 DEF PathIn
  <2>. QED  BY <2>2 DEF Start, LeadsTo
<1>. QED  BY <1>2, <1>3

(* Paths from different clusters nothing leads to reach different ones.    *)
LEMMA ReachApart ==
  ASSUME NEW f, NEW open, TableSound(f, open),
         NEW c \in Cluster, NEW k \in Cluster, Start(f, c), Start(f, k),
         NEW x, Reach(f, c, x), NEW w, PathIn(f, w, k), NEW i \in 1 .. Len(w), w[i] = x
  PROVE  c = k
<1>1. PICK u : PathIn(f, u, c) /\ u[Len(u)] = x
  BY DEF Reach
<1>2. Len(u) \in 1 .. Len(u)
  BY <1>1 DEF PathIn
<1>3. u[Len(u)] = w[i]
  BY <1>1
<1>. QED  BY ONLY <1>1, <1>2, <1>3, TableSound(f, open), c \in Cluster, k \in Cluster,
             Start(f, c), Start(f, k), PathIn(f, w, k), i \in 1 .. Len(w), PathsMeet

(* A cluster nothing leads to leads to nothing it was not led to before. *)
LEMMA StartBefore ==
  ASSUME NEW f, NEW g, Extends(f, g), NEW c \in Cluster, Start(g, c)
  PROVE  Start(f, c)
<1>. SUFFICES ASSUME c \notin {0, 1}, NEW k \in Cluster, WordOf(f, k).lo = c
              PROVE  FALSE
  BY DEF Start, LeadsTo
<1>1. WordOf(g, k) = WordOf(f, k)
  BY DEF Extends
<1>. QED  BY <1>1 DEF Start, LeadsTo

(* Two paths from a cluster agree as far as both go.                       *)
LEMMA PathsAgree ==
  ASSUME NEW f, NEW c, NEW u, NEW v, PathIn(f, u, c), PathIn(f, v, c)
  PROVE  \A i \in 1 .. Len(u) : i \in 1 .. Len(v) => u[i] = v[i]
<1>1. /\ u \in Seq(Cluster) /\ v \in Seq(Cluster) /\ Len(u) \in Nat /\ Len(v) \in Nat
      /\ u[1] = c /\ v[1] = c
  BY DEF PathIn
<1>. DEFINE T == {i \in Nat : i \in 1 .. Len(u) /\ i \in 1 .. Len(v) /\ u[i] # v[i]}
<1>2. SUFFICES ASSUME T # {} PROVE FALSE
  BY <1>1
<1>3. PICK n \in T : \A m \in T : n <= m
  <2>1. T \in SUBSET Nat
    OBVIOUS
  <2>. HIDE DEF T
  <2>. QED  BY <1>2, <2>1, LeastNatural
<1>4. n \in 1 .. Len(u) /\ n \in 1 .. Len(v) /\ u[n] # v[n] /\ n # 1
  BY <1>1
<1>5. /\ n - 1 \in 1 .. Len(u) - 1 /\ n - 1 \in 1 .. Len(v) - 1 /\ (n - 1) + 1 = n
      /\ n - 1 \in 1 .. Len(u) /\ n - 1 \in 1 .. Len(v) /\ n - 1 \in Nat /\ ~(n <= n - 1)
  BY <1>1, <1>4
<1>6. u[n - 1] = v[n - 1]
  BY <1>3, <1>5
<1>7. u[n] = WordOf(f, u[n - 1]).lo /\ v[n] = WordOf(f, v[n - 1]).lo
  BY <1>5 DEF PathIn
<1>. QED  BY <1>4, <1>6, <1>7

(* No path from the same cluster is longer than a whole one. *)
LEMMA WholeIsLongest ==
  ASSUME NEW f, NEW c, NEW u, NEW v, PathIn(f, u, c), Whole(f, v, c)
  PROVE  Len(u) \in 1 .. Len(v)
<1>1. /\ u \in Seq(Cluster) /\ v \in Seq(Cluster) /\ Len(u) \in Nat /\ Len(v) \in Nat
      /\ Len(u) >= 1 /\ Len(v) >= 1 /\ PathIn(f, v, c)
  BY DEF PathIn, Whole
<1>. SUFFICES ASSUME Len(u) > Len(v) PROVE FALSE
  BY <1>1
<1>2. Len(v) \in 1 .. Len(u) - 1 /\ Len(v) \in 1 .. Len(u) /\ Len(v) \in 1 .. Len(v)
  BY <1>1
<1>3. u[Len(v)] = v[Len(v)]
  BY ONLY <1>1, <1>2, PathIn(f, u, c), PathsAgree
<1>4. u[Len(v) + 1] = WordOf(f, u[Len(v)]).lo /\ u[Len(v) + 1] \in Cluster \ {0, 1}
  BY <1>2 DEF PathIn
<1>. QED  BY <1>3, <1>4 DEF Whole

(* In a sound table the chain of a cluster nothing leads to repeats no     *)
(* cluster, so the walk is not cut off.                                    *)
LEMMA ChainStops ==
  ASSUME NEW f, NEW open, TableSound(f, open), NEW c \in Cluster, Start(f, c)
  PROVE  Ended(f, ChainIn(f, c))
<1>. DEFINE ch == ChainIn(f, c)
            size == FatSectors * EntriesPerSector
<1>1. PathIn(f, ch, c) /\ (Ended(f, ch) \/ Len(ch) = size + 1)
  BY ChainIsPath
<1>2. size \in Nat /\ IsFiniteSet(Cluster) /\ Cardinality(Cluster) = size
  BY GeometryAssumption, ClusterCount
<1>. HIDE DEF ch, size
<1>3. ch \in Seq(Cluster) /\ Len(ch) \in Nat /\ Len(ch) >= 1
  BY <1>1 DEF PathIn
<1>4. Len(ch) # size + 1
  <2>. SUFFICES ASSUME Len(ch) = size + 1 PROVE FALSE
    OBVIOUS
  <2>. DEFINE D == 1 .. size + 1
  <2>1. IsFiniteSet(D) /\ Cardinality(D) = size + 1
    BY <1>2, FS_Interval
  <2>2. ch \in [D -> Cluster]
    BY <1>3
  <2>. HIDE DEF D
  <2>3. \E x, y \in D : x # y /\ ch[x] = ch[y]
    BY <1>2, <2>1, <2>2, FS_PigeonHole
  <2>4. PICK x \in D, y \in D : x # y /\ ch[x] = ch[y]
    BY <2>3
  <2>5. x \in 1 .. Len(ch) /\ y \in 1 .. Len(ch)
    BY DEF D
  <2>6. x = y
    BY ONLY <1>1, <2>4, <2>5, TableSound(f, open), c \in Cluster, Start(f, c), PathsMeet
  <2>. QED  BY ONLY <2>4, <2>6
<1>. QED  BY <1>1, <1>4 DEF ch

(* It has an end mark, unless it stops at an entry that is open. *)
LEMMA ChainEnds ==
  ASSUME NEW f, NEW open, TableSound(f, open), NEW c \in Cluster, InUse(f, c), Start(f, c)
  PROVE  LET ch == ChainIn(f, c) IN ch[Len(ch)] \in open \/ EndIn(f, c) >= EOC
<1>. DEFINE ch == ChainIn(f, c)
            x == ch[Len(ch)]
<1>1. PathIn(f, ch, c) /\ Ended(f, ch)
  BY ChainIsPath, ChainStops
<1>2. Len(ch) \in 1 .. Len(ch)
  BY <1>1 DEF PathIn
<1>. HIDE DEF ch
<1>3. x \in Cluster /\ InUse(f, x)
  BY <1>1, <1>2, PathInUse
<1>4. WordOf(f, x).lo \notin Cluster \ {0, 1}
  BY <1>1 DEF Ended
<1>5. WordOf(f, x).lo >= EOC \/ WordOf(f, x).lo \in Cluster
  BY <1>3 DEF TableSound, InUse
<1>6. x \in open \/ WordOf(f, x).lo \notin {0, 1}
  BY <1>3 DEF TableSound
<1>. QED  BY <1>4, <1>5, <1>6 DEF EndIn, ch

(* In a sound table the chain of a cluster nothing leads to is a path to   *)
(* its end.                                                                *)
LEMMA ChainIsWhole ==
  ASSUME NEW f, NEW open, TableSound(f, open), NEW c \in Cluster, Start(f, c)
  PROVE  Whole(f, ChainIn(f, c), c)
BY ChainIsPath, ChainStops DEF Whole, Ended

(* A path to an end is the chain, ... *)
LEMMA WholeIsChain ==
  ASSUME NEW f, NEW open, TableSound(f, open), NEW c \in Cluster, Start(f, c),
         NEW w, Whole(f, w, c)
  PROVE  ChainIn(f, c) = w
<1>. DEFINE ch == ChainIn(f, c)
<1>1. Whole(f, ch, c)
  BY ChainIsWhole
<1>. HIDE DEF ch
<1>2. /\ PathIn(f, ch, c) /\ PathIn(f, w, c) /\ ch \in Seq(Cluster) /\ w \in Seq(Cluster)
      /\ Len(ch) \in Nat /\ Len(w) \in Nat
  BY <1>1 DEF Whole, PathIn
<1>3. Len(ch) \in 1 .. Len(w) /\ Len(w) \in 1 .. Len(ch)
  BY <1>1, <1>2, WholeIsLongest
<1>4. Len(ch) = Len(w)
  BY <1>2, <1>3
<1>5. \A i \in 1 .. Len(ch) : ch[i] = w[i]
  BY <1>2, <1>4, PathsAgree
<1>6. ch = w
  BY <1>2, <1>4, <1>5
<1>. QED  BY <1>6 DEF ch

(* ... so that its members are what is reached. *)
LEMMA ReachIsMember ==
  ASSUME NEW f, NEW open, TableSound(f, open), NEW c \in Cluster, Start(f, c),
         NEW k, Reach(f, c, k)
  PROVE  k \in MembersIn(f, c)
<1>. DEFINE ch == ChainIn(f, c)
<1>1. PICK w : PathIn(f, w, c) /\ w[Len(w)] = k
  BY DEF Reach
<1>2. Whole(f, ch, c) /\ PathIn(f, ch, c)
  BY ChainIsWhole DEF Whole
<1>. HIDE DEF ch
<1>3. Len(w) \in 1 .. Len(ch) /\ Len(w) \in 1 .. Len(w)
  <2>1. Len(w) \in 1 .. Len(w)
    BY <1>1 DEF PathIn
  <2>2. Len(w) \in 1 .. Len(ch)
    BY <1>1, <1>2, WholeIsLongest
  <2>. QED  BY <2>1, <2>2
<1>4. ch[Len(w)] = k
  BY <1>1, <1>2, <1>3, PathsAgree
<1>5. DOMAIN ch = 1 .. Len(ch)
  BY <1>2 DEF PathIn
<1>. QED  BY <1>3, <1>4, <1>5 DEF MembersIn, ch

(* The members of a chain are reached from its head. *)
LEMMA MemberIsReached ==
  ASSUME NEW f, NEW c \in Cluster, NEW k \in MembersIn(f, c)
  PROVE  Reach(f, c, k)
<1>. DEFINE ch == ChainIn(f, c)
<1>1. PathIn(f, ch, c)
  BY ChainIsPath
<1>2. PathIn(f, ch, c) /\ ch \in Seq(Cluster) /\ Len(ch) \in Nat
  BY <1>1 DEF PathIn
<1>3. PICK n \in 1 .. Len(ch) : ch[n] = k
  BY <1>2 DEF MembersIn
<1>. HIDE DEF ch
<1>. DEFINE w == [i \in 1 .. n |-> ch[i]]
<1>4. n \in Nat /\ n >= 1 /\ \A i \in 1 .. n : i \in 1 .. Len(ch) /\ ch[i] \in Cluster
  BY <1>2
<1>5. w \in Seq(Cluster) /\ Len(w) = n /\ w[1] = ch[1] /\ w[n] = k
  BY <1>3, <1>4
<1>6. ASSUME NEW i \in 1 .. n - 1
      PROVE  w[i + 1] = WordOf(f, w[i]).lo /\ w[i + 1] \in Cluster \ {0, 1}
  <2>1. i \in 1 .. Len(ch) - 1 /\ w[i] = ch[i] /\ w[i + 1] = ch[i + 1]
    BY <1>2, <1>4
  <2>. HIDE DEF w
  <2>. QED  BY <1>2, <2>1 DEF PathIn
<1>. HIDE DEF w
<1>7. PathIn(f, w, c)
  BY <1>2, <1>4, <1>5, <1>6 DEF PathIn
<1>. QED  BY <1>5, <1>7 DEF Reach

-----------------------------------------------------------------------------
(***************************************************************************)
(* 3. Sound volumes.                                                       *)
(***************************************************************************)

(* What the walks over the card's directories reach are clusters. *)
LEMMA MembersAreClusters ==
  ASSUME NEW c \in Cluster
  PROVE  Members(c) \subseteq Cluster
<1>1. ChainIn(disk, c) \in Seq(Cluster)
  BY ChainIsPath DEF PathIn
<1>. QED  BY <1>1 DEF Members, MembersIn

(* What EntriesIn finds are names in slots of clusters.                    *)
LEMMA EntriesArePlaces ==
  ASSUME NEW f, NamesSound(f, data), NEW c \in Cluster, NEW e \in EntriesIn(c)
  PROVE  /\ e[1] \in Cluster /\ e[2] \in SlotNumbers /\ e = <<e[1], e[2]>>
         /\ At(e) = data[e[1]][e[2]]
         /\ IsName(data, e[1], e[2]) /\ At(e).name \notin {Dot, DotDot}
         /\ At(e).cluster \in Cluster
<1>1. e \in Members(c) \X SlotNumbers /\ data[e[1]][e[2]].kind = "short"
      /\ data[e[1]][e[2]].name \notin {Dot, DotDot}
  BY DEF EntriesIn
<1>2. e[1] \in Cluster /\ e[2] \in SlotNumbers /\ e = <<e[1], e[2]>>
  BY <1>1, MembersAreClusters
<1>. QED  BY <1>1, <1>2 DEF NamesSound, IsName, InUse, At

(* On a card with sound names every directory is a cluster.                *)
LEMMA DirsAreClusters ==
  ASSUME NEW f, NamesSound(f, data)
  PROVE  Dirs \subseteq Cluster
<1>1. ASSUME NEW ds \in SUBSET Cluster
      PROVE  SubDirs(ds) \in SUBSET Cluster
  BY EntriesArePlaces DEF SubDirs
<1>2. {Root} \in SUBSET Cluster
  BY VolumeAssumption
<1>3. SubDirs({Root}) \in SUBSET Cluster
  BY <1>1, <1>2
<1>4. SubDirs(SubDirs({Root})) \in SUBSET Cluster
  BY <1>1, <1>3
<1>. QED  BY <1>2, <1>3, <1>4 DEF Dirs

(* What CardEntries finds are names in slots of clusters.                  *)
LEMMA CardEntriesArePlaces ==
  ASSUME NEW f, NamesSound(f, data), NEW e \in CardEntries
  PROVE  /\ e[1] \in Cluster /\ e[2] \in SlotNumbers /\ e = <<e[1], e[2]>>
         /\ At(e) = data[e[1]][e[2]]
         /\ IsName(data, e[1], e[2]) /\ At(e).name \notin {Dot, DotDot}
         /\ At(e).cluster \in Cluster
BY DirsAreClusters, EntriesArePlaces DEF CardEntries

(* Sound names are names whose data is there.                              *)
LEMMA SoundNames ==
  ASSUME NEW f, NamesSound(f, data)
  PROVE  DataBeforeName
BY CardEntriesArePlaces DEF DataBeforeName, NamesSound, HasBytes

(* A used cluster that no link and no name leads to. *)
Unnamed(d, c) == \A k \in Cluster, i \in SlotNumbers : IsName(d, k, i) => d[k][i].cluster # c
Unclaimed(f, d, c) ==
  c \notin {0, 1, Root} /\ InUse(f, c) /\ ~LeadsTo(f, c) /\ Unnamed(d, c)

(* Reserving a free cluster keeps a volume sound but for that cluster. *)
LEMMA SoundReserve ==
  ASSUME NEW f, NEW g, NEW d, NEW open, Sound(f, d, open),
         NEW c \in Cluster, WordOf(f, c) = Zero, WordOf(g, c) = Reserved,
         \A k \in Cluster \ {c} : WordOf(g, k) = WordOf(f, k)
  PROVE  /\ Sound(g, d, open \cup {c})
         /\ Unclaimed(g, d, c)
         /\ \A k : InUse(f, k) => InUse(g, k) /\ k # c
         /\ \A k : Unclaimed(f, d, k) => Unclaimed(g, d, k)
<1>1. TableSound(f, open) /\ NamesSound(f, d)
  BY DEF Sound
<1>2. Reserved # Zero /\ Reserved.lo = 1 /\ Zero.lo = 0
  BY DEF Reserved, Zero
<1>3. \A k : InUse(f, k) => InUse(g, k) /\ k # c
  BY <1>2 DEF InUse
<1>4. c \notin {0, 1, Root}
  BY <1>1, <1>3 DEF TableSound
<1>5. ASSUME NEW k, LeadsTo(g, k), k # 1
      PROVE  LeadsTo(f, k)
  <2>1. PICK j \in Cluster : WordOf(g, j).lo = k
    BY <1>5 DEF LeadsTo
  <2>2. j # c
    BY <1>2, <1>5, <2>1
  <2>. QED  BY <2>1, <2>2 DEF LeadsTo
<1>6. ~LeadsTo(f, c)
  BY <1>1, <1>3, BelowEOC DEF TableSound, LeadsTo
<1>7. Unnamed(d, c)
  BY <1>1, <1>3 DEF Unnamed, NamesSound
<1>8. TableSound(g, open \cup {c})
  <2>1. InUse(g, 0) /\ InUse(g, 1) /\ InUse(g, Root) /\ ~LeadsTo(g, Root)
    BY <1>1, <1>3, <1>4, <1>5, VolumeAssumption DEF TableSound
  <2>2. ASSUME NEW k \in Cluster
        PROVE  WordOf(g, k).lo >= EOC \/ InUse(g, WordOf(g, k).lo)
    <3>1. CASE k = c
      BY <1>2, <2>1, <3>1
    <3>2. CASE k # c
      BY <1>1, <1>3, <3>2 DEF TableSound
    <3>. QED  BY <3>1, <3>2
  <2>3. ASSUME NEW k \in Cluster \ (open \cup {c}), InUse(g, k)
        PROVE  WordOf(g, k).lo \notin {0, 1}
    BY <1>1, <2>3 DEF TableSound, InUse
  <2>4. ASSUME NEW k \in Cluster, NEW j \in Cluster, WordOf(g, k).lo = WordOf(g, j).lo,
               WordOf(g, k).lo \in Cluster \ {0, 1}
        PROVE  k = j
    BY <1>1, <1>2, <2>4 DEF TableSound
  <2>. QED  BY <2>1, <2>2, <2>3, <2>4 DEF TableSound
<1>9. NamesSound(g, d)
  <2>1. ASSUME NEW k \in Cluster, NEW i \in SlotNumbers, IsHead(d, k, i)
        PROVE  ~LeadsTo(g, d[k][i].cluster)
    BY <1>1, <1>5, <2>1 DEF NamesSound
  <2>. QED  BY <1>1, <1>3, <2>1 DEF NamesSound
<1>10. ASSUME NEW k, Unclaimed(f, d, k)
       PROVE  Unclaimed(g, d, k)
  BY <1>3, <1>5, <1>10 DEF Unclaimed
<1>11. Unclaimed(g, d, c)
  BY <1>2, <1>4, <1>5, <1>6, <1>7 DEF Unclaimed, InUse
<1>. QED  BY <1>3, <1>8, <1>9, <1>10, <1>11 DEF Sound

(* Ending a chain at c, or leading it on to an unclaimed cluster, keeps a  *)
(* volume sound.                                                           *)
LEMMA SoundStore ==
  ASSUME NEW f, NEW g, NEW d, NEW open, Sound(f, d, open),
         NEW c \in Cluster, NEW v, v = EOC \/ Unclaimed(f, d, v),
         WordOf(g, c).lo = v, \A k \in Cluster \ {c} : WordOf(g, k) = WordOf(f, k)
  PROVE  /\ Sound(g, d, open \ {c})
         /\ \A k : InUse(f, k) => InUse(g, k)
         /\ \A k : Unclaimed(f, d, k) /\ k # v => Unclaimed(g, d, k)
<1>1. TableSound(f, open) /\ NamesSound(f, d)
  BY DEF Sound
<1>2. v \notin {0, 1, Root} /\ (v >= EOC \/ InUse(f, v)) /\ (v \in Cluster => Unclaimed(f, d, v))
  <2>1. CASE v = EOC
    <3>1. v \notin Cluster /\ v >= EOC /\ {0, 1, Root} \subseteq Cluster
      BY <2>1, BelowEOC, VolumeAssumption
    <3>. QED  BY <3>1
  <2>2. CASE Unclaimed(f, d, v)
    BY <2>2 DEF Unclaimed
  <2>. QED  BY <2>1, <2>2
<1>3. WordOf(g, c) # Zero
  BY <1>2 DEF Zero
<1>4. \A k : InUse(f, k) => InUse(g, k)
  BY <1>3 DEF InUse
<1>5. ASSUME NEW k, LeadsTo(g, k), k # v
      PROVE  LeadsTo(f, k)
  BY <1>5 DEF LeadsTo
<1>6. TableSound(g, open \ {c})
  <2>1. InUse(g, 0) /\ InUse(g, 1) /\ InUse(g, Root) /\ ~LeadsTo(g, Root)
    BY <1>1, <1>2, <1>4, <1>5 DEF TableSound
  <2>2. ASSUME NEW k \in Cluster
        PROVE  WordOf(g, k).lo >= EOC \/ InUse(g, WordOf(g, k).lo)
    <3>1. CASE k = c
      BY <1>2, <1>4, <3>1
    <3>2. CASE k # c
      BY <1>1, <1>4, <3>2 DEF TableSound
    <3>. QED  BY <3>1, <3>2
  <2>3. ASSUME NEW k \in Cluster \ (open \ {c}), InUse(g, k)
        PROVE  WordOf(g, k).lo \notin {0, 1}
    BY <1>1, <1>2, <2>3 DEF TableSound, InUse
  <2>4. ASSUME NEW k \in Cluster, NEW j \in Cluster, WordOf(g, k).lo = WordOf(g, j).lo,
               WordOf(g, k).lo \in Cluster \ {0, 1}
        PROVE  k = j
    <3>1. v \in Cluster => \A x \in Cluster : WordOf(f, x).lo # v
      BY <1>2 DEF Unclaimed, LeadsTo
    <3>2. CASE k = c \/ j = c
      BY <2>4, <3>1, <3>2
    <3>3. CASE k # c /\ j # c
      BY <1>1, <2>4, <3>3 DEF TableSound
    <3>. QED  BY <3>2, <3>3
  <2>. QED  BY <2>1, <2>2, <2>3, <2>4 DEF TableSound
<1>7. NamesSound(g, d)
  <2>1. ASSUME NEW k \in Cluster, NEW i \in SlotNumbers, IsHead(d, k, i)
        PROVE  ~LeadsTo(g, d[k][i].cluster)
    <3>1. IsName(d, k, i) /\ d[k][i].cluster \in Cluster
      BY <1>1, <2>1 DEF NamesSound, IsHead, InUse
    <3>2. d[k][i].cluster # v
      BY <1>2, <3>1 DEF Unclaimed, Unnamed
    <3>. QED  BY <1>1, <1>5, <2>1, <3>2 DEF NamesSound
  <2>. QED  BY <1>1, <1>4, <2>1 DEF NamesSound
<1>8. ASSUME NEW k, Unclaimed(f, d, k), k # v
      PROVE  Unclaimed(g, d, k)
  BY <1>4, <1>5, <1>8 DEF Unclaimed
<1>. QED  BY <1>4, <1>6, <1>7, <1>8 DEF Sound

(* What is open matters only to chains that stop there. *)
LEMMA SoundOpen ==
  ASSUME NEW f, NEW d, NEW open, NEW more, Sound(f, d, open), open \subseteq more
  PROVE  Sound(f, d, more)
BY DEF Sound, TableSound

-----------------------------------------------------------------------------
IsData(d) == d = [c \in Cluster |-> [i \in SlotNumbers |-> d[c][i]]]
IsBuff(b) == b = [i \in SlotNumbers |-> b[i]]
Put(d, c, b) == [d EXCEPT ![c] = b]

(* Writing over clusters so that names only go, and no file loses the      *)
(* first of its bytes, keeps the names sound.                              *)
LEMMA NamesLessen ==
  ASSUME NEW f, NEW d, NEW e, NamesSound(f, d),
         \A k \in Cluster, i \in SlotNumbers :
           IsName(e, k, i) => IsName(d, k, i) /\ e[k][i] = d[k][i],
         \A c \in Cluster : ~Unnamed(e, c) /\ HasBytes(d, c) => HasBytes(e, c)
  PROVE  NamesSound(f, e)
<1>1. ASSUME NEW k \in Cluster, NEW i \in SlotNumbers
      PROVE  IsHead(e, k, i) => IsHead(d, k, i) /\ e[k][i] = d[k][i]
  BY DEF IsHead
<1>2. ASSUME NEW k \in Cluster, NEW i \in SlotNumbers, IsName(e, k, i),
             e[k][i].attr = "arch", e[k][i].size > 0
      PROVE  HasBytes(e, e[k][i].cluster)
  <2>1. IsName(d, k, i) /\ e[k][i] = d[k][i] /\ e[k][i].cluster \in Cluster
    BY <1>2 DEF NamesSound, InUse
  <2>2. HasBytes(d, e[k][i].cluster) /\ ~Unnamed(e, e[k][i].cluster)
    BY <1>2, <2>1 DEF NamesSound, Unnamed
  <2>. QED  BY <2>1, <2>2
<1>. QED  BY <1>1, <1>2 DEF NamesSound

(* A file's bytes go to a cluster no name leads to. *)
LEMMA NamesBytes ==
  ASSUME NEW f, NEW d, IsData(d), NamesSound(f, d), NEW c \in Cluster, Unnamed(d, c),
         NEW id, NEW n, NEW e, e = Put(d, c, Bytes(id, n))
  PROVE  /\ IsData(e) /\ NamesSound(f, e)
         /\ \A k : Unnamed(d, k) => Unnamed(e, k)
         /\ \A k \in Cluster \ {c} : e[k] = d[k]
         /\ n = 1 => HasBytes(e, c)
<1>1. IsData(e) /\ e[c] = Bytes(id, n) /\ \A k \in Cluster \ {c} : e[k] = d[k]
  BY DEF IsData, Bytes, Put
<1>2. \A i \in SlotNumbers : Bytes(id, n)[i].kind = "bytes" /\ Bytes(id, n)[i].part = n
  BY DEF Bytes
<1>3. ASSUME NEW k \in Cluster, NEW i \in SlotNumbers, IsName(e, k, i)
      PROVE  IsName(d, k, i) /\ e[k][i] = d[k][i]
  BY <1>1, <1>2, <1>3 DEF IsName
<1>4. \A k : Unnamed(d, k) => Unnamed(e, k)
  BY <1>3 DEF Unnamed
<1>5. ASSUME NEW k \in Cluster, ~Unnamed(e, k), HasBytes(d, k)
      PROVE  HasBytes(e, k)
  <2>1. k # c
    BY <1>4, <1>5
  <2>. QED  BY <1>1, <1>5, <2>1 DEF HasBytes
<1>6. NamesSound(f, e)
  BY <1>3, <1>5, NamesLessen
<1>7. n = 1 => HasBytes(e, c)
  <2>1. 1 \in SlotNumbers
    BY VolumeAssumption DEF SlotNumbers
  <2>. QED  BY <1>1, <1>2, <2>1 DEF HasBytes
<1>. QED  BY <1>1, <1>4, <1>6, <1>7

(* A directory goes back to its cluster k with a new name in one slot, for *)
(* a cluster c that nothing leads to and whose bytes are there.            *)
OneName(d, k, b, c, n) ==
  /\ \A i \in SlotNumbers :
       \/ b[i] = d[k][i] \/ b[i].kind # "short"
       \/ /\ i = n /\ b[i].cluster = c
          /\ b[i].attr = "arch" /\ b[i].size > 0 => HasBytes(d, c)
  /\ d[k][1].kind = "bytes" => b[1] = d[k][1]

LEMMA NamesPublish ==
  ASSUME NEW f, NEW d, IsData(d), NamesSound(f, d), NEW k \in Cluster, NEW b, IsBuff(b),
         NEW c, NEW n, Unclaimed(f, d, c), OneName(d, k, b, c, n),
         NEW e, e = Put(d, k, b)
  PROVE  /\ IsData(e) /\ e[k] = b /\ NamesSound(f, e)
         /\ \A j \in Cluster, i \in SlotNumbers :
              IsName(e, j, i) /\ e[j][i].cluster = c => j = k /\ i = n
<1>1. IsData(e) /\ e[k] = b /\ \A j \in Cluster \ {k} : e[j] = d[j]
  BY DEF IsData, IsBuff, Put
<1>2. ASSUME NEW j \in Cluster, NEW i \in SlotNumbers, IsName(e, j, i), ~(j = k /\ i = n)
      PROVE  IsName(d, j, i) /\ e[j][i] = d[j][i] /\ e[j][i].cluster # c
  <2>1. e[j][i] = d[j][i]
    BY <1>1, <1>2 DEF IsName, OneName
  <2>. QED  BY <1>2, <2>1 DEF IsName, Unclaimed, Unnamed
<1>3. ASSUME NEW i \in SlotNumbers, IsName(e, k, i), i = n, e[k][i] # d[k][i]
      PROVE  e[k][i].cluster = c
             /\ (e[k][i].attr = "arch" /\ e[k][i].size > 0 => HasBytes(d, c))
  BY <1>1, <1>3 DEF IsName, OneName
<1>4. ASSUME NEW x \in Cluster, HasBytes(d, x)
      PROVE  HasBytes(e, x)
  BY <1>1, <1>4 DEF HasBytes, OneName
<1>5. ASSUME NEW j \in Cluster, NEW i \in SlotNumbers, IsName(e, j, i)
      PROVE  \/ IsName(d, j, i) /\ e[j][i] = d[j][i]
             \/ e[j][i].cluster = c /\ j = k /\ i = n
                /\ (e[j][i].attr = "arch" /\ e[j][i].size > 0 => HasBytes(d, c))
  <2>1. CASE ~(j = k /\ i = n)
    BY <1>2, <1>5, <2>1
  <2>2. CASE j = k /\ i = n /\ e[k][i] # d[k][i]
    BY <1>3, <1>5, <2>2
  <2>3. CASE j = k /\ i = n /\ e[k][i] = d[k][i]
    BY <1>5, <2>3 DEF IsName
  <2>. QED  BY <2>1, <2>2, <2>3
<1>6. ASSUME NEW j \in Cluster, NEW i \in SlotNumbers, IsName(e, j, i)
      PROVE  /\ InUse(f, e[j][i].cluster)
             /\ IsHead(e, j, i) => e[j][i].cluster \notin {1, Root} /\ ~LeadsTo(f, e[j][i].cluster)
             /\ e[j][i].attr = "arch" /\ e[j][i].size > 0 => HasBytes(e, e[j][i].cluster)
  <2>1. CASE IsName(d, j, i) /\ e[j][i] = d[j][i]
    <3>1. InUse(f, e[j][i].cluster) /\ e[j][i].cluster \in Cluster
      BY <2>1 DEF NamesSound, InUse
    <3>2. IsHead(e, j, i) => e[j][i].cluster \notin {1, Root} /\ ~LeadsTo(f, e[j][i].cluster)
      BY <2>1 DEF NamesSound, IsHead
    <3>3. e[j][i].attr = "arch" /\ e[j][i].size > 0 => HasBytes(d, e[j][i].cluster)
      BY <2>1 DEF NamesSound
    <3>. QED  BY <1>4, <3>1, <3>2, <3>3
  <2>2. CASE e[j][i].cluster = c
             /\ (e[j][i].attr = "arch" /\ e[j][i].size > 0 => HasBytes(d, c))
    BY <1>4, <2>2 DEF Unclaimed, InUse
  <2>. QED  BY <1>5, <1>6, <2>1, <2>2
<1>7. ASSUME NEW j \in Cluster, NEW i \in SlotNumbers, NEW x \in Cluster, NEW y \in SlotNumbers,
             IsHead(e, j, i), IsHead(e, x, y), e[j][i].cluster = e[x][y].cluster
      PROVE  j = x /\ i = y
  <2>1. IsName(e, j, i) /\ IsName(e, x, y)
    BY <1>7 DEF IsHead
  <2>2. CASE IsName(d, j, i) /\ e[j][i] = d[j][i] /\ IsName(d, x, y) /\ e[x][y] = d[x][y]
    BY <1>7, <2>2 DEF NamesSound, IsHead
  <2>3. CASE IsName(d, j, i) /\ e[j][i] = d[j][i] /\ e[x][y].cluster = c
    BY <1>7, <2>3 DEF Unclaimed, Unnamed
  <2>4. CASE e[j][i].cluster = c /\ IsName(d, x, y) /\ e[x][y] = d[x][y]
    BY <1>7, <2>4 DEF Unclaimed, Unnamed
  <2>5. CASE j = k /\ i = n /\ x = k /\ y = n
    BY <2>5
  <2>. QED  BY <1>5, <2>1, <2>2, <2>3, <2>4, <2>5
<1>8. NamesSound(f, e)
  <2>1. \A j \in Cluster, i \in SlotNumbers : IsHead(e, j, i) => IsName(e, j, i)
    BY DEF IsHead
  <2>. QED  BY <1>6, <1>7, <2>1 DEF NamesSound
<1>9. \A j \in Cluster, i \in SlotNumbers :
        IsName(e, j, i) /\ e[j][i].cluster = c => j = k /\ i = n
  BY <1>2
<1>. QED  BY <1>1, <1>8, <1>9

(* The dots of a new directory go over a cluster that no file has. *)
LEMMA NamesDots ==
  ASSUME NEW f, NEW d, IsData(d), NamesSound(f, d), NEW c \in Cluster, InUse(f, c),
         NEW p, InUse(f, p),
         \A k \in Cluster, i \in SlotNumbers :
           IsName(d, k, i) /\ d[k][i].cluster = c => d[k][i].attr # "arch",
         NEW b, b = [d[c] EXCEPT ![1] = Short(DotDot, "dir", p, 0), ![2] = Short(Dot, "dir", c, 0)],
         NEW e, e = Put(d, c, b)
  PROVE  IsData(e) /\ NamesSound(f, e)
<1>. DEFINE dots == {Short(DotDot, "dir", p, 0), Short(Dot, "dir", c, 0)}
<1>1. IsBuff(b) /\ \A i \in SlotNumbers : b[i] = d[c][i] \/ b[i] \in dots
  BY DEF IsData, IsBuff
<1>2. \A s \in dots : s.attr = "dir" /\ s.cluster \in {p, c} /\ s.name \in {Dot, DotDot}
  BY DEF Short
<1>. HIDE DEF dots
<1>3. IsData(e) /\ e[c] = b /\ \A j \in Cluster \ {c} : e[j] = d[j]
  BY <1>1 DEF IsData, IsBuff, Put
<1>4. ASSUME NEW j \in Cluster, NEW i \in SlotNumbers, IsName(e, j, i)
      PROVE  \/ IsName(d, j, i) /\ e[j][i] = d[j][i]
             \/ e[j][i] \in dots
  <2>1. CASE j = c
    <3>1. e[j] = b /\ e[j][i].kind = "short" /\ (b[i] = d[c][i] \/ b[i] \in dots)
      BY <1>1, <1>3, <1>4, <2>1 DEF IsName
    <3>. QED  BY <2>1, <3>1 DEF IsName
  <2>2. CASE j # c
    <3>1. e[j] = d[j] /\ e[j][i].kind = "short"
      BY <1>3, <1>4, <2>2 DEF IsName
    <3>. QED  BY <3>1 DEF IsName
  <2>. QED  BY <2>1, <2>2
<1>5. ASSUME NEW j \in Cluster, NEW i \in SlotNumbers
      PROVE  IsHead(e, j, i) => IsHead(d, j, i) /\ e[j][i] = d[j][i]
  BY <1>2, <1>4 DEF IsHead
<1>6. ASSUME NEW j \in Cluster, NEW i \in SlotNumbers, IsName(e, j, i)
      PROVE  InUse(f, e[j][i].cluster)
  BY <1>2, <1>4, <1>6 DEF NamesSound
<1>7. ASSUME NEW j \in Cluster, NEW i \in SlotNumbers, IsName(e, j, i),
             e[j][i].attr = "arch", e[j][i].size > 0
      PROVE  HasBytes(e, e[j][i].cluster)
  <2>1. IsName(d, j, i) /\ e[j][i] = d[j][i]
    BY <1>2, <1>4, <1>7
  <2>2. e[j][i].cluster \in Cluster /\ e[j][i].cluster # c /\ HasBytes(d, e[j][i].cluster)
    BY <1>7, <2>1 DEF NamesSound, InUse
  <2>. QED  BY <1>3, <2>2 DEF HasBytes
<1>8. NamesSound(f, e)
  <2>1. ASSUME NEW j \in Cluster, NEW i \in SlotNumbers, IsHead(e, j, i)
        PROVE  e[j][i].cluster \notin {1, Root} /\ ~LeadsTo(f, e[j][i].cluster)
    BY <1>5, <2>1 DEF NamesSound
  <2>2. ASSUME NEW j \in Cluster, NEW i \in SlotNumbers, NEW x \in Cluster,
               NEW y \in SlotNumbers, IsHead(e, j, i), IsHead(e, x, y),
               e[j][i].cluster = e[x][y].cluster
        PROVE  j = x /\ i = y
    BY <1>5, <2>2 DEF NamesSound
  <2>. QED  BY <1>6, <1>7, <2>1, <2>2 DEF NamesSound
<1>. QED  BY <1>3, <1>8

-----------------------------------------------------------------------------
(***************************************************************************)
(* 4. The volume.                                                          *)
(***************************************************************************)

(* A call of the FAT layer keeps the invariant of the table.               *)
LEMMA FatTyped ==
  ASSUME CacheInv, Faults = {}, [Next]_vars
  PROVE  CacheInv'
<1>1. CASE Next
  BY <1>1, TypeStep, CleanStep DEF CacheInv
<1>2. CASE UNCHANGED vars
  BY <1>2 DEF vars, CacheInv, TypeOK, WindowInRange, CleanWindowMatches
<1>. QED  BY <1>1, <1>2

(* Fat32ReadEntry answers with the link of its cluster.                    *)
LEMMA Reading ==
  ASSUME CacheInv, Faults = {}, NEW c \in Cluster, ReadEntry(c)
  PROVE  /\ CacheInv' /\ Logical' = Logical /\ pc = "ready" /\ pc' = "ready"
         /\ ret'.op = "read" /\ ret'.val = WordOf(Logical, c).lo
<1>1. c \in Clusters
  BY VolumeAssumption
<1>2. CacheInv'
  BY <1>1, FatTyped DEF Next
<1>3. Logical' = Logical
      /\ ret' = [op |-> "read", cluster |-> c, val |-> Logical[SectorOf(c)][OffsetOf(c)].lo]
  BY <1>1, ReadMaps
<1>. QED  BY <1>2, <1>3 DEF WordOf, ReadEntry, scanVars

(* Fat32WriteEntry changes the link of its cluster and no other word.      *)
LEMMA Storing ==
  ASSUME CacheInv, Faults = {}, NEW c \in Cluster, NEW v \in Links, WriteEntry(c, v)
  PROVE  /\ CacheInv' /\ pc = "ready" /\ pc' = "ready" /\ ret'.op = "write"
         /\ WordOf(Logical', c).lo = v
         /\ \A k \in Cluster \ {c} : WordOf(Logical', k) = WordOf(Logical, k)
<1>1. c \in Clusters
  BY VolumeAssumption
<1>2. CacheInv'
  BY <1>1, FatTyped DEF Next
<1>3. Logical \in Table
  BY LogicalType DEF CacheInv
<1>4. Logical' = [Logical EXCEPT ![SectorOf(c)][OffsetOf(c)].lo = v]
  BY <1>1, WriteMaps
<1>. DEFINE w == [WordOf(Logical, c) EXCEPT !.lo = v]
<1>5. Logical' = Stored(Logical, c, w)
  BY <1>4 DEF WordOf, Stored
<1>6. w.lo = v
  BY <1>3, WordType DEF Words
<1>. HIDE DEF w
<1>7. WordOf(Logical', c) = w /\ \A k \in Cluster \ {c} : WordOf(Logical', k) = WordOf(Logical, k)
  BY <1>3, <1>5, StoreWord
<1>. QED  BY <1>2, <1>6, <1>7 DEF WriteEntry, scanVars

(* Fat32AllocateCluster begins with no change of the table.                *)
LEMMA Beginning ==
  ASSUME CacheInv, Faults = {}, AllocateCluster
  PROVE  CacheInv' /\ Logical' = Logical /\ pc = "ready" /\ pc' = "scan"
BY FatTyped, BeginMaps DEF Next, AllocateCluster

(* A scan that ends reserves a free word, and returns its cluster.         *)
LEMMA Reserving ==
  ASSUME CacheInv, Faults = {}, ScanAligned, ScanFound
  PROVE  /\ CacheInv' /\ pc = "scan" /\ pc' = "ready"
         /\ \E c \in Cluster :
              /\ ret' = [op |-> "alloc", cluster |-> c]
              /\ WordOf(Logical, c) = Zero /\ WordOf(Logical', c) = Reserved
              /\ \A k \in Cluster \ {c} : WordOf(Logical', k) = WordOf(Logical, k)
<1>1. CacheInv' /\ pc = "scan" /\ pc' = "ready" /\ sector = fatBuffNum
  BY FatTyped DEF Next, Scan, ScanFound, Return, ScanAligned
<1>2. PICK k \in Blocks, o \in Offsets :
        /\ fatBuffNum + k \in Sectors
        /\ Logical[fatBuffNum + k][o] = Zero
        /\ Logical' = [Logical EXCEPT ![fatBuffNum + k][o] = Reserved]
        /\ ret' = [op |-> "alloc", cluster |-> (sector + k) * EntriesPerSector + o]
  BY ReserveMaps
<1>. DEFINE s == fatBuffNum + k
            c == s * EntriesPerSector + o
<1>3. c \in Cluster /\ SectorOf(c) = s /\ OffsetOf(c) = o
  BY <1>2, AddressOf
<1>4. /\ ret' = [op |-> "alloc", cluster |-> c] /\ Logical[s][o] = Zero
      /\ Logical' = [Logical EXCEPT ![s][o] = Reserved]
  BY <1>1, <1>2
<1>. HIDE DEF c, s
<1>5. Logical \in Table
  BY LogicalType DEF CacheInv
<1>6. WordOf(Logical, c) = Zero
  BY <1>3, <1>4 DEF WordOf
<1>7. WordOf(Logical', c) = Reserved
      /\ \A j \in Cluster \ {c} : WordOf(Logical', j) = WordOf(Logical, j)
  <2>1. Logical' = Stored(Logical, c, Reserved)
    BY <1>3, <1>4 DEF Stored
  <2>. QED  BY <1>3, <1>5, <2>1, StoreWord
<1>. QED  BY <1>1, <1>3, <1>4, <1>6, <1>7

(* A scan that goes on changes nothing in the table.                       *)
LEMMA Moving ==
  ASSUME CacheInv, Faults = {}, ScanNext
  PROVE  CacheInv' /\ Logical' = Logical /\ pc = "scan" /\ pc' = "scan"
BY FatTyped, MoveMaps DEF Next, Scan, ScanNext

(* A scan that gives up changes nothing in the table.                      *)
LEMMA GivingUp ==
  ASSUME CacheInv, Faults = {}, ScanFull
  PROVE  /\ CacheInv' /\ Logical' = Logical /\ pc = "scan" /\ pc' = "ready"
         /\ ret'.op = "full"
<1>1. CacheInv'
  BY FatTyped DEF Next, Scan
<1>2. Logical' = Logical
  BY DEF ScanFull, fatVars, Logical, InWindow
<1>. QED  BY <1>1, <1>2 DEF ScanFull, Return

(* Fat32FlushFat makes the card what the caller sees.                      *)
LEMMA Flushing ==
  ASSUME CacheInv, Faults = {}, FlushFat
  PROVE  /\ CacheInv' /\ disk' = Logical /\ Logical' = Logical /\ pc = "ready" /\ pc' = "ready"
         /\ ret'.op = "flush"
BY FatTyped, FlushMaps DEF Next, FlushFat, scanVars

(* A step outside the FAT layer leaves the table as it was.                *)
LEMMA Resting ==
  ASSUME CacheInv, UNCHANGED vars
  PROVE  CacheInv' /\ Logical' = Logical /\ pc' = pc /\ ret' = ret
BY DEF vars, CacheInv, TypeOK, WindowInRange, CleanWindowMatches, Logical, InWindow

-----------------------------------------------------------------------------
(* AllocateCluster has answered and its cluster is not linked yet. *)
Taken == pc = "ready" /\ ret.op = "alloc" /\ st \in {"growLink", "data", "link"}
(* WriteFile has begun a chain, from first to last. *)
Making == st \in {"data", "more", "link", "end"}
Begun  == Making /\ (st = "data" => part > 0)

Open == (IF Taken THEN {ret.cluster} ELSE {}) \cup (IF Begun THEN {last} ELSE {})
        \cup (IF st = "growEnd" THEN {first} ELSE {})
        \cup (IF st = "undefined" THEN Cluster ELSE {})

Claimable(c) == Unclaimed(Logical, data, c)

(* The clusters that the calls hold. *)
Held ==
  /\ InUse(Logical, dir.first) /\ InUse(Logical, dir.cur)
  /\ pc = "scan" => st \in {"growLink", "data"}
  /\ st = "link" => Taken
  /\ Making => part \in Nat /\ (st # "data" => part > 0)
  /\ Taken => Claimable(ret.cluster) /\ ret.cluster # dir.cur
              /\ (Begun => ret.cluster # first)
  /\ Begun => InUse(Logical, last)
  /\ Begun \/ st = "flushDir" =>
       Claimable(first) /\ (call.size > 0 => HasBytes(data, first))
  /\ st = "growEnd" => InUse(Logical, first)
  /\ st = "dots" => call.op = "mkdir"
  /\ st \in {"flushFat", "dots"} =>
       /\ InUse(Logical, first)
       /\ call.op = "mkdir" => \A c \in Cluster, i \in SlotNumbers :
            IsName(data, c, i) /\ data[c][i].cluster = first => data[c][i].attr # "arch"

(* The buffer is a copy of its cluster, but for the slots WriteFile is     *)
(* about to save, none of which holds the first bytes of a file.           *)
Saving == Making \/ st = "flushDir"
Buffered ==
  /\ st \in {"search", "resolved", "slots", "grow", "growLink", "growEnd", "name", "read"}
       => buff = data[dir.cur]
  /\ Saving => \A i \in SlotNumbers :
       buff[i] = data[dir.cur][i]
       \/ /\ i = 1 => data[dir.cur][1].kind # "bytes"
          /\ \/ buff[i].kind = "long"
             \/ st = "flushDir" /\ i = at + Slots
                /\ \E name : buff[i] = Short(name, Attr, first, call.size)
  /\ Saving \/ st = "name" => (at = 0 => data[dir.cur][1].kind # "bytes")
  /\ Saving => at >= 0
  /\ dir.dirty => Saving \/ st = "undefined"

Shape ==
  /\ CacheInv /\ IsData(data) /\ IsBuff(buff) /\ faults \in Nat
  /\ dir \in [first : Cluster, cur : Cluster, dirty : BOOLEAN]
  /\ rest \in Seq(Seq(0 .. 9)) /\ at \in Int /\ call.size \in Nat

SoundNow == Sound(Logical, data, Open)

Running == Shape /\ Held /\ Buffered /\ SoundNow

(* Steps that only decide what comes next.                                 *)
LEMMA QuietStep ==
  ASSUME Running,
         RefuseName \/ WriteFile \/ SearchOver \/ NotFound \/ StatEntry \/ BeginRead \/ ReadOver
         \/ DirTooLong
  PROVE  Running'
<1>. USE DEF Running, RefuseName, WriteFile, SearchOver, NotFound, StatEntry, BeginRead,
             ReadOver, DirTooLong
<1>1. UNCHANGED <<vars, data, buff, dir, call, rest, first, last, faults>>
  OBVIOUS
<1>2. CacheInv' /\ Logical' = Logical /\ pc' = pc /\ ret' = ret
  BY <1>1, Resting DEF Shape
<1>3. Shape'
  BY <1>1, <1>2 DEF Shape
<1>4. Held'
  BY <1>1, <1>2 DEF Held, Taken, Making, Begun, Claimable
<1>5. Buffered'
  BY <1>1, <1>2 DEF Buffered, Saving, Making
<1>6. SoundNow'
  BY <1>1, <1>2 DEF SoundNow, Open, Taken, Making, Begun, Held
<1>. QED  BY <1>3, <1>4, <1>5, <1>6

(* A cluster loaded into the buffer is a buffer. *)
LEMMA LoadedBuff ==
  ASSUME NEW d, IsData(d), NEW c \in Cluster
  PROVE  IsBuff(d[c])
BY DEF IsData, IsBuff

(* After the index -1 or the cluster 0x0FFFFFF7 nothing is claimed of      *)
(* chains.                                                                 *)
LEMMA UndefinedStep ==
  ASSUME Running, OutOfBuffer \/ NoCluster
  PROVE  Running'
<1>. USE DEF Running, OutOfBuffer, NoCluster
<1>1. UNCHANGED <<vars, data, buff, dir, call, rest, faults>> /\ st' = "undefined"
      /\ st \in {"name", "data"} /\ (st = "data" => pc = "ready")
  OBVIOUS
<1>2. CacheInv' /\ Logical' = Logical /\ pc' = pc /\ ret' = ret
  BY <1>1, Resting DEF Shape
<1>3. Shape'
  BY <1>1, <1>2 DEF Shape, OutOfBuffer, NoCluster
<1>4. Held'
  BY <1>1, <1>2 DEF Held, Taken, Making, Begun
<1>5. Buffered'
  BY <1>1, <1>2 DEF Buffered, Saving, Making
<1>6. SoundNow'
  <2>1. Open' = Cluster \/ Cluster \subseteq Open'
    BY <1>1 DEF Open
  <2>2. TableSound(Logical, Open') /\ NamesSound(Logical, data)
    BY <2>1 DEF SoundNow, Sound, TableSound
  <2>. QED  BY <1>1, <1>2, <2>2 DEF SoundNow, Sound
<1>. QED  BY <1>3, <1>4, <1>5, <1>6

(* The first of the slots found is free or the end, never bytes of a file. *)
LEMMA AllocateDirEntriesStep ==
  ASSUME Running, AllocateDirEntries
  PROVE  Running'
<1>. USE DEF Running
<1>1. /\ UNCHANGED <<vars, data, buff, dir, call, rest, first, last, faults>>
      /\ st = "slots" /\ st' = "name" /\ Runs # {}
      /\ at' = (CHOOSE f \in Runs : \A g \in Runs : f <= g) - 1
  BY DEF AllocateDirEntries
<1>2. CacheInv' /\ Logical' = Logical /\ pc' = pc /\ ret' = ret
  BY <1>1, Resting DEF Shape
<1>3. Runs \in SUBSET Nat /\ Runs \subseteq SlotNumbers
  BY DEF Runs, SlotNumbers
<1>4. PICK low \in Runs : \A g \in Runs : low <= g
  BY <1>1, <1>3, LeastNatural
<1>. DEFINE r == CHOOSE f \in Runs : \A g \in Runs : f <= g
<1>5. r \in Runs /\ at' = r - 1
  BY <1>1, <1>4
<1>. HIDE DEF r
<1>6. r \in Nat /\ IsRun(r)
  BY <1>3, <1>5 DEF Runs
<1>7. buff[r].kind # "bytes"
  <2>1. PICK k \in 0 .. Slots - 1 :
          /\ \A j \in 0 .. k - 1 : buff[r + j] = Free
          /\ buff[r + k] = End \/ (buff[r + k] = Free /\ k = Slots - 1)
    BY <1>6 DEF IsRun
  <2>2. Slots \in Int
    BY DEF Slots, Shape
  <2>3. buff[r] = Free \/ buff[r] = End
    <3>1. CASE k = 0
      BY <1>6, <2>1, <3>1
    <3>2. CASE k # 0
      <4>1. 0 \in 0 .. k - 1 /\ r + 0 = r
        BY <1>6, <2>1, <2>2, <3>2
      <4>. QED  BY <2>1, <4>1
    <3>. QED  BY <3>1, <3>2
  <2>. QED  BY <2>3 DEF Free, End
<1>8. at' \in Int /\ (at' = 0 => data[dir.cur][1].kind # "bytes")
  <2>1. buff = data[dir.cur]
    BY <1>1 DEF Buffered
  <2>2. at' \in Int /\ (at' = 0 => r = 1)
    BY ONLY <1>5, <1>6
  <2>. QED  BY ONLY <1>7, <2>1, <2>2
<1>9. Shape'
  BY <1>1, <1>2, <1>8 DEF Shape
<1>10. Held'
  BY <1>1, <1>2 DEF Held, Taken, Making, Begun
<1>11. Buffered'
  BY <1>1, <1>2, <1>8 DEF Buffered, Saving, Making
<1>12. SoundNow'
  BY <1>1, <1>2 DEF SoundNow, Open, Taken, Making, Begun
<1>. QED  BY <1>9, <1>10, <1>11, <1>12

Ops == {"mkfile", "mkdir", "readfile", "stat"}

(* A call begins at the root.                                              *)
LEMMA CallStep ==
  ASSUME Running, MkFile \/ Mkdir \/ ReadFile \/ Stat
  PROVE  Running'
<1>. USE DEF Running
<1>1. PICK op \in Ops, path \in Paths \cup DirPaths, size \in Sizes \cup {0} : Call(op, path, size)
  <2>. DEFINE Called == \E op \in Ops, path \in Paths \cup DirPaths, size \in Sizes \cup {0} :
                         Call(op, path, size)
  <2>1. CASE MkFile
    <3>1. PICK path \in Paths, size \in Sizes : Call("mkfile", path, size)
      BY <2>1 DEF MkFile, Make
    <3>. QED  BY <3>1 DEF Ops
  <2>2. CASE Mkdir
    <3>1. PICK path \in DirPaths : Call("mkdir", path, 0)
      BY <2>2 DEF Mkdir, Make
    <3>. QED  BY <3>1 DEF Ops
  <2>3. CASE ReadFile
    <3>1. PICK path \in Paths : Call("readfile", path, 0)
      BY <2>3 DEF ReadFile
    <3>. QED  BY <3>1 DEF Ops
  <2>4. CASE Stat
    <3>1. PICK path \in Paths : Call("stat", path, 0)
      BY <2>4 DEF Stat
    <3>. QED  BY <3>1 DEF Ops
  <2>5. Called
    BY <2>1, <2>2, <2>3, <2>4
  <2>. QED  BY <2>5
<1>2. /\ UNCHANGED <<vars, data, at, first, last, part, faults>>
      /\ st = "idle" /\ st' = "search" /\ rest' = path
      /\ call' = [op |-> op, path |-> path, size |-> size, id |-> call.id + 1]
      /\ dir' = [first |-> Root, cur |-> Root, dirty |-> FALSE] /\ buff' = data[Root]
  BY <1>1 DEF Call
<1>3. CacheInv' /\ Logical' = Logical /\ pc' = pc /\ ret' = ret
  BY <1>2, Resting DEF Shape
<1>4. Root \in Cluster /\ path \in Seq(Seq(0 .. 9)) /\ size \in Nat
  BY VolumeAssumption
<1>5. Shape'
  BY <1>2, <1>3, <1>4, LoadedBuff DEF Shape
<1>6. InUse(Logical, Root)
  BY DEF SoundNow, Sound, TableSound
<1>7. Held'
  BY <1>2, <1>3, <1>6 DEF Held, Taken, Making, Begun
<1>8. Buffered'
  BY <1>2 DEF Buffered, Saving, Making
<1>9. SoundNow'
  BY <1>2, <1>3 DEF SoundNow, Open, Taken, Making, Begun
<1>. QED  BY <1>5, <1>7, <1>8, <1>9

(* The cluster of an entry found is in use.                                *)
LEMMA DescendStep ==
  ASSUME Running, Descend
  PROVE  Running'
<1>. USE DEF Running
<1>1. PICK i \in SlotNumbers :
        /\ Found(i, Head(rest))
        /\ dir' = [first |-> buff[i].cluster, cur |-> buff[i].cluster, dirty |-> FALSE]
        /\ buff' = data[buff[i].cluster]
  BY DEF Descend
<1>2. /\ UNCHANGED <<vars, data, st, call, at, first, last, part, faults>>
      /\ st = "search" /\ rest' = Tail(rest) /\ rest # <<>>
  BY DEF Descend
<1>3. CacheInv' /\ Logical' = Logical /\ pc' = pc /\ ret' = ret
  BY <1>2, Resting DEF Shape
<1>4. InUse(Logical, buff[i].cluster) /\ buff[i].cluster \in Cluster
  <2>1. buff[i].kind = "short"
    BY <1>1 DEF Found, SlotMatches
  <2>2. buff = data[dir.cur] /\ dir.cur \in Cluster
    BY <1>2 DEF Buffered, Shape
  <2>3. IsName(data, dir.cur, i) /\ NamesSound(Logical, data)
    BY <2>1, <2>2 DEF IsName, SoundNow, Sound
  <2>. QED  BY <2>2, <2>3 DEF NamesSound, InUse
<1>5. rest' \in Seq(Seq(0 .. 9))
  BY <1>2 DEF Shape
<1>6. Shape'
  BY <1>1, <1>2, <1>3, <1>4, <1>5, LoadedBuff DEF Shape
<1>7. Held'
  BY <1>1, <1>2, <1>3, <1>4 DEF Held, Taken, Making, Begun
<1>8. Buffered'
  BY <1>1, <1>2 DEF Buffered, Saving, Making
<1>9. SoundNow'
  BY <1>2, <1>3 DEF SoundNow, Open, Taken, Making, Begun
<1>. QED  BY <1>6, <1>7, <1>8, <1>9

(* A chain that goes on goes on to a used cluster. *)
LEMMA NextInUse ==
  ASSUME Running, NEW c \in Cluster, WordOf(Logical, c).lo < EOC
  PROVE  InUse(Logical, WordOf(Logical, c).lo) /\ WordOf(Logical, c).lo \in Cluster
<1>1. Logical \in Table
  BY LogicalType DEF Running, Shape, CacheInv
<1>2. WordOf(Logical, c).lo \in Nat /\ EOC \in Nat
  BY <1>1, WordType, BelowEOC
<1>3. ~(WordOf(Logical, c).lo >= EOC)
  BY ONLY <1>2, WordOf(Logical, c).lo < EOC
<1>. QED  BY <1>3 DEF Running, SoundNow, Sound, TableSound, InUse

(* LoadNextCluster, in the search of a path, of free slots and of a file. *)
LEMMA ReadStep ==
  ASSUME Running, Faults = {}, SearchNext \/ NextDirCluster \/ ReadCluster
  PROVE  Running'
<1>. USE DEF Running
<1>1. /\ ReadEntry(dir.cur) /\ data' = FlushedDir
      /\ UNCHANGED <<call, rest, first, last, faults>>
      /\ st \in {"search", "slots", "read"}
      /\ st' \in {"search", "slots", "read", "resolved", "grow", "name", "idle"}
      /\ st' = "name" => at' = E_ERROR
      /\ at' \in {at, E_ERROR}
  BY DEF SearchNext, NextDirCluster, ReadCluster
<1>2. \/ dir' = [dir EXCEPT !.dirty = FALSE] /\ buff' = buff
      \/ /\ dir' = [dir EXCEPT !.cur = ret'.val, !.dirty = FALSE] /\ buff' = data'[ret'.val]
         /\ ~(ret'.val >= EOC) \/ ret'.val < EOC
  BY DEF SearchNext, NextDirCluster, ReadCluster
<1>3. dir.cur \in Cluster /\ ~dir.dirty /\ buff = data[dir.cur]
  BY <1>1 DEF Shape, Buffered, Saving, Making
<1>4. data' = data
  BY <1>1, <1>3 DEF FlushedDir
<1>5. /\ CacheInv' /\ Logical' = Logical /\ pc = "ready" /\ pc' = "ready"
      /\ ret'.op = "read" /\ ret'.val = WordOf(Logical, dir.cur).lo
  BY <1>1, <1>3, Reading DEF Shape
<1>6. /\ dir'.cur \in Cluster /\ InUse(Logical, dir'.cur) /\ buff' = data[dir'.cur]
      /\ dir' = [first |-> dir.first, cur |-> dir'.cur, dirty |-> FALSE]
  <2>1. dir \in [first : Cluster, cur : Cluster, dirty : BOOLEAN]
    BY DEF Shape
  <2>2. CASE dir' = [dir EXCEPT !.dirty = FALSE] /\ buff' = buff
    BY <1>3, <2>1, <2>2 DEF Held
  <2>3. CASE /\ dir' = [dir EXCEPT !.cur = ret'.val, !.dirty = FALSE] /\ buff' = data'[ret'.val]
             /\ ~(ret'.val >= EOC) \/ ret'.val < EOC
    <3>1. ret'.val < EOC
      <4>1. Logical \in Table
        BY LogicalType DEF Shape, CacheInv
      <4>2. ret'.val \in Nat /\ EOC \in Nat
        BY <1>3, <1>5, <4>1, WordType, BelowEOC
      <4>. QED  BY ONLY <2>3, <4>2
    <3>2. InUse(Logical, ret'.val) /\ ret'.val \in Cluster
      BY <1>3, <1>5, <3>1, NextInUse
    <3>. QED  BY <1>4, <2>1, <2>3, <3>2
  <2>. QED  BY <1>2, <2>2, <2>3
<1>7. Shape'
  <2>1. at' \in Int
    BY <1>1, VolumeAssumption DEF Shape
  <2>2. IsBuff(buff')
    BY <1>6, LoadedBuff DEF Shape
  <2>3. dir' \in [first : Cluster, cur : Cluster, dirty : BOOLEAN]
    <3>1. dir.first \in Cluster
      BY DEF Shape
    <3>2. PICK c \in Cluster : dir'.cur = c
      BY <1>6
    <3>3. dir' = [first |-> dir.first, cur |-> c, dirty |-> FALSE]
      BY ONLY <1>6, <3>2
    <3>. QED  BY <3>1, <3>3
  <2>. QED  BY <1>1, <1>4, <1>5, <2>1, <2>2, <2>3 DEF Shape
<1>8. Held'
  BY <1>1, <1>4, <1>5, <1>6 DEF Held, Taken, Making, Begun
<1>9. Buffered'
  BY <1>1, <1>4, <1>5, <1>6, VolumeAssumption DEF Buffered, Saving, Making
<1>10. SoundNow'
  BY <1>1, <1>4, <1>5 DEF SoundNow, Open, Taken, Making, Begun
<1>. QED  BY <1>7, <1>8, <1>9, <1>10

(* Grow and AllocateMore begin a scan; what is open stays open.            *)
LEMMA BeginStep ==
  ASSUME Running, Faults = {}, Grow \/ AllocateMore
  PROVE  Running'
<1>. USE DEF Running
<1>1. /\ AllocateCluster
      /\ UNCHANGED <<data, buff, dir, call, rest, at, first, last, part, faults>>
      /\ \/ st = "grow" /\ st' = "growLink"
         \/ st = "more" /\ st' = "data"
  BY DEF Grow, AllocateMore
<1>2. CacheInv' /\ Logical' = Logical /\ pc' = "scan"
  BY <1>1, Beginning DEF Shape
<1>3. Shape'
  BY <1>1, <1>2 DEF Shape
<1>4. Held'
  BY <1>1, <1>2 DEF Held, Taken, Making, Begun, Claimable
<1>5. Buffered'
  BY <1>1, <1>2 DEF Buffered, Saving, Making
<1>6. Open' = Open
  BY <1>1, <1>2 DEF Held, Open, Taken, Making, Begun
<1>7. SoundNow'
  BY <1>1, <1>2, <1>6 DEF SoundNow
<1>. QED  BY <1>3, <1>4, <1>5, <1>7

(* The long name goes into the buffer, and a scan begins.                  *)
LEMMA WriteNamesStep ==
  ASSUME Running, Faults = {}, WriteNames
  PROVE  Running'
<1>. USE DEF Running
<1>1. /\ AllocateCluster
      /\ UNCHANGED <<data, call, rest, at, first, last, faults>>
      /\ st = "name" /\ st' = "data" /\ at >= 0 /\ part' = 0
      /\ dir' = [dir EXCEPT !.dirty = @ \/ rest # <<>>]
      /\ buff' = IF rest = <<>> THEN buff ELSE [buff EXCEPT ![at + 1] = Long(Head(rest))]
  BY DEF WriteNames
<1>2. CacheInv' /\ Logical' = Logical /\ pc' = "scan"
  BY <1>1, Beginning DEF Shape
<1>3. dir.cur \in Cluster /\ buff = data[dir.cur] /\ at \in Int
  BY <1>1 DEF Buffered, Shape
<1>4. dir' \in [first : Cluster, cur : Cluster, dirty : BOOLEAN]
      /\ dir'.first = dir.first /\ dir'.cur = dir.cur
  <2>1. dir \in [first : Cluster, cur : Cluster, dirty : BOOLEAN]
    BY DEF Shape
  <2>2. (dir.dirty \/ rest # <<>>) \in BOOLEAN
    OBVIOUS
  <2>. QED  BY ONLY <1>1, <2>1, <2>2
<1>5. IsBuff(buff') /\ \A i \in SlotNumbers :
        buff'[i] = buff[i] \/ (i = at + 1 /\ buff'[i].kind = "long")
  <2>1. IsBuff(buff)
    BY DEF Shape
  <2>2. CASE rest = <<>>
    BY <1>1, <2>1, <2>2
  <2>3. CASE rest # <<>>
    <3>1. buff' = [buff EXCEPT ![at + 1] = Long(Head(rest))]
      BY <1>1, <2>3
    <3>2. Long(Head(rest)).kind = "long"
      BY DEF Long
    <3>. QED  BY <2>1, <3>1, <3>2 DEF IsBuff
  <2>. QED  BY <2>2, <2>3
<1>6. Shape'
  BY <1>1, <1>2, <1>4, <1>5 DEF Shape
<1>7. Held'
  BY <1>1, <1>2, <1>4 DEF Held, Taken, Making, Begun
<1>8. Buffered'
  <2>1. at = 0 => data[dir.cur][1].kind # "bytes"
    BY <1>1 DEF Buffered
  <2>2. ASSUME NEW i \in SlotNumbers
        PROVE  \/ buff'[i] = data[dir.cur][i]
               \/ (i = 1 => data[dir.cur][1].kind # "bytes") /\ buff'[i].kind = "long"
    <3>1. i = at + 1 /\ i = 1 => at = 0
      BY ONLY <1>3
    <3>. QED  BY <1>3, <1>5, <2>1, <3>1
  <2>. QED  BY <1>1, <1>4, <2>1, <2>2 DEF Buffered, Saving, Making
<1>9. Open' = Open
  BY <1>1, <1>2 DEF Open, Taken, Making, Begun
<1>10. SoundNow'
  BY <1>1, <1>2, <1>9 DEF SoundNow
<1>. QED  BY <1>6, <1>7, <1>8, <1>10

(* A cluster reserved is open, and nothing leads to it.                    *)
LEMMA ScanStep ==
  ASSUME Running, Faults = {}, ScanAligned, Allocating
  PROVE  Running'
<1>. USE DEF Running
<1>1. /\ UNCHANGED <<data, buff, dir, call, rest, st, at, first, last, part, faults>>
      /\ ScanFound \/ ScanNext \/ ScanFull
  BY DEF Allocating, Scan, volVars
<1>2. CASE ScanNext \/ ScanFull
  <2>1. CacheInv' /\ Logical' = Logical /\ pc = "scan"
        /\ (pc' = "scan" \/ (pc' = "ready" /\ ret'.op = "full"))
    <3>1. CASE ScanNext
      BY <3>1, Moving DEF Shape
    <3>2. CASE ScanFull
      BY <3>2, GivingUp DEF Shape
    <3>. QED  BY <1>2, <3>1, <3>2
  <2>2. Shape'
    BY <1>1, <2>1 DEF Shape
  <2>3. Held'
    BY <1>1, <2>1 DEF Held, Taken, Making, Begun, Claimable
  <2>4. Buffered'
    BY <1>1, <2>1 DEF Held, Buffered, Saving, Making
  <2>5. Open' = Open
    BY <1>1, <2>1 DEF Open, Taken, Making, Begun
  <2>. QED  BY <1>1, <2>1, <2>2, <2>3, <2>4, <2>5 DEF SoundNow
<1>3. CASE ScanFound
  <2>1. CacheInv' /\ pc = "scan" /\ pc' = "ready"
    BY <1>3, Reserving DEF Shape
  <2>2. PICK c \in Cluster :
          /\ ret' = [op |-> "alloc", cluster |-> c]
          /\ WordOf(Logical, c) = Zero /\ WordOf(Logical', c) = Reserved
          /\ \A k \in Cluster \ {c} : WordOf(Logical', k) = WordOf(Logical, k)
    BY <1>3, Reserving DEF Shape
  <2>3. /\ Sound(Logical', data, Open \cup {c})
        /\ Unclaimed(Logical', data, c)
        /\ \A k : InUse(Logical, k) => InUse(Logical', k) /\ k # c
        /\ \A k : Unclaimed(Logical, data, k) => Unclaimed(Logical', data, k)
    BY <2>2, SoundReserve DEF SoundNow
  <2>4. st \in {"growLink", "data"} /\ ret'.op = "alloc" /\ ret'.cluster = c
    BY <2>1, <2>2 DEF Held
  <2>5. Begun => InUse(Logical, last) /\ Claimable(first) /\ InUse(Logical, first)
    BY DEF Held, Claimable, Unclaimed
  <2>6. Shape'
    BY <1>1, <2>1 DEF Shape
  <2>7. Held'
    <3>1. InUse(Logical', dir.first) /\ InUse(Logical', dir.cur) /\ dir.cur # c
      BY <2>3 DEF Held
    <3>2. Begun => InUse(Logical', last) /\ Unclaimed(Logical', data, first) /\ first # c
      BY <2>3, <2>5 DEF Claimable
    <3>3. Begun' = Begun /\ Making' = Making
      BY <1>1 DEF Begun, Making
    <3>. QED  BY <1>1, <2>1, <2>3, <2>4, <3>1, <3>2, <3>3 DEF Held, Claimable
  <2>8. Buffered'
    BY <1>1, <2>4 DEF Buffered, Saving, Making
  <2>9. Open' = Open \cup {c}
    <3>1. ~Taken /\ Taken' /\ Begun' = Begun
      BY <1>1, <2>1, <2>4 DEF Taken, Begun, Making
    <3>. QED  BY <1>1, <2>4, <3>1 DEF Open
  <2>. QED  BY <1>1, <2>3, <2>6, <2>7, <2>8, <2>9 DEF SoundNow
<1>. QED  BY <1>1, <1>2, <1>3

(* The directory leads on to the cluster reserved, which is open.          *)
LEMMA GrowLinkStep ==
  ASSUME Running, Faults = {}, GrowLink
  PROVE  Running'
<1>. USE DEF Running
<1>1. /\ UNCHANGED <<data, buff, dir, call, rest, last, part, faults>>
      /\ st = "growLink" /\ pc = "ready"
      /\ \/ ret.op = "full" /\ at' = -1 /\ st' = "name" /\ UNCHANGED <<vars, first>>
         \/ /\ ret.op = "alloc" /\ WriteEntry(dir.cur, ret.cluster)
            /\ first' = ret.cluster /\ st' = "growEnd" /\ at' = at
  BY DEF GrowLink
<1>2. CASE ret.op = "full" /\ at' = -1 /\ st' = "name" /\ UNCHANGED <<vars, first>>
  <2>1. CacheInv' /\ Logical' = Logical /\ pc' = pc /\ ret' = ret
    BY <1>2, Resting DEF Shape
  <2>2. Shape'
    BY <1>1, <1>2, <2>1 DEF Shape
  <2>3. Held'
    BY <1>1, <1>2, <2>1 DEF Held, Taken, Making, Begun
  <2>4. Buffered'
    BY <1>1, <1>2, <2>1 DEF Buffered, Saving, Making
  <2>5. Open' = Open
    BY <1>1, <1>2, <2>1 DEF Open, Taken, Making, Begun
  <2>. QED  BY <1>1, <2>1, <2>2, <2>3, <2>4, <2>5 DEF SoundNow
<1>3. CASE /\ ret.op = "alloc" /\ WriteEntry(dir.cur, ret.cluster)
           /\ first' = ret.cluster /\ st' = "growEnd" /\ at' = at
  <2>1. Taken /\ Claimable(ret.cluster) /\ Open = {ret.cluster}
    BY <1>1, <1>3 DEF Taken, Held, Open, Begun, Making
  <2>2. dir.cur \in Cluster /\ ret.cluster \in Cluster /\ ret.cluster \in Links
    <3>1. dir.cur \in Cluster /\ ret.cluster \in Cluster
      BY <2>1 DEF Shape, Claimable, Unclaimed, InUse
    <3>. QED  BY <3>1, BelowEOC
  <2>3. /\ CacheInv' /\ pc' = "ready" /\ ret'.op = "write"
        /\ WordOf(Logical', dir.cur).lo = ret.cluster
        /\ \A k \in Cluster \ {dir.cur} : WordOf(Logical', k) = WordOf(Logical, k)
    BY <1>3, <2>2, Storing DEF Shape
  <2>4. /\ Sound(Logical', data, Open \ {dir.cur})
        /\ \A k : InUse(Logical, k) => InUse(Logical', k)
    BY <2>1, <2>2, <2>3, SoundStore DEF SoundNow, Claimable
  <2>5. Open' = {ret.cluster}
    BY <1>1, <1>3 DEF Open, Taken, Begun, Making
  <2>6. Sound(Logical', data, Open')
    BY <2>1, <2>4, <2>5, SoundOpen
  <2>7. Shape'
    BY <1>1, <1>3, <2>3 DEF Shape
  <2>8. Held'
    <3>1. InUse(Logical', dir.first) /\ InUse(Logical', dir.cur) /\ InUse(Logical', ret.cluster)
      BY <2>1, <2>4 DEF Held, Claimable, Unclaimed
    <3>. QED  BY <1>1, <1>3, <2>3, <3>1 DEF Held, Taken, Begun, Making
  <2>9. Buffered'
    BY <1>1, <1>3 DEF Buffered, Saving, Making
  <2>. QED  BY <1>1, <2>6, <2>7, <2>8, <2>9 DEF SoundNow
<1>. QED  BY <1>1, <1>2, <1>3

(* The chain of the directory is ended, and its new cluster loaded.        *)
LEMMA GrowEndStep ==
  ASSUME Running, Faults = {}, GrowEnd
  PROVE  Running'
<1>. USE DEF Running
<1>1. /\ UNCHANGED <<data, call, rest, at, first, last, part, faults>>
      /\ st = "growEnd" /\ st' = "slots" /\ WriteEntry(first, EOC)
      /\ dir' = [dir EXCEPT !.cur = first] /\ buff' = data[first]
  BY DEF GrowEnd
<1>2. InUse(Logical, first) /\ first \in Cluster /\ Open = {first}
  BY <1>1 DEF Held, InUse, Open, Taken, Begun, Making
<1>3. /\ CacheInv' /\ pc' = "ready"
      /\ WordOf(Logical', first).lo = EOC
      /\ \A k \in Cluster \ {first} : WordOf(Logical', k) = WordOf(Logical, k)
  BY <1>1, <1>2, Storing, BelowEOC DEF Shape
<1>4. /\ Sound(Logical', data, Open \ {first})
      /\ \A k : InUse(Logical, k) => InUse(Logical', k)
  BY <1>2, <1>3, SoundStore DEF SoundNow
<1>5. Open' = {}
  BY <1>1 DEF Open, Taken, Begun, Making
<1>6. dir' \in [first : Cluster, cur : Cluster, dirty : BOOLEAN]
      /\ dir'.first = dir.first /\ dir'.cur = first /\ ~dir'.dirty
  <2>1. dir \in [first : Cluster, cur : Cluster, dirty : BOOLEAN] /\ ~dir.dirty
    BY <1>1 DEF Shape, Buffered, Saving, Making
  <2>. QED  BY ONLY <1>1, <1>2, <2>1
<1>7. IsBuff(buff')
  BY <1>1, <1>2, LoadedBuff DEF Shape
<1>8. Shape'
  BY <1>1, <1>3, <1>6, <1>7 DEF Shape
<1>9. Held'
  <2>1. InUse(Logical', dir.first) /\ InUse(Logical', first)
    BY <1>2, <1>4 DEF Held
  <2>. QED  BY <1>1, <1>3, <1>6, <2>1 DEF Held, Taken, Begun, Making
<1>10. Buffered'
  BY <1>1, <1>6 DEF Buffered, Saving, Making
<1>. QED  BY <1>1, <1>2, <1>4, <1>5, <1>8, <1>9, <1>10 DEF SoundNow

(* Bytes go to the cluster reserved, which no name has.                    *)
LEMMA WriteDataStep ==
  ASSUME Running, WriteData
  PROVE  Running'
<1>. USE DEF Running
<1>1. /\ UNCHANGED <<vars, buff, dir, call, rest, at, faults>>
      /\ st = "data" /\ pc = "ready" /\ ret.op = "alloc" /\ part' = part + 1
      /\ data' = IF call.size = 0 THEN data
                 ELSE [data EXCEPT ![ret.cluster] = Bytes(call.id, part + 1)]
      /\ IF part = 0
         THEN first' = ret.cluster /\ last' = ret.cluster /\ st' \in {"more", "end"}
         ELSE st' = "link" /\ UNCHANGED <<first, last>>
  BY DEF WriteData
<1>2. CacheInv' /\ Logical' = Logical /\ pc' = pc /\ ret' = ret
  BY <1>1, Resting DEF Shape
<1>3. /\ Taken /\ part \in Nat /\ ret.cluster \in Cluster /\ ret.cluster # dir.cur
      /\ Unclaimed(Logical, data, ret.cluster)
      /\ part > 0 => ret.cluster # first
  BY <1>1 DEF Held, Taken, Begun, Making, Claimable, Unclaimed, InUse
<1>4. IsData(data) /\ NamesSound(Logical, data) /\ call.size \in Nat
  BY DEF Shape, SoundNow, Sound
<1>5. /\ IsData(data') /\ NamesSound(Logical, data')
      /\ \A k : Unnamed(data, k) => Unnamed(data', k)
      /\ \A k \in Cluster \ {ret.cluster} : data'[k] = data[k]
      /\ part = 0 /\ call.size > 0 => HasBytes(data', ret.cluster)
  <2>1. CASE call.size = 0
    BY <1>1, <1>4, <2>1
  <2>2. CASE call.size # 0
    <3>1. data' = Put(data, ret.cluster, Bytes(call.id, part + 1))
      BY <1>1, <2>2 DEF Put
    <3>2. part = 0 => part + 1 = 1
      OBVIOUS
    <3>3. Unnamed(data, ret.cluster)
      BY <1>3 DEF Unclaimed
    <3>4. /\ IsData(data') /\ NamesSound(Logical, data')
          /\ \A k : Unnamed(data, k) => Unnamed(data', k)
          /\ \A k \in Cluster \ {ret.cluster} : data'[k] = data[k]
          /\ part + 1 = 1 => HasBytes(data', ret.cluster)
      BY ONLY <1>3, <1>4, <3>1, <3>3, NamesBytes
    <3>. QED  BY <3>2, <3>4
  <2>. QED  BY <2>1, <2>2
<1>6. \A k : Unclaimed(Logical, data, k) => Unclaimed(Logical, data', k)
  BY <1>5 DEF Unclaimed
<1>7. Shape'
  BY <1>1, <1>2, <1>5 DEF Shape
<1>8. /\ part' \in Nat /\ part' > 0 /\ InUse(Logical, last') /\ Unclaimed(Logical, data', first')
      /\ call.size > 0 => HasBytes(data', first')
      /\ st' = "link" => ret.cluster # first'
  <2>1. part' \in Nat /\ part' > 0
    BY ONLY <1>1, <1>3
  <2>2. CASE part = 0
    BY <1>1, <1>3, <1>5, <1>6, <2>1, <2>2 DEF Unclaimed
  <2>3. CASE part # 0
    <3>1. Begun
      BY <1>1, <1>3, <2>3 DEF Begun, Making
    <3>2. /\ InUse(Logical, last) /\ Unclaimed(Logical, data, first)
          /\ call.size > 0 => HasBytes(data, first)
          /\ ret.cluster # first
      BY <1>3, <3>1 DEF Held, Claimable
    <3>3. first \in Cluster /\ data'[first] = data[first]
      BY <1>5, <3>2 DEF Unclaimed, InUse
    <3>. QED  BY <1>1, <1>6, <2>1, <2>3, <3>2, <3>3 DEF HasBytes
  <2>. QED  BY <2>2, <2>3
<1>9. Held'
  <2>1. Begun' /\ st' \in {"more", "end", "link"} /\ (Taken' => st' = "link")
        /\ (st' = "link" => Taken')
    BY <1>1, <1>2 DEF Begun, Making, Taken
  <2>. QED  BY <1>1, <1>2, <1>3, <1>6, <1>8, <2>1 DEF Held, Claimable
<1>10. Buffered'
  <2>1. data'[dir.cur] = data[dir.cur]
    BY <1>3, <1>5 DEF Shape
  <2>. QED  BY <1>1, <2>1 DEF Buffered, Saving, Making
<1>11. Open' = Open
  <2>1. CASE part = 0
    BY <1>1, <1>2, <2>1 DEF Open, Taken, Begun, Making
  <2>2. CASE part # 0
    <3>1. part > 0
      BY <1>3, <2>2
    <3>. QED  BY <1>1, <1>2, <2>2, <3>1 DEF Open, Taken, Begun, Making
  <2>. QED  BY <2>1, <2>2
<1>12. SoundNow'
  BY <1>2, <1>5, <1>11 DEF SoundNow, Sound
<1>. QED  BY <1>7, <1>9, <1>10, <1>12

(* The chain leads on to the cluster reserved, which is open.              *)
LEMMA LinkClusterStep ==
  ASSUME Running, Faults = {}, LinkCluster
  PROVE  Running'
<1>. USE DEF Running
<1>1. /\ UNCHANGED <<data, buff, dir, call, rest, at, first, part, faults>>
      /\ st = "link" /\ WriteEntry(last, ret.cluster) /\ last' = ret.cluster
      /\ st' \in {"more", "end"}
  BY DEF LinkCluster
<1>2. /\ Taken /\ Begun /\ Claimable(ret.cluster) /\ ret.cluster # first
      /\ InUse(Logical, last) /\ Claimable(first) /\ Open = {ret.cluster} \cup {last}
  BY <1>1 DEF Held, Taken, Begun, Making, Open
<1>3. last \in Cluster /\ ret.cluster \in Cluster /\ ret.cluster \in Links
  <2>1. last \in Cluster /\ ret.cluster \in Cluster
    BY <1>2 DEF Claimable, Unclaimed, InUse
  <2>. QED  BY <2>1, BelowEOC
<1>4. /\ CacheInv' /\ pc' = "ready" /\ ret'.op = "write"
      /\ WordOf(Logical', last).lo = ret.cluster
      /\ \A k \in Cluster \ {last} : WordOf(Logical', k) = WordOf(Logical, k)
  BY <1>1, <1>3, Storing DEF Shape
<1>5. /\ Sound(Logical', data, Open \ {last})
      /\ \A k : InUse(Logical, k) => InUse(Logical', k)
      /\ \A k : Unclaimed(Logical, data, k) /\ k # ret.cluster => Unclaimed(Logical', data, k)
  BY <1>2, <1>3, <1>4, SoundStore DEF SoundNow, Claimable
<1>6. ~Taken' /\ Begun' /\ Open' = {ret.cluster}
  BY <1>1 DEF Taken, Begun, Making, Open
<1>7. Sound(Logical', data, Open')
  BY <1>2, <1>5, <1>6, SoundOpen
<1>8. Shape'
  BY <1>1, <1>4 DEF Shape
<1>9. Held'
  <2>1. InUse(Logical', dir.first) /\ InUse(Logical', dir.cur) /\ InUse(Logical', ret.cluster)
    BY <1>2, <1>5 DEF Held, Claimable, Unclaimed
  <2>2. Unclaimed(Logical', data, first)
    BY <1>2, <1>5 DEF Claimable
  <2>3. part \in Nat /\ part > 0 /\ (call.size > 0 => HasBytes(data, first))
    BY <1>1, <1>2 DEF Held, Making
  <2>. QED  BY <1>1, <1>4, <1>6, <2>1, <2>2, <2>3 DEF Held, Claimable
<1>10. Buffered'
  BY <1>1 DEF Buffered, Saving, Making
<1>. QED  BY <1>1, <1>7, <1>8, <1>9, <1>10 DEF SoundNow

(* The chain is ended, and the entry goes into the buffer.                 *)
LEMMA WriteSfnEntryStep ==
  ASSUME Running, Faults = {}, WriteSfnEntry
  PROVE  Running'
<1>. USE DEF Running
<1>1. /\ UNCHANGED <<data, call, rest, at, first, last, part, faults>>
      /\ st = "end" /\ st' = "flushDir" /\ WriteEntry(last, EOC)
      /\ dir' = [dir EXCEPT !.dirty = TRUE]
  BY DEF WriteSfnEntry
<1>2. PICK name : buff' = [buff EXCEPT ![at + Slots] = Short(name, Attr, first, call.size)]
  BY DEF WriteSfnEntry
<1>3. /\ Begun /\ InUse(Logical, last) /\ Claimable(first) /\ Open = {last}
      /\ last \in Cluster /\ first \in Cluster /\ (call.size > 0 => HasBytes(data, first))
  BY <1>1 DEF Held, Taken, Begun, Making, Open, Claimable, Unclaimed, InUse
<1>4. /\ CacheInv' /\ pc' = "ready" /\ ret'.op = "write"
      /\ WordOf(Logical', last).lo = EOC
      /\ \A k \in Cluster \ {last} : WordOf(Logical', k) = WordOf(Logical, k)
  BY <1>1, <1>3, Storing, BelowEOC DEF Shape
<1>5. /\ Sound(Logical', data, Open \ {last})
      /\ \A k : InUse(Logical, k) => InUse(Logical', k)
      /\ \A k : Unclaimed(Logical, data, k) /\ k # EOC => Unclaimed(Logical', data, k)
  BY <1>3, <1>4, SoundStore DEF SoundNow
<1>6. Open' = {}
  BY <1>1 DEF Taken, Begun, Making, Open
<1>7. dir' \in [first : Cluster, cur : Cluster, dirty : BOOLEAN]
      /\ dir'.first = dir.first /\ dir'.cur = dir.cur
  <2>1. dir \in [first : Cluster, cur : Cluster, dirty : BOOLEAN]
    BY DEF Shape
  <2>. QED  BY ONLY <1>1, <2>1
<1>8. IsBuff(buff') /\ \A i \in SlotNumbers :
        buff'[i] = buff[i] \/ (i = at + Slots /\ buff'[i] = Short(name, Attr, first, call.size))
  BY <1>2 DEF Shape, IsBuff
<1>9. Shape'
  BY <1>1, <1>4, <1>7, <1>8 DEF Shape
<1>10. Held'
  <2>1. InUse(Logical', dir.first) /\ InUse(Logical', dir.cur)
    BY <1>5 DEF Held
  <2>2. first # EOC
    BY <1>3, BelowEOC
  <2>3. Unclaimed(Logical', data, first)
    BY <1>3, <1>5, <2>2 DEF Claimable
  <2>. QED  BY <1>1, <1>3, <1>4, <1>7, <2>1, <2>3 DEF Held, Claimable, Taken, Begun, Making
<1>11. Buffered'
  <2>1. /\ at \in Int /\ at >= 0
        /\ at = 0 => data[dir.cur][1].kind # "bytes"
    BY <1>1 DEF Buffered, Saving, Making, Shape
  <2>2. Slots \in Int /\ Slots >= 1
    BY DEF Slots, Shape
  <2>3. at + Slots = 1 => at = 0
    BY ONLY <2>1, <2>2
  <2>4. ASSUME NEW i \in SlotNumbers
        PROVE  \/ buff[i] = data[dir.cur][i]
               \/ (i = 1 => data[dir.cur][1].kind # "bytes") /\ buff[i].kind = "long"
    BY <1>1 DEF Buffered, Saving, Making
  <2>5. ASSUME NEW i \in SlotNumbers
        PROVE  \/ buff'[i] = data[dir.cur][i]
               \/ /\ i = 1 => data[dir.cur][1].kind # "bytes"
                  /\ \/ buff'[i].kind = "long"
                     \/ i = at + Slots /\ buff'[i] = Short(name, Attr, first, call.size)
    BY <1>8, <2>1, <2>3, <2>4
  <2>6. Attr' = Attr /\ Slots' = Slots
    BY <1>1 DEF Attr, Slots
  <2>. QED  BY <1>1, <1>7, <2>1, <2>5, <2>6 DEF Buffered, Saving, Making
<1>. QED  BY <1>1, <1>3, <1>5, <1>6, <1>9, <1>10, <1>11 DEF SoundNow

(* The directory goes to the card: the new name heads a chain of its own.  *)
LEMMA FlushDirStep ==
  ASSUME Running, FlushDir
  PROVE  Running'
<1>. USE DEF Running
<1>1. /\ UNCHANGED <<vars, buff, call, rest, at, first, last, part, faults>>
      /\ st = "flushDir" /\ st' = "flushFat"
      /\ data' = FlushedDir /\ dir' = [dir EXCEPT !.dirty = FALSE]
  BY DEF FlushDir
<1>2. CacheInv' /\ Logical' = Logical /\ pc' = pc /\ ret' = ret
  BY <1>1, Resting DEF Shape
<1>3. Unclaimed(Logical, data, first) /\ (call.size > 0 => HasBytes(data, first))
  BY <1>1 DEF Held, Claimable
<1>4. dir' \in [first : Cluster, cur : Cluster, dirty : BOOLEAN]
      /\ dir'.first = dir.first /\ dir'.cur = dir.cur /\ ~dir'.dirty
  <2>1. dir \in [first : Cluster, cur : Cluster, dirty : BOOLEAN]
    BY DEF Shape
  <2>. QED  BY ONLY <1>1, <2>1
<1>5. IsData(data) /\ NamesSound(Logical, data) /\ IsBuff(buff) /\ dir.cur \in Cluster
  BY DEF Shape, SoundNow, Sound
<1>. DEFINE Published(d) == call.op = "mkdir" => \A c \in Cluster, i \in SlotNumbers :
              IsName(d, c, i) /\ d[c][i].cluster = first => d[c][i].attr # "arch"
<1>6. IsData(data') /\ NamesSound(Logical, data') /\ Published(data')
  <2>1. CASE ~dir.dirty
    <3>1. data' = data
      BY <1>1, <2>1 DEF FlushedDir
    <3>. QED  BY <1>3, <1>5, <3>1 DEF Unclaimed, Unnamed
  <2>2. CASE dir.dirty
    <3>. DEFINE n == at + Slots
    <3>1. data' = Put(data, dir.cur, buff)
      BY <1>1, <2>2 DEF FlushedDir, Put
    <3>2. ASSUME NEW i \in SlotNumbers
          PROVE  \/ buff[i] = data[dir.cur][i]
                 \/ /\ i = 1 => data[dir.cur][1].kind # "bytes"
                    /\ \/ buff[i].kind = "long"
                       \/ i = n /\ \E name : buff[i] = Short(name, Attr, first, call.size)
      BY <1>1 DEF Buffered, Saving
    <3>. HIDE DEF n
    <3>3. ASSUME NEW i \in SlotNumbers
          PROVE  \/ buff[i] = data[dir.cur][i] \/ buff[i].kind # "short"
                 \/ /\ i = n /\ buff[i].cluster = first /\ buff[i].attr = Attr
                    /\ buff[i].size = call.size
      <4>1. ASSUME NEW name, buff[i] = Short(name, Attr, first, call.size)
            PROVE  buff[i].cluster = first /\ buff[i].attr = Attr /\ buff[i].size = call.size
        BY <4>1 DEF Short
      <4>2. buff[i].kind = "long" => buff[i].kind # "short"
        OBVIOUS
      <4>. QED  BY ONLY <3>2, <4>1, <4>2
    <3>4. data[dir.cur][1].kind = "bytes" => buff[1] = data[dir.cur][1]
      <4>1. 1 \in SlotNumbers
        BY VolumeAssumption DEF SlotNumbers
      <4>. QED  BY <3>2, <4>1
    <3>5. OneName(data, dir.cur, buff, first, n)
      BY <1>3, <3>3, <3>4 DEF OneName
    <3>6. /\ IsData(data') /\ data'[dir.cur] = buff /\ NamesSound(Logical, data')
          /\ \A c \in Cluster, i \in SlotNumbers :
               IsName(data', c, i) /\ data'[c][i].cluster = first => c = dir.cur /\ i = n
      BY ONLY <1>3, <1>5, <3>1, <3>5, NamesPublish
    <3>7. ASSUME call.op = "mkdir", NEW c \in Cluster, NEW i \in SlotNumbers,
                 IsName(data', c, i), data'[c][i].cluster = first
          PROVE  data'[c][i].attr # "arch"
      <4>1. c = dir.cur /\ data'[c][i] = buff[i] /\ buff[i].kind = "short"
        BY <3>6, <3>7 DEF IsName
      <4>2. buff[i] # data[dir.cur][i]
        BY <1>3, <1>5, <3>7, <4>1 DEF Unclaimed, Unnamed, IsName
      <4>3. buff[i].attr = Attr
        BY <3>3, <4>1, <4>2
      <4>. QED  BY <3>7, <4>1, <4>3 DEF Attr
    <3>. QED  BY <3>6, <3>7
  <2>. QED  BY <2>1, <2>2
<1>7. Shape'
  BY <1>1, <1>2, <1>4, <1>6 DEF Shape
<1>8. Held'
  <2>1. InUse(Logical, dir.first) /\ InUse(Logical, dir.cur) /\ InUse(Logical, first)
    BY <1>3 DEF Held, Unclaimed
  <2>2. pc # "scan"
    BY <1>1 DEF Held
  <2>. QED  BY <1>1, <1>2, <1>4, <1>6, <2>1, <2>2 DEF Held, Taken, Begun, Making
<1>9. Buffered'
  BY <1>1, <1>4 DEF Buffered, Saving, Making
<1>10. Open' = Open
  BY <1>1, <1>2 DEF Open, Taken, Begun, Making
<1>. QED  BY <1>2, <1>6, <1>7, <1>8, <1>9, <1>10 DEF SoundNow, Sound

(* The flush of the FAT changes nothing for the caller.                    *)
LEMMA FlushTheFatStep ==
  ASSUME Running, Faults = {}, FlushTheFat
  PROVE  Running'
<1>. USE DEF Running
<1>1. /\ UNCHANGED <<data, buff, dir, call, rest, at, first, last, part, faults>>
      /\ st = "flushFat" /\ FlushFat
      /\ st' \in {"dots", "idle"} /\ (st' = "dots" => call.op = "mkdir")
  BY DEF FlushTheFat
<1>2. CacheInv' /\ Logical' = Logical /\ pc = "ready" /\ pc' = "ready"
  BY <1>1, Flushing DEF Shape
<1>3. Shape'
  BY <1>1, <1>2 DEF Shape
<1>4. Held'
  BY <1>1, <1>2 DEF Held, Taken, Begun, Making
<1>5. Buffered'
  BY <1>1 DEF Buffered, Saving, Making
<1>6. Open' = Open
  BY <1>1, <1>2 DEF Open, Taken, Begun, Making
<1>. QED  BY <1>1, <1>2, <1>3, <1>4, <1>5, <1>6 DEF SoundNow

(* The dots go to a cluster in use, of no file, and name clusters in use.  *)
LEMMA WriteDotsStep ==
  ASSUME Running, WriteDots
  PROVE  Running'
<1>. USE DEF Running
<1>1. /\ UNCHANGED <<vars, dir, call, rest, at, first, last, part, faults>>
      /\ st = "dots" /\ st' = "idle"
      /\ buff' = [data[first] EXCEPT ![1] = Short(DotDot, "dir", dir.first, 0),
                                     ![2] = Short(Dot, "dir", first, 0)]
      /\ data' = [data EXCEPT ![first] = buff']
  BY DEF WriteDots, Dotted
<1>2. CacheInv' /\ Logical' = Logical /\ pc' = pc /\ ret' = ret
  BY <1>1, Resting DEF Shape
<1>3. /\ InUse(Logical, first) /\ first \in Cluster /\ InUse(Logical, dir.first)
      /\ \A c \in Cluster, i \in SlotNumbers :
           IsName(data, c, i) /\ data[c][i].cluster = first => data[c][i].attr # "arch"
  BY <1>1 DEF Held, InUse
<1>4. IsData(data) /\ NamesSound(Logical, data)
  BY DEF Shape, SoundNow, Sound
<1>5. IsData(data') /\ NamesSound(Logical, data')
  <2>1. data' = Put(data, first, buff')
    BY <1>1 DEF Put
  <2>. QED  BY ONLY <1>1, <1>3, <1>4, <2>1, NamesDots
<1>6. IsBuff(buff')
  BY <1>1, <1>3, <1>4 DEF IsData, IsBuff
<1>7. Shape'
  BY <1>1, <1>2, <1>5, <1>6 DEF Shape
<1>8. Held'
  BY <1>1, <1>2 DEF Held, Taken, Begun, Making
<1>9. Buffered'
  BY <1>1 DEF Buffered, Saving, Making
<1>10. Open' = Open
  BY <1>1, <1>2 DEF Open, Taken, Begun, Making
<1>. QED  BY <1>2, <1>5, <1>7, <1>8, <1>9, <1>10 DEF SoundNow, Sound

-----------------------------------------------------------------------------
(* Reads that fail and power losses. *)
Fault == LoadFails \/ Crash

(* Until one of them the volume is sound but for the calls' open chains. *)
SoundInv == faults \in Nat /\ (faults = 0 => Running)

(* Sound cards are sound at the start, with nothing open.                  *)
LEMMA VolStart ==
  ASSUME CardsSound, VolInit
  PROVE  Running /\ disk = Logical /\ Open = {} /\ faults = 0
<1>1. PICK card \in InitCards : disk = card.disk /\ data = card.data
  BY DEF VolInit
<1>2. /\ fatBuff = [k \in Blocks |-> [o \in Offsets |-> Zero]]
      /\ fatBuffNum = -1 /\ fatDirty = FALSE
      /\ pc = "ready" /\ sector = 0 /\ sectourCount = 0 /\ ret = [op |-> "none"]
  BY DEF VolInit
<1>3. /\ buff = [n \in SlotNumbers |-> End] /\ dir = NoDir
      /\ st = "idle" /\ call = NoCall /\ rest = <<>>
      /\ at = 0 /\ first = 0 /\ last = 0 /\ part = 0 /\ faults = 0
  BY DEF VolInit
<1>4. disk \in Table /\ IsData(data)
  BY <1>1, VolumeAssumption DEF IsData
<1>5. CacheInv
  <2>1. Zero \in Words
    BY WordAssumption DEF Words, Zero
  <2>2. fatBuff \in Window
    BY <1>2, <2>1 DEF Window
  <2>3. FatSectors - 1 >= 0 /\ 0 \in -1 .. FatSectors - 1 /\ 0 \in 0 .. CountRange - 1
    BY GeometryAssumption
  <2>4. TypeOK
    <3>1. disk \in Table /\ fatBuff \in Window /\ fatDirty \in BOOLEAN
      BY <1>2, <1>4, <2>2, Zenon
    <3>4. fatBuffNum \in Int
      BY <1>2
    <3>2. sector \in -1 .. FatSectors - 1 /\ sectourCount \in 0 .. CountRange - 1
      BY ONLY <1>2, <2>3
    <3>3. pc \in {"ready", "scan"}
      BY <1>2
    <3>. QED  BY <3>1, <3>2, <3>3, <3>4 DEF TypeOK
  <2>5. WindowInRange
    BY <1>2 DEF WindowInRange
  <2>6. CleanWindowMatches
    BY <1>2 DEF CleanWindowMatches
  <2>. QED  BY <2>4, <2>5, <2>6 DEF CacheInv
<1>6. Logical = disk
  BY <1>2, <1>4 DEF Logical, InWindow, Table
<1>7. Open = {}
  BY <1>3 DEF Open, Taken, Begun, Making
<1>8. Sound(disk, data, {})
  BY <1>1 DEF CardsSound
<1>9. 0 \in Cluster /\ InUse(Logical, 0)
  BY <1>6, <1>8, VolumeAssumption DEF Sound, TableSound
<1>10. Shape
  BY <1>3, <1>4, <1>5, <1>9 DEF Shape, NoDir, NoCall, IsBuff
<1>11. Held
  BY <1>2, <1>3, <1>9 DEF Held, NoDir, Taken, Begun, Making
<1>12. Buffered
  BY <1>3 DEF Buffered, Saving, Making, NoDir
<1>. QED  BY <1>3, <1>6, <1>7, <1>8, <1>10, <1>11, <1>12 DEF Running, SoundNow

(* Nothing moves in a stuttering step.                                     *)
LEMMA VolRest ==
  ASSUME Running, UNCHANGED allVars
  PROVE  Running'
<1>. USE DEF Running
<1>1. UNCHANGED <<vars, data, buff, dir, st, call, rest, at, first, last, part, faults>>
  BY DEF allVars, volVars
<1>2. CacheInv' /\ Logical' = Logical /\ pc' = pc /\ ret' = ret
  BY <1>1, Resting DEF Shape
<1>3. Shape'
  BY <1>1, <1>2 DEF Shape
<1>4. Held'
  BY <1>1, <1>2 DEF Held, Taken, Begun, Making, Claimable
<1>5. Attr' = Attr /\ Slots' = Slots
  BY <1>1 DEF Attr, Slots
<1>6. Buffered'
  BY <1>1, <1>5 DEF Buffered, Saving, Making
<1>7. Open' = Open
  BY <1>1, <1>2 DEF Open, Taken, Begun, Making
<1>. QED  BY <1>1, <1>2, <1>3, <1>4, <1>6, <1>7 DEF SoundNow

(* Every step in which nothing fails.                                      *)
LEMMA VolStep ==
  ASSUME Running, Faults = {}, ScanAligned, [VolNext]_allVars, ~Fault
  PROVE  Running'
<1>1. CASE Calls
  BY <1>1, CallStep DEF Calls
<1>2. CASE Search
  BY <1>2, DescendStep, ReadStep, QuietStep DEF Search
<1>3. CASE Create
  BY <1>3, QuietStep, UndefinedStep, AllocateDirEntriesStep, ReadStep, BeginStep,
     GrowLinkStep, GrowEndStep, WriteNamesStep, WriteDataStep, LinkClusterStep,
     WriteSfnEntryStep, FlushDirStep, FlushTheFatStep, WriteDotsStep DEF Create
<1>4. CASE Read
  BY <1>4, QuietStep, ReadStep DEF Read
<1>5. CASE Allocating
  BY <1>5, ScanStep
<1>6. CASE UNCHANGED allVars
  BY <1>6, VolRest
<1>. QED  BY <1>1, <1>2, <1>3, <1>4, <1>5, <1>6 DEF VolNext, Steps, Fault

(* They are counted, and nothing else is. *)
LEMMA FaultCounts ==
  ASSUME [VolNext]_allVars
  PROVE  /\ Fault => faults' = faults + 1
         /\ ~Fault => faults' = faults
<1>1. ASSUME Fault
      PROVE  faults' = faults + 1
  BY <1>1 DEF Fault, Crash, LoadFails, CallFails, DescendFails, SearchFails, NextDirFails,
              GrowEndFails, ReadClusterFails, DotsFail, NextUnread, Failing, Fails
<1>2. ASSUME ~Fault
      PROVE  faults' = faults
  <2>1. CASE Calls
    BY <2>1 DEF Calls, MkFile, Mkdir, ReadFile, Stat, Make, Call
  <2>2. CASE Search \/ Read
    BY <2>2 DEF Search, Descend, SearchNext, SearchOver, Read, NotFound, StatEntry, BeginRead,
                ReadOver, ReadCluster
  <2>3. CASE Create
    BY <2>3 DEF Create, RefuseName, WriteFile, AllocateDirEntries, NextDirCluster, DirTooLong,
                Grow, GrowLink, GrowEnd, WriteNames, OutOfBuffer, NoCluster, WriteData,
                LinkCluster, AllocateMore, WriteSfnEntry, FlushDir, FlushTheFat, WriteDots
  <2>4. CASE Allocating \/ UNCHANGED allVars
    BY <2>4 DEF Allocating, allVars, volVars
  <2>. QED  BY <1>2, <2>1, <2>2, <2>3, <2>4 DEF VolNext, Steps, Fault
<1>. QED  BY <1>1, <1>2

(* AllocateCluster counts clusters from the window it scans, so that the   *)
(* cluster it returns is the one it has reserved.                          *)
Aligned == faults = 0 => ScanAligned

(* Every step.                                                             *)
LEMMA SoundStep ==
  ASSUME SoundInv, Aligned, Faults = {}, [VolNext]_allVars
  PROVE  SoundInv'
<1>1. faults \in Nat /\ (faults = 0 => Running /\ ScanAligned)
  BY DEF SoundInv, Aligned
<1>2. CASE Fault
  <2>1. faults' = faults + 1
    BY <1>1, <1>2, FaultCounts
  <2>2. faults' \in Nat /\ faults' # 0
    BY ONLY <1>1, <2>1
  <2>. QED  BY <2>2 DEF SoundInv
<1>3. CASE ~Fault
  <2>1. faults' = faults
    BY <1>1, <1>3, FaultCounts
  <2>2. faults = 0 => Running'
    BY <1>1, <1>3, VolStep
  <2>. QED  BY <1>1, <2>1, <2>2 DEF SoundInv
<1>. QED  BY <1>2, <1>3

(* Of every behaviour in which allocations are counted from their window.  *)
LEMMA SoundInvariant == Faults = {} /\ CardsSound => (VolSpec /\ []Aligned => []SoundInv)
<1>. SUFFICES ASSUME Faults = {}, CardsSound
              PROVE  VolSpec /\ []Aligned => []SoundInv
  OBVIOUS
<1>1. VolInit => SoundInv
  BY VolStart DEF SoundInv
<1>2. SoundInv /\ Aligned /\ [VolNext]_allVars => SoundInv'
  BY SoundStep
<1>. QED  BY <1>1, <1>2, PTL DEF VolSpec

(* Until a power loss the volume that the program sees, the window over    *)
(* the card, stays sound: in MkFile and Mkdir no cluster is given away     *)
(* twice, no chain is joined to another, and no chain stops short but the  *)
(* one being made (fat32.c:420-480). The hypothesis is about               *)
(* AllocateCluster: fat32.c:193 counts the cluster it returns from sector, *)
(* and Aligned says that sector is the window it reserved the entry in.    *)
THEOREM VolumeIsSound ==
  Faults = {} /\ CardsSound
    => (VolSpec /\ []Aligned => [](faults = 0 => Sound(Logical, data, Open)))
<1>1. SoundInv => (faults = 0 => Sound(Logical, data, Open))
  BY DEF SoundInv, Running, SoundNow
<1>. QED  BY <1>1, SoundInvariant, PTL

(* DataBeforeName for every card of whole files: fat32.c:470 writes an     *)
(* entry only after the data it names, for every path, size and geometry.  *)
THEOREM DataIsFirst ==
  Faults = {} /\ CardsSound => (VolSpec /\ []Aligned => []DataBeforeName)
<1>1. SoundInv => DataBeforeName
  <2>1. CASE faults = 0
    BY <2>1, SoundNames DEF SoundInv, Running, SoundNow, Sound
  <2>2. CASE faults # 0
    BY <2>2 DEF DataBeforeName
  <2>. QED  BY <2>1, <2>2
<1>. QED  BY <1>1, SoundInvariant, PTL

-----------------------------------------------------------------------------
(***************************************************************************)
(* 5. Chains.                                                              *)
(***************************************************************************)

(* A flush, or a load that needs one, leaves on the card what callers see; *)
(* nothing else writes there.                                              *)
LEMMA ReadWrites ==
  ASSUME CacheInv, Faults = {}, NEW s \in Sectors, NEW r \in ReadFatSector(s)
  PROVE  r.disk \in {disk, Logical}
<1>1. ~(s > FatSectors)
  BY GeometryAssumption DEF Sectors
<1>2. CASE InWindow(s)
  BY <1>1, <1>2 DEF ReadFatSector, Kept
<1>3. CASE ~InWindow(s)
  <2>1. PICK d \in Flushed, n \in Lengths("read") : r = Loaded(d, s, n)
    BY <1>1, <1>3 DEF ReadFatSector
  <2>2. d = Logical
    BY FlushedIsLogical DEF CacheInv
  <2>. QED  BY <2>1, <2>2 DEF Loaded
<1>. QED  BY <1>2, <1>3

LEMMA Writes ==
  ASSUME CacheInv, Faults = {}, [Next]_vars
  PROVE  disk' \in {disk, Logical}
<1>1. ASSUME NEW c \in Clusters, ReadEntry(c) \/ \E v \in Links : WriteEntry(c, v)
      PROVE  disk' \in {disk, Logical}
  <2>1. SectorOf(c) \in Sectors
    BY <1>1, ClusterAssumption
  <2>2. PICK r \in ReadFatSector(SectorOf(c)) : disk' = r.disk
    BY <1>1 DEF ReadEntry, WriteEntry, Become
  <2>. QED  BY <2>1, <2>2, ReadWrites
<1>2. CASE FlushFat
  BY <1>2, FlushMaps
<1>3. 0 \in Sectors
  BY GeometryAssumption DEF Sectors
<1>4. CASE AllocateCluster
  <2>1. PICK r \in IF fatBuffNum = -1 THEN ReadFatSector(0) ELSE {Kept(TRUE)} : disk' = r.disk
    BY <1>4 DEF AllocateCluster, Become
  <2>2. CASE fatBuffNum = -1
    BY <1>3, <2>1, <2>2, ReadWrites
  <2>3. CASE fatBuffNum # -1
    BY <2>1, <2>3 DEF Kept
  <2>. QED  BY <2>2, <2>3
<1>5. CASE ScanFound \/ ScanFull \/ UNCHANGED vars
  BY <1>5 DEF ScanFound, ScanFull, fatVars, vars
<1>6. CASE ScanNext
  <2>1. sector' \in Sectors
    BY <1>3, <1>6, GeometryAssumption DEF ScanNext, CacheInv, TypeOK, Sectors
  <2>2. PICK r \in ReadFatSector(sector') : disk' = r.disk
    BY <1>6 DEF ScanNext, Become
  <2>. QED  BY <2>1, <2>2, ReadWrites
<1>. QED  BY <1>1, <1>2, <1>4, <1>5, <1>6 DEF Next, Scan

(* A step of the volume is one of the FAT layer, or none there. *)
LEMMA TableStep ==
  ASSUME Running, [VolNext]_allVars, ~Fault
  PROVE  [Next]_vars
<1>. USE DEF Running
<1>1. /\ dir.cur \in Clusters /\ EOC \in Links
      /\ \A c \in Cluster : c \in Clusters /\ c \in Links
  BY BelowEOC, VolumeAssumption DEF Shape
<1>2. CASE Calls
  BY <1>2 DEF Calls, MkFile, Mkdir, ReadFile, Stat, Make, Call
<1>3. CASE SearchNext \/ NextDirCluster \/ ReadCluster
  BY <1>1, <1>3 DEF SearchNext, NextDirCluster, ReadCluster, Next
<1>4. CASE Descend \/ SearchOver
  BY <1>4 DEF Descend, SearchOver
<1>5. CASE RefuseName \/ WriteFile \/ AllocateDirEntries \/ DirTooLong \/ OutOfBuffer \/ NoCluster
  BY <1>5 DEF RefuseName, WriteFile, AllocateDirEntries, DirTooLong, OutOfBuffer, NoCluster
<1>6. CASE Grow \/ WriteNames \/ AllocateMore
  BY <1>6 DEF Grow, WriteNames, AllocateMore, Next
<1>7. CASE GrowLink
  <2>1. ret.op = "alloc" => ret.cluster \in Cluster
    BY <1>7 DEF GrowLink, Held, Taken, Claimable, Unclaimed, InUse
  <2>. QED  BY <1>1, <1>7, <2>1 DEF GrowLink, Next
<1>8. CASE GrowEnd
  <2>1. first \in Cluster
    BY <1>8 DEF GrowEnd, Held, InUse
  <2>. QED  BY <1>1, <1>8, <2>1 DEF GrowEnd, Next
<1>9. CASE LinkCluster
  <2>1. last \in Cluster /\ ret.cluster \in Cluster
    BY <1>9 DEF LinkCluster, Held, Taken, Begun, Making, Claimable, Unclaimed, InUse
  <2>. QED  BY <1>1, <1>9, <2>1 DEF LinkCluster, Next
<1>10. CASE WriteSfnEntry
  <2>1. last \in Cluster
    BY <1>10 DEF WriteSfnEntry, Held, Begun, Making, InUse
  <2>. QED  BY <1>1, <1>10, <2>1 DEF WriteSfnEntry, Next
<1>11. CASE FlushDir \/ WriteData \/ WriteDots
  BY <1>11 DEF FlushDir, WriteData, WriteDots
<1>12. CASE FlushTheFat
  BY <1>12 DEF FlushTheFat, Next
<1>13. CASE NotFound \/ StatEntry \/ BeginRead \/ ReadOver
  BY <1>13 DEF NotFound, StatEntry, BeginRead, ReadOver
<1>14. CASE Allocating
  BY <1>14 DEF Allocating, Next
<1>15. CASE UNCHANGED allVars
  BY <1>15 DEF allVars
<1>. QED  BY <1>2, <1>3, <1>4, <1>5, <1>6, <1>7, <1>8, <1>9, <1>10, <1>11, <1>12, <1>13,
             <1>14, <1>15 DEF VolNext, Steps, Search, Create, Read, Fault

-----------------------------------------------------------------------------
(* Every chain that has a name ends. *)
NamedEnd == \A e \in WithChain : EndIn(Logical, At(e).cluster) >= EOC

(* Where no store is waiting in the window. *)
Settled == {"idle", "search", "resolved", "read", "dots"}

(* Between the stores of a call: the card lags behind the window, what is  *)
(* to be linked ends nowhere yet, and the chain begun leads to its last    *)
(* cluster.                                                                *)
LinkInv ==
  /\ Extends(disk, Logical) /\ TableSound(disk, Cluster)
  /\ st \in Settled => Logical = disk
  /\ st \in {"grow", "growLink"} => WordOf(Logical, dir.cur).lo >= EOC
  /\ Taken => WordOf(Logical, ret.cluster).lo = 1
  /\ st = "growEnd" => /\ WordOf(Logical, first).lo = 1
                       /\ WordOf(Logical, dir.cur).lo = first /\ first \in Cluster \ {0, 1}
  /\ Begun => WordOf(Logical, last).lo = 1 /\ Reach(Logical, first, last)
  /\ st = "undefined" => NamedEnd

LEMMA ExtendsSelf ==
  ASSUME NEW f PROVE Extends(f, f)
BY DEF Extends

LEMMA ExtendsOn ==
  ASSUME NEW f, NEW g, NEW h, Extends(f, g), Extends(g, h)
  PROVE  Extends(f, h)
BY DEF Extends

(* What the card holds then. *)
LEMMA CardLags ==
  ASSUME Running, Extends(disk, Logical), TableSound(disk, Cluster), Extends(Logical, Logical'),
         disk' \in {disk, Logical}
  PROVE  Extends(disk', Logical') /\ TableSound(disk', Cluster)
<1>1. TableSound(Logical, Cluster)
  BY DEF Running, SoundNow, Sound, TableSound
<1>. QED  BY <1>1, ExtendsOn

(* A store over an entry that leads nowhere. *)
LEMMA StoreExtends ==
  ASSUME NEW f, NEW g, NEW c \in Cluster, WordOf(f, c).lo \notin Cluster \ {0, 1},
         WordOf(g, c) # Zero, \A k \in Cluster \ {c} : WordOf(g, k) = WordOf(f, k)
  PROVE  Extends(f, g)
BY DEF Extends, InUse

(* Every chain with a name ends, but for a directory about to be ended.    *)
LEMMA NamesEnd ==
  ASSUME Running, LinkInv, st # "growEnd"
  PROVE  NamedEnd
<1>. SUFFICES ASSUME st # "undefined", NEW e \in WithChain
              PROVE  EndIn(Logical, At(e).cluster) >= EOC
  BY DEF LinkInv, NamedEnd
<1>. DEFINE y == At(e).cluster
            ch == ChainIn(Logical, y)
            x == ch[Len(ch)]
<1>1. TableSound(Logical, Open) /\ NamesSound(Logical, data)
  BY DEF Running, SoundNow, Sound
<1>2. /\ y \in Cluster /\ InUse(Logical, y) /\ Start(Logical, y)
      /\ \E c \in Cluster, i \in SlotNumbers : IsName(data, c, i) /\ data[c][i].cluster = y
  <2>1. e \in CardEntries /\ y # 0
    BY DEF WithChain
  <2>2. /\ e[1] \in Cluster /\ e[2] \in SlotNumbers /\ At(e) = data[e[1]][e[2]]
        /\ IsName(data, e[1], e[2]) /\ At(e).name \notin {Dot, DotDot}
        /\ y \in Cluster
    BY <1>1, <2>1, CardEntriesArePlaces
  <2>3. InUse(Logical, y) /\ ~LeadsTo(Logical, y)
    BY <1>1, <2>1, <2>2 DEF NamesSound, IsHead
  <2>. QED  BY <2>2, <2>3 DEF Start
<1>3. PathIn(Logical, ch, y)
  BY <1>2, ChainIsPath
<1>. HIDE DEF ch, y
<1>4. Reach(Logical, y, x) /\ Len(ch) \in 1 .. Len(ch)
  <2>1. Reach(Logical, y, x)
    BY <1>3 DEF Reach
  <2>. QED  BY <1>3, <2>1 DEF PathIn
<1>. HIDE DEF x
<1>5. ASSUME Unclaimed(Logical, data, x)
      PROVE  FALSE
  <2>1. Start(Logical, x) /\ x # y
    BY <1>2, <1>5 DEF Unclaimed, Unnamed, Start
  <2>. QED  BY <1>3, <1>4, <2>1, OnlyStart DEF x
<1>6. ASSUME Begun, x = last
      PROVE  FALSE
  <2>1. Unclaimed(Logical, data, first) /\ Reach(Logical, first, x)
    BY <1>6 DEF Running, Held, Claimable, LinkInv
  <2>2. Start(Logical, first) /\ first # y /\ first \in Cluster
    BY <1>2, <2>1 DEF Unclaimed, Unnamed, Start, InUse
  <2>. QED  BY <1>1, <1>2, <1>3, <1>4, <2>1, <2>2, ReachApart DEF x
<1>7. x \notin Open
  BY <1>5, <1>6 DEF Open, Running, Held, Claimable
<1>8. x \in Open \/ EndIn(Logical, y) >= EOC
  BY <1>1, <1>2, ChainEnds DEF x, ch
<1>. QED  BY <1>7, <1>8 DEF y

(* Steps that store nothing. *)
LEMMA LinkKept ==
  ASSUME Running, LinkInv, Logical' = Logical, disk' \in {disk, Logical},
         st' \notin {"growEnd", "undefined"},
         st' \in Settled => st \in Settled \/ disk' = Logical,
         st' \in {"grow", "growLink"} => WordOf(Logical, dir'.cur).lo >= EOC,
         Taken' => WordOf(Logical, ret'.cluster).lo = 1,
         Begun' => WordOf(Logical, last').lo = 1 /\ Reach(Logical, first', last')
  PROVE  LinkInv'
<1>1. Extends(disk', Logical') /\ TableSound(disk', Cluster)
  BY ExtendsSelf, CardLags DEF LinkInv
<1>2. st' \in Settled => Logical' = disk'
  BY DEF LinkInv
<1>. QED  BY <1>1, <1>2 DEF LinkInv

LEMMA LinkQuiet ==
  ASSUME Running, LinkInv,
         \/ RefuseName \/ WriteFile \/ SearchOver \/ NotFound \/ StatEntry \/ BeginRead
         \/ ReadOver \/ DirTooLong \/ AllocateDirEntries \/ FlushDir \/ WriteDots \/ Descend
         \/ Calls
  PROVE  LinkInv'
<1>1. /\ UNCHANGED vars
      /\ st' \notin {"grow", "growLink", "growEnd", "undefined"}
      /\ st' \notin {"data", "more", "link", "end"}
      /\ st' \in Settled => st \in Settled
  <2>1. CASE RefuseName \/ WriteFile \/ SearchOver \/ NotFound \/ StatEntry \/ BeginRead
    BY <2>1 DEF RefuseName, WriteFile, SearchOver, NotFound, StatEntry, BeginRead, Settled
  <2>2. CASE ReadOver \/ DirTooLong \/ AllocateDirEntries \/ FlushDir \/ WriteDots \/ Descend
    BY <2>2 DEF ReadOver, DirTooLong, AllocateDirEntries, FlushDir, WriteDots, Descend, Settled
  <2>3. CASE Calls
    BY <2>3 DEF Calls, MkFile, Mkdir, ReadFile, Stat, Make, Call, Settled
  <2>. QED  BY <2>1, <2>2, <2>3
<1>2. Logical' = Logical /\ disk' = disk
  BY <1>1, Resting DEF Running, Shape, vars
<1>3. ~Begun' /\ ~Taken'
  BY <1>1 DEF Begun, Making, Taken
<1>. QED  BY <1>1, <1>2, <1>3, LinkKept

LEMMA LinkRead ==
  ASSUME Running, LinkInv, Faults = {}, disk' \in {disk, Logical},
         SearchNext \/ NextDirCluster \/ ReadCluster
  PROVE  LinkInv'
<1>1. /\ ReadEntry(dir.cur)
      /\ st \in {"search", "slots", "read"}
      /\ st' \in {"search", "slots", "read", "resolved", "grow", "name", "idle"}
      /\ st' \in Settled => st \in Settled
      /\ st' = "grow" => dir' = [dir EXCEPT !.dirty = FALSE] /\ ~(ret'.val < EOC)
  BY DEF SearchNext, NextDirCluster, ReadCluster, Settled
<1>2. dir.cur \in Cluster /\ dir \in [first : Cluster, cur : Cluster, dirty : BOOLEAN]
  BY DEF Running, Shape
<1>3. /\ Logical' = Logical /\ pc' = "ready" /\ ret'.op = "read"
      /\ ret'.val = WordOf(Logical, dir.cur).lo
  BY <1>1, <1>2, Reading DEF Running, Shape
<1>4. st' = "grow" => WordOf(Logical, dir'.cur).lo >= EOC
  <2>. SUFFICES ASSUME st' = "grow" PROVE WordOf(Logical, dir'.cur).lo >= EOC
    OBVIOUS
  <2>1. dir'.cur = dir.cur
    BY <1>1, <1>2
  <2>2. Logical \in Table
    BY LogicalType DEF Running, Shape, CacheInv
  <2>3. ret'.val \in Nat /\ EOC \in Nat
    BY <1>2, <1>3, <2>2, WordType, BelowEOC
  <2>4. ~(ret'.val < EOC)
    BY <1>1
  <2>5. ret'.val >= EOC
    BY ONLY <2>3, <2>4
  <2>. QED  BY <1>3, <2>1, <2>5
<1>5. ~Begun' /\ ~Taken'
  BY <1>1 DEF Begun, Making, Taken
<1>. QED  BY <1>1, <1>3, <1>4, <1>5, LinkKept

LEMMA LinkBegin ==
  ASSUME Running, LinkInv, Faults = {}, disk' \in {disk, Logical},
         Grow \/ AllocateMore \/ WriteNames
  PROVE  LinkInv'
<1>1. /\ AllocateCluster /\ UNCHANGED <<first, last>>
      /\ \/ st = "grow" /\ st' = "growLink" /\ dir' = dir
         \/ st = "more" /\ st' = "data" /\ part' = part
         \/ st = "name" /\ st' = "data" /\ part' = 0
  BY DEF Grow, AllocateMore, WriteNames
<1>2. Logical' = Logical /\ pc' = "scan"
  BY <1>1, Beginning DEF Running, Shape
<1>3. ~Taken' /\ (Begun' => Begun) /\ st' \notin Settled
  BY <1>1, <1>2 DEF Begun, Making, Taken, Settled
<1>4. st' \in {"grow", "growLink"} => WordOf(Logical, dir'.cur).lo >= EOC
  BY <1>1 DEF LinkInv
<1>. QED  BY <1>1, <1>2, <1>3, <1>4, LinkKept DEF LinkInv

LEMMA NamedAsBefore ==
  ASSUME Logical' = Logical, disk' = disk, data' = data
  PROVE  NamedEnd' <=> NamedEnd
<1>1. ASSUME NEW d PROVE EntriesIn(d)' = EntriesIn(d)
  BY DEF EntriesIn, Members
<1>2. ASSUME NEW e PROVE At(e)' = At(e)
  BY DEF At
<1>3. CardEntries' = CardEntries
  <2>1. Dirs' = Dirs
    BY <1>1, <1>2 DEF Dirs, SubDirs
  <2>. QED  BY <1>1, <2>1 DEF CardEntries
<1>4. WithChain' = WithChain
  BY <1>2, <1>3 DEF WithChain
<1>. QED  BY <1>2, <1>4 DEF NamedEnd

LEMMA LinkUndefined ==
  ASSUME Running, LinkInv, OutOfBuffer \/ NoCluster
  PROVE  LinkInv'
<1>1. /\ UNCHANGED <<vars, data>> /\ st' = "undefined" /\ st \in {"name", "data"}
  BY DEF OutOfBuffer, NoCluster
<1>2. Logical' = Logical /\ disk' = disk
  BY <1>1, Resting DEF Running, Shape, vars
<1>3. NamedEnd'
  <2>1. NamedEnd
    BY <1>1, NamesEnd
  <2>. QED  BY <1>1, <1>2, <2>1, NamedAsBefore
<1>4. ~Begun' /\ ~Taken' /\ st' \notin Settled
  BY <1>1 DEF Begun, Making, Taken, Settled
<1>. QED  BY <1>1, <1>2, <1>3, <1>4 DEF LinkInv

LEMMA LinkScan ==
  ASSUME Running, LinkInv, Faults = {}, ScanAligned, disk' \in {disk, Logical}, Allocating
  PROVE  LinkInv'
<1>1. /\ UNCHANGED <<data, dir, st, first, last, part>>
      /\ ScanFound \/ ScanNext \/ ScanFull
  BY DEF Allocating, Scan, volVars
<1>2. pc = "scan" /\ st \in {"growLink", "data"}
  BY <1>1 DEF ScanFound, ScanNext, ScanFull, Running, Held
<1>3. st' \notin Settled /\ (Begun' <=> Begun)
  BY <1>1, <1>2 DEF Settled, Begun, Making
<1>4. CASE ScanNext \/ ScanFull
  <2>1. Logical' = Logical /\ (pc' = "scan" \/ ret'.op = "full")
    <3>1. CASE ScanNext
      BY <3>1, Moving DEF Running, Shape
    <3>2. CASE ScanFull
      BY <3>2, GivingUp DEF Running, Shape
    <3>. QED  BY <1>4, <3>1, <3>2
  <2>2. ~Taken'
    BY <2>1 DEF Taken
  <2>. QED  BY <1>1, <1>2, <1>3, <2>1, <2>2, LinkKept DEF LinkInv
<1>5. CASE ScanFound
  <2>1. PICK c \in Cluster :
          /\ ret' = [op |-> "alloc", cluster |-> c]
          /\ WordOf(Logical, c) = Zero /\ WordOf(Logical', c) = Reserved
          /\ \A k \in Cluster \ {c} : WordOf(Logical', k) = WordOf(Logical, k)
    BY <1>5, Reserving DEF Running, Shape
  <2>2. Zero.lo = 0 /\ Reserved.lo = 1 /\ Reserved # Zero
    BY DEF Zero, Reserved
  <2>3. Extends(Logical, Logical')
    BY <2>1, <2>2, StoreExtends
  <2>4. Extends(disk', Logical') /\ TableSound(disk', Cluster)
    BY <2>3, CardLags DEF LinkInv
  <2>5. InUse(Logical, dir.cur) /\ (Begun => InUse(Logical, last)) /\ ~InUse(Logical, c)
    BY <2>1 DEF Running, Held, InUse
  <2>6. st = "growLink" => WordOf(Logical', dir.cur).lo >= EOC
    BY <2>1, <2>5 DEF LinkInv, InUse
  <2>7. Begun => WordOf(Logical', last).lo = 1 /\ Reach(Logical', first, last)
    BY <2>1, <2>3, <2>5, ReachExtends DEF LinkInv, InUse
  <2>. QED  BY <1>1, <1>2, <1>3, <2>1, <2>2, <2>4, <2>6, <2>7 DEF LinkInv
<1>. QED  BY <1>1, <1>4, <1>5

(* The stores of a call: over an end, or over an entry that is reserved.   *)
LEMMA LinkStore ==
  ASSUME Running, LinkInv, Faults = {}, disk' \in {disk, Logical},
         NEW c \in Cluster, NEW v \in Links, v # 0, WriteEntry(c, v),
         WordOf(Logical, c).lo \notin Cluster \ {0, 1}
  PROVE  /\ Extends(Logical, Logical') /\ Extends(disk', Logical') /\ TableSound(disk', Cluster)
         /\ WordOf(Logical', c).lo = v
         /\ \A k \in Cluster \ {c} : WordOf(Logical', k) = WordOf(Logical, k)
<1>1. /\ WordOf(Logical', c).lo = v
      /\ \A k \in Cluster \ {c} : WordOf(Logical', k) = WordOf(Logical, k)
  BY Storing DEF Running, Shape
<1>2. WordOf(Logical', c) # Zero
  BY <1>1 DEF Zero
<1>3. Extends(Logical, Logical')
  BY <1>1, <1>2, StoreExtends
<1>. QED  BY <1>1, <1>3, CardLags DEF LinkInv

LEMMA LinkGrow ==
  ASSUME Running, LinkInv, Faults = {}, disk' \in {disk, Logical}, GrowLink
  PROVE  LinkInv'
<1>1. CASE ret.op = "full"
  <2>1. UNCHANGED vars /\ st' = "name"
    BY <1>1 DEF GrowLink
  <2>2. Logical' = Logical
    BY <2>1, Resting DEF Running, Shape
  <2>3. ~Begun' /\ ~Taken' /\ st' \notin Settled
    BY <2>1 DEF Begun, Making, Taken, Settled
  <2>. QED  BY <2>1, <2>2, <2>3, LinkKept
<1>2. CASE ret.op = "alloc"
  <2>1. /\ st = "growLink" /\ pc = "ready" /\ WriteEntry(dir.cur, ret.cluster)
        /\ first' = ret.cluster /\ st' = "growEnd" /\ dir' = dir
    BY <1>2 DEF GrowLink
  <2>2. /\ Taken /\ ret.cluster \in Cluster \ {0, 1} /\ ret.cluster # dir.cur
        /\ dir.cur \in Cluster /\ ret.cluster \in Links
    <3>1. Taken
      BY <1>2, <2>1 DEF Taken
    <3>2. ret.cluster \in Cluster \ {0, 1} /\ ret.cluster # dir.cur /\ dir.cur \in Cluster
      BY <3>1 DEF Running, Shape, Held, Claimable, Unclaimed, InUse
    <3>. QED  BY <3>1, <3>2, BelowEOC
  <2>3. WordOf(Logical, dir.cur).lo >= EOC /\ WordOf(Logical, ret.cluster).lo = 1
    BY <2>1, <2>2 DEF LinkInv
  <2>4. WordOf(Logical, dir.cur).lo \notin Cluster
    BY <2>3, BelowEOC
  <2>5. /\ Extends(disk', Logical') /\ TableSound(disk', Cluster)
        /\ WordOf(Logical', dir.cur).lo = ret.cluster
        /\ \A k \in Cluster \ {dir.cur} : WordOf(Logical', k) = WordOf(Logical, k)
    BY <2>1, <2>2, <2>4, LinkStore
  <2>6. ~Begun' /\ ~Taken' /\ st' \notin Settled
    BY <2>1 DEF Begun, Making, Taken, Settled
  <2>. QED  BY <2>1, <2>2, <2>3, <2>5, <2>6 DEF LinkInv
<1>. QED  BY <1>1, <1>2 DEF GrowLink

LEMMA LinkGrown ==
  ASSUME Running, LinkInv, Faults = {}, disk' \in {disk, Logical}, GrowEnd
  PROVE  LinkInv'
<1>1. st = "growEnd" /\ WriteEntry(first, EOC) /\ st' = "slots"
  BY DEF GrowEnd
<1>2. first \in Cluster /\ WordOf(Logical, first).lo = 1
  BY <1>1 DEF LinkInv
<1>3. EOC \in Links /\ EOC # 0
  BY BelowEOC, VolumeAssumption
<1>4. Extends(disk', Logical') /\ TableSound(disk', Cluster)
  BY <1>1, <1>2, <1>3, LinkStore
<1>5. ~Begun' /\ ~Taken' /\ st' \notin Settled
  BY <1>1 DEF Begun, Making, Taken, Settled
<1>. QED  BY <1>1, <1>4, <1>5 DEF LinkInv

LEMMA LinkMore ==
  ASSUME Running, LinkInv, Faults = {}, disk' \in {disk, Logical}, LinkCluster
  PROVE  LinkInv'
<1>1. /\ st = "link" /\ WriteEntry(last, ret.cluster) /\ last' = ret.cluster
      /\ st' \in {"more", "end"} /\ first' = first
  BY DEF LinkCluster
<1>2. /\ Taken /\ Begun /\ Unclaimed(Logical, data, ret.cluster) /\ ret.cluster # first
      /\ last \in Cluster
  BY <1>1 DEF Running, Held, Taken, Begun, Making, Claimable, InUse
<1>3. /\ WordOf(Logical, last).lo = 1 /\ WordOf(Logical, ret.cluster).lo = 1
      /\ Reach(Logical, first, last)
  BY <1>2 DEF LinkInv
<1>4. /\ ret.cluster \in Cluster \ {0, 1} /\ Start(Logical, ret.cluster)
      /\ ret.cluster \in Links
  <2>1. ret.cluster \in Cluster \ {0, 1} /\ Start(Logical, ret.cluster)
    BY <1>2 DEF Unclaimed, InUse, Start
  <2>. QED  BY <2>1, BelowEOC
<1>5. ret.cluster # last
  <2>. SUFFICES ASSUME ret.cluster = last PROVE FALSE
    OBVIOUS
  <2>1. PICK w : PathIn(Logical, w, first) /\ w[Len(w)] = last
    BY <1>3 DEF Reach
  <2>2. Len(w) \in 1 .. Len(w)
    BY <2>1 DEF PathIn
  <2>. QED  BY <1>2, <1>4, <2>1, <2>2, OnlyStart
<1>6. /\ Extends(Logical, Logical') /\ Extends(disk', Logical') /\ TableSound(disk', Cluster)
      /\ WordOf(Logical', last).lo = ret.cluster
      /\ \A k \in Cluster \ {last} : WordOf(Logical', k) = WordOf(Logical, k)
  BY <1>1, <1>2, <1>3, <1>4, LinkStore
<1>7. Reach(Logical', first, last)
  BY <1>3, <1>6, ReachExtends
<1>8. Reach(Logical', first, ret.cluster) /\ WordOf(Logical', ret.cluster).lo = 1
  BY <1>3, <1>4, <1>5, <1>6, <1>7, ReachNext
<1>9. ~Taken' /\ st' \notin Settled /\ st' \notin {"grow", "growLink", "growEnd", "undefined"}
  BY <1>1 DEF Taken, Settled
<1>. QED  BY <1>1, <1>6, <1>8, <1>9 DEF LinkInv

LEMMA LinkEnd ==
  ASSUME Running, LinkInv, Faults = {}, disk' \in {disk, Logical}, WriteSfnEntry
  PROVE  LinkInv'
<1>1. st = "end" /\ WriteEntry(last, EOC) /\ st' = "flushDir"
  BY DEF WriteSfnEntry
<1>2. Begun
  BY <1>1 DEF Begun, Making
<1>3. last \in Cluster /\ WordOf(Logical, last).lo = 1
  BY <1>2 DEF LinkInv, Running, Held, InUse
<1>4. EOC \in Links /\ EOC # 0
  BY BelowEOC, VolumeAssumption
<1>5. Extends(disk', Logical') /\ TableSound(disk', Cluster)
  BY <1>1, <1>3, <1>4, LinkStore
<1>6. ~Begun' /\ ~Taken' /\ st' \notin Settled
  BY <1>1 DEF Begun, Making, Taken, Settled
<1>. QED  BY <1>1, <1>5, <1>6 DEF LinkInv

LEMMA LinkWrite ==
  ASSUME Running, LinkInv, WriteData
  PROVE  LinkInv'
<1>1. /\ UNCHANGED vars /\ st = "data" /\ pc = "ready" /\ ret.op = "alloc"
      /\ IF part = 0
         THEN first' = ret.cluster /\ last' = ret.cluster /\ st' \in {"more", "end"}
         ELSE st' = "link" /\ UNCHANGED <<first, last>>
  BY DEF WriteData
<1>2. Logical' = Logical /\ disk' = disk /\ ret' = ret
  BY <1>1, Resting DEF Running, Shape, vars
<1>3. Taken /\ part \in Nat
  BY <1>1 DEF Taken, Running, Held, Making
<1>4. ret.cluster \in Cluster /\ WordOf(Logical, ret.cluster).lo = 1
  BY <1>3 DEF LinkInv, Running, Held, Claimable, Unclaimed, InUse
<1>5. WordOf(Logical, last').lo = 1 /\ Reach(Logical, first', last')
  <2>1. CASE part = 0
    BY <1>1, <1>4, <2>1, ReachSelf
  <2>2. CASE part # 0
    <3>1. Begun
      BY <1>1, <1>3, <2>2 DEF Begun, Making
    <3>. QED  BY <1>1, <2>2, <3>1 DEF LinkInv
  <2>. QED  BY <2>1, <2>2
<1>6. st' \in {"more", "end", "link"} /\ st' \notin Settled
  BY <1>1 DEF Settled
<1>. QED  BY <1>1, <1>2, <1>4, <1>5, <1>6, LinkKept

LEMMA LinkFlush ==
  ASSUME Running, LinkInv, Faults = {}, FlushTheFat
  PROVE  LinkInv'
<1>1. FlushFat /\ st' \in {"dots", "idle"}
  BY DEF FlushTheFat
<1>2. disk' = Logical /\ Logical' = Logical
  BY <1>1, Flushing DEF Running, Shape
<1>3. ~Begun' /\ ~Taken'
  BY <1>1 DEF Begun, Making, Taken
<1>. QED  BY <1>1, <1>2, <1>3, LinkKept

LEMMA LinkRest ==
  ASSUME Running, LinkInv, UNCHANGED allVars
  PROVE  LinkInv'
<1>1. UNCHANGED <<vars, data, dir, st, first, last, part>>
  BY DEF allVars, volVars
<1>2. Logical' = Logical /\ pc' = pc /\ ret' = ret /\ disk' = disk
  BY <1>1, Resting DEF Running, Shape, vars
<1>3. NamedEnd' <=> NamedEnd
  BY <1>1, <1>2, NamedAsBefore
<1>. QED  BY <1>1, <1>2, <1>3 DEF LinkInv, Taken, Begun, Making

(* Every step in which nothing fails. *)
LEMMA LinkStep ==
  ASSUME Running, LinkInv, Faults = {}, ScanAligned, [VolNext]_allVars, ~Fault
  PROVE  LinkInv'
<1>1. disk' \in {disk, Logical}
  <2>1. CacheInv
    BY DEF Running, Shape
  <2>. QED  BY <2>1, TableStep, Writes
<1>2. CASE Calls \/ Search \/ Read
  BY <1>1, <1>2, LinkQuiet, LinkRead DEF Search, Read
<1>3. CASE Create
  BY <1>1, <1>3, LinkQuiet, LinkRead, LinkBegin, LinkUndefined, LinkGrow, LinkGrown, LinkMore,
     LinkEnd, LinkWrite, LinkFlush DEF Create
<1>4. CASE Allocating
  BY <1>1, <1>4, LinkScan
<1>5. CASE UNCHANGED allVars
  BY <1>5, LinkRest
<1>. QED  BY <1>2, <1>3, <1>4, <1>5 DEF VolNext, Steps, Fault

ChainInv == faults = 0 => LinkInv

LEMMA ChainStart ==
  ASSUME CardsSound, VolInit
  PROVE  ChainInv
<1>1. Running /\ disk = Logical /\ Open = {}
  BY VolStart
<1>2. st = "idle" /\ ret.op # "alloc"
  BY DEF VolInit
<1>3. TableSound(disk, Cluster)
  BY <1>1 DEF Running, SoundNow, Sound, TableSound
<1>4. ~Begun /\ ~Taken
  BY <1>2 DEF Begun, Making, Taken
<1>. QED  BY <1>1, <1>2, <1>3, <1>4, ExtendsSelf DEF ChainInv, LinkInv

LEMMA ChainStep ==
  ASSUME SoundInv, ChainInv, Aligned, Faults = {}, [VolNext]_allVars
  PROVE  ChainInv'
<1>1. faults \in Nat /\ (faults = 0 => Running /\ ScanAligned /\ LinkInv)
  BY DEF SoundInv, ChainInv, Aligned
<1>2. CASE Fault
  <2>1. faults' = faults + 1
    BY <1>1, <1>2, FaultCounts
  <2>2. faults' # 0
    BY ONLY <1>1, <2>1
  <2>. QED  BY <2>2 DEF ChainInv
<1>3. CASE ~Fault
  <2>1. faults' = faults
    BY <1>1, <1>3, FaultCounts
  <2>2. faults = 0 => LinkInv'
    BY <1>1, <1>3, LinkStep
  <2>. QED  BY <2>1, <2>2 DEF ChainInv
<1>. QED  BY <1>2, <1>3

LEMMA ChainInvariant ==
  Faults = {} /\ CardsSound => (VolSpec /\ []Aligned => [](SoundInv /\ ChainInv))
<1>. SUFFICES ASSUME Faults = {}, CardsSound
              PROVE  VolSpec /\ []Aligned => [](SoundInv /\ ChainInv)
  OBVIOUS
<1>1. VolInit => SoundInv /\ ChainInv
  BY VolStart, ChainStart DEF SoundInv
<1>2. SoundInv /\ ChainInv /\ Aligned /\ [VolNext]_allVars => (SoundInv /\ ChainInv)'
  BY SoundStep, ChainStep
<1>. QED  BY <1>1, <1>2, PTL DEF VolSpec

(* Chains from clusters nothing leads to do not meet, on the card either.  *)
LEMMA MembersApart ==
  ASSUME NEW g, NEW open, TableSound(g, open), NEW f, Extends(f, g),
         NEW c \in Cluster, NEW k \in Cluster, Start(g, c), Start(g, k), c # k
  PROVE  MembersIn(f, c) \cap MembersIn(f, k) = {}
<1>. SUFFICES ASSUME NEW x \in MembersIn(f, c), x \in MembersIn(f, k)
              PROVE  FALSE
  OBVIOUS
<1>1. Reach(g, c, x) /\ Reach(g, k, x)
  BY MemberIsReached, ReachExtends
<1>2. PICK w : PathIn(g, w, k) /\ w[Len(w)] = x
  BY <1>1 DEF Reach
<1>3. Len(w) \in 1 .. Len(w)
  BY <1>2 DEF PathIn
<1>. QED  BY <1>1, <1>2, <1>3, ReachApart

LEMMA NothingMeets ==
  ASSUME Running, LinkInv, NEW f \in {disk, Logical}
  PROVE  \A e \in WithChain :
           /\ MembersIn(f, At(e).cluster) \cap MembersIn(f, Root) = {}
           /\ \A o \in WithChain \ {e} :
                MembersIn(f, At(e).cluster) \cap MembersIn(f, At(o).cluster) = {}
<1>1. TableSound(Logical, Open) /\ NamesSound(Logical, data) /\ Extends(f, Logical)
  BY ExtendsSelf DEF Running, SoundNow, Sound, LinkInv
<1>2. Start(Logical, Root) /\ Root \in Cluster
  BY <1>1, VolumeAssumption DEF TableSound, Start
<1>3. ASSUME NEW e \in WithChain
      PROVE  /\ At(e).cluster \in Cluster \ {Root} /\ Start(Logical, At(e).cluster)
             /\ e[1] \in Cluster /\ e[2] \in SlotNumbers /\ e = <<e[1], e[2]>>
             /\ At(e) = data[e[1]][e[2]] /\ IsHead(data, e[1], e[2])
  <2>1. e \in CardEntries /\ At(e).cluster # 0
    BY DEF WithChain
  <2>2. /\ e[1] \in Cluster /\ e[2] \in SlotNumbers /\ e = <<e[1], e[2]>>
        /\ At(e) = data[e[1]][e[2]] /\ IsHead(data, e[1], e[2]) /\ At(e).cluster \in Cluster
    BY <1>1, <2>1, CardEntriesArePlaces DEF IsHead
  <2>3. At(e).cluster # Root /\ ~LeadsTo(Logical, At(e).cluster)
    BY <1>1, <2>2 DEF NamesSound
  <2>. QED  BY <2>2, <2>3 DEF Start
<1>4. ASSUME NEW e \in WithChain
      PROVE  MembersIn(f, At(e).cluster) \cap MembersIn(f, Root) = {}
  <2>1. At(e).cluster \in Cluster /\ At(e).cluster # Root /\ Start(Logical, At(e).cluster)
    BY <1>3
  <2>. QED  BY ONLY <1>1, <1>2, <2>1, MembersApart
<1>5. ASSUME NEW e \in WithChain, NEW o \in WithChain \ {e}
      PROVE  MembersIn(f, At(e).cluster) \cap MembersIn(f, At(o).cluster) = {}
  <2>1. At(e).cluster # At(o).cluster
    <3>. SUFFICES ASSUME At(e).cluster = At(o).cluster PROVE FALSE
      OBVIOUS
    <3>1. data[e[1]][e[2]].cluster = data[o[1]][o[2]].cluster
      BY <1>3
    <3>2. e[1] = o[1] /\ e[2] = o[2]
      BY <1>1, <1>3, <3>1 DEF NamesSound
    <3>. QED  BY <1>3, <3>2
  <2>2. /\ At(e).cluster \in Cluster /\ Start(Logical, At(e).cluster)
        /\ At(o).cluster \in Cluster /\ Start(Logical, At(o).cluster)
    BY <1>3
  <2>. QED  BY ONLY <1>1, <2>1, <2>2, MembersApart
<1>. QED  BY <1>4, <1>5

(* NoCrossLink for every number of windows and every card of whole files:  *)
(* fat32.c:236-237, 455-462 and 470-473 link only clusters that are        *)
(* reserved and that nothing leads to, so that chains neither meet nor     *)
(* lose their end, on the card and in the window, as long as nothing fails *)
(* and no allocation is counted from another window than its own (Aligned).*)
THEOREM ChainsStayApart ==
  Faults = {} /\ CardsSound => (VolSpec /\ []Aligned => []NoCrossLink)
<1>1. SoundInv /\ ChainInv => NoCrossLink
  <2>. SUFFICES ASSUME SoundInv, ChainInv, faults = 0 PROVE NoCrossLink
    BY DEF NoCrossLink
  <2>1. Running /\ LinkInv
    BY DEF SoundInv, ChainInv
  <2>2. st # "growEnd" => \A e \in WithChain : EndIn(Logical, At(e).cluster) >= EOC
    BY <2>1, NamesEnd DEF NamedEnd
  <2>. QED  BY <2>1, <2>2, NothingMeets DEF NoCrossLink
<1>. QED  BY <1>1, ChainInvariant, PTL

(* In a run where only aligned scans are taken steps every scan is aligned *)
(* from its beginning: AllocateCluster starts at fatBuffNum (fat32.c:182). *)
LEMMA AlignedStep ==
  ASSUME ScanAligned, [AlignedNext]_allVars
  PROVE  ScanAligned'
<1>1. CASE Calls \/ Descend \/ SearchOver
  BY <1>1 DEF Calls, MkFile, Mkdir, ReadFile, Stat, Make, Call, Descend, SearchOver, vars, ScanAligned
<1>2. CASE SearchNext \/ NextDirCluster \/ ReadCluster
  BY <1>2 DEF SearchNext, NextDirCluster, ReadCluster, ReadEntry, scanVars, ScanAligned
<1>3. CASE RefuseName \/ WriteFile \/ AllocateDirEntries \/ DirTooLong \/ OutOfBuffer \/ NoCluster
           \/ WriteData \/ FlushDir \/ WriteDots
  BY <1>3 DEF RefuseName, WriteFile, AllocateDirEntries, DirTooLong, OutOfBuffer, NoCluster,
              WriteData, FlushDir, WriteDots, vars, ScanAligned
<1>4. CASE Grow \/ WriteNames \/ AllocateMore
  <2>1. AllocateCluster
    BY <1>4 DEF Grow, WriteNames, AllocateMore
  <2>2. PICK r \in IF fatBuffNum = -1 THEN ReadFatSector(0) ELSE {Kept(TRUE)} :
          fatBuffNum' = r.num /\ sector' = r.num
    BY <2>1 DEF AllocateCluster, Become
  <2>. QED  BY <2>2 DEF ScanAligned
<1>5. CASE GrowLink \/ GrowEnd \/ LinkCluster \/ WriteSfnEntry
  BY <1>5 DEF GrowLink, GrowEnd, LinkCluster, WriteSfnEntry, WriteEntry, scanVars, vars, ScanAligned
<1>6. CASE FlushTheFat
  BY <1>6 DEF FlushTheFat, FlushFat, scanVars, ScanAligned
<1>7. CASE NotFound \/ StatEntry \/ BeginRead \/ ReadOver
  BY <1>7 DEF NotFound, StatEntry, BeginRead, ReadOver, vars, ScanAligned
<1>8. CASE LoadFails
  BY <1>8 DEF LoadFails, CallFails, DescendFails, SearchFails, NextDirFails, GrowEndFails,
              ReadClusterFails, DotsFail, NextUnread, ReadEntry, WriteEntry, scanVars, vars,
              ScanAligned
<1>9. CASE AllocatingAligned
  BY <1>9 DEF AllocatingAligned
<1>10. CASE Crash
  BY <1>10 DEF Crash, ScanAligned
<1>11. CASE UNCHANGED allVars
  BY <1>11 DEF allVars, vars, ScanAligned
<1>. QED  BY <1>1, <1>2, <1>3, <1>4, <1>5, <1>6, <1>7, <1>8, <1>9, <1>10, <1>11
          DEF AlignedNext, Steps, Search, Create, Read

(* The behaviours that the run fat32 checks are those the theorems of this *)
(* section speak of.                                                       *)
THEOREM AlignedRuns == AlignedSpec => VolSpec /\ []Aligned
<1>1. VolInit => ScanAligned
  BY DEF VolInit, ScanAligned
<1>2. ScanAligned /\ [AlignedNext]_allVars => ScanAligned'
  BY AlignedStep
<1>3. [AlignedNext]_allVars => [VolNext]_allVars
  BY DEF AlignedNext, VolNext, AllocatingAligned
<1>4. ScanAligned => Aligned
  BY DEF Aligned
<1>. QED  BY <1>1, <1>2, <1>3, <1>4, PTL DEF AlignedSpec, VolSpec
=============================================================================
