------------------------------ MODULE Startup ------------------------------
(***************************************************************************)
(* From the card to the memory: FileSystemInit and Fat32Init at start-up,  *)
(* then "load sd" as often as it is typed.  The loader is in the first     *)
(* blocks of the memory, the buffers of the file system at a fixed place   *)
(* among the RAM that a load may fill.  A block of memory is known by the  *)
(* sector of the card it was read from, so that a buffer that was written  *)
(* over is told from one that was not.  Sizes and addresses are in blocks  *)
(* of a sector.                                                            *)
(***************************************************************************)
EXTENDS Integers, Sequences, FiniteSets

CONSTANTS
  Volumes,        \* volumes the card may hold
  lba,            \* sectors of the card
  LoaderBlocks,   \* blocks of the loader, from 0 on
  RamBlocks,      \* blocks in all
  Buffer,         \* 0x50000000
  FATBUFFBLOCKS,
  EntriesPerSector,
  EOC,
  MinClusters,    \* 65526
  Word,           \* values of a uint32_t
  DIRMAXCLUSTERS,
  Addrs,          \* addresses given to load
  Sizes,          \* sizes that bytes of a file may read as
  Garbage,        \* clusters that other bytes may read as
  MaxLoads,       \* bound: loads asked for
  MaxFails        \* bound: reads that fail

(* A volume: where it begins, what its boot sector says, the clusters of   *)
(* the root directory, the one of them that names the file, and the file.  *)
(* A link is the next cluster or the end, and those of the file lead to    *)
(* all of it.                                                              *)
EntriesOf(v) == 0 .. v.fatLength * EntriesPerSector - 1

ASSUME VolumesAssumption ==
  \A v \in Volumes :
    /\ v.base \in 1 .. lba - 1 /\ v.clusterSize \in Nat \ {0} /\ v.total \in Nat
    /\ v.reserved \in Nat \ {0} /\ v.fatLength \in Nat \ {0} /\ v.fats \in {1, 2}
    /\ v.root \in Seq(EntriesOf(v)) /\ v.entryIn \in 1 .. Len(v.root)
    /\ v.file \in Seq(EntriesOf(v)) /\ Len(v.file) >= 1
ASSUME LinksAssumption ==
  /\ EntriesPerSector \in Nat \ {0} /\ EOC \in Nat
  /\ \A v \in Volumes :
       /\ v.fatLength * EntriesPerSector <= EOC
       /\ v.links \in [EntriesOf(v) -> Nat]
       /\ \A c \in EntriesOf(v) : v.links[c] \in EntriesOf(v) \/ v.links[c] >= EOC
       /\ \A i \in 1 .. Len(v.file) - 1 : v.links[v.file[i]] = v.file[i + 1]
       /\ v.links[v.file[Len(v.file)]] >= EOC
ASSUME BufferAssumption ==
  /\ LoaderBlocks \in Nat /\ Buffer \in Nat /\ LoaderBlocks <= Buffer /\ FATBUFFBLOCKS \in Nat \ {0}
  /\ \A v \in Volumes : FATBUFFBLOCKS <= v.fatLength /\ Buffer + FATBUFFBLOCKS + v.clusterSize <= RamBlocks
ASSUME RamAssumption ==  \* a file fits in what is left of the RAM
  /\ RamBlocks \in Nat /\ Addrs \subseteq LoaderBlocks .. RamBlocks - 1 /\ Sizes \subseteq Nat
  /\ \A v \in Volumes, a \in Addrs : a + Len(v.file) * v.clusterSize <= RamBlocks

FREE == -1
CODE == -2

VARIABLES
  card,       \* the volume
  mem,
  pc,
  fat,        \* FatData, and DirBuffer with it
  dir,        \* dir_t of the load: cur, tries
  addr, size, read,
  then,       \* what the walk to the next cluster is for
  failed,     \* reads that failed on the way
  asked,      \* history: the addresses of the loads
  trusted     \* history: no read failed unnoticed and no load went over the buffers

bootVars == <<card, mem, pc, fat, dir, addr, size, read, then, failed, asked, trusted>>

NotMounted == [clusterSize |-> 0, fatStart |-> 0, fatSectors |-> 0, dataStart |-> 0, root |-> 0,
               fatBuff |-> 0, fatBuffNum |-> -1, dirBuff |-> 0, mounted |-> FALSE]

BufferBlocks == Buffer .. Buffer + FATBUFFBLOCKS + card.clusterSize - 1
-----------------------------------------------------------------------------
(* mmc_bread of n sectors to a block: nothing is read past the card; a     *)
(* read that fails may have moved some of them.                            *)
Read(sector, n, at, m) == [b \in DOMAIN m |-> IF b \in at .. at + n - 1 THEN sector + (b - at) ELSE m[b]]
CanRead(sector, n) == n > 0 /\ sector >= 0 /\ sector + n <= lba
PartlyRead(sector, n, at, m) ==
  {Read(sector, k, at, m) : k \in IF CanRead(sector, n) THEN 0 .. n - 1 ELSE {0}}
Fails(sector, n) == IF CanRead(sector, n) THEN failed < MaxFails /\ failed' = failed + 1
                                          ELSE UNCHANGED failed

(* FileSystemInit: the card is initialised, its first sector read and the  *)
(* start of the partition taken from it.                                   *)
FileSystemInit ==
  /\ pc = "init"
  /\ \/ mem' = Read(0, 1, Buffer, mem) /\ pc' = "mount" /\ UNCHANGED failed
     \/ UNCHANGED mem /\ pc' = "prompt" /\ Fails(0, 1)
  /\ UNCHANGED <<card, fat, dir, addr, size, read, then, asked, trusted>>

(* What the boot sector says, as FatData keeps it: the hidden sectors are  *)
(* added where the partition's first sector is meant.                      *)
FatDataOf(v) ==
  LET fatSectors == v.fatLength * v.fats
  IN  [clusterSize |-> v.clusterSize, fatStart |-> v.base + v.reserved, fatSectors |-> fatSectors,
       dataStart |-> v.reserved + fatSectors + v.base, root |-> v.root[1],
       fatBuff |-> 0, fatBuffNum |-> -1, dirBuff |-> 0, mounted |-> FALSE]

(* The number of clusters is a difference of words.  A volume with few is  *)
(* refused, and the buffers stay NULL.                                     *)
Fat32Init ==
  /\ pc = "mount"
  /\ \/ Fails(card.base, 1) /\ UNCHANGED <<mem, fat>>
     \/ LET f == FatDataOf(card)
        IN  /\ mem' = Read(card.base, 1, Buffer, mem) /\ UNCHANGED failed
            /\ fat' = IF ((card.total - f.dataStart) % Word) \div f.clusterSize < MinClusters
                      THEN f
                      ELSE [f EXCEPT !.fatBuff = Buffer, !.dirBuff = Buffer + FATBUFFBLOCKS,
                                     !.mounted = TRUE]
  /\ pc' = "prompt"
  /\ UNCHANGED <<card, dir, addr, size, read, then, asked, trusted>>
-----------------------------------------------------------------------------
FirstSectorOfCluster(c) == (c - 2) * fat.clusterSize + fat.dataStart

(* Reads of the code of the loader, and the stores that destroy it: the    *)
(* model ends with it.                                                     *)
Alive(m) == \A b \in 0 .. LoaderBlocks - 1 : m[b] = CODE
Then(m, next) == pc' = IF Alive(m) THEN next ELSE "lost"

(* LoaderSdLoad, as far as the root directory: its first sectors are those *)
(* of the data area.                                                       *)
Load ==
  /\ pc = "prompt" /\ Cardinality(asked) < MaxLoads
  /\ addr' \in Addrs \ asked /\ asked' = asked \cup {addr'}
  /\ size' = 0 /\ read' = 0 /\ then' = "search"
  /\ dir' = [cur |-> fat.root, tries |-> 0]
  /\ \/ /\ CanRead(fat.dataStart, fat.clusterSize)
        /\ mem' = Read(fat.dataStart, fat.clusterSize, fat.dirBuff, mem)
        /\ Then(mem', "search") /\ UNCHANGED failed
     \/ /\ Fails(fat.dataStart, fat.clusterSize)
        /\ mem' \in PartlyRead(fat.dataStart, fat.clusterSize, fat.dirBuff, mem)
        /\ Then(mem', "report")
  /\ UNCHANGED <<card, fat, trusted>>

(* The buffer holds the cluster of the directory that names the file. *)
Named == mem[fat.dirBuff] = FirstSectorOfCluster(card.root[card.entryIn])

(* The file's first cluster is read over the entry, of which the size is   *)
(* taken then;  the result of the read is not looked at.                   *)
Find ==
  /\ pc = "search" /\ Named
  /\ dir' = [dir EXCEPT !.cur = card.file[1]]
  /\ LET s == FirstSectorOfCluster(card.file[1]) IN
     \/ /\ mem' = Read(s, fat.clusterSize, fat.dirBuff, mem)
        /\ size' \in Sizes /\ UNCHANGED <<trusted, failed>>
     \/ /\ Fails(s, fat.clusterSize) /\ mem' \in PartlyRead(s, fat.clusterSize, fat.dirBuff, mem)
        /\ size' \in Sizes /\ trusted' = FALSE
  /\ pc' = "copy"
  /\ UNCHANGED <<card, fat, addr, read, then, asked>>

SearchOnForever ==  \* the clusters looked at are not counted
  /\ pc = "search" /\ ~ Named
  /\ pc' = "walk" /\ then' = "search"
  /\ UNCHANGED <<card, mem, fat, dir, addr, size, read, failed, asked, trusted>>

SearchOn ==
  /\ pc = "search" /\ ~ Named
  /\ IF dir.tries = DIRMAXCLUSTERS - 1
     THEN pc' = "report" /\ UNCHANGED <<dir, then>>
     ELSE pc' = "walk" /\ then' = "search" /\ dir' = [dir EXCEPT !.tries = @ + 1]
  /\ UNCHANGED <<card, mem, fat, addr, size, read, failed, asked, trusted>>
-----------------------------------------------------------------------------
(* Fat32ReadFatSector: the window and its base after a sector was asked    *)
(* for, and whether it is in the window.                                   *)
InWindowWide(s) ==  \* one sector too many
  fat.fatBuffNum >= 0 /\ s >= fat.fatBuffNum /\ s <= fat.fatBuffNum + FATBUFFBLOCKS

InWindow(s) == fat.fatBuffNum >= 0 /\ s >= fat.fatBuffNum /\ s < fat.fatBuffNum + FATBUFFBLOCKS

LoadBase(s) == IF s > fat.fatSectors - FATBUFFBLOCKS THEN fat.fatSectors - FATBUFFBLOCKS ELSE s

(* What a link reads as: that of the FAT, if the block is the sector of it *)
(* that was meant.                                                         *)
Links(c, base, m) ==
  LET s == c \div EntriesPerSector
  IN  IF m[fat.fatBuff + (s - base)] = fat.fatStart + s THEN {card.links[c]} ELSE Garbage

Windows(c) ==
  LET s == c \div EntriesPerSector IN
  CASE s > fat.fatSectors -> {[m |-> mem, base |-> fat.fatBuffNum, links |-> Garbage, ok |-> FALSE, cost |-> 0]}
    [] InWindow(s) ->
         {[m |-> mem, base |-> fat.fatBuffNum, links |-> Links(c, fat.fatBuffNum, mem), ok |-> TRUE,
           cost |-> 0]}
    [] OTHER ->
         LET b == LoadBase(s)
             m == Read(fat.fatStart + b, FATBUFFBLOCKS, fat.fatBuff, mem)
         IN  {[m |-> m, base |-> b, links |-> Links(c, b, m), ok |-> TRUE, cost |-> 0]}
             \cup {[m |-> p, base |-> fat.fatBuffNum, links |-> Garbage, ok |-> FALSE, cost |-> 1] :
                     p \in PartlyRead(fat.fatStart + b, FATBUFFBLOCKS, fat.fatBuff, mem)}

WalkUnchecked ==  \* the end of the file's chain is not noticed
  /\ pc = "walk"
  /\ \E w \in Windows(dir.cur) : \E next \in w.links :
       /\ fat' = [fat EXCEPT !.fatBuffNum = w.base]
       /\ trusted' = (trusted /\ w.ok)
       /\ failed' = failed + w.cost /\ failed' <= MaxFails
       /\ IF next >= EOC
          THEN mem' = w.m /\ pc' = (IF then = "copy" THEN "copy" ELSE "report") /\ UNCHANGED dir
          ELSE LET s == FirstSectorOfCluster(next) IN
               /\ dir' = [dir EXCEPT !.cur = next]
               /\ mem' = Read(s, fat.clusterSize, fat.dirBuff, w.m) /\ pc' = then
  /\ UNCHANGED <<card, addr, size, read, then, asked>>

(* The next cluster of the directory or of the file: the link is read,     *)
(* and the cluster into the buffer.  A link that could not be read is what *)
(* the memory at NULL holds, and is followed.  The end of the chain, or of *)
(* the card, ends the load with what it has.                               *)
Walk ==
  /\ pc = "walk"
  /\ \E w \in Windows(dir.cur) : \E next \in w.links :
       /\ fat' = [fat EXCEPT !.fatBuffNum = w.base]
       /\ trusted' = (trusted /\ w.ok)
       /\ failed + w.cost <= MaxFails
       /\ IF next >= EOC
          THEN mem' = w.m /\ pc' = "report" /\ UNCHANGED dir /\ failed' = failed + w.cost
          ELSE LET s == FirstSectorOfCluster(next) IN
               /\ dir' = [dir EXCEPT !.cur = next]
               /\ \/ /\ CanRead(s, fat.clusterSize)
                     /\ mem' = Read(s, fat.clusterSize, fat.dirBuff, w.m) /\ pc' = then
                     /\ failed' = failed + w.cost
                  \/ /\ failed' = failed + w.cost + (IF CanRead(s, fat.clusterSize) THEN 1 ELSE 0)
                     /\ failed' <= MaxFails
                     /\ mem' \in PartlyRead(s, fat.clusterSize, fat.dirBuff, w.m) /\ pc' = "report"
  /\ UNCHANGED <<card, addr, size, read, then, asked>>
-----------------------------------------------------------------------------
(* memcpy of a whole cluster, from the lowest block up. *)
Copied(m, from, to, n) ==
  LET c[k \in 0 .. n] == IF k = 0 THEN m ELSE [c[k - 1] EXCEPT ![to + k - 1] = c[k - 1][from + k - 1]]
  IN  c[n]

Over(a, n) == a .. a + n - 1

(* The last piece is copied whole too. *)
Copy ==
  /\ pc = "copy"
  /\ IF read >= size
     THEN pc' = "report" /\ UNCHANGED <<mem, read, then, trusted>>
     ELSE /\ mem' = Copied(mem, fat.dirBuff, addr + read, fat.clusterSize)
          /\ read' = read + (IF size - read > fat.clusterSize THEN fat.clusterSize ELSE size - read)
          /\ then' = "copy"
          /\ trusted' = (trusted /\ Over(addr + read, fat.clusterSize) \cap BufferBlocks = {})
          /\ Then(mem', "walk")
  /\ UNCHANGED <<card, fat, dir, addr, size, failed, asked>>

(* "loaded at" is printed when something was read. *)
Report ==
  /\ pc = "report" /\ pc' = "prompt"
  /\ UNCHANGED <<card, mem, fat, dir, addr, size, read, then, failed, asked, trusted>>

BootInit ==
  /\ card \in Volumes
  /\ mem = [b \in 0 .. RamBlocks - 1 |-> IF b < LoaderBlocks THEN CODE ELSE FREE]
  /\ pc = "init" /\ fat = NotMounted
  /\ dir = [cur |-> 0, tries |-> 0]
  /\ addr = 0 /\ size = 0 /\ read = 0 /\ then = "search"
  /\ failed = 0 /\ asked = {} /\ trusted = TRUE

BootNext == FileSystemInit \/ Fat32Init \/ Load \/ Find \/ SearchOn \/ Walk \/ Copy \/ Report

BootSpec == BootInit /\ [][BootNext]_bootVars
FairBootSpec ==
  BootSpec /\ WF_bootVars(FileSystemInit \/ Fat32Init \/ Find \/ SearchOn \/ Walk \/ Copy \/ Report)
-----------------------------------------------------------------------------
TypeOKBoot ==
  /\ pc \in {"init", "mount", "prompt", "search", "walk", "copy", "report", "lost"}
  /\ mem \in [0 .. RamBlocks - 1 -> {FREE, CODE} \cup 0 .. lba - 1]
  /\ read <= size /\ dir.tries < DIRMAXCLUSTERS

(* loader.c:167, fat32.c:904: whatever was read as the size of the file,   *)
(* what "load sd" says it has loaded is the beginning of the file, and     *)
(* stays what was loaded: its links were found through a window of the FAT *)
(* that moved to and fro, its clusters through one buffer.                 *)
FileSector(i) ==
  card.base + card.reserved + card.fatLength * card.fats
    + (card.file[1 + (i \div card.clusterSize)] - 2) * card.clusterSize + (i % card.clusterSize)

ReportedIsLoaded ==
  (pc = "report" /\ trusted /\ fat.mounted) =>
    /\ read <= Len(card.file) * card.clusterSize
    /\ \A i \in 0 .. read - 1 : mem[addr + i] = FileSector(i)

(* fat32.c:904: besides its buffers, the loader changes no memory but the  *)
(* clusters of the file from the address of a command on;  with no card or *)
(* no boot sector it changes none.                                         *)
LoadTouchesOnly ==
  (trusted /\ (fat.mounted \/ fat.clusterSize = 0)) =>
    \A b \in DOMAIN mem :
      \/ mem[b] = IF b < LoaderBlocks THEN CODE ELSE FREE
      \/ b \in BufferBlocks
      \/ fat.mounted /\ \E a \in asked : b \in Over(a, Len(card.file) * card.clusterSize)

(* loader.c:162: a load ends, with what it could read, whatever the links  *)
(* and the size are;  or it ends the loader.                               *)
LoadReturns == (pc # "prompt") ~> (pc \in {"prompt", "lost"})

(* main.c:122 "No filesystem support will be enabled": a volume that was   *)
(* refused is not read, and a load from it leaves the loader alone.        *)
LoaderSurvives == pc # "lost"
=============================================================================
