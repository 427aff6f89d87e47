------------------------------- MODULE Fat32 -------------------------------
(***************************************************************************)
(* The volume of fs/fat32.c: MkFile, Mkdir, ReadFile and Stat over the FAT *)
(* layer of FatTable.  The card holds the FAT (disk) and the clusters      *)
(* (data); one directory cluster is cached in the buffer of a dir_t (buff, *)
(* dir).  A step is one call of the FAT layer or one transfer, so that a   *)
(* power loss can fall between any two writes to the card.                 *)
(*                                                                         *)
(* A cluster is DirSlots slots: free (0xE5), end (0x00), the long name of  *)
(* the entry that follows, an entry, or bytes of a file.  Names are        *)
(* sequences of characters 1 .. 9, whose upper cases are 11 .. 19; a path  *)
(* is the sequence of its names.  Sizes are in clusters.                   *)
(***************************************************************************)
EXTENDS FatTable, Sequences

CONSTANTS
  EOC,             \* first value of the end-of-chain range
  DirSlots,        \* EntriesPerBuffer
  DIRMAXCLUSTERS,
  E_ERROR,         \* what AllocateDirEntries returns at that limit, an index to its caller
  Root,            \* FatData.rootCluster
  InitCards,       \* cards to start with: FAT and clusters, as [disk, data]
  Paths, DirPaths, \* arguments of MkFile, ReadFile and Stat; of Mkdir
  Sizes,           \* sizes of the files made
  MaxCalls,        \* bound: calls made
  MaxFaults,       \* bound: power losses and failed reads
  Retry            \* whether a path may be made twice

VARIABLES
  data,     \* clusters on the card
  buff,     \* dir->buff
  dir,      \* dir_t: first, cur and dirty
  st,       \* where the current call is
  call,     \* the current call: op, path, size and its number id
  rest,     \* remaining part of the path
  entry,    \* copy of the entry found, as ReadFile and Stat see it
  at,       \* index AllocateDirEntries returned, 0-based as in the code
  tries,    \* i of SearchDir and AllocateDirEntries
  first, last, part,  \* firstCluster, lastCluster and clusters written, in WriteFile;
                      \* first is also the new cluster in AllocateDirEntries, and part
                      \* the size wanted in ReadFile
  out,      \* clusters ReadFile has copied, or what Stat stored
  made,     \* history: the calls that made a file or directory and returned
  tried,    \* history: the paths that were to be made
  faults,   \* power losses, and reads of a directory or of a file that failed
  spoilt    \* history: whether a call went on after a failed read, a power loss found
            \* a directory half grown, or slots were written that were not free

volVars == <<data, buff, dir, st, call, rest, entry, at, tries, first, last, part,
             out, made, tried, faults, spoilt>>
allVars == <<vars, volVars>>

Cluster == 0 .. FatSectors * EntriesPerSector - 1
SlotNumbers == 1 .. DirSlots

(* Clusters are what callers of the FAT layer pass; the end-of-chain range *)
(* begins above them; the root is cluster 2, whose first sector is         *)
(* dataStartSector: ResolvePath reads the one (fat32.c:639) and follows    *)
(* the chain of the other; E_ERROR is a positive number; and cards have an *)
(* entry for every cluster and slots in each.                              *)
ASSUME VolumeAssumption ==
  /\ Clusters = Cluster /\ {0, 1, Root} \subseteq Cluster /\ Root = 2
  /\ Links \subseteq Nat /\ Cluster \cup {EOC} \subseteq Links
  /\ \A c \in Cluster : c < EOC
  /\ DirSlots \in Nat \ {0} /\ DIRMAXCLUSTERS \in Nat /\ E_ERROR \in Nat \ {0}
  /\ Sizes \subseteq Nat /\ MaxCalls \in Nat /\ MaxFaults \in Nat
  /\ Paths \cup DirPaths \subseteq Seq(Seq(0 .. 9))
  /\ \A card \in InitCards :
       /\ card.disk \in Table
       /\ card.data = [c \in Cluster |-> [i \in SlotNumbers |-> card.data[c][i]]]

Upper(name) == [i \in DOMAIN name |-> IF name[i] < 10 THEN name[i] + 10 ELSE name[i]]

Free == [kind |-> "free"]
End  == [kind |-> "end"]
Long(name) == [kind |-> "long", name |-> name]
Short(name, attr, cluster, size) ==
  [kind |-> "short", name |-> name, attr |-> attr, cluster |-> cluster, size |-> size]
Dot    == <<0>>
DotDot == <<0, 0>>
Bytes(id, k) == [n \in SlotNumbers |-> [kind |-> "bytes", file |-> id, part |-> k]]

Clusters32(size) == IF size = 0 THEN 1 ELSE size

NoCall == [op |-> "none", path |-> <<>>, size |-> 0, id |-> 0]
NoDir  == [first |-> 0, cur |-> 0, dirty |-> FALSE]

VolInit ==
  /\ \E card \in InitCards : disk = card.disk /\ data = card.data
  /\ fatBuff = [k \in Blocks |-> [o \in Offsets |-> Zero]]
  /\ fatBuffNum = -1 /\ fatDirty = FALSE
  /\ pc = "ready" /\ sector = 0 /\ sectourCount = 0
  /\ ret = [op |-> "none"]
  /\ buff = [n \in SlotNumbers |-> End] /\ dir = NoDir
  /\ st = "idle" /\ call = NoCall /\ rest = <<>> /\ entry = End
  /\ at = 0 /\ tries = 0 /\ first = 0 /\ last = 0 /\ part = 0
  /\ out = <<>> /\ made = {} /\ tried = {} /\ faults = 0 /\ spoilt = FALSE

(* Fat32FlushDir: what the card holds afterwards. *)
FlushedDir == IF dir.dirty THEN [data EXCEPT ![dir.cur] = buff] ELSE data

-----------------------------------------------------------------------------
(* A call starts with ResolvePath(NULL, ...): the path begins with a '/'   *)
(* (fat32.c:649-653) and the root is loaded.                               *)
Call(op, path, size) ==
  /\ st = "idle" /\ call.id < MaxCalls
  /\ call' = [op |-> op, path |-> path, size |-> size, id |-> call.id + 1]
  /\ dir' = [first |-> Root, cur |-> Root, dirty |-> FALSE]
  /\ buff' = data[Root]
  /\ rest' = path /\ entry' = End /\ out' = <<>> /\ tries' = 0
  /\ st' = "search"
  /\ UNCHANGED <<vars, data, at, first, last, part, made, faults, spoilt>>

Make(op, path, size) == /\ Retry \/ path \notin tried
                        /\ Call(op, path, size)
                        /\ tried' = tried \cup {path}

MkFile == \E path \in Paths, size \in Sizes : Make("mkfile", path, size)
Mkdir == \E path \in DirPaths : Make("mkdir", path, 0)
ReadFile == \E path \in Paths : Call("readfile", path, 0) /\ UNCHANGED tried
Stat == \E path \in Paths : Call("stat", path, 0) /\ UNCHANGED tried

(* ParseEntry and the comparison of SearchDir: len - 1 is passed as size,  *)
(* so the long name is compared without its terminator and the short name  *)
(* without its last character.                                             *)
Terminator == IF \E i \in SlotNumbers : buff[i] = End
              THEN CHOOSE i \in SlotNumbers :
                     buff[i] = End /\ \A j \in 1 .. i - 1 : buff[j] # End
              ELSE DirSlots + 1

IsPrefixOf(s, t) == Len(s) <= Len(t) /\ SubSeq(t, 1, Len(s)) = s

SlotMatches(i, name) ==
  /\ buff[i].kind = "short"
  /\ \/ /\ i > 1 /\ buff[i - 1].kind = "long"
        /\ Upper(buff[i - 1].name) = buff[i].name      \* the checksum agrees
        /\ IsPrefixOf(name, buff[i - 1].name)
     \/ IsPrefixOf(SubSeq(name, 1, Len(name) - 1), buff[i].name)

Found(i, name) ==
  /\ i < Terminator /\ SlotMatches(i, name)
  /\ \A j \in 1 .. i - 1 : ~SlotMatches(j, name)

(* dir_entry points into dir->buff, which the load of the entry's cluster  *)
(* overwrites before the entry is copied.                                  *)
Descend ==
  /\ st = "search" /\ rest # <<>>
  /\ \E i \in SlotNumbers :
       /\ Found(i, Head(rest))
       /\ LET c == buff[i].cluster
          IN  /\ dir' = [first |-> c, cur |-> c, dirty |-> FALSE]
              /\ buff' = data[c]
              /\ entry' = data[c][i]
  /\ rest' = Tail(rest) /\ tries' = 0
  /\ UNCHANGED <<vars, data, st, call, at, first, last, part, out, made, tried, faults, spoilt>>

SearchNextUncounted ==  \* only an entry found ends the search
  /\ st = "search" /\ rest # <<>>
  /\ ~\E i \in SlotNumbers : Found(i, Head(rest))
  /\ ReadEntry(dir.cur)
  /\ data' = FlushedDir
  /\ IF ret'.val >= EOC THEN UNCHANGED <<dir, buff>>
     ELSE dir' = [dir EXCEPT !.cur = ret'.val, !.dirty = FALSE] /\ buff' = data'[ret'.val]
  /\ UNCHANGED <<st, call, rest, entry, at, tries, first, last, part, out, made, tried, faults, spoilt>>

SearchNext ==
  /\ st = "search" /\ rest # <<>>
  /\ ~\E i \in SlotNumbers : Found(i, Head(rest))
  /\ tries + 1 < DIRMAXCLUSTERS
  /\ ReadEntry(dir.cur)
  /\ data' = FlushedDir
  /\ IF ret'.val >= EOC
     THEN st' = "resolved" /\ dir' = [dir EXCEPT !.dirty = FALSE] /\ UNCHANGED buff
     ELSE /\ dir' = [dir EXCEPT !.cur = ret'.val, !.dirty = FALSE]
          /\ buff' = data'[ret'.val]
          /\ UNCHANGED st
  /\ tries' = tries + 1
  /\ UNCHANGED <<call, rest, entry, at, first, last, part, out, made, tried, faults, spoilt>>

SearchOver ==
  /\ st = "search"
  /\ \/ rest = <<>>
     \/ /\ rest # <<>> /\ tries + 1 = DIRMAXCLUSTERS
        /\ ~\E i \in SlotNumbers : Found(i, Head(rest))
  /\ st' = "resolved"
  /\ UNCHANGED <<vars, data, buff, dir, call, rest, entry, at, tries, first, last, part,
                 out, made, tried, faults, spoilt>>

Search == Descend \/ SearchNext \/ SearchOver

-----------------------------------------------------------------------------
(* MkFile and Mkdir ignore what ResolvePath returned; IsNameValid rejects  *)
(* a remaining path with a '/' in it, and accepts an empty one.            *)
RefuseName ==
  /\ st = "resolved" /\ call.op \in {"mkfile", "mkdir"} /\ Len(rest) > 1
  /\ st' = "idle"
  /\ UNCHANGED <<vars, data, buff, dir, call, rest, entry, at, tries, first, last, part,
                 out, made, tried, faults, spoilt>>

WriteFile ==
  /\ st = "resolved" /\ call.op \in {"mkfile", "mkdir"} /\ Len(rest) <= 1
  /\ st' = "slots" /\ tries' = 0
  /\ UNCHANGED <<vars, data, buff, dir, call, rest, entry, at, first, last, part,
                 out, made, tried, faults, spoilt>>

(* One short entry, and a long one when there is a name at all. *)
Slots == 1 + Len(rest)

(* AllocateDirEntries: free slots from f on, as many as needed or up to    *)
(* the end mark; f is always below EntriesPerBuffer - entries.             *)
IsRun(f) ==
  /\ f <= DirSlots - Slots
  /\ \E k \in 0 .. Slots - 1 :
       /\ \A j \in 0 .. k - 1 : buff[f + j] = Free
       /\ buff[f + k] = End \/ (buff[f + k] = Free /\ k = Slots - 1)

Runs == {f \in SlotNumbers : IsRun(f)}

AllocateDirEntries ==
  /\ st = "slots" /\ Runs # {}
  /\ at' = (CHOOSE f \in Runs : \A g \in Runs : f <= g) - 1
  /\ st' = "name"
  /\ UNCHANGED <<vars, data, buff, dir, call, rest, entry, tries, first, last, part,
                 out, made, tried, faults, spoilt>>

NextDirCluster ==
  /\ st = "slots" /\ Runs = {} /\ tries + 1 < DIRMAXCLUSTERS
  /\ ReadEntry(dir.cur)
  /\ data' = FlushedDir
  /\ IF ret'.val < EOC
     THEN /\ dir' = [dir EXCEPT !.cur = ret'.val, !.dirty = FALSE]
          /\ buff' = data'[ret'.val]
          /\ UNCHANGED <<st, at>>
     ELSE /\ dir' = [dir EXCEPT !.dirty = FALSE]
          /\ UNCHANGED buff
          /\ IF tries + 1 >= DIRMAXCLUSTERS - 1
             THEN st' = "name" /\ at' = E_ERROR
             ELSE st' = "grow" /\ UNCHANGED at
  /\ tries' = tries + 1
  /\ UNCHANGED <<call, rest, entry, first, last, part, out, made, tried, faults, spoilt>>

DirTooLong ==
  /\ st = "slots" /\ Runs = {} /\ tries + 1 = DIRMAXCLUSTERS
  /\ at' = -1 /\ st' = "name"
  /\ UNCHANGED <<vars, data, buff, dir, call, rest, entry, tries, first, last, part,
                 out, made, tried, faults, spoilt>>

Grow ==
  /\ st = "grow"
  /\ AllocateCluster
  /\ st' = "growLink"
  /\ UNCHANGED <<data, buff, dir, call, rest, entry, at, tries, first, last, part,
                 out, made, tried, faults, spoilt>>

GrowLink ==
  /\ st = "growLink" /\ pc = "ready"
  /\ \/ /\ ret.op = "full"
        /\ at' = -1 /\ st' = "name"
        /\ UNCHANGED <<vars, first>>
     \/ /\ ret.op = "alloc"
        /\ WriteEntry(dir.cur, ret.cluster)
        /\ first' = ret.cluster
        /\ st' = "growEnd" /\ UNCHANGED at
  /\ UNCHANGED <<data, buff, dir, call, rest, entry, tries, last, part, out, made, tried, faults, spoilt>>

(* The new cluster is loaded as it is on the card: it is not cleared. *)
GrowEnd ==
  /\ st = "growEnd"
  /\ WriteEntry(first, EOC)
  /\ dir' = [dir EXCEPT !.cur = first]
  /\ buff' = data[first]
  /\ st' = "slots"
  /\ UNCHANGED <<data, call, rest, entry, at, tries, first, last, part, out, made, tried, faults, spoilt>>

(* WriteFile goes on whatever AllocateDirEntries returned; index -1 is     *)
(* outside the buffer, and what the program does then is undefined.        *)
WriteNames ==
  /\ st = "name" /\ at >= 0
  /\ buff' = IF rest = <<>> THEN buff ELSE [buff EXCEPT ![at + 1] = Long(Head(rest))]
  /\ dir' = [dir EXCEPT !.dirty = @ \/ rest # <<>>]
  /\ AllocateCluster
  /\ part' = 0
  /\ spoilt' = (spoilt \/ ~IsRun(at + 1))
  /\ st' = "data"
  /\ UNCHANGED <<data, call, rest, entry, at, tries, first, last, out, made, tried, faults>>

OutOfBuffer ==
  /\ st = "name" /\ at < 0
  /\ st' = "undefined"
  /\ UNCHANGED <<vars, data, buff, dir, call, rest, entry, at, tries, first, last, part,
                 out, made, tried, faults, spoilt>>

(* The answer of AllocateCluster is not looked at: 0x0FFFFFF7 is used as a *)
(* cluster.  Its sectors (fat32.c:448, 457) are past the end of a card and *)
(* refused (mmc.c:195), or with large clusters wrap to in front of the     *)
(* data area; its entry is behind a NULL pointer.                          *)
NoCluster ==
  /\ st = "data" /\ pc = "ready" /\ ret.op = "full"
  /\ st' = "undefined"
  /\ UNCHANGED <<vars, data, buff, dir, call, rest, entry, at, tries, first, last, part,
                 out, made, tried, faults, spoilt>>

WriteDataBehind ==  \* the cluster written is the one before the new one
  /\ st = "data" /\ pc = "ready" /\ ret.op = "alloc"
  /\ data' = IF call.size = 0 THEN data
             ELSE [data EXCEPT ![last] = Bytes(call.id, part + 1)]
  /\ IF part = 0
     THEN /\ first' = ret.cluster /\ last' = ret.cluster
          /\ st' = IF Clusters32(call.size) > 1 THEN "more" ELSE "end"
     ELSE st' = "link" /\ UNCHANGED <<first, last>>
  /\ part' = part + 1
  /\ UNCHANGED <<vars, buff, dir, call, rest, entry, at, tries, out, made, tried, faults, spoilt>>

WriteData ==
  /\ st = "data" /\ pc = "ready" /\ ret.op = "alloc"
  /\ data' = IF call.size = 0 THEN data
             ELSE [data EXCEPT ![ret.cluster] = Bytes(call.id, part + 1)]
  /\ IF part = 0
     THEN /\ first' = ret.cluster /\ last' = ret.cluster
          /\ st' = IF Clusters32(call.size) > 1 THEN "more" ELSE "end"
     ELSE st' = "link" /\ UNCHANGED <<first, last>>
  /\ part' = part + 1
  /\ UNCHANGED <<vars, buff, dir, call, rest, entry, at, tries, out, made, tried, faults, spoilt>>

LinkCluster ==
  /\ st = "link"
  /\ WriteEntry(last, ret.cluster)
  /\ last' = ret.cluster
  /\ st' = IF part < Clusters32(call.size) THEN "more" ELSE "end"
  /\ UNCHANGED <<data, buff, dir, call, rest, entry, at, tries, first, part,
                 out, made, tried, faults, spoilt>>

AllocateMore ==
  /\ st = "more"
  /\ AllocateCluster
  /\ st' = "data"
  /\ UNCHANGED <<data, buff, dir, call, rest, entry, at, tries, first, last, part,
                 out, made, tried, faults, spoilt>>

Attr == IF call.op = "mkdir" THEN "dir" ELSE "arch"

EndChain(clusters) ==
  /\ st = "end"
  /\ IF clusters = {} THEN UNCHANGED vars ELSE \E c \in clusters : WriteEntry(c, EOC)
  /\ buff' = [buff EXCEPT ![at + Slots] =
                Short(IF rest = <<>> THEN <<>> ELSE Upper(Head(rest)), Attr, first, call.size)]
  /\ dir' = [dir EXCEPT !.dirty = TRUE]
  /\ st' = "flushDir"
  /\ UNCHANGED <<data, call, rest, entry, at, tries, first, last, part, out, made, tried, faults, spoilt>>

(* The chain is ended at its first cluster, or not at all. *)
WriteSfnEntryCut == EndChain({first})
WriteSfnEntryOpen == EndChain({})

WriteSfnEntry ==
  /\ st = "end"
  /\ WriteEntry(last, EOC)
  /\ buff' = [buff EXCEPT ![at + Slots] =
                Short(IF rest = <<>> THEN <<>> ELSE Upper(Head(rest)), Attr, first, call.size)]
  /\ dir' = [dir EXCEPT !.dirty = TRUE]
  /\ st' = "flushDir"
  /\ UNCHANGED <<data, call, rest, entry, at, tries, first, last, part, out, made, tried, faults, spoilt>>

FlushDir ==
  /\ st = "flushDir"
  /\ data' = FlushedDir
  /\ dir' = [dir EXCEPT !.dirty = FALSE]
  /\ st' = "flushFat"
  /\ UNCHANGED <<vars, buff, call, rest, entry, at, tries, first, last, part,
                 out, made, tried, faults, spoilt>>

Returned == made' = IF rest = <<>> THEN made ELSE made \cup {call}

FlushTheFat ==
  /\ st = "flushFat"
  /\ FlushFat
  /\ IF call.op = "mkdir" THEN st' = "dots" /\ UNCHANGED made
                          ELSE st' = "idle" /\ Returned
  /\ UNCHANGED <<data, buff, dir, call, rest, entry, at, tries, first, last, part,
                 out, tried, faults, spoilt>>

(* Mkdir: ".." and "." go over the first two slots of the new cluster, the *)
(* other slots stay what they were on the card.                            *)
Dotted(slots) == [slots EXCEPT ![1] = Short(DotDot, "dir", dir.first, 0),
                               ![2] = Short(Dot, "dir", first, 0)]

WriteDots ==
  /\ st = "dots"
  /\ buff' = Dotted(data[first])
  /\ data' = [data EXCEPT ![first] = buff']
  /\ st' = "idle" /\ Returned
  /\ UNCHANGED <<vars, dir, call, rest, entry, at, tries, first, last, part, out, tried, faults, spoilt>>

Create == \/ RefuseName \/ WriteFile \/ AllocateDirEntries \/ NextDirCluster \/ DirTooLong
          \/ Grow \/ GrowLink \/ GrowEnd \/ WriteNames \/ OutOfBuffer \/ NoCluster
          \/ WriteData \/ LinkCluster \/ AllocateMore \/ WriteSfnEntry \/ FlushDir
          \/ FlushTheFat \/ WriteDots

-----------------------------------------------------------------------------
(* The size field of a slot read as an entry; bytes of a file may be any.  *)
SizesOf(slot) == CASE slot.kind = "short" -> {slot.size}
                   [] slot.kind = "end"   -> {0}
                   [] OTHER -> Sizes \cup {0}

NotFound ==
  /\ st = "resolved" /\ call.op \in {"readfile", "stat"} /\ rest # <<>>
  /\ st' = "idle"
  /\ UNCHANGED <<vars, data, buff, dir, call, rest, entry, at, tries, first, last, part,
                 out, made, tried, faults, spoilt>>

StatEntry ==
  /\ st = "resolved" /\ call.op = "stat" /\ rest = <<>>
  /\ \E size \in SizesOf(entry) : out' = <<size>>
  /\ st' = "idle"
  /\ UNCHANGED <<vars, data, buff, dir, call, rest, entry, at, tries, first, last, part,
                 made, tried, faults, spoilt>>

(* size is (uint32_t)-1 in loader.c, which stands for entry.size *)
BeginRead ==
  /\ st = "resolved" /\ call.op = "readfile" /\ rest = <<>>
  /\ \E size \in SizesOf(entry) : part' = size
  /\ st' = "read"
  /\ UNCHANGED <<vars, data, buff, dir, call, rest, entry, at, tries, first, last,
                 out, made, tried, faults, spoilt>>

ReadOver ==
  /\ st = "read" /\ Len(out) >= part
  /\ st' = "idle"
  /\ UNCHANGED <<vars, data, buff, dir, call, rest, entry, at, tries, first, last, part,
                 out, made, tried, faults, spoilt>>

ReadClusterLate ==  \* the next cluster is loaded before this one is copied
  /\ st = "read" /\ Len(out) < part
  /\ ReadEntry(dir.cur)
  /\ data' = FlushedDir
  /\ IF ret'.val >= EOC
     THEN st' = "idle" /\ dir' = [dir EXCEPT !.dirty = FALSE] /\ UNCHANGED buff
     ELSE /\ dir' = [dir EXCEPT !.cur = ret'.val, !.dirty = FALSE]
          /\ buff' = data'[ret'.val]
          /\ UNCHANGED st
  /\ out' = Append(out, buff')
  /\ UNCHANGED <<call, rest, entry, at, tries, first, last, part, made, tried, faults, spoilt>>

ReadCluster ==
  /\ st = "read" /\ Len(out) < part
  /\ out' = Append(out, buff)
  /\ ReadEntry(dir.cur)                      \* LoadNextCluster
  /\ data' = FlushedDir
  /\ IF ret'.val >= EOC
     THEN st' = "idle" /\ dir' = [dir EXCEPT !.dirty = FALSE] /\ UNCHANGED buff
     ELSE /\ dir' = [dir EXCEPT !.cur = ret'.val, !.dirty = FALSE]
          /\ buff' = data'[ret'.val]
          /\ UNCHANGED st
  /\ UNCHANGED <<call, rest, entry, at, tries, first, last, part, made, tried, faults, spoilt>>

Read == NotFound \/ StatEntry \/ BeginRead \/ ReadOver \/ ReadCluster

-----------------------------------------------------------------------------
(* What a table says of chains. *)
WordOf(f, c) == f[SectorOf(c)][OffsetOf(c)]

ChainIn(f, c) ==
  LET walk[n \in Nat] ==
        IF n = 0 THEN <<c>>
        ELSE LET w == walk[n - 1]
                 l == WordOf(f, w[Len(w)]).lo
             IN  IF l \in Cluster \ {0, 1} THEN Append(w, l) ELSE w
  IN  walk[FatSectors * EntriesPerSector]

MembersIn(f, c) == {ChainIn(f, c)[n] : n \in DOMAIN ChainIn(f, c)}
EndIn(f, c) == WordOf(f, ChainIn(f, c)[Len(ChainIn(f, c))]).lo

(* What the card says, with the window and the buffers set aside. *)
Chain(c) == ChainIn(disk, c)
Members(c) == MembersIn(disk, c)

(* Entries of the directory that starts at cluster d, as places <<c, i>>. *)
EntriesIn(d) ==
  {e \in Members(d) \X SlotNumbers :
     /\ data[e[1]][e[2]].kind = "short"
     /\ data[e[1]][e[2]].name \notin {Dot, DotDot}
     /\ \A j \in 1 .. e[2] : data[e[1]][j] # End}

At(e) == data[e[1]][e[2]]
IsNamed(e, name) == e[2] > 1 /\ data[e[1]][e[2] - 1] = Long(name)

SubDirs(ds) == UNION {{At(e).cluster : e \in {x \in EntriesIn(d) : At(x).attr = "dir"}} : d \in ds}
Dirs == {Root} \cup SubDirs({Root}) \cup SubDirs(SubDirs({Root}))

CardEntries == UNION {EntriesIn(d) : d \in Dirs}

(* An empty file written elsewhere has cluster 0, and no chain. *)
WithChain == {e \in CardEntries : At(e).cluster # 0}

(* With the table f the directory at hand goes on in a cluster that is     *)
(* free or only reserved, or its names are in one it does not lead to:     *)
(* power was lost while it grew.                                           *)
HalfGrown(f) ==
  \/ WordOf(f, dir.first).lo \notin {0, 1} /\ EndIn(f, dir.first) \in {0, 1}
  \/ st \in {"flushDir", "flushFat"} /\ dir.cur \notin MembersIn(f, dir.first)

-----------------------------------------------------------------------------
(***************************************************************************)
(* Reads of a directory or of a file that fail: mmc_bread has put the      *)
(* first slots of the cluster into the buffer, behind them is what was     *)
(* there before.                                                           *)
(***************************************************************************)
Upto(n, new, old) == [i \in SlotNumbers |-> IF i <= n THEN new[i] ELSE old[i]]
CutShort(slots) == {Upto(n, slots, buff) : n \in 0 .. DirSlots - 1}

Fails == faults < MaxFaults /\ faults' = faults + 1
Failing == Fails /\ spoilt' = TRUE

(* ResolvePath returns before it sets *remaining: a call of any kind gives *)
(* up at once, and none is left.                                           *)
CallFails ==
  /\ st = "idle" /\ call.id < MaxCalls /\ Fails
  /\ call' = [NoCall EXCEPT !.id = call.id + 1]
  /\ dir' = [first |-> Root, cur |-> Root, dirty |-> FALSE]
  /\ buff' \in CutShort(data[Root])
  /\ out' = <<>>
  /\ UNCHANGED <<vars, data, st, rest, entry, at, tries, first, last, part, made, tried, spoilt>>

DescendFails ==  \* fat32.c:687, whose answer is not looked at
  /\ st = "search" /\ rest # <<>> /\ Failing
  /\ \E i \in SlotNumbers :
       /\ Found(i, Head(rest))
       /\ LET c == buff[i].cluster
          IN  /\ dir' = [first |-> c, cur |-> c, dirty |-> FALSE]
              /\ buff' \in CutShort(data[c])
              /\ entry' = buff'[i]
  /\ rest' = Tail(rest) /\ tries' = 0
  /\ UNCHANGED <<vars, data, st, call, at, first, last, part, out, made, tried>>

(* What the three walks over a chain have in common: the flush, the link   *)
(* and a next cluster that is not read whole.                              *)
NextUnread ==
  /\ Fails
  /\ ReadEntry(dir.cur) /\ ret'.val < EOC
  /\ data' = FlushedDir
  /\ dir' = [dir EXCEPT !.cur = ret'.val, !.dirty = FALSE]
  /\ buff' \in CutShort(data'[ret'.val])

SearchFails ==  \* for ResolvePath a name that is not there
  /\ st = "search" /\ rest # <<>> /\ tries + 1 < DIRMAXCLUSTERS
  /\ ~\E i \in SlotNumbers : Found(i, Head(rest))
  /\ NextUnread
  /\ st' = "resolved" /\ spoilt' = (spoilt \/ call.op \in {"mkfile", "mkdir"})
  /\ UNCHANGED <<call, rest, entry, at, tries, first, last, part, out, made, tried>>

NextDirFails ==
  /\ st = "slots" /\ Runs = {} /\ tries + 1 < DIRMAXCLUSTERS
  /\ NextUnread /\ spoilt' = TRUE
  /\ at' = -1 /\ st' = "name"
  /\ UNCHANGED <<call, rest, entry, tries, first, last, part, out, made, tried>>

GrowEndFails ==
  /\ st = "growEnd" /\ Failing
  /\ WriteEntry(first, EOC)
  /\ dir' = [dir EXCEPT !.cur = first]
  /\ buff' \in CutShort(data[first])
  /\ at' = -1 /\ st' = "name"
  /\ UNCHANGED <<data, call, rest, entry, tries, first, last, part, out, made, tried>>

ReadClusterFails ==  \* ReadFile returns what it has
  /\ st = "read" /\ Len(out) < part
  /\ out' = Append(out, buff)
  /\ NextUnread
  /\ st' = "idle"
  /\ UNCHANGED <<call, rest, entry, at, tries, first, last, part, made, tried, spoilt>>

DotsFail ==  \* fat32.c:836, not looked at: slots of the parent go to the new cluster
  /\ st = "dots" /\ Failing
  /\ \E slots \in CutShort(data[first]) : buff' = Dotted(slots)
  /\ data' = [data EXCEPT ![first] = buff']
  /\ st' = "idle" /\ Returned
  /\ UNCHANGED <<vars, dir, call, rest, entry, at, tries, first, last, part, out, tried>>

LoadFails == \/ CallFails \/ DescendFails \/ SearchFails \/ NextDirFails \/ GrowEndFails
             \/ ReadClusterFails \/ DotsFail

-----------------------------------------------------------------------------
(* The cluster that is being written, and its new content. *)
Writing ==
  CASE st = "flushDir" -> {<<dir.cur, buff>>}
    [] st = "dots" -> {<<first, Dotted(data[first])>>}
    [] st = "data" /\ pc = "ready" /\ ret.op = "alloc" /\ call.size > 0
         -> {<<ret.cluster, Bytes(call.id, part + 1)>>}
    [] OTHER -> {}

(* The sectors of the FAT that the next step asks for: a dirty window they *)
(* are not in is saved first (fat32.c:109).                                *)
AskedFor ==
  IF pc = "scan"
  THEN {s \in {0, sector + FATBUFFBLOCKS} :
          NoFree /\ sectourCount > 0 /\ (s = 0 <=> sector + FATBUFFBLOCKS >= FatSectors)}
  ELSE CASE st = "growLink" /\ ret.op = "alloc" -> {SectorOf(dir.cur)}
         [] st = "growEnd" -> {SectorOf(first)}
         [] st \in {"link", "end"} -> {SectorOf(last)}
         [] OTHER -> {}

SavingFat == fatDirty /\ (st = "flushFat" \/ \E s \in AskedFor : ~InWindow(s))

(* Power is lost: memory goes, the card stays, with a prefix of the        *)
(* transfer that was under way.  Fat32Init starts again with no window.    *)
Crash ==
  /\ st \notin {"idle", "undefined"} /\ faults < MaxFaults
  /\ faults' = faults + 1
  /\ \/ /\ \E w \in Writing, n \in 0 .. DirSlots :
             data' = [data EXCEPT ![w[1]] = Upto(n, w[2], @)]
        /\ UNCHANGED disk
     \/ /\ SavingFat
        /\ \E n \in 0 .. FATBUFFBLOCKS :
             disk' = [s \in Sectors |-> IF fatBuffNum <= s /\ s < fatBuffNum + n
                                        THEN fatBuff[s - fatBuffNum] ELSE disk[s]]
        /\ UNCHANGED data
     \/ UNCHANGED <<disk, data>>
  /\ spoilt' = (spoilt \/ HalfGrown(disk'))
  /\ fatBuffNum' = -1 /\ fatDirty' = FALSE
  /\ fatBuff' = [k \in Blocks |-> [o \in Offsets |-> Zero]]
  /\ pc' = "ready" /\ sector' = 0 /\ sectourCount' = 0 /\ ret' = [op |-> "none"]
  /\ buff' = [n \in SlotNumbers |-> End] /\ dir' = NoDir
  /\ st' = "idle" /\ rest' = <<>> /\ entry' = End
  /\ at' = 0 /\ tries' = 0 /\ first' = 0 /\ last' = 0 /\ part' = 0 /\ out' = <<>>
  /\ UNCHANGED <<call, made, tried>>

Allocating == Scan /\ UNCHANGED volVars

Calls == MkFile \/ Mkdir \/ ReadFile \/ Stat
Steps == Search \/ Create \/ Read

VolNext == Calls \/ Steps \/ Allocating \/ LoadFails \/ Crash

VolSpec == VolInit /\ [][VolNext]_allVars

(* The calls run to their end: the code is sequential and polls nothing. *)
Step == Steps \/ Allocating
FairVolSpec == VolSpec /\ WF_allVars(Step)

(* A scan that reaches the end of the FAT from a window that does not      *)
(* divide it returns a cluster it has not reserved (fat32.c:193,           *)
(* AllocReturnsReserved), and then the volume is damaged.  The behaviours  *)
(* in which no scan does:                                                  *)
ScanAligned == pc = "scan" => sector = fatBuffNum
AllocatingAligned == Allocating /\ ScanAligned'
AlignedNext == Calls \/ Steps \/ AllocatingAligned \/ LoadFails \/ Crash
AlignedSpec == VolInit /\ [][AlignedNext]_allVars /\ WF_allVars(Step)
-----------------------------------------------------------------------------
TypeOKVol ==
  /\ TypeOK
  /\ DOMAIN data = Cluster /\ \A c \in Cluster : DOMAIN data[c] = SlotNumbers
  /\ DOMAIN buff = SlotNumbers
  /\ dir \in [first : Cluster, cur : Cluster, dirty : BOOLEAN]
  /\ st \in {"idle", "search", "resolved", "slots", "grow", "growLink", "growEnd", "name",
             "data", "more", "link", "end", "flushDir", "flushFat", "dots", "read",
             "undefined"}
  /\ at \in -1 .. DirSlots - 1 /\ tries \in 0 .. DIRMAXCLUSTERS
  /\ {first, last} \subseteq Cluster /\ part \in 0 .. FatSectors * EntriesPerSector
  /\ faults \in 0 .. MaxFaults

ParentOf(path) ==
  IF Len(path) = 1 THEN {Root}
  ELSE {At(e).cluster : e \in {x \in EntriesIn(Root) : IsNamed(x, Head(path))}}

(* A file or directory that a call made is found under its name, with its  *)
(* chain and, cluster by cluster, its bytes.                               *)
Intact(m) ==
  \E d \in ParentOf(m.path) : \E e \in EntriesIn(d) :
    /\ IsNamed(e, m.path[Len(m.path)])
    /\ At(e).size = m.size
    /\ LET ch == Chain(At(e).cluster)
       IN  IF m.op = "mkfile"
           THEN /\ Len(ch) = Clusters32(m.size)
                /\ \A k \in 1 .. m.size : data[ch[k]] = Bytes(m.id, k)
           ELSE /\ At(e).attr = "dir"
                /\ data[ch[1]][1] = Short(DotDot, "dir", d, 0)
                /\ data[ch[1]][2] = Short(Dot, "dir", ch[1], 0)

(***************************************************************************)
(* A volume whose table is f and whose clusters are d is sound: chains     *)
(* join used entries, no two meet, and none stops short but at an entry in *)
(* open; every name has a used cluster, which heads a chain of its own,    *)
(* and the bytes of a file are there.                                      *)
(***************************************************************************)
InUse(f, c)   == c \in Cluster /\ WordOf(f, c) # Zero
LeadsTo(f, c) == \E k \in Cluster : WordOf(f, k).lo = c

TableSound(f, open) ==
  /\ InUse(f, 0) /\ InUse(f, 1) /\ InUse(f, Root) /\ ~LeadsTo(f, Root)
  /\ \A c \in Cluster : WordOf(f, c).lo >= EOC \/ InUse(f, WordOf(f, c).lo)
  /\ \A c \in Cluster \ open : InUse(f, c) => WordOf(f, c).lo \notin {0, 1}
  /\ \A c, k \in Cluster :
       WordOf(f, c).lo = WordOf(f, k).lo /\ WordOf(f, c).lo \in Cluster \ {0, 1} => c = k

IsName(d, c, i) == d[c][i].kind = "short"
IsHead(d, c, i) == IsName(d, c, i) /\ d[c][i].cluster # 0 /\ d[c][i].name \notin {Dot, DotDot}
HasBytes(d, c)  == d[c][1].kind = "bytes" /\ d[c][1].part = 1

NamesSound(f, d) ==
  /\ \A c \in Cluster, i \in SlotNumbers :
       /\ IsName(d, c, i) => InUse(f, d[c][i].cluster)
       /\ IsHead(d, c, i) => d[c][i].cluster \notin {1, Root} /\ ~LeadsTo(f, d[c][i].cluster)
       /\ IsName(d, c, i) /\ d[c][i].attr = "arch" /\ d[c][i].size > 0
            => HasBytes(d, d[c][i].cluster)
  /\ \A c, k \in Cluster, i, j \in SlotNumbers :
       IsHead(d, c, i) /\ IsHead(d, k, j) /\ d[c][i].cluster = d[k][j].cluster
         => c = k /\ i = j

Sound(f, d, open) == TableSound(f, open) /\ NamesSound(f, d)

(* Formatted cards, and cards whose files are whole. *)
CardsSound == \A card \in InitCards : Sound(card.disk, card.data, {})

(* A power loss between fat32.c:470 and 473 leaves the name of a directory *)
(* whose cluster is free, and will be given to another file: what is made  *)
(* below such a name is written over that file.                            *)
BelowUnfinished ==
  \E p \in tried : \E k \in 1 .. Len(p) - 1 :
    /\ SubSeq(p, 1, k) \in tried
    /\ \A m \in made : m.path # SubSeq(p, 1, k)

(* What MkFile or Mkdir has returned from stays on the card, byte for      *)
(* byte: at every step of any later call, and after a power loss at any    *)
(* point of one (WriteFile writes only to free clusters and free slots),   *)
(* unless a call went on after a read that failed, a directory was half    *)
(* grown when power was lost or reached the limit of its length (the index *)
(* that AllocateDirEntries returns is then one of slots in use), or        *)
(* something is made below a directory that the power loss left behind.    *)
CreatedFilesStay == spoilt \/ BelowUnfinished \/ \A m \in made : Intact(m)

(* No two entries of the card share a cluster and none shares one with the *)
(* root, neither by the links on the card nor by those of the window over  *)
(* them; and every chain ends there, but that of a directory between the   *)
(* two entries that make it longer (fat32.c:236 and 237): true at each     *)
(* step of WriteFile, wherever the windows fall, as long as nothing fails. *)
NoCrossLink ==
  faults = 0 =>
    /\ st # "growEnd" => \A e \in WithChain : EndIn(Logical, At(e).cluster) >= EOC
    /\ \A f \in {disk, Logical} : \A e \in WithChain :
         /\ MembersIn(f, At(e).cluster) \cap MembersIn(f, Root) = {}
         /\ \A o \in WithChain \ {e} :
              MembersIn(f, At(e).cluster) \cap MembersIn(f, At(o).cluster) = {}

(* fat32.c:470 makes an entry visible only after the data it names: while  *)
(* power holds, the first cluster of every file on the card holds bytes.   *)
DataBeforeName ==
  faults = 0 =>
    \A e \in CardEntries :
      At(e).attr = "arch" /\ At(e).size > 0
        => data[At(e).cluster][1].kind = "bytes" /\ data[At(e).cluster][1].part = 1

(* What ReadFile copies is the beginning of the file, never a cluster of   *)
(* another one, whatever size it believes the file has.                    *)
ReadIsPrefix ==
  spoilt \/ BelowUnfinished \/ \A m \in made :
    call.op = "readfile" /\ call.path = m.path /\ m.op = "mkfile" /\ m.size > 0 =>
      \A k \in 1 .. Len(out) : k <= m.size /\ out[k] = Bytes(m.id, k)

(* Every call ends: searches and chains are finite, also after a crash. *)
CallsEnd == st # "idle" ~> st \in {"idle", "undefined"}

-----------------------------------------------------------------------------
(* fat32.h:101 "total size, in bytes": Stat stores the size of the file. *)
StatIsSize ==
  \A m \in made :
    call.op = "stat" /\ call.path = m.path /\ out # <<>> => out = <<m.size>>

(* fat32.c:854 "Resolve path and get parent dir": what WriteFile is given  *)
(* as the parent is a directory.                                           *)
ParentIsDirectory == st = "slots" => dir.first \in Dirs

(* The same line: of a path with a name left to make, it is the one that   *)
(* the path names.                                                         *)
ParentIsNamed == st = "slots" /\ rest # <<>> => dir.first \in ParentOf(call.path)

(* The entries that a path names, on the card. *)
PlacesOf(path) ==
  {e \in UNION {EntriesIn(d) : d \in ParentOf(path)} : IsNamed(e, path[Len(path)])}

(* fat32.c:614 "Ensure we compare the terminator": a path that is found    *)
(* resolves to an entry that it names.                                     *)
FoundIsNamed ==
  st = "resolved" /\ rest = <<>> =>
    \E e \in PlacesOf(call.path) : At(e).cluster = dir.first

(* A path that has been made names one entry: MkFile and Mkdir make it     *)
(* when the search (fat32.c:560) has seen the directory without finding it.*)
NamedOnce == \A m \in made : \A e, f \in PlacesOf(m.path) : e = f

(* fat32.c:426 "At this point parent has buffer allocated for us to write  *)
(* the dir entries": the slots WriteFile goes on to write are free.        *)
EntriesAllocated == st = "name" => at >= 0 /\ IsRun(at + 1)

(* The same line, of an index that is one: -1 writes no slot of the card.  *)
SlotsAreFree == st = "name" /\ at >= 0 => IsRun(at + 1)

(* What WriteFile takes for granted of its parent and of its slots.        *)
Orderly == ParentIsDirectory /\ ParentIsNamed /\ SlotsAreFree
=============================================================================
