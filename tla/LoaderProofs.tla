----------------------------- MODULE LoaderProofs -----------------------------
(***************************************************************************)
(* The loader: the applications it starts on the cores and the file it     *)
(* reads from the card.  For every number of cores and every set of jobs,  *)
(* a released core is powered, and if commands are typed slower than       *)
(* boot_sec runs, a core runs exactly the job of the command that released *)
(* it.  For every volume in order and every place of the buffers, what     *)
(* "load sd" reports is the beginning of the file, and it changes no       *)
(* memory but that of the file and the buffers.                            *)
(***************************************************************************)
EXTENDS MultiCore, Startup, WellFoundedInduction, TLAPS

-----------------------------------------------------------------------------
(* Starting applications on the cores. *)

Starting == {"start", "ungate", "powerOn", "release"}

(* A core outside reset is powered and clocked, and StartCore has done to  *)
(* its argument what its next step relies on.                              *)
PowerInv ==
  /\ st \in Starting => next \in Secondary
  /\ st \in {"ungate", "powerOn", "release"} =>
       startAddr = "boot_sec" /\ next \in reset /\ cpu[next].at = "off"
  /\ st \in {"powerOn", "release"} => next \notin gated
  /\ st = "release" => next \notin off
  /\ CoresPowered

JobRecord == [addr : Nat, arg0 : Nat, arg1 : Nat]
CpuRecord == [at : Fetching \cup {"off", "lost", "run"}, r0 : Nat, r1 : Nat, pc : Nat]

LEMMA TypeInit == Init => TypeOK
BY CoresAssumption, BoundAssumption
   DEF Init, TypeOK, NoJob, Stopped, Targets, Secondary, Fetching

LEMMA JobIsRecord == TypeOK => go.job \in JobRecord
BY JobsAssumption DEF TypeOK, JobRecord, NoJob

(* A core that goes on to another place keeps its registers. *)
LEMMA RecordKept ==
  ASSUME NEW f \in [Secondary -> CpuRecord], NEW c, NEW a \in Fetching \cup {"off", "lost", "run"}
  PROVE  [f EXCEPT ![c].at = a] \in [Secondary -> CpuRecord]
<1> SUFFICES ASSUME NEW d \in Secondary PROVE [f EXCEPT ![c].at = a][d] \in CpuRecord OBVIOUS
<1>1. f[d] \in CpuRecord OBVIOUS
<1>2. [f[d] EXCEPT !.at = a] \in CpuRecord BY ONLY <1>1 DEF CpuRecord
<1> QED BY <1>1, <1>2

LEMMA TypeNext == TypeOK /\ PowerInv /\ [Next]_vars => TypeOK'
<1> SUFFICES ASSUME TypeOK, PowerInv, [Next]_vars PROVE TypeOK' OBVIOUS
<1> USE DEF TypeOK
<1>0. /\ go.job \in JobRecord /\ bootParam \in JobRecord
      /\ cpu \in [Secondary -> CpuRecord] /\ CPU_CORE_COUNT \in 2 .. 4
  BY JobIsRecord, CoresAssumption DEF JobRecord, CpuRecord
<1>1. CASE Go BY <1>1, BoundAssumption DEF Go, power
<1>2. CASE SetAddr BY <1>2, <1>0 DEF SetAddr, power, JobRecord
<1>3. CASE SetArg0 BY <1>3, <1>0 DEF SetArg0, power, JobRecord
<1>4. CASE SetArg1 BY <1>4, <1>0 DEF SetArg1, power, JobRecord
<1>5. CASE Dispatch
  <2>1. next' \in 0 .. CPU_CORE_COUNT - 1 BY <1>5, <1>0 DEF Dispatch, Secondary
  <2> QED BY <1>5, <2>1 DEF Dispatch, power
<1>6. CASE Hold
  <2>1. cpu' \in [Secondary -> CpuRecord]
    BY <1>6, <1>0 DEF Hold, Stopped, CpuRecord, Fetching
  <2>2. reset' \subseteq Secondary
    BY <1>6 DEF Hold, PowerInv, Starting
  <2> QED BY <1>6, <2>1, <2>2 DEF Hold, CpuRecord
<1>7. CASE Ungate BY <1>7 DEF Ungate
<1>8. CASE PowerOn BY <1>8 DEF PowerOn
<1>9. CASE Release
  <2>1. cpu' \in [Secondary -> CpuRecord]
    <3>1. \/ cpu' = [cpu EXCEPT ![next].at = "arg0"]
          \/ cpu' = [cpu EXCEPT ![next].at = "lost"]
      BY <1>9 DEF Release
    <3>2. CASE cpu' = [cpu EXCEPT ![next].at = "arg0"]
      BY ONLY <3>2, <1>0, RecordKept DEF Fetching
    <3>3. CASE cpu' = [cpu EXCEPT ![next].at = "lost"]
      BY ONLY <3>3, <1>0, RecordKept DEF Fetching
    <3> QED BY <3>1, <3>2, <3>3
  <2>2. given' \in [Secondary -> Jobs \cup {NoJob}] BY <1>9 DEF Release
  <2>3. next' \in 0 .. CPU_CORE_COUNT - 1 BY <1>9, <1>0 DEF Release
  <2> QED BY <1>9, <2>1, <2>2, <2>3 DEF Release, CpuRecord
<1>10. CASE AppReturns BY <1>10 DEF AppReturns, power
<1>11. ASSUME NEW c \in Secondary, boot_sec(c) PROVE TypeOK'
  <2>1. cpu' \in [Secondary -> CpuRecord]
    BY <1>11, <1>0 DEF boot_sec, LoadArg0, LoadArg1, Jump, CpuRecord, JobRecord, Fetching
  <2> QED BY <1>11, <2>1 DEF boot_sec, LoadArg0, LoadArg1, Jump, power, CpuRecord
<1>12. CASE UNCHANGED vars BY <1>12 DEF vars, power
<1> QED BY <1>1, <1>2, <1>3, <1>4, <1>5, <1>6, <1>7, <1>8, <1>9, <1>10, <1>11, <1>12
        DEF Next, Core0

LEMMA PowerInit == Init => PowerInv
BY DEF Init, PowerInv, CoresPowered, Starting, Stopped

LEMMA PowerNext == TypeOK /\ PowerInv /\ [Next]_vars => PowerInv'
<1> USE CoresAssumption, AllAssumption DEF PowerInv, CoresPowered, Starting, Secondary, Fetching
<1> SUFFICES ASSUME TypeOK, PowerInv, [Next]_vars PROVE PowerInv' OBVIOUS
<1>1. CASE Go BY <1>1 DEF Go, power
<1>2. CASE SetAddr BY <1>2 DEF SetAddr, power
<1>3. CASE SetArg0 BY <1>3 DEF SetArg0, power
<1>4. CASE SetArg1 BY <1>4 DEF SetArg1, power
<1>5. CASE Dispatch BY <1>5 DEF Dispatch, power
<1>6. CASE Hold BY <1>6 DEF Hold, Stopped, TypeOK
<1>7. CASE Ungate BY <1>7 DEF Ungate
<1>8. CASE PowerOn BY <1>8 DEF PowerOn
<1>9. CASE Release BY <1>9, SMTT(60) DEF Release, Runnable, TypeOK
<1>10. CASE AppReturns BY <1>10 DEF AppReturns, power
<1>11. ASSUME NEW c \in Secondary, boot_sec(c) PROVE PowerInv'
  <2>1. CASE LoadArg0(c) BY <2>1 DEF LoadArg0, power, TypeOK
  <2>2. CASE LoadArg1(c) BY <2>2 DEF LoadArg1, power, TypeOK
  <2>3. CASE Jump(c) BY <2>3 DEF Jump, power, TypeOK
  <2> QED BY <1>11, <2>1, <2>2, <2>3 DEF boot_sec
<1>12. CASE UNCHANGED vars BY <1>12 DEF vars, power
<1> QED BY <1>1, <1>2, <1>3, <1>4, <1>5, <1>6, <1>7, <1>8, <1>9, <1>10, <1>11, <1>12
        DEF Next, Core0

(* cpucfg.c:35: StartCore never lets a core run that is not powered,       *)
(* clocked and given a start address, for any number of cores.             *)
THEOREM PoweredCores == Spec => [](TypeOK /\ CoresPowered)
<1>1. Init => TypeOK /\ PowerInv BY TypeInit, PowerInit
<1>2. TypeOK /\ PowerInv /\ [Next]_vars => (TypeOK /\ PowerInv)' BY TypeNext, PowerNext
<1>3. PowerInv => CoresPowered BY DEF PowerInv
<1> QED BY <1>1, <1>2, <1>3, PTL DEF Spec

-----------------------------------------------------------------------------
(* _SetBoot has stored as much of the job as its next step says. *)
StoredInv ==
  /\ st \in {"dispatch"} \cup Starting => bootParam = go.job
  /\ st \in {"setArg0", "setArg1"} => bootParam.addr = go.job.addr
  /\ st = "setArg1" => bootParam.arg0 = go.job.arg0

(* While a core loads its words they are those of its own command, and     *)
(* what it has loaded already is what they still say.                      *)
FetchInv ==
  \A c \in Secondary :
    /\ cpu[c].at \in Fetching =>
         given[c] = bootParam /\ st \in {"prompt", "app"} \cup Starting
    /\ cpu[c].at \in {"arg1", "jump", "run"} => cpu[c].r0 = given[c].arg0
    /\ cpu[c].at \in {"jump", "run"} => cpu[c].r1 = given[c].arg1
    /\ cpu[c].at = "run" => cpu[c].pc = given[c].addr

HandOver == StoredInv /\ FetchInv

LEMMA HandOverInit == Init => HandOver
BY DEF Init, HandOver, StoredInv, FetchInv, Stopped, Fetching, Starting

LEMMA StoredNext == TypeOK /\ HandOver /\ [Next]_vars => StoredInv'
<1> USE JobsAssumption DEF HandOver, StoredInv, Starting, TypeOK, NoJob
<1> SUFFICES ASSUME TypeOK, HandOver, [Next]_vars PROVE StoredInv' OBVIOUS
<1>1. CASE Go BY <1>1 DEF Go
<1>2. CASE SetAddr BY <1>2 DEF SetAddr
<1>3. CASE SetArg0 BY <1>3 DEF SetArg0
<1>4. CASE SetArg1 BY <1>4 DEF SetArg1
<1>5. CASE Dispatch BY <1>5 DEF Dispatch
<1>6. CASE Hold BY <1>6 DEF Hold
<1>7. CASE Ungate BY <1>7 DEF Ungate
<1>8. CASE PowerOn BY <1>8 DEF PowerOn
<1>9. CASE Release BY <1>9 DEF Release
<1>10. CASE AppReturns BY <1>10 DEF AppReturns
<1>11. ASSUME NEW c \in Secondary, boot_sec(c) PROVE StoredInv'
  BY <1>11 DEF boot_sec, LoadArg0, LoadArg1, Jump
<1>12. CASE UNCHANGED vars BY <1>12 DEF vars
<1> QED BY <1>1, <1>2, <1>3, <1>4, <1>5, <1>6, <1>7, <1>8, <1>9, <1>10, <1>11, <1>12
        DEF Next, Core0

LEMMA FetchNext ==
  ASSUME Patient PROVE TypeOK /\ PowerInv /\ HandOver /\ [Next]_vars => FetchInv'
<1> USE DEF HandOver, FetchInv, Fetching, Starting
<1> SUFFICES ASSUME TypeOK, PowerInv, HandOver, [Next]_vars PROVE FetchInv' OBVIOUS
<1>1. CASE Go BY <1>1, Patient DEF Go
<1>2. CASE SetAddr BY <1>2 DEF SetAddr
<1>3. CASE SetArg0 BY <1>3 DEF SetArg0
<1>4. CASE SetArg1 BY <1>4 DEF SetArg1
<1>5. CASE Dispatch BY <1>5 DEF Dispatch
<1>6. CASE Hold BY <1>6 DEF Hold, Stopped, TypeOK
<1>7. CASE Ungate BY <1>7 DEF Ungate
<1>8. CASE PowerOn BY <1>8 DEF PowerOn
<1>9. CASE Release
  <2>1. bootParam = go.job /\ next \in Secondary /\ cpu[next].at = "off"
    BY <1>9 DEF Release, StoredInv, PowerInv
  <2>2. cpu' = [cpu EXCEPT ![next].at = "arg0"] \/ cpu' = [cpu EXCEPT ![next].at = "lost"]
    BY <1>9 DEF Release
  <2>3. /\ given' = [given EXCEPT ![next] = go.job] /\ bootParam' = bootParam
        /\ st = "release" /\ st' \in {"prompt", "app"} \cup Starting
    BY <1>9 DEF Release
  <2> QED BY <2>1, <2>2, <2>3 DEF TypeOK
<1>10. CASE AppReturns BY <1>10 DEF AppReturns
<1>11. ASSUME NEW c \in Secondary, boot_sec(c) PROVE FetchInv'
  <2>1. CASE LoadArg0(c) BY <2>1 DEF LoadArg0, TypeOK
  <2>2. CASE LoadArg1(c) BY <2>2 DEF LoadArg1, TypeOK
  <2>3. CASE Jump(c) BY <2>3 DEF Jump, TypeOK
  <2> QED BY <1>11, <2>1, <2>2, <2>3 DEF boot_sec
<1>12. CASE UNCHANGED vars BY <1>12 DEF vars
<1> QED BY <1>1, <1>2, <1>3, <1>4, <1>5, <1>6, <1>7, <1>8, <1>9, <1>10, <1>11, <1>12
        DEF Next, Core0

LEMMA HandOverRuns == TypeOK /\ HandOver => RunsItsJob
BY JobsAssumption DEF TypeOK, HandOver, FetchInv, RunsItsJob, Runs, NoJob

(* boot.S:93: a core runs the entry point and the arguments of the command *)
(* that released it, for any number of cores and any jobs, provided a      *)
(* command takes longer to type than boot_sec takes to run.                *)
THEOREM OwnJob == Patient => (Spec => []RunsItsJob)
<1> SUFFICES ASSUME Patient PROVE Spec => []RunsItsJob OBVIOUS
<1> DEFINE Inv == TypeOK /\ PowerInv /\ HandOver
<1>1. Init => Inv BY TypeInit, PowerInit, HandOverInit
<1>2. Inv /\ [Next]_vars => Inv'
  BY TypeNext, PowerNext, StoredNext, FetchNext DEF HandOver
<1>3. Inv => RunsItsJob BY HandOverRuns
<1> QED BY <1>1, <1>2, <1>3, PTL DEF Spec

-----------------------------------------------------------------------------
(* The core that StartCore works on is one the command names. *)
NamedInv == st \in Starting => go.core \in {next, All}

LEMMA NamedNext == NamedInv /\ [Next]_vars => NamedInv'
<1> USE DEF NamedInv, Starting
<1> SUFFICES ASSUME NamedInv, [Next]_vars PROVE NamedInv' OBVIOUS
<1>1. CASE Go BY <1>1 DEF Go
<1>2. CASE Core0
  BY <1>2 DEF Core0, SetAddr, SetArg0, SetArg1, Dispatch, Hold, Ungate, PowerOn, Release
<1>3. CASE AppReturns BY <1>3 DEF AppReturns
<1>4. ASSUME NEW c \in Secondary, boot_sec(c) PROVE NamedInv'
  BY <1>4 DEF boot_sec, LoadArg0, LoadArg1, Jump
<1>5. CASE UNCHANGED vars BY <1>5 DEF vars
<1> QED BY <1>1, <1>2, <1>3, <1>4, <1>5 DEF Next

(* A core that runs is changed by Hold only, a core being released and one *)
(* that fetches are not running.                                           *)
LEMMA RunningNext ==
  TypeOK /\ PowerInv /\ NamedInv /\ [Next]_vars
    => \A c \in Secondary : cpu[c].at = "run" /\ cpu'[c] # cpu[c] => c \in Targeted
<1> SUFFICES ASSUME TypeOK, PowerInv, NamedInv, [Next]_vars, NEW c \in Secondary,
                    cpu[c].at = "run", cpu'[c] # cpu[c]
             PROVE  c \in Targeted
  OBVIOUS
<1>1. CASE Go BY <1>1 DEF Go
<1>2. CASE Core0
  <2>1. CASE Hold
    <3>1. c = next BY <2>1 DEF Hold, TypeOK
    <3> QED BY <2>1, <3>1 DEF Hold, NamedInv, Starting, Targeted
  <2>2. CASE Release
    <3>1. cpu[next].at = "off" BY <2>2 DEF Release, PowerInv
    <3>2. c # next BY <3>1
    <3> QED BY <2>2, <3>2 DEF Release, TypeOK
  <2>3. CASE SetAddr \/ SetArg0 \/ SetArg1 \/ Dispatch \/ Ungate \/ PowerOn
    BY <2>3 DEF SetAddr, SetArg0, SetArg1, Dispatch, Ungate, PowerOn
  <2> QED BY <1>2, <2>1, <2>2, <2>3 DEF Core0
<1>3. CASE AppReturns BY <1>3 DEF AppReturns
<1>4. ASSUME NEW d \in Secondary, boot_sec(d) PROVE c \in Targeted
  BY <1>4 DEF boot_sec, LoadArg0, LoadArg1, Jump, TypeOK
<1>5. CASE UNCHANGED vars BY <1>5 DEF vars
<1> QED BY <1>1, <1>2, <1>3, <1>4, <1>5 DEF Next

(* loader.c:91: whatever commands follow one another, a core that runs is  *)
(* disturbed only by a command that names it.                              *)
THEOREM OthersUndisturbed == Spec => OthersKeepRunning
<1> DEFINE Inv == TypeOK /\ PowerInv /\ NamedInv
<1>1. Init => Inv BY TypeInit, PowerInit DEF Init, NamedInv, Starting
<1>2. Inv /\ [Next]_vars => Inv' BY TypeNext, PowerNext, NamedNext
<1>3. Inv /\ [Next]_vars
        => [\A c \in Secondary : cpu[c].at = "run" /\ cpu'[c] # cpu[c] => c \in Targeted]_vars
  BY RunningNext
<1> QED BY <1>1, <1>2, <1>3, PTL DEF Spec, OthersKeepRunning

-----------------------------------------------------------------------------
(* Loading from the card. *)

(* A set of naturals has a least one. *)
LEMMA LeastNatural ==
  ASSUME NEW T \in SUBSET Nat, T # {}
  PROVE  \E n \in T : \A m \in T : n <= m
<1> DEFINE R == {p \in Nat \X Nat : p[1] < p[2]}
<1>1. IsWellFoundedOn(R, Nat) BY NatLessThanWellFounded DEF OpToRel
<1>2. ASSUME NEW x \in Nat, NEW y \in Nat, y < x PROVE <<y, x>> \in R BY <1>2
<1> HIDE DEF R
<1>3. PICK x \in T : \A y \in T : <<y, x>> \notin R BY <1>1, WFMin
<1>4. \A y \in T : ~ (y < x) BY <1>2, <1>3
<1> QED BY <1>4

(* The RAM as a function of its blocks. *)
IsMemory(m) == m = [b \in 0 .. RamBlocks - 1 |-> m[b]]

(* memcpy between places that do not overlap is the copy of each block. *)
CanCopy(from, to, n) ==
  from \in Nat /\ to \in Nat /\ n \in Nat /\ (from + n <= to \/ to + n <= from) /\ from + n <= RamBlocks
IsCopied(p, m, from, to, n) ==
  /\ IsMemory(p)
  /\ \A b \in 0 .. RamBlocks - 1 : p[b] = IF b \in to .. to + n - 1 THEN m[from + (b - to)] ELSE m[b]

LEMMA CopiedIs ==
  ASSUME NEW m, IsMemory(m), NEW from, NEW to, NEW n, CanCopy(from, to, n)
  PROVE  IsCopied(Copied(m, from, to, n), m, from, to, n)
<1> DEFINE R == RamBlocks
<1>0. /\ R \in Nat /\ from \in Nat /\ to \in Nat /\ n \in Nat
      /\ from + n <= to \/ to + n <= from
      /\ from + n <= R /\ m = [b \in 0 .. R - 1 |-> m[b]]
  BY RamAssumption DEF CanCopy, IsMemory
<1> HIDE DEF R
<1> DEFINE Up(k) == [b \in 0 .. R - 1 |-> IF b \in to .. to + k - 1 THEN m[from + (b - to)] ELSE m[b]]
           Body(f) == [k \in 0 .. n |-> IF k = 0 THEN m
                                        ELSE [f[k - 1] EXCEPT ![to + k - 1] = f[k - 1][from + k - 1]]]
           c == CHOOSE f : f = Body(f)
           g == [k \in 0 .. n |-> Up(k)]
<1>1. Up(0) = m
  <2>1. Up(0) = [b \in 0 .. R - 1 |-> m[b]] BY <1>0
  <2> QED BY <2>1, <1>0
<1>2. ASSUME NEW k \in 1 .. n
      PROVE  [Up(k - 1) EXCEPT ![to + k - 1] = Up(k - 1)[from + k - 1]] = Up(k)
  <2>1. from + k - 1 \in 0 .. R - 1 /\ from + k - 1 \notin to .. to + (k - 1) - 1 BY <1>0
  <2>2. Up(k - 1)[from + k - 1] = m[from + k - 1] BY <1>0, <2>1
  <2>3. ASSUME NEW b \in 0 .. R - 1
        PROVE  [Up(k - 1) EXCEPT ![to + k - 1] = m[from + k - 1]][b] = Up(k)[b]
    <3>1. CASE b = to + k - 1
      <4>1. from + (b - to) = from + k - 1 BY <1>0, <3>1
      <4> QED BY <1>0, <3>1, <4>1
    <3>2. CASE b # to + k - 1
      <4>1. b \in to .. to + (k - 1) - 1 <=> b \in to .. to + k - 1 BY <1>0, <3>2
      <4> QED BY <1>0, <3>2, <4>1
    <3> QED BY <3>1, <3>2
  <2> HIDE DEF Up
  <2>4. Up(k) = [b \in 0 .. R - 1 |-> Up(k)[b]] /\ DOMAIN Up(k - 1) = 0 .. R - 1 BY DEF Up
  <2> QED BY <2>2, <2>3, <2>4
<1> HIDE DEF Up
<1>3. g = Body(g)
  <2>1. ASSUME NEW k \in 0 .. n PROVE g[k] = Body(g)[k]
    <3>1. CASE k = 0 BY <3>1, <1>1
    <3>2. CASE k # 0
      <4>1. k \in 1 .. n /\ k - 1 \in 0 .. n BY <1>0, <3>2
      <4>2. g[k - 1] = Up(k - 1) /\ g[k] = Up(k) BY <4>1
      <4>3. [g[k - 1] EXCEPT ![to + k - 1] = g[k - 1][from + k - 1]] = g[k] BY <4>1, <4>2, <1>2
      <4> QED BY <3>2, <4>3
    <3> QED BY <3>1, <3>2
  <2> QED BY <2>1
<1>4. c = Body(c) BY <1>3
<1> HIDE DEF c
<1>5. \A k \in 0 .. n : c[k] = Up(k)
  <2> SUFFICES ASSUME \E k \in 0 .. n : c[k] # Up(k) PROVE FALSE OBVIOUS
  <2> DEFINE T == {k \in 0 .. n : c[k] # Up(k)}
  <2>1. PICK k \in T : \A j \in T : k <= j
    <3>1. T \in SUBSET Nat /\ T # {} BY <1>0
    <3> QED BY <3>1, LeastNatural
  <2>2. k # 0 BY <2>1, <1>0, <1>1, <1>4
  <2>3. k \in 1 .. n /\ k - 1 \in 0 .. n /\ k - 1 \notin T BY <1>0, <2>1, <2>2
  <2>4. c[k - 1] = Up(k - 1) BY <2>3
  <2>5. c[k] = [c[k - 1] EXCEPT ![to + k - 1] = c[k - 1][from + k - 1]] BY <2>2, <2>3, <1>4
  <2> QED BY <2>1, <2>3, <2>4, <2>5, <1>2
<1>6. Copied(m, from, to, n) = c[n] BY DEF Copied, c
<1>7. n \in 0 .. n BY <1>0
<1>8. Copied(m, from, to, n) = Up(n) BY <1>5, <1>6, <1>7
<1> QED BY <1>0, <1>8 DEF Up, IsCopied, IsMemory, R

(* Sector k of the cluster after the first q. *)
LEMMA SectorInCluster ==
  ASSUME NEW q \in Nat, NEW S \in Nat \ {0}, NEW k \in 0 .. S - 1
  PROVE  (q * S + k) \div S = q /\ (q * S + k) % S = k
<1>1. q * S \in Nat OBVIOUS
<1> QED BY <1>1
-----------------------------------------------------------------------------
(* Of the volume at hand: where its parts are, and that the buffers are in *)
(* the RAM, the window first and the cluster after it.                     *)
DirBlock == Buffer + FATBUFFBLOCKS
Blocks == Len(card.file) * card.clusterSize
Mounted ==
  fat = [clusterSize |-> card.clusterSize, fatStart |-> card.base + card.reserved,
         fatSectors |-> card.fatLength * card.fats,
         dataStart |-> card.reserved + card.fatLength * card.fats + card.base,
         root |-> card.root[1], fatBuff |-> Buffer, fatBuffNum |-> fat.fatBuffNum,
         dirBuff |-> DirBlock, mounted |-> TRUE]


(* The window holds the sectors of the FAT it stands for. *)
Window(m, base) == \A k \in 0 .. FATBUFFBLOCKS - 1 : m[Buffer + k] = fat.fatStart + base + k

(* The buffer of the directory holds a cluster. *)
InBuffer(m, c) == \A k \in 0 .. card.clusterSize - 1 : m[DirBlock + k] = FirstSectorOfCluster(c) + k

(* What a load has read when it has copied i clusters. *)
ReadAfter(i) == IF size < i * card.clusterSize THEN size ELSE i * card.clusterSize

(* The clusters before the i-th have been read, whole. *)
Whole(i) == read = (i - 1) * card.clusterSize

(* Where the load is in the chain of the file. *)
PlaceInv ==
  /\ pc = "search" \/ (pc = "walk" /\ then = "search") => read = 0 /\ dir.cur \in EntriesOf(card)
  /\ pc = "copy" => \E i \in 1 .. Len(card.file) :
       dir.cur = card.file[i] /\ read = ReadAfter(i - 1) /\ InBuffer(mem, card.file[i])
  /\ pc = "walk" /\ then = "copy" => \E i \in 1 .. Len(card.file) :
       dir.cur = card.file[i] /\ read = ReadAfter(i)

(* What has been read is in its place, and none of it is in a buffer. *)
Loaded(m, a, n) == \A i \in 0 .. n - 1 : m[a + i] = FileSector(i) /\ a + i \notin BufferBlocks
CopiedInv ==
  pc \in {"search", "copy", "walk", "report"} =>
    /\ read \in Nat /\ size \in Nat /\ read <= Blocks /\ addr \in asked
    /\ Loaded(mem, addr, read)

Touched(m, at) ==
  \A b \in 0 .. RamBlocks - 1 :
    \/ m[b] = IF b < LoaderBlocks THEN CODE ELSE FREE
    \/ b \in BufferBlocks
    \/ \E a \in at : b \in Over(a, Blocks)

LoadInv ==
  /\ card \in Volumes /\ asked \subseteq Addrs
  /\ pc \in {"init", "mount"} => fat = NotMounted
  /\ fat.mounted \in BOOLEAN
  /\ trusted =>
       /\ fat.mounted => /\ IsMemory(mem) /\ Mounted /\ fat.fatBuffNum \in Int
                         /\ fat.fatBuffNum >= 0 => Window(mem, fat.fatBuffNum)
                         /\ PlaceInv /\ CopiedInv /\ Touched(mem, asked)
       /\ ~ fat.mounted /\ fat.clusterSize = 0 =>
            /\ fat = NotMounted /\ pc \notin {"search", "copy", "walk"}
            /\ IsMemory(mem) /\ Touched(mem, {})

(* The numbers of a volume and of the RAM. *)
LEMMA VolumeIs ==
  ASSUME card \in Volumes
  PROVE  /\ card.base \in Nat /\ card.reserved \in Nat /\ card.clusterSize \in Nat \ {0}
         /\ card.fatLength * card.fats \in Nat /\ card.fatLength <= card.fatLength * card.fats
<1>1. /\ card.base \in 1 .. lba - 1 /\ card.clusterSize \in Nat \ {0}
      /\ card.reserved \in Nat \ {0} /\ card.fatLength \in Nat \ {0} /\ card.fats \in {1, 2}
  BY VolumesAssumption
<1>2. card.base \in Nat BY <1>1
<1>3. card.fatLength * card.fats \in Nat /\ card.fatLength <= card.fatLength * card.fats BY <1>1
<1> QED BY <1>1, <1>2, <1>3

LEMMA ClustersAre ==
  ASSUME card \in Volumes
  PROVE  /\ EntriesOf(card) \subseteq Nat
         /\ \A i \in 1 .. Len(card.file) : card.file[i] \in EntriesOf(card)
         /\ card.root[1] \in EntriesOf(card)
         /\ Len(card.file) \in Nat \ {0}
<1>1. /\ card.fatLength \in Nat \ {0}
      /\ card.root \in Seq(EntriesOf(card)) /\ card.entryIn \in 1 .. Len(card.root)
      /\ card.file \in Seq(EntriesOf(card)) /\ Len(card.file) >= 1
  BY VolumesAssumption
<1>2. card.fatLength * EntriesPerSector \in Nat BY <1>1, LinksAssumption
<1>3. EntriesOf(card) \subseteq Nat BY <1>2 DEF EntriesOf
<1>4. \A i \in 1 .. Len(card.file) : card.file[i] \in EntriesOf(card) BY <1>1
<1>5. card.root[1] \in EntriesOf(card)
  <2>1. 1 \in 1 .. Len(card.root) BY <1>1
  <2> QED BY <2>1, <1>1
<1>6. Len(card.file) \in Nat \ {0} BY <1>1
<1> QED BY <1>3, <1>4, <1>5, <1>6

LEMMA CardIs ==
  ASSUME card \in Volumes
  PROVE  /\ card.clusterSize \in Nat \ {0} /\ Blocks \in Nat
         /\ Buffer \in Nat /\ FATBUFFBLOCKS \in Nat \ {0}
         /\ DirBlock \in Nat /\ DirBlock = Buffer + FATBUFFBLOCKS
         /\ RamBlocks \in Nat /\ DirBlock + card.clusterSize <= RamBlocks
         /\ BufferBlocks = Buffer .. DirBlock + card.clusterSize - 1
<1>1. card.clusterSize \in Nat \ {0} BY VolumeIs
<1>2. Blocks \in Nat
  <2>1. Len(card.file) \in Nat BY ClustersAre
  <2> QED BY <2>1, <1>1 DEF Blocks
<1>3. BufferBlocks = Buffer .. DirBlock + card.clusterSize - 1 BY DEF BufferBlocks, DirBlock
<1>4. /\ Buffer \in Nat /\ FATBUFFBLOCKS \in Nat \ {0} /\ RamBlocks \in Nat
      /\ DirBlock + card.clusterSize <= RamBlocks
  BY BufferAssumption, RamAssumption DEF DirBlock
<1>5. DirBlock \in Nat /\ DirBlock = Buffer + FATBUFFBLOCKS BY <1>4 DEF DirBlock
<1> QED BY <1>1, <1>2, <1>3, <1>4, <1>5

(* A file fits behind an address of a load. *)
LEMMA FileFits ==
  ASSUME card \in Volumes, NEW a \in Addrs
  PROVE  a \in Nat /\ a + Blocks <= RamBlocks
<1>1. a + Blocks <= RamBlocks BY RamAssumption DEF Blocks
<1>2. a \in LoaderBlocks .. RamBlocks - 1 /\ LoaderBlocks \in Nat /\ RamBlocks \in Nat
  BY RamAssumption, BufferAssumption
<1> QED BY <1>1, <1>2

(* The fields of the volume's record. *)
LEMMA FatIs ==
  ASSUME card \in Volumes, Mounted
  PROVE  /\ fat.clusterSize = card.clusterSize /\ fat.fatBuff = Buffer /\ fat.dirBuff = DirBlock
         /\ fat.mounted /\ fat.root = card.root[1]
         /\ fat.fatStart \in Nat /\ fat.dataStart \in Nat /\ fat.fatSectors \in Nat
         /\ fat.fatSectors = card.fatLength * card.fats
<1>1. /\ fat.clusterSize = card.clusterSize /\ fat.fatStart = card.base + card.reserved
      /\ fat.fatSectors = card.fatLength * card.fats
      /\ fat.dataStart = card.reserved + card.fatLength * card.fats + card.base
      /\ fat.root = card.root[1] /\ fat.fatBuff = Buffer /\ fat.dirBuff = DirBlock /\ fat.mounted
  BY DEF Mounted
<1>2. card.base \in Nat /\ card.reserved \in Nat /\ card.fatLength * card.fats \in Nat
  BY VolumeIs
<1> HIDE DEF Mounted
<1> QED BY <1>1, <1>2

(* A read into the RAM changes the blocks it is into. *)
IsRead(p, s, n, at, m) ==
  IsMemory(p) /\ \A b \in 0 .. RamBlocks - 1 : p[b] = IF b \in at .. at + n - 1 THEN s + (b - at) ELSE m[b]

LEMMA ReadIs ==
  ASSUME NEW m, IsMemory(m), NEW s, NEW n, NEW at PROVE IsRead(Read(s, n, at, m), s, n, at, m)
<1>1. DOMAIN m = 0 .. RamBlocks - 1 BY DEF IsMemory
<1> QED BY <1>1 DEF Read, IsMemory, IsRead

LEMMA PartlyReadIs ==
  ASSUME NEW m, IsMemory(m), NEW s \in Int, NEW n \in Nat, NEW at \in Nat,
         NEW p \in PartlyRead(s, n, at, m)
  PROVE  IsMemory(p) /\ \A b \in 0 .. RamBlocks - 1 : b \notin at .. at + n - 1 => p[b] = m[b]
<1>1. PICK k \in Nat : (k = 0 \/ k <= n - 1) /\ p = Read(s, k, at, m) BY DEF PartlyRead
<1>2. IsRead(p, s, k, at, m) BY <1>1, ReadIs
<1>3. \A b \in 0 .. RamBlocks - 1 : b \in at .. at + k - 1 => b \in at .. at + n - 1 BY <1>1
<1> QED BY <1>2, <1>3, RamAssumption DEF IsRead

(* What reads into the buffer of the directory leave: the rest of the RAM, *)
(* with the window.                                                        *)
Leaves(p, m) ==
  /\ IsMemory(p)
  /\ \A b \in 0 .. RamBlocks - 1 : b \notin DirBlock .. DirBlock + card.clusterSize - 1 => p[b] = m[b]

LEMMA ClusterRead ==
  ASSUME card \in Volumes, Mounted, NEW c \in Int, NEW m, IsMemory(m)
  PROVE  LET s == FirstSectorOfCluster(c)
             p == Read(s, fat.clusterSize, fat.dirBuff, m)
         IN  Leaves(p, m) /\ InBuffer(p, c)
<1> DEFINE s == FirstSectorOfCluster(c)
           p == Read(s, card.clusterSize, DirBlock, m)
<1>1. s \in Int
  <2>1. fat.clusterSize \in Int /\ fat.dataStart \in Int BY CardIs, FatIs, SMTT(30)
  <2>2. (c - 2) * fat.clusterSize \in Int BY <2>1
  <2> QED BY <2>1, <2>2 DEF FirstSectorOfCluster
<1> HIDE DEF s
<1>2. /\ card.clusterSize \in Nat /\ DirBlock \in Nat
      /\ DirBlock + card.clusterSize <= RamBlocks /\ RamBlocks \in Nat
  BY CardIs
<1>3. IsRead(p, s, card.clusterSize, DirBlock, m) BY ReadIs
<1> HIDE DEF p
<1>4. Leaves(p, m) BY <1>3 DEF Leaves, IsRead
<1>5. \A k \in 0 .. card.clusterSize - 1 : p[DirBlock + k] = s + k
  <2> SUFFICES ASSUME NEW k \in 0 .. card.clusterSize - 1 PROVE p[DirBlock + k] = s + k OBVIOUS
  <2>1. DirBlock + k \in 0 .. RamBlocks - 1 /\ DirBlock + k \in DirBlock .. DirBlock + card.clusterSize - 1
    BY <1>2
  <2>2. s + ((DirBlock + k) - DirBlock) = s + k BY <1>1, <1>2
  <2> QED BY <2>1, <2>2, <1>3 DEF IsRead
<1>6. fat.clusterSize = card.clusterSize /\ fat.dirBuff = DirBlock BY DEF Mounted
<1> QED BY <1>4, <1>5, <1>6 DEF InBuffer, s, p

LEMMA ClusterPartlyRead ==
  ASSUME card \in Volumes, Mounted, NEW s \in Int, NEW m, IsMemory(m),
         NEW p \in PartlyRead(s, fat.clusterSize, fat.dirBuff, m)
  PROVE  Leaves(p, m)
<1>1. card.clusterSize \in Nat /\ DirBlock \in Nat BY CardIs
<1>2. fat.clusterSize = card.clusterSize /\ fat.dirBuff = DirBlock BY DEF Mounted
<1> QED BY <1>1, <1>2, PartlyReadIs DEF Leaves

(* Only blocks of the buffers differ. *)
InBuffersOnly(p, m) ==
  IsMemory(p) /\ \A b \in 0 .. RamBlocks - 1 : b \notin BufferBlocks => p[b] = m[b]

LEMMA LeavesWindow ==
  ASSUME card \in Volumes, NEW m, NEW p, Leaves(p, m)
  PROVE  InBuffersOnly(p, m) /\ \A base \in Int : Window(m, base) => Window(p, base)
<1> USE CardIs
<1>1. ASSUME NEW b \in 0 .. RamBlocks - 1, b \notin BufferBlocks PROVE p[b] = m[b]
  <2>1. b \notin DirBlock .. DirBlock + card.clusterSize - 1 BY <1>1
  <2> QED BY <2>1 DEF Leaves
<1>2. ASSUME NEW base \in Int, Window(m, base), NEW k \in 0 .. FATBUFFBLOCKS - 1
      PROVE  p[Buffer + k] = fat.fatStart + base + k
  <2>1. Buffer + k \in 0 .. RamBlocks - 1 /\ Buffer + k \notin DirBlock .. DirBlock + card.clusterSize - 1
    BY SMTT(30)
  <2> QED BY <2>1, <1>2 DEF Leaves, Window
<1> QED BY <1>1, <1>2 DEF Leaves, InBuffersOnly, Window

LEMMA BuffersKeep ==
  ASSUME card \in Volumes, NEW m, NEW p, InBuffersOnly(p, m)
  PROVE  /\ \A at : Touched(m, at) => Touched(p, at)
         /\ \A a \in Addrs, n \in 0 .. Blocks :
              Loaded(m, a, n) => Loaded(p, a, n)
<1>1. ASSUME NEW at, Touched(m, at) PROVE Touched(p, at) BY <1>1 DEF Touched, InBuffersOnly
<1>2. ASSUME NEW a \in Addrs, NEW n \in 0 .. Blocks, Loaded(m, a, n),
             NEW i \in 0 .. n - 1
      PROVE  p[a + i] = FileSector(i) /\ a + i \notin BufferBlocks
  <2>1. m[a + i] = FileSector(i) /\ a + i \notin BufferBlocks BY <1>2 DEF Loaded
  <2>2. a + i \in 0 .. RamBlocks - 1
    <3>1. a \in Nat /\ a + Blocks <= RamBlocks /\ Blocks \in Nat /\ RamBlocks \in Nat
      BY CardIs, FileFits
    <3> QED BY <3>1
  <2> QED BY <2>1, <2>2 DEF InBuffersOnly
<1> QED BY <1>1, <1>2 DEF Loaded

-----------------------------------------------------------------------------
(* An entry of the FAT lies in one of its sectors. *)
LEMMA SectorOfEntry ==
  ASSUME card \in Volumes, Mounted, NEW c \in EntriesOf(card)
  PROVE  c \div EntriesPerSector \in Nat /\ c \div EntriesPerSector < fat.fatSectors
<1> DEFINE E == EntriesPerSector
           s == c \div E
           L == card.fatLength
<1>1. E \in Nat \ {0} /\ L \in Nat /\ c \in Nat /\ c < L * E
  BY VolumesAssumption, LinksAssumption DEF EntriesOf
<1>2. s \in Nat /\ s * E <= c BY <1>1
<1> HIDE DEF s, E, L
<1>3. s < L
  <2>1. CASE s >= L
    <3>1. s * E = L * E + (s - L) * E BY <1>1, <1>2, <2>1
    <3>2. (s - L) * E >= 0 BY <1>1, <1>2, <2>1
    <3>3. L * E \in Nat /\ s * E \in Nat /\ (s - L) * E \in Nat BY <1>1, <1>2, <2>1
    <3> QED BY <3>1, <3>2, <3>3, <1>1, <1>2
  <2> QED BY <2>1, <1>1, <1>2
<1>4. L <= fat.fatSectors /\ fat.fatSectors \in Nat BY VolumeIs, FatIs DEF L
<1> QED BY <1>1, <1>2, <1>3, <1>4 DEF s, E

(* What reading an entry leaves when no transfer fails: the window where   *)
(* it was, or the sectors from LoadBase on.                                *)
LEMMA WindowsAre ==
  ASSUME card \in Volumes, Mounted, NEW c \in EntriesOf(card), NEW w \in Windows(c), w.ok
  PROVE  LET s == c \div EntriesPerSector
             b == LoadBase(s)
             m == Read(fat.fatStart + b, FATBUFFBLOCKS, fat.fatBuff, mem)
         IN  \/ InWindow(s) /\ w.m = mem /\ w.base = fat.fatBuffNum /\ w.links = Links(c, fat.fatBuffNum, mem)
             \/ ~ InWindow(s) /\ w.m = m /\ w.base = b /\ w.links = Links(c, b, m)
<1> DEFINE s == c \div EntriesPerSector
           b == LoadBase(s)
           m == Read(fat.fatStart + b, FATBUFFBLOCKS, fat.fatBuff, mem)
           none == [m |-> mem, base |-> fat.fatBuffNum, links |-> Garbage, ok |-> FALSE, cost |-> 0]
           here == [m |-> mem, base |-> fat.fatBuffNum, links |-> Links(c, fat.fatBuffNum, mem),
                    ok |-> TRUE, cost |-> 0]
           there == [m |-> m, base |-> b, links |-> Links(c, b, m), ok |-> TRUE, cost |-> 0]
           failing(p) == [m |-> p, base |-> fat.fatBuffNum, links |-> Garbage, ok |-> FALSE, cost |-> 1]
           Parts == PartlyRead(fat.fatStart + b, FATBUFFBLOCKS, fat.fatBuff, mem)
           wide == s > fat.fatSectors
           near == InWindow(s)
<1>0. ~ wide
  <2>1. s \in Nat /\ fat.fatSectors \in Nat /\ s < fat.fatSectors BY SectorOfEntry, FatIs
  <2> QED BY <2>1
<1>1. Windows(c) = CASE wide -> {none} [] near -> {here}
                     [] OTHER -> {there} \cup {failing(p) : p \in Parts}
  BY DEF Windows
<1>2. ~ none.ok /\ \A p : ~ failing(p).ok OBVIOUS
<1>3. here.m = mem /\ here.base = fat.fatBuffNum /\ here.links = Links(c, fat.fatBuffNum, mem) OBVIOUS
<1>4. there.m = m /\ there.base = b /\ there.links = Links(c, b, m) OBVIOUS
<1> HIDE DEF none, here, there, failing, Parts, wide, near, b, m
<1>6. CASE near /\ w = here BY <1>6, <1>3 DEF near
<1>7. CASE ~ near /\ w \in {there} \cup {failing(p) : p \in Parts}
  <2>1. w = there BY <1>7, <1>2
  <2> QED BY <2>1, <1>7, <1>4 DEF near, b, m
<1> QED BY <1>0, <1>1, <1>6, <1>7, Zenon

(* Then the link is that of the entry, and the window holds the sectors it *)
(* stands for.                                                             *)
LEMMA LinkRead ==
  ASSUME LoadInv, trusted, fat.mounted, NEW c \in EntriesOf(card), NEW w \in Windows(c), w.ok
  PROVE  /\ w.base \in Int /\ InBuffersOnly(w.m, mem) /\ Window(w.m, w.base)
         /\ w.links = {card.links[c]}
<1> DEFINE s == c \div EntriesPerSector
           b == LoadBase(s)
           m == Read(fat.fatStart + b, FATBUFFBLOCKS, fat.fatBuff, mem)
<1>1. card \in Volumes /\ Mounted /\ IsMemory(mem) /\ fat.fatBuffNum \in Int
      /\ (fat.fatBuffNum >= 0 => Window(mem, fat.fatBuffNum))
  BY DEF LoadInv
<1>2. s \in Nat /\ s < fat.fatSectors BY <1>1, SectorOfEntry
<1>3. fat.fatBuff = Buffer /\ fat.fatStart \in Nat /\ fat.fatSectors \in Nat BY <1>1, FatIs
<1>4. FATBUFFBLOCKS \in Nat \ {0} /\ Buffer \in Nat /\ DirBlock = Buffer + FATBUFFBLOCKS
      /\ DirBlock + card.clusterSize <= RamBlocks /\ RamBlocks \in Nat /\ card.clusterSize \in Nat
      /\ BufferBlocks = Buffer .. DirBlock + card.clusterSize - 1
  BY <1>1, CardIs
<1>5. \/ InWindow(s) /\ w.m = mem /\ w.base = fat.fatBuffNum /\ w.links = Links(c, fat.fatBuffNum, mem)
      \/ ~ InWindow(s) /\ w.m = m /\ w.base = b /\ w.links = Links(c, b, m)
  BY <1>1, WindowsAre
<1> HIDE DEF s
<1>6. b \in Int /\ s - b \in 0 .. FATBUFFBLOCKS - 1 BY <1>2, <1>3, <1>4, SMTT(30) DEF LoadBase
<1>7. ASSUME NEW n \in Int, NEW x, Window(x, n), s - n \in 0 .. FATBUFFBLOCKS - 1
      PROVE  Links(c, n, x) = {card.links[c]}
  <2>1. x[Buffer + (s - n)] = fat.fatStart + n + (s - n) BY <1>7 DEF Window
  <2>2. fat.fatStart + n + (s - n) = fat.fatStart + s BY <1>7, <1>2, <1>3
  <2> QED BY <2>1, <2>2, <1>3 DEF Links, s
<1>8. CASE InWindow(s) /\ w.m = mem /\ w.base = fat.fatBuffNum /\ w.links = Links(c, fat.fatBuffNum, mem)
  <2>1. fat.fatBuffNum >= 0 /\ s - fat.fatBuffNum \in 0 .. FATBUFFBLOCKS - 1
    BY <1>8, <1>1, <1>2, <1>4 DEF InWindow
  <2>2. Links(c, fat.fatBuffNum, mem) = {card.links[c]} BY <2>1, <1>1, <1>7
  <2> QED BY <2>1, <2>2, <1>1, <1>8 DEF InBuffersOnly
<1>9. CASE ~ InWindow(s) /\ w.m = m /\ w.base = b /\ w.links = Links(c, b, m)
  <2>1. fat.fatStart + b \in Int BY <1>3, <1>6
  <2> HIDE DEF b
  <2>2. IsRead(m, fat.fatStart + b, FATBUFFBLOCKS, Buffer, mem) BY <1>1, <1>3, ReadIs
  <2> HIDE DEF m
  <2>3. Window(m, b)
    <3> SUFFICES ASSUME NEW k \in 0 .. FATBUFFBLOCKS - 1 PROVE m[Buffer + k] = fat.fatStart + b + k
      BY DEF Window
    <3>1. Buffer + k \in 0 .. RamBlocks - 1 /\ Buffer + k \in Buffer .. Buffer + FATBUFFBLOCKS - 1
          /\ (Buffer + k) - Buffer = k
      BY <1>4
    <3> QED BY <3>1, <2>1, <2>2 DEF IsRead
  <2>4. InBuffersOnly(m, mem)
    <3> SUFFICES ASSUME NEW k \in 0 .. RamBlocks - 1, k \notin BufferBlocks PROVE m[k] = mem[k]
      BY <2>2 DEF InBuffersOnly, IsRead
    <3>1. k \notin Buffer .. Buffer + FATBUFFBLOCKS - 1 BY <1>4
    <3> QED BY <3>1, <2>2 DEF IsRead
  <2>5. Links(c, b, m) = {card.links[c]} BY <2>3, <1>6, <1>7
  <2> QED BY <2>3, <2>4, <2>5, <1>6, <1>9
<1> QED BY <1>5, <1>8, <1>9

-----------------------------------------------------------------------------
(* What the invariant says when nothing has gone wrong, of a volume and    *)
(* without one.                                                            *)
Serving(m, at) ==
  /\ IsMemory(m) /\ Mounted /\ fat.fatBuffNum \in Int
  /\ fat.fatBuffNum >= 0 => Window(m, fat.fatBuffNum)
  /\ Touched(m, at)
Bare(m) == fat = NotMounted /\ IsMemory(m) /\ Touched(m, {})

LEMMA InvForms ==
  /\ LoadInv /\ trusted /\ fat.mounted => Serving(mem, asked) /\ PlaceInv /\ CopiedInv
  /\ LoadInv /\ trusted /\ ~ fat.mounted /\ fat.clusterSize = 0 =>
       Bare(mem) /\ pc \notin {"search", "copy", "walk"}
BY DEF LoadInv, Serving, Bare

LEMMA TouchedMore ==
  ASSUME NEW m, NEW at, NEW more, at \subseteq more, Touched(m, at) PROVE Touched(m, more)
BY DEF Touched

(* A step that leaves the volume and where its parts are. *)
LEMMA Carried ==
  ASSUME card' = card
  PROVE  /\ BufferBlocks' = BufferBlocks /\ Blocks' = Blocks
         /\ \A i : FileSector(i)' = FileSector(i)
         /\ Touched(mem, asked)' <=> Touched(mem', asked')
         /\ Touched(mem, {})' <=> Touched(mem', {})
         /\ Loaded(mem, addr, read)' <=> Loaded(mem', addr', read')
<1>1. BufferBlocks' = BufferBlocks /\ Blocks' = Blocks BY DEF BufferBlocks, Blocks
<1>2. \A i : FileSector(i)' = FileSector(i) BY DEF FileSector
<1> QED BY <1>1, <1>2 DEF Touched, Loaded

LEMMA CarriedParts ==
  ASSUME card' = card, fat' = fat \/ fat' = [fat EXCEPT !.fatBuffNum = fat'.fatBuffNum], Mounted
  PROVE  /\ Mounted' /\ fat'.mounted = fat.mounted /\ fat'.clusterSize = fat.clusterSize
         /\ \A n : Window(mem, n)' <=> Window(mem', n)
         /\ \A c : InBuffer(mem, c)' <=> InBuffer(mem', c)
<1>1. /\ fat'.clusterSize = fat.clusterSize /\ fat'.fatStart = fat.fatStart
      /\ fat'.fatSectors = fat.fatSectors /\ fat'.dataStart = fat.dataStart /\ fat'.root = fat.root
      /\ fat'.fatBuff = fat.fatBuff /\ fat'.dirBuff = fat.dirBuff /\ fat'.mounted = fat.mounted
  BY DEF Mounted
<1>2. Mounted'
  <2>1. CASE fat' = fat BY <2>1 DEF Mounted
  <2>2. CASE fat' = [fat EXCEPT !.fatBuffNum = fat'.fatBuffNum] BY <2>2 DEF Mounted
  <2> QED BY <2>1, <2>2
<1>3. \A n : Window(mem, n)' <=> Window(mem', n) BY <1>1 DEF Window
<1>4. \A c : InBuffer(mem, c)' <=> InBuffer(mem', c) BY <1>1 DEF InBuffer, FirstSectorOfCluster
<1> QED BY <1>1, <1>2, <1>3, <1>4

LEMMA Assembled ==
  ASSUME LoadInv, fat.mounted, Mounted, card' = card,
         fat' = fat \/ fat' = [fat EXCEPT !.fatBuffNum = fat'.fatBuffNum],
         asked' \subseteq Addrs, pc' \notin {"init", "mount"},
         trusted' => /\ IsMemory(mem') /\ fat'.fatBuffNum \in Int
                     /\ fat'.fatBuffNum >= 0 => Window(mem', fat'.fatBuffNum)
                     /\ Touched(mem', asked') /\ PlaceInv' /\ CopiedInv'
  PROVE  LoadInv'
<1>1. /\ Mounted' /\ fat'.mounted /\ fat'.clusterSize = fat.clusterSize
      /\ \A n : Window(mem, n)' <=> Window(mem', n)
  BY CarriedParts DEF LoadInv
<1>2. Touched(mem, asked)' <=> Touched(mem', asked') BY Carried
<1>3. IsMemory(mem)' <=> IsMemory(mem') BY DEF IsMemory
<1>4. card' \in Volumes BY DEF LoadInv
<1>5. (fat'.fatBuffNum >= 0 => Window(mem', fat'.fatBuffNum)) =>
        (fat'.fatBuffNum >= 0 => Window(mem, fat.fatBuffNum)')
  BY <1>1
<1> QED BY <1>1, <1>2, <1>3, <1>4, <1>5 DEF LoadInv

LEMMA StartInit == BootInit => LoadInv
<1> SUFFICES ASSUME BootInit PROVE LoadInv OBVIOUS
<1>1. card \in Volumes /\ asked = {} /\ fat = NotMounted /\ pc = "init" /\ trusted
  BY DEF BootInit
<1>2. mem = [b \in 0 .. RamBlocks - 1 |-> IF b < LoaderBlocks THEN CODE ELSE FREE]
  BY DEF BootInit
<1>3. IsMemory(mem) BY <1>2 DEF IsMemory
<1>4. Touched(mem, {}) BY <1>2 DEF Touched
<1>5. ~ fat.mounted /\ fat.mounted \in BOOLEAN BY <1>1 DEF NotMounted
<1> QED BY <1>1, <1>3, <1>4, <1>5 DEF LoadInv

(* The first reads are into the buffer. *)
LEMMA FirstBlockRead ==
  ASSUME card \in Volumes, NEW s \in Int, NEW m, IsMemory(m), Touched(m, {})
  PROVE  IsMemory(Read(s, 1, Buffer, m)) /\ Touched(Read(s, 1, Buffer, m), {})
<1>1. Buffer \in Nat /\ RamBlocks \in Nat /\ Buffer \in BufferBlocks BY CardIs
<1>2. IsRead(Read(s, 1, Buffer, m), s, 1, Buffer, m) BY ReadIs
<1> QED BY <1>1, <1>2 DEF Touched, IsRead

LEMMA FileSystemInitKeeps == LoadInv /\ FileSystemInit => LoadInv'
<1> SUFFICES ASSUME LoadInv, FileSystemInit PROVE LoadInv' OBVIOUS
<1>1. /\ card' = card /\ fat' = fat /\ asked' = asked /\ trusted' = trusted
      /\ pc = "init" /\ pc' \in {"mount", "prompt"}
      /\ mem' = Read(0, 1, Buffer, mem) \/ mem' = mem
  BY DEF FileSystemInit
<1>2. fat = NotMounted /\ fat' = NotMounted /\ ~ fat'.mounted BY <1>1 DEF LoadInv, NotMounted
<1>3. ASSUME trusted PROVE IsMemory(mem') /\ Touched(mem', {})
  <2>1. IsMemory(mem) /\ Touched(mem, {}) /\ card \in Volumes
    BY <1>2, <1>3 DEF LoadInv, NotMounted
  <2> QED BY <2>1, <1>1, FirstBlockRead
<1>4. trusted' => IsMemory(mem)' /\ Touched(mem, {})' BY <1>1, <1>3, Carried DEF IsMemory
<1> QED BY <1>1, <1>2, <1>4 DEF LoadInv

LEMMA Fat32InitKeeps == LoadInv /\ Fat32Init => LoadInv'
<1> SUFFICES ASSUME LoadInv, Fat32Init PROVE LoadInv' OBVIOUS
<1>1. card' = card /\ asked' = asked /\ trusted' = trusted /\ pc = "mount" /\ pc' = "prompt"
  BY DEF Fat32Init
<1>2. fat = NotMounted /\ ~ fat.mounted /\ card \in Volumes BY <1>1 DEF LoadInv, NotMounted
<1>3. trusted => IsMemory(mem) /\ Touched(mem, {}) BY <1>2 DEF LoadInv, NotMounted
<1>4. CASE mem' = mem /\ fat' = fat
  <2>1. trusted' => IsMemory(mem)' /\ Touched(mem, {})'
    BY <1>1, <1>3, <1>4, Carried DEF IsMemory
  <2> QED BY <2>1, <1>1, <1>2, <1>4 DEF LoadInv
<1>5. CASE mem' = Read(card.base, 1, Buffer, mem)
           /\ \/ fat' = FatDataOf(card)
              \/ fat' = [FatDataOf(card) EXCEPT !.fatBuff = Buffer, !.dirBuff = Buffer + FATBUFFBLOCKS,
                                                !.mounted = TRUE]
  <2>1. card.base \in Int /\ card.clusterSize # 0 BY <1>2, VolumeIs
  <2>2. trusted => IsMemory(mem') /\ Touched(mem', {}) BY <2>1, <1>2, <1>3, <1>5, FirstBlockRead
  <2>3. CASE fat' = FatDataOf(card)
    <3>1. ~ fat'.mounted /\ fat'.clusterSize # 0 /\ fat'.mounted \in BOOLEAN
      BY <2>1, <2>3 DEF FatDataOf
    <3> QED BY <3>1, <1>1 DEF LoadInv
  <2>4. CASE fat' = [FatDataOf(card) EXCEPT !.fatBuff = Buffer, !.dirBuff = Buffer + FATBUFFBLOCKS,
                                            !.mounted = TRUE]
    <3>1. Mounted' /\ fat'.mounted /\ fat'.fatBuffNum = -1 /\ fat'.mounted \in BOOLEAN
      BY <1>1, <2>4 DEF FatDataOf, Mounted, DirBlock
    <3>2. trusted => Touched(mem', asked') BY <2>2, TouchedMore
    <3>3. trusted' => IsMemory(mem)' /\ Touched(mem, asked)'
      BY <3>2, <2>2, <1>1, Carried DEF IsMemory
    <3>4. PlaceInv' /\ CopiedInv' BY <1>1 DEF PlaceInv, CopiedInv
    <3> QED BY <3>1, <3>3, <3>4, <1>1 DEF LoadInv
  <2> QED BY <1>5, <2>3, <2>4
<1> QED BY <1>4, <1>5 DEF Fat32Init

-----------------------------------------------------------------------------
(* What was in order stays so when the buffer of the directory is filled.  *)
LEMMA ServingLeft ==
  ASSUME card \in Volumes, NEW m, NEW p, NEW at, Serving(m, at), Leaves(p, m)
  PROVE  Serving(p, at) /\ InBuffersOnly(p, m)
BY LeavesWindow, BuffersKeep DEF Serving, Leaves

LEMMA RootRead ==
  ASSUME card \in Volumes, NEW m, NEW at, Serving(m, at),
         NEW p, p = Read(fat.dataStart, fat.clusterSize, fat.dirBuff, m)
                  \/ p \in PartlyRead(fat.dataStart, fat.clusterSize, fat.dirBuff, m)
  PROVE  Serving(p, at)
<1>1. fat.dataStart \in Int /\ Mounted /\ IsMemory(m) BY FatIs DEF Serving
<1>2. /\ fat.clusterSize = card.clusterSize /\ fat.dirBuff = DirBlock
      /\ card.clusterSize \in Nat /\ DirBlock \in Nat
  BY <1>1, CardIs, FatIs
<1>3. CASE p = Read(fat.dataStart, fat.clusterSize, fat.dirBuff, m)
  <2>1. IsRead(p, fat.dataStart, card.clusterSize, DirBlock, m) BY <1>1, <1>2, <1>3, ReadIs
  <2>2. Leaves(p, m) BY <2>1, <1>2 DEF Leaves, IsRead
  <2> QED BY <2>2, ServingLeft
<1>4. CASE p \in PartlyRead(fat.dataStart, fat.clusterSize, fat.dirBuff, m)
  <2>1. Leaves(p, m) BY <1>1, <1>4, ClusterPartlyRead
  <2> QED BY <2>1, ServingLeft
<1> QED BY <1>3, <1>4

LEMMA LoadKeeps == LoadInv /\ Load => LoadInv'
<1> SUFFICES ASSUME LoadInv, Load PROVE LoadInv' OBVIOUS
<1>1. /\ card' = card /\ fat' = fat /\ trusted' = trusted /\ pc' \in {"search", "report", "lost"}
      /\ addr' \in Addrs /\ asked' = asked \cup {addr'} /\ size' = 0 /\ read' = 0
      /\ then' = "search" /\ dir'.cur = fat.root
      /\ \/ CanRead(fat.dataStart, fat.clusterSize)
            /\ mem' = Read(fat.dataStart, fat.clusterSize, fat.dirBuff, mem)
         \/ mem' \in PartlyRead(fat.dataStart, fat.clusterSize, fat.dirBuff, mem) /\ pc' \in {"report", "lost"}
  BY DEF Load, Then
<1>2. asked' \subseteq Addrs /\ card \in Volumes BY <1>1 DEF LoadInv
<1>3. CASE trusted /\ fat.mounted
  <2>1. Serving(mem, asked) BY <1>3, InvForms
  <2>2. Serving(mem', asked) BY <2>1, <1>1, <1>2, RootRead
  <2>3. Touched(mem', asked') BY <2>2, <1>1, TouchedMore DEF Serving
  <2>4. Mounted BY <2>1 DEF Serving
  <2>5. PlaceInv'
    <3>1. dir'.cur \in EntriesOf(card) BY <1>1, <1>2, <2>4, ClustersAre, FatIs
    <3>2. dir'.cur \in EntriesOf(card') BY <3>1, <1>1
    <3> QED BY <3>2, <1>1 DEF PlaceInv
  <2>6. CopiedInv'
    <3>1. Blocks' = Blocks /\ Blocks \in Nat BY <1>1, <1>2, CardIs DEF Blocks
    <3>2. read' = 0 /\ card' = card /\ size' = 0 /\ addr' \in asked' BY <1>1
    <3>3. Loaded(mem', addr', read') BY <3>2 DEF Loaded
    <3>4. Loaded(mem, addr, read)' BY <3>3, <1>1, Carried
    <3> QED BY <3>1, <3>2, <3>4 DEF CopiedInv
  <2> QED BY <2>2, <2>3, <2>4, <2>5, <2>6, <1>1, <1>2, <1>3, Assembled DEF Serving
<1>4. CASE trusted /\ ~ fat.mounted /\ fat.clusterSize = 0
  <2>1. Bare(mem) BY <1>4, InvForms
  <2>2. fat.dataStart = 0 /\ fat.dirBuff = 0 /\ fat.clusterSize = 0 BY <2>1 DEF Bare, NotMounted
  <2>3. mem' \in PartlyRead(0, 0, 0, mem) /\ pc' \in {"report", "lost"}
    BY <2>2, <1>1 DEF CanRead
  <2>4. RamBlocks \in Nat BY RamAssumption
  <2>5. IsMemory(mem') /\ \A b \in 0 .. RamBlocks - 1 : mem'[b] = mem[b]
    <3>1. IsMemory(mem) BY <2>1 DEF Bare
    <3>2. \A b \in 0 .. RamBlocks - 1 : b \notin 0 .. 0 + 0 - 1 OBVIOUS
    <3> QED BY <3>1, <3>2, <2>3, PartlyReadIs
  <2>6. Touched(mem', {}) BY <2>1, <2>5 DEF Bare, Touched
  <2>7. IsMemory(mem)' /\ Touched(mem, {})' BY <2>5, <2>6, <1>1, Carried DEF IsMemory
  <2> QED BY <2>1, <2>3, <2>7, <1>1, <1>2, <1>4 DEF LoadInv, Bare
<1>5. CASE ~ trusted \/ (~ fat.mounted /\ fat.clusterSize # 0)
  BY <1>1, <1>2, <1>5 DEF LoadInv
<1>6. fat.mounted \in BOOLEAN BY DEF LoadInv
<1> QED BY <1>3, <1>4, <1>5, <1>6

(* The two records, and what a walk is for. *)
LoadTyped ==
  /\ then \in {"search", "copy"}
  /\ dir = [cur |-> dir.cur, tries |-> dir.tries]
  /\ fat = [clusterSize |-> fat.clusterSize, fatStart |-> fat.fatStart, fatSectors |-> fat.fatSectors,
            dataStart |-> fat.dataStart, root |-> fat.root, fatBuff |-> fat.fatBuff,
            fatBuffNum |-> fat.fatBuffNum, dirBuff |-> fat.dirBuff, mounted |-> fat.mounted]

LEMMA TypedKept == (BootInit => LoadTyped) /\ (LoadTyped /\ [BootNext]_bootVars => LoadTyped')
<1>1. BootInit => LoadTyped BY DEF BootInit, LoadTyped, NotMounted
<1>2. ASSUME LoadTyped, [BootNext]_bootVars PROVE LoadTyped'
  <2>1. \/ dir' = dir
        \/ \E c : dir' = [dir EXCEPT !.cur = c]
        \/ \E c : dir' = [dir EXCEPT !.tries = c]
        \/ \E c : dir' = [cur |-> c, tries |-> 0]
    <3>1. CASE Walk BY <3>1, Zenon DEF Walk
    <3>2. CASE Load BY <3>2 DEF Load
    <3>3. CASE Find BY <3>3 DEF Find
    <3>4. CASE SearchOn BY <3>4 DEF SearchOn
    <3>5. CASE FileSystemInit \/ Fat32Init \/ Copy \/ Report
      BY <3>5 DEF FileSystemInit, Fat32Init, Copy, Report
    <3>6. CASE UNCHANGED bootVars BY <3>6 DEF bootVars
    <3> QED BY <1>2, <3>1, <3>2, <3>3, <3>4, <3>5, <3>6 DEF BootNext
  <2>2. \/ fat' = fat
        \/ \E n : fat' = [fat EXCEPT !.fatBuffNum = n]
        \/ fat' = FatDataOf(card)
        \/ fat' = [FatDataOf(card) EXCEPT !.fatBuff = Buffer, !.dirBuff = Buffer + FATBUFFBLOCKS,
                                          !.mounted = TRUE]
    <3>1. CASE Walk BY <3>1, Zenon DEF Walk
    <3>2. CASE Fat32Init BY <3>2 DEF Fat32Init
    <3>3. CASE FileSystemInit \/ Load \/ Find \/ SearchOn \/ Copy \/ Report
      BY <3>3 DEF FileSystemInit, Load, Find, SearchOn, Copy, Report
    <3>4. CASE UNCHANGED bootVars BY <3>4 DEF bootVars
    <3> QED BY <1>2, <3>1, <3>2, <3>3, <3>4 DEF BootNext
  <2>3. then' \in {"search", "copy"}
    BY <1>2
    DEF LoadTyped, BootNext, FileSystemInit, Fat32Init, Load, Find, SearchOn, Walk, Copy,
        Report, bootVars
  <2> QED BY <2>1, <2>2, <2>3, <1>2 DEF LoadTyped, FatDataOf
<1> QED BY <1>1, <1>2

(* The load goes on only with a volume. *)
LEMMA NotServing ==
  ASSUME LoadInv, LoadTyped, ~ (trusted /\ fat.mounted), pc \in {"search", "copy", "walk"},
         card' = card, asked' = asked, pc' \notin {"init", "mount"}, trusted' => trusted,
         fat' = fat \/ fat' = [fat EXCEPT !.fatBuffNum = fat'.fatBuffNum]
  PROVE  LoadInv'
<1>1. trusted => ~ fat.mounted /\ fat.clusterSize # 0 BY InvForms DEF LoadInv
<1>2. fat'.mounted = fat.mounted /\ fat'.clusterSize = fat.clusterSize
  <2>1. CASE fat' = fat BY <2>1
  <2>2. CASE fat' = [fat EXCEPT !.fatBuffNum = fat'.fatBuffNum] BY <2>2 DEF LoadTyped
  <2> QED BY <2>1, <2>2
<1> QED BY <1>1, <1>2 DEF LoadInv

LEMMA FindKeeps == LoadInv /\ LoadTyped /\ Find => LoadInv'
<1> SUFFICES ASSUME LoadInv, LoadTyped, Find PROVE LoadInv' OBVIOUS
<1>1. /\ card' = card /\ fat' = fat /\ asked' = asked /\ addr' = addr /\ read' = read
      /\ pc = "search" /\ pc' = "copy" /\ size' \in Sizes /\ (trusted' => trusted)
      /\ trusted' =>
           mem' = Read(FirstSectorOfCluster(card.file[1]), fat.clusterSize, fat.dirBuff, mem)
      /\ trusted' => dir'.cur = card.file[1]
  BY DEF Find
<1>2. CASE trusted /\ fat.mounted
  <2>1. Serving(mem, asked) /\ PlaceInv /\ CopiedInv /\ card \in Volumes
    BY <1>2, InvForms DEF LoadInv
  <2>2. ASSUME trusted'
        PROVE /\ IsMemory(mem') /\ fat'.fatBuffNum \in Int
              /\ fat'.fatBuffNum >= 0 => Window(mem', fat'.fatBuffNum)
              /\ Touched(mem', asked') /\ PlaceInv' /\ CopiedInv'
    <3>1. 1 \in 1 .. Len(card.file) /\ card.file[1] \in Int BY <2>1, ClustersAre
    <3>2. Leaves(mem', mem) /\ InBuffer(mem', card.file[1])
      BY <3>1, <2>1, <2>2, <1>1, ClusterRead DEF Serving
    <3>3. Serving(mem', asked) BY <3>2, <2>1, ServingLeft
    <3>4. read = 0 /\ size' \in Nat BY <2>1, <1>1, RamAssumption DEF PlaceInv
    <3>5. PlaceInv'
      <4>1. ReadAfter(1 - 1)' = 0
        <5>1. card.clusterSize \in Nat /\ (1 - 1) * card.clusterSize = 0 BY <2>1, CardIs
        <5>2. (1 - 1) * card'.clusterSize = 0 BY <5>1, <1>1
        <5> QED BY <5>2, <3>4 DEF ReadAfter
      <4>2. InBuffer(mem, card.file[1])' BY <3>2, <2>1, <1>1, CarriedParts DEF Serving
      <4>3. 1 \in 1 .. Len(card'.file) /\ dir'.cur = card'.file[1] BY <3>1, <1>1, <2>2
      <4>4. read' = 0 /\ pc' = "copy" BY <1>1, <3>4
      <4> QED BY <4>1, <4>2, <4>3, <4>4 DEF PlaceInv
    <3>6. CopiedInv'
      <4>1. Blocks' = Blocks /\ Blocks \in Nat BY <1>1, <2>1, CardIs DEF Blocks
      <4>2. read' = 0 /\ card' = card /\ size' \in Nat BY <1>1, <3>4
      <4>3. addr' \in asked' BY <2>1, <1>1 DEF CopiedInv
      <4>4. Loaded(mem', addr', read') BY <4>2 DEF Loaded
      <4>5. Loaded(mem, addr, read)' BY <4>4, <1>1, Carried
      <4> QED BY <4>1, <4>2, <4>3, <4>5 DEF CopiedInv
    <3> QED BY <3>3, <3>5, <3>6, <1>1 DEF Serving
  <2> QED BY <2>1, <2>2, <1>1, <1>2, Assembled DEF Serving, LoadInv
<1>3. CASE ~ (trusted /\ fat.mounted) BY <1>1, <1>3, NotServing
<1> QED BY <1>2, <1>3

LEMMA SearchOnKeeps == LoadInv /\ LoadTyped /\ SearchOn => LoadInv'
<1> SUFFICES ASSUME LoadInv, LoadTyped, SearchOn PROVE LoadInv' OBVIOUS
<1>1. /\ card' = card /\ fat' = fat /\ asked' = asked /\ addr' = addr /\ read' = read /\ mem' = mem
      /\ pc = "search" /\ size' = size /\ trusted' = trusted
      /\ pc' = "report" \/ (pc' = "walk" /\ then' = "search")
      /\ dir' = dir \/ dir' = [dir EXCEPT !.tries = @ + 1]
  BY DEF SearchOn
<1>2. CASE trusted /\ fat.mounted
  <2>1. Serving(mem, asked) /\ PlaceInv /\ CopiedInv /\ card \in Volumes
    BY <1>2, InvForms DEF LoadInv
  <2>2. dir'.cur = dir.cur
    <3>1. CASE dir' = dir BY <3>1
    <3>2. CASE dir' = [dir EXCEPT !.tries = @ + 1] BY <3>2
    <3> QED BY <3>1, <3>2, <1>1
  <2>3. PlaceInv' BY <2>1, <2>2, <1>1 DEF PlaceInv
  <2>4. CopiedInv' BY <2>1, <1>1, Carried DEF CopiedInv
  <2> QED BY <2>1, <2>3, <2>4, <1>1, <1>2, Assembled DEF Serving, LoadInv
<1>3. CASE ~ (trusted /\ fat.mounted) BY <1>1, <1>3, NotServing
<1> QED BY <1>2, <1>3

LEMMA ReportKeeps == LoadInv /\ Report => LoadInv'
<1> SUFFICES ASSUME LoadInv, Report PROVE LoadInv' OBVIOUS
<1>1. /\ card' = card /\ fat' = fat /\ asked' = asked /\ mem' = mem /\ pc' = "prompt" /\ trusted' = trusted
  BY DEF Report
<1>2. CASE trusted /\ fat.mounted
  <2>1. Serving(mem, asked) BY <1>2, InvForms
  <2>2. PlaceInv' /\ CopiedInv' BY <1>1 DEF PlaceInv, CopiedInv
  <2> QED BY <2>1, <2>2, <1>1, <1>2, Assembled DEF Serving, LoadInv
<1>3. CASE ~ (trusted /\ fat.mounted)
  <2>1. IsMemory(mem)' <=> IsMemory(mem) BY <1>1 DEF IsMemory
  <2>2. Touched(mem, {})' <=> Touched(mem, {}) BY <1>1, Carried
  <2> QED BY <2>1, <2>2, <1>1, <1>3 DEF LoadInv
<1> QED BY <1>2, <1>3

-----------------------------------------------------------------------------
(* The links of the file lead from cluster to cluster, to the end.         *)
LEMMA LinksAre ==
  ASSUME card \in Volumes
  PROVE  /\ \A c \in EntriesOf(card) :
              card.links[c] \in Nat /\ (card.links[c] < EOC => card.links[c] \in EntriesOf(card))
         /\ \A i \in 1 .. Len(card.file) : card.links[card.file[i]] < EOC =>
              i + 1 \in 1 .. Len(card.file) /\ card.links[card.file[i]] = card.file[i + 1]
         /\ EOC \in Nat
<1>1. /\ EOC \in Nat /\ card.links \in [EntriesOf(card) -> Nat]
      /\ \A c \in EntriesOf(card) : card.links[c] \in EntriesOf(card) \/ card.links[c] >= EOC
      /\ \A i \in 1 .. Len(card.file) - 1 : card.links[card.file[i]] = card.file[i + 1]
      /\ card.links[card.file[Len(card.file)]] >= EOC
  BY LinksAssumption
<1>2. \A c \in EntriesOf(card) :
        card.links[c] \in Nat /\ (card.links[c] < EOC => card.links[c] \in EntriesOf(card))
  BY <1>1
<1>3. ASSUME NEW i \in 1 .. Len(card.file), card.links[card.file[i]] < EOC
      PROVE  i + 1 \in 1 .. Len(card.file) /\ card.links[card.file[i]] = card.file[i + 1]
  <2>1. Len(card.file) \in Nat /\ card.file[i] \in EntriesOf(card) BY ClustersAre
  <2>2. i # Len(card.file) BY <1>1, <1>2, <1>3, <2>1
  <2> QED BY <2>1, <2>2, <1>1
<1> QED BY <1>1, <1>2, <1>3

(* The walk from where the load is.                                        *)
LEMMA WalkFrom ==
  ASSUME card \in Volumes, PlaceInv, LoadTyped, pc = "walk"
  PROVE  dir.cur \in EntriesOf(card)
<1>1. CASE then = "search" BY <1>1 DEF PlaceInv
<1>2. CASE then = "copy"
  <2>1. PICK i \in 1 .. Len(card.file) : dir.cur = card.file[i] BY <1>2 DEF PlaceInv
  <2> QED BY <2>1, ClustersAre
<1> QED BY <1>1, <1>2 DEF LoadTyped

(* What is read through a window and then into the buffer. *)
LEMMA WalkReads ==
  ASSUME LoadInv, trusted, fat.mounted, NEW c \in EntriesOf(card), NEW w \in Windows(c), w.ok,
         NEW n \in EntriesOf(card), NEW p, fat' = [fat EXCEPT !.fatBuffNum = w.base], card' = card,
         p = w.m \/ p = Read(FirstSectorOfCluster(n), fat.clusterSize, fat.dirBuff, w.m)
         \/ p \in PartlyRead(FirstSectorOfCluster(n), fat.clusterSize, fat.dirBuff, w.m)
  PROVE  /\ IsMemory(p) /\ fat'.fatBuffNum \in Int /\ Window(p, fat'.fatBuffNum)
         /\ InBuffersOnly(p, mem)
         /\ p = Read(FirstSectorOfCluster(n), fat.clusterSize, fat.dirBuff, w.m) => InBuffer(p, n)
<1>1. w.base \in Int /\ InBuffersOnly(w.m, mem) /\ Window(w.m, w.base) BY LinkRead
<1>2. Mounted /\ card \in Volumes BY DEF LoadInv
<1>3. fat'.fatBuffNum = w.base BY <1>2 DEF Mounted
<1>4. FirstSectorOfCluster(n) \in Int
  <2>1. n \in Int /\ fat.clusterSize \in Int /\ fat.dataStart \in Int
    BY <1>2, ClustersAre, CardIs, FatIs
  <2>2. (n - 2) * fat.clusterSize \in Int BY <2>1
  <2> QED BY <2>1, <2>2 DEF FirstSectorOfCluster
<1>5. p = Read(FirstSectorOfCluster(n), fat.clusterSize, fat.dirBuff, w.m) => InBuffer(p, n)
  <2>1. IsMemory(w.m) /\ n \in Int BY <1>1, <1>2, ClustersAre DEF InBuffersOnly
  <2> QED BY <2>1, <1>2, ClusterRead
<1>6. CASE p = w.m BY <1>1, <1>3, <1>5, <1>6 DEF InBuffersOnly
<1>7. CASE p # w.m
  <2>1. IsMemory(w.m) BY <1>1 DEF InBuffersOnly
  <2>2. n \in Int BY <1>2, ClustersAre
  <2>3. Leaves(p, w.m)
    <3>1. CASE p = Read(FirstSectorOfCluster(n), fat.clusterSize, fat.dirBuff, w.m)
      BY <3>1, <2>1, <2>2, <1>2, ClusterRead
    <3>2. CASE p \in PartlyRead(FirstSectorOfCluster(n), fat.clusterSize, fat.dirBuff, w.m)
      BY <3>2, <2>1, <1>2, <1>4, ClusterPartlyRead
    <3> QED BY <3>1, <3>2, <1>7
  <2>4. InBuffersOnly(p, w.m) /\ Window(p, w.base) BY <2>3, <1>1, <1>2, LeavesWindow
  <2> QED BY <2>4, <1>1, <1>3, <1>5 DEF InBuffersOnly
<1> QED BY <1>5, <1>6, <1>7

LEMMA WalkKeeps == LoadInv /\ LoadTyped /\ Walk => LoadInv'
<1> SUFFICES ASSUME LoadInv, LoadTyped, Walk PROVE LoadInv' OBVIOUS
<1>1. /\ card' = card /\ asked' = asked /\ addr' = addr /\ read' = read /\ size' = size /\ then' = then
      /\ pc = "walk"
  BY DEF Walk
<1> DEFINE Goes(w, link) ==
        /\ fat' = [fat EXCEPT !.fatBuffNum = w.base]
        /\ trusted' = (trusted /\ w.ok)
        /\ \/ link >= EOC /\ mem' = w.m /\ pc' = "report"
           \/ ~ (link >= EOC) /\ dir' = [dir EXCEPT !.cur = link] /\ pc' = then
              /\ mem' = Read(FirstSectorOfCluster(link), fat.clusterSize, fat.dirBuff, w.m)
           \/ ~ (link >= EOC) /\ pc' = "report"
              /\ mem' \in PartlyRead(FirstSectorOfCluster(link), fat.clusterSize, fat.dirBuff, w.m)
           Step(w) == \E link \in w.links : Goes(w, link)
<1>5. PICK w \in Windows(dir.cur) : Step(w)
  BY Zenon DEF Walk
<1>6. PICK link \in w.links : Goes(w, link) BY <1>5
<1>2. Goes(w, link) BY <1>6
<1>3. CASE trusted /\ fat.mounted
  <2>1. Serving(mem, asked) /\ PlaceInv /\ CopiedInv /\ card \in Volumes
    BY <1>3, InvForms DEF LoadInv
  <2> DEFINE c == dir.cur
  <2>2. c \in EntriesOf(card) BY <2>1, <1>1, WalkFrom
  <2>3. ASSUME trusted'
        PROVE /\ IsMemory(mem') /\ fat'.fatBuffNum \in Int
              /\ fat'.fatBuffNum >= 0 => Window(mem', fat'.fatBuffNum)
              /\ Touched(mem', asked') /\ PlaceInv' /\ CopiedInv'
    <3>1. w.ok /\ w.links = {card.links[c]} BY <1>2, <1>3, <2>2, <2>3, LinkRead
    <3>2. link = card.links[c] BY <3>1, <1>6
    <3>3. link < EOC => link \in EntriesOf(card) BY <3>2, <2>1, <2>2, LinksAre
    <3>4. link \in Nat /\ EOC \in Nat BY <3>2, <2>1, <2>2, LinksAre
    <3>5. /\ IsMemory(mem') /\ fat'.fatBuffNum \in Int /\ Window(mem', fat'.fatBuffNum)
          /\ InBuffersOnly(mem', mem)
      <4>1. CASE link >= EOC BY <4>1, <1>1, <1>2, <1>3, <2>2, <3>1, WalkReads
      <4>2. CASE link < EOC
        <5>1. link \in EntriesOf(card) BY <4>2, <3>3
        <5> QED BY <5>1, <4>2, <1>1, <1>2, <1>3, <2>2, <3>1, <3>4, WalkReads
      <4> QED BY <4>1, <4>2, <3>4
    <3>6. Touched(mem', asked') BY <3>5, <2>1, <1>1, BuffersKeep DEF Serving
    <3>7. CopiedInv'
      <4>1. /\ read \in Nat /\ size \in Nat /\ read <= Blocks
            /\ addr \in asked /\ Loaded(mem, addr, read)
        BY <2>1, <1>1 DEF CopiedInv
      <4>2. addr \in Addrs BY <4>1 DEF LoadInv
      <4>3. read \in 0 .. Blocks
        <5>1. Blocks \in Nat BY <2>1, CardIs
        <5> QED BY <4>1, <5>1
      <4>4. Loaded(mem', addr, read) BY <4>1, <4>2, <4>3, <3>5, <2>1, BuffersKeep
      <4>5. Loaded(mem, addr, read)' BY <4>4, <1>1, Carried
      <4>6. Blocks' = Blocks BY <1>1, Carried
      <4> QED BY <4>1, <4>5, <4>6, <1>1 DEF CopiedInv
    <3>9. fat' = [fat EXCEPT !.fatBuffNum = fat'.fatBuffNum] BY <1>2, <2>1 DEF Serving, Mounted
    <3>8. PlaceInv'
      <4>1. then \in {"search", "copy"} BY DEF LoadTyped
      <4>2. CASE pc' = "report" BY <4>2 DEF PlaceInv
      <4>3. CASE /\ ~ (link >= EOC) /\ dir' = [dir EXCEPT !.cur = link] /\ pc' = then
                 /\ mem' = Read(FirstSectorOfCluster(link), fat.clusterSize, fat.dirBuff, w.m)
        <5>1. link \in EntriesOf(card) /\ link < EOC BY <4>3, <3>3, <3>4
        <5>2. dir'.cur = link /\ card' = card BY <4>3, <1>1 DEF LoadTyped
        <5>3. CASE then = "search"
          <6>1. read' = 0 BY <5>3, <2>1, <1>1 DEF PlaceInv
          <6> QED BY <5>1, <5>2, <5>3, <6>1, <4>3 DEF PlaceInv
        <5>4. CASE then = "copy"
          <6>1. PICK i \in 1 .. Len(card.file) : c = card.file[i] /\ read = ReadAfter(i)
            BY <5>4, <2>1, <1>1 DEF PlaceInv
          <6>2. i + 1 \in 1 .. Len(card.file) /\ link = card.file[i + 1]
            BY <6>1, <5>1, <3>2, <2>1, LinksAre
          <6>3. ReadAfter(i + 1 - 1)' = read'
            <7>1. i + 1 - 1 = i BY <6>1
            <7> QED BY <7>1, <6>1, <1>1 DEF ReadAfter
          <6>4. InBuffer(mem', card.file[i + 1])
            BY <6>2, <5>1, <4>3, <1>2, <1>1, <1>3, <2>2, <3>1, WalkReads
          <6>5. InBuffer(mem, card.file[i + 1])'
            <7>1. fat'.clusterSize = fat.clusterSize /\ fat'.dataStart = fat.dataStart
              BY <3>9 DEF LoadTyped
            <7> QED BY <7>1, <6>4, <1>1 DEF InBuffer, FirstSectorOfCluster
          <6>6. /\ pc' = "copy" /\ i + 1 \in 1 .. Len(card'.file) /\ dir'.cur = card'.file[i + 1]
                /\ read' = ReadAfter(i + 1 - 1)'
            BY <6>2, <6>3, <5>2, <5>4, <4>3
          <6> QED BY <6>5, <6>6 DEF PlaceInv
        <5> QED BY <5>3, <5>4, <4>1
      <4> QED BY <4>2, <4>3, <1>2
    <3> QED BY <3>5, <3>6, <3>7, <3>8
  <2>4. fat' = [fat EXCEPT !.fatBuffNum = fat'.fatBuffNum] /\ pc' \notin {"init", "mount"}
    BY <1>2 DEF LoadTyped
  <2>5. Mounted /\ asked' \subseteq Addrs BY <2>1, <1>1 DEF Serving, LoadInv
  <2> HIDE DEF Goes, Step
  <2> QED BY <2>3, <2>4, <2>5, <1>1, <1>3, Assembled
<1>4. CASE ~ (trusted /\ fat.mounted)
  <2>1. fat' = [fat EXCEPT !.fatBuffNum = fat'.fatBuffNum] BY <1>2 DEF LoadTyped
  <2>2. pc' \notin {"init", "mount"} BY <1>2 DEF LoadTyped
  <2>3. trusted' => trusted BY <1>2
  <2> QED BY <2>1, <2>2, <2>3, <1>1, <1>4, NotServing
<1> QED BY <1>3, <1>4

-----------------------------------------------------------------------------
(* Sector k of the cluster after i of the file.                            *)
LEMMA FileSectorIs ==
  ASSUME card \in Volumes, Mounted, NEW i \in 1 .. Len(card.file), NEW k \in 0 .. card.clusterSize - 1
  PROVE  FileSector((i - 1) * card.clusterSize + k) = FirstSectorOfCluster(card.file[i]) + k
<1> DEFINE S == card.clusterSize
           x == (i - 1) * S + k
<1>1. S \in Nat \ {0} /\ i - 1 \in Nat /\ Len(card.file) \in Nat BY CardIs, ClustersAre
<1>2. x \div S = i - 1 /\ x % S = k BY <1>1, SectorInCluster
<1> HIDE DEF x
<1>3. card.file[1 + (x \div S)] = card.file[i]
  <2>1. 1 + (i - 1) = i BY <1>1
  <2> QED BY <2>1, <1>2
<1>4. FileSector(x) = card.base + card.reserved + card.fatLength * card.fats + (card.file[i] - 2) * S + k
  BY <1>2, <1>3 DEF FileSector
<1>5. FirstSectorOfCluster(card.file[i])
        = (card.file[i] - 2) * S + (card.reserved + card.fatLength * card.fats + card.base)
  BY DEF FirstSectorOfCluster, Mounted
<1>6. /\ card.base \in Int /\ card.reserved \in Int /\ card.fatLength * card.fats \in Int
      /\ (card.file[i] - 2) * S \in Int
  <2>1. card.file[i] \in Int BY ClustersAre
  <2>2. (card.file[i] - 2) * S \in Int BY <2>1, <1>1, SMTT(30)
  <2> QED BY <2>2, VolumeIs
<1> QED BY <1>4, <1>5, <1>6 DEF x

(* Before the last cluster the load has read whole clusters. *)
LEMMA ReadSoFar ==
  ASSUME card \in Volumes, NEW i \in 1 .. Len(card.file), size \in Nat,
         read = ReadAfter(i - 1), read < size
  PROVE  LET S == card.clusterSize
             r == read + (IF size - read > S THEN S ELSE size - read)
         IN  /\ Whole(i) /\ read \in Nat
             /\ r = ReadAfter(i) /\ r \in Nat /\ r > read /\ r <= read + S
             /\ read + S <= Blocks
<1> DEFINE S == card.clusterSize
<1>1. S \in Nat \ {0} /\ i - 1 \in Nat /\ i \in Nat /\ Len(card.file) - i \in Nat
  <2>1. S \in Nat \ {0} BY CardIs
  <2>2. Len(card.file) \in Nat BY ClustersAre
  <2> QED BY <2>1, <2>2
<1>2. (i - 1) * S \in Nat /\ i * S \in Nat /\ i * S = (i - 1) * S + S BY <1>1
<1>3. Blocks = i * S + (Len(card.file) - i) * S /\ (Len(card.file) - i) * S \in Nat
  BY <1>1 DEF Blocks
<1> DEFINE a == (i - 1) * S
           b == i * S
           r == read + (IF size - read > S THEN S ELSE size - read)
           rest == (Len(card.file) - i) * S
<1>4. read = (IF size < a THEN size ELSE a) /\ ReadAfter(i) = (IF size < b THEN size ELSE b)
  BY DEF ReadAfter
<1>5. a \in Nat /\ b \in Nat /\ b = a + S /\ Blocks = b + rest /\ rest \in Nat BY <1>2, <1>3
<1> HIDE DEF a, b, rest, S
<1>6. read = a /\ read \in Nat BY <1>4, <1>5
<1>7. r = ReadAfter(i) /\ r \in Nat /\ r > read /\ r <= read + S /\ read + S <= Blocks
  BY <1>1, <1>4, <1>5, <1>6
<1>8. Whole(i) BY <1>6 DEF Whole, a, S
<1> QED BY <1>6, <1>7, <1>8 DEF S

(* Places of the cluster that goes to address a + r. *)
InPlace(a, r, S, t) ==
  /\ \A k \in 0 .. S - 1 : a + (r + k) = t + k /\ t + k \in Over(t, S) /\ (t + k) - t = k
  /\ \A j \in Nat : j >= r /\ j < r + S =>
       j - r \in 0 .. S - 1 /\ r + (j - r) = j /\ a + j \in Over(t, S)

LEMMA PlaceIs ==
  ASSUME NEW a \in Nat, NEW r \in Nat, NEW S \in Nat, NEW t, t = a + r
  PROVE  InPlace(a, r, S, t)
BY DEF Over, InPlace

(* The cluster in the buffer goes to its place in the file's memory. *)
LEMMA ClusterCopied ==
  ASSUME LoadInv, trusted, fat.mounted, NEW i \in 1 .. Len(card.file), InBuffer(mem, card.file[i]),
         Whole(i), read \in Nat, addr \in asked,
         read + card.clusterSize <= Blocks,
         Over(addr + read, card.clusterSize) \cap BufferBlocks = {},
         NEW p, p = Copied(mem, fat.dirBuff, addr + read, fat.clusterSize)
  PROVE  /\ IsMemory(p)
         /\ \A b \in 0 .. RamBlocks - 1 : b \notin Over(addr + read, card.clusterSize) => p[b] = mem[b]
         /\ \A k \in 0 .. card.clusterSize - 1 : p[addr + (read + k)] = FileSector(read + k)
<1> DEFINE S == card.clusterSize
           to == addr + read
<1>1. /\ card \in Volumes /\ Mounted /\ IsMemory(mem) /\ addr \in Addrs /\ RamBlocks \in Nat
  BY RamAssumption DEF LoadInv
<1>2. fat.clusterSize = S /\ fat.dirBuff = DirBlock BY <1>1 DEF Mounted
<1>3. /\ S \in Nat \ {0} /\ DirBlock \in Nat /\ DirBlock + S <= RamBlocks /\ Blocks \in Nat
      /\ DirBlock .. DirBlock + S - 1 \subseteq BufferBlocks
  BY <1>1, CardIs
<1>4. addr \in Nat /\ addr + Blocks <= RamBlocks BY <1>1, FileFits
<1>5. to \in Nat /\ to + S <= RamBlocks BY <1>1, <1>3, <1>4
<1>6. DirBlock + S <= to \/ to + S <= DirBlock
  <2> SUFFICES ASSUME DirBlock + S > to, to + S > DirBlock PROVE FALSE BY <1>3, <1>5
  <2>1. CASE to >= DirBlock
    <3>1. to \in DirBlock .. DirBlock + S - 1 /\ to \in to .. to + S - 1 BY <2>1, <1>3, <1>5
    <3>2. to \in Over(addr + read, card.clusterSize) BY <3>1 DEF Over
    <3>3. to \in BufferBlocks BY <3>1, <1>3
    <3> QED BY Zenon, <3>2, <3>3
  <2>2. CASE to < DirBlock
    <3>1. DirBlock \in DirBlock .. DirBlock + S - 1 /\ DirBlock \in to .. to + S - 1
      BY <2>2, <1>3, <1>5
    <3>2. DirBlock \in Over(addr + read, card.clusterSize) BY <3>1 DEF Over
    <3>3. DirBlock \in BufferBlocks BY <3>1, <1>3
    <3> QED BY Zenon, <3>2, <3>3
  <2> QED BY <2>1, <2>2, <1>3, <1>5
<1> HIDE DEF to
<1>7. CanCopy(DirBlock, to, S) BY <1>3, <1>5, <1>6 DEF CanCopy
<1>9. IsCopied(p, mem, DirBlock, to, S) BY <1>1, <1>2, <1>7, CopiedIs DEF to
<1>10. IsMemory(p) BY <1>9 DEF IsCopied
<1>11. \A b \in 0 .. RamBlocks - 1 : b \notin Over(to, S) => p[b] = mem[b]
  BY <1>9 DEF Over, IsCopied
<1>12. ASSUME NEW k \in 0 .. S - 1 PROVE p[addr + (read + k)] = FileSector(read + k)
  <2>1. addr + (read + k) = to + k /\ to + k \in 0 .. RamBlocks - 1 /\ to + k \in to .. to + S - 1
        /\ (to + k) - to = k
    <3>1. S \in Nat /\ to = addr + read BY <1>3 DEF to
    <3>2. addr + (read + k) = to + k /\ to + k \in Over(to, S) /\ (to + k) - to = k
      <4>1. addr \in Nat /\ S \in Nat /\ k \in 0 .. S - 1 BY <1>3, <1>4
      <4>2. InPlace(addr, read, S, to) BY <3>1, <4>1, PlaceIs
      <4> QED BY <4>1, <4>2 DEF InPlace
    <3>3. to + k \in to .. to + S - 1 BY <3>2 DEF Over
    <3>4. to \in Nat /\ to + S <= RamBlocks /\ RamBlocks \in Nat BY <1>5, <1>1
    <3>5. k \in 0 .. S - 1 OBVIOUS
    <3> HIDE DEF S
    <3>6. to + k \in 0 .. RamBlocks - 1 BY <3>1, <3>4, <3>5
    <3> QED BY <3>2, <3>3, <3>6
  <2>2. p[to + k] = mem[DirBlock + k] BY <2>1, <1>9 DEF IsCopied
  <2>3. mem[DirBlock + k] = FirstSectorOfCluster(card.file[i]) + k BY DEF InBuffer
  <2>4. FileSector(read + k) = FirstSectorOfCluster(card.file[i]) + k
    BY <1>1, FileSectorIs DEF Whole
  <2> QED BY <2>1, <2>2, <2>3, <2>4
<1> QED BY <1>10, <1>11, <1>12 DEF to

LEMMA CopyKeeps == LoadInv /\ LoadTyped /\ Copy => LoadInv'
<1> SUFFICES ASSUME LoadInv, LoadTyped, Copy PROVE LoadInv' OBVIOUS
<1>1. /\ card' = card /\ fat' = fat /\ asked' = asked /\ addr' = addr /\ size' = size /\ dir' = dir
      /\ pc = "copy" /\ pc' \in {"report", "walk", "lost"} /\ (trusted' => trusted)
  BY DEF Copy, Then
<1>2. CASE trusted /\ fat.mounted
  <2>1. Serving(mem, asked) /\ PlaceInv /\ CopiedInv /\ card \in Volumes /\ asked \subseteq Addrs
    BY <1>2, InvForms DEF LoadInv
  <2>2. /\ read \in Nat /\ size \in Nat /\ read <= Blocks
        /\ addr \in asked /\ Loaded(mem, addr, read)
    BY <2>1, <1>1 DEF CopiedInv
  <2>3. PICK i \in 1 .. Len(card.file) :
          dir.cur = card.file[i] /\ read = ReadAfter(i - 1) /\ InBuffer(mem, card.file[i])
    BY <2>1, <1>1 DEF PlaceInv
  <2>4. CASE read >= size
    <3>1. mem' = mem /\ read' = read /\ pc' = "report" BY <2>4, <1>1 DEF Copy
    <3>2. CopiedInv' BY <3>1, <2>2, <1>1, Carried DEF CopiedInv
    <3>3. PlaceInv' BY <3>1 DEF PlaceInv
    <3> QED BY <3>1, <3>2, <3>3, <2>1, <1>1, <1>2, Assembled DEF Serving, LoadInv
  <2>5. CASE read < size
    <3> DEFINE S == card.clusterSize
               to == addr + read
    <3>1. fat.clusterSize = S BY <2>1 DEF Serving, Mounted
    <3>5. /\ mem' = Copied(mem, fat.dirBuff, to, fat.clusterSize)
          /\ read' = read + (IF size - read > fat.clusterSize THEN fat.clusterSize ELSE size - read)
          /\ then' = "copy" /\ pc' \in {"walk", "lost"}
          /\ trusted' => Over(to, fat.clusterSize) \cap BufferBlocks = {}
      <4>1. ~ (read >= size) BY <2>2, <2>5
      <4> QED BY <4>1, Zenon DEF Copy, Then
    <3>2. /\ mem' = Copied(mem, fat.dirBuff, to, fat.clusterSize)
          /\ read' = read + (IF size - read > S THEN S ELSE size - read)
          /\ then' = "copy" /\ pc' \in {"walk", "lost"}
          /\ trusted' => Over(to, S) \cap BufferBlocks = {}
      BY <3>1, <3>5
    <3>3. /\ Whole(i) /\ read' = ReadAfter(i) /\ read' \in Nat /\ read' > read
          /\ read' <= read + S /\ read + S <= Blocks
      BY <2>1, <2>2, <2>3, <2>5, <3>2, ReadSoFar
    <3>4. S \in Nat \ {0} /\ RamBlocks \in Nat /\ Blocks \in Nat /\ addr \in Nat
          /\ addr + Blocks <= RamBlocks /\ Buffer \in Nat
          /\ DirBlock = Buffer + FATBUFFBLOCKS /\ FATBUFFBLOCKS \in Nat
          /\ BufferBlocks = Buffer .. DirBlock + S - 1
          /\ DirBlock + S <= RamBlocks
      BY <2>1, <2>2, CardIs, FileFits
    <3>6. ASSUME trusted'
          PROVE /\ IsMemory(mem') /\ fat'.fatBuffNum \in Int
                /\ fat'.fatBuffNum >= 0 => Window(mem', fat'.fatBuffNum)
                /\ Touched(mem', asked') /\ PlaceInv' /\ CopiedInv'
      <4>1. /\ IsMemory(mem')
            /\ \A b \in 0 .. RamBlocks - 1 : b \notin Over(to, S) => mem'[b] = mem[b]
            /\ \A k \in 0 .. S - 1 : mem'[addr + (read + k)] = FileSector(read + k)
        BY <1>2, <2>2, <2>3, <3>2, <3>3, <3>6, ClusterCopied
      <4>2. ASSUME NEW n \in Int, Window(mem, n), NEW k \in 0 .. FATBUFFBLOCKS - 1
            PROVE  mem'[Buffer + k] = fat.fatStart + n + k
        <5>1. Buffer + k \in 0 .. RamBlocks - 1 /\ Buffer + k \in BufferBlocks BY <3>4
        <5>2. Buffer + k \notin Over(to, S) BY <5>1, <3>2, <3>6
        <5> QED BY <5>1, <5>2, <4>1, <4>2 DEF Window
      <4>3. fat'.fatBuffNum \in Int /\ (fat'.fatBuffNum >= 0 => Window(mem', fat'.fatBuffNum))
        BY <4>2, <2>1, <1>1 DEF Serving, Window
      <4>4. Touched(mem', asked')
        <5> SUFFICES ASSUME NEW b \in 0 .. RamBlocks - 1
                     PROVE  \/ mem'[b] = IF b < LoaderBlocks THEN CODE ELSE FREE
                            \/ b \in BufferBlocks
                            \/ \E a \in asked : b \in Over(a, Blocks)
          BY <1>1 DEF Touched
        <5>1. CASE b \in Over(to, S)
          <6>1. b \in Over(addr, Blocks) BY <5>1, <2>2, <3>3, <3>4, SMTT(30) DEF Over
          <6> QED BY <6>1, <2>2
        <5>2. CASE b \notin Over(to, S)
          <6>1. mem'[b] = mem[b] BY <5>2, <4>1
          <6>2. Touched(mem, asked) BY <2>1 DEF Serving
          <6> QED BY <6>1, <6>2 DEF Touched
        <5> QED BY <5>1, <5>2
      <4>5. Loaded(mem', addr, read')
        <5> SUFFICES ASSUME NEW j \in 0 .. read' - 1
                     PROVE  mem'[addr + j] = FileSector(j) /\ addr + j \notin BufferBlocks
          BY DEF Loaded
        <5>1. CASE j < read
          <6>1. mem[addr + j] = FileSector(j) /\ addr + j \notin BufferBlocks
            BY <5>1, <2>2, <3>3 DEF Loaded
          <6>2. addr + j \in 0 .. RamBlocks - 1 /\ addr + j \notin Over(to, S)
            BY <5>1, <2>2, <3>3, <3>4 DEF Over
          <6> QED BY <6>1, <6>2, <4>1
        <5>2. CASE j >= read
          <6>1. j - read \in 0 .. S - 1 /\ read + (j - read) = j /\ addr + j \in Over(to, S)
            <7>1. S \in Nat /\ read \in Nat /\ addr \in Nat BY <2>2, <3>4
            <7>2. j \in Nat /\ j >= read /\ j < read + S
              <8>1. read' \in Nat /\ read' <= read + S /\ j \in 0 .. read' - 1 BY <3>3
              <8> DEFINE y == read'
              <8>5. y \in Nat /\ y <= read + S /\ j \in 0 .. y - 1 BY <8>1
              <8> HIDE DEF S, y
              <8>2. j < read + S BY <8>5, <7>1
              <8>3. j \in Nat BY <8>1
              <8>4. j >= read BY <5>2
              <8> QED BY <8>2, <8>3, <8>4
            <7>3. to = addr + read OBVIOUS
            <7> HIDE DEF to
            <7>4. InPlace(addr, read, S, to) BY <7>1, <7>3, PlaceIs
            <7> QED BY <7>2, <7>4 DEF InPlace
          <6>2. mem'[addr + (read + (j - read))] = FileSector(read + (j - read)) BY <6>1, <4>1
          <6>3. addr + j \notin BufferBlocks BY <6>1, <3>2, <3>6
          <6> QED BY <6>1, <6>2, <6>3
        <5> QED BY <5>1, <5>2, <2>2, <3>3
      <4>6. CopiedInv'
        <5>1. Loaded(mem, addr, read)' BY <4>5, <1>1, Carried
        <5>2. Blocks' = Blocks /\ read' <= Blocks BY <3>3, <3>4, <2>2, <1>1, Carried
        <5> QED BY <5>1, <5>2, <3>3, <2>2, <1>1 DEF CopiedInv
      <4>7. PlaceInv'
        <5>1. ReadAfter(i)' = ReadAfter(i) BY <1>1 DEF ReadAfter
        <5>2. i \in 1 .. Len(card'.file) /\ dir'.cur = card'.file[i] /\ read' = ReadAfter(i)'
          BY <5>1, <2>3, <3>3, <1>1
        <5> QED BY <5>2, <3>2 DEF PlaceInv
      <4> QED BY <4>1, <4>3, <4>4, <4>6, <4>7
    <3> QED BY <3>6, <2>1, <1>1, <1>2, Assembled DEF Serving, LoadInv
  <2> QED BY <2>2, <2>4, <2>5
<1>3. CASE ~ (trusted /\ fat.mounted) BY <1>1, <1>3, NotServing
<1> QED BY <1>2, <1>3

LEMMA LoadInvNext == LoadInv /\ LoadTyped /\ [BootNext]_bootVars => LoadInv'
<1> SUFFICES ASSUME LoadInv, LoadTyped, [BootNext]_bootVars PROVE LoadInv' OBVIOUS
<1>1. CASE UNCHANGED bootVars
  <2>1. card' = card /\ mem' = mem /\ pc' = pc /\ fat' = fat /\ dir' = dir /\ addr' = addr /\ size' = size
        /\ read' = read /\ then' = then /\ asked' = asked /\ trusted' = trusted
    BY <1>1 DEF bootVars
  <2>2. /\ IsMemory(mem)' <=> IsMemory(mem)
        /\ Touched(mem, asked)' <=> Touched(mem, asked)
        /\ Touched(mem, {})' <=> Touched(mem, {})
    BY <2>1, Carried DEF IsMemory
  <2>3. Mounted' <=> Mounted BY <2>1 DEF Mounted
  <2>4. Window(mem, fat.fatBuffNum)' <=> Window(mem, fat.fatBuffNum) BY <2>1 DEF Window
  <2>5. PlaceInv => PlaceInv'
    <3>1. \A i : ReadAfter(i)' = ReadAfter(i) BY <2>1 DEF ReadAfter
    <3>2. \A c : InBuffer(mem, c)' <=> InBuffer(mem, c)
      BY <2>1 DEF InBuffer, FirstSectorOfCluster
    <3> QED BY <2>1, <3>1, <3>2 DEF PlaceInv
  <2>6. CopiedInv => CopiedInv' BY <2>1, Carried DEF CopiedInv
  <2> QED BY <2>1, <2>2, <2>3, <2>4, <2>5, <2>6 DEF LoadInv
<1> QED
  BY <1>1, FileSystemInitKeeps, Fat32InitKeeps, LoadKeeps, FindKeeps, SearchOnKeeps, WalkKeeps,
           CopyKeeps, ReportKeeps
        DEF BootNext

LEMMA LoadInvAlways == BootSpec => []LoadInv
<1> DEFINE Inv == LoadInv /\ LoadTyped
<1>1. BootInit => Inv BY StartInit, TypedKept
<1>2. Inv /\ [BootNext]_bootVars => Inv' BY LoadInvNext, TypedKept
<1> QED BY <1>1, <1>2, PTL DEF BootSpec

(* loader.c:167, fat32.c:904: for every volume in order, whatever size its *)
(* directory gives and whichever reads fail, what a load reports is the    *)
(* beginning of the file, at its address.                                  *)
THEOREM LoadedIsFile == BootSpec => []ReportedIsLoaded
<1>1. LoadInv => ReportedIsLoaded
  <2> SUFFICES ASSUME LoadInv, pc = "report", trusted, fat.mounted
               PROVE  /\ read <= Len(card.file) * card.clusterSize
                      /\ \A i \in 0 .. read - 1 : mem[addr + i] = FileSector(i)
    BY DEF ReportedIsLoaded
  <2>1. CopiedInv BY InvForms
  <2> QED BY <2>1 DEF CopiedInv, Loaded, Blocks
<1> QED BY <1>1, LoadInvAlways, PTL

(* fat32.c:904: for every volume and every place of the buffers, a load    *)
(* changes the memory of the file it loads and no other.                   *)
THEOREM OnlyTheFile == BootSpec => []LoadTouchesOnly
<1>1. LoadInv => LoadTouchesOnly
  <2> SUFFICES ASSUME LoadInv, trusted, fat.mounted \/ fat.clusterSize = 0, NEW b \in DOMAIN mem
               PROVE  \/ mem[b] = IF b < LoaderBlocks THEN CODE ELSE FREE
                      \/ b \in BufferBlocks
                      \/ fat.mounted /\ \E a \in asked : b \in Over(a, Len(card.file) * card.clusterSize)
    BY DEF LoadTouchesOnly
  <2>1. CASE fat.mounted
    <3>1. IsMemory(mem) /\ Touched(mem, asked) BY <2>1, InvForms DEF Serving
    <3>2. b \in 0 .. RamBlocks - 1 BY <3>1 DEF IsMemory
    <3> QED BY <2>1, <3>1, <3>2 DEF Touched, Blocks
  <2>2. CASE ~ fat.mounted
    <3>1. IsMemory(mem) /\ Touched(mem, {}) BY <2>2, InvForms DEF Bare
    <3>2. b \in 0 .. RamBlocks - 1 BY <3>1 DEF IsMemory
    <3> QED BY <3>1, <3>2 DEF Touched
  <2> QED BY <2>1, <2>2
<1> QED BY <1>1, LoadInvAlways, PTL
=============================================================================
