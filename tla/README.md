# A TLA+ model of the Orange Pi (H3) bootloader

The bootloader is a bare-metal program for the Allwinner H3. Core 0 sets up clocks, DRAM, UART and
the SD/MMC card, mounts a FAT32 volume, and then serves a command line on the serial console: it
loads files from the card or over the serial line, reads and writes memory, and starts applications
on any of the four cores. There is no operating system and there are no interrupts: every wait is a
polling loop, and concurrency comes from the hardware around core 0 (the card's controller, the other
cores, the other end of the serial line) and from the power, which may go at any moment.

This directory holds the specifications of its logic, the configurations that model-check them with
TLC, and proofs checked by TLAPS. Lines are given as `file:line` of the source tree; `PROJECT.json`
maps every definition to the lines it models.

    tlc -config fat_table.cfg MCFatTable      # a run; the others are listed under "Runs"
    tlapm Fat32Proofs.tla                     # the proofs of the FAT layer and of FAT32; likewise
                                              # BlockIOProofs, SunxiMmcProofs, MmcInitProofs,
                                              # LoaderProofs, SerialLoadProofs, CommandProofs,
                                              # BoardProofs

## 1. Inventory

| Part | Source | State it keeps | Operations | Module |
|---|---|---|---|---|
| FAT layer | `fs/fat32.c` 70-204 | window `fatBuff` of the FAT, its base `fatBuffNum`, `fatDirty` | ReadFatSector, ReadEntry, WriteEntry, FlushFat, AllocateCluster | `FatTable`, abstractly `FatMap` |
| FAT32 files and directories | `fs/fat32.c` 205-933 | one directory cluster in the buffer of a `dir_t`, the volume on the card | MkFile, Mkdir, ReadFile, Stat | `Fat32` |
| MMC block layer | `drivers/mmc/mmc.c` | none besides `struct mmc` | bread, bwrite, berase, send_status | `BlockIO` |
| Card initialisation | `drivers/mmc/mmc.c` | version, rca, capabilities, capacity, bus width, clock, `has_init` | mmc_init and the commands under it | `MmcInit` |
| Host controller driver | `drivers/mmc/sunxi/mmc_bsp.c` | `fatal_err`, the module clock; registers and FIFO of the controller | mmc_send_cmd, mmc_set_ios | `SunxiMmc` |
| Start of the cores | `app/loader.c`, `arch/arm/boot.S`, `drivers/cpucfg` | `_boot_param`, reset, clock and power of each core | LoaderGo, _SetBoot, StartCore, boot_sec | `MultiCore` |
| Command line | `app/cmd.c`, `app/parser.c` | the line and a pointer into it | CmdInterpretCommand, GETCMD* | `Command` |
| Serial load, console input | `app/loader.c`, `drivers/uart/uart.c` | the line, the row of the terminal, count and progress of the load, FIFO of the UART | gets, putc, LoaderSerialLoad | `SerialLoad` |
| Start-up, load from the card | `app/main.c`, `app/loader.c`, `fs/fat32.c` 205-226, 556-700, 733-933 | `FatData`, the FAT window and the directory buffer, the RAM | FileSystemInit, Fat32Init, LoaderSdLoad, ReadFile | `Startup` |
| Clocks and time | `drivers/ccu`, `drivers/pmu`, `lib/delay.c` | registers of the clock unit, the cycle counter, `overhead`, `cpuFrep` | clock_set_pll1, clock_set_pll5, CpuFreq, pmu_ini, delay_us | `Clock` |
| DRAM controller | `drivers/ram` | parameters `para`, registers of the controller | DramInit, its training and the search of the size | `Dram` |
| GPIO, UART set-up, BoardInit | `drivers/gpio`, `drivers/uart`, `app/main.c` 75-117 | pins, pulls, levels, line control and divisor of the UART | BoardInit, GpioInit, GpioSetCfgpin, UartInit | `Board` |
| Library | `lib/*`, `arch/arm/lib/string.S` | none | memcpy, memset, strtoul, itoa | `Library` |
| Boot code of core 0, build | `arch/arm/boot.S`, `Makefile` | none | stack, modes, BSS | not modelled |

How they interact. `main` initialises the parts in order and loops over `CmdInterpretCommand`, which
calls the loader; the loader calls `Fat32ReadFile`, reads bytes of the UART, or starts cores. The FAT32
code calls its own FAT layer, and both call `mmc_bread` and `mmc_bwrite`; the block layer calls the
host driver through `mmc_send_cmd`. All calls are synchronous and on core 0. The shared state is
small: the three words `_boot_param`, written by core 0 and read by the cores it releases; the FIFO of
the controller, filled or emptied by the card while the driver does the opposite; the receive FIFO of
the UART; and the card itself, which outlives every loss of power.

What is hard, and what makes each part correct:

* **FAT layer.** A window that was changed must be saved before another is loaded; its base is computed
  near the end of the FAT; scans end on an unsigned count. Correct: what callers see is one plain table,
  and the window is never written outside the FAT.
* **Files and directories.** Chains are built link by link in a cached FAT whose window moves within a call
  and is saved when it does; a power loss may fall between the flush of the directory and that of the FAT, or
  within one, and reads fail. Correct: what was made stays, no two entries share a cluster, names appear
  after their data, every call ends.
* **Block layer.** One of several transfers fails. Correct: a call that reports success has moved every
  block, one that fails a prefix and nothing else.
* **Host driver.** Status bits, words and responses survive a command, the controller runs concurrently
  and may raise an error at any point or never answer. Correct: nothing of one command is taken for
  another's, and every call returns.
* **Initialisation.** Any command or answer is lost. Correct: driver, host and card agree in the end.
* **Cores.** A released core reads the words of its command while core 0 goes on. Correct: it runs the
  job of the command that released it, and only the cores named are disturbed.
* **Command line.** Optional arguments. Correct: the loader is called exactly for well-formed lines.
* **Serial load.** The line's end and the file come through one FIFO, and a correction of the line changes
  text and screen by different steps. Correct: every byte in its place, the screen shows what will run.
* **Start-up and load.** A chain is followed through a window that moves to and fro, its clusters pass
  through one buffer, and reads fail. Correct: what is reported as loaded is the file, nothing else in
  memory changes, every load returns.
* **BoardInit.** Clocks change under the core, the memory and the buses that run from them; a delay counts
  with a counter that wraps; the size of the memory is found by aliases with the controller set wider than
  the chip. Correct: delays last, gates are shut when they must be, the memory found is the memory fitted.
* **Library.** Alignment and lengths of a copy, overflow of a number that is read, the least number that is
  written. Correct: exactly the bytes asked for, exactly the number typed.

## 2. The modules

Every module states its constants with named assumptions, its variables with the names of the source,
one action per operation or per step another actor can interleave with, and at the end a type
invariant `TypeOK`, the safety properties, and the liveness properties. `TypeOK` documents the types; it
holds under every configuration (`INVARIANT TypeOK` can be added to any of them), and is listed in the run
of the FAT layer, whose proofs start from it. Operators with a comment after
their `==`, such as `LoadedUnclamped` in `FatTable`, are wrong variants of the definition that follows
them (the mutants of `PROJECT.json`): no specification uses them; with one of them in the place of the
definition its property must fail, which shows that the property sees that kind of mistake.

**FatMap** is the promise of the FAT layer: a table from sector and offset to 32-bit entries, and the
calls on it, each of which answers the entry it was for. **FatTable** is the code. `disk` is the FAT on
the card, and a call of `Fat32ReadFatSector` is the set of its outcomes, since transfers may stop short
when `Faults` allows it. `ReadEntry`, `WriteEntry` and `FlushFat` are single steps, and
`AllocateCluster` is a step per window scanned, because its termination is in question. The four top
bits of an entry are kept apart from the link: `WriteEntry` preserves them, `ReadEntry` masks them and
`AllocateCluster` compares all 32. `ImplementsMap` says that FatTable implements FatMap under the
mapping `fat <- Logical` (the window laid over the card) and `answer <- Answer`.

**Fat32** EXTENDS FatTable and adds the clusters, the one directory buffer, and the calls. A step is one
call of the FAT layer or one write of the card, so that `Crash` falls between any two writes, inside the
flush of a directory and inside every save of the window: that of `FlushTheFat` and those of the steps that
need another window (`AskedFor` says which sectors a step asks for, `SavingFat` that it has to save the window
first). `LoadFails` has the reads of directory and file clusters that fail, each with what the code does
then. `AlignedSpec` leaves out the scans that return a cluster they have not reserved (`fat32.c:193`, see
below). Directory slots are records (free, end, long name, entry, bytes of a file); sizes are
counted in clusters. `made`, `tried` and `spoilt` (a fault left a directory of which no claim is made) are
history variables that the properties are stated with.
`VolumeAssumption` says what the volumes a run begins with are made of, `CardsSound` (which the proofs
assume and `MCFat32` has TLC evaluate for its cards) that their chains and names are in order.
What C leaves undefined (an index of -1, the entry behind a NULL pointer) leads to the state
`"undefined"`, in which the model stops and claims nothing further.

**BlockIO** models `mmc_bread`, `mmc_bwrite` and `mmc_berase` as loops of transfers, each of which may
fail after part of its blocks, and the polling of the card's status. Block numbers are words and wrap.

**SunxiMmc** puts the driver's steps beside a controller that does what the driver waits for: raising
done, moving a word into or out of the FIFO, ending the data, raising an error, or nothing at all. Words
carry the number of their command. The divider of the clock is written in closed form, and `MCSunxiMmc`
has TLC compare it with the loop of the code for every rate. `SetIos` goes through stopping, setting and restarting the clock,
each of which can fail.

**MmcInit** is `mmc_init` with one step per command, against a card with the states of the SD and MMC
standards (idle, ready, ident, stby, tran), its address, bus width and speed. A command the card's state
does not allow gets no answer; any command or answer may be lost.

**MultiCore** has a step per store of core 0 and per load of `boot_sec`, since the cores interleave.
**Command** is the interpreter, with a line as a sequence of items (spaces, `<`, `>`, `*`, numbers,
words) and a step per parsed argument; its specification is called `CmdSpec`, so that `CommandProofs` can
extend it together with Library, the functions under it. **SerialLoad** has the sender, the FIFO, `gets` with backspaces and
the row of the terminal its echo writes, and the loop of `LoaderSerialLoad`, byte by byte.

**Startup** is `FileSystemInit`, `Fat32Init` with its arithmetic on words, and any number of `load sd`,
from the root directory to the copy into RAM. A block of memory holds the number of the sector it was read
from, so that a buffer that was overwritten, a link from another window and a cluster in another place are
all seen. `asked` and `trusted` are history variables: the addresses of the loads, and whether a read
failed that the code does not look at (`fat32.c:687`, or a FAT read whose NULL is followed, `fat32.c:115`)
or a load went over the buffers at 0x50000000 (`main.c:46`). Its specification is called
`BootSpec` (`BootInit`, `BootNext`), so that `LoaderProofs` can extend it together with MultiCore: the two are
what the loader does.

**Clock**, **Dram** and **Board** are one machine in three layers, each extending the one before: the
clock registers with the widths of their fields, `delay_us` as a loop of readings of a counter that wraps,
the locks of PLL1 (`LockLoop`: the code spins `LockTurns` turns and looks at nothing) and of PLL6 (polled),
and the bits the hardware sets (`busy`, `Answer`); the sequence of `DramInit` with one step per stretch of
code between two waits and the search of rows, banks and columns over `Cell`, what an address reaches in
the chip; and `BoardInit` with pins, UART and the order in which `main.c` calls everything.

**Library** runs one call of `memcpy`, `memset`, `strtoul` or `itoa` to its end, one step per iteration of a
loop; bytes are told apart by the address they came from, and a number written by `itoa` is read back.

Each `MC` module extends its module and gives the constants their values. There is no symmetry
reduction: the values are numbers or few.

## 3. Runs

| Run | Module | Shows | Bounds, and why they are enough |
|---|---|---|---|
| `fat_table` | FatTable | `TypeOK`, `WindowInRange`, `CleanWindowMatches`, `ImplementsMap`, `ScanEnds` | Four sectors under a window of two: three positions of the window, overlapping ones, and the base moved down at the end. Every content of the FAT. Any number of calls. Entries with the top bits set. |
| `fat32` | Fat32 | `CreatedFilesStay`, `NoCrossLink`, `DataBeforeName`, `ReadIsPrefix`, `CallsEnd` | A FAT of four sectors of three entries under a window of two, so that the window moves within a call and what was changed is saved on the way (the volumes `Fat32Init` mounts have 512 sectors and more under a window of four, `fat32.c:791`). Scans that come to the end of the FAT out of step are left out (`AlignedSpec`; see the claims below). Three calls, and one power loss or one failed read. Files of 0, 2 and 9 clusters (9 take what is left of a card of 12, through all windows), a file in a subdirectory; directories of four slots, which grow with the second name; deleted entries of one and two slots; roots of five and seven full clusters, at and past the limit of a directory. |
| `block_io` | BlockIO | `AllTransferred`, `PrefixMoved` (what is written and what is read) | Requests of up to 5 blocks by transfers of 2, so up to three with a short last one; starts inside, at and past the end and where `start + blkcnt` wraps; two calls, the second on a card and a buffer the first has changed. |
| `sunxi_mmc` | SunxiMmc | `OwnResponse`, `AllWordsMoved`, `NothingLeftOver`, `ClockAsAsked`, `CallsReturn` | Two words through a FIFO of one; three commands or clock changes, enough for a failed one, what it leaves, and the next; every rate `mmc.c` asks for and one that cannot be reached. |
| `mmc_init` | MmcInit | `InitAgrees`, `BusFits`, `KindRight`, `InitReturns` | Thirteen kinds of cards, each just put on or as the boot ROM leaves it; any two commands or answers lost, and the host's clock failing at any change; two tries where the code has many. |
| `multicore` | MultiCore | `RunsItsJob`, `CoresPowered`, `OthersKeepRunning`, `GoReachesCores` | Four cores as the H3; three commands, of two jobs that differ in every word, to any core or all: a core is started, left alone or started again. |
| `cmd` | Command | `CalledAsTyped` | All lines of `go` with every form of the core part and up to four arguments, apart or not (what `go` does with a core whose closing bracket follows the number at once is left open, see `GoAsDocumented`); the other commands with up to three arguments of every kind and more after them. |
| `serial_load` | SerialLoad | `FileInRam`, `ScreenRight`, `LoadEnds` | Every line of up to four keys of letters, spaces, backspaces and keys that do not print: a correction of nothing, of one and of more than one; files of every whole number of words up to 136 bytes, past two changes of the bar's step, through a FIFO of three. |
| `library` | Library | `CopiesExactly`, `NumberRead`, `RoundTrip` | Lengths up to 38 at all sixteen pairs of alignments: more than two rounds of the loop of 16 bytes with every rest. Words of 64 values, so that three digits overflow in bases 8 and 10 and two in base 16; every text of up to four characters of a sign, a prefix, digits and what is none; every number written. |
| `board` | Board | `DelaysCounted`, `BoardReady`, `SizeIsFitted`, `ClocksSafe`, `BoardUp` | Delays of their real lengths over a counter of 24 bits, found at 0, just before its end and just before its half whenever the hardware has answered: delays that cross neither, one and both. Every chip of up to 2 GB, and those whose lanes do not train. The core on the oscillator or on PLL1 at the start, PLL1 with its output divided by two. |
| `startup` | Startup | `ReportedIsLoaded`, `LoadTouchesOnly`, `LoadReturns` | Six volumes: a root where mkfs puts it, of two clusters, elsewhere, late on the card, one that leads back to itself, a volume too small; links before and after one another under a window of two of six sectors; two loads to four addresses, of which one overlaps the buffers; two reads that fail. |
| `startup_unmounted` | Startup | `LoaderSurvives` is **violated** | as above |

`CHECK_DEADLOCK FALSE` is given where the bound on the number of calls or faults ends every behaviour,
and for the sequences that end (an initialisation, a load).

### What the violated run shows

* `startup_unmounted`: "No filesystem support will be enabled", says `main.c:122` when `Fat32Init` has
  refused the volume. But `FatData` keeps the geometry that was read (`fat32.c:733-791`), the buffers stay
  NULL, and nothing tells `LoaderSdLoad`. The next `load sd` reads the first cluster of the root directory
  to address 0: the SRAM in which `lscript.lds` has placed the loader. TLC's trace is three steps: a volume
  with too few clusters, its refusal, a load.

### Other claims the code does not keep

These definitions are in the modules, after the properties, and no run above lists them. The change of
a configuration in the last column shows the counterexample.

| Claim | Code | What happens | To see it |
|---|---|---|---|
| `AllocReturnsReserved` | `fat32.c:193` | The number returned is computed with the sector asked for. When the base was moved down to keep the window inside the FAT, another entry was marked. | `fat_table.cfg`, `INVARIANT AllocReturnsReserved` |
| `NoCrossLink` with any scan | `fat32.c:193` | In a call of Fat32 the cluster returned is then linked into a file while the one marked is lost: a cluster that belongs to another chain is written over. | `fat32.cfg`, `SPECIFICATION FairVolSpec` |
| `FullMeansFull` | `fat32.c:199` | A scan that starts between two windows gives up without having seen the beginning of the FAT. | `fat_table.cfg`, `INVARIANT FullMeansFull` |
| `ScanEnds` | `fat32.c:182` | The unsigned count goes down by the window and misses zero when the FAT is no whole number of windows: the scan of a full FAT does not end. | `fat_table.cfg`, `FatSectors = 5` |
| `ParentIsDirectory` | `fat32.c:856` | A path that exists resolves to the file itself, and the new entry is written into it. | `fat32.cfg`, `Retry = TRUE`, `INVARIANT ParentIsDirectory` |
| `FoundIsNamed` | `fat32.c:615` | The length is one less than the name's, so the terminator is not compared. | `fat32.cfg`, `Paths <- LongPaths`, `INVARIANT FoundIsNamed` |
| `NamedOnce` | `fat32.c:567` | A search looks at `DIRMAXCLUSTERS` clusters of a directory, and what is made goes to a later one when they are full: the next `MkFile` does not find it and makes it again. | `fat32.cfg`, `Retry = TRUE`, `INVARIANT NamedOnce` |
| `StatIsSize` | `fat32.c:692` | `Fat32ResolvePath` copies the entry it found after `mmc_bread` has put the first cluster of the file into the buffer the entry lies in (`fat32.c:687`). | `fat32.cfg`, `INVARIANT StatIsSize` |
| `EntriesAllocated` | `fat32.c:226` | At the limit of a directory `AllocateDirEntries` returns `E_ERROR`, a small positive number that `WriteFile` uses as the index of its slots. | `fat32.cfg`, `INVARIANT EntriesAllocated` |
| `ReadyBeforeNext` | `mmc.c:231` | `mmc_write_blocks` does not look at what `mmc_send_status` returns. | `block_io.cfg`, `INVARIANT ReadyBeforeNext` |
| `CreatedFilesStay` without `BelowUnfinished` | `fat32.c:470` | A power loss between the two flushes of `Mkdir` leaves a name whose cluster is free; a file made gets the cluster, and one made below the name is written over it. | `fat32.cfg`, with `spoilt` and the last part of `CreatedFilesStay` only |
| `CreatedFilesStay` without `spoilt` | `fat32.c:226`, `236`, `687` | At the limit of a directory slots in use are written over; a power loss between the two entries that lengthen a directory leaves a link to a cluster that is free; after the failed read of a new directory its dots are written over with slots of the parent. | `fat32.cfg`, with `BelowUnfinished` and the last part of `CreatedFilesStay` only |
| `TransferChecked` | `mmc_bsp.c:479` | A FIFO that stalls without an error bit ends a data command with success. | `sunxi_mmc.cfg`, `Stalls = TRUE`, `INVARIANT TransferChecked` |
| `UnusableIsRefused` | `mmc.c:345`, `1118` | A card ready at the last poll is called unusable and used. | `mmc_init.cfg`, `INVARIANT UnusableIsRefused` |
| `CapacityFromExtCsd` | `mmc.c:901` | The failure of the first read of the extended CSD is dropped. | `mmc_init.cfg`, `INVARIANT CapacityFromExtCsd` |
| `GoDoesNotReturn` | `loader.c:91` | `LoaderGo` returns for every core but 0 ("Will not return", `cmd.c:229`). | `multicore.cfg`, `PROPERTY GoDoesNotReturn` |
| `GoAsDocumented` | `parser.c:89` | `go <1> addr` needs a space before the closing bracket. | `cmd.cfg`, `INVARIANT GoAsDocumented` |
| `LoadEnds` | `loader.c:145` | The load of a size that is no multiple of four waits for bytes that do not come. | `serial_load.cfg`, `Inputs <- Unaligned` |
| `FileInRam` | `uart.c:220` | After a line ended by CR LF the LF is the first byte of the file. | `serial_load.cfg`, `Endings <- CrLf` |

The runs that pass stay inside these limits, and their results hold there: a FAT that is a whole number
of windows for `ScanEnds`; for the properties of Fat32 no path made twice, no name that begins another and
no scan that comes to the end of the FAT from a window that is not a whole number of windows before it
(`AlignedSpec`). `CreatedFilesStay` and `ReadIsPrefix` name their exceptions themselves: `spoilt`
(a call went on after a read that failed, a directory was at the limit of its length, or half grown at a power
loss) and `BelowUnfinished`. Further limits: no line of `go` with the core's number next to its bracket; a controller that raises an error for a stalled FIFO;
whole words and lines ended by one character for the serial load. `mmc_init` includes the cards called
unusable; `InitAgrees` says nothing of them.

Some things the models have in them on purpose, which a reader of a run should know:

* `delay.c:46` subtracts two signed words. When they lie on either side of 2^31 the subtraction overflows,
  which C leaves undefined: `Passed` allows the wrapped difference and the comparison of the two words.
  With the second a delay may end at once or last for turns of the counter, so `DelaysCounted` leaves out
  delays that pass the half, and `BoardUp` those that went a whole turn (`MaxWait`, the bound of the model).
* `pmu_ini` measures before `main.c` raises PLL1, and `CpuFreq` takes N as it is stored (one less than the
  factor) and compares the whole register with 0 and 1. With PLL1 as a reset leaves it, 384 MHz are
  measured and about 1 GHz runs, so that delays last 0.4 of what was asked for; `DelaysCounted` is about the
  frequency that was measured.
* `clock_set_pll1` counts 200 turns for PLL1 to lock and does not look at the lock bit (`ccu.c:88-89`);
  `LockAssumption` is that they suffice, and `ClocksSafe` that the core is switched to PLL1 only after them.
* `mctl_await_completion` is described as "Wait up to 1s" (`dram_helpers.c:8`) and never times out: the
  model waits too, and `BoardUp` assumes that the hardware answers.
* `BoardInit` does not look at the size `DramInit` returns, 0 included; a chip of 4 GB would make it 0.
* The number of clusters is what is left of the total after `dataStart`, modulo a word; `dataStart` counts
  the hidden sectors too (`fat32.c:791`), and the search of a path starts in the first cluster of the data
  area, wherever the root is said to be (`fat32.c:638`).

## 4. Fairness

Safety properties assume none. The liveness properties assume what running code justifies:

* `WF(Scan)` in FatTable and `WF(Step)` in Fat32: the loops are sequential code on core 0. Nobody has to
  make another call.
* `WF(Driver)` in SunxiMmc: the driver's loops go on, and they are bounded. Nothing is asked of the
  controller, except that when the FIFO has stalled for as long as the driver waits it does something
  (in the hardware it raises its data timeout): `WF(FifoStalled /\ Controller)`. Without it the
  driver is in the case of `TransferChecked`, and returns all the same.
* `WF(Next)` in MmcInit: one process, whose commands all return (which is `CallsReturn` of SunxiMmc).
* `WF(Core0)` and `WF(boot_sec(c))` for each core in MultiCore: cores execute instructions. Typing
  commands and the return of applications are not fair.
* `WF(Send)` and `WF(Loader)` in SerialLoad: the sender sends what it has, the loader polls.
* `WF(BoardInit)` and `WF(Hardware)` in Board: core 0 goes on, and a bit that is polled without a limit is
  set in the end. The code relies on the second; it has no way to go on without it.
* Weak fairness of core 0's steps in Startup, the typing of `load` excluded: one process, whose transfers
  return, with success or not.
* None in FatMap, BlockIO, Command and Library, which have no liveness property: their loops are bounded by
  counts in the state, and a run that stops short of the end is covered by the safety properties.

## 5. Proofs

TLAPS proves these for every value of the constants that the named assumptions allow. The property of each
is checked by TLC as well, in the run of its module; only `VolumeIsSound` and `AlignedRuns` have none.

| Theorem | States | From |
|---|---|---|
| `Fat32Proofs!WindowCorrect` | `Spec => [](TypeOK /\ WindowInRange)`: also when transfers stop short | `GeometryAssumption`, `WordAssumption`, `ClusterAssumption`, `FaultAssumption` |
| `Fat32Proofs!CacheCorrect` | `Faults = {} => (Spec => []CleanWindowMatches)` | the same, and transfers that succeed |
| `Fat32Proofs!TableImplementsMap` | `Faults = {} => (Spec => ImplementsMap)` | the same |
| `Fat32Proofs!TableTyped` | `Spec => []TypeOK` | the same as `WindowCorrect` |
| `Fat32Proofs!VolumeIsSound` | `Faults = {} /\ CardsSound => (VolSpec /\ []Aligned => [](faults = 0 => Sound(Logical, data, Open)))` | those and `VolumeAssumption` |
| `Fat32Proofs!DataIsFirst` | `Faults = {} /\ CardsSound => (VolSpec /\ []Aligned => []DataBeforeName)` | the same |
| `Fat32Proofs!ChainsStayApart` | `Faults = {} /\ CardsSound => (VolSpec /\ []Aligned => []NoCrossLink)` | the same |
| `Fat32Proofs!AlignedRuns` | `AlignedSpec => VolSpec /\ []Aligned` | the same as `WindowCorrect` |
| `BlockIOProofs!MovedIsPrefix` | `Spec => [](TypeOK /\ PrefixMoved)` | `SizeAssumption`, `BmaxAssumption`, `PollsAssumption`, `RangeAssumption`, `DataAssumption` |
| `BlockIOProofs!CountIsMoved` | `Spec => []AllTransferred` | the same |
| `SunxiMmcProofs!ResponseIsOwn` | `~ Stalls => (Spec => []OwnResponse)` | `WordsAssumption`, and a FIFO that does not stall silently |
| `SunxiMmcProofs!WordsAreMoved` | `~ Stalls => (Spec => []AllWordsMoved)` | the same |
| `SunxiMmcProofs!ControllerIsLeftIdle` | `~ Stalls => (Spec => []NothingLeftOver)` | the same |
| `SunxiMmcProofs!ClockIsAsAsked` | `Spec => []ClockAsAsked` | `ClocksAssumption` |
| `MmcInitProofs!DriverAgrees` | `Spec => []InitAgrees` | `CardAssumption` |
| `MmcInitProofs!BusAlwaysFits` | `Spec => []BusFits` | the same |
| `MmcInitProofs!KindIsRight` | `Spec => []KindRight` | the same |
| `LoaderProofs!PoweredCores` | `Spec => [](TypeOK /\ CoresPowered)` | `CoresAssumption`, `AllAssumption`, `JobsAssumption`, `BoundAssumption` |
| `LoaderProofs!OwnJob` | `Patient => (Spec => []RunsItsJob)` | the same, and `Patient` |
| `LoaderProofs!OthersUndisturbed` | `Spec => OthersKeepRunning` | `CoresAssumption`, `AllAssumption`, `JobsAssumption`, `BoundAssumption` |
| `LoaderProofs!LoadedIsFile` | `BootSpec => []ReportedIsLoaded` | `VolumesAssumption`, `LinksAssumption`, `BufferAssumption`, `RamAssumption` |
| `LoaderProofs!OnlyTheFile` | `BootSpec => []LoadTouchesOnly` | the same |
| `SerialLoadProofs!FileArrives` | `SingleEnds => (Spec => []FileInRam)` | `WordAssumption`, `InputsAssumption`, and a line ended by one character |
| `SerialLoadProofs!ScreenIsRight` | `SingleEnds => (Spec => []ScreenRight)` | the same |
| `CommandProofs!LoaderCalled` | `CmdSpec => []CalledAsTyped` | `NumbersAssumption`, `NamesAssumption`, `LinesAssumption`, `CoresAssumption` of Command |
| `CommandProofs!EveryCopyExact` | `Spec => []CopiesExactly` | `MaxLenAssumption` |
| `CommandProofs!NumberIsRead` | `Spec => []NumberRead` | `HalfAssumption`, `BasesAssumption`, `TextsAssumption` |
| `CommandProofs!RoundTrips` | `Spec => []RoundTrip` | the same |
| `BoardProofs!ClocksChangeSafely` | `Spec => ClocksSafe` | `LockAssumption` (what `clock_set_pll1` counts to is no less than PLL1 needs) |
| `BoardProofs!BoardComesUp` | `Spec => []BoardReady` | the same |
| `BoardProofs!SizeFound` | `SizesFit => (Spec => []SizeIsFitted)` | the same, `ChipsAssumption`, and memories below 4 GB |
| `BoardProofs!DelaysAreRight` | `CounterSuits => (Spec => []DelaysCounted)` | `WordAssumption`, `PollAssumption`, `OverheadsAssumption`, `WakesAssumption`, `EntriesAssumption`, and a counter that is read within a microsecond and whose half outlasts every delay |

**FAT layer.** The window's range is inductive together with the types: `ReadFatSectorType` shows that
every outcome of a load has a base from which a whole window fits (`LoadBaseInRange`), and
`TypeStep` goes through the actions. It needs no assumption on transfers, since a failed load does not
move the base. With `Faults = {}` the invariant becomes `CacheInv`, which adds that a window that is not
dirty equals the card, and that no window is dirty or scanned before one has been loaded: without the
second part a flush at base -1 would write the wrong sectors. The refinement rests on three lemmas:
a flush makes the card what the caller sees (`FlushedIsLogical`), a load changes nothing a caller sees
and finds the entry asked for (`ReadFatSectorAnswers`, `EntryAddress`), and a store into the window is a
store into the table (`StoreView`). `MapStep` then has a step per action. The geometry is arbitrary: any
number of sectors, entries and window sectors that fit.

**Files and directories.** `Sound` says what a volume in order is. `TableSound`: an entry in use has its
link to another in use, no two entries have the same one, and no chain stops short, except those in `Open`,
which the call at hand has not ended yet. `NamesSound`: every name heads a chain of its own, in which the
bytes of its file are. `SoundInv` says that as long as nothing has failed (`faults = 0`) the machine is `Running`:
the types and the places of the loops (`Shape`), what the call has reserved and not linked or named
(`Held`, `Claimable`), the buffer and the cluster it stands for (`Buffered`), and soundness of what the
callers see (`SoundNow`). There is a lemma for each kind of step: an entry reserved, linked or ended, data
written, a name put down, a directory grown. That a chain ends is by the pigeonhole principle, and what
the function of a chain computes by the least counterexample (`LeastNatural`, from well-foundedness of
the naturals, without an induction scheme). The assumption `Aligned` is about a line of the code:
`fat32.c:193` counts the cluster it returns from the sector it asked for and not from the window that was
loaded, which differ when the window was moved down at the end of the FAT; where they differ the call
links a cluster it has not reserved (see the claims above). The window has any size and the FAT any number of
them: `Aligned` only leaves out the scans that the clamped base at the end of the FAT puts out of step, and
`AlignedRuns` says that the behaviours of the run are among those of the theorems.

`NoCrossLink` is about the card as well as about what callers see. Within a call the window that is moved away
is saved, and may take half of what the call has linked to the card. `LinkInv` says what the card holds
then: a table that lags behind (`Extends(disk, Logical)`: every entry in use on the card is in use in what the
callers see and leads to where it led, or led nowhere), which between calls and after every `FlushFat` is the
same (`Settled`); and, for each place between two stores of a call, which entry is the one that leads
nowhere yet. Every store of a call is over such an entry (`StoreExtends`), and a window that is saved
keeps the relation (`CardLags`), whichever window it is. Hence two chains that met on the card would meet in what the
callers see, where `SoundInv` keeps them apart; the chains that have names end (`NamesEnd`), but for that of
a directory between the two entries that lengthen it.

**Block layer.** Both properties are about calls that have returned, and say nothing while the loop runs.
`LoopInv` ties the loop's `start` and `todo` to the call (what is done and what is left make the request,
and a transfer that went through ended on the card, so that `start` has not wrapped); `MovedInv` says that
card and buffer are at every moment what they were, with a prefix of the request moved: the blocks of the
finished transfers, and of the one at hand once it is through. A failure returns with some prefix, a
success with all of it.

**Host driver.** The invariant has the bits the controller shows for a command (`BitsInv`), where in
`mmc_send_cmd` the driver is and what it has seen there (`PlaceInv`), and for the data the words that are
in the buffer, in the FIFO and still at the card, which together are those of the command in order
(`ReadInv`, `WriteInv`), and that nothing is missing when the transfer has been left without an error
(`DeliveredInv`). That is where `~ Stalls` is used: after a silent stall the words left in the FIFO belong
to a command that succeeded (`TransferChecked` above). For the clock, `ClockInv` says that the
module clock is set, rounded up in the division (`Slow`), before it is let through to the card; an update
of the clock that fails is fatal, and the property claims nothing after it.

**Initialisation.** A card is just put on, or as the boot ROM left it, and then the driver's CMD0, for which the
host sees no answer whether it arrived or not, may be lost: `Unreset` says that such a card is still selected,
and answers nothing that the initialisation would take for an answer of a card that has been reset. For each command that `mmc_init` may be about to send, `CardInv` says where the card is
then and which address it has, `KindInv` that the version never names the other kind of card (and that
with no version there is no address, which ends the initialisation of an SD card whose answer was lost
before anything is believed of it), `WidthInv` and `SpeedInv` what the two ends of the bus are set to,
`AddressingInv` that the addressing is the card's unless it was called unusable, and `HostInv` that a host
that has failed is not asked again. The numbers of tries and losses do not appear: whatever is lost leads
to a state the invariant allows. `CardForms` says once what a command leaves of the card.

**Cores.** `CoresPowered` is not inductive: between the steps of `StartCore` a core is half way.
`PowerInv` adds, for each place in `StartCore`, which of reset, clock and power are already set. `OwnJob`
needs `HandOver`: from the third store on `_boot_param` holds the job of the command (`StoredInv`), and a
core that fetches has loaded the words of the command that released it and `_boot_param` still holds the
rest (`FetchInv`). The second is where `Patient` is used: no new command is typed while a core is
between its release and its jump. A command has at least `go 0` and an end of line to type, milliseconds
at 115200 baud, and `boot_sec` three loads. `OthersUndisturbed` is an action property: `NamedInv` says that
core 0 is never at a core the command does not name, and `RunningNext` that no other step touches a core
that runs.

**Loading from the card.** `LoadInv` says, for a volume that was mounted and as long as `trusted` holds, that
`FatData` is what the boot sector said (`Mounted`), that the window holds the sectors of the FAT from
`fatBuffNum` on (`Window`), where in its chain the load is and that the buffer holds the cluster it is about
to copy (`PlaceInv`), that what was read is in its place and none of it in a buffer (`CopiedInv`), and what
may have changed in memory (`Touched`). A read of a cluster leaves the window alone and a load of the window
the file; a read that stops short is either reported or ends the trust. A link read through the window is the
volume's (`LinkRead`), and along the file it leads to the file's next cluster (`LinksAre`). `memcpy` is a
recursive function of the model; that it copies each block when source and destination do not overlap is
`CopiedIs`, again by the least counterexample. The clusters that the search of the directory goes through are
any of the volume's, and a link the code could not read is anything (`Garbage`). The assumptions are a volume
in order (the links of the file lead through it to an end, and no link leaves the FAT), buffers inside the RAM
and behind the loader, and a file that fits behind the address it is loaded to: the code compares neither with
the size of the RAM.

**Serial load.** `Coming` and `At` read the FIFO and what has not been sent as one stream, which `Send`
leaves alone (`SendKeeps`) and every byte that is taken shortens by one (`TakeShifts`). While the line is
read, the stream is keys, one end of line and the file (`LineInv`); afterwards memory, the bytes of the word
that is being put together and the stream make up the file (`FileInv`). With `SingleEnds` the first end of
line is the last byte before the file. The lengths of lines and files and the depth of the FIFO are
arbitrary; that the load ends is left to TLC (a file of no whole number of words does not). For the
screen, the row of the terminal shows the line at every key (`Screen = Shows(row, str)`), whatever was
corrected, and later the bar of the progress.

**Command line.** `CalledAsTyped` reads the whole line at once (`Squeezed`, its items without the spaces, a
recursive function of the model), the code item by item. `SeenAt(p, n)` says that the parser stands at item
`p` of the line and has passed `n` of the others; `SkipKeeps` and `NextItem` that skipping spaces passes none
and taking an item passes one, which is the next of `Squeezed`. Where a number ends matters as well: `go` takes
a word for a number only if a space or the end follows, and `Alone(p)` says it was so up to `p`. `LineInv` gives
for each step of the interpreter how many items it has passed and what core, address and argument are of the
line. Every answer is then compared with the line (`Right`): where the code prints the usage, one item of a
good line is missing there (`NumberComes`), or a number does not stand alone (`StandAlone`). Of a line such as
`go <1> 7`, whose core is closed tight, the property says only that no other application is started: the
documentation wants it called and the parser answers with the usage (`GoAsDocumented`). Lines of any length, and any numbers and values, are allowed.

**Library.** The registers of the copy say which prefix has been written and how much is left;
`Filled(d)` is memory with everything below `d` in place, and each loop (bytes to the first boundary, 16s,
words, the rest) takes `Filled(dst)` to `Filled` of the new `dst`. Lengths and alignments are arbitrary.
For numbers, `Sums(h, t, b, q)` says that `h` has the partial sums of the digits `t` after a number `q`;
there is one such function, and it ends with `Value` (`SumsAgree`, `ValueIs`, by the least counterexample).
`ReadInv` splits the text at every step of `strtoul` as `Says` does at its end (spaces, sign, prefix, digits)
with the sum of the digits read, or that the sum is larger than a word and stays so; `DigitFits` is the
guard of the code. `WriteInv` says that the digits `itoa` has written, after the value that is left, make
the number. Both are one invariant (`NumInv`), since what was written is read back: the text of `itoa` has
no spaces and no prefix (its second character is never an "x", whose value is larger than any base), and
all of its digits are read. Texts, numbers and the size of the word are arbitrary.

**Clocks.** `Place` is where core 0 is, or will be when the delay that runs is over. `GatesShut` says that
up to the setting of PLL5 the memory's gates have not been opened, `OnOscillator` that PLL1 is set with the
core on the oscillator and has locked before the core goes back to it (here `LockAssumption` is used: nothing
but the turns of the loop stands for the lock), `BusesWait` that the buses are put on PLL6 only after its
lock bit was polled; `LaterKeepsClocks`
that the nineteen steps of `DramInit` after that leave the clocks alone. The width of the counter, the
chips and what the boot ROM left are arbitrary.

**The board.** `ReadyInv` says for each place of `BoardInit` which pins, gates and registers of the UART are
set (`ConsoleReady`) and that what is used is clocked (`ClocksRun`). `MemoryInv` follows the search for the
memory's size: which ranks and lanes have been found (`Trained`), that the controller is set as wide as it
can be while an address is compared with its alias, and that each count found is the chip's
(`Searched`, from where in the chip two addresses meet). `TimeInv` says that the cost of a reading was
measured once (`MeasuredOnce`) and how many ticks have passed when a delay's loop goes round
(`DelayRuns`): the counter may wrap at any reading, and no reading skips more than the delay allows.

Not proved, only model-checked: `CreatedFilesStay` and `ReadIsPrefix`, which relate what earlier calls returned
to every step of the later ones and to what a power loss leaves; what Fat32 does after a fault (`NoCrossLink`
and `DataBeforeName` say nothing then); and all liveness (`ScanEnds`, `CallsEnd`, `CallsReturn`, `InitReturns`, `GoReachesCores`, `LoadEnds`,
`LoadReturns`, `BoardUp`): liveness under fairness and ENABLED are outside what the installed prover
handles, and so are the library's induction theorems, in whose place the proofs about chains and digits use
the least counterexample. `Faults # {}` is left to `WindowCorrect` and `TableTyped`.

## 6. What the models leave out

* Names are short sequences of characters with an upper case, long-name entries one slot per name; checksums,
  dates and attributes other than directory or archive are left out. Sizes are in clusters, so that
  `ReadFile`'s copy of the whole last cluster is not seen there; Startup has it, in sectors. `Fat32Init`
  is the initial state of Fat32 and an action of Startup. Both copies of the FAT are one table, as in the code.
* One fault per behaviour of the run of Fat32, a power loss or a failed read of a directory or a file. A
  transfer of sectors is cut at any slot or sector; a sector is written as a whole. In Fat32 reads and writes
  of the FAT and writes of clusters do not fail: the code looks at none of the results of `mmc_bwrite`, and
  follows the NULL of a failed FAT read (both in the hazards; Startup has failing FAT reads).
* In Fat32 the root is cluster 2 (`fat32.c:639` reads the first cluster of the data area, 588 follows the
  links of `rootCluster`), paths begin with a `/` (649-653 refuse others before anything is read), the bytes of a file
  never spell the entry that is looked for, and `data[0]`, `data[1]` stand for the sectors before the data
  area. A full FAT is followed to the use of cluster 0x0FFFFFF7: its data go to a sector past the end of the
  card, which `mmc_write_blocks` refuses, or with clusters of 8 kB and more to one before the data area (448,
  457), and the next access is behind a NULL pointer; the model stops at the first of these (`"undefined"`).
* The SPI branches of `mmc.c`, which this host never takes; the decoding of CSD and SCR; MMC high speed at
  26 MHz, which is folded into 52 MHz.
* `Stalls = FALSE` stands for a controller whose data timeout is shorter than the driver's 2000 polls.
* Loop counts (`Polls`, `Tries`, ...) are small; the code's are larger constants and nothing depends
  on their value but the number of repeated steps.
* In Command `strtoul` is the value of a number (it is in Library), and words fit theirs: `GETCMDSTRING` copies without a bound
  into `cmdStr[8]` and `file[32]` (`parser.c:105`, `186`).
* In Startup a volume's partition table and boot sector agree on where it begins, and the card is read only;
  names are found by the cluster of the directory they are in (the comparison of names is in Fat32). The
  library copies blocks there, from the lowest up.
* Caches and MMU are off on all cores (`boot.S`), so that a store is seen by the next load.
* In Dram: timing parameters (`ddr3_1333.c`), delays of bits, priorities, calibration codes. In Board: drive
  strengths, and registers that are written and never read. In Library: words of 6 bits in the run.

### Not modelled

* Boot code of core 0 (`boot.S` up to `main`) and the linker script: straight-line code before anything
  else runs, whose effects (modes, stack, BSS) no state of the models tells apart.
* `memcmp`, `strcmp`, `strlen`, `_ashldi3`: single loops without a state that outlives them.
* `timer.c`, which is not built, and functions without a caller (`GpioSetDrv`, the inputs of GPIO,
  `pmu_ticks2us`, `mmc_erase_t`, UART 1 to 3).
* The tables of `clock_sun6i.h`, `dram.h` and `mmc.h`: names of registers and bits.

## 7. Plan

Done: every component of the inventory except the boot code, the abstract specification of the FAT layer
and its refinement, and the proofs of eight modules.

What would come next:

1. `CreatedFilesStay` and `ReadIsPrefix` after a power loss: a table with chains that stop short and clusters
   that no name leads to, from which a next call starts.
2. The same two before any fault, as theorems: what the window may hold of the chain at hand, over several
   windows (`LinkInv` is the part about the table).
3. Composition of BlockIO with FatTable: transfers of the window as calls of `mmc_bread` and `mmc_bwrite`,
   with `Faults` given by what BlockIO says of failures.
4. Composition of Command with MultiCore and the loader: what is typed is what runs.
