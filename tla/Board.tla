------------------------------- MODULE Board -------------------------------
(***************************************************************************)
(* BoardInit, from the registers that the boot ROM leaves to the first     *)
(* character that main puts on the console: the counter and the frequency, *)
(* the clock of the core, the clock of the buses, the pins, the UART, and  *)
(* the memory.                                                             *)
(***************************************************************************)
EXTENDS Dram

VARIABLES
  gates,      \* blocks whose clock gate is open and whose reset is released
  pins,       \* function of a pin, by bank, index of its register and place in it
  pull, dat,
  uart        \* UART0

ioVars == <<gates, pins, pull, dat, uart>>
vars == <<pc, clk, busy, ccnt, overhead, cpuFrep, dl, dramVars, ioVars>>
-----------------------------------------------------------------------------
(* GPIO: pins are numbered by banks of 32.  A write to a block whose gate  *)
(* is shut is lost.                                                        *)
GPIO_A == 0
GPIO_L == 11
GPA(n) == 32 * GPIO_A + n
GPL(n) == 32 * GPIO_L + n
Block(pin) == IF pin \div 32 < GPIO_L THEN "pio" ELSE "r_pio"

Bank == {GPIO_A, GPIO_L}
GPIO_OUTPUT == 1
GPIO_DISABLE == 7
SUN8I_H3_GPA_UART0 == 2
GPIO_PULL_UP == 1

GpioSetCfgpin(p, pin, val) ==
  IF Block(pin) \in gates THEN [p EXCEPT ![<<pin \div 32, (pin % 32) \div 8, pin % 8>>] = val] ELSE p

GpioSetPull(p, pin, val) ==
  IF Block(pin) \in gates THEN [p EXCEPT ![<<pin \div 32, (pin % 32) \div 16, pin % 16>>] = val] ELSE p

GpioOutput(d, pin, val) ==
  IF Block(pin) \in gates THEN [d EXCEPT ![<<pin \div 32, pin % 32>>] = val] ELSE d

GpioInit ==
  /\ pc = "gpio"
  /\ gates' = gates \cup {"pio", "r_pio"}
  /\ pc' = "osc"
  /\ UNCHANGED <<clockVars, busy, ccnt, dl, dramVars, pins, pull, dat, uart>>
-----------------------------------------------------------------------------
(* UART0: while DLAB is set, data and ier are the two bytes of the divisor. *)
DLAB == 128
LC_8_N_1 == 3
BAUD_115200 == 13

WriteLcr(u, v) == [u EXCEPT !.lcr = v]
WriteData(u, v) == IF u.lcr >= DLAB THEN [u EXCEPT !.dll = v] ELSE [u EXCEPT !.sent = @ + 1]
WriteIer(u, v) == IF u.lcr >= DLAB THEN [u EXCEPT !.dlh = v] ELSE [u EXCEPT !.ier = v]
WriteFcr(u) == [u EXCEPT !.fifo = TRUE]

UartSetupLineFirst(u) ==  \* the line control is set before the divisor
  WriteFcr(WriteData(WriteIer(WriteLcr(WriteLcr(WriteIer(u, 0), DLAB), LC_8_N_1), 0), BAUD_115200))

UartSetup(u) ==
  WriteFcr(WriteLcr(WriteData(WriteIer(WriteLcr(WriteIer(u, 0), DLAB), 0), BAUD_115200), LC_8_N_1))
-----------------------------------------------------------------------------
StartPll6 ==
  /\ pc = "pll6"
  /\ clk' = [clk EXCEPT !.pll6 = "locking"]
  /\ Ask("ahb")
  /\ UNCHANGED <<overhead, cpuFrep, dramVars, ioVars>>

(* When the lock that is polled is there, the buses, the pins and UartInit. *)
StartConsole ==
  /\ Await("ahb")
  /\ clk' = [clk EXCEPT !.ahb1 = "pll6"]
  /\ pins' = LET a == GpioSetCfgpin(pins, GPA(15), GPIO_OUTPUT)
                 b == GpioSetCfgpin(a, GPL(10), GPIO_OUTPUT)
                 c == GpioSetCfgpin(b, GPA(15), GPIO_OUTPUT)
                 d == GpioSetCfgpin(c, GPA(4), SUN8I_H3_GPA_UART0)
             IN  GpioSetCfgpin(d, GPA(5), SUN8I_H3_GPA_UART0)
  /\ dat' = GpioOutput(dat, GPA(15), 1)
  /\ pull' = GpioSetPull(pull, GPA(5), GPIO_PULL_UP)
  /\ gates' = gates \cup {"uart0"}
  /\ uart' = UartSetup(uart)
  /\ Goto("sys")
  /\ UNCHANGED <<overhead, cpuFrep, dramVars>>

Init ==
  /\ pc = "pmu"
  /\ ClockInit /\ DramStart
  /\ gates = {}
  /\ pins = [p \in Bank \X (0 .. 3) \X (0 .. 7) |-> GPIO_DISABLE]
  /\ pull = [p \in Bank \X (0 .. 1) \X (0 .. 15) |-> 0]
  /\ dat = [p \in Bank \X (0 .. 31) |-> 0]
  /\ uart = [lcr |-> 0, dll |-> 0, dlh |-> 0, ier |-> 0, fifo |-> FALSE, sent |-> 0]

(* BoardInit does not look at what DramInit returns. *)
BoardInit ==
  \/ pmu_ini("pmu", "gpio") /\ UNCHANGED <<dramVars, ioVars>>
  \/ GpioInit
  \/ SwitchTo(OSC24M, "osc", "pll1") /\ UNCHANGED <<dramVars, ioVars>>
  \/ SetPll1(1000, "pll1", "lock") /\ UNCHANGED <<dramVars, ioVars>>
  \/ LockLoop(200, "lock", "cpu") /\ UNCHANGED <<dramVars, ioVars>>
  \/ SwitchTo(PLL1, "cpu", "pll6") /\ UNCHANGED <<dramVars, ioVars>>
  \/ StartPll6
  \/ StartConsole
  \/ DramStep /\ UNCHANGED ioVars
  \/ DelayPoll /\ UNCHANGED <<dramVars, ioVars>>

Hardware == Answer /\ UNCHANGED <<dramVars, ioVars>>

Next == BoardInit \/ Hardware

Spec == Init /\ [][Next]_vars
FairSpec == Spec /\ WF_vars(BoardInit) /\ WF_vars(Hardware)
-----------------------------------------------------------------------------
TypeOK ==
  /\ busy \in BOOLEAN /\ ccnt \in 0 .. Word - 1 /\ cpuFrep \in Nat /\ overhead \in {0} \cup Overheads
  /\ para \in Widths /\ size \in -1 .. 2 ^ 23 - 1

(* delay.c:38: a delay of us microseconds lasts, in cycles, what they make *)
(* at the measured frequency, less the cost of a reading, and one reading  *)
(* more at most, also when the counter passes zero on the way.  Not when   *)
(* it passes 2^31, where the subtraction of the code overflows.            *)
MHz == cpuFrep \div 1000
PassesHalf(d) == (Half - d.start) % Word <= (MHz + 1) * d.us + PollTicks

DelaysCounted ==
  (pc # "delay" /\ dl.us > 0 /\ ~ PassesHalf(dl)) =>
    /\ dl.waited >= MHz * dl.us - overhead
    /\ dl.waited < (MHz + 1) * dl.us + PollTicks

(* ccu.c:77-95, 98, main.c:89-92: PLL1 is set only while the core runs from *)
(* the oscillator, PLL5 while the memory's gates are shut, and neither the *)
(* core nor the buses run from a PLL that has not locked.                  *)
ClocksSafe ==
  [][ /\ clk'.pll1 # clk.pll1 => Source(clk.axi) = OSC24M /\ clk'.axi = clk.axi
      /\ clk'.pll5 # clk.pll5 => ~ mc.open
      /\ Source(clk'.axi) = PLL1 => clk'.lock1
      /\ clk'.ahb1 = "pll6" => clk'.pll6 = "locked" ]_vars

(* main.c:75: when main puts its first line, the pins of the UART and of   *)
(* the two lights have their functions and no other pin has, nothing was   *)
(* sent while the UART was being set, its divisor is that of 115200 baud,  *)
(* and no clock is faster than it was asked to be nor slower by a step.    *)
BoardReady ==
  pc = "main" =>
    /\ \A p \in DOMAIN pins :
         pins[p] = CASE p \in {<<GPIO_A, 0, 4>>, <<GPIO_A, 0, 5>>} -> SUN8I_H3_GPA_UART0
                     [] p \in {<<GPIO_A, 1, 7>>, <<GPIO_L, 1, 2>>} -> GPIO_OUTPUT
                     [] OTHER -> GPIO_DISABLE
    /\ uart.sent = 0 /\ uart.fifo /\ uart.lcr = LC_8_N_1
    /\ uart.dll + 256 * uart.dlh = (24 * 1000 * 1000) \div (16 * 115200)
    /\ Source(clk.axi) = PLL1 /\ Rate(clk.pll1) \in 1000 - 48 .. 1000
    /\ Rate(clk.pll5.f) = 2 * CONFIG_DRAM_CLK

(* dram.c:386, 433: the memory found is the memory fitted: its ranks and   *)
(* the width of its bus, its rows, banks and columns, in the controller    *)
(* and in the size;  and none when its lanes do not train.                 *)
SizeIsFitted ==
  pc = "main" =>
    IF chip.good
    THEN /\ mc.cr = [dual |-> chip.dual, full |-> chip.full, row |-> chip.row, bank |-> chip.bank,
                     page |-> chip.page]
         /\ mc.ranks = IF chip.dual THEN 2 ELSE 1
         /\ size = 2 ^ (chip.row + chip.bank) * (chip.page \div 512) * mc.ranks
    ELSE size = 0

(* What DelaysCounted needs of the counter: reading it takes no longer than *)
(* the shortest delay asked, and the longest is under half a turn of it.    *)
CounterSuits ==
  \A e \in Entries :
    LET ticks == CpuFreq(e.axi, e.pll1) \div 1000 + 1
    IN  (\A o \in Overheads : o <= ticks) /\ ticks * 5500 <= Half

(* What SizeIsFitted needs of the memory: a size that the word DramInit    *)
(* returns can hold, so less than 4 GB.                                    *)
SizesFit ==
  \A c \in Chips :
    c.good => 2 ^ (c.row + c.bank) * (c.page \div 512) * (IF c.dual THEN 2 ELSE 1) < 2 ^ 23

(* main.c:109: when the hardware answers, the board comes up, with memory  *)
(* or without, unless a delay turns round the counter (Clock, MaxWait).    *)
BoardUp == <>(pc = "main" \/ Turned)
=============================================================================
