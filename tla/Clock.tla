------------------------------- MODULE Clock -------------------------------
(***************************************************************************)
(* The clocks of the board and the counting of time: the registers of the  *)
(* clock unit, which ccu.c programs, the cycle counter, and delay_us,      *)
(* which turns microseconds into cycles with the frequency that pmu_ini    *)
(* has measured and polls the counter until they have passed.  Rates are   *)
(* in MHz, the measured frequency in kHz as in the code.                   *)
(***************************************************************************)
EXTENDS Integers

CONSTANTS
  Word,       \* values of the cycle counter: 2^32 in the code
  PollTicks,  \* cycles from one reading of the counter to the next
  Overheads,  \* cycles pmu_ini may find that a reading takes
  Entries,    \* cpux_axi_cfg and PLL1 as the boot ROM may leave them
  LockTurns,  \* turns of an empty loop after which PLL1 has locked
  Wakes       \* values of the counter when the hardware has answered

Half == Word \div 2

ASSUME WordAssumption == Word \in Nat \ {0} /\ Word = 2 * Half
ASSUME PollAssumption == PollTicks \in 1 .. Half - 1
ASSUME OverheadsAssumption == Overheads \subseteq Nat
ASSUME WakesAssumption == Wakes \subseteq 0 .. Word - 1
ASSUME EntriesAssumption ==
  Entries \subseteq [axi : Nat, pll1 : [n : 0 .. 31, k : 0 .. 3, m : 0 .. 3, p : 0 .. 3]]
(* What clock_set_pll1 relies on: it counts the turns, and looks at no bit. *)
ASSUME LockAssumption == LockTurns \in 0 .. 200

VARIABLES
  pc,         \* where core 0 is
  clk,        \* registers of the clock unit
  busy,       \* the hardware has still to set or clear the bit that is polled
  ccnt,       \* the cycle counter
  overhead, cpuFrep,
  dl          \* the delay that runs, or the last one

clockVars == <<clk, overhead, cpuFrep>>
-----------------------------------------------------------------------------
(* Registers: a factor f of a PLL is stored as f - 1 in the bits it has,   *)
(* but p, by whose power of two PLL1 is divided and no other PLL.          *)
OSC24M == 1
PLL1 == 2
Source(axi) == (axi \div 65536) % 4
AxiCfg(source) == 2 + 256 + 65536 * source   \* AXI_DIV_3, ATB_DIV_2

Factors(n, k, m) == [n |-> (n - 1) % 32, k |-> (k - 1) % 4, m |-> (m - 1) % 4, p |-> 0]
Rate(pll) == ((24 * (pll.n + 1) * (pll.k + 1)) \div 2 ^ pll.p) \div (pll.m + 1)

(* clock_set_pll1, clock_set_pll5: the least steps that reach the rate. *)
Pll1Factors(mhz) ==
  LET k == IF mhz > 1152 THEN 2 ELSE IF mhz > 768 THEN 3 ELSE 1
      m == IF mhz > 768 /\ mhz <= 1152 THEN 2 ELSE 1
  IN  Factors(mhz \div ((24 * k) \div m), k, m)

Pll5Factors(mhz) ==
  LET m == IF mhz > (24 * 1 * 32) \div 2 THEN 1 ELSE 2
      k == IF mhz > (24 * 1 * 32) \div 2 /\ mhz > 24 * 1 * 32 THEN 2 ELSE 1
  IN  Factors(mhz \div ((24 * k) \div m), k, m)

(* The whole register is compared with 0 and 1, and N is taken as stored. *)
CpuFreq(axi, pll1) ==
  IF axi = 0 THEN 32
  ELSE IF axi = 1 THEN 24000
  ELSE (24000 * pll1.n * (pll1.k + 1)) \div (2 ^ pll1.p * (pll1.m + 1))

SwitchBack(source, label, next) ==  \* the core is left on PLL1 while it is set
  /\ pc = label
  /\ clk' = IF source = OSC24M THEN clk ELSE [clk EXCEPT !.axi = AxiCfg(source)]
  /\ pc' = next
  /\ UNCHANGED <<overhead, cpuFrep, busy, ccnt, dl>>

(* The core leaves PLL1 before it is set, and comes back after. *)
SwitchTo(source, label, next) ==
  /\ pc = label
  /\ clk' = [clk EXCEPT !.axi = AxiCfg(source)]
  /\ pc' = next
  /\ UNCHANGED <<overhead, cpuFrep, busy, ccnt, dl>>

SetPll1(mhz, label, next) ==
  /\ pc = label
  /\ clk' = [clk EXCEPT !.pll1 = Pll1Factors(mhz), !.lock1 = FALSE]
  /\ pc' = next
  /\ UNCHANGED <<overhead, cpuFrep, busy, ccnt, dl>>

LockLoopEmpty(turns, label, next) ==  \* the loop is left out
  /\ pc = label
  /\ pc' = next
  /\ UNCHANGED <<clk, overhead, cpuFrep, busy, ccnt, dl>>

(* The empty loop in which PLL1 locks, if it has turns enough. *)
LockLoop(turns, label, next) ==
  /\ pc = label
  /\ clk' = [clk EXCEPT !.lock1 = turns >= LockTurns]
  /\ pc' = next
  /\ UNCHANGED <<overhead, cpuFrep, busy, ccnt, dl>>
-----------------------------------------------------------------------------
(* Time. *)
pmu_us2ticks(us) == (((cpuFrep \div 1000) + 1) * us) % Word

pmu_ini(label, next) ==
  /\ pc = label
  /\ ccnt' = 0
  /\ overhead' \in Overheads
  /\ cpuFrep' = CpuFreq(clk.axi, clk.pll1)
  /\ pc' = next
  /\ UNCHANGED <<clk, busy, dl>>

(* delay_us(us), after which core 0 is at next. *)
DelayThen(us, next) ==
  /\ pc' = "delay"
  /\ dl' = [next |-> next, us |-> us, start |-> ccnt, waited |-> 0,
            target |-> (ccnt - overhead + pmu_us2ticks(us)) % Word]
  /\ UNCHANGED ccnt

Signed(x) == IF x >= Half THEN x - Word ELSE x

PassedUnsigned(cur, target) == {cur >= target}  \* the words are compared as they are

(* cur - target is a subtraction of int32_t: the build may wrap it, or     *)
(* compare the two, which differs only where the subtraction overflows.    *)
Passed(cur, target) == {Signed((cur - target) % Word) >= 0, Signed(cur) >= Signed(target)}

(* A whole turn of the counter, after which the model follows a delay no   *)
(* longer: the comparison of two signed words passes over an end that      *)
(* falls between two readings just below 2^31, and may do so again.        *)
MaxWait == Word
Turned == dl.waited > MaxWait

DelayPoll ==
  /\ pc = "delay" /\ ~ Turned
  /\ \E over \in Passed(ccnt, dl.target) :
       IF over THEN pc' = dl.next /\ UNCHANGED <<ccnt, dl>>
               ELSE /\ ccnt' = (ccnt + PollTicks) % Word
                    /\ dl' = [dl EXCEPT !.waited = @ + PollTicks]
                    /\ UNCHANGED pc
  /\ UNCHANGED <<clockVars, busy>>

(* The hardware sets or clears the bit that is polled, if ever: that of    *)
(* PLL6 says that it has locked.                                           *)
Answer ==
  /\ busy
  /\ busy' = FALSE /\ ccnt' \in Wakes
  /\ clk' = [clk EXCEPT !.pll6 = IF @ = "locking" THEN "locked" ELSE @]
  /\ UNCHANGED <<pc, overhead, cpuFrep, dl>>

ClockInit ==
  /\ \E e \in Entries :
       clk = [axi |-> e.axi, pll1 |-> e.pll1, lock1 |-> TRUE,
              pll5 |-> [on |-> FALSE, f |-> Factors(1, 1, 1)], pll6 |-> "off", ahb1 |-> "osc"]
  /\ busy = FALSE /\ ccnt = 0 /\ overhead = 0 /\ cpuFrep = 0
  /\ dl = [next |-> "", us |-> 0, start |-> 0, waited |-> 0, target |-> 0]
=============================================================================
