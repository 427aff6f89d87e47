---------------------------- MODULE BoardProofs -----------------------------
(***************************************************************************)
(* Proofs about BoardInit, from every setting of the clocks, with every    *)
(* memory, every counter and however long the hardware takes to answer:    *)
(* clocks change only while nothing that would mind runs from them (IInv), *)
(* the size reported is the size fitted (MemoryInv), main starts on a      *)
(* board that is set up (ReadyInv), and no delay ends early (TimeInv).     *)
(***************************************************************************)
EXTENDS Board, TLAPS

(* Where core 0 is, or will be when the delay that runs is over. *)
Place == IF pc = "delay" THEN dl.next ELSE pc

Start == {"pmu", "gpio", "osc", "pll1", "lock", "cpu", "pll6"}
Shut == Start \cup {"ahb", "sys", "reset", "pll5"}   \* before the memory has its clock

ClkKept == DOMAIN clk = {"axi", "pll1", "lock1", "pll5", "pll6", "ahb1"} /\ "next" \in DOMAIN dl

OnOscillator ==
  /\ Place \in {"pll1", "lock"} => Source(clk.axi) = OSC24M
  /\ Place = "cpu" => clk.lock1
  /\ Source(clk.axi) = PLL1 => clk.lock1

GatesShut == Place \in Shut => "open" \in DOMAIN mc /\ ~ mc.open

BusesWait ==
  /\ Place \in Start \cup {"ahb"} => clk.ahb1 # "pll6"
  /\ Place = "ahb" /\ ~ busy => clk.pll6 = "locked"
  /\ Place = "ahb" /\ busy => clk.pll6 = "locking"
  /\ clk.ahb1 = "pll6" => clk.pll6 = "locked"

IInv == ClkKept /\ OnOscillator /\ GatesShut /\ BusesWait

Safe == /\ clk'.pll1 # clk.pll1 => Source(clk.axi) = OSC24M /\ clk'.axi = clk.axi
        /\ clk'.pll5 # clk.pll5 => ~mc.open
        /\ Source(clk'.axi) = PLL1 => clk'.lock1
        /\ clk'.ahb1 = "pll6" => clk'.pll6 = "locked"
-----------------------------------------------------------------------------
LEMMA OscillatorSource == Source(AxiCfg(OSC24M)) = OSC24M /\ OSC24M # PLL1
BY DEF Source, AxiCfg, OSC24M, PLL1

LEMMA BoardStarts == Init => IInv
<1> SUFFICES ASSUME Init PROVE IInv OBVIOUS
<1>1. pc = "pmu" /\ mc.open = FALSE /\ "open" \in DOMAIN mc BY DEF Init, DramStart
<1>2. PICK e \in Entries :
        clk = [axi |-> e.axi, pll1 |-> e.pll1, lock1 |-> TRUE,
               pll5 |-> [on |-> FALSE, f |-> Factors(1, 1, 1)], pll6 |-> "off", ahb1 |-> "osc"]
  BY DEF Init, ClockInit
<1>3. clk.ahb1 = "osc" /\ clk.lock1 /\ DOMAIN clk = {"axi", "pll1", "lock1", "pll5", "pll6", "ahb1"}
  BY <1>2
<1>4. "next" \in DOMAIN dl BY DEF Init, ClockInit
<1>5. Place = "pmu" BY <1>1 DEF Place
<1> QED
  BY <1>1, <1>3, <1>4, <1>5 DEF IInv, ClkKept, OnOscillator, GatesShut, BusesWait, Start, Shut

(* What follows the opening of the gates does not touch a clock. *)
Later ==
  \/ UpdateClock \/ OpenGates \/ EnableClock
  \/ SetChannel \/ Unprotect \/ SetLanes \/ Calibrate \/ NextCalibration
  \/ DetectRanks \/ Retrain \/ CheckTraining \/ Refresh \/ RefreshAgain \/ SetOdt \/ ClearCredit
  \/ DetectSize \/ DetectRow \/ DetectBank \/ DetectPage

LEMMA LaterKeepsClocks ==
  ASSUME Later
  PROVE  clk' = clk /\ Place \notin Shut /\ Place' \notin Shut /\ (dl' = dl \/ "next" \in DOMAIN dl')
<1> USE DEF Place, Start, Shut, Goto, Ask, Delay, DelayThen, Await, clockVars
<1>1. CASE UpdateClock BY <1>1 DEF UpdateClock
<1>2. CASE OpenGates BY <1>2 DEF OpenGates
<1>3. CASE EnableClock BY <1>3 DEF EnableClock
<1>4. CASE SetChannel BY <1>4 DEF SetChannel
<1>5. CASE Unprotect BY <1>5 DEF Unprotect
<1>6. CASE SetLanes BY <1>6 DEF SetLanes
<1>7. CASE Calibrate BY <1>7 DEF Calibrate
<1>8. CASE NextCalibration BY <1>8 DEF NextCalibration
<1>9. CASE DetectRanks BY <1>9 DEF DetectRanks
<1>10. CASE Retrain BY <1>10 DEF Retrain
<1>11. CASE CheckTraining BY <1>11 DEF CheckTraining
<1>12. CASE Refresh BY <1>12 DEF Refresh
<1>13. CASE RefreshAgain BY <1>13 DEF RefreshAgain
<1>14. CASE SetOdt BY <1>14 DEF SetOdt
<1>15. CASE ClearCredit BY <1>15 DEF ClearCredit
<1>16. CASE DetectSize BY <1>16 DEF DetectSize
<1>17. CASE DetectRow BY <1>17 DEF DetectRow
<1>18. CASE DetectBank BY <1>18 DEF DetectBank
<1>19. CASE DetectPage BY <1>19 DEF DetectPage
<1> QED BY <1>1, <1>2, <1>3, <1>4, <1>5, <1>6, <1>7, <1>8, <1>9, <1>10, <1>11, <1>12, <1>13,
           <1>14, <1>15, <1>16, <1>17, <1>18, <1>19 DEF Later

LEMMA BoardSteps == IInv /\ [Next]_vars => IInv' /\ [Safe]_vars
<1> SUFFICES ASSUME IInv, [Next]_vars PROVE IInv' /\ Safe OBVIOUS
<1> USE DEF IInv, ClkKept, OnOscillator, GatesShut, BusesWait, Safe, Place, Start, Shut,
        clockVars, dramVars, ioVars
<1>1. CASE pmu_ini("pmu", "gpio") /\ UNCHANGED <<dramVars, ioVars>> BY <1>1 DEF pmu_ini
<1>2. CASE GpioInit BY <1>2 DEF GpioInit
<1>3. CASE SwitchTo(OSC24M, "osc", "pll1") /\ UNCHANGED <<dramVars, ioVars>>
  BY <1>3, OscillatorSource DEF SwitchTo
<1>4. CASE SetPll1(1000, "pll1", "lock") /\ UNCHANGED <<dramVars, ioVars>> 
  BY <1>4, OscillatorSource DEF SetPll1
<1>12. CASE LockLoop(200, "lock", "cpu") /\ UNCHANGED <<dramVars, ioVars>>
  <2>1. 200 >= LockTurns BY LockAssumption
  <2>2. /\ pc = "lock" /\ pc' = "cpu" /\ clk' = [clk EXCEPT !.lock1 = TRUE]
        /\ mc' = mc /\ dl' = dl /\ busy' = busy
    BY <1>12, <2>1 DEF LockLoop
  <2> QED BY <2>2
<1>5. CASE SwitchTo(PLL1, "cpu", "pll6") /\ UNCHANGED <<dramVars, ioVars>> BY <1>5 DEF SwitchTo
<1>6. CASE StartPll6 BY <1>6 DEF StartPll6, Ask
<1>7. CASE StartConsole
  <2>1. /\ pc = "ahb" /\ pc' = "sys" /\ dl' = dl /\ mc' = mc
        /\ clk' = [clk EXCEPT !.ahb1 = "pll6"] /\ ~ busy
    BY <1>7 DEF StartConsole, Goto, Await
  <2> QED BY <2>1
<1>8. CASE DramStep /\ UNCHANGED ioVars
  <2>1. CASE CloseGates BY <2>1 DEF CloseGates, Delay, DelayThen
  <2>2. CASE ResetClock BY <2>2 DEF ResetClock, Delay, DelayThen
  <2>3. CASE clock_set_pll5 BY <2>3 DEF clock_set_pll5, Delay, DelayThen
  <2>4. CASE Later
    <3>1. clk' = clk /\ Place' \notin Shut /\ (dl' = dl \/ "next" \in DOMAIN dl')
      BY <2>4, LaterKeepsClocks
    <3> HIDE DEF Place
    <3> QED BY <3>1
  <2> QED BY <1>8, <2>1, <2>2, <2>3, <2>4 DEF DramStep, Later
<1>9. CASE DelayPoll /\ UNCHANGED <<dramVars, ioVars>>
  <2>1. clk' = clk /\ mc' = mc /\ busy' = busy /\ pc = "delay" BY <1>9 DEF DelayPoll
  <2>2. \/ pc' = dl.next /\ dl' = dl
        \/ pc' = pc /\ dl' = [dl EXCEPT !.waited = @ + PollTicks]
    BY <1>9 DEF DelayPoll
  <2> QED BY <2>1, <2>2
<1>10. CASE Hardware BY <1>10 DEF Hardware, Answer
<1>11. CASE UNCHANGED vars BY <1>11 DEF vars
<1> QED BY <1>1, <1>2, <1>3, <1>4, <1>5, <1>6, <1>7, <1>8, <1>9, <1>10, <1>11, <1>12
        DEF Next, BoardInit

(* ccu.c:77-95, 98, main.c:89-92: from every setting of the clocks that    *)
(* BoardInit may find, with every memory and however the counter runs, PLL1 *)
(* is set only while the core runs from the oscillator, PLL5 only while the *)
(* gates of the memory are shut, and neither the core nor the buses run    *)
(* from a PLL that has not locked, if PLL1 locks in 200 turns of a loop.   *)
THEOREM ClocksChangeSafely == Spec => ClocksSafe
<1>1. IInv /\ [Next]_vars => IInv' /\ [Safe]_vars BY BoardSteps
<1> QED BY <1>1, BoardStarts, PTL DEF Spec, ClocksSafe, Safe
-----------------------------------------------------------------------------
(* The memory. *)
Pow(n) == 2 ^ n
LEMMA RowPower == ASSUME NEW n \in 11..16
  PROVE (n = 11 /\ Pow(n) = 2048) \/ (n = 12 /\ Pow(n) = 4096) \/ (n = 13 /\ Pow(n) = 8192)
        \/ (n = 14 /\ Pow(n) = 16384) \/ (n = 15 /\ Pow(n) = 32768) \/ (n = 16 /\ Pow(n) = 65536)
<1>1. n = 11 => Pow(n) = 2048 BY DEF Pow
<1>2. n = 12 => Pow(n) = 4096 BY DEF Pow
<1>3. n = 13 => Pow(n) = 8192 BY DEF Pow
<1>4. n = 14 => Pow(n) = 16384 BY DEF Pow
<1>5. n = 15 => Pow(n) = 32768 BY DEF Pow
<1>6. n = 16 => Pow(n) = 65536 BY DEF Pow
<1> QED
  BY <1>1, <1>2, <1>3, <1>4, <1>5, <1>6,
     n = 11 \/ n = 12 \/ n = 13 \/ n = 14 \/ n = 15 \/ n = 16
LEMMA RowBits == ASSUME NEW r \in 11 .. 15, NEW n \in 11 .. 16 PROVE (Pow(r) % Pow(n) = 0) <=> (n <= r)
<1>1. ASSUME NEW a, NEW b,
   (r = 11 /\ a = 2048) \/ (r = 12 /\ a = 4096) \/ (r = 13 /\ a = 8192)
        \/ (r = 14 /\ a = 16384) \/ (r = 15 /\ a = 32768),
   (n = 11 /\ b = 2048) \/ (n = 12 /\ b = 4096) \/ (n = 13 /\ b = 8192)
        \/ (n = 14 /\ b = 16384) \/ (n = 15 /\ b = 32768) \/ (n = 16 /\ b = 65536)
   PROVE (a % b = 0) <=> (n <= r)
   BY ONLY <1>1
<1>2. (r = 11 /\ Pow(r) = 2048) \/ (r = 12 /\ Pow(r) = 4096) \/ (r = 13 /\ Pow(r) = 8192)
        \/ (r = 14 /\ Pow(r) = 16384) \/ (r = 15 /\ Pow(r) = 32768)
  <2>1. r \in 11 .. 16 /\ r # 16 OBVIOUS
  <2> QED BY RowPower, <2>1
<1> QED BY <1>1, <1>2, RowPower

LEMMA AnyPower ==
  ASSUME NEW n \in {2, 3} \cup 11 .. 16
  PROVE  Pow(n) \in Nat \ {0} /\ 0 % Pow(n) = 0
<1>1. n \in {2, 3} => Pow(n) \in {4, 8}
  <2>1. n = 2 => Pow(n) = 4 BY DEF Pow
  <2>2. n = 3 => Pow(n) = 8 BY DEF Pow
  <2> QED BY <2>1, <2>2
<1>2. n \in 11 .. 16 => Pow(n) \in Nat \ {0} BY RowPower
<1>3. Pow(n) \in Nat \ {0} BY <1>1, <1>2
<1> QED BY <1>3
Fitted == chip \in Kinds

(* The base is in the first column, bank and row, whatever the controller. *)
LEMMA BaseCell ==
  ASSUME Fitted, mc.cr.page \in {512, 8192}, mc.cr.bank \in {2, 3}, mc.cr.row \in 11 .. 16
  PROVE  Cell(0) = <<0, 0, 0>>
<1>1. /\ chip.page \in {512, 1024, 2048, 4096, 8192} /\ chip.bank \in {2, 3} /\ chip.row \in 11 .. 16
      BY DEF Fitted, Kinds
<1>2. /\ 0 % Pow(mc.cr.bank) = 0 /\ 0 % Pow(chip.bank) = 0 /\ 0 % Pow(mc.cr.row) = 0
      /\ 0 % Pow(chip.row) = 0
      BY <1>1, AnyPower
<1>3. 0 \div Pow(mc.cr.bank) = 0
  <2>1. Pow(mc.cr.bank) \in Nat \ {0} BY AnyPower
  <2> QED BY <2>1
<1>4. 0 % mc.cr.page = 0 /\ 0 % chip.page = 0 /\ 0 \div mc.cr.page = 0 BY <1>1
<1> QED BY <1>2, <1>3, <1>4 DEF Cell, Pow

LEMMA RowSeen ==
  ASSUME Fitted, mc.cr.page = 512, mc.cr.bank = 2, mc.cr.row = 16, NEW r \in 11 .. 15
  PROVE  mctl_mem_matches(2 ^ (r + 2) * 512) <=> chip.row <= r
<1>1. /\ chip.page \in {512, 1024, 2048, 4096, 8192} /\ chip.bank \in {2, 3} /\ chip.row \in 11 .. 16
  BY DEF Fitted, Kinds
<1>2. 2 ^ (r + 2) * 512 = 2048 * Pow(r) /\ Pow(r) \in {2048, 4096, 8192, 16384, 32768}
  <2>1. r = 11 => 2 ^ (r + 2) = 8192 /\ Pow(r) = 2048 BY DEF Pow
  <2>2. r = 12 => 2 ^ (r + 2) = 16384 /\ Pow(r) = 4096 BY DEF Pow
  <2>3. r = 13 => 2 ^ (r + 2) = 32768 /\ Pow(r) = 8192 BY DEF Pow
  <2>4. r = 14 => 2 ^ (r + 2) = 65536 /\ Pow(r) = 16384 BY DEF Pow
  <2>5. r = 15 => 2 ^ (r + 2) = 131072 /\ Pow(r) = 32768 BY DEF Pow
  <2> QED BY <2>1, <2>2, <2>3, <2>4, <2>5, r = 11 \/ r = 12 \/ r = 13 \/ r = 14 \/ r = 15
<1>3. ASSUME NEW p \in {2048, 4096, 8192, 16384, 32768}
      PROVE  /\ (2048 * p) % 512 = 0 /\ (2048 * p) \div 512 = 4 * p /\ (4 * p) % 4 = 0
             /\ (4 * p) \div 4 = p /\ p % 65536 = p
  BY ONLY <1>3
<1>4. Pow(2) = 4 /\ Pow(16) = 65536 BY DEF Pow
<1> DEFINE o == 2048 * Pow(r)
<1>5. o % 512 = 0 /\ o \div 512 = 4 * Pow(r) /\ (4 * Pow(r)) % 4 = 0
      /\ (4 * Pow(r)) \div 4 = Pow(r) /\ Pow(r) % 65536 = Pow(r)
  BY ONLY <1>2, <1>3 DEF o
<1>6. 0 % chip.page = 0 /\ 0 % Pow(chip.bank) = 0 BY <1>1, AnyPower
<1>7. Cell(o) = << (o % mc.cr.page) % chip.page,
                   ((o \div mc.cr.page) % Pow(mc.cr.bank)) % Pow(chip.bank),
                   (((o \div mc.cr.page) \div Pow(mc.cr.bank)) % Pow(mc.cr.row)) % Pow(chip.row) >>
  BY DEF Cell, Pow
<1> HIDE DEF o
<1>8. Cell(o) = <<0, 0, Pow(r) % Pow(chip.row)>> BY ONLY <1>4, <1>5, <1>6, <1>7,
      mc.cr.page = 512, mc.cr.bank = 2, mc.cr.row = 16
<1>9. Cell(0) = <<0, 0, 0>> BY BaseCell
<1>10. (Pow(r) % Pow(chip.row) = 0) <=> (chip.row <= r) BY <1>1, RowBits
<1>11. 2 ^ (r + 2) * 512 = o BY <1>2 DEF o
<1> QED BY ONLY <1>8, <1>9, <1>10, <1>11 DEF mctl_mem_matches

LEMMA BankSeen ==
  ASSUME Fitted, mc.cr.page = 512, mc.cr.bank = 3, mc.cr.row = chip.row
  PROVE  mctl_mem_matches(2 ^ 2 * 512) <=> chip.bank = 2
<1>1. /\ chip.page \in {512, 1024, 2048, 4096, 8192} /\ chip.bank \in {2, 3} /\ chip.row \in 11 .. 16
  BY DEF Fitted, Kinds
<1>2. 2048 % 512 = 0 /\ 2048 \div 512 = 4 /\ 4 % 8 = 4 /\ 4 \div 8 = 0 OBVIOUS
<1>3. 0 % chip.page = 0 /\ 0 % Pow(chip.row) = 0 BY <1>1, AnyPower
<1>4. Pow(3) = 8 /\ 2 ^ 2 * 512 = 2048 BY DEF Pow
<1>5. Cell(2048) = << (2048 % mc.cr.page) % chip.page,
                      ((2048 \div mc.cr.page) % Pow(mc.cr.bank)) % Pow(chip.bank),
                      (((2048 \div mc.cr.page) \div Pow(mc.cr.bank)) % Pow(mc.cr.row)) % Pow(chip.row) >>
  BY DEF Cell, Pow
<1>6. Cell(2048) = <<0, 4 % Pow(chip.bank), 0>>
  BY ONLY <1>2, <1>3, <1>4, <1>5, mc.cr.page = 512, mc.cr.bank = 3, mc.cr.row = chip.row
<1>7. (4 % Pow(chip.bank) = 0) <=> (chip.bank = 2)
  <2>1. chip.bank = 2 => Pow(chip.bank) = 4 BY DEF Pow
  <2>2. chip.bank = 3 => Pow(chip.bank) = 8 BY DEF Pow
  <2> QED BY <1>1, <2>1, <2>2
<1>8. Cell(0) = <<0, 0, 0>> BY <1>1, BaseCell
<1> QED BY ONLY <1>4, <1>6, <1>7, <1>8 DEF mctl_mem_matches

LEMMA PageSeen ==
  ASSUME Fitted, mc.cr.page = 8192, mc.cr.bank = chip.bank, mc.cr.row = chip.row,
         NEW p \in {512, 1024, 2048, 4096}
  PROVE  mctl_mem_matches(p) <=> chip.page <= p
<1>1. /\ chip.page \in {512, 1024, 2048, 4096, 8192} /\ chip.bank \in {2, 3} /\ chip.row \in 11 .. 16
  BY DEF Fitted, Kinds
<1>2. p % 8192 = p /\ p \div 8192 = 0 OBVIOUS
<1>3. 0 % Pow(chip.bank) = 0 /\ 0 % Pow(chip.row) = 0 /\ 0 \div Pow(chip.bank) = 0
  <2>1. Pow(chip.bank) \in Nat \ {0} BY <1>1, AnyPower
  <2>2. 0 \div Pow(chip.bank) = 0 BY ONLY <2>1
  <2> QED BY <1>1, <2>2, AnyPower
<1>5. Cell(p) = << (p % mc.cr.page) % chip.page,
                   ((p \div mc.cr.page) % Pow(mc.cr.bank)) % Pow(chip.bank),
                   (((p \div mc.cr.page) \div Pow(mc.cr.bank)) % Pow(mc.cr.row)) % Pow(chip.row) >>
  BY DEF Cell, Pow
<1>6. Cell(p) = <<p % chip.page, 0, 0>>
  BY ONLY <1>2, <1>3, <1>5, mc.cr.page = 8192, mc.cr.bank = chip.bank, mc.cr.row = chip.row
<1>7. (p % chip.page = 0) <=> (chip.page <= p) BY <1>1
<1>8. Cell(0) = <<0, 0, 0>> BY <1>1, BaseCell
<1> QED BY ONLY <1>6, <1>7, <1>8 DEF mctl_mem_matches

Guess == [dual |-> TRUE, full |-> TRUE, row |-> 15, bank |-> 3, page |-> 4096]

Controllers == [open : BOOLEAN, cr : Widths, ranks : 0 .. 2, rounds : Nat]

Found == {"retrain", "retrained"}
Good == {"status", "refreshed", "odt", "credit", "size", "rows", "banks", "pages"}

FitTyped ==
  /\ chip \in Chips /\ chip \in Kinds /\ para \in Widths
  /\ mc \in Controllers

Untrained ==
  /\ Place \in Start \cup {"ahb", "sys", "reset", "pll5", "upd", "open", "clken", "channel",
                           "protect", "lanes", "zq", "zcal", "trained"} => para = Guess
  /\ Place \in {"protect", "lanes", "zq", "zcal", "trained"} => mc.cr = Guess
  /\ Place \in {"zq", "zcal", "trained"} => mc.ranks = 2

Trained ==
  /\ Place \in Found \cup Good =>
       /\ para.dual = chip.dual /\ mc.cr.dual = chip.dual
       /\ para.full = chip.full /\ mc.cr.full = chip.full
       /\ mc.ranks = IF chip.dual THEN 2 ELSE 1
  /\ Place \in Good => chip.good

Searched ==
  /\ Place = "rows" =>
       /\ mc.cr.row = 16 /\ mc.cr.bank = 2 /\ mc.cr.page = 512
       /\ para.row <= chip.row /\ para.bank = 2 /\ para.page = 512
  /\ Place = "banks" =>
       /\ mc.cr.row = chip.row /\ mc.cr.bank = 3 /\ mc.cr.page = 512
       /\ para.row = chip.row /\ para.bank <= chip.bank /\ para.page = 512
  /\ Place = "pages" =>
       /\ mc.cr.row = chip.row /\ mc.cr.bank = chip.bank /\ mc.cr.page = 8192
       /\ para.row = chip.row /\ para.bank = chip.bank /\ para.page <= chip.page

AtMain == Place = "main" =>
    IF chip.good
    THEN /\ mc.cr = [dual |-> chip.dual, full |-> chip.full, row |-> chip.row, bank |-> chip.bank,
                     page |-> chip.page]
         /\ mc.ranks = IF chip.dual THEN 2 ELSE 1
         /\ size = 2 ^ (chip.row + chip.bank) * (chip.page \div 512) * mc.ranks
    ELSE size = 0

MemoryInv == FitTyped /\ Untrained /\ Trained /\ Searched /\ AtMain

LEMMA KeepsMemory ==
  ASSUME MemoryInv, UNCHANGED dramVars,
         \/ Place' = Place
         \/ Place \in Start /\ Place' \in Start \cup {"ahb"}
         \/ Place = "ahb" /\ Place' = "sys"
         \/ <<Place, Place'>> \in
              {<<"reset", "pll5">>, <<"pll5", "upd">>, <<"upd", "open">>, <<"clken", "channel">>,
               <<"protect", "lanes">>, <<"retrain", "retrained">>, <<"status", "refreshed">>,
               <<"refreshed", "odt">>, <<"odt", "credit">>, <<"credit", "size">>}
  PROVE  MemoryInv'
<1>1. chip' = chip /\ para' = para /\ mc' = mc /\ size' = size BY DEF dramVars
<1> QED
  BY <1>1 DEF MemoryInv, FitTyped, Untrained, Trained, Searched, AtMain, Start, Found, Good

LEMMA SizeHeld ==
  ASSUME SizesFit, Fitted, chip \in Chips, chip.good
  PROVE  LET s == 2 ^ (chip.row + chip.bank) * (chip.page \div 512) * (IF chip.dual THEN 2 ELSE 1)
         IN  s % 2 ^ 23 = s
<1> DEFINE e == 2 ^ (chip.row + chip.bank)
           s == e * (chip.page \div 512) * (IF chip.dual THEN 2 ELSE 1)
<1>1. /\ chip.page \in {512, 1024, 2048, 4096, 8192} /\ chip.bank \in {2, 3} /\ chip.row \in 11 .. 16
  BY DEF Fitted, Kinds
<1>2. e \in Nat
  <2>1. chip.row + chip.bank \in 13 .. 19 BY <1>1
  <2>2. ASSUME NEW n \in 13 .. 19 PROVE 2 ^ n \in Nat
    <3>1. n = 13 => 2 ^ n = 8192 OBVIOUS
    <3>2. n = 14 => 2 ^ n = 16384 OBVIOUS
    <3>3. n = 15 => 2 ^ n = 32768 OBVIOUS
    <3>4. n = 16 => 2 ^ n = 65536 OBVIOUS
    <3>5. n = 17 => 2 ^ n = 131072 OBVIOUS
    <3>6. n = 18 => 2 ^ n = 262144 OBVIOUS
    <3>7. n = 19 => 2 ^ n = 524288 OBVIOUS
    <3> QED BY <3>1, <3>2, <3>3, <3>4, <3>5, <3>6, <3>7,
         n = 13 \/ n = 14 \/ n = 15 \/ n = 16 \/ n = 17 \/ n = 18 \/ n = 19
  <2> QED BY <2>1, <2>2
<1>3. chip.page \div 512 \in Nat BY <1>1
<1> HIDE DEF e
<1>4. s \in Nat BY <1>2, <1>3
<1>5. s < 2 ^ 23 BY DEF SizesFit, e
<1> HIDE DEF s
<1>6. s % 2 ^ 23 = s BY ONLY <1>4, <1>5
<1> QED BY <1>6 DEF s, e

(* What the assignments of DramInit to its parameters and to the register do. *)
Widest(p) == [p EXCEPT !.page = 512, !.row = 16, !.bank = 2]

LEMMA Searching ==
  ASSUME NEW p \in Widths
  PROVE  /\ Widest(p) \in Widths /\ Widest(p).dual = p.dual /\ Widest(p).full = p.full
         /\ Widest(p).row = 16 /\ Widest(p).bank = 2 /\ Widest(p).page = 512
<1> DEFINE r == [p EXCEPT !.page = 512]
           s == [r EXCEPT !.row = 16]
           t == [s EXCEPT !.bank = 2]
<1>1. r \in Widths BY DEF Widths
<1> HIDE DEF r
<1>2. s \in Widths BY ONLY <1>1 DEF Widths, s
<1> HIDE DEF s
<1>3. t \in Widths BY ONLY <1>2 DEF Widths, t
<1>4. Widest(p) = t BY DEF Widest, r, s, t
<1>5. Widest(p).dual = p.dual BY DEF Widths, Widest
<1>6. Widest(p).full = p.full BY DEF Widths, Widest
<1>7. Widest(p).row = 16 /\ Widest(p).bank = 2 /\ Widest(p).page = 512 BY DEF Widths, Widest
<1> QED BY ONLY <1>3, <1>4, <1>5, <1>6, <1>7

LEMMA Narrowing ==
  ASSUME NEW p \in Widths, NEW a \in BOOLEAN, NEW b \in BOOLEAN,
         NEW q, q = [p EXCEPT !.dual = a, !.full = b]
  PROVE  q \in Widths /\ q.dual = a /\ q.full = b
<1> DEFINE r == [p EXCEPT !.dual = a]
           s == [r EXCEPT !.full = b]
<1>1. r \in Widths BY DEF Widths
<1> HIDE DEF r
<1>2. s \in Widths BY ONLY <1>1, b \in BOOLEAN DEF Widths, s
<1>3. q = s BY DEF r, s
<1>4. q.dual = a BY DEF Widths
<1>5. q.full = b BY DEF Widths
<1> QED BY ONLY <1>2, <1>3, <1>4, <1>5

LEMMA CrIsParameters ==
  ASSUME NEW p \in Widths, mc \in Controllers
  PROVE  SetCr(p) \in Controllers /\ SetCr(p).cr = p /\ SetCr(p).ranks = mc.ranks
<1>1. [dual |-> p.dual, full |-> p.full, row |-> p.row, bank |-> IF p.bank = 3 THEN 3 ELSE 2,
       page |-> p.page] = p
  BY DEF Widths
<1> QED BY <1>1 DEF Controllers, SetCr

LEMMA RanksAreSet ==
  ASSUME NEW m \in Controllers, NEW r \in 0 .. 2, NEW n, n = [m EXCEPT !.ranks = r]
  PROVE  n \in Controllers /\ n.cr = m.cr /\ n.ranks = r
BY DEF Controllers

LEMMA MemorySteps ==
  ASSUME SizesFit, MemoryInv, DramStep
  PROVE  MemoryInv'
<1> USE DEF Place, Goto, Ask, Delay, DelayThen, Await
<1>1. CASE CloseGates
  <2>1. Place = "sys" /\ Place' = "reset" /\ mc' = [mc EXCEPT !.open = FALSE] /\ UNCHANGED <<chip, para, size>>
    BY <1>1 DEF CloseGates
  <2> HIDE DEF Place
  <2>2. mc \in Controllers BY DEF MemoryInv, FitTyped
  <2>3. mc' \in Controllers /\ mc'.cr = mc.cr /\ mc'.ranks = mc.ranks
    BY ONLY <2>1, <2>2 DEF Controllers
  <2>4. Place = "sys" /\ Place' = "reset" /\ UNCHANGED <<chip, para, size>> BY <2>1
  <2> QED
    BY ONLY <2>3, <2>4, MemoryInv
    DEF MemoryInv, FitTyped, Untrained, Trained, Searched, AtMain, Start, Found, Good
<1>2. CASE ResetClock BY <1>2, KeepsMemory DEF ResetClock
<1>3. CASE clock_set_pll5 BY <1>3, KeepsMemory DEF clock_set_pll5
<1>4. CASE UpdateClock BY <1>4, KeepsMemory DEF UpdateClock
<1>5. CASE OpenGates
  <2>1. Place = "open" /\ Place' = "clken" /\ mc' = [mc EXCEPT !.open = TRUE] /\ UNCHANGED <<chip, para, size>>
    BY <1>5 DEF OpenGates
  <2> HIDE DEF Place
  <2>2. mc \in Controllers BY DEF MemoryInv, FitTyped
  <2>3. mc' \in Controllers /\ mc'.cr = mc.cr /\ mc'.ranks = mc.ranks
    BY ONLY <2>1, <2>2 DEF Controllers
  <2>4. Place = "open" /\ Place' = "clken" /\ UNCHANGED <<chip, para, size>> BY <2>1
  <2> QED
    BY ONLY <2>3, <2>4, MemoryInv
    DEF MemoryInv, FitTyped, Untrained, Trained, Searched, AtMain, Start, Found, Good
<1>6. CASE EnableClock BY <1>6, KeepsMemory DEF EnableClock
<1>7. CASE SetChannel
  <2>1. Place = "channel" /\ Place' = "protect" /\ mc' = SetCr(para) /\ UNCHANGED <<chip, para, size>>
    BY <1>7 DEF SetChannel
  <2> HIDE DEF Place
  <2>2. para = Guess /\ para \in Widths /\ mc \in Controllers
    BY <2>1 DEF MemoryInv, Untrained, FitTyped
  <2>3. mc' = [mc EXCEPT !.cr = Guess] BY ONLY <2>1, <2>2 DEF SetCr, Guess
  <2> QED
    BY ONLY <2>1, <2>2, <2>3, MemoryInv
    DEF MemoryInv, FitTyped, Untrained, Trained, Searched, AtMain, Start, Found, Good,
        Controllers
<1>8. CASE Unprotect BY <1>8, KeepsMemory DEF Unprotect
<1>9. CASE SetLanes
  <2>1. Place = "lanes" /\ Place' = "zq" /\ mc' = [mc EXCEPT !.ranks = IF para.dual THEN 2 ELSE 1]
        /\ UNCHANGED <<chip, para, size>>
    BY <1>9 DEF SetLanes
  <2> HIDE DEF Place
  <2> QED
    BY ONLY <2>1, MemoryInv
    DEF MemoryInv, FitTyped, Untrained, Trained, Searched, AtMain, Start, Found, Good,
        Controllers, Guess
<1>10. CASE Calibrate
  <2>1. Place = "zq" /\ Place' = "zcal" /\ (\E n \in {1, 12} : mc' = [mc EXCEPT !.rounds = n - 1])
        /\ UNCHANGED <<chip, para, size>>
    BY <1>10 DEF Calibrate
  <2> HIDE DEF Place
  <2> QED
    BY ONLY <2>1, MemoryInv
    DEF MemoryInv, FitTyped, Untrained, Trained, Searched, AtMain, Start, Found, Good,
        Controllers
<1>11. CASE NextCalibration
  <2>1. /\ Place = "zcal" /\ Place' \in {"zcal", "trained"} /\ UNCHANGED <<chip, para, size>>
        /\ mc' = mc \/ (mc.rounds > 0 /\ mc' = [mc EXCEPT !.rounds = @ - 1])
    BY <1>11 DEF NextCalibration
  <2> HIDE DEF Place
  <2> QED
    BY ONLY <2>1, MemoryInv
    DEF MemoryInv, FitTyped, Untrained, Trained, Searched, AtMain, Start, Found, Good,
        Controllers
<1>12. CASE DetectRanks
  <2>1. /\ Place = "trained" /\ UNCHANGED <<chip, size>>
        /\ \/ /\ Place' = "retrain"
              /\ para' = [para EXCEPT !.dual = @ /\ ~ NoRank, !.full = @ /\ ~ NoLanes]
              /\ mc' = [SetCr(para') EXCEPT !.ranks = IF NoRank THEN 1 ELSE @]
           \/ Place' = "status" /\ ~ NoRank /\ ~ NoLanes /\ chip.good /\ UNCHANGED <<para, mc>>
    BY <1>12 DEF DetectRanks
  <2> HIDE DEF Place
  <2>2. para = Guess /\ mc.cr = Guess /\ mc.ranks = 2 BY <2>1 DEF MemoryInv, Untrained
  <2>3. chip \in Kinds /\ mc \in Controllers /\ para \in Widths BY DEF MemoryInv, FitTyped
  <2>4. chip.dual \in BOOLEAN /\ chip.full \in BOOLEAN BY ONLY <2>3 DEF Kinds
  <2>5. (NoRank <=> ~ chip.dual) /\ (NoLanes <=> ~ chip.full) BY <2>2 DEF NoRank, NoLanes, Guess
  <2>6. CASE Place' = "status"
    <3>1. chip.dual = TRUE /\ chip.full = TRUE /\ chip.good /\ UNCHANGED <<chip, size, para, mc>>
      BY <2>1, <2>4, <2>5, <2>6
    <3>2. para.dual = TRUE /\ para.full = TRUE /\ mc.cr.dual = TRUE /\ mc.cr.full = TRUE /\ mc.ranks = 2
      BY ONLY <2>2 DEF Guess
    <3>3. Trained'
      <4>1. (para.dual = chip.dual /\ mc.cr.dual = chip.dual)' BY ONLY <3>1, <3>2
      <4>2. (para.full = chip.full /\ mc.cr.full = chip.full)' BY ONLY <3>1, <3>2
      <4>3. (mc.ranks = IF chip.dual THEN 2 ELSE 1)' BY ONLY <3>1, <3>2
      <4> QED BY ONLY <4>1, <4>2, <4>3, <3>1 DEF Trained
    <3>4. (FitTyped /\ Untrained /\ Searched /\ AtMain)'
      BY ONLY <2>6, <3>1, MemoryInv DEF MemoryInv, FitTyped, Untrained, Searched, AtMain, Start
    <3> QED BY <3>3, <3>4 DEF MemoryInv
  <2>7. CASE Place' = "retrain"
    <3>1. /\ para' = [para EXCEPT !.dual = para.dual /\ ~ NoRank, !.full = para.full /\ ~ NoLanes]
          /\ mc' = [SetCr(para') EXCEPT !.ranks = IF NoRank THEN 1 ELSE SetCr(para').ranks]
      BY <2>1, <2>7
    <3>2. (para.dual /\ ~ NoRank) = chip.dual /\ (para.full /\ ~ NoLanes) = chip.full
      BY ONLY <2>2, <2>4, <2>5 DEF Guess
    <3>3. para' = [para EXCEPT !.dual = chip.dual, !.full = chip.full] BY ONLY <3>1, <3>2
    <3>4. para' \in Widths /\ para'.dual = chip.dual /\ para'.full = chip.full
      BY ONLY <3>3, <2>3, <2>4, Narrowing
    <3>5. SetCr(para') \in Controllers /\ SetCr(para').cr = para' /\ SetCr(para').ranks = 2
      BY ONLY <3>4, <2>2, <2>3, CrIsParameters
    <3>6. mc' = [SetCr(para') EXCEPT !.ranks = IF chip.dual THEN 2 ELSE 1]
      BY ONLY <3>1, <3>5, <2>5
    <3>7. (IF chip.dual THEN 2 ELSE 1) \in 0 .. 2 OBVIOUS
    <3>8. mc' \in Controllers /\ mc'.cr = para' /\ mc'.ranks = IF chip.dual THEN 2 ELSE 1
      BY ONLY <3>5, <3>6, <3>7, RanksAreSet
    <3>9. UNCHANGED <<chip, size>> BY <2>1
    <3> QED BY ONLY <2>7, <3>4, <3>8, <3>9, <2>3, MemoryInv
            DEF MemoryInv, FitTyped, Untrained, Trained, Searched, AtMain, Start, Found, Good
  <2> QED BY <2>1, <2>6, <2>7
<1>13. CASE Retrain BY <1>13, KeepsMemory DEF Retrain
<1>14. CASE CheckTraining
  <2>1. /\ Place = "retrained" /\ UNCHANGED <<chip, para, mc>>
        /\ \/ Place' = "main" /\ size' = 0 /\ (NoRank \/ NoLanes \/ ~ chip.good)
           \/ Place' = "status" /\ chip.good /\ size' = size
    BY <1>14 DEF CheckTraining
  <2> HIDE DEF Place
  <2>2. ~ NoRank /\ ~ NoLanes
    BY ONLY <2>1, MemoryInv DEF MemoryInv, FitTyped, Kinds, Trained, Found, NoRank, NoLanes
  <2>3. CASE Place' = "main"
    BY ONLY <2>1, <2>2, <2>3, MemoryInv
    DEF MemoryInv, FitTyped, Untrained, Trained, Searched, AtMain, Start, Found, Good
  <2>4. CASE Place' = "status"
    BY ONLY <2>1, <2>2, <2>4, MemoryInv
    DEF MemoryInv, FitTyped, Untrained, Trained, Searched, AtMain, Start, Found, Good
  <2> QED BY <2>1, <2>3, <2>4
<1>15. CASE Refresh BY <1>15, KeepsMemory DEF Refresh
<1>16. CASE RefreshAgain BY <1>16, KeepsMemory DEF RefreshAgain
<1>17. CASE SetOdt BY <1>17, KeepsMemory DEF SetOdt
<1>18. CASE ClearCredit BY <1>18, KeepsMemory DEF ClearCredit
<1>19. CASE DetectSize
  <2> DEFINE p == Widest(para)
  <2>1. /\ Place = "size" /\ Place' = "rows" /\ UNCHANGED <<chip, size>>
        /\ mc' = SetCr(p) /\ para' = [p EXCEPT !.row = 11]
    BY <1>19 DEF DetectSize, Widest
  <2> HIDE DEF Place
  <2>2. chip \in Kinds /\ mc \in Controllers /\ para \in Widths BY DEF MemoryInv, FitTyped
  <2>3. /\ p \in Widths /\ p.dual = para.dual /\ p.full = para.full
        /\ p.row = 16 /\ p.bank = 2 /\ p.page = 512
    BY ONLY <2>2, Searching DEF p
  <2> HIDE DEF p
  <2>4. mc' \in Controllers /\ mc'.cr = p /\ mc'.ranks = mc.ranks
    BY ONLY <2>1, <2>2, <2>3, CrIsParameters
  <2>5. para' \in Widths BY ONLY <2>1, <2>3 DEF Widths
  <2>6. para'.dual = p.dual /\ para'.full = p.full BY ONLY <2>1, <2>3 DEF Widths
  <2>7. para'.row = 11 /\ para'.bank = 2 /\ para'.page = 512 BY ONLY <2>1, <2>3 DEF Widths
  <2>8. /\ para.dual = chip.dual /\ para.full = chip.full /\ chip.good /\ chip.row >= 11
        /\ mc.ranks = IF chip.dual THEN 2 ELSE 1
    BY <2>1 DEF MemoryInv, Trained, Good, FitTyped, Kinds
  <2> QED BY ONLY <2>1, <2>2, <2>3, <2>4, <2>5, <2>6, <2>7, <2>8, MemoryInv
          DEF MemoryInv, FitTyped, Untrained, Trained, Searched, AtMain, Start, Found, Good
<1>20. CASE DetectRow
  <2>0. Place = "rows" BY <1>20 DEF DetectRow
  <2>1. \/ /\ para.row < 16 /\ ~ mctl_mem_matches(2 ^ (para.row + para.bank) * para.page)
           /\ para' = [para EXCEPT !.row = @ + 1] /\ mc' = mc /\ Place' = "rows"
        \/ /\ ~ (para.row < 16 /\ ~ mctl_mem_matches(2 ^ (para.row + para.bank) * para.page))
           /\ mc' = SetCr([para EXCEPT !.bank = 3]) /\ para' = [para EXCEPT !.bank = 2] /\ Place' = "banks"
    BY <1>20 DEF DetectRow
  <2>2. UNCHANGED <<chip, size>> BY <1>20 DEF DetectRow
  <2> HIDE DEF Place
  <2>3. chip \in Kinds /\ mc \in Controllers /\ para \in Widths
    BY DEF MemoryInv, FitTyped
  <2>4. /\ para.dual = chip.dual /\ para.full = chip.full /\ chip.good /\ mc.ranks = IF chip.dual THEN 2 ELSE 1
        /\ mc.cr.dual = chip.dual /\ mc.cr.full = chip.full
        /\ mc.cr.row = 16 /\ mc.cr.bank = 2 /\ mc.cr.page = 512
        /\ para.row <= chip.row /\ para.bank = 2 /\ para.page = 512
    BY <2>0 DEF MemoryInv, Trained, Searched, Good
  <2>5. para.row < 16 => (mctl_mem_matches(2 ^ (para.row + para.bank) * para.page) <=> chip.row <= para.row)
    <3>1. para.row < 16 => para.row \in 11 .. 15 BY <2>3 DEF Widths
    <3>2. para.row < 16 => (mctl_mem_matches(2 ^ (para.row + 2) * 512) <=> chip.row <= para.row)
      <4> HIDE DEF mctl_mem_matches
      <4> QED BY <3>1, <2>3, <2>4, RowSeen DEF Fitted
    <3>3. para.row + para.bank = para.row + 2 /\ para.page = 512 BY <2>4
    <3> QED BY ONLY <3>2, <3>3
  <2>6. CASE Place' = "rows"
    <3>1. para' = [para EXCEPT !.row = @ + 1] /\ mc' = mc /\ para.row < chip.row
      BY <2>1, <2>3, <2>5, <2>6 DEF Widths, Kinds
    <3>2. para' \in Widths BY ONLY <3>1, <2>3 DEF Widths, Kinds
    <3> QED
      BY ONLY <2>2, <2>3, <2>4, <2>6, <3>1, <3>2, MemoryInv
      DEF MemoryInv, FitTyped, Untrained, Trained, Searched, AtMain, Start, Found, Good,
          Widths, Kinds
  <2>7. CASE Place' = "banks"
    <3>1. mc' = SetCr([para EXCEPT !.bank = 3]) /\ para' = [para EXCEPT !.bank = 2] /\ para.row = chip.row
      BY <2>1, <2>3, <2>4, <2>5, <2>7 DEF Widths, Kinds
    <3>2. mc' = [mc EXCEPT !.cr = [dual |-> para.dual, full |-> para.full, row |-> chip.row, bank |-> 3, page |-> 512]]
      BY ONLY <3>1, <2>3, <2>4 DEF SetCr, Widths
    <3>3. para' \in Widths /\ mc' \in Controllers
      BY ONLY <3>1, <3>2, <2>3 DEF Widths, Kinds, Controllers
    <3> QED
      BY ONLY <2>2, <2>3, <2>4, <2>7, <3>1, <3>2, <3>3, MemoryInv
      DEF MemoryInv, FitTyped, Untrained, Trained, Searched, AtMain, Start, Found, Good,
          Widths, Kinds, Controllers
  <2> QED BY <2>1, <2>6, <2>7
<1>21. CASE DetectBank
  <2>0. Place = "banks" BY <1>21 DEF DetectBank
  <2>1. \/ /\ para.bank < 3 /\ ~ mctl_mem_matches(2 ^ para.bank * para.page)
           /\ para' = [para EXCEPT !.bank = @ + 1] /\ mc' = mc /\ Place' = "banks"
        \/ /\ ~ (para.bank < 3 /\ ~ mctl_mem_matches(2 ^ para.bank * para.page))
           /\ mc' = SetCr([para EXCEPT !.page = 8192]) /\ para' = [para EXCEPT !.page = 512] /\ Place' = "pages"
    BY <1>21 DEF DetectBank
  <2>2. UNCHANGED <<chip, size>> BY <1>21 DEF DetectBank
  <2> HIDE DEF Place
  <2>3. chip \in Kinds /\ mc \in Controllers /\ para \in Widths
    BY DEF MemoryInv, FitTyped
  <2>4. /\ para.dual = chip.dual /\ para.full = chip.full /\ chip.good /\ mc.ranks = IF chip.dual THEN 2 ELSE 1
        /\ mc.cr.dual = chip.dual /\ mc.cr.full = chip.full
        /\ mc.cr.row = chip.row /\ mc.cr.bank = 3 /\ mc.cr.page = 512
        /\ para.row = chip.row /\ para.bank <= chip.bank /\ para.page = 512
    BY <2>0 DEF MemoryInv, Trained, Searched, Good
  <2>5. para.bank = 2 => (mctl_mem_matches(2 ^ para.bank * para.page) <=> chip.bank = 2)
    BY <2>3, <2>4, BankSeen DEF Fitted
  <2>6. CASE Place' = "banks"
    <3>1. para' = [para EXCEPT !.bank = @ + 1] /\ mc' = mc /\ para.bank < chip.bank
      BY <2>1, <2>3, <2>5, <2>6 DEF Widths, Kinds
    <3>2. para' \in Widths BY ONLY <3>1, <2>3 DEF Widths, Kinds
    <3> QED
      BY ONLY <2>2, <2>3, <2>4, <2>6, <3>1, <3>2, MemoryInv
      DEF MemoryInv, FitTyped, Untrained, Trained, Searched, AtMain, Start, Found, Good,
          Widths, Kinds
  <2>7. CASE Place' = "pages"
    <3>1. mc' = SetCr([para EXCEPT !.page = 8192]) /\ para' = [para EXCEPT !.page = 512] /\ para.bank = chip.bank
      BY <2>1, <2>3, <2>4, <2>5, <2>7 DEF Widths, Kinds
    <3>2. mc' = [mc EXCEPT !.cr = [dual |-> para.dual, full |-> para.full, row |-> chip.row, bank |-> chip.bank, page |-> 8192]]
      BY ONLY <3>1, <2>3, <2>4 DEF SetCr, Widths
    <3>3. para' \in Widths /\ mc' \in Controllers
      BY ONLY <3>1, <3>2, <2>3 DEF Widths, Kinds, Controllers
    <3> QED
      BY ONLY <2>2, <2>3, <2>4, <2>7, <3>1, <3>2, <3>3, MemoryInv
      DEF MemoryInv, FitTyped, Untrained, Trained, Searched, AtMain, Start, Found, Good,
          Widths, Kinds, Controllers
  <2> QED BY <2>1, <2>6, <2>7
<1>22. CASE DetectPage
  <2>0. Place = "pages" BY <1>22 DEF DetectPage
  <2>1. \/ /\ para.page < 8192 /\ ~ mctl_mem_matches(para.page)
           /\ para' = [para EXCEPT !.page = 2 * @] /\ mc' = mc /\ size' = size /\ Place' = "pages"
        \/ /\ ~ (para.page < 8192 /\ ~ mctl_mem_matches(para.page))
           /\ mc' = SetCr(para) /\ para' = para /\ Place' = "main"
           /\ size' = (2 ^ (para.row + para.bank) * (para.page \div 512) * (IF para.dual THEN 2 ELSE 1)) % 2 ^ 23
    BY <1>22 DEF DetectPage
  <2>2. chip' = chip BY <1>22 DEF DetectPage
  <2> HIDE DEF Place
  <2>3. chip \in Kinds /\ mc \in Controllers /\ para \in Widths
    BY DEF MemoryInv, FitTyped
  <2>4. /\ para.dual = chip.dual /\ para.full = chip.full /\ chip.good /\ mc.ranks = IF chip.dual THEN 2 ELSE 1
        /\ mc.cr.dual = chip.dual /\ mc.cr.full = chip.full
        /\ mc.cr.row = chip.row /\ mc.cr.bank = chip.bank /\ mc.cr.page = 8192
        /\ para.row = chip.row /\ para.bank = chip.bank /\ para.page <= chip.page
    BY <2>0 DEF MemoryInv, Trained, Searched, Good
  <2>5. para.page < 8192 => (mctl_mem_matches(para.page) <=> chip.page <= para.page)
    <3>1. para.page < 8192 => para.page \in {512, 1024, 2048, 4096} BY <2>3 DEF Widths
    <3> QED BY <3>1, <2>3, <2>4, PageSeen DEF Fitted
  <2>6. CASE Place' = "pages"
    <3>1. para' = [para EXCEPT !.page = 2 * @] /\ mc' = mc /\ size' = size /\ para.page < chip.page
      BY <2>1, <2>3, <2>5, <2>6 DEF Widths, Kinds
    <3>2. para' \in Widths /\ para'.page <= chip.page BY ONLY <3>1, <2>3 DEF Widths, Kinds
    <3> QED
      BY ONLY <2>2, <2>3, <2>4, <2>6, <3>1, <3>2, MemoryInv
      DEF MemoryInv, FitTyped, Untrained, Trained, Searched, AtMain, Start, Found, Good,
          Widths, Kinds
  <2>7. CASE Place' = "main"
    <3>1. mc' = SetCr(para) /\ para' = para /\ para.page = chip.page
      BY <2>1, <2>3, <2>4, <2>5, <2>7 DEF Widths, Kinds
    <3>2. size' = (2 ^ (para.row + para.bank) * (para.page \div 512) * (IF para.dual THEN 2 ELSE 1)) % 2 ^ 23
      BY ONLY <2>1, <2>7
    <3>3. mc' = [mc EXCEPT !.cr = [dual |-> chip.dual, full |-> chip.full, row |-> chip.row, bank |-> chip.bank, page |-> chip.page]]
      BY ONLY <3>1, <2>3, <2>4 DEF SetCr, Widths, Kinds
    <3>4. mc' \in Controllers
      BY ONLY <3>3, <2>3 DEF Widths, Kinds, Controllers
    <3>5. size' = 2 ^ (chip.row + chip.bank) * (chip.page \div 512) * (IF chip.dual THEN 2 ELSE 1)
      BY <3>1, <3>2, <2>3, <2>4, SizeHeld DEF Fitted, MemoryInv, FitTyped
    <3>6. AtMain'
      BY ONLY <2>2, <2>4, <2>7, <3>3, <3>4, <3>5 DEF AtMain
    <3>7. (FitTyped /\ Untrained /\ Trained /\ Searched)'
      BY ONLY <2>2, <2>3, <2>7, <3>1, <3>4, MemoryInv
      DEF MemoryInv, FitTyped, Untrained, Trained, Searched, Start, Found, Good
    <3> QED BY <3>6, <3>7 DEF MemoryInv
  <2> QED BY <2>1, <2>6, <2>7
<1> QED
  BY <1>1, <1>2, <1>3, <1>4, <1>5, <1>6, <1>7, <1>8, <1>9, <1>10, <1>11, <1>12, <1>13, <1>14,
       <1>15, <1>16, <1>17, <1>18, <1>19, <1>20, <1>21, <1>22 DEF DramStep

LEMMA MemoryStarts == Init => MemoryInv
<1> SUFFICES ASSUME Init PROVE MemoryInv OBVIOUS
<1>1. pc = "pmu" /\ chip \in Chips /\ para = Guess /\ size = -1
      /\ mc = [open |-> FALSE, cr |-> para, ranks |-> 0, rounds |-> 0]
  BY DEF Init, DramStart, Guess
<1>2. chip \in Kinds BY <1>1, ChipsAssumption DEF Kinds
<1>3. para \in Widths BY <1>1 DEF Guess, Widths
<1>4. mc \in Controllers BY <1>1, <1>3 DEF Controllers
<1>5. Place = "pmu" BY <1>1 DEF Place
<1> QED BY ONLY <1>1, <1>2, <1>3, <1>4, <1>5
        DEF MemoryInv, FitTyped, Untrained, Trained, Searched, AtMain, Start, Found, Good

LEMMA MemoryStep == SizesFit /\ ClkKept /\ MemoryInv /\ [Next]_vars => MemoryInv'
<1> SUFFICES ASSUME SizesFit, ClkKept, MemoryInv, [Next]_vars PROVE MemoryInv' OBVIOUS
<1> USE KeepsMemory DEF Place, Start
<1>1. CASE pmu_ini("pmu", "gpio") /\ UNCHANGED <<dramVars, ioVars>> BY <1>1 DEF pmu_ini
<1>2. CASE GpioInit BY <1>2 DEF GpioInit
<1>3. CASE SwitchTo(OSC24M, "osc", "pll1") /\ UNCHANGED <<dramVars, ioVars>>
  BY <1>3 DEF SwitchTo
<1>4. CASE SetPll1(1000, "pll1", "lock") /\ UNCHANGED <<dramVars, ioVars>> BY <1>4 DEF SetPll1
<1>12. CASE LockLoop(200, "lock", "cpu") /\ UNCHANGED <<dramVars, ioVars>> BY <1>12 DEF LockLoop
<1>5. CASE SwitchTo(PLL1, "cpu", "pll6") /\ UNCHANGED <<dramVars, ioVars>> BY <1>5 DEF SwitchTo
<1>6. CASE StartPll6 BY <1>6 DEF StartPll6, Ask
<1>7. CASE StartConsole BY <1>7 DEF StartConsole, Goto, Await
<1>8. CASE DramStep /\ UNCHANGED ioVars BY <1>8, MemorySteps
<1>9. CASE DelayPoll /\ UNCHANGED <<dramVars, ioVars>>
  <2>1. \/ pc = "delay" /\ pc' = dl.next /\ dl' = dl
        \/ pc = "delay" /\ pc' = pc /\ dl' = [dl EXCEPT !.waited = @ + PollTicks]
    BY <1>9 DEF DelayPoll
  <2> QED BY <1>9, <2>1 DEF ClkKept
<1>10. CASE Hardware BY <1>10 DEF Hardware, Answer
<1>11. CASE UNCHANGED vars BY <1>11 DEF vars
<1> QED BY <1>1, <1>2, <1>3, <1>4, <1>5, <1>6, <1>7, <1>8, <1>9, <1>10, <1>11, <1>12
        DEF Next, BoardInit

(* dram.c:398-443, 549: whatever memory of less than 4 GB is fitted, with  *)
(* any width, rows, banks and page, main starts with a controller set for  *)
(* it and its size, and with the size 0 when the training fails.           *)
THEOREM SizeFound == SizesFit => (Spec => []SizeIsFitted)
<1> SUFFICES ASSUME SizesFit PROVE Spec => []SizeIsFitted OBVIOUS
<1>1. IInv /\ MemoryInv /\ [Next]_vars => (IInv /\ MemoryInv)'
  BY MemoryStep, BoardSteps DEF IInv
<1>2. MemoryInv => SizeIsFitted BY DEF MemoryInv, AtMain, SizeIsFitted, Place
<1> QED BY <1>1, <1>2, BoardStarts, MemoryStarts, PTL DEF Spec
-----------------------------------------------------------------------------
(* The console and the clocks. *)
PinPlaces == Bank \X (0 .. 3) \X (0 .. 7)
PinsSet ==
  /\ DOMAIN pins = PinPlaces
  /\ \A p \in PinPlaces :
       pins[p] = CASE p \in {<<GPIO_A, 0, 4>>, <<GPIO_A, 0, 5>>} -> SUN8I_H3_GPA_UART0
                   [] p \in {<<GPIO_A, 1, 7>>, <<GPIO_L, 1, 2>>} -> GPIO_OUTPUT
                   [] OTHER -> GPIO_DISABLE
UartSet ==
  /\ uart.sent = 0 /\ uart.fifo /\ uart.lcr = LC_8_N_1
  /\ uart.dll + 256 * uart.dlh = (24 * 1000 * 1000) \div (16 * 115200)

Silent == Start \cup {"ahb"}
ConsoleReady ==
  /\ Place \in Silent => /\ pins = [p \in PinPlaces |-> GPIO_DISABLE]
                         /\ uart = [lcr |-> 0, dll |-> 0, dlh |-> 0, ier |-> 0, fifo |-> FALSE, sent |-> 0]
  /\ Place \in {"osc", "pll1", "lock", "cpu", "pll6", "ahb"} => "pio" \in gates /\ "r_pio" \in gates
  /\ Place \notin Silent => PinsSet /\ UartSet

ClocksRun ==
  /\ Place \notin {"pmu", "gpio", "osc", "pll1"} => clk.pll1 = Pll1Factors(1000)
  /\ Place \notin {"pmu", "gpio", "osc", "pll1", "lock", "cpu"} => clk.axi = AxiCfg(PLL1)
  /\ Place \notin Shut => clk.pll5.f = Pll5Factors(2 * CONFIG_DRAM_CLK)

LEMMA RatesAsked ==
  /\ Source(AxiCfg(PLL1)) = PLL1
  /\ Rate(Pll1Factors(1000)) \in 1000 - 48 .. 1000
  /\ Rate(Pll5Factors(2 * CONFIG_DRAM_CLK)) = 2 * CONFIG_DRAM_CLK
<1>1. Source(AxiCfg(PLL1)) = PLL1 BY DEF Source, AxiCfg, PLL1
<1>2. Pll1Factors(1000) = [n |-> 26, k |-> 2, m |-> 1, p |-> 0] BY DEF Pll1Factors, Factors
<1>6. 2 ^ 0 = 1 OBVIOUS
<1>3. Rate(Pll1Factors(1000)) = 972
  <2>1. Rate([n |-> 26, k |-> 2, m |-> 1, p |-> 0])
          = ((24 * (26 + 1) * (2 + 1)) \div 2 ^ 0) \div (1 + 1)
    BY DEF Rate
  <2> QED BY ONLY <2>1, <1>2, <1>6
<1>4. Pll5Factors(1344) = [n |-> 27, k |-> 1, m |-> 0, p |-> 0] BY DEF Pll5Factors, Factors
<1>5. Rate(Pll5Factors(1344)) = 1344
  <2>1. Rate([n |-> 27, k |-> 1, m |-> 0, p |-> 0])
          = ((24 * (27 + 1) * (1 + 1)) \div 2 ^ 0) \div (0 + 1)
    BY DEF Rate
  <2> QED BY ONLY <2>1, <1>4, <1>6
<1> QED BY <1>1, <1>3, <1>5 DEF CONFIG_DRAM_CLK

LEMMA PinsAreSet ==
  ASSUME "pio" \in gates, "r_pio" \in gates, NEW p0, p0 = [p \in PinPlaces |-> GPIO_DISABLE],
         pins' = LET a == GpioSetCfgpin(p0, GPA(15), GPIO_OUTPUT)
                     b == GpioSetCfgpin(a, GPL(10), GPIO_OUTPUT)
                     c == GpioSetCfgpin(b, GPA(15), GPIO_OUTPUT)
                     d == GpioSetCfgpin(c, GPA(4), SUN8I_H3_GPA_UART0)
                 IN  GpioSetCfgpin(d, GPA(5), SUN8I_H3_GPA_UART0)
  PROVE  PinsSet'
<1>1. ASSUME NEW f, NEW v
      PROVE  /\ GpioSetCfgpin(f, GPA(15), v) = [f EXCEPT ![<<0, 1, 7>>] = v]
             /\ GpioSetCfgpin(f, GPA(4), v) = [f EXCEPT ![<<0, 0, 4>>] = v]
             /\ GpioSetCfgpin(f, GPA(5), v) = [f EXCEPT ![<<0, 0, 5>>] = v]
             /\ GpioSetCfgpin(f, GPL(10), v) = [f EXCEPT ![<<11, 1, 2>>] = v]
  <2>1. GPA(15) = 15 /\ GPA(4) = 4 /\ GPA(5) = 5 /\ GPL(10) = 362
    BY DEF GPA, GPL, GPIO_A, GPIO_L
  <2>2. Block(15) = "pio" /\ Block(4) = "pio" /\ Block(5) = "pio" /\ Block(362) = "r_pio"
    BY DEF Block, GPIO_L
  <2>3. /\ <<15 \div 32, (15 % 32) \div 8, 15 % 8>> = <<0, 1, 7>>
        /\ <<4 \div 32, (4 % 32) \div 8, 4 % 8>> = <<0, 0, 4>>
        /\ <<5 \div 32, (5 % 32) \div 8, 5 % 8>> = <<0, 0, 5>>
        /\ <<362 \div 32, (362 % 32) \div 8, 362 % 8>> = <<11, 1, 2>>
    OBVIOUS
  <2>4. GpioSetCfgpin(f, 15, v) = [f EXCEPT ![<<0, 1, 7>>] = v] BY <2>2, <2>3 DEF GpioSetCfgpin
  <2>5. GpioSetCfgpin(f, 4, v) = [f EXCEPT ![<<0, 0, 4>>] = v] BY <2>2, <2>3 DEF GpioSetCfgpin
  <2>6. GpioSetCfgpin(f, 5, v) = [f EXCEPT ![<<0, 0, 5>>] = v] BY <2>2, <2>3 DEF GpioSetCfgpin
  <2>7. GpioSetCfgpin(f, 362, v) = [f EXCEPT ![<<11, 1, 2>>] = v]
    BY <2>2, <2>3 DEF GpioSetCfgpin
  <2> QED BY ONLY <2>1, <2>4, <2>5, <2>6, <2>7
<1> DEFINE a == [p0 EXCEPT ![<<0, 1, 7>>] = GPIO_OUTPUT]
           b == [a EXCEPT ![<<11, 1, 2>>] = GPIO_OUTPUT]
           c == [b EXCEPT ![<<0, 1, 7>>] = GPIO_OUTPUT]
           d == [c EXCEPT ![<<0, 0, 4>>] = SUN8I_H3_GPA_UART0]
           e == [d EXCEPT ![<<0, 0, 5>>] = SUN8I_H3_GPA_UART0]
<1>3. pins' = e
  <2>1. GpioSetCfgpin(p0, GPA(15), GPIO_OUTPUT) = a BY ONLY <1>1 DEF a
  <2> HIDE DEF a
  <2>2. GpioSetCfgpin(a, GPL(10), GPIO_OUTPUT) = b BY ONLY <1>1 DEF b
  <2> HIDE DEF b
  <2>3. GpioSetCfgpin(b, GPA(15), GPIO_OUTPUT) = c BY ONLY <1>1 DEF c
  <2> HIDE DEF c
  <2>4. GpioSetCfgpin(c, GPA(4), SUN8I_H3_GPA_UART0) = d BY ONLY <1>1 DEF d
  <2> HIDE DEF d
  <2>5. GpioSetCfgpin(d, GPA(5), SUN8I_H3_GPA_UART0) = e BY ONLY <1>1 DEF e
  <2> HIDE DEF e
  <2> QED BY <2>1, <2>2, <2>3, <2>4, <2>5
<1>4. DOMAIN p0 = PinPlaces /\ \A p \in PinPlaces : p0[p] = GPIO_DISABLE OBVIOUS
<1>5. /\ <<0, 1, 7>> \in PinPlaces /\ <<11, 1, 2>> \in PinPlaces
      /\ <<0, 0, 4>> \in PinPlaces /\ <<0, 0, 5>> \in PinPlaces
  BY DEF PinPlaces, Bank, GPIO_A, GPIO_L
<1>6. DOMAIN e = PinPlaces BY <1>4
<1>7. ASSUME NEW p \in PinPlaces
      PROVE  e[p] = CASE p \in {<<0, 0, 4>>, <<0, 0, 5>>} -> SUN8I_H3_GPA_UART0
                      [] p \in {<<0, 1, 7>>, <<11, 1, 2>>} -> GPIO_OUTPUT
                      [] OTHER -> GPIO_DISABLE
  <2>1. DOMAIN a = PinPlaces /\ a[p] = IF p = <<0, 1, 7>> THEN GPIO_OUTPUT ELSE GPIO_DISABLE
    BY <1>4
  <2> HIDE DEF a
  <2>2. DOMAIN b = PinPlaces /\ b[p] = IF p = <<11, 1, 2>> THEN GPIO_OUTPUT ELSE a[p] BY <2>1
  <2> HIDE DEF b
  <2>3. DOMAIN c = PinPlaces /\ c[p] = IF p = <<0, 1, 7>> THEN GPIO_OUTPUT ELSE b[p] BY <2>2
  <2> HIDE DEF c
  <2>4. DOMAIN d = PinPlaces /\ d[p] = IF p = <<0, 0, 4>> THEN SUN8I_H3_GPA_UART0 ELSE c[p]
    BY <2>3
  <2> HIDE DEF d
  <2>5. e[p] = IF p = <<0, 0, 5>> THEN SUN8I_H3_GPA_UART0 ELSE d[p] BY <2>4
  <2> HIDE DEF e
  <2>6. /\ <<0, 0, 4>> # <<0, 1, 7>> /\ <<0, 0, 4>> # <<11, 1, 2>>
        /\ <<0, 0, 5>> # <<0, 1, 7>> /\ <<0, 0, 5>> # <<11, 1, 2>>
    OBVIOUS
  <2>7. CASE p \in {<<0, 0, 4>>, <<0, 0, 5>>} BY ONLY <2>7, <2>5, <2>4
  <2>8. CASE p \in {<<0, 1, 7>>, <<11, 1, 2>>} BY ONLY <2>8, <2>1, <2>2, <2>3, <2>4, <2>5, <2>6
  <2>9. CASE p \notin {<<0, 0, 4>>, <<0, 0, 5>>} /\ p \notin {<<0, 1, 7>>, <<11, 1, 2>>}
    BY ONLY <2>9, <2>1, <2>2, <2>3, <2>4, <2>5
  <2> QED BY <2>7, <2>8, <2>9
<1> HIDE DEF e
<1> QED BY <1>3, <1>6, <1>7 DEF PinsSet, GPIO_A, GPIO_L

UartRegs == [lcr : Nat, dll : Nat, dlh : Nat, ier : Nat, fifo : BOOLEAN, sent : Nat]

LEMMA WritesOfUart ==
  ASSUME NEW u \in UartRegs, NEW v \in Nat
  PROVE  /\ WriteLcr(u, v) \in UartRegs /\ WriteLcr(u, v).lcr = v
         /\ WriteLcr(u, v).dll = u.dll /\ WriteLcr(u, v).dlh = u.dlh /\ WriteLcr(u, v).sent = u.sent
         /\ u.lcr < DLAB => WriteIer(u, v) \in UartRegs /\ WriteIer(u, v).sent = u.sent
         /\ u.lcr = DLAB =>
              /\ WriteIer(u, v) \in UartRegs /\ WriteIer(u, v).lcr = DLAB
              /\ WriteIer(u, v).dlh = v /\ WriteIer(u, v).sent = u.sent
              /\ WriteData(u, v) \in UartRegs /\ WriteData(u, v).lcr = DLAB
              /\ WriteData(u, v).dll = v /\ WriteData(u, v).dlh = u.dlh /\ WriteData(u, v).sent = u.sent
         /\ WriteFcr(u).lcr = u.lcr /\ WriteFcr(u).dll = u.dll /\ WriteFcr(u).dlh = u.dlh
         /\ WriteFcr(u).sent = u.sent /\ WriteFcr(u).fifo
<1>1. [u EXCEPT !.lcr = v] \in UartRegs BY DEF UartRegs
<1>2. [u EXCEPT !.lcr = v].lcr = v BY DEF UartRegs
<1>3. [u EXCEPT !.lcr = v].dll = u.dll /\ [u EXCEPT !.lcr = v].dlh = u.dlh BY DEF UartRegs
<1>4. [u EXCEPT !.lcr = v].sent = u.sent BY DEF UartRegs
<1>5. [u EXCEPT !.ier = v] \in UartRegs /\ [u EXCEPT !.ier = v].sent = u.sent BY DEF UartRegs
<1>6. [u EXCEPT !.dlh = v] \in UartRegs BY DEF UartRegs
<1>7. [u EXCEPT !.dlh = v].lcr = u.lcr /\ [u EXCEPT !.dlh = v].dlh = v BY DEF UartRegs
<1>8. [u EXCEPT !.dlh = v].sent = u.sent BY DEF UartRegs
<1>9. [u EXCEPT !.dll = v] \in UartRegs BY DEF UartRegs
<1>10. [u EXCEPT !.dll = v].lcr = u.lcr /\ [u EXCEPT !.dll = v].dll = v BY DEF UartRegs
<1>11. [u EXCEPT !.dll = v].dlh = u.dlh /\ [u EXCEPT !.dll = v].sent = u.sent BY DEF UartRegs
<1>12. [u EXCEPT !.fifo = TRUE].lcr = u.lcr /\ [u EXCEPT !.fifo = TRUE].dll = u.dll
  BY DEF UartRegs
<1>13. [u EXCEPT !.fifo = TRUE].dlh = u.dlh /\ [u EXCEPT !.fifo = TRUE].sent = u.sent
  BY DEF UartRegs
<1>14. [u EXCEPT !.fifo = TRUE].fifo BY DEF UartRegs
<1>15. u.lcr < DLAB => WriteIer(u, v) = [u EXCEPT !.ier = v] BY DEF WriteIer, UartRegs, DLAB
<1>16. u.lcr = DLAB => /\ WriteIer(u, v) = [u EXCEPT !.dlh = v] /\ WriteData(u, v) = [u EXCEPT !.dll = v]
  BY DEF WriteIer, WriteData, UartRegs, DLAB
<1> QED
  BY ONLY <1>1, <1>2, <1>3, <1>4, <1>5, <1>6, <1>7, <1>8, <1>9, <1>10, <1>11, <1>12, <1>13,
     <1>14,
           <1>15, <1>16 DEF WriteLcr, WriteFcr

LEMMA UartIsSet ==
  ASSUME uart = [lcr |-> 0, dll |-> 0, dlh |-> 0, ier |-> 0, fifo |-> FALSE, sent |-> 0], uart' = UartSetup(uart)
  PROVE  UartSet'
<1> DEFINE a == WriteIer(uart, 0)
           b == WriteLcr(a, DLAB)
           c == WriteIer(b, 0)
           d == WriteData(c, BAUD_115200)
           e == WriteLcr(d, LC_8_N_1)
<1>0. DLAB = 128 /\ LC_8_N_1 = 3 /\ BAUD_115200 = 13 BY DEF DLAB, LC_8_N_1, BAUD_115200
<1>1. uart \in UartRegs /\ uart.lcr < DLAB /\ uart.sent = 0 BY DEF UartRegs, DLAB
<1>n. 0 \in Nat /\ DLAB \in Nat /\ LC_8_N_1 \in Nat /\ BAUD_115200 \in Nat BY <1>0
<1>6. uart' = WriteFcr(e) BY DEF UartSetup
<1> HIDE DEF a
<1>2. a \in UartRegs /\ a.sent = 0 BY ONLY <1>n, <1>1, WritesOfUart DEF a
<1> HIDE DEF b
<1>3. b \in UartRegs /\ b.lcr = DLAB /\ b.sent = 0 BY ONLY <1>n, <1>2, WritesOfUart DEF b
<1> HIDE DEF c
<1>4. c \in UartRegs /\ c.lcr = DLAB /\ c.dlh = 0 /\ c.sent = 0
  BY ONLY <1>n, <1>3, WritesOfUart DEF c
<1> HIDE DEF d
<1>5. d \in UartRegs /\ d.dll = BAUD_115200 /\ d.dlh = 0 /\ d.sent = 0
  BY ONLY <1>n, <1>4, WritesOfUart DEF d
<1> HIDE DEF e
<1>7. e \in UartRegs /\ e.lcr = LC_8_N_1 /\ e.dll = BAUD_115200 /\ e.dlh = 0 /\ e.sent = 0
  BY ONLY <1>n, <1>5, WritesOfUart DEF e
<1>8. uart'.lcr = LC_8_N_1 /\ uart'.dll = BAUD_115200 /\ uart'.dlh = 0 /\ uart'.sent = 0 /\ uart'.fifo
  BY ONLY <1>6, <1>7, WritesOfUart
<1> QED BY ONLY <1>0, <1>8 DEF UartSet

ReadyInv == ConsoleReady /\ ClocksRun

LEMMA ReadyStarts == Init => ReadyInv
<1> SUFFICES ASSUME Init PROVE ReadyInv OBVIOUS
<1>1. Place = "pmu" BY DEF Init, Place
<1>2. /\ pins = [p \in PinPlaces |-> GPIO_DISABLE]
      /\ uart = [lcr |-> 0, dll |-> 0, dlh |-> 0, ier |-> 0, fifo |-> FALSE, sent |-> 0]
  BY DEF Init, PinPlaces
<1> QED BY ONLY <1>1, <1>2 DEF ReadyInv, ConsoleReady, ClocksRun, Silent, Start, Shut

LEMMA ReadySteps == ClkKept /\ ReadyInv /\ [Next]_vars => ReadyInv'
<1> SUFFICES ASSUME ClkKept, ReadyInv, [Next]_vars PROVE ReadyInv' OBVIOUS
<1> USE DEF Place
<1>1. CASE pmu_ini("pmu", "gpio") /\ UNCHANGED <<dramVars, ioVars>>
  BY <1>1 DEF pmu_ini, ioVars, ReadyInv, ConsoleReady, ClocksRun, Silent, Start, Shut
<1>2. CASE GpioInit
  <2>1. Place = "gpio" /\ Place' = "osc" /\ UNCHANGED <<clk, pins, uart>>
        /\ "pio" \in gates' /\ "r_pio" \in gates'
    BY <1>2 DEF GpioInit, clockVars
  <2> HIDE DEF Place
  <2> QED BY ONLY <2>1, ReadyInv DEF ReadyInv, ConsoleReady, ClocksRun, Silent, Start, Shut
<1>3. CASE SwitchTo(OSC24M, "osc", "pll1") /\ UNCHANGED <<dramVars, ioVars>>
  BY <1>3 DEF SwitchTo, ioVars, ReadyInv, ConsoleReady, ClocksRun, Silent, Start, Shut
<1>4. CASE SetPll1(1000, "pll1", "lock") /\ UNCHANGED <<dramVars, ioVars>>
  <2>1. Place = "pll1" /\ Place' = "lock" /\ UNCHANGED ioVars /\ clk'.pll1 = Pll1Factors(1000)
    BY <1>4 DEF SetPll1, ClkKept
  <2> HIDE DEF Place
  <2> QED
    BY ONLY <2>1, ReadyInv DEF ioVars, ReadyInv, ConsoleReady, ClocksRun, Silent, Start, Shut
<1>12. CASE LockLoop(200, "lock", "cpu") /\ UNCHANGED <<dramVars, ioVars>>
  <2>1. Place = "lock" /\ Place' = "cpu" /\ UNCHANGED ioVars /\ clk'.pll1 = clk.pll1
    BY <1>12 DEF LockLoop, ClkKept
  <2> HIDE DEF Place
  <2> QED
    BY ONLY <2>1, ReadyInv DEF ioVars, ReadyInv, ConsoleReady, ClocksRun, Silent, Start, Shut
<1>5. CASE SwitchTo(PLL1, "cpu", "pll6") /\ UNCHANGED <<dramVars, ioVars>>
  <2>1. Place = "cpu" /\ Place' = "pll6" /\ UNCHANGED ioVars /\ clk'.axi = AxiCfg(PLL1)
        /\ clk'.pll1 = clk.pll1
    BY <1>5 DEF SwitchTo, ClkKept
  <2> HIDE DEF Place
  <2> QED
    BY ONLY <2>1, ReadyInv DEF ioVars, ReadyInv, ConsoleReady, ClocksRun, Silent, Start, Shut
<1>6. CASE StartPll6
  <2>1. Place = "pll6" /\ Place' = "ahb" /\ UNCHANGED ioVars /\ clk'.axi = clk.axi /\ clk'.pll1 = clk.pll1
    BY <1>6 DEF StartPll6, Ask, ClkKept
  <2> HIDE DEF Place
  <2> QED
    BY ONLY <2>1, ReadyInv DEF ioVars, ReadyInv, ConsoleReady, ClocksRun, Silent, Start, Shut
<1>7. CASE StartConsole
  <2>1. Place = "ahb" /\ Place' = "sys" /\ clk'.axi = clk.axi /\ clk'.pll1 = clk.pll1
    BY <1>7 DEF StartConsole, Goto, Await, ClkKept
  <2> HIDE DEF Place
  <2>2. /\ pins = [p \in PinPlaces |-> GPIO_DISABLE] /\ "pio" \in gates /\ "r_pio" \in gates
        /\ uart = [lcr |-> 0, dll |-> 0, dlh |-> 0, ier |-> 0, fifo |-> FALSE, sent |-> 0]
    BY <2>1 DEF ReadyInv, ConsoleReady, Silent
  <2>3. PinsSet' BY <1>7, <2>2, PinsAreSet DEF StartConsole
  <2>4. UartSet' BY <1>7, <2>2, UartIsSet DEF StartConsole
  <2> QED
    BY ONLY <2>1, <2>3, <2>4, ReadyInv
    DEF ReadyInv, ConsoleReady, ClocksRun, Silent, Start, Shut
<1>8. CASE DramStep /\ UNCHANGED ioVars
  <2>1. CASE CloseGates
    <3>1. Place = "sys" /\ Place' = "reset" /\ clk'.axi = clk.axi /\ clk'.pll1 = clk.pll1
      BY <2>1 DEF CloseGates, Delay, DelayThen, ClkKept
    <3> HIDE DEF Place
    <3> QED BY ONLY <1>8, <3>1, ReadyInv
            DEF ioVars, ReadyInv, ConsoleReady, PinsSet, UartSet, ClocksRun, Silent, Start, Shut
  <2>2. CASE ResetClock
    <3>1. Place = "reset" /\ Place' = "pll5" /\ clk' = clk
      BY <2>2 DEF ResetClock, Delay, DelayThen, clockVars
    <3> HIDE DEF Place
    <3> QED BY ONLY <1>8, <3>1, ReadyInv
            DEF ioVars, ReadyInv, ConsoleReady, PinsSet, UartSet, ClocksRun, Silent, Start, Shut
  <2>3. CASE clock_set_pll5
    <3>1. /\ Place = "pll5" /\ Place' = "upd" /\ clk'.axi = clk.axi /\ clk'.pll1 = clk.pll1
          /\ clk'.pll5 = [on |-> TRUE, f |-> Pll5Factors(2 * CONFIG_DRAM_CLK)]
      BY <2>3 DEF clock_set_pll5, Delay, DelayThen, ClkKept
    <3>2. clk'.pll5.f = Pll5Factors(2 * CONFIG_DRAM_CLK) BY ONLY <3>1
    <3> HIDE DEF Place
    <3> QED BY ONLY <1>8, <3>1, <3>2, ReadyInv
            DEF ioVars, ReadyInv, ConsoleReady, PinsSet, UartSet, ClocksRun, Silent, Start, Shut
  <2>4. CASE Later
    <3>1. clk' = clk /\ Place \notin Shut /\ Place' \notin Shut
      BY <2>4, LaterKeepsClocks
    <3> HIDE DEF Place
    <3> QED BY ONLY <1>8, <3>1, ReadyInv
            DEF ioVars, ReadyInv, ConsoleReady, PinsSet, UartSet, ClocksRun, Silent, Start, Shut
  <2> QED BY <1>8, <2>1, <2>2, <2>3, <2>4 DEF DramStep, Later
<1>9. CASE DelayPoll /\ UNCHANGED <<dramVars, ioVars>>
  <2>1. clk' = clk /\ UNCHANGED ioVars BY <1>9 DEF DelayPoll, clockVars
  <2>2. \/ pc = "delay" /\ pc' = dl.next /\ dl' = dl
        \/ pc = "delay" /\ pc' = pc /\ dl' = [dl EXCEPT !.waited = @ + PollTicks]
    BY <1>9 DEF DelayPoll
  <2>3. Place' = Place BY <2>2 DEF ClkKept
  <2> HIDE DEF Place
  <2> QED
    BY ONLY <2>1, <2>3, ReadyInv DEF ioVars, ReadyInv, ConsoleReady, PinsSet, UartSet, ClocksRun
<1>10. CASE Hardware
  <2>1. /\ clk'.axi = clk.axi /\ clk'.pll1 = clk.pll1 /\ clk'.pll5 = clk.pll5
        /\ UNCHANGED ioVars /\ Place' = Place
    BY <1>10 DEF Hardware, Answer, ClkKept
  <2> HIDE DEF Place
  <2> QED BY ONLY <2>1, ReadyInv DEF ioVars, ReadyInv, ConsoleReady, PinsSet, UartSet, ClocksRun
<1>11. CASE UNCHANGED vars
  <2>1. clk' = clk /\ UNCHANGED ioVars /\ Place' = Place BY <1>11 DEF vars
  <2> HIDE DEF Place
  <2> QED BY ONLY <2>1, ReadyInv DEF ioVars, ReadyInv, ConsoleReady, PinsSet, UartSet, ClocksRun
<1> QED BY <1>1, <1>2, <1>3, <1>4, <1>5, <1>6, <1>7, <1>8, <1>9, <1>10, <1>11, <1>12
        DEF Next, BoardInit

(* main.c:84-103: when main starts, the core runs from PLL1 at its rate,   *)
(* the memory's clock is the one configured, the buses run from a locked   *)
(* PLL6, and the console has its pins, its divisor and its FIFO.           *)
THEOREM BoardComesUp == Spec => []BoardReady
<1>1. IInv /\ ReadyInv /\ [Next]_vars => (IInv /\ ReadyInv)' BY ReadySteps, BoardSteps DEF IInv
<1>2. ReadyInv => BoardReady
  <2> SUFFICES ASSUME ReadyInv, pc = "main"
               PROVE  BoardReady
    BY DEF BoardReady
  <2>1. Place = "main" BY DEF Place
  <2>2. PinsSet /\ UartSet BY <2>1 DEF ReadyInv, ConsoleReady, Silent, Start
  <2>3. /\ clk.pll1 = Pll1Factors(1000) /\ clk.axi = AxiCfg(PLL1)
        /\ clk.pll5.f = Pll5Factors(2 * CONFIG_DRAM_CLK)
    BY <2>1 DEF ReadyInv, ClocksRun, Shut, Start
  <2> QED BY ONLY <2>2, <2>3, RatesAsked DEF BoardReady, PinsSet, UartSet
<1> QED BY <1>1, <1>2, BoardStarts, ReadyStarts, PTL DEF Spec
-----------------------------------------------------------------------------
(* Delays. *)
Waits == {1, 10, 20, 50, 100, 500, 1000, 5500}   \* what BoardInit asks of delay_us

Ticks == (MHz + 1) * dl.us

MeasuredOnce ==
  /\ cpuFrep \in Nat /\ overhead \in Nat /\ ccnt \in 0 .. Word - 1
  /\ Place = "pmu" => /\ dl.us = 0
                      /\ \E e \in Entries : clk.axi = e.axi /\ clk.pll1 = e.pll1
  /\ Place # "pmu" => overhead <= MHz + 1 /\ (MHz + 1) * 5500 <= Half

Polling == {"ahb", "open", "zcal", "trained", "retrained", "status"}

DelayRuns ==
  /\ dl = [next |-> dl.next, us |-> dl.us, start |-> dl.start, waited |-> dl.waited, target |-> dl.target]
  /\ dl.us \in Waits \cup {0} /\ dl.start \in 0 .. Word - 1 /\ dl.waited \in Nat
  /\ busy => pc \in Polling
  /\ pc = "delay" => Place # "pmu" /\ dl.us \in Waits
  /\ (pc = "delay" /\ ~ PassesHalf(dl)) =>
       /\ dl.waited = 0 \/ dl.waited < Ticks - overhead + PollTicks
       /\ ccnt = (dl.start + dl.waited) % Word
       /\ dl.target = (dl.start - overhead + Ticks) % Word

TimeInv == MeasuredOnce /\ DelayRuns /\ DelaysCounted

LEMMA ModAny ==
  ASSUME NEW W \in Nat \ {0}, NEW x \in Int, NEW y \in 0 .. W - 1, NEW k \in Int, x = y + k * W
  PROVE  x % W = y
OBVIOUS

LEMMA ModPlus ==
  ASSUME NEW W \in Nat \ {0}, NEW x \in Int, NEW y \in Int, NEW z, z = x % W
  PROVE  (z + y) % W = (x + y) % W
<1> DEFINE k == x \div W
           j == (z + y) \div W
           r == (z + y) % W
<1>1. z \in Int /\ k \in Int /\ x = z + k * W OBVIOUS
<1>2. j \in Int /\ r \in 0 .. W - 1 /\ z + y = r + j * W BY <1>1
<1> HIDE DEF k, j, r
<1>3. (j + k) * W = j * W + k * W BY <1>1, <1>2
<1> DEFINE i == j + k
           s == x + y
<1>4. s = r + i * W /\ i \in Int /\ s \in Int
  <2>1. j * W \in Int /\ k * W \in Int BY <1>1, <1>2
  <2> QED BY ONLY <1>1, <1>2, <1>3, <2>1, x \in Int, y \in Int
<1> HIDE DEF i, s
<1>5. s % W = r BY ONLY <1>2, <1>4, W \in Nat \ {0}, ModAny
<1> USE DEF s
<1> QED BY <1>5 DEF r

LEMMA SignedIs ==
  ASSUME NEW v \in - Half .. Half - 1, NEW k \in Int, NEW x, x = v + k * Word
  PROVE  Signed(x % Word) = v
<1>1. Word \in Nat \ {0} /\ Half \in Nat /\ Word = 2 * Half BY WordAssumption DEF Half
<1> HIDE DEF Half
<1>2. x \in Int BY <1>1
<1>3. CASE v >= 0
  <2>1. x % Word = v BY <1>1, <1>2, <1>3, ModAny
  <2> QED BY <1>1, <1>3, <2>1 DEF Signed
<1>4. CASE v < 0
  <2>1. v + Word \in 0 .. Word - 1 /\ k - 1 \in Int BY <1>1, <1>4
  <2>2. x = (v + Word) + (k - 1) * Word BY <1>1
  <2>3. x % Word = v + Word BY ONLY <1>1, <1>2, <2>1, <2>2, ModAny
  <2> QED BY <1>1, <1>4, <2>1, <2>3 DEF Signed
<1> QED BY <1>1, <1>3, <1>4

(* Both forms of the comparison say whether the ticks have passed. *)
LEMMA ComparedRight ==
  ASSUME NEW s \in 0 .. Word - 1, NEW w \in Nat, NEW t \in Nat, NEW o \in Nat,
         o <= t, t <= Half, w = 0 \/ w < t - o + PollTicks,
         (Half - s) % Word > t + PollTicks,
         NEW over \in Passed((s + w) % Word, (s - o + t) % Word)
  PROVE  over = (w >= t - o)
<1>1. Word \in Nat \ {0} /\ Half \in Nat /\ Word = 2 * Half
      /\ PollTicks \in Nat /\ PollTicks < Half /\ PollTicks > 0
  BY WordAssumption, PollAssumption DEF Half
<1> HIDE DEF Half
<1>2. PICK k \in {0, 1} :
        s - k * Word \in - Half .. Half - 1 /\ s - k * Word + t + PollTicks < Half
  <2>1. CASE s < Half
    <3>1. Half - s = (Half - s) + 0 * Word /\ Half - s \in 0 .. Word - 1 BY <1>1, <2>1
    <3>2. (Half - s) % Word = Half - s BY ONLY <1>1, <3>1, ModAny
    <3>3. s - 0 * Word = s BY <1>1
    <3> QED BY <1>1, <2>1, <3>2, <3>3
  <2>2. CASE s = Half
    <3>1. Half - s = 0 + 0 * Word /\ Half - s \in Int /\ 0 \in 0 .. Word - 1 BY <1>1, <2>2
    <3>2. (Half - s) % Word = 0 BY ONLY <1>1, <3>1, ModAny
    <3> QED BY <1>1, <3>2
  <2>3. CASE s > Half
    <3>1. /\ Half - s = (Half - s + Word) + (-1) * Word /\ Half - s \in Int
          /\ Half - s + Word \in 0 .. Word - 1
      BY <1>1, <2>3
    <3>2. (Half - s) % Word = Half - s + Word BY ONLY <1>1, <3>1, ModAny
    <3>3. 1 * Word = Word BY <1>1
    <3> QED BY <1>1, <2>3, <3>2, <3>3
  <2> QED BY <1>1, <2>1, <2>2, <2>3
<1> DEFINE z == s - k * Word
           a == z + w
           b == z - o + t
<1>3. z \in Int /\ s = z + k * Word /\ k \in Int
  <2>1. k * Word \in Int BY <1>1
  <2> QED BY <1>1, <2>1
<1>4. z >= - Half /\ z + t + PollTicks < Half BY <1>2
<1> HIDE DEF z
<1>5. a \in - Half .. Half - 1 /\ b \in - Half .. Half - 1 BY <1>1, <1>3, <1>4
<1>7. s + w = a + k * Word /\ s - o + t = b + k * Word
  <2> DEFINE m == k * Word
  <2>1. m \in Int BY <1>1
  <2>2. s = z + m BY <1>3
  <2> HIDE DEF m
  <2>3. s + w = a + m /\ s - o + t = b + m BY <1>3, <2>1, <2>2
  <2> QED BY ONLY <2>3 DEF m
<1>8. Signed((s + w) % Word) = a BY ONLY <1>3, <1>5, <1>7, SignedIs
<1>9. Signed((s - o + t) % Word) = b BY ONLY <1>3, <1>5, <1>7, SignedIs
<1> DEFINE cur == (s + w) % Word
           target == (s - o + t) % Word
<1>10. cur \in 0 .. Word - 1 /\ target \in 0 .. Word - 1 BY <1>1, <1>3
<1> HIDE DEF cur, target
<1>11. PICK i \in {-1, 0, 1} : cur - target = (a - b) + i * Word
  <2>1. cur = a \/ cur = a + Word BY ONLY <1>1, <1>5, <1>8, <1>10 DEF Signed, cur
  <2>2. target = b \/ target = b + Word BY ONLY <1>1, <1>5, <1>9, <1>10 DEF Signed, target
  <2>3. a \in Int /\ b \in Int BY <1>5
  <2> HIDE DEF a, b
  <2> QED BY <1>1, <2>1, <2>2, <2>3
<1>12. a - b = w - (t - o) BY <1>3
<1>13. a - b \in - Half .. Half - 1 BY <1>1, <1>12
<1>14. Signed((cur - target) % Word) = a - b
  <2>1. i \in Int OBVIOUS
  <2> HIDE DEF a, b
  <2> QED BY ONLY <1>11, <1>13, <2>1, SignedIs
<1>15. over \in {a - b >= 0, a >= b} BY <1>8, <1>9, <1>14 DEF Passed, cur, target
<1>16. (a - b >= 0) = (w >= t - o) /\ (a >= b) = (w >= t - o) BY <1>3, <1>12
<1> QED BY ONLY <1>15, <1>16

(* The steps of BoardInit but pmu_ini: they start a delay, ask the hardware *)
(* and go to where its bit is polled, or go on.                            *)
Begins ==
  \/ /\ pc' = "delay" /\ dl'.next # "pmu" /\ dl'.us \in Waits /\ UNCHANGED <<busy, ccnt>>
     /\ dl' = [next |-> dl'.next, us |-> dl'.us, start |-> ccnt, waited |-> 0,
               target |-> (ccnt - overhead + pmu_us2ticks(dl'.us)) % Word]
  \/ \E next \in Polling : Ask(next)
  \/ pc' \notin {"delay", "pmu"} /\ UNCHANGED <<busy, ccnt, dl>>

LEMMA DelayBegins == ASSUME NEW us \in Waits, NEW next, next # "pmu", Delay(us, next) PROVE Begins
BY DEF Begins, Delay, DelayThen

LEMMA StepsBegin ==
  ASSUME BoardInit
  PROVE  \/ pmu_ini("pmu", "gpio") \/ DelayPoll
         \/ /\ pc \notin {"pmu", "delay"} /\ UNCHANGED <<overhead, cpuFrep>> /\ Begins
            /\ busy => pc \notin Polling
<1> USE DEF Begins, Waits, Polling, Goto
<1>1. CASE GpioInit BY <1>1 DEF GpioInit, clockVars
<1>2. CASE SwitchTo(OSC24M, "osc", "pll1") BY <1>2 DEF SwitchTo
<1>3. CASE SetPll1(1000, "pll1", "lock") BY <1>3 DEF SetPll1
<1>8. CASE LockLoop(200, "lock", "cpu") BY <1>8 DEF LockLoop
<1>4. CASE SwitchTo(PLL1, "cpu", "pll6") BY <1>4 DEF SwitchTo
<1>5. CASE StartPll6 BY <1>5 DEF StartPll6
<1>6. CASE StartConsole BY <1>6 DEF StartConsole, Await
<1>7. CASE DramStep
  <2> USE DelayBegins DEF Await, clockVars
  <2>1. CASE CloseGates BY <2>1 DEF CloseGates
  <2>2. CASE ResetClock BY <2>2 DEF ResetClock
  <2>3. CASE clock_set_pll5 BY <2>3 DEF clock_set_pll5
  <2>4. CASE UpdateClock BY <2>4 DEF UpdateClock
  <2>5. CASE OpenGates BY <2>5 DEF OpenGates
  <2>6. CASE EnableClock BY <2>6 DEF EnableClock
  <2>7. CASE SetChannel BY <2>7 DEF SetChannel
  <2>8. CASE Unprotect BY <2>8 DEF Unprotect
  <2>9. CASE SetLanes BY <2>9 DEF SetLanes
  <2>10. CASE Calibrate BY <2>10 DEF Calibrate
  <2>11. CASE NextCalibration BY <2>11 DEF NextCalibration
  <2>12. CASE DetectRanks BY <2>12 DEF DetectRanks
  <2>13. CASE Retrain BY <2>13 DEF Retrain
  <2>14. CASE CheckTraining BY <2>14 DEF CheckTraining
  <2>15. CASE Refresh BY <2>15 DEF Refresh
  <2>16. CASE RefreshAgain BY <2>16 DEF RefreshAgain
  <2>17. CASE SetOdt BY <2>17 DEF SetOdt
  <2>18. CASE ClearCredit BY <2>18 DEF ClearCredit
  <2>19. CASE DetectSize BY <2>19 DEF DetectSize
  <2>20. CASE DetectRow BY <2>20 DEF DetectRow
  <2>21. CASE DetectBank BY <2>21 DEF DetectBank
  <2>22. CASE DetectPage BY <2>22 DEF DetectPage
  <2> QED
    BY <1>7, <2>1, <2>2, <2>3, <2>4, <2>5, <2>6, <2>7, <2>8, <2>9, <2>10, <2>11, <2>12, <2>13,
       <2>14,
             <2>15, <2>16, <2>17, <2>18, <2>19, <2>20, <2>21, <2>22 DEF DramStep
<1> HIDE DEF Begins, Goto
<1> QED BY <1>1, <1>2, <1>3, <1>4, <1>5, <1>6, <1>7, <1>8 DEF BoardInit

LEMMA TicksBounded ==
  ASSUME NEW m \in Nat, NEW us \in Waits, NEW o \in Nat, o <= m + 1, (m + 1) * 5500 <= Half
  PROVE  /\ (m + 1) * us \in Nat /\ o <= (m + 1) * us /\ (m + 1) * us <= Half
         /\ m * us \in Nat /\ m * us <= (m + 1) * us /\ ((m + 1) * us) % Word = (m + 1) * us
<1>1. Word \in Nat \ {0} /\ Half \in Nat /\ Word = 2 * Half /\ Half > 0
  BY WordAssumption, PollAssumption DEF Half
<1> HIDE DEF Half
<1> DEFINE t == (m + 1) * us
<1>2. t \in Nat /\ o <= t /\ t <= Half /\ m * us \in Nat /\ m * us <= t
  <2>1. us = 1 \/ us = 10 \/ us = 20 \/ us = 50 \/ us = 100 \/ us = 500 \/ us = 1000 \/ us = 5500 BY DEF Waits
  <2>2. CASE us = 1 BY ONLY <1>1, <2>2, m \in Nat, o \in Nat, o <= m + 1, (m + 1) * 5500 <= Half
  <2>3. CASE us = 10
    BY ONLY <1>1, <2>3, m \in Nat, o \in Nat, o <= m + 1, (m + 1) * 5500 <= Half
  <2>4. CASE us = 20
    BY ONLY <1>1, <2>4, m \in Nat, o \in Nat, o <= m + 1, (m + 1) * 5500 <= Half
  <2>5. CASE us = 50
    BY ONLY <1>1, <2>5, m \in Nat, o \in Nat, o <= m + 1, (m + 1) * 5500 <= Half
  <2>6. CASE us = 100
    BY ONLY <1>1, <2>6, m \in Nat, o \in Nat, o <= m + 1, (m + 1) * 5500 <= Half
  <2>7. CASE us = 500
    BY ONLY <1>1, <2>7, m \in Nat, o \in Nat, o <= m + 1, (m + 1) * 5500 <= Half
  <2>8. CASE us = 1000
    BY ONLY <1>1, <2>8, m \in Nat, o \in Nat, o <= m + 1, (m + 1) * 5500 <= Half
  <2>9. CASE us = 5500
    BY ONLY <1>1, <2>9, m \in Nat, o \in Nat, o <= m + 1, (m + 1) * 5500 <= Half
  <2> QED BY ONLY <2>1, <2>2, <2>3, <2>4, <2>5, <2>6, <2>7, <2>8, <2>9
<1> HIDE DEF t
<1>3. t = t + 0 * Word /\ t \in 0 .. Word - 1 /\ t \in Int BY <1>1, <1>2
<1>4. t % Word = t BY ONLY <1>1, <1>3, ModAny
<1> QED BY <1>2, <1>4 DEF t

LEMMA TimeStarts == Init => TimeInv
<1> SUFFICES ASSUME Init PROVE TimeInv OBVIOUS
<1>1. /\ pc = "pmu" /\ busy = FALSE /\ ccnt = 0 /\ overhead = 0 /\ cpuFrep = 0
      /\ dl = [next |-> "", us |-> 0, start |-> 0, waited |-> 0, target |-> 0]
  BY DEF Init, ClockInit
<1>a. PICK e \in Entries :
        clk = [axi |-> e.axi, pll1 |-> e.pll1, lock1 |-> TRUE,
               pll5 |-> [on |-> FALSE, f |-> Factors(1, 1, 1)], pll6 |-> "off", ahb1 |-> "osc"]
  BY DEF Init, ClockInit
<1>2. clk.axi = e.axi /\ clk.pll1 = e.pll1 BY ONLY <1>a
<1>b. dl.us = 0 /\ dl.start = 0 /\ dl.waited = 0 BY ONLY <1>1
<1>c. Place = "pmu" BY <1>1 DEF Place
<1>3. Word \in Nat \ {0} BY WordAssumption
<1>d. dl = [next |-> dl.next, us |-> dl.us, start |-> dl.start, waited |-> dl.waited, target |-> dl.target]
  BY ONLY <1>1
<1>4. MeasuredOnce
  <2>0. cpuFrep = 0 /\ overhead = 0 /\ ccnt = 0 BY <1>1
  <2>1. cpuFrep \in Nat /\ overhead \in Nat /\ ccnt \in 0 .. Word - 1 BY ONLY <2>0, <1>3
  <2>2. \E d \in Entries : clk.axi = d.axi /\ clk.pll1 = d.pll1 BY <1>2
  <2> QED BY ONLY <2>1, <2>2, <1>b, <1>c DEF MeasuredOnce
<1>5. DelayRuns
  <2>1. pc # "delay" /\ ~ busy BY <1>1
  <2>2. 0 \in 0 .. Word - 1 BY <1>3
  <2> QED BY ONLY <2>1, <2>2, <1>b, <1>d DEF DelayRuns
<1>6. DelaysCounted BY ONLY <1>b DEF DelaysCounted
<1> QED BY <1>4, <1>5, <1>6 DEF TimeInv

LEMMA FreqTyped == ASSUME NEW e \in Entries PROVE CpuFreq(e.axi, e.pll1) \in Nat
<1>1. e.pll1.n \in Nat /\ e.pll1.k \in Nat /\ e.pll1.m \in Nat /\ e.pll1.p \in 0 .. 3
  BY EntriesAssumption
<1>2. ASSUME NEW p \in 0 .. 3 PROVE 2 ^ p \in Nat \ {0}
  <2>1. p = 0 => 2 ^ p = 1 OBVIOUS
  <2>2. p = 1 => 2 ^ p = 2 OBVIOUS
  <2>3. p = 2 => 2 ^ p = 4 OBVIOUS
  <2>4. p = 3 => 2 ^ p = 8 OBVIOUS
  <2> QED BY <2>1, <2>2, <2>3, <2>4
<1> DEFINE d == 2 ^ e.pll1.p * (e.pll1.m + 1)
           x == 24000 * e.pll1.n * (e.pll1.k + 1)
<1>3. d \in Nat \ {0}
  <2>1. 2 ^ e.pll1.p \in Nat \ {0} BY <1>1, <1>2
  <2> QED BY ONLY <1>1, <2>1
<1>4. x \in Nat BY <1>1
<1>5. CpuFreq(e.axi, e.pll1) \in {32, 24000, x \div d} BY DEF CpuFreq
<1> HIDE DEF d, x
<1>6. x \div d \in Nat BY ONLY <1>3, <1>4
<1> QED BY ONLY <1>5, <1>6

LEMMA PmuMeasures ==
  ASSUME CounterSuits, TimeInv, pmu_ini("pmu", "gpio")
  PROVE  TimeInv'
<1>1. /\ pc = "pmu" /\ ccnt' = 0 /\ overhead' \in Overheads /\ cpuFrep' = CpuFreq(clk.axi, clk.pll1) /\ pc' = "gpio"
      /\ UNCHANGED <<clk, busy, dl>>
  BY DEF pmu_ini
<1>2. PICK e \in Entries : clk.axi = e.axi /\ clk.pll1 = e.pll1
  BY <1>1 DEF TimeInv, MeasuredOnce, Place
<1>3. dl.us = 0 BY <1>1 DEF TimeInv, MeasuredOnce, Place
<1>4. cpuFrep' = CpuFreq(e.axi, e.pll1) BY <1>1, <1>2
<1>5. CpuFreq(e.axi, e.pll1) \in Nat BY FreqTyped
<1>6. overhead' \in Nat BY <1>1, OverheadsAssumption
<1>7. /\ overhead' <= CpuFreq(e.axi, e.pll1) \div 1000 + 1
      /\ (CpuFreq(e.axi, e.pll1) \div 1000 + 1) * 5500 <= Half
  BY <1>1 DEF CounterSuits
<1>8. MeasuredOnce'
  BY ONLY <1>1, <1>4, <1>5, <1>6, <1>7, WordAssumption DEF MeasuredOnce, Place, MHz
<1>9. DelayRuns' BY <1>1 DEF TimeInv, DelayRuns, Polling
<1>10. DelaysCounted' BY <1>1, <1>3 DEF DelaysCounted
<1> QED BY <1>8, <1>9, <1>10 DEF TimeInv

LEMMA BeginsKeeps ==
  ASSUME TimeInv, pc \notin {"pmu", "delay"}, UNCHANGED <<overhead, cpuFrep>>, Begins, busy => pc \notin Polling
  PROVE  TimeInv'
<1>1. MeasuredOnce /\ DelayRuns /\ DelaysCounted BY DEF TimeInv
<1>2. ~ busy BY <1>1 DEF DelayRuns
<1>3. CASE pc' = "delay"
  <2>1. /\ dl'.next # "pmu" /\ dl'.us \in Waits /\ UNCHANGED <<busy, ccnt>>
        /\ dl' = [next |-> dl'.next, us |-> dl'.us, start |-> ccnt, waited |-> 0,
                  target |-> (ccnt - overhead + pmu_us2ticks(dl'.us)) % Word]
    BY <1>3 DEF Begins, Ask, Polling
  <2>2. /\ dl'.start = ccnt /\ dl'.waited = 0
        /\ dl'.target = (ccnt - overhead + pmu_us2ticks(dl'.us)) % Word
    BY ONLY <2>1
  <2>3. MeasuredOnce'
    BY ONLY <1>1, <1>3, <2>1, pc \notin {"pmu", "delay"}, UNCHANGED <<overhead, cpuFrep>>
        DEF MeasuredOnce, Place, MHz
  <2>4. pmu_us2ticks(dl'.us) = Ticks' /\ Ticks' \in Nat /\ overhead' \in Nat
    <3>1. Place # "pmu" BY DEF Place
    <3>2. MHz \in Nat /\ overhead \in Nat /\ overhead <= MHz + 1 /\ (MHz + 1) * 5500 <= Half
      BY ONLY <1>1, <3>1 DEF MeasuredOnce, MHz
    <3>3. Ticks' = (MHz + 1) * dl'.us BY DEF Ticks, MHz
    <3>4. pmu_us2ticks(dl'.us) = ((MHz + 1) * dl'.us) % Word BY DEF pmu_us2ticks, MHz
    <3> HIDE DEF MHz
    <3> QED BY <2>1, <3>2, <3>3, <3>4, TicksBounded
  <2>5. ccnt' = (dl'.start + dl'.waited) % Word
    <3>1. ccnt \in 0 .. Word - 1 /\ Word \in Nat \ {0} BY <1>1, WordAssumption DEF MeasuredOnce
    <3>2. ccnt = ccnt + 0 * Word BY ONLY <3>1
    <3>3. ccnt % Word = ccnt BY ONLY <3>1, <3>2, ModAny
    <3> QED BY ONLY <2>1, <2>2, <3>1, <3>3
  <2>6. dl'.target = (dl'.start - overhead' + Ticks') % Word
    <3>1. overhead' = overhead OBVIOUS
    <3>2. ccnt \in Int BY <1>1 DEF MeasuredOnce
    <3> QED BY ONLY <2>2, <2>4, <3>1, <3>2, WordAssumption
  <2>7. ~ busy' /\ ccnt \in 0 .. Word - 1 BY <1>1, <1>2, <2>1 DEF MeasuredOnce
  <2>8. DelayRuns'
    <3>1. dl' = [next |-> dl'.next, us |-> dl'.us, start |-> dl'.start, waited |-> dl'.waited,
                 target |-> dl'.target]
      BY ONLY <2>1
    <3>2. Place' # "pmu" BY ONLY <1>3, <2>1 DEF Place
    <3>3. 0 \in Nat OBVIOUS
    <3> HIDE DEF Place
    <3> QED BY ONLY <1>3, <2>1, <2>2, <2>5, <2>6, <2>7, <3>1, <3>2, <3>3 DEF DelayRuns
  <2>9. DelaysCounted' BY <1>3 DEF DelaysCounted
  <2> QED BY <2>3, <2>8, <2>9 DEF TimeInv
<1>4. CASE pc' # "delay"
  <2>1. dl' = dl /\ ccnt' = ccnt /\ pc' # "pmu" /\ (busy' => pc' \in Polling)
    BY <1>2, <1>4 DEF Begins, Ask, Polling
  <2>2. MeasuredOnce'
    BY ONLY <1>1, <1>4, <2>1, pc \notin {"pmu", "delay"}, UNCHANGED <<overhead, cpuFrep>>
       DEF MeasuredOnce, Place, MHz
  <2>3. DelayRuns' BY ONLY <1>1, <1>4, <2>1 DEF DelayRuns
  <2>4. DelaysCounted'
    BY ONLY <1>1, <1>4, <2>1, pc \notin {"pmu", "delay"}, UNCHANGED <<overhead, cpuFrep>>
       DEF DelaysCounted, PassesHalf, MHz
  <2> QED BY <2>2, <2>3, <2>4 DEF TimeInv
<1> QED BY <1>3, <1>4

LEMMA PollKeeps ==
  ASSUME TimeInv, DelayPoll
  PROVE  TimeInv'
<1>1. MeasuredOnce /\ DelayRuns /\ DelaysCounted BY DEF TimeInv
<1>2. pc = "delay" /\ UNCHANGED <<clk, overhead, cpuFrep, busy>> BY DEF DelayPoll, clockVars
<1>3. Word \in Nat \ {0} /\ PollTicks \in Nat \ {0} /\ Half \in Nat
  BY WordAssumption, PollAssumption DEF Half
<1>4. /\ dl.us \in Nat /\ dl.us >= 1 /\ dl.us <= 5500 /\ Place # "pmu" /\ dl.start \in 0 .. Word - 1
      /\ dl.waited \in Nat /\ ~ busy
  BY <1>1, <1>2 DEF DelayRuns, Waits, Polling
<1>5. /\ MHz \in Nat /\ overhead \in Nat /\ overhead <= MHz + 1 /\ (MHz + 1) * 5500 <= Half
      /\ ccnt \in 0 .. Word - 1 /\ cpuFrep \in Nat
  BY <1>1, <1>4 DEF MeasuredOnce, MHz
<1>6. Ticks \in Nat /\ overhead <= Ticks /\ Ticks <= Half /\ MHz * dl.us - overhead <= Ticks - overhead
  <2>1. dl.us \in Waits BY <1>1, <1>2 DEF DelayRuns
  <2> HIDE DEF MHz
  <2> QED BY ONLY <1>4, <1>5, <2>1, TicksBounded DEF Ticks
<1>7. PICK over \in Passed(ccnt, dl.target) :
        IF over THEN pc' = dl.next /\ UNCHANGED <<ccnt, dl>>
        ELSE /\ ccnt' = (ccnt + PollTicks) % Word
             /\ dl' = [dl EXCEPT !.waited = @ + PollTicks]
             /\ UNCHANGED pc
  BY DEF DelayPoll
<1>8. ~ PassesHalf(dl) => over = (dl.waited >= Ticks - overhead)
  <2> SUFFICES ASSUME ~ PassesHalf(dl) PROVE over = (dl.waited >= Ticks - overhead) OBVIOUS
  <2>1. /\ dl.waited = 0 \/ dl.waited < Ticks - overhead + PollTicks
        /\ ccnt = (dl.start + dl.waited) % Word
        /\ dl.target = (dl.start - overhead + Ticks) % Word
    BY <1>1, <1>2 DEF DelayRuns
  <2>2. (Half - dl.start) % Word > Ticks + PollTicks
    <3>1. (Half - dl.start) % Word \in Int BY <1>3, <1>4
    <3> QED BY <1>3, <1>6, <3>1 DEF PassesHalf, Ticks
  <2>3. over \in Passed((dl.start + dl.waited) % Word, (dl.start - overhead + Ticks) % Word)
    BY <2>1
  <2> DEFINE s == dl.start
             w == dl.waited
             t == Ticks
  <2>4. /\ s \in 0 .. Word - 1 /\ w \in Nat /\ t \in Nat /\ overhead \in Nat /\ overhead <= t /\ t <= Half
        /\ w = 0 \/ w < t - overhead + PollTicks
        /\ (Half - s) % Word > t + PollTicks
        /\ over \in Passed((s + w) % Word, (s - overhead + t) % Word)
    BY ONLY <1>4, <1>5, <1>6, <2>1, <2>2, <2>3
  <2> HIDE DEF s, w, t
  <2>5. over = (w >= t - overhead) BY ONLY <2>4, ComparedRight
  <2> QED BY ONLY <2>5 DEF s, w, t
<1>9. CASE over
  <2>1. pc' = dl.next /\ UNCHANGED <<ccnt, dl>> BY <1>7, <1>9
  <2>2. Place' # "pmu" BY <1>2, <1>4, <2>1 DEF Place
  <2>3. MeasuredOnce'
    BY ONLY <1>1, <1>2, <1>4, <2>1, <2>2 DEF MeasuredOnce, MHz
  <2>4. DelaysCounted'
    <3>1. ~ PassesHalf(dl) => /\ dl.waited >= MHz * dl.us - overhead
                              /\ dl.waited < (MHz + 1) * dl.us + PollTicks
      <4>1. ~ PassesHalf(dl) => /\ dl.waited >= Ticks - overhead
                                /\ dl.waited = 0 \/ dl.waited < Ticks - overhead + PollTicks
        BY <1>1, <1>2, <1>8, <1>9 DEF DelayRuns
      <4>2. MHz * dl.us \in Int BY <1>4, <1>5
      <4>3. ~ PassesHalf(dl) => dl.waited < Ticks + PollTicks
        BY ONLY <4>1, <1>3, <1>4, <1>5, <1>6
      <4> HIDE DEF Ticks
      <4>4. ~ PassesHalf(dl) => dl.waited >= MHz * dl.us - overhead
        BY ONLY <4>1, <4>2, <1>4, <1>5, <1>6
      <4> QED BY <4>3, <4>4 DEF Ticks
    <3> QED BY ONLY <1>2, <2>1, <3>1 DEF DelaysCounted, PassesHalf, MHz
  <2>5. CASE pc' # "delay"
    BY ONLY <1>1, <1>2, <1>4, <2>1, <2>3, <2>4, <2>5 DEF DelayRuns, TimeInv
  <2>6. CASE pc' = "delay"
    <3>1. pc' = pc BY <1>2, <2>6
    <3>2. DelayRuns' BY ONLY <1>1, <1>2, <2>1, <3>1 DEF DelayRuns, Place, PassesHalf, Ticks, MHz
    <3> QED BY <2>3, <2>4, <3>2 DEF TimeInv
  <2> QED BY <2>5, <2>6
<1>10. CASE ~ over
  <2>1. /\ ccnt' = (ccnt + PollTicks) % Word /\ pc' = pc
        /\ dl' = [dl EXCEPT !.waited = dl.waited + PollTicks]
    BY <1>7, <1>10
  <2>2. dl = [next |-> dl.next, us |-> dl.us, start |-> dl.start, waited |-> dl.waited, target |-> dl.target]
    BY <1>1 DEF DelayRuns
  <2>3. /\ dl' = [next |-> dl'.next, us |-> dl'.us, start |-> dl'.start, waited |-> dl'.waited,
                  target |-> dl'.target]
        /\ dl'.next = dl.next /\ dl'.us = dl.us /\ dl'.start = dl.start
        /\ dl'.waited = dl.waited + PollTicks /\ dl'.target = dl.target
    BY ONLY <2>1, <2>2
  <2>4. Place' = Place BY <1>2, <2>1, <2>3 DEF Place
  <2>5. ccnt' \in 0 .. Word - 1 BY <1>3, <1>5, <2>1
  <2>6. MeasuredOnce' BY ONLY <1>1, <1>2, <1>4, <2>3, <2>4, <2>5 DEF MeasuredOnce, MHz
  <2>7. DelaysCounted' BY <1>2, <2>1 DEF DelaysCounted
  <2>8. PassesHalf(dl)' = PassesHalf(dl) /\ Ticks' = Ticks /\ overhead' = overhead
    BY ONLY <1>2, <2>3 DEF PassesHalf, Ticks, MHz
  <2>9. ~ PassesHalf(dl) =>
          /\ dl'.waited < Ticks - overhead + PollTicks
          /\ ccnt' = (dl'.start + dl'.waited) % Word
    <3> SUFFICES ASSUME ~ PassesHalf(dl)
                 PROVE  /\ dl'.waited < Ticks - overhead + PollTicks
                        /\ ccnt' = (dl'.start + dl'.waited) % Word
      OBVIOUS
    <3>1. ~ (dl.waited >= Ticks - overhead) BY <1>8, <1>10
    <3>2. ccnt = (dl.start + dl.waited) % Word BY <1>1, <1>2 DEF DelayRuns
    <3>3. (ccnt + PollTicks) % Word = (dl.start + dl.waited + PollTicks) % Word
      <4> DEFINE x == dl.start + dl.waited
      <4>1. x \in Int /\ PollTicks \in Int BY <1>3, <1>4
      <4>2. ccnt = x % Word BY <3>2
      <4> HIDE DEF x
      <4>3. (ccnt + PollTicks) % Word = (x + PollTicks) % Word BY ONLY <1>3, <4>1, <4>2, ModPlus
      <4> QED BY <4>3 DEF x
    <3>4. dl.start + dl'.waited = dl.start + dl.waited + PollTicks BY ONLY <1>3, <1>4, <2>3
    <3>5. ccnt' = (dl'.start + dl'.waited) % Word BY ONLY <2>1, <2>3, <3>3, <3>4
    <3> QED BY ONLY <1>3, <1>4, <1>5, <1>6, <2>3, <3>1, <3>5
  <2>10. DelayRuns'
    <3>1. /\ dl'.us \in Waits /\ dl'.start \in 0 .. Word - 1 /\ dl'.waited \in Nat /\ ~ busy'
          /\ Place' # "pmu"
      BY <1>1, <1>2, <1>3, <1>4, <2>3, <2>4 DEF DelayRuns
    <3>2. ~ PassesHalf(dl)' =>
            /\ dl'.waited < (Ticks - overhead + PollTicks)'
            /\ ccnt' = (dl'.start + dl'.waited) % Word
            /\ dl'.target = ((dl.start - overhead + Ticks) % Word)'
      <4>1. ~ PassesHalf(dl) => dl.target = (dl.start - overhead + Ticks) % Word
        BY <1>1, <1>2 DEF DelayRuns
      <4> HIDE DEF Ticks, PassesHalf
      <4> QED BY ONLY <2>3, <2>8, <2>9, <4>1
    <3> QED BY ONLY <1>2, <2>1, <2>3, <3>1, <3>2 DEF DelayRuns
  <2> QED BY <2>6, <2>7, <2>10 DEF TimeInv
<1> QED BY <1>9, <1>10

LEMMA TimeSteps == CounterSuits /\ TimeInv /\ [Next]_vars => TimeInv'
<1> SUFFICES ASSUME CounterSuits, TimeInv, [Next]_vars PROVE TimeInv' OBVIOUS
<1>1. CASE BoardInit
  <2>1. CASE pmu_ini("pmu", "gpio") BY <2>1, PmuMeasures
  <2>2. CASE DelayPoll BY <2>2, PollKeeps
  <2>3. CASE pc \notin {"pmu", "delay"} /\ UNCHANGED <<overhead, cpuFrep>> /\ Begins /\ (busy => pc \notin Polling)
    BY <2>3, BeginsKeeps
  <2> QED BY ONLY <1>1, <2>1, <2>2, <2>3, StepsBegin
<1>2. CASE Hardware
  <2>1. busy /\ ~ busy' /\ ccnt' \in Wakes /\ UNCHANGED <<pc, overhead, cpuFrep, dl>>
        /\ clk'.axi = clk.axi /\ clk'.pll1 = clk.pll1
    BY <1>2 DEF Hardware, Answer
  <2>2. pc # "delay" BY <2>1 DEF TimeInv, DelayRuns, Polling
  <2>3. ccnt' \in 0 .. Word - 1 BY <2>1, WakesAssumption
  <2>4. MeasuredOnce' BY ONLY TimeInv, <2>1, <2>3 DEF TimeInv, MeasuredOnce, MHz, Place
  <2>5. DelayRuns' BY ONLY TimeInv, <2>1, <2>2 DEF TimeInv, DelayRuns, Place
  <2>6. DelaysCounted' BY ONLY TimeInv, <2>1 DEF TimeInv, DelaysCounted, PassesHalf, MHz
  <2> QED BY <2>4, <2>5, <2>6 DEF TimeInv
<1>3. CASE UNCHANGED vars
  <2>1. UNCHANGED <<pc, clk, busy, ccnt, overhead, cpuFrep, dl>> BY <1>3 DEF vars
  <2> QED BY ONLY TimeInv, <2>1
          DEF TimeInv, MeasuredOnce, DelayRuns, DelaysCounted, PassesHalf, Ticks, MHz, Place
<1> QED BY <1>1, <1>2, <1>3 DEF Next

(* delay.c:38-50, pmu.c:62: at every rate of the core and every cost of a  *)
(* reading, a delay that is over has lasted what was asked, less that cost *)
(* and no more than a reading longer, wherever the counter wrapped, unless *)
(* it passed 2^31; if a reading costs no more than a microsecond takes and *)
(* the longest delay is shorter than half a turn of the counter.           *)
THEOREM DelaysAreRight == CounterSuits => (Spec => []DelaysCounted)
<1> SUFFICES ASSUME CounterSuits PROVE Spec => []DelaysCounted OBVIOUS
<1>1. TimeInv /\ [Next]_vars => TimeInv' BY TimeSteps
<1>2. TimeInv => DelaysCounted BY DEF TimeInv
<1> QED BY <1>1, <1>2, TimeStarts, PTL DEF Spec
=============================================================================
