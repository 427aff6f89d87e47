-------------------------------- MODULE Dram --------------------------------
(***************************************************************************)
(* DramInit: the clock of the memory, the controller, the training of its  *)
(* lanes, from whose errors the number of ranks and the width of the bus   *)
(* are read, and the search of the number of rows, banks and columns by    *)
(* writing at an address and looking for what was written at another.      *)
(* Each stretch of code between two waits is one step.  Timing parameters, *)
(* delays of bits, priorities and calibration codes are data and left out. *)
(***************************************************************************)
EXTENDS Clock

CONSTANT Chips  \* memory that may be fitted

Widths == [dual : BOOLEAN, full : BOOLEAN, row : 11 .. 16, bank : 2 .. 3,
           page : {512, 1024, 2048, 4096, 8192}]

(* A chip has its address bits, its page as the controller sees it, and    *)
(* lanes that may never train.                                             *)
Kinds == [dual : BOOLEAN, full : BOOLEAN, row : 11 .. 16, bank : 2 .. 3,
          page : {512, 1024, 2048, 4096, 8192}, good : BOOLEAN]

ASSUME ChipsAssumption == Chips \subseteq Kinds

CONFIG_DRAM_CLK == 672

VARIABLES
  chip,
  para,   \* what DramInit takes the memory to be
  mc,     \* the controller: clock open, cr register, ranks trained, error found, rounds left
  size    \* what DramInit returns, in units of 512 bytes; -1 before

dramVars == <<chip, para, mc, size>>

SetCr(p) == [mc EXCEPT !.cr = [dual |-> p.dual, full |-> p.full, row |-> p.row,
                               bank |-> IF p.bank = 3 THEN 3 ELSE 2, page |-> p.page]]

AwaitNothing(label) == pc = label  \* core 0 goes on without the answer

Await(label) == pc = label /\ ~ busy
(* A command to the hardware, whose end core 0 awaits at next. *)
Ask(next) == busy' = TRUE /\ pc' = next /\ UNCHANGED <<ccnt, dl>>
Goto(next) == pc' = next /\ UNCHANGED <<busy, ccnt, dl>>
Delay(us, next) == DelayThen(us, next) /\ UNCHANGED busy
-----------------------------------------------------------------------------
(* mctl_sys_init *)
CloseGates ==
  /\ pc = "sys"
  /\ mc' = [mc EXCEPT !.open = FALSE]
  /\ clk' = [clk EXCEPT !.pll5.on = FALSE]
  /\ Delay(10, "reset")
  /\ UNCHANGED <<overhead, cpuFrep, chip, para, size>>

ResetClock ==
  /\ pc = "reset" /\ Delay(1000, "pll5")
  /\ UNCHANGED <<clockVars, dramVars>>

clock_set_pll5 ==
  /\ pc = "pll5"
  /\ clk' = [clk EXCEPT !.pll5 = [on |-> TRUE, f |-> Pll5Factors(2 * CONFIG_DRAM_CLK)]]
  /\ Delay(5500, "upd")
  /\ UNCHANGED <<overhead, cpuFrep, dramVars>>

UpdateClock ==
  /\ pc = "upd" /\ Ask("open")
  /\ UNCHANGED <<clockVars, dramVars>>

OpenGates ==
  /\ Await("open")
  /\ mc' = [mc EXCEPT !.open = TRUE]
  /\ Delay(10, "clken")
  /\ UNCHANGED <<clockVars, chip, para, size>>

EnableClock ==
  /\ pc = "clken" /\ Delay(500, "channel")
  /\ UNCHANGED <<clockVars, dramVars>>

(* mctl_channel_init *)
SetChannel ==
  /\ pc = "channel"
  /\ mc' = SetCr(para)
  /\ Delay(100, "protect")
  /\ UNCHANGED <<clockVars, chip, para, size>>

Unprotect ==
  /\ pc = "protect" /\ Delay(100, "lanes")
  /\ UNCHANGED <<clockVars, dramVars>>

SetLanes ==
  /\ pc = "lanes"
  /\ mc' = [mc EXCEPT !.ranks = IF para.dual THEN 2 ELSE 1]
  /\ Delay(50, "zq")
  /\ UNCHANGED <<clockVars, chip, para, size>>

(* mctl_h3_zq_calibration_quirk: one calibration, or two of each of six    *)
(* codes, by the revision of the chip.                                     *)
Calibrate ==
  /\ pc = "zq"
  /\ \E n \in {1, 12} : mc' = [mc EXCEPT !.rounds = n - 1]
  /\ Ask("zcal")
  /\ UNCHANGED <<clockVars, chip, para, size>>

NextCalibrationForever ==  \* the round is not counted
  /\ Await("zcal")
  /\ UNCHANGED mc
  /\ IF mc.rounds > 0 THEN Ask("zcal") ELSE Ask("trained")
  /\ UNCHANGED <<clockVars, chip, para, size>>

(* The last one is followed by the training of the lanes. *)
NextCalibration ==
  /\ Await("zcal")
  /\ IF mc.rounds > 0
     THEN mc' = [mc EXCEPT !.rounds = @ - 1] /\ Ask("zcal")
     ELSE UNCHANGED mc /\ Ask("trained")
  /\ UNCHANGED <<clockVars, chip, para, size>>

(* Training fails on a rank or on lanes that are not there. *)
NoRank == mc.ranks = 2 /\ ~ chip.dual
NoLanes == mc.cr.full /\ ~ chip.full

DetectRanks ==
  /\ Await("trained")
  /\ IF NoRank \/ NoLanes \/ ~ chip.good
     THEN LET p == [para EXCEPT !.dual = @ /\ ~ NoRank, !.full = @ /\ ~ NoLanes]
          IN  /\ para' = p
              /\ mc' = [SetCr(p) EXCEPT !.ranks = IF NoRank THEN 1 ELSE @]
              /\ Delay(20, "retrain")
     ELSE UNCHANGED <<para, mc>> /\ Ask("status")
  /\ UNCHANGED <<clockVars, chip, size>>

Retrain ==
  /\ pc = "retrain" /\ Ask("retrained")
  /\ UNCHANGED <<clockVars, dramVars>>

(* Errors again: DramInit returns 0. *)
CheckTraining ==
  /\ Await("retrained")
  /\ IF NoRank \/ NoLanes \/ ~ chip.good
     THEN size' = 0 /\ Goto("main")
     ELSE UNCHANGED size /\ Ask("status")
  /\ UNCHANGED <<clockVars, chip, para, mc>>

Refresh ==
  /\ Await("status") /\ Delay(10, "refreshed")
  /\ UNCHANGED <<clockVars, dramVars>>

RefreshAgain ==
  /\ pc = "refreshed" /\ Delay(10, "odt")
  /\ UNCHANGED <<clockVars, dramVars>>

SetOdt ==
  /\ pc = "odt" /\ Delay(1, "credit")
  /\ UNCHANGED <<clockVars, dramVars>>

ClearCredit ==
  /\ pc = "credit" /\ Delay(10, "size")
  /\ UNCHANGED <<clockVars, dramVars>>
-----------------------------------------------------------------------------
(* mctl_auto_detect_dram_size *)

(* The cell an offset reaches: column, bank and row as the controller cuts *)
(* them, of which the chip takes the bits it has.  The offsets are all in  *)
(* the first rank.                                                         *)
Cell(offset) ==
  LET cr   == mc.cr
      rest == offset \div cr.page
  IN  <<(offset % cr.page) % chip.page,
        (rest % 2 ^ cr.bank) % 2 ^ chip.bank,
        ((rest \div 2 ^ cr.bank) % 2 ^ cr.row) % 2 ^ chip.row>>

(* 0 is written at the base and a pattern at the offset: they read the     *)
(* same when they are one cell.                                            *)
mctl_mem_matches(offset) == Cell(0) = Cell(offset)

DetectSizeRowFirst ==  \* the loop's first value is put in the register too
  /\ pc = "size"
  /\ LET p == [para EXCEPT !.page = 512, !.row = 11, !.bank = 2]
     IN  mc' = SetCr(p) /\ para' = p
  /\ Goto("rows")
  /\ UNCHANGED <<clockVars, chip, size>>

DetectSize ==
  /\ pc = "size"
  /\ LET p == [para EXCEPT !.page = 512, !.row = 16, !.bank = 2]
     IN  mc' = SetCr(p) /\ para' = [p EXCEPT !.row = 11]
  /\ Goto("rows")
  /\ UNCHANGED <<clockVars, chip, size>>

DetectRow ==
  /\ pc = "rows"
  /\ IF para.row < 16 /\ ~ mctl_mem_matches(2 ^ (para.row + para.bank) * para.page)
     THEN para' = [para EXCEPT !.row = @ + 1] /\ UNCHANGED mc /\ Goto("rows")
     ELSE /\ mc' = SetCr([para EXCEPT !.bank = 3])
          /\ para' = [para EXCEPT !.bank = 2]
          /\ Goto("banks")
  /\ UNCHANGED <<clockVars, chip, size>>

DetectBank ==
  /\ pc = "banks"
  /\ IF para.bank < 3 /\ ~ mctl_mem_matches(2 ^ para.bank * para.page)
     THEN para' = [para EXCEPT !.bank = @ + 1] /\ UNCHANGED mc /\ Goto("banks")
     ELSE /\ mc' = SetCr([para EXCEPT !.page = 8192])
          /\ para' = [para EXCEPT !.page = 512]
          /\ Goto("pages")
  /\ UNCHANGED <<clockVars, chip, size>>

(* The end of DramInit: the register is set to what was found, and the     *)
(* size returned is a word: in units of 512 bytes it has 2^23 values.      *)
DetectPage ==
  /\ pc = "pages"
  /\ IF para.page < 8192 /\ ~ mctl_mem_matches(para.page)
     THEN para' = [para EXCEPT !.page = 2 * @] /\ UNCHANGED <<mc, size>> /\ Goto("pages")
     ELSE /\ mc' = SetCr(para) /\ UNCHANGED para
          /\ size' = (2 ^ (para.row + para.bank) * (para.page \div 512)
                      * (IF para.dual THEN 2 ELSE 1)) % 2 ^ 23
          /\ Goto("main")
  /\ UNCHANGED <<clockVars, chip>>

DramStep ==
  \/ CloseGates \/ ResetClock \/ clock_set_pll5 \/ UpdateClock \/ OpenGates \/ EnableClock
  \/ SetChannel \/ Unprotect \/ SetLanes \/ Calibrate \/ NextCalibration
  \/ DetectRanks \/ Retrain \/ CheckTraining \/ Refresh \/ RefreshAgain \/ SetOdt \/ ClearCredit
  \/ DetectSize \/ DetectRow \/ DetectBank \/ DetectPage

DramStart ==
  /\ chip \in Chips
  /\ para = [dual |-> TRUE, full |-> TRUE, row |-> 15, bank |-> 3, page |-> 4096]
  /\ mc = [open |-> FALSE, cr |-> para, ranks |-> 0, rounds |-> 0]
  /\ size = -1
=============================================================================
