------------------------------ MODULE MmcInit ------------------------------
(***************************************************************************)
(* mmc_init of drivers/mmc/mmc.c: the commands that take a card from power *)
(* on to the transfer state, and what the driver believes of the card      *)
(* afterwards.  A step is one command, with the assignments that follow it.*)
(* The card is external: it answers the commands its state allows, and any *)
(* command or answer may be lost, which the driver sees as TIMEOUT if it   *)
(* waits for an answer.                                                    *)
(***************************************************************************)
EXTENDS Integers

CONSTANTS
  CardTypes,   \* cards to start with: [sd, v2, hc, wide, hs, v4], all BOOLEAN
  Tries,       \* timeout of the two OP_COND loops
  ScrTries, SwitchTries, \* timeout of retry_scr, and of the high-speed check
  MaxFaults    \* bound: commands and answers lost

ASSUME TriesAssumption == {Tries, ScrTries, SwitchTries} \subseteq Nat
ASSUME CardAssumption ==
  CardTypes \subseteq [{"sd", "v2", "hc", "wide", "hs", "v4"} -> BOOLEAN]

VARIABLES
  type,       \* the card in the slot
  card,       \* its state: st, rca, app, width, hs
  st,         \* next command of the driver
  version, hc, rca, caps,  \* of struct mmc: caps is a subset of {"4bit", "hs"}
  capacity,   \* where mmc->capacity comes from: "none", "csd" or "ext_csd"
  width, clock, \* of the host; clock in units of 100 kHz
  timeout,
  unusable,   \* whether sd_send_op_cond returned UNUSABLE_ERR
  fatal,      \* priv->fatal_err: the host refuses every command
  has_init,
  faults

mmc == <<version, hc, rca, caps, capacity>>
host == <<width, clock, fatal>>
vars == <<type, card, st, mmc, host, timeout, unusable, has_init, faults>>

PowerOn == [st |-> "idle", rca |-> 0, app |-> FALSE, width |-> 1, hs |-> FALSE]
NewRca == 7                    \* the address an SD card chooses
IS_SD1 == version \in {"SD1", "SD1.10"}  \* a test that misses SD 2.0

IS_SD == version \in {"SD1", "SD1.10", "SD2"}

(* The card has just been put on, or the boot ROM has read from it. *)
Init ==
  /\ type \in CardTypes
  /\ card \in {PowerOn} \cup [st : {"tran"}, rca : {IF type.sd THEN NewRca ELSE 1}, app : {FALSE},
                              width : {1, 4}, hs : BOOLEAN]
  /\ st = "begin"
  /\ version = "none" /\ hc = FALSE /\ rca = 0 /\ caps = {} /\ capacity = "none"
  /\ width = 0 /\ clock = 0 /\ fatal = FALSE
  /\ timeout = Tries /\ unusable = FALSE /\ has_init = FALSE /\ faults = 0

(* One command: legal if the card's state allows it, and then it leaves    *)
(* the card as in c.  An answer, no answer with the command carried out or *)
(* not, or a host that refuses.                                            *)
Answered(legal, c) == ~fatal /\ legal /\ card' = c /\ UNCHANGED faults
Lost(legal, c) ==
  /\ ~fatal
  /\ \/ ~legal /\ card' = [card EXCEPT !.app = FALSE] /\ UNCHANGED faults
     \/ faults < MaxFaults /\ faults' = faults + 1 /\ card' \in {card, IF legal THEN c ELSE card}
Refused == fatal /\ UNCHANGED <<card, faults>>
Fails(legal, c) == Lost(legal, c) \/ Refused

(* CMD0 has no response: the host is done when it has sent the command.    *)
Sent(c) ==
  /\ ~fatal
  /\ \/ card' = c /\ UNCHANGED faults
     \/ card' = card /\ faults < MaxFaults /\ faults' = faults + 1

Plain(c) == [c EXCEPT !.app = FALSE]
Go(s) == st' = s
Fail == st' = "failed"

(* mmc_set_ios through the host driver, whose answer is not looked at. *)
SetIos(w, c) ==
  /\ width' = w /\ clock' = c
  /\ fatal' \in IF c = 0 THEN {fatal} ELSE {fatal, TRUE}

(* The clock is 0 when the width is first set, so only the width changes;  *)
(* the rate of 1 Hz is raised to f_min.                                    *)
Begin ==
  /\ st = "begin"
  /\ SetIos(1, 4) /\ Go("goIdle")
  /\ UNCHANGED <<type, card, mmc, timeout, unusable, has_init, faults>>

go_idle ==
  /\ st = "goIdle"
  /\ \/ Sent(PowerOn) /\ Go("ifCond")
     \/ Refused /\ Fail
  /\ UNCHANGED <<type, mmc, host, timeout, unusable, has_init>>

(* Its failure is forgotten: the next call overwrites err. *)
send_if_cond ==
  /\ st = "ifCond"
  /\ LET legal == type.sd /\ type.v2 /\ card.st = "idle"
     IN  \/ Answered(legal, Plain(card)) /\ version' = "SD2"
         \/ Fails(legal, Plain(card)) /\ UNCHANGED version
  /\ Go("app41")
  /\ UNCHANGED <<type, hc, rca, caps, capacity, host, timeout, unusable, has_init>>

-----------------------------------------------------------------------------
(* sd_send_op_cond: APP_CMD and the command, until the card is ready.  A   *)
(* TIMEOUT leads to mmc_send_op_cond, another error to mmc_startup.        *)
AppLegal(states) == type.sd /\ card.st \in states /\ card.rca = rca

sd_op_cond_app ==
  /\ st = "app41"
  /\ LET legal == AppLegal({"idle"})
     IN  \/ Answered(legal, [card EXCEPT !.app = TRUE]) /\ Go("op41")
         \/ Lost(legal, [card EXCEPT !.app = TRUE]) /\ Go("goIdle2")
         \/ Refused /\ Go("cid")
  /\ UNCHANGED <<type, mmc, host, timeout, unusable, has_init>>

(* A high-capacity card stays busy for a host that does not announce HCS. *)
MayBeReady == type.hc => version = "SD2"

sd_send_op_cond ==
  /\ st = "op41"
  /\ LET legal == type.sd /\ card.app /\ card.st = "idle"
         Ready == [Plain(card) EXCEPT !.st = "ready"]
     IN  \/ /\ MayBeReady /\ Answered(legal, Ready)
            /\ IF timeout <= 0
               THEN unusable' = TRUE /\ UNCHANGED <<version, hc, rca>>
               ELSE /\ version' = IF version = "SD2" THEN "SD2" ELSE "SD1"
                    /\ hc' = type.hc /\ rca' = 0 /\ UNCHANGED unusable
            /\ Go("cid") /\ UNCHANGED timeout
         \/ /\ Answered(legal, Plain(card))                    \* still busy
            /\ timeout' = timeout - 1
            /\ unusable' = (timeout = 0)
            /\ IF timeout = 0 THEN Go("cid") ELSE Go("app41")
            /\ UNCHANGED <<version, hc, rca>>
         \/ /\ Lost(legal, Ready) /\ Go("goIdle2")
            /\ UNCHANGED <<timeout, unusable, version, hc, rca>>
         \/ Refused /\ Go("cid") /\ UNCHANGED <<timeout, unusable, version, hc, rca>>
  /\ UNCHANGED <<type, caps, capacity, host, has_init>>

(* mmc_send_op_cond: CMD0, whose failure is ignored, CMD1 to ask, and CMD1 *)
(* until the card is ready.                                                *)
mmc_op_cond_idle ==
  /\ st = "goIdle2"
  /\ Sent(PowerOn) \/ Refused
  /\ Go("ask1") /\ timeout' = Tries
  /\ UNCHANGED <<type, mmc, host, unusable, has_init>>

mmc_op_cond_ask ==
  /\ st = "ask1"
  /\ LET legal == ~type.sd /\ card.st = "idle"
     IN  \/ Answered(legal, Plain(card)) /\ Go("op1")
         \/ Fails(legal, Plain(card)) /\ Fail
  /\ UNCHANGED <<type, mmc, host, timeout, unusable, has_init>>

mmc_send_op_cond ==
  /\ st = "op1"
  /\ LET legal == ~type.sd /\ card.st = "idle"
         Ready == [Plain(card) EXCEPT !.st = "ready"]
     IN  \/ /\ Answered(legal, Ready)
            /\ IF timeout <= 0
               THEN Fail /\ UNCHANGED <<version, hc, rca>>
               ELSE version' = "MMC" /\ hc' = type.hc /\ rca' = 1 /\ Go("cid")
            /\ UNCHANGED timeout
         \/ /\ Answered(legal, Plain(card))
            /\ timeout' = timeout - 1
            /\ IF timeout = 0 THEN Fail ELSE UNCHANGED st
            /\ UNCHANGED <<version, hc, rca>>
         \/ Fails(legal, Ready) /\ Fail /\ UNCHANGED <<timeout, version, hc, rca>>
  /\ UNCHANGED <<type, caps, capacity, host, unusable, has_init>>

-----------------------------------------------------------------------------
(* mmc_startup *)
AllSendCid ==
  /\ st = "cid"
  /\ LET legal == card.st = "ready"
         Ident == [Plain(card) EXCEPT !.st = "ident"]
     IN  (Answered(legal, Ident) /\ Go("rca")) \/ (Fails(legal, Ident) /\ Fail)
  /\ UNCHANGED <<type, mmc, host, timeout, unusable, has_init>>

(* An MMC card takes the address it is given, an SD card gives its own. *)
RelativeAddr ==
  /\ st = "rca"
  /\ LET legal == card.st = "ident"
         Stby == [Plain(card) EXCEPT !.st = "stby", !.rca = IF type.sd THEN NewRca ELSE rca]
     IN  \/ /\ Answered(legal, Stby) /\ Go("csd")
            /\ rca' = IF IS_SD THEN Stby.rca ELSE rca
         \/ Fails(legal, Stby) /\ Fail /\ UNCHANGED rca
  /\ UNCHANGED <<type, version, hc, caps, capacity, host, timeout, unusable, has_init>>

SendCsd ==
  /\ st = "csd"
  /\ LET legal == card.st = "stby" /\ card.rca = rca
     IN  \/ /\ Answered(legal, Plain(card)) /\ Go("select")
            /\ version' = IF version # "MMC" THEN version
                          ELSE IF type.v4 THEN "MMC4" ELSE "MMC3"
            /\ capacity' = "csd"
         \/ Fails(legal, Plain(card)) /\ Fail /\ UNCHANGED <<version, capacity>>
  /\ UNCHANGED <<type, hc, rca, caps, host, timeout, unusable, has_init>>

SelectCard ==
  /\ st = "select"
  /\ LET legal == card.st = "stby" /\ card.rca = rca
         Tran == [Plain(card) EXCEPT !.st = "tran"]
     IN  \/ /\ Answered(legal, Tran)
            /\ Go(CASE IS_SD -> "app51" [] version = "MMC4" -> "extCsd" [] OTHER -> "setClock")
         \/ Fails(legal, Tran) /\ Fail
  /\ caps' = {} /\ timeout' = ScrTries
  /\ UNCHANGED <<type, version, hc, rca, capacity, host, unusable, has_init>>

InTran == card.st = "tran"

(* The extended CSD: when it cannot be read the capacity stays that of the *)
(* CSD, and the startup goes on.                                           *)
ReadExtCsd ==
  /\ st = "extCsd"
  /\ \/ Answered(InTran, Plain(card)) /\ capacity' = IF type.hc THEN "ext_csd" ELSE "csd"
     \/ Fails(InTran, Plain(card)) /\ UNCHANGED capacity
  /\ Go("freqCsd")
  /\ UNCHANGED <<type, version, hc, rca, caps, host, timeout, unusable, has_init>>

(* sd_change_freq.  A retry sends the command again, not APP_CMD. *)
ScrApp ==
  /\ st = "app51"
  /\ LET legal == AppLegal({"tran"})
     IN  \/ Answered(legal, [card EXCEPT !.app = TRUE]) /\ Go("scr")
         \/ Fails(legal, [card EXCEPT !.app = TRUE]) /\ Fail
  /\ UNCHANGED <<type, mmc, host, timeout, unusable, has_init>>

Wide == IF type.wide THEN {"4bit"} ELSE {}
AfterFreq(cp) == IF "4bit" \in cp THEN "app6" ELSE "setClock"

SendScrForever ==  \* the retries are not counted
  /\ st = "scr"
  /\ LET legal == InTran /\ type.sd /\ card.app
     IN  \/ /\ Answered(legal, Plain(card))
            /\ version' = CASE type.v2 -> "SD2" [] ~type.v2 /\ type.hs -> "SD1.10" [] OTHER -> "SD1"
            /\ caps' = Wide
            /\ Go(IF version' = "SD1" THEN AfterFreq(Wide) ELSE "switchCheck")
            /\ timeout' = SwitchTries
         \/ /\ Fails(legal, Plain(card))
            /\ UNCHANGED <<st, version, caps, timeout>>
  /\ UNCHANGED <<type, hc, rca, capacity, host, unusable, has_init>>

SendScr ==
  /\ st = "scr"
  /\ LET legal == InTran /\ type.sd /\ card.app
     IN  \/ /\ Answered(legal, Plain(card))
            /\ version' = CASE type.v2 -> "SD2" [] ~type.v2 /\ type.hs -> "SD1.10" [] OTHER -> "SD1"
            /\ caps' = Wide
            /\ Go(IF version' = "SD1" THEN AfterFreq(Wide) ELSE "switchCheck")
            /\ timeout' = SwitchTries
         \/ /\ Fails(legal, Plain(card))
            /\ IF timeout > 0 THEN UNCHANGED st ELSE Fail
            /\ timeout' = timeout - 1
            /\ UNCHANGED <<version, caps>>
  /\ UNCHANGED <<type, hc, rca, capacity, host, unusable, has_init>>

SwitchCheck ==
  /\ st = "switchCheck"
  /\ LET legal == InTran /\ type.sd
     IN  \/ /\ Answered(legal, Plain(card))
            /\ \/ timeout > 1 /\ UNCHANGED st                  \* high speed is busy
               \/ Go(IF type.hs THEN "switchSet" ELSE AfterFreq(caps))
            /\ timeout' = timeout - 1
         \/ Fails(legal, Plain(card)) /\ Fail /\ UNCHANGED timeout
  /\ UNCHANGED <<type, mmc, host, unusable, has_init>>

SwitchSet ==
  /\ st = "switchSet"
  /\ LET legal == InTran /\ type.sd
         Fast == [Plain(card) EXCEPT !.hs = TRUE]
     IN  \/ Answered(legal, Fast) /\ caps' = caps \cup {"hs"} /\ Go(AfterFreq(caps))
         \/ Answered(legal, Plain(card)) /\ Go(AfterFreq(caps)) /\ UNCHANGED caps
         \/ Fails(legal, Fast) /\ Fail /\ UNCHANGED caps
  /\ UNCHANGED <<type, version, hc, rca, capacity, host, timeout, unusable, has_init>>

(* mmc_change_freq, for version 4 and later. *)
FreqExtCsd ==
  /\ st = "freqCsd"
  /\ caps' = {"4bit"}
  /\ (Answered(InTran, Plain(card)) /\ Go("hsTiming")) \/ (Fails(InTran, Plain(card)) /\ Fail)
  /\ UNCHANGED <<type, version, hc, rca, capacity, host, timeout, unusable, has_init>>

HsTiming ==
  /\ st = "hsTiming"
  /\ LET Fast == [Plain(card) EXCEPT !.hs = type.hs]
     IN  (Answered(InTran, Fast) /\ Go("hsCheck")) \/ (Fails(InTran, Fast) /\ Fail)
  /\ UNCHANGED <<type, mmc, host, timeout, unusable, has_init>>

HsCheck ==
  /\ st = "hsCheck"
  /\ \/ /\ Answered(InTran, Plain(card)) /\ Go("switchWidth")
        /\ caps' = IF card.hs THEN caps \cup {"hs"} ELSE caps
     \/ Fails(InTran, Plain(card)) /\ Fail /\ UNCHANGED caps
  /\ UNCHANGED <<type, version, hc, rca, capacity, host, timeout, unusable, has_init>>

(* The bus width: the card first, then the host. *)
Card4Bit == [Plain(card) EXCEPT !.width = 4]

WidthApp ==
  /\ st = "app6"
  /\ LET legal == AppLegal({"tran"})
     IN  \/ Answered(legal, [card EXCEPT !.app = TRUE]) /\ Go("acmd6")
         \/ Fails(legal, [card EXCEPT !.app = TRUE]) /\ Fail
  /\ UNCHANGED <<type, mmc, host, timeout, unusable, has_init>>

SdSetWidthOfCard ==  \* the host stays at one bit
  /\ st = "acmd6"
  /\ LET legal == InTran /\ card.app
     IN  \/ Answered(legal, Card4Bit) /\ Go("setClock")
         \/ Fails(legal, Card4Bit) /\ Fail
  /\ UNCHANGED <<type, mmc, host, timeout, unusable, has_init>>

SdSetWidth ==
  /\ st = "acmd6"
  /\ LET legal == InTran /\ card.app
     IN  \/ Answered(legal, Card4Bit) /\ SetIos(4, clock) /\ Go("setClock")
         \/ Fails(legal, Card4Bit) /\ Fail /\ UNCHANGED host
  /\ UNCHANGED <<type, mmc, timeout, unusable, has_init>>

MmcSetWidth ==
  /\ st = "switchWidth"
  /\ \/ Answered(InTran, Card4Bit) /\ SetIos(4, clock) /\ Go("setClock")
     \/ Fails(InTran, Card4Bit) /\ Fail /\ UNCHANGED host
  /\ UNCHANGED <<type, mmc, timeout, unusable, has_init>>

RateOfKind == IF IS_SD THEN 500 ELSE 520  \* whatever the card can do

Rate == IF IS_SD THEN IF "hs" \in caps THEN 500 ELSE 250
                 ELSE IF "hs" \in caps THEN 520 ELSE 200

SetClock ==
  /\ st = "setClock"
  /\ SetIos(width, Rate)
  /\ has_init' = TRUE /\ Go("done")
  /\ UNCHANGED <<type, card, mmc, timeout, unusable, faults>>

Startup == AllSendCid \/ RelativeAddr \/ SendCsd \/ SelectCard \/ ReadExtCsd
ChangeFreq == ScrApp \/ SendScr \/ SwitchCheck \/ SwitchSet \/ FreqExtCsd \/ HsTiming \/ HsCheck
OpCond == sd_op_cond_app \/ sd_send_op_cond \/ mmc_op_cond_idle \/ mmc_op_cond_ask \/ mmc_send_op_cond

Next == \/ Begin \/ go_idle \/ send_if_cond \/ OpCond \/ Startup \/ ChangeFreq
        \/ WidthApp \/ SdSetWidth \/ MmcSetWidth \/ SetClock

Spec == Init /\ [][Next]_vars
FairSpec == Spec /\ WF_vars(Next)
-----------------------------------------------------------------------------
TypeOK ==
  /\ card \in [st : {"idle", "ready", "ident", "stby", "tran"}, rca : {0, 1, NewRca},
               app : BOOLEAN, width : {1, 4}, hs : BOOLEAN]
  /\ version \in {"none", "SD1", "SD1.10", "SD2", "MMC", "MMC3", "MMC4"}
  /\ rca \in {0, 1, NewRca} /\ caps \subseteq {"4bit", "hs"} /\ hc \in BOOLEAN
  /\ capacity \in {"none", "csd", "ext_csd"} /\ width \in {0, 1, 4}
  /\ timeout \in -1 .. Tries + ScrTries + SwitchTries
  /\ {unusable, fatal, has_init} \subseteq BOOLEAN /\ faults \in 0 .. MaxFaults

(* mmc.c:1135: when mmc_init succeeds, driver, host and card agree on the  *)
(* address, the addressing of blocks and the width of the bus, and the     *)
(* card is ready to transfer, whatever commands were lost on the way.      *)
InitAgrees ==
  has_init /\ ~fatal /\ ~unusable =>
    /\ card.st = "tran" /\ card.rca = rca
    /\ hc = type.hc
    /\ card.width = width

(* mmc.c:1011: the clock is never above the card's mode, and the data of a *)
(* command never cross a bus whose ends differ in width.                   *)
Reading == {"extCsd", "scr", "switchCheck", "switchSet", "freqCsd", "hsCheck"}
BusFits ==
  /\ ~fatal /\ st # "begin" /\ clock > 250 => card.hs
  /\ st \in Reading => card.width = width

(* A card is driven with the commands of its own kind, once it has been    *)
(* reset: until a CMD0 gets there it may be what the boot ROM has left.    *)
Resetting == {"begin", "goIdle", "ifCond", "app41", "goIdle2", "ask1"}
KindRight == card.st = "tran" /\ st \notin Resetting \cup {"failed"} => (IS_SD <=> type.sd)

(* mmc_init returns: its loops are bounded. *)
InitReturns == <>(st \in {"done", "failed"})

-----------------------------------------------------------------------------
(* mmc.h:127 "Unusable Card": a card that sd_send_op_cond found unusable   *)
(* is not used.                                                            *)
UnusableIsRefused == unusable => ~has_init

(* mmc.c:905 "According to the JEDEC Standard, the value of ext_csd's       *)
(* capacity is valid if the value is more than 2GB": a card of more than   *)
(* 2 GB gets that capacity.                                                *)
CapacityFromExtCsd == has_init /\ ~type.sd /\ type.hc => capacity = "ext_csd"
=============================================================================
