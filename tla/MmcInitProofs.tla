--------------------------- MODULE MmcInitProofs ---------------------------
(***************************************************************************)
(* Proofs about mmc_init: for every set of cards, every number of retries  *)
(* and every number of commands and answers lost, the driver, the host and *)
(* the card agree about what they have set up.                             *)
(***************************************************************************)
EXTENDS MmcInit, TLAPS

Asking == {"ifCond", "app41", "op41", "goIdle2", "ask1", "op1", "cid"}
Naming == {"rca", "csd", "select"}
Selected == {"extCsd", "app51", "scr", "switchCheck", "switchSet", "freqCsd", "hsTiming", "hsCheck",
             "app6", "acmd6", "switchWidth", "setClock", "done"}
Live == Asking \cup Naming \cup Selected
MmcVersion == {"MMC", "MMC3", "MMC4"}

CardStates == {"idle", "ready", "ident", "stby", "tran"}
CardType == [st : CardStates, rca : {0, 1, NewRca}, app : BOOLEAN, width : {1, 4}, hs : BOOLEAN]

Typed ==
  /\ card \in CardType
  /\ version \in {"none", "SD1", "SD1.10", "SD2"} \cup MmcVersion
  /\ rca \in {0, 1, NewRca} /\ type.hs \in BOOLEAN
  /\ st \in {"begin", "goIdle", "failed"} \cup Live

(* A host that has failed is asked for nothing more. *)
HostInv == fatal => st \in {"goIdle", "failed", "setClock", "done"}

(* No CMD0 has reached a card that the boot ROM had selected. *)
Unreset == st \in Resetting /\ card.st = "tran"

(* The two ends of the bus change their width together. *)
WidthInv ==
  /\ st \in Live /\ ~Unreset => card.width = width
  /\ st \in Asking \cup {"goIdle"} => width = 1

(* High speed is noted when the card is in it, and not before. *)
SpeedInv ==
  /\ st # "done" => clock \in {0, 4}
  /\ st = "done" => clock \in {200, 250, 500, 520} /\ (clock > 250 => "hs" \in caps)
  /\ st \in Asking \cup Naming \cup {"extCsd", "app51", "scr", "freqCsd", "hsTiming", "hsCheck"}
       => "hs" \notin caps
  /\ st \in Selected /\ "hs" \in caps => card.hs
  /\ st \in {"begin", "goIdle"} => "hs" \notin caps

(* The version tells the kind;  with none, no card has been found. *)
KindInv ==
  /\ IS_SD => type.sd
  /\ version \in MmcVersion => ~ type.sd
  /\ version = "none" => rca = 0
  /\ st \in {"begin", "goIdle"} => rca = 0 /\ version = "none"

(* Where the card is, and what is known of it. *)
CardInv ==
  /\ st \in {"begin", "goIdle"} => card = PowerOn \/ Unreset
  /\ st \in {"ifCond", "app41"} => card.st = "idle" \/ Unreset
  /\ st = "op41" => card.st = "idle"
  /\ st \in Asking => card.st \in {"idle", "ready"} \/ Unreset
  /\ st = "rca" => card.st = "ident"
  /\ st \in {"csd", "select"} => card.st = "stby" /\ (type.sd => card.rca = NewRca)
  /\ st \in {"select"} \cup Selected => card.rca = rca
  /\ st \in Selected => card.st = "tran" /\ (type.sd => IS_SD)

AddressingInv ==
  /\ st = "cid" /\ card.st = "ready" /\ ~ unusable => hc = type.hc
  /\ st \in Naming \cup Selected /\ ~ unusable => hc = type.hc
  /\ has_init => st = "done"

IInv == Typed /\ HostInv /\ WidthInv /\ SpeedInv /\ KindInv /\ CardInv /\ AddressingInv
-----------------------------------------------------------------------------
LEMMA InitHolds == Init => IInv
<1> SUFFICES ASSUME Init PROVE IInv OBVIOUS
<1>1. card \in CardType
  <2>1. CASE card = PowerOn BY <2>1 DEF CardType, CardStates, PowerOn
  <2>2. CASE card # PowerOn
    <3>1. card \in [st : {"tran"}, rca : {1, NewRca}, app : {FALSE}, width : {1, 4}, hs : BOOLEAN]
      BY <2>2 DEF Init
    <3> QED BY <3>1 DEF CardType, CardStates
  <2> QED BY <2>1, <2>2
<1>2. type.hs \in BOOLEAN BY CardAssumption DEF Init
<1>3. /\ st = "begin" /\ version = "none" /\ rca = 0 /\ caps = {} /\ clock = 0 /\ fatal = FALSE
      /\ has_init = FALSE
  BY DEF Init
<1>4. card = PowerOn \/ card.st = "tran"
  BY DEF Init
<1> QED BY <1>1, <1>2, <1>3, <1>4
    DEF IInv, Typed, HostInv, WidthInv, SpeedInv, KindInv, CardInv, AddressingInv, IS_SD,
        Asking, Naming, Selected, Live, MmcVersion, Unreset, Resetting

(* A card in state s, and otherwise as it is but for the flag of APP_CMD. *)
Moved(c, s) == c \in CardType /\ c.st = s /\ c.rca = card.rca /\ c.width = card.width /\ c.hs = card.hs
Same(c) == Moved(c, card.st)

LEMMA CardForms ==
  ASSUME card \in CardType
  PROVE  /\ Same(card) /\ Same(Plain(card)) /\ Same([card EXCEPT !.app = TRUE])
         /\ \A s \in CardStates : Moved([Plain(card) EXCEPT !.st = s], s)
         /\ PowerOn \in CardType /\ PowerOn.st = "idle" /\ PowerOn.rca = 0 /\ PowerOn.width = 1
BY DEF Same, Moved, Plain, CardType, CardStates, PowerOn, NewRca

(* The card once it has been told its speed. *)
LEMMA CardSpeed ==
  ASSUME card \in CardType, NEW h \in BOOLEAN
  PROVE  LET Fast == [Plain(card) EXCEPT !.hs = h]
         IN  /\ Fast \in CardType /\ Fast.st = card.st /\ Fast.rca = card.rca
             /\ Fast.width = card.width /\ Fast.hs = h
BY DEF Plain, CardType

LEMMA OpCondStep == IInv /\ OpCond => IInv'
<1> SUFFICES ASSUME IInv, OpCond PROVE IInv' OBVIOUS
<1>0. card \in CardType BY DEF IInv, Typed
<1> USE DEF IInv, Typed, HostInv, WidthInv, SpeedInv, KindInv, CardInv, AddressingInv, IS_SD,
            Asking, Naming, Selected, Live, MmcVersion, mmc, host, Unreset, Resetting
<1>1. CASE sd_op_cond_app
  <2>1. card' \in {card, Plain(card), [card EXCEPT !.app = TRUE]}
    BY <1>1, Zenon DEF sd_op_cond_app, Answered, Fails, Lost, Refused, Plain
  <2>2. Same(card') BY ONLY <1>0, <2>1, CardForms
  <2>3. /\ st = "app41" /\ st' \in {"op41", "goIdle2", "cid"} /\ (st' = "cid" => fatal)
        /\ (st' = "op41" => card.st = "idle")
        /\ UNCHANGED <<type, mmc, host, timeout, unusable, has_init>>
    BY <1>1 DEF sd_op_cond_app, AppLegal, Answered, Fails, Lost, Refused, Go, Fail
  <2> QED BY <2>2, <2>3 DEF Same, Moved, CardType, CardStates
<1>2. CASE sd_send_op_cond
  <2> DEFINE Ready == [Plain(card) EXCEPT !.st = "ready"]
  <2>1. Moved(Ready, "ready") BY <1>0, CardForms DEF CardStates
  <2>2. Same(card) /\ Same(Plain(card)) BY <1>0, CardForms
  <2>3. /\ st = "op41" /\ UNCHANGED <<type, caps, capacity, host, has_init>>
        /\ \/ /\ type.sd /\ card' = Ready /\ st' = "cid"
              /\ \/ unusable' = TRUE /\ UNCHANGED <<version, hc, rca>>
                 \/ /\ version' \in {"SD1", "SD2"}
                    /\ hc' = type.hc /\ rca' = 0 /\ UNCHANGED unusable
           \/ /\ card' = Plain(card) /\ UNCHANGED <<version, hc, rca>>
              /\ ((st' = "cid" /\ unusable') \/ st' = "app41")
           \/ /\ card' \in {card, Plain(card), Ready} /\ st' = "goIdle2"
              /\ UNCHANGED <<version, hc, rca, unusable>>
           \/ fatal /\ UNCHANGED <<version, hc, rca, unusable>>
    BY ONLY <1>2 DEF Ready, sd_send_op_cond, Answered, Lost, Refused, Go, Plain, host
  <2> HIDE DEF Ready
  <2> QED BY <2>1, <2>2, <2>3 DEF Same, Moved, CardType, CardStates
<1>3. CASE mmc_op_cond_idle
  <2>1. card' \in {card, PowerOn}
    BY <1>3, Zenon DEF mmc_op_cond_idle, Sent, Refused
  <2>2. st = "goIdle2" /\ st' = "ask1" /\ UNCHANGED <<type, mmc, host, unusable, has_init>>
    BY <1>3 DEF mmc_op_cond_idle, Go
  <2> QED BY <1>0, <2>1, <2>2, CardForms DEF Same, Moved, CardType, CardStates
<1>4. CASE mmc_op_cond_ask
  <2>1. card' \in {card, Plain(card)}
    BY <1>4, Zenon DEF mmc_op_cond_ask, Answered, Fails, Lost, Refused, Plain
  <2>2. Same(card') BY ONLY <1>0, <2>1, CardForms
  <2>3. /\ st = "ask1" /\ st' \in {"op1", "failed"} /\ (st' = "op1" => card.st = "idle")
        /\ UNCHANGED <<type, mmc, host, timeout, unusable, has_init>>
    BY <1>4 DEF mmc_op_cond_ask, Answered, Fails, Lost, Refused, Go, Fail
  <2> QED BY <2>2, <2>3 DEF Same, Moved, CardType, CardStates
<1>5. CASE mmc_send_op_cond
  <2> DEFINE Ready == [Plain(card) EXCEPT !.st = "ready"]
  <2>1. Moved(Ready, "ready") BY <1>0, CardForms DEF CardStates
  <2>2. Same(card) /\ Same(Plain(card)) BY <1>0, CardForms
  <2>3. /\ st = "op1" /\ UNCHANGED <<type, caps, capacity, host, unusable, has_init>>
        /\ card' \in {card, Plain(card), Ready}
        /\ \/ ~ type.sd /\ version' = "MMC" /\ hc' = type.hc /\ rca' = 1 /\ st' = "cid" /\ card' = Ready
           \/ st' = "op1" /\ card' = Plain(card) /\ UNCHANGED <<version, hc, rca>>
           \/ st' = "failed" /\ UNCHANGED <<version, hc, rca>>
    BY <1>5 DEF mmc_send_op_cond, Answered, Fails, Lost, Refused, Go, Fail, Plain
  <2> HIDE DEF Ready
  <2> QED BY <2>1, <2>2, <2>3 DEF Same, Moved, CardType, CardStates
<1> QED BY <1>1, <1>2, <1>3, <1>4, <1>5 DEF OpCond

LEMMA StartupStep == IInv /\ Startup => IInv'
<1> SUFFICES ASSUME IInv, Startup PROVE IInv' OBVIOUS
<1>0. card \in CardType BY DEF IInv, Typed
<1> USE DEF IInv, Typed, HostInv, WidthInv, SpeedInv, KindInv, CardInv, AddressingInv, IS_SD,
            Asking, Naming, Selected, Live, MmcVersion, mmc, host, Unreset, Resetting
<1>1. CASE AllSendCid
  <2> DEFINE Ident == [Plain(card) EXCEPT !.st = "ident"]
  <2>1. Moved(Ident, "ident") BY <1>0, CardForms DEF CardStates
  <2>2. Same(card) /\ Same(Plain(card)) BY <1>0, CardForms
  <2>3. /\ st = "cid" /\ UNCHANGED <<type, mmc, host, timeout, unusable, has_init>>
        /\ card' \in {card, Plain(card), Ident}
        /\ \/ card.st = "ready" /\ card' = Ident /\ st' = "rca"
           \/ st' = "failed"
    BY <1>1 DEF AllSendCid, Answered, Fails, Lost, Refused, Go, Fail, Plain
  <2> HIDE DEF Ident
  <2> QED BY <2>1, <2>2, <2>3 DEF Same, Moved, CardType, CardStates
<1>2. CASE RelativeAddr
  <2> DEFINE Named == IF type.sd THEN NewRca ELSE rca
             Stby == [Plain(card) EXCEPT !.st = "stby", !.rca = Named]
  <2>1. /\ Named \in {0, 1, NewRca} /\ (type.sd => Named = NewRca) /\ (~ type.sd => Named = rca)
    BY DEF IInv, Typed
  <2> HIDE DEF Named
  <2>2. Stby \in CardType /\ Stby.st = "stby" /\ Stby.rca = Named /\ Stby.width = card.width
        /\ Stby.hs = card.hs
    BY ONLY <1>0, <2>1 DEF CardType, CardStates, Plain
  <2>3. Same(card) /\ Same(Plain(card)) BY <1>0, CardForms
  <2>4. /\ st = "rca" /\ UNCHANGED <<type, version, hc, caps, capacity, host, unusable, has_init>>
        /\ card' \in {card, Plain(card), Stby}
        /\ \/ card' = Stby /\ st' = "csd" /\ rca' = (IF IS_SD THEN Stby.rca ELSE rca)
           \/ st' = "failed" /\ rca' = rca
    BY <1>2 DEF RelativeAddr, Answered, Fails, Lost, Refused, Go, Fail, Plain, Named
  <2> HIDE DEF Stby
  <2> QED BY <2>1, <2>2, <2>3, <2>4 DEF Same, Moved, CardType, CardStates, NewRca
<1>3. CASE SendCsd
  <2>1. card' \in {card, Plain(card)}
    BY <1>3, Zenon DEF SendCsd, Answered, Fails, Lost, Refused, Plain
  <2>2. Same(card') BY ONLY <1>0, <2>1, CardForms
  <2>3. /\ st = "csd" /\ UNCHANGED <<type, hc, rca, caps, host, unusable, has_init>>
        /\ \/ /\ card.rca = rca /\ st' = "select"
              /\ \/ version # "MMC" /\ version' = version
                 \/ version = "MMC" /\ version' \in {"MMC3", "MMC4"}
           \/ st' = "failed" /\ version' = version
    BY <1>3 DEF SendCsd, Answered, Fails, Lost, Refused, Go, Fail
  <2> QED BY <2>2, <2>3 DEF Same, Moved, CardType, CardStates
<1>4. CASE SelectCard
  <2> DEFINE Tran == [Plain(card) EXCEPT !.st = "tran"]
  <2>1. Moved(Tran, "tran") BY <1>0, CardForms DEF CardStates
  <2>2. Same(card) /\ Same(Plain(card)) BY <1>0, CardForms
  <2>3. /\ st = "select" /\ caps' = {}
        /\ UNCHANGED <<type, version, hc, rca, capacity, host, unusable, has_init>>
        /\ card' \in {card, Plain(card), Tran}
        /\ \/ card.rca = rca /\ card' = Tran /\ st' \in {"app51", "extCsd", "setClock"}
           \/ st' = "failed"
    BY <1>4 DEF SelectCard, Answered, Fails, Lost, Refused, Go, Fail, Plain
  <2> HIDE DEF Tran
  <2> QED BY <2>1, <2>2, <2>3 DEF Same, Moved, CardType, CardStates, NewRca
<1>5. CASE ReadExtCsd
  <2>1. card' \in {card, Plain(card)}
    BY <1>5, Zenon DEF ReadExtCsd, Answered, Fails, Lost, Refused, Plain
  <2>2. Same(card') BY ONLY <1>0, <2>1, CardForms
  <2>3. /\ st = "extCsd" /\ st' = "freqCsd"
        /\ UNCHANGED <<type, version, hc, rca, caps, host, unusable, has_init>>
    BY <1>5 DEF ReadExtCsd, Answered, Fails, Lost, Refused, Go, Fail
  <2> QED BY <2>2, <2>3 DEF Same, Moved, CardType, CardStates
<1> QED BY <1>1, <1>2, <1>3, <1>4, <1>5 DEF Startup

LEMMA ChangeFreqStep == IInv /\ ChangeFreq => IInv'
<1> SUFFICES ASSUME IInv, ChangeFreq PROVE IInv' OBVIOUS
<1>0. card \in CardType BY DEF IInv, Typed
<1> USE DEF IInv, Typed, HostInv, WidthInv, SpeedInv, KindInv, CardInv, AddressingInv, IS_SD,
            Asking, Naming, Selected, Live, MmcVersion, mmc, host, Unreset, Resetting
<1>1. CASE ScrApp
  <2>1. card' \in {card, Plain(card), [card EXCEPT !.app = TRUE]}
    BY <1>1, Zenon DEF ScrApp, Answered, Fails, Lost, Refused, Plain
  <2>2. Same(card') BY ONLY <1>0, <2>1, CardForms
  <2>3. /\ st = "app51" /\ st' \in {"scr", "failed"}
        /\ UNCHANGED <<type, mmc, host, unusable, has_init>>
    BY <1>1 DEF ScrApp, Answered, Fails, Lost, Refused, Go, Fail
  <2> QED BY <2>2, <2>3 DEF Same, Moved, CardType, CardStates
<1>2. CASE SendScr
  <2>1. card' \in {card, Plain(card)}
    BY <1>2, Zenon, SMTT(40) DEF SendScr, Answered, Fails, Lost, Refused, Plain
  <2>2. Same(card') BY ONLY <1>0, <2>1, CardForms
  <2>3. /\ st = "scr" /\ UNCHANGED <<type, hc, rca, host, unusable, has_init>>
        /\ \/ /\ type.sd /\ version' \in {"SD1", "SD1.10", "SD2"} /\ caps' \in {{}, {"4bit"}}
              /\ st' \in {"app6", "setClock", "switchCheck"}
           \/ st' \in {"scr", "failed"} /\ UNCHANGED <<version, caps>>
    BY <1>2 DEF SendScr, Answered, Fails, Lost, Refused, Go, Fail, AfterFreq, Wide
  <2> QED BY <2>2, <2>3 DEF Same, Moved, CardType, CardStates
<1>3. CASE SwitchCheck
  <2>1. card' \in {card, Plain(card)}
    BY <1>3, Zenon DEF SwitchCheck, Answered, Fails, Lost, Refused, Plain
  <2>2. Same(card') BY ONLY <1>0, <2>1, CardForms
  <2>3. /\ st = "switchCheck" /\ st' \in {"switchCheck", "switchSet", "app6", "setClock", "failed"}
        /\ UNCHANGED <<type, mmc, host, unusable, has_init>>
    BY <1>3 DEF SwitchCheck, Answered, Fails, Lost, Refused, Go, Fail, AfterFreq
  <2> QED BY <2>2, <2>3 DEF Same, Moved, CardType, CardStates
<1>4. CASE SwitchSet
  <2> DEFINE Fast == [Plain(card) EXCEPT !.hs = TRUE]
  <2>1. Fast \in CardType /\ Fast.st = card.st /\ Fast.rca = card.rca /\ Fast.width = card.width /\ Fast.hs
    BY ONLY <1>0, CardSpeed
  <2>2. Same(card) /\ Same(Plain(card)) BY <1>0, CardForms
  <2>3. /\ st = "switchSet" /\ UNCHANGED <<type, version, hc, rca, host, unusable, has_init>>
        /\ card' \in {card, Plain(card), Fast}
        /\ \/ card' = Fast /\ caps' = caps \cup {"hs"} /\ st' \in {"app6", "setClock"}
           \/ card' = Plain(card) /\ caps' = caps /\ st' \in {"app6", "setClock"}
           \/ caps' = caps /\ st' = "failed"
    BY <1>4 DEF SwitchSet, Answered, Fails, Lost, Refused, Go, Fail, Plain, AfterFreq
  <2> HIDE DEF Fast
  <2> QED BY <2>1, <2>2, <2>3 DEF Same, Moved, CardType, CardStates
<1>5. CASE FreqExtCsd
  <2>1. card' \in {card, Plain(card)}
    BY <1>5, Zenon DEF FreqExtCsd, Answered, Fails, Lost, Refused, Plain
  <2>2. Same(card') BY ONLY <1>0, <2>1, CardForms
  <2>3. /\ st = "freqCsd" /\ st' \in {"hsTiming", "failed"} /\ caps' = {"4bit"}
        /\ UNCHANGED <<type, version, hc, rca, host, unusable, has_init>>
    BY <1>5 DEF FreqExtCsd, Answered, Fails, Lost, Refused, Go, Fail
  <2> QED BY <2>2, <2>3 DEF Same, Moved, CardType, CardStates
<1>6. CASE HsTiming
  <2> DEFINE Fast == [Plain(card) EXCEPT !.hs = type.hs]
  <2>1. type.hs \in BOOLEAN BY DEF IInv, Typed
  <2>2. Fast \in CardType /\ Fast.st = card.st /\ Fast.rca = card.rca /\ Fast.width = card.width
    BY ONLY <1>0, <2>1, CardSpeed
  <2>3. Same(card) /\ Same(Plain(card)) BY <1>0, CardForms
  <2>4. /\ st = "hsTiming" /\ st' \in {"hsCheck", "failed"} /\ card' \in {card, Plain(card), Fast}
        /\ UNCHANGED <<type, mmc, host, unusable, has_init>>
    BY <1>6 DEF HsTiming, Answered, Fails, Lost, Refused, Go, Fail, Plain
  <2> HIDE DEF Fast
  <2> QED BY <2>2, <2>3, <2>4 DEF Same, Moved, CardType, CardStates
<1>7. CASE HsCheck
  <2>1. card' \in {card, Plain(card)}
    BY <1>7, Zenon DEF HsCheck, Answered, Fails, Lost, Refused, Plain
  <2>2. Same(card') BY ONLY <1>0, <2>1, CardForms
  <2>3. /\ st = "hsCheck" /\ UNCHANGED <<type, version, hc, rca, host, unusable, has_init>>
        /\ \/ st' = "switchWidth" /\ caps' = (IF card.hs THEN caps \cup {"hs"} ELSE caps)
           \/ st' = "failed" /\ caps' = caps
    BY <1>7 DEF HsCheck, Answered, Fails, Lost, Refused, Go, Fail
  <2> QED BY <2>2, <2>3 DEF Same, Moved, CardType, CardStates
<1> QED BY <1>1, <1>2, <1>3, <1>4, <1>5, <1>6, <1>7 DEF ChangeFreq

LEMMA InitNext == IInv /\ [Next]_vars => IInv'
<1> SUFFICES ASSUME IInv, [Next]_vars PROVE IInv' OBVIOUS
<1>0. card \in CardType BY DEF IInv, Typed
<1>a. Same(card) /\ Same(Plain(card)) BY <1>0, CardForms
<1>b. Card4Bit \in CardType /\ Card4Bit.st = card.st /\ Card4Bit.rca = card.rca /\ Card4Bit.width = 4
      /\ Card4Bit.hs = card.hs
  BY <1>0 DEF Card4Bit, CardType, Plain
<1>1. CASE OpCond \/ Startup \/ ChangeFreq BY <1>1, OpCondStep, StartupStep, ChangeFreqStep
<1> USE DEF IInv, Typed, HostInv, WidthInv, SpeedInv, KindInv, CardInv, AddressingInv, IS_SD,
            Asking, Naming, Selected, Live, MmcVersion, mmc, host, Unreset, Resetting
<1>2. CASE Begin
  <2>1. /\ st = "begin" /\ st' = "goIdle" /\ width' = 1 /\ clock' = 4
        /\ UNCHANGED <<type, card, mmc, unusable, has_init>>
    BY <1>2 DEF Begin, SetIos, Go
  <2> QED BY <2>1 DEF Same, Moved, CardType, CardStates
<1>3. CASE go_idle
  <2>1. /\ st = "goIdle" /\ UNCHANGED <<type, mmc, host, unusable, has_init>>
        /\ \/ card' \in {PowerOn, card} /\ st' = "ifCond" /\ ~ fatal
           \/ card' = card /\ st' = "failed"
    BY <1>3 DEF go_idle, Sent, Refused, Go, Fail
  <2>2. width = 1 /\ rca = 0 /\ (card = PowerOn \/ card.st = "tran")
    BY <2>1 DEF IInv, WidthInv, KindInv, CardInv, Unreset
  <2> QED BY <1>0, <1>a, <2>1, <2>2, CardForms DEF Same, Moved, CardType, CardStates
<1>4. CASE send_if_cond
  <2>1. card' \in {card, Plain(card)}
    BY <1>4, Zenon DEF send_if_cond, Answered, Fails, Lost, Refused, Plain
  <2>2. Same(card') BY ONLY <1>0, <2>1, CardForms
  <2>3. /\ st = "ifCond" /\ st' = "app41" /\ UNCHANGED <<type, hc, rca, caps, host, unusable, has_init>>
        /\ ((type.sd /\ version' = "SD2") \/ version' = version)
    BY <1>4 DEF send_if_cond, Answered, Fails, Lost, Refused, Go, Fail
  <2> QED BY <2>2, <2>3 DEF Same, Moved, CardType, CardStates
<1>5. CASE WidthApp
  <2>1. card' \in {card, Plain(card), [card EXCEPT !.app = TRUE]}
    BY <1>5, Zenon DEF WidthApp, Answered, Fails, Lost, Refused, Plain
  <2>2. Same(card') BY ONLY <1>0, <2>1, CardForms
  <2>3. /\ st = "app6" /\ st' \in {"acmd6", "failed"}
        /\ UNCHANGED <<type, mmc, host, unusable, has_init>>
    BY <1>5 DEF WidthApp, Answered, Fails, Lost, Refused, Go, Fail
  <2> QED BY <2>2, <2>3 DEF Same, Moved, CardType, CardStates
<1>6. CASE SdSetWidth
  <2>1. /\ st = "acmd6" /\ UNCHANGED <<type, mmc, clock, unusable, has_init>>
        /\ \/ card' = Card4Bit /\ width' = 4 /\ st' = "setClock"
           \/ card' \in {card, Plain(card), Card4Bit} /\ UNCHANGED <<width, fatal>> /\ st' = "failed"
    BY <1>6 DEF SdSetWidth, Answered, Fails, Lost, Refused, Go, Fail, SetIos, Plain, host
  <2> QED BY <1>a, <1>b, <2>1 DEF Same, Moved, CardType, CardStates
<1>7. CASE MmcSetWidth
  <2>1. /\ st = "switchWidth" /\ UNCHANGED <<type, mmc, clock, unusable, has_init>>
        /\ \/ card' = Card4Bit /\ width' = 4 /\ st' = "setClock"
           \/ card' \in {card, Plain(card), Card4Bit} /\ UNCHANGED <<width, fatal>> /\ st' = "failed"
    BY <1>7 DEF MmcSetWidth, Answered, Fails, Lost, Refused, Go, Fail, SetIos, Plain, host
  <2> QED BY <1>a, <1>b, <2>1 DEF Same, Moved, CardType, CardStates
<1>8. CASE SetClock
  <2>1. /\ st = "setClock" /\ st' = "done" /\ width' = width /\ UNCHANGED <<type, card, mmc, unusable>>
        /\ clock' \in {200, 250, 500, 520} /\ (clock' > 250 => "hs" \in caps)
    BY <1>8 DEF SetClock, SetIos, Rate, Go
  <2> QED BY <2>1 DEF Same, Moved, CardType, CardStates
<1>9. CASE UNCHANGED vars BY <1>9 DEF vars
<1> QED BY <1>1, <1>2, <1>3, <1>4, <1>5, <1>6, <1>7, <1>8, <1>9 DEF Next

LEMMA Invariant == Spec => []IInv
BY InitHolds, InitNext, PTL DEF Spec

(* mmc.c:1135: whatever commands and answers are lost, a card that the     *)
(* driver has initialised is in the transfer state at the address, with    *)
(* the addressing and with the bus width that driver and host use.         *)
THEOREM DriverAgrees == Spec => []InitAgrees
<1>1. IInv => InitAgrees
  BY DEF IInv, Typed, WidthInv, CardInv, AddressingInv, InitAgrees, Selected, Live,
         Unreset, Resetting
<1> QED BY <1>1, Invariant, PTL

(* mmc.c:1011: the clock goes above 25 MHz only for a card that was put    *)
(* into its high-speed mode, and both ends of the bus have one width       *)
(* whenever data crosses it.                                               *)
THEOREM BusAlwaysFits == Spec => []BusFits
<1>1. IInv => BusFits
  BY DEF IInv, Typed, WidthInv, SpeedInv, BusFits, Reading, Selected, Asking, Naming,
         Live, Unreset, Resetting
<1> QED BY <1>1, Invariant, PTL

(* mmc.c:1135: a card in the transfer state is driven as what it is, an SD *)
(* card or an MMC card, also when the answer that told them apart is lost. *)
THEOREM KindIsRight == Spec => []KindRight
<1>1. IInv => KindRight
  BY DEF IInv, Typed, KindInv, CardInv, KindRight, Selected, Asking, Naming, Live,
         Unreset, Resetting
<1> QED BY <1>1, Invariant, PTL
=============================================================================
