----------------------------- MODULE SunxiMmc -----------------------------
(***************************************************************************)
(* The host driver drivers/mmc/sunxi/mmc_bsp.c against its controller:     *)
(* mmc_send_cmd starts a command, moves its words through the FIFO by CPU, *)
(* polls the raw interrupt status for the end of the command and of the    *)
(* data, and resets the controller after an error; mmc_set_ios stops the   *)
(* card clock, sets the module clock and starts it again.  The controller  *)
(* runs beside the driver and is external: what it may do is what the      *)
(* driver waits for.                                                       *)
(*                                                                         *)
(* The words of command n are <<n, 1>>, <<n, 2>>, ... so that a word of    *)
(* one command is never taken for a word of another.                       *)
(***************************************************************************)
EXTENDS Integers, Sequences

CONSTANTS
  Words,       \* byte_cnt >> 2
  Depth,       \* words the FIFO holds
  Polls,       \* initial timeout of every polling loop
  Clocks,      \* rates asked for, in units of 100 kHz
  Osc, Pll6,   \* 24 MHz and clock_get_pll6(), in the same unit
  Stalls,      \* whether the FIFO may stall for all polls and no error be raised
  MaxCmds      \* bound: commands and clock changes

ASSUME WordsAssumption == Words \in Nat \ {0} /\ Depth \in Nat \ {0}
ASSUME PollsAssumption == Polls \in Nat
ASSUME ClocksAssumption == Clocks \subseteq Nat \ {0} /\ Osc \in Nat /\ Pll6 \in Nat
ASSUME StallsAssumption == Stalls \in BOOLEAN

VARIABLES
  st,          \* where the driver is
  cmd,         \* the command: id, data, multi, busy, aligned
  i,           \* words moved
  timeout,
  error,
  buff,        \* data->dest
  response,    \* cmd->response[0]
  ret,         \* "none", "ok" or "error"
  fatal,       \* priv->fatal_err
  rate,        \* the rate asked for, mmc->clock
  mod,         \* module clock register: source, n and m
  cards,       \* history: words the card was sent by the last command
  n,           \* commands and clock changes so far
  ctl,         \* controller: the command it runs, if any, and its progress
  fifo, rint, resp0,
  cardClk      \* whether the controller clocks the card

hw == <<ctl, fifo, rint, resp0, cards>>
clocking == <<fatal, rate, mod, cardClk>>
vars == <<st, cmd, i, timeout, error, buff, response, ret, n, clocking, hw>>

NoCmd == [id |-> 0, data |-> "none", multi |-> FALSE, busy |-> FALSE, aligned |-> TRUE]
Idle == [id |-> 0, data |-> "none", multi |-> FALSE, moved |-> 0, done |-> FALSE, failed |-> FALSE]
NoBuffer == [k \in 1 .. Words |-> <<0, k>>]

Init ==
  /\ st = "idle" /\ cmd = NoCmd /\ i = 0 /\ timeout = 0 /\ error = FALSE
  /\ buff = NoBuffer /\ response = 0 /\ ret = "none" /\ n = 0
  /\ fatal = FALSE /\ rate = 0 /\ mod = [src |-> Osc, n |-> 0, m |-> 1]
  /\ ctl = Idle /\ fifo = <<>> /\ rint = {} /\ resp0 = 0 /\ cards = <<>> /\ cardClk = FALSE

-----------------------------------------------------------------------------
(* mmc_send_cmd, up to the write of the command register. *)
SendCmd(data, multi, busy, aligned) ==
  /\ st = "idle" /\ n < MaxCmds /\ n' = n + 1
  /\ cmd' = [id |-> n + 1, data |-> data, multi |-> multi, busy |-> busy, aligned |-> aligned]
  /\ IF fatal
     THEN ret' = "error" /\ UNCHANGED <<st, error>>
     ELSE /\ ret' = "none"
          /\ IF data # "none" /\ ~aligned THEN st' = "out" /\ error' = TRUE
                                          ELSE st' = "start" /\ error' = FALSE
  /\ i' = 0 /\ timeout' = Polls
  /\ buff' = NoBuffer
  /\ UNCHANGED <<response, clocking, hw>>

(* Command 12 is left to the controller's auto stop. *)
StopTransmission ==
  /\ st = "idle" /\ n < MaxCmds /\ n' = n + 1
  /\ cmd' = NoCmd
  /\ ret' = IF fatal THEN "error" ELSE "ok"
  /\ UNCHANGED <<st, i, timeout, error, buff, response, clocking, hw>>

Command == SendCmd("none", FALSE, FALSE, TRUE)
BusyCommand == SendCmd("none", FALSE, TRUE, TRUE)
DataCommand ==
  \E data \in {"read", "write"}, multi, aligned \in BOOLEAN : SendCmd(data, multi, FALSE, aligned)

Start ==
  /\ st = "start"
  /\ ctl' = [Idle EXCEPT !.id = cmd.id, !.data = cmd.data, !.multi = cmd.multi]
  /\ cards' = <<>>
  /\ st' = IF cmd.data = "none" THEN "cmd" ELSE "move"
  /\ UNCHANGED <<cmd, i, timeout, error, buff, response, ret, n, clocking, fifo, rint, resp0>>

(* mmc_trans_data_by_cpu *)
FifoReady == IF cmd.data = "read" THEN fifo # <<>> ELSE Len(fifo) < Depth

MoveWord ==
  /\ st = "move" /\ i < Words /\ FifoReady
  /\ IF cmd.data = "read"
     THEN buff' = [buff EXCEPT ![i + 1] = Head(fifo)] /\ fifo' = Tail(fifo)
     ELSE fifo' = Append(fifo, <<cmd.id, i + 1>>) /\ UNCHANGED buff
  /\ i' = i + 1
  /\ UNCHANGED <<st, cmd, timeout, error, response, ret, n, clocking, ctl, rint, resp0, cards>>

MoveWait ==
  /\ st = "move" /\ i < Words /\ ~FifoReady /\ timeout > 0
  /\ timeout' = timeout - 1
  /\ UNCHANGED <<st, cmd, i, error, buff, response, ret, n, clocking, hw>>

(* The error of a stalled FIFO is what the error bits say, perhaps nothing. *)
MoveTimeout ==
  /\ st = "move" /\ i < Words /\ ~FifoReady /\ timeout = 0
  /\ Stalls \/ "error" \in rint
  /\ error' = ("error" \in rint)
  /\ st' = "out"
  /\ UNCHANGED <<cmd, i, timeout, buff, response, ret, n, clocking, hw>>

Moved ==
  /\ st = "move" /\ i = Words
  /\ st' = "cmd" /\ timeout' = Polls
  /\ UNCHANGED <<cmd, i, error, buff, response, ret, n, clocking, hw>>

(* mmc_rint_wait, for the end of the command and then of the data. *)
DoneBit == CASE st = "cmd" -> "done"
             [] st = "data" /\ cmd.multi -> "auto"
             [] OTHER -> "over"

RintError ==
  /\ st \in {"cmd", "data"} /\ (timeout = 0 \/ "error" \in rint)
  /\ error' = TRUE /\ st' = "out"
  /\ UNCHANGED <<cmd, i, timeout, buff, response, ret, n, clocking, hw>>

RintWaitForever ==  \* the polls are not counted
  /\ st \in {"cmd", "data"} /\ timeout > 0 /\ "error" \notin rint /\ DoneBit \notin rint
  /\ UNCHANGED vars

RintWait ==
  /\ st \in {"cmd", "data"} /\ timeout > 0 /\ "error" \notin rint /\ DoneBit \notin rint
  /\ timeout' = timeout - 1
  /\ UNCHANGED <<st, cmd, i, error, buff, response, ret, n, clocking, hw>>

RintDone ==
  /\ st \in {"cmd", "data"} /\ timeout > 0 /\ "error" \notin rint /\ DoneBit \in rint
  /\ st' = IF st = "cmd" /\ cmd.data # "none" THEN "data"
           ELSE IF cmd.busy THEN "busy" ELSE "response"
  /\ timeout' = Polls
  /\ UNCHANGED <<cmd, i, error, buff, response, ret, n, clocking, hw>>

(* The card holds its data line low for as long as it likes. *)
BusyWait ==
  /\ st = "busy"
  /\ \/ timeout = 0 /\ error' = TRUE /\ st' = "out" /\ UNCHANGED timeout
     \/ timeout > 0 /\ timeout' = timeout - 1 /\ UNCHANGED <<st, error>>
     \/ timeout > 0 /\ st' = "response" /\ UNCHANGED <<timeout, error>>
  /\ UNCHANGED <<cmd, i, buff, response, ret, n, clocking, hw>>

ReadResponse ==
  /\ st = "response"
  /\ response' = resp0
  /\ st' = "out"
  /\ UNCHANGED <<cmd, i, timeout, error, buff, ret, n, clocking, hw>>

OutWith(c, bits, words) ==
  /\ st = "out"
  /\ ctl' = c /\ rint' = bits /\ fifo' = words
  /\ ret' = IF error THEN "error" ELSE "ok"
  /\ st' = "idle"
  /\ UNCHANGED <<cmd, i, timeout, error, buff, response, n, clocking, resp0, cards>>

(* No reset after an error; the status not cleared; the FIFO not emptied. *)
OutRunning == OutWith(ctl, {}, <<>>)
OutUncleared == OutWith(IF error THEN Idle ELSE ctl, rint, <<>>)
OutFilled == OutWith(IF error THEN Idle ELSE ctl, {}, fifo)

(* out: after an error the controller is reset; the status is cleared and  *)
(* the FIFO emptied in any case.                                           *)
Out ==
  /\ st = "out"
  /\ ctl' = IF error THEN Idle ELSE ctl
  /\ rint' = {} /\ fifo' = <<>>
  /\ ret' = IF error THEN "error" ELSE "ok"
  /\ st' = "idle"
  /\ UNCHANGED <<cmd, i, timeout, error, buff, response, n, clocking, resp0, cards>>

-----------------------------------------------------------------------------
DivDown(a, b) == a \div b  \* the divider rounded down: too fast a clock

(* mmc_set_mod_clk: halve the divider, rounding up, until it fits in 4     *)
(* bits; more than three times are an error.  To round up a half k times   *)
(* is to round up once what 2^k goes into.                                 *)
CeilDiv(a, b) == (a + b - 1) \div b

Source(hz) == IF hz <= Osc THEN Osc ELSE Pll6
Halved(hz, k) == CeilDiv(CeilDiv(Source(hz), hz), 2 ^ k)
Fitting(hz) == {k \in 0 .. 3 : Halved(hz, k) <= 16}
Halvings(hz) == CHOOSE k \in Fitting(hz) : \A j \in Fitting(hz) : k <= j

(* mmc_set_ios: stop the clock, set its rate, start it.  Each mmc_update_clk *)
(* may time out, which is fatal.                                             *)
SetIos ==
  /\ st = "idle" /\ n < MaxCmds /\ n' = n + 1
  /\ rate' \in Clocks
  /\ \/ st' = "clkOff" /\ cardClk' = FALSE /\ rint' = {} /\ UNCHANGED fatal
     \/ fatal' = TRUE /\ UNCHANGED <<st, cardClk, rint>>
  /\ UNCHANGED <<cmd, i, timeout, error, buff, response, ret, mod, ctl, fifo, resp0, cards>>

SetModClk ==
  /\ st = "clkOff"
  /\ IF Fitting(rate) = {}
     THEN fatal' = TRUE /\ st' = "idle" /\ UNCHANGED mod
     ELSE /\ mod' = [src |-> Source(rate), n |-> Halvings(rate), m |-> Halved(rate, Halvings(rate))]
          /\ st' = "clkOn" /\ UNCHANGED fatal
  /\ UNCHANGED <<cmd, i, timeout, error, buff, response, ret, n, rate, cardClk, hw>>

ClockOn ==
  /\ st = "clkOn"
  /\ \/ cardClk' = TRUE /\ rint' = {} /\ UNCHANGED fatal
     \/ fatal' = TRUE /\ UNCHANGED <<cardClk, rint>>
  /\ st' = "idle"
  /\ UNCHANGED <<cmd, i, timeout, error, buff, response, ret, n, rate, mod,
                 ctl, fifo, resp0, cards>>

-----------------------------------------------------------------------------
(* The controller. *)
Running == ctl.id # 0 /\ ~ctl.failed
driver == <<st, cmd, i, timeout, error, buff, response, ret, n, clocking>>

CommandDone ==
  /\ Running /\ ~ctl.done
  /\ rint' = rint \cup {"done"} /\ resp0' = ctl.id
  /\ ctl' = IF ctl.data = "none" THEN Idle ELSE [ctl EXCEPT !.done = TRUE]
  /\ UNCHANGED <<driver, fifo, cards>>

WordFromCard ==
  /\ Running /\ ctl.data = "read" /\ ctl.moved < Words /\ Len(fifo) < Depth
  /\ fifo' = Append(fifo, <<ctl.id, ctl.moved + 1>>)
  /\ ctl' = [ctl EXCEPT !.moved = @ + 1]
  /\ UNCHANGED <<driver, rint, resp0, cards>>

WordToCard ==
  /\ Running /\ ctl.data = "write" /\ fifo # <<>>
  /\ cards' = Append(cards, Head(fifo)) /\ fifo' = Tail(fifo)
  /\ ctl' = [ctl EXCEPT !.moved = @ + 1]
  /\ UNCHANGED <<driver, rint, resp0>>

(* The end of the data, and for several blocks the end of the auto stop. *)
DataOver ==
  /\ Running /\ ctl.done /\ ctl.moved = Words /\ "over" \notin rint
  /\ rint' = rint \cup {"over"}
  /\ ctl' = IF ctl.multi THEN ctl ELSE Idle
  /\ UNCHANGED <<driver, fifo, resp0, cards>>

AutoStopDone ==
  /\ Running /\ ctl.multi /\ "over" \in rint
  /\ rint' = rint \cup {"auto"}
  /\ ctl' = Idle
  /\ UNCHANGED <<driver, fifo, resp0, cards>>

Fault ==
  /\ Running
  /\ rint' = rint \cup {"error"}
  /\ ctl' = [ctl EXCEPT !.failed = TRUE]
  /\ UNCHANGED <<driver, fifo, resp0, cards>>

Controller == CommandDone \/ WordFromCard \/ WordToCard \/ DataOver \/ AutoStopDone \/ Fault

Driver == \/ Start \/ MoveWord \/ MoveWait \/ MoveTimeout \/ Moved
          \/ RintError \/ RintWait \/ RintDone \/ BusyWait \/ ReadResponse \/ Out
          \/ SetModClk \/ ClockOn

Next == \/ Command \/ BusyCommand \/ DataCommand \/ StopTransmission \/ SetIos
        \/ Driver \/ Controller

Spec == Init /\ [][Next]_vars

(* The driver's loops go on; nothing is asked of the controller but that   *)
(* it raises an error for a FIFO that stalls.                              *)
FifoStalled == st = "move" /\ timeout = 0 /\ ~FifoReady
FairSpec == Spec /\ WF_vars(Driver) /\ WF_vars(FifoStalled /\ Controller)
-----------------------------------------------------------------------------
Sent == {<<c, k>> : c \in 0 .. MaxCmds, k \in 1 .. Words}

TypeOK ==
  /\ st \in {"idle", "start", "move", "cmd", "data", "busy", "response", "out", "clkOff", "clkOn"}
  /\ i \in 0 .. Words /\ timeout \in 0 .. Polls /\ error \in BOOLEAN
  /\ \A k \in 1 .. Words : buff[k] \in Sent
  /\ ret \in {"none", "ok", "error"} /\ fatal \in BOOLEAN /\ cardClk \in BOOLEAN
  /\ mod.n \in 0 .. 3 /\ mod.m \in 1 .. 16
  /\ ctl.id \in 0 .. MaxCmds /\ ctl.moved \in 0 .. Words
  /\ Len(fifo) <= Depth /\ rint \subseteq {"done", "over", "auto", "error"}

Answered == st = "idle" /\ cmd.id # 0 /\ ret = "ok"

(* mmc_bsp.c:522: a command that returns E_OK has ended, and the response  *)
(* it stores is its own: never a stale one left by an earlier command.     *)
OwnResponse == Answered => response = cmd.id

(* mmc_bsp.c:370: a data command that returns E_OK has moved every word,   *)
(* in order, whatever the earlier commands left in the FIFO.               *)
AllWordsMoved ==
  Answered /\ st = "idle" =>
    /\ cmd.data = "read"  => \A k \in 1 .. Words : buff[k] = <<cmd.id, k>>
    /\ cmd.data = "write" => cards = [k \in 1 .. Words |-> <<cmd.id, k>>]

(* mmc_bsp.c:532: when mmc_send_cmd has returned, the controller runs      *)
(* nothing, holds no word and shows no status that the next command could  *)
(* take for its own.                                                       *)
NothingLeftOver == st = "idle" => ctl.id = 0 /\ fifo = <<>> /\ rint = {}

(* mmc_bsp.c:206: unless a change of the clock has failed, the card is     *)
(* never clocked faster than was asked for.                                *)
ClockAsAsked ==
  cardClk /\ ~fatal => mod.src <= rate * mod.m * (2 ^ mod.n)

(* Every call returns, whatever the controller does. *)
CallsReturn == st # "idle" ~> st = "idle"

-----------------------------------------------------------------------------
(* mmc_bsp.c:466 "transfer data and check status": what AllWordsMoved says *)
(* when the FIFO may stall without an error bit.                           *)
TransferChecked == AllWordsMoved
=============================================================================
