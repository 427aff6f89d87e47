------------------------------ MODULE BlockIO ------------------------------
(***************************************************************************)
(* The block layer of drivers/mmc/mmc.c: mmc_bread, mmc_bwrite and         *)
(* mmc_berase cut a request into transfers of at most b_max blocks, each   *)
(* followed by mmc_send_status.  A command of the host driver succeeds, or *)
(* fails when part of its blocks has gone through; a written card is busy  *)
(* until it has programmed its blocks.                                     *)
(***************************************************************************)
EXTENDS Integers

CONSTANTS
  Lba,        \* mmc->lba, blocks on the card
  Bmax,       \* mmc->b_max
  Word,       \* values of a ulong_t
  Polls,      \* timeout of mmc_send_status
  Values,     \* contents of a block
  Zeros,      \* the block that memset makes
  Images, Buffers, \* cards to start with, and buffers of the callers
  Counts, Starts, \* blkcnt and start, as callers give them
  MaxCalls    \* bound: calls made

ASSUME SizeAssumption == Lba \in Nat /\ Word \in Nat /\ Lba < Word /\ Zeros \in Values
ASSUME BmaxAssumption == Bmax \in Nat \ {0}
ASSUME PollsAssumption == Polls \in Nat
ASSUME RangeAssumption == Counts \subseteq 0 .. Word - 1 /\ Starts \subseteq 0 .. Word - 1

CardBlocks == 0 .. Lba - 1
Buffer == 0 .. Word - 1

ASSUME DataAssumption == Images \subseteq [CardBlocks -> Values] /\ Buffers \subseteq [Buffer -> Values]

VARIABLES
  card,      \* blocks on the card
  busy,      \* whether the card is still programming
  mem,       \* the caller's buffer
  st,        \* where the call is
  call,      \* op, start and cnt
  start, todo, \* start and blocks_todo of the loop
  timeout,   \* of mmc_send_status
  ret,       \* what the call returned, or NoAnswer
  before,    \* history: card and buffer at the call
  calls

vars == <<card, busy, mem, st, call, start, todo, timeout, ret, before, calls>>

NoAnswer == -1

Init ==
  /\ card \in Images /\ busy = FALSE
  /\ mem \in Buffers
  /\ st = "idle" /\ call = [op |-> "none", start |-> 0, cnt |-> 0]
  /\ start = 0 /\ todo = 0 /\ timeout = 0 /\ ret = NoAnswer
  /\ before = [card |-> card, mem |-> mem] /\ calls = 0

Return(n) == st' = "idle" /\ ret' = n

Begin(op, s, n) ==
  /\ st = "idle" /\ calls < MaxCalls /\ calls' = calls + 1
  /\ call' = [op |-> op, start |-> s, cnt |-> n]
  /\ start' = s /\ todo' = n
  /\ UNCHANGED <<card, busy, timeout>>

(* A count of zero, and for a read a range past the end, is refused. *)
bread == \E s \in Starts, n \in Counts :
  /\ Begin("read", s, n)
  /\ IF n = 0 \/ (s + n) % Word > Lba THEN Return(0) ELSE st' = "blocklen" /\ ret' = NoAnswer
  /\ UNCHANGED mem /\ before' = [card |-> card, mem |-> mem]

bwrite == \E s \in Starts, n \in Counts :
  /\ Begin("write", s, n)
  /\ IF n = 0 THEN Return(0) ELSE st' = "blocklen" /\ ret' = NoAnswer
  /\ mem' \in Buffers
  /\ before' = [card |-> card, mem |-> mem']

berase == \E s \in Starts, n \in Counts :
  /\ Begin("write", s, n)
  /\ mem' = [i \in Buffer |-> IF i < n THEN Zeros ELSE mem[i]]
  /\ IF n = 0 THEN Return(0) ELSE st' = "blocklen" /\ ret' = NoAnswer
  /\ before' = [card |-> card, mem |-> mem']

SetBlocklen ==
  /\ st = "blocklen"
  /\ \/ st' = "transfer" /\ UNCHANGED ret
     \/ Return(0)
  /\ UNCHANGED <<card, busy, mem, call, start, todo, timeout, before, calls>>

Cur == IF todo > Bmax THEN Bmax ELSE todo
OffsetFixed == 0  \* every transfer uses the beginning of the buffer

Offset == call.cnt - todo  \* of src or dst, in blocks

(* The first k blocks of the transfer; the card has no block past its end. *)
Partial == {k \in 0 .. Cur : k = 0 \/ start + k <= Lba}
Written(k) == [b \in CardBlocks |->
                 IF b \in start .. start + k - 1 THEN mem[Offset + (b - start)] ELSE card[b]]
Fetched(k) == [i \in Buffer |->
                 IF i \in Offset .. Offset + k - 1
                 THEN card[start + (i - Offset)] ELSE mem[i]]

OnCard == start + Cur <= Lba

(* mmc_write_blocks checks the range of its own transfer. *)
RefuseWrite ==
  /\ st = "transfer" /\ call.op = "write" /\ (start + Cur) % Word > Lba
  /\ Return(0)
  /\ UNCHANGED <<card, busy, mem, call, start, todo, timeout, before, calls>>

write_blocks ==
  /\ st = "transfer" /\ call.op = "write" /\ (start + Cur) % Word <= Lba
  /\ \/ /\ OnCard
        /\ card' = Written(Cur) /\ st' = "status" /\ timeout' = Polls
        /\ UNCHANGED ret
     \/ /\ \E k \in Partial : card' = Written(k)
        /\ Return(0) /\ UNCHANGED timeout
  /\ busy' \in BOOLEAN
  /\ UNCHANGED <<mem, call, start, todo, before, calls>>

read_blocks ==
  /\ st = "transfer" /\ call.op = "read"
  /\ \/ /\ OnCard
        /\ mem' = Fetched(Cur) /\ timeout' = Polls
        /\ st' = IF Cur > 1 THEN "status" ELSE "next"
        /\ UNCHANGED ret
     \/ /\ \E k \in Partial : mem' = Fetched(k)
        /\ Return(0) /\ UNCHANGED timeout
  /\ UNCHANGED <<card, busy, call, start, todo, before, calls>>

(* mmc_send_status, whose answer nobody looks at: the command fails or the *)
(* status has an error bit; the card is ready; or it is not, and the loop  *)
(* goes on until timeout-- has been zero.                                  *)
StatusFails ==
  /\ st = "status"
  /\ st' = "next"
  /\ UNCHANGED <<card, busy, mem, call, start, todo, timeout, ret, before, calls>>

StatusReady ==
  /\ st = "status"
  /\ busy' = FALSE
  /\ st' = "next"
  /\ UNCHANGED <<card, mem, call, start, todo, timeout, ret, before, calls>>

StatusBusy ==
  /\ st = "status" /\ busy
  /\ IF timeout = 0 THEN st' = "next" ELSE UNCHANGED st
  /\ timeout' = timeout - 1
  /\ UNCHANGED <<card, busy, mem, call, start, todo, ret, before, calls>>

send_status == StatusFails \/ StatusReady \/ StatusBusy

NextTransferFull ==  \* a last transfer that is not full is dropped
  /\ st = "next"
  /\ todo' = todo - Cur /\ start' = (start + Cur) % Word
  /\ IF todo' >= Bmax THEN st' = "transfer" /\ UNCHANGED ret ELSE Return(call.cnt)
  /\ UNCHANGED <<card, busy, mem, call, timeout, before, calls>>

NextTransfer ==
  /\ st = "next"
  /\ todo' = todo - Cur /\ start' = (start + Cur) % Word
  /\ IF todo' > 0 THEN st' = "transfer" /\ UNCHANGED ret ELSE Return(call.cnt)
  /\ UNCHANGED <<card, busy, mem, call, timeout, before, calls>>

Step == SetBlocklen \/ RefuseWrite \/ write_blocks \/ read_blocks \/ send_status \/ NextTransfer

Next == bread \/ bwrite \/ berase \/ Step

Spec == Init /\ [][Next]_vars
-----------------------------------------------------------------------------
TypeOK ==
  /\ card \in [CardBlocks -> Values] /\ busy \in BOOLEAN
  /\ mem \in [Buffer -> Values]
  /\ st \in {"idle", "blocklen", "transfer", "status", "next"}
  /\ call \in [op : {"none", "read", "write"}, start : 0 .. Word - 1, cnt : 0 .. Word - 1]
  /\ start \in 0 .. Word - 1 /\ todo \in 0 .. call.cnt
  /\ timeout \in -1 .. Polls
  /\ ret \in {NoAnswer} \cup (0 .. Word - 1)
  /\ before \in [card : [CardBlocks -> Values], mem : [Buffer -> Values]]

(* The block that offset i of the request names. *)
BlockAt(i) == call.start + i

(* mmc.c:1194 and 1220: a call that returns a count has moved every block  *)
(* of the request, whatever the number of transfers.                       *)
AllTransferred ==
  st = "idle" /\ ret \notin {NoAnswer, 0} =>
    /\ ret = call.cnt
    /\ \A i \in 0 .. call.cnt - 1 :
         BlockAt(i) \in CardBlocks /\ mem[i] = card[BlockAt(i)]

PrefixWritten ==
  \E k \in 0 .. call.cnt :
    card = [b \in CardBlocks |->
              IF call.op = "write" /\ b \in call.start .. call.start + k - 1
              THEN before.mem[b - call.start] ELSE before.card[b]]

PrefixRead ==
  \E k \in 0 .. call.cnt :
    /\ k = 0 \/ call.start + k <= Lba
    /\ mem = [i \in Buffer |->
                IF call.op = "read" /\ i < k THEN before.card[BlockAt(i)] ELSE before.mem[i]]

(* mmc.c:1183 and 1209: at every step a write has changed a prefix of its  *)
(* blocks and nothing else on the card, and a read a prefix of its buffer, *)
(* whichever transfer fails and wherever the request ends.                 *)
PrefixMoved == PrefixWritten /\ PrefixRead

-----------------------------------------------------------------------------
(* mmc.c:230 "Waiting for the ready status": the next transfer starts, and *)
(* the call returns, when the card has programmed what it was given.       *)
ReadyBeforeNext == st = "next" /\ call.op = "write" => ~busy
=============================================================================
