--------------------------- MODULE BlockIOProofs ---------------------------
(***************************************************************************)
(* Proofs about the block layer, for every size of the card, of a transfer *)
(* and of a word, and for every place where a command may fail.            *)
(***************************************************************************)
EXTENDS BlockIO, TLAPS

(* The first k blocks of the request have been moved, and nothing else. *)
Moved(k) ==
  /\ card = [b \in CardBlocks |->
               IF call.op = "write" /\ b \in call.start .. call.start + k - 1
               THEN before.mem[b - call.start] ELSE before.card[b]]
  /\ mem = [i \in Buffer |->
              IF call.op = "read" /\ i < k THEN before.card[BlockAt(i)] ELSE before.mem[i]]
  /\ k = 0 \/ call.start + k <= Lba

(* The loop's start and blocks_todo say how far the request has come: a    *)
(* transfer that has gone through ended on the card, so start has not      *)
(* wrapped.                                                                *)
LoopInv ==
  /\ st # "idle" => todo > 0 /\ start = call.start + (call.cnt - todo)
  /\ st # "idle" \/ ret # NoAnswer => call.op \in {"read", "write"}
  /\ st = "status" => timeout \in 0 .. Polls

MovedInv ==
  /\ st \in {"blocklen", "transfer"} => Moved(call.cnt - todo)
  /\ st \in {"status", "next"} => Moved(call.cnt - todo + Cur)
  /\ st = "idle" => \E k \in 0 .. call.cnt : Moved(k)
  /\ st = "idle" /\ ret \notin {NoAnswer, 0} => ret = call.cnt /\ Moved(call.cnt)

IInv == TypeOK /\ LoopInv /\ MovedInv

USE SizeAssumption, BmaxAssumption, PollsAssumption, RangeAssumption, DataAssumption
-----------------------------------------------------------------------------
(* A step that moves nothing keeps what has been moved. *)
LEMMA MovedStays ==
  ASSUME NEW k, Moved(k), UNCHANGED <<card, mem, call, before>> PROVE Moved(k)'
BY DEF Moved, BlockAt

(* Nothing is moved when a call begins. *)
LEMMA NothingMoved ==
  ASSUME TypeOK', before' = [card |-> card', mem |-> mem'] PROVE Moved(0)'
<1> DEFINE C == [b \in CardBlocks |->
                   IF call'.op = "write" /\ b \in call'.start .. call'.start + 0 - 1
                   THEN before'.mem[b - call'.start] ELSE before'.card[b]]
           M == [i \in Buffer |->
                   IF call'.op = "read" /\ i < 0
                   THEN before'.card[call'.start + i] ELSE before'.mem[i]]
<1>1. before'.card = card' /\ before'.mem = mem' OBVIOUS
<1>2. call'.start \in Nat BY DEF TypeOK
<1>3. card' = C
  <2>1. card' = [b \in CardBlocks |-> card'[b]] BY DEF TypeOK
  <2>2. \A b \in CardBlocks : ~ (b \in call'.start .. call'.start + 0 - 1) BY <1>2 DEF CardBlocks
  <2> QED BY <1>1, <2>1, <2>2
<1>4. mem' = M
  <2>1. mem' = [i \in Buffer |-> mem'[i]] BY DEF TypeOK
  <2>2. \A i \in Buffer : ~ (i < 0) BY DEF Buffer
  <2> QED BY <1>1, <2>1, <2>2
<1> QED BY <1>3, <1>4 DEF Moved, BlockAt

(* A transfer of n blocks from the loop's start moves the next n blocks. *)
LEMMA MovedMore ==
  ASSUME TypeOK, LoopInv, st # "idle", Moved(call.cnt - todo),
         NEW n \in 0 .. Cur, n = 0 \/ start + n <= Lba,
         NEW k, k = call.cnt - todo + n,
         UNCHANGED <<call, before>>,
         \/ (call.op = "write" /\ card' = Written(n) /\ mem' = mem)
         \/ (call.op = "read" /\ mem' = Fetched(n) /\ card' = card)
  PROVE  Moved(k)'
<1> DEFINE d == call.cnt - todo
<1>0. /\ call.start \in Nat /\ d \in Nat /\ n \in Nat /\ k = d + n
      /\ start = call.start + d /\ d + n <= call.cnt /\ call.cnt \in 0 .. Word - 1
  BY DEF TypeOK, LoopInv, Cur
<1>1. k = 0 \/ call.start + k <= Lba BY <1>0 DEF Moved
<1>2. CASE call.op = "write"
  <2>1. mem' = mem /\ card' = Written(n) BY <1>2
  <2>2. mem = [i \in Buffer |-> before.mem[i]] BY <1>2 DEF Moved
  <2>3. ASSUME NEW b \in CardBlocks
        PROVE  Written(n)[b] = IF b \in call.start .. call.start + k - 1
                               THEN before.mem[b - call.start] ELSE before.card[b]
    <3>1. b \in 0 .. Lba - 1 BY DEF CardBlocks
    <3>2. CASE b \in start .. start + n - 1
      <4>1. Written(n)[b] = mem[d + (b - start)] BY <3>2 DEF Written, Offset
      <4>2. d + (b - start) = b - call.start BY <1>0, <3>1
      <4>3. b - call.start \in 0 .. Word - 1
        <5> HIDE DEF d
        <5>1. Lba < Word /\ Word \in Nat /\ Lba \in Nat OBVIOUS
        <5>2. b >= call.start /\ b - call.start \in Nat BY <1>0, <3>1, <3>2
        <5> QED BY <5>1, <5>2, <3>1, <1>0
      <4>4. b \in call.start .. call.start + k - 1 BY <1>0, <3>1, <3>2
      <4>5. mem[b - call.start] = before.mem[b - call.start] BY <4>3, <2>2 DEF Buffer
      <4> QED BY <4>1, <4>2, <4>4, <4>5
    <3>3. CASE b \notin start .. start + n - 1
      <4>1. Written(n)[b] = card[b] BY <3>3 DEF Written
      <4>2. b \in call.start .. call.start + k - 1 <=> b \in call.start .. call.start + d - 1
        BY <1>0, <3>1, <3>3
      <4>3. card[b] = IF b \in call.start .. call.start + d - 1
                      THEN before.mem[b - call.start] ELSE before.card[b]
        BY <1>2 DEF Moved
      <4> QED BY <4>1, <4>2, <4>3
    <3> QED BY <3>2, <3>3
  <2>4. Written(n) = [b \in CardBlocks |-> Written(n)[b]] BY DEF Written
  <2>5. card' = [b \in CardBlocks |-> IF b \in call.start .. call.start + k - 1
                                      THEN before.mem[b - call.start] ELSE before.card[b]]
    BY <2>1, <2>3, <2>4
  <2>6. mem' = [i \in Buffer |-> IF call.op = "read" /\ i < k
                                 THEN before.card[call.start + i] ELSE before.mem[i]]
    BY <2>1, <2>2, <1>2
  <2> QED BY <1>1, <1>2, <2>5, <2>6 DEF Moved, BlockAt
<1>3. CASE call.op = "read"
  <2>1. card' = card /\ mem' = Fetched(n) BY <1>3
  <2>2. card = [b \in CardBlocks |-> before.card[b]] BY <1>3 DEF Moved
  <2>3. ASSUME NEW i \in Buffer
        PROVE  Fetched(n)[i] = IF i < k THEN before.card[call.start + i] ELSE before.mem[i]
    <3>1. i \in 0 .. Word - 1 BY DEF Buffer
    <3>2. CASE i \in d .. d + n - 1
      <4>1. Fetched(n)[i] = card[start + (i - d)] BY <3>2 DEF Fetched, Offset
      <4>2. start + (i - d) = call.start + i BY <1>0, <3>1
      <4>3. call.start + i \in 0 .. Lba - 1
        <5>1. k # 0 /\ i < k BY <1>0, <3>1, <3>2
        <5>2. call.start + k <= Lba BY <1>1, <5>1
        <5> HIDE DEF d
        <5>3. Lba \in Nat /\ k \in Nat BY <1>0
        <5> QED BY <5>1, <5>2, <5>3, <1>0, <3>1
      <4>4. i < k BY <1>0, <3>1, <3>2
      <4>5. card[call.start + i] = before.card[call.start + i] BY <4>3, <2>2 DEF CardBlocks
      <4> QED BY <4>1, <4>2, <4>4, <4>5
    <3>3. CASE i \notin d .. d + n - 1
      <4>1. Fetched(n)[i] = mem[i] BY <3>3 DEF Fetched, Offset
      <4>2. i < k <=> i < d BY <1>0, <3>1, <3>3
      <4>3. mem[i] = IF i < d THEN before.card[call.start + i] ELSE before.mem[i]
        BY <1>3 DEF Moved, BlockAt
      <4> QED BY <4>1, <4>2, <4>3
    <3> QED BY <3>2, <3>3
  <2>4. Fetched(n) = [i \in Buffer |-> Fetched(n)[i]] BY DEF Fetched
  <2>5. mem' = [i \in Buffer |-> IF i < k THEN before.card[call.start + i] ELSE before.mem[i]]
    BY <2>1, <2>3, <2>4
  <2>6. card' = [b \in CardBlocks |-> IF call.op = "write" /\ b \in call.start .. call.start + k - 1
                                      THEN before.mem[b - call.start] ELSE before.card[b]]
    BY <2>1, <2>2, <1>3
  <2> QED BY <1>1, <1>3, <2>5, <2>6 DEF Moved, BlockAt
<1> QED BY <1>2, <1>3
-----------------------------------------------------------------------------
LEMMA BlockInit == Init => IInv
<1> SUFFICES ASSUME Init PROVE IInv OBVIOUS
<1>1. TypeOK
  <2>1. Word \in Nat /\ Word > 0 OBVIOUS
  <2>2. card \in [CardBlocks -> Values] /\ mem \in [Buffer -> Values] BY DEF Init
  <2>3. call \in [op : {"none", "read", "write"}, start : 0 .. Word - 1, cnt : 0 .. Word - 1]
    BY <2>1 DEF Init
  <2>4. before \in [card : [CardBlocks -> Values], mem : [Buffer -> Values]] BY <2>2 DEF Init
  <2>5. start \in 0 .. Word - 1 /\ todo \in 0 .. call.cnt /\ timeout \in -1 .. Polls BY <2>1 DEF Init
  <2> QED BY <2>2, <2>3, <2>4, <2>5 DEF Init, TypeOK, NoAnswer
<1>2. LoopInv BY DEF Init, LoopInv
<1>3. Moved(0)
  <2>1. /\ card \in [CardBlocks -> Values] /\ mem \in [Buffer -> Values]
        /\ before.card = card /\ before.mem = mem /\ call.op = "none"
    BY DEF Init
  <2>2. card = [b \in CardBlocks |-> before.card[b]] /\ mem = [i \in Buffer |-> before.mem[i]] BY <2>1
  <2> QED BY <2>1, <2>2 DEF Moved
<1>4. MovedInv BY <1>3 DEF Init, MovedInv
<1> QED BY <1>1, <1>2, <1>4 DEF IInv

LEMMA BlockType == TypeOK /\ LoopInv /\ [Next]_vars => TypeOK'
<1> SUFFICES ASSUME TypeOK, LoopInv, [Next]_vars PROVE TypeOK' OBVIOUS
<1> USE DEF TypeOK, Return, NoAnswer
<1>0. ASSUME st # "idle" PROVE Cur \in 1 .. todo /\ todo \in 1 .. call.cnt BY <1>0 DEF LoopInv, Cur
<1>1. CASE bread BY <1>1 DEF bread, Begin
<1>2. CASE bwrite BY <1>2 DEF bwrite, Begin
<1>3. CASE berase
  <2>1. mem' \in [Buffer -> Values] BY <1>3 DEF berase
  <2> QED BY <1>3, <2>1 DEF berase, Begin
<1>4. CASE SetBlocklen BY <1>4 DEF SetBlocklen
<1>5. CASE RefuseWrite BY <1>5 DEF RefuseWrite
<1>6. CASE write_blocks
  <2>1. ASSUME NEW k \in 0 .. Cur PROVE Written(k) \in [CardBlocks -> Values]
    <3>1. SUFFICES ASSUME NEW b \in CardBlocks, b \in start .. start + k - 1
                   PROVE  Offset + (b - start) \in Buffer
      BY DEF Written
    <3>2. Cur \in 1 .. todo /\ todo \in 1 .. call.cnt /\ call.cnt \in 0 .. Word - 1
      BY <1>0, <1>6 DEF write_blocks
    <3>3. b - start \in 0 .. k - 1 /\ k <= todo BY <3>1, <3>2 DEF CardBlocks
    <3> QED BY <3>2, <3>3 DEF Offset, Buffer
  <2>2. card' \in [CardBlocks -> Values]
    BY <1>0, <1>6, <2>1 DEF write_blocks, Partial
  <2> QED BY <1>6, <2>2 DEF write_blocks
<1>7. CASE read_blocks
  <2>1. ASSUME NEW k \in 0 .. Cur, k = 0 \/ start + k <= Lba PROVE Fetched(k) \in [Buffer -> Values]
    <3>1. SUFFICES ASSUME NEW i \in Buffer, i \in Offset .. Offset + k - 1
                   PROVE  start + (i - Offset) \in CardBlocks
      BY DEF Fetched
    <3> QED BY <1>0, <1>7, <2>1, <3>1, SMTT(40) DEF Offset, Buffer, CardBlocks, read_blocks
  <2>2. mem' \in [Buffer -> Values]
    BY <1>0, <1>7, <2>1 DEF read_blocks, Partial, OnCard
  <2> QED BY <1>7, <2>2 DEF read_blocks
<1>8. CASE send_status
  <2>1. /\ card' = card /\ mem' = mem /\ call' = call /\ start' = start /\ todo' = todo
        /\ ret' = ret /\ before' = before
    BY <1>8 DEF send_status, StatusFails, StatusReady, StatusBusy
  <2>2. timeout' \in -1 .. Polls
    BY <1>8 DEF send_status, StatusFails, StatusReady, StatusBusy, LoopInv
  <2>3. busy' \in BOOLEAN
    BY <1>8 DEF send_status, StatusFails, StatusReady, StatusBusy
  <2>4. st' \in {"status", "next"}
    BY <1>8 DEF send_status, StatusFails, StatusReady, StatusBusy
  <2> QED BY <2>1, <2>2, <2>3, <2>4
<1>9. CASE NextTransfer BY <1>0, <1>9 DEF NextTransfer
<1>10. CASE UNCHANGED vars BY <1>10 DEF vars
<1> QED BY <1>1, <1>2, <1>3, <1>4, <1>5, <1>6, <1>7, <1>8, <1>9, <1>10 DEF Next, Step

LEMMA LoopNext == TypeOK /\ LoopInv /\ MovedInv /\ [Next]_vars => LoopInv'
<1> SUFFICES ASSUME TypeOK, LoopInv, MovedInv, [Next]_vars PROVE LoopInv' OBVIOUS
<1> USE DEF LoopInv, Return, TypeOK, NoAnswer
<1>1. CASE bread BY <1>1 DEF bread, Begin
<1>2. CASE bwrite BY <1>2 DEF bwrite, Begin
<1>3. CASE berase BY <1>3 DEF berase, Begin
<1>4. CASE SetBlocklen BY <1>4 DEF SetBlocklen
<1>5. CASE RefuseWrite BY <1>5 DEF RefuseWrite
<1>6. CASE write_blocks BY <1>6 DEF write_blocks
<1>7. CASE read_blocks BY <1>7 DEF read_blocks
<1>8. CASE send_status BY <1>8 DEF send_status, StatusFails, StatusReady, StatusBusy
<1>9. CASE NextTransfer
  <2>1. /\ st = "next" /\ call' = call /\ timeout' = timeout /\ todo' = todo - Cur
        /\ start' = (start + Cur) % Word /\ ((st' = "transfer" /\ todo' > 0) \/ st' = "idle")
    BY <1>9 DEF NextTransfer
  <2>2. call.start + (call.cnt - todo) + Cur <= Lba
    BY <2>1 DEF MovedInv, Moved, Cur
  <2>3. Cur \in Nat /\ start + Cur \in 0 .. Word - 1 BY <2>1, <2>2 DEF Cur
  <2>4. (start + Cur) % Word = start + Cur BY <2>3
  <2> QED BY <2>1, <2>3, <2>4
<1>10. CASE UNCHANGED vars BY <1>10 DEF vars
<1> QED BY <1>1, <1>2, <1>3, <1>4, <1>5, <1>6, <1>7, <1>8, <1>9, <1>10 DEF Next, Step

LEMMA MovedNext == TypeOK /\ TypeOK' /\ LoopInv /\ MovedInv /\ [Next]_vars => MovedInv'
<1> SUFFICES ASSUME TypeOK, TypeOK', LoopInv, MovedInv, [Next]_vars PROVE MovedInv' OBVIOUS
<1>a. ASSUME \E s \in Starts, n \in Counts : Begin("read", s, n) \/ Begin("write", s, n),
             before' = [card |-> card', mem |-> mem'],
             st' = "blocklen" \/ (st' = "idle" /\ ret' = 0)
      PROVE  MovedInv'
  <2>1. Moved(0)' BY <1>a, NothingMoved
  <2>2. call'.cnt \in Nat /\ todo' = call'.cnt BY <1>a DEF Begin
  <2>3. call'.cnt - todo' = 0 /\ 0 \in 0 .. call'.cnt BY <2>2
  <2> QED BY <1>a, <2>1, <2>3 DEF MovedInv
<1>b. ASSUME st # "idle" PROVE /\ Cur \in 1 .. todo /\ todo \in 1 .. call.cnt /\ call.cnt \in Nat
                               /\ call.cnt - todo + Cur \in 0 .. call.cnt
  BY <1>b DEF TypeOK, LoopInv, Cur
<1>1. CASE bread
  <2>1. card' = card BY <1>1 DEF bread, Begin
  <2>2. \E s \in Starts, n \in Counts : Begin("read", s, n) BY <1>1 DEF bread
  <2>3. before' = [card |-> card', mem |-> mem'] BY <1>1, <2>1 DEF bread
  <2>4. st' = "blocklen" \/ (st' = "idle" /\ ret' = 0) BY <1>1 DEF bread, Return
  <2> QED BY <1>a, <2>2, <2>3, <2>4
<1>2. CASE bwrite
  <2>1. card' = card BY <1>2 DEF bwrite, Begin
  <2>2. \E s \in Starts, n \in Counts : Begin("write", s, n) BY <1>2 DEF bwrite
  <2>3. before' = [card |-> card', mem |-> mem'] BY <1>2, <2>1 DEF bwrite
  <2>4. st' = "blocklen" \/ (st' = "idle" /\ ret' = 0) BY <1>2 DEF bwrite, Return
  <2> QED BY <1>a, <2>2, <2>3, <2>4
<1>3. CASE berase
  <2>1. card' = card BY <1>3 DEF berase, Begin
  <2>2. \E s \in Starts, n \in Counts : Begin("write", s, n) BY <1>3 DEF berase
  <2>3. before' = [card |-> card', mem |-> mem'] BY <1>3, <2>1 DEF berase
  <2>4. st' = "blocklen" \/ (st' = "idle" /\ ret' = 0) BY <1>3 DEF berase, Return
  <2> QED BY <1>a, <2>2, <2>3, <2>4
<1>c. ASSUME NEW k \in 0 .. call.cnt, Moved(k)', call' = call, st' = "idle", ret' = 0 PROVE MovedInv'
  BY <1>c DEF MovedInv
<1>d. ASSUME NEW k, k = call.cnt - todo + Cur, Moved(k)', st' \in {"status", "next"},
             UNCHANGED <<call, todo>>
      PROVE  MovedInv'
  <2>1. k = call'.cnt - todo' + Cur' BY <1>d DEF Cur
  <2> QED BY <1>d, <2>1 DEF MovedInv
<1>4. CASE SetBlocklen
  <2>1. st = "blocklen" /\ UNCHANGED <<card, mem, call, todo, before>> BY <1>4 DEF SetBlocklen
  <2>2. Moved(call.cnt - todo) BY <2>1 DEF MovedInv
  <2> QED BY <1>4, <1>b, <1>c, <2>1, <2>2, MovedStays DEF SetBlocklen, Return, MovedInv
<1>5. CASE RefuseWrite
  <2>1. st = "transfer" /\ UNCHANGED <<card, mem, call, todo, before>> BY <1>5 DEF RefuseWrite
  <2>2. Moved(call.cnt - todo) BY <2>1 DEF MovedInv
  <2> QED BY <1>5, <1>b, <1>c, <2>1, <2>2, MovedStays DEF RefuseWrite, Return
<1>e. ASSUME st = "transfer", NEW n \in 0 .. Cur, n = 0 \/ start + n <= Lba,
             UNCHANGED <<call, before>>,
             \/ (call.op = "write" /\ card' = Written(n) /\ mem' = mem)
             \/ (call.op = "read" /\ mem' = Fetched(n) /\ card' = card)
      PROVE  \E k \in 0 .. call.cnt : k = call.cnt - todo + n /\ Moved(k)'
  <2>1. Moved(call.cnt - todo) BY <1>e DEF MovedInv
  <2>2. \A k : k = call.cnt - todo + n => Moved(k)' BY <1>e, <2>1, MovedMore
  <2> QED BY <1>b, <1>e, <2>2
<1>6. CASE write_blocks
  <2>1. st = "transfer" /\ call.op = "write" /\ UNCHANGED <<mem, call, todo, before>>
    BY <1>6 DEF write_blocks
  <2>2. CASE OnCard /\ card' = Written(Cur) /\ st' = "status"
    <3>1. \E k : k = call.cnt - todo + Cur /\ Moved(k)' BY <1>b, <1>e, <2>1, <2>2 DEF OnCard
    <3> QED BY <3>1, <1>d, <2>1, <2>2
  <2>3. ASSUME NEW n \in Partial, card' = Written(n), st' = "idle", ret' = 0 PROVE MovedInv'
    BY <1>c, <1>e, <2>1, <2>3 DEF Partial
  <2> QED BY <1>6, <2>2, <2>3 DEF write_blocks, Return
<1>7. CASE read_blocks
  <2>1. st = "transfer" /\ call.op = "read" /\ UNCHANGED <<card, call, todo, before>>
    BY <1>7 DEF read_blocks
  <2>2. CASE OnCard /\ mem' = Fetched(Cur) /\ st' \in {"status", "next"}
    <3>1. \E k : k = call.cnt - todo + Cur /\ Moved(k)' BY <1>b, <1>e, <2>1, <2>2 DEF OnCard
    <3> QED BY <3>1, <1>d, <2>1, <2>2
  <2>3. ASSUME NEW n \in Partial, mem' = Fetched(n), st' = "idle", ret' = 0 PROVE MovedInv'
    BY <1>c, <1>e, <2>1, <2>3 DEF Partial
  <2> QED BY <1>7, <2>2, <2>3 DEF read_blocks, Return
<1>8. CASE send_status
  <2>1. st = "status" /\ UNCHANGED <<card, mem, call, todo, before>> /\ st' \in {"status", "next"}
    BY <1>8 DEF send_status, StatusFails, StatusReady, StatusBusy
  <2>2. Moved(call.cnt - todo + Cur) BY <2>1 DEF MovedInv
  <2>3. \E k : k = call.cnt - todo + Cur /\ Moved(k)' BY <2>1, <2>2, MovedStays
  <2> QED BY <1>d, <2>1, <2>3
<1>9. CASE NextTransfer
  <2>1. st = "next" /\ UNCHANGED <<card, mem, call, before>> /\ todo' = todo - Cur
    BY <1>9 DEF NextTransfer
  <2>2. PICK k \in 0 .. call.cnt : k = call.cnt - todo + Cur /\ Moved(k)'
    BY <1>b, <2>1, MovedStays DEF MovedInv
  <2>3. k = call'.cnt - todo' /\ todo' \in Nat BY <1>b, <2>1, <2>2
  <2>4. CASE todo' > 0
    <3>1. st' = "transfer" BY <1>9, <2>4 DEF NextTransfer
    <3> QED BY <2>2, <2>3, <3>1 DEF MovedInv
  <2>5. CASE ~ (todo' > 0)
    <3>1. st' = "idle" /\ ret' = call.cnt BY <1>9, <2>5 DEF NextTransfer, Return
    <3>2. k = call'.cnt BY <2>1, <2>3, <2>5, <1>b
    <3> QED BY <2>1, <2>2, <3>1, <3>2 DEF MovedInv
  <2> QED BY <2>4, <2>5
<1>10. CASE UNCHANGED vars
  <2>1. UNCHANGED <<card, mem, st, call, todo, ret, before>> BY <1>10 DEF vars
  <2>2. \A k : Moved(k) => Moved(k)' BY <2>1, MovedStays
  <2> QED BY <2>1, <2>2 DEF MovedInv, Cur
<1> QED BY <1>1, <1>2, <1>3, <1>4, <1>5, <1>6, <1>7, <1>8, <1>9, <1>10 DEF Next, Step

LEMMA BlockNext == IInv /\ [Next]_vars => IInv'
BY BlockType, LoopNext, MovedNext DEF IInv
-----------------------------------------------------------------------------
(* mmc.c:1183 and 1209: whichever transfer of a request fails, what the    *)
(* card or the buffer has of it is a prefix, and nothing else has changed. *)
THEOREM MovedIsPrefix == Spec => [](TypeOK /\ PrefixMoved)
<1>1. IInv => PrefixMoved
  <2> SUFFICES ASSUME IInv PROVE PrefixMoved OBVIOUS
  <2>1. \E k \in 0 .. call.cnt : Moved(k)
    <3>1. CASE st = "idle" BY <3>1 DEF IInv, MovedInv
    <3>2. CASE st # "idle"
      <4>1. st \in {"blocklen", "transfer", "status", "next"} BY <3>2 DEF IInv, TypeOK
      <4>2. /\ call.cnt - todo \in 0 .. call.cnt
            /\ call.cnt - todo + Cur \in 0 .. call.cnt
        BY <3>2 DEF IInv, TypeOK, LoopInv, Cur
      <4> QED BY <4>1, <4>2 DEF IInv, MovedInv
    <3> QED BY <3>1, <3>2
  <2> QED BY <2>1 DEF Moved, PrefixMoved, PrefixWritten, PrefixRead
<1> QED BY <1>1, BlockInit, BlockNext, PTL DEF Spec, IInv

(* mmc.c:1194 and 1220: a call that returns a count has moved all of its   *)
(* blocks, and they were on the card, also when start + blkcnt has wrapped *)
(* round in the check of the range.                                        *)
THEOREM CountIsMoved == Spec => []AllTransferred
<1>1. IInv => AllTransferred
  <2> SUFFICES ASSUME IInv, st = "idle", ret \notin {NoAnswer, 0},
                      NEW i \in 0 .. call.cnt - 1
               PROVE  BlockAt(i) \in CardBlocks /\ mem[i] = card[BlockAt(i)]
    BY DEF AllTransferred, IInv, MovedInv
  <2>1. Moved(call.cnt) BY DEF IInv, MovedInv
  <2>2. call.start \in Nat /\ call.cnt \in 0 .. Word - 1 BY DEF IInv, TypeOK
  <2>3. call.start + call.cnt <= Lba BY <2>1, <2>2 DEF Moved
  <2>4. BlockAt(i) \in CardBlocks /\ i \in Buffer BY <2>2, <2>3 DEF BlockAt, CardBlocks, Buffer
  <2>5. mem[i] = card[BlockAt(i)]
    <3>1. CASE call.op = "write"
      <4>1. BlockAt(i) \in call.start .. call.start + call.cnt - 1 /\ BlockAt(i) - call.start = i
        BY <2>2 DEF BlockAt
      <4> QED BY <3>1, <2>1, <2>4, <4>1 DEF Moved
    <3>2. CASE call.op = "read"
      <4>1. mem[i] = before.card[BlockAt(i)] BY <3>2, <2>1, <2>2, <2>4 DEF Moved
      <4>2. card[BlockAt(i)] = before.card[BlockAt(i)] BY <3>2, <2>1, <2>4 DEF Moved
      <4> QED BY <4>1, <4>2
    <3> QED BY <3>1, <3>2 DEF IInv, LoopInv
  <2> QED BY <2>4, <2>5
<1> QED BY <1>1, BlockInit, BlockNext, PTL DEF Spec
=============================================================================
