-------------------------- MODULE SunxiMmcProofs --------------------------
(***************************************************************************)
(* Proofs about the host driver, for data of every length, a FIFO of every *)
(* depth and loops of every length, whatever the controller does, as long  *)
(* as it raises an error for a FIFO that stalls; and, without that         *)
(* condition, about the clock it gives the card.                           *)
(***************************************************************************)
EXTENDS SunxiMmc, SequenceTheorems, TLAPS

Quiet == {"idle", "clkOff", "clkOn"}
Active == {"move", "cmd", "data", "busy", "response"}

Kinds == {"none", "read", "write"}
Tokens == Nat \X Nat

DriverTyped ==
  /\ st \in Quiet \cup Active \cup {"start", "out"}
  /\ cmd \in [id : Nat, data : Kinds, multi : BOOLEAN, busy : BOOLEAN, aligned : BOOLEAN]
  /\ n \in Nat /\ i \in 0 .. Words

ControllerTyped ==
  ctl \in [id : Nat, data : Kinds, multi : BOOLEAN, moved : Nat, done : BOOLEAN, failed : BOOLEAN]

WordsTyped ==
  fifo \in Seq(Tokens) /\ cards \in Seq(Tokens) /\ buff \in [1 .. Words -> Tokens]

Typed == DriverTyped /\ ControllerTyped /\ WordsTyped

(* What the status bits of a command that runs say of the controller. *)
BitsInv ==
  st \in Active =>
    /\ ctl.id \in {0, cmd.id}
    /\ ctl.id # 0 => ctl.data = cmd.data /\ ctl.multi = cmd.multi
    /\ "done" \in rint => resp0 = cmd.id /\ (cmd.data = "none" => ctl.id = 0)
    /\ "over" \in rint /\ ~ cmd.multi => ctl.id = 0
    /\ "auto" \in rint => ctl.id = 0 /\ "over" \in rint

(* Where the driver is, and what it has seen to get there. *)
PlaceInv ==
  /\ st \in Quiet \cup {"start"} => ctl.id = 0 /\ fifo = <<>> /\ rint = {}
  /\ st \notin Quiet => cmd.id # 0
  /\ st \in Active \cup {"start"} => ~ error
  /\ st \in {"move", "data"} => cmd.data # "none"
  /\ st \in {"data", "busy", "response"} => "done" \in rint
  /\ st \in {"busy", "response"} => ctl.id = 0 /\ (cmd.data # "none" => "over" \in rint)
  /\ st = "out" /\ ~ error => ctl.id = 0 /\ response = cmd.id
  /\ st \in Quiet /\ cmd.id # 0 /\ ret = "ok" => response = cmd.id

ControlInv == BitsInv /\ PlaceInv
-----------------------------------------------------------------------------
(* Where the words of a command are: read from the card, words 1 to i are  *)
(* in the buffer and those after i in the FIFO.                            *)
ReadInv ==
  st \in Active /\ cmd.data = "read" =>
    /\ \A k \in 1 .. i : buff[k] = <<cmd.id, k>>
    /\ \A k \in 1 .. Len(fifo) : fifo[k] = <<cmd.id, i + k>>
    /\ ctl.id # 0 => ctl.moved = i + Len(fifo)

(* Written to it, the first are on the card and the others, up to i, in    *)
(* the FIFO.                                                               *)
WriteInv ==
  st \in Active /\ cmd.data = "write" =>
    /\ \A k \in 1 .. Len(cards) : cards[k] = <<cmd.id, k>>
    /\ \A k \in 1 .. Len(fifo) : fifo[k] = <<cmd.id, Len(cards) + k>>
    /\ Len(cards) + Len(fifo) = i
    /\ ctl.id # 0 => ctl.moved = Len(cards)
    /\ "over" \in rint => Len(cards) = Words

Delivered ==
  /\ cmd.data = "read" => \A k \in 1 .. Words : buff[k] = <<cmd.id, k>>
  /\ cmd.data = "write" => cards = [k \in 1 .. Words |-> <<cmd.id, k>>]

DeliveredInv ==
  /\ st = "start" => i = 0
  /\ st \in Active \ {"move"} /\ cmd.data # "none" => i = Words
  /\ st = "out" /\ ~ error => Delivered
  /\ st \in Quiet /\ cmd.id # 0 /\ ret = "ok" => Delivered

DataInv == ReadInv /\ WriteInv /\ DeliveredInv

IInv == Typed /\ ControlInv /\ DataInv
USE WordsAssumption DEF Quiet, Active, Kinds
-----------------------------------------------------------------------------
(* A FIFO that gets a word, and one that gives one. *)
LEMMA Appended ==
  ASSUME NEW s \in Seq(Tokens), NEW w \in Tokens
  PROVE  /\ Append(s, w) \in Seq(Tokens) /\ Len(Append(s, w)) = Len(s) + 1
         /\ \A k \in 1 .. Len(s) : Append(s, w)[k] = s[k]
         /\ Append(s, w)[Len(s) + 1] = w
BY AppendProperties

LEMMA Taken ==
  ASSUME NEW s \in Seq(Tokens), s # <<>>
  PROVE  /\ Head(s) \in Tokens /\ Tail(s) \in Seq(Tokens)
         /\ Len(s) \in Nat \ {0} /\ Len(Tail(s)) = Len(s) - 1
         /\ Head(s) = s[1] /\ \A k \in 1 .. Len(s) - 1 : Tail(s)[k] = s[k + 1]
BY HeadTailProperties, EmptySeq, LenProperties

LEMMA TypedInit == Init => Typed
<1> SUFFICES ASSUME Init PROVE Typed OBVIOUS
<1>1. DriverTyped BY DEF Init, DriverTyped, NoCmd
<1>2. ControllerTyped BY DEF Init, ControllerTyped, Idle
<1>3. WordsTyped BY EmptySeq DEF Init, WordsTyped, NoBuffer, Tokens
<1> QED BY <1>1, <1>2, <1>3 DEF Typed

LEMMA DriverTypedNext == DriverTyped /\ [Next]_vars => DriverTyped'
<1> SUFFICES ASSUME DriverTyped, [Next]_vars PROVE DriverTyped' OBVIOUS
<1> USE DEF DriverTyped, driver
<1>1. CASE Command BY <1>1 DEF Command, SendCmd, NoCmd
<1>2. CASE BusyCommand BY <1>2 DEF BusyCommand, SendCmd
<1>3. CASE DataCommand BY <1>3 DEF DataCommand, SendCmd
<1>4. CASE StopTransmission BY <1>4 DEF StopTransmission, NoCmd
<1>5. CASE SetIos BY <1>5 DEF SetIos
<1>6. CASE Start BY <1>6 DEF Start
<1>7. CASE MoveWord BY <1>7 DEF MoveWord
<1>8. CASE MoveWait BY <1>8 DEF MoveWait
<1>9. CASE MoveTimeout BY <1>9 DEF MoveTimeout
<1>10. CASE Moved BY <1>10 DEF Moved
<1>11. CASE RintError BY <1>11 DEF RintError
<1>12. CASE RintWait BY <1>12 DEF RintWait
<1>13. CASE RintDone BY <1>13 DEF RintDone
<1>14. CASE BusyWait BY <1>14 DEF BusyWait
<1>15. CASE ReadResponse BY <1>15 DEF ReadResponse
<1>16. CASE Out BY <1>16 DEF Out
<1>17. CASE SetModClk BY <1>17 DEF SetModClk
<1>18. CASE ClockOn BY <1>18 DEF ClockOn
<1>19. CASE CommandDone BY <1>19 DEF CommandDone
<1>20. CASE WordFromCard BY <1>20 DEF WordFromCard
<1>21. CASE WordToCard BY <1>21 DEF WordToCard
<1>22. CASE DataOver BY <1>22 DEF DataOver
<1>23. CASE AutoStopDone BY <1>23 DEF AutoStopDone
<1>24. CASE Fault BY <1>24 DEF Fault
<1>25. CASE UNCHANGED vars BY <1>25 DEF vars
<1> QED
  BY <1>1, <1>2, <1>3, <1>4, <1>5, <1>6, <1>7, <1>8, <1>9, <1>10, <1>11, <1>12, <1>13, <1>14,
           <1>15, <1>16, <1>17, <1>18, <1>19, <1>20, <1>21, <1>22, <1>23, <1>24, <1>25
        DEF Next, Driver, Controller

LEMMA ControllerTypedNext == ControllerTyped /\ DriverTyped /\ [Next]_vars => ControllerTyped'
<1> SUFFICES ASSUME ControllerTyped, DriverTyped, [Next]_vars PROVE ControllerTyped' OBVIOUS
<1> USE DEF ControllerTyped, hw
<1>1. CASE Command BY <1>1 DEF Command, SendCmd, NoCmd
<1>2. CASE BusyCommand BY <1>2 DEF BusyCommand, SendCmd
<1>3. CASE DataCommand BY <1>3 DEF DataCommand, SendCmd
<1>4. CASE StopTransmission BY <1>4 DEF StopTransmission, NoCmd
<1>5. CASE SetIos BY <1>5 DEF SetIos
<1>6. CASE Start BY <1>6 DEF Start, Idle, DriverTyped
<1>7. CASE MoveWord BY <1>7 DEF MoveWord
<1>8. CASE MoveWait BY <1>8 DEF MoveWait
<1>9. CASE MoveTimeout BY <1>9 DEF MoveTimeout
<1>10. CASE Moved BY <1>10 DEF Moved
<1>11. CASE RintError BY <1>11 DEF RintError
<1>12. CASE RintWait BY <1>12 DEF RintWait
<1>13. CASE RintDone BY <1>13 DEF RintDone
<1>14. CASE BusyWait BY <1>14 DEF BusyWait
<1>15. CASE ReadResponse BY <1>15 DEF ReadResponse
<1>16. CASE Out BY <1>16 DEF Out, Idle
<1>17. CASE SetModClk BY <1>17 DEF SetModClk
<1>18. CASE ClockOn BY <1>18 DEF ClockOn
<1>19. CASE CommandDone BY <1>19 DEF CommandDone, Idle
<1>20. CASE WordFromCard BY <1>20 DEF WordFromCard
<1>21. CASE WordToCard BY <1>21, SMTT(40) DEF WordToCard
<1>22. CASE DataOver BY <1>22 DEF DataOver, Idle
<1>23. CASE AutoStopDone BY <1>23 DEF AutoStopDone, Idle
<1>24. CASE Fault BY <1>24 DEF Fault
<1>25. CASE UNCHANGED vars BY <1>25 DEF vars
<1> QED
  BY <1>1, <1>2, <1>3, <1>4, <1>5, <1>6, <1>7, <1>8, <1>9, <1>10, <1>11, <1>12, <1>13, <1>14,
           <1>15, <1>16, <1>17, <1>18, <1>19, <1>20, <1>21, <1>22, <1>23, <1>24, <1>25
        DEF Next, Driver, Controller

LEMMA WordsTypedNext == Typed /\ [Next]_vars => WordsTyped'
<1> SUFFICES ASSUME Typed, [Next]_vars PROVE WordsTyped' OBVIOUS
<1> USE DEF WordsTyped, hw, driver
<1>0. <<>> \in Seq(Tokens) /\ NoBuffer \in [1 .. Words -> Tokens]
  BY EmptySeq DEF NoBuffer, Tokens
<1> HIDE DEF Tokens
<1>a. WordsTyped BY DEF Typed
<1>1. CASE Command BY <1>a, <1>0, <1>1 DEF Command, SendCmd, NoCmd
<1>2. CASE BusyCommand BY <1>a, <1>0, <1>2 DEF BusyCommand, SendCmd
<1>3. CASE DataCommand BY <1>a, <1>0, <1>3 DEF DataCommand, SendCmd
<1>4. CASE StopTransmission BY <1>a, <1>0, <1>4 DEF StopTransmission, NoCmd
<1>5. CASE SetIos BY <1>a, <1>0, <1>5 DEF SetIos
<1>6. CASE Start BY <1>a, <1>0, <1>6 DEF Start
<1>7. CASE MoveWord
  <2>1. CASE cmd.data = "read"
    <3>1. fifo # <<>> BY <1>7, <2>1 DEF MoveWord, FifoReady
    <3>2. Head(fifo) \in Tokens /\ Tail(fifo) \in Seq(Tokens) BY <1>a, <3>1, Taken
    <3>3. buff' = [buff EXCEPT ![i + 1] = Head(fifo)] /\ fifo' = Tail(fifo) /\ cards' = cards
      BY <1>7, <2>1 DEF MoveWord
    <3> QED BY <1>a, <3>2, <3>3
  <2>2. CASE cmd.data # "read"
    <3>1. <<cmd.id, i + 1>> \in Tokens BY DEF Typed, DriverTyped, Tokens
    <3>2. fifo' = Append(fifo, <<cmd.id, i + 1>>) /\ buff' = buff /\ cards' = cards
      BY <1>7, <2>2 DEF MoveWord
    <3> QED BY <1>a, <3>1, <3>2, Appended
  <2> QED BY <2>1, <2>2
<1>8. CASE MoveWait BY <1>a, <1>0, <1>8 DEF MoveWait
<1>9. CASE MoveTimeout BY <1>a, <1>0, <1>9 DEF MoveTimeout
<1>10. CASE Moved BY <1>a, <1>0, <1>10 DEF Moved
<1>11. CASE RintError BY <1>a, <1>0, <1>11 DEF RintError
<1>12. CASE RintWait BY <1>a, <1>0, <1>12 DEF RintWait
<1>13. CASE RintDone BY <1>a, <1>0, <1>13 DEF RintDone
<1>14. CASE BusyWait BY <1>a, <1>0, <1>14 DEF BusyWait
<1>15. CASE ReadResponse BY <1>a, <1>0, <1>15 DEF ReadResponse
<1>16. CASE Out BY <1>a, <1>0, <1>16 DEF Out
<1>17. CASE SetModClk BY <1>a, <1>0, <1>17 DEF SetModClk
<1>18. CASE ClockOn BY <1>a, <1>0, <1>18 DEF ClockOn
<1>19. CASE CommandDone BY <1>a, <1>0, <1>19 DEF CommandDone
<1>20. CASE WordFromCard
  <2>1. <<ctl.id, ctl.moved + 1>> \in Tokens BY DEF Typed, ControllerTyped, Tokens
  <2>2. fifo' = Append(fifo, <<ctl.id, ctl.moved + 1>>) /\ buff' = buff /\ cards' = cards
    BY <1>20 DEF WordFromCard
  <2> QED BY <1>a, <2>1, <2>2, Appended
<1>21. CASE WordToCard
  <2>1. Head(fifo) \in Tokens /\ Tail(fifo) \in Seq(Tokens) BY <1>a, <1>21, Taken DEF WordToCard
  <2>2. cards' = Append(cards, Head(fifo)) /\ fifo' = Tail(fifo) /\ buff' = buff
    BY <1>21 DEF WordToCard
  <2> QED BY <1>a, <2>1, <2>2, Appended
<1>22. CASE DataOver BY <1>a, <1>0, <1>22 DEF DataOver
<1>23. CASE AutoStopDone BY <1>a, <1>0, <1>23 DEF AutoStopDone
<1>24. CASE Fault BY <1>a, <1>0, <1>24 DEF Fault
<1>25. CASE UNCHANGED vars BY <1>a, <1>0, <1>25 DEF vars
<1> QED
  BY <1>1, <1>2, <1>3, <1>4, <1>5, <1>6, <1>7, <1>8, <1>9, <1>10, <1>11, <1>12, <1>13, <1>14,
           <1>15, <1>16, <1>17, <1>18, <1>19, <1>20, <1>21, <1>22, <1>23, <1>24, <1>25
        DEF Next, Driver, Controller
-----------------------------------------------------------------------------
LEMMA ControlInit == Init => ControlInv
BY DEF Init, ControlInv, BitsInv, PlaceInv, NoCmd, Idle

LEMMA BitsNext == Typed /\ ControlInv /\ [Next]_vars => BitsInv'
<1> SUFFICES ASSUME Typed, ControlInv, [Next]_vars PROVE BitsInv' OBVIOUS
<1> USE DEF BitsInv, PlaceInv, ControlInv, hw, driver
<1>0. DriverTyped /\ ControllerTyped BY DEF Typed
<1> USE DEF DriverTyped, ControllerTyped
<1>1. CASE Command BY <1>0, <1>1 DEF Command, SendCmd, NoCmd
<1>2. CASE BusyCommand BY <1>0, <1>2 DEF BusyCommand, SendCmd
<1>3. CASE DataCommand BY <1>0, <1>3 DEF DataCommand, SendCmd
<1>4. CASE StopTransmission BY <1>0, <1>4 DEF StopTransmission, NoCmd
<1>5. CASE SetIos BY <1>0, <1>5 DEF SetIos
<1>6. CASE Start BY <1>0, <1>6 DEF Start, Idle
<1>7. CASE MoveWord BY <1>0, <1>7 DEF MoveWord
<1>8. CASE MoveWait BY <1>0, <1>8 DEF MoveWait
<1>9. CASE MoveTimeout BY <1>0, <1>9 DEF MoveTimeout
<1>10. CASE Moved BY <1>0, <1>10 DEF Moved
<1>11. CASE RintError BY <1>0, <1>11 DEF RintError
<1>12. CASE RintWait BY <1>0, <1>12 DEF RintWait
<1>13. CASE RintDone BY <1>0, <1>13 DEF RintDone
<1>14. CASE BusyWait BY <1>0, <1>14 DEF BusyWait
<1>15. CASE ReadResponse BY <1>0, <1>15 DEF ReadResponse
<1>16. CASE Out BY <1>0, <1>16 DEF Out, Idle
<1>17. CASE SetModClk BY <1>0, <1>17 DEF SetModClk
<1>18. CASE ClockOn BY <1>0, <1>18 DEF ClockOn
<1>19. CASE CommandDone BY <1>0, <1>19 DEF CommandDone, Running, Idle
<1>20. CASE WordFromCard BY <1>0, <1>20 DEF WordFromCard, Running
<1>21. CASE WordToCard BY <1>0, <1>21 DEF WordToCard, Running
<1>22. CASE DataOver BY <1>0, <1>22 DEF DataOver, Running, Idle
<1>23. CASE AutoStopDone BY <1>0, <1>23 DEF AutoStopDone, Running, Idle
<1>24. CASE Fault BY <1>0, <1>24 DEF Fault, Running
<1>25. CASE UNCHANGED vars BY <1>0, <1>25 DEF vars
<1> QED
  BY <1>1, <1>2, <1>3, <1>4, <1>5, <1>6, <1>7, <1>8, <1>9, <1>10, <1>11, <1>12, <1>13, <1>14,
           <1>15, <1>16, <1>17, <1>18, <1>19, <1>20, <1>21, <1>22, <1>23, <1>24, <1>25
        DEF Next, Driver, Controller

LEMMA PlaceNext == ~ Stalls /\ Typed /\ ControlInv /\ [Next]_vars => PlaceInv'
<1> SUFFICES ASSUME ~ Stalls, Typed, ControlInv, [Next]_vars PROVE PlaceInv' OBVIOUS
<1> USE DEF BitsInv, PlaceInv, ControlInv, hw, driver
<1>0. DriverTyped /\ ControllerTyped BY DEF Typed
<1> USE DEF DriverTyped, ControllerTyped
<1>1. CASE Command BY <1>0, <1>1 DEF Command, SendCmd, NoCmd
<1>2. CASE BusyCommand BY <1>0, <1>2 DEF BusyCommand, SendCmd
<1>3. CASE DataCommand BY <1>0, <1>3 DEF DataCommand, SendCmd
<1>4. CASE StopTransmission BY <1>0, <1>4 DEF StopTransmission, NoCmd
<1>5. CASE SetIos BY <1>0, <1>5 DEF SetIos
<1>6. CASE Start BY <1>0, <1>6 DEF Start, Idle
<1>7. CASE MoveWord BY <1>0, <1>7 DEF MoveWord
<1>8. CASE MoveWait BY <1>0, <1>8 DEF MoveWait
<1>9. CASE MoveTimeout BY <1>0, <1>9 DEF MoveTimeout
<1>10. CASE Moved BY <1>0, <1>10 DEF Moved
<1>11. CASE RintError BY <1>0, <1>11 DEF RintError
<1>12. CASE RintWait BY <1>0, <1>12 DEF RintWait
<1>13. CASE RintDone BY <1>0, <1>13 DEF RintDone, DoneBit
<1>14. CASE BusyWait BY <1>0, <1>14 DEF BusyWait
<1>15. CASE ReadResponse BY <1>0, <1>15 DEF ReadResponse
<1>16. CASE Out BY <1>0, <1>16 DEF Out, Idle
<1>17. CASE SetModClk BY <1>0, <1>17 DEF SetModClk
<1>18. CASE ClockOn BY <1>0, <1>18 DEF ClockOn
<1>19. CASE CommandDone BY <1>0, <1>19 DEF CommandDone, Running, Idle
<1>20. CASE WordFromCard BY <1>0, <1>20 DEF WordFromCard, Running
<1>21. CASE WordToCard BY <1>0, <1>21 DEF WordToCard, Running
<1>22. CASE DataOver BY <1>0, <1>22 DEF DataOver, Running, Idle
<1>23. CASE AutoStopDone BY <1>0, <1>23 DEF AutoStopDone, Running, Idle
<1>24. CASE Fault BY <1>0, <1>24 DEF Fault, Running
<1>25. CASE UNCHANGED vars BY <1>0, <1>25 DEF vars
<1> QED
  BY <1>1, <1>2, <1>3, <1>4, <1>5, <1>6, <1>7, <1>8, <1>9, <1>10, <1>11, <1>12, <1>13, <1>14,
           <1>15, <1>16, <1>17, <1>18, <1>19, <1>20, <1>21, <1>22, <1>23, <1>24, <1>25
        DEF Next, Driver, Controller
-----------------------------------------------------------------------------
LEMMA DataInit == Init => DataInv
BY DEF Init, DataInv, ReadInv, WriteInv, DeliveredInv, NoCmd

LEMMA ReadNext == Typed /\ ControlInv /\ DataInv /\ [Next]_vars => ReadInv'
<1> SUFFICES ASSUME Typed, ControlInv, DataInv, [Next]_vars PROVE ReadInv' OBVIOUS
<1> USE DEF ControlInv, BitsInv, PlaceInv, DataInv, hw, driver
<1>0. DriverTyped /\ ControllerTyped /\ WordsTyped BY DEF Typed
<1> USE DEF DriverTyped, ControllerTyped
<1> USE DEF ReadInv, DeliveredInv
<1>1. CASE Command BY <1>0, <1>1 DEF Command, SendCmd, NoCmd
<1>2. CASE BusyCommand BY <1>0, <1>2 DEF BusyCommand, SendCmd
<1>3. CASE DataCommand BY <1>0, <1>3 DEF DataCommand, SendCmd
<1>4. CASE StopTransmission BY <1>0, <1>4 DEF StopTransmission, NoCmd
<1>5. CASE SetIos BY <1>0, <1>5 DEF SetIos
<1>6. CASE Start BY <1>0, <1>6 DEF Start, Idle
<1>7. CASE MoveWord
  <2>1. CASE cmd.data = "read"
    <3>1. fifo # <<>> /\ st = "move" /\ i < Words BY <1>7, <2>1 DEF MoveWord, FifoReady
    <3>2. /\ Len(fifo) \in Nat \ {0} /\ Len(Tail(fifo)) = Len(fifo) - 1 /\ Head(fifo) = fifo[1]
          /\ \A k \in 1 .. Len(fifo) - 1 : Tail(fifo)[k] = fifo[k + 1]
      BY <1>0, <3>1, Taken DEF WordsTyped
    <3>3. /\ buff' = [buff EXCEPT ![i + 1] = Head(fifo)] /\ fifo' = Tail(fifo) /\ i' = i + 1
          /\ cmd' = cmd /\ ctl' = ctl /\ st' = st
      BY <1>7, <2>1 DEF MoveWord
    <3>4. /\ \A k \in 1 .. i : buff[k] = <<cmd.id, k>>
          /\ \A k \in 1 .. Len(fifo) : fifo[k] = <<cmd.id, i + k>>
          /\ ctl.id # 0 => ctl.moved = i + Len(fifo)
      BY <2>1, <3>1
    <3>5. buff'[i + 1] = <<cmd.id, i + 1>> /\ \A k \in 1 .. i : buff'[k] = buff[k]
      BY <1>0, <3>1, <3>2, <3>3, <3>4 DEF WordsTyped
    <3>6. \A k \in 1 .. i' : buff'[k] = <<cmd'.id, k>>
      BY <1>0, <3>3, <3>4, <3>5
    <3>7. \A k \in 1 .. Len(fifo') : fifo'[k] = <<cmd'.id, i' + k>>
      <4> SUFFICES ASSUME NEW k \in 1 .. Len(fifo) - 1 PROVE Tail(fifo)[k] = <<cmd.id, (i + 1) + k>>
        BY <3>2, <3>3
      <4>1. Tail(fifo)[k] = fifo[k + 1] /\ fifo[k + 1] = <<cmd.id, i + (k + 1)>> BY <3>2, <3>4
      <4> QED BY <4>1, <1>0
    <3>8. ctl'.id # 0 => ctl'.moved = i' + Len(fifo') BY <1>0, <3>2, <3>3, <3>4
    <3> QED BY <3>6, <3>7, <3>8
  <2>2. CASE cmd.data # "read" BY <1>7, <2>2 DEF MoveWord
  <2> QED BY <2>1, <2>2
<1>8. CASE MoveWait BY <1>0, <1>8 DEF MoveWait
<1>9. CASE MoveTimeout BY <1>0, <1>9 DEF MoveTimeout
<1>10. CASE Moved BY <1>0, <1>10 DEF Moved
<1>11. CASE RintError BY <1>0, <1>11 DEF RintError
<1>12. CASE RintWait BY <1>0, <1>12 DEF RintWait
<1>13. CASE RintDone BY <1>0, <1>13 DEF RintDone
<1>14. CASE BusyWait BY <1>0, <1>14 DEF BusyWait
<1>15. CASE ReadResponse BY <1>0, <1>15 DEF ReadResponse
<1>16. CASE Out BY <1>0, <1>16 DEF Out, Idle
<1>17. CASE SetModClk BY <1>0, <1>17 DEF SetModClk
<1>18. CASE ClockOn BY <1>0, <1>18 DEF ClockOn
<1>19. CASE CommandDone BY <1>0, <1>19 DEF CommandDone, Running, Idle
<1>20. CASE WordFromCard
  <2>0. ctl' = [ctl EXCEPT !.moved = @ + 1] /\ ctl.id # 0 BY <1>20 DEF WordFromCard, Running
  <2>1. /\ fifo' = Append(fifo, <<ctl.id, ctl.moved + 1>>) /\ ctl.id # 0
        /\ ctl'.id = ctl.id /\ ctl'.moved = ctl.moved + 1
        /\ st' = st /\ cmd' = cmd /\ i' = i /\ buff' = buff
    <3>1. fifo' = Append(fifo, <<ctl.id, ctl.moved + 1>>) BY <1>20, Zenon DEF WordFromCard
    <3>2. st' = st /\ cmd' = cmd /\ i' = i /\ buff' = buff BY <1>20 DEF WordFromCard
    <3>3. ctl'.id = ctl.id /\ ctl'.moved = ctl.moved + 1 BY <1>0, <2>0
    <3> QED BY <2>0, <3>1, <3>2, <3>3
  <2>2. <<ctl.id, ctl.moved + 1>> \in Tokens /\ Len(fifo) \in Nat
    <3>1. fifo \in Seq(Tokens) BY <1>0 DEF WordsTyped
    <3>2. ctl.id \in Nat /\ ctl.moved \in Nat BY <1>0
    <3>3. <<ctl.id, ctl.moved + 1>> \in Tokens BY ONLY <3>2 DEF Tokens
    <3> QED BY ONLY <3>1, <3>3, LenProperties
  <2>3. /\ Len(fifo') = Len(fifo) + 1 /\ \A k \in 1 .. Len(fifo) : fifo'[k] = fifo[k]
        /\ fifo'[Len(fifo) + 1] = <<ctl.id, ctl.moved + 1>>
    <3>1. fifo \in Seq(Tokens) BY <1>0 DEF WordsTyped
    <3> QED BY ONLY <2>1, <2>2, <3>1, Appended
  <2>4. SUFFICES ASSUME st \in Active, cmd.data = "read"
                 PROVE  /\ \A k \in 1 .. Len(fifo') : fifo'[k] = <<cmd.id, i + k>>
                        /\ ctl'.moved = i + Len(fifo')
    BY <2>1
  <2>5. /\ \A k \in 1 .. Len(fifo) : fifo[k] = <<cmd.id, i + k>>
        /\ ctl.moved = i + Len(fifo) /\ ctl.id = cmd.id
    BY <2>1, <2>4
  <2>6. fifo'[Len(fifo) + 1] = <<cmd.id, i + (Len(fifo) + 1)>> BY <1>0, <2>2, <2>3, <2>5
  <2>7. \A k \in 1 .. Len(fifo) + 1 : fifo'[k] = <<cmd.id, i + k>> BY <2>2, <2>3, <2>5, <2>6
  <2>8. \A k \in 1 .. Len(fifo') : fifo'[k] = <<cmd.id, i + k>> BY ONLY <2>3, <2>7
  <2>9. ctl'.moved = i + Len(fifo')
    <3>1. i \in Nat BY <1>0
    <3> QED BY ONLY <3>1, <2>1, <2>2, <2>3, <2>5
  <2> QED BY ONLY <2>8, <2>9
<1>21. CASE WordToCard BY <1>0, <1>21 DEF WordToCard, Running
<1>22. CASE DataOver BY <1>0, <1>22 DEF DataOver, Running, Idle
<1>23. CASE AutoStopDone BY <1>0, <1>23 DEF AutoStopDone, Running, Idle
<1>24. CASE Fault BY <1>0, <1>24 DEF Fault, Running
<1>25. CASE UNCHANGED vars BY <1>0, <1>25 DEF vars
<1> QED
  BY <1>1, <1>2, <1>3, <1>4, <1>5, <1>6, <1>7, <1>8, <1>9, <1>10, <1>11, <1>12, <1>13, <1>14,
           <1>15, <1>16, <1>17, <1>18, <1>19, <1>20, <1>21, <1>22, <1>23, <1>24, <1>25
        DEF Next, Driver, Controller

LEMMA WriteNext == Typed /\ ControlInv /\ DataInv /\ [Next]_vars => WriteInv'
<1> SUFFICES ASSUME Typed, ControlInv, DataInv, [Next]_vars PROVE WriteInv' OBVIOUS
<1> USE DEF ControlInv, BitsInv, PlaceInv, DataInv, hw, driver
<1>0. DriverTyped /\ ControllerTyped /\ WordsTyped BY DEF Typed
<1> USE DEF DriverTyped, ControllerTyped
<1> USE DEF WriteInv, DeliveredInv
<1>1. CASE Command BY <1>0, <1>1 DEF Command, SendCmd, NoCmd
<1>2. CASE BusyCommand BY <1>0, <1>2 DEF BusyCommand, SendCmd
<1>3. CASE DataCommand BY <1>0, <1>3 DEF DataCommand, SendCmd
<1>4. CASE StopTransmission BY <1>0, <1>4 DEF StopTransmission, NoCmd
<1>5. CASE SetIos BY <1>0, <1>5 DEF SetIos
<1>6. CASE Start BY <1>0, <1>6 DEF Start, Idle
<1>7. CASE MoveWord
  <2>1. CASE cmd.data = "write"
    <3>1. /\ fifo' = Append(fifo, <<cmd.id, i + 1>>) /\ i' = i + 1 /\ st = "move" /\ i < Words
          /\ UNCHANGED <<st, cmd, ctl, rint, cards>>
      BY <1>7, <2>1 DEF MoveWord
    <3>2. <<cmd.id, i + 1>> \in Tokens /\ Len(fifo) \in Nat /\ Len(cards) \in Nat
      <4>1. <<cmd.id, i + 1>> \in Tokens BY <1>0 DEF Tokens
      <4>2. Len(fifo) \in Nat /\ Len(cards) \in Nat BY <1>0, LenProperties DEF WordsTyped
      <4> QED BY <4>1, <4>2
    <3>3. /\ Len(fifo') = Len(fifo) + 1 /\ \A k \in 1 .. Len(fifo) : fifo'[k] = fifo[k]
          /\ fifo'[Len(fifo) + 1] = <<cmd.id, i + 1>>
      BY <1>0, <3>1, <3>2, Appended DEF WordsTyped
    <3>4. /\ \A k \in 1 .. Len(fifo) : fifo[k] = <<cmd.id, Len(cards) + k>>
          /\ Len(cards) + Len(fifo) = i
      BY <2>1, <3>1
    <3>5. fifo'[Len(fifo) + 1] = <<cmd.id, Len(cards) + (Len(fifo) + 1)>>
      BY <3>2, <3>3, <3>4
    <3>6. ASSUME NEW k \in 1 .. Len(fifo') PROVE fifo'[k] = <<cmd.id, Len(cards) + k>>
      <4>1. k \in 1 .. Len(fifo) \/ k = Len(fifo) + 1 BY <3>2, <3>3
      <4> QED BY <4>1, <3>3, <3>4, <3>5
    <3>7. Len(cards) + Len(fifo') = i' BY <3>1, <3>2, <3>3, <3>4
    <3> QED BY <2>1, <3>1, <3>6, <3>7
  <2>2. CASE cmd.data # "write" BY <1>7, <2>2 DEF MoveWord
  <2> QED BY <2>1, <2>2
<1>8. CASE MoveWait BY <1>0, <1>8 DEF MoveWait
<1>9. CASE MoveTimeout BY <1>0, <1>9 DEF MoveTimeout
<1>10. CASE Moved BY <1>0, <1>10 DEF Moved
<1>11. CASE RintError BY <1>0, <1>11 DEF RintError
<1>12. CASE RintWait BY <1>0, <1>12 DEF RintWait
<1>13. CASE RintDone BY <1>0, <1>13 DEF RintDone
<1>14. CASE BusyWait BY <1>0, <1>14 DEF BusyWait
<1>15. CASE ReadResponse BY <1>0, <1>15 DEF ReadResponse
<1>16. CASE Out BY <1>0, <1>16 DEF Out, Idle
<1>17. CASE SetModClk BY <1>0, <1>17 DEF SetModClk
<1>18. CASE ClockOn BY <1>0, <1>18 DEF ClockOn
<1>19. CASE CommandDone BY <1>0, <1>19 DEF CommandDone, Running, Idle
<1>20. CASE WordFromCard BY <1>0, <1>20 DEF WordFromCard, Running
<1>21. CASE WordToCard
  <2>0. ctl' = [ctl EXCEPT !.moved = @ + 1] /\ ctl.id # 0 BY <1>21 DEF WordToCard, Running
  <2>1. /\ cards' = Append(cards, Head(fifo)) /\ fifo' = Tail(fifo) /\ fifo # <<>>
        /\ ctl'.id = ctl.id /\ ctl'.moved = ctl.moved + 1 /\ ctl.id # 0
        /\ st' = st /\ cmd' = cmd /\ i' = i /\ rint' = rint
    <3>1. cards' = Append(cards, Head(fifo)) /\ fifo' = Tail(fifo) /\ fifo # <<>>
      BY <1>21, Zenon DEF WordToCard
    <3>2. st' = st /\ cmd' = cmd /\ i' = i /\ rint' = rint BY <1>21 DEF WordToCard
    <3>3. ctl'.id = ctl.id /\ ctl'.moved = ctl.moved + 1 BY <1>0, <2>0
    <3> QED BY <2>0, <3>1, <3>2, <3>3
  <2>2. /\ Head(fifo) \in Tokens /\ Len(fifo) \in Nat \ {0} /\ Len(fifo') = Len(fifo) - 1
        /\ Head(fifo) = fifo[1] /\ \A k \in 1 .. Len(fifo) - 1 : fifo'[k] = fifo[k + 1]
    BY <1>0, <2>1, Taken DEF WordsTyped
  <2>3. /\ Len(cards') = Len(cards) + 1 /\ \A k \in 1 .. Len(cards) : cards'[k] = cards[k]
        /\ cards'[Len(cards) + 1] = Head(fifo) /\ Len(cards) \in Nat
    BY <1>0, <2>1, <2>2, Appended, LenProperties DEF WordsTyped
  <2>4. SUFFICES ASSUME st \in Active, cmd.data = "write"
                 PROVE  /\ \A k \in 1 .. Len(cards') : cards'[k] = <<cmd.id, k>>
                        /\ \A k \in 1 .. Len(fifo') : fifo'[k] = <<cmd.id, Len(cards') + k>>
                        /\ Len(cards') + Len(fifo') = i
                        /\ ctl'.moved = Len(cards')
                        /\ "over" \in rint => Len(cards') = Words
    BY <2>1
  <2>5. /\ \A k \in 1 .. Len(cards) : cards[k] = <<cmd.id, k>>
        /\ \A k \in 1 .. Len(fifo) : fifo[k] = <<cmd.id, Len(cards) + k>>
        /\ Len(cards) + Len(fifo) = i /\ ctl.moved = Len(cards)
        /\ "over" \in rint => Len(cards) = Words
    BY <2>1, <2>4
  <2>6. cards'[Len(cards) + 1] = <<cmd.id, Len(cards) + 1>> BY <2>2, <2>3, <2>5
  <2>7. \A k \in 1 .. Len(cards') : cards'[k] = <<cmd.id, k>> BY <2>3, <2>5, <2>6
  <2>8. ASSUME NEW k \in 1 .. Len(fifo') PROVE fifo'[k] = <<cmd.id, Len(cards') + k>>
    <3>1. k \in 1 .. Len(fifo) - 1 /\ k + 1 \in 1 .. Len(fifo) BY <2>2
    <3>2. fifo'[k] = <<cmd.id, Len(cards) + (k + 1)>> BY <2>2, <2>5, <3>1
    <3>3. Len(cards) + (k + 1) = Len(cards') + k BY <2>3, <3>1
    <3> QED BY <3>2, <3>3
  <2>9. Len(cards') + Len(fifo') = i /\ ctl'.moved = Len(cards')
    BY <2>1, <2>2, <2>3, <2>5
  <2>10. ~ ("over" \in rint)
    <3>1. i <= Words /\ Words \in Nat BY <1>0
    <3>2. Len(cards) < Words BY <2>2, <2>3, <2>5, <3>1
    <3> QED BY <2>3, <2>5, <3>2
  <2> QED BY <2>7, <2>8, <2>9, <2>10
<1>22. CASE DataOver BY <1>0, <1>22 DEF DataOver, Running, Idle
<1>23. CASE AutoStopDone BY <1>0, <1>23 DEF AutoStopDone, Running, Idle
<1>24. CASE Fault BY <1>0, <1>24 DEF Fault, Running
<1>25. CASE UNCHANGED vars BY <1>0, <1>25 DEF vars
<1> QED
  BY <1>1, <1>2, <1>3, <1>4, <1>5, <1>6, <1>7, <1>8, <1>9, <1>10, <1>11, <1>12, <1>13, <1>14,
           <1>15, <1>16, <1>17, <1>18, <1>19, <1>20, <1>21, <1>22, <1>23, <1>24, <1>25
        DEF Next, Driver, Controller

(* A command whose data are over has been delivered. *)
LEMMA AllDelivered ==
  ASSUME Typed, DataInv, st \in Active, cmd.data # "none" => i = Words /\ "over" \in rint
  PROVE  Delivered
<1>1. ASSUME cmd.data = "read" PROVE \A k \in 1 .. Words : buff[k] = <<cmd.id, k>>
  BY <1>1 DEF DataInv, ReadInv
<1>2. ASSUME cmd.data = "write" PROVE cards = [k \in 1 .. Words |-> <<cmd.id, k>>]
  <2>1. /\ \A k \in 1 .. Len(cards) : cards[k] = <<cmd.id, k>>
        /\ Len(cards) = Words
    BY <1>2 DEF DataInv, WriteInv
  <2>2. cards \in [1 .. Words -> Tokens] BY <2>1, LenProperties DEF Typed, WordsTyped
  <2>3. cards = [k \in 1 .. Words |-> cards[k]] BY <2>2
  <2> QED BY <2>1, <2>3
<1> QED BY <1>1, <1>2 DEF Delivered

LEMMA DeliveredStays ==
  ASSUME Delivered, UNCHANGED <<cmd, buff, cards>> PROVE Delivered'
BY DEF Delivered

LEMMA DeliveredNext ==
  ~ Stalls /\ Typed /\ ControlInv /\ DataInv /\ [Next]_vars => DeliveredInv'
<1> SUFFICES ASSUME ~ Stalls, Typed, ControlInv, DataInv, [Next]_vars PROVE DeliveredInv' OBVIOUS
<1> USE DEF ControlInv, BitsInv, PlaceInv, DeliveredInv, hw, driver
<1>0. DriverTyped /\ ControllerTyped BY DEF Typed
<1>a. DeliveredInv BY DEF DataInv
<1> USE DEF DriverTyped, ControllerTyped
<1>1. CASE Command BY <1>0, <1>a, DeliveredStays, <1>1 DEF Command, SendCmd, NoCmd
<1>2. CASE BusyCommand BY <1>0, <1>a, DeliveredStays, <1>2 DEF BusyCommand, SendCmd
<1>3. CASE DataCommand BY <1>0, <1>a, DeliveredStays, <1>3 DEF DataCommand, SendCmd
<1>4. CASE StopTransmission BY <1>0, <1>a, DeliveredStays, <1>4 DEF StopTransmission, NoCmd
<1>5. CASE SetIos BY <1>0, <1>a, DeliveredStays, <1>5 DEF SetIos
<1>6. CASE Start BY <1>0, <1>a, DeliveredStays, <1>6 DEF Start, Idle
<1>7. CASE MoveWord BY <1>0, <1>a, DeliveredStays, <1>7 DEF MoveWord
<1>8. CASE MoveWait BY <1>0, <1>a, DeliveredStays, <1>8 DEF MoveWait
<1>9. CASE MoveTimeout BY <1>0, <1>a, DeliveredStays, <1>9 DEF MoveTimeout
<1>10. CASE Moved BY <1>0, <1>a, DeliveredStays, <1>10 DEF Moved
<1>11. CASE RintError BY <1>0, <1>a, DeliveredStays, <1>11 DEF RintError
<1>12. CASE RintWait BY <1>0, <1>a, DeliveredStays, <1>12 DEF RintWait
<1>13. CASE RintDone BY <1>0, <1>a, DeliveredStays, <1>13 DEF RintDone
<1>14. CASE BusyWait BY <1>0, <1>a, DeliveredStays, <1>14 DEF BusyWait
<1>15. CASE ReadResponse
  <2>1. Delivered BY <1>0, <1>a, <1>15, AllDelivered DEF ReadResponse
  <2> QED BY <1>15, <2>1, DeliveredStays DEF ReadResponse
<1>16. CASE Out BY <1>0, <1>a, DeliveredStays, <1>16 DEF Out, Idle
<1>17. CASE SetModClk BY <1>0, <1>a, DeliveredStays, <1>17 DEF SetModClk
<1>18. CASE ClockOn BY <1>0, <1>a, DeliveredStays, <1>18 DEF ClockOn
<1>19. CASE CommandDone BY <1>0, <1>a, DeliveredStays, <1>19 DEF CommandDone, Running, Idle
<1>20. CASE WordFromCard BY <1>0, <1>a, DeliveredStays, <1>20 DEF WordFromCard, Running
<1>21. CASE WordToCard BY <1>0, <1>a, DeliveredStays, <1>21 DEF WordToCard, Running
<1>22. CASE DataOver BY <1>0, <1>a, DeliveredStays, <1>22 DEF DataOver, Running, Idle
<1>23. CASE AutoStopDone BY <1>0, <1>a, DeliveredStays, <1>23 DEF AutoStopDone, Running, Idle
<1>24. CASE Fault BY <1>0, <1>a, DeliveredStays, <1>24 DEF Fault, Running
<1>25. CASE UNCHANGED vars BY <1>0, <1>a, DeliveredStays, <1>25 DEF vars
<1> QED
  BY <1>1, <1>2, <1>3, <1>4, <1>5, <1>6, <1>7, <1>8, <1>9, <1>10, <1>11, <1>12, <1>13, <1>14,
           <1>15, <1>16, <1>17, <1>18, <1>19, <1>20, <1>21, <1>22, <1>23, <1>24, <1>25
        DEF Next, Driver, Controller

LEMMA DriverInit == Init => IInv
BY TypedInit, ControlInit, DataInit DEF IInv

LEMMA DriverNext == ~ Stalls /\ IInv /\ [Next]_vars => IInv'
<1> SUFFICES ASSUME ~ Stalls, IInv, [Next]_vars PROVE IInv' OBVIOUS
<1>1. Typed /\ ControlInv /\ DataInv BY DEF IInv
<1>2. Typed'
  BY <1>1, DriverTypedNext, ControllerTypedNext, WordsTypedNext DEF Typed
<1>3. ControlInv' BY <1>1, BitsNext, PlaceNext DEF ControlInv
<1>4. DataInv' BY <1>1, ReadNext, WriteNext, DeliveredNext DEF DataInv
<1> QED BY <1>2, <1>3, <1>4 DEF IInv
-----------------------------------------------------------------------------
(* mmc_bsp.c:522: the response of a command that succeeds is its own,      *)
(* whatever the controller does and leaves behind.                         *)
THEOREM ResponseIsOwn == ~ Stalls => (Spec => []OwnResponse)
<1>1. IInv => OwnResponse BY DEF IInv, ControlInv, PlaceInv, OwnResponse, Answered
<1>2. ASSUME ~ Stalls PROVE Spec => []OwnResponse
  <2>1. IInv /\ [Next]_vars => IInv' BY <1>2, DriverNext
  <2> QED BY <1>1, <2>1, DriverInit, PTL DEF Spec
<1> QED BY <1>2

(* mmc_bsp.c:370: a data command that succeeds has moved every word, in    *)
(* order, to or from the card.                                             *)
THEOREM WordsAreMoved == ~ Stalls => (Spec => []AllWordsMoved)
<1>1. IInv => AllWordsMoved
  <2> SUFFICES ASSUME IInv, Answered PROVE Delivered BY DEF AllWordsMoved, Delivered
  <2> QED BY DEF IInv, DataInv, DeliveredInv, Answered
<1>2. ASSUME ~ Stalls PROVE Spec => []AllWordsMoved
  <2>1. IInv /\ [Next]_vars => IInv' BY <1>2, DriverNext
  <2> QED BY <1>1, <2>1, DriverInit, PTL DEF Spec
<1> QED BY <1>2

(* mmc_bsp.c:532: between two commands the controller is idle and empty.   *)
THEOREM ControllerIsLeftIdle == ~ Stalls => (Spec => []NothingLeftOver)
<1>1. IInv => NothingLeftOver BY DEF IInv, ControlInv, PlaceInv, NothingLeftOver
<1>2. ASSUME ~ Stalls PROVE Spec => []NothingLeftOver
  <2>1. IInv /\ [Next]_vars => IInv' BY <1>2, DriverNext
  <2> QED BY <1>1, <2>1, DriverInit, PTL DEF Spec
<1> QED BY <1>2
-----------------------------------------------------------------------------
(* The clock.  A division rounded up leaves nothing over. *)
LEMMA DivMod ==
  ASSUME NEW W \in Nat \ {0}, NEW x \in Int
  PROVE  x % W \in 0 .. W - 1 /\ x \div W \in Int /\ x = (x % W) + (x \div W) * W
<1>1. x % W \in 0 .. W - 1 OBVIOUS
<1>2. x \div W \in Int OBVIOUS
<1>3. x = (x % W) + (x \div W) * W OBVIOUS
<1> QED BY <1>1, <1>2, <1>3

(* Rounded up, a divider is long enough. *)
LEMMA CeilCovers ==
  ASSUME NEW a \in Nat, NEW b \in Nat \ {0}
  PROVE  CeilDiv(a, b) \in Nat /\ a <= CeilDiv(a, b) * b
<1> DEFINE q == (a + b - 1) \div b
<1>1. q \in Nat /\ (a + b - 1) % b \in 0 .. b - 1 /\ a + b - 1 = ((a + b - 1) % b) + q * b
  <2>1. a + b - 1 \in Nat OBVIOUS
  <2> DEFINE x == a + b - 1
  <2> HIDE DEF x
  <2>2. x \in Int BY <2>1 DEF x
  <2>3. x % b \in 0 .. b - 1 /\ x \div b \in Int /\ x = (x % b) + (x \div b) * b BY <2>2, DivMod
  <2>4. x \div b \in Nat BY <2>1, <2>3 DEF x
  <2> QED BY <2>3, <2>4 DEF x
<1>2. q * b \in Nat BY <1>1
<1> QED BY <1>1, <1>2 DEF CeilDiv

(* The source, divided as the register says, is no faster than asked. *)
Slow(s, hz, m, k) == s <= hz * m * (2 ^ k)

LEMMA DividedEnough ==
  ASSUME NEW hz \in Nat \ {0}, NEW k \in 0 .. 3
  PROVE  Slow(Source(hz), hz, Halved(hz, k), k)
<1> DEFINE s == Source(hz)
           d == CeilDiv(s, hz)
           m == Halved(hz, k)
<1>1. s \in Nat BY ClocksAssumption DEF Source
<1>2. d \in Nat /\ s <= d * hz BY <1>1, CeilCovers
<1>3. 2 ^ k \in Nat \ {0}
  <2>1. CASE k = 0 BY <2>1
  <2>2. CASE k = 1 BY <2>2
  <2>3. CASE k = 2 BY <2>3
  <2>4. CASE k = 3 BY <2>4
  <2> QED BY <2>1, <2>2, <2>3, <2>4
<1>4. m = CeilDiv(d, 2 ^ k) BY DEF Halved
<1> HIDE DEF s, d
<1>5. m \in Nat /\ d <= m * (2 ^ k) BY <1>2, <1>3, <1>4, CeilCovers
<1> HIDE DEF m
<1>6. \A p \in Nat : d <= m * p => s <= hz * m * p
  <2> SUFFICES ASSUME NEW p \in Nat, d <= m * p PROVE s <= hz * m * p OBVIOUS
  <2> DEFINE e == m * p
  <2>1. e \in Nat BY <1>5
  <2>2. hz * m * p = e * hz BY <1>5
  <2>3. d <= e OBVIOUS
  <2> HIDE DEF e
  <2>4. d * hz <= e * hz BY <1>2, <2>1, <2>3
  <2>5. d * hz \in Nat /\ e * hz \in Nat BY <1>2, <2>1
  <2> QED BY <1>1, <1>2, <2>2, <2>4, <2>5
<1>7. s <= hz * m * (2 ^ k) BY <1>3, <1>5, <1>6
<1> QED BY <1>7 DEF Slow, s, m

LEMMA HalvingsFit == ASSUME NEW hz, Fitting(hz) # {} PROVE Halvings(hz) \in 0 .. 3
<1>1. \A S \in SUBSET (0 .. 3) : S # {} => \E k \in S : \A j \in S : k <= j
  <2> SUFFICES ASSUME NEW S \in SUBSET (0 .. 3), S # {} PROVE \E k \in S : \A j \in S : k <= j OBVIOUS
  <2>1. CASE 0 \in S BY <2>1
  <2>2. CASE 0 \notin S /\ 1 \in S BY <2>2
  <2>3. CASE 0 \notin S /\ 1 \notin S /\ 2 \in S BY <2>3
  <2>4. CASE 0 \notin S /\ 1 \notin S /\ 2 \notin S
    <3>1. \A j \in S : j = 3 BY <2>4
    <3>2. 3 \in S BY <3>1
    <3> QED BY <3>1, <3>2
  <2> QED BY <2>1, <2>2, <2>3, <2>4
<1>2. Fitting(hz) \in SUBSET (0 .. 3) BY DEF Fitting
<1>3. \E k \in Fitting(hz) : \A j \in Fitting(hz) : k <= j BY <1>1, <1>2
<1>4. Halvings(hz) \in Fitting(hz) BY <1>3 DEF Halvings
<1> QED BY <1>2, <1>4

Asked == Slow(mod.src, rate, mod.m, mod.n)

(* The rate the driver has set, and is about to let the card have. *)
ClockInv ==
  /\ st = "clkOff" => rate \in Clocks /\ ~ cardClk
  /\ st = "clkOn" => Asked /\ ~ cardClk
  /\ cardClk /\ ~ fatal => Asked

LEMMA ClockNext == ClockInv /\ [Next]_vars => ClockInv'
<1> SUFFICES ASSUME ClockInv, [Next]_vars PROVE ClockInv' OBVIOUS
<1>1. CASE SetIos BY <1>1 DEF SetIos, ClockInv, Asked
<1>2. CASE SetModClk
  <2>1. CASE Fitting(rate) = {} BY <1>2, <2>1 DEF SetModClk, ClockInv, Asked
  <2>2. CASE Fitting(rate) # {}
    <3>1. rate' = rate /\ rate \in Nat \ {0} /\ Halvings(rate) \in 0 .. 3 /\ cardClk' = cardClk /\ ~ cardClk
      BY <1>2, <2>2, HalvingsFit, ClocksAssumption DEF SetModClk, ClockInv
    <3>2. Slow(Source(rate), rate, Halved(rate, Halvings(rate)), Halvings(rate))
      BY <3>1, DividedEnough
    <3>3. mod' = [src |-> Source(rate), n |-> Halvings(rate), m |-> Halved(rate, Halvings(rate))] /\ st' = "clkOn"
      BY <1>2, <2>2 DEF SetModClk
    <3>4. Asked' BY <3>1, <3>2, <3>3 DEF Asked
    <3> QED BY <3>1, <3>3, <3>4 DEF ClockInv
  <2> QED BY <2>1, <2>2
<1>3. CASE ClockOn BY <1>3 DEF ClockOn, ClockInv, Asked
<1>4. CASE UNCHANGED <<clocking>> /\ (st' = st \/ st' \notin {"clkOff", "clkOn"})
  BY <1>4 DEF clocking, ClockInv, Asked
<1>5. ASSUME Command \/ BusyCommand \/ DataCommand \/ StopTransmission
      PROVE  UNCHANGED <<clocking>> /\ (st' = st \/ st' \notin {"clkOff", "clkOn"})
  BY <1>5 DEF Command, BusyCommand, DataCommand, SendCmd, StopTransmission, clocking
<1>6. ASSUME Controller \/ UNCHANGED vars PROVE UNCHANGED <<clocking>> /\ st' = st
  BY <1>6
  DEF Controller, vars, driver, CommandDone, WordFromCard, WordToCard, DataOver, AutoStopDone,
      Fault
<1>7. ASSUME Driver, ~ SetModClk, ~ ClockOn
      PROVE  UNCHANGED <<clocking>> /\ (st' = st \/ st' \notin {"clkOff", "clkOn"})
  BY <1>7
  DEF Driver, Start, MoveWord, MoveWait, MoveTimeout, Moved, RintError, RintWait, RintDone,
      BusyWait, ReadResponse, Out, clocking
<1> QED BY <1>1, <1>2, <1>3, <1>4, <1>5, <1>6, <1>7 DEF Next

(* mmc_bsp.c:201-209: for every rate asked for and every rate of the two   *)
(* sources, unless a change of the clock has failed the card is clocked    *)
(* from a source that, divided by what the register holds, is no faster.   *)
THEOREM ClockIsAsAsked == Spec => []ClockAsAsked
<1>1. Init => ClockInv BY DEF Init, ClockInv
<1>2. ClockInv => ClockAsAsked BY DEF ClockInv, ClockAsAsked, Asked, Slow
<1> QED BY <1>1, <1>2, ClockNext, PTL DEF Spec
=============================================================================
