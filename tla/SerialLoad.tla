----------------------------- MODULE SerialLoad -----------------------------
(***************************************************************************)
(* "load serial": the other end of the line types the command, corrects it *)
(* on the way, ends it with a carriage return, a line feed or both, and    *)
(* sends the file;  gets takes the line and echoes it, LoaderSerialLoad    *)
(* takes the file, by words of four bytes, both through the receive FIFO   *)
(* of the UART.  The bytes of the file are 1, 2, 3, ...                    *)
(***************************************************************************)
EXTENDS Integers, Sequences

CONSTANTS
  Inputs,    \* what is sent: [typed, size] of a line and of the file after it
  Endings,   \* how a line may end: sequences of CR and LF
  Depth,     \* bytes in the receive FIFO
  Word       \* values of a uint32_t

CR == 1000
LF == 1001
ASCII_BS == 1008
ASCII_SP == 1032
Ctrl == 1007        \* any other character that is not printed
Char == {1097, 1098}
Printed == Char \cup {ASCII_SP}

ASSUME WordAssumption == Word \in Nat
ASSUME InputsAssumption ==
  \A i \in Inputs : /\ i.size \in 0 .. Word - 1
                    /\ i.typed \in Seq(Printed \cup {ASCII_BS, Ctrl})
ASSUME EndingsAssumption == Endings \subseteq {<<CR>>, <<LF>>, <<CR, LF>>}
ASSUME DepthAssumption == Depth \in Nat \ {0}

VARIABLES
  size,
  host,      \* what the other end has still to send
  rx,        \* receive FIFO
  st,        \* "gets", "load" or "done"
  str,       \* the line as gets has it
  row,       \* the row of the terminal it is typed on, and its cursor
  word,      \* bytes GetWord has got
  mem,       \* bytes from addr on
  count, inc,
  marks      \* '=' put in the progress bar

vars == <<size, host, rx, st, str, row, word, mem, count, inc, marks>>

File == [k \in 1 .. size |-> k]
per == size \div 16
BarWidth == 16

Init ==
  /\ \E i \in Inputs, e \in Endings : size = i.size /\ host = i.typed \o e \o [k \in 1 .. i.size |-> k]
  /\ rx = <<>> /\ st = "gets" /\ str = <<>> /\ row = [cells |-> <<>>, cursor |-> 0]
  /\ word = <<>> /\ mem = <<>>
  /\ count = 0 /\ inc = 0 /\ marks = 0

(* The line is no faster than the loader: the FIFO does not overrun. *)
Send ==
  /\ host # <<>> /\ Len(rx) < Depth
  /\ rx' = Append(rx, Head(host)) /\ host' = Tail(host)
  /\ UNCHANGED <<size, st, str, row, word, mem, count, inc, marks>>

(* A backspace moves the cursor and leaves the cell. *)
putc(r, c) ==
  IF c = ASCII_BS THEN [r EXCEPT !.cursor = IF @ > 0 THEN @ - 1 ELSE 0]
  ELSE [cells |-> IF r.cursor = Len(r.cells) THEN Append(r.cells, c)
                  ELSE [r.cells EXCEPT ![r.cursor + 1] = c],
        cursor |-> r.cursor + 1]

RubOutOnce(r) == putc(r, ASCII_BS)  \* the cell is not blanked
RubOut(r) == putc(putc(putc(r, ASCII_BS), ASCII_SP), ASCII_BS)

Take(c) ==
  IF c = ASCII_BS THEN IF str = <<>> THEN UNCHANGED <<str, row>>
                       ELSE str' = SubSeq(str, 1, Len(str) - 1) /\ row' = RubOut(row)
  ELSE IF c \in Printed THEN str' = Append(str, c) /\ row' = putc(row, c)
  ELSE UNCHANGED <<str, row>>

getsPeek ==  \* the end of the line is left in the FIFO
  /\ st = "gets" /\ rx # <<>>
  /\ IF Head(rx) \in {CR, LF} THEN st' = "load" /\ UNCHANGED rx ELSE rx' = Tail(rx) /\ UNCHANGED st
  /\ Take(Head(rx))
  /\ UNCHANGED <<size, host, word, mem, count, inc, marks>>

(* gets returns at the first end of line. *)
gets ==
  /\ st = "gets" /\ rx # <<>>
  /\ rx' = Tail(rx)
  /\ st' = IF Head(rx) \in {CR, LF} THEN "load" ELSE st
  /\ Take(Head(rx))
  /\ UNCHANGED <<size, host, word, mem, count, inc, marks>>

GetByte ==
  /\ st = "load" /\ size > count /\ Len(word) < 4 /\ rx # <<>>
  /\ word' = Append(word, Head(rx)) /\ rx' = Tail(rx)
  /\ UNCHANGED <<size, host, st, str, row, mem, count, inc, marks>>

StoreWord ==
  /\ st = "load" /\ Len(word) = 4
  /\ mem' = mem \o word /\ word' = <<>>
  /\ count' = (count + 4) % Word
  /\ \/ per < inc + 4 /\ inc' = 0 /\ marks' = marks + 1
     \/ per >= inc + 4 /\ inc' = inc + 4 /\ UNCHANGED marks
  /\ UNCHANGED <<size, host, rx, st, str, row>>

LoadedPast ==  \* one more word than the file has
  /\ st = "load" /\ size < count /\ word = <<>>
  /\ marks' = marks + 1 /\ st' = "done"
  /\ UNCHANGED <<size, host, rx, str, row, word, mem, count, inc>>

Loaded ==
  /\ st = "load" /\ size <= count /\ word = <<>>
  /\ marks' = marks + 1 /\ st' = "done"
  /\ UNCHANGED <<size, host, rx, str, row, word, mem, count, inc>>

Loader == gets \/ GetByte \/ StoreWord \/ Loaded

Next == Send \/ Loader

Spec == Init /\ [][Next]_vars
FairSpec == Spec /\ WF_vars(Send) /\ WF_vars(Loader)
-----------------------------------------------------------------------------
TypeOK ==
  /\ st \in {"gets", "load", "done"} /\ Len(rx) <= Depth /\ Len(word) <= 4
  /\ count \in 0 .. Word - 1 /\ inc \in 0 .. per + 4 /\ marks \in 0 .. size + 1

(* loader.c:147: what is in memory is what was sent, at every word and     *)
(* when the load ends.                                                     *)
FileInRam ==
  /\ \A k \in 1 .. Len(mem) : mem[k] = k
  /\ st = "done" => mem = File

(* uart.c:196, loader.c:152: the row on which a line is typed and corrected *)
(* shows the line that gets returns and nothing after it, and the progress  *)
(* bar that comes next has room for every mark.                             *)
ScreenRight ==
  /\ row.cursor = Len(str) /\ SubSeq(row.cells, 1, Len(str)) = str
  /\ \A k \in Len(str) + 1 .. Len(row.cells) : row.cells[k] = ASCII_SP
  /\ marks <= BarWidth

(* README.md:43 "Load file to RAM.": when the whole file has been sent the  *)
(* loader returns to its prompt.                                           *)
LoadEnds == <>(st = "done")
=============================================================================
