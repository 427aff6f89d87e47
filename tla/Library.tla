------------------------------ MODULE Library ------------------------------
(***************************************************************************)
(* The library of the loader, whose compiler has none: memcpy and memset,  *)
(* written in assembly, which move bytes until both addresses are aligned  *)
(* and then words;  strtoul, which reads the numbers of a command, and     *)
(* itoa, which writes those of an answer.  One call is made, and its loop  *)
(* is run to its end;  a number that itoa wrote is then read back.         *)
(***************************************************************************)
EXTENDS Integers, Sequences

CONSTANTS
  Half,      \* half of the values of a word: 2^31 in the code
  Texts,     \* texts given to strtoul: sequences of characters
  Bases,     \* bases given to it: 0 is "as the text says"
  MaxLen     \* longest region copied or filled

ASSUME HalfAssumption == Half \in Nat \ {0, 1} /\ \E k \in 1 .. Half : 2 ^ k = Half
ASSUME BasesAssumption == Bases \subseteq {0, 8, 10, 16}
ASSUME TextsAssumption == \A t \in Texts : t \in Seq({t[k] : k \in DOMAIN t})
ASSUME MaxLenAssumption == MaxLen \in Nat

ULONG_MAX == 2 * Half - 1

VARIABLES
  call,               \* the call that is made, with its arguments
  pc,
  mem, dst, src, len, \* bytes, and the registers of the copy
  text, pos, base,    \* text read, the character at hand, the base in use
  acc, any, neg,      \* of strtoul
  value, out          \* of itoa: digits still to write, text written

memVars == <<mem, dst, src, len>>
readVars == <<text, pos, base, acc, any, neg>>
vars == <<call, pc, memVars, readVars, value, out>>
-----------------------------------------------------------------------------
(* Bytes are told apart by the address they had at the call: the source    *)
(* follows the destination and a gap, and a fill writes FILL.              *)
FILL == -1
Gap == 4
SrcBase == 4 + MaxLen + Gap
Addr == 0 .. SrcBase + 4 + MaxLen + Gap - 1

Moved(m, d, s, k, op) ==
  [a \in Addr |-> IF a \in d .. d + k - 1 THEN IF op = "memcpy" THEN m[s + (a - d)] ELSE FILL
                                          ELSE m[a]]

(* k bytes more; registers step over them. *)
Move(k) ==
  /\ mem' = Moved(mem, dst, src, k, call.op)
  /\ dst' = dst + k /\ src' = src + k /\ len' = len - k

(* A load or store of words faults on an address that is not aligned. *)
Aligned == dst % 4 = 0 /\ (call.op = "memcpy" => src % 4 = 0)
MoveWords(k) == Move(k) /\ pc' = IF Aligned THEN pc ELSE "fault"

Least == IF call.op = "memcpy" THEN 16 ELSE 8   \* fewer are moved by bytes

AlignOne ==  \* the source is taken to be aligned when the destination is
  /\ pc = "head"
  /\ IF len < Least
     THEN pc' = "bytes" /\ UNCHANGED memVars
     ELSE Move((4 - (dst % 4)) % 4) /\ pc' = "words"
  /\ UNCHANGED <<call, readVars, value, out>>

(* Bytes up to the first aligned destination;  a source that is not        *)
(* aligned then is copied by bytes to its end.                             *)
Align ==
  /\ pc = "head"
  /\ LET k == (4 - (dst % 4)) % 4
     IN  IF len < Least
         THEN pc' = "bytes" /\ UNCHANGED memVars
         ELSE /\ Move(k)
              /\ pc' = IF call.op = "memcpy" /\ (src + k) % 4 # 0 THEN "bytes" ELSE "words"
  /\ UNCHANGED <<call, readVars, value, out>>

(* Four registers, then (memcpy) two and one, (memset) one at a time. *)
Words ==
  /\ pc = "words"
  /\ \/ len >= 16 /\ MoveWords(16)
     \/ len < 16 /\ len >= 8 /\ call.op = "memcpy" /\ MoveWords(8)
     \/ len >= 4 /\ (call.op = "memcpy" => len < 8) /\ len < 16 /\ MoveWords(4)
     \/ len < 4 /\ pc' = "bytes" /\ UNCHANGED memVars
  /\ UNCHANGED <<call, readVars, value, out>>

Bytes ==
  /\ pc = "bytes"
  /\ IF len = 0 THEN pc' = "done" /\ UNCHANGED memVars ELSE Move(1) /\ UNCHANGED pc
  /\ UNCHANGED <<call, readVars, value, out>>
-----------------------------------------------------------------------------
(* Characters are strings of length one, "" the end of a text. *)
Letters == <<"a", "b", "c", "d", "e", "f", "g", "x">>
Digits == <<"0", "1", "2", "3", "4", "5", "6", "7", "8", "9">> \o Letters
Char(t, p) == IF p \in 1 .. Len(t) THEN t[p] ELSE ""
IsDigit(c) == \E k \in 1 .. Len(Digits) : Digits[k] = c
DigitValue(c) == IF c = "x" THEN 33 ELSE (CHOOSE k \in 1 .. Len(Digits) : Digits[k] = c) - 1

SkipSpaces ==
  /\ pc = "spaces"
  /\ IF Char(text, pos) = " " THEN pos' = pos + 1 /\ UNCHANGED pc ELSE pc' = "sign" /\ UNCHANGED pos
  /\ UNCHANGED <<call, memVars, text, base, acc, any, neg, value, out>>

Sign ==
  /\ pc = "sign"
  /\ neg' = (Char(text, pos) = "-")
  /\ pos' = IF Char(text, pos) \in {"-", "+"} THEN pos + 1 ELSE pos
  /\ pc' = "prefix"
  /\ UNCHANGED <<call, memVars, text, base, acc, any, value, out>>

Prefix ==
  /\ pc = "prefix"
  /\ IF base \in {0, 16} /\ Char(text, pos) = "0" /\ Char(text, pos + 1) = "x"
     THEN base' = 16 /\ pos' = pos + 2
     ELSE /\ base' = IF base # 0 THEN base ELSE IF Char(text, pos) = "0" THEN 8 ELSE 10
          /\ UNCHANGED pos
  /\ pc' = "digits"
  /\ UNCHANGED <<call, memVars, text, acc, any, neg, value, out>>

cutoff == ULONG_MAX \div base
cutlim == ULONG_MAX % base

DigitWraps ==  \* the last digit is not compared with what is left
  /\ pc = "digits"
  /\ LET c == Char(text, pos) IN
     /\ IsDigit(c) /\ DigitValue(c) < base
     /\ IF any < 0 \/ acc > cutoff
        THEN any' = -1 /\ UNCHANGED acc
        ELSE any' = 1 /\ acc' = (acc * base + DigitValue(c)) % (2 * Half)
  /\ pos' = pos + 1
  /\ UNCHANGED <<call, pc, memVars, text, base, neg, value, out>>

Digit ==
  /\ pc = "digits"
  /\ LET c == Char(text, pos) IN
     /\ IsDigit(c) /\ DigitValue(c) < base
     /\ IF any < 0 \/ acc > cutoff \/ (acc = cutoff /\ DigitValue(c) > cutlim)
        THEN any' = -1 /\ UNCHANGED acc
        ELSE any' = 1 /\ acc' = acc * base + DigitValue(c)
  /\ pos' = pos + 1
  /\ UNCHANGED <<call, pc, memVars, text, base, neg, value, out>>

(* A text without a digit is left where it began. *)
Read ==
  /\ pc = "digits"
  /\ ~ (IsDigit(Char(text, pos)) /\ DigitValue(Char(text, pos)) < base)
  /\ acc' = IF any < 0 THEN ULONG_MAX ELSE IF neg THEN (-acc) % (2 * Half) ELSE acc
  /\ pos' = IF any = 0 THEN 1 ELSE pos
  /\ pc' = "done"
  /\ UNCHANGED <<call, memVars, text, base, any, neg, value, out>>
-----------------------------------------------------------------------------
(* itoa: the digits are written from the last; the least number has no     *)
(* negation and stays what it is, which is right once taken unsigned.      *)
ItoaSigned ==  \* every negative number is written with its sign
  /\ pc = "itoa"
  /\ value' = IF call.num < 0 THEN -call.num ELSE call.num
  /\ out' = IF call.num = 0 THEN <<"0">> ELSE <<>>
  /\ pc' = IF call.num = 0 THEN "written" ELSE "write"
  /\ UNCHANGED <<call, memVars, readVars>>

Itoa ==
  /\ pc = "itoa"
  /\ value' = IF call.num < 0 /\ call.base = 10 THEN -call.num ELSE call.num % (2 * Half)
  /\ out' = IF call.num = 0 THEN <<"0">> ELSE <<>>
  /\ pc' = IF call.num = 0 THEN "written" ELSE "write"
  /\ UNCHANGED <<call, memVars, readVars>>

WriteDigit ==
  /\ pc = "write" /\ value # 0
  /\ out' = <<Digits[1 + (value % call.base)]>> \o out
  /\ value' = value \div call.base
  /\ UNCHANGED <<call, pc, memVars, readVars>>

Written ==
  /\ pc = "write" /\ value = 0
  /\ out' = IF call.num < 0 /\ call.base = 10 THEN <<"-">> \o out ELSE out
  /\ pc' = "written"
  /\ UNCHANGED <<call, memVars, readVars, value>>

ReadBack ==
  /\ pc = "written"
  /\ text' = out /\ base' = call.base /\ pc' = "spaces"
  /\ UNCHANGED <<call, memVars, pos, acc, any, neg, value, out>>
-----------------------------------------------------------------------------
Calls ==
  [op : {"memcpy"}, dst : 4 .. 7, src : SrcBase .. SrcBase + 3, len : 0 .. MaxLen]
  \cup [op : {"memset"}, dst : 4 .. 7, len : 0 .. MaxLen]
  \cup [op : {"strtoul"}, text : Texts, base : Bases]
  \cup [op : {"itoa"}, num : -Half .. Half - 1, base : {10, 16}]

Init ==
  /\ call \in Calls
  /\ pc = CASE call.op = "strtoul" -> "spaces" [] call.op = "itoa" -> "itoa" [] OTHER -> "head"
  /\ mem = [a \in Addr |-> a]
  /\ dst = (IF call.op \in {"memcpy", "memset"} THEN call.dst ELSE 0)
  /\ src = (IF call.op = "memcpy" THEN call.src ELSE 0)
  /\ len = (IF call.op \in {"memcpy", "memset"} THEN call.len ELSE 0)
  /\ text = (IF call.op = "strtoul" THEN call.text ELSE <<>>)
  /\ base = (IF call.op = "strtoul" THEN call.base ELSE 0)
  /\ pos = 1 /\ acc = 0 /\ any = 0 /\ neg = FALSE
  /\ value = 0 /\ out = <<>>

Next ==
  \/ Align \/ Words \/ Bytes
  \/ SkipSpaces \/ Sign \/ Prefix \/ Digit \/ Read
  \/ Itoa \/ WriteDigit \/ Written \/ ReadBack

Spec == Init /\ [][Next]_vars
-----------------------------------------------------------------------------
TypeOK ==
  /\ pc \in {"head", "words", "bytes", "spaces", "sign", "prefix", "digits", "itoa", "write",
             "written", "done", "fault"}
  /\ acc \in 0 .. ULONG_MAX /\ any \in {-1, 0, 1} /\ value \in 0 .. ULONG_MAX
  /\ len \in Int /\ base \in {0, 8, 10, 16}

(* Memory as it is when the destination has been written up to d. *)
Filled(d) ==
  [a \in Addr |-> IF a \in call.dst .. d - 1
                  THEN IF call.op = "memcpy" THEN call.src + (a - call.dst) ELSE FILL
                  ELSE a]

(* string.S:63, 20: whatever the alignment of its two regions, memcpy ends *)
(* with every byte of the source, and no other, in the destination, and    *)
(* memset with every byte filled;  a load or store of words never meets an *)
(* address that is not aligned.                                            *)
CopiesExactly ==
  /\ pc # "fault"
  /\ pc = "done" /\ call.op \in {"memcpy", "memset"} => mem = Filled(call.dst + call.len)

(* What a text says: the value of its digits as a number with no bound,    *)
(* held to the largest word, and its opposite modulo the word after '-'.   *)
Value(t, b) ==
  LET v[k \in 0 .. Len(t)] == IF k = 0 THEN 0 ELSE v[k - 1] * b + DigitValue(t[k]) IN v[Len(t)]

Says(t, b, number, end) ==
  \E sp \in 0 .. Len(t) : \E sg \in 0 .. 1 : \E px \in {0, 2} : \E n \in 0 .. Len(t) :
    LET p  == sp + sg + px
        bb == IF px = 2 THEN 16 ELSE IF b # 0 THEN b ELSE IF Char(t, p + 1) = "0" THEN 8 ELSE 10
        v  == Value(SubSeq(t, p + 1, p + n), bb)
    IN  /\ p + n <= Len(t)
        /\ \A k \in 1 .. sp : t[k] = " "
        /\ Char(t, sp + 1) # " "
        /\ (sg = 1) <=> Char(t, sp + 1) \in {"-", "+"}
        /\ (px = 2) <=> (b \in {0, 16} /\ Char(t, sp + sg + 1) = "0" /\ Char(t, sp + sg + 2) = "x")
        /\ \A k \in p + 1 .. p + n : IsDigit(t[k]) /\ DigitValue(t[k]) < bb
        /\ ~ (IsDigit(Char(t, p + n + 1)) /\ DigitValue(Char(t, p + n + 1)) < bb)
        /\ end = IF n = 0 THEN 1 ELSE p + n + 1
        /\ number = IF v > ULONG_MAX THEN ULONG_MAX
                    ELSE IF Char(t, sp + 1) = "-" THEN (-v) % (2 * Half) ELSE v

(* strtoul.c:28: the loop that guards each digit against overflow computes *)
(* what the text says, and stops at the first character that is not of it. *)
NumberRead == (pc = "done" /\ call.op = "strtoul") => Says(call.text, call.base, acc, pos)

(* itoa.c:28: a number written in either base, the least one and those     *)
(* that are an address with its top bit set included, is read back as the  *)
(* same word, and no digit is left over.                                   *)
RoundTrip == (pc = "done" /\ call.op = "itoa") => acc = call.num % (2 * Half) /\ pos = Len(out) + 1
=============================================================================
