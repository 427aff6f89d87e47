--------------------------- MODULE CommandProofs ---------------------------
(***************************************************************************)
(* Proofs about the command line and the library under it.  For lines of   *)
(* every length, whatever the numbers in them: the loader is called        *)
(* exactly for the lines that say what to do.  memcpy and memset, for      *)
(* regions of every length and alignment;  strtoul and itoa, for every     *)
(* text, number and size of a word.                                        *)
(***************************************************************************)
EXTENDS Command, Library, SequenceTheorems, WellFoundedInduction, TLAPS

(* Least element: induction over naturals without an induction scheme. *)
LEMMA LeastNatural ==
  ASSUME NEW T \in SUBSET Nat, T # {}
  PROVE  \E n \in T : \A m \in T : n <= m
<1> DEFINE R == {p \in Nat \X Nat : p[1] < p[2]}
<1>1. IsWellFoundedOn(R, Nat) BY NatLessThanWellFounded DEF OpToRel
<1>2. ASSUME NEW x \in Nat, NEW y \in Nat, y < x PROVE <<y, x>> \in R BY <1>2
<1> HIDE DEF R
<1>3. PICK x \in T : \A y \in T : <<y, x>> \notin R BY <1>1, WFMin
<1>4. \A y \in T : ~ (y < x) BY <1>2, <1>3
<1> QED BY <1>4

-----------------------------------------------------------------------------
(* The items of the line, and its end after them. *)
LEMMA ItemsAre ==
  ASSUME line \in Seq(Items)
  PROVE  /\ Len(line) \in Nat /\ DOMAIN line = 1 .. Len(line)
         /\ \A i \in 1 .. Len(line) : At(i) = line[i] /\ line[i] \in Items /\ line[i] # "end"
         /\ \A i \in Nat : i > Len(line) => At(i) = "end"
<1>1. Len(line) \in Nat /\ DOMAIN line = 1 .. Len(line) /\ \A i \in 1 .. Len(line) : line[i] \in Items
  BY LenProperties, ElementOfSeq
<1> QED BY <1>1, NamesAssumption DEF At

(* The recursion of SqueezedTo has a solution, which is the one it takes. *)
OneMore(q, c) == IF c = "space" THEN q ELSE Append(q, c)
Squeezes(s, n) == s = [i \in 0 .. n |-> IF i = 0 THEN <<>> ELSE OneMore(s[i - 1], line[i])]

LEMMA SqueezeExists ==
  ASSUME NEW n \in Nat
  PROVE  \E s : Squeezes(s, n)
<1> SUFFICES ASSUME \A s : ~ Squeezes(s, n) PROVE FALSE OBVIOUS
<1> DEFINE T == {k \in Nat : \A s : ~ Squeezes(s, k)}
<1>1. PICK k \in T : \A j \in T : k <= j
  <2>1. T \in SUBSET Nat /\ T # {} OBVIOUS
  <2> QED BY <2>1, LeastNatural
<1>2. CASE k = 0
  <2>1. Squeezes([i \in 0 .. 0 |-> <<>>], 0) BY DEF Squeezes
  <2> QED BY <2>1, <1>1, <1>2
<1>3. CASE k # 0
  <2>1. k \in Nat /\ k - 1 \in Nat /\ k - 1 \notin T BY <1>1, <1>3
  <2>2. PICK s : Squeezes(s, k - 1) BY <2>1
  <2> DEFINE r == [i \in 0 .. k |-> IF i = k THEN OneMore(s[k - 1], line[k]) ELSE s[i]]
             b == [i \in 0 .. k |-> IF i = 0 THEN <<>> ELSE OneMore(r[i - 1], line[i])]
  <2>3. ASSUME NEW i \in 0 .. k PROVE r[i] = b[i]
    <3>1. CASE i = k
      <4>1. k - 1 \in 0 .. k /\ k - 1 # k BY <2>1
      <4> QED BY <3>1, <4>1, <1>3
    <3>2. CASE i # k
      <4>1. i \in 0 .. k - 1 BY <2>1, <3>2
      <4>2. s[i] = IF i = 0 THEN <<>> ELSE OneMore(s[i - 1], line[i]) BY <4>1, <2>2 DEF Squeezes
      <4>3. i # 0 => r[i - 1] = s[i - 1]
        <5>1. i # 0 => i - 1 \in 0 .. k /\ i - 1 # k BY <4>1, <2>1
        <5> QED BY <5>1
      <4> QED BY <3>2, <4>2, <4>3
    <3> QED BY <3>1, <3>2
  <2>4. r = b BY <2>3
  <2>5. Squeezes(r, k) BY <2>4 DEF Squeezes
  <2> QED BY <2>5, <1>1
<1> QED BY <1>2, <1>3

LEMMA SqueezedIs ==
  ASSUME line \in Seq(Items)
  PROVE  /\ SqueezedTo(0) = <<>>
         /\ \A k \in 1 .. Len(line) : SqueezedTo(k) = OneMore(SqueezedTo(k - 1), line[k])
<1>1. Len(line) \in Nat BY ItemsAre
<1> DEFINE s == CHOOSE f : Squeezes(f, Len(line))
<1>2. Squeezes(s, Len(line)) BY <1>1, SqueezeExists
<1> HIDE DEF s
<1>3. ASSUME NEW k PROVE SqueezedTo(k) = s[k]
  BY DEF SqueezedTo, s, Squeezes, OneMore
<1>4. \A k \in 0 .. Len(line) : s[k] = IF k = 0 THEN <<>> ELSE OneMore(s[k - 1], line[k])
  BY <1>2 DEF Squeezes
<1>5. s[0] = <<>> BY <1>1, <1>4
<1>6. \A k \in 1 .. Len(line) : s[k] = OneMore(s[k - 1], line[k]) BY <1>1, <1>4
<1> QED BY <1>3, <1>5, <1>6

LEMMA SqueezedType ==
  ASSUME line \in Seq(Items), NEW n \in 0 .. Len(line)
  PROVE  SqueezedTo(n) \in Seq(Items)
<1> SUFFICES ASSUME SqueezedTo(n) \notin Seq(Items) PROVE FALSE OBVIOUS
<1> DEFINE T == {k \in 0 .. Len(line) : SqueezedTo(k) \notin Seq(Items)}
<1>0. Len(line) \in Nat BY ItemsAre
<1>1. PICK k \in T : \A j \in T : k <= j
  <2>1. T \in SUBSET Nat /\ T # {} BY <1>0
  <2> QED BY <2>1, LeastNatural
<1>2. k # 0
  <2>1. <<>> \in Seq(Items) OBVIOUS
  <2> QED BY <2>1, <1>1, SqueezedIs
<1>3. k \in 1 .. Len(line) /\ k - 1 \in 0 .. Len(line) /\ k - 1 \notin T BY <1>0, <1>1, <1>2
<1>4. SqueezedTo(k - 1) \in Seq(Items) /\ line[k] \in Items BY <1>3, ItemsAre
<1>5. \A q \in Seq(Items), c \in Items : OneMore(q, c) \in Seq(Items)
  BY AppendProperties DEF OneMore
<1> QED BY <1>1, <1>3, <1>4, <1>5, SqueezedIs

(* What is read later begins with what is read earlier. *)
IsStart(q, r) == Len(q) <= Len(r) /\ \A i \in 1 .. Len(q) : r[i] = q[i]

LEMMA StartOfMore ==
  ASSUME line \in Seq(Items), NEW k \in 1 .. Len(line)
  PROVE  /\ IsStart(SqueezedTo(k - 1), SqueezedTo(k))
         /\ line[k] = "space" => SqueezedTo(k) = SqueezedTo(k - 1)
         /\ line[k] # "space" => /\ Len(SqueezedTo(k)) = Len(SqueezedTo(k - 1)) + 1
                             /\ SqueezedTo(k)[Len(SqueezedTo(k - 1)) + 1] = line[k]
<1> DEFINE q == SqueezedTo(k - 1)
<1>1. k - 1 \in 0 .. Len(line) /\ line[k] \in Items BY ItemsAre
<1>2. q \in Seq(Items) BY <1>1, SqueezedType
<1>3. SqueezedTo(k) = OneMore(q, line[k]) BY SqueezedIs
<1> HIDE DEF q
<1>4. Len(q) \in Nat BY <1>2, LenProperties
<1>5. IsStart(q, Append(q, line[k])) /\ IsStart(q, q)
      /\ Len(Append(q, line[k])) = Len(q) + 1 /\ Append(q, line[k])[Len(q) + 1] = line[k]
  <2>1. /\ Len(Append(q, line[k])) = Len(q) + 1 /\ Append(q, line[k])[Len(q) + 1] = line[k]
        /\ \A i \in 1 .. Len(q) : Append(q, line[k])[i] = q[i]
    BY <1>1, <1>2, AppendProperties
  <2> QED BY <2>1, <1>4 DEF IsStart
<1> QED BY <1>3, <1>5 DEF OneMore, q

LEMMA StartOfLater ==
  ASSUME line \in Seq(Items), NEW j \in 0 .. Len(line), NEW n \in j .. Len(line)
  PROVE  IsStart(SqueezedTo(j), SqueezedTo(n))
<1> SUFFICES ASSUME ~ IsStart(SqueezedTo(j), SqueezedTo(n)) PROVE FALSE OBVIOUS
<1> DEFINE T == {k \in j .. Len(line) : ~ IsStart(SqueezedTo(j), SqueezedTo(k))}
<1>0. Len(line) \in Nat BY ItemsAre
<1>1. PICK k \in T : \A i \in T : k <= i
  <2>1. T \in SUBSET Nat /\ T # {} BY <1>0
  <2> QED BY <2>1, LeastNatural
<1>2. ASSUME NEW i \in 0 .. Len(line) PROVE Len(SqueezedTo(i)) \in Nat
  BY SqueezedType, LenProperties
<1>3. k # j
  <2>1. Len(SqueezedTo(j)) \in Nat BY <1>2
  <2>2. IsStart(SqueezedTo(j), SqueezedTo(j)) BY <2>1 DEF IsStart
  <2> QED BY <2>2, <1>1
<1>4. k \in 1 .. Len(line) /\ k - 1 \in j .. Len(line) /\ k - 1 \notin T BY <1>0, <1>1, <1>3
<1>5. IsStart(SqueezedTo(j), SqueezedTo(k - 1)) BY <1>4
<1>6. IsStart(SqueezedTo(k - 1), SqueezedTo(k)) BY <1>4, StartOfMore
<1>7. Len(SqueezedTo(j)) \in Nat /\ Len(SqueezedTo(k - 1)) \in Nat /\ Len(SqueezedTo(k)) \in Nat
  <2>1. k - 1 \in 0 .. Len(line) /\ k \in 0 .. Len(line) BY <1>0, <1>4
  <2> QED BY <2>1, <1>2
<1>8. IsStart(SqueezedTo(j), SqueezedTo(k)) BY <1>5, <1>6, <1>7 DEF IsStart
<1> QED BY <1>1, <1>8

-----------------------------------------------------------------------------
(* The parser stands at item p, which is no space, and n items have been   *)
(* read.                                                                   *)
SeenAt(p, n) == p \in 1 .. Len(line) + 1 /\ At(p) # "space" /\ Len(SqueezedTo(p - 1)) = n
Is(i, c) == i <= Len(Squeezed) /\ Squeezed[i] = c

LEMMA SkippedIs ==
  ASSUME line \in Seq(Items), NEW i \in 1 .. Len(line) + 1
  PROVE  /\ Skipped(i) \in i .. Len(line) + 1 /\ At(Skipped(i)) # "space"
         /\ \A j \in i .. Skipped(i) - 1 : At(j) = "space"
<1> DEFINE T == {k \in i .. Len(line) + 1 : At(k) # "space"}
<1>0. Len(line) \in Nat /\ At(Len(line) + 1) = "end" BY ItemsAre
<1>1. PICK k \in T : \A j \in T : k <= j
  <2>1. Len(line) + 1 \in T BY <1>0
  <2>2. T \in SUBSET Nat /\ T # {} BY <1>0, <2>1
  <2> QED BY <2>2, LeastNatural
<1>2. k \in i .. Len(line) + 1 /\ At(k) # "space" BY <1>1
<1>3. ASSUME NEW j \in i .. k - 1 PROVE At(j) = "space"
  <2>1. j \in i .. Len(line) + 1 /\ ~ (k <= j) BY <1>0, <1>2
  <2> QED BY <2>1, <1>1
<1> QED BY <1>2, <1>3 DEF Skipped

LEMMA SkipKeeps ==
  ASSUME line \in Seq(Items), NEW i \in 1 .. Len(line) + 1
  PROVE  SqueezedTo(Skipped(i) - 1) = SqueezedTo(i - 1)
<1> SUFFICES ASSUME SqueezedTo(Skipped(i) - 1) # SqueezedTo(i - 1) PROVE FALSE OBVIOUS
<1> DEFINE e == Skipped(i)
           T == {k \in i - 1 .. e - 1 : SqueezedTo(k) # SqueezedTo(i - 1)}
<1>0. Len(line) \in Nat BY ItemsAre
<1>1. e \in i .. Len(line) + 1 /\ \A j \in i .. e - 1 : At(j) = "space" BY SkippedIs
<1> HIDE DEF e
<1>2. PICK k \in T : \A j \in T : k <= j
  <2>1. T \in SUBSET Nat BY <1>0, <1>1
  <2>2. e - 1 \in T BY <1>0, <1>1 DEF e
  <2> QED BY <2>1, <2>2, LeastNatural
<1>3. k # i - 1 BY <1>2
<1>4. k \in i .. e - 1 /\ k \in 1 .. Len(line) /\ k - 1 \in i - 1 .. e - 1 BY <1>0, <1>1, <1>2, <1>3
<1>5. k - 1 \notin T BY <1>2, <1>4
<1>6. line[k] = "space"
  <2>1. At(k) = "space" /\ At(k) = line[k] BY <1>1, <1>4, ItemsAre
  <2> QED BY <2>1
<1>7. SqueezedTo(k) = SqueezedTo(k - 1) BY <1>4, <1>6, StartOfMore
<1> QED BY <1>2, <1>4, <1>5, <1>7

(* What stands before the parser is the next item of the line. *)
LEMMA NextItem ==
  ASSUME line \in Seq(Items), NEW p, NEW n, SeenAt(p, n), At(p) # "end"
  PROVE  /\ p \in 1 .. Len(line) /\ n \in Nat /\ n < Len(Squeezed) /\ Is(n + 1, At(p)) /\ Len(Squeezed) \in Nat
         /\ SeenAt(Skipped(p + 1), n + 1)
<1>0. Len(line) \in Nat /\ p \in 1 .. Len(line) + 1 /\ At(p) # "space" BY ItemsAre DEF SeenAt
<1>1. p \in 1 .. Len(line)
  <2>1. p # Len(line) + 1
    <3>1. At(Len(line) + 1) = "end" BY <1>0, ItemsAre
    <3> QED BY <3>1
  <2> QED BY <1>0, <2>1
<1>2. At(p) = line[p] /\ line[p] # "space" BY <1>0, <1>1, ItemsAre
<1> DEFINE q == SqueezedTo(p)
           all == SqueezedTo(Len(line))
<1>3. Len(q) = n + 1 /\ q[n + 1] = line[p]
  <2>1. Len(SqueezedTo(p - 1)) = n BY DEF SeenAt
  <2> QED BY <2>1, <1>1, <1>2, StartOfMore
<1>4. n \in Nat
  <2>1. p - 1 \in 0 .. Len(line) /\ Len(SqueezedTo(p - 1)) = n BY <1>0 DEF SeenAt
  <2> QED BY <2>1, SqueezedType, LenProperties
<1>5. IsStart(q, all)
  <2>1. p \in 0 .. Len(line) /\ Len(line) \in p .. Len(line) BY <1>0, <1>1
  <2> QED BY <2>1, StartOfLater
<1>6. Len(all) \in Nat
  <2>1. Len(line) \in 0 .. Len(line) BY <1>0
  <2> QED BY <2>1, SqueezedType, LenProperties
<1>7. n < Len(all) /\ n + 1 <= Len(all) /\ all[n + 1] = line[p]
  <2> HIDE DEF q, all
  <2>1. n + 1 \in 1 .. Len(q) BY <1>3, <1>4
  <2> QED BY <2>1, <1>3, <1>4, <1>5, <1>6 DEF IsStart
<1>8. SeenAt(Skipped(p + 1), n + 1)
  <2>1. p + 1 \in 1 .. Len(line) + 1 BY <1>0, <1>1
  <2>2. Skipped(p + 1) \in p + 1 .. Len(line) + 1 /\ At(Skipped(p + 1)) # "space" BY <2>1, SkippedIs
  <2>4. p + 1 - 1 = p BY <1>1
  <2>3. SqueezedTo(Skipped(p + 1) - 1) = SqueezedTo(p)
    <3> DEFINE m == p + 1
    <3>1. m \in 1 .. Len(line) + 1 /\ m - 1 = p BY <1>0, <1>1
    <3> HIDE DEF m
    <3>0. \A k \in 1 .. Len(line) + 1 : SqueezedTo(Skipped(k) - 1) = SqueezedTo(k - 1) BY SkipKeeps
    <3>2. SqueezedTo(Skipped(m) - 1) = SqueezedTo(m - 1) BY <3>0, <3>1, Zenon
    <3>3. SqueezedTo(Skipped(m) - 1) = SqueezedTo(p) BY <3>1, <3>2
    <3> QED BY <3>3 DEF m
  <2>5. Skipped(p + 1) \in 1 .. Len(line) + 1 BY <2>2, <1>1
  <2> QED BY <2>2, <2>3, <2>4, <2>5, <1>3 DEF SeenAt
<1> QED BY <1>1, <1>2, <1>4, <1>6, <1>7, <1>8 DEF Is, Squeezed

(* At the end of the line every item has been read. *)
LEMMA NoItem ==
  ASSUME line \in Seq(Items), NEW p, NEW n, SeenAt(p, n), At(p) = "end"
  PROVE  n = Len(Squeezed) /\ n \in Nat /\ p = Len(line) + 1
<1>0. Len(line) \in Nat /\ p \in 1 .. Len(line) + 1 BY ItemsAre DEF SeenAt
<1>1. p = Len(line) + 1
  <2>1. p \notin 1 .. Len(line) BY ItemsAre
  <2> QED BY <1>0, <2>1
<1>2. p - 1 = Len(line) /\ Len(line) \in 0 .. Len(line) BY <1>0, <1>1
<1>3. Len(SqueezedTo(Len(line))) = n BY <1>2 DEF SeenAt
<1>4. n \in Nat BY <1>2, <1>3, SqueezedType, LenProperties
<1> QED BY <1>1, <1>3, <1>4 DEF Squeezed

(* GETCMDSTRING: an item that a space or the end follows is a word of one. *)
LEMMA WordIs ==
  ASSUME line \in Seq(Items), NEW i \in 1 .. Len(line) + 1
  PROVE  /\ \A a : Word(i) = <<a>> => /\ i \in 1 .. Len(line) /\ At(i) = a
                                      /\ At(i + 1) \in {"space", "end"} /\ WordEnd(i) = i + 1
         /\ At(i) \notin {"space", "end"} /\ At(i + 1) \in {"space", "end"} => Word(i) = <<At(i)>> /\ WordEnd(i) = i + 1
         /\ WordEnd(i) \in i .. Len(line) + 1
<1> DEFINE T == {k \in i .. Len(line) + 1 : At(k) \in {"space", "end"}}
           e == WordEnd(i)
<1>0. Len(line) \in Nat /\ At(Len(line) + 1) = "end" /\ \A k \in 1 .. Len(line) : At(k) = line[k]
  BY ItemsAre
<1>1. PICK k \in T : \A j \in T : k <= j
  <2>1. Len(line) + 1 \in T BY <1>0
  <2>2. T \in SUBSET Nat /\ T # {} BY <1>0, <2>1
  <2> QED BY <2>2, LeastNatural
<1>2. k \in i .. Len(line) + 1 /\ At(k) \in {"space", "end"} BY <1>1
<1>3. ASSUME NEW j \in i .. k - 1 PROVE At(j) \notin {"space", "end"}
  <2>1. j \in i .. Len(line) + 1 /\ ~ (k <= j) BY <1>0, <1>2
  <2> QED BY <2>1, <1>1
<1>4. e \in i .. Len(line) + 1 /\ At(e) \in {"space", "end"} /\ \A j \in i .. e - 1 : At(j) \notin {"space", "end"}
  BY <1>2, <1>3 DEF WordEnd
<1>5. Word(i) = SubSeq(line, i, e - 1) BY DEF Word
<1> HIDE DEF e
<1>6. ASSUME NEW a, Word(i) = <<a>>
      PROVE  i \in 1 .. Len(line) /\ At(i) = a /\ At(i + 1) \in {"space", "end"} /\ e = i + 1
  <2>0. Len(<<a>>) = 1 /\ <<a>>[1] = a OBVIOUS
  <2>1. Len(SubSeq(line, i, e - 1)) = 1 /\ SubSeq(line, i, e - 1)[1] = a BY <1>5, <1>6, <2>0, Zenon
  <2>2. Len(SubSeq(line, i, e - 1)) = IF i <= e - 1 THEN e - 1 - i + 1 ELSE 0 BY <1>0, <1>4
  <2>3. e = i + 1 /\ i \in 1 .. Len(line) BY <2>1, <2>2, <1>0, <1>4
  <2>4. SubSeq(line, i, e - 1)[1] = line[i] BY <2>3, <1>0
  <2> QED BY <2>1, <2>3, <2>4, <1>0, <1>4
<1>7. ASSUME At(i) \notin {"space", "end"}, At(i + 1) \in {"space", "end"}
      PROVE  Word(i) = <<At(i)>> /\ e = i + 1
  <2>1. i \in 1 .. Len(line)
    <3>1. i # Len(line) + 1 BY <1>0, <1>7
    <3> QED BY <3>1, <1>0
  <2>2. e # i BY <1>4, <1>7
  <2>3. ~ (i + 1 \in i .. e - 1) BY <1>4, <1>7
  <2>4. e = i + 1 BY <1>0, <1>4, <2>1, <2>2, <2>3
  <2>5. SubSeq(line, i, i) = <<line[i]>>
    <3> DEFINE q == SubSeq(line, i, i)
    <3>1. q \in Seq(Items) /\ Len(q) = 1 /\ q[1] = line[i]
      <4>1. line[i] \in Items /\ i \in 1 .. Len(line) + 1 /\ i \in i - 1 .. Len(line) BY <2>1, ItemsAre
      <4> QED BY <4>1, SubSeqProperties
    <3> HIDE DEF q
    <3>2. line[i] \in Items BY <2>1, ItemsAre
    <3>3. <<line[i]>> \in Seq(Items) /\ Len(<<line[i]>>) = 1 /\ <<line[i]>>[1] = line[i] BY <3>2
    <3>4. \A j \in 1 .. Len(q) : q[j] = <<line[i]>>[j] BY <3>1, <3>3
    <3>5. q = <<line[i]>> BY <3>1, <3>3, <3>4, SeqEqual
    <3> QED BY <3>5 DEF q
  <2> QED BY <2>1, <2>4, <2>5, <1>0, <1>5
<1> QED BY <1>4, <1>6, <1>7 DEF e

(* The same, read off the items of the line without the spaces.            *)
LEMMA ItemAt ==
  ASSUME line \in Seq(Items), NEW p, NEW n, SeenAt(p, n)
  PROVE  /\ Len(Squeezed) \in Nat /\ n \in 0 .. Len(Squeezed) /\ p \in 1 .. Len(line) + 1
         /\ At(p) = "end" => n = Len(Squeezed) /\ p = Len(line) + 1
         /\ At(p) # "end" => /\ n < Len(Squeezed) /\ At(p) = Squeezed[n + 1]
                             /\ p \in 1 .. Len(line) /\ At(p) = line[p]
                             /\ SeenAt(Skipped(p + 1), n + 1)
<1>0. Len(line) \in Nat BY ItemsAre
<1>1. CASE At(p) = "end"
  <2>1. n = Len(Squeezed) /\ n \in Nat /\ p = Len(line) + 1 BY <1>1, NoItem
  <2> QED BY <2>1, <1>0, <1>1
<1>2. CASE At(p) # "end"
  <2>1. /\ p \in 1 .. Len(line) /\ n \in Nat /\ n < Len(Squeezed) /\ Is(n + 1, At(p))
        /\ Len(Squeezed) \in Nat /\ SeenAt(Skipped(p + 1), n + 1)
    BY <1>2, NextItem
  <2>2. At(p) = line[p] BY <2>1, ItemsAre
  <2>3. At(p) = Squeezed[n + 1] BY <2>1 DEF Is
  <2> QED BY <2>1, <2>2, <2>3, <1>0, <1>2
<1> QED BY <1>1, <1>2

(* Up to the parser a space or the end follows every number and word. *)
Alone(p) == \A i \in 1 .. p - 1 : At(i) \in Numbers \cup Names => At(i + 1) \in {"space", "end"}

LEMMA AloneOn ==
  ASSUME line \in Seq(Items), NEW p \in 1 .. Len(line), Alone(p),
         At(p) \in Numbers \cup Names => At(p + 1) \in {"space", "end"}
  PROVE  Alone(Skipped(p + 1))
<1>0. Len(line) \in Nat BY ItemsAre
<1>1. p + 1 \in 1 .. Len(line) + 1 BY <1>0
<1> DEFINE e == Skipped(p + 1)
<1>2. e \in p + 1 .. Len(line) + 1 /\ \A j \in p + 1 .. e - 1 : At(j) = "space" BY <1>1, SkippedIs
<1> HIDE DEF e
<1>3. "space" \notin Numbers \cup Names BY NumbersAssumption, NamesAssumption DEF Symbols
<1>4. ASSUME NEW i \in 1 .. e - 1, At(i) \in Numbers \cup Names PROVE At(i + 1) \in {"space", "end"}
  <2>1. i \notin p + 1 .. e - 1 BY <1>2, <1>3, <1>4
  <2>2. i \in 1 .. p - 1 \/ i = p BY <1>0, <1>2, <2>1
  <2>3. CASE i = p BY <2>3, <1>4
  <2>4. CASE i \in 1 .. p - 1 BY <2>4, <1>4 DEF Alone
  <2> QED BY <2>2, <2>3, <2>4
<1> QED BY <1>4 DEF Alone, e

LEMMA AloneAll ==
  ASSUME line \in Seq(Items), Alone(Len(line) + 1)
  PROVE  StandAlone
<1>1. Len(line) \in Nat /\ DOMAIN line = 1 .. Len(line) /\ \A i \in 1 .. Len(line) : At(i) = line[i]
  BY ItemsAre
<1>2. Len(line) + 1 - 1 = Len(line) BY <1>1
<1>3. \A i \in 1 .. Len(line) : At(i) \in Numbers \cup Names => At(i + 1) \in {"space", "end"}
  BY <1>2 DEF Alone
<1> QED BY <1>1, <1>3 DEF StandAlone

(* A number with the space after it moves the parser over one item. *)
LEMMA UintIs ==
  ASSUME line \in Seq(Items), NEW p, NEW n, SeenAt(p, n), IsUint(p)
  PROVE  /\ At(p) # "end" /\ At(p) \in Numbers /\ n < Len(Squeezed) /\ Squeezed[n + 1] = At(p)
         /\ SeenAt(Skipped(p + 1), n + 1)
         /\ Alone(p) => Alone(Skipped(p + 1))
<1>1. At(p) \in Numbers /\ At(p + 1) \in {"space", "end"} BY DEF IsUint
<1>2. At(p) # "end" BY <1>1, NamesAssumption DEF Items
<1> QED BY <1>1, <1>2, ItemAt, AloneOn

LEMMA UintWhen ==
  ASSUME line \in Seq(Items), NEW p, NEW n, SeenAt(p, n), n < Len(Squeezed),
         Squeezed[n + 1] \in Numbers, StandAlone \/ Apart
  PROVE  IsUint(p) /\ At(p) = Squeezed[n + 1] /\ SeenAt(Skipped(p + 1), n + 1)
<1>1. /\ Len(Squeezed) \in Nat /\ n \in 0 .. Len(Squeezed)
      /\ At(p) = "end" => n = Len(Squeezed)
      /\ At(p) # "end" => At(p) = Squeezed[n + 1] /\ p \in 1 .. Len(line) /\ At(p) = line[p] /\ SeenAt(Skipped(p + 1), n + 1)
  BY ItemAt
<1>2. At(p) # "end" BY <1>1
<1>3. p \in DOMAIN line /\ line[p] \in Numbers BY <1>1, <1>2, ItemsAre
<1>4. "space" \notin Numbers BY NumbersAssumption DEF Symbols
<1>5. At(p + 1) \in {"space", "end"} BY <1>3, <1>4 DEF StandAlone, Apart
<1> QED BY <1>1, <1>2, <1>3, <1>5 DEF IsUint

-----------------------------------------------------------------------------
(* What has been parsed is what the line says.                             *)
CoreRight(c) ==
  /\ c = GoCoreOf
  /\ Bracketed => \/ Squeezed[3] = "*"
                  \/ /\ Squeezed[3] \in Numbers
                     /\ ValueOf[Squeezed[3]] \in (0 .. CPU_CORE_COUNT - 1) \cup {AllCores}
NumberAt(i, v) == i <= Len(Squeezed) /\ Squeezed[i] \in Numbers /\ v = ValueAt(i)

GoAt(p, n, c) == At(1) = "go" /\ SeenAt(p, n) /\ Alone(p) /\ CoreRight(c)
GoArgAt(p, n, c, a, v) ==
  /\ GoAt(p, n, c) /\ NumberAt(FirstNumber, a) /\ v = ValueAt(FirstNumber + 1)
  /\ \/ n = FirstNumber /\ At(p) = "end"
     \/ n = FirstNumber + 1 /\ n <= Len(Squeezed) /\ Squeezed[n] \in Numbers
LoadAt(p, n, k) == At(1) = "load" /\ SeenAt(p, n) /\ k \in {"serial", "sd"} /\ Is(2, k)

(* An answer is the right one for the line. *)
Right(a) ==
  /\ At(1) = "go" =>
       IF IsGo /\ StandAlone THEN a = TheGo
       ELSE a = Usage("go") \/ a.fn = "unknown" \/ (IsGo /\ ClosedTight /\ a = TheGo)
  /\ Apart /\ At(1) # "go" =>
       IF TheOther # Nothing THEN a = TheOther ELSE a.fn \in {"usage", "help", "unknown"}

LineInv ==
  /\ line \in Seq(Items)
  /\ st \in {"gets", "action"} => ptr = 1
  /\ st \in {"gets", "action", "go"} => core = 0
  /\ st \in {"gets", "action", "go", "goAddr", "arg0"} => arg0 = 0
  /\ st = "action" => line # <<>>
  /\ st \in Actions => At(1) = st /\ SeenAt(ptr, 1) /\ Alone(ptr)
  /\ st = "goAddr" => GoAt(ptr, FirstNumber - 1, core)
  /\ st = "arg0" => GoAt(ptr, FirstNumber, core) /\ NumberAt(FirstNumber, addr)
  /\ st = "arg1" => \E n : GoArgAt(ptr, n, core, addr, arg0)
  /\ st = "loadAddr" => LoadAt(ptr, 2, kind)
  /\ st = "loadLast" => LoadAt(ptr, 3, kind) /\ NumberAt(3, addr)
  /\ st = "readEnd" => At(1) = "read" /\ SeenAt(ptr, 2) /\ NumberAt(2, addr)
  /\ st = "writeValue" => At(1) = "write" /\ SeenAt(ptr, 2) /\ NumberAt(2, addr)
  /\ st = "done" => Right(called)

LEMMA SameLine ==
  ASSUME line' = line
  PROVE  /\ \A i : At(i)' = At(i) /\ ValueAt(i)' = ValueAt(i)
         /\ Squeezed' = Squeezed /\ FirstNumber' = FirstNumber
         /\ \A p, n : SeenAt(p, n)' <=> SeenAt(p, n)
         /\ \A p : Alone(p)' <=> Alone(p)
         /\ \A c : CoreRight(c)' <=> CoreRight(c)
         /\ \A i, v : NumberAt(i, v)' <=> NumberAt(i, v)
         /\ \A a : Right(a)' <=> Right(a)
<1>1. \A i : At(i)' = At(i) BY DEF At
<1>2. \A i : SqueezedTo(i)' = SqueezedTo(i) BY DEF SqueezedTo
<1>3. Squeezed' = Squeezed BY <1>2 DEF Squeezed
<1>4. \A i : ValueAt(i)' = ValueAt(i) BY <1>3 DEF ValueAt
<1>5. Bracketed' <=> Bracketed BY <1>3 DEF Bracketed
<1>6. FirstNumber' = FirstNumber BY <1>5 DEF FirstNumber
<1>7. GoCoreOf' = GoCoreOf BY <1>3, <1>5 DEF GoCoreOf
<1>8. \A p, n : SeenAt(p, n)' <=> SeenAt(p, n) BY <1>1, <1>2 DEF SeenAt
<1>9. \A p : Alone(p)' <=> Alone(p) BY <1>1 DEF Alone
<1>10. \A c : CoreRight(c)' <=> CoreRight(c) BY <1>3, <1>5, <1>7 DEF CoreRight
<1>11. \A i, v : NumberAt(i, v)' <=> NumberAt(i, v) BY <1>3, <1>4 DEF NumberAt
<1>12. \A i : NumbersFrom(i)' <=> NumbersFrom(i) BY <1>3 DEF NumbersFrom
<1>13. IsGo' <=> IsGo BY <1>1, <1>3, <1>5, <1>6, <1>12 DEF IsGo
<1>14. TheGo' = TheGo BY <1>4, <1>6, <1>7 DEF TheGo
<1>15. (StandAlone' <=> StandAlone) /\ (Apart' <=> Apart) /\ (ClosedTight' <=> ClosedTight)
  BY <1>1 DEF StandAlone, Apart, ClosedTight
<1>16. \A k : IsLoad(k)' <=> IsLoad(k) BY <1>1, <1>3 DEF IsLoad
<1>17. TheOther' = TheOther BY <1>1, <1>3, <1>4, <1>12, <1>16 DEF TheOther
<1>18. \A a : Right(a)' <=> Right(a) BY <1>1, <1>13, <1>14, <1>15, <1>17 DEF Right
<1> QED BY <1>1, <1>3, <1>4, <1>6, <1>8, <1>9, <1>10, <1>11, <1>18

LEMMA Answered ==
  ASSUME LineInv, line' = line, NEW a, Answer(a), Right(a)
  PROVE  LineInv'
<1>1. Right(called)' BY SameLine DEF Answer
<1> QED BY <1>1 DEF LineInv, Answer, Actions

LEMMA WrongGo ==
  ASSUME At(1) = "go", ~ (IsGo /\ StandAlone)
  PROVE  Right(Usage("go"))
BY DEF Right

LEMMA WrongOther ==
  ASSUME NEW c, At(1) # "go", Apart => TheOther = Nothing
  PROVE  Right(Usage(c))
<1>1. Usage(c).fn = "usage" BY DEF Usage
<1> QED BY <1>1 DEF Right

LEMMA TheOtherIs ==
  /\ At(1) = "load" =>
       TheOther = IF IsLoad("serial") /\ Squeezed[4] \in Numbers
                  THEN [fn |-> "LoaderSerialLoad", addr |-> ValueAt(3), size |-> ValueAt(4)]
                  ELSE IF IsLoad("sd")
                  THEN [fn |-> "LoaderSdLoad", addr |-> ValueAt(3), file |-> <<Squeezed[4]>>]
                  ELSE Nothing
  /\ At(1) = "read" =>
       TheOther = IF Len(Squeezed) = 2 /\ NumbersFrom(2)
                  THEN [fn |-> "LoaderRead", addr |-> ValueAt(2)] ELSE Nothing
  /\ At(1) = "write" =>
       TheOther = IF Len(Squeezed) = 3 /\ NumbersFrom(2)
                  THEN [fn |-> "LoaderWrite", addr |-> ValueAt(2), data |-> ValueAt(3)] ELSE Nothing
  /\ At(1) \notin {"load", "read", "write"} => TheOther = Nothing
<1>1. CASE At(1) = "load"
  <2>1. IsLoad("serial") => ~ IsLoad("sd") BY DEF IsLoad
  <2> QED BY <1>1, <2>1 DEF TheOther
<1>2. CASE At(1) # "load"
  <2>1. ~ IsLoad("serial") /\ ~ IsLoad("sd") BY <1>2 DEF IsLoad
  <2> QED BY <1>2, <2>1 DEF TheOther
<1> QED BY <1>1, <1>2

-----------------------------------------------------------------------------
(* One lemma per action: what is asked of the line next, or the answer.    *)
LEMMA InitLine == CmdInit => LineInv
BY DEF CmdInit, LineInv, Actions

LEMMA StartLine == ASSUME LineInv, gets \/ Again PROVE LineInv'
<1>1. CASE gets
  <2>1. line' \in Seq(Items) /\ line' # <<>> BY <1>1, LinesAssumption DEF gets
  <2> QED BY <1>1, <2>1 DEF LineInv, gets, parsed, Actions
<1>2. CASE Again
  <2>1. line' \in Seq(Items) BY <1>2 DEF Again
  <2> QED BY <1>2, <2>1 DEF LineInv, Again, Actions
<1> QED BY <1>1, <1>2

LEMMA GetActionLine == ASSUME LineInv, GetAction PROVE LineInv'
<1>0. /\ line \in Seq(Items) /\ line # <<>> /\ st = "action" /\ ptr = 1 /\ line' = line
      /\ core' = 0 /\ arg0' = 0
  BY DEF LineInv, GetAction, parsed
<1>1. Len(line) \in Nat /\ Len(line) # 0 /\ 1 \in 1 .. Len(line) /\ DOMAIN line = 1 .. Len(line)
  <2>1. Len(line) \in Nat /\ Len(line) # 0 /\ DOMAIN line = 1 .. Len(line) BY <1>0, ItemsAre, EmptySeq
  <2> QED BY <2>1
<1>2. At(1) = line[1] /\ At(1) # "end" BY <1>0, <1>1, ItemsAre
<1>w. /\ \A a : Word(1) = <<a>> => At(1) = a /\ At(2) \in {"space", "end"} /\ WordEnd(1) = 2
      /\ At(1) \notin {"space", "end"} /\ At(2) \in {"space", "end"} => Word(1) = <<At(1)>>
  <2>1. 1 \in 1 .. Len(line) + 1 /\ 1 + 1 = 2 BY <1>1
  <2> QED BY <2>1, <1>0, WordIs
<1>3. CASE \E a \in Actions : Word(1) = <<a>>
  <2>1. PICK a \in Actions : Word(1) = <<a>> BY <1>3
  <2>2. At(1) = a /\ At(2) \in {"space", "end"} /\ WordEnd(1) = 2 BY <1>w, <2>1
  <2>3. ptr' = Skipped(2) /\ st' = a
    <3>1. ptr' = Skipped(WordEnd(1)) /\ st' = Word(1)[1] BY <1>0, <1>3 DEF GetAction
    <3>2. <<a>>[1] = a OBVIOUS
    <3> QED BY <2>1, <2>2, <3>1, <3>2
  <2>4. At(1) # "space" BY <2>2 DEF Actions
  <2>5. SeenAt(1, 0)
    <3>1. SqueezedTo(1 - 1) = <<>> /\ Len(<<>>) = 0 BY <1>0, SqueezedIs
    <3> QED BY <1>1, <2>4, <3>1 DEF SeenAt
  <2>6. SeenAt(Skipped(2), 1)
    <3>1. SeenAt(Skipped(1 + 1), 0 + 1) BY <1>0, <1>2, <2>5, ItemAt
    <3>2. 1 + 1 = 2 /\ 0 + 1 = 1 OBVIOUS
    <3> QED BY <3>1, <3>2
  <2>7. Alone(Skipped(2))
    <3>1. Alone(1) BY DEF Alone
    <3>2. At(1 + 1) \in {"space", "end"} /\ 1 + 1 = 2 BY <2>2
    <3>3. Alone(Skipped(1 + 1)) BY <1>0, <1>1, <3>1, <3>2, AloneOn
    <3> QED BY <3>2, <3>3
  <2>8. (At(1) = st /\ SeenAt(ptr, 1) /\ Alone(ptr))'
    BY <1>0, <2>2, <2>3, <2>6, <2>7, SameLine
  <2>9. st' \in Actions BY <2>3
  <2> QED BY <1>0, <2>8, <2>9 DEF LineInv, Actions
<1>4. CASE ~ \E a \in Actions : Word(1) = <<a>>
  <2> DEFINE u == [fn |-> "unknown"]
  <2>1. Answer(u) BY <1>0, <1>4 DEF GetAction
  <2>2. Apart => At(1) \notin Actions
    <3> SUFFICES ASSUME Apart, At(1) \in Actions PROVE FALSE OBVIOUS
    <3>1. At(1) \notin {"space", "end"} BY DEF Actions
    <3>2. At(2) \in {"space", "end"}
      <4>1. At(1 + 1) \in {"space", "end"} BY <1>1, <1>2, <3>1 DEF Apart
      <4>2. 1 + 1 = 2 OBVIOUS
      <4> QED BY <4>1, <4>2
    <3> QED BY <1>4, <1>w, <3>1, <3>2
  <2>3. u.fn = "unknown" OBVIOUS
  <2>4. Right(u)
    <3>1. CASE At(1) = "go"
      <4>1. ~ (IsGo /\ StandAlone)
        <5>1. At(1) \in Numbers \cup Names BY <3>1, NamesAssumption
        <5>2. StandAlone => At(1 + 1) \in {"space", "end"} BY <1>1, <1>2, <5>1 DEF StandAlone
        <5>3. 1 + 1 = 2 OBVIOUS
        <5>4. StandAlone => Word(1) = <<At(1)>> BY <1>w, <3>1, <5>2, <5>3
        <5> QED BY <1>4, <3>1, <5>4 DEF Actions
      <4> QED BY <2>3, <3>1, <4>1 DEF Right
    <3>2. CASE At(1) # "go"
      <4>1. Apart => TheOther = Nothing BY <2>2, TheOtherIs DEF Actions
      <4> QED BY <2>3, <3>2, <4>1 DEF Right
    <3> QED BY <3>1, <3>2
  <2> HIDE DEF u
  <2> QED BY <1>0, <2>1, <2>4, Answered
<1> QED BY <1>3, <1>4

LEMMA HelpLine == ASSUME LineInv, Help PROVE LineInv'
<1>1. st = "help" /\ line' = line /\ At(1) = "help" BY DEF Help, LineInv, Actions
<1>2. PICK a : Answer(a) /\ a.fn \in {"usage", "help"}
  <2>1. \A c : Usage(c).fn = "usage" BY DEF Usage
  <2>2. [fn |-> "help"].fn = "help" OBVIOUS
  <2> QED BY <2>1, <2>2 DEF Help
<1>3. TheOther = Nothing BY <1>1, TheOtherIs
<1>4. Right(a) BY <1>1, <1>2, <1>3 DEF Right
<1> QED BY <1>1, <1>2, <1>4, Answered

LEMMA LoadLine == ASSUME LineInv, Load PROVE LineInv'
<1>1. /\ line \in Seq(Items) /\ st = "load" /\ line' = line /\ At(1) = "load" /\ SeenAt(ptr, 1)
  BY DEF Load, LineInv, Actions
<1>2. /\ Len(Squeezed) \in Nat /\ ptr \in 1 .. Len(line) + 1 /\ At(ptr) # "space"
      /\ At(ptr) = "end" => 1 = Len(Squeezed)
      /\ At(ptr) # "end" => /\ 1 < Len(Squeezed) /\ At(ptr) = Squeezed[2]
                            /\ ptr \in 1 .. Len(line) /\ At(ptr) = line[ptr]
                            /\ SeenAt(Skipped(ptr + 1), 2)
  <2>2. At(ptr) # "space" BY <1>1 DEF SeenAt
  <2>3. /\ At(ptr) = "end" => 1 = Len(Squeezed)
        /\ At(ptr) # "end" => /\ 1 < Len(Squeezed) /\ At(ptr) = Squeezed[1 + 1]
                              /\ ptr \in 1 .. Len(line) /\ At(ptr) = line[ptr]
                              /\ SeenAt(Skipped(ptr + 1), 1 + 1)
        /\ Len(Squeezed) \in Nat /\ ptr \in 1 .. Len(line) + 1
    BY <1>1, ItemAt
  <2> QED BY <2>2, <2>3
<1>3. /\ \A a : Word(ptr) = <<a>> => At(ptr) = a /\ WordEnd(ptr) = ptr + 1
      /\ At(ptr) # "end" /\ At(ptr + 1) \in {"space", "end"} => Word(ptr) = <<At(ptr)>>
  BY <1>1, <1>2, WordIs
<1>4. CASE Word(ptr) \in {<<"serial">>, <<"sd">>}
  <2>1. PICK k \in {"serial", "sd"} : Word(ptr) = <<k>> BY <1>4
  <2>2. /\ kind' = k /\ st' = "loadAddr" /\ ptr' = Skipped(ptr + 1) /\ At(ptr) = k
    <3>1. kind' = Word(ptr)[1] /\ st' = "loadAddr" /\ ptr' = Skipped(WordEnd(ptr)) BY <1>4 DEF Load
    <3>2. <<k>>[1] = k OBVIOUS
    <3> QED BY <1>3, <2>1, <3>1, <3>2
  <2>3. At(ptr) # "end" BY <2>2
  <2>4. Is(2, k) BY <1>2, <2>2, <2>3 DEF Is
  <2>5. LoadAt(ptr, 2, kind)'
    <3>1. Is(2, k)' BY <1>1, <2>4, SameLine DEF Is
    <3>2. At(1)' = "load" /\ SeenAt(ptr, 2)' BY <1>1, <1>2, <2>2, <2>3, SameLine
    <3> QED BY <2>2, <3>1, <3>2 DEF LoadAt
  <2> QED BY <1>1, <2>2, <2>5 DEF LineInv, Actions
<1>5. CASE Word(ptr) \notin {<<"serial">>, <<"sd">>}
  <2>1. Answer(Usage("load")) BY <1>5 DEF Load
  <2>2. Apart => TheOther = Nothing
    <3> SUFFICES ASSUME Apart, TheOther # Nothing PROVE FALSE OBVIOUS
    <3>1. PICK k \in {"serial", "sd"} : Len(Squeezed) = 4 /\ Squeezed[2] = k
      BY <1>1, TheOtherIs DEF IsLoad
    <3>2. At(ptr) # "end" /\ At(ptr) = k BY <1>2, <3>1
    <3>3. At(ptr + 1) \in {"space", "end"}
      <4>1. ptr \in DOMAIN line BY <1>1, <1>2, <3>2, ItemsAre
      <4> QED BY <1>2, <3>2, <4>1 DEF Apart
    <3> QED BY <1>3, <1>5, <3>2, <3>3
  <2>3. Right(Usage("load")) BY <1>1, <2>2, WrongOther
  <2> QED BY <1>1, <2>1, <2>3, Answered
<1> QED BY <1>4, <1>5

(* A line that starts an application has the core at 3 if it has brackets, *)
(* and only numbers, one to three, from FirstNumber on.                    *)
LEMMA GoShape ==
  ASSUME line \in Seq(Items), IsGo
  PROVE  /\ FirstNumber <= Len(Squeezed) /\ Len(Squeezed) <= FirstNumber + 2
         /\ FirstNumber \in {2, 5} /\ Len(Squeezed) \in Nat
         /\ \A i \in FirstNumber .. Len(Squeezed) : Squeezed[i] \in Numbers
<1>1. Len(Squeezed) \in Nat
  <2>1. Len(line) \in 0 .. Len(line) BY ItemsAre
  <2> QED BY <2>1, SqueezedType, LenProperties DEF Squeezed
<1>2. FirstNumber \in {2, 5} BY DEF FirstNumber
<1>3. Len(Squeezed) - FirstNumber \in 0 .. 2 /\ NumbersFrom(FirstNumber) BY DEF IsGo
<1> QED BY <1>1, <1>2, <1>3 DEF NumbersFrom

LEMMA GoNoCoreLine == ASSUME LineInv, GoNoCore PROVE LineInv'
<1>1. /\ line \in Seq(Items) /\ st = "go" /\ line' = line /\ ptr' = ptr /\ st' = "goAddr"
      /\ At(1) = "go" /\ SeenAt(ptr, 1) /\ Alone(ptr) /\ core = 0 /\ core' = 0 /\ arg0' = 0
      /\ At(ptr) # "<"
  BY DEF GoNoCore, LineInv, Actions, parsed, Here
<1>2. ~ Bracketed
  <2>1. Len(Squeezed) \in Nat /\ (At(ptr) = "end" => 1 = Len(Squeezed))
        /\ (At(ptr) # "end" => At(ptr) = Squeezed[1 + 1])
    BY <1>1, ItemAt
  <2> QED BY <1>1, <2>1 DEF Bracketed
<1>3. FirstNumber = 2 /\ CoreRight(0) BY <1>2 DEF FirstNumber, CoreRight, GoCoreOf
<1>4. FirstNumber' - 1 = 1 BY <1>1, <1>3, SameLine
<1>5. GoAt(ptr, FirstNumber - 1, core)'
  <2>1. (At(1) = "go" /\ SeenAt(ptr, 1) /\ Alone(ptr) /\ CoreRight(core))'
    BY <1>1, <1>3, SameLine
  <2> QED BY <1>4, <2>1 DEF GoAt
<1> QED BY <1>1, <1>5 DEF LineInv, Actions

LEMMA GoCoreLine == ASSUME LineInv, GoCore PROVE LineInv'
<1> DEFINE i == Skipped(ptr + 1)
           close == Skipped(i + 1)
<1>1. /\ line \in Seq(Items) /\ st = "go" /\ line' = line /\ At(1) = "go"
      /\ SeenAt(ptr, 1) /\ Alone(ptr) /\ At(ptr) = "<" /\ arg0' = 0
  BY DEF GoCore, LineInv, Actions, Here
<1>2. /\ Len(Squeezed) \in Nat /\ 1 < Len(Squeezed) /\ Squeezed[2] = "<" /\ SeenAt(i, 2) /\ Alone(i)
  <2>1. /\ Len(Squeezed) \in Nat /\ 1 < Len(Squeezed) /\ At(ptr) = Squeezed[1 + 1]
        /\ ptr \in 1 .. Len(line) /\ SeenAt(i, 1 + 1)
    BY <1>1, ItemAt
  <2>2. "<" \notin Numbers \cup Names BY NumbersAssumption, NamesAssumption DEF Symbols
  <2>3. Alone(i) BY <1>1, <2>1, <2>2, AloneOn
  <2> QED BY <1>1, <2>1, <2>3
<1>3. \/ /\ At(i) = "*" \/ IsUint(i)
         /\ At(close) = ">"
         /\ core' = IF At(i) = "*" THEN AllCores ELSE ValueOf[At(i)]
         /\ IF core' >= CPU_CORE_COUNT /\ core' # AllCores
            THEN Answer(Usage("go"))
            ELSE ptr' = Skipped(close + 1) /\ st' = "goAddr"
      \/ /\ ~ ((At(i) = "*" \/ IsUint(i)) /\ At(close) = ">")
         /\ Answer(Usage("go"))
  BY DEF GoCore
<1>4. /\ At(i) = "end" => 2 = Len(Squeezed)
      /\ At(i) # "end" => /\ 2 < Len(Squeezed) /\ At(i) = Squeezed[3]
                          /\ i \in 1 .. Len(line) /\ SeenAt(close, 3)
  <2> HIDE DEF i
  <2>1. /\ At(i) = "end" => 2 = Len(Squeezed)
        /\ At(i) # "end" => /\ 2 < Len(Squeezed) /\ At(i) = Squeezed[2 + 1]
                            /\ i \in 1 .. Len(line) /\ SeenAt(close, 2 + 1)
    BY <1>1, <1>2, ItemAt
  <2> QED BY <2>1
<1>5. ASSUME SeenAt(close, 3)
      PROVE  /\ At(close) = "end" => 3 = Len(Squeezed)
             /\ At(close) # "end" => /\ 3 < Len(Squeezed) /\ At(close) = Squeezed[4]
                                     /\ close \in 1 .. Len(line) /\ SeenAt(Skipped(close + 1), 4)
  <2> HIDE DEF close
  <2>1. /\ At(close) = "end" => 3 = Len(Squeezed)
        /\ At(close) # "end" => /\ 3 < Len(Squeezed) /\ At(close) = Squeezed[3 + 1]
                                /\ close \in 1 .. Len(line) /\ SeenAt(Skipped(close + 1), 3 + 1)
    BY <1>1, <1>5, ItemAt
  <2> QED BY <2>1
<1>6. (At(i) = "*" \/ IsUint(i)) /\ At(close) = ">" =>
        /\ Bracketed /\ At(i) = Squeezed[3] /\ SeenAt(Skipped(close + 1), 4)
        /\ Alone(Skipped(close + 1))
  <2> SUFFICES ASSUME At(i) = "*" \/ IsUint(i), At(close) = ">"
               PROVE  /\ Bracketed /\ At(i) = Squeezed[3] /\ SeenAt(Skipped(close + 1), 4)
                      /\ Alone(Skipped(close + 1))
    OBVIOUS
  <2>1. At(i) # "end" BY NamesAssumption DEF IsUint, Items
  <2>2. At(i) = Squeezed[3] /\ i \in 1 .. Len(line) /\ SeenAt(close, 3) BY <1>4, <2>1
  <2>3. 3 < Len(Squeezed) /\ Squeezed[4] = ">" /\ close \in 1 .. Len(line) /\ SeenAt(Skipped(close + 1), 4)
    BY <1>5, <2>2
  <2>4. "*" \notin Numbers \cup Names /\ ">" \notin Numbers \cup Names
    BY NumbersAssumption, NamesAssumption DEF Symbols
  <2>5. At(i) \in Numbers \cup Names => At(i + 1) \in {"space", "end"} BY <2>4 DEF IsUint
  <2>6. Alone(close)
    <3> HIDE DEF i
    <3> QED BY <1>1, <1>2, <2>2, <2>5, AloneOn
  <2>7. Alone(Skipped(close + 1))
    <3> HIDE DEF close
    <3> QED BY <1>1, <2>3, <2>4, <2>6, AloneOn
  <2> QED BY <1>2, <2>2, <2>3, <2>7 DEF Bracketed
<1>7. At(i) \in Numbers => ValueOf[At(i)] \in Nat BY NumbersAssumption
<1>8. IsGo /\ StandAlone =>
        /\ (At(i) = "*" \/ IsUint(i)) /\ At(close) = ">" /\ At(i) = Squeezed[3]
        /\ At(i) = "*" \/ ValueOf[At(i)] \in (0 .. CPU_CORE_COUNT - 1) \cup {AllCores}
  <2> SUFFICES ASSUME IsGo, StandAlone
               PROVE  /\ (At(i) = "*" \/ IsUint(i)) /\ At(close) = ">" /\ At(i) = Squeezed[3]
                      /\ At(i) = "*" \/ ValueOf[At(i)] \in (0 .. CPU_CORE_COUNT - 1) \cup {AllCores}
    OBVIOUS
  <2>1. Bracketed
    <3> SUFFICES ASSUME ~ Bracketed PROVE FALSE OBVIOUS
    <3>1. FirstNumber = 2 BY DEF FirstNumber
    <3>2. Squeezed[2] \in Numbers BY <1>1, <3>1, GoShape
    <3> QED BY <1>2, <3>2, NumbersAssumption DEF Symbols
  <2>2. 3 < Len(Squeezed) /\ Squeezed[4] = ">" BY <2>1 DEF Bracketed
  <2>3. At(i) = Squeezed[3] /\ SeenAt(close, 3) BY <1>2, <1>4, <2>2
  <2>4. At(close) = ">" BY <1>2, <1>5, <2>2, <2>3
  <2>5. \/ Squeezed[3] = "*"
        \/ /\ Squeezed[3] \in Numbers
           /\ ValueOf[Squeezed[3]] \in (0 .. CPU_CORE_COUNT - 1) \cup {AllCores}
    BY <2>1 DEF IsGo
  <2>6. Squeezed[3] \in Numbers => IsUint(i)
    <3> HIDE DEF i
    <3>1. 2 < Len(Squeezed) /\ 2 + 1 = 3 BY <1>2, <2>2
    <3> QED BY <1>1, <1>2, <3>1, UintWhen
  <2> QED BY <2>3, <2>4, <2>5, <2>6
<1> HIDE DEF i, close
<1>9. CASE Answer(Usage("go"))
  <2>1. ~ (IsGo /\ StandAlone)
    <3> SUFFICES ASSUME IsGo, StandAlone PROVE FALSE OBVIOUS
    <3> DEFINE v == IF At(i) = "*" THEN AllCores ELSE ValueOf[At(i)]
    <3>1. (At(i) = "*" \/ IsUint(i)) /\ At(close) = ">" BY <1>8
    <3>2. v \in (0 .. CPU_CORE_COUNT - 1) \cup {AllCores} BY <1>8
    <3>3. ~ (v >= CPU_CORE_COUNT /\ v # AllCores) BY <3>2, CoresAssumption
    <3>4. core' = v /\ ((v >= CPU_CORE_COUNT /\ v # AllCores) \/ st' = "goAddr") BY <1>3, <3>1
    <3>5. st' = "goAddr" BY <3>3, <3>4
    <3> QED BY <1>9, <3>5 DEF Answer
  <2>2. Right(Usage("go")) BY <1>1, <2>1, WrongGo
  <2> QED BY <1>1, <1>9, <2>2, Answered
<1>10. CASE ~ Answer(Usage("go"))
  <2>1. /\ At(i) = "*" \/ IsUint(i)
        /\ At(close) = ">"
        /\ core' = IF At(i) = "*" THEN AllCores ELSE ValueOf[At(i)]
        /\ ~ (core' >= CPU_CORE_COUNT /\ core' # AllCores)
        /\ ptr' = Skipped(close + 1) /\ st' = "goAddr"
    BY <1>3, <1>10
  <2>2. /\ Bracketed /\ At(i) = Squeezed[3] /\ SeenAt(Skipped(close + 1), 4)
        /\ Alone(Skipped(close + 1))
    BY <1>6, <2>1
  <2>3. FirstNumber = 5 BY <2>2 DEF FirstNumber
  <2>4. CoreRight(core')
    <3> DEFINE c == core'
    <3>0. c = core' OBVIOUS
    <3>1. c = GoCoreOf BY <2>1, <2>2 DEF GoCoreOf
    <3>2. CASE At(i) = "*" BY <2>2, <3>1, <3>2 DEF CoreRight
    <3>3. CASE At(i) # "*"
      <4>1. At(i) \in Numbers BY <2>1, <3>3 DEF IsUint
      <4>2. c = ValueOf[At(i)] /\ ~ (c >= CPU_CORE_COUNT /\ c # AllCores) BY <2>1, <3>3
      <4>3. c \in Nat BY <1>7, <4>1, <4>2
      <4> HIDE DEF c
      <4>4. c \in (0 .. CPU_CORE_COUNT - 1) \cup {AllCores} BY <4>2, <4>3, CoresAssumption
      <4>5. CoreRight(c) BY <2>2, <3>1, <4>1, <4>2, <4>4 DEF CoreRight
      <4> QED BY <4>5, <3>0
    <3> QED BY <3>2, <3>3
  <2>5. GoAt(ptr, FirstNumber - 1, core)'
    <3>1. (At(1) = "go" /\ SeenAt(ptr, 4) /\ Alone(ptr) /\ CoreRight(core))'
      BY <1>1, <2>1, <2>2, <2>4, SameLine
    <3>2. FirstNumber' - 1 = 4 BY <1>1, <2>3, SameLine
    <3> QED BY <3>1, <3>2 DEF GoAt
  <2> QED BY <1>1, <2>1, <2>5 DEF LineInv, Actions
<1> QED BY <1>9, <1>10

(* The value of a number that has been read. *)
LEMMA NumberTaken ==
  ASSUME line \in Seq(Items), NEW p, NEW n, SeenAt(p, n), IsUint(p), NEW m, m = n + 1
  PROVE  /\ NumberAt(m, ValueOf[At(p)]) /\ ValueAt(m) = ValueOf[At(p)]
         /\ SeenAt(Skipped(p + 1), m) /\ m <= Len(Squeezed) /\ Squeezed[m] \in Numbers
         /\ Alone(p) => Alone(Skipped(p + 1))
<1>1. /\ At(p) \in Numbers /\ n < Len(Squeezed) /\ Squeezed[n + 1] = At(p)
      /\ SeenAt(Skipped(p + 1), n + 1) /\ (Alone(p) => Alone(Skipped(p + 1)))
  BY UintIs
<1>2. Len(Squeezed) \in Nat /\ n \in Nat
  <2>1. Len(Squeezed) \in Nat /\ n \in 0 .. Len(Squeezed) BY ItemAt
  <2> QED BY <2>1
<1>3. n + 1 <= Len(Squeezed) BY <1>1, <1>2
<1>4. Squeezed[m] = At(p) /\ SeenAt(Skipped(p + 1), m) /\ m <= Len(Squeezed) BY <1>1, <1>3
<1>5. ValueAt(m) = ValueOf[At(p)] BY <1>4 DEF ValueAt
<1> QED BY <1>1, <1>4, <1>5 DEF NumberAt

(* Where the next number of the line should be, and is. *)
LEMMA NumberComes ==
  ASSUME line \in Seq(Items), NEW p, NEW n, SeenAt(p, n), NEW m, m = n + 1, m <= Len(Squeezed),
         Squeezed[m] \in Numbers, StandAlone \/ Apart
  PROVE  IsUint(p) /\ SeenAt(Skipped(p + 1), m)
<1>1. Len(Squeezed) \in Nat /\ n \in Nat BY ItemAt
<1>2. n < Len(Squeezed) /\ Squeezed[n + 1] \in Numbers BY <1>1
<1>3. IsUint(p) /\ SeenAt(Skipped(p + 1), n + 1) BY <1>2, UintWhen
<1> QED BY <1>3

LEMMA GetAddressLine == ASSUME LineInv, GetAddress PROVE LineInv'
<1>1. line \in Seq(Items) /\ line' = line /\ core' = core /\ arg0' = arg0 /\ kind' = kind
  BY DEF LineInv, GetAddress
<1>2. CASE st = "goAddr"
  <2> DEFINE n == FirstNumber - 1
  <2>0. n + 1 = FirstNumber /\ FirstNumber' = FirstNumber BY <1>1, SameLine DEF FirstNumber
  <2>1. At(1) = "go" /\ SeenAt(ptr, n) /\ Alone(ptr) /\ CoreRight(core) /\ arg0 = 0
    BY <1>2 DEF LineInv, GoAt
  <2> HIDE DEF n
  <2>2. CASE IsUint(ptr)
    <3>1. ptr' = Skipped(ptr + 1) /\ st' = "arg0" /\ addr' = ValueOf[At(ptr)] BY <1>2, <2>2 DEF GetAddress, Here
    <3>2. NumberAt(FirstNumber, addr') /\ SeenAt(Skipped(ptr + 1), FirstNumber) /\ Alone(Skipped(ptr + 1))
      BY <1>1, <2>0, <2>1, <2>2, <3>1, NumberTaken
    <3>3. (At(1) = "go" /\ SeenAt(ptr, FirstNumber) /\ Alone(ptr) /\ CoreRight(core) /\ NumberAt(FirstNumber, addr))'
      BY <1>1, <2>0, <2>1, <3>1, <3>2, SameLine
    <3> QED BY <1>1, <2>1, <3>1, <3>3 DEF LineInv, Actions, GoAt
  <2>3. CASE ~ IsUint(ptr)
    <3>1. Answer(Usage("go")) BY <1>2, <2>3 DEF GetAddress
    <3>2. ~ (IsGo /\ StandAlone)
      <4> SUFFICES ASSUME IsGo, StandAlone PROVE FALSE OBVIOUS
      <4>1. FirstNumber <= Len(Squeezed) /\ Squeezed[FirstNumber] \in Numbers BY <1>1, GoShape
      <4> QED BY <1>1, <2>0, <2>1, <2>3, <4>1, NumberComes
    <3> QED BY <1>1, <2>1, <3>1, <3>2, WrongGo, Answered
  <2> QED BY <2>2, <2>3
<1>3. CASE st = "loadAddr"
  <2>1. LoadAt(ptr, 2, kind) BY <1>3 DEF LineInv
  <2>2. At(1) = "load" /\ SeenAt(ptr, 2) BY <2>1 DEF LoadAt
  <2>3. CASE IsUint(ptr)
    <3>1. ptr' = Skipped(ptr + 1) /\ st' = "loadLast" /\ addr' = ValueOf[At(ptr)] BY <1>3, <2>3 DEF GetAddress, Here
    <3>2. NumberAt(3, addr') /\ SeenAt(Skipped(ptr + 1), 3)
      <4>1. \A m : m = 2 + 1 => NumberAt(m, ValueOf[At(ptr)]) /\ SeenAt(Skipped(ptr + 1), m)
        BY <1>1, <2>2, <2>3, NumberTaken
      <4>2. 3 = 2 + 1 OBVIOUS
      <4> QED BY <3>1, <4>1, <4>2
    <3>3. (SeenAt(ptr, 3) /\ NumberAt(3, addr))' BY <1>1, <3>1, <3>2, SameLine
    <3>4. (At(1) = "load" /\ kind \in {"serial", "sd"} /\ Is(2, kind))' BY <1>1, <2>1, SameLine DEF LoadAt, Is
    <3> QED BY <1>1, <3>1, <3>3, <3>4 DEF LineInv, Actions, LoadAt
  <2>4. CASE ~ IsUint(ptr)
    <3>1. Answer(Usage("load")) BY <1>3, <2>4 DEF GetAddress
    <3>2. Apart => TheOther = Nothing
      <4> SUFFICES ASSUME Apart, TheOther # Nothing PROVE FALSE OBVIOUS
      <4>1. 3 <= Len(Squeezed) /\ Squeezed[3] \in Numbers BY <2>2, TheOtherIs DEF IsLoad
      <4> QED BY <1>1, <2>2, <2>4, <4>1, NumberComes
    <3> QED BY <1>1, <2>2, <3>1, <3>2, WrongOther, Answered
  <2> QED BY <2>3, <2>4
<1>4. ASSUME NEW c \in {"read", "write"}, st = c PROVE LineInv'
  <2> DEFINE next == IF c = "read" THEN "readEnd" ELSE "writeValue"
  <2>1. At(1) = c /\ SeenAt(ptr, 1) BY <1>4 DEF LineInv, Actions
  <2>2. CASE IsUint(ptr)
    <3>1. ptr' = Skipped(ptr + 1) /\ st' = next /\ addr' = ValueOf[At(ptr)] BY <1>4, <2>2 DEF GetAddress, Here
    <3>2. NumberAt(2, addr') /\ SeenAt(Skipped(ptr + 1), 2) BY <1>1, <2>1, <2>2, <3>1, NumberTaken
    <3>3. (At(1) = c /\ SeenAt(ptr, 2) /\ NumberAt(2, addr))' BY <1>1, <2>1, <3>1, <3>2, SameLine
    <3>4. CASE c = "read" BY <1>1, <3>1, <3>3, <3>4 DEF LineInv, Actions
    <3>5. CASE c = "write" BY <1>1, <3>1, <3>3, <3>5 DEF LineInv, Actions
    <3> QED BY <3>4, <3>5
  <2>3. CASE ~ IsUint(ptr)
    <3>1. Answer(Usage(c)) BY <1>4, <2>3 DEF GetAddress
    <3>2. Apart => TheOther = Nothing
      <4> SUFFICES ASSUME Apart, TheOther # Nothing PROVE FALSE OBVIOUS
      <4>1. Len(Squeezed) \in {2, 3} /\ NumbersFrom(2) BY <1>4, <2>1, TheOtherIs
      <4>2. 2 <= Len(Squeezed) /\ Squeezed[2] \in Numbers BY <4>1 DEF NumbersFrom
      <4> QED BY <1>1, <2>1, <2>3, <4>2, NumberComes
    <3> QED BY <1>1, <1>4, <2>1, <3>1, <3>2, WrongOther, Answered
  <2> QED BY <2>2, <2>3
<1> QED BY <1>2, <1>3, <1>4 DEF GetAddress

LEMMA GetArg0Line == ASSUME LineInv, GetArg0 PROVE LineInv'
<1>1. /\ line \in Seq(Items) /\ st = "arg0" /\ line' = line /\ core' = core /\ addr' = addr
      /\ At(1) = "go" /\ SeenAt(ptr, FirstNumber) /\ Alone(ptr) /\ CoreRight(core)
      /\ NumberAt(FirstNumber, addr) /\ arg0 = 0
  BY DEF LineInv, GetArg0, GoAt
<1> DEFINE m == FirstNumber + 1
<1>2. FirstNumber \in {2, 5} /\ m = FirstNumber + 1 /\ FirstNumber' = FirstNumber
  BY <1>1, SameLine DEF FirstNumber
<1>3. ASSUME NEW n, GoArgAt(ptr', n, core, addr, arg0'), st' = "arg1" PROVE LineInv'
  <2>1. GoArgAt(ptr, n, core, addr, arg0)'
    <3>1. /\ At(1) = "go" /\ SeenAt(ptr', n) /\ Alone(ptr') /\ CoreRight(core) /\ NumberAt(FirstNumber, addr)
          /\ arg0' = ValueAt(FirstNumber + 1)
          /\ \/ n = FirstNumber /\ At(ptr') = "end"
             \/ n = FirstNumber + 1 /\ n <= Len(Squeezed) /\ Squeezed[n] \in Numbers
      BY <1>3 DEF GoArgAt, GoAt
    <3>2. /\ (At(1) = "go" /\ SeenAt(ptr, n) /\ Alone(ptr) /\ CoreRight(core) /\ NumberAt(FirstNumber, addr))'
          /\ At(ptr)' = At(ptr') /\ Squeezed' = Squeezed
      BY <1>1, <1>2, <3>1, SameLine
    <3>3. arg0' = ValueAt(FirstNumber + 1)' BY <1>1, <1>2, <3>1, SameLine
    <3> QED BY <1>2, <3>1, <3>2, <3>3 DEF GoArgAt, GoAt
  <2> QED BY <1>1, <1>3, <2>1 DEF LineInv, Actions
<1>4. CASE At(ptr) = "end" /\ st' = "arg1" /\ UNCHANGED <<arg0, ptr>>
  <2>1. FirstNumber = Len(Squeezed) BY <1>1, <1>4, ItemAt
  <2>2. ValueAt(FirstNumber + 1) = 0 BY <1>2, <2>1 DEF ValueAt
  <2>3. GoArgAt(ptr', FirstNumber, core, addr, arg0') BY <1>1, <1>4, <2>2 DEF GoArgAt, GoAt
  <2> QED BY <1>3, <1>4, <2>3
<1>5. CASE IsUint(ptr) /\ arg0' = ValueOf[At(ptr)] /\ ptr' = Skipped(ptr + 1) /\ st' = "arg1"
  <2>1. /\ ValueAt(m) = ValueOf[At(ptr)] /\ SeenAt(Skipped(ptr + 1), m) /\ m <= Len(Squeezed)
        /\ Squeezed[m] \in Numbers /\ Alone(Skipped(ptr + 1))
    BY <1>1, <1>5, NumberTaken
  <2>2. GoArgAt(ptr', m, core, addr, arg0') BY <1>1, <1>5, <2>1 DEF GoArgAt, GoAt
  <2> QED BY <1>3, <1>5, <2>2
<1>6. CASE At(ptr) # "end" /\ ~ IsUint(ptr) /\ Answer(Usage("go"))
  <2>1. ~ (IsGo /\ StandAlone)
    <3> SUFFICES ASSUME IsGo, StandAlone PROVE FALSE OBVIOUS
    <3>1. FirstNumber < Len(Squeezed) /\ Len(Squeezed) \in Nat BY <1>1, <1>6, ItemAt
    <3>2. m <= Len(Squeezed) /\ m \in FirstNumber .. Len(Squeezed) BY <1>2, <3>1
    <3>3. Squeezed[m] \in Numbers BY <1>1, <3>2, GoShape
    <3> HIDE DEF m
    <3> QED BY <1>1, <1>2, <1>6, <3>2, <3>3, NumberComes
  <2> QED BY <1>1, <1>6, <2>1, WrongGo, Answered
<1> QED BY <1>4, <1>5, <1>6 DEF GetArg0, Here

LEMMA GetArg1Line == ASSUME LineInv, GetArg1 PROVE LineInv'
<1> DEFINE last == Skipped(ptr + 1)
           v == IF At(ptr) = "end" THEN 0 ELSE ValueOf[At(ptr)]
           go == [fn |-> "LoaderGo", addr |-> addr, core |-> core, arg0 |-> arg0, arg1 |-> v]
           good == At(ptr) = "end" \/ (IsUint(ptr) /\ At(last) = "end")
<1>1. line \in Seq(Items) /\ st = "arg1" /\ line' = line BY DEF LineInv, GetArg1
<1>2. PICK n : GoArgAt(ptr, n, core, addr, arg0) BY <1>1 DEF LineInv
<1>3. /\ At(1) = "go" /\ SeenAt(ptr, n) /\ Alone(ptr) /\ CoreRight(core)
      /\ NumberAt(FirstNumber, addr) /\ arg0 = ValueAt(FirstNumber + 1)
      /\ \/ n = FirstNumber /\ At(ptr) = "end"
         \/ n = FirstNumber + 1 /\ n <= Len(Squeezed) /\ Squeezed[n] \in Numbers
  BY <1>2 DEF GoArgAt, GoAt
<1>4. FirstNumber \in {2, 5} BY DEF FirstNumber
<1>5. /\ Len(Squeezed) \in Nat /\ n \in Nat
      /\ At(ptr) = "end" => n = Len(Squeezed) /\ ptr = Len(line) + 1
      /\ At(ptr) # "end" => n < Len(Squeezed) /\ At(ptr) = Squeezed[n + 1]
  <2>1. /\ Len(Squeezed) \in Nat /\ n \in 0 .. Len(Squeezed)
        /\ At(ptr) = "end" => n = Len(Squeezed) /\ ptr = Len(line) + 1
        /\ At(ptr) # "end" => n < Len(Squeezed) /\ At(ptr) = Squeezed[n + 1]
    BY <1>1, <1>3, ItemAt
  <2> QED BY <2>1
<1>6. CASE good /\ Answer(go)
  <2>1. /\ StandAlone /\ v = ValueAt(FirstNumber + 2)
        /\ Len(Squeezed) - FirstNumber \in 0 .. 2 /\ NumbersFrom(FirstNumber)
    <3>1. CASE At(ptr) = "end"
      <4>1. StandAlone BY <1>1, <1>3, <1>5, <3>1, AloneAll
      <4>2. n = Len(Squeezed) /\ (n = FirstNumber \/ (n = FirstNumber + 1 /\ Squeezed[n] \in Numbers))
        <5>1. n = Len(Squeezed) BY <1>5, <3>1
        <5>2. n = FirstNumber \/ (n = FirstNumber + 1 /\ Squeezed[n] \in Numbers) BY <1>3
        <5> QED BY <5>1, <5>2
      <4>3. v = ValueAt(FirstNumber + 2) BY <1>4, <3>1, <4>2 DEF ValueAt
      <4>4. Squeezed[FirstNumber] \in Numbers BY <1>3 DEF NumberAt
      <4>5. \A i \in FirstNumber .. Len(Squeezed) : Squeezed[i] \in Numbers
        BY <1>4, <1>5, <4>2, <4>4
      <4>6. Len(Squeezed) - FirstNumber \in 0 .. 2 BY <1>4, <4>2
      <4> QED BY <4>1, <4>3, <4>5, <4>6 DEF NumbersFrom
    <3>2. CASE At(ptr) # "end"
      <4>1. IsUint(ptr) /\ At(last) = "end" /\ n = FirstNumber + 1 /\ Squeezed[n] \in Numbers
        BY <1>3, <1>6, <3>2
      <4> DEFINE m == n + 1
      <4>2. /\ ValueAt(m) = ValueOf[At(ptr)] /\ SeenAt(last, m) /\ m <= Len(Squeezed)
            /\ Squeezed[m] \in Numbers /\ Alone(last)
        BY <1>1, <1>3, <4>1, NumberTaken
      <4> HIDE DEF last
      <4>3. m = Len(Squeezed) /\ last = Len(line) + 1
        <5> HIDE DEF m
        <5> QED BY <1>1, <4>1, <4>2, ItemAt
      <4>4. m = FirstNumber + 2 BY <1>4, <4>1
      <4>5. StandAlone BY <1>1, <4>2, <4>3, AloneAll
      <4>6. v = ValueAt(m) BY <3>2, <4>2
      <4>7. Squeezed[FirstNumber] \in Numbers BY <1>3 DEF NumberAt
      <4> HIDE DEF m
      <4>8. \A i \in FirstNumber .. Len(Squeezed) : Squeezed[i] \in Numbers
        <5>1. \A i \in FirstNumber .. Len(Squeezed) : i = FirstNumber \/ i = n \/ i = m
          BY <1>4, <4>1, <4>3, <4>4
        <5> QED BY <4>1, <4>2, <4>7, <5>1
      <4>9. Len(Squeezed) - FirstNumber \in 0 .. 2 BY <1>4, <4>3, <4>4
      <4> QED BY <4>4, <4>5, <4>6, <4>8, <4>9 DEF NumbersFrom
    <3> QED BY <3>1, <3>2
  <2>2. IsGo BY <1>3, <2>1 DEF IsGo, CoreRight
  <2>3. go = TheGo
    <3>1. core = GoCoreOf /\ addr = ValueAt(FirstNumber) BY <1>3 DEF CoreRight, NumberAt
    <3> QED BY <1>3, <2>1, <3>1 DEF TheGo
  <2>4. Right(go) BY <1>3, <2>1, <2>2, <2>3 DEF Right
  <2> HIDE DEF go
  <2> QED BY <1>1, <1>6, <2>4, Answered
<1>7. CASE ~ good /\ Answer(Usage("go"))
  <2>1. ~ (IsGo /\ StandAlone)
    <3> SUFFICES ASSUME IsGo, StandAlone PROVE FALSE OBVIOUS
    <3>1. At(ptr) # "end" BY <1>7
    <3>2. n = FirstNumber + 1 /\ n < Len(Squeezed) BY <1>3, <1>5, <3>1
    <3>3. Len(Squeezed) <= FirstNumber + 2 BY <1>1, GoShape
    <3> DEFINE m == n + 1
    <3>4. m = Len(Squeezed) /\ m \in FirstNumber .. Len(Squeezed) BY <1>4, <1>5, <3>2, <3>3
    <3>5. Squeezed[m] \in Numbers BY <1>1, <3>4, GoShape
    <3>6. m <= Len(Squeezed) /\ m = n + 1 BY <1>5, <3>4
    <3> HIDE DEF m
    <3>7. IsUint(ptr) /\ SeenAt(last, m) BY <1>1, <1>3, <3>5, <3>6, NumberComes
    <3> HIDE DEF last
    <3>8. At(last) = "end"
      <4>1. At(last) # "end" => m < Len(Squeezed) BY <1>1, <3>7, ItemAt
      <4> QED BY <1>5, <3>4, <4>1
    <3> QED BY <1>7, <3>7, <3>8
  <2> QED BY <1>1, <1>3, <1>7, <2>1, WrongGo, Answered
<1> QED BY <1>6, <1>7 DEF GetArg1, Here

LEMMA ReadEndLine == ASSUME LineInv, ReadEnd PROVE LineInv'
<1>1. /\ line \in Seq(Items) /\ st = "readEnd" /\ line' = line
      /\ At(1) = "read" /\ SeenAt(ptr, 2) /\ NumberAt(2, addr)
  BY DEF LineInv, ReadEnd
<1>2. Len(Squeezed) \in Nat /\ (At(ptr) = "end" <=> Len(Squeezed) = 2)
  <2>1. /\ Len(Squeezed) \in Nat /\ (At(ptr) = "end" => 2 = Len(Squeezed))
        /\ (At(ptr) # "end" => 2 < Len(Squeezed))
    BY <1>1, ItemAt
  <2> DEFINE L == Len(Squeezed)
  <2>2. L \in Nat /\ (At(ptr) = "end" => 2 = L) /\ (At(ptr) # "end" => 2 < L) BY <2>1
  <2> HIDE DEF L
  <2>3. L \in Nat /\ (At(ptr) = "end" <=> L = 2) BY <2>2
  <2> QED BY <2>3 DEF L
<1> DEFINE read == [fn |-> "LoaderRead", addr |-> addr]
<1>3. CASE At(ptr) = "end"
  <2>1. Answer(read) BY <1>3 DEF ReadEnd, Here
  <2>2. NumbersFrom(2) /\ addr = ValueAt(2)
    <3>1. Squeezed[2] \in Numbers /\ addr = ValueAt(2) BY <1>1 DEF NumberAt
    <3>2. Len(Squeezed) = 2 BY <1>2, <1>3
    <3>3. \A i \in 2 .. Len(Squeezed) : i = 2 BY <3>2
    <3> QED BY <3>1, <3>3 DEF NumbersFrom
  <2>3. TheOther = read BY <1>1, <1>2, <1>3, <2>2, TheOtherIs
  <2>4. read # Nothing
    <3>1. read.fn = "LoaderRead" /\ Nothing.fn = "none" BY DEF Nothing
    <3> QED BY <3>1
  <2> HIDE DEF read
  <2>5. Right(read) BY <1>1, <2>3, <2>4 DEF Right
  <2> QED BY <1>1, <2>1, <2>5, Answered
<1>4. CASE At(ptr) # "end"
  <2>1. Answer(Usage("read")) BY <1>4 DEF ReadEnd, Here
  <2>2. TheOther = Nothing BY <1>1, <1>2, <1>4, TheOtherIs
  <2> QED BY <1>1, <2>1, <2>2, WrongOther, Answered
<1> QED BY <1>3, <1>4

LEMMA WriteValueLine == ASSUME LineInv, WriteValue PROVE LineInv'
<1> DEFINE last == Skipped(ptr + 1)
           write == [fn |-> "LoaderWrite", addr |-> addr, data |-> ValueOf[At(ptr)]]
<1>1. /\ line \in Seq(Items) /\ st = "writeValue" /\ line' = line
      /\ At(1) = "write" /\ SeenAt(ptr, 2) /\ NumberAt(2, addr)
  BY DEF LineInv, WriteValue
<1>2. Squeezed[2] \in Numbers /\ addr = ValueAt(2) BY <1>1 DEF NumberAt
<1>3. ASSUME SeenAt(last, 3) PROVE Len(Squeezed) \in Nat /\ (At(last) = "end" <=> Len(Squeezed) = 3)
  <2> HIDE DEF last
  <2>1. /\ Len(Squeezed) \in Nat /\ (At(last) = "end" => 3 = Len(Squeezed))
        /\ (At(last) # "end" => 3 < Len(Squeezed))
    BY <1>1, <1>3, ItemAt
  <2> DEFINE L == Len(Squeezed)
  <2>2. L \in Nat /\ (At(last) = "end" => 3 = L) /\ (At(last) # "end" => 3 < L) BY <2>1
  <2> HIDE DEF L
  <2>3. L \in Nat /\ (At(last) = "end" <=> L = 3) BY <2>2
  <2> QED BY <2>3 DEF L
<1>4. 3 = 2 + 1 OBVIOUS
<1>5. CASE IsUint(ptr) /\ At(last) = "end"
  <2>1. Answer(write) BY <1>5 DEF WriteValue, Here
  <2>2. ValueAt(3) = ValueOf[At(ptr)] /\ SeenAt(last, 3) /\ Squeezed[3] \in Numbers
    <3>1. \A m : m = 2 + 1 => ValueAt(m) = ValueOf[At(ptr)] /\ SeenAt(last, m) /\ Squeezed[m] \in Numbers
      BY <1>1, <1>5, NumberTaken
    <3> QED BY <1>4, <3>1
  <2>3. Len(Squeezed) = 3 BY <1>3, <1>5, <2>2
  <2>4. NumbersFrom(2) BY <1>2, <2>2, <2>3 DEF NumbersFrom
  <2>5. TheOther = write BY <1>1, <1>2, <2>2, <2>3, <2>4, TheOtherIs
  <2>6. write # Nothing
    <3>1. write.fn = "LoaderWrite" /\ Nothing.fn = "none" BY DEF Nothing
    <3> QED BY <3>1
  <2> HIDE DEF write
  <2>7. Right(write) BY <1>1, <2>5, <2>6 DEF Right
  <2> QED BY <1>1, <2>1, <2>7, Answered
<1>6. CASE ~ (IsUint(ptr) /\ At(last) = "end")
  <2>1. Answer(Usage("write")) BY <1>6 DEF WriteValue
  <2>2. Apart => TheOther = Nothing
    <3> SUFFICES ASSUME Apart, TheOther # Nothing PROVE FALSE OBVIOUS
    <3>1. Len(Squeezed) = 3 /\ NumbersFrom(2) BY <1>1, TheOtherIs
    <3>2. Squeezed[3] \in Numbers /\ 3 <= Len(Squeezed) BY <3>1 DEF NumbersFrom
    <3>3. IsUint(ptr) /\ SeenAt(last, 3)
      <4>1. \A m : m = 2 + 1 /\ m <= Len(Squeezed) /\ Squeezed[m] \in Numbers => IsUint(ptr) /\ SeenAt(last, m)
        BY <1>1, NumberComes
      <4> QED BY <1>4, <3>2, <4>1
    <3> QED BY <1>3, <1>6, <3>1, <3>3
  <2> QED BY <1>1, <2>1, <2>2, WrongOther, Answered
<1> QED BY <1>5, <1>6

LEMMA GetLoadLine == ASSUME LineInv, GetLoad PROVE LineInv'
<1> DEFINE last == Skipped(WordEnd(ptr))
           good == IF kind = "serial" THEN IsUint(ptr) ELSE At(ptr) # "end"
           serial == [fn |-> "LoaderSerialLoad", addr |-> addr, size |-> ValueOf[At(ptr)]]
           sd == [fn |-> "LoaderSdLoad", addr |-> addr, file |-> Word(ptr)]
           a == IF ~ good \/ At(last) # "end" THEN Usage("load")
                ELSE IF kind = "serial" THEN serial ELSE sd
<1>1. /\ line \in Seq(Items) /\ st = "loadLast" /\ line' = line
      /\ LoadAt(ptr, 3, kind) /\ NumberAt(3, addr) /\ Answer(a)
  BY DEF LineInv, GetLoad, Here
<1>2. /\ At(1) = "load" /\ SeenAt(ptr, 3) /\ kind \in {"serial", "sd"} /\ Squeezed[2] = kind
      /\ Squeezed[3] \in Numbers /\ addr = ValueAt(3)
  BY <1>1 DEF LoadAt, NumberAt, Is
<1>3. /\ At(ptr) = "end" => Len(Squeezed) = 3
      /\ At(ptr) # "end" => /\ At(ptr) = Squeezed[4] /\ ptr \in 1 .. Len(line) /\ At(ptr) = line[ptr]
                            /\ SeenAt(Skipped(ptr + 1), 4)
      /\ ptr \in 1 .. Len(line) + 1 /\ At(ptr) # "space"
  <2>1. /\ At(ptr) = "end" => 3 = Len(Squeezed)
        /\ At(ptr) # "end" => /\ At(ptr) = Squeezed[3 + 1] /\ ptr \in 1 .. Len(line) /\ At(ptr) = line[ptr]
                              /\ SeenAt(Skipped(ptr + 1), 3 + 1)
        /\ ptr \in 1 .. Len(line) + 1
    BY <1>1, <1>2, ItemAt
  <2>2. At(ptr) # "space" BY <1>2 DEF SeenAt
  <2> QED BY <2>1, <2>2
<1>4. Apart /\ At(ptr) # "end" =>
        /\ Word(ptr) = <<At(ptr)>> /\ (At(last) = "end" <=> Len(Squeezed) = 4)
        /\ IsUint(ptr) <=> At(ptr) \in Numbers
  <2> SUFFICES ASSUME Apart, At(ptr) # "end"
               PROVE  /\ Word(ptr) = <<At(ptr)>> /\ (At(last) = "end" <=> Len(Squeezed) = 4)
                      /\ IsUint(ptr) <=> At(ptr) \in Numbers
    OBVIOUS
  <2>1. At(ptr + 1) \in {"space", "end"}
    <3>1. ptr \in DOMAIN line BY <1>1, <1>3, ItemsAre
    <3> QED BY <1>3, <3>1 DEF Apart
  <2>2. Word(ptr) = <<At(ptr)>> /\ WordEnd(ptr) = ptr + 1 BY <1>1, <1>3, <2>1, WordIs
  <2>3. SeenAt(last, 4) BY <1>3, <2>2
  <2> HIDE DEF last
  <2>4. /\ Len(Squeezed) \in Nat /\ (At(last) = "end" => 4 = Len(Squeezed))
        /\ (At(last) # "end" => 4 < Len(Squeezed))
    BY <1>1, <2>3, ItemAt
  <2> DEFINE L == Len(Squeezed)
  <2>5. L \in Nat /\ (At(last) = "end" => 4 = L) /\ (At(last) # "end" => 4 < L) BY <2>4
  <2> HIDE DEF L
  <2>6. At(last) = "end" <=> L = 4 BY <2>5
  <2> QED BY <2>1, <2>2, <2>6 DEF L, IsUint
<1>5. IsLoad("serial") \/ IsLoad("sd") => Len(Squeezed) = 4 BY DEF IsLoad
<1>6. At(ptr) = "end" => ~ IsUint(ptr) BY NamesAssumption DEF IsUint, Items
<1>7. a = Usage("load") \/ a = serial \/ a = sd OBVIOUS
<1>8. Apart => (IF TheOther # Nothing THEN a = TheOther ELSE a = Usage("load"))
  <2> SUFFICES ASSUME Apart PROVE IF TheOther # Nothing THEN a = TheOther ELSE a = Usage("load")
    OBVIOUS
  <2>1. serial # Nothing /\ sd # Nothing
    <3>1. serial.fn = "LoaderSerialLoad" /\ sd.fn = "LoaderSdLoad" /\ Nothing.fn = "none" BY DEF Nothing
    <3> QED BY <3>1
  <2>2. CASE At(ptr) = "end"
    <3>1. Len(Squeezed) # 4 BY <1>3, <2>2
    <3>2. TheOther = Nothing BY <1>2, <1>5, <3>1, TheOtherIs
    <3>3. ~ good BY <1>2, <1>6, <2>2
    <3> QED BY <3>2, <3>3
  <2>3. CASE At(ptr) # "end"
    <3>1. /\ Word(ptr) = <<At(ptr)>> /\ (At(last) = "end" <=> Len(Squeezed) = 4)
          /\ (IsUint(ptr) <=> At(ptr) \in Numbers) /\ At(ptr) = Squeezed[4]
      BY <1>3, <1>4, <2>3
    <3>2. CASE At(last) # "end"
      <4>1. TheOther = Nothing BY <1>2, <1>5, <3>1, <3>2, TheOtherIs
      <4> QED BY <3>2, <4>1
    <3>3. CASE At(last) = "end" /\ kind = "serial"
      <4>1. IsLoad("serial") /\ ~ IsLoad("sd") BY <1>2, <3>1, <3>3 DEF IsLoad
      <4>2. CASE At(ptr) \in Numbers
        <5>1. ValueAt(4) = ValueOf[At(ptr)] BY <3>1, <3>3 DEF ValueAt
        <5>2. TheOther = serial BY <1>2, <3>1, <4>1, <4>2, <5>1, TheOtherIs
        <5>3. a = serial BY <3>1, <3>3, <4>2
        <5> QED BY <2>1, <5>2, <5>3
      <4>3. CASE At(ptr) \notin Numbers
        <5>1. TheOther = Nothing BY <1>2, <3>1, <4>1, <4>3, TheOtherIs
        <5>2. a = Usage("load") BY <3>1, <3>3, <4>3
        <5> QED BY <5>1, <5>2
      <4> QED BY <4>2, <4>3
    <3>4. CASE At(last) = "end" /\ kind = "sd"
      <4>1. IsLoad("sd") /\ ~ IsLoad("serial") BY <1>2, <3>1, <3>4 DEF IsLoad
      <4>2. TheOther = sd BY <1>2, <3>1, <4>1, TheOtherIs
      <4>3. a = sd BY <2>3, <3>4
      <4> QED BY <2>1, <4>2, <4>3
    <3> QED BY <1>2, <3>2, <3>3, <3>4
  <2> QED BY <2>2, <2>3
<1> HIDE DEF a
<1>9. Right(a)
  <2>1. Usage("load").fn = "usage" BY DEF Usage
  <2> QED BY <1>2, <1>8, <2>1 DEF Right
<1> QED BY <1>1, <1>9, Answered

LEMMA LineInvNext ==
  ASSUME LineInv, [CmdNext]_cmdVars
  PROVE  LineInv'
<1>1. CASE UNCHANGED cmdVars
  <2>1. /\ line' = line /\ ptr' = ptr /\ st' = st /\ core' = core /\ addr' = addr /\ arg0' = arg0
        /\ kind' = kind /\ called' = called
    BY <1>1 DEF cmdVars
  <2>2. /\ At(1)' = At(1) /\ FirstNumber' = FirstNumber /\ Squeezed' = Squeezed
        /\ \A i : ValueAt(i)' = ValueAt(i) /\ At(i)' = At(i)
        /\ \A p, n : SeenAt(p, n)' <=> SeenAt(p, n)
        /\ \A p : Alone(p)' <=> Alone(p)
        /\ \A c : CoreRight(c)' <=> CoreRight(c)
        /\ \A i, v : NumberAt(i, v)' <=> NumberAt(i, v)
        /\ \A a : Right(a)' <=> Right(a)
    BY <2>1, SameLine
  <2>3. \A p, n, c : GoAt(p, n, c)' <=> GoAt(p, n, c) BY <2>2 DEF GoAt
  <2>4. \A p, n, c, a, v : GoArgAt(p, n, c, a, v)' <=> GoArgAt(p, n, c, a, v) BY <2>2, <2>3 DEF GoArgAt
  <2>5. \A p, n, k : LoadAt(p, n, k)' <=> LoadAt(p, n, k) BY <2>2 DEF LoadAt, Is
  <2> QED BY <2>1, <2>2, <2>3, <2>4, <2>5 DEF LineInv
<1>2. CASE gets \/ Again BY <1>2, StartLine
<1>3. CASE GetAction BY <1>3, GetActionLine
<1>4. CASE Help BY <1>4, HelpLine
<1>5. CASE Load BY <1>5, LoadLine
<1>6. CASE GoCore BY <1>6, GoCoreLine
<1>7. CASE GoNoCore BY <1>7, GoNoCoreLine
<1>8. CASE GetAddress BY <1>8, GetAddressLine
<1>9. CASE GetLoad BY <1>9, GetLoadLine
<1>10. CASE GetArg0 BY <1>10, GetArg0Line
<1>11. CASE GetArg1 BY <1>11, GetArg1Line
<1>12. CASE ReadEnd BY <1>12, ReadEndLine
<1>13. CASE WriteValue BY <1>13, WriteValueLine
<1> QED
  BY <1>1, <1>2, <1>3, <1>4, <1>5, <1>6, <1>7, <1>8, <1>9, <1>10, <1>11, <1>12, <1>13 DEF CmdNext

(* The loader is called for the lines that say what to do, with every      *)
(* argument in its place, and for no other but perhaps "go <1> 7": however *)
(* long the line is and whatever its numbers and their values              *)
(* (CmdInterpretCommand, cmd.c:135).                                       *)
THEOREM LoaderCalled == CmdSpec => []CalledAsTyped
<1>1. CmdInit => LineInv BY InitLine
<1>2. LineInv /\ [CmdNext]_cmdVars => LineInv' BY LineInvNext
<1>3. LineInv => CalledAsTyped BY DEF LineInv, CalledAsTyped, GoAsTyped, OthersAsTyped, Right
<1> QED BY <1>1, <1>2, <1>3, PTL DEF CmdSpec

-----------------------------------------------------------------------------
(* memcpy and memset. *)
CopyOps == {"memcpy", "memset"}
Copying == call.op \in CopyOps

Arguments ==
  /\ call.dst \in 4 .. 7 /\ call.len \in 0 .. MaxLen
  /\ call.op = "memcpy" => call.src \in SrcBase .. SrcBase + 3

(* The registers step through the regions together, and words are moved    *)
(* from where both are aligned.                                            *)
Registers ==
  /\ len \in 0 .. call.len /\ dst = call.dst + (call.len - len)
  /\ call.op = "memcpy" => src = call.src + (call.len - len)
  /\ pc = "head" => len = call.len
  /\ pc = "words" => Aligned
  /\ pc = "done" => len = 0

(* What the call puts at an address of the destination. *)
Byte(a) == IF call.op = "memcpy" THEN call.src + (a - call.dst) ELSE FILL

CopyInv ==
  /\ pc # "fault"
  /\ pc \in {"head", "words", "bytes"} => Copying
  /\ Copying => /\ pc \in {"head", "words", "bytes", "done"}
                /\ Arguments /\ Registers /\ mem = Filled(dst)

USE MaxLenAssumption
-----------------------------------------------------------------------------
LEMMA CopyInit == Init => CopyInv
<1> SUFFICES ASSUME Init PROVE CopyInv OBVIOUS
<1>1. CASE Copying
  <2>1. pc = "head" BY <1>1 DEF Init, Copying, CopyOps
  <2>2. Arguments BY <1>1 DEF Init, Calls, Copying, CopyOps, Arguments
  <2>3. dst = call.dst /\ len = call.len /\ (call.op = "memcpy" => src = call.src)
    BY <1>1 DEF Init, Copying, CopyOps
  <2>4. Registers BY <2>1, <2>2, <2>3 DEF Registers, Arguments
  <2>5. mem = Filled(dst)
    <3>1. \A a \in Addr : ~ (a \in call.dst .. dst - 1) BY <2>2, <2>3 DEF Arguments
    <3> QED BY <3>1 DEF Init, Filled
  <2> QED BY <1>1, <2>1, <2>2, <2>4, <2>5 DEF CopyInv
<1>2. CASE ~ Copying
  <2>1. pc \in {"spaces", "itoa"} BY <1>2 DEF Init, Calls, Copying, CopyOps
  <2> QED BY <1>2, <2>1 DEF CopyInv
<1> QED BY <1>1, <1>2

LEMMA FilledAt ==
  ASSUME NEW d, NEW a \in Addr
  PROVE  /\ a \in call.dst .. d - 1 => Filled(d)[a] = Byte(a)
         /\ ~ (a \in call.dst .. d - 1) => Filled(d)[a] = a
BY Zenon DEF Filled, Byte

(* k bytes more: the bytes of the source still are what they were at the   *)
(* call, since the destination ends before it.                             *)
LEMMA MoveFills ==
  ASSUME Copying, Arguments, Registers, mem = Filled(dst),
         NEW k \in 0 .. len, Move(k), call' = call
  PROVE  /\ Arguments' /\ mem' = Filled(dst)'
         /\ len' \in 0 .. call.len /\ dst' = call.dst + (call.len - len')
         /\ call.op = "memcpy" => src' = call.src + (call.len - len')
<1>1. /\ len' = len - k /\ dst' = dst + k /\ src' = src + k
      /\ mem' = Moved(mem, dst, src, k, call.op)
  BY DEF Move
<1>2. Arguments' BY DEF Arguments
<1>3. len' \in 0 .. call.len /\ dst' = call.dst + (call.len - len')
  BY <1>1 DEF Registers, Arguments
<1>4. call.op = "memcpy" => src' = call.src + (call.len - len')
  BY <1>1 DEF Registers, Arguments, SrcBase, Gap
<1>5. ASSUME NEW a \in Addr
      PROVE  Moved(mem, dst, src, k, call.op)[a] = Filled(dst + k)[a]
  <2>1. a \in Nat /\ dst \in Nat /\ call.dst \in Nat /\ k \in Nat /\ call.dst <= dst
    BY DEF Addr, Arguments, Registers, SrcBase, Gap
  <2>2. CASE a \in dst .. dst + k - 1
    <3>1. a \in call.dst .. dst + k - 1 BY <2>1, <2>2
    <3>2. CASE call.op = "memcpy"
      <4>1. Moved(mem, dst, src, k, call.op)[a] = mem[src + (a - dst)] BY <2>2, <3>2 DEF Moved
      <4>2. /\ call.src \in SrcBase .. SrcBase + 3 /\ src = call.src + (call.len - len)
            /\ dst = call.dst + (call.len - len) /\ call.len \in 0 .. MaxLen /\ len \in 0 .. call.len
            /\ call.dst \in 4 .. 7
        BY <3>2 DEF Arguments, Registers
      <4>3. src + (a - dst) = call.src + (a - call.dst) BY <4>2, <2>1 DEF SrcBase, Gap
      <4>4. src + (a - dst) \in SrcBase .. SrcBase + 3 + MaxLen
        BY <4>2, <2>1, <2>2 DEF SrcBase, Gap
      <4>5. src + (a - dst) \in Addr /\ ~ (src + (a - dst) \in call.dst .. dst - 1)
        BY <4>2, <4>4 DEF Addr, SrcBase, Gap
      <4>6. mem[src + (a - dst)] = src + (a - dst) BY <4>5 DEF Filled
      <4>7. Byte(a) = call.src + (a - call.dst) BY <3>2 DEF Byte
      <4> QED BY <3>1, <4>1, <4>3, <4>6, <4>7, <2>1, FilledAt
    <3>3. CASE call.op # "memcpy"
      <4>1. Moved(mem, dst, src, k, call.op)[a] = FILL BY <2>2, <3>3 DEF Moved
      <4>2. Byte(a) = FILL BY <3>3 DEF Byte
      <4> QED BY <3>1, <4>1, <4>2, <2>1, FilledAt
    <3> QED BY <3>2, <3>3
  <2>3. CASE a \notin dst .. dst + k - 1
    <3>1. Moved(mem, dst, src, k, call.op)[a] = mem[a] BY <2>3 DEF Moved
    <3>2. a \in call.dst .. dst - 1 <=> a \in call.dst .. dst + k - 1 BY <2>1, <2>3
    <3>3. Filled(dst)[a] = Filled(dst + k)[a] BY <2>1, <3>2, FilledAt
    <3> QED BY <3>1, <3>3
  <2> QED BY <2>2, <2>3
<1>6. mem' = Filled(dst + k)
  <2>1. Moved(mem, dst, src, k, call.op) = [a \in Addr |-> Moved(mem, dst, src, k, call.op)[a]]
    BY DEF Moved
  <2>2. Filled(dst + k) = [a \in Addr |-> Filled(dst + k)[a]] BY DEF Filled
  <2> QED BY <1>1, <1>5, <2>1, <2>2
<1>7. mem' = Filled(dst)' BY <1>1, <1>6 DEF Filled
<1> QED BY <1>2, <1>3, <1>4, <1>7

(* Word moves keep both addresses aligned. *)
LEMMA AlignedStays ==
  ASSUME Arguments, Registers, Copying, Aligned, NEW k \in {4, 8, 16}, Move(k), call' = call
  PROVE  Aligned'
<1>1. dst \in Nat /\ (call.op = "memcpy" => src \in Nat)
  BY DEF Arguments, Registers, SrcBase, Gap
<1> QED BY <1>1 DEF Aligned, Move

LEMMA CopyNext == CopyInv /\ [Next]_vars => CopyInv'
<1> SUFFICES ASSUME CopyInv, [Next]_vars PROVE CopyInv' OBVIOUS
<1>1. ASSUME Copying, call' = call, NEW k \in 0 .. len, Move(k),
             pc' \in {"head", "words", "bytes", "done"},
             pc' # "head", pc' = "words" => Aligned', pc' = "done" => len' = 0
      PROVE  CopyInv'
  <2>1. Arguments' /\ mem' = Filled(dst)' BY <1>1, MoveFills DEF CopyInv
  <2>2. Registers' BY <1>1, MoveFills DEF CopyInv, Registers
  <2>3. Copying' BY <1>1 DEF Copying
  <2> QED BY <1>1, <2>1, <2>2, <2>3 DEF CopyInv
<1>2. ASSUME Copying, UNCHANGED <<call, memVars>>, pc' \in {"bytes", "done"}, pc' = "done" => len = 0
      PROVE  CopyInv'
  <2>1. Registers' BY <1>2 DEF CopyInv, Registers, Aligned, memVars
  <2> QED BY <1>2, <2>1 DEF CopyInv, Arguments, Filled, Copying, memVars
<1>3. CASE Align
  <2> DEFINE k == (4 - (dst % 4)) % 4
  <2>0. Copying /\ call' = call BY <1>3 DEF Align, CopyInv
  <2>1. CASE len < Least BY <1>2, <1>3, <2>0, <2>1 DEF Align
  <2>2. CASE ~ (len < Least)
    <3>1. dst \in Nat /\ len \in Nat /\ (call.op = "memcpy" => src \in Nat)
      BY <2>0 DEF CopyInv, Arguments, Registers, SrcBase, Gap
    <3>2. k \in 0 .. len /\ (dst + k) % 4 = 0 BY <2>2, <3>1 DEF Least
    <3>3. Move(k) BY <1>3, <2>2 DEF Align
    <3>4. \/ pc' = "bytes"
          \/ pc' = "words" /\ (call.op = "memcpy" => (src + k) % 4 = 0)
      BY <1>3, <2>2 DEF Align
    <3>5. pc' = "words" => Aligned' BY <2>0, <3>2, <3>3, <3>4 DEF Aligned, Move
    <3> QED BY <1>1, <2>0, <3>2, <3>3, <3>4, <3>5
  <2> QED BY <2>1, <2>2
<1>4. CASE Words
  <2>0. Copying /\ call' = call /\ pc = "words" /\ Aligned /\ len \in Nat
    BY <1>4 DEF Words, CopyInv, Registers, Arguments
  <2>1. ASSUME NEW k \in {4, 8, 16}, len >= k, MoveWords(k) PROVE CopyInv'
    <3>1. Move(k) /\ pc' = "words" BY <2>0, <2>1 DEF MoveWords
    <3>2. Aligned' BY <2>0, <3>1, AlignedStays DEF CopyInv
    <3> QED BY <1>1, <2>0, <2>1, <3>1, <3>2
  <2>2. CASE len < 4 /\ pc' = "bytes" /\ UNCHANGED memVars BY <1>2, <2>0, <2>2
  <2> QED BY <1>4, <2>0, <2>1, <2>2 DEF Words
<1>5. CASE Bytes
  <2>0. Copying /\ call' = call /\ pc = "bytes" /\ len \in Nat
    BY <1>5 DEF Bytes, CopyInv, Registers, Arguments
  <2>1. CASE len = 0 BY <1>2, <1>5, <2>0, <2>1 DEF Bytes
  <2>2. CASE len # 0
    <3>1. Move(1) /\ pc' = "bytes" /\ 1 \in 0 .. len BY <1>5, <2>0, <2>2 DEF Bytes
    <3> QED BY <1>1, <2>0, <3>1
  <2> QED BY <2>1, <2>2
<1>6. ASSUME pc \notin {"head", "words", "bytes", "done"}, call' = call,
             pc' \notin {"head", "words", "bytes", "fault"}
      PROVE  CopyInv'
  BY <1>6 DEF CopyInv, Copying
<1>7. CASE SkipSpaces BY <1>6, <1>7 DEF SkipSpaces
<1>8. CASE Sign BY <1>6, <1>8 DEF Sign
<1>9. CASE Prefix BY <1>6, <1>9 DEF Prefix
<1>10. CASE Digit BY <1>6, <1>10 DEF Digit
<1>11. CASE Read BY <1>6, <1>11 DEF Read
<1>12. CASE Itoa BY <1>6, <1>12 DEF Itoa
<1>13. CASE WriteDigit BY <1>6, <1>13 DEF WriteDigit
<1>14. CASE Written BY <1>6, <1>14 DEF Written
<1>15. CASE ReadBack BY <1>6, <1>15 DEF ReadBack
<1>16. CASE UNCHANGED vars
  BY <1>16 DEF vars, memVars, CopyInv, Copying, Arguments, Registers, Aligned, Filled
<1> QED BY <1>3, <1>4, <1>5, <1>7, <1>8, <1>9, <1>10, <1>11, <1>12, <1>13, <1>14, <1>15, <1>16
        DEF Next

(* string.S:63, 20: memcpy and memset end with every byte of the region,   *)
(* and no other, in its place, and never use words at an address that is   *)
(* not aligned, for every length and alignment.                            *)
THEOREM EveryCopyExact == Spec => []CopiesExactly
<1>1. CopyInv => CopiesExactly
  <2> SUFFICES ASSUME CopyInv PROVE CopiesExactly OBVIOUS
  <2>1. pc # "fault" BY DEF CopyInv
  <2>2. ASSUME pc = "done", Copying PROVE mem = Filled(call.dst + call.len)
    <3>1. dst = call.dst + call.len BY <2>2 DEF CopyInv, Registers, Arguments
    <3> QED BY <2>2, <3>1 DEF CopyInv
  <2>3. Copying <=> call.op \in {"memcpy", "memset"} BY DEF Copying, CopyOps
  <2> QED BY <2>1, <2>2, <2>3 DEF CopiesExactly
<1> QED BY <1>1, CopyInit, CopyNext, PTL DEF Spec
-----------------------------------------------------------------------------
(* The digits, one by one. *)
Ten == <<"0", "1", "2", "3", "4", "5", "6", "7", "8", "9">>
LEMMA DigitTable ==
  /\ Len(Digits) = 18
  /\ \A k \in 1 .. 10 : Digits[k] = Ten[k]
  /\ \A k \in 11 .. 18 : Digits[k] = Letters[k - 10]
<1> DEFINE S == {"0", "1", "2", "3", "4", "5", "6", "7", "8", "9",
                "a", "b", "c", "d", "e", "f", "g", "x"}
<1>1. Ten \in Seq(S) /\ Letters \in Seq(S) /\ Len(Ten) = 10 /\ Len(Letters) = 8
  BY DEF Ten, Letters
<1>2. Digits = Ten \o Letters BY DEF Digits, Ten
<1> HIDE DEF S
<1>3. /\ Len(Ten \o Letters) = Len(Ten) + Len(Letters)
      /\ \A i \in 1 .. Len(Ten) + Len(Letters) :
           (Ten \o Letters)[i] = IF i <= Len(Ten) THEN Ten[i] ELSE Letters[i - Len(Ten)]
  BY <1>1, ConcatProperties
<1>4. Len(Digits) = 18 BY <1>1, <1>2, <1>3
<1>5. ASSUME NEW k \in 1 .. 10 PROVE Digits[k] = Ten[k]
  <2>1. k \in 1 .. Len(Ten) + Len(Letters) /\ k <= Len(Ten) BY <1>1
  <2> QED BY <1>2, <1>3, <2>1
<1>6. ASSUME NEW k \in 11 .. 18 PROVE Digits[k] = Letters[k - 10]
  <2>1. k \in 1 .. Len(Ten) + Len(Letters) /\ ~ (k <= Len(Ten)) /\ k - Len(Ten) = k - 10 BY <1>1
  <2> QED BY <1>2, <1>3, <2>1
<1> QED BY <1>4, <1>5, <1>6

LEMMA DigitAt ==
  ASSUME NEW d \in 0 .. 17
  PROVE  /\ d = 0 => Digits[d + 1] = "0"
         /\ d = 1 => Digits[d + 1] = "1"
         /\ d = 2 => Digits[d + 1] = "2"
         /\ d = 3 => Digits[d + 1] = "3"
         /\ d = 4 => Digits[d + 1] = "4"
         /\ d = 5 => Digits[d + 1] = "5"
         /\ d = 6 => Digits[d + 1] = "6"
         /\ d = 7 => Digits[d + 1] = "7"
         /\ d = 8 => Digits[d + 1] = "8"
         /\ d = 9 => Digits[d + 1] = "9"
         /\ d = 10 => Digits[d + 1] = "a"
         /\ d = 11 => Digits[d + 1] = "b"
         /\ d = 12 => Digits[d + 1] = "c"
         /\ d = 13 => Digits[d + 1] = "d"
         /\ d = 14 => Digits[d + 1] = "e"
         /\ d = 15 => Digits[d + 1] = "f"
         /\ d = 16 => Digits[d + 1] = "g"
         /\ d = 17 => Digits[d + 1] = "x"
<1>1. CASE d \in 0 .. 9 
  <2>1. Digits[d + 1] = Ten[d + 1] BY <1>1, DigitTable
  <2> QED BY <1>1, <2>1 DEF Ten
<1>2. CASE d \in 10 .. 17
  <2>1. Digits[d + 1] = Letters[d - 9] BY <1>2, DigitTable
  <2> QED BY <1>2, <2>1 DEF Letters
<1> QED BY <1>1, <1>2

(* No two digits are the same character, and none is another character. *)
LEMMA DigitsDiffer ==
  ASSUME NEW d \in 0 .. 17
  PROVE  /\ Digits[d + 1] \notin {"", " ", "-", "+"}
         /\ Digits[d + 1] = "x" => d = 17
         /\ \A e \in 0 .. 17 : Digits[d + 1] = Digits[e + 1] => d = e
<1>1. d = 0 \/ d = 1 \/ d = 2 \/ d = 3 \/ d = 4 \/ d = 5 \/ d = 6 \/ d = 7 \/ d = 8 \/ d = 9
      \/ d = 10 \/ d = 11 \/ d = 12 \/ d = 13 \/ d = 14 \/ d = 15 \/ d = 16 \/ d = 17
  OBVIOUS
<1>2. Digits[d + 1] \notin {"", " ", "-", "+"} BY <1>1, DigitAt
<1>3. Digits[d + 1] = "x" => d = 17 BY <1>1, DigitAt
<1>4. ASSUME NEW e \in 0 .. 17, Digits[d + 1] = Digits[e + 1] PROVE d = e
  <2>1. e = 0 \/ e = 1 \/ e = 2 \/ e = 3 \/ e = 4 \/ e = 5 \/ e = 6 \/ e = 7 \/ e = 8 \/ e = 9
      \/ e = 10 \/ e = 11 \/ e = 12 \/ e = 13 \/ e = 14 \/ e = 15 \/ e = 16 \/ e = 17
    OBVIOUS
  <2> QED BY <1>1, <1>4, <2>1, DigitAt
<1> QED BY <1>2, <1>3, <1>4

LEMMA IsADigit ==
  ASSUME NEW c, IsDigit(c)
  PROVE  DigitValue(c) \in Nat /\ c \notin {"", " ", "-", "+"}
<1>1. PICK k \in 1 .. Len(Digits) : Digits[k] = c BY DEF IsDigit
<1>2. k - 1 \in 0 .. 17 /\ Digits[(k - 1) + 1] = c BY <1>1, DigitTable
<1>3. c \notin {"", " ", "-", "+"} BY <1>2, DigitsDiffer
<1> DEFINE r == CHOOSE j \in 1 .. Len(Digits) : Digits[j] = c
<1>4. r \in 1 .. 18 BY <1>1, DigitTable
<1>5. DigitValue(c) = IF c = "x" THEN 33 ELSE r - 1 BY Zenon DEF DigitValue
<1> HIDE DEF r
<1>6. r - 1 \in Nat BY <1>4
<1>7. DigitValue(c) \in Nat
  <2>1. CASE c = "x" BY <1>5, <2>1
  <2>2. CASE c # "x" BY <1>5, <1>6, <2>2
  <2> QED BY <2>1, <2>2
<1> QED BY <1>3, <1>7

(* What IsDigit and DigitValue say of the digits of a base. *)
LEMMA DigitOf ==
  ASSUME NEW d \in 0 .. 15
  PROVE  /\ IsDigit(Digits[1 + d]) /\ DigitValue(Digits[1 + d]) = d
<1> DEFINE c == Digits[d + 1]
<1>1. c # "x" /\ Len(Digits) = 18
  <2>1. d \in 0 .. 17 /\ d # 17 OBVIOUS
  <2> QED BY <2>1, DigitsDiffer, DigitTable
<1>2. \A j \in 1 .. 18 : Digits[j] = c => j = d + 1
  <2> SUFFICES ASSUME NEW j \in 1 .. 18, Digits[j] = c PROVE j = d + 1 OBVIOUS
  <2>1. j - 1 \in 0 .. 17 /\ Digits[(j - 1) + 1] = c OBVIOUS
  <2>2. d \in 0 .. 17 OBVIOUS
  <2> HIDE DEF c
  <2>3. d = j - 1 BY ONLY <2>1, <2>2, DigitsDiffer DEF c
  <2> QED BY <2>3
<1>3. d + 1 \in 1 .. 18 /\ 1 + d = d + 1 OBVIOUS
<1> DEFINE r == CHOOSE j \in 1 .. Len(Digits) : Digits[j] = c
<1>4. r = d + 1 BY <1>1, <1>2, <1>3
<1>5. IsDigit(c) BY <1>1, <1>3 DEF IsDigit
<1>6. DigitValue(c) = d
  <2>1. DigitValue(c) = IF c = "x" THEN 33 ELSE r - 1 BY Zenon DEF DigitValue
  <2> HIDE DEF r, c
  <2> QED BY <1>1, <1>4, <2>1
<1> QED BY <1>1, <1>3, <1>5, <1>6
-----------------------------------------------------------------------------
(* h[k] is what the first k digits of t make of the number q. *)
Sums(h, t, b, q) ==
  /\ h[0] = q
  /\ \A k \in 1 .. Len(t) : h[k] = h[k - 1] * b + DigitValue(t[k])

(* There is one such function. *)
LEMMA SumsAgree ==
  ASSUME NEW t, Len(t) \in Nat, NEW b, NEW q, NEW h, Sums(h, t, b, q), NEW g, Sums(g, t, b, q)
  PROVE  h[Len(t)] = g[Len(t)]
<1> DEFINE T == {k \in 0 .. Len(t) : h[k] # g[k]}
<1>1. SUFFICES ASSUME T # {} PROVE FALSE OBVIOUS
<1>2. PICK n \in T : \A m \in T : n <= m
  <2>1. T \in SUBSET Nat OBVIOUS
  <2> HIDE DEF T
  <2> QED BY <1>1, <2>1, LeastNatural
<1>3. n # 0 BY <1>2 DEF Sums
<1>4. n \in 1 .. Len(t) /\ n - 1 \in 0 .. Len(t) /\ n - 1 \notin T BY <1>2, <1>3
<1>5. h[n - 1] = g[n - 1] BY <1>4
<1>6. h[n] = h[n - 1] * b + DigitValue(t[n]) BY <1>4 DEF Sums
<1>7. g[n] = g[n - 1] * b + DigitValue(t[n]) BY <1>4 DEF Sums
<1> QED BY <1>2, <1>5, <1>6, <1>7

(* It ends with the value of the digits. *)
LEMMA ValueIs ==
  ASSUME NEW t, Len(t) \in Nat, NEW b, NEW h, Sums(h, t, b, 0)
  PROVE  Value(t, b) = h[Len(t)]
<1> DEFINE Body(f) == [k \in 0 .. Len(t) |-> IF k = 0 THEN 0 ELSE f[k - 1] * b + DigitValue(t[k])]
           v == CHOOSE f : f = Body(f)
           g == [k \in 0 .. Len(t) |-> h[k]]
<1>1. g = Body(g)
  <2>1. ASSUME NEW k \in 0 .. Len(t)
        PROVE  g[k] = IF k = 0 THEN 0 ELSE g[k - 1] * b + DigitValue(t[k])
    <3>1. CASE k = 0 BY <3>1 DEF Sums
    <3>2. CASE k # 0
      <4>1. k \in 1 .. Len(t) /\ k - 1 \in 0 .. Len(t) BY <3>2
      <4> QED BY <3>2, <4>1 DEF Sums
    <3> QED BY <3>1, <3>2
  <2> QED BY <2>1
<1>2. v = Body(v) BY <1>1
<1>3. Value(t, b) = v[Len(t)] BY DEF Value
<1>4. Sums(v, t, b, 0)
  <2> HIDE DEF v
  <2>1. v[0] = 0 BY <1>2
  <2>2. ASSUME NEW k \in 1 .. Len(t) PROVE v[k] = v[k - 1] * b + DigitValue(t[k])
    <3>1. k \in 0 .. Len(t) /\ k # 0 OBVIOUS
    <3> QED BY <1>2, <3>1
  <2> QED BY <2>1, <2>2 DEF Sums
<1> QED BY <1>3, <1>4, SumsAgree

(* The digits t, after the number q, make x. *)
Makes(t, n, b, q, x) == \E h \in [0 .. n -> Nat] : Sums(h, t, b, q) /\ h[n] = x

(* One digit more at the end. *)
Longer(t, u, n) == n \in Nat /\ Len(t) = n /\ Len(u) = n + 1 /\ \A k \in 1 .. n : u[k] = t[k]
Shifted(x, b, d) == x * b + d
LEMMA SumsAppend ==
  ASSUME NEW n, NEW t, NEW u, Longer(t, u, n), NEW d, d \in Nat, d = DigitValue(u[n + 1]),
         NEW b, b \in {8, 10, 16}, NEW q, NEW y, Makes(t, n, b, q, y)
  PROVE  Makes(u, n + 1, b, q, Shifted(y, b, d))
<1>1. n \in Nat /\ Len(t) = n /\ Len(u) = n + 1 /\ \A k \in 1 .. n : u[k] = t[k] BY DEF Longer
<1>2. PICK h \in [0 .. n -> Nat] : Sums(h, t, b, q) /\ h[n] = y BY DEF Makes
<1>3. PICK x : x = h[n] * b + d OBVIOUS
<1> DEFINE g == [k \in 0 .. n + 1 |-> IF k = n + 1 THEN x ELSE h[k]]
<1>4. x \in Nat
  <2>1. \A i, j \in Nat : i * b + j \in Nat BY b = 8 \/ b = 10 \/ b = 16
  <2>2. h[n] \in Nat BY <1>1
  <2> QED BY <1>3, <2>1, <2>2
<1>5. g \in [0 .. n + 1 -> Nat] BY <1>1, <1>4
<1>6. g[0] = q BY <1>1, <1>2 DEF Sums
<1>7. ASSUME NEW k \in 1 .. n + 1 PROVE g[k] = g[k - 1] * b + DigitValue(u[k])
  <2>1. CASE k = n + 1
    <3>1. g[k] = x /\ g[k - 1] = h[n] BY <1>1, <2>1
    <3> QED BY <1>3, <2>1, <3>1
  <2>2. CASE k # n + 1
    <3>1. k \in 1 .. n /\ g[k] = h[k] /\ g[k - 1] = h[k - 1] /\ u[k] = t[k] BY <1>1, <2>2
    <3> QED BY <1>1, <1>2, <3>1 DEF Sums
  <2> QED BY <2>1, <2>2
<1>8. Sums(g, u, b, q) BY <1>1, <1>6, <1>7 DEF Sums
<1>9. g[n + 1] = Shifted(y, b, d) BY <1>1, <1>2, <1>3 DEF Shifted
<1> QED BY <1>5, <1>8, <1>9 DEF Makes

(* One digit more in front. *)
LEMMA SumsPrepend ==
  ASSUME NEW S, NEW t \in Seq(S), NEW c \in S, NEW b, NEW q \in Nat, NEW r, NEW y,
         r = q * b + DigitValue(c), Makes(t, Len(t), b, r, y)
  PROVE  Makes(<<c>> \o t, Len(<<c>> \o t), b, q, y)
<1> DEFINE u == <<c>> \o t
           n == Len(t)
<1>1. PICK h \in [0 .. n -> Nat] : Sums(h, t, b, r) /\ h[n] = y BY DEF Makes
<1>2. n \in Nat /\ Len(u) = n + 1 /\ u[1] = c /\ \A k \in 2 .. n + 1 : u[k] = t[k - 1]
  OBVIOUS
<1> DEFINE g == [k \in 0 .. n + 1 |-> IF k = 0 THEN q ELSE h[k - 1]]
<1>3. g \in [0 .. n + 1 -> Nat] BY <1>2
<1>4. g[0] = q BY <1>2
<1> HIDE DEF u
<1>5. ASSUME NEW k \in 1 .. Len(u) PROVE g[k] = g[k - 1] * b + DigitValue(u[k])
  <2>1. CASE k = 1
    <3>1. g[k] = h[0] /\ g[k - 1] = q /\ u[k] = c BY <1>2, <2>1
    <3> QED BY <1>1, <3>1 DEF Sums
  <2>2. CASE k # 1
    <3>1. k - 1 \in 1 .. n /\ g[k] = h[k - 1] /\ g[k - 1] = h[(k - 1) - 1] /\ u[k] = t[k - 1]
      BY <1>2, <2>2
    <3> QED BY <1>1, <3>1 DEF Sums
  <2> QED BY <2>1, <2>2
<1>6. Sums(g, u, b, q) BY <1>4, <1>5 DEF Sums
<1>7. g[n + 1] = y
  <2>1. n + 1 \in 0 .. n + 1 /\ n + 1 # 0 /\ (n + 1) - 1 = n BY <1>2
  <2> QED BY <1>1, <2>1
<1>8. g \in [0 .. Len(u) -> Nat] /\ g[Len(u)] = y BY <1>2, <1>3, <1>7
<1> HIDE DEF g
<1>9. Makes(u, Len(u), b, q, y) BY <1>6, <1>8 DEF Makes
<1> QED BY <1>9 DEF u
-----------------------------------------------------------------------------
NumOps == {"strtoul", "itoa"}
Writing == {"itoa", "write", "written"}
Copies == {"head", "words", "bytes", "fault"}

(* What a call has, by its operation. *)
LEMMA CallFields ==
  ASSUME call \in Calls
  PROVE  /\ call.op \in {"memcpy", "memset"} \cup NumOps
         /\ call.op = "itoa" => call.num \in -Half .. Half - 1 /\ call.base \in {10, 16}
         /\ call.op = "strtoul" => call.text \in Texts /\ call.base \in {0, 8, 10, 16}
BY BasesAssumption DEF Calls, NumOps

IsText(t) == \E S : t \in Seq(S)
OfBase(c, b) == IsDigit(c) /\ DigitValue(c) < b

(* The parts of a text: its spaces, sign, prefix and base, as Says has them. *)
Lead(t, sp)   == sp \in 0 .. Len(t) /\ Char(t, sp + 1) # " " /\ \A k \in 1 .. sp : t[k] = " "
Signed(t, sp, sg) == sg \in 0 .. 1 /\ (sg = 1 <=> Char(t, sp + 1) \in {"-", "+"})
Prefixed(t, b, p, px) ==
  px \in {0, 2} /\ (px = 2 <=> b \in {0, 16} /\ Char(t, p + 1) = "0" /\ Char(t, p + 2) = "x")
BaseOf(t, b, p, px) ==
  IF px = 2 THEN 16 ELSE IF b # 0 THEN b ELSE IF Char(t, p + 1) = "0" THEN 8 ELSE 10

(* What the loop holds after the digits s. *)
Counted(s, n) ==
  /\ any \in {-1, 0, 1} /\ (any = 0 <=> n = 0)
  /\ \E h \in [0 .. n -> Nat] :
       Sums(h, s, base, 0) /\ IF any = -1 THEN h[n] > ULONG_MAX ELSE acc = h[n] /\ acc <= ULONG_MAX

Reading(sp, sg, px, n) ==
  LET p == sp + sg + px
  IN  /\ Lead(text, sp) /\ Signed(text, sp, sg) /\ Prefixed(text, call.base, sp + sg, px)
      /\ base = BaseOf(text, call.base, p, px) /\ neg = (Char(text, sp + 1) = "-")
      /\ n \in Nat /\ p + n <= Len(text) /\ pos = p + n + 1
      /\ \A k \in p + 1 .. p + n : OfBase(text[k], base)
      /\ Counted(SubSeq(text, p + 1, p + n), n)

Begun == acc = 0 /\ any = 0 /\ base = call.base

PlaceInv ==
  /\ call \in Calls
  /\ call.op \in NumOps => pc \notin Copies
  /\ call.op \in {"memcpy", "memset"} => pc \in Copies \cup {"done"}
  /\ call.op = "strtoul" => pc \notin Writing /\ text = call.text
  /\ call.op = "itoa" /\ pc \notin Writing => text = out
  /\ call.op \in NumOps /\ pc \notin Writing => IsText(text)
  /\ pc \in Writing => pos = 1 /\ acc = 0 /\ any = 0

ReadInv ==
  /\ pc \in {"spaces", "sign"} =>
       Begun /\ pos \in 1 .. Len(text) + 1 /\ \A k \in 1 .. pos - 1 : text[k] = " "
  /\ pc = "sign" => Char(text, pos) # " "
  /\ pc = "prefix" => Begun /\ \E sp, sg : /\ Lead(text, sp) /\ Signed(text, sp, sg)
                                           /\ pos = sp + sg + 1 /\ neg = (Char(text, sp + 1) = "-")
  /\ pc = "digits" => \E sp, sg, px, n : Reading(sp, sg, px, n)
  /\ pc = "done" /\ call.op \in NumOps => Says(text, call.base, acc, pos)

(* itoa: what is written goes on from what is left. *)
Shown == IF call.num < 0 /\ call.base = 10 THEN -call.num ELSE call.num % (2 * Half)
Marks == {Digits[k] : k \in 1 .. 18} \cup {"-"}
Number(s, q) ==
  /\ s \in Seq(Marks) /\ \A k \in 1 .. Len(s) : OfBase(s[k], call.base)
  /\ Makes(s, Len(s), call.base, q, Shown)
WriteInv ==
  call.op = "itoa" =>
    /\ pc = "write" => value \in Nat /\ Number(out, value) /\ (out = <<>> => value # 0)
    /\ pc \notin {"itoa", "write"} =>
         \E s : /\ Number(s, 0) /\ s # <<>>
                /\ out = IF call.num < 0 /\ call.base = 10 THEN <<"-">> \o s ELSE s

NumInv == PlaceInv /\ ReadInv /\ WriteInv
-----------------------------------------------------------------------------
(* strtoul.c: the guard before a digit is that it still fits. *)
LEMMA DigitFits ==
  ASSUME NEW b \in {8, 10, 16}, NEW m \in Nat, NEW a \in Nat, NEW d \in Nat, d < b
  PROVE  a > m \div b \/ (a = m \div b /\ d > m % b) <=> a * b + d > m
<1>1. CASE b = 8 BY <1>1
<1>2. CASE b = 10 BY <1>2
<1>3. CASE b = 16 BY <1>3
<1> QED BY <1>1, <1>2, <1>3

(* The largest word. *)
LEMMA WordMax == ULONG_MAX \in Nat /\ 2 * Half \in Nat \ {0} /\ ULONG_MAX = 2 * Half - 1
BY HalfAssumption DEF ULONG_MAX

(* The base in use. *)
LEMMA BaseRange ==
  ASSUME NEW t, NEW b \in {0, 8, 10, 16}, NEW p, NEW px
  PROVE  BaseOf(t, b, p, px) \in {8, 10, 16}
BY DEF BaseOf

(* The base a number is read or written in. *)
LEMMA NumBase == ASSUME call \in Calls, call.op \in NumOps PROVE call.base \in {0, 8, 10, 16}
BY CallFields DEF NumOps

(* A text has a length. *)
LEMMA TextLength == ASSUME NEW t, IsText(t) PROVE Len(t) \in Nat /\ \E S : t \in Seq(S)
BY LenProperties DEF IsText

-----------------------------------------------------------------------------
(* Every call begins with nothing read or written. *)
LEMMA NumInit == Init => NumInv
<1> SUFFICES ASSUME Init PROVE NumInv OBVIOUS
<1>1. call \in Calls /\ acc = 0 /\ any = 0 /\ pos = 1 BY DEF Init
<1>2. CASE call.op = "strtoul"
  <2>1. pc = "spaces" /\ text = call.text /\ base = call.base BY <1>2 DEF Init
  <2>2. text \in Texts BY <1>1, <1>2, <2>1, CallFields
  <2>3. text \in Seq({text[k] : k \in DOMAIN text}) BY <2>2, TextsAssumption
  <2>4. IsText(text) BY <2>3 DEF IsText
  <2>5. Len(text) \in Nat BY <2>4, TextLength
  <2>6. PlaceInv BY <1>1, <1>2, <2>1, <2>4 DEF PlaceInv, Copies, Writing, NumOps
  <2>7. ReadInv BY <1>1, <2>1, <2>5 DEF ReadInv, Begun
  <2> QED BY <1>2, <2>6, <2>7 DEF NumInv, WriteInv
<1>3. CASE call.op = "itoa"
  <2>1. pc = "itoa" BY <1>3 DEF Init
  <2> QED BY <1>1, <1>3, <2>1 DEF NumInv, PlaceInv, ReadInv, WriteInv, Copies, Writing, NumOps
<1>4. CASE call.op \in {"memcpy", "memset"}
  <2>1. pc = "head" BY <1>4 DEF Init
  <2> QED BY <1>1, <1>4, <2>1 DEF NumInv, PlaceInv, ReadInv, WriteInv, Copies, Writing, NumOps
<1> QED BY <1>1, <1>2, <1>3, <1>4, CallFields DEF NumOps

(* A copy never reads or writes a number. *)
LEMMA CopyStep ==
  ASSUME NumInv, Align \/ Words \/ Bytes
  PROVE  NumInv'
<1>1. /\ pc \in Copies /\ pc' \in Copies \cup {"done"} /\ UNCHANGED <<call, readVars, value, out>>
  BY DEF Align, Words, Bytes, MoveWords, Copies
<1>2. call \in Calls /\ call.op \in {"memcpy", "memset"} BY <1>1, CallFields DEF NumInv, PlaceInv, NumOps
<1>3. call' \in Calls /\ call'.op \in {"memcpy", "memset"} BY <1>1, <1>2
<1> QED BY <1>1, <1>3 DEF NumInv, PlaceInv, ReadInv, WriteInv, Copies, Writing, NumOps

(* What is written stays as it is while it is read back. *)
LEMMA WriteKeeps ==
  ASSUME WriteInv, UNCHANGED <<call, value, out>>, pc \notin {"itoa", "write"}, pc' \notin {"itoa", "write"}
  PROVE  WriteInv'
BY DEF WriteInv, Number, Shown, Makes, Sums
-----------------------------------------------------------------------------
(* What has been passed are spaces. *)
LEMMA SkipSpacesStep ==
  ASSUME NumInv, SkipSpaces
  PROVE  NumInv'
<1>1. /\ pc = "spaces" /\ UNCHANGED <<call, text, base, acc, any, neg, value, out>>
      /\ \/ Char(text, pos) = " " /\ pos' = pos + 1 /\ pc' = "spaces"
         \/ Char(text, pos) # " " /\ pc' = "sign" /\ pos' = pos
  BY DEF SkipSpaces
<1>2. /\ Begun /\ pos \in 1 .. Len(text) + 1 /\ \A k \in 1 .. pos - 1 : text[k] = " "
  BY <1>1 DEF NumInv, ReadInv
<1>3. pos \in 1 .. Len(text) + 1 BY <1>2
<1>4. call.op \in NumOps /\ Len(text) \in Nat
  BY <1>1, CallFields, TextLength DEF NumInv, PlaceInv, Copies, NumOps, Writing
<1>5. PlaceInv'
  BY <1>1, <1>4 DEF NumInv, PlaceInv, Copies, Writing, NumOps
<1>6. WriteInv' BY <1>1, WriteKeeps DEF NumInv
<1>7. CASE pc' = "spaces"
  <2>1. Char(text, pos) = " " /\ pos' = pos + 1 BY <1>1, <1>7
  <2>2. pos \in 1 .. Len(text) /\ text[pos] = " "
    <3>1. CASE pos \in 1 .. Len(text) BY <2>1, <3>1 DEF Char
    <3>2. CASE pos \notin 1 .. Len(text) BY <2>1, <3>2 DEF Char
    <3> QED BY <3>1, <3>2
  <2>3. pos \in 1 .. Len(text) BY <2>2
  <2>4. Len(text) \in Int BY <1>4
  <2>5. pos \in Int BY ONLY <2>3, <2>4
  <2>6. pos \in Int /\ pos' = pos + 1 BY ONLY <2>1, <2>5
  <2>7. pos' - 1 = pos /\ pos' \in 1 .. Len(text) + 1 BY ONLY <2>3, <2>4, <2>6
  <2>8. ASSUME NEW k \in 1 .. pos PROVE text[k] = " "
    <3>1. k = pos \/ k \in 1 .. pos - 1 BY <2>6
    <3> QED BY <1>2, <2>2, <3>1
  <2> QED BY <1>1, <1>2, <1>5, <1>6, <1>7, <2>7, <2>8 DEF NumInv, ReadInv, Begun
<1>8. CASE pc' = "sign"
  BY <1>1, <1>2, <1>5, <1>6, <1>8 DEF NumInv, ReadInv, Begun
<1> QED BY <1>1, <1>7, <1>8

(* Of a sign only the "-" is remembered. *)
LEMMA SignStep ==
  ASSUME NumInv, Sign
  PROVE  NumInv'
<1>1. /\ pc = "sign" /\ pc' = "prefix" /\ UNCHANGED <<call, text, base, acc, any, value, out>>
      /\ neg' = (Char(text, pos) = "-")
      /\ pos' = IF Char(text, pos) \in {"-", "+"} THEN pos + 1 ELSE pos
  BY DEF Sign
<1>2. /\ Begun /\ pos \in 1 .. Len(text) + 1 /\ \A k \in 1 .. pos - 1 : text[k] = " "
      /\ Char(text, pos) # " "
  BY <1>1 DEF NumInv, ReadInv
<1>3. pos \in 1 .. Len(text) + 1 BY <1>2
<1>4. call.op \in NumOps /\ Len(text) \in Nat
  BY <1>1, CallFields, TextLength DEF NumInv, PlaceInv, Copies, NumOps, Writing
<1>5. PlaceInv' BY <1>1, <1>4 DEF NumInv, PlaceInv, Copies, Writing, NumOps
<1>6. WriteInv' BY <1>1, WriteKeeps DEF NumInv
<1> DEFINE sp == pos - 1
           sg == IF Char(text, pos) \in {"-", "+"} THEN 1 ELSE 0
<1>7. Lead(text, sp) /\ Signed(text, sp, sg) /\ pos' = sp + sg + 1 /\ neg' = (Char(text, sp + 1) = "-")
  <2>1. sp \in 0 .. Len(text) /\ sp + 1 = pos BY ONLY <1>4, <1>3
  <2>2. Lead(text, sp) BY <1>2, <2>1 DEF Lead
  <2>3. Signed(text, sp, sg) BY <2>1 DEF Signed
  <2>4. pos' = sp + sg + 1 BY <1>1, <2>1
  <2> QED BY <1>1, <2>1, <2>2, <2>3, <2>4
<1> HIDE DEF sp, sg
<1>8. \E i, j : /\ Lead(text', i) /\ Signed(text', i, j)
                /\ pos' = i + j + 1 /\ neg' = (Char(text', i + 1) = "-")
  BY <1>1, <1>7
<1> QED BY <1>1, <1>2, <1>5, <1>6, <1>8 DEF NumInv, ReadInv, Begun

(* The prefix settles the base, and no digit has been read. *)
LEMMA PrefixStep ==
  ASSUME NumInv, Prefix
  PROVE  NumInv'
<1>1. /\ pc = "prefix" /\ pc' = "digits" /\ UNCHANGED <<call, text, acc, any, neg, value, out>>
  BY DEF Prefix
<1>2. PICK sp, sg : /\ Lead(text, sp) /\ Signed(text, sp, sg)
                    /\ pos = sp + sg + 1 /\ neg = (Char(text, sp + 1) = "-")
  BY <1>1 DEF NumInv, ReadInv
<1>3. Begun BY <1>1 DEF NumInv, ReadInv
<1>4. call.op \in NumOps /\ Len(text) \in Nat
  BY <1>1, CallFields, TextLength DEF NumInv, PlaceInv, Copies, NumOps, Writing
<1>5. PlaceInv' BY <1>1, <1>4 DEF NumInv, PlaceInv, Copies, Writing, NumOps
<1>6. WriteInv' BY <1>1, WriteKeeps DEF NumInv
<1>7. sp \in 0 .. Len(text) /\ sg \in 0 .. 1 BY <1>2 DEF Lead, Signed
<1> DEFINE hex == call.base \in {0, 16} /\ Char(text, sp + sg + 1) = "0"
                  /\ Char(text, sp + sg + 2) = "x"
<1>8. PICK px : px = IF hex THEN 2 ELSE 0 OBVIOUS
<1>9. PICK p : p = sp + sg + px OBVIOUS
<1>10. pos = sp + sg + 1 /\ pos + 1 = sp + sg + 2 BY <1>2, <1>4, <1>7
<1>11. Prefixed(text, call.base, sp + sg, px) BY <1>8 DEF Prefixed
<1>12. base' = BaseOf(text, call.base, p, px) /\ pos' = p + 1
  <2>1. CASE hex
    <3>1. base' = 16 /\ pos' = pos + 2 BY <1>3, <1>10, <2>1 DEF Prefix, Begun
    <3> QED BY <1>4, <1>7, <1>10, <1>8, <1>9, <2>1, <3>1 DEF BaseOf
  <2>2. CASE ~ hex
    <3>1. /\ base' = IF base # 0 THEN base ELSE IF Char(text, pos) = "0" THEN 8 ELSE 10
          /\ pos' = pos
      BY <1>3, <1>10, <2>2 DEF Prefix, Begun
    <3>2. p + 1 = pos /\ p = sp + sg BY <1>7, <1>10, <1>8, <1>9, <2>2
    <3> QED BY <1>3, <1>8, <2>2, <3>1, <3>2 DEF BaseOf, Begun
  <2> QED BY <2>1, <2>2
<1>13. p \in Nat /\ p <= Len(text)
  <2>1. \A i : Char(text, i) # "" => i \in 1 .. Len(text) BY DEF Char
  <2>2. CASE hex
    <3>1. sp + sg + 2 \in 1 .. Len(text) BY <2>1, <2>2
    <3> QED BY <1>4, <1>7, <1>8, <1>9, <2>2, <3>1
  <2>3. CASE ~ hex
    <3>1. CASE sg = 0 BY <1>4, <1>7, <1>8, <1>9, <2>3, <3>1
    <3>2. CASE sg = 1
      <4>1. sp + 1 \in 1 .. Len(text) BY <1>2, <2>1, <3>2 DEF Signed
      <4> QED BY <1>4, <1>7, <1>8, <1>9, <2>3, <3>2, <4>1
    <3> QED BY <1>7, <3>1, <3>2
  <2> QED BY <2>2, <2>3
<1>14. Counted(SubSeq(text, p + 1, p + 0), 0)'
  <2>1. PICK s : s = SubSeq(text, p + 1, p + 0) OBVIOUS
  <2>2. s = <<>> /\ Len(s) = 0 BY <1>13, <2>1, SubSeqEmpty
  <2> DEFINE h == [k \in 0 .. 0 |-> 0]
  <2>3. h \in [0 .. 0 -> Nat] /\ h[0] = 0 OBVIOUS
  <2> HIDE DEF h
  <2>4. Sums(h, s, base', 0) BY <2>2, <2>3 DEF Sums
  <2>5. acc' = 0 /\ any' = 0 BY <1>1, <1>3 DEF Begun
  <2>6. any' # -1 /\ acc' = h[0] /\ acc' <= ULONG_MAX BY <2>3, <2>5, WordMax
  <2>7. \E g \in [0 .. 0 -> Nat] :
          /\ Sums(g, s, base', 0)
          /\ IF any' = -1 THEN g[0] > ULONG_MAX ELSE acc' = g[0] /\ acc' <= ULONG_MAX
    BY <2>3, <2>4, <2>6
  <2>8. any' \in {-1, 0, 1} /\ (any' = 0 <=> 0 = 0) BY <2>5
  <2>9. s = SubSeq(text', p + 1, p + 0) BY <1>1, <2>1
  <2> QED BY Zenon, <2>7, <2>8, <2>9 DEF Counted
<1>15. Reading(sp, sg, px, 0)'
  <2>1. p + 0 = p /\ \A k : k \notin p + 1 .. p + 0 BY <1>13
  <2>2. /\ Lead(text', sp) /\ Signed(text', sp, sg) /\ Prefixed(text', call'.base, sp + sg, px)
        /\ base' = BaseOf(text', call'.base, p, px) /\ neg' = (Char(text', sp + 1) = "-")
    BY <1>1, <1>2, <1>11, <1>12
  <2> QED BY <1>1, <1>12, <1>13, <1>14, <1>9, <2>1, <2>2 DEF Reading
<1>16. (\E i, j, k, n : Reading(i, j, k, n))' BY <1>15
<1> QED BY <1>1, <1>5, <1>6, <1>16 DEF NumInv, ReadInv
-----------------------------------------------------------------------------
(* n elements of t after the first m. *)
LEMMA Piece ==
  ASSUME NEW S, NEW t \in Seq(S), NEW m \in Nat, NEW n \in Nat, m + n <= Len(t)
  PROVE  /\ SubSeq(t, m + 1, m + n) \in Seq(S) /\ Len(SubSeq(t, m + 1, m + n)) = n
         /\ \A k \in 1 .. n : SubSeq(t, m + 1, m + n)[k] = t[m + k]
<1>1. PICK a, e : a = m + 1 /\ e = m + n OBVIOUS
<1>2. a \in Int /\ e \in Int /\ Len(t) \in Nat BY <1>1
<1>3. \A i \in a .. e : i \in 1 .. Len(t) BY ONLY <1>1, <1>2, m \in Nat, n \in Nat, m + n <= Len(t)
<1>4. \A i \in a .. e : t[i] \in S BY <1>3, ElementOfSeq
<1>5. /\ SubSeq(t, a, e) \in Seq(S)
      /\ Len(SubSeq(t, a, e)) = IF a <= e THEN e - a + 1 ELSE 0
      /\ \A i \in 1 .. e - a + 1 : SubSeq(t, a, e)[i] = t[a + i - 1]
  BY ONLY <1>2, <1>4, SubSeqProperties
<1>6. (IF a <= e THEN e - a + 1 ELSE 0) = n /\ e - a + 1 = n
      /\ \A i \in 1 .. n : a + i - 1 = m + i
  BY ONLY <1>1, <1>2, m \in Nat, n \in Nat
<1> QED BY <1>1, <1>5, <1>6

(* One element more of it. *)
LEMMA PieceGrows ==
  ASSUME NEW S, NEW t \in Seq(S), NEW m \in Nat, NEW n \in Nat, m + n + 1 <= Len(t)
  PROVE  SubSeq(t, m + 1, m + (n + 1)) = SubSeq(t, m + 1, m + n) \o <<t[m + n + 1]>>
<1>1. PICK a, e : a = m + 1 /\ e = m + (n + 1) OBVIOUS
<1>2. a \in 1 .. Len(t) /\ e \in a .. Len(t) /\ e - 1 = m + n /\ e = m + n + 1 BY <1>1
<1>3. SubSeq(t, a, e) = SubSeq(t, a, e - 1) \o <<t[e]>> BY ONLY t \in Seq(S), <1>2, SubSeqRecursiveSecond
<1> QED BY <1>1, <1>2, <1>3

(* The invariant of the loop over digits, with its parts in sight.         *)
LEMMA ReadingFacts ==
  ASSUME NumInv, pc = "digits", NEW sp, NEW sg, NEW px, NEW n, NEW p, Reading(sp, sg, px, n),
         p = sp + sg + px
  PROVE  /\ p \in Nat /\ n \in Nat /\ p + n <= Len(text) /\ pos = p + n + 1 /\ Len(text) \in Nat
         /\ sp \in 0 .. Len(text) /\ sg \in 0 .. 1 /\ px \in {0, 2}
         /\ Lead(text, sp) /\ Signed(text, sp, sg) /\ Prefixed(text, call.base, sp + sg, px)
         /\ base = BaseOf(text, call.base, p, px) /\ neg = (Char(text, sp + 1) = "-")
         /\ \A k \in p + 1 .. p + n : OfBase(text[k], base)
         /\ Counted(SubSeq(text, p + 1, p + n), n)
         /\ base \in {8, 10, 16} /\ call.op \in NumOps /\ IsText(text)
<1>1. call.op \in NumOps /\ IsText(text)
  BY CallFields DEF NumInv, PlaceInv, Copies, NumOps, Writing
<1>2. Len(text) \in Nat BY <1>1, TextLength
<1>3. /\ Lead(text, sp) /\ Signed(text, sp, sg) /\ Prefixed(text, call.base, sp + sg, px)
      /\ base = BaseOf(text, call.base, p, px) /\ neg = (Char(text, sp + 1) = "-")
      /\ n \in Nat /\ p + n <= Len(text) /\ pos = p + n + 1
      /\ \A k \in p + 1 .. p + n : OfBase(text[k], base)
      /\ Counted(SubSeq(text, p + 1, p + n), n)
  BY DEF Reading
<1>4. sp \in 0 .. Len(text) /\ sg \in 0 .. 1 /\ px \in {0, 2} BY <1>3 DEF Lead, Signed, Prefixed
<1>5. p \in Nat BY ONLY <1>2, <1>4, p = sp + sg + px
<1>6. call.base \in {0, 8, 10, 16} BY <1>1, NumBase DEF NumInv, PlaceInv
<1>7. base \in {8, 10, 16} BY <1>3, <1>6, BaseRange
<1> QED BY <1>1, <1>2, <1>3, <1>4, <1>5, <1>7

(* A number that is too large stays so. *)
LEMMA StaysLarge ==
  ASSUME NEW b \in {8, 10, 16}, NEW m \in Nat, NEW a \in Nat, NEW d \in Nat, a > m
  PROVE  a * b + d > m
<1>1. CASE b = 8 BY <1>1
<1>2. CASE b = 10 BY <1>2
<1>3. CASE b = 16 BY <1>3
<1> QED BY <1>1, <1>2, <1>3

(* A digit more: the sum goes on, or is and stays too large for a word. *)
LEMMA DigitStep ==
  ASSUME NumInv, Digit
  PROVE  NumInv'
<1>1. pc = "digits" /\ pc' = "digits" /\ UNCHANGED <<call, text, base, neg, value, out>>
  BY DEF Digit
<1>2. PICK sp, sg, px, n : Reading(sp, sg, px, n) BY <1>1 DEF NumInv, ReadInv
<1>3. PICK p : p = sp + sg + px OBVIOUS
<1>4. /\ p \in Nat /\ n \in Nat /\ p + n <= Len(text) /\ pos = p + n + 1 /\ Len(text) \in Nat
  BY <1>1, <1>2, <1>3, ReadingFacts
<1>5. /\ Lead(text, sp) /\ Signed(text, sp, sg) /\ Prefixed(text, call.base, sp + sg, px)
      /\ base = BaseOf(text, call.base, p, px) /\ neg = (Char(text, sp + 1) = "-")
      /\ \A k \in p + 1 .. p + n : OfBase(text[k], base)
  BY <1>1, <1>2, <1>3, ReadingFacts
<1>6. base \in {8, 10, 16} /\ call.op \in NumOps /\ IsText(text)
  BY <1>1, <1>2, <1>3, ReadingFacts
<1>7. Counted(SubSeq(text, p + 1, p + n), n) BY <1>1, <1>2, <1>3, ReadingFacts
<1>8. PICK c : c = Char(text, pos) OBVIOUS
<1>9. PICK d : d = DigitValue(c) OBVIOUS
<1>10. /\ IsDigit(c) /\ d < base /\ pos' = pos + 1
       /\ IF any < 0 \/ acc > ULONG_MAX \div base \/ (acc = ULONG_MAX \div base /\ d > ULONG_MAX % base)
          THEN any' = -1 /\ acc' = acc
          ELSE any' = 1 /\ acc' = acc * base + d
  BY <1>8, <1>9 DEF Digit, cutoff, cutlim
<1>11. d \in Nat /\ c \notin {"", " ", "-", "+"} BY <1>9, <1>10, IsADigit
<1>12. pos \in 1 .. Len(text) /\ text[pos] = c
  <2>1. CASE pos \in 1 .. Len(text) BY <1>8, <2>1 DEF Char
  <2>2. CASE pos \notin 1 .. Len(text) BY <1>8, <1>11, <2>2 DEF Char
  <2> QED BY <2>1, <2>2
<1>13. p + n + 1 <= Len(text) /\ pos' = p + (n + 1) + 1 /\ n + 1 \in Nat
       /\ p + 1 \in 1 .. Len(text) /\ p + (n + 1) \in p + 1 .. Len(text)
       /\ p + (n + 1) = pos /\ p + (n + 1) - 1 = p + n
  <2>1. pos <= Len(text) BY <1>4, <1>12
  <2> QED BY ONLY <1>4, <1>10, <2>1
<1>14. PICK S : text \in Seq(S) BY <1>6 DEF IsText
<1>15. PICK s : s = SubSeq(text, p + 1, p + n) OBVIOUS
<1>16. PICK u : u = SubSeq(text, p + 1, p + (n + 1)) OBVIOUS
<1>17. u = s \o <<c>>
  <2>1. SubSeq(text, p + 1, p + (n + 1)) = SubSeq(text, p + 1, p + n) \o <<text[p + n + 1]>>
    BY ONLY <1>4, <1>13, <1>14, PieceGrows
  <2> QED BY <1>4, <1>12, <1>15, <1>16, <2>1
<1>18. c \in S /\ s \in Seq(S) /\ Len(s) = n
  <2>1. c \in S BY <1>12, <1>14, ElementOfSeq
  <2>2. s \in Seq(S) /\ Len(s) = n BY <1>4, <1>14, <1>15, Piece
  <2> QED BY <2>1, <2>2
<1>19. PICK h \in [0 .. n -> Nat] :
         Sums(h, s, base, 0) /\ IF any = -1 THEN h[n] > ULONG_MAX ELSE acc = h[n] /\ acc <= ULONG_MAX
  BY <1>7, <1>15 DEF Counted
<1>20. any \in {-1, 0, 1} BY <1>7 DEF Counted
<1>21. PICK g \in [0 .. n + 1 -> Nat] : Sums(g, u, base, 0) /\ g[n + 1] = h[n] * base + d
  <2>1. Longer(s, u, n)
    <3>1. Len(s) = n /\ Len(u) = n + 1 /\ \A k \in 1 .. n : u[k] = s[k] BY <1>17, <1>18
    <3> QED BY <1>4, <3>1 DEF Longer
  <2>2. Makes(s, n, base, 0, h[n]) BY <1>19 DEF Makes
  <2>3. u[n + 1] = c BY <1>17, <1>18
  <2>4. d = DigitValue(u[n + 1]) /\ d \in Nat /\ base \in {8, 10, 16} BY <1>6, <1>9, <1>11, <2>3
  <2>5. Makes(u, n + 1, base, 0, Shifted(h[n], base, d)) BY <2>1, <2>2, <2>4, SumsAppend
  <2> QED BY <2>5 DEF Makes, Shifted
<1>22. h[n] \in Nat BY <1>4
<1>23. IF any' = -1 THEN g[n + 1] > ULONG_MAX ELSE acc' = g[n + 1] /\ acc' <= ULONG_MAX
  <2>1. CASE any = -1
    <3>1. any' = -1 BY <1>10, <2>1
    <3>2. h[n] > ULONG_MAX BY <1>19, <2>1
    <3>3. h[n] * base + d > ULONG_MAX BY <1>6, <1>11, <1>22, <3>2, WordMax, StaysLarge
    <3> QED BY <1>21, <3>1, <3>3
  <2>2. CASE any # -1
    <3>1. acc = h[n] /\ ~ (any < 0) BY <1>19, <1>20, <2>2
    <3>2. (acc > ULONG_MAX \div base \/ (acc = ULONG_MAX \div base /\ d > ULONG_MAX % base))
          <=> acc * base + d > ULONG_MAX
      BY <1>6, <1>10, <1>11, <1>22, <3>1, WordMax, DigitFits
    <3>3. g[n + 1] \in Nat /\ g[n + 1] = acc * base + d BY <1>4, <1>21, <3>1
    <3>4. CASE acc * base + d > ULONG_MAX
      <4>1. any' = -1 BY <1>10, <3>1, <3>2, <3>4
      <4> QED BY <3>3, <3>4, <4>1
    <3>5. CASE ~ (acc * base + d > ULONG_MAX)
      <4>1. any' = 1 /\ acc' = acc * base + d BY <1>10, <3>1, <3>2, <3>5
      <4>2. g[n + 1] <= ULONG_MAX BY <3>3, <3>5, WordMax
      <4> QED BY <3>3, <4>1, <4>2
    <3> QED BY <3>4, <3>5
  <2> QED BY <2>1, <2>2
<1>24. Counted(SubSeq(text, p + 1, p + (n + 1)), n + 1)'
  <2>1. any' \in {-1, 0, 1} /\ (any' = 0 <=> n + 1 = 0)
    <3>1. any' \in {-1, 1} BY <1>10
    <3>2. n + 1 # 0 BY <1>4
    <3> QED BY <3>1, <3>2
  <2>2. u = SubSeq(text', p + 1, p + (n + 1)) BY <1>1, <1>16
  <2>3. base' = base BY <1>1
  <2>4. \E f \in [0 .. n + 1 -> Nat] :
          /\ Sums(f, SubSeq(text', p + 1, p + (n + 1)), base', 0)
          /\ IF any' = -1 THEN f[n + 1] > ULONG_MAX ELSE acc' = f[n + 1] /\ acc' <= ULONG_MAX
    BY <1>21, <1>23, <2>2, <2>3
  <2> QED BY Zenon, <2>1, <2>4 DEF Counted
<1>25. \A k \in p + 1 .. p + (n + 1) : OfBase(text[k], base)
  <2>1. OfBase(text[pos], base) BY <1>9, <1>10, <1>12 DEF OfBase
  <2>2. \A k \in p + 1 .. p + (n + 1) : k \in p + 1 .. p + n \/ k = pos BY ONLY <1>4
  <2> QED BY <1>5, <2>1, <2>2
<1>26. p + (n + 1) <= Len(text) BY <1>4, <1>13
<1>27. Reading(sp, sg, px, n + 1)'
  <2>1. /\ Lead(text', sp) /\ Signed(text', sp, sg) /\ Prefixed(text', call'.base, sp + sg, px)
        /\ base' = BaseOf(text', call'.base, p, px) /\ neg' = (Char(text', sp + 1) = "-")
        /\ \A k \in p + 1 .. p + (n + 1) : OfBase(text'[k], base')
        /\ p + (n + 1) <= Len(text')
    BY <1>1, <1>5, <1>25, <1>26
  <2> QED BY <1>3, <1>13, <1>24, <2>1 DEF Reading
<1>28. (\E i, j, k, m : Reading(i, j, k, m))' BY <1>27
<1>29. PlaceInv' BY <1>1, <1>6 DEF NumInv, PlaceInv, Copies, Writing, NumOps
<1>30. WriteInv' BY <1>1, WriteKeeps DEF NumInv
<1> QED BY <1>1, <1>28, <1>29, <1>30 DEF NumInv, ReadInv

(* What was read is what the text says. *)
LEMMA ReadEnds ==
  ASSUME NumInv, Read
  PROVE  NumInv'
<1>1. /\ pc = "digits" /\ pc' = "done" /\ UNCHANGED <<call, text, base, any, neg, value, out>>
      /\ acc' = IF any < 0 THEN ULONG_MAX ELSE IF neg THEN (-acc) % (2 * Half) ELSE acc
      /\ pos' = IF any = 0 THEN 1 ELSE pos
      /\ ~ OfBase(Char(text, pos), base)
  BY DEF Read, OfBase
<1>2. PICK sp, sg, px, n : Reading(sp, sg, px, n) BY <1>1 DEF NumInv, ReadInv
<1>3. PICK p : p = sp + sg + px OBVIOUS
<1>4. /\ p \in Nat /\ n \in Nat /\ p + n <= Len(text) /\ pos = p + n + 1 /\ Len(text) \in Nat
      /\ sp \in 0 .. Len(text) /\ sg \in 0 .. 1 /\ px \in {0, 2}
  BY <1>1, <1>2, <1>3, ReadingFacts
<1>5. /\ Lead(text, sp) /\ Signed(text, sp, sg) /\ Prefixed(text, call.base, sp + sg, px)
      /\ base = BaseOf(text, call.base, p, px) /\ neg = (Char(text, sp + 1) = "-")
      /\ \A k \in p + 1 .. p + n : OfBase(text[k], base)
  BY <1>1, <1>2, <1>3, ReadingFacts
<1>6. base \in {8, 10, 16} /\ call.op \in NumOps /\ IsText(text)
  BY <1>1, <1>2, <1>3, ReadingFacts
<1>7. Counted(SubSeq(text, p + 1, p + n), n) BY <1>1, <1>2, <1>3, ReadingFacts
<1>8. PICK s : s = SubSeq(text, p + 1, p + n) OBVIOUS
<1>9. Len(s) = n
  <2>1. PICK S : text \in Seq(S) BY <1>6 DEF IsText
  <2>2. p \in Nat /\ n \in Nat /\ p + n <= Len(text) BY <1>4
  <2> QED BY ONLY <1>8, <2>1, <2>2, Piece
<1>10. PICK v : v = Value(s, base) OBVIOUS
<1>11. v \in Nat /\ any \in {-1, 0, 1} /\ (any = 0 <=> n = 0)
       /\ IF any = -1 THEN v > ULONG_MAX ELSE acc = v /\ acc <= ULONG_MAX
  <2>1. PICK h \in [0 .. n -> Nat] :
          Sums(h, s, base, 0) /\ IF any = -1 THEN h[n] > ULONG_MAX ELSE acc = h[n] /\ acc <= ULONG_MAX
    BY <1>7, <1>8 DEF Counted
  <2>2. v = h[n] BY <1>4, <1>9, <1>10, <2>1, ValueIs
  <2>3. h[n] \in Nat BY <1>4
  <2>4. any \in {-1, 0, 1} /\ (any = 0 <=> n = 0) BY <1>7 DEF Counted
  <2> QED BY <2>1, <2>2, <2>3, <2>4
<1>12. acc' = IF v > ULONG_MAX THEN ULONG_MAX
              ELSE IF Char(text, sp + 1) = "-" THEN (-v) % (2 * Half) ELSE v
  <2>1. CASE any = -1 BY <1>1, <1>11, <2>1
  <2>2. CASE any # -1
    <3>1. ~ (any < 0) /\ ~ (v > ULONG_MAX) /\ acc = v BY <1>11, <2>2, WordMax
    <3> QED BY <1>1, <1>5, <3>1
  <2> QED BY <2>1, <2>2
<1>13. pos' = IF n = 0 THEN 1 ELSE p + n + 1 BY <1>1, <1>4, <1>11
<1>14. n \in 0 .. Len(text) BY ONLY <1>4
<1>15. Says(text, call.base, acc', pos')
  <2>1. /\ p + n <= Len(text) /\ \A k \in 1 .. sp : text[k] = " "
        /\ Char(text, sp + 1) # " " /\ ((sg = 1) <=> Char(text, sp + 1) \in {"-", "+"})
        /\ ((px = 2) <=> (call.base \in {0, 16} /\ Char(text, sp + sg + 1) = "0"
                                               /\ Char(text, sp + sg + 2) = "x"))
    BY <1>4, <1>5 DEF Lead, Signed, Prefixed
  <2>2. base = IF px = 2 THEN 16 ELSE IF call.base # 0 THEN call.base
               ELSE IF Char(text, p + 1) = "0" THEN 8 ELSE 10
    BY <1>5 DEF BaseOf
  <2>3. \A k \in p + 1 .. p + n : IsDigit(text[k]) /\ DigitValue(text[k]) < base
    BY <1>5 DEF OfBase
  <2>4. ~ (IsDigit(Char(text, p + n + 1)) /\ DigitValue(Char(text, p + n + 1)) < base)
    BY <1>1, <1>4 DEF OfBase
  <2>5. v = Value(SubSeq(text, p + 1, p + n), base) BY <1>8, <1>10
  <2>6. sp \in 0 .. Len(text) /\ sg \in 0 .. 1 /\ px \in {0, 2} BY <1>4
  <2> QED BY ONLY ZenonT(60), <1>3, <1>12, <1>13, <1>14, <2>1, <2>2, <2>3, <2>4, <2>5, <2>6 DEF Says
<1>16. PlaceInv' BY <1>1, <1>6 DEF NumInv, PlaceInv, Copies, Writing, NumOps
<1>17. WriteInv' BY <1>1, WriteKeeps DEF NumInv
<1>18. Says(text', call'.base, acc', pos') BY <1>1, <1>15
<1> QED BY <1>1, <1>16, <1>17, <1>18 DEF NumInv, ReadInv
-----------------------------------------------------------------------------
(* The text of itoa. *)
(* Digits are the characters of a number. *)
LEMMA IsMark == ASSUME NEW d \in 0 .. 15 PROVE Digits[1 + d] \in Marks
BY DEF Marks

(* What is written is the number of the call. *)
LEMMA OpIsItoa ==
  ASSUME PlaceInv, pc \in Writing
  PROVE  call.op = "itoa" /\ call.num \in -Half .. Half - 1 /\ call.base \in {10, 16}
BY CallFields DEF PlaceInv, Writing, Copies, NumOps

(* The number without its sign is a word, and 0 only for 0. *)
LEMMA ShownRange ==
  ASSUME call.num \in -Half .. Half - 1
  PROVE  Shown \in 0 .. ULONG_MAX /\ (call.num # 0 => Shown # 0) /\ (call.num = 0 => Shown = 0)
<1>1. PICK w : w = 2 * Half OBVIOUS
<1>2. w \in Nat \ {0} /\ ULONG_MAX = w - 1 /\ Half \in Nat \ {0} BY <1>1, WordMax, HalfAssumption
<1>3. call.num \in Int /\ call.num >= -Half /\ call.num < Half /\ w = 2 * Half BY <1>1, <1>2
<1>4. call.num % w = IF call.num < 0 THEN call.num + w ELSE call.num
  <2>1. \A x \in 0 .. w - 1 : x % w = x BY <1>2
  <2>2. CASE call.num < 0
    <3>1. call.num + w \in 0 .. w - 1 BY <1>2, <1>3, <2>2
    <3>2. (call.num + w) % w = call.num % w BY <1>2, <1>3
    <3> QED BY <2>1, <2>2, <3>1, <3>2
  <2>3. CASE ~ (call.num < 0)
    <3>1. call.num \in 0 .. w - 1 BY <1>2, <1>3, <2>3
    <3> QED BY <2>1, <2>3, <3>1
  <2> QED BY <2>2, <2>3
<1>5. Shown = IF call.num < 0 /\ call.base = 10 THEN -call.num
              ELSE IF call.num < 0 THEN call.num + w ELSE call.num
  BY <1>1, <1>4 DEF Shown
<1> QED BY <1>2, <1>3, <1>5

(* The whole number is still to be written;  0 is written at once. *)
LEMMA ItoaStep ==
  ASSUME NumInv, Itoa
  PROVE  NumInv'
<1>1. /\ pc = "itoa" /\ UNCHANGED <<call, readVars>>
      /\ value' = Shown
      /\ out' = IF call.num = 0 THEN <<"0">> ELSE <<>>
      /\ pc' = IF call.num = 0 THEN "written" ELSE "write"
  BY DEF Itoa, Shown
<1>2. call.op = "itoa" /\ call.num \in -Half .. Half - 1 /\ call.base \in {10, 16}
  BY <1>1, OpIsItoa DEF NumInv, Writing
<1>3. pc' \in {"write", "written"} BY <1>1
<1>4. PlaceInv' BY <1>1, <1>2, <1>3 DEF NumInv, PlaceInv, Copies, Writing, NumOps, readVars
<1>5. ReadInv' BY <1>3 DEF ReadInv
<1>6. Shown' = Shown BY <1>1 DEF Shown
<1>7. Shown \in Nat BY <1>2, ShownRange, WordMax
<1>8. WriteInv'
  <2>1. CASE call.num = 0
    <3>1. Shown = 0 BY <1>2, <2>1, ShownRange
    <3>2. Digits[1 + 0] = "0" BY DigitAt, 0 \in 0 .. 17
    <3>3. IsDigit("0") /\ DigitValue("0") = 0 BY <3>2, DigitOf, 0 \in 0 .. 15
    <3>4. PICK s : s = <<"0">> OBVIOUS
    <3>5. s \in Seq(Marks) /\ Len(s) = 1 /\ s[1] = "0" BY <3>2, <3>4, IsMark, 0 \in 0 .. 15
    <3>6. \A k \in 1 .. Len(s) : OfBase(s[k], call.base) BY <1>2, <3>3, <3>5 DEF OfBase
    <3>7. Makes(s, Len(s), call.base, 0, Shown)
      <4> DEFINE h == [k \in 0 .. 1 |-> 0]
      <4>1. h \in [0 .. Len(s) -> Nat] /\ h[Len(s)] = Shown BY <3>1, <3>5
      <4>2. Sums(h, s, call.base, 0) BY <1>2, <3>3, <3>5 DEF Sums
      <4> HIDE DEF h
      <4> QED BY <4>1, <4>2 DEF Makes
    <3>8. Number(s, 0) BY <3>5, <3>6, <3>7 DEF Number
    <3>9. Number(s, 0)' BY <1>1, <1>6, <3>8 DEF Number
    <3>10. s # <<>> BY <3>5
    <3>11. out' = s /\ pc' = "written" /\ ~ (call'.num < 0) BY <1>1, <1>2, <2>1, <3>4
    <3> QED BY <3>9, <3>10, <3>11 DEF WriteInv
  <2>2. CASE call.num # 0
    <3>1. Shown # 0 BY <1>2, <2>2, ShownRange
    <3>2. out' = <<>> /\ pc' = "write" /\ value' = Shown BY <1>1, <2>2
    <3>3. PICK s : s = <<>> OBVIOUS
    <3>4. s \in Seq(Marks) /\ Len(s) = 0 BY <3>3
    <3>5. Makes(s, Len(s), call.base, Shown, Shown)
      <4> DEFINE h == [k \in 0 .. 0 |-> Shown]
      <4>1. h \in [0 .. Len(s) -> Nat] /\ h[Len(s)] = Shown BY <1>7, <3>4
      <4>2. Sums(h, s, call.base, Shown) BY <3>4 DEF Sums
      <4> HIDE DEF h
      <4> QED BY <4>1, <4>2 DEF Makes
    <3>6. Number(s, Shown) BY <3>4, <3>5 DEF Number
    <3>7. Number(out, value)' BY <1>1, <1>6, <3>2, <3>3, <3>6 DEF Number
    <3> QED BY <1>7, <3>1, <3>2, <3>7 DEF WriteInv
  <2> QED BY <2>1, <2>2
<1> QED BY <1>4, <1>5, <1>8 DEF NumInv

(* A digit more: what is left of the value goes in front of it. *)
LEMMA WriteDigitStep ==
  ASSUME NumInv, WriteDigit
  PROVE  NumInv'
<1>1. /\ pc = "write" /\ value # 0 /\ pc' = pc /\ UNCHANGED <<call, readVars>>
      /\ out' = <<Digits[1 + (value % call.base)]>> \o out
      /\ value' = value \div call.base
  BY DEF WriteDigit
<1>2. call.op = "itoa" /\ call.num \in -Half .. Half - 1 /\ call.base \in {10, 16}
  BY <1>1, OpIsItoa DEF NumInv, Writing
<1>3. PlaceInv' BY <1>1, <1>2 DEF NumInv, PlaceInv, Copies, Writing, NumOps, readVars
<1>4. ReadInv' BY <1>1 DEF ReadInv
<1>5. Shown' = Shown BY <1>1 DEF Shown
<1>6. value \in Nat /\ Number(out, value) BY <1>1, <1>2 DEF NumInv, WriteInv
<1>7. PICK d : d = value % call.base OBVIOUS
<1>8. d \in 0 .. 15 /\ d < call.base /\ value \div call.base \in Nat
      /\ value = (value \div call.base) * call.base + d
  <2>1. CASE call.base = 10 BY <1>6, <1>7, <2>1
  <2>2. CASE call.base = 16 BY <1>6, <1>7, <2>2
  <2> QED BY <1>2, <2>1, <2>2
<1>9. PICK c : c = Digits[1 + d] OBVIOUS
<1>10. c \in Marks /\ IsDigit(c) /\ DigitValue(c) = d BY <1>8, <1>9, IsMark, DigitOf
<1>11. out \in Seq(Marks) /\ Makes(out, Len(out), call.base, value, Shown)
       /\ \A k \in 1 .. Len(out) : OfBase(out[k], call.base)
  BY <1>6 DEF Number
<1>12. PICK u : u = <<c>> \o out OBVIOUS
<1>13. Makes(u, Len(u), call.base, value \div call.base, Shown)
  BY <1>8, <1>10, <1>11, <1>12, SumsPrepend
<1>14. u \in Seq(Marks) /\ Len(u) = Len(out) + 1 /\ u[1] = c
       /\ \A k \in 2 .. Len(u) : k - 1 \in 1 .. Len(out) /\ u[k] = out[k - 1]
  BY <1>10, <1>11, <1>12
<1>15. \A k \in 1 .. Len(u) : OfBase(u[k], call.base)
  <2> SUFFICES ASSUME NEW k \in 1 .. Len(u) PROVE OfBase(u[k], call.base) OBVIOUS
  <2>1. CASE k = 1 BY <1>8, <1>10, <1>14, <2>1 DEF OfBase
  <2>2. CASE k # 1
    <3>1. k \in 2 .. Len(u) BY <1>11, <1>14, <2>2
    <3> QED BY <1>11, <1>14, <3>1
  <2> QED BY <2>1, <2>2
<1>16. Number(u, value \div call.base) BY <1>13, <1>14, <1>15 DEF Number
<1>17. out' = u /\ u # <<>> BY <1>1, <1>7, <1>9, <1>11, <1>12, <1>14
<1>18. Number(out, value)' BY <1>1, <1>5, <1>16, <1>17 DEF Number
<1>19. WriteInv' BY <1>1, <1>8, <1>17, <1>18 DEF WriteInv
<1> QED BY <1>3, <1>4, <1>19 DEF NumInv

(* The sign goes in front of the digits. *)
LEMMA WrittenStep ==
  ASSUME NumInv, Written
  PROVE  NumInv'
<1>1. /\ pc = "write" /\ value = 0 /\ pc' = "written" /\ UNCHANGED <<call, readVars, value>>
      /\ out' = IF call.num < 0 /\ call.base = 10 THEN <<"-">> \o out ELSE out
  BY DEF Written
<1>2. call.op = "itoa" /\ call.num \in -Half .. Half - 1 /\ call.base \in {10, 16}
  BY <1>1, OpIsItoa DEF NumInv, Writing
<1>3. PlaceInv' BY <1>1, <1>2 DEF NumInv, PlaceInv, Copies, Writing, NumOps, readVars
<1>4. ReadInv' BY <1>1 DEF ReadInv
<1>5. Shown' = Shown BY <1>1 DEF Shown
<1>6. Number(out, 0) /\ out # <<>> BY <1>1, <1>2 DEF NumInv, WriteInv
<1>7. PICK s : s = out OBVIOUS
<1>8. Number(s, 0)' BY <1>1, <1>5, <1>6, <1>7 DEF Number
<1>9. out' = IF call'.num < 0 /\ call'.base = 10 THEN <<"-">> \o s ELSE s BY <1>1, <1>7
<1>10. WriteInv' BY <1>1, <1>6, <1>7, <1>8, <1>9 DEF WriteInv
<1> QED BY <1>3, <1>4, <1>10 DEF NumInv

(* What is written is a text. *)
LEMMA WrittenText ==
  ASSUME NumInv, call.op = "itoa", pc \notin {"itoa", "write"}
  PROVE  IsText(out) /\ Len(out) \in Nat
<1>1. PICK s : Number(s, 0) /\ out = IF call.num < 0 /\ call.base = 10 THEN <<"-">> \o s ELSE s
  BY DEF NumInv, WriteInv
<1>2. s \in Seq(Marks) /\ "-" \in Marks BY <1>1 DEF Number, Marks
<1>3. out \in Seq(Marks) BY <1>1, <1>2
<1> QED BY <1>3, LenProperties DEF IsText

(* It is read from its first character. *)
LEMMA ReadBackStep ==
  ASSUME NumInv, ReadBack
  PROVE  NumInv'
<1>1. /\ pc = "written" /\ text' = out /\ base' = call.base /\ pc' = "spaces"
      /\ UNCHANGED <<call, pos, acc, any, value, out>>
  BY DEF ReadBack
<1>2. call.op = "itoa" /\ call \in Calls BY <1>1, OpIsItoa DEF NumInv, PlaceInv, Writing
<1>3. pos = 1 /\ acc = 0 /\ any = 0 BY <1>1 DEF NumInv, PlaceInv, Writing
<1>4. IsText(out) /\ Len(out) \in Nat BY <1>1, <1>2, WrittenText
<1>5. PlaceInv' BY <1>1, <1>2, <1>4 DEF PlaceInv, Copies, Writing, NumOps
<1>6. ReadInv' BY <1>1, <1>3, <1>4 DEF ReadInv, Begun
<1>7. WriteInv' BY <1>1, WriteKeeps DEF NumInv
<1> QED BY <1>5, <1>6, <1>7 DEF NumInv

(* Every step keeps the invariant. *)
LEMMA NumNext == NumInv /\ [Next]_vars => NumInv'
<1> SUFFICES ASSUME NumInv, [Next]_vars PROVE NumInv' OBVIOUS
<1>1. CASE Align \/ Words \/ Bytes BY <1>1, CopyStep
<1>2. CASE SkipSpaces BY <1>2, SkipSpacesStep
<1>3. CASE Sign BY <1>3, SignStep
<1>4. CASE Prefix BY <1>4, PrefixStep
<1>5. CASE Digit BY <1>5, DigitStep
<1>6. CASE Read BY <1>6, ReadEnds
<1>7. CASE Itoa BY <1>7, ItoaStep
<1>8. CASE WriteDigit BY <1>8, WriteDigitStep
<1>9. CASE Written BY <1>9, WrittenStep
<1>10. CASE ReadBack BY <1>10, ReadBackStep
<1>11. CASE UNCHANGED vars
  <2>1. UNCHANGED <<call, pc, text, pos, base, acc, any, neg, value, out>>
    BY <1>11 DEF vars, readVars
  <2>2. PlaceInv' BY <2>1 DEF NumInv, PlaceInv
  <2>3. WriteInv'
    <3>1. \A s, q : Number(s, q)' <=> Number(s, q) BY <2>1 DEF Number, Shown
    <3> QED BY <2>1, <3>1 DEF NumInv, WriteInv, Number, Shown
  <2>4. ReadInv'
    <3>1. \A sp, sg, px, n : Reading(sp, sg, px, n) => Reading(sp, sg, px, n)'
      BY <2>1 DEF Reading, Counted
    <3> QED BY <2>1, <3>1 DEF NumInv, ReadInv, Begun
  <2> QED BY <2>2, <2>3, <2>4 DEF NumInv
<1> QED BY <1>1, <1>2, <1>3, <1>4, <1>5, <1>6, <1>7, <1>8, <1>9, <1>10, <1>11 DEF Next
-----------------------------------------------------------------------------
(* The invariant of numbers holds. *)
LEMMA NumAlways == Spec => []NumInv
BY NumInit, NumNext, PTL DEF Spec

(* strtoul.c:28: whatever the texts, the bases and the size of a word, a   *)
(* number that is read is what the text says, held to the largest word.    *)
THEOREM NumberIsRead == Spec => []NumberRead
<1>1. NumInv => NumberRead
  <2> SUFFICES ASSUME NumInv, pc = "done", call.op = "strtoul" PROVE Says(call.text, call.base, acc, pos)
    BY DEF NumberRead
  <2>1. text = call.text BY DEF NumInv, PlaceInv, Writing
  <2>2. Says(text, call.base, acc, pos) BY DEF NumInv, ReadInv, NumOps
  <2> QED BY <2>1, <2>2
<1> QED BY <1>1, NumAlways, PTL

(* What Says finds in the text of itoa: no space, its sign, no prefix, all *)
(* of its digits.                                                          *)
LEMMA SaysShown ==
  ASSUME NumInv, pc = "done", call.op = "itoa"
  PROVE  acc = call.num % (2 * Half) /\ pos = Len(out) + 1
<1>1. call.num \in -Half .. Half - 1 /\ call.base \in {10, 16} BY CallFields DEF NumInv, PlaceInv
<1>2. PICK s : /\ Number(s, 0) /\ s # <<>>
               /\ out = IF call.num < 0 /\ call.base = 10 THEN <<"-">> \o s ELSE s
  BY DEF NumInv, WriteInv
<1>3. s \in Seq(Marks) /\ Makes(s, Len(s), call.base, 0, Shown)
      /\ \A k \in 1 .. Len(s) : OfBase(s[k], call.base)
  BY <1>2 DEF Number
<1>4. Len(s) \in Nat \ {0} BY <1>2, <1>3
<1>5. "-" \in Marks BY DEF Marks
<1>6. PICK m : m = IF call.num < 0 /\ call.base = 10 THEN 1 ELSE 0 OBVIOUS
<1>7. m \in 0 .. 1 /\ Len(out) = m + Len(s) /\ out \in Seq(Marks)
      /\ (\A k \in 1 .. Len(s) : out[m + k] = s[k]) /\ (m = 1 => out[1] = "-" /\ call.base = 10)
  BY <1>2, <1>3, <1>4, <1>5, <1>6
<1>8. \A k \in 1 .. Len(s) : IsDigit(s[k]) /\ DigitValue(s[k]) < call.base
                             /\ s[k] \notin {"", " ", "-", "+", "x"}
  <2> SUFFICES ASSUME NEW k \in 1 .. Len(s)
               PROVE  IsDigit(s[k]) /\ DigitValue(s[k]) < call.base /\ s[k] \notin {"", " ", "-", "+", "x"}
    OBVIOUS
  <2>1. IsDigit(s[k]) /\ DigitValue(s[k]) < call.base BY <1>3 DEF OfBase
  <2>2. s[k] \notin {"", " ", "-", "+"} BY <2>1, IsADigit
  <2>3. s[k] # "x"
    <3>1. DigitValue("x") = 33 BY DEF DigitValue
    <3>2. ~ (33 < call.base) BY <1>1
    <3> QED BY <2>1, <3>1, <3>2
  <2> QED BY <2>1, <2>2, <2>3
<1>9. text = out /\ Says(out, call.base, acc, pos)
  BY DEF NumInv, PlaceInv, ReadInv, Writing, NumOps
<1>10. PICK sp \in 0 .. Len(out), sg \in 0 .. 1, px \in {0, 2}, n \in 0 .. Len(out) :
    LET p  == sp + sg + px
        bb == IF px = 2 THEN 16 ELSE IF call.base # 0 THEN call.base
              ELSE IF Char(out, p + 1) = "0" THEN 8 ELSE 10
        v  == Value(SubSeq(out, p + 1, p + n), bb)
    IN  /\ p + n <= Len(out)
        /\ \A k \in 1 .. sp : out[k] = " "
        /\ Char(out, sp + 1) # " "
        /\ (sg = 1) <=> Char(out, sp + 1) \in {"-", "+"}
        /\ (px = 2) <=> (call.base \in {0, 16} /\ Char(out, sp + sg + 1) = "0"
                                               /\ Char(out, sp + sg + 2) = "x")
        /\ \A k \in p + 1 .. p + n : IsDigit(out[k]) /\ DigitValue(out[k]) < bb
        /\ ~ (IsDigit(Char(out, p + n + 1)) /\ DigitValue(Char(out, p + n + 1)) < bb)
        /\ pos = IF n = 0 THEN 1 ELSE p + n + 1
        /\ acc = IF v > ULONG_MAX THEN ULONG_MAX
                 ELSE IF Char(out, sp + 1) = "-" THEN (-v) % (2 * Half) ELSE v
  BY Zenon, <1>9 DEF Says
<1>11. out[1] # " " /\ (out[1] \in {"-", "+"} <=> m = 1) /\ 1 \in 1 .. Len(out) /\ Char(out, 1) = out[1]
  <2>1. 1 \in 1 .. Len(out) /\ 1 \in 1 .. Len(s) BY <1>4, <1>7
  <2>2. Char(out, 1) = out[1] BY <2>1 DEF Char
  <2>3. CASE m = 1
    <3>1. out[1] = "-" BY <1>7, <2>3
    <3> QED BY Zenon, <2>1, <2>2, <2>3, <3>1
  <2>4. CASE m = 0
    <3>1. out[1] = s[1] BY <1>7, <2>1, <2>4
    <3>2. out[1] \notin {" ", "-", "+"} BY <1>8, <2>1, <3>1
    <3>3. m # 1 BY <2>4
    <3> QED BY Zenon, <2>1, <2>2, <3>2, <3>3
  <2>5. m = 0 \/ m = 1 BY <1>7
  <2> QED BY Zenon, <2>3, <2>4, <2>5
<1>12. sp = 0
  <2>1. SUFFICES ASSUME sp # 0 PROVE FALSE OBVIOUS
  <2>2. 1 \in 1 .. sp BY <2>1
  <2> QED BY <1>10, <1>11, <2>2
<1>13. sg = m
  <2>1. sg = 1 <=> Char(out, sp + 1) \in {"-", "+"} BY <1>10
  <2>2. sp + 1 = 1 BY <1>12
  <2>3. sg = 1 <=> m = 1 BY Zenon, <1>11, <2>1, <2>2
  <2> QED BY <1>7, <2>3
<1>14. px = 0
  <2>1. SUFFICES ASSUME px = 2 PROVE FALSE OBVIOUS
  <2>2. Char(out, sp + sg + 2) = "x" BY <1>10, <2>1
  <2>3. sp + sg + 2 = m + 2 BY <1>7, <1>12, <1>13
  <2>4. m + 2 \in 1 .. Len(out) /\ out[m + 2] = "x" BY <2>2, <2>3 DEF Char
  <2>5. 2 \in 1 .. Len(s) BY <1>4, <1>7, <2>4
  <2> QED BY <1>7, <1>8, <2>4, <2>5
<1>15. PICK p : p = sp + sg + px OBVIOUS
<1>16. p = m BY <1>7, <1>12, <1>13, <1>14, <1>15
<1>17. /\ m + n <= Len(out)
       /\ ~ (IsDigit(Char(out, m + n + 1)) /\ DigitValue(Char(out, m + n + 1)) < call.base)
       /\ pos = IF n = 0 THEN 1 ELSE m + n + 1
       /\ acc = LET v == Value(SubSeq(out, m + 1, m + n), call.base)
                IN IF v > ULONG_MAX THEN ULONG_MAX
                   ELSE IF Char(out, 1) = "-" THEN (-v) % (2 * Half) ELSE v
  <2>1. call.base # 0 /\ px # 2 /\ sp + sg + px = m /\ sp + 1 = 1 BY <1>1, <1>12, <1>14, <1>15, <1>16
  <2> QED BY Zenon, <1>10, <2>1
<1>18. n = Len(s)
  <2>1. n <= Len(s) /\ n \in Nat BY <1>4, <1>7, <1>17
  <2>2. SUFFICES ASSUME n < Len(s) PROVE FALSE BY <1>4, <2>1
  <2>3. n + 1 \in 1 .. Len(s) /\ m + n + 1 \in 1 .. Len(out) /\ m + (n + 1) = m + n + 1
    BY <1>4, <1>7, <2>1, <2>2
  <2>4. Char(out, m + n + 1) = s[n + 1] BY <1>7, <2>3 DEF Char
  <2> QED BY <1>8, <1>17, <2>3, <2>4
<1>19. SubSeq(out, m + 1, m + n) = s
  <2>1. m \in Nat /\ n \in Nat /\ m + n <= Len(out) /\ out \in Seq(Marks) BY <1>4, <1>7, <1>18
  <2>2. PICK u : u = SubSeq(out, m + 1, m + n) OBVIOUS
  <2>3. u \in Seq(Marks) /\ Len(u) = n /\ \A k \in 1 .. n : u[k] = out[m + k]
    <3>1. /\ SubSeq(out, m + 1, m + n) \in Seq(Marks) /\ Len(SubSeq(out, m + 1, m + n)) = n
          /\ \A k \in 1 .. n : SubSeq(out, m + 1, m + n)[k] = out[m + k]
      BY ONLY <2>1, Piece
    <3> QED BY ONLY <2>2, <3>1
  <2>4. \A k \in 1 .. Len(u) : u[k] = s[k] BY <1>7, <1>18, <2>3
  <2>5. u = s BY <1>3, <1>18, <2>3, <2>4, SeqEqual
  <2> QED BY <2>2, <2>5
<1>20. Value(s, call.base) = Shown
  <2>1. PICK h \in [0 .. Len(s) -> Nat] : Sums(h, s, call.base, 0) /\ h[Len(s)] = Shown
    BY <1>3 DEF Makes
  <2> QED BY <1>4, <2>1, ValueIs
<1>21. acc = IF Shown > ULONG_MAX THEN ULONG_MAX ELSE IF m = 1 THEN (-Shown) % (2 * Half) ELSE Shown
  <2>1. Char(out, 1) = "-" <=> m = 1
    <3>1. CASE m = 1 BY <1>7, <1>11, <3>1
    <3>2. CASE m # 1 BY <1>11, <3>2
    <3> QED BY <3>1, <3>2
  <2> QED BY <1>17, <1>19, <1>20, <2>1
<1>22. ~ (Shown > ULONG_MAX)
  <2>1. Shown \in 0 .. ULONG_MAX BY <1>1, ShownRange
  <2> QED BY <2>1, WordMax
<1>23. acc = call.num % (2 * Half)
  <2>1. CASE m = 1
    <3>1. Shown = -call.num BY <1>6, <2>1 DEF Shown
    <3>2. -Shown = call.num BY <1>1, <3>1, HalfAssumption
    <3> QED BY <1>21, <1>22, <2>1, <3>2
  <2>2. CASE m # 1
    <3>1. Shown = call.num % (2 * Half) BY <1>6, <2>2 DEF Shown
    <3> QED BY <1>21, <1>22, <2>2, <3>1
  <2> QED BY <2>1, <2>2
<1>24. pos = Len(out) + 1 BY <1>4, <1>7, <1>17, <1>18
<1> QED BY <1>23, <1>24

(* itoa.c:28: whatever the size of a word, the least number included, what *)
(* itoa writes is read back as the word it was.                            *)
THEOREM RoundTrips == Spec => []RoundTrip
<1>1. NumInv => RoundTrip BY SaysShown DEF RoundTrip
<1> QED BY <1>1, NumAlways, PTL
=============================================================================
