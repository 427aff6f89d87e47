-------------------------- MODULE SerialLoadProofs --------------------------
(***************************************************************************)
(* Proofs about "load serial": for lines and files of every length and a   *)
(* FIFO of every depth, when a line ends with one character, the file is   *)
(* in memory as it was sent (IInv), and the screen shows the line and a    *)
(* bar that fits (Screen, Bar).                                            *)
(***************************************************************************)
EXTENDS SerialLoad, SequenceTheorems, TLAPS

SingleEnds == Endings \subseteq {<<CR>>, <<LF>>}
LineEnd == {CR, LF}

(* What is still to be taken, first the FIFO and then the other end. *)
Coming == Len(rx) + Len(host)
At(k) == IF k <= Len(rx) THEN rx[k] ELSE host[k - Len(rx)]

Typed ==
  /\ size \in 0 .. Word - 1 /\ st \in {"gets", "load", "done"}
  /\ rx \in Seq(Nat) /\ host \in Seq(Nat) /\ mem \in Seq(Nat) /\ word \in Seq(Nat)

(* While the line is read: keys, one end of line, and the file. *)
LineInv ==
  st = "gets" =>
    /\ Coming > size /\ mem = <<>> /\ word = <<>>
    /\ \A k \in 1 .. Coming :
         /\ k + size < Coming => At(k) \notin LineEnd
         /\ k + size = Coming => At(k) \in LineEnd
         /\ k + size > Coming => At(k) = (k + size) - Coming

(* Then: memory, the word that is taken, and what comes make the file. *)
FileInv ==
  st # "gets" =>
    /\ Len(mem) + Len(word) + Coming = size
    /\ \A k \in 1 .. Len(mem) : mem[k] = k
    /\ \A k \in 1 .. Len(word) : word[k] = Len(mem) + k
    /\ \A k \in 1 .. Coming : At(k) = Len(mem) + Len(word) + k

CountInv ==
  /\ count = Len(mem)
  /\ st = "done" => Len(mem) = size

IInv == Typed /\ LineInv /\ FileInv /\ CountInv

USE WordAssumption
-----------------------------------------------------------------------------
LEMMA Lengths ==
  ASSUME Typed
  PROVE  Len(rx) \in Nat /\ Len(host) \in Nat /\ Len(mem) \in Nat /\ Len(word) \in Nat /\ Coming \in Nat
BY LenProperties DEF Typed, Coming

LEMMA Taken ==
  ASSUME NEW s \in Seq(Nat), s # <<>>
  PROVE  /\ Head(s) \in Nat /\ Tail(s) \in Seq(Nat)
         /\ Len(s) \in Nat \ {0} /\ Len(Tail(s)) = Len(s) - 1
         /\ Head(s) = s[1] /\ \A k \in 1 .. Len(s) - 1 : Tail(s)[k] = s[k + 1]
BY HeadTailProperties, EmptySeq, LenProperties

LEMMA Appended ==
  ASSUME NEW s \in Seq(Nat), NEW w \in Nat
  PROVE  /\ Append(s, w) \in Seq(Nat) /\ Len(Append(s, w)) = Len(s) + 1
         /\ \A k \in 1 .. Len(s) : Append(s, w)[k] = s[k]
         /\ Append(s, w)[Len(s) + 1] = w
BY AppendProperties

(* A byte that passes into the FIFO changes nothing of what comes. *)
LEMMA SendKeeps ==
  ASSUME Typed, Send
  PROVE  /\ rx' \in Seq(Nat) /\ host' \in Seq(Nat) /\ Coming' = Coming
         /\ \A k \in 1 .. Coming : At(k)' = At(k)
<1>0. rx \in Seq(Nat) /\ host \in Seq(Nat) /\ Len(rx) \in Nat /\ Len(host) \in Nat
  BY Lengths DEF Typed
<1>1. host # <<>> BY DEF Send
<1>2. rx' = Append(rx, Head(host)) /\ host' = Tail(host) BY Zenon DEF Send
<1>3. /\ Head(host) \in Nat /\ host' \in Seq(Nat) /\ Len(host') = Len(host) - 1
      /\ Head(host) = host[1] /\ \A k \in 1 .. Len(host) - 1 : host'[k] = host[k + 1]
      /\ Len(host) \in Nat \ {0}
  BY <1>0, <1>1, <1>2, Taken
<1>4. /\ rx' \in Seq(Nat) /\ Len(rx') = Len(rx) + 1 /\ rx'[Len(rx) + 1] = host[1]
      /\ \A k \in 1 .. Len(rx) : rx'[k] = rx[k]
  BY <1>0, <1>2, <1>3, Appended
<1>5. Coming' = Coming BY <1>0, <1>3, <1>4 DEF Coming
<1>6. ASSUME NEW k \in 1 .. Coming PROVE At(k)' = At(k)
  <2>1. k \in Nat /\ k \in 1 .. Len(rx) + Len(host) BY <1>0 DEF Coming
  <2>2. CASE k <= Len(rx)
    <3>1. At(k)' = rx'[k] BY <1>0, <1>4, <2>1, <2>2 DEF At
    <3>2. At(k) = rx[k] BY <2>2 DEF At
    <3>3. rx'[k] = rx[k] BY <1>0, <1>4, <2>1, <2>2
    <3> QED BY <3>1, <3>2, <3>3
  <2>3. CASE k = Len(rx) + 1
    <3>1. At(k)' = rx'[k] BY <1>0, <1>4, <2>1, <2>3 DEF At
    <3>2. At(k) = host[1] BY <1>0, <2>1, <2>3 DEF At
    <3> QED BY <1>4, <2>3, <3>1, <3>2
  <2>4. CASE k > Len(rx) + 1
    <3>1. At(k)' = host'[k - (Len(rx) + 1)] BY <1>0, <1>4, <2>1, <2>4 DEF At
    <3>2. At(k) = host[k - Len(rx)] BY <1>0, <2>1, <2>4 DEF At
    <3>3. k - (Len(rx) + 1) \in 1 .. Len(host) - 1 /\ (k - (Len(rx) + 1)) + 1 = k - Len(rx)
      BY <1>0, <2>1, <2>4
    <3> QED BY <1>3, <3>1, <3>2, <3>3
  <2> QED BY <1>0, <2>1, <2>2, <2>3, <2>4
<1> QED BY <1>3, <1>4, <1>5, <1>6

(* A byte taken from the FIFO was the first of what comes. *)
LEMMA TakeShifts ==
  ASSUME Typed, rx # <<>>, rx' = Tail(rx), host' = host
  PROVE  /\ rx' \in Seq(Nat) /\ Head(rx) \in Nat /\ Head(rx) = At(1)
         /\ Coming > 0 /\ Coming' = Coming - 1
         /\ \A k \in 1 .. Coming - 1 : At(k)' = At(k + 1)
<1>0. rx \in Seq(Nat) /\ host \in Seq(Nat) /\ Len(rx) \in Nat /\ Len(host) \in Nat
  BY Lengths DEF Typed
<1>1. /\ Head(rx) \in Nat /\ rx' \in Seq(Nat) /\ Len(rx) \in Nat \ {0} /\ Len(rx') = Len(rx) - 1
      /\ Head(rx) = rx[1] /\ \A k \in 1 .. Len(rx) - 1 : rx'[k] = rx[k + 1]
  BY <1>0, Taken
<1>2. Coming > 0 /\ Coming' = Coming - 1 BY <1>0, <1>1 DEF Coming
<1>3. Head(rx) = At(1) BY <1>1 DEF At
<1>4. ASSUME NEW k \in 1 .. Coming - 1 PROVE At(k)' = At(k + 1)
  <2>1. k \in Nat /\ k \in 1 .. Len(rx) + Len(host) - 1 BY <1>0 DEF Coming
  <2>2. CASE k <= Len(rx) - 1
    <3>1. At(k)' = rx'[k] BY <1>0, <1>1, <2>1, <2>2 DEF At
    <3>2. At(k + 1) = rx[k + 1] BY <1>0, <2>1, <2>2 DEF At
    <3>3. k \in 1 .. Len(rx) - 1 BY <1>0, <2>1, <2>2
    <3> QED BY <1>1, <3>1, <3>2, <3>3
  <2>3. CASE ~ (k <= Len(rx) - 1)
    <3>1. At(k)' = host[k - (Len(rx) - 1)] BY <1>0, <1>1, <2>1, <2>3 DEF At
    <3>2. At(k + 1) = host[(k + 1) - Len(rx)] BY <1>0, <2>1, <2>3 DEF At
    <3>3. k - (Len(rx) - 1) = (k + 1) - Len(rx) BY <1>0, <2>1
    <3> QED BY <3>1, <3>2, <3>3
  <2> QED BY <2>2, <2>3
<1> QED BY <1>1, <1>2, <1>3, <1>4
-----------------------------------------------------------------------------
(* Two strings one after the other. *)
LEMMA Joined ==
  ASSUME NEW s \in Seq(Nat), NEW r \in Seq(Nat)
  PROVE  /\ s \o r \in Seq(Nat) /\ Len(s \o r) = Len(s) + Len(r)
         /\ \A k \in 1 .. Len(s) + Len(r) : (s \o r)[k] = IF k <= Len(s) THEN s[k] ELSE r[k - Len(s)]
BY ConcatProperties

LEMMA LoadInit == SingleEnds /\ Init => IInv
<1> SUFFICES ASSUME SingleEnds, Init PROVE IInv OBVIOUS
<1>1. PICK i \in Inputs, e \in Endings :
        size = i.size /\ host = (i.typed \o e) \o [k \in 1 .. i.size |-> k]
  BY DEF Init
<1> DEFINE t == i.typed
           f == [k \in 1 .. i.size |-> k]
           Keys == Printed \cup {ASCII_BS, Ctrl}
<1>2. i.size \in 0 .. Word - 1 /\ t \in Seq(Keys) BY InputsAssumption
<1>3. \A c \in Keys : c \in Nat /\ c \notin LineEnd
  BY DEF Printed, Char, ASCII_SP, ASCII_BS, Ctrl, LineEnd, CR, LF
<1>4. t \in Seq(Nat) /\ Len(t) \in Nat /\ \A k \in 1 .. Len(t) : t[k] \notin LineEnd
  <2>1. Len(t) \in Nat /\ t \in [1 .. Len(t) -> Keys] BY <1>2, LenProperties
  <2>2. t \in [1 .. Len(t) -> Nat] BY <2>1, <1>3
  <2> QED BY <2>1, <2>2, <1>3, IsASeq, SeqDef
<1>5. e \in Seq(Nat) /\ Len(e) = 1 /\ e[1] \in LineEnd
  <2>1. PICK c \in LineEnd : e = <<c>> BY DEF SingleEnds, LineEnd
  <2>2. c \in Nat BY DEF LineEnd, CR, LF
  <2> HIDE DEF LineEnd
  <2> QED BY <2>1, <2>2
<1>6. f \in Seq(Nat) /\ Len(f) = i.size /\ \A k \in 1 .. i.size : f[k] = k
  <2>1. f \in [1 .. i.size -> Nat] /\ i.size \in Nat BY <1>2
  <2> QED BY <2>1, SeqDef, LenProperties
<1> HIDE DEF t, f, Keys
<1>7. /\ t \o e \in Seq(Nat) /\ Len(t \o e) = Len(t) + 1 /\ (t \o e)[Len(t) + 1] = e[1]
      /\ \A k \in 1 .. Len(t) : (t \o e)[k] = t[k]
  <2>1. /\ t \o e \in Seq(Nat) /\ Len(t \o e) = Len(t) + Len(e)
        /\ \A k \in 1 .. Len(t) + Len(e) : (t \o e)[k] = IF k <= Len(t) THEN t[k] ELSE e[k - Len(t)]
    BY <1>4, <1>5, Joined
  <2> QED BY <1>4, <1>5, <2>1
<1>8. host = (t \o e) \o f /\ size = i.size BY <1>1 DEF t, f
<1>9. /\ host \in Seq(Nat) /\ Len(host) = Len(t) + 1 + size
      /\ \A k \in 1 .. Len(t) + 1 + size :
           host[k] = IF k <= Len(t) + 1 THEN (t \o e)[k] ELSE f[k - (Len(t) + 1)]
  <2>1. /\ (t \o e) \o f \in Seq(Nat) /\ Len((t \o e) \o f) = Len(t \o e) + Len(f)
        /\ \A k \in 1 .. Len(t \o e) + Len(f) :
             ((t \o e) \o f)[k] = IF k <= Len(t \o e) THEN (t \o e)[k] ELSE f[k - Len(t \o e)]
    BY <1>6, <1>7, ConcatProperties
  <2> QED BY <1>6, <1>7, <1>8, <2>1
<1>10. Typed BY <1>2, <1>8, <1>9, EmptySeq DEF Init, Typed
<1>11. rx = <<>> /\ Len(rx) = 0 /\ mem = <<>> /\ word = <<>> /\ Len(mem) = 0 /\ count = 0
       /\ st = "gets"
  BY EmptySeq DEF Init
<1>12. size \in Nat BY <1>2, <1>8
<1>13. Coming = Len(t) + 1 + size /\ Coming - size = Len(t) + 1
  BY <1>4, <1>9, <1>11, <1>12 DEF Coming
<1>14. \A k \in 1 .. Coming : At(k) = host[k] BY <1>4, <1>11, <1>12, <1>13 DEF At
<1>15. ASSUME NEW k \in 1 .. Coming
       PROVE  /\ k + size < Coming => At(k) \notin LineEnd
              /\ k + size = Coming => At(k) \in LineEnd
              /\ k + size > Coming => At(k) = (k + size) - Coming
  <2>1. k \in 1 .. Len(t) + 1 + size /\ k \in Nat BY <1>4, <1>12, <1>13
  <2>2. At(k) = IF k <= Len(t) + 1 THEN (t \o e)[k] ELSE f[k - (Len(t) + 1)]
    BY <1>9, <1>14, <2>1
  <2>3. CASE k <= Len(t)
    <3>1. At(k) = t[k] /\ k \in 1 .. Len(t) BY <1>4, <1>7, <2>1, <2>2, <2>3
    <3>2. k + size < Coming BY <1>4, <1>12, <1>13, <2>1, <2>3
    <3> QED BY <1>4, <1>12, <1>13, <2>1, <3>1, <3>2
  <2>4. CASE k = Len(t) + 1
    <3>1. At(k) \in LineEnd BY <1>4, <1>5, <1>7, <2>2, <2>4
    <3>2. k + size = Coming BY <1>4, <1>12, <1>13, <2>4
    <3> QED BY <1>4, <1>12, <1>13, <2>1, <3>1, <3>2
  <2>5. CASE k > Len(t) + 1
    <3>1. k - (Len(t) + 1) \in 1 .. size /\ k - (Len(t) + 1) = (k + size) - Coming
      BY <1>4, <1>12, <1>13, <2>1, <2>5
    <3>2. At(k) = k - (Len(t) + 1) BY <1>4, <1>6, <1>8, <2>1, <2>2, <2>5, <3>1
    <3>3. k + size > Coming BY <1>4, <1>12, <1>13, <2>1, <2>5
    <3> QED BY <1>4, <1>12, <1>13, <2>1, <3>1, <3>2, <3>3
  <2> QED BY <1>4, <2>1, <2>3, <2>4, <2>5
<1>16. LineInv BY <1>4, <1>11, <1>12, <1>13, <1>15 DEF LineInv
<1>17. FileInv /\ CountInv BY <1>11 DEF FileInv, CountInv
<1> QED BY <1>10, <1>16, <1>17 DEF IInv

(* The kth byte that comes, of a line that is being read. *)
LEMMA OfLine ==
  ASSUME Typed, LineInv, st = "gets", NEW k \in Nat, k >= 1, k <= Coming
  PROVE  /\ k + size < Coming => At(k) \notin LineEnd
         /\ k + size = Coming => At(k) \in LineEnd
         /\ k + size > Coming => At(k) = (k + size) - Coming
<1>1. k \in 1 .. Coming BY Lengths
<1> QED BY <1>1 DEF LineInv

LEMMA LoadNext == IInv /\ [Next]_vars => IInv'
<1> SUFFICES ASSUME IInv, [Next]_vars PROVE IInv' OBVIOUS
<1>0. Typed /\ LineInv /\ FileInv /\ CountInv BY DEF IInv
<1>a. /\ Len(rx) \in Nat /\ Len(host) \in Nat /\ Len(mem) \in Nat /\ Len(word) \in Nat
      /\ Coming \in Nat /\ size \in Nat /\ Word \in Nat /\ size < Word
  BY <1>0, Lengths DEF Typed
<1>1. CASE Send
  <2>1. UNCHANGED <<size, st, word, mem, count>> BY <1>1 DEF Send
  <2>2. /\ rx' \in Seq(Nat) /\ host' \in Seq(Nat) /\ Coming' = Coming
        /\ \A k \in 1 .. Coming : At(k)' = At(k)
    BY <1>0, <1>1, SendKeeps
  <2>3. Typed' BY <1>0, <2>1, <2>2 DEF Typed
  <2>4. LineInv' BY <1>0, <2>1, <2>2 DEF LineInv
  <2>5. FileInv' BY <1>0, <2>1, <2>2 DEF FileInv
  <2> QED BY <1>0, <2>1, <2>3, <2>4, <2>5 DEF IInv, CountInv
<1>2. CASE gets
  <2>1. /\ st = "gets" /\ rx # <<>> /\ rx' = Tail(rx) /\ host' = host
        /\ UNCHANGED <<size, word, mem, count>>
        /\ st' = IF Head(rx) \in LineEnd THEN "load" ELSE "gets"
    BY <1>2 DEF gets, LineEnd
  <2>2. /\ rx' \in Seq(Nat) /\ Head(rx) \in Nat /\ Head(rx) = At(1)
        /\ Coming > 0 /\ Coming' = Coming - 1
        /\ \A k \in 1 .. Coming - 1 : At(k)' = At(k + 1)
    BY <1>0, <2>1, TakeShifts
  <2>3. Typed' BY <1>0, <2>1, <2>2 DEF Typed
  <2>4. /\ Coming > size /\ mem = <<>> /\ word = <<>>
    BY <1>0, <2>1 DEF LineInv
  <2>5. At(1) \in LineEnd <=> 1 + size = Coming
    <3>1. 1 + size < Coming => At(1) \notin LineEnd BY <1>0, <1>a, <2>1, <2>2, OfLine
    <3>2. 1 + size = Coming => At(1) \in LineEnd BY <1>0, <1>a, <2>1, <2>2, OfLine
    <3>3. 1 + size < Coming \/ 1 + size = Coming BY <1>a, <2>4
    <3> QED BY <3>1, <3>2, <3>3
  <2>6. CASE At(1) \in LineEnd
    <3>1. st' = "load" BY <2>1, <2>2, <2>6
    <3>2. Len(mem') = 0 /\ Len(word') = 0 BY <2>1, <2>4
    <3>3. Coming' = size' BY <1>a, <2>1, <2>2, <2>5, <2>6
    <3>4. ASSUME NEW k \in 1 .. Coming' PROVE At(k)' = k
      <4>1. k \in Nat /\ k \in 1 .. Coming - 1 /\ k + 1 \in 1 .. Coming /\ (k + 1) + size > Coming
            /\ ((k + 1) + size) - Coming = k
        BY <1>a, <2>2, <2>5, <2>6
      <4>2. At(k)' = At(k + 1) BY <2>2, <4>1
      <4>3. k + 1 \in Nat /\ k + 1 >= 1 /\ k + 1 <= Coming BY <1>a, <4>1
      <4>4. At(k + 1) = ((k + 1) + size) - Coming BY <1>0, <2>1, <4>1, <4>3, OfLine
      <4> QED BY <4>1, <4>2, <4>4
    <3>5. FileInv' BY <1>a, <2>1, <3>2, <3>3, <3>4 DEF FileInv
    <3>6. LineInv' /\ CountInv' BY <1>0, <2>1, <3>1 DEF LineInv, CountInv
    <3> QED BY <2>3, <3>5, <3>6 DEF IInv
  <2>7. CASE At(1) \notin LineEnd
    <3>1. st' = "gets" BY <2>1, <2>2, <2>7
    <3>2. Coming' > size' BY <1>a, <2>1, <2>2, <2>4, <2>5, <2>7
    <3>3. ASSUME NEW k \in 1 .. Coming'
          PROVE  /\ k + size < Coming' => At(k)' \notin LineEnd
                 /\ k + size = Coming' => At(k)' \in LineEnd
                 /\ k + size > Coming' => At(k)' = (k + size) - Coming'
      <4>1. k \in Nat /\ k \in 1 .. Coming - 1 /\ k + 1 \in 1 .. Coming /\ Coming' = Coming - 1
        BY <1>a, <2>2
      <4>2. At(k)' = At(k + 1) BY <2>2, <4>1
      <4>3. /\ (k + 1) + size < Coming => At(k + 1) \notin LineEnd
            /\ (k + 1) + size = Coming => At(k + 1) \in LineEnd
            /\ (k + 1) + size > Coming => At(k + 1) = ((k + 1) + size) - Coming
        <5>1. k + 1 \in Nat /\ k + 1 >= 1 /\ k + 1 <= Coming BY <1>a, <4>1
        <5> QED BY <1>0, <2>1, <5>1, OfLine
      <4>4. /\ k + size < Coming' <=> (k + 1) + size < Coming
            /\ k + size = Coming' <=> (k + 1) + size = Coming
            /\ k + size > Coming' <=> (k + 1) + size > Coming
            /\ ((k + 1) + size) - Coming = (k + size) - Coming'
        BY <1>a, <4>1
      <4> QED BY <4>2, <4>3, <4>4
    <3>4. LineInv' BY <2>1, <2>4, <3>2, <3>3 DEF LineInv
    <3>5. FileInv' /\ CountInv' BY <1>0, <2>1, <3>1 DEF FileInv, CountInv
    <3> QED BY <2>3, <3>4, <3>5 DEF IInv
  <2> QED BY <2>6, <2>7
<1>3. CASE GetByte
  <2>1. /\ st = "load" /\ rx # <<>> /\ rx' = Tail(rx) /\ host' = host
        /\ word' = Append(word, Head(rx)) /\ UNCHANGED <<size, st, mem, count>>
    BY <1>3, Zenon DEF GetByte
  <2>2. /\ rx' \in Seq(Nat) /\ Head(rx) \in Nat /\ Head(rx) = At(1)
        /\ Coming > 0 /\ Coming' = Coming - 1
        /\ \A k \in 1 .. Coming - 1 : At(k)' = At(k + 1)
    BY <1>0, <2>1, TakeShifts
  <2>3. word \in Seq(Nat) BY <1>0 DEF Typed
  <2>4. /\ word' \in Seq(Nat) /\ Len(word') = Len(word) + 1
        /\ \A k \in 1 .. Len(word) : word'[k] = word[k]
        /\ word'[Len(word) + 1] = At(1)
    BY <2>1, <2>2, <2>3, Appended
  <2>5. Typed' BY <1>0, <2>1, <2>2, <2>4 DEF Typed
  <2>6. /\ Len(mem) + Len(word) + Coming = size
        /\ \A k \in 1 .. Len(mem) : mem[k] = k
        /\ \A k \in 1 .. Len(word) : word[k] = Len(mem) + k
        /\ \A k \in 1 .. Coming : At(k) = Len(mem) + Len(word) + k
    BY <1>0, <2>1 DEF FileInv
  <2>7. ASSUME NEW k \in 1 .. Len(word') PROVE word'[k] = Len(mem) + k
    <3>1. CASE k \in 1 .. Len(word) BY <2>4, <2>6, <3>1
    <3>2. CASE k = Len(word) + 1
      <4>1. 1 \in 1 .. Coming BY <1>a, <2>2
      <4>2. At(1) = Len(mem) + Len(word) + 1 BY <2>6, <4>1
      <4> QED BY <1>a, <2>4, <3>2, <4>2
    <3> QED BY <1>a, <2>4, <3>1, <3>2
  <2>8. ASSUME NEW k \in 1 .. Coming' PROVE At(k)' = Len(mem) + Len(word') + k
    <3>1. k \in Nat /\ k \in 1 .. Coming - 1 /\ k + 1 \in 1 .. Coming BY <1>a, <2>2
    <3>2. At(k)' = At(k + 1) BY <2>2, <3>1
    <3>3. At(k + 1) = Len(mem) + Len(word) + (k + 1) BY <2>6, <3>1
    <3> QED BY <1>a, <2>4, <3>1, <3>2, <3>3
  <2>9. Len(mem) + Len(word') + Coming' = size
    <3>1. Len(word') = Len(word) + 1 /\ Coming' = Coming - 1 BY <2>2, <2>4
    <3>2. Len(mem) + Len(word) + Coming = size BY <2>6
    <3> QED BY <1>a, <3>1, <3>2
  <2>10. FileInv' BY <2>1, <2>6, <2>7, <2>8, <2>9 DEF FileInv
  <2>11. LineInv' /\ CountInv' BY <1>0, <2>1 DEF LineInv, CountInv
  <2> QED BY <2>5, <2>10, <2>11 DEF IInv
<1>4. CASE StoreWord
  <2>1. /\ st = "load" /\ Len(word) = 4 /\ mem' = mem \o word /\ word' = <<>>
        /\ count' = (count + 4) % Word /\ UNCHANGED <<size, host, rx, st>>
    BY <1>4, Zenon DEF StoreWord
  <2>2. mem \in Seq(Nat) /\ word \in Seq(Nat) BY <1>0 DEF Typed
  <2>3. /\ mem' \in Seq(Nat) /\ Len(mem') = Len(mem) + 4
        /\ \A k \in 1 .. Len(mem) + 4 : mem'[k] = IF k <= Len(mem) THEN mem[k] ELSE word[k - Len(mem)]
    <3>1. /\ mem \o word \in Seq(Nat) /\ Len(mem \o word) = Len(mem) + Len(word)
          /\ \A k \in 1 .. Len(mem) + Len(word) :
               (mem \o word)[k] = IF k <= Len(mem) THEN mem[k] ELSE word[k - Len(mem)]
      BY <2>2, ConcatProperties
    <3> QED BY <2>1, <3>1, Zenon
  <2>4. word' \in Seq(Nat) /\ Len(word') = 0 BY <2>1, EmptySeq
  <2>5. Typed' BY <1>0, <2>1, <2>3, <2>4 DEF Typed
  <2>6. /\ Len(mem) + 4 + Coming = size
        /\ \A k \in 1 .. Len(mem) : mem[k] = k
        /\ \A k \in 1 .. 4 : word[k] = Len(mem) + k
        /\ \A k \in 1 .. Coming : At(k) = Len(mem) + 4 + k
    BY <1>0, <2>1 DEF FileInv
  <2>7. ASSUME NEW k \in 1 .. Len(mem') PROVE mem'[k] = k
    <3>1. k \in Nat /\ k \in 1 .. Len(mem) + 4 BY <1>a, <2>3
    <3>2. CASE k <= Len(mem)
      <4>1. mem'[k] = mem[k] /\ k \in 1 .. Len(mem) BY <1>a, <2>3, <3>1, <3>2
      <4> QED BY <2>6, <4>1
    <3>3. CASE ~ (k <= Len(mem))
      <4>1. mem'[k] = word[k - Len(mem)] BY <2>3, <3>1, <3>3, Zenon
      <4>2. word[k - Len(mem)] = Len(mem) + (k - Len(mem))
        <5>1. k - Len(mem) \in 1 .. 4 BY <1>a, <3>1, <3>3
        <5> QED BY <2>6, <5>1
      <4> QED BY <1>a, <3>1, <4>1, <4>2
    <3> QED BY <3>2, <3>3
  <2>8. Coming' = Coming /\ \A k \in 1 .. Coming : At(k)' = At(k) BY <2>1 DEF Coming, At
  <2>9. FileInv'
    <3>1. Len(mem') + Len(word') + Coming' = size' BY <1>a, <2>1, <2>3, <2>4, <2>6, <2>8
    <3>2. \A k \in 1 .. Len(word') : word'[k] = Len(mem') + k BY ONLY <2>4
    <3>3. \A k \in 1 .. Coming' : At(k)' = Len(mem') + Len(word') + k
      BY <1>a, <2>3, <2>4, <2>6, <2>8
    <3> QED BY <2>7, <3>1, <3>2, <3>3 DEF FileInv
  <2>10. count' = Len(mem')
    <3>1. count + 4 \in 0 .. Word - 1 /\ count = Len(mem)
      <4>1. count = Len(mem) BY <1>0 DEF CountInv
      <4>2. Len(mem) + 4 + Coming = size BY <2>6
      <4> QED BY ONLY <1>a, <4>1, <4>2
    <3>2. (count + 4) % Word = count + 4 BY <1>a, <3>1, WordAssumption
    <3>3. count' = count + 4 /\ Len(mem') = Len(mem) + 4 BY <2>1, <2>3, <3>2
    <3> QED BY <3>1, <3>3
  <2>11. LineInv' /\ CountInv' BY <2>1, <2>10 DEF LineInv, CountInv
  <2> QED BY <2>5, <2>9, <2>11 DEF IInv
<1>5. CASE Loaded
  <2>1. /\ st = "load" /\ size <= count /\ word = <<>> /\ st' = "done"
        /\ UNCHANGED <<size, host, rx, word, mem, count>>
    BY <1>5 DEF Loaded
  <2>2. Typed' BY <1>0, <2>1 DEF Typed
  <2>3. Coming' = Coming /\ \A k \in 1 .. Coming : At(k)' = At(k) BY <2>1 DEF Coming, At
  <2>4. FileInv' BY <1>0, <2>1, <2>3 DEF FileInv
  <2>5. Len(mem) = size BY <1>0, <1>a, <2>1 DEF FileInv, CountInv
  <2>6. LineInv' /\ CountInv' BY <1>0, <2>1, <2>5 DEF LineInv, CountInv
  <2> QED BY <2>2, <2>4, <2>6 DEF IInv
<1>6. CASE UNCHANGED vars
  <2>1. UNCHANGED <<size, host, rx, st, word, mem, count>> BY <1>6 DEF vars
  <2>2. Coming' = Coming /\ \A k \in 1 .. Coming : At(k)' = At(k) BY <2>1 DEF Coming, At
  <2>3. Typed' /\ CountInv' BY <1>0, <2>1 DEF Typed, CountInv
  <2>4. LineInv' /\ FileInv' BY <1>0, <2>1, <2>2 DEF LineInv, FileInv
  <2> QED BY <2>3, <2>4 DEF IInv
<1> QED BY <1>1, <1>2, <1>3, <1>4, <1>5, <1>6 DEF Next, Loader

LEMMA IsFile == IInv => FileInRam
<1> SUFFICES ASSUME IInv PROVE FileInRam OBVIOUS
<1>1. Typed /\ LineInv /\ FileInv /\ CountInv BY DEF IInv
<1>2. mem \in Seq(Nat) /\ size \in Nat /\ Len(mem) \in Nat BY <1>1, Lengths DEF Typed
<1>3. \A k \in 1 .. Len(mem) : mem[k] = k
  <2>1. CASE st = "gets"
    <3>1. Len(mem) = 0 BY <1>1, <2>1, EmptySeq DEF LineInv
    <3> QED BY <3>1
  <2>2. CASE st # "gets" BY <1>1, <2>2 DEF FileInv
  <2> QED BY <2>1, <2>2
<1>4. ASSUME st = "done" PROVE mem = File
  <2>1. Len(mem) = size BY <1>1, <1>4 DEF CountInv
  <2>2. mem \in [1 .. size -> Nat] BY <1>2, <2>1, LenProperties
  <2> QED BY <1>3, <2>1, <2>2 DEF File
<1> QED BY <1>3, <1>4 DEF FileInRam

(* loader.c:147: when a line ends with a single character, every word of   *)
(* the file is stored where and as it was sent, whatever the length of the *)
(* line and of the file and the depth of the FIFO, and the load ends with  *)
(* the whole file in memory.                                               *)
THEOREM FileArrives == SingleEnds => (Spec => []FileInRam)
<1>1. SingleEnds /\ Init => IInv BY LoadInit
<1>2. IInv /\ [Next]_vars => IInv' BY LoadNext
<1>3. IInv => FileInRam BY IsFile
<1> QED BY <1>1, <1>2, <1>3, PTL DEF Spec
-----------------------------------------------------------------------------
(* The screen.  A row shows the line that gets has, and blanks after it.   *)
Shows(r, s) ==
  /\ DOMAIN r = {"cells", "cursor"} /\ r.cells \in Seq(Nat) /\ s \in Seq(Nat)
  /\ r.cursor = Len(s) /\ Len(s) <= Len(r.cells)
  /\ \A k \in 1 .. Len(s) : r.cells[k] = s[k]
  /\ \A k \in Len(s) + 1 .. Len(r.cells) : r.cells[k] = ASCII_SP

(* A character put at the cursor is the next of the line. *)
LEMMA PutShows ==
  ASSUME NEW r, NEW s, Shows(r, s), NEW c \in Nat, c # ASCII_BS
  PROVE  Shows(putc(r, c), Append(s, c))
<1> DEFINE cells == r.cells
           p == putc(r, c)
           t == Append(s, c)
<1>1. /\ cells \in Seq(Nat) /\ s \in Seq(Nat) /\ r.cursor = Len(s) /\ Len(s) <= Len(cells)
      /\ Len(s) \in Nat /\ Len(cells) \in Nat
      /\ \A k \in 1 .. Len(s) : cells[k] = s[k]
      /\ \A k \in Len(s) + 1 .. Len(cells) : cells[k] = ASCII_SP
  BY LenProperties DEF Shows
<1>2. /\ t \in Seq(Nat) /\ Len(t) = Len(s) + 1 /\ t[Len(s) + 1] = c
      /\ \A k \in 1 .. Len(s) : t[k] = s[k]
  BY <1>1, Appended
<1>3. /\ p.cells = IF Len(s) = Len(cells) THEN Append(cells, c) ELSE [cells EXCEPT ![Len(s) + 1] = c]
      /\ p.cursor = Len(s) + 1
  BY <1>1 DEF putc
<1>0. DOMAIN p = {"cells", "cursor"} BY DEF putc
<1> HIDE DEF cells, p, t
<1>4. CASE Len(s) = Len(cells)
  <2>1. p.cells = Append(cells, c) BY <1>3, <1>4
  <2>2. /\ p.cells \in Seq(Nat) /\ Len(p.cells) = Len(s) + 1 /\ p.cells[Len(s) + 1] = c
        /\ \A k \in 1 .. Len(s) : p.cells[k] = cells[k]
    BY <1>1, <1>4, <2>1, Appended
  <2>3. ASSUME NEW k \in 1 .. Len(t) PROVE p.cells[k] = t[k]
    <3>1. k \in 1 .. Len(s) \/ k = Len(s) + 1 BY ONLY <1>1, <1>2, <2>3
    <3> QED BY ONLY <1>1, <1>2, <2>2, <3>1
  <2>4. \A k \in Len(t) + 1 .. Len(p.cells) : p.cells[k] = ASCII_SP BY ONLY <1>1, <1>2, <2>2
  <2> QED BY <1>0, <1>1, <1>2, <1>3, <2>2, <2>3, <2>4 DEF Shows, p, t
<1>5. CASE Len(s) # Len(cells)
  <2>1. p.cells = [cells EXCEPT ![Len(s) + 1] = c] BY <1>3, <1>5
  <2>2. Len(s) + 1 \in 1 .. Len(cells) BY <1>1, <1>5
  <2>3. /\ p.cells \in Seq(Nat) /\ Len(p.cells) = Len(cells)
        /\ \A k \in 1 .. Len(cells) : p.cells[k] = IF k = Len(s) + 1 THEN c ELSE cells[k]
    BY <1>1, <2>1, <2>2, ExceptSeq
  <2>4. ASSUME NEW k \in 1 .. Len(t) PROVE p.cells[k] = t[k]
    <3>1. CASE k = Len(s) + 1 BY <1>2, <2>2, <2>3, <3>1
    <3>2. CASE k \in 1 .. Len(s)
      <4>1. k \in 1 .. Len(cells) /\ k # Len(s) + 1 BY ONLY <1>1, <3>2
      <4> QED BY ONLY <1>1, <1>2, <2>3, <3>2, <4>1
    <3>3. k \in 1 .. Len(s) \/ k = Len(s) + 1 BY ONLY <1>1, <1>2, <2>4
    <3> QED BY <3>1, <3>2, <3>3
  <2>5. ASSUME NEW k \in Len(t) + 1 .. Len(p.cells) PROVE p.cells[k] = ASCII_SP
    <3>1. k \in 1 .. Len(cells) /\ k # Len(s) + 1 /\ k \in Len(s) + 1 .. Len(cells)
      <4>1. k \in Len(s) + 2 .. Len(cells) BY ONLY <1>1, <1>2, <2>3, <2>5
      <4> QED BY ONLY <1>1, <4>1
    <3> QED BY ONLY <1>1, <2>3, <3>1
  <2>6. Len(t) <= Len(p.cells) BY <1>1, <1>2, <2>2, <2>3
  <2> QED BY <1>0, <1>2, <1>3, <2>3, <2>4, <2>5, <2>6 DEF Shows, p, t
<1> QED BY <1>4, <1>5 DEF p, t

(* Back, a blank, and back: the last character is gone from both. *)
LEMMA RubOutShows ==
  ASSUME NEW r, NEW s, Shows(r, s), s # <<>>
  PROVE  Shows(RubOut(r), SubSeq(s, 1, Len(s) - 1))
<1> DEFINE cells == r.cells
           n == Len(s)
           p == putc(r, ASCII_BS)
           q == putc(p, ASCII_SP)
           t == SubSeq(s, 1, n - 1)
<1>1. /\ cells \in Seq(Nat) /\ s \in Seq(Nat) /\ r.cursor = n /\ n <= Len(cells)
      /\ n \in Nat \ {0} /\ Len(cells) \in Nat
      /\ \A k \in 1 .. n : cells[k] = s[k]
      /\ \A k \in n + 1 .. Len(cells) : cells[k] = ASCII_SP
  BY LenProperties, EmptySeq DEF Shows
<1>2. t \in Seq(Nat) /\ Len(t) = n - 1 /\ \A k \in 1 .. n - 1 : t[k] = s[k]
  <2>1. \A k \in 1 .. n - 1 : s[k] \in Nat
    <3>1. s \in Seq(Nat) BY <1>1
    <3>2. ASSUME NEW k \in 1 .. n - 1 PROVE k \in 1 .. Len(s) BY <1>1
    <3> QED BY ONLY <3>1, <3>2, ElementOfSeq
  <2>2. /\ t \in Seq(Nat) /\ Len(t) = IF 1 <= n - 1 THEN (n - 1) - 1 + 1 ELSE 0
        /\ \A k \in 1 .. (n - 1) - 1 + 1 : t[k] = s[1 + k - 1]
    <3> HIDE DEF n
    <3>1. 1 \in Int /\ n - 1 \in Int BY <1>1
    <3> QED BY <2>1, <3>1, SubSeqProperties
  <2> HIDE DEF n, t
  <2> QED BY <1>1, <2>2
<1>3. p.cells = cells /\ p.cursor = n - 1
  <2> HIDE DEF n
  <2>1. p = [r EXCEPT !.cursor = IF @ > 0 THEN @ - 1 ELSE 0] BY DEF putc
  <2>2. DOMAIN r = {"cells", "cursor"} BY DEF Shows
  <2>3. p.cells = cells BY <2>1, <2>2
  <2>4. p.cursor = n - 1 BY <1>1, <2>1, <2>2
  <2> QED BY <2>3, <2>4
<1>4. q.cells = [cells EXCEPT ![n] = ASCII_SP] /\ q.cursor = n
  <2> HIDE DEF n, cells, p
  <2>1. ASCII_SP # ASCII_BS BY DEF ASCII_SP, ASCII_BS
  <2>2. q = [cells |-> IF p.cursor = Len(p.cells) THEN Append(p.cells, ASCII_SP)
                       ELSE [p.cells EXCEPT ![p.cursor + 1] = ASCII_SP],
             cursor |-> p.cursor + 1]
    BY <2>1 DEF putc
  <2>3. p.cursor # Len(p.cells) /\ p.cursor + 1 = n BY <1>1, <1>3
  <2>4. q.cells = [p.cells EXCEPT ![p.cursor + 1] = ASCII_SP] /\ q.cursor = p.cursor + 1
    BY <2>2, <2>3
  <2> QED BY <1>3, <2>3, <2>4
<1>5. RubOut(r).cells = q.cells /\ RubOut(r).cursor = n - 1
  <2>1. RubOut(r) = putc(q, ASCII_BS) BY DEF RubOut
  <2> HIDE DEF n, q
  <2>2. putc(q, ASCII_BS) = [q EXCEPT !.cursor = IF @ > 0 THEN @ - 1 ELSE 0] BY DEF putc
  <2>3. DOMAIN q = {"cells", "cursor"} BY DEF q, putc, ASCII_SP, ASCII_BS
  <2>4. q.cursor > 0 BY <1>1, <1>4
  <2> QED BY <1>1, <1>4, <2>1, <2>2, <2>3, <2>4
<1> HIDE DEF cells, n, p, q, t
<1>6. /\ q.cells \in Seq(Nat) /\ Len(q.cells) = Len(cells)
      /\ \A k \in 1 .. Len(cells) : q.cells[k] = IF k = n THEN ASCII_SP ELSE cells[k]
  <2>1. ASCII_SP \in Nat /\ n \in 1 .. Len(cells) BY <1>1 DEF ASCII_SP
  <2> QED BY <1>1, <1>4, <2>1, ExceptSeq
<1>7. ASSUME NEW k \in 1 .. Len(t) PROVE q.cells[k] = t[k]
  <2>1. k \in 1 .. n - 1 /\ k \in 1 .. n /\ k \in 1 .. Len(cells) /\ k # n BY <1>1, <1>2
  <2> QED BY <1>1, <1>2, <1>6, <2>1
<1>8. ASSUME NEW k \in Len(t) + 1 .. Len(q.cells) PROVE q.cells[k] = ASCII_SP
  <2>1. k \in 1 .. Len(cells) /\ (k = n \/ k \in n + 1 .. Len(cells)) BY <1>1, <1>2, <1>6
  <2> QED BY <1>1, <1>6, <2>1
<1>9. Len(t) = n - 1 /\ Len(t) <= Len(q.cells) BY <1>1, <1>2, <1>6
<1>10. DOMAIN RubOut(r) = {"cells", "cursor"} BY DEF RubOut, putc, ASCII_SP, ASCII_BS
<1>11. Shows(RubOut(r), t) BY <1>10, <1>2, <1>5, <1>6, <1>7, <1>8, <1>9 DEF Shows
<1> QED BY <1>11 DEF t, n

Screen == Shows(row, str)

(* Each mark stands for more than a sixteenth of the file: those not yet   *)
(* shown for all of it are in count.                                       *)
Bar ==
  /\ marks \in Nat /\ inc \in Nat
  /\ st # "done" => marks * (per + 1) + inc <= count
  /\ st = "done" => marks <= BarWidth

LEMMA ScreenNext == IInv /\ Screen /\ [Next]_vars => Screen'
<1> SUFFICES ASSUME IInv, Screen, [Next]_vars PROVE Screen' OBVIOUS
<1>1. CASE gets
  <2>1. Take(Head(rx)) /\ Head(rx) \in Nat
    <3>1. rx # <<>> /\ rx \in Seq(Nat) BY <1>1 DEF gets, IInv, Typed
    <3> QED BY <1>1, <3>1, Taken DEF gets
  <2>2. CASE UNCHANGED <<str, row>> BY <2>2 DEF Screen
  <2>3. CASE Head(rx) = ASCII_BS /\ str # <<>>
    <3>1. str' = SubSeq(str, 1, Len(str) - 1) /\ row' = RubOut(row) BY <2>1, <2>3 DEF Take
    <3> QED BY <2>3, <3>1, RubOutShows DEF Screen
  <2>4. CASE Head(rx) # ASCII_BS /\ Head(rx) \in Printed
    <3>1. str' = Append(str, Head(rx)) /\ row' = putc(row, Head(rx)) BY <2>1, <2>4 DEF Take
    <3> QED BY <2>1, <2>4, <3>1, PutShows DEF Screen
  <2> QED BY <2>1, <2>2, <2>3, <2>4 DEF Take
<1>2. CASE UNCHANGED <<str, row>> BY <1>2 DEF Screen
<1> QED BY <1>1, <1>2 DEF Next, Loader, Send, GetByte, StoreWord, Loaded, vars

(* What has been stored is never more than the file. *)
LEMMA Counted ==
  ASSUME IInv
  PROVE  /\ size \in Nat /\ size < Word /\ Word \in Nat /\ count \in Nat /\ count <= size
         /\ st = "load" => count + Len(word) <= size
<1>1. Typed /\ LineInv /\ FileInv /\ CountInv BY DEF IInv
<1>2. Len(mem) \in Nat /\ Len(word) \in Nat /\ Coming \in Nat BY <1>1, Lengths
<1>3. size \in Nat /\ size < Word /\ Word \in Nat BY <1>1, WordAssumption DEF Typed
<1>4. count = Len(mem) BY <1>1 DEF CountInv
<1>5. st = "gets" => Len(mem) = 0 BY <1>1, EmptySeq DEF LineInv
<1>6. st # "gets" => Len(mem) + Len(word) + Coming = size BY <1>1 DEF FileInv
<1> QED BY ONLY <1>2, <1>3, <1>4, <1>5, <1>6

(* Marks that take more than a sixteenth each leave room for the last. *)
LEMMA BarFits ==
  ASSUME NEW m \in Nat, NEW p \in Nat, NEW b \in Nat, m * p <= b, b < 16 * p
  PROVE  m + 1 <= 16
<1> SUFFICES ASSUME m >= 16 PROVE FALSE OBVIOUS
<1>1. 16 * p <= m * p OBVIOUS
<1> QED BY <1>1

LEMMA BarNext == IInv /\ Bar /\ [Next]_vars => Bar'
<1> SUFFICES ASSUME IInv, Bar, [Next]_vars PROVE Bar' OBVIOUS
<1>1. /\ size \in Nat /\ size < Word /\ Word \in Nat /\ count \in Nat /\ count <= size
      /\ st = "load" => count + Len(word) <= size
  BY Counted
<1>2. per \in Nat /\ size < 16 * (per + 1) BY <1>1 DEF per
<1>3. CASE StoreWord
  <2>1. /\ st = "load" /\ Len(word) = 4 /\ count' = (count + 4) % Word /\ UNCHANGED <<size, st>>
    BY <1>3 DEF StoreWord
  <2>2. count + 4 \in 0 .. Word - 1 BY <1>1, <2>1
  <2>3. count' = count + 4 BY <1>1, <2>1, <2>2
  <2>4. per' = per BY <2>1 DEF per
  <2>5. marks * (per + 1) \in Nat /\ marks \in Nat /\ inc \in Nat /\ marks * (per + 1) + inc <= count
    BY <1>2, <2>1 DEF Bar
  <2>6. CASE per < inc + 4 /\ inc' = 0 /\ marks' = marks + 1
    <3>1. (marks + 1) * (per + 1) = marks * (per + 1) + (per + 1) BY <1>2, <2>5
    <3> QED BY <1>1, <1>2, <2>1, <2>3, <2>4, <2>5, <2>6, <3>1 DEF Bar
  <2>7. CASE inc' = inc + 4 /\ UNCHANGED marks
    BY <1>1, <1>2, <2>1, <2>3, <2>4, <2>5, <2>7 DEF Bar
  <2> QED BY <1>3, <2>6, <2>7 DEF StoreWord
<1>4. CASE Loaded
  <2>1. st = "load" /\ marks' = marks + 1 /\ st' = "done" /\ UNCHANGED <<size, inc>>
    BY <1>4 DEF Loaded
  <2>2. marks \in Nat /\ inc \in Nat /\ marks * (per + 1) + inc <= count BY <2>1 DEF Bar
  <2>3. marks * (per + 1) \in Nat BY <1>2, <2>2
  <2>4. marks * (per + 1) <= size BY <1>1, <2>1, <2>2, <2>3
  <2>5. marks + 1 <= 16 BY <1>1, <1>2, <2>2, <2>4, BarFits
  <2> QED BY <2>1, <2>2, <2>5 DEF Bar, BarWidth
<1>5. CASE UNCHANGED <<size, marks, inc, count>> /\ (st' = st \/ (st' = "load" /\ st = "gets"))
  BY <1>5 DEF Bar, per
<1>6. CASE gets BY <1>5, <1>6 DEF gets
<1>7. CASE Send \/ GetByte \/ UNCHANGED vars BY <1>5, <1>7 DEF Send, GetByte, vars
<1> QED BY <1>3, <1>4, <1>6, <1>7 DEF Next, Loader

(* uart.c:196-214, loader.c:152-160: when a line ends with a single        *)
(* character, for every line, every correction of it and every file, the   *)
(* row shows the line that gets returns and nothing after it, and the      *)
(* progress bar never has more marks than room.                            *)
THEOREM ScreenIsRight == SingleEnds => (Spec => []ScreenRight)
<1>1. SingleEnds /\ Init => IInv /\ Screen /\ Bar
  <2>1. Init => Screen BY EmptySeq DEF Init, Screen, Shows
  <2>2. Init => Bar
    <3> SUFFICES ASSUME Init PROVE Bar OBVIOUS
    <3>1. marks = 0 /\ inc = 0 /\ count = 0 /\ st = "gets" BY DEF Init
    <3>2. PICK i \in Inputs : size = i.size BY DEF Init
    <3>3. per \in Nat BY <3>2, InputsAssumption DEF per
    <3> QED BY <3>1, <3>3 DEF Bar
  <2> QED BY <2>1, <2>2, LoadInit
<1>2. IInv /\ Screen /\ Bar /\ [Next]_vars => (IInv /\ Screen /\ Bar)'
  BY LoadNext, ScreenNext, BarNext
<1>3. IInv /\ Screen /\ Bar => ScreenRight
  <2> SUFFICES ASSUME IInv, Screen, Bar PROVE ScreenRight OBVIOUS
  <2>1. /\ row.cursor = Len(str) /\ str \in Seq(Nat) /\ row.cells \in Seq(Nat)
        /\ Len(str) \in Nat /\ Len(row.cells) \in Nat /\ Len(str) <= Len(row.cells)
        /\ \A k \in 1 .. Len(str) : row.cells[k] = str[k]
        /\ \A k \in Len(str) + 1 .. Len(row.cells) : row.cells[k] = ASCII_SP
    BY LenProperties DEF Screen, Shows
  <2>2. SubSeq(row.cells, 1, Len(str)) = str
    <3> DEFINE u == SubSeq(row.cells, 1, Len(str))
               n == Len(str)
               cells == row.cells
    <3>1. \A k \in 1 .. n : cells[k] \in Nat
      <4> HIDE DEF n, cells
      <4>1. \A k \in 1 .. n : k \in 1 .. Len(cells) BY <2>1 DEF n, cells
      <4> QED BY <2>1, <4>1, ElementOfSeq DEF n, cells
    <3>2. /\ u \in Seq(Nat) /\ Len(u) = IF 1 <= n THEN n - 1 + 1 ELSE 0
          /\ \A k \in 1 .. n - 1 + 1 : u[k] = cells[1 + k - 1]
      <4>1. 1 \in Int /\ n \in Int BY <2>1
      <4> HIDE DEF n, cells
      <4> QED BY <3>1, <4>1, SubSeqProperties DEF cells, n
    <3> HIDE DEF u, n, cells
    <3>3. n \in Nat /\ Len(u) = n /\ \A k \in 1 .. n : u[k] = cells[k] BY <2>1, <3>2 DEF n
    <3> QED BY <2>1, <3>2, <3>3, SeqEqual DEF u, n, cells
  <2>3. marks <= BarWidth
    <3>1. CASE st = "done" BY <3>1 DEF Bar
    <3>2. CASE st # "done"
      <4>1. size \in Nat /\ count \in Nat /\ count <= size BY Counted
      <4>3. per \in Nat /\ size < 16 * (per + 1) BY <4>1 DEF per
      <4>4. marks \in Nat /\ inc \in Nat /\ marks * (per + 1) + inc <= count BY <3>2 DEF Bar
      <4>5. marks * (per + 1) \in Nat BY <4>3, <4>4
      <4>6. marks + 1 <= 16 BY <4>1, <4>3, <4>4, <4>5, BarFits
      <4> QED BY <4>4, <4>6 DEF BarWidth
    <3> QED BY <3>1, <3>2
  <2> QED BY <2>1, <2>2, <2>3 DEF ScreenRight
<1> QED BY <1>1, <1>2, <1>3, PTL DEF Spec
=============================================================================
