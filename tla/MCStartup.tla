----------------------------- MODULE MCStartup -----------------------------
(* Startup for TLC: a FAT of six sectors of two entries under a window of  *)
(* two, and files whose links lie before and after one another.            *)
EXTENDS Startup
Chain(s) == [c \in {s[i] : i \in 1 .. Len(s)} |->
               LET i == CHOOSE j \in 1 .. Len(s) : s[j] = c
               IN  IF i = Len(s) THEN EOC ELSE s[i + 1]]
Vol(base, total, root, entryIn, file) ==
  [base |-> base, total |-> total, clusterSize |-> 2, reserved |-> 1, fatLength |-> 6, fats |-> 1,
   root |-> root, entryIn |-> entryIn, file |-> file,
   links |-> [c \in 0 .. 11 |->
                CASE c \in {root[i] : i \in 1 .. Len(root)} -> Chain(root)[c]
                  [] c \in {file[i] : i \in 1 .. Len(file)} -> Chain(file)[c]
                  [] OTHER -> 0]]
\* The root as mkfs puts it, with a second cluster, and elsewhere; late on the card; too small.
Fat32s == {Vol(1, 27, <<2>>, 1, <<3, 11, 5>>), Vol(1, 27, <<2, 9>>, 2, <<4, 5, 3>>),
           Vol(1, 27, <<6>>, 1, <<10, 2>>), Vol(40, 27, <<2>>, 1, <<7, 3>>)}
\* The last cluster of the root leads back to its first.
Looped == {[v EXCEPT !.links = [@ EXCEPT ![9] = 2], !.root = <<2, 9, 8>>, !.entryIn = 3] :
             v \in {Vol(1, 27, <<2, 9>>, 2, <<4>>)}}
Small == {Vol(1, 13, <<2>>, 1, <<3>>)}
AllVolumes == Fat32s \cup Looped \cup Small
MCGarbage == {0, 11, EOC}
=============================================================================
