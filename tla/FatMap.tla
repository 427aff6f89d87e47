------------------------------- MODULE FatMap -------------------------------
(***************************************************************************)
(* What the FAT layer of fs/fat32.c promises its callers: the file         *)
(* allocation table is a map from sector and offset to 32-bit entries, a   *)
(* read answers the low 28 bits of the entry, a write changes one entry,   *)
(* and an allocation marks one free entry.  There is no cache here: when   *)
(* the window is loaded and flushed is nobody's business.  FatTable is the *)
(* code and implements this module when the device answers every call.     *)
(***************************************************************************)
CONSTANTS
  Sectors,     \* sectors of the FAT area
  Offsets,     \* entries of a sector
  Words,       \* 32-bit entries, as records [hi |-> top 4 bits, lo |-> low 28 bits]
  Links,       \* values of the low 28 bits
  Zero,        \* the word of a free entry
  Reserved     \* the word an allocation stores

VARIABLES
  fat,         \* [Sectors -> [Offsets -> Words]]
  answer       \* what the last call answered

mapVars == <<fat, answer>>

Init == /\ fat \in [Sectors -> [Offsets -> Words]]
        /\ answer = [op |-> "none"]

Read(s, o) ==
  /\ answer' = [op |-> "read", at |-> <<s, o>>, val |-> fat[s][o].lo]
  /\ UNCHANGED fat

(* The top four bits of an entry are not the caller's to change. *)
Write(s, o, v) ==
  /\ fat' = [fat EXCEPT ![s][o].lo = v]
  /\ answer' = [op |-> "write", at |-> <<s, o>>, val |-> v]

Allocate(s, o) == /\ fat[s][o] = Zero
                  /\ fat' = [fat EXCEPT ![s][o] = Reserved]
                  /\ answer' = [op |-> "alloc"]

Refuse == answer' = [op |-> "full"] /\ UNCHANGED fat

Flush == answer' = [op |-> "flush"] /\ UNCHANGED fat

Begin == answer' = [op |-> "none"] /\ UNCHANGED fat

Next == \/ \E s \in Sectors, o \in Offsets :
              \/ Read(s, o)
              \/ \E v \in Links : Write(s, o, v)
              \/ Allocate(s, o)
        \/ Refuse
        \/ Flush
        \/ Begin

Spec == Init /\ [][Next]_mapVars
=============================================================================
