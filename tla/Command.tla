------------------------------ MODULE Command ------------------------------
(***************************************************************************)
(* CmdInterpretCommand (app/cmd.c) and the parser under it (app/parser.c): *)
(* a line is typed, its action looked up, its arguments taken one after    *)
(* the other, and a function of the loader called or the usage printed.    *)
(*                                                                         *)
(* A line is a sequence of items: a space, one of < > *, a number as it is *)
(* written, or a word; a number stands for the characters strtoul takes.   *)
(* Items with no space between them are one word to GETCMDSTRING.          *)
(***************************************************************************)
EXTENDS Integers, Sequences

CONSTANTS
  Numbers,          \* items that are numbers
  Names,            \* other words, among them "help", "load", "go", "read", "write"
  ValueOf,            \* what strtoul makes of a number
  CPU_CORE_COUNT,
  AllCores,         \* (uint32_t)-1, what '*' stands for; a number may have this value
  Lines             \* the lines typed

Symbols == {"space", "<", ">", "*"}
Items == Numbers \cup Names \cup Symbols

ASSUME NumbersAssumption == Numbers \cap (Names \cup Symbols) = {} /\ ValueOf \in [Numbers -> Nat]
ASSUME NamesAssumption ==
  /\ Names \cap Symbols = {} /\ "end" \notin Items
  /\ {"help", "load", "go", "read", "write", "serial", "sd"} \subseteq Names
ASSUME LinesAssumption == Lines \subseteq Seq(Items) \ {<<>>}
ASSUME CoresAssumption == CPU_CORE_COUNT \in Nat /\ AllCores \in Nat /\ AllCores >= CPU_CORE_COUNT

VARIABLES
  line,      \* Cmdstr
  ptr,       \* index of the next item of line
  st,        \* next step of the interpreter
  core, addr, arg0, arg1,  \* what has been parsed
  kind,      \* load type
  called     \* the answer: a call to the loader, or what was printed

cmdVars == <<line, ptr, st, core, addr, arg0, arg1, kind, called>>
parsed == <<core, addr, arg0, arg1, kind>>

Nothing == [fn |-> "none"]
Usage(cmd) == [fn |-> "usage", cmd |-> cmd]
Actions == {"help", "load", "go", "read", "write"}

CmdInit ==
  /\ line = <<>> /\ ptr = 1 /\ st = "gets"
  /\ core = 0 /\ addr = 0 /\ arg0 = 0 /\ arg1 = 0 /\ kind = "none"
  /\ called = Nothing

-----------------------------------------------------------------------------
(* gets: a line is typed; an empty one is read over. *)
gets ==
  /\ st = "gets"
  /\ line' \in Lines
  /\ st' = "action"
  /\ UNCHANGED <<ptr, parsed, called>>

(* The item at i; the line ends in "\0". *)
At(i) == IF i <= Len(line) THEN line[i] ELSE "end"
Here == At(ptr)

(* SKIPWHITESPACES from item i on. *)
Skipped(i) == CHOOSE k \in i .. Len(line) + 1 :
                At(k) # "space" /\ \A j \in i .. k - 1 : At(j) = "space"

(* GETCMDSTRING: the items up to the next space or the end.  It copies     *)
(* them without a bound; words fit their buffers, cmdStr[8] and file[32].  *)
WordEnd(i) == CHOOSE k \in i .. Len(line) + 1 :
                At(k) \in {"space", "end"} /\ \A j \in i .. k - 1 : At(j) \notin {"space", "end"}
Word(i) == SubSeq(line, i, WordEnd(i) - 1)

(* Str2Uint: a number that a space or the end of the line follows. *)
IsUint(i) == At(i) \in Numbers /\ At(i + 1) \in {"space", "end"}

Answer(a) == called' = a /\ st' = "done"

(* CmdParserGetAction and the switch. *)
GetAction ==
  /\ st = "action"
  /\ ptr' = Skipped(WordEnd(ptr))
  /\ IF \E a \in Actions : Word(ptr) = <<a>>
     THEN st' = Word(ptr)[1] /\ UNCHANGED called
     ELSE Answer([fn |-> "unknown"])
  /\ UNCHANGED <<line, parsed>>

(* An unknown word leaves ptr on it, and then the line is not at its end. *)
Help ==
  /\ st = "help"
  /\ LET known == \E a \in Actions : Word(ptr) = <<a>>
         end == IF known THEN Skipped(WordEnd(ptr)) ELSE ptr
     IN  Answer(CASE Here = "end" -> [fn |-> "help"]
                  [] Here # "end" /\ At(end) = "end" -> Usage(Word(ptr)[1])
                  [] OTHER -> Usage("help"))
  /\ UNCHANGED <<line, ptr, parsed>>

Load ==
  /\ st = "load"
  /\ \/ /\ Word(ptr) \in {<<"serial">>, <<"sd">>}
        /\ kind' = Word(ptr)[1] /\ ptr' = Skipped(WordEnd(ptr))
        /\ st' = "loadAddr" /\ UNCHANGED called
     \/ /\ Word(ptr) \notin {<<"serial">>, <<"sd">>}
        /\ Answer(Usage("load")) /\ UNCHANGED <<kind, ptr>>
  /\ UNCHANGED <<line, core, addr, arg0, arg1>>

(* '<' and what follows: '*', or a number which must end in a space; then  *)
(* '>'.  The core is checked only here.                                    *)
GoCore ==
  /\ st = "go" /\ Here = "<"
  /\ LET i == Skipped(ptr + 1)
         close == Skipped(i + 1)
     IN  \/ /\ At(i) = "*" \/ IsUint(i)
            /\ At(close) = ">"
            /\ core' = IF At(i) = "*" THEN AllCores ELSE ValueOf[At(i)]
            /\ IF core' >= CPU_CORE_COUNT /\ core' # AllCores
               THEN Answer(Usage("go")) /\ UNCHANGED ptr
               ELSE ptr' = Skipped(close + 1) /\ st' = "goAddr" /\ UNCHANGED called
         \/ /\ ~((At(i) = "*" \/ IsUint(i)) /\ At(close) = ">")
            /\ Answer(Usage("go")) /\ UNCHANGED <<core, ptr>>
  /\ UNCHANGED <<line, addr, arg0, arg1, kind>>

GoNoCore ==
  /\ st = "go" /\ Here # "<"
  /\ st' = "goAddr"
  /\ UNCHANGED <<line, ptr, parsed, called>>

(* CmdParserGetAddress, for every command that has an address. *)
GetAddress ==
  /\ st \in {"loadAddr", "goAddr", "read", "write"}
  /\ \/ /\ IsUint(ptr)
        /\ addr' = ValueOf[Here] /\ ptr' = Skipped(ptr + 1)
        /\ st' = CASE st = "loadAddr" -> "loadLast" [] st = "goAddr" -> "arg0"
                   [] st = "read" -> "readEnd" [] OTHER -> "writeValue"
        /\ UNCHANGED called
     \/ /\ ~IsUint(ptr)
        /\ Answer(Usage(CASE st = "loadAddr" -> "load" [] st = "goAddr" -> "go" [] OTHER -> st))
        /\ UNCHANGED <<addr, ptr>>
  /\ UNCHANGED <<line, core, arg0, arg1, kind>>

(* The size of a serial load, the file of the other. *)
GetLoad ==
  /\ st = "loadLast"
  /\ LET last == Skipped(WordEnd(ptr))
         good == IF kind = "serial" THEN IsUint(ptr) ELSE Here # "end"
     IN  Answer(IF ~good \/ At(last) # "end" THEN Usage("load")
                ELSE IF kind = "serial"
                     THEN [fn |-> "LoaderSerialLoad", addr |-> addr, size |-> ValueOf[Here]]
                     ELSE [fn |-> "LoaderSdLoad", addr |-> addr, file |-> Word(ptr)])
  /\ UNCHANGED <<line, ptr, parsed>>

(* Each argument of go is optional. *)
GetArg0 ==
  /\ st = "arg0"
  /\ \/ Here = "end" /\ st' = "arg1" /\ UNCHANGED <<arg0, ptr, called>>
     \/ /\ IsUint(ptr)
        /\ arg0' = ValueOf[Here] /\ ptr' = Skipped(ptr + 1)
        /\ st' = "arg1" /\ UNCHANGED called
     \/ /\ Here # "end" /\ ~IsUint(ptr)
        /\ Answer(Usage("go")) /\ UNCHANGED <<arg0, ptr>>
  /\ UNCHANGED <<line, core, addr, arg1, kind>>

GetArg1Loose ==  \* what follows the last argument is not looked at
  /\ st = "arg1"
  /\ LET value == IF Here = "end" THEN 0 ELSE ValueOf[Here]
     IN  IF Here = "end" \/ IsUint(ptr)
         THEN /\ arg1' = value
              /\ Answer([fn |-> "LoaderGo", addr |-> addr, core |-> core,
                         arg0 |-> arg0, arg1 |-> value])
         ELSE Answer(Usage("go")) /\ UNCHANGED arg1
  /\ UNCHANGED <<line, ptr, core, addr, arg0, kind>>

GetArg1 ==
  /\ st = "arg1"
  /\ LET last == Skipped(ptr + 1)
         value == IF Here = "end" THEN 0 ELSE ValueOf[Here]
         go == [fn |-> "LoaderGo", addr |-> addr, core |-> core, arg0 |-> arg0, arg1 |-> value]
     IN  \/ /\ Here = "end" \/ (IsUint(ptr) /\ At(last) = "end")
            /\ arg1' = value /\ Answer(go)
         \/ /\ ~(Here = "end" \/ (IsUint(ptr) /\ At(last) = "end"))
            /\ Answer(Usage("go")) /\ UNCHANGED arg1
  /\ UNCHANGED <<line, ptr, core, addr, arg0, kind>>

ReadEnd ==
  /\ st = "readEnd"
  /\ Answer(IF Here = "end" THEN [fn |-> "LoaderRead", addr |-> addr] ELSE Usage("read"))
  /\ UNCHANGED <<line, ptr, parsed>>

WriteValue ==
  /\ st = "writeValue"
  /\ Answer(IF IsUint(ptr) /\ At(Skipped(ptr + 1)) = "end"
            THEN [fn |-> "LoaderWrite", addr |-> addr, data |-> ValueOf[Here]]
            ELSE Usage("write"))
  /\ UNCHANGED <<line, ptr, parsed>>

(* main: the next command. *)
Again ==
  /\ st = "done"
  /\ line' = <<>> /\ ptr' = 1 /\ st' = "gets" /\ called' = Nothing
  /\ core' = 0 /\ addr' = 0 /\ arg0' = 0 /\ arg1' = 0 /\ kind' = "none"

CmdNext == \/ gets \/ GetAction \/ Help \/ Load \/ GoCore \/ GoNoCore
        \/ GetAddress \/ GetLoad \/ GetArg0 \/ GetArg1 \/ ReadEnd \/ WriteValue \/ Again

CmdSpec == CmdInit /\ [][CmdNext]_cmdVars
-----------------------------------------------------------------------------
TypeOKCmd ==
  /\ \A i \in DOMAIN line : line[i] \in Items
  /\ ptr \in 1 .. Len(line) + 1
  /\ {core, addr, arg0, arg1} \subseteq Nat
  /\ kind \in {"none", "serial", "sd"}

(* The commands, read off a whole line: its items without the spaces.      *)
SqueezedTo(n) ==
  LET s[i \in 0 .. Len(line)] == IF i = 0 THEN <<>>
                                 ELSE IF line[i] = "space" THEN s[i - 1] ELSE Append(s[i - 1], line[i])
  IN  s[n]
Squeezed == SqueezedTo(Len(line))
StandAlone == \A i \in DOMAIN line : line[i] \in Numbers \cup Names => At(i + 1) \in {"space", "end"}
NumbersFrom(k) == \A i \in k .. Len(Squeezed) : Squeezed[i] \in Numbers
ValueAt(i) == IF i <= Len(Squeezed) THEN ValueOf[Squeezed[i]] ELSE 0

Bracketed == Len(Squeezed) > 3 /\ Squeezed[2] = "<" /\ Squeezed[4] = ">"
FirstNumber == IF Bracketed THEN 5 ELSE 2
GoCoreOf == IF ~Bracketed THEN 0
            ELSE IF Squeezed[3] = "*" THEN AllCores ELSE ValueOf[Squeezed[3]]

IsGo ==
  /\ At(1) = "go"
  /\ Bracketed => \/ Squeezed[3] = "*"
                 \/ /\ Squeezed[3] \in Numbers
                    /\ ValueOf[Squeezed[3]] \in (0 .. CPU_CORE_COUNT - 1) \cup {AllCores}
  /\ Len(Squeezed) - FirstNumber \in 0 .. 2 /\ NumbersFrom(FirstNumber)

TheGo == [fn |-> "LoaderGo", core |-> GoCoreOf, addr |-> ValueAt(FirstNumber),
          arg0 |-> ValueAt(FirstNumber + 1), arg1 |-> ValueAt(FirstNumber + 2)]

(* The core right before its closing bracket is what README.md:46 shows;   *)
(* parser.c:89 wants a space there (GoAsDocumented).                       *)
ClosedTight ==
  \A i \in DOMAIN line : line[i] \in Numbers \cup Names =>
    At(i + 1) \in {"space", "end"} \/ (line[i] \in Numbers /\ At(i + 1) = ">")

(* A line starts an application when it is a go command with a core of the *)
(* processor and whose numbers and words a space ends, and no other line   *)
(* does; of one with the core closed tight nothing is claimed but that it  *)
(* starts no other application than the one it names.                      *)
GoAsTyped ==
  st = "done" /\ At(1) = "go" =>
    IF IsGo /\ StandAlone THEN called = TheGo
    ELSE \/ called = Usage("go") \/ called.fn = "unknown"
         \/ IsGo /\ ClosedTight /\ called = TheGo

(* A load, a read or a write happens exactly when the line has its         *)
(* arguments and nothing more.                                             *)
Apart == \A i \in DOMAIN line : line[i] # "space" => At(i + 1) \in {"space", "end"}
IsLoad(k) == At(1) = "load" /\ Len(Squeezed) = 4 /\ Squeezed[2] = k /\ Squeezed[3] \in Numbers
TheOther ==
  CASE IsLoad("serial") /\ Squeezed[4] \in Numbers ->
         [fn |-> "LoaderSerialLoad", addr |-> ValueAt(3), size |-> ValueAt(4)]
    [] IsLoad("sd") -> [fn |-> "LoaderSdLoad", addr |-> ValueAt(3), file |-> <<Squeezed[4]>>]
    [] At(1) = "read" /\ Len(Squeezed) = 2 /\ NumbersFrom(2) ->
         [fn |-> "LoaderRead", addr |-> ValueAt(2)]
    [] At(1) = "write" /\ Len(Squeezed) = 3 /\ NumbersFrom(2) ->
         [fn |-> "LoaderWrite", addr |-> ValueAt(2), data |-> ValueAt(3)]
    [] OTHER -> Nothing
OthersAsTyped ==
  st = "done" /\ Apart /\ At(1) # "go" =>
    IF TheOther # Nothing THEN called = TheOther ELSE called.fn \in {"usage", "help", "unknown"}

(* cmd.c:135: the loader is called for the lines that say what to do, with *)
(* every argument in its place, and for no other line; whether it is for   *)
(* "go <1> 7", where the documentation and the parser disagree, is open.   *)
CalledAsTyped == GoAsTyped /\ OthersAsTyped

-----------------------------------------------------------------------------
(* README.md:46 "go <core> addr arg0 arg1": the core between the angle     *)
(* brackets, without spaces, is accepted.                                  *)
Documented == \E n \in Numbers :
  /\ ValueOf[n] < CPU_CORE_COUNT
  /\ Len(line) = 7 /\ line[7] \in Numbers
  /\ SubSeq(line, 1, 6) = <<"go", "space", "<", n, ">", "space">>
GoAsDocumented == st = "done" /\ Documented => called.fn = "LoaderGo"
=============================================================================
