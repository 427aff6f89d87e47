----------------------------- MODULE MCCommand -----------------------------
(***************************************************************************)
(* Command for TLC: lines of "go" with every form of the core and up to    *)
(* four arguments, apart or not, and lines of the other commands with up   *)
(* to three arguments of every kind and more.  "1" is a core of the        *)
(* processor, "7" is not, and "w" is the number that stands for all.       *)
(***************************************************************************)
EXTENDS Command

MCNumbers == {"1", "7", "w"}
MCValue   == [x \in MCNumbers |-> CASE x = "1" -> 1 [] x = "7" -> 7 [] OTHER -> 9]
MCWords   == {"help", "load", "go", "read", "write", "serial", "sd"}

Gap == {<<>>, <<"space">>}
Joined(ss, ts) == {s \o t : s \in ss, t \in ts}
Tokens(items) == {<<c>> : c \in items}

(* A number or a word is typed apart from the next one: else it is another. *)
Legible(l) == \A i \in 1 .. Len(l) - 1 : {l[i], l[i + 1]} \cap Symbols # {}

CoreParts ==
  {<<>>} \cup Joined(Joined({<<"<">>}, Joined(Gap, Tokens({"1", "7", "w", "*"}))),
                    Joined(Gap, Joined({<<">">>, <<>>}, Gap)))
Argument == {<<>>} \cup Joined(Tokens({"1", "7", ">"}), Gap)
GoLines ==
  {l \in Joined(Joined({<<"go">>}, Joined(Gap, CoreParts)),
                Joined(Joined(Argument, Argument), Joined(Argument, Argument))) : Legible(l)}

AnyArgument == {<<>>} \cup {<<"space", c>> : c \in MCWords \cup {"1", "7", "*"}}

OtherLines ==
  Joined(Joined(Tokens({"help", "load", "read", "write", "sd", "space"}), AnyArgument),
         Joined(Joined(AnyArgument, AnyArgument), {<<>>, <<"space">>, <<"*">>, <<"space", "1">>}))
AllLines == GoLines \cup OtherLines
=============================================================================
