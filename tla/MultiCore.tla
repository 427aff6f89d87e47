----------------------------- MODULE MultiCore -----------------------------
(***************************************************************************)
(* The "go" command: LoaderGo on core 0 hands an entry point and two       *)
(* arguments to the other cores through the words of _boot_param.          *)
(* StartCore takes a core through reset and power; the core then runs      *)
(* boot_sec, which loads the three words one by one while core 0 goes on.  *)
(* The caches and the MMU are off on every core, so a store is seen by the *)
(* next load of any of them.                                               *)
(***************************************************************************)
EXTENDS Naturals, FiniteSets

CONSTANTS
  CPU_CORE_COUNT,
  All,        \* (uint32_t)-1, the core that '*' stands for
  Jobs,       \* what "go" may be given: [addr, arg0, arg1]
  MaxGos,     \* bound: commands typed
  Patient     \* whether a command takes longer to type than boot_sec takes to run

ASSUME CoresAssumption == CPU_CORE_COUNT \in 2 .. 4
ASSUME AllAssumption == All \notin 0 .. CPU_CORE_COUNT - 1
ASSUME JobsAssumption == Jobs \subseteq [addr : Nat, arg0 : Nat, arg1 : Nat]
ASSUME BoundAssumption == MaxGos \in Nat
ASSUME PatientAssumption == Patient \in BOOLEAN

VARIABLES
  bootParam,   \* the words of _boot_param
  startAddr,   \* cpucfg->start_addr: "none" or "boot_sec"
  reset,       \* cores whose rst_ctrl holds them in reset
  gated,       \* cores whose clock is gated
  off,         \* cores whose power is off
  st,          \* where core 0 is
  go,          \* the command: core (0 ..., or All) and job
  next,        \* the argument of StartCore
  cpu,         \* the other cores: at, r0, r1, pc
  given,       \* history: the job of the last command that released the core
  gos

vars == <<bootParam, startAddr, reset, gated, off, st, go, next, cpu, given, gos>>
power == <<startAddr, reset, gated, off>>

Secondary == 1 .. CPU_CORE_COUNT - 1
Targets == (0 .. CPU_CORE_COUNT - 1) \cup {All}
NoJob == [addr |-> 0, arg0 |-> 0, arg1 |-> 0]
Stopped == [at |-> "off", r0 |-> 0, r1 |-> 0, pc |-> 0]
Fetching == {"arg0", "arg1", "jump"}

(* The other cores come out of the boot ROM powered down and in reset. *)
Init ==
  /\ bootParam = NoJob /\ startAddr = "none"
  /\ reset = Secondary /\ gated = Secondary /\ off = Secondary
  /\ st = "prompt" /\ go = [core |-> 0, job |-> NoJob] /\ next = 0
  /\ cpu = [c \in Secondary |-> Stopped]
  /\ given = [c \in Secondary |-> NoJob] /\ gos = 0

(* CmdInterpretCommand accepts cores 0 .. CPU_CORE_COUNT - 1 and '*'. *)
Go ==
  /\ st = "prompt" /\ gos < MaxGos
  /\ Patient => \A c \in Secondary : cpu[c].at \notin Fetching
  /\ \E t \in Targets, j \in Jobs : go' = [core |-> t, job |-> j]
  /\ st' = "setAddr" /\ gos' = gos + 1
  /\ UNCHANGED <<bootParam, power, next, cpu, given>>

-----------------------------------------------------------------------------
(* _SetBoot: three stores. *)
SetAddr ==
  /\ st = "setAddr"
  /\ bootParam' = [bootParam EXCEPT !.addr = go.job.addr]
  /\ st' = "setArg0"
  /\ UNCHANGED <<power, go, next, cpu, given, gos>>

SetArg0Only ==  \* the store of the second argument is left out
  /\ st = "setArg0"
  /\ bootParam' = [bootParam EXCEPT !.arg0 = go.job.arg0]
  /\ st' = "dispatch"
  /\ UNCHANGED <<power, go, next, cpu, given, gos>>

SetArg0 ==
  /\ st = "setArg0"
  /\ bootParam' = [bootParam EXCEPT !.arg0 = go.job.arg0]
  /\ st' = "setArg1"
  /\ UNCHANGED <<power, go, next, cpu, given, gos>>

SetArg1 ==
  /\ st = "setArg1"
  /\ bootParam' = [bootParam EXCEPT !.arg1 = go.job.arg1]
  /\ st' = "dispatch"
  /\ UNCHANGED <<power, go, next, cpu, given, gos>>

DispatchToFirst ==  \* one core starts as all of them do, from core 1
  /\ st = "dispatch"
  /\ \/ go.core # 0 /\ next' = 1 /\ st' = "start"
     \/ go.core = 0 /\ st' = "app" /\ UNCHANGED next
  /\ UNCHANGED <<bootParam, power, go, cpu, given, gos>>

Dispatch ==
  /\ st = "dispatch"
  /\ \/ go.core = All /\ next' = 1 /\ st' = "start"
     \/ go.core = 0 /\ st' = "app" /\ UNCHANGED next
     \/ go.core \in Secondary /\ next' = go.core /\ st' = "start"
  /\ UNCHANGED <<bootParam, power, go, cpu, given, gos>>

(* StartCore.  Holding the core in reset stops whatever it was running. *)
Hold ==
  /\ st = "start"
  /\ startAddr' = "boot_sec"
  /\ reset' = reset \cup {next}
  /\ cpu' = [cpu EXCEPT ![next] = Stopped]
  /\ st' = "ungate"
  /\ UNCHANGED <<bootParam, gated, off, go, next, given, gos>>

UngateOnly ==  \* the core is released without its power
  /\ st = "ungate"
  /\ gated' = gated \ {next}
  /\ st' = "release"
  /\ UNCHANGED <<bootParam, startAddr, reset, off, go, next, cpu, given, gos>>

Ungate ==
  /\ st = "ungate"
  /\ gated' = gated \ {next}
  /\ st' = "powerOn"
  /\ UNCHANGED <<bootParam, startAddr, reset, off, go, next, cpu, given, gos>>

PowerOn ==
  /\ st = "powerOn"
  /\ off' = off \ {next}
  /\ st' = "release"
  /\ UNCHANGED <<bootParam, startAddr, reset, gated, go, next, cpu, given, gos>>

Runnable(c) == c \notin gated /\ c \notin off /\ startAddr = "boot_sec"

ReleaseTooFew ==  \* the loop over the cores ends one too early
  /\ st = "release"
  /\ reset' = reset \ {next}
  /\ cpu' = [cpu EXCEPT ![next].at = IF Runnable(next) THEN "arg0" ELSE "lost"]
  /\ given' = [given EXCEPT ![next] = go.job]
  /\ IF go.core = All /\ next < CPU_CORE_COUNT - 2 THEN st' = "start" /\ next' = next + 1
     ELSE st' = (IF go.core = All THEN "app" ELSE "prompt") /\ UNCHANGED next
  /\ UNCHANGED <<bootParam, startAddr, gated, off, go, gos>>

(* The core starts, and LoaderGo goes on with the next one. *)
Release ==
  /\ st = "release"
  /\ reset' = reset \ {next}
  /\ cpu' = [cpu EXCEPT ![next].at = IF Runnable(next) THEN "arg0" ELSE "lost"]
  /\ given' = [given EXCEPT ![next] = go.job]
  /\ \/ /\ go.core # All
        /\ st' = "prompt" /\ UNCHANGED next
     \/ /\ go.core = All /\ next + 1 < CPU_CORE_COUNT
        /\ st' = "start" /\ next' = next + 1
     \/ /\ go.core = All /\ next + 1 = CPU_CORE_COUNT
        /\ st' = "app" /\ UNCHANGED next
  /\ UNCHANGED <<bootParam, startAddr, gated, off, go, gos>>

(* An application that returns to LoaderGo: StartCore(0) is refused. *)
AppReturns ==
  /\ st = "app"
  /\ st' = "prompt"
  /\ UNCHANGED <<bootParam, power, go, next, cpu, given, gos>>

Core0 == SetAddr \/ SetArg0 \/ SetArg1 \/ Dispatch \/ Hold \/ Ungate \/ PowerOn \/ Release

-----------------------------------------------------------------------------
(* boot_sec on core c: r0, r1, then the jump. *)
LoadArg0(c) ==
  /\ cpu[c].at = "arg0"
  /\ cpu' = [cpu EXCEPT ![c].at = "arg1", ![c].r0 = bootParam.arg0]
  /\ UNCHANGED <<bootParam, power, st, go, next, given, gos>>

LoadArg1(c) ==
  /\ cpu[c].at = "arg1"
  /\ cpu' = [cpu EXCEPT ![c].at = "jump", ![c].r1 = bootParam.arg1]
  /\ UNCHANGED <<bootParam, power, st, go, next, given, gos>>

Jump(c) ==
  /\ cpu[c].at = "jump"
  /\ cpu' = [cpu EXCEPT ![c].at = "run", ![c].pc = bootParam.addr]
  /\ UNCHANGED <<bootParam, power, st, go, next, given, gos>>

boot_sec(c) == LoadArg0(c) \/ LoadArg1(c) \/ Jump(c)

Next == Go \/ Core0 \/ AppReturns \/ \E c \in Secondary : boot_sec(c)

Spec == Init /\ [][Next]_vars

(* Cores execute instructions; nobody has to type, no application to return. *)
FairSpec == Spec /\ WF_vars(Core0) /\ \A c \in Secondary : WF_vars(boot_sec(c))
-----------------------------------------------------------------------------
TypeOK ==
  /\ bootParam \in [addr : Nat, arg0 : Nat, arg1 : Nat]
  /\ startAddr \in {"none", "boot_sec"}
  /\ reset \subseteq Secondary /\ gated \subseteq Secondary /\ off \subseteq Secondary
  /\ st \in {"prompt", "setAddr", "setArg0", "setArg1", "dispatch", "start", "ungate",
             "powerOn", "release", "app"}
  /\ go \in [core : Targets, job : Jobs \cup {NoJob}]
  /\ next \in 0 .. CPU_CORE_COUNT - 1
  /\ cpu \in [Secondary -> [at : Fetching \cup {"off", "lost", "run"}, r0 : Nat, r1 : Nat, pc : Nat]]
  /\ given \in [Secondary -> Jobs \cup {NoJob}]
  /\ gos \in 0 .. MaxGos

Runs(c, job) == /\ cpu[c].at = "run"
                /\ [addr |-> cpu[c].pc, arg0 |-> cpu[c].r0, arg1 |-> cpu[c].r1] = job

(* boot.S:97: a core runs the entry point with the two arguments of the    *)
(* command that released it, never a mixture of two commands, and never    *)
(* the words of an earlier one.                                            *)
RunsItsJob == \A c \in Secondary : cpu[c].at = "run" => Runs(c, given[c])

(* cpucfg.c:35: a core runs only when it is powered, clocked, out of reset *)
(* and has a start address, and it comes out of reset in no other state.   *)
CoresPowered ==
  \A c \in Secondary :
    /\ cpu[c].at # "lost"
    /\ cpu[c].at # "off" => c \notin reset \cup gated \cup off

(* loader.c:91: a command for one core leaves the others where they are.   *)
Targeted == {c \in Secondary : go.core \in {c, All}}
OthersKeepRunning ==
  [][\A c \in Secondary : cpu[c].at = "run" /\ cpu'[c] # cpu[c] => c \in Targeted]_vars

(* Every core that a command names comes to run that command's job. *)
GoReachesCores ==
  \A c \in Secondary, j \in Jobs :
    st = "dispatch" /\ c \in Targeted /\ go.job = j ~> Runs(c, j)

-----------------------------------------------------------------------------
(* cmd.c:229 "Will not return": LoaderGo does not come back to the prompt  *)
(* unless the application of core 0 does.                                  *)
GoDoesNotReturn == [][st' = "prompt" => st \in {"prompt", "app"}]_vars
=============================================================================
