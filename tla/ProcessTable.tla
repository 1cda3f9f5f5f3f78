---------------------------- MODULE ProcessTable ----------------------------
(***************************************************************************)
(* The operating system as kubeforward sees it: a table of processes, the  *)
(* local ports they listen on, and who their parent is.  None of it is     *)
(* code of the repository; it is modelled from the calls that              *)
(* src/runtime/process_runner.cpp and src/cli/cli.cpp make (fork, execvp,  *)
(* kill, waitpid, bind, ps, lsof) and from what `kubectl port-forward`     *)
(* does with its port.                                                     *)
(*                                                                         *)
(* A port stands for one claim of the code, a bind address with a local    *)
(* port, together with the "local:remote" pair of its command line: two    *)
(* mappings of one local port are one port here.                           *)
(***************************************************************************)
EXTENDS Naturals

CONSTANTS
    Pids,       \* process identifiers
    Ports,      \* local ports a configuration may name
    NoPort,     \* the port of a process that claims none
    Cmds,       \* kubeforward command processes (terminals)
    Reaper,     \* the system process that adopts and reaps orphans
    Configs,    \* configuration files
    Envs,       \* environment names
    NoKey,      \* the key of a process that is not kubeforward's
    Faults,     \* the kinds of failure that may happen
    MaxFaults   \* how many failures may happen in one behaviour

\* What identifies a session: a configuration file and an environment of it.
Keys == Configs \X Envs

ASSUME ReaperAssumption == Reaper \notin Cmds
ASSUME NoPortAssumption == NoPort \notin Ports
ASSUME NoKeyAssumption == NoKey \notin Keys
ASSUME MaxFaultsAssumption == MaxFaults \in Nat

VARIABLES
    proc,       \* the process table
    faults      \* how many failures have happened

tableVars == <<proc, faults>>

(***************************************************************************)
(* "starting" runs and has not opened its port yet, "hung" runs and never  *)
(* will, "listening" has opened it.  A "zombie" has ended and waits for    *)
(* its parent: kill(pid, 0) still finds it, ps shows it as <defunct>.      *)
(* The field key is the session a kubectl was started for, and spared says *)
(* that an attempt to stop it has failed; kubeforward cannot see either,   *)
(* only the properties read them.                                          *)
(***************************************************************************)
LiveStates == {"starting", "listening", "hung"}

Process ==
    [st     : LiveStates \cup {"free", "zombie"},
     kind   : {"none", "kubectl", "foreign"},
     port   : Ports \cup {NoPort},
     parent : Cmds \cup {Reaper},
     key    : Keys \cup {NoKey},
     spared : BOOLEAN]

FreeSlot ==
    [st |-> "free", kind |-> "none", port |-> NoPort, parent |-> Reaper, key |-> NoKey,
     spared |-> FALSE]

Zombie(c) == [FreeSlot EXCEPT !.st = "zombie", !.parent = c]

Kubectl(c, q, k) ==
    [st |-> "starting", kind |-> "kubectl", port |-> q, parent |-> c, key |-> k,
     spared |-> FALSE]

Foreign(q) ==
    [st |-> "listening", kind |-> "foreign", port |-> q, parent |-> Reaper, key |-> NoKey,
     spared |-> FALSE]

Exists(p) == proc[p].st # "free"
Live(p) == proc[p].st \in LiveStates
LiveKubectl(p) == Live(p) /\ proc[p].kind = "kubectl"

\* Some process listens on the port: bind fails, and lsof or ss shows a listener.
InUse(q) == \E p \in Pids : proc[p].st = "listening" /\ proc[p].port = q

\* A process survives that was to be stopped, if it is a kubectl.
Survive(p) ==
    proc' = IF LiveKubectl(p) THEN [proc EXCEPT ![p].spared = TRUE] ELSE proc

\* An ended process stays as a zombie of a kubeforward command that has not
\* waited for it; the system process waits at once.
Ended(p) == IF proc[p].parent = Reaper THEN FreeSlot ELSE Zombie(proc[p].parent)

\* The table once command c has exited: the system process adopts its
\* children and reaps those that have ended.
Adopted(c) ==
    [p \in Pids |->
        IF proc[p].parent # c THEN proc[p]
        ELSE IF proc[p].st = "zombie" THEN FreeSlot
        ELSE [proc[p] EXCEPT !.parent = Reaper]]

Fault(f) ==
    /\ f \in Faults
    /\ faults < MaxFaults
    /\ faults' = faults + 1

-----------------------------------------------------------------------------
TableInit ==
    /\ proc = [p \in Pids |-> FreeSlot]
    /\ faults = 0

\* kubectl binds its port and starts to listen.
Listen(p) ==
    /\ proc[p].st = "starting"
    /\ ~InUse(proc[p].port)
    /\ proc' = [proc EXCEPT ![p].st = "listening"]
    /\ UNCHANGED faults

\* kubectl finds its port taken and exits.
BindFails(p) ==
    /\ proc[p].st = "starting"
    /\ InUse(proc[p].port)
    /\ proc' = [proc EXCEPT ![p] = Ended(p)]
    /\ UNCHANGED faults

\* The API server does not answer: kubectl runs on and never listens.
Hang(p) ==
    /\ Fault("hang")
    /\ proc[p].st = "starting"
    /\ proc' = [proc EXCEPT ![p].st = "hung"]

\* kubectl loses its connection, or somebody kills it.
Die(p) ==
    /\ Fault("die")
    /\ LiveKubectl(p)
    /\ proc' = [proc EXCEPT ![p] = Ended(p)]

\* A program that is not kubeforward's starts, on any pid that is free.
ForeignStart(p) ==
    /\ Fault("foreign")
    /\ ~Exists(p)
    /\ \E q \in Ports \cup {NoPort} :
        /\ q \in Ports => ~InUse(q)
        /\ proc' = [proc EXCEPT ![p] = Foreign(q)]

ForeignExit(p) ==
    /\ Live(p)
    /\ proc[p].kind = "foreign"
    /\ proc' = [proc EXCEPT ![p] = FreeSlot]
    /\ UNCHANGED faults

TableStep ==
    \E p \in Pids :
        Listen(p) \/ BindFails(p) \/ Hang(p) \/ Die(p) \/ ForeignStart(p) \/ ForeignExit(p)

TableTypeOK ==
    /\ proc \in [Pids -> Process]
    /\ faults \in Nat
=============================================================================
