--------------------------- MODULE ProcessRunner ---------------------------
(***************************************************************************)
(* What the interface ProcessRunner promises to the commands of kubeforward *)
(* (src/include/kubeforward/runtime/process_runner.h): Start either returns *)
(* a process it has launched or launches none, and a Stop that reports     *)
(* success has left nothing of that process.                               *)
(*                                                                         *)
(* It promises no more than that: a launched process may end at any time,  *)
(* and a command that is killed inside Start may leave a process that      *)
(* nobody has been told of.                                                *)
(***************************************************************************)
EXTENDS Naturals

CONSTANTS
    Cmds,       \* kubeforward commands
    Pids,
    NoPid       \* no process

VARIABLES
    kubectl,    \* "none", "up", or "ended" and not yet waited for
    lost,       \* launches of a command that was killed meanwhile
    op,         \* the call a command is in
    target,     \* the process it returns, or is to stop
    ret         \* what the last call returned

abstractVars == <<kubectl, lost, op, target, ret>>

Init ==
    /\ kubectl = [p \in Pids |-> "none"]
    /\ lost = {}
    /\ op = [c \in Cmds |-> "idle"]
    /\ target = [c \in Cmds |-> NoPid]
    /\ ret = [c \in Cmds |-> "none"]

Call(c, o, p) ==
    /\ op[c] = "idle"
    /\ op' = [op EXCEPT ![c] = o]
    /\ target' = [target EXCEPT ![c] = p]
    /\ ret' = [ret EXCEPT ![c] = "none"]
    /\ UNCHANGED <<kubectl, lost>>

Launched(p) ==
    /\ kubectl[p] = "none"
    /\ \E s \in {"up", "ended"} : kubectl' = [kubectl EXCEPT ![p] = s]

Launch(c) ==
    /\ op[c] = "start"
    /\ target[c] = NoPid
    /\ \E p \in Pids : Launched(p) /\ target' = [target EXCEPT ![c] = p]
    /\ UNCHANGED <<lost, op, ret>>

\* The launch of a command that has been killed in it comes about, or does not.
LateLaunch(p) ==
    /\ p \in lost
    /\ Launched(p) \/ UNCHANGED kubectl
    /\ lost' = lost \ {p}
    /\ UNCHANGED <<op, target, ret>>

Return(c, r) ==
    /\ op' = [op EXCEPT ![c] = "idle"]
    /\ ret' = [ret EXCEPT ![c] = r]
    /\ UNCHANGED lost

StartReturns(c) ==
    /\ op[c] = "start"
    /\ Return(c, IF target[c] = NoPid THEN "failed" ELSE "started")
    /\ UNCHANGED <<kubectl, target>>

StopSucceeds(c) ==
    /\ op[c] = "stop"
    /\ target[c] \in Pids
    /\ kubectl[target[c]] # "up"
    /\ kubectl' = [kubectl EXCEPT ![target[c]] = "none"]
    /\ target' = [target EXCEPT ![c] = NoPid]
    /\ Return(c, "stopped")

StopFails(c) ==
    /\ op[c] = "stop"
    /\ target' = [target EXCEPT ![c] = NoPid]
    /\ \E r \in {"kept", "refused"} : Return(c, r)
    /\ UNCHANGED kubectl

\* The command ends, or is killed.
Leave(c) ==
    /\ op' = [op EXCEPT ![c] = "idle"]
    /\ target' = [target EXCEPT ![c] = NoPid]
    /\ ret' = [ret EXCEPT ![c] = "none"]
    /\ \/ UNCHANGED lost
       \/ /\ op[c] = "start"
          /\ target[c] = NoPid
          /\ \E p \in Pids : lost' = lost \cup {p}
    /\ UNCHANGED kubectl

Ends(p) ==
    /\ kubectl[p] = "up"
    /\ kubectl' = [kubectl EXCEPT ![p] = "ended"]
    /\ UNCHANGED <<lost, op, target, ret>>

\* Somebody else waits for it.
Vanishes(p) ==
    /\ kubectl[p] = "ended"
    /\ kubectl' = [kubectl EXCEPT ![p] = "none"]
    /\ UNCHANGED <<lost, op, target, ret>>

Next ==
    \/ \E c \in Cmds :
        \/ Call(c, "start", NoPid)
        \/ \E p \in Pids \cup {NoPid} : Call(c, "stop", p)
        \/ Launch(c) \/ StartReturns(c)
        \/ StopSucceeds(c) \/ StopFails(c) \/ Leave(c)
    \/ \E p \in Pids : LateLaunch(p) \/ Ends(p) \/ Vanishes(p)

Spec == Init /\ [][Next]_abstractVars
=============================================================================
