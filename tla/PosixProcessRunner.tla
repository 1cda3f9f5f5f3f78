------------------------- MODULE PosixProcessRunner -------------------------
(***************************************************************************)
(* PosixProcessRunner (src/runtime/process_runner.cpp) by system call:     *)
(* Start with its fork, the two halves that run at once from there on, and *)
(* the pipe that tells the parent how the exec went; Stop with SIGTERM,    *)
(* SIGKILL and the bounded waits after each.                               *)
(*                                                                         *)
(* Any number of commands call it.  A pid that one of them has started may *)
(* be stopped by any other, as long as the state file holds it; the parent *)
(* may have ended by then.  A kubectl may start helpers (credential        *)
(* plugins), which stay in its process group, and any process may be deaf  *)
(* to SIGTERM.                                                             *)
(***************************************************************************)
EXTENDS Naturals

CONSTANTS
    Cmds,       \* kubeforward commands
    Pids,
    NoPid,      \* no process, or a pid that is not positive
    Reaper,     \* init, which adopts and reaps orphans
    TermPolls,  \* polls after SIGTERM (3000 ms of 100 ms each)
    KillPolls,  \* polls after SIGKILL (1000 ms)
    Faults      \* "crash": a command is killed in a call; "eperm": kill is refused

ASSUME NamesAssumption ==
    /\ NoPid \notin Pids \cup Cmds
    /\ Reaper \notin Pids \cup Cmds \cup {NoPid}
    /\ Pids \cap Cmds = {}
ASSUME PollsAssumption == TermPolls \in Nat /\ KillPolls \in Nat
ASSUME FaultsAssumption == Faults \subseteq {"crash", "eperm"}

VARIABLES
    proc,       \* the process table
    handed,     \* pids that Start has returned, and the state file may hold
    pc,         \* what a command does next
    pid,        \* the child it starts, or the process it stops
    polls,      \* polls left of its wait
    ret         \* what its last call returned

callVars == <<pc, pid, polls, ret>>
vars == <<proc, handed, callVars>>

(***************************************************************************)
(* A child is "forked" until it has called setpgid, "grouped" until its    *)
(* exec, "failed" when it has written an errno to the pipe instead.        *)
(***************************************************************************)
BeforeExec == {"forked", "grouped"}
States == BeforeExec \cup {"free", "failed", "run", "zombie"}
Free ==
    [st |-> "free", group |-> NoPid, parent |-> NoPid,
     deaf |-> FALSE, sig |-> "none", errno |-> FALSE]

StopStages == {"term", "termWait", "kill", "killWait"}
Stages == {"idle", "fork", "group", "read", "reap"} \cup StopStages

Init ==
    /\ proc = [p \in Pids |-> Free]
    /\ handed = {}
    /\ pc = [c \in Cmds |-> "idle"]
    /\ pid = [c \in Cmds |-> NoPid]
    /\ polls = [c \in Cmds |-> 0]
    /\ ret = [c \in Cmds |-> "none"]

-----------------------------------------------------------------------------
(* The process table.                                                      *)

MembersIn(table, g) == {p \in Pids : table[p].st # "free" /\ table[p].group = g}
Members(g) == MembersIn(proc, g)
Live(p) == proc[p].st \notin {"free", "zombie"}

\* fork returns no pid that still names a process or a group, and not within
\* the few seconds in which a Stop works on it.
FreshPids ==
    {p \in Pids : /\ proc[p].st = "free"
                  /\ Members(p) = {}
                  /\ \A c \in Cmds : pc[c] # "idle" => pid[c] # p}

\* What x leaves behind when it ends.
Orphaned(x) ==
    [p \in Pids |->
        IF proc[p].parent = x THEN [proc[p] EXCEPT !.parent = Reaper] ELSE proc[p]]

\* kill(-g, s): zombies do not notice, and SIGKILL is not taken back.
Signalled(g, s) ==
    [p \in Pids |->
        IF p \in Members(g) /\ Live(p)
        THEN [proc[p] EXCEPT !.sig = IF @ = "kill" THEN "kill" ELSE s]
        ELSE proc[p]]

\* A signal it heeds, or its own _exit(127).
Dying(p) ==
    /\ Live(p)
    /\ \/ proc[p].st = "failed"
       \/ proc[p].sig = "kill"
       \/ proc[p].sig = "term" /\ ~proc[p].deaf

Ends(p) ==
    /\ Live(p)
    /\ proc' = [Orphaned(p) EXCEPT
                ![p] = [@ EXCEPT !.st = "zombie", !.deaf = FALSE, !.sig = "none"]]
    /\ UNCHANGED <<handed, callVars>>

Dies(p) == Dying(p) /\ Ends(p)

\* A kubectl starts a helper.
Spawns(p) ==
    /\ proc[p].st = "run"
    /\ proc[p].group = p
    /\ proc[p].sig # "kill"
    /\ \E h \in FreshPids, deaf \in BOOLEAN :
        /\ proc' = [proc EXCEPT ![h] =
                    [Free EXCEPT !.st = "run", !.group = p, !.parent = p, !.deaf = deaf]]
        /\ handed' = handed \ {h}
    /\ UNCHANGED callVars

\* init, or the kubectl that started it, waits for it.
IsReaped(p) ==
    /\ proc[p].st = "zombie"
    /\ proc[p].parent \in Pids \cup {Reaper}
    /\ proc' = [proc EXCEPT ![p] = Free]
    /\ UNCHANGED <<handed, callVars>>

-----------------------------------------------------------------------------
(* Calls and returns.                                                      *)

Goto(c, stage) == pc' = [pc EXCEPT ![c] = stage]

Return(c, r) ==
    /\ Goto(c, "idle")
    /\ polls' = [polls EXCEPT ![c] = 0]
    /\ ret' = [ret EXCEPT ![c] = r]

StopReturns(c, r) == Return(c, r) /\ pid' = [pid EXCEPT ![c] = NoPid]

Call(c, stage, p) ==
    /\ pc[c] = "idle"
    /\ Goto(c, stage)
    /\ pid' = [pid EXCEPT ![c] = p]
    /\ ret' = [ret EXCEPT ![c] = "none"]
    /\ UNCHANGED <<proc, handed, polls>>

CallStart(c) == Call(c, "fork", NoPid)

\* The pid comes from the state file; one that is not positive may be there.
CallStop(c) == \E p \in handed \cup {NoPid} : Call(c, "term", p)

\* The command ends, or is killed; a next one takes its place.
Leave(c) ==
    /\ pc[c] = "idle" \/ "crash" \in Faults
    /\ proc' = Orphaned(c)
    /\ pid' = [pid EXCEPT ![c] = NoPid]
    /\ Return(c, "none")
    /\ UNCHANGED handed

-----------------------------------------------------------------------------
(* Start.                                                                  *)

\* No argv, no log directory, no pipe, or no fork.
StartRefused(c) ==
    /\ pc[c] = "fork"
    /\ Return(c, "failed")
    /\ UNCHANGED <<proc, handed, pid>>

Fork(c) ==
    /\ pc[c] = "fork"
    /\ \E p \in FreshPids :
        /\ proc' = [proc EXCEPT ![p] = [Free EXCEPT !.st = "forked", !.parent = c]]
        /\ pid' = [pid EXCEPT ![c] = p]
        /\ handed' = handed \ {p}
    /\ Goto(c, "group")
    /\ UNCHANGED <<polls, ret>>

\* Mutant: the child stays in the group of its parent.
ChildSkipsGroup(p) ==
    /\ proc[p].st = "forked"
    /\ proc' = [proc EXCEPT ![p].st = "grouped"]
    /\ UNCHANGED <<handed, callVars>>

\* setpgid(0, 0) in the child.
ChildGroups(p) ==
    /\ proc[p].st = "forked"
    /\ proc' = [proc EXCEPT ![p] = [@ EXCEPT !.st = "grouped", !.group = p]]
    /\ UNCHANGED <<handed, callVars>>

ChildExecs(p) ==
    /\ proc[p].st = "grouped"
    /\ \E deaf \in BOOLEAN :
        proc' = [proc EXCEPT ![p] = [@ EXCEPT !.st = "run", !.deaf = deaf]]
    /\ UNCHANGED <<handed, callVars>>

\* chdir, open, dup2 or execvp fails, and the child writes why.
ChildFails(p) ==
    /\ proc[p].st = "grouped"
    /\ proc' = [proc EXCEPT ![p] = [@ EXCEPT !.st = "failed", !.errno = TRUE]]
    /\ UNCHANGED <<handed, callVars>>

\* setpgid(pid, pid) in the parent; after the exec it is refused (EACCES).
ParentGroups(c) ==
    /\ pc[c] = "group"
    /\ proc' = [proc EXCEPT ![pid[c]].group = IF proc[pid[c]].st = "run" THEN @ ELSE pid[c]]
    /\ Goto(c, "read")
    /\ UNCHANGED <<handed, pid, polls, ret>>

\* Mutant: the pipe stays open across the exec.
WriteEndOpenInKubectl(p) == proc[p].st \in BeforeExec \cup {"failed", "run"}

\* Who still holds the write end: exec and exit close it.
WriteEndOpen(p) == proc[p].st \in BeforeExec \cup {"failed"}

\* read returns 0: nobody can write any more, and nobody has.
ReadEnd(c) ==
    /\ pc[c] = "read"
    /\ ~WriteEndOpen(pid[c])
    /\ ~proc[pid[c]].errno
    /\ handed' = handed \cup {pid[c]}
    /\ Return(c, "started")
    /\ UNCHANGED <<proc, pid>>

ReadErrno(c) ==
    /\ pc[c] = "read"
    /\ proc[pid[c]].errno
    /\ Goto(c, "reap")
    /\ UNCHANGED <<proc, handed, pid, polls, ret>>

\* Mutant: the failed child is not waited for.
LeaveZombie(c) ==
    /\ pc[c] = "reap"
    /\ pid' = [pid EXCEPT ![c] = NoPid]
    /\ Return(c, "failed")
    /\ UNCHANGED <<proc, handed>>

\* waitpid(pid, nullptr, 0).
Reap(c) ==
    /\ pc[c] = "reap"
    /\ proc[pid[c]].st = "zombie"
    /\ proc' = [proc EXCEPT ![pid[c]] = Free]
    /\ pid' = [pid EXCEPT ![c] = NoPid]
    /\ Return(c, "failed")
    /\ UNCHANGED handed

StartStep(c) ==
    StartRefused(c) \/ Fork(c) \/ ParentGroups(c) \/ ReadEnd(c) \/ ReadErrno(c) \/ Reap(c)

ChildStep(p) == ChildGroups(p) \/ ChildExecs(p) \/ ChildFails(p)

-----------------------------------------------------------------------------
(* Stop.                                                                   *)

\* The pid is not positive, or kill is refused (EPERM).
KillRefused(c) ==
    /\ pc[c] \in {"term", "kill"}
    /\ \/ pid[c] = NoPid
       \/ Members(pid[c]) # {} /\ "eperm" \in Faults
    /\ StopReturns(c, "refused")
    /\ UNCHANGED <<proc, handed>>

\* ESRCH: there is no such group.
NothingToStop(c) ==
    /\ pc[c] = "term"
    /\ pid[c] # NoPid
    /\ Members(pid[c]) = {}
    /\ StopReturns(c, "stopped")
    /\ UNCHANGED <<proc, handed>>

SendTerm(c) ==
    /\ pc[c] = "term"
    /\ pid[c] # NoPid
    /\ Members(pid[c]) # {}
    /\ proc' = Signalled(pid[c], "term")
    /\ Goto(c, "termWait")
    /\ polls' = [polls EXCEPT ![c] = TermPolls]
    /\ UNCHANGED <<handed, pid, ret>>

Waiting(c) == pc[c] \in {"termWait", "killWait"}

\* Mutant: any child is waited for, and the group is not looked at.
HasEndedIfZombie(p) == ~Live(p)

\* IsProcessGroupAlive, negated: kill(-p, 0) finds nobody, zombies included.
HasEnded(p) == Members(p) = {}

\* waitpid(p, nullptr, WNOHANG) returns p: the leader was a child of c.
MyZombie(c) == proc[pid[c]].st = "zombie" /\ proc[pid[c]].parent = c

\* A poll of WaitForProcessGroupExit that ends the wait.
PollReaps(c) ==
    /\ Waiting(c)
    /\ MyZombie(c)
    /\ proc' = [proc EXCEPT ![pid[c]] = Free]
    /\ StopReturns(c, "stopped")
    /\ UNCHANGED handed

PollFindsNone(c) ==
    /\ Waiting(c)
    /\ ~MyZombie(c)
    /\ HasEnded(pid[c])
    /\ StopReturns(c, "stopped")
    /\ UNCHANGED <<proc, handed>>

\* Mutant: one poll too many.
PollOnceMore(c) ==
    /\ Waiting(c)
    /\ ~MyZombie(c)
    /\ ~HasEnded(pid[c])
    /\ polls' = [polls EXCEPT ![c] = @ - 1]
    /\ UNCHANGED <<proc, handed, pc, pid, ret>>

\* A poll that does not, with time left.
PollAgain(c) ==
    /\ Waiting(c)
    /\ ~MyZombie(c)
    /\ ~HasEnded(pid[c])
    /\ polls[c] > 0
    /\ polls' = [polls EXCEPT ![c] = @ - 1]
    /\ UNCHANGED <<proc, handed, pc, pid, ret>>

\* Mutant: the outcome of the second wait is not looked at.
TimeIsOverStops(c) ==
    /\ Waiting(c)
    /\ ~MyZombie(c)
    /\ ~HasEnded(pid[c])
    /\ polls[c] = 0
    /\ \/ pc[c] = "termWait" /\ Goto(c, "kill") /\ UNCHANGED <<pid, polls, ret>>
       \/ pc[c] = "killWait" /\ StopReturns(c, "stopped")
    /\ UNCHANGED <<proc, handed>>

\* The last poll: after SIGTERM comes SIGKILL, after SIGKILL nothing.
TimeIsOver(c) ==
    /\ Waiting(c)
    /\ ~MyZombie(c)
    /\ ~HasEnded(pid[c])
    /\ polls[c] = 0
    /\ \/ pc[c] = "termWait" /\ Goto(c, "kill") /\ UNCHANGED <<pid, polls, ret>>
       \/ pc[c] = "killWait" /\ StopReturns(c, "kept")
    /\ UNCHANGED <<proc, handed>>

\* Mutant: the second signal is a SIGTERM as well.
SendTermAgain(c) ==
    /\ pc[c] = "kill"
    /\ proc' = Signalled(pid[c], "term")
    /\ Goto(c, "killWait")
    /\ polls' = [polls EXCEPT ![c] = KillPolls]
    /\ UNCHANGED <<handed, pid, ret>>

\* SIGKILL; that the group is gone by now (ESRCH) is no error.
SendKill(c) ==
    /\ pc[c] = "kill"
    /\ proc' = Signalled(pid[c], "kill")
    /\ Goto(c, "killWait")
    /\ polls' = [polls EXCEPT ![c] = KillPolls]
    /\ UNCHANGED <<handed, pid, ret>>

StopStep(c) ==
    \/ KillRefused(c) \/ NothingToStop(c) \/ SendTerm(c) \/ SendKill(c)
    \/ PollReaps(c) \/ PollFindsNone(c) \/ PollAgain(c) \/ TimeIsOver(c)

-----------------------------------------------------------------------------
Next ==
    \/ \E c \in Cmds :
        CallStart(c) \/ CallStop(c) \/ Leave(c) \/ StartStep(c) \/ StopStep(c)
    \/ \E p \in Pids :
        ChildStep(p) \/ Ends(p) \/ Spawns(p) \/ IsReaped(p)

Spec == Init /\ [][Next]_vars

(***************************************************************************)
(* The commands' and the children's code runs on, and a process that is to *)
(* die dies.  Nothing is asked of callers, of a kubectl's own end, or of   *)
(* whoever reaps orphans.                                                  *)
(***************************************************************************)
FairSpec ==
    /\ Spec
    /\ \A c \in Cmds : WF_vars(StartStep(c)) /\ WF_vars(StopStep(c))
    /\ \A p \in Pids : WF_vars(ChildStep(p)) /\ WF_vars(Dies(p))

-----------------------------------------------------------------------------
(* Safety.                                                                 *)

ProcessRecord ==
    [st : States, group : Pids \cup {NoPid}, parent : Cmds \cup Pids \cup {Reaper, NoPid},
     deaf : BOOLEAN, sig : {"none", "term", "kill"}, errno : BOOLEAN]
Results == {"none", "started", "failed", "stopped", "kept", "refused"}

\* Every variable has its type, and a call that works on a process has one
\* (PosixProcessRunner::Start and Stop).
TypeOK ==
    /\ proc \in [Pids -> ProcessRecord]
    /\ handed \subseteq Pids
    /\ pc \in [Cmds -> Stages]
    /\ pid \in [Cmds -> Pids \cup {NoPid}]
    /\ \A c \in Cmds : pc[c] \notin {"idle", "fork", "term"} => pid[c] \in Pids
    /\ polls \in [Cmds -> Nat]
    /\ ret \in [Cmds -> Results]

Leads(p) == proc[p].st = "free" \/ proc[p].group = p

\* A pid that Start has returned leads a process group of its own, whichever
\* half of the fork was faster.  Stop signals the group of a pid and takes
\* "no such group" for success, so a kubectl outside of its group would be
\* reported stopped and run on.
StartedGroup == \A p \in handed : Leads(p)

\* A Start that fails has left no process, not even a zombie, to its caller.
FailedStartLeavesNothing ==
    [][\A c \in Cmds : pc[c] # "idle" /\ ret'[c] = "failed" =>
        \A p \in Pids : proc'[p].parent = c => p \in handed]_vars

\* A Stop that reports success on a process that its command has not started
\* has left no member of that process group (claim
\* runtime-process-runner-foundation: "including reattached processes").
ReattachedGroupGone ==
    [][\A c \in Cmds :
        pc[c] \in StopStages /\ ret'[c] = "stopped" /\ proc[pid[c]].parent # c
            => MembersIn(proc', pid[c]) = {}]_vars

\* A Stop that reports success has left nothing of the process group, whoever
\* has started it.
StopEndsGroup ==
    [][\A c \in Cmds : pc[c] \in StopStages /\ ret'[c] = "stopped"
        => \A p \in MembersIn(proc', pid[c]) : ~Live(p)']_vars

-----------------------------------------------------------------------------
(* The abstract runner: a process counts as launched from its exec on, or  *)
(* when something has killed it before without an errno in the pipe.       *)

ExecOver(p) == proc[p].st \in {"run", "zombie"} /\ ~proc[p].errno

kubectlView ==
    [p \in Pids |->
        IF ~ExecOver(p) \/ proc[p].group \notin {p, NoPid} THEN "none"
        ELSE IF proc[p].st = "run" THEN "up" ELSE "ended"]
lostView == {p \in Pids : proc[p].st \in BeforeExec /\ proc[p].parent = Reaper}
opView ==
    [c \in Cmds |->
        IF pc[c] = "idle" THEN "idle" ELSE IF pc[c] \in StopStages THEN "stop" ELSE "start"]
targetView ==
    [c \in Cmds |->
        IF pc[c] \in {"group", "read", "reap"} /\ ~ExecOver(pid[c]) THEN NoPid ELSE pid[c]]

Interface == INSTANCE ProcessRunner
    WITH kubectl <- kubectlView, lost <- lostView, op <- opView, target <- targetView

\* The POSIX runner keeps what the interface promises: Start returns the one
\* process it has launched or reports a failure with none, and no Stop that
\* succeeds leaves a kubectl running.
ImplementsProcessRunner == Interface!Spec

-----------------------------------------------------------------------------
(* Liveness.                                                               *)

\* Every Start and every Stop returns: the read ends with the exec or with the
\* child, and both waits of Stop are bounded.
CallsReturn == \A c \in Cmds : pc[c] # "idle" ~> pc[c] = "idle"

\* The command was killed in its call, or was not allowed to signal.
CutShort(c) == pc[c] = "idle" /\ ret[c] \in {"none", "refused"}

\* What a Stop has signalled ends, deaf to SIGTERM or not, unless the Stop is
\* cut short: every member of the group, or the kubectl at least if it was the
\* command's own child and was reaped.
StopEnds ==
    \A c \in Cmds, p \in Pids :
        (pc[c] = "termWait" /\ pid[c] = p) ~>
            \/ \A q \in Members(p) : ~Live(q)
            \/ ret[c] = "stopped" /\ ~Live(p)
            \/ CutShort(c)
=============================================================================
