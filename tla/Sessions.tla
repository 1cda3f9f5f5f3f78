------------------------------ MODULE Sessions ------------------------------
(***************************************************************************)
(* The session lifecycle of kubeforward: `up` (detached with --daemon, or  *)
(* attached to its terminal) and `down`, run by any number of commands     *)
(* that share one runtime state file and one process table                 *)
(* (src/cli/cli.cpp, RunUpCommand and RunDownCommand with their helpers).  *)
(*                                                                         *)
(* A command reads the state file once and writes it back once, each under *)
(* the file lock but with no lock in between: everything it decides, and   *)
(* all it writes, comes from that snapshot.  LoadState and SaveState are   *)
(* one step each here; StateStore shows why they may be.                   *)
(***************************************************************************)
EXTENDS ProcessTable, Sequences, SequencesExt

CONSTANTS
    Requests,       \* the command lines that may be given
    NoRequest,      \* what an idle terminal is running
    AllEnvs,        \* `down` without --env
    Legacy,         \* may the first state file be of a version without argv?
    PidReuse,       \* may fork return a pid that a session still records?
    Within          \* <<q, r>>: the text of q's "local:remote" occurs in that of r's

Request ==
    [op : {"up", "down"}, cfg : Configs, env : Envs \cup {AllEnvs},
     plan : Seq(Ports),     \* the ports of the resolved environment, in order
     daemon : BOOLEAN,
     skip : BOOLEAN]        \* KUBEFORWARD_SKIP_READINESS_CHECK=1

ASSUME RequestsAssumption ==
    /\ Requests \subseteq Request
    /\ \A r \in Requests : r.op = "up" => r.env \in Envs
    /\ NoRequest \notin Requests
ASSUME AllEnvsAssumption == AllEnvs \notin Envs
ASSUME SwitchesAssumption == {Legacy, PidReuse} \subseteq BOOLEAN
ASSUME WithinAssumption ==
    Within \subseteq Ports \X Ports /\ \A q \in Ports : <<q, q>> \in Within

\* One forward of a session: its local port, its kubectl, and whether the
\* record holds the command line to restart it with.
Forward == [port : Ports, pid : Pids, argv : BOOLEAN]
Session == [cfg : Configs, env : Envs, fwds : Seq(Forward)]

VARIABLES
    file,   \* the sessions the state file records
    pc,     \* what a command does next
    req,    \* its command line
    snap,   \* the sessions it loaded
    own,    \* the forwards of the session it is starting or watching
    mode,   \* "new": it starts the plan; "restore": it starts the old session
    todo,   \* the sessions it still has to stop, the first one partly stopped
    kept,   \* keys of the sessions with a forward it could not stop
    sig,    \* has it signalled the next forward, and waits for the end of it?
    res     \* how the last command of the terminal ended

locals == <<req, snap, own, mode, todo, kept, sig>>
vars == <<proc, faults, file, pc, req, snap, own, mode, todo, kept, sig, res>>

Stopping == {"stopOld", "undo", "cleanup", "downStop"}
Stages ==
    {"idle", "load", "preflight", "recheck", "start", "ready", "save",
     "watch", "fgSave", "downSave"} \cup Stopping

-----------------------------------------------------------------------------
(* Looking things up in a snapshot.                                        *)

Key(s) == <<s.cfg, s.env>>

\* Mutant: the environment filter is not looked at.
MatchingAnyEnv(S, cfg, env) == {s \in S : s.cfg = cfg}

\* MatchingSessions: the empty filter, AllEnvs, takes every environment.
Matching(S, cfg, env) ==
    {s \in S : s.cfg = cfg /\ (env = AllEnvs \/ s.env = env)}

\* Mutant: nothing is removed.
WithoutNothing(S, r) == S

\* RemoveMatchingSessions.
Without(S, r) == {s \in S : Key(s) # Key(r)}

\* The sessions of the state file that the command is about.  For `up` there
\* is at most one (UniqueSessions), so its loops over them run at most once.
Existing(c) == Matching(snap[c], req[c].cfg, req[c].env)
Previous(c) == CHOOSE s \in Existing(c) : TRUE

PortsOf(fwds) == [i \in DOMAIN fwds |-> fwds[i].port]
Restartable(s) == \A i \in DOMAIN s.fwds : s.fwds[i].argv

\* The ports to start, in order, and the session they make up.
Wanted(c) == IF mode[c] = "new" THEN req[c].plan ELSE PortsOf(Previous(c).fwds)
Built(c) == [cfg |-> req[c].cfg, env |-> req[c].env, fwds |-> own[c]]

\* Mutant: recorded sessions are not asked.
NoConflict(c) == FALSE

\* CheckRuntimeSessionPortConflicts: a live process (a zombie counts) of
\* another session records one of the plan's ports.
Conflict(c) ==
    \E s \in Without(snap[c], req[c]) : \E i \in DOMAIN s.fwds :
        /\ s.fwds[i].port \in Range(req[c].plan)
        /\ Exists(s.fwds[i].pid)

\* CheckPlanPortsAvailable.
PlanPortsFree(c) == \A q \in Range(req[c].plan) : ~InUse(q)

\* Pids that the file, or a command's memory, still records for some forward.
PidsIn(S) == UNION {{s.fwds[i].pid : i \in DOMAIN s.fwds} : s \in S}
Recorded ==
    PidsIn(file) \cup UNION {PidsIn(snap[c] \cup {[fwds |-> own[c]]}) : c \in Cmds}

-----------------------------------------------------------------------------
(* Starting and leaving.                                                   *)

LegacyRecord(k, q, p) ==
    [cfg |-> k[1], env |-> k[2], fwds |-> <<[port |-> q, pid |-> p, argv |-> FALSE]>>]

Init ==
    /\ faults = 0
    /\ \/ file = {} /\ proc = [p \in Pids |-> FreeSlot]
       \/ /\ Legacy
          /\ \E k \in Keys, q \in Ports, p \in Pids :
                /\ file = {LegacyRecord(k, q, p)}
                /\ proc = [o \in Pids |->
                            IF o # p THEN FreeSlot
                            ELSE [Kubectl(Reaper, q, k) EXCEPT !.st = "listening"]]
    /\ pc = [c \in Cmds |-> "idle"]
    /\ req = [c \in Cmds |-> NoRequest]
    /\ snap = [c \in Cmds |-> {}]
    /\ own = [c \in Cmds |-> <<>>]
    /\ mode = [c \in Cmds |-> "new"]
    /\ todo = [c \in Cmds |-> <<>>]
    /\ kept = [c \in Cmds |-> {}]
    /\ sig = [c \in Cmds |-> FALSE]
    /\ res = [c \in Cmds |-> "none"]

\* The user gives a command line to an idle terminal.
Invoke(c) ==
    /\ pc[c] = "idle"
    /\ \E r \in Requests : req' = [req EXCEPT ![c] = r]
    /\ pc' = [pc EXCEPT ![c] = "load"]
    /\ res' = [res EXCEPT ![c] = "none"]
    /\ UNCHANGED <<proc, faults, file, snap, own, mode, todo, kept, sig>>

\* The command's process ends; what is left of its children goes to Reaper.
Leave(c, r) ==
    /\ proc' = Adopted(c)
    /\ pc' = [pc EXCEPT ![c] = "idle"]
    /\ req' = [req EXCEPT ![c] = NoRequest]
    /\ snap' = [snap EXCEPT ![c] = {}]
    /\ own' = [own EXCEPT ![c] = <<>>]
    /\ mode' = [mode EXCEPT ![c] = "new"]
    /\ todo' = [todo EXCEPT ![c] = <<>>]
    /\ kept' = [kept EXCEPT ![c] = {}]
    /\ sig' = [sig EXCEPT ![c] = FALSE]
    /\ res' = [res EXCEPT ![c] = r]

\* The process is killed, or a Ctrl-C hits it where no handler is installed.
Crash(c) ==
    /\ pc[c] # "idle"
    /\ Fault(IF pc[c] = "watch" THEN "crashWatch" ELSE "crash")
    /\ Leave(c, "killed")
    /\ UNCHANGED file

-----------------------------------------------------------------------------
(* LoadState, and what is decided from the snapshot before anything moves. *)

LoadFails(c) ==
    /\ pc[c] = "load"
    /\ Fault("load")
    /\ Leave(c, "error")
    /\ UNCHANGED file

LoadForUp(c) ==
    /\ pc[c] = "load"
    /\ req[c].op = "up"
    /\ snap' = [snap EXCEPT ![c] = file]
    /\ pc' = [pc EXCEPT ![c] = "preflight"]
    /\ UNCHANGED <<proc, faults, file, req, own, mode, todo, kept, sig, res>>

\* A state file that cannot be opened, or looked for, loads like an empty one.
LoadNothing(c) ==
    /\ pc[c] = "load"
    /\ Fault("unreadable")
    /\ snap' = [snap EXCEPT ![c] = {}]
    /\ pc' = [pc EXCEPT ![c] = IF req[c].op = "up" THEN "preflight" ELSE "downStop"]
    /\ UNCHANGED <<proc, file, req, own, mode, todo, kept, sig, res>>

\* `down` visits the sessions in its scope one after the other; the file's
\* order is not kept by a set, so any order may be the one.
VisitOrders(S) == SetToSeqs({s \in S : s.fwds # <<>>})

LoadForDown(c) ==
    /\ pc[c] = "load"
    /\ req[c].op = "down"
    /\ snap' = [snap EXCEPT ![c] = file]
    /\ \E order \in VisitOrders(Matching(file, req[c].cfg, req[c].env)) :
            todo' = [todo EXCEPT ![c] = order]
    /\ pc' = [pc EXCEPT ![c] = "downStop"]
    /\ UNCHANGED <<proc, faults, file, req, own, mode, kept, sig, res>>

\* The reasons to refuse an `up` that has changed nothing yet.
Refused(c) ==
    \/ \E s \in Existing(c) : ~Restartable(s)
    \/ Conflict(c)
    \/ Existing(c) = {} /\ ~PlanPortsFree(c)

\* There is no kubectl to execute, or a probe of a free port fails.
PreflightFails(c) ==
    /\ pc[c] = "preflight"
    /\ \/ Refused(c) /\ UNCHANGED faults
       \/ Fault("kubectl")
       \/ Existing(c) = {} /\ req[c].plan # <<>> /\ Fault("probe")
    /\ Leave(c, "error")
    /\ UNCHANGED file

PreflightPasses(c) ==
    /\ pc[c] = "preflight"
    /\ ~Refused(c)
    /\ IF Existing(c) = {}
       THEN /\ pc' = [pc EXCEPT ![c] = "start"]
            /\ UNCHANGED todo
       ELSE /\ pc' = [pc EXCEPT ![c] = "stopOld"]
            /\ \E order \in VisitOrders(Existing(c)) :
                    todo' = [todo EXCEPT ![c] = order]
    /\ UNCHANGED <<proc, faults, file, req, snap, own, mode, kept, sig, res>>

-----------------------------------------------------------------------------
(* StopSessionProcesses, and the loop of `down` that does the same: each   *)
(* forward is identified, signalled and waited for.  The identity check    *)
(* and the signal are one step.                                            *)

Target(c) == Head(Head(todo[c]).fwds)

\* Mutants: a finished session stays in line; a session ends with its first forward.
RestWithFinished(sessions) ==
    <<[Head(sessions) EXCEPT !.fwds = Tail(Head(sessions).fwds)]>> \o Tail(sessions)
RestSkips(sessions) == Tail(sessions)

\* The sessions still to be stopped once the next forward has been dealt with.
Rest(sessions) ==
    LET s == Head(sessions) IN
    IF Len(s.fwds) > 1
    THEN <<[s EXCEPT !.fwds = Tail(s.fwds)]>> \o Tail(sessions)
    ELSE Tail(sessions)

NextTarget(c) ==
    /\ todo' = [todo EXCEPT ![c] = Rest(todo[c])]
    /\ sig' = [sig EXCEPT ![c] = FALSE]

\* Its command line is that of a kubectl and has the forward's port mapping in it.
Recognises(f) == LiveKubectl(f.pid) /\ <<f.port, proc[f.pid].port>> \in Within

\* Mutants: any process, or any kubectl, is signalled; one that is gone is refused.
ShouldSignalAny(f) == f.argv
ShouldSignalKubectl(f) == f.argv /\ (~Exists(f.pid) \/ LiveKubectl(f.pid))
ShouldSignalRunning(f) == f.argv /\ Recognises(f)

\* ShouldSignalManagedProcess, when ps answers: the record has its argv, and
\* the pid is gone or runs what looks like the forward.
ShouldSignal(f) == f.argv /\ (~Exists(f.pid) \/ Recognises(f))

AtTarget(c) == pc[c] \in Stopping /\ todo[c] # <<>>

Keep(c) == kept' = [kept EXCEPT ![c] = kept[c] \cup {Key(Head(todo[c]))}]

\* The forward's identity is refuted, or ps does not answer: it is left alone.
StopRefused(c) ==
    /\ AtTarget(c)
    /\ ~sig[c]
    /\ \/ ~ShouldSignal(Target(c)) /\ UNCHANGED <<proc, faults>>
       \/ Exists(Target(c).pid) /\ Fault("ps") /\ Survive(Target(c).pid)
    /\ Keep(c)
    /\ NextTarget(c)
    /\ UNCHANGED <<file, pc, req, snap, own, mode, res>>

\* PosixProcessRunner::Stop finds no such process group, which counts as stopped.
StopGone(c) ==
    /\ AtTarget(c)
    /\ ~sig[c]
    /\ ShouldSignal(Target(c))
    /\ ~Exists(Target(c).pid)
    /\ NextTarget(c)
    /\ UNCHANGED <<proc, faults, file, pc, req, snap, own, mode, kept, res>>

\* The signal ends the kubectl.  A child of this command is waited for and a
\* child of Reaper is reaped at once; the child of another kubeforward
\* command stays a zombie until that command waits for it.
StopSignals(c) ==
    LET p == Target(c).pid IN
    /\ AtTarget(c)
    /\ ~sig[c]
    /\ ShouldSignal(Target(c))
    /\ Exists(p)
    /\ IF proc[p].parent \in {c, Reaper}
       THEN /\ proc' = [proc EXCEPT ![p] = FreeSlot]
            /\ NextTarget(c)
       ELSE /\ proc' = [proc EXCEPT ![p] = Ended(p)]
            /\ sig' = [sig EXCEPT ![c] = TRUE]
            /\ UNCHANGED todo
    /\ UNCHANGED <<faults, file, pc, req, snap, own, mode, kept, res>>

\* The group is seen gone, before its pid is given out again to be waited for.
StopReaped(c) ==
    /\ AtTarget(c)
    /\ sig[c]
    /\ proc[Target(c).pid].st # "zombie"
    /\ NextTarget(c)
    /\ UNCHANGED <<proc, faults, file, pc, req, snap, own, mode, kept, res>>

\* The signal cannot be sent, or the group is still there when the waits
\* after SIGTERM and SIGKILL are over.
StopFails(c) ==
    /\ AtTarget(c)
    /\ sig[c] \/ (ShouldSignal(Target(c)) /\ Exists(Target(c).pid))
    /\ Fault("stop")
    /\ Survive(Target(c).pid)
    /\ Keep(c)
    /\ NextTarget(c)
    /\ UNCHANGED <<file, pc, req, snap, own, mode, res>>

StopStep(c) ==
    StopRefused(c) \/ StopGone(c) \/ StopSignals(c) \/ StopReaped(c) \/ StopFails(c)

-----------------------------------------------------------------------------
(* `up`: replacing the old session and starting the new one.               *)

\* One forward of the old session survived: `up` gives up as it stands.
ReplaceFails(c) ==
    /\ pc[c] = "stopOld"
    /\ todo[c] = <<>>
    /\ kept[c] # {}
    /\ Leave(c, "error")
    /\ UNCHANGED <<faults, file>>

ReplaceStopped(c) ==
    /\ pc[c] = "stopOld"
    /\ todo[c] = <<>>
    /\ kept[c] = {}
    /\ pc' = [pc EXCEPT ![c] = "recheck"]
    /\ UNCHANGED <<proc, faults, file, req, snap, own, mode, todo, kept, sig, res>>

\* The plan's ports are probed again now that the old session is gone.  A
\* probe can also fail where nobody listens: bind is called without
\* SO_REUSEADDR, and the old session's connections may linger on the port.
Recheck(c) ==
    /\ pc[c] = "recheck"
    /\ pc' = [pc EXCEPT ![c] = "start"]
    /\ \/ PlanPortsFree(c) /\ mode' = [mode EXCEPT ![c] = "new"] /\ UNCHANGED faults
       \/ ~PlanPortsFree(c) /\ mode' = [mode EXCEPT ![c] = "restore"] /\ UNCHANGED faults
       \/ req[c].plan # <<>> /\ mode' = [mode EXCEPT ![c] = "restore"] /\ Fault("probe")
    /\ UNCHANGED <<proc, file, req, snap, own, todo, kept, sig, res>>

\* The pids that fork may return.
FreshPids == {p \in Pids : ~Exists(p) /\ (PidReuse \/ p \notin Recorded)}

\* PosixProcessRunner::Start: the next kubectl, in a process group of its own.
StartForward(c) ==
    LET n == Len(own[c]) + 1 IN
    /\ pc[c] = "start"
    /\ n <= Len(Wanted(c))
    /\ \E p \in FreshPids :
        /\ proc' = [proc EXCEPT ![p] = Kubectl(c, Wanted(c)[n], Key(req[c]))]
        /\ own' = [own EXCEPT ![c] =
                    Append(@, [port |-> Wanted(c)[n], pid |-> p, argv |-> TRUE])]
    /\ pc' = [pc EXCEPT ![c] = IF req[c].skip THEN "start" ELSE "ready"]
    /\ UNCHANGED <<faults, file, req, snap, mode, todo, kept, sig, res>>

\* Mutant: what has been started is not stopped.
UndoNothing(c) ==
    /\ pc' = [pc EXCEPT ![c] = "undo"]
    /\ UNCHANGED <<todo, kept>>

\* StopStartedSession: what has been started is stopped again.
Undo(c) ==
    /\ pc' = [pc EXCEPT ![c] = "undo"]
    /\ todo' = [todo EXCEPT ![c] = IF own[c] = <<>> THEN <<>> ELSE <<Built(c)>>]
    /\ kept' = [kept EXCEPT ![c] = {}]

\* The process table is full, or fork or exec fails for some other reason.
StartFails(c) ==
    /\ pc[c] = "start"
    /\ Len(own[c]) < Len(Wanted(c))
    /\ \/ FreshPids = {} /\ UNCHANGED faults
       \/ Fault("start")
    /\ Undo(c)
    /\ UNCHANGED <<proc, file, req, snap, own, mode, sig, res>>

\* Mutant: the session is saved before all of its forwards are up.
SomeStarted(c) ==
    /\ pc[c] = "start"
    /\ pc' = [pc EXCEPT ![c] = "save"]
    /\ UNCHANGED <<proc, faults, file, req, snap, own, mode, todo, kept, sig, res>>

AllStarted(c) ==
    /\ pc[c] = "start"
    /\ Len(own[c]) = Len(Wanted(c))
    /\ pc' = [pc EXCEPT ![c] = "save"]
    /\ UNCHANGED <<proc, faults, file, req, snap, own, mode, todo, kept, sig, res>>

(* WaitForForwardReady: the forward's exit, then its port, then the clock. *)

LastPid(c) == Last(own[c]).pid

ForwardReady(c) ==
    /\ pc[c] = "ready"
    /\ proc[LastPid(c)].st # "zombie"
    /\ InUse(Last(own[c]).port)
    /\ pc' = [pc EXCEPT ![c] = "start"]
    /\ UNCHANGED <<proc, faults, file, req, snap, own, mode, todo, kept, sig, res>>

ForwardDied(c) ==
    /\ pc[c] = "ready"
    /\ proc[LastPid(c)].st = "zombie"
    /\ proc' = [proc EXCEPT ![LastPid(c)] = FreeSlot]
    /\ Undo(c)
    /\ UNCHANGED <<faults, file, req, snap, own, mode, sig, res>>

\* Mutant: the wait has no timeout.
NeverTimesOut(c) == FALSE

\* The startup timeout is longer than any kubectl takes that is not hung.
ForwardTimesOut(c) ==
    /\ pc[c] = "ready"
    /\ proc[LastPid(c)].st = "hung"
    /\ ~InUse(Last(own[c]).port)
    /\ Undo(c)
    /\ UNCHANGED <<proc, faults, file, req, snap, own, mode, sig, res>>

\* Mutant: the old session is not brought back.
UndoneForGood(c) ==
    /\ pc[c] = "undo"
    /\ todo[c] = <<>>
    /\ Leave(c, "error")
    /\ UNCHANGED <<faults, file>>

\* What could not be stopped is forgotten.  A failed start of the plan brings
\* the old session back; a failed restore is the end.
Undone(c) ==
    /\ pc[c] = "undo"
    /\ todo[c] = <<>>
    /\ IF mode[c] = "new" /\ Existing(c) # {}
       THEN /\ pc' = [pc EXCEPT ![c] = "start"]
            /\ mode' = [mode EXCEPT ![c] = "restore"]
            /\ own' = [own EXCEPT ![c] = <<>>]
            /\ kept' = [kept EXCEPT ![c] = {}]
            /\ UNCHANGED <<proc, req, snap, todo, sig, res>>
       ELSE Leave(c, "error")
    /\ UNCHANGED <<faults, file>>

\* SaveState writes the snapshot with the command's own session put in.
Save(c) ==
    /\ pc[c] = "save"
    /\ file' = Without(snap[c], req[c]) \cup {Built(c)}
    /\ IF mode[c] = "restore" THEN Leave(c, "error")
       ELSE IF req[c].daemon THEN Leave(c, "ok")
       ELSE /\ pc' = [pc EXCEPT ![c] = "watch"]
            /\ UNCHANGED <<proc, req, snap, own, mode, todo, kept, sig, res>>
    /\ UNCHANGED faults

SaveFails(c) ==
    /\ pc[c] = "save"
    /\ Fault("save")
    /\ Undo(c)
    /\ UNCHANGED <<proc, file, req, snap, own, mode, sig, res>>

UpStep(c) ==
    \/ ReplaceFails(c) \/ ReplaceStopped(c) \/ Recheck(c)
    \/ StartForward(c) \/ StartFails(c) \/ AllStarted(c)
    \/ ForwardReady(c) \/ ForwardDied(c) \/ ForwardTimesOut(c)
    \/ Undone(c) \/ Save(c) \/ SaveFails(c)

-----------------------------------------------------------------------------
(* RunForegroundSession.                                                   *)

OwnPids(c) == {own[c][i].pid : i \in DOMAIN own[c]}

\* Mutant: the poll waits until every forward has exited.
AllExitedPids(c) ==
    {p \in OwnPids(c) : \A o \in OwnPids(c) : proc[o].st = "zombie"}

ExitedPids(c) == {p \in OwnPids(c) : proc[p].st = "zombie"}

\* The poll finds that forwards have exited, and the others are stopped.
ForwardExited(c) ==
    /\ pc[c] = "watch"
    /\ ExitedPids(c) # {}
    /\ proc' = [p \in Pids |-> IF p \in ExitedPids(c) THEN FreeSlot ELSE proc[p]]
    /\ pc' = [pc EXCEPT ![c] = "cleanup"]
    /\ todo' = [todo EXCEPT ![c] = <<Built(c)>>]
    /\ UNCHANGED <<faults, file, req, snap, own, mode, kept, sig, res>>

\* Ctrl-C, or a SIGTERM.
UserStops(c) ==
    /\ pc[c] = "watch"
    /\ pc' = [pc EXCEPT ![c] = "cleanup"]
    /\ todo' = [todo EXCEPT ![c] = IF own[c] = <<>> THEN <<>> ELSE <<Built(c)>>]
    /\ UNCHANGED <<proc, faults, file, req, snap, own, mode, kept, sig, res>>

CleanedUp(c) ==
    /\ pc[c] = "cleanup"
    /\ todo[c] = <<>>
    /\ pc' = [pc EXCEPT ![c] = "fgSave"]
    /\ UNCHANGED <<proc, faults, file, req, snap, own, mode, todo, kept, sig, res>>

\* Mutant: the state is written as it was saved.
ForegroundSaveKeeps(c) ==
    /\ pc[c] = "fgSave"
    /\ file' = Without(snap[c], req[c]) \cup {Built(c)}
    /\ \E r \in {"ok", "error", "signal"} : Leave(c, r)
    /\ UNCHANGED faults

\* The state written is the one this command saved when it started, without
\* its session.  The exit status is the signal's, or tells how kubectl exited.
ForegroundSave(c) ==
    /\ pc[c] = "fgSave"
    /\ file' = Without(snap[c], req[c])
    /\ \E r \in {"ok", "error", "signal"} : Leave(c, r)
    /\ UNCHANGED faults

ForegroundSaveFails(c) ==
    /\ pc[c] = "fgSave"
    /\ Fault("save")
    /\ Leave(c, "error")
    /\ UNCHANGED file

ForegroundStep(c) ==
    ForwardExited(c) \/ CleanedUp(c) \/ ForegroundSave(c) \/ ForegroundSaveFails(c)

-----------------------------------------------------------------------------
(* `down` writes its snapshot back without the sessions it has stopped.    *)

\* Mutant: a session is dropped although one of its forwards could not be stopped.
RemainingElsewhere(c) == snap[c] \ Existing(c)

Remaining(c) == {s \in snap[c] : s \in Existing(c) => Key(s) \in kept[c]}

DownVisited(c) ==
    /\ pc[c] = "downStop"
    /\ todo[c] = <<>>
    /\ pc' = [pc EXCEPT ![c] = "downSave"]
    /\ UNCHANGED <<proc, faults, file, req, snap, own, mode, todo, kept, sig, res>>

DownSave(c) ==
    /\ pc[c] = "downSave"
    /\ file' = Remaining(c)
    /\ Leave(c, IF kept[c] = {} THEN "ok" ELSE "error")
    /\ UNCHANGED faults

DownSaveFails(c) ==
    /\ pc[c] = "downSave"
    /\ Fault("save")
    /\ Leave(c, "error")
    /\ UNCHANGED file

DownStep(c) == DownVisited(c) \/ DownSave(c) \/ DownSaveFails(c)

-----------------------------------------------------------------------------
\* The steps the command's own code takes.
Step(c) ==
    \/ LoadFails(c) \/ LoadForUp(c) \/ LoadForDown(c) \/ LoadNothing(c)
    \/ PreflightFails(c) \/ PreflightPasses(c)
    \/ StopStep(c) \/ UpStep(c) \/ ForegroundStep(c) \/ DownStep(c)

Environment == TableStep /\ UNCHANGED <<file, pc, req, snap, own, mode, todo, kept, sig, res>>

Next ==
    \/ \E c \in Cmds : Invoke(c) \/ UserStops(c) \/ Crash(c) \/ Step(c)
    \/ Environment

Spec == Init /\ [][Next]_vars

(***************************************************************************)
(* Each command runs on, and a kubectl that is not hung opens its port or  *)
(* exits.  Nothing is asked of the user, of other programs or of failures. *)
(***************************************************************************)
KubectlStep(p) ==
    /\ Listen(p) \/ BindFails(p)
    /\ UNCHANGED <<file, pc, req, snap, own, mode, todo, kept, sig, res>>

FairSpec ==
    /\ Spec
    /\ \A c \in Cmds : WF_vars(Step(c))
    /\ \A p \in Pids : WF_vars(KubectlStep(p))

-----------------------------------------------------------------------------
(* Safety.                                                                 *)

Results == {"none", "ok", "error", "signal", "killed"}

CommandsTypeOK ==
    /\ pc \in [Cmds -> Stages]
    /\ req \in [Cmds -> Requests \cup {NoRequest}]
    /\ \A c \in Cmds : pc[c] # "idle" => req[c] \in Requests
    /\ snap \in [Cmds -> SUBSET Session]
    /\ own \in [Cmds -> Seq(Forward)]
    /\ mode \in [Cmds -> {"new", "restore"}]
    /\ todo \in [Cmds -> Seq(Session)]
    /\ \A c \in Cmds : \A i \in DOMAIN todo[c] : todo[c][i].fwds # <<>>
    /\ kept \in [Cmds -> SUBSET Keys]
    /\ sig \in [Cmds -> BOOLEAN]
    /\ res \in [Cmds -> Results]

\* Every variable has its type, and a session that a command still has to stop
\* has a next forward to stop (StopSessionProcesses).
TypeOK ==
    /\ TableTypeOK
    /\ file \subseteq Session
    /\ CommandsTypeOK

\* The state file, and every snapshot of it that a command works from, holds
\* at most one session of a configuration and environment.  RunUpCommand
\* replaces "the" existing session and relies on it.
UniqueSessions ==
    \A S \in {file} \cup {snap[c] : c \in Cmds} :
        \A s, t \in S : Key(s) = Key(t) => s = t

\* The state file never shows a partly started session: the ports a session
\* records are those of a whole plan that was asked for in its environment
\* (StartManagedSession saves nothing until every forward is up).
WholeSessions ==
    \A s \in file : Restartable(s) =>
        \E r \in Requests : r.op = "up" /\ Key(r) = Key(s) /\ r.plan = PortsOf(s.fwds)

\* No kubectl runs that nobody will stop: it is recorded for its session in
\* the state file, or a command that is still running has it in hand.  Only
\* one that has survived an attempt to stop it may be forgotten
\* (StopStartedSession, RunForegroundSession).
NoOrphan ==
    \A p \in Pids : LiveKubectl(p) /\ ~proc[p].spared =>
        \/ \E s \in file : Key(s) = proc[p].key /\ p \in PidsIn({s})
        \/ \E c \in Cmds : pc[c] # "idle" /\ p \in OwnPids(c)

\* Two recorded sessions never have live kubectls for the same local port,
\* not even while one of them has not opened it yet
\* (CheckRuntimeSessionPortConflicts).
PortsDisjoint ==
    \A s, t \in file : Key(s) # Key(t) =>
        \A i \in DOMAIN s.fwds, j \in DOMAIN t.fwds :
            s.fwds[i].port = t.fwds[j].port =>
                ~(LiveKubectl(s.fwds[i].pid) /\ LiveKubectl(t.fwds[j].pid))

InScope(k, r) == k[1] = r.cfg /\ r.env \in {AllEnvs, k[2]}

\* A command that stops processes ends only kubectls of the sessions it was
\* asked about: its own configuration's, and its environment's if it names
\* one.  The pids of its snapshot may be stale, and fork may have given them
\* to other sessions' kubectls since: ShouldSignalManagedProcess tells those
\* by their port mapping, which does while no two environments share one.
Progressed(c) == todo[c]' # todo[c] \/ sig[c]' # sig[c]
ScopeRespect ==
    [][\A c \in Cmds, p \in Pids :
        Progressed(c) /\ LiveKubectl(p) /\ ~LiveKubectl(p)'
            => InScope(proc[p].key, req[c])]_vars

\* No command touches a program that is not kubeforward's, whatever pid it
\* runs on (ShouldSignalManagedProcess).
ForeignSafe ==
    [][\A p \in Pids : Live(p) /\ proc[p].kind = "foreign" =>
        \/ proc'[p] = proc[p]
        \/ UNCHANGED <<file, pc, req, snap, own, mode, todo, kept, sig, res>>]_vars

\* When `down` reports success, nothing in its scope is left: no session in
\* the state file, and no kubectl running but what an earlier command could
\* not stop and has forgotten.
DownClears ==
    [][\A c \in Cmds : pc[c] = "downSave" /\ res'[c] = "ok" =>
        /\ \A s \in file' : ~InScope(Key(s), req[c])
        /\ \A p \in Pids : LiveKubectl(p)' /\ ~proc[p].spared =>
                ~InScope(proc'[p].key, req[c])]_vars

\* A `down` leaves no session in its scope whose processes have all ended: it
\* stops tracked forwards, and forwards that have stopped by themselves do
\* not stay tracked.
DownForgetsDead ==
    [][\A c \in Cmds : pc[c] = "downSave" /\ pc'[c] = "idle" /\ UNCHANGED faults =>
        \A s \in file' : InScope(Key(s), req[c]) =>
            \E i \in DOMAIN s.fwds : Exists(s.fwds[i].pid)']_vars

\* An `up` that has begun to replace a session ends with that environment
\* forwarded as a whole: by the new plan, or by the session that was there.
ReplaceKeepsForwards ==
    [][\A c \in Cmds :
        /\ pc[c] \in {"stopOld", "recheck", "start", "ready", "save", "undo"}
        /\ pc'[c] = "idle"
        /\ Existing(c) # {}
        => \E s \in file' :
            /\ Key(s) = Key(req[c])
            /\ PortsOf(s.fwds) \in {req[c].plan, PortsOf(Previous(c).fwds)}
            /\ \A i \in DOMAIN s.fwds : LiveKubectl(s.fwds[i].pid)']_vars

\* An attached `up` that ends removes its own session from the state file and
\* changes nothing else there, unless the save fails (RunForegroundSession).
ForegroundRemovesItself ==
    [][\A c \in Cmds : pc[c] = "fgSave" /\ pc'[c] = "idle" /\ UNCHANGED faults =>
        file' = file \ {Built(c)}]_vars

-----------------------------------------------------------------------------
(* Liveness.                                                               *)

\* Every command ends, or is an attached `up` that watches its forwards: all
\* the waits of `up` and `down` are bounded.
CommandsFinish ==
    \A c \in Cmds : pc[c] # "idle" ~> pc[c] \in {"idle", "watch"}

\* An attached `up` ends once any of its forwards has exited.
ForegroundEnds ==
    \A c \in Cmds :
        (pc[c] = "watch" /\ \E i \in DOMAIN own[c] : ~Live(own[c][i].pid)) ~> pc[c] = "idle"

(***************************************************************************)
(* The promise.  A command counts as attached from its save on.            *)
(***************************************************************************)
Entry(s) == [cfg |-> s.cfg, env |-> s.env, ports |-> PortsOf(s.fwds)]

PhaseAt(stage) ==
    CASE stage = "idle" -> "idle"
      [] stage \in {"watch", "cleanup", "fgSave"} -> "attached"
      [] OTHER -> "running"

Registry ==
    INSTANCE SessionRegistry WITH
        sessions <- {Entry(s) : s \in file}, phase <- [c \in Cmds |-> PhaseAt(pc[c])]

\* One command at a time is one change to the record: it registers the whole
\* plan it was given, removes its own session or those in its scope, or leaves
\* every environment with the ports it had, although it has read the file long
\* before it writes it and may have stopped and started processes in between
\* (RunUpCommand, RunForegroundSession, RunDownCommand).
ImplementsRegistry == Registry!Spec
=============================================================================
