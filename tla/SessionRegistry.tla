-------------------------- MODULE SessionRegistry --------------------------
(***************************************************************************)
(* What kubeforward promises about the sessions it records, as long as     *)
(* commands do not overlap: a command takes effect on the record at one    *)
(* instant and as a whole, or not at all, whatever fails inside of it.     *)
(*                                                                         *)
(* A session is an environment with the local ports it forwards; which     *)
(* processes do so, and what happens while a command runs, is not in view. *)
(***************************************************************************)
CONSTANTS
    Cmds,       \* terminals
    Requests,   \* the command lines that may be given
    NoRequest,  \* what an idle terminal is running
    AllEnvs     \* `down` without --env

VARIABLES
    sessions,   \* the sessions on record
    phase,      \* is a command running or attached to its session?
    req,        \* its command line
    res         \* how the last command of the terminal ended

registryVars == <<sessions, phase, req, res>>

Key(s) == <<s.cfg, s.env>>

Init ==
    /\ \A s, t \in sessions : Key(s) = Key(t) => s = t
    /\ phase = [c \in Cmds |-> "idle"]
    /\ req = [c \in Cmds |-> NoRequest]
    /\ res = [c \in Cmds |-> "none"]

\* What an `up` asks for, the sessions it has no business with, and those
\* that a `down` is about.
Described(r) == [cfg |-> r.cfg, env |-> r.env, ports |-> r.plan]
Others(r) == {s \in sessions : Key(s) # Key(r)}
Scope(r) == {s \in sessions : s.cfg = r.cfg /\ r.env \in {AllEnvs, s.env}}

Begin(c) ==
    /\ phase[c] = "idle"
    /\ \E r \in Requests : req' = [req EXCEPT ![c] = r]
    /\ phase' = [phase EXCEPT ![c] = "running"]
    /\ res' = [res EXCEPT ![c] = "none"]
    /\ UNCHANGED sessions

End(c, r) ==
    /\ phase' = [phase EXCEPT ![c] = "idle"]
    /\ req' = [req EXCEPT ![c] = NoRequest]
    /\ res' = [res EXCEPT ![c] = r]

\* The session asked for takes the place of the one its environment had.
Up(c) ==
    /\ phase[c] = "running"
    /\ req[c].op = "up"
    /\ sessions' = Others(req[c]) \cup {Described(req[c])}
    /\ IF req[c].daemon THEN End(c, "ok")
       ELSE phase' = [phase EXCEPT ![c] = "attached"] /\ UNCHANGED <<req, res>>

\* A `down` takes away the sessions in its scope, and owns up to those that
\* it has to leave.
Down(c) ==
    /\ phase[c] = "running"
    /\ req[c].op = "down"
    /\ \E left \in SUBSET Scope(req[c]) :
        /\ sessions' = (sessions \ Scope(req[c])) \cup left
        /\ End(c, IF left = {} THEN "ok" ELSE "error")

\* An attached `up` takes its session with it.
Detach(c) ==
    /\ phase[c] = "attached"
    /\ sessions' = Others(req[c])
    /\ \E r \in {"ok", "error", "signal"} : End(c, r)

\* A command that fails or is killed has changed nothing, or what it has
\* registered stays.
Fail(c) ==
    /\ phase[c] # "idle"
    /\ \E r \in {"error", "killed"} : End(c, r)
    /\ UNCHANGED sessions

Next == \E c \in Cmds : Begin(c) \/ Up(c) \/ Down(c) \/ Detach(c) \/ Fail(c)

Spec == Init /\ [][Next]_registryVars
=============================================================================
