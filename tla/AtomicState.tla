---------------------------- MODULE AtomicState ----------------------------
(***************************************************************************)
(* What the runtime state store promises to the commands that share a      *)
(* state file: a load or a save takes effect at one instant between its    *)
(* call and its return, a save that fails takes none, and a command that   *)
(* is killed has either saved or not.  A load that cannot get at the       *)
(* record may say that there are no sessions, which is the only false      *)
(* answer it gives.  Sessions, where loading and saving are single steps,  *)
(* is written on this promise.                                             *)
(*                                                                         *)
(* It promises nothing across a load and a later save: that is left to the *)
(* commands.                                                               *)
(***************************************************************************)
CONSTANTS
    Clients,    \* processes that load and save the state
    States,     \* runtime states
    NoSessions, \* the state before anything has been saved
    Error       \* what a load or a save that fails returns

VARIABLES
    state,  \* the state that is recorded
    call    \* what each client has called, and what came of it

abstractVars == <<state, call>>

Idle == [op |-> "none"]
Loading == [op |-> "load"]
Saving(v) == [op |-> "save", arg |-> v]
Returns(r) == [op |-> "return", val |-> r]

Init ==
    /\ state = NoSessions
    /\ call = [c \in Clients |-> Idle]

Set(c, to) == call' = [call EXCEPT ![c] = to]

CallLoad(c) == call[c] = Idle /\ Set(c, Loading) /\ UNCHANGED state
CallSave(c) == call[c] = Idle /\ (\E v \in States : Set(c, Saving(v))) /\ UNCHANGED state

Load(c) == call[c] = Loading /\ Set(c, Returns(state)) /\ UNCHANGED state

\* The record cannot be got at, and the caller is told that it is empty.
LoadNothing(c) == call[c] = Loading /\ Set(c, Returns(NoSessions)) /\ UNCHANGED state

Save(c) ==
    \E v \in States :
        /\ call[c] = Saving(v)
        /\ state' = v
        /\ Set(c, Returns(v))

Fail(c) == call[c].op \in {"load", "save"} /\ Set(c, Returns(Error)) /\ UNCHANGED state

\* The call returns, or the client is killed.
Return(c) == call[c] # Idle /\ Set(c, Idle) /\ UNCHANGED state

Next ==
    \E c \in Clients :
        \/ CallLoad(c) \/ CallSave(c) \/ Load(c) \/ LoadNothing(c)
        \/ Save(c) \/ Fail(c) \/ Return(c)

Spec == Init /\ [][Next]_abstractVars
=============================================================================
