------------------------ MODULE SessionsRecoveryProofs ------------------------
(***************************************************************************)
(* Theorems about Sessions when commands do not overlap and the system     *)
(* around them is undisturbed: no other program takes a pid or a port, a   *)
(* process that is signalled ends, ps answers, and no pid is used again    *)
(* while a session records it.  What is left are the failures an `up` has  *)
(* to recover from by itself.                                              *)
(***************************************************************************)
EXTENDS SessionsSequentialProofs

\* Nothing makes a kubectl unstoppable or unrecognisable.
Undisturbed ==
    /\ {"foreign", "ps", "stop"} \cap Faults = {}
    /\ Legacy = FALSE
    /\ PidReuse = FALSE

-----------------------------------------------------------------------------
(* Every forward can be stopped.                                            *)

\* There are kubectls, and children of kubeforward's that have ended.
OnlyOurs ==
    \A p \in Pids :
        /\ ~proc[p].spared
        /\ Live(p) => proc[p].kind = "kubectl"
        /\ proc[p].st = "zombie" => proc[p].parent # Reaper

\* A command has children only from its first start on.
Childless(c) ==
    pc[c] \notin {"start", "ready", "save", "undo", "watch", "cleanup", "fgSave"} =>
        \A p \in Pids : proc[p].parent # c

\* ShouldSignalManagedProcess recognises the forward, if its kubectl still runs.
Recognised(f) ==
    /\ f.argv
    /\ LiveKubectl(f.pid) => proc[f.pid].port = f.port

RecognisedIn(fwds) == \A i \in DOMAIN fwds : Recognised(fwds[i])

RecordsInv ==
    /\ \A s \in file : RecognisedIn(s.fwds)
    /\ \A c \in Cmds : /\ \A s \in snap[c] : RecognisedIn(s.fwds)
                       /\ RecognisedIn(own[c])
                       /\ \A j \in DOMAIN todo[c] : RecognisedIn(todo[c][j].fwds)

\* No session that is recorded has a forward that could not be stopped.
NoneKept(c) ==
    pc[c] \in {"idle", "load", "preflight", "stopOld", "downStop", "downSave"} => kept[c] = {}

UndisturbedInv ==
    /\ OnlyOurs
    /\ \A c \in Cmds : Childless(c) /\ NoneKept(c)
    /\ RecordsInv

-----------------------------------------------------------------------------
(* What a single failure leaves behind.                                     *)

\* A plan does not listen twice on a port (PlanResolution shows it).
DistinctPlans ==
    \A r \in Requests : r.op = "up" =>
        \A i, j \in DOMAIN r.plan : r.plan[i] = r.plan[j] => i = j

\* At most one failure, and not one that takes a kubectl away or kills an `up`
\* that has not saved, nor hides the state file.
SingleFailure ==
    /\ Undisturbed
    /\ Readable
    /\ {"die", "crash"} \cap Faults = {}
    /\ MaxFaults <= 1
    /\ DistinctPlans

\* The process table has room for one more process: a fork that fails for
\* want of it is a failure that Faults does not count.
Roomy == FreshPids # {}

\* Every process that exists is running, each on a port of its own.
NoClash ==
    /\ \A p \in Pids : proc[p].st # "zombie" /\ (proc[p].st = "hung" => faults # 0)
    /\ \A p, o \in Pids : Live(p) /\ Live(o) /\ proc[p].port = proc[o].port => p = o

\* No two forwards record one port.
Apart(S) ==
    \A s, t \in S : \A i \in DOMAIN s.fwds, j \in DOMAIN t.fwds :
        s.fwds[i].port = t.fwds[j].port => s = t /\ i = j

Alive(fwds) == \A i \in DOMAIN fwds : LiveKubectl(fwds[i].pid)

\* The command may have stopped forwards of the sessions in its scope.
Handles(c, s) ==
    pc[c] \notin {"idle", "load", "preflight", "watch"} /\ InScope(Key(s), req[c])

\* As long as nothing has failed, what is recorded runs.
CalmInv ==
    faults = 0 =>
        /\ Apart(file)
        /\ \A s \in file : Alive(s.fwds) \/ \E c \in Cmds : Handles(c, s)

\* The ports of an accepted plan stay free of other sessions' kubectls.
PlanFree(c) ==
    pc[c] \in Building \cup {"stopOld"} =>
        \A s \in Without(file, req[c]) : \A i \in DOMAIN s.fwds :
            s.fwds[i].port \in Range(req[c].plan) => ~LiveKubectl(s.fwds[i].pid)

OwnHung(c) == \E i \in DOMAIN own[c] : proc[own[c][i].pid].st = "hung"

\* An `up` restores the old session because something has failed in this very
\* run, so that the file it has loaded is the one of a calm system, and there
\* is no second failure.
RestoreInv(c) ==
    /\ mode[c] = "restore" => pc[c] \in {"start", "ready", "save"} /\ ~OwnHung(c)
    /\ pc[c] \in Building /\ (mode[c] = "restore" \/ pc[c] = "undo" \/ OwnHung(c)) =>
            faults # 0 /\ Apart(file)
    /\ pc[c] \in {"start", "ready", "save"} => Alive(own[c])
    /\ pc[c] = "ready" => own[c] # <<>>

RecoveryInv ==
    /\ NoClash
    /\ CalmInv
    /\ \A c \in Cmds : PlanFree(c) /\ RestoreInv(c)

-----------------------------------------------------------------------------
(* What the steps of an undisturbed system do to the process table.         *)

\* What OnlyOurs says of one process.
Ours(slot) ==
    /\ ~slot.spared
    /\ slot.st \in LiveStates => slot.kind = "kubectl"
    /\ slot.st = "zombie" => slot.parent # Reaper

LEMMA OursSlots ==
    /\ OnlyOurs <=> \A p \in Pids : Ours(proc[p])
    /\ Ours(FreeSlot)
    /\ \A c, q, k : Ours(Kubectl(c, q, k))
    /\ TypeInv => \A p \in Pids : Ours(Ended(p))
<1>1. OnlyOurs <=> \A p \in Pids : Ours(proc[p])
    BY DEF OnlyOurs, Ours, Live
<1>2. Ours(FreeSlot)
    BY DEF Ours, FreeSlot, LiveStates
<1>3. \A c, q, k : Ours(Kubectl(c, q, k))
    BY DEF Ours, Kubectl
<1>4. ASSUME TypeInv, NEW p \in Pids PROVE Ours(Ended(p))
  <2>1. CASE proc[p].parent = Reaper
      BY <1>2, <2>1 DEF Ended
  <2>2. CASE proc[p].parent # Reaper
      BY <2>2 DEF Ended, Zombie, FreeSlot, Ours, LiveStates
  <2> QED BY <2>1, <2>2
<1> QED BY <1>1, <1>2, <1>3, <1>4

\* A step of a command leaves the table alone, or is one of these.
LEMMA TableSteps ==
    ASSUME Undisturbed, NEW c \in Cmds, Invoke(c) \/ UserStops(c) \/ Crash(c) \/ Step(c)
    PROVE  \/ UNCHANGED proc
           \/ \E r : Leave(c, r)
           \/ StopSignals(c) \/ StartForward(c) \/ ForwardDied(c) \/ ForwardExited(c)
<1>1. ~Fault("ps") /\ ~Fault("stop")
    BY DEF Undisturbed, Fault
<1>2. CASE Invoke(c) \/ UserStops(c) \/ Crash(c)
    BY <1>2 DEF Invoke, UserStops, Crash
<1>3. CASE \/ LoadFails(c) \/ LoadForUp(c) \/ LoadForDown(c) \/ LoadNothing(c)
           \/ PreflightFails(c) \/ PreflightPasses(c)
    BY <1>3 DEF LoadFails, LoadForUp, LoadForDown, LoadNothing, PreflightFails, PreflightPasses
<1>4. CASE StopStep(c)
    BY <1>1, <1>4 DEF StopStep, StopRefused, StopGone, StopReaped, StopFails
<1>5. CASE UpStep(c)
    BY <1>5
    DEF UpStep, ReplaceFails, ReplaceStopped, Recheck, StartFails, AllStarted,
        ForwardReady, ForwardTimesOut, Undone, Save, SaveFails
<1>6. CASE ForegroundStep(c)
    BY <1>6 DEF ForegroundStep, CleanedUp, ForegroundSave, ForegroundSaveFails
<1>7. CASE DownStep(c)
    BY <1>7 DEF DownStep, DownVisited, DownSave, DownSaveFails
<1> QED BY <1>2, <1>3, <1>4, <1>5, <1>6, <1>7 DEF Step

\* What the signal does to its target when commands do not overlap.
LEMMA SignalSlot ==
    ASSUME Alone, TypeInv, NEW c \in Cmds, StopSignals(c)
    PROVE  /\ AtTarget(c) /\ Target(c).pid \in Pids
           /\ proc' = [proc EXCEPT ![Target(c).pid] = FreeSlot]
           /\ NextTarget(c)
<1>1. AtTarget(c) /\ Target(c).pid \in Pids
    BY TargetType DEF StopSignals, TypeInv, Forward
<1>2. proc[Target(c).pid].parent \in {c, Reaper}
    BY <1>1 DEF Alone, TypeInv, TypeOK, TableTypeOK, Process
<1> QED BY <1>1, <1>2 DEF StopSignals

LEMMA AdoptedSlot ==
    ASSUME TypeInv, NEW c, NEW p \in Pids
    PROVE  /\ proc[p].parent # c => Adopted(c)[p] = proc[p]
           /\ proc[p].st = "zombie" /\ proc[p].parent = c => Adopted(c)[p] = FreeSlot
           /\ proc[p].st # "zombie" =>
                /\ Adopted(c)[p].st = proc[p].st /\ Adopted(c)[p].kind = proc[p].kind
                /\ Adopted(c)[p].port = proc[p].port /\ Adopted(c)[p].key = proc[p].key
                /\ Adopted(c)[p].spared = proc[p].spared
                /\ Adopted(c)[p].parent \in {proc[p].parent, Reaper}
           /\ c # Reaper => Adopted(c)[p].parent # c
BY DEF TypeInv, TypeOK, TableTypeOK, Adopted, Process, FreeSlot

\* The last forward of a list that has one.
LEMMA LastForward ==
    ASSUME NEW fwds \in Seq(Forward), fwds # <<>>
    PROVE  Len(fwds) \in DOMAIN fwds /\ Last(fwds) = fwds[Len(fwds)] /\ Last(fwds) \in Forward
<1>1. Len(fwds) \in Nat /\ Len(fwds) # 0 /\ DOMAIN fwds = 1..Len(fwds)
    BY LenProperties, EmptySeq
<1>2. Len(fwds) \in DOMAIN fwds
    BY <1>1
<1> QED BY <1>2, ElementOfSeq, LenProperties DEF Last

LEMMA OnlyOursStep ==
    ASSUME Alone, Undisturbed, TypeInv, OnlyOurs, NEW c \in Cmds,
           Invoke(c) \/ UserStops(c) \/ Crash(c) \/ Step(c)
    PROVE  OnlyOurs'
<1>1. proc \in [Pids -> Process]
    BY DEF TypeInv, TypeOK, TableTypeOK
<1>2. \A p \in Pids : Ours(proc[p])
    BY OursSlots
<1>3. SUFFICES \A p \in Pids : Ours(proc'[p])
    BY DEF OnlyOurs, Ours, Live
<1>4. CASE UNCHANGED proc
    BY <1>2, <1>4
<1>5. CASE \E r : Leave(c, r)
  <2> TAKE p \in Pids
  <2>1. proc'[p] = Adopted(c)[p]
      BY <1>5 DEF Leave
  <2>2. CASE proc[p].st = "zombie"
      BY <1>2, <2>1, <2>2, AdoptedSlot, OursSlots
  <2>3. CASE proc[p].st # "zombie"
      BY <1>2, <2>1, <2>3, AdoptedSlot DEF Ours
  <2> QED BY <2>2, <2>3
<1>6. ASSUME NEW o, NEW slot, Ours(slot), proc' = [proc EXCEPT ![o] = slot]
      PROVE  \A p \in Pids : Ours(proc'[p])
    BY <1>1, <1>2, <1>6
<1>7. CASE StopSignals(c)
    BY <1>6, <1>7, SignalSlot, OursSlots
<1>8. CASE StartForward(c)
  <2>1. PICK p, q : proc' = [proc EXCEPT ![p] = Kubectl(c, q, Key(req[c]))]
      BY <1>8 DEF StartForward, FreshPids
  <2> QED BY <1>6, <2>1, OursSlots
<1>9. CASE ForwardDied(c)
    BY <1>6, <1>9, OursSlots DEF ForwardDied
<1>10. CASE ForwardExited(c)
    BY <1>2, <1>10, OursSlots DEF ForwardExited
<1> QED BY <1>4, <1>5, <1>7, <1>8, <1>9, <1>10, TableSteps

LEMMA OnlyOursEnvironment ==
    ASSUME Undisturbed, TypeInv, OnlyOurs, Environment
    PROVE  OnlyOurs'
<1>1. proc \in [Pids -> Process]
    BY DEF TypeInv, TypeOK, TableTypeOK
<1>2. \A p \in Pids : Ours(proc[p])
    BY OursSlots
<1>3. SUFFICES \A p \in Pids : Ours(proc'[p])
    BY DEF OnlyOurs, Ours, Live
<1>4. PICK o \in Pids : \/ Listen(o) \/ BindFails(o) \/ Hang(o)
                        \/ Die(o) \/ ForeignStart(o) \/ ForeignExit(o)
    BY DEF Environment, TableStep
<1>5. PICK slot : Ours(slot) /\ proc' = [proc EXCEPT ![o] = slot]
  <2>1. CASE Listen(o) \/ Hang(o)
    <3>1. PICK st \in LiveStates : proc' = [proc EXCEPT ![o].st = st]
        BY <2>1 DEF Listen, Hang, LiveStates
    <3>2. Ours(proc[o]) /\ proc[o].st \in LiveStates
        BY <1>2, <2>1 DEF Listen, Hang, LiveStates
    <3> DEFINE slot == [proc[o] EXCEPT !.st = st]
    <3>3. proc' = [proc EXCEPT ![o] = slot]
        BY <1>1, <3>1
    <3>4. Ours(slot)
        BY <1>1, <3>2 DEF Ours, Process, LiveStates
    <3> QED BY <3>3, <3>4
  <2>2. CASE BindFails(o) \/ Die(o)
      BY <2>2, OursSlots DEF BindFails, Die
  <2>3. CASE ForeignStart(o) \/ ForeignExit(o)
    <3>1. ~ForeignStart(o)
        BY DEF ForeignStart, Fault, Undisturbed
    <3> QED BY <2>3, <3>1, OursSlots DEF ForeignExit
  <2> QED BY <1>4, <2>1, <2>2, <2>3
<1> QED BY <1>1, <1>2, <1>5

\* A command has no children yet, or those it has had are Reaper's now.
LEMMA ChildlessStep ==
    ASSUME Alone, Undisturbed, TypeInv, NEW c \in Cmds, Childless(c),
           Invoke(c) \/ UserStops(c) \/ Crash(c) \/ Step(c)
    PROVE  Childless(c)'
<1> DEFINE Inside == {"start", "ready", "save", "undo", "watch", "cleanup", "fgSave"}
<1>1. /\ proc \in [Pids -> Process] /\ pc \in [Cmds -> Stages] /\ c # Reaper
    BY ReaperAssumption DEF TypeInv, TypeOK, TableTypeOK, CommandsTypeOK
<1>2. ASSUME \E r : Leave(c, r) PROVE Childless(c)'
    BY <1>1, <1>2, AdoptedSlot DEF Leave, Childless
<1>3. ASSUME pc[c] \notin Inside \/ pc'[c] \in Inside, UNCHANGED proc PROVE Childless(c)'
    BY <1>3 DEF Childless
<1>4. CASE Invoke(c) \/ UserStops(c) \/ Crash(c)
    BY <1>1, <1>2, <1>3, <1>4 DEF Invoke, UserStops, Crash
<1>5. CASE \/ LoadFails(c) \/ LoadForUp(c) \/ LoadForDown(c) \/ LoadNothing(c)
           \/ PreflightFails(c) \/ PreflightPasses(c)
    BY <1>1, <1>2, <1>3, <1>5
    DEF LoadFails, LoadForUp, LoadForDown, LoadNothing, PreflightFails, PreflightPasses
<1>6. CASE StopStep(c)
  <2>1. UNCHANGED pc
      BY <1>6 DEF StopStep, StopRefused, StopGone, StopSignals, StopReaped, StopFails
  <2>2. CASE UNCHANGED proc
      BY <2>1, <2>2 DEF Childless
  <2>3. CASE StopSignals(c)
    <3>1. /\ Target(c).pid \in Pids /\ FreeSlot.parent = Reaper
          /\ proc' = [proc EXCEPT ![Target(c).pid] = FreeSlot]
        BY <2>3, SignalSlot DEF FreeSlot
    <3> QED BY <1>1, <2>1, <3>1 DEF Childless
  <2>4. ~Fault("ps") /\ ~Fault("stop")
      BY DEF Undisturbed, Fault
  <2> QED
      BY <1>6, <2>2, <2>3, <2>4 DEF StopStep, StopRefused, StopGone, StopReaped, StopFails
<1>7. CASE UpStep(c)
  <2>1. CASE \/ ReplaceStopped(c) \/ Recheck(c) \/ AllStarted(c) \/ ForwardReady(c)
             \/ StartFails(c) \/ ForwardTimesOut(c) \/ SaveFails(c)
      BY <1>1, <1>3, <2>1
      DEF ReplaceStopped, Recheck, AllStarted, ForwardReady, StartFails, ForwardTimesOut,
          SaveFails, Undo
  <2>2. CASE StartForward(c) \/ ForwardDied(c)
      BY <1>1, <2>2 DEF StartForward, ForwardDied, Undo, Childless
  <2>3. CASE ReplaceFails(c) \/ Undone(c) \/ Save(c)
      BY <1>1, <1>2, <1>3, <2>3 DEF ReplaceFails, Undone, Save
  <2> QED BY <1>7, <2>1, <2>2, <2>3 DEF UpStep
<1>8. CASE ForegroundStep(c)
    BY <1>1, <1>2, <1>3, <1>8
    DEF ForegroundStep, ForwardExited, CleanedUp, ForegroundSave, ForegroundSaveFails, Childless
<1>9. CASE DownStep(c)
    BY <1>1, <1>2, <1>3, <1>9 DEF DownStep, DownVisited, DownSave, DownSaveFails
<1> QED BY <1>4, <1>5, <1>6, <1>7, <1>8, <1>9 DEF Step

LEMMA ChildlessEnvironment ==
    ASSUME TypeInv, NEW c \in Cmds, Childless(c), Environment
    PROVE  Childless(c)'
<1>1. /\ proc \in [Pids -> Process] /\ c # Reaper /\ UNCHANGED pc
    BY ReaperAssumption DEF TypeInv, TypeOK, TableTypeOK, Environment
<1>2. PICK o \in Pids : \/ Listen(o) \/ BindFails(o) \/ Hang(o)
                        \/ Die(o) \/ ForeignStart(o) \/ ForeignExit(o)
    BY DEF Environment, TableStep
<1>3. \A p \in Pids : proc'[p].parent \in {proc[p].parent, Reaper}
  <2>1. CASE Listen(o) \/ Hang(o)
    <3>1. PICK st \in LiveStates : proc' = [proc EXCEPT ![o].st = st]
        BY <2>1 DEF Listen, Hang, LiveStates
    <3> QED BY <1>1, <3>1 DEF Process
  <2>2. CASE BindFails(o) \/ Die(o)
    <3>1. Ended(o).parent \in {proc[o].parent, Reaper}
        BY DEF Ended, Zombie, FreeSlot
    <3> QED BY <1>1, <2>2, <3>1 DEF BindFails, Die
  <2>3. CASE ForeignStart(o) \/ ForeignExit(o)
    <3>1. FreeSlot.parent = Reaper /\ \A q : Foreign(q).parent = Reaper
        BY DEF FreeSlot, Foreign
    <3> QED BY <1>1, <2>3, <3>1 DEF ForeignStart, ForeignExit
  <2> QED BY <1>2, <2>1, <2>2, <2>3
<1> QED BY <1>1, <1>3 DEF Childless

-----------------------------------------------------------------------------
(* The forwards that are recorded somewhere.                                *)

Known(f) ==
    \/ \E s \in file : \E i \in DOMAIN s.fwds : f = s.fwds[i]
    \/ \E c \in Cmds :
        \/ \E s \in snap[c] : \E i \in DOMAIN s.fwds : f = s.fwds[i]
        \/ \E i \in DOMAIN own[c] : f = own[c][i]
        \/ \E j \in DOMAIN todo[c] : \E i \in DOMAIN todo[c][j].fwds : f = todo[c][j].fwds[i]

LEMMA RecordsKnown == RecordsInv <=> \A f : Known(f) => Recognised(f)
BY DEF RecordsInv, RecognisedIn, Known

LEMMA KnownType ==
    ASSUME TypeInv, NEW f, Known(f)
    PROVE  f \in Forward
<1>1. ASSUME NEW fwds \in Seq(Forward), NEW i \in DOMAIN fwds PROVE fwds[i] \in Forward
    BY <1>1, ElementOfSeq, LenProperties
<1>2. \A s \in Session : \A i \in DOMAIN s.fwds : s.fwds[i] \in Forward
  <2> TAKE s \in Session
  <2> DEFINE g == s.fwds
  <2>1. g \in Seq(Forward)
      BY DEF Session
  <2> HIDE DEF g
  <2>2. \A i \in DOMAIN g : g[i] \in Forward
      BY <1>1, <2>1
  <2> QED BY <2>2 DEF g
<1>3. \A c \in Cmds : \A j \in DOMAIN todo[c] : todo[c][j] \in Session
    BY ElementOfSeq, LenProperties DEF TypeInv, TypeOK, CommandsTypeOK
<1>4. \A c \in Cmds : \A i \in DOMAIN own[c] : own[c][i] \in Forward
    BY <1>1 DEF TypeInv, TypeOK, CommandsTypeOK
<1> QED BY <1>2, <1>3, <1>4 DEF Known, TypeInv, TypeOK, CommandsTypeOK

\* The line of a command has forwards of recorded sessions.
LEMMA TodoFrom ==
    ASSUME TypeInv, NEW c \in Cmds,
           Invoke(c) \/ UserStops(c) \/ Crash(c) \/ Step(c),
           NEW j \in DOMAIN todo'[c], NEW i \in DOMAIN todo'[c][j].fwds
    PROVE  Known(todo'[c][j].fwds[i])
<1>1. /\ snap \in [Cmds -> SUBSET Session] /\ todo \in [Cmds -> Seq(Session)]
      /\ file \subseteq Session /\ IsFiniteSet(file) /\ IsFiniteSet(snap[c])
    BY DEF TypeInv, TypeOK, CommandsTypeOK, RecordsFinite
<1>2. ASSUME todo'[c] = todo[c] PROVE Known(todo'[c][j].fwds[i])
    BY <1>2 DEF Known
<1>3. ASSUME todo'[c] \in {<<>>, <<Built(c)>>} PROVE Known(todo'[c][j].fwds[i])
  <2>1. todo'[c][j] = Built(c)
      BY <1>3
  <2>2. i \in DOMAIN own[c] /\ todo'[c][j].fwds[i] = own[c][i]
      BY <2>1 DEF Built
  <2> QED BY <2>2 DEF Known
<1>4. ASSUME NEW r, Leave(c, r) PROVE Known(todo'[c][j].fwds[i])
    BY <1>1, <1>3, <1>4 DEF Leave
<1>5. ASSUME NEW S \in SUBSET Session, IsFiniteSet(S), S \subseteq file \/ S \subseteq snap[c],
             todo'[c] \in VisitOrders(S)
      PROVE  Known(todo'[c][j].fwds[i])
  <2>1. todo'[c][j] \in S
      BY <1>5, VisitOrdersType
  <2> QED BY <1>5, <2>1 DEF Known
<1>6. CASE Invoke(c) \/ UserStops(c) \/ Crash(c)
    BY <1>1, <1>2, <1>3, <1>4, <1>6 DEF Invoke, UserStops, Crash
<1>7. CASE LoadFails(c) \/ LoadForUp(c) \/ LoadNothing(c) \/ PreflightFails(c)
    BY <1>2, <1>4, <1>7 DEF LoadFails, LoadForUp, LoadNothing, PreflightFails
<1>8. CASE LoadForDown(c)
  <2>1. todo'[c] \in VisitOrders(Matching(file, req[c].cfg, req[c].env))
      BY <1>1, <1>8 DEF LoadForDown
  <2>2. Matching(file, req[c].cfg, req[c].env) \subseteq file
      BY DEF Matching
  <2> QED BY <1>1, <1>5, <2>1, <2>2, FS_Subset
<1>9. CASE PreflightPasses(c)
  <2>1. Existing(c) \subseteq snap[c]
      BY DEF Existing, Matching
  <2>2. CASE todo' = todo
      BY <1>2, <2>2
  <2>3. CASE todo'[c] \in VisitOrders(Existing(c))
    <3>1. Existing(c) \in SUBSET Session /\ IsFiniteSet(Existing(c))
        BY <1>1, <2>1, FS_Subset
    <3> QED BY <1>5, <2>1, <2>3, <3>1
  <2> QED BY <1>1, <1>9, <2>2, <2>3 DEF PreflightPasses
<1>10. CASE StopStep(c)
  <2>1. AtTarget(c) /\ (todo' = todo \/ todo'[c] = Rest(todo[c]))
      BY <1>1, <1>10
      DEF StopStep, StopRefused, StopGone, StopSignals, StopReaped, StopFails, NextTarget
  <2>2. CASE todo'[c] = Rest(todo[c])
    <3>1. todo[c] \in Seq(Session) /\ todo[c] # <<>>
        BY <1>1, <2>1 DEF AtTarget
    <3>2. PICK k \in DOMAIN todo[c] : \E m \in DOMAIN todo[c][k].fwds :
                todo'[c][j].fwds[i] = todo[c][k].fwds[m]
        BY <2>2, <3>1, RestForward
    <3> QED BY <3>2 DEF Known
  <2> QED BY <1>2, <2>1, <2>2
<1>11. CASE UpStep(c)
  <2>1. CASE StartFails(c) \/ ForwardDied(c) \/ ForwardTimesOut(c) \/ SaveFails(c)
      BY <1>1, <1>3, <2>1 DEF StartFails, ForwardDied, ForwardTimesOut, SaveFails, Undo
  <2>2. CASE \/ ReplaceFails(c) \/ ReplaceStopped(c) \/ Recheck(c) \/ StartForward(c)
             \/ AllStarted(c) \/ ForwardReady(c) \/ Undone(c) \/ Save(c)
      BY <1>2, <1>4, <2>2
      DEF ReplaceFails, ReplaceStopped, Recheck, StartForward, AllStarted, ForwardReady,
          Undone, Save
  <2> QED BY <1>11, <2>1, <2>2 DEF UpStep
<1>12. CASE ForegroundStep(c)
    BY <1>1, <1>2, <1>3, <1>4, <1>12
    DEF ForegroundStep, ForwardExited, CleanedUp, ForegroundSave, ForegroundSaveFails
<1>13. CASE DownStep(c)
    BY <1>2, <1>4, <1>13 DEF DownStep, DownVisited, DownSave, DownSaveFails
<1> QED BY <1>6, <1>7, <1>8, <1>9, <1>10, <1>11, <1>12, <1>13 DEF Step

\* Whatever is recorded after a step was recorded before it, but for the
\* forward that it starts.
LEMMA KnownStep ==
    ASSUME Alone, TypeInv, NEW c \in Cmds, StartInv(c),
           Invoke(c) \/ UserStops(c) \/ Crash(c) \/ Step(c), [Next]_vars,
           NEW f, Known(f)'
    PROVE  Known(f) \/ (StartForward(c) /\ \E i \in DOMAIN own'[c] : f = own'[c][i])
<1>1. /\ snap \in [Cmds -> SUBSET Session]
    BY DEF TypeInv, TypeOK, CommandsTypeOK
<1>2. Built(c).fwds = own[c]
    BY DEF Built
<1>3. \A s \in file' : s \in file \/ s \in snap[c] \/ s = Built(c)
    BY RecordsStep DEF Alone, Save, Without
<1>4. snap'[c] \in {snap[c], file, {}}
    BY <1>1, RecordsStep DEF Alone
<1>5. StartForward(c) \/ own'[c] = <<>> \/ own'[c] = own[c]
    BY OwnStep
<1>6. CASE \E s \in file' : \E i \in DOMAIN s.fwds : f = s.fwds[i]
    BY <1>2, <1>3, <1>6 DEF Known
<1>7. CASE \E s \in snap'[c] : \E i \in DOMAIN s.fwds : f = s.fwds[i]
    BY <1>4, <1>7 DEF Known
<1>8. CASE \E i \in DOMAIN own'[c] : f = own'[c][i]
    BY <1>5, <1>8 DEF Known
<1>9. CASE \E j \in DOMAIN todo'[c] : \E i \in DOMAIN todo'[c][j].fwds : f = todo'[c][j].fwds[i]
    BY <1>9, TodoFrom
<1> QED BY <1>6, <1>7, <1>8, <1>9 DEF Known, Alone

\* Nothing is said of a forward's kubectl that does not stay true while it runs.
LEMMA RecognisedSteady ==
    ASSUME OnlyOurs', Steady, NEW f, f.pid \in Pids, Recognised(f)
    PROVE  Recognised(f)'
<1>1. LiveKubectl(f.pid)' => Tracked(f.pid)'
    BY DEF OnlyOurs, Tracked
<1> QED BY <1>1 DEF Steady, Tracked, Recognised

\* The pid of the forward that is started is no other forward's.
LEMMA StartFresh ==
    ASSUME Alone, PidReuse = FALSE, NEW c \in Cmds, todo[c] = <<>>,
           NEW o \in FreshPids, NEW f, Known(f)
    PROVE  f.pid # o
<1>1. o \notin Recorded
    BY DEF FreshPids
<1>2. ASSUME NEW s \in file, NEW i \in DOMAIN s.fwds PROVE s.fwds[i].pid # o
    BY <1>1 DEF Recorded, PidsIn
<1>3. ASSUME NEW s \in snap[c], NEW i \in DOMAIN s.fwds PROVE s.fwds[i].pid # o
    BY <1>1 DEF Recorded, PidsIn
<1>4. ASSUME NEW i \in DOMAIN own[c] PROVE own[c][i].pid # o
  <2> DEFINE s == [fwds |-> own[c]]
  <2>1. s.fwds = own[c] /\ s \in snap[c] \cup {[fwds |-> own[c]]}
      OBVIOUS
  <2> HIDE DEF s
  <2>2. own[c][i].pid \in PidsIn(snap[c] \cup {[fwds |-> own[c]]})
      BY <2>1 DEF PidsIn
  <2> QED BY <1>1, <2>2 DEF Recorded
<1> QED BY <1>2, <1>3, <1>4 DEF Known, Alone

\* What a start does to the process table and to the forwards in hand.
LEMMA StartEffect ==
    ASSUME TypeInv, NEW c \in Cmds, StartForward(c)
    PROVE  LET n == Len(own[c]) + 1
               q == Wanted(c)[n]
           IN  /\ n \in DOMAIN Wanted(c) /\ q \in Ports
               /\ \E o \in FreshPids :
                    /\ proc' = [proc EXCEPT ![o] = Kubectl(c, q, Key(req[c]))]
                    /\ proc'[o] = Kubectl(c, q, Key(req[c]))
                    /\ own'[c] = Append(own[c], [port |-> q, pid |-> o, argv |-> TRUE])
                    /\ DOMAIN own'[c] = 1..n
                    /\ own'[c][n] = [port |-> q, pid |-> o, argv |-> TRUE]
                    /\ \A i \in 1..Len(own[c]) : own'[c][i] = own[c][i]
<1> DEFINE n == Len(own[c]) + 1
           q == Wanted(c)[n]
<1>1. /\ pc[c] = "start" /\ n <= Len(Wanted(c))
      /\ own[c] \in Seq(Forward) /\ own \in [Cmds -> Seq(Forward)]
      /\ Len(own[c]) \in Nat /\ proc \in [Pids -> Process]
    BY LenProperties DEF StartForward, TypeInv, TypeOK, TableTypeOK, CommandsTypeOK
<1>2. Wanted(c) \in Seq(Ports)
    BY <1>1, WantedType
<1>3. n \in DOMAIN Wanted(c) /\ q \in Ports
  <2>1. n \in DOMAIN Wanted(c)
      BY <1>1, <1>2, LenProperties
  <2> QED BY <1>2, <2>1, ElementOfSeq, LenProperties
<1>4. PICK o \in FreshPids :
        /\ proc' = [proc EXCEPT ![o] = Kubectl(c, q, Key(req[c]))]
        /\ own' = [own EXCEPT ![c] = Append(@, [port |-> q, pid |-> o, argv |-> TRUE])]
    BY DEF StartForward
<1> HIDE DEF q
<1> DEFINE f == [port |-> q, pid |-> o, argv |-> TRUE]
<1>5. o \in Pids /\ proc'[o] = Kubectl(c, q, Key(req[c]))
    BY <1>1, <1>4 DEF FreshPids
<1>6. f \in Forward /\ own'[c] = Append(own[c], f)
    BY <1>1, <1>3, <1>4, <1>5 DEF Forward
<1> HIDE DEF f
<1>7. /\ DOMAIN own'[c] = 1..n /\ own'[c][n] = f
      /\ \A i \in 1..Len(own[c]) : own'[c][i] = own[c][i]
    BY <1>1, <1>6, AppendProperties, LenProperties
<1> QED BY <1>3, <1>4, <1>5, <1>6, <1>7 DEF q, f

LEMMA RecordsNext ==
    ASSUME Alone, Undisturbed, TypeInv, ScopeInv, RecordsInv, OnlyOurs', [Next]_vars
    PROVE  RecordsInv'
<1>1. \A f : Known(f) => Recognised(f) /\ f.pid \in Pids
    BY RecordsKnown, KnownType DEF Forward
<1>2. SUFFICES ASSUME NEW f, Known(f)' PROVE Recognised(f)'
    BY DEF RecordsInv, RecognisedIn, Known
<1>3. CASE Environment \/ UNCHANGED vars
  <2>1. Known(f) /\ Steady
      BY <1>2, <1>3, SteadyEnvironment, SameSteady DEF Environment, vars, Known
  <2> QED BY <1>1, <2>1, RecognisedSteady
<1>4. ASSUME NEW c \in Cmds, Invoke(c) \/ UserStops(c) \/ Crash(c) \/ Step(c)
      PROVE  Recognised(f)'
  <2>1. Known(f) \/ (StartForward(c) /\ \E i \in DOMAIN own'[c] : f = own'[c][i])
      BY <1>2, <1>4, KnownStep DEF ScopeInv, LineInv
  <2>2. CASE ~StartForward(c)
    <3>1. Known(f) /\ Steady
        BY <1>4, <2>1, <2>2, SteadyStep
    <3> QED BY <1>1, <3>1, RecognisedSteady
  <2>3. CASE StartForward(c)
    <3> DEFINE n == Len(own[c]) + 1
               q == Wanted(c)[n]
    <3>1. /\ todo[c] = <<>> /\ proc \in [Pids -> Process]
          /\ Len(own[c]) \in Nat /\ DOMAIN own[c] = 1..Len(own[c])
        BY <2>3, LenProperties
        DEF ScopeInv, LineInv, TodoInv, StartForward, Stopping, TypeInv, TypeOK, TableTypeOK, CommandsTypeOK
    <3>2. PICK o \in FreshPids :
            /\ proc' = [proc EXCEPT ![o] = Kubectl(c, q, Key(req[c]))]
            /\ proc'[o] = Kubectl(c, q, Key(req[c]))
            /\ DOMAIN own'[c] = 1..n
            /\ own'[c][n] = [port |-> q, pid |-> o, argv |-> TRUE]
            /\ \A i \in 1..Len(own[c]) : own'[c][i] = own[c][i]
        BY <2>3, StartEffect
    <3> HIDE DEF q
    <3>3. CASE Known(f)
      <4>1. f.pid # o /\ f.pid \in Pids
          BY <1>1, <3>1, <3>3, StartFresh DEF Undisturbed
      <4>2. proc'[f.pid] = proc[f.pid]
          BY <3>1, <3>2, <4>1
      <4> QED BY <1>1, <3>3, <4>2 DEF Recognised, LiveKubectl, Live
    <3>4. CASE ~Known(f)
      <4>1. PICK i \in DOMAIN own'[c] : f = own'[c][i]
          BY <2>1, <3>4
      <4>2. i \notin 1..Len(own[c])
          BY <3>1, <3>2, <3>4, <4>1 DEF Known
      <4>3. f = [port |-> q, pid |-> o, argv |-> TRUE]
          BY <3>1, <3>2, <4>1, <4>2
      <4> QED BY <3>2, <4>3 DEF Recognised, Kubectl
    <3> QED BY <3>3, <3>4
  <2> QED BY <2>2, <2>3
<1> QED BY <1>3, <1>4 DEF Next

\* The forward that is next in line.
LEMMA TargetFirst ==
    ASSUME TypeInv, NEW c \in Cmds, AtTarget(c)
    PROVE  /\ 1 \in DOMAIN todo[c] /\ Head(todo[c]) = todo[c][1]
           /\ 1 \in DOMAIN todo[c][1].fwds /\ Target(c) = todo[c][1].fwds[1]
<1> DEFINE t == todo[c][1]
           g == t.fwds
<1>1. 1 \in DOMAIN todo[c] /\ Head(todo[c]) = t /\ t \in Session
  <2>1. todo[c] \in Seq(Session) /\ todo[c] # <<>>
      BY DEF TypeInv, TypeOK, CommandsTypeOK, AtTarget
  <2>2. 1 \in DOMAIN todo[c] /\ Head(todo[c]) = t
      BY <2>1, LenProperties, EmptySeq, HeadTailProperties
  <2> QED BY <2>1, <2>2, ElementOfSeq, LenProperties
<1>2. g \in Seq(Forward) /\ g # <<>>
    BY <1>1 DEF TypeInv, TypeOK, CommandsTypeOK, Session
<1>3. Target(c) = Head(g)
    BY <1>1 DEF Target
<1> HIDE DEF g
<1>4. 1 \in DOMAIN g /\ Head(g) = g[1]
    BY <1>2, LenProperties, EmptySeq, HeadTailProperties
<1> QED BY <1>1, <1>3, <1>4 DEF g

\* Before a command has children of its own, every forward in its line is gone
\* or is recognised.
LEMMA TargetSignalled ==
    ASSUME Alone, TypeInv, UndisturbedInv, NEW c \in Cmds, AtTarget(c),
           pc[c] \in {"stopOld", "downStop"}
    PROVE  ShouldSignal(Target(c))
<1>1. Recognised(Target(c)) /\ Target(c).pid \in Pids
    BY TargetFirst, TargetType
    DEF UndisturbedInv, RecordsInv, RecognisedIn, TypeInv, Forward
<1>2. ASSUME Exists(Target(c).pid) PROVE LiveKubectl(Target(c).pid)
  <2> DEFINE p == Target(c).pid
  <2>1. proc[p] \in Process /\ proc[p].parent # c
      BY <1>1 DEF TypeInv, TypeOK, TableTypeOK, UndisturbedInv, Childless
  <2>2. proc[p].st # "zombie"
      BY <1>1, <2>1 DEF Alone, UndisturbedInv, OnlyOurs, Process
  <2> QED
      BY <1>1, <1>2, <2>1, <2>2
      DEF Exists, LiveKubectl, Live, Process, UndisturbedInv, OnlyOurs
<1>3. <<Target(c).port, Target(c).port>> \in Within
    BY TargetType, WithinAssumption DEF TypeInv, Forward
<1> QED BY <1>1, <1>2, <1>3 DEF ShouldSignal, Recognises, Recognised

LEMMA NoneKeptStep ==
    ASSUME Alone, Undisturbed, TypeInv, UndisturbedInv, NEW c \in Cmds,
           Invoke(c) \/ UserStops(c) \/ Crash(c) \/ Step(c)
    PROVE  NoneKept(c)'
<1> DEFINE Early == {"idle", "load", "preflight", "stopOld", "downStop", "downSave"}
<1>1. pc \in [Cmds -> Stages] /\ kept \in [Cmds -> SUBSET Keys]
    BY DEF TypeInv, TypeOK, CommandsTypeOK
<1>2. pc[c] \in Early => kept[c] = {}
    BY DEF UndisturbedInv, NoneKept
<1>3. ASSUME \E r : Leave(c, r) PROVE NoneKept(c)'
    BY <1>1, <1>3 DEF Leave, NoneKept
<1>4. ASSUME pc[c] \in Early \/ pc'[c] \notin Early, UNCHANGED kept PROVE NoneKept(c)'
    BY <1>2, <1>4 DEF NoneKept
<1>5. CASE Invoke(c) \/ UserStops(c) \/ Crash(c)
    BY <1>1, <1>3, <1>4, <1>5 DEF Invoke, UserStops, Crash
<1>6. CASE \/ LoadFails(c) \/ LoadForUp(c) \/ LoadForDown(c) \/ LoadNothing(c)
           \/ PreflightFails(c) \/ PreflightPasses(c)
    BY <1>1, <1>3, <1>4, <1>6
    DEF LoadFails, LoadForUp, LoadForDown, LoadNothing, PreflightFails, PreflightPasses
<1>7. CASE StopStep(c)
  <2>1. AtTarget(c) /\ UNCHANGED pc
      BY <1>7 DEF StopStep, StopRefused, StopGone, StopSignals, StopReaped, StopFails
  <2>2. CASE pc[c] \in {"stopOld", "downStop"}
    <3>1. ShouldSignal(Target(c)) /\ ~Fault("ps") /\ ~Fault("stop")
        BY <2>1, <2>2, TargetSignalled DEF Undisturbed, Fault
    <3>2. UNCHANGED kept
        BY <1>7, <3>1 DEF StopStep, StopRefused, StopGone, StopSignals, StopReaped, StopFails
    <3> QED BY <1>4, <2>2, <3>2
  <2>3. CASE pc[c] \notin {"stopOld", "downStop"}
      BY <2>1, <2>3 DEF AtTarget, Stopping, NoneKept
  <2> QED BY <2>2, <2>3
<1>8. CASE UpStep(c)
  <2>1. CASE ReplaceFails(c) \/ Save(c) \/ Undone(c)
      BY <1>1, <1>3, <1>4, <2>1 DEF ReplaceFails, Save, Undone, NoneKept
  <2>2. CASE \/ ReplaceStopped(c) \/ Recheck(c) \/ StartForward(c) \/ AllStarted(c)
             \/ ForwardReady(c)
      BY <1>1, <1>4, <2>2 DEF ReplaceStopped, Recheck, StartForward, AllStarted, ForwardReady
  <2>3. CASE StartFails(c) \/ ForwardDied(c) \/ ForwardTimesOut(c) \/ SaveFails(c)
      BY <1>1, <2>3
      DEF StartFails, ForwardDied, ForwardTimesOut, SaveFails, Undo, NoneKept
  <2> QED BY <1>8, <2>1, <2>2, <2>3 DEF UpStep
<1>9. CASE ForegroundStep(c)
    BY <1>1, <1>3, <1>4, <1>9
    DEF ForegroundStep, ForwardExited, CleanedUp, ForegroundSave, ForegroundSaveFails
<1>10. CASE DownStep(c)
    BY <1>1, <1>3, <1>4, <1>10 DEF DownStep, DownVisited, DownSave, DownSaveFails
<1> QED BY <1>5, <1>6, <1>7, <1>8, <1>9, <1>10 DEF Step

-----------------------------------------------------------------------------
(* The invariant is inductive.                                              *)

LEMMA UndisturbedInit ==
    ASSUME Undisturbed
    PROVE  Init => UndisturbedInv
<1> SUFFICES ASSUME Init PROVE UndisturbedInv
    OBVIOUS
<1>1. file = {} /\ \A p \in Pids : proc[p] = FreeSlot
    BY DEF Init, Undisturbed
<1>2. OnlyOurs
    BY <1>1, OursSlots
<1>3. \A c \in Cmds : Childless(c) /\ NoneKept(c)
    BY <1>1, ReaperAssumption DEF Init, Childless, NoneKept, FreeSlot
<1>4. RecordsInv
    BY <1>1 DEF Init, RecordsInv, RecognisedIn
<1> QED BY <1>2, <1>3, <1>4 DEF UndisturbedInv

LEMMA UndisturbedNext ==
    ASSUME Alone, Undisturbed, TypeInv, ScopeInv, UndisturbedInv, [Next]_vars
    PROVE  UndisturbedInv'
<1>1. OnlyOurs /\ RecordsInv /\ \A c \in Cmds : Childless(c) /\ NoneKept(c)
    BY DEF UndisturbedInv
<1>2. CASE \E c \in Cmds : Invoke(c) \/ UserStops(c) \/ Crash(c) \/ Step(c)
  <2>1. OnlyOurs'
      BY <1>1, <1>2, OnlyOursStep
  <2>2. \A c \in Cmds : Childless(c)' /\ NoneKept(c)'
      BY <1>1, <1>2, ChildlessStep, NoneKeptStep DEF Alone
  <2> QED BY <1>1, <2>1, <2>2, RecordsNext DEF UndisturbedInv
<1>3. CASE Environment
  <2>1. OnlyOurs'
      BY <1>1, <1>3, OnlyOursEnvironment
  <2>2. \A c \in Cmds : Childless(c)' /\ NoneKept(c)'
      BY <1>1, <1>3, ChildlessEnvironment DEF Environment, NoneKept
  <2> QED BY <1>1, <2>1, <2>2, RecordsNext DEF UndisturbedInv
<1>4. CASE UNCHANGED vars
  <2>1. OnlyOurs' /\ \A c \in Cmds : Childless(c)' /\ NoneKept(c)'
      BY <1>1, <1>4 DEF vars, OnlyOurs, Live, Childless, NoneKept
  <2> QED BY <1>1, <2>1, RecordsNext DEF UndisturbedInv
<1> QED BY <1>2, <1>3, <1>4 DEF Next

LEMMA UndisturbedCorrect ==
    ASSUME Alone, Undisturbed
    PROVE  Spec => [](TypeInv /\ ScopeInv /\ UndisturbedInv)
<1>1. Init => TypeInv /\ ScopeInv /\ UndisturbedInv
    BY TypeInit, ScopeInit, UndisturbedInit
<1>2. TypeInv /\ ScopeInv /\ UndisturbedInv /\ [Next]_vars
        => (TypeInv /\ ScopeInv /\ UndisturbedInv)'
    BY TypeNext, ScopeNext, UndisturbedNext DEF Undisturbed
<1> QED BY <1>1, <1>2, PTL DEF Spec

\* A `down` that saves leaves no session in its scope, and so none whose
\* processes have all ended: of every forward that any command has recorded
\* the kubectl is gone, or is recognised and stopped, although kubectls die,
\* starts and saves fail and commands are killed in between (RunDownCommand,
\* ShouldSignalManagedProcess).
THEOREM ForgetCorrect ==
    ASSUME Alone, Undisturbed
    PROVE  Spec => DownForgetsDead
<1> DEFINE Forgotten ==
        \A c \in Cmds : pc[c] = "downSave" /\ pc'[c] = "idle" /\ UNCHANGED faults =>
            \A s \in file' : InScope(Key(s), req[c]) =>
                \E i \in DOMAIN s.fwds : Exists(s.fwds[i].pid)'
<1>1. ASSUME TypeInv, UndisturbedInv, [Next]_vars PROVE Forgotten
  <2> SUFFICES ASSUME NEW c \in Cmds, pc[c] = "downSave", pc'[c] = "idle", UNCHANGED faults,
                      NEW s \in file'
               PROVE  ~InScope(Key(s), req[c])
      OBVIOUS
  <2>1. kept[c] = {} /\ faults \in Nat
      BY <1>1 DEF UndisturbedInv, NoneKept, TypeInv, TypeOK, TableTypeOK
  <2>2. DownSave(c)
    <3>1. PICK d \in Cmds : Invoke(d) \/ UserStops(d) \/ Crash(d) \/ Step(d)
        BY <1>1 DEF Next, Environment, vars
    <3>2. d = c
        BY DEF Alone
    <3>3. ~Crash(c) /\ ~DownSaveFails(c)
        BY <2>1 DEF Crash, DownSaveFails, Fault
    <3> QED
        BY <3>1, <3>2, <3>3
        DEF Invoke, UserStops, Step, LoadFails, LoadForUp, LoadForDown, LoadNothing, PreflightFails,
            PreflightPasses, StopStep, StopRefused, StopGone, StopSignals, StopReaped,
            StopFails, AtTarget, Stopping, UpStep, ReplaceFails, ReplaceStopped, Recheck,
            StartForward, StartFails, AllStarted, ForwardReady, ForwardDied,
            ForwardTimesOut, Undone, Save, SaveFails, ForegroundStep, ForwardExited,
            CleanedUp, ForegroundSave, ForegroundSaveFails, DownStep, DownVisited
  <2> QED BY <2>1, <2>2 DEF DownSave, Remaining, Existing, Matching, InScope, Key
<1>2. Spec => [](TypeInv /\ ScopeInv /\ UndisturbedInv)
    BY UndisturbedCorrect
<1>3. Spec => [][Forgotten]_vars
    BY <1>1, <1>2, PTL DEF Spec
<1> QED BY <1>3 DEF DownForgetsDead

-----------------------------------------------------------------------------
(* What is alive is where it should be.                                     *)

\* All that is known of a reachable state.
SoundInv == TypeInv /\ ScopeInv /\ SequentialInv /\ UndisturbedInv
FullInv == SoundInv /\ RecoveryInv

LEMMA LiveTracked ==
    ASSUME OnlyOurs, NEW p \in Pids
    PROVE  Live(p) <=> Tracked(p)
BY DEF OnlyOurs, Tracked, LiveKubectl

\* The one failure.
LEMMA FaultOnce ==
    ASSUME SingleFailure, TypeInv, NEW f, Fault(f)
    PROVE  faults = 0 /\ faults' = 1
BY MaxFaultsAssumption DEF SingleFailure, TypeInv, TypeOK, TableTypeOK, Fault

LEMMA FaultsStep ==
    ASSUME SingleFailure, TypeInv, [Next]_vars
    PROVE  UNCHANGED faults \/ (faults = 0 /\ faults' = 1)
<1> SUFFICES ASSUME ~UNCHANGED faults PROVE \E f : Fault(f)
    BY FaultOnce
<1>1. CASE Environment
    BY <1>1
    DEF Environment, TableStep, Listen, BindFails, Hang, Die, ForeignStart, ForeignExit
<1>2. ASSUME NEW c \in Cmds, Invoke(c) \/ UserStops(c) \/ Crash(c) \/ Step(c)
      PROVE  \E f : Fault(f)
  <2>1. CASE Invoke(c) \/ UserStops(c) \/ Crash(c)
      BY <2>1 DEF Invoke, UserStops, Crash
  <2>2. CASE \/ LoadFails(c) \/ LoadForUp(c) \/ LoadForDown(c) \/ LoadNothing(c)
             \/ PreflightFails(c) \/ PreflightPasses(c)
      BY <2>2 DEF LoadFails, LoadForUp, LoadForDown, LoadNothing, PreflightFails, PreflightPasses
  <2>3. CASE StopStep(c)
      BY <2>3 DEF StopStep, StopRefused, StopGone, StopSignals, StopReaped, StopFails
  <2>4. CASE UpStep(c)
      BY <2>4
      DEF UpStep, ReplaceFails, ReplaceStopped, Recheck, StartForward, StartFails,
          AllStarted, ForwardReady, ForwardDied, ForwardTimesOut, Undone, Save, SaveFails
  <2>5. CASE ForegroundStep(c) \/ DownStep(c)
      BY <2>5
      DEF ForegroundStep, ForwardExited, CleanedUp, ForegroundSave, ForegroundSaveFails,
          DownStep, DownVisited, DownSave, DownSaveFails
  <2> QED BY <1>2, <2>1, <2>2, <2>3, <2>4, <2>5 DEF Step
<1> QED BY <1>1, <1>2 DEF Next, vars

\* The steps that the kubectls take by themselves.
LEMMA CalmEnvironment ==
    ASSUME SingleFailure, FullInv, Environment
    PROVE  \E p \in Pids : Listen(p) \/ Hang(p)
<1>1. PICK p \in Pids : \/ Listen(p) \/ BindFails(p) \/ Hang(p)
                        \/ Die(p) \/ ForeignStart(p) \/ ForeignExit(p)
    BY DEF Environment, TableStep
<1>2. ~Die(p) /\ ~ForeignStart(p)
    BY DEF SingleFailure, Undisturbed, Die, ForeignStart, Fault
<1>3. ~ForeignExit(p)
    BY DEF FullInv, SoundInv, UndisturbedInv, OnlyOurs, ForeignExit
<1>4. ~BindFails(p)
    BY DEF FullInv, RecoveryInv, NoClash, BindFails, InUse, Live, LiveStates
<1> QED BY <1>1, <1>2, <1>3, <1>4

\* A kubectl runs after a step because it ran before, unless it is started.
LEMMA LivePast ==
    ASSUME Alone, Undisturbed, SoundInv, OnlyOurs', [Next]_vars, NEW p \in Pids, LiveKubectl(p)',
           p \in PidsIn(file) \/ \A c \in Cmds : ~StartForward(c)
    PROVE  LiveKubectl(p) /\ Steadfast(p)
<1>1. TypeInv /\ ScopeInv /\ proc \in [Pids -> Process] /\ Tracked(p)'
    BY DEF SoundInv, TypeInv, TypeOK, TableTypeOK, OnlyOurs, Tracked
<1>2. CASE \A c \in Cmds : ~StartForward(c)
  <2>1. Steady
      BY <1>1, <1>2, SteadyStep, SteadyEnvironment, SameSteady DEF Next, vars
  <2> QED BY <1>1, <2>1 DEF Steady, Steadfast, Tracked
<1>3. ASSUME NEW c \in Cmds, StartForward(c), p \in PidsIn(file)
      PROVE  LiveKubectl(p) /\ Steadfast(p)
  <2>1. PICK o, q : /\ o \in FreshPids
                      /\ proc' = [proc EXCEPT ![o] = Kubectl(c, q, Key(req[c]))]
      BY <1>3 DEF StartForward
  <2>2. p # o
      BY <1>3, <2>1 DEF FreshPids, Recorded, Undisturbed
  <2> QED BY <1>1, <2>1, <2>2 DEF LiveKubectl, Live, Steadfast
<1> QED BY <1>2, <1>3

\* What the kubectls do by themselves takes none of them away.
LEMMA AliveEnvironment ==
    ASSUME SingleFailure, FullInv, Environment, NEW fwds \in Seq(Forward), Alive(fwds)
    PROVE  Alive(fwds)'
<1>1. PICK o \in Pids : Listen(o) \/ Hang(o)
    BY CalmEnvironment
<1>2. PICK st \in LiveStates : proc' = [proc EXCEPT ![o].st = st]
    BY <1>1 DEF Listen, Hang, LiveStates
<1>3. ASSUME NEW p \in Pids, LiveKubectl(p) PROVE LiveKubectl(p)'
  <2>1. proc'[p].st \in LiveStates /\ proc'[p].kind = proc[p].kind
      BY <1>2, <1>3
      DEF LiveKubectl, Live, Process, FullInv, SoundInv, TypeInv, TypeOK, TableTypeOK
  <2> QED BY <1>3, <2>1 DEF LiveKubectl, Live
<1>4. \A i \in DOMAIN fwds : fwds[i].pid \in Pids
  <2>1. \A i \in DOMAIN fwds : fwds[i] \in Forward
      BY ElementOfSeq, LenProperties
  <2> QED BY <2>1 DEF Forward
<1> QED BY <1>3, <1>4 DEF Alive

\* A session's kubectls run on, unless a command stops sessions in a scope
\* that the session is in.
LEMMA AliveStep ==
    ASSUME FullInv, NEW c \in Cmds, Invoke(c) \/ UserStops(c) \/ Crash(c) \/ Step(c),
           NEW s, s.fwds \in Seq(Forward), OwnsIn(proc, s), Alive(s.fwds),
           ~(pc[c] \in Stopping /\ InScope(Key(s), req[c]))
    PROVE  Alive(s.fwds)'
<1>1. TypeInv /\ ScopeInv /\ PidsOf(s) \subseteq Pids
    BY SessionPids DEF FullInv, SoundInv
<1>2. SUFFICES ASSUME NEW p \in Pids, p \in PidsOf(s), LiveKubectl(p), ~LiveKubectl(p)'
               PROVE  FALSE
    BY <1>1 DEF Alive, PidsOf
<1>3. AtTarget(c) /\ p = Target(c).pid
    BY <1>1, <1>2, EndsStep
<1>4. InScope(proc[p].key, req[c])
    BY <1>1, <1>2, <1>3, TargetScope
<1>5. proc[p].key = Key(s)
    BY <1>2 DEF OwnsIn, LiveKubectl, Live
<1> QED BY <1>3, <1>4, <1>5 DEF AtTarget

\* What a command that builds a session knows of its request and the file.
LEMMA BuildingFacts ==
    ASSUME Alone, FullInv, NEW c \in Cmds, pc[c] \in Building \cup {"stopOld", "preflight"}
    PROVE  /\ snap[c] = file /\ req[c] \in Requests /\ req[c].op = "up"
           /\ req[c].env \in Envs /\ req[c].env # AllEnvs
           /\ \A s : s \in Existing(c) <=> s \in file /\ Key(s) = Key(req[c])
           /\ mode[c] \in {"new", "restore"}
           /\ mode[c] = "restore" => Previous(c) \in file /\ Key(Previous(c)) = Key(req[c])
<1>1. snap[c] = file /\ pc[c] \in UpStages /\ mode[c] \in {"new", "restore"} /\ ControlInv(c)
    BY DEF FullInv, SoundInv, SequentialInv, CommandInv, FileInv, Building, UpStages,
           TypeInv, TypeOK, CommandsTypeOK
<1>2. req[c] \in Requests /\ req[c].op = "up"
  <2>1. pc[c] # "idle" /\ req[c].op = "up" /\ TypeInv
      BY <1>1, UpRequest DEF FullInv, SoundInv
  <2> QED BY <2>1 DEF TypeInv, TypeOK, CommandsTypeOK
<1>3. req[c].env \in Envs /\ req[c].env # AllEnvs
    BY <1>2, RequestsAssumption, AllEnvsAssumption
<1>4. \A s : s \in Existing(c) <=> s \in file /\ Key(s) = Key(req[c])
    BY <1>1, <1>3 DEF Existing, Matching, Key
<1>5. mode[c] = "restore" => Previous(c) \in Existing(c)
    BY <1>1 DEF ControlInv, Previous
<1> QED BY <1>1, <1>2, <1>3, <1>4, <1>5

\* A process that runs on a port of the plan is the command's own.
LEMMA PlanElsewhere ==
    ASSUME Alone, FullInv, NEW c \in Cmds, pc[c] \in Building,
           NEW p \in Pids, Live(p), proc[p].port \in Range(req[c].plan)
    PROVE  proc[p].key = Key(req[c]) /\ Holds(own[c], p)
<1>1. LiveKubectl(p) /\ TrackInv(p)
    BY LiveTracked DEF FullInv, SoundInv, SequentialInv, UndisturbedInv, Tracked
<1>2. CASE proc[p].key = Key(req[c])
    BY <1>1, <1>2 DEF TrackInv, KeptInv
<1>3. CASE proc[p].key # Key(req[c])
  <2>1. PICK s \in file : Key(s) = proc[p].key /\ Holds(s.fwds, p)
      BY <1>1, <1>3 DEF Alone, TrackInv, InFile
  <2>2. s \in Without(file, req[c])
      BY <1>3, <2>1 DEF Without
  <2>3. PICK i \in DOMAIN s.fwds : s.fwds[i].pid = p /\ s.fwds[i].port = proc[p].port
      BY <2>1 DEF Holds
  <2> QED BY <1>1, <2>2, <2>3 DEF FullInv, RecoveryInv, PlanFree
<1> QED BY <1>2, <1>3

\* So is one on a port that is wanted, also when the old session is restored.
LEMMA WantedElsewhere ==
    ASSUME Alone, FullInv, NEW c \in Cmds, pc[c] \in {"start", "ready", "save"},
           NEW p \in Pids, Live(p), NEW n \in DOMAIN Wanted(c), proc[p].port = Wanted(c)[n]
    PROVE  proc[p].key = Key(req[c]) /\ Holds(own[c], p)
<1>1. pc[c] \in Building /\ mode[c] \in {"new", "restore"}
    BY BuildingFacts DEF Building
<1>2. CASE mode[c] = "new"
  <2>1. proc[p].port \in Range(req[c].plan)
      BY <1>2 DEF Wanted, Range
  <2> QED BY <1>1, <2>1, PlanElsewhere
<1>3. CASE mode[c] = "restore"
  <2>1. Previous(c) \in file /\ Key(Previous(c)) = Key(req[c]) /\ Apart(file)
      BY <1>1, <1>3, BuildingFacts DEF FullInv, RecoveryInv, RestoreInv
  <2>2. n \in DOMAIN Previous(c).fwds /\ proc[p].port = Previous(c).fwds[n].port
      BY <1>3 DEF Wanted, PortsOf
  <2>3. TrackInv(p)
      BY LiveTracked DEF FullInv, SoundInv, SequentialInv, UndisturbedInv
  <2>4. CASE proc[p].key = Key(req[c])
      BY <1>1, <2>3, <2>4 DEF TrackInv, KeptInv
  <2>5. CASE proc[p].key # Key(req[c])
    <3>1. PICK s \in file : Key(s) = proc[p].key /\ Holds(s.fwds, p)
        BY <2>3, <2>5 DEF Alone, TrackInv, InFile
    <3>2. PICK i \in DOMAIN s.fwds : s.fwds[i].port = proc[p].port
        BY <3>1 DEF Holds
    <3>3. s = Previous(c)
        BY <2>1, <2>2, <3>2 DEF Apart
    <3> QED BY <2>1, <2>5, <3>1, <3>3
  <2> QED BY <2>4, <2>5
<1> QED BY <1>1, <1>2, <1>3

LEMMA WantedOnce ==
    ASSUME Alone, SingleFailure, FullInv, NEW c \in Cmds, pc[c] \in {"start", "ready", "save"},
           NEW i \in DOMAIN Wanted(c), NEW j \in DOMAIN Wanted(c), Wanted(c)[i] = Wanted(c)[j]
    PROVE  i = j
<1>1. pc[c] \in Building /\ mode[c] \in {"new", "restore"} /\ req[c] \in Requests /\ req[c].op = "up"
    BY BuildingFacts DEF Building
<1>2. CASE mode[c] = "new"
    BY <1>1, <1>2 DEF SingleFailure, DistinctPlans, Wanted
<1>3. CASE mode[c] = "restore"
  <2>1. Previous(c) \in file /\ Apart(file)
      BY <1>1, <1>3, BuildingFacts DEF FullInv, RecoveryInv, RestoreInv
  <2>2. /\ i \in DOMAIN Previous(c).fwds /\ j \in DOMAIN Previous(c).fwds
        /\ Previous(c).fwds[i].port = Previous(c).fwds[j].port
      BY <1>3 DEF Wanted, PortsOf
  <2> QED BY <2>1, <2>2 DEF Apart
<1> QED BY <1>1, <1>2, <1>3

\* The ports of the forwards in hand are wanted ones, in the order of the plan.
LEMMA OwnWanted ==
    ASSUME FullInv, NEW c \in Cmds, pc[c] \in {"start", "ready", "save"},
           NEW i \in DOMAIN own[c]
    PROVE  i \in 1..Len(own[c]) /\ i \in DOMAIN Wanted(c) /\ own[c][i].port = Wanted(c)[i]
<1>1. own[c] \in Seq(Forward) /\ StartInv(c) /\ TypeInv
    BY DEF FullInv, SoundInv, TypeInv, TypeOK, CommandsTypeOK, ScopeInv, LineInv
<1>2. i \in 1..Len(own[c]) /\ Len(own[c]) \in Nat
    BY <1>1, LenProperties
<1>3. Wanted(c) \in Seq(Ports)
    BY <1>1, WantedType
<1>4. i <= Len(Wanted(c)) /\ own[c][i].port = Wanted(c)[i]
    BY <1>1, <1>2 DEF StartInv
<1> QED BY <1>2, <1>3, <1>4, LenProperties

-----------------------------------------------------------------------------
(* A single failure leads no two kubectls to one port.                      *)

LEMMA NoClashFewer ==
    ASSUME NoClash, faults # 0 => faults' # 0,
           \A p \in Pids : \/ proc'[p].st = "free"
                           \/ proc'[p].st = proc[p].st /\ proc'[p].port = proc[p].port
    PROVE  NoClash'
BY DEF NoClash, Live, LiveStates

LEMMA NoClashEnvironment ==
    ASSUME SingleFailure, FullInv, Environment
    PROVE  NoClash'
<1>1. NoClash /\ TypeInv /\ proc \in [Pids -> Process]
    BY DEF FullInv, SoundInv, RecoveryInv, TypeInv, TypeOK, TableTypeOK
<1>2. PICK o \in Pids : Listen(o) \/ Hang(o)
    BY CalmEnvironment
<1>3. CASE Listen(o)
  <2>1. /\ proc' = [proc EXCEPT ![o].st = "listening"] /\ UNCHANGED faults
        /\ proc[o].st = "starting"
      BY <1>3 DEF Listen
  <2>2. \A p \in Pids : /\ proc'[p].port = proc[p].port
                        /\ proc'[p].st \in LiveStates <=> proc[p].st \in LiveStates
                        /\ proc'[p].st \in {proc[p].st, "listening"}
      BY <1>1, <2>1 DEF Process, LiveStates
  <2> QED BY <1>1, <2>1, <2>2 DEF NoClash, Live
<1>4. CASE Hang(o)
  <2>1. proc' = [proc EXCEPT ![o].st = "hung"] /\ proc[o].st = "starting" /\ faults' = 1
      BY <1>1, <1>4, FaultOnce DEF Hang
  <2>2. \A p \in Pids : /\ proc'[p].port = proc[p].port
                        /\ proc'[p].st \in LiveStates <=> proc[p].st \in LiveStates
                        /\ proc'[p].st \in {proc[p].st, "hung"}
      BY <1>1, <2>1 DEF Process, LiveStates
  <2> QED BY <1>1, <2>1, <2>2 DEF NoClash, Live
<1> QED BY <1>2, <1>3, <1>4

\* The forward that is started is alone on its port.
LEMMA NoClashStart ==
    ASSUME Alone, SingleFailure, FullInv, NEW c \in Cmds, StartForward(c)
    PROVE  NoClash'
<1> DEFINE n == Len(own[c]) + 1
           q == Wanted(c)[n]
<1>1. /\ NoClash /\ TypeInv /\ proc \in [Pids -> Process] /\ own[c] \in Seq(Forward)
      /\ UNCHANGED faults /\ pc[c] = "start" /\ Len(own[c]) \in Nat
    BY LenProperties
    DEF FullInv, SoundInv, RecoveryInv, TypeInv, TypeOK, TableTypeOK, CommandsTypeOK, StartForward
<1>2. n \in DOMAIN Wanted(c)
    BY <1>1, StartEffect
<1>3. PICK o \in FreshPids : proc' = [proc EXCEPT ![o] = Kubectl(c, q, Key(req[c]))]
    BY <1>1, StartEffect
<1>4. ASSUME NEW p \in Pids, Live(p), proc[p].port = q PROVE FALSE
  <2>1. Holds(own[c], p)
      BY <1>1, <1>2, <1>4, WantedElsewhere
  <2>2. PICK i \in DOMAIN own[c] : own[c][i].port = q
      BY <1>4, <2>1 DEF Holds
  <2>3. i \in 1..Len(own[c]) /\ i \in DOMAIN Wanted(c) /\ Wanted(c)[i] = q
      BY <1>1, <2>2, OwnWanted
  <2>4. i = n
      BY <1>1, <1>2, <2>3, WantedOnce
  <2> QED BY <1>1, <2>3, <2>4
<1> HIDE DEF q, n
<1>5. \A p \in Pids : IF p = o THEN proc'[p].st = "starting" /\ proc'[p].port = q
                      ELSE proc'[p] = proc[p]
    BY <1>1, <1>3 DEF Kubectl
<1> QED BY <1>1, <1>4, <1>5 DEF NoClash, Live

LEMMA NoClashStep ==
    ASSUME Alone, SingleFailure, FullInv, NEW c \in Cmds,
           Invoke(c) \/ UserStops(c) \/ Crash(c) \/ Step(c)
    PROVE  NoClash'
<1>1. NoClash /\ TypeInv /\ proc \in [Pids -> Process] /\ Undisturbed
    BY DEF FullInv, SoundInv, RecoveryInv, TypeInv, TypeOK, TableTypeOK, SingleFailure
<1>2. faults # 0 => faults' # 0
    BY <1>1, FaultsStep DEF Next
<1>3. FreeSlot.st = "free"
    BY DEF FreeSlot
<1>4. ASSUME NEW o, proc' = [proc EXCEPT ![o] = FreeSlot] PROVE NoClash'
    BY <1>1, <1>2, <1>3, <1>4, NoClashFewer
<1>5. CASE UNCHANGED proc
    BY <1>1, <1>2, <1>5, NoClashFewer
<1>6. CASE \E r : Leave(c, r)
  <2>1. \A p \in Pids : proc'[p] = Adopted(c)[p] /\ proc[p].st # "zombie"
      BY <1>1, <1>6 DEF Leave, NoClash
  <2>2. \A p \in Pids : proc'[p].st = proc[p].st /\ proc'[p].port = proc[p].port
      BY <1>1, <2>1, AdoptedSlot
  <2> QED BY <1>1, <1>2, <2>2, NoClashFewer
<1>7. CASE StopSignals(c)
    BY <1>1, <1>4, <1>7, SignalSlot
<1>8. CASE ForwardDied(c)
    BY <1>4, <1>8 DEF ForwardDied
<1>9. CASE ForwardExited(c)
    BY <1>1, <1>2, <1>3, <1>9, NoClashFewer DEF ForwardExited
<1> QED BY <1>1, <1>5, <1>6, <1>7, <1>8, <1>9, TableSteps, NoClashStart

-----------------------------------------------------------------------------
(* A restore is for the one failure there is.                               *)

\* The forwards in hand are what they were, and so is what is known of them.
LEMMA OwnHungSame ==
    ASSUME NEW c, own'[c] = own[c],
           \A i \in DOMAIN own[c] :
                proc'[own[c][i].pid].st = "hung" => proc[own[c][i].pid].st = "hung"
    PROVE  OwnHung(c)' => OwnHung(c)
BY DEF OwnHung

LEMMA RestoreEnvironment ==
    ASSUME SingleFailure, FullInv, Environment, NEW c \in Cmds
    PROVE  RestoreInv(c)'
<1>1. /\ RestoreInv(c) /\ CalmInv /\ TypeInv /\ proc \in [Pids -> Process]
      /\ own[c] \in Seq(Forward) /\ UNCHANGED <<file, pc, own, mode>>
    BY DEF FullInv, SoundInv, RecoveryInv, TypeInv, TypeOK, TableTypeOK, CommandsTypeOK, Environment
<1>2. pc[c] \in {"start", "ready", "save"} => Alive(own[c])'
    BY <1>1, AliveEnvironment DEF RestoreInv
<1>3. Apart(file') = Apart(file)
    BY <1>1
<1>4. PICK o \in Pids : Listen(o) \/ Hang(o)
    BY CalmEnvironment
<1>5. CASE Listen(o)
  <2>1. proc' = [proc EXCEPT ![o].st = "listening"] /\ UNCHANGED faults
      BY <1>5 DEF Listen
  <2>2. \A i \in DOMAIN own[c] : own[c][i] \in Forward
      BY <1>1, ElementOfSeq, LenProperties
  <2>3. \A p \in Pids : proc'[p].st = "hung" => proc[p].st = "hung"
      BY <1>1, <2>1 DEF Process
  <2>4. OwnHung(c)' => OwnHung(c)
      BY <1>1, <2>2, <2>3, OwnHungSame DEF Forward
  <2> QED BY <1>1, <1>2, <1>3, <2>1, <2>4 DEF RestoreInv
<1>6. CASE Hang(o)
  <2>1. faults = 0 /\ faults' = 1
      BY <1>1, <1>6, FaultOnce DEF Hang
  <2>2. Apart(file) /\ ~(mode[c] = "restore")
      BY <1>1, <2>1 DEF CalmInv, RestoreInv, Building
  <2> QED BY <1>1, <1>2, <1>3, <2>1, <2>2 DEF RestoreInv
<1> QED BY <1>4, <1>5, <1>6

\* The plan's ports are found free: the old session has been stopped, and no
\* other session has a kubectl on one of them.
LEMMA RecheckPasses ==
    ASSUME Alone, FullInv, NEW c \in Cmds, pc[c] = "recheck"
    PROVE  PlanPortsFree(c)
<1>1. own[c] = <<>> /\ pc[c] \in Building
    BY DEF FullInv, SoundInv, ScopeInv, LineInv, StartInv, Building
<1>2. SUFFICES ASSUME NEW q \in Range(req[c].plan), NEW p \in Pids,
                      proc[p].st = "listening", proc[p].port = q
               PROVE  FALSE
    BY DEF PlanPortsFree, InUse
<1>3. Holds(own[c], p)
    BY <1>1, <1>2, PlanElsewhere DEF Live, LiveStates
<1> QED BY <1>1, <1>3 DEF Holds

LEMMA RestoreStart ==
    ASSUME Alone, SingleFailure, FullInv, NEW c \in Cmds, StartForward(c)
    PROVE  RestoreInv(c)'
<1> DEFINE n == Len(own[c]) + 1
           q == Wanted(c)[n]
<1>1. /\ RestoreInv(c) /\ TypeInv /\ proc \in [Pids -> Process] /\ pc \in [Cmds -> Stages]
      /\ own[c] \in Seq(Forward) /\ UNCHANGED <<file, mode, faults>> /\ pc[c] = "start"
      /\ Len(own[c]) \in Nat /\ DOMAIN own[c] = 1..Len(own[c])
      /\ pc'[c] \in {"start", "ready"}
    BY LenProperties
    DEF FullInv, SoundInv, RecoveryInv, TypeInv, TypeOK, TableTypeOK, CommandsTypeOK, StartForward
<1>2. PICK o \in FreshPids :
        /\ proc' = [proc EXCEPT ![o] = Kubectl(c, q, Key(req[c]))]
        /\ proc'[o] = Kubectl(c, q, Key(req[c]))
        /\ DOMAIN own'[c] = 1..n
        /\ own'[c][n] = [port |-> q, pid |-> o, argv |-> TRUE]
        /\ \A i \in 1..Len(own[c]) : own'[c][i] = own[c][i]
    BY <1>1, StartEffect
<1> HIDE DEF q
<1>3. ASSUME NEW i \in DOMAIN own'[c], NEW p, p = own'[c][i].pid
      PROVE  /\ proc'[p].st \in LiveStates /\ proc'[p].kind = "kubectl"
             /\ proc'[p].st = "hung" => OwnHung(c)
  <2>1. CASE p = o
      BY <1>2, <2>1 DEF Kubectl, LiveStates
  <2>2. CASE p # o
    <3>1. i \in DOMAIN own[c] /\ own'[c][i] = own[c][i]
        BY <1>1, <1>2, <1>3, <2>2
    <3>2. LiveKubectl(p) /\ proc'[p] = proc[p]
      <4>1. own[c][i] \in Forward
          BY <1>1, <3>1, ElementOfSeq
      <4> QED BY <1>1, <1>2, <1>3, <2>2, <3>1, <4>1 DEF RestoreInv, Alive, Forward
    <3> QED BY <1>3, <3>1, <3>2 DEF LiveKubectl, Live, OwnHung
  <2> QED BY <2>1, <2>2
<1>4. Alive(own[c])'
    BY <1>3 DEF Alive, LiveKubectl, Live
<1>5. OwnHung(c)' => OwnHung(c)
    BY <1>3 DEF OwnHung
<1>6. own'[c] # <<>>
    BY <1>1, <1>2
<1> QED BY <1>1, <1>4, <1>5, <1>6 DEF RestoreInv, Building

\* What undoes a start is the one failure there is, and it has hit the plan.
LEMMA UndoRestores ==
    ASSUME Alone, SingleFailure, Roomy, FullInv, NEW c \in Cmds,
           StartFails(c) \/ ForwardDied(c) \/ ForwardTimesOut(c) \/ SaveFails(c)
    PROVE  faults' # 0 /\ Apart(file) /\ mode[c] = "new"
<1>1. /\ RestoreInv(c) /\ CalmInv /\ NoClash /\ TypeInv /\ own[c] \in Seq(Forward)
      /\ mode[c] \in {"new", "restore"} /\ faults \in Nat
    BY DEF FullInv, SoundInv, RecoveryInv, TypeInv, TypeOK, TableTypeOK, CommandsTypeOK
<1>2. ASSUME NEW f, Fault(f) PROVE faults' # 0 /\ Apart(file) /\ mode[c] = "new"
  <2>1. faults = 0 /\ faults' = 1
      BY <1>1, <1>2, FaultOnce
  <2> QED BY <1>1, <2>1 DEF CalmInv, RestoreInv, Building
<1>3. CASE StartFails(c) \/ SaveFails(c)
    BY <1>2, <1>3 DEF Roomy, StartFails, SaveFails
<1>4. ASSUME pc[c] = "ready" PROVE LastPid(c) \in Pids /\ Len(own[c]) \in DOMAIN own[c]
                                   /\ LastPid(c) = own[c][Len(own[c])].pid
  <2>1. /\ Len(own[c]) \in DOMAIN own[c] /\ Last(own[c]) = own[c][Len(own[c])]
        /\ Last(own[c]) \in Forward
      BY <1>1, <1>4, LastForward DEF RestoreInv
  <2> QED BY <2>1 DEF LastPid, Forward
<1>5. CASE ForwardDied(c)
    BY <1>1, <1>4, <1>5 DEF ForwardDied, NoClash
<1>6. CASE ForwardTimesOut(c)
  <2>1. OwnHung(c) /\ pc[c] \in Building
      BY <1>4, <1>6 DEF ForwardTimesOut, OwnHung, Building
  <2> QED BY <1>1, <1>6, <2>1 DEF RestoreInv, ForwardTimesOut
<1> QED BY <1>3, <1>5, <1>6

LEMMA RestoreStep ==
    ASSUME Alone, SingleFailure, Roomy, FullInv, NEW c \in Cmds,
           Invoke(c) \/ UserStops(c) \/ Crash(c) \/ Step(c)
    PROVE  RestoreInv(c)'
<1>1. /\ RestoreInv(c) /\ StartInv(c) /\ ControlInv(c) /\ pc \in [Cmds -> Stages]
      /\ mode \in [Cmds -> {"new", "restore"}] /\ own \in [Cmds -> Seq(Forward)]
    BY DEF FullInv, SoundInv, RecoveryInv, ScopeInv, LineInv, TypeInv, TypeOK, CommandsTypeOK
<1>2. faults # 0 => faults' # 0
    BY FaultsStep DEF Next, FullInv, SoundInv
<1>3. mode[c] = "new" \/ pc[c] \in {"start", "ready", "save"}
    BY <1>1 DEF RestoreInv
<1>4. ASSUME mode'[c] = "new", pc'[c] \notin Building PROVE RestoreInv(c)'
    BY <1>4 DEF RestoreInv, Building
<1>5. ASSUME \E r : Leave(c, r) PROVE RestoreInv(c)'
    BY <1>1, <1>4, <1>5 DEF Leave, Building
<1>6. ASSUME mode'[c] = "new", own'[c] = <<>>, pc'[c] \in {"recheck", "start"}
      PROVE  RestoreInv(c)'
    BY <1>6 DEF RestoreInv, OwnHung, Alive
<1>7. CASE Invoke(c) \/ UserStops(c) \/ Crash(c)
    BY <1>1, <1>3, <1>4, <1>5, <1>7 DEF Invoke, UserStops, Crash, Building
<1>8. CASE \/ LoadFails(c) \/ LoadForUp(c) \/ LoadForDown(c) \/ LoadNothing(c)
           \/ PreflightFails(c)
    BY <1>1, <1>3, <1>4, <1>5, <1>8
    DEF LoadFails, LoadForUp, LoadForDown, LoadNothing, PreflightFails, Building
<1>9. CASE PreflightPasses(c)
    BY <1>1, <1>3, <1>4, <1>6, <1>9 DEF PreflightPasses, StartInv, Building
<1>10. CASE StopStep(c)
  <2>1. pc[c] \in Stopping /\ UNCHANGED <<file, pc, own, mode>>
      BY <1>10 DEF StopStep, StopRefused, StopGone, StopSignals, StopReaped, StopFails, AtTarget
  <2>2. CASE pc[c] = "undo"
      BY <1>1, <1>2, <1>3, <2>1, <2>2 DEF RestoreInv, Building
  <2> QED BY <1>3, <1>4, <2>1, <2>2 DEF Building, Stopping
<1>11. CASE UpStep(c)
  <2>1. CASE ReplaceStopped(c)
      BY <1>1, <1>3, <1>6, <2>1 DEF ReplaceStopped, StartInv
  <2>7. CASE Recheck(c)
    <3>1. own'[c] = <<>> /\ pc'[c] = "start" /\ UNCHANGED file
        BY <1>1, <2>7 DEF Recheck, StartInv
    <3>2. CASE mode'[c] = "new"
        BY <1>6, <3>1, <3>2
    <3>3. CASE mode'[c] # "new"
      <4>1. mode'[c] = "restore" /\ Fault("probe")
          BY <1>1, <2>7, <3>3, RecheckPasses DEF Recheck
      <4>2. faults' # 0 /\ Apart(file)
          BY <4>1, FaultOnce DEF FullInv, SoundInv, RecoveryInv, CalmInv
      <4> QED BY <3>1, <4>1, <4>2 DEF RestoreInv, OwnHung, Alive
    <3> QED BY <3>2, <3>3
  <2>2. CASE AllStarted(c) \/ ForwardReady(c)
    <3>1. /\ pc[c] \in {"start", "ready"} /\ pc'[c] \in {"start", "save"}
          /\ UNCHANGED <<proc, faults, file, own, mode>>
        BY <1>1, <2>2 DEF AllStarted, ForwardReady
    <3>2. (Alive(own[c])' <=> Alive(own[c])) /\ (OwnHung(c)' <=> OwnHung(c))
        BY <3>1 DEF Alive, OwnHung, LiveKubectl, Live
    <3> QED BY <1>1, <3>1, <3>2 DEF RestoreInv, Building
  <2>3. CASE StartFails(c) \/ ForwardDied(c) \/ ForwardTimesOut(c) \/ SaveFails(c)
    <3>1. pc'[c] = "undo" /\ UNCHANGED <<file, mode>>
        BY <1>1, <2>3 DEF StartFails, ForwardDied, ForwardTimesOut, SaveFails, Undo
    <3> QED BY <2>3, <3>1, UndoRestores DEF RestoreInv
  <2>4. CASE Undone(c)
    <3>1. faults # 0 /\ Apart(file) /\ UNCHANGED <<file, faults>>
        BY <1>1, <2>4 DEF RestoreInv, Building, Undone
    <3>2. CASE \E r : Leave(c, r)
        BY <1>5, <3>2
    <3>3. CASE ~\E r : Leave(c, r)
      <4>1. pc'[c] = "start" /\ mode'[c] = "restore" /\ own'[c] = <<>>
          BY <1>1, <2>4, <3>3 DEF Undone
      <4> QED BY <3>1, <4>1 DEF RestoreInv, OwnHung, Alive
    <3> QED BY <3>2, <3>3
  <2>5. CASE ReplaceFails(c)
      BY <1>5, <2>5 DEF ReplaceFails
  <2>6. CASE Save(c)
      BY <1>1, <1>4, <1>5, <2>6 DEF Save, Building
  <2> QED BY <1>11, <2>1, <2>2, <2>3, <2>4, <2>5, <2>6, <2>7, RestoreStart DEF UpStep
<1>12. CASE ForegroundStep(c)
    BY <1>1, <1>3, <1>4, <1>5, <1>12
    DEF ForegroundStep, ForwardExited, CleanedUp, ForegroundSave, ForegroundSaveFails, Building
<1>13. CASE DownStep(c)
    BY <1>1, <1>3, <1>4, <1>5, <1>13
    DEF DownStep, DownVisited, DownSave, DownSaveFails, Building
<1> QED BY <1>7, <1>8, <1>9, <1>10, <1>11, <1>12, <1>13 DEF Step

-----------------------------------------------------------------------------
(* The ports of a plan that has been accepted.                              *)

\* A command that goes on with a plan leaves the file as it is.
LEMMA PlanStage ==
    ASSUME TypeInv, NEW c \in Cmds, Invoke(c) \/ UserStops(c) \/ Crash(c) \/ Step(c),
           pc'[c] \in Building \cup {"stopOld"}
    PROVE  /\ UNCHANGED file /\ req'[c] = req[c]
           /\ pc[c] \in Building \cup {"stopOld"} \/ PreflightPasses(c)
<1>1. pc \in [Cmds -> Stages]
    BY DEF TypeInv, TypeOK, CommandsTypeOK
<1>2. ~\E r : Leave(c, r)
    BY <1>1 DEF Leave, Building
<1>3. ~Invoke(c) /\ ~UserStops(c) /\ ~Crash(c)
    BY <1>1, <1>2 DEF Invoke, UserStops, Crash, Building
<1>4. CASE \/ LoadFails(c) \/ LoadForUp(c) \/ LoadForDown(c) \/ LoadNothing(c)
           \/ PreflightFails(c) \/ PreflightPasses(c)
    BY <1>1, <1>2, <1>4
    DEF LoadFails, LoadForUp, LoadForDown, LoadNothing, PreflightFails, PreflightPasses, Building
<1>5. CASE StopStep(c)
    BY <1>5 DEF StopStep, StopRefused, StopGone, StopSignals, StopReaped, StopFails
<1>6. CASE UpStep(c)
  <2>1. CASE ReplaceFails(c) \/ Undone(c) \/ Save(c)
      BY <1>1, <1>2, <2>1 DEF ReplaceFails, Undone, Save, Building
  <2>2. CASE \/ ReplaceStopped(c) \/ Recheck(c) \/ StartForward(c) \/ AllStarted(c)
             \/ ForwardReady(c)
      BY <2>2 DEF ReplaceStopped, Recheck, StartForward, AllStarted, ForwardReady, Building
  <2>3. CASE StartFails(c) \/ ForwardDied(c) \/ ForwardTimesOut(c) \/ SaveFails(c)
      BY <2>3 DEF StartFails, ForwardDied, ForwardTimesOut, SaveFails, Undo, Building
  <2> QED BY <1>6, <2>1, <2>2, <2>3 DEF UpStep
<1>7. CASE ForegroundStep(c) \/ DownStep(c)
    BY <1>1, <1>2, <1>7
    DEF ForegroundStep, ForwardExited, CleanedUp, ForegroundSave, ForegroundSaveFails,
        DownStep, DownVisited, DownSave, DownSaveFails, Building
<1> QED BY <1>3, <1>4, <1>5, <1>6, <1>7 DEF Step

LEMMA PlanFreeNext ==
    ASSUME Alone, SingleFailure, FullInv, OnlyOurs', [Next]_vars, NEW c \in Cmds
    PROVE  PlanFree(c)'
<1>1. /\ TypeInv /\ file \subseteq Session /\ PlanFree(c)
      /\ pc[c] = "preflight" => snap[c] = file
    BY DEF FullInv, SoundInv, RecoveryInv, TypeInv, TypeOK, SequentialInv, CommandInv, FileInv
<1>2. SUFFICES ASSUME pc'[c] \in Building \cup {"stopOld"}, NEW s \in Without(file', req'[c]),
                      NEW i \in DOMAIN s.fwds, s.fwds[i].port \in Range(req'[c].plan),
                      LiveKubectl(s.fwds[i].pid)'
               PROVE  FALSE
    BY DEF PlanFree
<1>3. /\ UNCHANGED file /\ req'[c] = req[c]
      /\ pc[c] \in Building \cup {"stopOld"} \/ PreflightPasses(c)
  <2>1. CASE Environment \/ UNCHANGED vars
      BY <1>2, <2>1 DEF Environment, vars
  <2>2. CASE \E d \in Cmds : Invoke(d) \/ UserStops(d) \/ Crash(d) \/ Step(d)
      BY <1>1, <1>2, <2>2, PlanStage DEF Alone
  <2> QED BY <2>1, <2>2 DEF Next
<1>4. s \in file /\ s.fwds[i].pid \in Pids /\ s.fwds[i].pid \in PidsIn(file)
  <2>1. s \in file /\ s.fwds \in Seq(Forward)
      BY <1>1, <1>2, <1>3 DEF Without, Session
  <2>2. s.fwds[i] \in Forward
      BY <1>2, <2>1, ElementOfSeq, LenProperties
  <2> QED BY <1>2, <2>1, <2>2 DEF Forward, PidsIn
<1>5. LiveKubectl(s.fwds[i].pid)
    BY <1>2, <1>4, LivePast DEF SingleFailure, FullInv
<1>6. CASE pc[c] \in Building \cup {"stopOld"}
    BY <1>1, <1>2, <1>3, <1>5, <1>6 DEF PlanFree
<1>7. CASE PreflightPasses(c)
  <2>1. s \in Without(snap[c], req[c]) /\ Exists(s.fwds[i].pid)
      BY <1>1, <1>2, <1>3, <1>5, <1>7
      DEF PreflightPasses, LiveKubectl, Live, LiveStates, Exists
  <2> QED BY <1>2, <1>3, <1>7, <2>1 DEF PreflightPasses, Refused, Conflict
<1> QED BY <1>3, <1>6, <1>7

-----------------------------------------------------------------------------
(* As long as nothing fails, what is recorded runs.                         *)

\* The steps that write the file.
LEMMA FileStep ==
    ASSUME NEW c \in Cmds, Invoke(c) \/ UserStops(c) \/ Crash(c) \/ Step(c)
    PROVE  UNCHANGED file \/ Save(c) \/ ForegroundSave(c) \/ DownSave(c)
<1>1. CASE Invoke(c) \/ UserStops(c) \/ Crash(c)
    BY <1>1 DEF Invoke, UserStops, Crash
<1>2. CASE \/ LoadFails(c) \/ LoadForUp(c) \/ LoadForDown(c) \/ LoadNothing(c)
           \/ PreflightFails(c) \/ PreflightPasses(c)
    BY <1>2 DEF LoadFails, LoadForUp, LoadForDown, LoadNothing, PreflightFails, PreflightPasses
<1>3. CASE StopStep(c)
    BY <1>3 DEF StopStep, StopRefused, StopGone, StopSignals, StopReaped, StopFails
<1>4. CASE UpStep(c)
    BY <1>4
    DEF UpStep, ReplaceFails, ReplaceStopped, Recheck, StartForward, StartFails, AllStarted,
        ForwardReady, ForwardDied, ForwardTimesOut, Undone, SaveFails
<1>5. CASE ForegroundStep(c) \/ DownStep(c)
    BY <1>5
    DEF ForegroundStep, ForwardExited, CleanedUp, ForegroundSaveFails,
        DownStep, DownVisited, DownSaveFails
<1> QED BY <1>1, <1>2, <1>3, <1>4, <1>5 DEF Step

\* A command answers for the sessions in its scope until it saves.
LEMMA HandlesStep ==
    ASSUME Alone, SingleFailure, FullInv, NEW c \in Cmds,
           Invoke(c) \/ UserStops(c) \/ Crash(c) \/ Step(c), faults' = 0,
           NEW s, Handles(c, s)
    PROVE  \/ Handles(c, s)'
           \/ Save(c) \/ ForegroundSave(c) \/ DownSave(c)
<1> DEFINE Away == {"idle", "load", "preflight", "watch"}
<1>1. /\ TypeInv /\ pc \in [Cmds -> Stages] /\ RestoreInv(c) /\ faults = 0
      /\ pc[c] \notin Away /\ InScope(Key(s), req[c]) /\ NoneKept(c)
  <2>1. faults = 0
      BY FaultsStep DEF FullInv, SoundInv, Next
  <2> QED BY <2>1 DEF FullInv, SoundInv, RecoveryInv, UndisturbedInv, TypeInv, TypeOK,
                      CommandsTypeOK, Handles
<1>2. ASSUME pc'[c] \notin Away, req'[c] = req[c] PROVE Handles(c, s)'
    BY <1>1, <1>2 DEF Handles
<1>3. \A f : ~Fault(f)
    BY <1>1, FaultOnce
<1>4. ~Invoke(c) /\ ~UserStops(c) /\ ~Crash(c)
    BY <1>1, <1>3 DEF Invoke, UserStops, Crash
<1>5. CASE \/ LoadFails(c) \/ LoadForUp(c) \/ LoadForDown(c) \/ LoadNothing(c)
           \/ PreflightFails(c) \/ PreflightPasses(c)
    BY <1>1, <1>5
    DEF LoadFails, LoadForUp, LoadForDown, LoadNothing, PreflightFails, PreflightPasses
<1>6. CASE StopStep(c)
    BY <1>1, <1>2, <1>6 DEF StopStep, StopRefused, StopGone, StopSignals, StopReaped, StopFails
<1>7. CASE UpStep(c)
  <2>1. CASE ReplaceFails(c) \/ Undone(c)
      BY <1>1, <2>1 DEF ReplaceFails, NoneKept, Undone, RestoreInv, Building
  <2>2. CASE \/ ReplaceStopped(c) \/ Recheck(c) \/ StartForward(c) \/ AllStarted(c)
             \/ ForwardReady(c)
      BY <1>1, <1>2, <2>2 DEF ReplaceStopped, Recheck, StartForward, AllStarted, ForwardReady
  <2>3. CASE StartFails(c) \/ ForwardDied(c) \/ ForwardTimesOut(c) \/ SaveFails(c)
      BY <1>1, <1>2, <2>3 DEF StartFails, ForwardDied, ForwardTimesOut, SaveFails, Undo
  <2> QED BY <1>7, <2>1, <2>2, <2>3 DEF UpStep
<1>8. CASE ForegroundStep(c) \/ DownStep(c)
    BY <1>1, <1>2, <1>3, <1>8
    DEF ForegroundStep, ForwardExited, CleanedUp, ForegroundSaveFails,
        DownStep, DownVisited, DownSaveFails
<1> QED BY <1>4, <1>5, <1>6, <1>7, <1>8 DEF Step

\* The session that is saved has every one of its kubectls, and none of them is
\* on the port of another one.
LEMMA CalmSave ==
    ASSUME Alone, SingleFailure, FullInv, NEW c \in Cmds, Save(c), faults = 0
    PROVE  Apart(file') /\ \A s \in file' : Alive(s.fwds)'
<1>1. /\ TypeInv /\ ScopeInv /\ CalmInv /\ RestoreInv(c) /\ PlanFree(c) /\ snap[c] = file
      /\ pc[c] = "save" /\ file \subseteq Session /\ own[c] \in Seq(Forward)
      /\ mode[c] \in {"new", "restore"}
    BY DEF FullInv, SoundInv, RecoveryInv, TypeInv, TypeOK, CommandsTypeOK, SequentialInv,
           CommandInv, FileInv, Building, Save
<1>2. mode[c] = "new" /\ Alive(own[c])
    BY <1>1 DEF RestoreInv, Building
<1>3. file' = Without(file, req[c]) \cup {Built(c)}
    BY <1>1 DEF Save
<1>4. ASSUME NEW s \in Without(file, req[c])
      PROVE  /\ s \in file /\ s.fwds \in Seq(Forward) /\ OwnsIn(proc, s) /\ Alive(s.fwds)
             /\ Key(s) # Key(req[c])
  <2>1. s \in file /\ s.fwds \in Seq(Forward) /\ Key(s) \in Keys /\ Key(s) # Key(req[c])
      BY <1>1 DEF Without, Session, Key, Keys
  <2>2. ~InScope(Key(s), req[c])
      BY <1>1, <2>1, UpScope DEF UpStages
  <2> QED BY <1>1, <2>1, <2>2 DEF CalmInv, Handles, Alone, ScopeInv, OwnsInv
<1>5. ASSUME NEW i \in DOMAIN own[c]
      PROVE  own[c][i].port \in Range(req[c].plan) /\ i \in DOMAIN Wanted(c)
             /\ own[c][i].port = Wanted(c)[i]
    BY <1>1, <1>2, OwnWanted DEF Wanted, Range
<1>6. ASSUME NEW s \in Without(file, req[c]), NEW i \in DOMAIN s.fwds, NEW j \in DOMAIN own[c],
             s.fwds[i].port = own[c][j].port
      PROVE  FALSE
    BY <1>1, <1>4, <1>5, <1>6 DEF PlanFree, Building, Alive
<1>7. ASSUME NEW i \in DOMAIN own[c], NEW j \in DOMAIN own[c], own[c][i].port = own[c][j].port
      PROVE  i = j
    BY <1>1, <1>5, <1>7, WantedOnce
<1>8. Built(c).fwds = own[c] /\ OwnsIn(proc, Built(c))
    BY <1>1 DEF Built, ScopeInv, OwnsInv
<1>9. Apart(file')
    BY <1>1, <1>3, <1>4, <1>6, <1>7, <1>8 DEF Apart, CalmInv
<1>10. ASSUME NEW s, s.fwds \in Seq(Forward), OwnsIn(proc, s), Alive(s.fwds) PROVE Alive(s.fwds)'
  <2>1. Step(c) /\ pc[c] \notin Stopping
      BY <1>1 DEF Step, UpStep, Stopping
  <2> QED BY <1>10, <2>1, AliveStep
<1>11. \A s \in file' : Alive(s.fwds)'
    BY <1>1, <1>2, <1>3, <1>4, <1>8, <1>10
<1> QED BY <1>9, <1>11

\* A save that removes sessions removes those the command answers for.
LEMMA CalmRemove ==
    ASSUME Alone, FullInv, NEW c \in Cmds, ForegroundSave(c) \/ DownSave(c)
    PROVE  file' \subseteq {s \in file : ~InScope(Key(s), req[c])}
<1>1. TypeInv /\ snap \in [Cmds -> SUBSET Session] /\ CommandInv(c) /\ NoneKept(c)
    BY DEF FullInv, SoundInv, TypeInv, TypeOK, CommandsTypeOK, SequentialInv, UndisturbedInv
<1>2. CASE ForegroundSave(c)
  <2>1. file' = Without(snap[c], req[c]) /\ file' \subseteq file /\ pc[c] \in UpStages
      BY <1>1, <1>2 DEF ForegroundSave, CommandInv, FileInv, UpStages
  <2>2. \A s \in file' : Key(s) \in Keys /\ Key(s) # Key(req[c])
      BY <1>1, <2>1 DEF Without, Session, Key, Keys
  <2> QED BY <1>1, <2>1, <2>2, UpScope
<1>3. CASE DownSave(c)
  <2>1. snap[c] = file /\ kept[c] = {} /\ file' = Remaining(c)
      BY <1>1, <1>3 DEF DownSave, CommandInv, FileInv, NoneKept
  <2> QED BY <2>1 DEF Remaining, Existing, Matching, InScope, Key
<1> QED BY <1>2, <1>3

LEMMA CalmNext ==
    ASSUME Alone, SingleFailure, FullInv, [Next]_vars
    PROVE  CalmInv'
<1>1. SUFFICES ASSUME faults' = 0
               PROVE  /\ Apart(file')
                      /\ \A s \in file' : Alive(s.fwds)' \/ \E c \in Cmds : Handles(c, s)'
    BY DEF CalmInv
<1>2. /\ TypeInv /\ ScopeInv /\ CalmInv /\ file \subseteq Session /\ faults = 0
    BY <1>1, FaultsStep DEF FullInv, SoundInv, RecoveryInv, TypeInv, TypeOK
<1>3. Apart(file) /\ \A s \in file : /\ s.fwds \in Seq(Forward) /\ OwnsIn(proc, s)
                                     /\ Alive(s.fwds) \/ \E c \in Cmds : Handles(c, s)
    BY <1>2 DEF CalmInv, Session, ScopeInv, OwnsInv
<1>4. CASE Environment
  <2>1. \A s \in file : Alive(s.fwds) => Alive(s.fwds)'
      BY <1>3, <1>4, AliveEnvironment
  <2>2. \A s : \A c \in Cmds : Handles(c, s) => Handles(c, s)'
      BY <1>4 DEF Environment, Handles
  <2> QED BY <1>3, <1>4, <2>1, <2>2 DEF Environment
<1>5. CASE UNCHANGED vars
  <2>1. \A s \in file : Alive(s.fwds) => Alive(s.fwds)'
      BY <1>5 DEF vars, Alive, LiveKubectl, Live
  <2>2. \A s : \A c \in Cmds : Handles(c, s) => Handles(c, s)'
      BY <1>5 DEF vars, Handles
  <2> QED BY <1>3, <1>5, <2>1, <2>2 DEF vars
<1>6. ASSUME NEW c \in Cmds, Invoke(c) \/ UserStops(c) \/ Crash(c) \/ Step(c)
      PROVE  /\ Apart(file')
             /\ \A s \in file' : Alive(s.fwds)' \/ \E d \in Cmds : Handles(d, s)'
  <2>1. ASSUME NEW s \in file, ~Handles(c, s) PROVE Alive(s.fwds)'
    <3>1. ~(pc[c] \in Stopping /\ InScope(Key(s), req[c]))
        BY <2>1 DEF Handles, Stopping
    <3> QED BY <1>3, <1>6, <2>1, <3>1, AliveStep DEF Alone
  <2>2. CASE Save(c)
      BY <1>2, <2>2, CalmSave
  <2>3. CASE ForegroundSave(c) \/ DownSave(c)
    <3>1. file' \subseteq file /\ \A s \in file' : ~Handles(c, s)
        BY <2>3, CalmRemove DEF Handles
    <3> QED BY <1>3, <2>1, <3>1 DEF Apart
  <2>4. CASE ~(Save(c) \/ ForegroundSave(c) \/ DownSave(c))
    <3>1. UNCHANGED file
        BY <1>6, <2>4, FileStep
    <3>2. \A s \in file : Handles(c, s) => Handles(c, s)'
        BY <1>1, <1>6, <2>4, HandlesStep
    <3> QED BY <1>3, <2>1, <3>1, <3>2
  <2> QED BY <2>2, <2>3, <2>4
<1> QED BY <1>4, <1>5, <1>6 DEF Next

-----------------------------------------------------------------------------
(* The invariant is inductive.                                              *)

LEMMA RecoveryInit ==
    ASSUME Undisturbed
    PROVE  Init => RecoveryInv
<1> SUFFICES ASSUME Init PROVE RecoveryInv
    OBVIOUS
<1>1. /\ file = {} /\ (\A p \in Pids : proc[p] = FreeSlot)
      /\ \A c \in Cmds : pc[c] = "idle" /\ mode[c] = "new"
    BY DEF Init, Undisturbed
<1>2. NoClash
    BY <1>1 DEF NoClash, Live, LiveStates, FreeSlot
<1>3. CalmInv
    BY <1>1 DEF CalmInv, Apart
<1>4. \A c \in Cmds : PlanFree(c) /\ RestoreInv(c)
    BY <1>1 DEF PlanFree, RestoreInv, Building
<1> QED BY <1>2, <1>3, <1>4 DEF RecoveryInv

LEMMA RecoveryNext ==
    ASSUME Alone, SingleFailure, Roomy, FullInv, OnlyOurs', [Next]_vars
    PROVE  RecoveryInv'
<1>1. CalmInv' /\ \A c \in Cmds : PlanFree(c)'
    BY CalmNext, PlanFreeNext
<1>2. CASE Environment
    BY <1>1, <1>2, NoClashEnvironment, RestoreEnvironment DEF RecoveryInv
<1>3. ASSUME NEW c \in Cmds, Invoke(c) \/ UserStops(c) \/ Crash(c) \/ Step(c)
      PROVE  RecoveryInv'
  <2>1. NoClash' /\ \A d \in Cmds : RestoreInv(d)'
      BY <1>3, NoClashStep, RestoreStep DEF Alone
  <2> QED BY <1>1, <2>1 DEF RecoveryInv
<1>4. CASE UNCHANGED vars
  <2>1. NoClash /\ \A c \in Cmds : RestoreInv(c)
      BY DEF FullInv, RecoveryInv
  <2>2. NoClash'
      BY <1>4, <2>1 DEF vars, NoClash, Live
  <2>3. \A c \in Cmds : RestoreInv(c)'
      BY <1>4, <2>1 DEF vars, RestoreInv, OwnHung, Alive, LiveKubectl, Live
  <2> QED BY <1>1, <2>2, <2>3 DEF RecoveryInv
<1> QED BY <1>2, <1>3, <1>4 DEF Next

LEMMA RecoveryCorrect ==
    ASSUME Alone, SingleFailure
    PROVE  Spec /\ []Roomy => []FullInv
<1>1. Undisturbed /\ Readable /\ PidReuse = FALSE /\ "crash" \notin Faults
    BY DEF SingleFailure, Undisturbed
<1>2. Init => FullInv
    BY <1>1, TypeInit, ScopeInit, SequentialInit, UndisturbedInit, RecoveryInit
    DEF FullInv, SoundInv
<1>3. ASSUME FullInv, Roomy, [Next]_vars PROVE FullInv'
  <2>1. TypeInv' /\ ScopeInv' /\ SequentialInv' /\ UndisturbedInv'
      BY <1>1, <1>3, TypeNext, ScopeNext, SequentialNext, UndisturbedNext
      DEF FullInv, SoundInv
  <2>2. RecoveryInv'
      BY <1>3, <2>1, RecoveryNext DEF UndisturbedInv
  <2> QED BY <2>1, <2>2 DEF FullInv, SoundInv
<1> QED BY <1>2, <1>3, PTL DEF Spec

-----------------------------------------------------------------------------
(* What follows from it.                                                    *)

\* Two recorded sessions never have live kubectls for the same local port: a
\* live kubectl is on the port its record says, a plan is refused that wants
\* the port of another one, and a session that is brought back finds its
\* ports as it has left them, because a plan in between could not take them
\* (CheckRuntimeSessionPortConflicts, RunUpCommand).  As long as fork finds a
\* pid.
THEOREM DisjointCorrect ==
    ASSUME Alone, SingleFailure
    PROVE  Spec /\ []Roomy => []PortsDisjoint
<1>1. ASSUME FullInv PROVE PortsDisjoint
  <2> SUFFICES ASSUME NEW s \in file, NEW t \in file, Key(s) # Key(t),
                      NEW i \in DOMAIN s.fwds, NEW j \in DOMAIN t.fwds,
                      s.fwds[i].port = t.fwds[j].port,
                      LiveKubectl(s.fwds[i].pid), LiveKubectl(t.fwds[j].pid)
               PROVE  FALSE
      BY DEF PortsDisjoint
  <2> DEFINE p == s.fwds[i].pid
             o == t.fwds[j].pid
  <2>1. s.fwds \in Seq(Forward) /\ t.fwds \in Seq(Forward)
      BY <1>1 DEF FullInv, SoundInv, TypeInv, TypeOK, Session
  <2>2. s.fwds[i] \in Forward /\ t.fwds[j] \in Forward
      BY <2>1, ElementOfSeq, LenProperties
  <2>3. p \in Pids /\ o \in Pids
      BY <2>2 DEF Forward
  <2>4. proc[p].port = s.fwds[i].port /\ proc[o].port = t.fwds[j].port
      BY <1>1 DEF FullInv, SoundInv, UndisturbedInv, RecordsInv, RecognisedIn, Recognised
  <2>5. p = o
      BY <1>1, <2>3, <2>4 DEF FullInv, RecoveryInv, NoClash, LiveKubectl
  <2>6. p \in PidsOf(s) /\ o \in PidsOf(t) /\ OwnsIn(proc, s) /\ OwnsIn(proc, t)
      BY <1>1 DEF FullInv, SoundInv, ScopeInv, OwnsInv, PidsOf
  <2>7. proc[p].key = Key(s) /\ proc[o].key = Key(t)
      BY <2>6 DEF OwnsIn, LiveKubectl, Live
  <2> QED BY <2>5, <2>7
<1>2. Spec /\ []Roomy => []FullInv
    BY RecoveryCorrect
<1> QED BY <1>1, <1>2, PTL

\* The only way out of an `up` that has begun to replace a session is a save.
LEMMA ReplaceEnds ==
    ASSUME Alone, SingleFailure, FullInv, [Next]_vars, NEW c \in Cmds,
           pc[c] \in {"stopOld", "recheck", "start", "ready", "save", "undo"},
           pc'[c] = "idle", Existing(c) # {}
    PROVE  Save(c)
<1>1. RestoreInv(c) /\ NoneKept(c) /\ pc \in [Cmds -> Stages] /\ mode[c] \in {"new", "restore"}
    BY DEF FullInv, SoundInv, RecoveryInv, UndisturbedInv, TypeInv, TypeOK, CommandsTypeOK
<1>2. PICK d \in Cmds : Invoke(d) \/ UserStops(d) \/ Crash(d) \/ Step(d)
    BY DEF Next, Environment, vars
<1>3. d = c
    BY DEF Alone
<1>4. ~Invoke(c) /\ ~UserStops(c) /\ ~Crash(c)
    BY DEF Invoke, UserStops, Crash, Fault, SingleFailure
<1>5. ~StopStep(c)
    BY DEF StopStep, StopRefused, StopGone, StopSignals, StopReaped, StopFails
<1>6. ~(\/ LoadFails(c) \/ LoadForUp(c) \/ LoadForDown(c) \/ LoadNothing(c)
        \/ PreflightFails(c) \/ PreflightPasses(c))
    BY DEF LoadFails, LoadForUp, LoadForDown, LoadNothing, PreflightFails, PreflightPasses
<1>7. ~(ForegroundStep(c) \/ DownStep(c))
    BY DEF ForegroundStep, ForwardExited, CleanedUp, ForegroundSave, ForegroundSaveFails,
           DownStep, DownVisited, DownSave, DownSaveFails
<1>8. CASE UpStep(c)
  <2>1. ~ReplaceFails(c) /\ ~Undone(c)
      BY <1>1 DEF ReplaceFails, NoneKept, Undone, RestoreInv
  <2>2. ~(ReplaceStopped(c) \/ Recheck(c) \/ StartForward(c) \/ AllStarted(c) \/ ForwardReady(c))
      BY <1>1 DEF ReplaceStopped, Recheck, StartForward, AllStarted, ForwardReady
  <2>3. ~(StartFails(c) \/ ForwardDied(c) \/ ForwardTimesOut(c) \/ SaveFails(c))
      BY <1>1 DEF StartFails, ForwardDied, ForwardTimesOut, SaveFails, Undo
  <2> QED BY <1>8, <2>1, <2>2, <2>3 DEF UpStep
<1> QED BY <1>2, <1>3, <1>4, <1>5, <1>6, <1>7, <1>8 DEF Step

\* An `up` that has begun to replace a session ends with that environment
\* forwarded as a whole, by the new plan or by the session that was there,
\* whichever one start, wait or save fails on the way, and wherever in it
\* (RunUpCommand, StartManagedSession, RestoreReplacedSessions), as long as
\* fork finds a pid.
THEOREM ReplaceCorrect ==
    ASSUME Alone, SingleFailure
    PROVE  Spec /\ []Roomy => ReplaceKeepsForwards
<1> DEFINE Replaced ==
        \A c \in Cmds :
            /\ pc[c] \in {"stopOld", "recheck", "start", "ready", "save", "undo"}
            /\ pc'[c] = "idle"
            /\ Existing(c) # {}
            => \E s \in file' :
                /\ Key(s) = Key(req[c])
                /\ PortsOf(s.fwds) \in {req[c].plan, PortsOf(Previous(c).fwds)}
                /\ \A i \in DOMAIN s.fwds : LiveKubectl(s.fwds[i].pid)'
<1>1. ASSUME FullInv, [Next]_vars PROVE Replaced
  <2> SUFFICES ASSUME NEW c \in Cmds,
                      pc[c] \in {"stopOld", "recheck", "start", "ready", "save", "undo"},
                      pc'[c] = "idle", Existing(c) # {}
               PROVE  \E s \in file' :
                        /\ Key(s) = Key(req[c])
                        /\ PortsOf(s.fwds) \in {req[c].plan, PortsOf(Previous(c).fwds)}
                        /\ \A i \in DOMAIN s.fwds : LiveKubectl(s.fwds[i].pid)'
      OBVIOUS
  <2> PICK s : s = Built(c)
      OBVIOUS
  <2>1. Save(c) /\ pc[c] = "save"
      BY <1>1, ReplaceEnds DEF Save
  <2>2. /\ TypeInv /\ StartInv(c) /\ RestoreInv(c) /\ OwnsIn(proc, s)
        /\ own[c] \in Seq(Forward) /\ mode[c] \in {"new", "restore"}
      BY <1>1 DEF FullInv, SoundInv, RecoveryInv, TypeInv, TypeOK, CommandsTypeOK, ScopeInv, LineInv,
                 OwnsInv
  <2>3. s \in file' /\ Key(s) = Key(req[c]) /\ s.fwds = own[c]
      BY <2>1 DEF Save, Built, Key
  <2>4. PortsOf(own[c]) = Wanted(c)
      BY <2>1, <2>2, OwnPorts
  <2>5. Wanted(c) \in {req[c].plan, PortsOf(Previous(c).fwds)}
      BY DEF Wanted
  <2>6. Alive(s.fwds)'
    <3>1. Alive(s.fwds)
        BY <2>1, <2>2, <2>3 DEF RestoreInv
    <3>2. Step(c) /\ pc[c] \notin Stopping
        BY <2>1 DEF Step, UpStep, Stopping
    <3> QED BY <1>1, <2>2, <2>3, <3>1, <3>2, AliveStep
  <2> QED BY <2>3, <2>4, <2>5, <2>6 DEF Alive
<1>2. Spec /\ []Roomy => []FullInv
    BY RecoveryCorrect
<1>3. Spec /\ []Roomy => [][Replaced]_vars
    BY <1>1, <1>2, PTL DEF Spec
<1> QED BY <1>3 DEF ReplaceKeepsForwards
=============================================================================
