------------------------ MODULE SessionsRegistryProofs ------------------------
(***************************************************************************)
(* Sessions implements SessionRegistry when commands do not overlap: for   *)
(* every set of pids, ports, configurations, environments and command      *)
(* lines, with pids that are used again, and with any number of failures   *)
(* and kills, but not that of opening a state file that is there.          *)
(***************************************************************************)
EXTENDS SessionsSequentialProofs

-----------------------------------------------------------------------------
(* A `down` keeps only sessions that the file has and that are in its scope, *)
(* so that it reports an error exactly if one of them is left.               *)

VisitInv(c) ==
    /\ pc[c] \in {"idle", "load"} => kept[c] = {}
    /\ pc[c] \in {"downStop", "downSave"} =>
        /\ req[c].op = "down"
        /\ kept[c] \subseteq {Key(s) : s \in Existing(c)}
    /\ pc[c] = "downStop" =>
        \A i \in DOMAIN todo[c] : Key(todo[c][i]) \in {Key(s) : s \in Existing(c)}

LEMMA VisitStop ==
    ASSUME TypeInv, NEW c \in Cmds, VisitInv(c), StopStep(c)
    PROVE  VisitInv(c)'
<1> DEFINE Visited == {Key(s) : s \in Existing(c)}
<1>1. /\ pc[c] \in Stopping /\ todo[c] # <<>> /\ todo[c] \in Seq(Session)
      /\ todo \in [Cmds -> Seq(Session)] /\ kept \in [Cmds -> SUBSET Keys]
      /\ UNCHANGED <<pc, req, snap>>
    BY DEF TypeInv, TypeOK, CommandsTypeOK, StopStep, StopRefused, StopGone, StopSignals,
           StopReaped, StopFails, AtTarget
<1>2. CASE pc[c] # "downStop"
    BY <1>1, <1>2 DEF VisitInv, Stopping
<1>3. CASE pc[c] = "downStop"
  <2>1. /\ req[c].op = "down" /\ kept[c] \subseteq Visited
        /\ \A i \in DOMAIN todo[c] : Key(todo[c][i]) \in Visited
      BY <1>3 DEF VisitInv
  <2>2. Visited' = Visited
      BY <1>1 DEF Existing
  <2>3. Key(Head(todo[c])) \in Visited
    <3>1. 1 \in DOMAIN todo[c] /\ Head(todo[c]) = todo[c][1]
        BY <1>1, LenProperties, EmptySeq, HeadTailProperties
    <3> QED BY <2>1, <3>1
  <2>4. \A i \in DOMAIN Rest(todo[c]) : Key(Rest(todo[c])[i]) \in Visited
      BY <1>1, <2>1, RestForwards
  <2> HIDE DEF Visited
  <2>5. kept'[c] \subseteq Visited
      BY <1>1, <2>1, <2>3
      DEF StopStep, StopRefused, StopGone, StopSignals, StopReaped, StopFails, Keep
  <2>6. todo'[c] \in {todo[c], Rest(todo[c])}
      BY <1>1 DEF StopStep, StopRefused, StopGone, StopSignals, StopReaped, StopFails, NextTarget
  <2>7. \A i \in DOMAIN todo'[c] : Key(todo'[c][i]) \in Visited
      BY <2>1, <2>4, <2>6
  <2> QED BY <1>1, <1>3, <2>1, <2>2, <2>5, <2>7 DEF VisitInv, Visited
<1> QED BY <1>2, <1>3

LEMMA VisitStep ==
    ASSUME Readable, TypeInv, NEW c \in Cmds, VisitInv(c),
           Invoke(c) \/ UserStops(c) \/ Crash(c) \/ Step(c)
    PROVE  VisitInv(c)'
<1>1. /\ pc \in [Cmds -> Stages] /\ todo \in [Cmds -> Seq(Session)]
      /\ kept \in [Cmds -> SUBSET Keys] /\ snap \in [Cmds -> SUBSET Session]
      /\ file \in SUBSET Session /\ IsFiniteSet(file)
    BY DEF TypeInv, TypeOK, CommandsTypeOK, RecordsFinite
<1>2. ASSUME \E r : Leave(c, r) PROVE VisitInv(c)'
    BY <1>1, <1>2 DEF Leave, VisitInv
<1>3. ASSUME pc'[c] \notin {"idle", "load", "downStop", "downSave"} PROVE VisitInv(c)'
    BY <1>3 DEF VisitInv
<1>4. CASE Invoke(c) \/ UserStops(c) \/ Crash(c)
    BY <1>1, <1>2, <1>3, <1>4 DEF Invoke, UserStops, Crash, VisitInv
<1>5. CASE LoadFails(c) \/ LoadForUp(c) \/ PreflightFails(c) \/ PreflightPasses(c)
    BY <1>1, <1>2, <1>3, <1>5 DEF LoadFails, LoadForUp, PreflightFails, PreflightPasses
<1>11. ~LoadNothing(c)
    BY DEF LoadNothing, Fault, Readable
<1>6. CASE LoadForDown(c)
  <2> DEFINE S == Matching(file, req[c].cfg, req[c].env)
  <2>1. PICK order \in VisitOrders(S) : todo'[c] = order
      BY <1>1, <1>6 DEF LoadForDown
  <2>2. S \in SUBSET Session /\ IsFiniteSet(S)
      BY <1>1, FS_Subset DEF Matching
  <2>3. \A i \in DOMAIN order : order[i] \in S
      BY <2>2, VisitOrdersType
  <2>4. Existing(c)' = S /\ kept'[c] = {} /\ pc'[c] = "downStop" /\ req'[c].op = "down"
      BY <1>1, <1>6 DEF LoadForDown, Existing, VisitInv
  <2> HIDE DEF S
  <2> QED BY <2>1, <2>3, <2>4 DEF VisitInv
<1>7. CASE UpStep(c)
  <2>1. CASE ReplaceFails(c) \/ Undone(c) \/ Save(c)
      BY <1>1, <1>2, <1>3, <2>1 DEF ReplaceFails, Undone, Save
  <2>2. CASE \/ ReplaceStopped(c) \/ Recheck(c) \/ StartForward(c) \/ AllStarted(c)
             \/ ForwardReady(c)
      BY <1>1, <1>3, <2>2 DEF ReplaceStopped, Recheck, StartForward, AllStarted, ForwardReady
  <2>3. CASE StartFails(c) \/ ForwardDied(c) \/ ForwardTimesOut(c) \/ SaveFails(c)
      BY <1>1, <1>3, <2>3 DEF StartFails, ForwardDied, ForwardTimesOut, SaveFails, Undo
  <2> QED BY <1>7, <2>1, <2>2, <2>3 DEF UpStep
<1>8. CASE ForegroundStep(c)
    BY <1>1, <1>2, <1>3, <1>8
    DEF ForegroundStep, ForwardExited, CleanedUp, ForegroundSave, ForegroundSaveFails
<1>9. CASE DownVisited(c)
    BY <1>1, <1>9 DEF DownVisited, VisitInv, Existing
<1>10. CASE DownSave(c) \/ DownSaveFails(c)
    BY <1>2, <1>10 DEF DownSave, DownSaveFails
<1> QED BY <1>4, <1>5, <1>6, <1>7, <1>8, <1>9, <1>10, <1>11, VisitStop DEF Step, DownStep

-----------------------------------------------------------------------------
(* The record, and the stages of a command, as the promise sees them.       *)

Entries(S) == {Entry(s) : s \in S}
Phases == [c \in Cmds |-> PhaseAt(pc[c])]

\* An entry has the key of its session, so what is told apart by keys may be
\* told apart before or after.
LEMMA EntriesFilter ==
    ASSUME NEW S, NEW r
    PROVE  /\ \A s : Registry!Key(Entry(s)) = Key(s) /\ Registry!Key(r) = Key(r)
           /\ Entries(Without(S, r)) = {e \in Entries(S) : Registry!Key(e) # Registry!Key(r)}
           /\ Entries(Matching(S, r.cfg, r.env)) =
                {e \in Entries(S) : e.cfg = r.cfg /\ r.env \in {AllEnvs, e.env}}
<1>1. \A s : /\ Entry(s).cfg = s.cfg /\ Entry(s).env = s.env
             /\ Registry!Key(Entry(s)) = Key(s) /\ Registry!Key(r) = Key(r)
    BY DEF Registry!Key, Key, Entry
<1>2. Entries(Without(S, r)) = {e \in Entries(S) : Registry!Key(e) # Registry!Key(r)}
    BY <1>1 DEF Entries, Without
<1>3. Entries(Matching(S, r.cfg, r.env)) =
        {e \in Entries(S) : e.cfg = r.cfg /\ r.env \in {AllEnvs, e.env}}
    BY <1>1 DEF Entries, Matching
<1> QED BY <1>1, <1>2, <1>3

LEMMA PhaseStep ==
    ASSUME TypeInv, NEW c \in Cmds, NEW stage, pc' = [pc EXCEPT ![c] = stage]
    PROVE  Phases' = [Phases EXCEPT ![c] = PhaseAt(stage)]
BY DEF TypeInv, TypeOK, CommandsTypeOK, Phases

LEMMA LeaveEnds ==
    ASSUME TypeInv, NEW c \in Cmds, NEW r, Leave(c, r)
    PROVE  Registry!End(c, r)
<1>1. Phases' = [Phases EXCEPT ![c] = "idle"]
    BY PhaseStep DEF Leave, PhaseAt
<1> QED BY <1>1 DEF Leave, Registry!End, Phases

\* What a command's step means for the record.
LEMMA RecordStep ==
    ASSUME TypeInv, NEW c \in Cmds, Invoke(c) \/ UserStops(c) \/ Crash(c) \/ Step(c)
    PROVE  \/ Invoke(c) \/ Save(c) \/ ForegroundSave(c) \/ DownSave(c)
           \/ /\ pc[c] # "idle" /\ UNCHANGED file
              /\ \E r \in {"error", "killed"} : Leave(c, r)
           \/ /\ UNCHANGED <<file, req, res>>
              /\ \E stage : /\ pc' = [pc EXCEPT ![c] = stage]
                            /\ PhaseAt(stage) = PhaseAt(pc[c])
<1> DEFINE Fails == /\ pc[c] # "idle" /\ UNCHANGED file
                    /\ \E r \in {"error", "killed"} : Leave(c, r)
           Goes == /\ UNCHANGED <<file, req, res>>
                   /\ \E stage : /\ pc' = [pc EXCEPT ![c] = stage]
                                 /\ PhaseAt(stage) = PhaseAt(pc[c])
           Running == Stages \ {"idle", "watch", "cleanup", "fgSave"}
<1>1. pc \in [Cmds -> Stages]
    BY DEF TypeInv, TypeOK, CommandsTypeOK
<1>2. \A stage \in Running : PhaseAt(stage) = "running"
    BY DEF PhaseAt
<1>3. \A stage \in {"watch", "cleanup", "fgSave"} : PhaseAt(stage) = "attached"
    BY DEF PhaseAt
<1>4. Running = {"load", "preflight", "recheck", "start", "ready", "save", "downSave",
                 "stopOld", "undo", "downStop"}
    BY DEF Stages, Stopping
<1> HIDE DEF Running
<1>5. CASE Crash(c)
    BY <1>5 DEF Crash
<1>6. CASE UserStops(c)
    BY <1>3, <1>6 DEF UserStops
<1>7. CASE LoadFails(c) \/ PreflightFails(c)
    BY <1>7 DEF LoadFails, PreflightFails
<1>8. CASE LoadForUp(c) \/ LoadForDown(c) \/ LoadNothing(c) \/ PreflightPasses(c)
    BY <1>2, <1>4, <1>8 DEF LoadForUp, LoadForDown, LoadNothing, PreflightPasses
<1>9. CASE StopStep(c)
  <2>1. UNCHANGED <<file, pc, req, res>>
      BY <1>9 DEF StopStep, StopRefused, StopGone, StopSignals, StopReaped, StopFails
  <2> QED BY <1>1, <2>1
<1>10. CASE UpStep(c)
  <2>1. CASE ReplaceFails(c)
      BY <2>1 DEF ReplaceFails
  <2>2. CASE Undone(c)
      BY <1>2, <1>4, <2>2 DEF Undone
  <2>3. CASE \/ ReplaceStopped(c) \/ Recheck(c) \/ StartForward(c) \/ AllStarted(c)
             \/ ForwardReady(c)
      BY <1>2, <1>4, <2>3
      DEF ReplaceStopped, Recheck, StartForward, AllStarted, ForwardReady
  <2>4. CASE StartFails(c) \/ ForwardDied(c) \/ ForwardTimesOut(c) \/ SaveFails(c)
      BY <1>2, <1>4, <2>4 DEF StartFails, ForwardDied, ForwardTimesOut, SaveFails, Undo
  <2> QED BY <1>10, <2>1, <2>2, <2>3, <2>4 DEF UpStep
<1>11. CASE ForegroundStep(c)
    BY <1>3, <1>11
    DEF ForegroundStep, ForwardExited, CleanedUp, ForegroundSaveFails
<1>12. CASE DownStep(c)
    BY <1>2, <1>4, <1>12 DEF DownStep, DownVisited, DownSaveFails
<1> QED BY <1>5, <1>6, <1>7, <1>8, <1>9, <1>10, <1>11, <1>12 DEF Step

-----------------------------------------------------------------------------
(* The three saves.                                                         *)

\* The session that is saved is the one that was asked for, or has the ports
\* of the one that was there.
LEMMA SaveImplements ==
    ASSUME TypeInv, UniqueSessions, NEW c \in Cmds, StartInv(c), CommandInv(c), Save(c)
    PROVE  Registry!Up(c) \/ Registry!Fail(c)
<1>1. /\ pc[c] = "save" /\ req[c].op = "up" /\ snap[c] = file /\ mode[c] \in {"new", "restore"}
      /\ Phases[c] = "running"
    BY UpRequest
    DEF Save, UpStages, CommandInv, FileInv, Building, TypeInv, TypeOK, CommandsTypeOK, Phases, PhaseAt
<1>2. Entries(file') = Registry!Others(req[c]) \cup {Entry(Built(c))}
  <2>1. file' = Without(file, req[c]) \cup {Built(c)}
      BY <1>1 DEF Save
  <2>2. Entries(file') = Entries(Without(file, req[c])) \cup {Entry(Built(c))}
      BY <2>1 DEF Entries
  <2> QED BY <2>2, EntriesFilter DEF Registry!Others, Entries
<1>3. Entry(Built(c)) = [cfg |-> req[c].cfg, env |-> req[c].env, ports |-> Wanted(c)]
    BY <1>1, OwnPorts DEF Entry, Built
<1>4. CASE mode[c] = "new"
  <2>1. Entries(file') = Registry!Others(req[c]) \cup {Registry!Described(req[c])}
      BY <1>2, <1>3, <1>4 DEF Wanted, Registry!Described
  <2>2. IF req[c].daemon THEN Registry!End(c, "ok")
        ELSE Phases' = [Phases EXCEPT ![c] = "attached"] /\ UNCHANGED <<req, res>>
    <3>1. CASE req[c].daemon
        BY <1>4, <3>1, LeaveEnds DEF Save
    <3>2. CASE ~req[c].daemon
      <4>1. pc' = [pc EXCEPT ![c] = "watch"] /\ UNCHANGED <<req, res>>
          BY <1>4, <3>2 DEF Save
      <4> QED BY <3>2, <4>1, PhaseStep DEF PhaseAt
    <3> QED BY <3>1, <3>2
  <2> QED BY <1>1, <2>1, <2>2 DEF Registry!Up, Entries, Phases
<1>5. CASE mode[c] = "restore"
  <2>1. Previous(c) \in Existing(c)
      BY <1>5 DEF TypeInv, ControlInv, Previous
  <2>2. Previous(c) \in file /\ Key(Previous(c)) = Key(req[c])
    <3>1. req[c] \in Requests
        BY <1>1 DEF TypeInv, TypeOK, CommandsTypeOK
    <3>2. req[c].env \in Envs /\ req[c].env # AllEnvs
        BY <1>1, <3>1, RequestsAssumption, AllEnvsAssumption
    <3> QED BY <1>1, <2>1, <3>2 DEF Existing, Matching, Key
  <2>3. Entry(Built(c)) = Entry(Previous(c))
      BY <1>3, <1>5, <2>2 DEF Entry, Wanted, Key
  <2>4. Entries(file) = Entries(Without(file, req[c])) \cup {Entry(Previous(c))}
    <3>1. file = Without(file, req[c]) \cup {Previous(c)}
        BY <2>2 DEF Without, UniqueSessions
    <3> QED BY <3>1 DEF Entries
  <2>5. Entries(file') = Entries(file)
      BY <1>2, <2>3, <2>4, EntriesFilter DEF Registry!Others, Entries
  <2>6. Registry!End(c, "error")
      BY <1>5, LeaveEnds DEF Save
  <2> QED BY <1>1, <2>5, <2>6 DEF Registry!Fail, Entries, Phases
<1> QED BY <1>1, <1>4, <1>5

LEMMA ForegroundImplements ==
    ASSUME TypeInv, NEW c \in Cmds, CommandInv(c), ForegroundSave(c)
    PROVE  Registry!Detach(c)
<1>1. /\ pc[c] = "fgSave" /\ file = Without(snap[c], req[c]) \cup {Built(c)}
      /\ file' = Without(snap[c], req[c]) /\ Phases[c] = "attached"
    BY DEF ForegroundSave, CommandInv, FileInv, Phases, PhaseAt
<1>2. Without(file, req[c]) = file'
    BY <1>1 DEF Without, Built, Key
<1>3. Entries(file') = Registry!Others(req[c])
    BY <1>2, EntriesFilter DEF Registry!Others, Entries
<1>4. \E r \in {"ok", "error", "signal"} : Registry!End(c, r)
    BY LeaveEnds DEF ForegroundSave
<1> QED BY <1>1, <1>3, <1>4 DEF Registry!Detach, Entries, Phases

LEMMA DownImplements ==
    ASSUME TypeInv, NEW c \in Cmds, CommandInv(c), VisitInv(c), DownSave(c)
    PROVE  Registry!Down(c)
<1>1. /\ pc[c] = "downSave" /\ snap[c] = file /\ req[c].op = "down"
      /\ kept[c] \subseteq {Key(s) : s \in Existing(c)}
      /\ file' = Remaining(c) /\ Phases[c] = "running"
    BY DEF DownSave, CommandInv, FileInv, VisitInv, Phases, PhaseAt
<1> DEFINE Kept == {s \in Existing(c) : Key(s) \in kept[c]}
           left == Entries(Kept)
<1>2. Existing(c) = Matching(file, req[c].cfg, req[c].env)
    BY <1>1 DEF Existing
<1>3. Entries(Existing(c)) = Registry!Scope(req[c])
  <2> DEFINE r == req[c]
  <2>1. Registry!Scope(r) = {e \in Entries(file) : e.cfg = r.cfg /\ r.env \in {AllEnvs, e.env}}
      BY DEF Registry!Scope, Entries
  <2> HIDE DEF r
  <2>2. Entries(Matching(file, r.cfg, r.env)) = Registry!Scope(r)
      BY <2>1, EntriesFilter
  <2> QED BY <1>2, <2>2 DEF r
<1>4. left \in SUBSET Registry!Scope(req[c])
    BY <1>3 DEF Entries
<1>5. left = {} <=> kept[c] = {}
    BY <1>1 DEF Entries
<1>6. Entries(file') = (Entries(file) \ Registry!Scope(req[c])) \cup left
  <2>1. file' = (file \ Existing(c)) \cup Kept
      BY <1>1, <1>2 DEF Remaining, Matching
  <2>2. Entries(file \ Existing(c)) = Entries(file) \ Registry!Scope(req[c])
      BY <1>2 DEF Entries, Entry, Matching, Registry!Scope
  <2>3. Entries(file') = Entries(file \ Existing(c)) \cup Entries(Kept)
      BY <2>1 DEF Entries
  <2> QED BY <2>2, <2>3
<1> HIDE DEF left
<1>7. Registry!End(c, IF left = {} THEN "ok" ELSE "error")
    BY <1>5, LeaveEnds DEF DownSave
<1> QED BY <1>1, <1>4, <1>6, <1>7 DEF Registry!Down, Entries, Phases

-----------------------------------------------------------------------------
(* Every step is a step of the promise, or none that it can see.            *)

LEMMA StepImplements ==
    ASSUME TypeInv, UniqueSessions, NEW c \in Cmds, StartInv(c), CommandInv(c), VisitInv(c),
           Invoke(c) \/ UserStops(c) \/ Crash(c) \/ Step(c)
    PROVE  [Registry!Next]_(Registry!registryVars)
<1>1. CASE Invoke(c)
  <2>1. Phases' = [Phases EXCEPT ![c] = "running"]
    <3>1. pc' = [pc EXCEPT ![c] = "load"]
        BY <1>1 DEF Invoke
    <3>2. PhaseAt("load") = "running"
        BY DEF PhaseAt
    <3> QED BY <3>1, <3>2, PhaseStep
  <2>2. Phases[c] = "idle"
      BY <1>1 DEF Invoke, Phases, PhaseAt
  <2>3. Registry!Begin(c)
      BY <1>1, <2>1, <2>2 DEF Invoke, Registry!Begin, Phases
  <2> QED BY <2>3 DEF Registry!Next
<1>2. CASE Save(c)
    BY <1>2, SaveImplements DEF Registry!Next
<1>3. CASE ForegroundSave(c)
    BY <1>3, ForegroundImplements DEF Registry!Next
<1>4. CASE DownSave(c)
    BY <1>4, DownImplements DEF Registry!Next
<1>5. CASE /\ pc[c] # "idle" /\ UNCHANGED file
           /\ \E r \in {"error", "killed"} : Leave(c, r)
  <2>1. Phases[c] # "idle"
      BY <1>5 DEF Phases, PhaseAt
  <2>2. \E r \in {"error", "killed"} : Registry!End(c, r)
      BY <1>5, LeaveEnds
  <2>3. Registry!Fail(c)
      BY <1>5, <2>1, <2>2 DEF Registry!Fail, Phases
  <2> QED BY <2>3 DEF Registry!Next
<1>6. ASSUME UNCHANGED <<file, req, res>>, NEW stage, pc' = [pc EXCEPT ![c] = stage],
             PhaseAt(stage) = PhaseAt(pc[c])
      PROVE  UNCHANGED Registry!registryVars
  <2>1. Phases' = [Phases EXCEPT ![c] = Phases[c]]
      BY <1>6, PhaseStep DEF Phases
  <2>2. Phases' = Phases
      BY <2>1 DEF Phases
  <2> QED BY <1>6, <2>2 DEF Registry!registryVars, Phases
<1> QED BY <1>1, <1>2, <1>3, <1>4, <1>5, <1>6, RecordStep

LEMMA VisitCorrect ==
    ASSUME Alone, Readable
    PROVE  Spec => []\A c \in Cmds : VisitInv(c)
<1> DEFINE I == \A c \in Cmds : VisitInv(c)
<1>1. Init => I
    BY DEF Init, VisitInv
<1>2. TypeInv /\ I /\ [Next]_vars => I'
  <2> SUFFICES ASSUME TypeInv, I, [Next]_vars PROVE I'
      OBVIOUS
  <2>1. CASE \E c \in Cmds : Invoke(c) \/ UserStops(c) \/ Crash(c) \/ Step(c)
      BY <2>1, VisitStep DEF Alone
  <2>2. CASE Environment \/ UNCHANGED vars
      BY <2>2 DEF Environment, vars, VisitInv, Existing
  <2> QED BY <2>1, <2>2 DEF Next
<1> QED BY <1>1, <1>2, TypeInit, TypeNext, PTL DEF Spec

\* One command at a time is one change to the record, whatever it has stopped
\* and started before it writes, whatever has failed or been undone, and
\* wherever it is killed, as long as the state file can be opened (RunUpCommand,
\* RunForegroundSession, RunDownCommand).
THEOREM RegistryCorrect ==
    ASSUME Alone, Readable
    PROVE  Spec => ImplementsRegistry
<1> DEFINE CI == \A c \in Cmds : CommandInv(c)
           VI == \A c \in Cmds : VisitInv(c)
<1>1. TypeInv /\ UniqueSessions /\ WholeInv /\ CI /\ VI /\ [Next]_vars
      => [Registry!Next]_(Registry!registryVars)
  <2> SUFFICES ASSUME TypeInv, UniqueSessions, WholeInv, CI, VI, [Next]_vars
               PROVE  [Registry!Next]_(Registry!registryVars)
      OBVIOUS
  <2>1. CASE \E c \in Cmds : Invoke(c) \/ UserStops(c) \/ Crash(c) \/ Step(c)
      BY <2>1, StepImplements DEF WholeInv
  <2>2. CASE Environment \/ UNCHANGED vars
      BY <2>2 DEF Environment, vars, Registry!registryVars
  <2> QED BY <2>1, <2>2 DEF Next
<1>2. Init => Registry!Init
  <2> SUFFICES ASSUME Init PROVE Registry!Init
      OBVIOUS
  <2>1. \A s, t \in Entries(file) : Registry!Key(s) = Registry!Key(t) => s = t
    <3>1. \A s, t \in file : Key(s) = Key(t) => s = t
        BY DEF Init
    <3> QED BY <3>1, EntriesFilter DEF Entries
  <2>2. Phases = [c \in Cmds |-> "idle"]
      BY DEF Init, Phases, PhaseAt
  <2> QED BY <2>1, <2>2 DEF Init, Registry!Init, Entries, Phases
<1>3. Spec => [](TypeInv /\ CI)
    BY CommandCorrect
<1>4. Spec => []UniqueSessions
    BY UniqueCorrect
<1>5. Spec => []WholeInv
    BY WholeInvariant
<1>6. Spec => []VI
    BY VisitCorrect
<1> HIDE DEF CI, VI
<1> QED
    BY <1>1, <1>2, <1>3, <1>4, <1>5, <1>6, PTL
    DEF Spec, ImplementsRegistry, Registry!Spec
=============================================================================
