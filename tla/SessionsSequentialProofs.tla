----------------------- MODULE SessionsSequentialProofs -----------------------
(***************************************************************************)
(* Theorems about Sessions when commands do not overlap: for every set of  *)
(* pids, ports, configurations, environments and command lines, and for    *)
(* any number of failures, but not that of opening a state file that is    *)
(* there: LoadState takes it for an empty one, and the next save wipes     *)
(* what it records.  With two commands at once none of the theorems holds  *)
(* of the code: each decides and saves from a snapshot of its own.         *)
(***************************************************************************)
EXTENDS SessionsProofs

\* Only one terminal gives commands.
Alone == \A c, d \in Cmds : c = d

\* A state file that is there can be looked for and opened.
Readable == "unreadable" \notin Faults

-----------------------------------------------------------------------------
(* The inductive invariant.  It follows every kubectl that must not be      *)
(* lost: through the state file, through the forwards a command has in      *)
(* hand, and through its line of sessions to stop.                          *)

\* A kubectl that is alive and has not survived an attempt to stop it.
Tracked(p) == LiveKubectl(p) /\ ~proc[p].spared

\* A list of forwards has one for the kubectl, with the port it was started on:
\* ShouldSignalManagedProcess recognises it.
Holds(fwds, p) == \E i \in DOMAIN fwds : fwds[i].pid = p /\ fwds[i].port = proc[p].port

InFile(p) == \E s \in file : Key(s) = proc[p].key /\ Holds(s.fwds, p)
InLine(c, p) ==
    \E j \in DOMAIN todo[c] : Key(todo[c][j]) = proc[p].key /\ Holds(todo[c][j].fwds, p)

\* The stages in which a session is being built that the file does not know.
Building == {"recheck", "start", "ready", "save", "undo"}

\* What a command has read is what the file still says, and what an attached
\* `up` has saved too.
FileInv(c) ==
    /\ pc[c] \in Building \cup {"preflight", "stopOld", "downStop", "downSave"} => snap[c] = file
    /\ pc[c] \in {"watch", "cleanup", "fgSave"} => file = Without(snap[c], req[c]) \cup {Built(c)}

\* All that an `up` starts or stops has its command line recorded.
ArgvInv(c) ==
    /\ \A i \in DOMAIN own[c] : own[c][i].argv
    /\ pc[c] \in {"stopOld", "undo", "cleanup"} =>
            \A j \in DOMAIN todo[c] : Restartable(todo[c][j])

\* A process is nobody's child but Reaper's or the command's, so a signal is
\* never waited for.
CommandInv(c) ==
    /\ FileInv(c)
    /\ ArgvInv(c)
    /\ ~sig[c]
    /\ pc[c] # "idle" => res[c] = "none"

\* Where a command has the kubectls it must not lose.
KeptInv(c, p) ==
    /\ pc[c] \in Building /\ proc[p].key = Key(req[c]) => Holds(own[c], p)
    /\ pc[c] \in Stopping /\ InScope(proc[p].key, req[c]) =>
            InLine(c, p) \/ (pc[c] = "downStop" /\ proc[p].key \in kept[c])
    /\ pc[c] = "fgSave" => proc[p].key # Key(req[c])
    /\ pc[c] = "downSave" /\ InScope(proc[p].key, req[c]) => proc[p].key \in kept[c]

TrackInv(p) ==
    /\ InFile(p) \/ \E c \in Cmds : pc[c] \in Building /\ proc[p].key = Key(req[c])
    /\ \A c \in Cmds : KeptInv(c, p)

SequentialInv ==
    /\ \A c \in Cmds : CommandInv(c)
    /\ \A p \in Pids : Tracked(p) => TrackInv(p)

-----------------------------------------------------------------------------
(* What a step may do to a tracked kubectl.                                 *)

\* No kubectl comes to be tracked, and none changes its key or its port.
Steady ==
    \A p \in Pids : Tracked(p)' =>
        Tracked(p) /\ proc'[p].key = proc[p].key /\ proc'[p].port = proc[p].port

\* One slot of the table is given up, or keeps what identifies its kubectl.
LEMMA SlotSteady ==
    ASSUME TypeInv, NEW p, NEW slot, proc' = [proc EXCEPT ![p] = slot],
           \/ slot.st \notin LiveStates \/ slot.kind # "kubectl" \/ slot.spared
           \/ Tracked(p) /\ slot.key = proc[p].key /\ slot.port = proc[p].port
    PROVE  Steady
BY DEF TypeInv, TypeOK, TableTypeOK, Steady, Tracked, LiveKubectl, Live

LEMMA EndedUntracked ==
    /\ FreeSlot.st \notin LiveStates
    /\ \A p : Ended(p).st \notin LiveStates
BY DEF FreeSlot, Ended, Zombie, LiveStates

LEMMA SurviveSteady ==
    ASSUME TypeInv, NEW p, Survive(p)
    PROVE  Steady
<1>1. proc \in [Pids -> Process]
    BY DEF TypeInv, TypeOK, TableTypeOK
<1>2. CASE UNCHANGED proc
    BY <1>2 DEF Steady, Tracked, LiveKubectl, Live
<1>3. CASE LiveKubectl(p) /\ proc' = [proc EXCEPT ![p].spared = TRUE]
    BY <1>1, <1>3 DEF Steady, Tracked, LiveKubectl, Live, Process
<1> QED BY <1>2, <1>3 DEF Survive

LEMMA LeaveSteady ==
    ASSUME TypeInv, NEW c, NEW r, Leave(c, r)
    PROVE  Steady
<1>1. proc \in [Pids -> Process]
    BY DEF TypeInv, TypeOK, TableTypeOK
<1>2. \A p \in Pids : Adopted(c)[p].st # "free" =>
            /\ Adopted(c)[p].st = proc[p].st /\ Adopted(c)[p].kind = proc[p].kind
            /\ Adopted(c)[p].key = proc[p].key /\ Adopted(c)[p].port = proc[p].port
            /\ Adopted(c)[p].spared = proc[p].spared
    BY <1>1 DEF Adopted, FreeSlot, Process
<1> QED BY <1>2 DEF Leave, Steady, Tracked, LiveKubectl, Live, LiveStates

LEMMA SameSteady == UNCHANGED proc => Steady
BY DEF Steady, Tracked, LiveKubectl, Live

\* Only the start of a forward brings a kubectl to be tracked.
LEMMA SteadyStep ==
    ASSUME TypeInv, NEW c \in Cmds, Invoke(c) \/ UserStops(c) \/ Crash(c) \/ Step(c),
           ~StartForward(c)
    PROVE  Steady
<1>1. CASE Invoke(c) \/ UserStops(c) \/ Crash(c)
    BY <1>1, SameSteady, LeaveSteady DEF Invoke, UserStops, Crash
<1>2. CASE LoadFails(c) \/ LoadForUp(c) \/ LoadForDown(c) \/ LoadNothing(c)
            \/ PreflightFails(c) \/ PreflightPasses(c)
    BY <1>2, SameSteady, LeaveSteady
    DEF LoadFails, LoadForUp, LoadForDown, LoadNothing, PreflightFails, PreflightPasses
<1>3. CASE StopStep(c)
  <2>1. CASE StopSignals(c)
      BY <2>1, EndedUntracked, SlotSteady DEF StopSignals
  <2>2. CASE ~StopSignals(c)
      BY <1>3, <2>2, SameSteady, SurviveSteady
      DEF StopStep, StopRefused, StopGone, StopReaped, StopFails
  <2> QED BY <2>1, <2>2
<1>4. CASE UpStep(c)
    BY <1>4, SameSteady, LeaveSteady, EndedUntracked, SlotSteady
    DEF UpStep, ReplaceFails, ReplaceStopped, Recheck, StartFails, AllStarted,
        ForwardReady, ForwardDied, ForwardTimesOut, Undone, Save, SaveFails
<1>5. CASE ForwardExited(c)
    BY <1>5, EndedUntracked
    DEF ForwardExited, TypeInv, TypeOK, TableTypeOK, Steady, Tracked, LiveKubectl, Live
<1>6. CASE ForegroundStep(c) /\ ~ForwardExited(c)
    BY <1>6, SameSteady, LeaveSteady
    DEF ForegroundStep, CleanedUp, ForegroundSave, ForegroundSaveFails
<1>7. CASE DownStep(c)
    BY <1>7, SameSteady, LeaveSteady DEF DownStep, DownVisited, DownSave, DownSaveFails
<1> QED BY <1>1, <1>2, <1>3, <1>4, <1>5, <1>6, <1>7 DEF Step

LEMMA SteadyEnvironment ==
    ASSUME TypeInv, Environment
    PROVE  Steady
<1>1. proc \in [Pids -> Process]
    BY DEF TypeInv, TypeOK, TableTypeOK
<1>2. PICK p \in Pids : \/ Listen(p) \/ BindFails(p) \/ Hang(p)
                        \/ Die(p) \/ ForeignStart(p) \/ ForeignExit(p)
    BY DEF Environment, TableStep
<1>3. CASE Listen(p) \/ Hang(p)
  <2>1. PICK st \in LiveStates : proc' = [proc EXCEPT ![p].st = st]
      BY <1>3 DEF Listen, Hang, LiveStates
  <2>2. proc[p].st \in LiveStates
      BY <1>3 DEF Listen, Hang, LiveStates
  <2> QED BY <1>1, <2>1, <2>2 DEF Steady, Tracked, LiveKubectl, Live, Process
<1>4. CASE BindFails(p) \/ Die(p) \/ ForeignExit(p)
    BY <1>4, EndedUntracked, SlotSteady DEF BindFails, Die, ForeignExit
<1>5. CASE ForeignStart(p)
  <2>1. \A q : Foreign(q).kind # "kubectl"
      BY DEF Foreign
  <2> QED BY <1>5, <2>1, SlotSteady DEF ForeignStart
<1> QED BY <1>2, <1>3, <1>4, <1>5

-----------------------------------------------------------------------------
(* The line of sessions to stop.                                            *)

\* However a set of sessions is put in line, each that has forwards is in it.
LEMMA VisitOrdersAll ==
    ASSUME NEW S, IsFiniteSet(S), NEW order \in VisitOrders(S),
           NEW s \in S, s.fwds # <<>>
    PROVE  \E j \in DOMAIN order : order[j] = s
<1> DEFINE T == {t \in S : t.fwds # <<>>}
           D == 1..Cardinality(T)
<1>1. IsFiniteSet(T) /\ Cardinality(T) \in Nat
    BY FS_Subset, FS_CardinalityType
<1>2. order \in [D -> T] /\ \A i, j \in D : i # j => order[i] # order[j]
    BY DEF VisitOrders, SetToSeqs
<1>3. IsFiniteSet(D) /\ Cardinality(D) = Cardinality(T)
    BY <1>1, FS_Interval
<1>4. SUFFICES ASSUME \A j \in D : order[j] # s PROVE FALSE
  <2> HIDE DEF D
  <2> QED BY <1>2
<1>5. s \in T /\ order \in [D -> T \ {s}]
    BY <1>2, <1>4
<1> HIDE DEF D, T
<1>6. IsFiniteSet(T \ {s}) /\ Cardinality(T \ {s}) = Cardinality(T) - 1
    BY <1>1, <1>5, FS_RemoveElement
<1>7. Cardinality(T \ {s}) < Cardinality(D)
    BY <1>1, <1>3, <1>6
<1> QED BY <1>2, <1>3, <1>5, <1>6, <1>7, FS_PigeonHole

\* A list with one more element in front.
LEMMA ConcatHead ==
    ASSUME NEW S, NEW x \in S, NEW t \in Seq(S), NEW w, w = <<x>> \o t
    PROVE  /\ w \in Seq(S)
           /\ Len(w) = 1 + Len(t)
           /\ DOMAIN w = 1..(1 + Len(t))
           /\ w[1] = x
           /\ \A k \in 1..Len(t) : w[k + 1] = t[k]
<1> DEFINE u == <<x>>
<1>1. u \in Seq(S) /\ Len(u) = 1 /\ u[1] = x /\ w = u \o t
    OBVIOUS
<1> HIDE DEF u
<1>2. /\ u \o t \in Seq(S) /\ Len(u \o t) = Len(u) + Len(t)
      /\ \A k \in 1..(Len(u) + Len(t)) :
            (u \o t)[k] = IF k <= Len(u) THEN u[k] ELSE t[k - Len(u)]
    BY <1>1, ConcatProperties
<1>3. Len(t) \in Nat
    BY LenProperties
<1>4. /\ w \in Seq(S) /\ Len(w) = 1 + Len(t)
      /\ \A k \in 1..(1 + Len(t)) : w[k] = IF k <= 1 THEN u[k] ELSE t[k - 1]
    BY <1>1, <1>2
<1>5. DOMAIN w = 1..(1 + Len(t))
    BY <1>4, LenProperties
<1>6. ASSUME NEW k \in 1..Len(t) PROVE w[k + 1] = t[k]
    BY <1>3, <1>4
<1> QED BY <1>1, <1>3, <1>4, <1>5, <1>6

\* The forward that is dealt with is the first; the sessions still to be
\* stopped have every other one, in a session of the same key.
LEMMA RestKeeps ==
    ASSUME NEW sessions \in Seq(Session), NEW j \in DOMAIN sessions,
           NEW i \in DOMAIN sessions[j].fwds,
           ~(j = 1 /\ i = 1)
    PROVE  \E k \in DOMAIN Rest(sessions) :
                /\ Key(Rest(sessions)[k]) = Key(sessions[j])
                /\ \E m \in DOMAIN Rest(sessions)[k].fwds :
                        Rest(sessions)[k].fwds[m] = sessions[j].fwds[i]
<1> DEFINE s == Head(sessions)
           T == Tail(sessions)
           f == sessions[j].fwds[i]
           Goal == \E k \in DOMAIN Rest(sessions) :
                        /\ Key(Rest(sessions)[k]) = Key(sessions[j])
                        /\ \E m \in DOMAIN Rest(sessions)[k].fwds : Rest(sessions)[k].fwds[m] = f
<1>1. /\ Len(sessions) \in Nat /\ DOMAIN sessions = 1..Len(sessions) /\ sessions # <<>>
      /\ s = sessions[1] /\ s \in Session
  <2>1. Len(sessions) \in Nat /\ DOMAIN sessions = 1..Len(sessions) /\ sessions # <<>>
      BY LenProperties, EmptySeq
  <2> QED BY <2>1, HeadTailProperties
<1>2. /\ T \in Seq(Session) /\ Len(T) = Len(sessions) - 1 /\ DOMAIN T = 1..Len(T)
      /\ \A k \in 1..Len(T) : T[k] = sessions[k + 1]
    BY <1>1, HeadTailProperties, LenProperties
<1>3. s.fwds \in Seq(Forward)
    BY <1>1 DEF Session
<1>4. CASE Len(s.fwds) > 1
  <2> DEFINE h == [s EXCEPT !.fwds = Tail(s.fwds)]
             g == s.fwds
  <2>1. g \in Seq(Forward) /\ Len(g) \in Nat /\ DOMAIN g = 1..Len(g) /\ g # <<>>
      BY <1>3, <1>4, LenProperties, EmptySeq
  <2>2. h \in Session /\ Key(h) = Key(s) /\ h.fwds = Tail(g)
    <3> HIDE DEF s
    <3>1. Tail(g) \in Seq(Forward)
        BY <2>1, HeadTailProperties
    <3> QED BY <1>1, <3>1 DEF Session, Key
  <2>3. Rest(sessions) = <<h>> \o T
      BY <1>4 DEF Rest
  <2> HIDE DEF h, T
  <2>4. /\ Len(Rest(sessions)) = 1 + Len(T) /\ DOMAIN Rest(sessions) = 1..(1 + Len(T))
        /\ Rest(sessions)[1] = h
        /\ \A k \in 1..Len(T) : Rest(sessions)[k + 1] = T[k]
      BY <1>2, <2>2, <2>3, ConcatHead
  <2>5. /\ DOMAIN Rest(sessions) = 1..Len(sessions)
        /\ \A k \in 2..Len(sessions) : Rest(sessions)[k] = T[k - 1]
    <3>1. DOMAIN Rest(sessions) = 1..Len(sessions)
        BY <1>1, <1>2, <2>4
    <3>2. ASSUME NEW k \in 2..Len(sessions) PROVE Rest(sessions)[k] = T[k - 1]
      <4>1. k - 1 \in 1..Len(T) /\ (k - 1) + 1 = k
          BY <1>1, <1>2
      <4> QED BY <2>4, <4>1
    <3> QED BY <3>1, <3>2
  <2>6. CASE j = 1
    <3>1. i \in 2..Len(g) /\ f = g[i]
      <4> HIDE DEF g
      <4> QED BY <1>1, <2>1, <2>6 DEF g
    <3> HIDE DEF g, f
    <3>2. /\ Tail(g) \in Seq(Forward) /\ Len(Tail(g)) = Len(g) - 1
          /\ \A k \in 1..(Len(g) - 1) : Tail(g)[k] = g[k + 1]
        BY <2>1, HeadTailProperties
    <3>3. i - 1 \in DOMAIN Tail(g) /\ Tail(g)[i - 1] = f
        BY <2>1, <3>1, <3>2, LenProperties
    <3>4. 1 \in DOMAIN Rest(sessions) /\ Key(Rest(sessions)[1]) = Key(sessions[j])
          /\ Rest(sessions)[1].fwds = Tail(g)
        BY <1>1, <2>2, <2>4, <2>5, <2>6
    <3> QED BY <3>3, <3>4 DEF f
  <2>7. CASE j # 1
    <3>1. j \in 2..Len(sessions) /\ Rest(sessions)[j] = sessions[j]
        BY <1>1, <1>2, <2>5, <2>7
    <3> QED BY <2>5, <3>1
  <2> QED BY <2>6, <2>7
<1>5. CASE ~(Len(s.fwds) > 1)
  <2>1. Rest(sessions) = T
      BY <1>5 DEF Rest
  <2>2. j # 1
    <3>1. CASE j = 1
      <4>1. i \in DOMAIN s.fwds /\ DOMAIN s.fwds = 1..Len(s.fwds) /\ Len(s.fwds) \in Nat
          BY <1>1, <1>3, <3>1, LenProperties
      <4> HIDE DEF s
      <4> QED BY <1>5, <3>1, <4>1
    <3> QED BY <3>1
  <2>3. j - 1 \in DOMAIN Rest(sessions) /\ Rest(sessions)[j - 1] = sessions[j]
      BY <1>1, <1>2, <2>1, <2>2
  <2> QED BY <2>3
<1> QED BY <1>4, <1>5

\* Nothing comes into the line but what was in it.
LEMMA RestForward ==
    ASSUME NEW sessions \in Seq(Session), sessions # <<>>,
           NEW k \in DOMAIN Rest(sessions), NEW m \in DOMAIN Rest(sessions)[k].fwds
    PROVE  \E j \in DOMAIN sessions : \E i \in DOMAIN sessions[j].fwds :
                Rest(sessions)[k].fwds[m] = sessions[j].fwds[i]
<1> DEFINE s == Head(sessions)
           T == Tail(sessions)
           g == s.fwds
<1>1. /\ Len(sessions) \in Nat /\ DOMAIN sessions = 1..Len(sessions) /\ 1 \in DOMAIN sessions
      /\ s = sessions[1] /\ s \in Session
  <2>1. Len(sessions) \in Nat /\ DOMAIN sessions = 1..Len(sessions) /\ 1 \in DOMAIN sessions
      BY LenProperties, EmptySeq
  <2> QED BY <2>1, HeadTailProperties
<1>2. /\ T \in Seq(Session) /\ Len(T) = Len(sessions) - 1 /\ DOMAIN T = 1..Len(T)
      /\ \A i \in 1..Len(T) : T[i] = sessions[i + 1]
    BY <1>1, HeadTailProperties, LenProperties
<1>3. g \in Seq(Forward) /\ Len(g) \in Nat /\ DOMAIN g = 1..Len(g)
  <2>1. g \in Seq(Forward)
      BY <1>1 DEF Session
  <2> QED BY <2>1, LenProperties
<1>4. CASE Len(g) > 1
  <2> DEFINE h == [s EXCEPT !.fwds = Tail(g)]
  <2>1. /\ Tail(g) \in Seq(Forward) /\ DOMAIN Tail(g) = 1..(Len(g) - 1)
        /\ \A i \in 1..(Len(g) - 1) : Tail(g)[i] = g[i + 1]
    <3> HIDE DEF g
    <3>1. g # <<>>
        BY <1>3, <1>4, EmptySeq
    <3>2. /\ Tail(g) \in Seq(Forward) /\ Len(Tail(g)) = Len(g) - 1
          /\ \A i \in 1..(Len(g) - 1) : Tail(g)[i] = g[i + 1]
        BY <1>3, <3>1, HeadTailProperties
    <3> QED BY <3>2, LenProperties
  <2>2. h \in Session /\ h.fwds = Tail(g)
    <3> HIDE DEF s, g
    <3> QED BY <1>1, <2>1 DEF Session
  <2>3. Rest(sessions) = <<h>> \o T
      BY <1>4 DEF Rest
  <2> HIDE DEF h, T, g
  <2>4. /\ DOMAIN Rest(sessions) = 1..(1 + Len(T)) /\ Rest(sessions)[1] = h
        /\ \A l \in 1..Len(T) : Rest(sessions)[l + 1] = T[l]
      BY <1>2, <2>2, <2>3, ConcatHead
  <2>5. k \in 1..Len(sessions) /\ Rest(sessions)[k] = IF k = 1 THEN h ELSE T[k - 1]
    <3>1. k \in 1..Len(sessions)
        BY <1>1, <1>2, <2>4
    <3>2. CASE k # 1
      <4>1. k - 1 \in 1..Len(T) /\ (k - 1) + 1 = k
          BY <1>1, <1>2, <3>1, <3>2
      <4> QED BY <2>4, <3>1, <3>2, <4>1
    <3> QED BY <2>4, <3>1, <3>2
  <2>6. CASE k = 1
    <3>1. m \in 1..(Len(g) - 1) /\ Rest(sessions)[k].fwds[m] = g[m + 1] /\ m + 1 \in DOMAIN g
        BY <1>3, <2>1, <2>2, <2>5, <2>6
    <3> QED BY <1>1, <3>1 DEF g
  <2>7. CASE k # 1
      BY <1>1, <1>2, <2>5, <2>7
  <2> QED BY <2>6, <2>7
<1>5. CASE ~(Len(g) > 1)
  <2>1. Rest(sessions) = T
      BY <1>5 DEF Rest
  <2> QED BY <1>1, <1>2, <2>1
<1> QED BY <1>4, <1>5

-----------------------------------------------------------------------------
(* What one command reads, holds and waits for.                             *)

\* A command that has left has nothing left to answer for.
LEMMA CommandInvLeave ==
    ASSUME TypeInv, NEW c \in Cmds, NEW r, Leave(c, r)
    PROVE  CommandInv(c)'
BY DEF Leave, TypeInv, TypeOK, CommandsTypeOK, CommandInv, FileInv, ArgvInv, Building

\* The forwards of a session the command has started are all in its line.
LEMMA BuiltArgv ==
    ASSUME NEW c \in Cmds, \A i \in DOMAIN own[c] : own[c][i].argv
    PROVE  \A j \in DOMAIN <<Built(c)>> : Restartable(<<Built(c)>>[j])
BY DEF Built, Restartable

LEMMA RestArgv ==
    ASSUME NEW sessions \in Seq(Session), sessions # <<>>,
           \A j \in DOMAIN sessions : Restartable(sessions[j])
    PROVE  \A j \in DOMAIN Rest(sessions) : Restartable(Rest(sessions)[j])
BY RestForward DEF Restartable

LEMMA CommandInvStop ==
    ASSUME Alone, TypeInv, NEW c \in Cmds, CommandInv(c), StopStep(c)
    PROVE  CommandInv(c)'
<1>1. AtTarget(c) /\ UNCHANGED <<file, pc, req, snap, own, mode, res>>
    BY DEF StopStep, StopRefused, StopGone, StopSignals, StopReaped, StopFails
<1>2. NextTarget(c)
  <2>1. CASE StopSignals(c)
    <3>1. Target(c).pid \in Pids
        BY <1>1, TargetType DEF TypeInv, Forward
    <3>2. proc[Target(c).pid].parent \in {c, Reaper}
        BY <3>1 DEF Alone, TypeInv, TypeOK, TableTypeOK, Process
    <3> QED BY <2>1, <3>2 DEF StopSignals
  <2> QED BY <2>1 DEF StopStep, StopRefused, StopGone, StopReaped, StopFails
<1>3. FileInv(c)'
    BY <1>1 DEF CommandInv, FileInv, Built
<1>4. ArgvInv(c)'
  <2>1. todo[c] \in Seq(Session) /\ todo[c] # <<>> /\ todo'[c] = Rest(todo[c])
      BY <1>1, <1>2 DEF TypeInv, TypeOK, CommandsTypeOK, AtTarget, NextTarget
  <2> QED BY <1>1, <2>1, RestArgv DEF CommandInv, ArgvInv
<1>5. ~sig'[c]
    BY <1>2 DEF NextTarget, TypeInv, TypeOK, CommandsTypeOK
<1> QED BY <1>1, <1>3, <1>4, <1>5 DEF CommandInv

LEMMA CommandInvStep ==
    ASSUME Alone, Readable, TypeInv, NEW c \in Cmds, CommandInv(c),
           Invoke(c) \/ UserStops(c) \/ Crash(c) \/ Step(c)
    PROVE  CommandInv(c)'
<1>1. /\ pc \in [Cmds -> Stages] /\ snap \in [Cmds -> SUBSET Session]
      /\ todo \in [Cmds -> Seq(Session)] /\ own \in [Cmds -> Seq(Forward)]
      /\ res \in [Cmds -> Results] /\ IsFiniteSet(file) /\ IsFiniteSet(snap[c])
      /\ file \subseteq Session
    BY DEF TypeInv, TypeOK, CommandsTypeOK, RecordsFinite
<1>2. FileInv(c) /\ ArgvInv(c) /\ ~sig[c] /\ (pc[c] # "idle" => res[c] = "none")
    BY DEF CommandInv
<1>3. CASE Invoke(c)
    BY <1>1, <1>2, <1>3 DEF Invoke, CommandInv, FileInv, ArgvInv, Building
<1>4. CASE LoadForUp(c)
    BY <1>1, <1>2, <1>4 DEF LoadForUp, CommandInv, FileInv, ArgvInv, Building
<1>5. CASE LoadForDown(c)
  <2>1. FileInv(c)'
      BY <1>1, <1>2, <1>5 DEF LoadForDown, FileInv, Building
  <2>2. pc'[c] = "downStop" /\ UNCHANGED <<own, sig, res>> /\ pc[c] = "load"
      BY <1>1, <1>5 DEF LoadForDown
  <2> QED BY <1>2, <2>1, <2>2 DEF CommandInv, ArgvInv
<1>6. CASE PreflightPasses(c)
  <2>1. CASE Existing(c) = {}
      BY <1>1, <1>2, <1>6, <2>1
      DEF PreflightPasses, CommandInv, FileInv, ArgvInv, Building
  <2>2. CASE Existing(c) # {}
    <3>1. PICK order \in VisitOrders(Existing(c)) : todo' = [todo EXCEPT ![c] = order]
        BY <1>6, <2>2 DEF PreflightPasses
    <3>2. Existing(c) \in SUBSET Session /\ IsFiniteSet(Existing(c))
        BY <1>1, FS_Subset DEF Existing, Matching
    <3>3. \A i \in DOMAIN order : order[i] \in Existing(c)
        BY <3>2, VisitOrdersType
    <3>4. \A j \in DOMAIN todo'[c] : Restartable(todo'[c][j])
        BY <1>1, <1>6, <3>1, <3>3 DEF PreflightPasses, Refused
    <3>5. pc'[c] = "stopOld" /\ UNCHANGED <<file, snap, own, sig, res>> /\ pc[c] = "preflight"
        BY <1>1, <1>6, <2>2 DEF PreflightPasses
    <3> QED BY <1>2, <3>4, <3>5 DEF CommandInv, FileInv, ArgvInv, Building
  <2> QED BY <2>1, <2>2
<1>7. CASE StopStep(c)
    BY <1>7, CommandInvStop
<1>8. CASE ReplaceStopped(c) \/ Recheck(c) \/ AllStarted(c) \/ ForwardReady(c)
    BY <1>1, <1>2, <1>8
    DEF ReplaceStopped, Recheck, AllStarted, ForwardReady, CommandInv, FileInv, ArgvInv, Building
<1>9. CASE StartForward(c)
  <2>1. PICK f \in Forward : f.argv /\ own' = [own EXCEPT ![c] = Append(@, f)]
    <3>1. /\ pc[c] = "start" /\ Len(own[c]) + 1 <= Len(Wanted(c))
          /\ \E p \in Pids : own' = [own EXCEPT ![c] =
                Append(@, [port |-> Wanted(c)[Len(own[c]) + 1], pid |-> p, argv |-> TRUE])]
        BY <1>9 DEF StartForward, FreshPids
    <3>2. Wanted(c) \in Seq(Ports)
        BY <3>1, WantedType
    <3>3. Len(own[c]) + 1 \in DOMAIN Wanted(c)
        BY <1>1, <3>1, <3>2, LenProperties
    <3>4. Wanted(c)[Len(own[c]) + 1] \in Ports
        BY <3>2, <3>3, ElementOfSeq, LenProperties
    <3> QED BY <3>1, <3>4 DEF Forward
  <2>2. \A i \in DOMAIN own'[c] : own'[c][i].argv
    <3>1. own'[c] = Append(own[c], f) /\ own[c] \in Seq(Forward)
        BY <1>1, <2>1
    <3>2. \A i \in DOMAIN own[c] : own[c][i].argv
        BY <1>2 DEF ArgvInv
    <3> QED BY <2>1, <3>1, <3>2, AppendProperties, LenProperties
  <2>3. pc'[c] \in {"start", "ready"} /\ UNCHANGED <<file, snap, sig, res>> /\ pc[c] = "start"
      BY <1>1, <1>9 DEF StartForward
  <2> QED BY <1>2, <2>2, <2>3 DEF CommandInv, FileInv, ArgvInv, Building
<1>10. CASE StartFails(c) \/ ForwardDied(c) \/ ForwardTimesOut(c) \/ SaveFails(c)
  <2>1. /\ pc'[c] = "undo" /\ todo'[c] \in {<<>>, <<Built(c)>>}
        /\ UNCHANGED <<file, snap, own, sig, res>> /\ pc[c] \in Building
      BY <1>1, <1>10 DEF StartFails, ForwardDied, ForwardTimesOut, SaveFails, Undo, Building
  <2>2. \A j \in DOMAIN todo'[c] : Restartable(todo'[c][j])
      BY <1>2, <2>1, BuiltArgv DEF ArgvInv
  <2> QED BY <1>2, <2>1, <2>2 DEF CommandInv, FileInv, ArgvInv, Building
<1>11. CASE Undone(c)
  <2>1. CASE \E r : Leave(c, r)
      BY <2>1, CommandInvLeave
  <2>2. CASE /\ pc' = [pc EXCEPT ![c] = "start"] /\ own' = [own EXCEPT ![c] = <<>>]
             /\ UNCHANGED <<file, snap, sig, res>>
      BY <1>1, <1>2, <1>11, <2>2 DEF Undone, CommandInv, FileInv, ArgvInv, Building
  <2> QED BY <1>11, <2>1, <2>2 DEF Undone
<1>12. CASE Save(c)
  <2>1. CASE \E r : Leave(c, r)
      BY <2>1, CommandInvLeave
  <2>2. CASE /\ pc' = [pc EXCEPT ![c] = "watch"]
             /\ UNCHANGED <<req, snap, own, sig, res>>
      BY <1>1, <1>2, <1>12, <2>2 DEF Save, CommandInv, FileInv, ArgvInv, Building, Built
  <2> QED BY <1>12, <2>1, <2>2 DEF Save
<1>13. CASE UserStops(c) \/ ForwardExited(c)
  <2>1. /\ pc'[c] = "cleanup" /\ todo'[c] \in {<<>>, <<Built(c)>>} /\ pc[c] = "watch"
        /\ UNCHANGED <<file, req, snap, own, sig, res>>
      BY <1>1, <1>13 DEF UserStops, ForwardExited
  <2>2. \A j \in DOMAIN todo'[c] : Restartable(todo'[c][j])
      BY <1>2, <2>1, BuiltArgv DEF ArgvInv
  <2> QED BY <1>2, <2>1, <2>2 DEF CommandInv, FileInv, ArgvInv, Building, Built
<1>14. CASE CleanedUp(c) \/ DownVisited(c)
    BY <1>1, <1>2, <1>14
    DEF CleanedUp, DownVisited, CommandInv, FileInv, ArgvInv, Building, Built
<1>15. CASE \/ Crash(c) \/ LoadFails(c) \/ PreflightFails(c) \/ ReplaceFails(c)
            \/ ForegroundSave(c) \/ ForegroundSaveFails(c) \/ DownSave(c) \/ DownSaveFails(c)
    BY <1>15, CommandInvLeave
    DEF Crash, LoadFails, PreflightFails, ReplaceFails, ForegroundSave, ForegroundSaveFails,
        DownSave, DownSaveFails
<1> QED
    BY <1>3, <1>4, <1>5, <1>6, <1>7, <1>8, <1>9, <1>10, <1>11, <1>12, <1>13, <1>14, <1>15
    DEF Step, UpStep, ForegroundStep, DownStep, LoadNothing, Readable, Fault

-----------------------------------------------------------------------------
(* No step loses a kubectl.                                                 *)

\* The kubectl is on its port still, and of its session.
Steadfast(p) == proc'[p].key = proc[p].key /\ proc'[p].port = proc[p].port

LEMMA HoldsSame ==
    ASSUME NEW p, Steadfast(p), NEW c
    PROVE  /\ InFile(p) /\ UNCHANGED file => InFile(p)'
           /\ own'[c] = own[c] => Holds(own[c], p)' = Holds(own[c], p)
           /\ todo'[c] = todo[c] => InLine(c, p)' = InLine(c, p)
BY DEF Steadfast, InFile, Holds, InLine, Key

LEMMA InLineNext ==
    ASSUME NEW c, NEW p, Steadfast(p),
           NEW j \in DOMAIN todo'[c], NEW m \in DOMAIN todo'[c][j].fwds,
           Key(todo'[c][j]) = proc[p].key,
           todo'[c][j].fwds[m].pid = p, todo'[c][j].fwds[m].port = proc[p].port
    PROVE  InLine(c, p)'
BY DEF InLine, Holds, Key, Steadfast

\* The command lines in an `up` name one environment.
LEMMA UpScope ==
    ASSUME TypeInv, NEW c \in Cmds, pc[c] \in UpStages, NEW k
    PROVE  /\ k = Key(req[c]) => InScope(k, req[c])
           /\ k \in Keys /\ InScope(k, req[c]) => k = Key(req[c])
<1>1. req[c] \in Requests /\ req[c].op = "up"
    BY DEF TypeInv, TypeOK, CommandsTypeOK, ControlInv, UpStages
<1>2. req[c].env \in Envs /\ req[c].env # AllEnvs
    BY <1>1, RequestsAssumption, AllEnvsAssumption
<1> QED BY <1>2 DEF InScope, Key, Keys

\* A tracked kubectl has the key of a session.
LEMMA TrackKey ==
    ASSUME TypeInv, NEW p, TrackInv(p)
    PROVE  proc[p].key \in Keys
<1>1. \A s \in file : Key(s) \in Keys
    BY DEF TypeInv, TypeOK, Session, Key, Keys
<1>2. ASSUME NEW c \in Cmds, pc[c] \in Building PROVE Key(req[c]) \in Keys
  <2>1. pc[c] # "idle" /\ pc[c] \in UpStages
      BY <1>2 DEF Building, UpStages
  <2> QED BY <2>1, BuiltType DEF TypeInv, ControlInv
<1> QED BY <1>1, <1>2 DEF TrackInv, InFile

\* Nothing that is said of the kubectl has changed.
LEMMA TrackSame ==
    ASSUME TypeInv, NEW p, TrackInv(p), Steadfast(p),
           UNCHANGED <<file, pc, req, own, todo, kept>>
    PROVE  TrackInv(p)'
<1>1. (InFile(p) \/ \E c \in Cmds : pc[c] \in Building /\ proc[p].key = Key(req[c]))'
    BY HoldsSame DEF TrackInv, Steadfast
<1>2. ASSUME NEW c \in Cmds PROVE KeptInv(c, p)'
    BY <1>2, HoldsSame DEF TrackInv, KeptInv, Steadfast
<1> QED BY <1>1, <1>2 DEF TrackInv

\* When a command leaves, the file must have what it had in hand.
LEMMA TrackLeave ==
    ASSUME Alone, TypeInv, NEW c \in Cmds, NEW r, Leave(c, r), NEW p, InFile(p)'
    PROVE  TrackInv(p)'
<1>1. \A d \in Cmds : pc'[d] = "idle"
    BY DEF Alone, Leave, TypeInv, TypeOK, CommandsTypeOK
<1> QED BY <1>1 DEF TrackInv, KeptInv, Building, Stopping

LEMMA TrackLeaves ==
    ASSUME Alone, Readable, "crash" \notin Faults, TypeInv, NEW c \in Cmds, CommandInv(c),
           NEW p \in Pids, TrackInv(p), Steadfast(p),
           \/ Crash(c) \/ LoadFails(c) \/ PreflightFails(c) \/ ReplaceFails(c)
           \/ ForegroundSave(c) \/ ForegroundSaveFails(c) \/ DownSave(c) \/ DownSaveFails(c)
           \/ (Undone(c) \/ Save(c)) /\ \E r : Leave(c, r)
    PROVE  TrackInv(p)'
<1>1. \E r : Leave(c, r)
    BY DEF Crash, LoadFails, PreflightFails, ReplaceFails, ForegroundSave,
           ForegroundSaveFails, DownSave, DownSaveFails
<1>2. pc[c] \notin Building => InFile(p)
    BY DEF Alone, TrackInv
<1>3. KeptInv(c, p)
    BY DEF TrackInv
<1>4. \A s : Holds(s.fwds, p)' = Holds(s.fwds, p) /\ Key(s)' = Key(s)
    BY DEF Holds, Key, Steadfast
<1>5. CASE \/ Crash(c) \/ LoadFails(c) \/ PreflightFails(c) \/ ReplaceFails(c)
           \/ ForegroundSaveFails(c) \/ DownSaveFails(c)
  <2>1. pc[c] \notin Building /\ UNCHANGED file
      BY <1>5
      DEF Crash, Fault, LoadFails, PreflightFails, ReplaceFails, ForegroundSaveFails,
          DownSaveFails, Building
  <2> QED BY <1>1, <1>2, <2>1, HoldsSame, TrackLeave
<1>6. CASE Undone(c)
  <2>1. pc[c] = "undo" /\ todo[c] = <<>> /\ UNCHANGED file
      BY <1>6 DEF Undone
  <2>2. ~InLine(c, p)
      BY <2>1 DEF InLine
  <2>3. proc[p].key # Key(req[c])
      BY <1>3, <2>1, <2>2, UpScope DEF KeptInv, Stopping, UpStages
  <2>4. InFile(p)
      BY <2>3 DEF Alone, TrackInv
  <2> QED BY <1>1, <2>1, <2>4, HoldsSame, TrackLeave
<1>7. CASE Save(c)
  <2>1. pc[c] = "save" /\ snap[c] = file /\ file' = Without(snap[c], req[c]) \cup {Built(c)}
      BY <1>7 DEF Save, CommandInv, FileInv, Building
  <2>2. CASE proc[p].key = Key(req[c])
    <3>1. Holds(own[c], p)
        BY <1>3, <2>1, <2>2 DEF KeptInv, Building
    <3>2. Built(c) \in file' /\ Key(Built(c)) = proc[p].key /\ Holds(Built(c).fwds, p)
        BY <2>1, <2>2, <3>1 DEF Built, Key
    <3>3. InFile(p)'
        BY <1>4, <3>2 DEF InFile, Steadfast
    <3> QED BY <1>1, <3>3, TrackLeave
  <2>3. CASE proc[p].key # Key(req[c])
    <3>1. PICK s \in file : Key(s) = proc[p].key /\ Holds(s.fwds, p)
        BY <2>3 DEF Alone, TrackInv, InFile
    <3>2. s \in file'
        BY <2>1, <2>3, <3>1 DEF Without
    <3>3. InFile(p)'
        BY <1>4, <3>1, <3>2 DEF InFile, Steadfast
    <3> QED BY <1>1, <3>3, TrackLeave
  <2> QED BY <2>2, <2>3
<1>8. CASE ForegroundSave(c)
  <2>1. /\ pc[c] = "fgSave" /\ file' = Without(snap[c], req[c])
        /\ file = Without(snap[c], req[c]) \cup {Built(c)}
      BY <1>8 DEF ForegroundSave, CommandInv, FileInv
  <2>2. PICK s \in file : Key(s) = proc[p].key /\ Holds(s.fwds, p)
      BY <1>2, <2>1 DEF InFile, Building
  <2>3. Key(Built(c)) = Key(req[c]) /\ proc[p].key # Key(req[c])
      BY <1>3, <2>1 DEF KeptInv, Built, Key
  <2>4. s \in file'
      BY <2>1, <2>2, <2>3
  <2>5. InFile(p)'
      BY <1>4, <2>2, <2>4 DEF InFile, Steadfast
  <2> QED BY <1>1, <2>5, TrackLeave
<1>9. CASE DownSave(c)
  <2>1. pc[c] = "downSave" /\ snap[c] = file /\ file' = Remaining(c)
      BY <1>9 DEF DownSave, CommandInv, FileInv
  <2>2. PICK s \in file : Key(s) = proc[p].key /\ Holds(s.fwds, p)
      BY <1>2, <2>1 DEF InFile, Building
  <2>3. s \in Existing(c) => InScope(proc[p].key, req[c])
      BY <2>2 DEF Existing, Matching, InScope, Key
  <2>4. s \in file'
      BY <1>3, <2>1, <2>2, <2>3 DEF Remaining, KeptInv
  <2>5. InFile(p)'
      BY <1>4, <2>2, <2>4 DEF InFile, Steadfast
  <2> QED BY <1>1, <2>5, TrackLeave
<1> QED BY <1>5, <1>6, <1>7, <1>8, <1>9

\* What is dealt with next is ended, has survived, or is kept by `down`.
LEMMA TargetTracked ==
    ASSUME Alone, TypeInv, NEW c \in Cmds, CommandInv(c), StopStep(c),
           NEW p \in Pids, Tracked(p), Tracked(p)',
           Target(c).pid = p, Target(c).port = proc[p].port
    PROVE  ~Target(c).argv /\ Key(Head(todo[c])) \in kept'[c]
<1>1. proc \in [Pids -> Process] /\ kept \in [Cmds -> SUBSET Keys]
    BY DEF TypeInv, TypeOK, TableTypeOK, CommandsTypeOK
<1>2. LiveKubectl(p) /\ Exists(p) /\ proc[p].st # "zombie"
    BY DEF Tracked, LiveKubectl, Live, LiveStates, Exists
<1>3. ~Survive(p)
  <2>1. CASE proc' = [proc EXCEPT ![p].spared = TRUE]
    <3>1. proc'[p].spared
        BY <1>1, <2>1 DEF Process
    <3> QED BY <3>1 DEF Tracked
  <2> QED BY <1>2, <2>1 DEF Survive
<1>4. ~StopSignals(c)
  <2>1. proc[p].parent \in {c, Reaper}
      BY <1>1 DEF Alone, Process
  <2>2. CASE StopSignals(c)
    <3>1. proc' = [proc EXCEPT ![p] = FreeSlot]
        BY <2>1, <2>2 DEF StopSignals
    <3> QED BY <1>1, <3>1, EndedUntracked DEF Tracked, LiveKubectl, Live
  <2> QED BY <2>2
<1>5. ~sig[c]
    BY DEF CommandInv
<1>6. ~StopGone(c) /\ ~StopReaped(c) /\ ~StopFails(c)
    BY <1>2, <1>3, <1>5 DEF StopGone, StopReaped, StopFails
<1>7. ~ShouldSignal(Target(c)) /\ Keep(c)
    BY <1>3, <1>4, <1>6 DEF StopStep, StopRefused
<1>8. proc[p].port \in Ports
    BY TargetType DEF TypeInv, Forward, StopStep, StopRefused, StopGone, StopSignals,
       StopReaped, StopFails
<1> QED BY <1>1, <1>2, <1>7, <1>8, WithinAssumption DEF ShouldSignal, Recognises, Keep

LEMMA TrackStop ==
    ASSUME Alone, TypeInv, NEW c \in Cmds, CommandInv(c), StopStep(c),
           NEW p \in Pids, TrackInv(p), Steadfast(p), Tracked(p), Tracked(p)'
    PROVE  TrackInv(p)'
<1>1. AtTarget(c) /\ UNCHANGED <<file, pc, req, snap, own>>
    BY DEF StopStep, StopRefused, StopGone, StopSignals, StopReaped, StopFails
<1>2. todo[c] \in Seq(Session) /\ todo[c] # <<>>
    BY <1>1 DEF TypeInv, TypeOK, CommandsTypeOK, AtTarget
<1>3. /\ kept[c] \subseteq kept'[c]
      /\ todo'[c] = todo[c] \/ todo'[c] = Rest(todo[c])
    BY DEF TypeInv, TypeOK, CommandsTypeOK, StopStep, StopRefused, StopGone, StopSignals,
           StopReaped, StopFails, Keep, NextTarget
<1>4. ASSUME InLine(c, p)
      PROVE  InLine(c, p)' \/ (pc[c] = "downStop" /\ proc[p].key \in kept'[c])
  <2>1. CASE todo'[c] = todo[c]
      BY <1>4, <2>1, HoldsSame
  <2>2. CASE todo'[c] = Rest(todo[c])
    <3>0. PICK j \in DOMAIN todo[c] :
            Key(todo[c][j]) = proc[p].key /\ Holds(todo[c][j].fwds, p)
        BY <1>4 DEF InLine
    <3>1. PICK i \in DOMAIN todo[c][j].fwds :
            /\ Key(todo[c][j]) = proc[p].key
            /\ todo[c][j].fwds[i].pid = p /\ todo[c][j].fwds[i].port = proc[p].port
        BY <3>0 DEF Holds
    <3>2. CASE ~(j = 1 /\ i = 1)
      <4>1. PICK k \in DOMAIN todo'[c] :
                /\ Key(todo'[c][k]) = Key(todo[c][j])
                /\ \E m \in DOMAIN todo'[c][k].fwds : todo'[c][k].fwds[m] = todo[c][j].fwds[i]
          BY <1>2, <2>2, <3>2, RestKeeps
      <4>2. PICK m \in DOMAIN todo'[c][k].fwds : todo'[c][k].fwds[m] = todo[c][j].fwds[i]
          BY <4>1
      <4> QED BY <3>1, <4>1, <4>2, InLineNext
    <3>3. CASE j = 1 /\ i = 1
      <4>1. Head(todo[c]) = todo[c][1] /\ todo[c][1] \in Session
          BY <1>2, <3>3, HeadTailProperties, ElementOfSeq, LenProperties
      <4>2. Target(c) = todo[c][1].fwds[1]
        <5> DEFINE g == todo[c][1].fwds
        <5>1. g \in Seq(Forward) /\ 1 \in DOMAIN g
            BY <3>1, <3>3, <4>1 DEF Session
        <5> HIDE DEF g
        <5>2. g # <<>> /\ Head(g) = g[1]
            BY <5>1, EmptySeq, LenProperties, HeadTailProperties
        <5>3. Target(c) = Head(g)
            BY <4>1 DEF Target, g
        <5> QED BY <5>2, <5>3 DEF g
      <4>3. ~Target(c).argv /\ Key(Head(todo[c])) \in kept'[c]
          BY <3>1, <3>3, <4>2, TargetTracked
      <4>4. pc[c] \notin {"stopOld", "undo", "cleanup"}
          BY <3>1, <3>3, <4>2, <4>3 DEF CommandInv, ArgvInv, Restartable
      <4> QED BY <1>1, <3>1, <3>3, <4>1, <4>3, <4>4 DEF AtTarget, Stopping
    <3> QED BY <3>2, <3>3
  <2> QED BY <1>3, <2>1, <2>2
<1>5. KeptInv(c, p)'
    BY <1>1, <1>3, <1>4, HoldsSame DEF TrackInv, KeptInv, Steadfast, InScope, Key
<1>6. (InFile(p) \/ \E d \in Cmds : pc[d] \in Building /\ proc[p].key = Key(req[d]))'
    BY <1>1, HoldsSame DEF TrackInv, Steadfast, Key
<1> QED BY <1>5, <1>6 DEF Alone, TrackInv

\* What is still to be shown of a step in which a command does not leave.
LEMMA TrackCommand ==
    ASSUME Alone, NEW c \in Cmds, NEW p, KeptInv(c, p)',
           InFile(p)' \/ (pc'[c] \in Building /\ proc'[p].key = Key(req'[c]))
    PROVE  TrackInv(p)'
<1>1. (InFile(p) \/ \E d \in Cmds : pc[d] \in Building /\ proc[p].key = Key(req[d]))'
    BY DEF Key
<1> QED BY <1>1 DEF Alone, TrackInv

\* A command puts in line the sessions of the file that are in its scope.
LEMMA TrackVisit ==
    ASSUME TypeInv, NEW c \in Cmds, NEW p, InFile(p), Steadfast(p),
           NEW order \in VisitOrders(Matching(file, req[c].cfg, req[c].env)),
           todo'[c] = order, InScope(proc[p].key, req[c])
    PROVE  InLine(c, p)'
<1> DEFINE S == Matching(file, req[c].cfg, req[c].env)
<1>1. PICK s \in file : Key(s) = proc[p].key /\ Holds(s.fwds, p)
    BY DEF InFile
<1>2. s \in S
    BY <1>1 DEF Matching, InScope, Key
<1>3. s.fwds # <<>>
    BY <1>1 DEF Holds
<1>4. IsFiniteSet(S)
    BY FS_Subset DEF Matching, TypeInv, RecordsFinite
<1> HIDE DEF S
<1>5. PICK j \in DOMAIN order : order[j] = s
    BY <1>2, <1>3, <1>4, VisitOrdersAll DEF S
<1>6. j \in DOMAIN todo'[c] /\ todo'[c][j] = s
    BY <1>5
<1>7. PICK m \in DOMAIN s.fwds : s.fwds[m].pid = p /\ s.fwds[m].port = proc[p].port
    BY <1>1 DEF Holds
<1> QED BY <1>1, <1>6, <1>7, InLineNext

\* All that a command has started is put in line to be stopped.
LEMMA TrackUndo ==
    ASSUME NEW c \in Cmds, NEW p, Steadfast(p), Holds(own[c], p), proc[p].key = Key(req[c]),
           todo'[c] = (IF own[c] = <<>> THEN <<>> ELSE <<Built(c)>>) \/ todo'[c] = <<Built(c)>>
    PROVE  InLine(c, p)'
<1>1. own[c] # <<>>
    BY DEF Holds
<1>2. todo'[c] = <<Built(c)>>
    BY <1>1
<1>3. 1 \in DOMAIN todo'[c] /\ todo'[c][1] = Built(c)
    BY <1>2
<1>4. Key(Built(c)) = Key(req[c]) /\ Built(c).fwds = own[c]
    BY DEF Built, Key
<1>5. Key(todo'[c][1]) = proc[p].key /\ todo'[c][1].fwds = own[c]
    BY <1>3, <1>4
<1>6. PICK m \in DOMAIN own[c] : own[c][m].pid = p /\ own[c][m].port = proc[p].port
    BY DEF Holds
<1> QED BY <1>3, <1>5, <1>6, InLineNext

\* The other steps of a command that stays: it loads, decides, and moves on.
LEMMA TrackOn ==
    ASSUME Alone, TypeInv, NEW c \in Cmds, CommandInv(c),
           NEW p \in Pids, TrackInv(p), Steadfast(p),
           \/ Invoke(c) \/ UserStops(c) \/ LoadForUp(c) \/ LoadForDown(c) \/ PreflightPasses(c)
           \/ ReplaceStopped(c) \/ Recheck(c) \/ AllStarted(c) \/ ForwardReady(c)
           \/ StartFails(c) \/ ForwardDied(c) \/ ForwardTimesOut(c) \/ SaveFails(c)
           \/ ForwardExited(c) \/ CleanedUp(c) \/ DownVisited(c)
           \/ (Undone(c) \/ Save(c)) /\ ~\E r : Leave(c, r)
    PROVE  TrackInv(p)'
<1>1. /\ pc \in [Cmds -> Stages] /\ snap \in [Cmds -> SUBSET Session]
      /\ req \in [Cmds -> Requests \cup {NoRequest}]
      /\ todo \in [Cmds -> Seq(Session)] /\ own \in [Cmds -> Seq(Forward)]
      /\ kept \in [Cmds -> SUBSET Keys]
    BY DEF TypeInv, TypeOK, CommandsTypeOK
<1>2. /\ KeptInv(c, p) /\ FileInv(c) /\ proc[p].key \in Keys
      /\ InFile(p) \/ (pc[c] \in Building /\ proc[p].key = Key(req[c]))
    BY TrackKey DEF Alone, CommandInv, TrackInv
<1>3. CASE Invoke(c) \/ LoadForUp(c)
  <2>1. pc[c] \notin Building /\ pc'[c] \in {"load", "preflight"} /\ UNCHANGED file
      BY <1>1, <1>3 DEF Invoke, LoadForUp, Building
  <2>2. KeptInv(c, p)'
      BY <2>1 DEF KeptInv, Building, Stopping
  <2> QED BY <1>2, <2>1, <2>2, HoldsSame, TrackCommand
<1>4. CASE LoadForDown(c)
  <2>1. /\ pc[c] = "load" /\ pc'[c] = "downStop" /\ UNCHANGED <<file, req>>
        /\ \E order \in VisitOrders(Matching(file, req[c].cfg, req[c].env)) : todo'[c] = order
      BY <1>1, <1>4 DEF LoadForDown
  <2>2. InFile(p)
      BY <1>2, <2>1 DEF Building
  <2>3. InScope(proc[p].key, req[c]) => InLine(c, p)'
      BY <2>1, <2>2, TrackVisit
  <2>4. KeptInv(c, p)'
      BY <2>1, <2>3 DEF KeptInv, Building, Steadfast, InScope
  <2> QED BY <2>1, <2>2, <2>4, HoldsSame, TrackCommand
<1>5. CASE PreflightPasses(c)
  <2>1. pc[c] = "preflight" /\ UNCHANGED <<file, req, snap, own>> /\ snap[c] = file
      BY <1>2, <1>5 DEF PreflightPasses, FileInv
  <2>2. InFile(p) /\ InFile(p)'
      BY <1>2, <2>1, HoldsSame DEF Building
  <2>3. Existing(c) = Matching(file, req[c].cfg, req[c].env)
      BY <2>1 DEF Existing
  <2>4. CASE Existing(c) = {}
    <3>1. pc'[c] = "start"
        BY <1>1, <1>5, <2>4 DEF PreflightPasses
    <3>2. proc[p].key # Key(req[c])
        BY <2>2, <2>3, <2>4 DEF InFile, Matching, Key
    <3>3. KeptInv(c, p)'
        BY <2>1, <3>1, <3>2 DEF KeptInv, Stopping, Steadfast, Key
    <3> QED BY <2>2, <3>3, TrackCommand
  <2>5. CASE Existing(c) # {}
    <3>1. /\ pc'[c] = "stopOld"
          /\ \E order \in VisitOrders(Matching(file, req[c].cfg, req[c].env)) : todo'[c] = order
        BY <1>1, <1>5, <2>3, <2>5 DEF PreflightPasses
    <3>2. InScope(proc[p].key, req[c]) => InLine(c, p)'
        BY <2>2, <3>1, TrackVisit
    <3>3. KeptInv(c, p)'
        BY <2>1, <3>1, <3>2 DEF KeptInv, Building, Steadfast, InScope
    <3> QED BY <2>2, <3>3, TrackCommand
  <2> QED BY <2>4, <2>5
<1>6. CASE ReplaceStopped(c)
  <2>1. /\ pc[c] = "stopOld" /\ todo[c] = <<>> /\ pc'[c] = "recheck"
        /\ UNCHANGED <<file, req, own>>
      BY <1>1, <1>6 DEF ReplaceStopped
  <2>2. ~InLine(c, p)
      BY <2>1 DEF InLine
  <2>3. proc[p].key # Key(req[c])
      BY <1>2, <2>1, <2>2, UpScope DEF KeptInv, Stopping, UpStages
  <2>4. KeptInv(c, p)'
      BY <2>1, <2>3 DEF KeptInv, Stopping, Steadfast, Key
  <2> QED BY <1>2, <2>1, <2>3, <2>4, HoldsSame, TrackCommand
<1>7. CASE Recheck(c) \/ AllStarted(c) \/ ForwardReady(c)
  <2>1. /\ pc[c] \in Building /\ pc'[c] \in {"start", "save"}
        /\ UNCHANGED <<file, req, own>>
      BY <1>1, <1>7 DEF Recheck, AllStarted, ForwardReady, Building
  <2>2. KeptInv(c, p)'
      BY <1>2, <2>1, HoldsSame DEF KeptInv, Stopping, Steadfast, Key
  <2>3. InFile(p)' \/ (pc'[c] \in Building /\ proc'[p].key = Key(req'[c]))
      BY <1>2, <2>1, HoldsSame DEF Building, Steadfast
  <2> QED BY <2>2, <2>3, TrackCommand
<1>8. CASE StartFails(c) \/ ForwardDied(c) \/ ForwardTimesOut(c) \/ SaveFails(c)
  <2>1. /\ pc[c] \in Building /\ pc[c] \in UpStages /\ pc'[c] = "undo"
        /\ UNCHANGED <<file, req, own>>
        /\ todo'[c] = IF own[c] = <<>> THEN <<>> ELSE <<Built(c)>>
      BY <1>1, <1>8
      DEF StartFails, ForwardDied, ForwardTimesOut, SaveFails, Undo, Building, UpStages
  <2>2. proc[p].key = Key(req[c]) => Holds(own[c], p) /\ InLine(c, p)'
      BY <1>2, <2>1, TrackUndo DEF KeptInv
  <2>3. InScope(proc[p].key, req[c]) => proc[p].key = Key(req[c])
      BY <1>2, <2>1, UpScope
  <2>4. KeptInv(c, p)'
      BY <2>1, <2>2, <2>3, HoldsSame DEF KeptInv, Steadfast, Key, InScope
  <2>5. InFile(p)' \/ (pc'[c] \in Building /\ proc'[p].key = Key(req'[c]))
      BY <1>2, <2>1, HoldsSame DEF Building, Steadfast
  <2> QED BY <2>4, <2>5, TrackCommand
<1>9. CASE Undone(c) /\ ~\E r : Leave(c, r)
  <2>1. /\ pc[c] = "undo" /\ todo[c] = <<>> /\ pc'[c] = "start" /\ UNCHANGED <<file, req>>
      BY <1>1, <1>9 DEF Undone
  <2>2. ~InLine(c, p)
      BY <2>1 DEF InLine
  <2>3. proc[p].key # Key(req[c])
      BY <1>2, <2>1, <2>2, UpScope DEF KeptInv, Stopping, UpStages
  <2>4. KeptInv(c, p)'
      BY <2>1, <2>3 DEF KeptInv, Stopping, Steadfast, Key
  <2> QED BY <1>2, <2>1, <2>3, <2>4, HoldsSame, TrackCommand
<1>10. CASE Save(c) /\ ~\E r : Leave(c, r)
  <2>1. /\ pc[c] = "save" /\ pc'[c] = "watch" /\ UNCHANGED <<req, own>>
        /\ snap[c] = file /\ file' = Without(snap[c], req[c]) \cup {Built(c)}
      BY <1>1, <1>2, <1>10 DEF Save, FileInv, Building
  <2>2. KeptInv(c, p)'
      BY <2>1 DEF KeptInv, Building, Stopping
  <2>3. CASE proc[p].key = Key(req[c])
    <3>1. Built(c) \in file' /\ Key(Built(c)) = proc[p].key /\ Built(c).fwds = own[c]
        BY <2>1, <2>3 DEF Built, Key
    <3>2. Holds(own[c], p)
        BY <1>2, <2>1, <2>3 DEF KeptInv, Building
    <3>3. InFile(p)'
        BY <3>1, <3>2 DEF InFile, Holds, Steadfast, Key
    <3> QED BY <2>2, <3>3, TrackCommand
  <2>4. CASE proc[p].key # Key(req[c])
    <3>1. PICK s \in file : Key(s) = proc[p].key /\ Holds(s.fwds, p)
        BY <1>2, <2>4 DEF InFile
    <3>2. s \in file'
        BY <2>1, <2>4, <3>1 DEF Without
    <3>3. InFile(p)'
        BY <3>1, <3>2 DEF InFile, Holds, Steadfast, Key
    <3> QED BY <2>2, <3>3, TrackCommand
  <2> QED BY <2>3, <2>4
<1>11. CASE UserStops(c) \/ ForwardExited(c)
  <2>1. /\ pc[c] = "watch" /\ pc'[c] = "cleanup" /\ UNCHANGED <<file, req, own>>
        /\ \/ todo'[c] = (IF own[c] = <<>> THEN <<>> ELSE <<Built(c)>>)
           \/ todo'[c] = <<Built(c)>>
        /\ file = Without(snap[c], req[c]) \cup {Built(c)}
      BY <1>1, <1>2, <1>11 DEF UserStops, ForwardExited, FileInv
  <2>2. PICK s \in file : Key(s) = proc[p].key /\ Holds(s.fwds, p)
      BY <1>2, <2>1 DEF InFile, Building
  <2>3. proc[p].key = Key(req[c]) => Holds(own[c], p)
      BY <2>1, <2>2 DEF Without, Built
  <2>4. proc[p].key = Key(req[c]) => InLine(c, p)'
      BY <2>1, <2>3, TrackUndo
  <2>5. InScope(proc[p].key, req[c]) => proc[p].key = Key(req[c])
      BY <1>2, <2>1, UpScope DEF UpStages
  <2>6. KeptInv(c, p)'
      BY <2>1, <2>4, <2>5 DEF KeptInv, Building, Steadfast, InScope
  <2> QED BY <1>2, <2>1, <2>6, HoldsSame, TrackCommand DEF Building
<1>12. CASE CleanedUp(c)
  <2>1. /\ pc[c] = "cleanup" /\ todo[c] = <<>> /\ pc'[c] = "fgSave"
        /\ UNCHANGED <<file, req>>
      BY <1>1, <1>12 DEF CleanedUp
  <2>2. ~InLine(c, p)
      BY <2>1 DEF InLine
  <2>3. proc[p].key # Key(req[c])
      BY <1>2, <2>1, <2>2, UpScope DEF KeptInv, Stopping, UpStages
  <2>4. KeptInv(c, p)'
      BY <2>1, <2>3 DEF KeptInv, Building, Stopping, Steadfast, Key
  <2> QED BY <1>2, <2>1, <2>4, HoldsSame, TrackCommand DEF Building
<1>13. CASE DownVisited(c)
  <2>1. /\ pc[c] = "downStop" /\ todo[c] = <<>> /\ pc'[c] = "downSave"
        /\ UNCHANGED <<file, req, kept>>
      BY <1>1, <1>13 DEF DownVisited
  <2>2. ~InLine(c, p)
      BY <2>1 DEF InLine
  <2>3. KeptInv(c, p)'
      BY <1>2, <2>1, <2>2 DEF KeptInv, Building, Stopping, Steadfast, InScope
  <2> QED BY <1>2, <2>1, <2>3, HoldsSame, TrackCommand DEF Building
<1> QED BY <1>3, <1>4, <1>5, <1>6, <1>7, <1>8, <1>9, <1>10, <1>11, <1>12, <1>13

\* A list with one more forward at its end holds what it held, and the new one.
LEMMA HoldsAppend ==
    ASSUME NEW fwds \in Seq(Forward), NEW f \in Forward, NEW p
    PROVE  /\ Holds(fwds, p) => Holds(Append(fwds, f), p)
           /\ f.pid = p /\ f.port = proc[p].port => Holds(Append(fwds, f), p)
<1>1. /\ DOMAIN Append(fwds, f) = 1..(Len(fwds) + 1) /\ DOMAIN fwds = 1..Len(fwds)
      /\ Append(fwds, f)[Len(fwds) + 1] = f
      /\ \A i \in 1..Len(fwds) : Append(fwds, f)[i] = fwds[i]
      /\ Len(fwds) \in Nat
    BY AppendProperties, LenProperties
<1>2. ASSUME Holds(fwds, p) PROVE Holds(Append(fwds, f), p)
  <2>1. PICK i \in 1..Len(fwds) : fwds[i].pid = p /\ fwds[i].port = proc[p].port
      BY <1>1, <1>2 DEF Holds
  <2>2. i \in DOMAIN Append(fwds, f) /\ Append(fwds, f)[i] = fwds[i]
      BY <1>1
  <2> QED BY <2>1, <2>2 DEF Holds
<1>3. ASSUME f.pid = p, f.port = proc[p].port PROVE Holds(Append(fwds, f), p)
  <2>1. Len(fwds) + 1 \in DOMAIN Append(fwds, f)
      BY <1>1
  <2> QED BY <1>1, <1>3, <2>1 DEF Holds
<1> QED BY <1>2, <1>3

\* The forward that is started is in the hands of the command at once.
LEMMA TrackStart ==
    ASSUME Alone, TypeInv, NEW c \in Cmds, StartForward(c),
           NEW p \in Pids, Tracked(p) => TrackInv(p), Tracked(p)'
    PROVE  TrackInv(p)'
<1> DEFINE q == Wanted(c)[Len(own[c]) + 1]
<1>1. /\ pc[c] = "start" /\ pc'[c] \in {"start", "ready"} /\ UNCHANGED <<file, req>>
      /\ own[c] \in Seq(Forward) /\ proc \in [Pids -> Process]
    BY DEF StartForward, TypeInv, TypeOK, TableTypeOK, CommandsTypeOK
<1>2. q \in Ports
  <2>1. Wanted(c) \in Seq(Ports)
      BY <1>1, WantedType
  <2>2. Len(own[c]) + 1 \in DOMAIN Wanted(c)
      BY <1>1, <2>1, LenProperties DEF StartForward
  <2> QED BY <2>1, <2>2, ElementOfSeq, LenProperties
<1>3. PICK o \in Pids :
        /\ proc' = [proc EXCEPT ![o] = Kubectl(c, q, Key(req[c]))]
        /\ own' = [own EXCEPT ![c] = Append(@, [port |-> q, pid |-> o, argv |-> TRUE])]
    BY DEF StartForward, FreshPids
<1> DEFINE f == [port |-> q, pid |-> o, argv |-> TRUE]
<1> HIDE DEF q
<1>4. f \in Forward /\ f.pid = o /\ f.port = q
    BY <1>2 DEF Forward
<1>5. own'[c] = Append(own[c], f)
    BY <1>3 DEF TypeInv, TypeOK, CommandsTypeOK
<1> HIDE DEF f
<1>6. CASE p = o
  <2>1. proc'[p].key = Key(req[c]) /\ proc'[p].port = q
      BY <1>1, <1>3, <1>6 DEF Kubectl
  <2>2. Holds(own[c], p)'
    <3>1. Len(own[c]) + 1 \in DOMAIN own'[c] /\ own'[c][Len(own[c]) + 1] = f
        BY <1>1, <1>4, <1>5, AppendProperties, LenProperties
    <3> QED BY <1>4, <1>6, <2>1, <3>1 DEF Holds
  <2>3. KeptInv(c, p)'
      BY <1>1, <2>2 DEF KeptInv, Stopping
  <2> QED BY <1>1, <2>1, <2>3, TrackCommand DEF Building
<1>7. CASE p # o
  <2>1. proc'[p] = proc[p]
      BY <1>1, <1>3, <1>7
  <2>2. Tracked(p) /\ Steadfast(p)
      BY <2>1 DEF Tracked, LiveKubectl, Live, Steadfast
  <2>3. Holds(own[c], p) => Holds(own[c], p)'
    <3>1. Holds(own[c], p) => Holds(own'[c], p)
        BY <1>1, <1>4, <1>5, HoldsAppend
    <3> QED BY <2>1, <3>1 DEF Holds
  <2>4. KeptInv(c, p) /\ KeptInv(c, p)'
      BY <1>1, <2>2, <2>3 DEF TrackInv, KeptInv, Building, Stopping, Steadfast, Key
  <2>5. InFile(p)' \/ (pc'[c] \in Building /\ proc'[p].key = Key(req'[c]))
      BY <1>1, <2>2, HoldsSame DEF Alone, TrackInv, Building, Steadfast
  <2> QED BY <2>4, <2>5, TrackCommand
<1> QED BY <1>6, <1>7

-----------------------------------------------------------------------------
(* The invariant is inductive.                                              *)

LEMMA SequentialInit == Init => SequentialInv
<1> SUFFICES ASSUME Init PROVE SequentialInv
    OBVIOUS
<1>1. ASSUME NEW c \in Cmds PROVE pc[c] = "idle" /\ CommandInv(c)
    BY DEF Init, CommandInv, FileInv, ArgvInv, Building
<1>2. ASSUME NEW p \in Pids, Tracked(p) PROVE TrackInv(p)
  <2>1. PICK k \in Keys, q \in Ports, o \in Pids :
            /\ file = {LegacyRecord(k, q, o)}
            /\ proc = [r \in Pids |->
                        IF r # o THEN FreeSlot
                        ELSE [Kubectl(Reaper, q, k) EXCEPT !.st = "listening"]]
      BY <1>2, EndedUntracked DEF Init, Tracked, LiveKubectl, Live
  <2>2. p = o
      BY <1>2, <2>1, EndedUntracked DEF Tracked, LiveKubectl, Live
  <2>3. proc[p].key = k /\ proc[p].port = q
      BY <2>1, <2>2 DEF Kubectl
  <2> DEFINE s == LegacyRecord(k, q, o)
  <2>4. Key(s) = k /\ 1 \in DOMAIN s.fwds /\ s.fwds[1].pid = p /\ s.fwds[1].port = q
      BY <2>2 DEF LegacyRecord, Key, Keys
  <2> HIDE DEF s
  <2>5. InFile(p)
      BY <2>1, <2>3, <2>4 DEF InFile, Holds, s
  <2> QED BY <1>1, <2>5 DEF TrackInv, KeptInv, Building, Stopping
<1> QED BY <1>1, <1>2 DEF SequentialInv

LEMMA SequentialNext ==
    ASSUME Alone, Readable, "crash" \notin Faults, TypeInv, SequentialInv, [Next]_vars
    PROVE  SequentialInv'
<1>1. CASE \E c \in Cmds : Invoke(c) \/ UserStops(c) \/ Crash(c) \/ Step(c)
  <2>1. PICK c \in Cmds : Invoke(c) \/ UserStops(c) \/ Crash(c) \/ Step(c)
      BY <1>1
  <2>2. CommandInv(c) /\ CommandInv(c)'
      BY <2>1, CommandInvStep DEF SequentialInv
  <2>3. ASSUME NEW p \in Pids, Tracked(p)' PROVE TrackInv(p)'
    <3>1. CASE StartForward(c)
        BY <2>3, <3>1, TrackStart DEF SequentialInv
    <3>2. CASE ~StartForward(c)
      <4>1. Tracked(p) /\ Steadfast(p)
          BY <2>1, <2>3, <3>2, SteadyStep DEF Steady, Steadfast
      <4>2. TrackInv(p)
          BY <4>1 DEF SequentialInv
      <4>3. CASE StopStep(c)
          BY <2>2, <2>3, <4>1, <4>2, <4>3, TrackStop
      <4>4. CASE ~StopStep(c)
          BY <2>1, <2>2, <3>2, <4>1, <4>2, <4>4, TrackOn, TrackLeaves
          DEF Step, UpStep, ForegroundStep, DownStep, LoadNothing, Readable, Fault
      <4> QED BY <4>3, <4>4
    <3> QED BY <3>1, <3>2
  <2> QED BY <2>2, <2>3 DEF Alone, SequentialInv
<1>2. CASE Environment \/ UNCHANGED vars
  <2>1. /\ Steady
        /\ UNCHANGED <<file, pc, req, snap, own, mode, todo, kept, sig, res>>
      BY <1>2, SteadyEnvironment, SameSteady DEF Environment, vars
  <2>2. ASSUME NEW c \in Cmds PROVE CommandInv(c)'
      BY <2>1 DEF SequentialInv, CommandInv, FileInv, ArgvInv, Built
  <2>3. ASSUME NEW p \in Pids, Tracked(p)' PROVE TrackInv(p)'
    <3>1. Tracked(p) /\ Steadfast(p)
        BY <2>1, <2>3 DEF Steady, Steadfast
    <3> QED BY <2>1, <3>1, TrackSame DEF SequentialInv
  <2> QED BY <2>2, <2>3 DEF SequentialInv
<1> QED BY <1>1, <1>2 DEF Next

LEMMA SequentialCorrect ==
    ASSUME Alone, Readable, "crash" \notin Faults
    PROVE  Spec => [](TypeInv /\ SequentialInv)
<1>1. Init => TypeInv /\ SequentialInv
    BY TypeInit, SequentialInit
<1>2. TypeInv /\ SequentialInv /\ [Next]_vars => (TypeInv /\ SequentialInv)'
    BY TypeNext, SequentialNext
<1> QED BY <1>1, <1>2, PTL DEF Spec

-----------------------------------------------------------------------------
(* What follows from it.                                                    *)

\* No kubectl runs that nobody will stop: as long as commands do not overlap
\* and none is killed before it has saved, each kubectl that could be stopped
\* is in the state file under its session, or in the hands of the running
\* `up`.  This holds for whatever else fails, however often, as long as the
\* state file can be opened, and although pids are used again (RunUpCommand,
\* StopStartedSession, RunForegroundSession).
THEOREM OrphanCorrect ==
    ASSUME Alone, Readable, "crash" \notin Faults
    PROVE  Spec => []NoOrphan
<1>1. ASSUME TypeInv, SequentialInv PROVE NoOrphan
  <2>1. SUFFICES ASSUME NEW p \in Pids, Tracked(p)
                 PROVE  \/ \E s \in file : Key(s) = proc[p].key /\ p \in PidsIn({s})
                        \/ \E c \in Cmds : pc[c] # "idle" /\ p \in OwnPids(c)
      BY DEF NoOrphan, Tracked
  <2>2. TrackInv(p)
      BY <1>1, <2>1 DEF SequentialInv
  <2>3. CASE InFile(p)
      BY <2>3 DEF InFile, Holds, PidsIn
  <2>4. ASSUME NEW c \in Cmds, pc[c] \in Building, proc[p].key = Key(req[c])
        PROVE  pc[c] # "idle" /\ p \in OwnPids(c)
      BY <2>2, <2>4 DEF TrackInv, KeptInv, Building, Holds, OwnPids
  <2> QED BY <2>2, <2>3, <2>4 DEF TrackInv
<1> QED BY <1>1, SequentialCorrect, PTL

\* When `down` reports success, nothing in its scope is left, in the state
\* file or running: what it could not stop made it fail, and commands before
\* it have left nothing behind that the file does not record (RunDownCommand).
THEOREM DownCorrect ==
    ASSUME Alone, Readable, "crash" \notin Faults
    PROVE  Spec => DownClears
<1> DEFINE Cleared ==
        \A c \in Cmds : pc[c] = "downSave" /\ res'[c] = "ok" =>
            /\ \A s \in file' : ~InScope(Key(s), req[c])
            /\ \A p \in Pids : LiveKubectl(p)' /\ ~proc[p].spared =>
                    ~InScope(proc'[p].key, req[c])
<1>1. ASSUME TypeInv, SequentialInv, [Next]_vars PROVE Cleared
  <2> SUFFICES ASSUME NEW c \in Cmds, pc[c] = "downSave", res'[c] = "ok"
               PROVE  /\ \A s \in file' : ~InScope(Key(s), req[c])
                      /\ \A p \in Pids : LiveKubectl(p)' /\ ~proc[p].spared =>
                            ~InScope(proc'[p].key, req[c])
      OBVIOUS
  <2>1. res[c] = "none" /\ snap[c] = file /\ res \in [Cmds -> Results]
      BY <1>1 DEF SequentialInv, CommandInv, FileInv, TypeInv, TypeOK, CommandsTypeOK
  <2>2. DownSave(c)
    <3>1. PICK d \in Cmds : Invoke(d) \/ UserStops(d) \/ Crash(d) \/ Step(d)
        BY <1>1, <2>1 DEF Next, Environment, vars
    <3>2. d = c
        BY DEF Alone
    <3>3. ~Crash(c)
        BY <2>1 DEF Crash, Leave
    <3>4. ~DownSaveFails(c)
        BY <2>1 DEF DownSaveFails, Leave
    <3> QED
        BY <3>1, <3>2, <3>3, <3>4
        DEF Invoke, UserStops, Step, LoadFails, LoadForUp, LoadForDown, LoadNothing, PreflightFails,
            PreflightPasses, StopStep, StopRefused, StopGone, StopSignals, StopReaped,
            StopFails, AtTarget, Stopping, UpStep, ReplaceFails, ReplaceStopped, Recheck,
            StartForward, StartFails, AllStarted, ForwardReady, ForwardDied,
            ForwardTimesOut, Undone, Save, SaveFails, ForegroundStep, ForwardExited,
            CleanedUp, ForegroundSave, ForegroundSaveFails, DownStep, DownVisited
  <2>3. kept[c] = {} /\ file' = Remaining(c)
      BY <2>1, <2>2 DEF DownSave, Leave
  <2>4. \A s \in file' : ~InScope(Key(s), req[c])
      BY <2>3 DEF Remaining, Existing, Matching, InScope, Key
  <2>5. ASSUME NEW p \in Pids, LiveKubectl(p)', ~proc[p].spared
        PROVE  ~InScope(proc'[p].key, req[c])
    <3>1. proc' = Adopted(c) /\ proc \in [Pids -> Process]
        BY <1>1, <2>2 DEF DownSave, Leave, TypeInv, TypeOK, TableTypeOK
    <3>2. Tracked(p) /\ proc'[p].key = proc[p].key
        BY <2>5, <3>1 DEF Adopted, Tracked, LiveKubectl, Live, LiveStates, FreeSlot, Process
    <3>3. InScope(proc[p].key, req[c]) => proc[p].key \in kept[c]
        BY <1>1, <3>2 DEF SequentialInv, TrackInv, KeptInv
    <3> QED BY <2>3, <3>2, <3>3
  <2> QED BY <2>4, <2>5
<1>2. Spec => [](TypeInv /\ SequentialInv)
    BY SequentialCorrect
<1>3. Spec => [][Cleared]_vars
    BY <1>1, <1>2, PTL DEF Spec
<1> QED BY <1>3 DEF DownClears

LEMMA CommandCorrect ==
    ASSUME Alone, Readable
    PROVE  Spec => [](TypeInv /\ \A c \in Cmds : CommandInv(c))
<1> DEFINE I == \A c \in Cmds : CommandInv(c)
<1>1. Init => TypeInv /\ I
    BY TypeInit DEF Init, CommandInv, FileInv, ArgvInv, Building
<1>2. ASSUME TypeInv, I, [Next]_vars PROVE I'
  <2>1. CASE \E c \in Cmds : Invoke(c) \/ UserStops(c) \/ Crash(c) \/ Step(c)
      BY <1>2, <2>1, CommandInvStep DEF Alone
  <2>2. CASE Environment \/ UNCHANGED vars
      BY <1>2, <2>2 DEF Environment, vars, CommandInv, FileInv, ArgvInv, Built
  <2> QED BY <1>2, <2>1, <2>2 DEF Next
<1>3. TypeInv /\ I /\ [Next]_vars => (TypeInv /\ I)'
    BY <1>2, TypeNext
<1> QED BY <1>1, <1>3, PTL DEF Spec

\* An attached `up` that ends removes its session from the state file, and
\* what other sessions the file records it leaves there: what it saved at its
\* start is what the file still says (RunForegroundSession).
THEOREM ForegroundCorrect ==
    ASSUME Alone, Readable
    PROVE  Spec => ForegroundRemovesItself
<1> DEFINE Removed ==
        \A c \in Cmds : pc[c] = "fgSave" /\ pc'[c] = "idle" /\ UNCHANGED faults =>
            file' = file \ {Built(c)}
<1>1. ASSUME TypeInv, \A c \in Cmds : CommandInv(c), [Next]_vars PROVE Removed
  <2> SUFFICES ASSUME NEW c \in Cmds, pc[c] = "fgSave", pc'[c] = "idle", UNCHANGED faults
               PROVE  file' = file \ {Built(c)}
      OBVIOUS
  <2>1. file = Without(snap[c], req[c]) \cup {Built(c)} /\ faults \in Nat
      BY <1>1 DEF CommandInv, FileInv, TypeInv, TypeOK, TableTypeOK
  <2>2. ForegroundSave(c)
    <3>1. PICK d \in Cmds : Invoke(d) \/ UserStops(d) \/ Crash(d) \/ Step(d)
        BY <1>1 DEF Next, Environment, vars
    <3>2. d = c
        BY DEF Alone
    <3>3. ~Crash(c) /\ ~ForegroundSaveFails(c)
        BY <2>1 DEF Crash, ForegroundSaveFails, Fault
    <3> QED
        BY <3>1, <3>2, <3>3
        DEF Invoke, UserStops, Step, LoadFails, LoadForUp, LoadForDown, LoadNothing, PreflightFails,
            PreflightPasses, StopStep, StopRefused, StopGone, StopSignals, StopReaped,
            StopFails, AtTarget, Stopping, UpStep, ReplaceFails, ReplaceStopped, Recheck,
            StartForward, StartFails, AllStarted, ForwardReady, ForwardDied,
            ForwardTimesOut, Undone, Save, SaveFails, ForegroundStep, ForwardExited,
            CleanedUp, DownStep, DownVisited, DownSave, DownSaveFails
  <2>3. Built(c) \notin Without(snap[c], req[c])
      BY DEF Without, Built, Key
  <2> QED BY <2>1, <2>2, <2>3 DEF ForegroundSave
<1>2. Spec => [](TypeInv /\ \A c \in Cmds : CommandInv(c))
    BY CommandCorrect
<1>3. Spec => [][Removed]_vars
    BY <1>1, <1>2, PTL DEF Spec
<1> QED BY <1>3 DEF ForegroundRemovesItself
=============================================================================
