--------------------------- MODULE SessionsProofs ---------------------------
(***************************************************************************)
(* Theorems about Sessions, for every set of commands, pids, ports,        *)
(* configurations, environments and command lines.                         *)
(***************************************************************************)
EXTENDS Sessions, FiniteSetTheorems, SequenceTheorems, TLAPS

-----------------------------------------------------------------------------
(* Lemmas about the operators of the model.                                *)

\* Stopping a forward leaves a list of sessions to stop, none of them finished.
LEMMA RestType ==
    ASSUME NEW sessions \in Seq(Session), sessions # <<>>,
           \A i \in DOMAIN sessions : sessions[i].fwds # <<>>
    PROVE  /\ Rest(sessions) \in Seq(Session)
           /\ \A i \in DOMAIN Rest(sessions) : Rest(sessions)[i].fwds # <<>>
<1> DEFINE s == Head(sessions)
<1>1. s \in Session /\ s.fwds \in Seq(Forward) /\ s.fwds # <<>>
  <2>1. s \in Session
      BY HeadTailProperties
  <2>2. 1 \in DOMAIN sessions /\ s = sessions[1]
      BY LenProperties, EmptySeq
  <2> QED BY <2>1, <2>2 DEF Session
<1>2. Tail(sessions) \in Seq(Session)
    BY HeadTailProperties
<1>3. \A i \in DOMAIN Tail(sessions) : Tail(sessions)[i].fwds # <<>>
  <2> TAKE i \in DOMAIN Tail(sessions)
  <2>1. i \in 1..(Len(sessions) - 1) /\ Tail(sessions)[i] = sessions[i + 1]
      BY HeadTailProperties
  <2>2. i + 1 \in DOMAIN sessions
      BY <2>1, LenProperties
  <2> QED BY <2>1, <2>2
<1>4. CASE Len(s.fwds) > 1
  <2> DEFINE h == [s EXCEPT !.fwds = Tail(s.fwds)]
  <2>1. Tail(s.fwds) \in Seq(Forward) /\ Len(Tail(s.fwds)) = Len(s.fwds) - 1
      BY <1>1, HeadTailProperties
  <2>2. h \in Session /\ h.fwds = Tail(s.fwds) /\ h.fwds # <<>>
    <3>1. Tail(s.fwds) # <<>>
      <4> HIDE DEF s
      <4>1. Len(s.fwds) \in Nat /\ Len(<<>>) = 0
          BY <1>1, LenProperties
      <4> QED BY <1>4, <2>1, <4>1
    <3> HIDE DEF s
    <3> QED BY <1>1, <2>1, <3>1 DEF Session
  <2>3. Rest(sessions) = <<h>> \o Tail(sessions)
      BY <1>4 DEF Rest
  <2> HIDE DEF h
  <2>4. Rest(sessions) \in Seq(Session)
      BY <1>2, <2>2, <2>3
  <2>5. ASSUME NEW i \in DOMAIN Rest(sessions)
        PROVE  Rest(sessions)[i].fwds # <<>>
    <3>1. <<h>> \in Seq(Session) /\ Len(<<h>>) = 1 /\ <<h>>[1] = h
        BY <2>2
    <3>2. i \in 1..(1 + Len(Tail(sessions)))
        BY <1>2, <2>3, <3>1, <2>5, ConcatProperties, LenProperties
    <3>3. CASE i = 1
      <4>1. Rest(sessions)[i] = <<h>>[1]
          BY <1>2, <2>3, <3>1, <3>2, <3>3, ConcatProperties
      <4> QED BY <2>2, <3>1, <4>1
    <3>4. CASE i > 1
      <4>1. Rest(sessions)[i] = Tail(sessions)[i - 1]
          BY <1>2, <2>3, <3>1, <3>2, <3>4, ConcatProperties
      <4>2. i - 1 \in DOMAIN Tail(sessions)
          BY <1>2, <3>2, <3>4, LenProperties
      <4> QED BY <1>3, <4>1, <4>2
    <3> QED BY <3>2, <3>3, <3>4
  <2> QED BY <2>4, <2>5
<1>5. CASE ~(Len(s.fwds) > 1)
    BY <1>2, <1>3, <1>5 DEF Rest
<1> QED BY <1>4, <1>5

\* Whatever order `down` visits sessions in, it is a list of sessions that
\* have forwards.
LEMMA VisitOrdersType ==
    ASSUME NEW S \in SUBSET Session, IsFiniteSet(S),
           NEW order \in VisitOrders(S)
    PROVE  /\ order \in Seq(Session)
           /\ \A i \in DOMAIN order : order[i] \in S /\ order[i].fwds # <<>>
<1> DEFINE T == {s \in S : s.fwds # <<>>}
<1>1. IsFiniteSet(T) /\ Cardinality(T) \in Nat
    BY FS_Subset, FS_CardinalityType
<1>2. order \in [1..Cardinality(T) -> T]
    BY DEF VisitOrders, SetToSeqs
<1> HIDE DEF T
<1>3. order \in Seq(T)
    BY <1>1, <1>2
<1> QED BY <1>2, <1>3 DEF T

-----------------------------------------------------------------------------
(* Type correctness.  Snapshots are finite because the file is; that `down` *)
(* can put their sessions in an order rests on it.                          *)

RecordsFinite == IsFiniteSet(file) /\ \A c \in Cmds : IsFiniteSet(snap[c])

\* What a command's stage says of its request and of its snapshot.
UpStages ==
    {"preflight", "stopOld", "recheck", "start", "ready", "save", "undo",
     "watch", "cleanup", "fgSave"}

ControlInv(c) ==
    /\ pc[c] \in UpStages => req[c].op = "up"
    /\ pc[c] \in {"idle", "load"} => mode[c] = "new"
    /\ mode[c] = "restore" \/ pc[c] \in {"stopOld", "recheck"} => Existing(c) # {}

TypeInv == TypeOK /\ RecordsFinite /\ \A c \in Cmds : ControlInv(c)

LEMMA AdoptedType ==
    ASSUME TableTypeOK, NEW c \in Cmds
    PROVE  Adopted(c) \in [Pids -> Process]
BY DEF TableTypeOK, Adopted, Process, FreeSlot, LiveStates

\* The exit of a command leaves every variable but the file well typed.
LEMMA LeaveType ==
    ASSUME TypeOK, NEW c \in Cmds, NEW r \in Results, Leave(c, r)
    PROVE  CommandsTypeOK' /\ proc' \in [Pids -> Process]
<1>1. proc' \in [Pids -> Process]
    BY AdoptedType DEF Leave, TypeOK
<1>2. /\ pc' \in [Cmds -> Stages]
      /\ req' \in [Cmds -> Requests \cup {NoRequest}]
      /\ \A d \in Cmds : pc'[d] # "idle" => req'[d] \in Requests
    BY DEF Leave, TypeOK, CommandsTypeOK, Stages
<1>3. /\ snap' \in [Cmds -> SUBSET Session]
      /\ own' \in [Cmds -> Seq(Forward)]
      /\ mode' \in [Cmds -> {"new", "restore"}]
    BY DEF Leave, TypeOK, CommandsTypeOK
<1>4. /\ todo' \in [Cmds -> Seq(Session)]
      /\ \A d \in Cmds : \A i \in DOMAIN todo'[d] : todo'[d][i].fwds # <<>>
  <2>1. todo' = [todo EXCEPT ![c] = <<>>]
      BY DEF Leave
  <2> QED BY <2>1 DEF TypeOK, CommandsTypeOK
<1>5. /\ kept' \in [Cmds -> SUBSET Keys]
      /\ sig' \in [Cmds -> BOOLEAN]
      /\ res' \in [Cmds -> Results]
    BY DEF Leave, TypeOK, CommandsTypeOK
<1> QED BY <1>1, <1>2, <1>3, <1>4, <1>5 DEF CommandsTypeOK

LEMMA EndedType ==
    ASSUME TableTypeOK, NEW p \in Pids
    PROVE  Ended(p) \in Process /\ FreeSlot \in Process
BY DEF TableTypeOK, Ended, Zombie, Process, FreeSlot, LiveStates

\* A stop that does not end its target leaves every process as it is, but for
\* the mark of one that has survived.
LEMMA StopSpares ==
    ASSUME TableTypeOK, NEW c \in Cmds, StopStep(c), ~StopSignals(c)
    PROVE  /\ proc' \in [Pids -> Process]
           /\ \A p \in Pids :
                /\ proc'[p].st = proc[p].st /\ proc'[p].kind = proc[p].kind
                /\ proc'[p].key = proc[p].key /\ proc'[p].port = proc[p].port
                /\ proc[p].kind # "kubectl" => proc'[p] = proc[p]
<1>1. proc \in [Pids -> Process]
    BY DEF TableTypeOK
<1>2. UNCHANGED proc \/ Survive(Target(c).pid)
    BY DEF StopStep, StopRefused, StopGone, StopReaped, StopFails
<1>3. CASE UNCHANGED proc
    BY <1>1, <1>3
<1>4. CASE Survive(Target(c).pid)
  <2>1. PICK q : proc' = IF LiveKubectl(q) THEN [proc EXCEPT ![q].spared = TRUE] ELSE proc
      BY <1>4 DEF Survive
  <2>2. CASE LiveKubectl(q)
    <3>1. \A p \in Pids : p # q => proc'[p] = proc[p]
        BY <1>1, <2>1, <2>2
    <3>2. q \in Pids => proc'[q] = [proc[q] EXCEPT !.spared = TRUE] /\ proc[q].kind = "kubectl"
        BY <1>1, <2>1, <2>2 DEF LiveKubectl
    <3>3. q \in Pids => proc[q] \in Process /\ proc'[q] \in Process
        BY <1>1, <3>2 DEF Process
    <3>4. proc' \in [Pids -> Process]
        BY <1>1, <2>1, <2>2, <3>3
    <3> QED BY <3>1, <3>2, <3>3, <3>4 DEF Process
  <2>3. CASE ~LiveKubectl(q)
      BY <1>1, <2>1, <2>3
  <2> QED BY <2>2, <2>3
<1> QED BY <1>2, <1>3, <1>4

LEMMA FaultType ==
    ASSUME TypeOK, NEW f, Fault(f)
    PROVE  faults' \in Nat
BY DEF TypeOK, TableTypeOK, Fault

\* The session a command has started, or is starting, is a session.
LEMMA BuiltType ==
    ASSUME TypeOK, NEW c \in Cmds, pc[c] # "idle", req[c].op = "up"
    PROVE  Built(c) \in Session /\ Key(req[c]) \in Keys
BY RequestsAssumption DEF TypeOK, CommandsTypeOK, Built, Session, Request, Key, Keys

\* What is put back in line to be stopped is well typed.
LEMMA NextTargetType ==
    ASSUME TypeOK, NEW c \in Cmds, AtTarget(c), NextTarget(c)
    PROVE  /\ todo' \in [Cmds -> Seq(Session)]
           /\ \A d \in Cmds : \A i \in DOMAIN todo'[d] : todo'[d][i].fwds # <<>>
           /\ sig' \in [Cmds -> BOOLEAN]
<1>1. /\ Rest(todo[c]) \in Seq(Session)
      /\ \A i \in DOMAIN Rest(todo[c]) : Rest(todo[c])[i].fwds # <<>>
    BY RestType DEF TypeOK, CommandsTypeOK, AtTarget
<1> QED BY <1>1 DEF TypeOK, CommandsTypeOK, NextTarget

\* The next forward to be stopped exists, in a session with a key.
LEMMA TargetType ==
    ASSUME TypeOK, NEW c \in Cmds, AtTarget(c)
    PROVE  Target(c) \in Forward /\ Key(Head(todo[c])) \in Keys
<1> DEFINE s == Head(todo[c])
<1>1. todo[c] \in Seq(Session) /\ todo[c] # <<>>
    BY DEF TypeOK, CommandsTypeOK, AtTarget
<1>2. s \in Session /\ 1 \in DOMAIN todo[c] /\ s = todo[c][1]
    BY <1>1, LenProperties, EmptySeq, HeadTailProperties
<1>3. s.fwds \in Seq(Forward) /\ s.fwds # <<>>
    BY <1>2 DEF TypeOK, CommandsTypeOK, Session
<1>4. Head(s.fwds) \in Forward
    BY <1>3, HeadTailProperties
<1> QED BY <1>2, <1>4 DEF Target, Key, Keys, Session

\* Nothing that ControlInv reads of a command has changed.
LEMMA ControlSame ==
    ASSUME NEW d \in Cmds, ControlInv(d),
           pc'[d] = pc[d], req'[d] = req[d], snap'[d] = snap[d], mode'[d] = mode[d]
    PROVE  ControlInv(d)'
BY DEF ControlInv, Existing

\* The ports a command is to start are ports.
LEMMA WantedType ==
    ASSUME TypeInv, NEW c \in Cmds, pc[c] \in {"start", "ready", "save", "undo"}
    PROVE  Wanted(c) \in Seq(Ports)
<1>1. req[c] \in Request
    BY RequestsAssumption DEF TypeInv, TypeOK, CommandsTypeOK
<1>2. CASE mode[c] = "new"
    BY <1>1, <1>2 DEF Wanted, Request
<1>3. CASE mode[c] = "restore"
  <2>1. Previous(c) \in Existing(c)
      BY <1>3 DEF TypeInv, ControlInv, Previous
  <2>2. Previous(c) \in Session
      BY <2>1 DEF Existing, Matching, TypeInv, TypeOK, CommandsTypeOK
  <2> DEFINE f == Previous(c).fwds
  <2>3. f \in Seq(Forward)
      BY <2>2 DEF Session
  <2> HIDE DEF f
  <2>4. PortsOf(f) \in Seq(Ports)
    <3>1. Len(f) \in Nat /\ DOMAIN f = 1..Len(f) /\ \A i \in 1..Len(f) : f[i] \in Forward
        BY <2>3, LenProperties, ElementOfSeq
    <3>2. PortsOf(f) \in [1..Len(f) -> Ports]
        BY <3>1 DEF PortsOf, Forward
    <3> QED BY <3>1, <3>2
  <2> QED BY <1>3, <2>4 DEF Wanted, f
<1> QED BY <1>2, <1>3 DEF TypeInv, TypeOK, CommandsTypeOK

\* Leaving preserves types, whatever sessions the step writes to the file.
LEMMA LeaveStep ==
    ASSUME TypeInv, NEW c \in Cmds, NEW r \in Results, Leave(c, r),
           faults' \in Nat, file' \subseteq Session, IsFiniteSet(file')
    PROVE  TypeInv'
<1>1. TypeOK'
    BY LeaveType DEF TypeInv, TypeOK, TableTypeOK
<1>2. RecordsFinite'
  <2>1. snap' = [snap EXCEPT ![c] = {}]
      BY DEF Leave
  <2> QED BY <2>1, FS_EmptySet DEF TypeInv, RecordsFinite, TypeOK, CommandsTypeOK
<1>3. ASSUME NEW d \in Cmds PROVE ControlInv(d)'
  <2>1. CASE d = c
      BY <2>1 DEF Leave, ControlInv, UpStages, TypeInv, TypeOK, CommandsTypeOK
  <2>2. CASE d # c
      BY <2>2, ControlSame DEF Leave, TypeInv, TypeOK, CommandsTypeOK
  <2> QED BY <2>1, <2>2
<1> QED BY <1>1, <1>2, <1>3 DEF TypeInv

LEMMA TypeInit == Init => TypeInv
<1> SUFFICES ASSUME Init PROVE TypeInv
    OBVIOUS
<1>1. file \subseteq Session /\ IsFiniteSet(file) /\ proc \in [Pids -> Process]
  <2>1. FreeSlot \in Process
      BY DEF FreeSlot, Process
  <2>2. CASE file = {} /\ proc = [p \in Pids |-> FreeSlot]
      BY <2>1, <2>2, FS_EmptySet
  <2>3. ASSUME NEW k \in Keys, NEW q \in Ports, NEW p \in Pids,
               file = {LegacyRecord(k, q, p)},
               proc = [o \in Pids |->
                            IF o # p THEN FreeSlot
                            ELSE [Kubectl(Reaper, q, k) EXCEPT !.st = "listening"]]
        PROVE  file \subseteq Session /\ IsFiniteSet(file) /\ proc \in [Pids -> Process]
    <3>1. LegacyRecord(k, q, p) \in Session
        BY DEF LegacyRecord, Session, Forward, Keys
    <3>2. [Kubectl(Reaper, q, k) EXCEPT !.st = "listening"] \in Process
        BY DEF Kubectl, Process, LiveStates
    <3> QED BY <2>1, <2>3, <3>1, <3>2, FS_Singleton
  <2> QED BY <2>2, <2>3 DEF Init
<1>2. CommandsTypeOK /\ faults \in Nat
    BY DEF Init, CommandsTypeOK, Stages, Results
<1>3. RecordsFinite
    BY <1>1, FS_EmptySet DEF Init, RecordsFinite
<1>4. \A c \in Cmds : ControlInv(c)
    BY DEF Init, ControlInv, UpStages
<1> QED BY <1>1, <1>2, <1>3, <1>4 DEF TypeInv, TypeOK, TableTypeOK

\* What remains to be shown of a step in which a command does not leave.
LEMMA CommandStep ==
    ASSUME TypeInv, NEW c \in Cmds,
           TableTypeOK', file' \subseteq Session, IsFiniteSet(file'), CommandsTypeOK',
           IsFiniteSet(snap'[c]), ControlInv(c)',
           \A d \in Cmds \ {c} : /\ pc'[d] = pc[d] /\ req'[d] = req[d]
                                  /\ snap'[d] = snap[d] /\ mode'[d] = mode[d]
    PROVE  TypeInv'
<1>1. RecordsFinite'
    BY DEF TypeInv, RecordsFinite
<1>2. ASSUME NEW d \in Cmds PROVE ControlInv(d)'
  <2>1. CASE d = c
      BY <2>1
  <2>2. CASE d # c
      BY <2>2, ControlSame DEF TypeInv
  <2> QED BY <2>1, <2>2
<1> QED BY <1>1, <1>2 DEF TypeInv, TypeOK

LEMMA TypeInvoke ==
    ASSUME TypeInv, NEW c \in Cmds, Invoke(c) PROVE TypeInv'
<1>1. CommandsTypeOK'
    BY DEF Invoke, TypeInv, TypeOK, CommandsTypeOK, Stages, Results
<1>2. ControlInv(c)'
    BY DEF Invoke, TypeInv, ControlInv, TypeOK, CommandsTypeOK, UpStages
<1> QED
    BY <1>1, <1>2, CommandStep
    DEF Invoke, TypeInv, TypeOK, TableTypeOK, CommandsTypeOK, RecordsFinite

LEMMA TypeLoadNothing ==
    ASSUME TypeInv, NEW c \in Cmds, LoadNothing(c) PROVE TypeInv'
<1>1. /\ pc[c] = "load" /\ snap' = [snap EXCEPT ![c] = {}]
      /\ pc' = [pc EXCEPT ![c] = IF req[c].op = "up" THEN "preflight" ELSE "downStop"]
      /\ UNCHANGED <<proc, file, req, own, mode, todo, kept, sig, res>>
    BY DEF LoadNothing
<1>2. req[c] \in Requests /\ mode[c] = "new"
    BY <1>1 DEF TypeInv, TypeOK, CommandsTypeOK, ControlInv
<1>3. CommandsTypeOK'
    BY <1>1 DEF TypeInv, TypeOK, CommandsTypeOK, Stages, Stopping
<1>4. ControlInv(c)'
    BY <1>1, <1>2 DEF TypeInv, TypeOK, CommandsTypeOK, ControlInv, UpStages
<1>5. TableTypeOK'
  <2>1. faults' \in Nat
      BY FaultType DEF LoadNothing, TypeInv
  <2> QED BY <1>1, <2>1 DEF TypeInv, TypeOK, TableTypeOK
<1> QED
    BY <1>1, <1>3, <1>4, <1>5, CommandStep, FS_EmptySet
    DEF TypeInv, TypeOK, CommandsTypeOK, RecordsFinite

LEMMA TypeLoad ==
    ASSUME TypeInv, NEW c \in Cmds, LoadForUp(c) \/ LoadForDown(c) PROVE TypeInv'
<1>1. snap' = [snap EXCEPT ![c] = file] /\ UNCHANGED <<proc, faults, file, req, mode>>
    BY DEF LoadForUp, LoadForDown
<1>2. req[c] \in Requests /\ mode[c] = "new"
    BY DEF LoadForUp, LoadForDown, TypeInv, TypeOK, CommandsTypeOK, ControlInv
<1>3. CASE LoadForUp(c)
  <2>1. CommandsTypeOK'
      BY <1>3 DEF LoadForUp, TypeInv, TypeOK, CommandsTypeOK, Stages
  <2>2. ControlInv(c)'
      BY <1>2, <1>3 DEF LoadForUp, TypeInv, TypeOK, CommandsTypeOK, ControlInv
  <2> QED
      BY <1>1, <1>3, <2>1, <2>2, CommandStep
      DEF LoadForUp, TypeInv, TypeOK, TableTypeOK, CommandsTypeOK, RecordsFinite
<1>4. CASE LoadForDown(c)
  <2> DEFINE S == Matching(file, req[c].cfg, req[c].env)
  <2>1. S \in SUBSET Session /\ IsFiniteSet(S)
      BY FS_Subset DEF Matching, TypeInv, TypeOK, RecordsFinite
  <2>2. PICK order \in VisitOrders(S) : todo' = [todo EXCEPT ![c] = order]
      BY <1>4 DEF LoadForDown
  <2> HIDE DEF S
  <2>3. order \in Seq(Session) /\ \A i \in DOMAIN order : order[i].fwds # <<>>
      BY <2>1, VisitOrdersType
  <2>4. CommandsTypeOK'
    <3>1. /\ todo' \in [Cmds -> Seq(Session)]
          /\ \A d \in Cmds : \A i \in DOMAIN todo'[d] : todo'[d][i].fwds # <<>>
        BY <2>2, <2>3 DEF TypeInv, TypeOK, CommandsTypeOK
    <3> QED
        BY <1>4, <3>1 DEF LoadForDown, TypeInv, TypeOK, CommandsTypeOK, Stages, Stopping
  <2>5. ControlInv(c)'
      BY <1>2, <1>4 DEF LoadForDown, TypeInv, TypeOK, CommandsTypeOK, ControlInv, UpStages
  <2> QED
      BY <1>1, <1>4, <2>4, <2>5, CommandStep
      DEF LoadForDown, TypeInv, TypeOK, TableTypeOK, CommandsTypeOK, RecordsFinite
<1> QED BY <1>3, <1>4

LEMMA TypePreflight ==
    ASSUME TypeInv, NEW c \in Cmds, PreflightPasses(c) PROVE TypeInv'
<1>1. /\ pc[c] = "preflight"
      /\ UNCHANGED <<proc, faults, file, req, snap, own, mode, kept, sig, res>>
    BY DEF PreflightPasses
<1>2. CASE Existing(c) = {}
  <2>1. pc' = [pc EXCEPT ![c] = "start"] /\ UNCHANGED todo
      BY <1>2 DEF PreflightPasses
  <2>2. CommandsTypeOK'
      BY <1>1, <2>1 DEF TypeInv, TypeOK, CommandsTypeOK, Stages
  <2>3. ControlInv(c)'
      BY <1>1, <2>1 DEF TypeInv, TypeOK, CommandsTypeOK, ControlInv, UpStages, Existing
  <2> QED
      BY <1>1, <2>1, <2>2, <2>3, CommandStep
      DEF TypeInv, TypeOK, TableTypeOK, CommandsTypeOK, RecordsFinite
<1>3. CASE Existing(c) # {}
  <2>1. /\ pc' = [pc EXCEPT ![c] = "stopOld"]
        /\ \E order \in VisitOrders(Existing(c)) : todo' = [todo EXCEPT ![c] = order]
      BY <1>3 DEF PreflightPasses
  <2>2. Existing(c) \in SUBSET Session /\ IsFiniteSet(Existing(c))
      BY FS_Subset DEF Existing, Matching, TypeInv, TypeOK, CommandsTypeOK, RecordsFinite
  <2>3. PICK order \in VisitOrders(Existing(c)) : todo' = [todo EXCEPT ![c] = order]
      BY <2>1
  <2>4. order \in Seq(Session) /\ \A i \in DOMAIN order : order[i].fwds # <<>>
      BY <2>2, VisitOrdersType
  <2>5. CommandsTypeOK'
    <3>1. /\ todo' \in [Cmds -> Seq(Session)]
          /\ \A d \in Cmds : \A i \in DOMAIN todo'[d] : todo'[d][i].fwds # <<>>
        BY <2>3, <2>4 DEF TypeInv, TypeOK, CommandsTypeOK
    <3> QED
        BY <1>1, <2>1, <3>1 DEF TypeInv, TypeOK, CommandsTypeOK, Stages, Stopping
  <2>6. ControlInv(c)'
      BY <1>1, <1>3, <2>1 DEF TypeInv, TypeOK, CommandsTypeOK, ControlInv, UpStages, Existing
  <2> QED
      BY <1>1, <2>1, <2>5, <2>6, CommandStep
      DEF TypeInv, TypeOK, TableTypeOK, CommandsTypeOK, RecordsFinite
<1> QED BY <1>2, <1>3

LEMMA TypeStop ==
    ASSUME TypeInv, NEW c \in Cmds, StopStep(c) PROVE TypeInv'
<1>1. AtTarget(c) /\ UNCHANGED <<file, pc, req, snap, own, mode, res>>
    BY DEF StopStep, StopRefused, StopGone, StopSignals, StopReaped, StopFails
<1>2. TypeOK /\ Target(c) \in Forward /\ Key(Head(todo[c])) \in Keys
    BY <1>1, TargetType DEF TypeInv
<1>3. /\ todo' \in [Cmds -> Seq(Session)]
      /\ \A d \in Cmds : \A i \in DOMAIN todo'[d] : todo'[d][i].fwds # <<>>
      /\ sig' \in [Cmds -> BOOLEAN]
  <2>1. CASE NextTarget(c)
      BY <1>1, <1>2, <2>1, NextTargetType
  <2>2. CASE sig' = [sig EXCEPT ![c] = TRUE] /\ UNCHANGED todo
      BY <2>2 DEF TypeInv, TypeOK, CommandsTypeOK
  <2> QED
      BY <2>1, <2>2 DEF StopStep, StopRefused, StopGone, StopSignals, StopReaped, StopFails
<1>4. kept' \in [Cmds -> SUBSET Keys]
  <2>1. UNCHANGED kept \/ Keep(c)
      BY DEF StopStep, StopRefused, StopGone, StopSignals, StopReaped, StopFails
  <2>2. CASE UNCHANGED kept
      BY <1>2, <2>2 DEF TypeOK, CommandsTypeOK
  <2>3. CASE Keep(c)
    <3> DEFINE k == Key(Head(todo[c]))
    <3>1. k \in Keys /\ kept' = [kept EXCEPT ![c] = kept[c] \cup {k}]
        BY <1>2, <2>3 DEF Keep
    <3> HIDE DEF k
    <3> QED BY <1>2, <3>1 DEF TypeOK, CommandsTypeOK
  <2> QED BY <2>1, <2>2, <2>3
<1>5. TableTypeOK'
  <2>1. proc' \in [Pids -> Process]
    <3>1. FreeSlot \in Process /\ \A p \in Pids : Ended(p) \in Process
        BY <1>2, EndedType DEF TypeOK, FreeSlot, Process
    <3>2. CASE StopSignals(c)
        BY <1>2, <3>1, <3>2 DEF StopSignals, TypeOK, TableTypeOK
    <3> QED
        BY <1>2, <3>2, StopSpares DEF TypeOK
  <2>2. faults' \in Nat
    <3>1. UNCHANGED faults \/ \E f \in {"ps", "stop"} : Fault(f)
        BY DEF StopStep, StopRefused, StopGone, StopSignals, StopReaped, StopFails
    <3> QED BY <1>2, <3>1, FaultType DEF TypeOK, TableTypeOK
  <2> QED BY <2>1, <2>2 DEF TableTypeOK
<1>6. CommandsTypeOK'
    BY <1>1, <1>3, <1>4 DEF TypeInv, TypeOK, CommandsTypeOK
<1>7. ControlInv(c)'
    BY <1>1, ControlSame DEF TypeInv
<1> QED
    BY <1>1, <1>5, <1>6, <1>7, CommandStep DEF TypeInv, TypeOK, RecordsFinite

\* A command goes on to another stage of the same request.
LEMMA TypeGo ==
    ASSUME TypeInv, NEW c \in Cmds, NEW stage \in Stages \ {"idle", "load"},
           pc' = [pc EXCEPT ![c] = stage], pc[c] # "idle",
           stage \in UpStages => req[c].op = "up",
           stage \in {"stopOld", "recheck"} => Existing(c) # {},
           TableTypeOK', todo' \in [Cmds -> Seq(Session)],
           \A d \in Cmds : \A i \in DOMAIN todo'[d] : todo'[d][i].fwds # <<>>,
           own' \in [Cmds -> Seq(Forward)], kept' \in [Cmds -> SUBSET Keys],
           \/ UNCHANGED mode
           \/ \E m \in {"new", "restore"} :
                mode' = [mode EXCEPT ![c] = m] /\ (m = "restore" => Existing(c) # {}),
           file' \subseteq Session, IsFiniteSet(file'),
           UNCHANGED <<req, snap, sig, res>>
    PROVE  TypeInv'
<1>1. CommandsTypeOK'
    BY DEF TypeInv, TypeOK, CommandsTypeOK
<1>2. ControlInv(c)'
  <2>1. pc'[c] = stage
      BY DEF TypeInv, TypeOK, CommandsTypeOK
  <2>2. Existing(c)' = Existing(c)
      BY DEF Existing
  <2>3. mode'[c] = "restore" => Existing(c) # {}
      BY DEF TypeInv, TypeOK, CommandsTypeOK, ControlInv
  <2> QED BY <2>1, <2>2, <2>3 DEF ControlInv, UpStages
<1> QED
    BY <1>1, <1>2, CommandStep DEF TypeInv, TypeOK, CommandsTypeOK, RecordsFinite

\* Undoing puts the session that was being started in line to be stopped.
LEMMA UndoType ==
    ASSUME TypeInv, NEW c \in Cmds, pc[c] # "idle", req[c].op = "up", Undo(c)
    PROVE  /\ pc' = [pc EXCEPT ![c] = "undo"]
           /\ todo' \in [Cmds -> Seq(Session)]
           /\ \A d \in Cmds : \A i \in DOMAIN todo'[d] : todo'[d][i].fwds # <<>>
           /\ kept' \in [Cmds -> SUBSET Keys]
<1>1. Built(c) \in Session
    BY BuiltType DEF TypeInv
<1>2. Built(c).fwds = own[c]
    BY DEF Built
<1>3. PICK line \in {<<>>, <<Built(c)>>} :
        todo' = [todo EXCEPT ![c] = line] /\ (line = <<>> \/ own[c] # <<>>)
    BY DEF Undo
<1>4. line \in Seq(Session) /\ \A i \in DOMAIN line : line[i].fwds # <<>>
  <2>1. CASE line = <<>>
      BY <2>1
  <2>2. CASE line = <<Built(c)>> /\ own[c] # <<>>
      BY <1>1, <1>2, <2>2
  <2> QED BY <1>3, <2>1, <2>2
<1> HIDE DEF Undo
<1>5. /\ todo' \in [Cmds -> Seq(Session)]
      /\ \A d \in Cmds : \A i \in DOMAIN todo'[d] : todo'[d][i].fwds # <<>>
    BY <1>3, <1>4 DEF TypeInv, TypeOK, CommandsTypeOK
<1> QED BY <1>5 DEF Undo, TypeInv, TypeOK, CommandsTypeOK

\* Only an `up` gets to its stages.
LEMMA UpRequest ==
    ASSUME TypeInv, NEW c \in Cmds, pc[c] \in UpStages
    PROVE  pc[c] # "idle" /\ req[c].op = "up" /\ Built(c) \in Session
<1>1. pc[c] # "idle" /\ req[c].op = "up"
    BY DEF TypeInv, ControlInv, UpStages
<1> QED BY <1>1, BuiltType DEF TypeInv

LEMMA TypeReplaceStopped ==
    ASSUME TypeInv, NEW c \in Cmds, ReplaceStopped(c) \/ Recheck(c) PROVE TypeInv'
<1>1. pc[c] \in UpStages /\ pc[c] # "idle" /\ req[c].op = "up" /\ Existing(c) # {}
    BY UpRequest DEF ReplaceStopped, Recheck, UpStages, TypeInv, ControlInv
<1>2. UNCHANGED <<proc, file, req, snap, own, todo, kept, sig, res>> /\ faults' \in Nat
  <2>1. UNCHANGED faults \/ Fault("probe")
      BY DEF ReplaceStopped, Recheck
  <2>2. faults' \in Nat
      BY <2>1, FaultType DEF TypeInv, TypeOK, TableTypeOK
  <2> QED BY <2>2 DEF ReplaceStopped, Recheck
<1>3. PICK stage \in {"recheck", "start"} : pc' = [pc EXCEPT ![c] = stage]
    BY DEF ReplaceStopped, Recheck
<1>4. UNCHANGED mode \/ \E m \in {"new", "restore"} : mode' = [mode EXCEPT ![c] = m]
    BY DEF ReplaceStopped, Recheck
<1> QED
    BY <1>1, <1>2, <1>3, <1>4, TypeGo
    DEF TypeInv, TypeOK, TableTypeOK, CommandsTypeOK, RecordsFinite, Stages

LEMMA TypeStartForward ==
    ASSUME TypeInv, NEW c \in Cmds, StartForward(c) PROVE TypeInv'
<1> DEFINE n == Len(own[c]) + 1
           q == Wanted(c)[n]
<1>1. /\ pc[c] = "start" /\ n <= Len(Wanted(c))
      /\ UNCHANGED <<faults, file, req, snap, mode, todo, kept, sig, res>>
    BY DEF StartForward
<1>2. PICK stage \in {"start", "ready"} : pc' = [pc EXCEPT ![c] = stage]
    BY DEF StartForward
<1>3. PICK p \in FreshPids :
        /\ proc' = [proc EXCEPT ![p] = Kubectl(c, q, Key(req[c]))]
        /\ own' = [own EXCEPT ![c] = Append(@, [port |-> q, pid |-> p, argv |-> TRUE])]
    BY DEF StartForward
<1>4. pc[c] \in UpStages /\ pc[c] # "idle" /\ req[c].op = "up"
    BY <1>1, UpRequest DEF UpStages
<1>5. Key(req[c]) \in Keys /\ p \in Pids
    BY <1>3, <1>4, BuiltType DEF TypeInv, FreshPids
<1>6. q \in Ports /\ own[c] \in Seq(Forward)
  <2>1. Wanted(c) \in Seq(Ports) /\ own[c] \in Seq(Forward)
      BY <1>1, WantedType DEF TypeInv, TypeOK, CommandsTypeOK
  <2>2. n \in 1..Len(Wanted(c))
      BY <1>1, <2>1, LenProperties
  <2> QED BY <2>1, <2>2, ElementOfSeq
<1> HIDE DEF q
<1>7. TableTypeOK'
  <2>1. Kubectl(c, q, Key(req[c])) \in Process
      BY <1>5, <1>6 DEF Kubectl, Process, LiveStates
  <2> QED BY <1>1, <1>3, <1>5, <2>1 DEF TypeInv, TypeOK, TableTypeOK
<1>8. own' \in [Cmds -> Seq(Forward)]
  <2> DEFINE f == [port |-> q, pid |-> p, argv |-> TRUE]
  <2>1. f \in Forward
      BY <1>5, <1>6 DEF Forward
  <2> HIDE DEF f
  <2>2. Append(own[c], f) \in Seq(Forward)
      BY <1>6, <2>1, AppendProperties
  <2>3. own' = [own EXCEPT ![c] = Append(own[c], f)]
      BY <1>3 DEF f
  <2> QED BY <2>2, <2>3 DEF TypeInv, TypeOK, CommandsTypeOK
<1> QED
    BY <1>1, <1>2, <1>4, <1>7, <1>8, TypeGo
    DEF TypeInv, TypeOK, CommandsTypeOK, RecordsFinite, Stages

\* Every way to give a start up, and a save that fails, undoes the start.
LEMMA TypeUndo ==
    ASSUME TypeInv, NEW c \in Cmds,
           StartFails(c) \/ ForwardDied(c) \/ ForwardTimesOut(c) \/ SaveFails(c)
    PROVE  TypeInv'
<1>1. pc[c] \in UpStages /\ Undo(c) /\ UNCHANGED <<file, req, snap, own, mode, sig, res>>
    BY DEF StartFails, ForwardDied, ForwardTimesOut, SaveFails, UpStages
<1>2. pc[c] # "idle" /\ req[c].op = "up"
    BY <1>1, UpRequest
<1>3. TableTypeOK'
  <2>1. proc' \in [Pids -> Process]
    <3>1. UNCHANGED proc \/ \E p : proc' = [proc EXCEPT ![p] = FreeSlot]
        BY DEF StartFails, ForwardDied, ForwardTimesOut, SaveFails
    <3>2. FreeSlot \in Process
        BY DEF FreeSlot, Process
    <3> QED BY <3>1, <3>2 DEF TypeInv, TypeOK, TableTypeOK
  <2>2. faults' \in Nat
    <3>1. UNCHANGED faults \/ \E f \in {"start", "save"} : Fault(f)
        BY DEF StartFails, ForwardDied, ForwardTimesOut, SaveFails
    <3> QED BY <3>1, FaultType DEF TypeInv, TypeOK, TableTypeOK
  <2> QED BY <2>1, <2>2 DEF TableTypeOK
<1>4. /\ pc' = [pc EXCEPT ![c] = "undo"]
      /\ todo' \in [Cmds -> Seq(Session)]
      /\ \A d \in Cmds : \A i \in DOMAIN todo'[d] : todo'[d][i].fwds # <<>>
      /\ kept' \in [Cmds -> SUBSET Keys]
    BY <1>1, <1>2, UndoType
<1> QED
    BY <1>1, <1>2, <1>3, <1>4, TypeGo
    DEF TypeInv, TypeOK, CommandsTypeOK, RecordsFinite, Stages, Stopping

\* Stages that follow one another without touching anything else.
LEMMA TypeProceed ==
    ASSUME TypeInv, NEW c \in Cmds,
           AllStarted(c) \/ ForwardReady(c) \/ CleanedUp(c) \/ DownVisited(c)
    PROVE  TypeInv'
<1>1. UNCHANGED <<proc, faults, file, req, snap, own, mode, todo, kept, sig, res>>
    BY DEF AllStarted, ForwardReady, CleanedUp, DownVisited
<1>2. CASE DownVisited(c)
  <2>1. pc[c] = "downStop" /\ pc' = [pc EXCEPT ![c] = "downSave"]
      BY <1>2 DEF DownVisited
  <2> QED
      BY <1>1, <2>1, TypeGo
      DEF TypeInv, TypeOK, TableTypeOK, CommandsTypeOK, RecordsFinite, Stages, UpStages
<1>3. CASE AllStarted(c) \/ ForwardReady(c) \/ CleanedUp(c)
  <2>1. PICK stage \in {"save", "start", "fgSave"} : pc' = [pc EXCEPT ![c] = stage]
      BY <1>3 DEF AllStarted, ForwardReady, CleanedUp
  <2>2. pc[c] # "idle" /\ req[c].op = "up"
    <3>1. pc[c] \in UpStages
        BY <1>3 DEF AllStarted, ForwardReady, CleanedUp, UpStages
    <3> QED BY <3>1, UpRequest
  <2> QED
      BY <1>1, <2>1, <2>2, TypeGo
      DEF TypeInv, TypeOK, TableTypeOK, CommandsTypeOK, RecordsFinite, Stages
<1> QED BY <1>2, <1>3

LEMMA TypeUndone ==
    ASSUME TypeInv, NEW c \in Cmds, Undone(c) PROVE TypeInv'
<1>1. pc[c] = "undo" /\ UNCHANGED <<faults, file>>
    BY DEF Undone
<1>2. CASE mode[c] = "new" /\ Existing(c) # {}
  <2>1. /\ pc' = [pc EXCEPT ![c] = "start"]
        /\ mode' = [mode EXCEPT ![c] = "restore"]
        /\ own' = [own EXCEPT ![c] = <<>>]
        /\ kept' = [kept EXCEPT ![c] = {}]
        /\ UNCHANGED <<proc, req, snap, todo, sig, res>>
      BY <1>2 DEF Undone
  <2>2. pc[c] # "idle" /\ req[c].op = "up"
      BY <1>1, UpRequest DEF UpStages
  <2>3. own' \in [Cmds -> Seq(Forward)] /\ kept' \in [Cmds -> SUBSET Keys]
      BY <2>1 DEF TypeInv, TypeOK, CommandsTypeOK
  <2> QED
      BY <1>1, <1>2, <2>1, <2>2, <2>3, TypeGo
      DEF TypeInv, TypeOK, TableTypeOK, CommandsTypeOK, RecordsFinite, Stages
<1>3. CASE ~(mode[c] = "new" /\ Existing(c) # {})
  <2>1. Leave(c, "error") /\ "error" \in Results
      BY <1>3 DEF Undone, Results
  <2> QED
      BY <1>1, <2>1, LeaveStep DEF TypeInv, TypeOK, TableTypeOK, RecordsFinite
<1> QED BY <1>2, <1>3

LEMMA TypeSave ==
    ASSUME TypeInv, NEW c \in Cmds, Save(c) PROVE TypeInv'
<1>1. pc[c] = "save" /\ UNCHANGED faults /\ file' = Without(snap[c], req[c]) \cup {Built(c)}
    BY DEF Save
<1>2. pc[c] # "idle" /\ req[c].op = "up" /\ Built(c) \in Session
    BY <1>1, UpRequest DEF UpStages
<1>3. file' \subseteq Session /\ IsFiniteSet(file')
  <2>1. Without(snap[c], req[c]) \subseteq snap[c]
      BY DEF Without
  <2>2. snap[c] \subseteq Session /\ IsFiniteSet(snap[c])
      BY DEF TypeInv, TypeOK, CommandsTypeOK, RecordsFinite
  <2>3. IsFiniteSet(Without(snap[c], req[c]))
      BY <2>1, <2>2, FS_Subset
  <2> QED BY <1>1, <1>2, <2>1, <2>2, <2>3, FS_AddElement
<1>4. CASE \E r \in {"ok", "error"} : Leave(c, r)
    BY <1>1, <1>3, <1>4, LeaveStep DEF TypeInv, TypeOK, TableTypeOK, Results
<1>5. CASE /\ pc' = [pc EXCEPT ![c] = "watch"]
           /\ UNCHANGED <<proc, req, snap, own, mode, todo, kept, sig, res>>
    BY <1>1, <1>2, <1>3, <1>5, TypeGo
    DEF TypeInv, TypeOK, TableTypeOK, CommandsTypeOK, Stages
<1> QED BY <1>4, <1>5 DEF Save

LEMMA TypeWatch ==
    ASSUME TypeInv, NEW c \in Cmds, ForwardExited(c) \/ UserStops(c) PROVE TypeInv'
<1>1. /\ pc[c] = "watch" /\ pc' = [pc EXCEPT ![c] = "cleanup"]
      /\ UNCHANGED <<faults, file, req, snap, own, mode, kept, sig, res>>
    BY DEF ForwardExited, UserStops
<1>2. pc[c] # "idle" /\ req[c].op = "up" /\ Built(c) \in Session
    BY <1>1, UpRequest DEF UpStages
<1>3. own[c] = <<>> => ExitedPids(c) = {}
    BY DEF ExitedPids, OwnPids
<1>4. PICK line \in {<<>>, <<Built(c)>>} :
        todo' = [todo EXCEPT ![c] = line] /\ (line = <<>> \/ own[c] # <<>>)
    BY <1>3 DEF ForwardExited, UserStops
<1>5. line \in Seq(Session) /\ \A i \in DOMAIN line : line[i].fwds # <<>>
  <2>1. CASE line = <<>>
      BY <2>1
  <2>2. CASE line = <<Built(c)>> /\ own[c] # <<>>
      BY <1>2, <2>2 DEF Built
  <2> QED BY <1>4, <2>1, <2>2
<1>6. /\ todo' \in [Cmds -> Seq(Session)]
      /\ \A d \in Cmds : \A i \in DOMAIN todo'[d] : todo'[d][i].fwds # <<>>
    BY <1>4, <1>5 DEF TypeInv, TypeOK, CommandsTypeOK
<1>7. TableTypeOK'
  <2>1. FreeSlot \in Process
      BY DEF FreeSlot, Process
  <2>2. proc' = proc \/ proc' = [p \in Pids |-> IF p \in ExitedPids(c) THEN FreeSlot ELSE proc[p]]
      BY DEF ForwardExited, UserStops
  <2>3. proc' \in [Pids -> Process]
      BY <2>1, <2>2 DEF TypeInv, TypeOK, TableTypeOK
  <2> QED BY <1>1, <2>3 DEF TypeInv, TypeOK, TableTypeOK
<1> QED
    BY <1>1, <1>2, <1>6, <1>7, TypeGo
    DEF TypeInv, TypeOK, CommandsTypeOK, RecordsFinite, Stages, Stopping

\* A command that ends, by itself or not, writes a part of its snapshot or
\* nothing.
LEMMA TypeLeave ==
    ASSUME TypeInv, NEW c \in Cmds,
           \/ Crash(c) \/ LoadFails(c) \/ PreflightFails(c) \/ ReplaceFails(c)
           \/ ForegroundSave(c) \/ ForegroundSaveFails(c) \/ DownSave(c) \/ DownSaveFails(c)
    PROVE  TypeInv'
<1>1. \E r \in Results : Leave(c, r)
    BY DEF Crash, LoadFails, PreflightFails, ReplaceFails, ForegroundSave,
           ForegroundSaveFails, DownSave, DownSaveFails, Results
<1>2. faults' \in Nat
  <2>1. UNCHANGED faults \/ \E f : Fault(f)
      BY DEF Crash, LoadFails, PreflightFails, ReplaceFails, ForegroundSave,
             ForegroundSaveFails, DownSave, DownSaveFails
  <2> QED BY <2>1, FaultType DEF TypeInv, TypeOK, TableTypeOK
<1>3. file' \subseteq Session /\ IsFiniteSet(file')
  <2>1. file' = file \/ file' \subseteq snap[c]
      BY DEF Crash, LoadFails, PreflightFails, ReplaceFails, ForegroundSave,
             ForegroundSaveFails, DownSave, DownSaveFails, Without, Remaining
  <2> QED BY <2>1, FS_Subset DEF TypeInv, TypeOK, CommandsTypeOK, RecordsFinite
<1> QED BY <1>1, <1>2, <1>3, LeaveStep

LEMMA TypeEnvironment ==
    ASSUME TypeInv, Environment PROVE TypeInv'
<1>1. UNCHANGED <<file, pc, req, snap, own, mode, todo, kept, sig, res>>
    BY DEF Environment
<1>2. TableTypeOK'
  <2>1. PICK p \in Pids : \/ Listen(p) \/ BindFails(p) \/ Hang(p)
                          \/ Die(p) \/ ForeignStart(p) \/ ForeignExit(p)
      BY DEF Environment, TableStep
  <2>2. proc' \in [Pids -> Process]
    <3>1. CASE Listen(p) \/ Hang(p)
        BY <3>1 DEF Listen, Hang, TypeInv, TypeOK, TableTypeOK, Process, LiveStates
    <3>2. CASE BindFails(p) \/ Die(p) \/ ForeignExit(p)
        BY <3>2, EndedType
        DEF BindFails, Die, ForeignExit, TypeInv, TypeOK, TableTypeOK
    <3>3. CASE ForeignStart(p)
      <4>1. \A q \in Ports \cup {NoPort} : Foreign(q) \in Process
          BY DEF Foreign, Process, LiveStates
      <4> QED BY <3>3, <4>1 DEF ForeignStart, TypeInv, TypeOK, TableTypeOK
    <3> QED BY <2>1, <3>1, <3>2, <3>3
  <2>3. faults' \in Nat
    <3>1. UNCHANGED faults \/ \E f : Fault(f)
        BY <2>1 DEF Listen, BindFails, Hang, Die, ForeignStart, ForeignExit
    <3> QED BY <3>1, FaultType DEF TypeInv, TypeOK, TableTypeOK
  <2> QED BY <2>2, <2>3 DEF TableTypeOK
<1>3. CommandsTypeOK' /\ RecordsFinite'
    BY <1>1 DEF TypeInv, TypeOK, CommandsTypeOK, RecordsFinite
<1>4. \A d \in Cmds : ControlInv(d)'
    BY <1>1, ControlSame DEF TypeInv
<1> QED BY <1>1, <1>2, <1>3, <1>4 DEF TypeInv, TypeOK

LEMMA TypeStutter == TypeInv /\ UNCHANGED vars => TypeInv'
<1> SUFFICES ASSUME TypeInv, UNCHANGED vars PROVE TypeInv'
    OBVIOUS
<1>1. UNCHANGED <<proc, faults, file, pc, req, snap, own, mode, todo, kept, sig, res>>
    BY DEF vars
<1>2. \A d \in Cmds : ControlInv(d)'
    BY <1>1, ControlSame DEF TypeInv
<1> QED
    BY <1>1, <1>2 DEF TypeInv, TypeOK, TableTypeOK, CommandsTypeOK, RecordsFinite

LEMMA TypeNext == TypeInv /\ [Next]_vars => TypeInv'
<1> SUFFICES ASSUME TypeInv, [Next]_vars PROVE TypeInv'
    OBVIOUS
<1>1. ASSUME NEW c \in Cmds, Invoke(c) \/ UserStops(c) \/ Crash(c) PROVE TypeInv'
    BY <1>1, TypeInvoke, TypeWatch, TypeLeave
<1>2. ASSUME NEW c \in Cmds, Step(c) PROVE TypeInv'
  <2>1. CASE LoadFails(c) \/ LoadForUp(c) \/ LoadForDown(c) \/ LoadNothing(c)
      BY <2>1, TypeLeave, TypeLoad, TypeLoadNothing
  <2>2. CASE PreflightFails(c) \/ PreflightPasses(c)
      BY <2>2, TypeLeave, TypePreflight
  <2>3. CASE StopStep(c)
      BY <2>3, TypeStop
  <2>4. CASE UpStep(c)
      BY <2>4, TypeLeave, TypeReplaceStopped, TypeStartForward, TypeUndo, TypeProceed,
         TypeUndone, TypeSave
      DEF UpStep
  <2>5. CASE ForegroundStep(c)
      BY <2>5, TypeWatch, TypeProceed, TypeLeave DEF ForegroundStep
  <2>6. CASE DownStep(c)
      BY <2>6, TypeProceed, TypeLeave DEF DownStep
  <2> QED BY <1>2, <2>1, <2>2, <2>3, <2>4, <2>5, <2>6 DEF Step
<1> QED BY <1>1, <1>2, TypeEnvironment, TypeStutter DEF Next

\* Every variable keeps its type, and what a command still has to stop always
\* has a next forward.
THEOREM TypeCorrect == Spec => []TypeOK
<1>1. TypeInv => TypeOK
    BY DEF TypeInv
<1> QED BY <1>1, TypeInit, TypeNext, PTL DEF Spec

-----------------------------------------------------------------------------
(* One session of a key.                                                    *)

Unique(S) == \A s, t \in S : Key(s) = Key(t) => s = t

\* What any step does to the recorded sessions and to the snapshots of them:
\* a command loads the file, writes a part of its snapshot, or puts its own
\* session in the place of the one it has loaded.
LEMMA RecordsStep ==
    ASSUME [Next]_vars
    PROVE  \/ UNCHANGED <<file, snap>>
           \/ \E c \in Cmds :
                \/ file' = file /\ snap' = [snap EXCEPT ![c] = file]
                \/ /\ file' = file \/ file' \subseteq snap[c]
                   /\ snap' = [snap EXCEPT ![c] = {}]
                \/ Save(c) /\ (snap' = snap \/ snap' = [snap EXCEPT ![c] = {}])
<1> DEFINE Goal(c) ==
        \/ UNCHANGED <<file, snap>>
        \/ file' = file /\ snap' = [snap EXCEPT ![c] = file]
        \/ /\ file' = file \/ file' \subseteq snap[c]
           /\ snap' = [snap EXCEPT ![c] = {}]
        \/ Save(c) /\ (snap' = snap \/ snap' = [snap EXCEPT ![c] = {}])
<1>1. ASSUME NEW c \in Cmds, Invoke(c) \/ UserStops(c) \/ Crash(c) PROVE Goal(c)
    BY <1>1 DEF Invoke, UserStops, Crash, Leave
<1>2. ASSUME NEW c \in Cmds, Step(c) PROVE Goal(c)
  <2>1. CASE LoadFails(c) \/ PreflightFails(c)
      BY <2>1 DEF LoadFails, PreflightFails, Leave
  <2>2. CASE LoadForUp(c) \/ LoadForDown(c) \/ LoadNothing(c) \/ PreflightPasses(c)
      BY <2>2 DEF LoadForUp, LoadForDown, LoadNothing, PreflightPasses
  <2>3. CASE StopStep(c)
      BY <2>3 DEF StopStep, StopRefused, StopGone, StopSignals, StopReaped, StopFails
  <2>4. CASE Save(c)
      BY <2>4 DEF Save, Leave
  <2>5. CASE UpStep(c) /\ ~Save(c)
      BY <2>5
      DEF UpStep, ReplaceFails, ReplaceStopped, Recheck, StartForward, StartFails,
          AllStarted, ForwardReady, ForwardDied, ForwardTimesOut, Undone, SaveFails, Leave
  <2>6. CASE ForegroundStep(c)
      BY <2>6
      DEF ForegroundStep, ForwardExited, CleanedUp, ForegroundSave, ForegroundSaveFails,
          Leave, Without
  <2>7. CASE DownStep(c)
      BY <2>7 DEF DownStep, DownVisited, DownSave, DownSaveFails, Leave, Remaining
  <2> QED BY <1>2, <2>1, <2>2, <2>3, <2>4, <2>5, <2>6, <2>7 DEF Step
<1>3. CASE Environment
    BY <1>3 DEF Environment
<1>4. CASE UNCHANGED vars
    BY <1>4 DEF vars
<1> QED BY <1>1, <1>2, <1>3, <1>4 DEF Next

LEMMA UniqueNext == TypeInv /\ UniqueSessions /\ [Next]_vars => UniqueSessions'
<1> SUFFICES ASSUME TypeInv, UniqueSessions, [Next]_vars PROVE UniqueSessions'
    OBVIOUS
<1>1. Unique(file) /\ \A d \in Cmds : Unique(snap[d])
    BY DEF UniqueSessions, Unique
<1>2. snap \in [Cmds -> SUBSET Session]
    BY DEF TypeInv, TypeOK, CommandsTypeOK
<1>3. Unique(file') /\ \A d \in Cmds : Unique(snap'[d])
  <2>1. CASE UNCHANGED <<file, snap>>
      BY <1>1, <2>1
  <2>2. ASSUME NEW c \in Cmds, file' = file, snap' = [snap EXCEPT ![c] = file]
        PROVE  Unique(file') /\ \A d \in Cmds : Unique(snap'[d])
      BY <1>1, <1>2, <2>2
  <2>3. ASSUME NEW c \in Cmds, file' = file \/ file' \subseteq snap[c],
               snap' = [snap EXCEPT ![c] = {}]
        PROVE  Unique(file') /\ \A d \in Cmds : Unique(snap'[d])
      BY <1>1, <1>2, <2>3 DEF Unique
  <2>4. ASSUME NEW c \in Cmds, Save(c), snap' = snap \/ snap' = [snap EXCEPT ![c] = {}]
        PROVE  Unique(file') /\ \A d \in Cmds : Unique(snap'[d])
    <3>1. file' = Without(snap[c], req[c]) \cup {Built(c)} /\ Key(Built(c)) = Key(req[c])
        BY <2>4 DEF Save, Built, Key
    <3>2. Unique(file')
        BY <1>1, <3>1 DEF Unique, Without
    <3>3. \A d \in Cmds : Unique(snap'[d])
        BY <1>1, <1>2, <2>4 DEF Unique
    <3> QED BY <3>2, <3>3
  <2> QED BY <2>1, <2>2, <2>3, <2>4, RecordsStep
<1> QED BY <1>3 DEF UniqueSessions, Unique

\* The state file, and every snapshot a command works from, holds at most one
\* session of a configuration and environment, whatever fails and however the
\* commands' loads and saves interleave.
THEOREM UniqueCorrect == Spec => []UniqueSessions
<1>1. Init => UniqueSessions
    BY DEF Init, UniqueSessions
<1> QED BY <1>1, TypeInit, TypeNext, UniqueNext, PTL DEF Spec

-----------------------------------------------------------------------------
(* Programs that are not kubeforward's.                                     *)

\* They are nobody's children, so no exit of a command concerns them.
ForeignInv == \A p \in Pids : proc[p].kind = "foreign" => proc[p].parent = Reaper
ForeignLive(p) == Live(p) /\ proc[p].kind = "foreign"

\* A command's step that is about processes leaves every foreign one alone.
LEMMA ForeignCommand ==
    ASSUME TypeInv, ForeignInv, NEW c \in Cmds,
           Invoke(c) \/ UserStops(c) \/ Crash(c) \/ Step(c)
    PROVE  /\ \A p \in Pids : ForeignLive(p) => proc'[p] = proc[p]
           /\ ForeignInv'
<1> DEFINE Goal == /\ \A p \in Pids : ForeignLive(p) => proc'[p] = proc[p]
                   /\ ForeignInv'
<1>1. proc \in [Pids -> Process]
    BY DEF TypeInv, TypeOK, TableTypeOK
<1>2. ASSUME NEW r, Leave(c, r) PROVE Goal
  <2>1. c # Reaper
      BY ReaperAssumption
  <2>2. ASSUME NEW p \in Pids, proc[p].kind = "foreign" PROVE Adopted(c)[p] = proc[p]
      BY <2>1, <2>2 DEF Adopted, ForeignInv
  <2>3. ASSUME NEW p \in Pids, Adopted(c)[p].kind = "foreign"
        PROVE  proc[p].kind = "foreign"
    <3>1. proc[p] \in Process
        BY <1>1
    <3> QED BY <2>3, <3>1 DEF Adopted, FreeSlot, Process
  <2>4. proc' = Adopted(c)
      BY <1>2 DEF Leave
  <2> QED BY <2>2, <2>3, <2>4 DEF ForeignInv, ForeignLive
<1>3. CASE UNCHANGED proc
    BY <1>3 DEF ForeignInv, ForeignLive
<1>4. ASSUME NEW p \in Pids, ~ForeignLive(p),
             \/ proc' = [proc EXCEPT ![p] = FreeSlot]
             \/ proc' = [proc EXCEPT ![p] = Ended(p)]
      PROVE  Goal
  <2>1. FreeSlot.kind # "foreign" /\ Ended(p).kind # "foreign"
      BY DEF FreeSlot, Ended, Zombie
  <2>2. PICK slot : slot.kind # "foreign" /\ proc' = [proc EXCEPT ![p] = slot]
      BY <1>4, <2>1
  <2> QED BY <1>1, <1>4, <2>2 DEF ForeignInv, ForeignLive
<1>5. CASE StopStep(c)
  <2>1. CASE StopSignals(c)
    <3>1. AtTarget(c) /\ ShouldSignal(Target(c)) /\ Exists(Target(c).pid)
        BY <2>1 DEF StopSignals
    <3>2. Target(c).pid \in Pids
        BY <3>1, TargetType DEF TypeInv, Forward
    <3>3. ~ForeignLive(Target(c).pid)
        BY <3>1 DEF ShouldSignal, Recognises, LiveKubectl, ForeignLive
    <3> QED BY <1>4, <2>1, <3>2, <3>3 DEF StopSignals
  <2>2. CASE ~StopSignals(c)
      BY <1>5, <2>2, StopSpares DEF TypeInv, TypeOK, ForeignInv, ForeignLive, Live
  <2> QED BY <2>1, <2>2
<1>6. CASE StartForward(c)
  <2>1. PICK p, q :
            p \in FreshPids /\ proc' = [proc EXCEPT ![p] = Kubectl(c, q, Key(req[c]))]
      BY <1>6 DEF StartForward
  <2>2. p \in Pids /\ ~Exists(p)
      BY <2>1 DEF FreshPids
  <2> QED BY <1>1, <2>1, <2>2 DEF Exists, Live, LiveStates, ForeignInv, ForeignLive, Kubectl
<1>7. CASE ForwardDied(c)
  <2>1. /\ proc[LastPid(c)].st = "zombie"
        /\ proc' = [proc EXCEPT ![LastPid(c)] = FreeSlot]
      BY <1>7 DEF ForwardDied
  <2>2. CASE LastPid(c) \in Pids
      BY <1>4, <2>1, <2>2 DEF ForeignLive, Live, LiveStates
  <2>3. CASE LastPid(c) \notin Pids
      BY <1>1, <1>3, <2>1, <2>3
  <2> QED BY <2>2, <2>3
<1>8. CASE ForwardExited(c)
    BY <1>1, <1>8
    DEF ForwardExited, ExitedPids, ForeignInv, ForeignLive, Live, LiveStates, FreeSlot
<1>9. CASE Invoke(c) \/ UserStops(c) \/ Crash(c)
    BY <1>2, <1>3, <1>9 DEF Invoke, UserStops, Crash
<1>10. CASE Step(c)
  <2>1. CASE LoadFails(c) \/ LoadForUp(c) \/ LoadForDown(c) \/ LoadNothing(c)
      BY <1>2, <1>3, <2>1 DEF LoadFails, LoadForUp, LoadForDown, LoadNothing
  <2>2. CASE PreflightFails(c) \/ PreflightPasses(c)
      BY <1>2, <1>3, <2>2 DEF PreflightFails, PreflightPasses
  <2>3. CASE UpStep(c) /\ ~StartForward(c) /\ ~ForwardDied(c)
      BY <1>2, <1>3, <2>3
      DEF UpStep, ReplaceFails, ReplaceStopped, Recheck, StartFails, AllStarted,
          ForwardReady, ForwardTimesOut, Undone, Save, SaveFails
  <2>4. CASE ForegroundStep(c) /\ ~ForwardExited(c)
      BY <1>2, <1>3, <2>4 DEF ForegroundStep, CleanedUp, ForegroundSave, ForegroundSaveFails
  <2>5. CASE DownStep(c)
      BY <1>2, <1>3, <2>5 DEF DownStep, DownVisited, DownSave, DownSaveFails
  <2> QED
      BY <1>5, <1>6, <1>7, <1>8, <1>10, <2>1, <2>2, <2>3, <2>4, <2>5 DEF Step
<1> QED BY <1>9, <1>10

LEMMA ForeignEnvironment ==
    ASSUME TypeInv, ForeignInv, Environment PROVE ForeignInv'
<1>1. proc \in [Pids -> Process]
    BY DEF TypeInv, TypeOK, TableTypeOK
<1>2. PICK p \in Pids : \/ Listen(p) \/ BindFails(p) \/ Hang(p)
                        \/ Die(p) \/ ForeignStart(p) \/ ForeignExit(p)
    BY DEF Environment, TableStep
<1>3. ASSUME NEW slot, proc' = [proc EXCEPT ![p] = slot],
             slot.kind = "foreign" => slot.parent = Reaper
      PROVE  ForeignInv'
    BY <1>1, <1>3 DEF ForeignInv
<1>4. CASE Listen(p) \/ Hang(p)
  <2>1. PICK st : proc' = [proc EXCEPT ![p].st = st]
      BY <1>4 DEF Listen, Hang
  <2>2. proc[p] \in Process
      BY <1>1
  <2> DEFINE slot == [proc[p] EXCEPT !.st = st]
  <2>3. proc' = [proc EXCEPT ![p] = slot]
      BY <2>1
  <2>4. slot.kind = proc[p].kind /\ slot.parent = proc[p].parent
      BY <2>2 DEF Process
  <2> HIDE DEF slot
  <2> QED BY <1>3, <2>3, <2>4 DEF ForeignInv
<1>5. CASE BindFails(p) \/ Die(p) \/ ForeignExit(p)
  <2>1. FreeSlot.kind # "foreign" /\ Ended(p).kind # "foreign"
      BY DEF FreeSlot, Ended, Zombie
  <2> QED BY <1>3, <1>5, <2>1 DEF BindFails, Die, ForeignExit
<1>6. CASE ForeignStart(p)
  <2>1. \A q : Foreign(q).parent = Reaper
      BY DEF Foreign
  <2> QED BY <1>3, <1>6, <2>1 DEF ForeignStart
<1> QED BY <1>2, <1>4, <1>5, <1>6

LEMMA ForeignInvNext == TypeInv /\ ForeignInv /\ [Next]_vars => ForeignInv'
<1>1. UNCHANGED vars /\ ForeignInv => ForeignInv'
    BY DEF vars, ForeignInv
<1> QED BY <1>1, ForeignCommand, ForeignEnvironment DEF Next

\* No command ever touches a program that is not kubeforward's, even one that
\* runs on a pid its records name.
THEOREM ForeignCorrect == Spec => ForeignSafe
<1>1. Init => ForeignInv
  <2> SUFFICES ASSUME Init, NEW o \in Pids PROVE proc[o].kind # "foreign"
      BY DEF ForeignInv
  <2>1. CASE proc = [p \in Pids |-> FreeSlot]
      BY <2>1 DEF FreeSlot
  <2>2. ASSUME NEW k \in Keys, NEW q \in Ports, NEW p \in Pids,
               proc = [i \in Pids |->
                            IF i # p THEN FreeSlot
                            ELSE [Kubectl(Reaper, q, k) EXCEPT !.st = "listening"]]
        PROVE  proc[o].kind # "foreign"
      BY <2>2 DEF FreeSlot, Kubectl
  <2> QED BY <2>1, <2>2 DEF Init
<1>2. TypeInv /\ ForeignInv /\ [Next]_vars =>
        [\A p \in Pids : Live(p) /\ proc[p].kind = "foreign" =>
            \/ proc'[p] = proc[p]
            \/ UNCHANGED <<file, pc, req, snap, own, mode, todo, kept, sig, res>>]_vars
  <2> SUFFICES ASSUME TypeInv, ForeignInv, [Next]_vars, NEW p \in Pids, ForeignLive(p),
                      ~UNCHANGED vars
               PROVE  \/ proc'[p] = proc[p]
                      \/ UNCHANGED <<file, pc, req, snap, own, mode, todo, kept, sig, res>>
      BY DEF ForeignLive
  <2>1. CASE Environment
      BY <2>1 DEF Environment
  <2>2. CASE \E c \in Cmds : Invoke(c) \/ UserStops(c) \/ Crash(c) \/ Step(c)
      BY <2>2, ForeignCommand
  <2> QED BY <2>1, <2>2 DEF Next
<1> QED BY <1>1, <1>2, TypeInit, TypeNext, ForeignInvNext, PTL DEF Spec, ForeignSafe

-----------------------------------------------------------------------------
(* Whole sessions.                                                          *)

Whole(s) ==
    Restartable(s) =>
        \E r \in Requests : r.op = "up" /\ Key(r) = Key(s) /\ r.plan = PortsOf(s.fwds)

\* How far a command has got with the session it starts: nothing is started
\* before "start", and from there on its forwards are the first ones wanted.
StartInv(c) ==
    /\ pc[c] \in {"idle", "load", "preflight", "stopOld", "recheck"} => own[c] = <<>>
    /\ pc[c] \in {"stopOld", "recheck", "start", "ready", "save", "undo"} =>
            \A s \in Existing(c) : Restartable(s)
    /\ pc[c] \in {"start", "ready", "save"} =>
            \A i \in 1..Len(own[c]) : i <= Len(Wanted(c)) /\ own[c][i].port = Wanted(c)[i]
    /\ pc[c] = "save" => Len(own[c]) = Len(Wanted(c))

WholeInv ==
    /\ \A s \in file : Whole(s)
    /\ \A c \in Cmds : StartInv(c) /\ \A s \in snap[c] : Whole(s)

\* A command's step changes nothing of another command.
LEMMA OthersSame ==
    ASSUME TypeInv, NEW c \in Cmds, NEW d \in Cmds, d # c,
           Invoke(c) \/ UserStops(c) \/ Crash(c) \/ Step(c)
    PROVE  /\ pc'[d] = pc[d] /\ req'[d] = req[d] /\ snap'[d] = snap[d]
           /\ own'[d] = own[d] /\ mode'[d] = mode[d] /\ todo'[d] = todo[d]
           /\ sig'[d] = sig[d]
<1> DEFINE Goal == /\ pc'[d] = pc[d] /\ req'[d] = req[d] /\ snap'[d] = snap[d]
                   /\ own'[d] = own[d] /\ mode'[d] = mode[d] /\ todo'[d] = todo[d]
                   /\ sig'[d] = sig[d]
<1> USE DEF TypeInv, TypeOK, CommandsTypeOK
<1>1. ASSUME NEW r, Leave(c, r) PROVE Goal
    BY <1>1 DEF Leave
<1>2. CASE Invoke(c) \/ UserStops(c) \/ Crash(c)
    BY <1>1, <1>2 DEF Invoke, UserStops, Crash
<1>3. CASE LoadFails(c) \/ LoadForUp(c) \/ LoadForDown(c) \/ LoadNothing(c)
    BY <1>1, <1>3 DEF LoadFails, LoadForUp, LoadForDown, LoadNothing
<1>4. CASE PreflightFails(c) \/ PreflightPasses(c)
    BY <1>1, <1>4 DEF PreflightFails, PreflightPasses
<1>5. CASE StopStep(c)
    BY <1>5
    DEF StopStep, StopRefused, StopGone, StopSignals, StopReaped, StopFails, NextTarget
<1>6. CASE \/ ReplaceFails(c) \/ ReplaceStopped(c) \/ Recheck(c)
           \/ StartForward(c) \/ StartFails(c) \/ AllStarted(c)
    BY <1>1, <1>6
    DEF ReplaceFails, ReplaceStopped, Recheck, StartForward, StartFails, AllStarted, Undo
<1>7. CASE \/ ForwardReady(c) \/ ForwardDied(c) \/ ForwardTimesOut(c)
           \/ Undone(c) \/ Save(c) \/ SaveFails(c)
    BY <1>1, <1>7
    DEF ForwardReady, ForwardDied, ForwardTimesOut, Undone, Save, SaveFails, Undo
<1>8. CASE ForegroundStep(c) \/ DownStep(c)
    BY <1>1, <1>8
    DEF ForegroundStep, ForwardExited, CleanedUp, ForegroundSave, ForegroundSaveFails,
        DownStep, DownVisited, DownSave, DownSaveFails
<1> QED BY <1>2, <1>3, <1>4, <1>5, <1>6, <1>7, <1>8 DEF Step, UpStep

\* A command that stays where it is, or moves on with the session it has, is
\* as far as it was.
LEMMA StartSame ==
    ASSUME NEW d \in Cmds, StartInv(d),
           pc'[d] = pc[d], req'[d] = req[d], snap'[d] = snap[d],
           own'[d] = own[d], mode'[d] = mode[d]
    PROVE  StartInv(d)'
BY DEF StartInv, Existing, Wanted, Previous

LEMMA StartStep ==
    ASSUME TypeInv, NEW c \in Cmds, StartInv(c),
           Invoke(c) \/ UserStops(c) \/ Crash(c) \/ Step(c)
    PROVE  StartInv(c)'
<1> DEFINE Same == UNCHANGED <<req, snap, own, mode>>
<1>1. pc \in [Cmds -> Stages] /\ own \in [Cmds -> Seq(Forward)] /\ mode \in [Cmds -> {"new", "restore"}]
    BY DEF TypeInv, TypeOK, CommandsTypeOK
<1>2. ASSUME NEW r, Leave(c, r) PROVE StartInv(c)'
    BY <1>1, <1>2 DEF Leave, StartInv
<1>3. ASSUME pc'[c] \in {"watch", "cleanup", "fgSave", "downStop", "downSave"}
      PROVE  StartInv(c)'
    BY <1>3 DEF StartInv
<1>4. CASE Invoke(c) \/ UserStops(c) \/ Crash(c)
    BY <1>1, <1>2, <1>3, <1>4 DEF Invoke, UserStops, Crash, StartInv
<1>5. CASE LoadFails(c) \/ LoadForUp(c) \/ LoadForDown(c) \/ LoadNothing(c)
    BY <1>1, <1>2, <1>3, <1>5 DEF LoadFails, LoadForUp, LoadForDown, LoadNothing, StartInv
<1>6. CASE PreflightFails(c)
    BY <1>2, <1>6 DEF PreflightFails
<1>7. CASE PreflightPasses(c)
  <2>1. /\ pc[c] = "preflight" /\ pc'[c] \in {"start", "stopOld"} /\ Same
        /\ \A s \in Existing(c) : Restartable(s)
      BY <1>1, <1>7 DEF PreflightPasses, Refused
  <2>2. own'[c] = <<>> /\ Existing(c)' = Existing(c)
      BY <2>1 DEF StartInv, Existing
  <2> QED BY <2>1, <2>2 DEF StartInv
<1>8. CASE StopStep(c)
  <2>1. UNCHANGED <<pc, req, snap, own, mode>>
      BY <1>8 DEF StopStep, StopRefused, StopGone, StopSignals, StopReaped, StopFails
  <2> QED BY <2>1, StartSame
<1>9. CASE ReplaceStopped(c) \/ Recheck(c)
  <2>1. /\ pc[c] \in {"stopOld", "recheck"} /\ pc'[c] \in {"recheck", "start"}
        /\ UNCHANGED <<req, snap, own>>
      BY <1>1, <1>9 DEF ReplaceStopped, Recheck
  <2>2. own'[c] = <<>> /\ Existing(c)' = Existing(c)
      BY <2>1 DEF StartInv, Existing
  <2> QED BY <2>1, <2>2 DEF StartInv
<1>10. CASE StartForward(c)
  <2> DEFINE n == Len(own[c]) + 1
  <2>1. /\ pc[c] = "start" /\ pc'[c] \in {"start", "ready"} /\ n <= Len(Wanted(c))
        /\ UNCHANGED <<req, snap, mode>>
      BY <1>1, <1>10 DEF StartForward
  <2>2. PICK p \in Pids :
          own'[c] = Append(own[c], [port |-> Wanted(c)[n], pid |-> p, argv |-> TRUE])
      BY <1>1, <1>10 DEF StartForward, FreshPids
  <2>3. Existing(c)' = Existing(c) /\ Wanted(c)' = Wanted(c)
      BY <2>1 DEF Existing, Wanted, Previous
  <2> DEFINE f == [port |-> Wanted(c)[n], pid |-> p, argv |-> TRUE]
  <2>4. f.port = Wanted(c)[n]
      OBVIOUS
  <2>5. own'[c] = Append(own[c], f)
      BY <2>2
  <2> HIDE DEF f
  <2>6. own[c] \in Seq(Forward) /\ Len(own[c]) \in Nat
      BY <1>1, LenProperties
  <2>7. Len(own'[c]) = n /\ \A i \in 1..n : own'[c][i] = IF i = n THEN f ELSE own[c][i]
      BY <2>5, <2>6
  <2>8. \A i \in 1..n : i <= Len(Wanted(c)) /\ own'[c][i].port = Wanted(c)[i]
    <3>1. \A i \in 1..Len(own[c]) : i <= Len(Wanted(c)) /\ own[c][i].port = Wanted(c)[i]
        BY <2>1 DEF StartInv
    <3> TAKE i \in 1..n
    <3>2. CASE i = n
        BY <2>1, <2>4, <2>7, <3>2
    <3>3. CASE i # n
        BY <2>6, <2>7, <3>1, <3>3
    <3> QED BY <3>2, <3>3
  <2> QED BY <2>1, <2>3, <2>7, <2>8 DEF StartInv
<1>11. CASE StartFails(c) \/ ForwardDied(c) \/ ForwardTimesOut(c) \/ SaveFails(c)
  <2>1. /\ pc[c] \in {"start", "ready", "save"} /\ pc'[c] = "undo"
        /\ UNCHANGED <<req, snap>>
      BY <1>1, <1>11 DEF StartFails, ForwardDied, ForwardTimesOut, SaveFails, Undo
  <2>2. Existing(c)' = Existing(c)
      BY <2>1 DEF Existing
  <2> QED BY <2>1, <2>2 DEF StartInv
<1>12. CASE AllStarted(c) \/ ForwardReady(c)
  <2>1. /\ pc[c] \in {"start", "ready"} /\ pc'[c] \in {"start", "save"} /\ Same
        /\ pc'[c] = "save" => Len(own[c]) = Len(Wanted(c))
      BY <1>1, <1>12 DEF AllStarted, ForwardReady
  <2>2. Existing(c)' = Existing(c) /\ Wanted(c)' = Wanted(c)
      BY <2>1 DEF Existing, Wanted, Previous
  <2> QED BY <2>1, <2>2 DEF StartInv
<1>13. CASE Undone(c)
  <2>1. CASE mode[c] = "new" /\ Existing(c) # {}
    <3>1. pc[c] = "undo" /\ pc'[c] = "start" /\ own'[c] = <<>> /\ UNCHANGED <<req, snap>>
        BY <1>1, <1>13, <2>1 DEF Undone
    <3>2. Existing(c)' = Existing(c)
        BY <3>1 DEF Existing
    <3> QED BY <3>1, <3>2 DEF StartInv
  <2>2. CASE ~(mode[c] = "new" /\ Existing(c) # {})
      BY <1>2, <1>13, <2>2 DEF Undone
  <2> QED BY <2>1, <2>2
<1>14. CASE ReplaceFails(c) \/ Save(c)
    BY <1>1, <1>2, <1>3, <1>14 DEF ReplaceFails, Save
<1>15. CASE ForegroundStep(c) \/ DownStep(c)
    BY <1>1, <1>2, <1>3, <1>15
    DEF ForegroundStep, ForwardExited, CleanedUp, ForegroundSave, ForegroundSaveFails,
        DownStep, DownVisited, DownSave, DownSaveFails
<1> QED
    BY <1>4, <1>5, <1>6, <1>7, <1>8, <1>9, <1>10, <1>11, <1>12, <1>13, <1>14, <1>15
    DEF Step, UpStep

\* When everything has been started, the session has the ports that were wanted.
LEMMA OwnPorts ==
    ASSUME TypeInv, NEW c \in Cmds, StartInv(c), pc[c] = "save"
    PROVE  PortsOf(own[c]) = Wanted(c)
<1>1. Wanted(c) \in Seq(Ports) /\ own[c] \in Seq(Forward)
    BY WantedType DEF TypeInv, TypeOK, CommandsTypeOK
<1>2. DOMAIN own[c] = 1..Len(own[c]) /\ DOMAIN Wanted(c) = 1..Len(Wanted(c))
    BY <1>1, LenProperties
<1>3. Len(own[c]) = Len(Wanted(c))
    BY DEF StartInv
<1>4. \A i \in DOMAIN own[c] : own[c][i].port = Wanted(c)[i]
    BY <1>2 DEF StartInv
<1>5. Wanted(c) = [i \in DOMAIN Wanted(c) |-> Wanted(c)[i]]
    BY <1>1
<1> QED BY <1>2, <1>3, <1>4, <1>5 DEF PortsOf

\* The session a command saves is whole: it has the ports of its request, or
\* those of the session it brings back.
LEMMA BuiltWhole ==
    ASSUME TypeInv, NEW c \in Cmds, StartInv(c), \A s \in snap[c] : Whole(s),
           pc[c] = "save"
    PROVE  Whole(Built(c))
<1>1. req[c] \in Requests /\ req[c].op = "up" /\ mode[c] \in {"new", "restore"}
    BY UpRequest DEF TypeInv, TypeOK, CommandsTypeOK, UpStages
<1>2. PortsOf(own[c]) = Wanted(c)
    BY OwnPorts
<1>3. Key(Built(c)) = Key(req[c]) /\ Built(c).fwds = own[c]
    BY DEF Built, Key
<1>4. CASE mode[c] = "new"
  <2>1. req[c].plan = PortsOf(Built(c).fwds)
      BY <1>2, <1>3, <1>4 DEF Wanted
  <2> QED BY <1>1, <1>3, <2>1 DEF Whole
<1>5. CASE mode[c] = "restore"
  <2>1. Previous(c) \in Existing(c)
      BY <1>5 DEF TypeInv, ControlInv, Previous
  <2>2. Restartable(Previous(c)) /\ Previous(c) \in snap[c]
      BY <2>1 DEF StartInv, Existing, Matching
  <2>3. Key(Previous(c)) = Key(req[c])
    <3>1. req[c].env \in Envs /\ req[c].env # AllEnvs
        BY <1>1, RequestsAssumption, AllEnvsAssumption
    <3> QED BY <2>1, <3>1 DEF Existing, Matching, Key
  <2>4. PICK r \in Requests : /\ r.op = "up" /\ Key(r) = Key(Previous(c))
                              /\ r.plan = PortsOf(Previous(c).fwds)
      BY <2>2 DEF Whole
  <2>5. r.plan = PortsOf(Built(c).fwds)
      BY <1>2, <1>3, <1>5, <2>4 DEF Wanted
  <2> QED BY <1>3, <2>3, <2>4, <2>5 DEF Whole
<1> QED BY <1>1, <1>4, <1>5

LEMMA WholeNext == TypeInv /\ WholeInv /\ [Next]_vars => WholeInv'
<1> SUFFICES ASSUME TypeInv, WholeInv, [Next]_vars PROVE WholeInv'
    OBVIOUS
<1>1. \A d \in Cmds : StartInv(d)'
  <2> TAKE d \in Cmds
  <2>1. StartInv(d)
      BY DEF WholeInv
  <2>2. CASE Environment \/ UNCHANGED vars
      BY <2>1, <2>2, StartSame DEF Environment, vars
  <2>3. ASSUME NEW c \in Cmds, Invoke(c) \/ UserStops(c) \/ Crash(c) \/ Step(c)
        PROVE  StartInv(d)'
    <3>1. CASE d = c
        BY <2>1, <2>3, <3>1, StartStep
    <3>2. CASE d # c
      <4>1. /\ pc'[d] = pc[d] /\ req'[d] = req[d] /\ snap'[d] = snap[d]
            /\ own'[d] = own[d] /\ mode'[d] = mode[d]
          BY <2>3, <3>2, OthersSame
      <4> QED BY <2>1, <4>1, StartSame
    <3> QED BY <3>1, <3>2
  <2> QED BY <2>2, <2>3 DEF Next
<1>2. snap \in [Cmds -> SUBSET Session]
    BY DEF TypeInv, TypeOK, CommandsTypeOK
<1>3. /\ \A s \in file' : Whole(s)
      /\ \A d \in Cmds : \A s \in snap'[d] : Whole(s)
  <2>1. ASSUME NEW c \in Cmds, Save(c) PROVE \A s \in file' : Whole(s)
    <3>1. Whole(Built(c))
        BY <2>1, BuiltWhole DEF WholeInv, Save
    <3> QED BY <2>1, <3>1 DEF Save, Without, WholeInv
  <2>2. \A c \in Cmds : \A s \in snap[c] : Whole(s)
      BY DEF WholeInv
  <2>3. \A s \in file : Whole(s)
      BY DEF WholeInv
  <2> HIDE DEF Whole
  <2> QED BY <1>2, <2>1, <2>2, <2>3, RecordsStep
<1> QED BY <1>1, <1>3 DEF WholeInv, Whole, Restartable, Key, PortsOf

LEMMA WholeInvariant == Spec => []WholeInv
<1>1. Init => WholeInv
  <2> SUFFICES ASSUME Init PROVE WholeInv
      OBVIOUS
  <2>1. \A k \in Keys, q \in Ports, p \in Pids : ~Restartable(LegacyRecord(k, q, p))
      BY DEF LegacyRecord, Restartable
  <2>2. \A s \in file : Whole(s)
      BY <2>1 DEF Init, Whole
  <2>3. \A c \in Cmds : StartInv(c) /\ \A s \in snap[c] : Whole(s)
      BY DEF Init, StartInv
  <2> QED BY <2>2, <2>3 DEF WholeInv
<1> QED BY <1>1, TypeInit, TypeNext, WholeNext, PTL DEF Spec

\* No step ever puts a partly started session into the state file: not a start
\* that fails half way, not a restore, not another command's write.
THEOREM WholeCorrect == Spec => []WholeSessions
<1>1. WholeInv => WholeSessions
    BY DEF WholeInv, Whole, WholeSessions
<1> QED BY <1>1, WholeInvariant, PTL

-----------------------------------------------------------------------------
(* Scope.  As long as fork does not return a pid that some record still     *)
(* names, a record names its own session's kubectl or none that is alive.   *)

PidsOf(s) == {s.fwds[i].pid : i \in DOMAIN s.fwds}
ForwardsOf(s) == {s.fwds[i] : i \in DOMAIN s.fwds}
OwnsIn(table, s) ==
    \A p \in PidsOf(s) :
        table[p].st \in LiveStates /\ table[p].kind = "kubectl" => table[p].key = Key(s)

OwnsInv ==
    /\ \A s \in file : OwnsIn(proc, s)
    /\ \A c \in Cmds : OwnsIn(proc, Built(c)) /\ \A s \in snap[c] : OwnsIn(proc, s)

\* What a command still has to stop is in its scope, and comes from its
\* snapshot or is what it has started itself.
TodoInv(c) ==
    /\ pc[c] \notin Stopping => todo[c] = <<>>
    /\ \A i \in DOMAIN todo[c] :
        /\ InScope(Key(todo[c][i]), req[c])
        /\ \E s \in snap[c] \cup {Built(c)} :
            Key(s) = Key(todo[c][i]) /\ ForwardsOf(todo[c][i]) \subseteq ForwardsOf(s)

LineInv == \A c \in Cmds : TodoInv(c) /\ StartInv(c)
ScopeInv == OwnsInv /\ LineInv

\* No kubectl comes to life, and none changes hands or its port.
Calm ==
    \A p \in Pids : LiveKubectl(p)' =>
        LiveKubectl(p) /\ proc'[p].key = proc[p].key /\ proc'[p].port = proc[p].port

LEMMA SessionPids ==
    ASSUME NEW s, s.fwds \in Seq(Forward)
    PROVE  PidsOf(s) \subseteq Pids
<1> DEFINE f == s.fwds
<1> HIDE DEF f
<1>1. f \in Seq(Forward)
    BY DEF f
<1>2. \A i \in DOMAIN f : f[i] \in Forward
    BY <1>1, LenProperties, ElementOfSeq
<1>3. {f[i].pid : i \in DOMAIN f} \subseteq Pids
    BY <1>2 DEF Forward
<1> QED BY <1>3 DEF PidsOf, f

LEMMA ForwardsPids ==
    ASSUME NEW s, NEW t, ForwardsOf(s) \subseteq ForwardsOf(t)
    PROVE  PidsOf(s) \subseteq PidsOf(t)
<1> SUFFICES ASSUME NEW i \in DOMAIN s.fwds PROVE s.fwds[i].pid \in PidsOf(t)
    BY DEF PidsOf
<1>1. PICK j \in DOMAIN t.fwds : t.fwds[j] = s.fwds[i]
    BY DEF ForwardsOf
<1> QED BY <1>1 DEF PidsOf

\* Sessions still to be stopped are among those that were, with less to stop.
LEMMA RestForwards ==
    ASSUME NEW sessions \in Seq(Session), sessions # <<>>,
           NEW i \in DOMAIN Rest(sessions)
    PROVE  \E j \in DOMAIN sessions :
                /\ Key(Rest(sessions)[i]) = Key(sessions[j])
                /\ ForwardsOf(Rest(sessions)[i]) \subseteq ForwardsOf(sessions[j])
<1> DEFINE s == Head(sessions)
           Goal == \E j \in DOMAIN sessions :
                        /\ Key(Rest(sessions)[i]) = Key(sessions[j])
                        /\ ForwardsOf(Rest(sessions)[i]) \subseteq ForwardsOf(sessions[j])
<1>1. /\ Len(sessions) \in Nat /\ Len(sessions) > 0 /\ DOMAIN sessions = 1..Len(sessions)
      /\ s = sessions[1] /\ s \in Session
    BY LenProperties, EmptySeq, HeadTailProperties
<1>2. /\ Tail(sessions) \in Seq(Session) /\ DOMAIN Tail(sessions) = 1..(Len(sessions) - 1)
      /\ \A j \in 1..(Len(sessions) - 1) : Tail(sessions)[j] = sessions[j + 1]
  <2>1. /\ Tail(sessions) \in Seq(Session) /\ Len(Tail(sessions)) = Len(sessions) - 1
        /\ \A j \in 1..(Len(sessions) - 1) : Tail(sessions)[j] = sessions[j + 1]
      BY HeadTailProperties
  <2> QED BY <2>1, LenProperties
<1>3. ASSUME NEW j \in 1..(Len(sessions) - 1), Rest(sessions)[i] = Tail(sessions)[j]
      PROVE  Goal
  <2>1. j + 1 \in DOMAIN sessions /\ Rest(sessions)[i] = sessions[j + 1]
      BY <1>1, <1>2, <1>3
  <2> QED BY <2>1
<1>4. CASE Len(s.fwds) > 1
  <2> DEFINE h == [s EXCEPT !.fwds = Tail(s.fwds)]
  <2>1. h \in Session /\ Key(h) = Key(s) /\ h.fwds = Tail(s.fwds)
    <3>1. s.fwds \in Seq(Forward) /\ s.fwds # <<>>
      <4>1. s.fwds \in Seq(Forward)
          BY <1>1 DEF Session
      <4> QED BY <1>4, <4>1, LenProperties, EmptySeq
    <3>2. Tail(s.fwds) \in Seq(Forward)
        BY <3>1, HeadTailProperties
    <3> HIDE DEF s
    <3> QED BY <1>1, <3>2 DEF Session, Key
  <2>2. ForwardsOf(h) \subseteq ForwardsOf(s)
    <3> DEFINE g == s.fwds
    <3>1. g \in Seq(Forward) /\ g # <<>>
      <4>1. g \in Seq(Forward)
          BY <1>1 DEF Session
      <4> QED BY <1>4, <4>1, LenProperties, EmptySeq
    <3> HIDE DEF g
    <3>2. /\ Tail(g) \in Seq(Forward) /\ Len(Tail(g)) = Len(g) - 1
          /\ \A j \in 1..(Len(g) - 1) : Tail(g)[j] = g[j + 1]
        BY <3>1, HeadTailProperties
    <3>3. \A j \in DOMAIN Tail(g) : j + 1 \in DOMAIN g /\ Tail(g)[j] = g[j + 1]
        BY <3>1, <3>2, LenProperties
    <3>4. {Tail(g)[j] : j \in DOMAIN Tail(g)} \subseteq {g[j] : j \in DOMAIN g}
        BY <3>3
    <3> QED BY <2>1, <3>4 DEF ForwardsOf, g
  <2>3. Rest(sessions) = <<h>> \o Tail(sessions)
      BY <1>4 DEF Rest
  <2> HIDE DEF h
  <2>4. /\ i \in 1..Len(sessions)
        /\ Rest(sessions)[i] = IF i = 1 THEN h ELSE Tail(sessions)[i - 1]
    <3>1. <<h>> \in Seq(Session) /\ Len(<<h>>) = 1 /\ <<h>>[1] = h
        BY <2>1
    <3>2. Len(Tail(sessions)) = Len(sessions) - 1
        BY <1>1, <1>2, LenProperties
    <3> QED BY <1>1, <1>2, <2>3, <3>1, <3>2, ConcatProperties, LenProperties
  <2>5. CASE i = 1
      BY <1>1, <2>1, <2>2, <2>4, <2>5
  <2>6. CASE i # 1
    <3>1. i - 1 \in 1..(Len(sessions) - 1)
        BY <1>1, <2>4, <2>6
    <3> QED BY <1>3, <2>4, <2>6, <3>1
  <2> QED BY <2>5, <2>6
<1>5. CASE ~(Len(s.fwds) > 1)
  <2>1. Rest(sessions) = Tail(sessions)
      BY <1>5 DEF Rest
  <2> QED BY <1>2, <1>3, <2>1
<1> QED BY <1>4, <1>5

\* Only the start of a forward brings a kubectl to life.
LEMMA CalmStep ==
    ASSUME TypeInv, [Next]_vars, \A c \in Cmds : ~StartForward(c)
    PROVE  Calm
<1>1. proc \in [Pids -> Process]
    BY DEF TypeInv, TypeOK, TableTypeOK
<1>2. ASSUME NEW c, NEW r, Leave(c, r) PROVE Calm
  <2>1. \A p \in Pids : Adopted(c)[p].st # "free" =>
            /\ Adopted(c)[p].st = proc[p].st /\ Adopted(c)[p].kind = proc[p].kind
            /\ Adopted(c)[p].key = proc[p].key /\ Adopted(c)[p].port = proc[p].port
      BY <1>1 DEF Adopted, FreeSlot, Process
  <2> QED BY <1>2, <2>1 DEF Leave, Calm, LiveKubectl, Live, LiveStates
<1>3. CASE UNCHANGED proc
    BY <1>3 DEF Calm, LiveKubectl, Live
<1>4. ASSUME NEW p, NEW slot, proc' = [proc EXCEPT ![p] = slot],
             \/ slot.st \notin LiveStates
             \/ slot.kind # "kubectl"
             \/ LiveKubectl(p) /\ slot.key = proc[p].key /\ slot.port = proc[p].port
      PROVE  Calm
  <2>1. \A o \in Pids : o # p => proc'[o] = proc[o]
      BY <1>1, <1>4
  <2>2. p \in Pids => proc'[p] = slot
      BY <1>1, <1>4
  <2> QED BY <1>4, <2>1, <2>2 DEF Calm, LiveKubectl, Live
<1>5. FreeSlot.st \notin LiveStates /\ \A p : Ended(p).st \notin LiveStates
    BY DEF FreeSlot, Ended, Zombie, LiveStates
<1>6. ASSUME NEW c \in Cmds, Step(c) PROVE Calm
  <2>1. CASE LoadFails(c) \/ LoadForUp(c) \/ LoadForDown(c) \/ LoadNothing(c)
      BY <1>2, <1>3, <2>1 DEF LoadFails, LoadForUp, LoadForDown, LoadNothing
  <2>2. CASE PreflightFails(c) \/ PreflightPasses(c)
      BY <1>2, <1>3, <2>2 DEF PreflightFails, PreflightPasses
  <2>3. CASE StopStep(c)
    <3>1. CASE StopSignals(c)
      <4>1. PICK p, slot : proc' = [proc EXCEPT ![p] = slot] /\ slot.st \notin LiveStates
          BY <1>5, <3>1 DEF StopSignals
      <4> QED BY <1>4, <4>1
    <3> QED
        BY <2>3, <3>1, StopSpares DEF TypeInv, TypeOK, Calm, LiveKubectl, Live
  <2>4. CASE UpStep(c)
    <3>1. CASE ForwardDied(c)
      <4>1. PICK p, slot : proc' = [proc EXCEPT ![p] = slot] /\ slot.st \notin LiveStates
          BY <1>5, <3>1 DEF ForwardDied
      <4> QED BY <1>4, <4>1
    <3>2. CASE ~ForwardDied(c)
        BY <1>2, <1>3, <2>4, <3>2
        DEF UpStep, ReplaceFails, ReplaceStopped, Recheck, StartFails, AllStarted,
            ForwardReady, ForwardTimesOut, Undone, Save, SaveFails
    <3> QED BY <3>1, <3>2
  <2>5. CASE ForegroundStep(c) /\ ~ForwardExited(c)
      BY <1>2, <1>3, <2>5 DEF ForegroundStep, CleanedUp, ForegroundSave, ForegroundSaveFails
  <2>6. CASE ForwardExited(c)
      BY <1>1, <1>5, <2>6 DEF ForwardExited, Calm, LiveKubectl, Live
  <2>7. CASE DownStep(c)
      BY <1>2, <1>3, <2>7 DEF DownStep, DownVisited, DownSave, DownSaveFails
  <2> QED BY <1>6, <2>1, <2>2, <2>3, <2>4, <2>5, <2>6, <2>7 DEF Step
<1>7. ASSUME NEW c \in Cmds, Invoke(c) \/ UserStops(c) \/ Crash(c) PROVE Calm
    BY <1>2, <1>3, <1>7 DEF Invoke, UserStops, Crash
<1>8. CASE Environment
  <2>1. PICK p \in Pids : \/ Listen(p) \/ BindFails(p) \/ Hang(p)
                          \/ Die(p) \/ ForeignStart(p) \/ ForeignExit(p)
      BY <1>8 DEF Environment, TableStep
  <2>2. CASE Listen(p) \/ Hang(p)
    <3>1. PICK st \in LiveStates : proc' = [proc EXCEPT ![p].st = st]
        BY <2>2 DEF Listen, Hang, LiveStates
    <3>2. proc[p].st \in LiveStates
        BY <2>2 DEF Listen, Hang, LiveStates
    <3>3. \A o \in Pids :
            /\ proc'[o].kind = proc[o].kind /\ proc'[o].key = proc[o].key
            /\ proc'[o].port = proc[o].port
            /\ proc'[o].st \in LiveStates => proc[o].st \in LiveStates
        BY <1>1, <3>1, <3>2 DEF Process
    <3> QED BY <3>3 DEF Calm, LiveKubectl, Live
  <2>3. CASE BindFails(p) \/ Die(p) \/ ForeignExit(p)
    <3>1. PICK slot : proc' = [proc EXCEPT ![p] = slot] /\ slot.st \notin LiveStates
        BY <1>5, <2>3 DEF BindFails, Die, ForeignExit
    <3> QED BY <1>4, <3>1
  <2>4. CASE ForeignStart(p)
    <3>1. \A q : Foreign(q).kind # "kubectl"
        BY DEF Foreign
    <3> QED BY <1>4, <2>4, <3>1 DEF ForeignStart
  <2> QED BY <2>1, <2>2, <2>3, <2>4
<1>9. CASE UNCHANGED vars
    BY <1>3, <1>9 DEF vars
<1> QED BY <1>6, <1>7, <1>8, <1>9 DEF Next

\* A command's line stays in scope as long as nothing it comes from changes.
LEMMA TodoSame ==
    ASSUME NEW d \in Cmds, TodoInv(d), pc'[d] = pc[d], req'[d] = req[d],
           snap'[d] = snap[d], own'[d] = own[d], todo'[d] = todo[d]
    PROVE  TodoInv(d)'
<1>1. Built(d)' = Built(d)
    BY DEF Built
<1>2. pc'[d] \notin Stopping => todo'[d] = <<>>
    BY DEF TodoInv
<1>3. ASSUME NEW i \in DOMAIN todo'[d]
      PROVE  /\ InScope(Key(todo'[d][i]), req'[d])
             /\ \E s \in snap'[d] \cup {Built(d)'} :
                Key(s) = Key(todo'[d][i]) /\ ForwardsOf(todo'[d][i]) \subseteq ForwardsOf(s)
    BY <1>1 DEF TodoInv
<1> QED BY <1>2, <1>3 DEF TodoInv, Stopping

\* What a command has in line changes only as its stages say.
LEMMA TodoStep ==
    ASSUME TypeInv, NEW c \in Cmds, TodoInv(c),
           Invoke(c) \/ UserStops(c) \/ Crash(c) \/ Step(c)
    PROVE  TodoInv(c)'
<1>1. /\ pc \in [Cmds -> Stages] /\ snap \in [Cmds -> SUBSET Session]
      /\ todo \in [Cmds -> Seq(Session)] /\ req \in [Cmds -> Requests \cup {NoRequest}]
      /\ file \subseteq Session /\ IsFiniteSet(file) /\ IsFiniteSet(snap[c])
    BY DEF TypeInv, TypeOK, CommandsTypeOK, RecordsFinite
<1>2. ASSUME todo'[c] = <<>> PROVE TodoInv(c)'
    BY <1>2 DEF TodoInv
<1>3. ASSUME NEW r, Leave(c, r) PROVE TodoInv(c)'
    BY <1>1, <1>2, <1>3 DEF Leave
<1>4. ASSUME UNCHANGED todo, todo[c] = <<>> PROVE TodoInv(c)'
    BY <1>2, <1>4
<1>5. pc[c] \notin Stopping => todo[c] = <<>>
    BY DEF TodoInv
<1>6. ASSUME NEW S \in SUBSET Session, IsFiniteSet(S), NEW order \in VisitOrders(S),
             todo'[c] = order, snap'[c] \in SUBSET Session, pc'[c] \in Stopping,
             S = Matching(snap'[c], req[c].cfg, req[c].env), UNCHANGED req
      PROVE  TodoInv(c)'
  <2>1. \A i \in DOMAIN order : order[i] \in S
      BY <1>6, VisitOrdersType
  <2>2. \A s \in S : s \in snap'[c] /\ InScope(Key(s), req[c])
      BY <1>6 DEF Matching, InScope, Key
  <2> QED BY <1>6, <2>1, <2>2 DEF TodoInv, InScope
<1>7. ASSUME todo'[c] \in {<<>>, <<Built(c)>>}, pc'[c] \in Stopping, UNCHANGED <<req, own>>
      PROVE  TodoInv(c)'
  <2>1. CASE todo'[c] = <<>>
      BY <1>2, <2>1
  <2>2. CASE todo'[c] = <<Built(c)>>
    <3>1. Built(c)' = Built(c) /\ InScope(Key(Built(c)), req[c])
        BY <1>7 DEF Built, InScope, Key
    <3>2. \A i \in DOMAIN todo'[c] : todo'[c][i] = Built(c)
        BY <2>2
    <3> HIDE DEF Stopping
    <3> QED BY <1>7, <3>1, <3>2 DEF TodoInv, InScope
  <2> QED BY <1>7, <2>1, <2>2
<1>8. CASE Invoke(c) \/ UserStops(c) \/ Crash(c)
  <2>1. CASE UserStops(c)
      BY <1>1, <1>7, <2>1 DEF UserStops, Stopping
  <2>2. CASE Invoke(c) \/ Crash(c)
      BY <1>3, <1>4, <1>5, <2>2 DEF Invoke, Crash, Stopping
  <2> QED BY <1>8, <2>1, <2>2
<1>9. CASE LoadFails(c) \/ LoadForUp(c) \/ LoadNothing(c)
    BY <1>3, <1>4, <1>5, <1>9 DEF LoadFails, LoadForUp, LoadNothing, Stopping
<1>10. CASE LoadForDown(c)
  <2> DEFINE S == Matching(file, req[c].cfg, req[c].env)
  <2>1. PICK order \in VisitOrders(S) : todo' = [todo EXCEPT ![c] = order]
      BY <1>10 DEF LoadForDown
  <2>2. S \in SUBSET Session /\ IsFiniteSet(S) /\ snap'[c] = file
      BY <1>1, <1>10, FS_Subset DEF Matching, LoadForDown
  <2>3. todo'[c] = order /\ pc'[c] \in Stopping /\ UNCHANGED req
      BY <1>1, <1>10, <2>1 DEF LoadForDown, Stopping
  <2>4. S = Matching(snap'[c], req[c].cfg, req[c].env)
      BY <2>2
  <2> HIDE DEF S
  <2> QED BY <1>1, <1>6, <2>2, <2>3, <2>4
<1>11. CASE PreflightFails(c)
    BY <1>3, <1>11 DEF PreflightFails
<1>12. CASE PreflightPasses(c)
  <2>1. CASE Existing(c) = {}
      BY <1>4, <1>5, <1>12, <2>1 DEF PreflightPasses, Stopping
  <2>2. CASE Existing(c) # {}
    <3>1. PICK order \in VisitOrders(Existing(c)) : todo' = [todo EXCEPT ![c] = order]
        BY <1>12, <2>2 DEF PreflightPasses
    <3>2. /\ todo'[c] = order /\ pc'[c] \in Stopping /\ UNCHANGED <<req, snap>>
        BY <1>1, <1>12, <2>2, <3>1 DEF PreflightPasses, Stopping
    <3>3. Existing(c) \in SUBSET Session /\ IsFiniteSet(Existing(c))
        BY <1>1, FS_Subset DEF Existing, Matching
    <3>4. Existing(c) = Matching(snap'[c], req[c].cfg, req[c].env) /\ snap'[c] \in SUBSET Session
        BY <1>1, <3>2 DEF Existing
    <3> QED BY <1>6, <3>2, <3>3, <3>4
  <2> QED BY <2>1, <2>2
<1>13. CASE StopStep(c)
  <2>1. AtTarget(c) /\ UNCHANGED <<pc, req, snap, own>> /\ (NextTarget(c) \/ UNCHANGED todo)
      BY <1>13 DEF StopStep, StopRefused, StopGone, StopSignals, StopReaped, StopFails
  <2>2. Built(c)' = Built(c)
      BY <2>1 DEF Built
  <2>3. CASE UNCHANGED todo
      BY <2>1, <2>2, <2>3 DEF TodoInv, InScope
  <2>4. CASE NextTarget(c)
    <3>1. todo'[c] = Rest(todo[c])
        BY <1>1, <2>4 DEF NextTarget
    <3>2. \A i \in DOMAIN todo'[c] : \E j \in DOMAIN todo[c] :
            /\ Key(todo'[c][i]) = Key(todo[c][j])
            /\ ForwardsOf(todo'[c][i]) \subseteq ForwardsOf(todo[c][j])
        BY <1>1, <2>1, <3>1, RestForwards DEF AtTarget
    <3>3. \A i \in DOMAIN todo'[c] :
            /\ InScope(Key(todo'[c][i]), req[c])
            /\ \E s \in snap[c] \cup {Built(c)} :
                Key(s) = Key(todo'[c][i]) /\ ForwardsOf(todo'[c][i]) \subseteq ForwardsOf(s)
      <4> TAKE i \in DOMAIN todo'[c]
      <4>1. PICK j \in DOMAIN todo[c] :
                /\ Key(todo'[c][i]) = Key(todo[c][j])
                /\ ForwardsOf(todo'[c][i]) \subseteq ForwardsOf(todo[c][j])
          BY <3>2
      <4>2. /\ InScope(Key(todo[c][j]), req[c])
            /\ \E s \in snap[c] \cup {Built(c)} :
                Key(s) = Key(todo[c][j]) /\ ForwardsOf(todo[c][j]) \subseteq ForwardsOf(s)
          BY DEF TodoInv
      <4> QED BY <4>1, <4>2
    <3>4. pc'[c] \in Stopping
        BY <2>1 DEF AtTarget
    <3> HIDE DEF Stopping
    <3> QED BY <2>1, <2>2, <3>3, <3>4 DEF TodoInv, InScope, Key, ForwardsOf
  <2> QED BY <2>1, <2>3, <2>4
<1>14. CASE \/ StartFails(c) \/ ForwardDied(c) \/ ForwardTimesOut(c) \/ SaveFails(c)
            \/ ForwardExited(c)
    BY <1>1, <1>7, <1>14
    DEF StartFails, ForwardDied, ForwardTimesOut, SaveFails, Undo, ForwardExited, Stopping
<1>15. CASE \/ Recheck(c) \/ StartForward(c) \/ AllStarted(c) \/ ForwardReady(c) \/ Save(c)
            \/ ReplaceFails(c) \/ ReplaceStopped(c) \/ Undone(c)
    BY <1>3, <1>4, <1>5, <1>15
    DEF Recheck, StartForward, AllStarted, ForwardReady, Save, ReplaceFails,
        ReplaceStopped, Undone, Stopping
<1>16. CASE ForegroundStep(c) /\ ~ForwardExited(c)
    BY <1>3, <1>4, <1>16 DEF ForegroundStep, CleanedUp, ForegroundSave, ForegroundSaveFails
<1>17. CASE DownStep(c)
    BY <1>3, <1>4, <1>17 DEF DownStep, DownVisited, DownSave, DownSaveFails
<1> QED
    BY <1>8, <1>9, <1>10, <1>11, <1>12, <1>13, <1>14, <1>15, <1>16, <1>17 DEF Step, UpStep

\* What a command has started grows by one forward, or is dropped, or is the
\* session of the same request as before.
LEMMA OwnStep ==
    ASSUME TypeInv, NEW c \in Cmds, NEW d \in Cmds, StartInv(d),
           Invoke(c) \/ UserStops(c) \/ Crash(c) \/ Step(c)
    PROVE  \/ c = d /\ StartForward(d)
           \/ own'[d] = <<>>
           \/ own'[d] = own[d] /\ req'[d] = req[d]
<1> DEFINE Goal == own'[d] = <<>> \/ (own'[d] = own[d] /\ req'[d] = req[d])
<1>1. own \in [Cmds -> Seq(Forward)]
    BY DEF TypeInv, TypeOK, CommandsTypeOK
<1>2. CASE d # c
    BY <1>2, OthersSame
<1>3. ASSUME NEW r, Leave(c, r), d = c PROVE Goal
    BY <1>1, <1>3 DEF Leave
<1>4. CASE d = c /\ Invoke(c)
    BY <1>4 DEF Invoke, StartInv
<1>5. CASE d = c /\ (UserStops(c) \/ Crash(c))
    BY <1>3, <1>5 DEF UserStops, Crash
<1>6. CASE d = c /\ Step(c) /\ ~StartForward(c)
  <2>1. CASE LoadFails(c) \/ LoadForUp(c) \/ LoadForDown(c) \/ LoadNothing(c)
      BY <1>3, <1>6, <2>1 DEF LoadFails, LoadForUp, LoadForDown, LoadNothing
  <2>2. CASE PreflightFails(c) \/ PreflightPasses(c)
      BY <1>3, <1>6, <2>2 DEF PreflightFails, PreflightPasses
  <2>3. CASE StopStep(c)
      BY <2>3 DEF StopStep, StopRefused, StopGone, StopSignals, StopReaped, StopFails
  <2>4. CASE UpStep(c) /\ ~Undone(c)
      BY <1>3, <1>6, <2>4
      DEF UpStep, ReplaceFails, ReplaceStopped, Recheck, StartFails, AllStarted,
          ForwardReady, ForwardDied, ForwardTimesOut, Save, SaveFails
  <2>5. CASE Undone(c)
      BY <1>1, <1>3, <1>6, <2>5 DEF Undone
  <2>6. CASE ForegroundStep(c) \/ DownStep(c)
      BY <1>3, <1>6, <2>6
      DEF ForegroundStep, ForwardExited, CleanedUp, ForegroundSave, ForegroundSaveFails,
          DownStep, DownVisited, DownSave, DownSaveFails
  <2> QED BY <1>6, <2>1, <2>2, <2>3, <2>4, <2>5, <2>6 DEF Step
<1> QED BY <1>2, <1>4, <1>5, <1>6

\* The step that brings a kubectl to life takes a pid that no record names.
LEMMA OwnsNext ==
    ASSUME PidReuse = FALSE, TypeInv, ScopeInv, [Next]_vars
    PROVE  OwnsInv'
<1>1. /\ proc \in [Pids -> Process] /\ file \subseteq Session
      /\ snap \in [Cmds -> SUBSET Session] /\ own \in [Cmds -> Seq(Forward)]
    BY DEF TypeInv, TypeOK, TableTypeOK, CommandsTypeOK
<1> DEFINE Record(s) ==
        s \in file \/ \E d \in Cmds : s \in snap[d] \/ s = Built(d)
<1>2. \A s : Record(s) => PidsOf(s) \subseteq Pids /\ OwnsIn(proc, s)
  <2>1. \A s \in Session : s.fwds \in Seq(Forward)
      BY DEF Session
  <2>2. \A d \in Cmds : Built(d).fwds \in Seq(Forward)
      BY <1>1 DEF Built
  <2>3. \A s : Record(s) => s.fwds \in Seq(Forward)
    <3> SUFFICES ASSUME NEW s, Record(s) PROVE s.fwds \in Seq(Forward)
        OBVIOUS
    <3>1. CASE s \in Session
        BY <2>1, <3>1
    <3>2. CASE \E d \in Cmds : s = Built(d)
        BY <2>2, <3>2
    <3> QED BY <1>1, <3>1, <3>2
  <2>4. \A s : Record(s) => OwnsIn(proc, s)
      BY DEF ScopeInv, OwnsInv
  <2> QED BY <2>3, <2>4, SessionPids
<1>3. \A s : Record(s) => OwnsIn(proc', s)
  <2>1. CASE Calm
      BY <1>2, <2>1 DEF Calm, OwnsIn, LiveKubectl, Live
  <2>2. ASSUME NEW c \in Cmds, StartForward(c) PROVE \A s : Record(s) => OwnsIn(proc', s)
    <3>1. PICK p, slot : p \in FreshPids /\ proc' = [proc EXCEPT ![p] = slot]
        BY <2>2 DEF StartForward
    <3>2. p \notin Recorded
        BY <3>1 DEF FreshPids
    <3>3. \A s : Record(s) => p \notin PidsOf(s)
      <4>1. ASSUME NEW s \in file PROVE p \notin PidsOf(s)
          BY <3>2 DEF Recorded, PidsIn, PidsOf
      <4>2. ASSUME NEW d \in Cmds, NEW s \in snap[d] PROVE p \notin PidsOf(s)
          BY <3>2 DEF Recorded, PidsIn, PidsOf
      <4>3. ASSUME NEW d \in Cmds PROVE p \notin PidsOf(Built(d))
        <5>1. PidsOf(Built(d)) \in {{s.fwds[i].pid : i \in DOMAIN s.fwds} : s \in {[fwds |-> own[d]]}}
            BY DEF PidsOf, Built
        <5>2. PidsOf(Built(d)) \subseteq PidsIn(snap[d] \cup {[fwds |-> own[d]]})
            BY <5>1 DEF PidsIn
        <5> QED BY <3>2, <5>2 DEF Recorded
      <4> QED BY <4>1, <4>2, <4>3
    <3> QED BY <1>1, <1>2, <3>1, <3>3 DEF OwnsIn
  <2> QED BY <2>1, <2>2, CalmStep
<1>4. \A d \in Cmds : OwnsIn(proc', Built(d)')
  <2> TAKE d \in Cmds
  <2>1. CASE own'[d] = own[d] /\ req'[d] = req[d]
    <3>1. Built(d)' = Built(d)
        BY <2>1 DEF Built
    <3> QED BY <1>3, <3>1
  <2>2. CASE own'[d] = <<>>
      BY <2>2 DEF Built, OwnsIn, PidsOf
  <2>3. CASE StartForward(d)
    <3>1. PICK p, q :
            /\ p \in Pids
            /\ proc' = [proc EXCEPT ![p] = Kubectl(d, q, Key(req[d]))]
            /\ own' = [own EXCEPT ![d] = Append(@, [port |-> q, pid |-> p, argv |-> TRUE])]
        BY <2>3 DEF StartForward, FreshPids
    <3>2. req' = req
        BY <2>3 DEF StartForward
    <3> DEFINE f == [port |-> q, pid |-> p, argv |-> TRUE]
    <3>3. own'[d] = Append(own[d], f) /\ f.pid = p
        BY <1>1, <3>1
    <3> HIDE DEF f
    <3>4. {own'[d][i].pid : i \in DOMAIN own'[d]} =
            {own[d][i].pid : i \in DOMAIN own[d]} \cup {p}
      <4>1. own[d] \in Seq(Forward) /\ Len(own[d]) \in Nat /\ DOMAIN own[d] = 1..Len(own[d])
          BY <1>1, LenProperties
      <4>2. /\ DOMAIN own'[d] = 1..(Len(own[d]) + 1)
            /\ \A i \in 1..Len(own[d]) : own'[d][i] = own[d][i]
            /\ own'[d][Len(own[d]) + 1] = f
          BY <3>3, <4>1
      <4>3. 1..(Len(own[d]) + 1) = 1..Len(own[d]) \cup {Len(own[d]) + 1}
          BY <4>1
      <4> QED BY <3>3, <4>1, <4>2, <4>3
    <3>5. PidsOf(Built(d)') = PidsOf(Built(d)) \cup {p} /\ Key(Built(d)') = Key(req[d])
          /\ Key(Built(d)) = Key(req[d])
        BY <3>2, <3>4 DEF Built, PidsOf, Key
    <3>6. proc'[p].key = Key(req[d])
        BY <1>1, <3>1 DEF Kubectl
    <3>7. OwnsIn(proc', Built(d))
        BY <1>3
    <3> QED BY <3>5, <3>6, <3>7 DEF OwnsIn
  <2>4. StartInv(d)
      BY DEF ScopeInv, LineInv
  <2>5. CASE Environment \/ UNCHANGED vars
      BY <2>1, <2>5 DEF Environment, vars
  <2>6. ASSUME NEW c \in Cmds, Invoke(c) \/ UserStops(c) \/ Crash(c) \/ Step(c)
        PROVE  OwnsIn(proc', Built(d)')
      BY <2>1, <2>2, <2>3, <2>4, <2>6, OwnStep
  <2> QED BY <2>5, <2>6 DEF Next
<1>5. /\ \A s \in file' : Record(s)
      /\ \A d \in Cmds : \A s \in snap'[d] : Record(s)
  <2>1. \A c \in Cmds : Save(c) => \A s \in file' : Record(s)
      BY DEF Save, Without
  <2>2. \A s : s \in file \/ (\E d \in Cmds : s \in snap[d]) => Record(s)
      OBVIOUS
  <2> HIDE DEF Record
  <2> QED BY <1>1, <2>1, <2>2, RecordsStep
<1> HIDE DEF Record
<1> QED BY <1>3, <1>4, <1>5 DEF OwnsInv

LEMMA LineNext ==
    ASSUME TypeInv, LineInv, [Next]_vars
    PROVE  LineInv'
<1>1. ASSUME NEW d \in Cmds PROVE TodoInv(d)' /\ StartInv(d)'
  <2>1. TodoInv(d) /\ StartInv(d)
      BY DEF LineInv
  <2>2. ASSUME pc'[d] = pc[d], req'[d] = req[d], snap'[d] = snap[d], own'[d] = own[d],
               mode'[d] = mode[d], todo'[d] = todo[d]
        PROVE  TodoInv(d)' /\ StartInv(d)'
    <3>1. StartInv(d)'
        BY <2>1, <2>2, StartSame
    <3> QED BY <2>1, <2>2, <3>1, TodoSame
  <2>3. CASE Environment \/ UNCHANGED vars
      BY <2>2, <2>3 DEF Environment, vars
  <2>4. ASSUME NEW c \in Cmds, Invoke(c) \/ UserStops(c) \/ Crash(c) \/ Step(c)
        PROVE  TodoInv(d)' /\ StartInv(d)'
    <3>1. CASE d = c
      <4>1. StartInv(d)'
          BY <2>1, <2>4, <3>1, StartStep
      <4>2. TodoInv(d)'
          BY <2>1, <2>4, <3>1, TodoStep
      <4> QED BY <4>1, <4>2
    <3>2. CASE d # c
      <4>1. /\ pc'[d] = pc[d] /\ req'[d] = req[d] /\ snap'[d] = snap[d]
            /\ own'[d] = own[d] /\ mode'[d] = mode[d] /\ todo'[d] = todo[d]
          BY <2>4, <3>2, OthersSame
      <4> QED BY <2>2, <4>1
    <3> QED BY <3>1, <3>2
  <2> QED BY <2>3, <2>4 DEF Next
<1> QED BY <1>1 DEF LineInv

LEMMA ScopeNext ==
    ASSUME PidReuse = FALSE, TypeInv, ScopeInv, [Next]_vars
    PROVE  ScopeInv'
BY LineNext, OwnsNext DEF ScopeInv

\* The only steps of a command that end a kubectl are its signals, and those
\* go to the forward that is next in line.
LEMMA EndsStep ==
    ASSUME TypeInv, NEW c \in Cmds, NEW p \in Pids,
           Invoke(c) \/ UserStops(c) \/ Crash(c) \/ Step(c),
           LiveKubectl(p), ~LiveKubectl(p)'
    PROVE  AtTarget(c) /\ p = Target(c).pid /\ ShouldSignal(Target(c))
<1>1. proc \in [Pids -> Process]
    BY DEF TypeInv, TypeOK, TableTypeOK
<1>2. ASSUME NEW r, Leave(c, r) PROVE FALSE
  <2>1. proc[p].st # "zombie"
      BY DEF LiveKubectl, Live, LiveStates
  <2>2. Adopted(c)[p].st = proc[p].st /\ Adopted(c)[p].kind = proc[p].kind
      BY <1>1, <2>1 DEF Adopted, Process
  <2> QED BY <1>2, <2>2 DEF Leave, LiveKubectl, Live
<1>3. CASE UNCHANGED proc
    BY <1>3 DEF LiveKubectl, Live
<1>4. ASSUME NEW o, NEW slot, proc' = [proc EXCEPT ![o] = slot], ~LiveKubectl(o) PROVE FALSE
    BY <1>1, <1>4 DEF LiveKubectl, Live
<1>5. CASE Invoke(c) \/ UserStops(c) \/ Crash(c)
    BY <1>2, <1>3, <1>5 DEF Invoke, UserStops, Crash
<1>6. CASE LoadFails(c) \/ LoadForUp(c) \/ LoadForDown(c) \/ LoadNothing(c)
    BY <1>2, <1>3, <1>6 DEF LoadFails, LoadForUp, LoadForDown, LoadNothing
<1>7. CASE PreflightFails(c) \/ PreflightPasses(c)
    BY <1>2, <1>3, <1>7 DEF PreflightFails, PreflightPasses
<1>8. CASE StopStep(c)
  <2>1. CASE StopSignals(c)
    <3>1. /\ AtTarget(c) /\ ShouldSignal(Target(c))
          /\ \E slot : proc' = [proc EXCEPT ![Target(c).pid] = slot]
        BY <2>1 DEF StopSignals
    <3> QED BY <1>1, <3>1 DEF LiveKubectl, Live
  <2>2. CASE ~StopSignals(c)
      BY <1>8, <2>2, StopSpares DEF TypeInv, TypeOK, LiveKubectl, Live
  <2> QED BY <2>1, <2>2
<1>9. CASE StartForward(c) \/ ForwardDied(c)
  <2>1. PICK o, slot : proc' = [proc EXCEPT ![o] = slot] /\ (~Exists(o) \/ proc[o].st = "zombie")
      BY <1>9 DEF StartForward, ForwardDied, FreshPids
  <2>2. ~LiveKubectl(o)
      BY <2>1 DEF Exists, LiveKubectl, Live, LiveStates
  <2> QED BY <1>4, <2>1, <2>2
<1>10. CASE UpStep(c) /\ ~StartForward(c) /\ ~ForwardDied(c)
    BY <1>2, <1>3, <1>10
    DEF UpStep, ReplaceFails, ReplaceStopped, Recheck, StartFails, AllStarted,
        ForwardReady, ForwardTimesOut, Undone, Save, SaveFails
<1>11. CASE ForwardExited(c)
    BY <1>1, <1>11 DEF ForwardExited, ExitedPids, LiveKubectl, Live, LiveStates
<1>12. CASE ForegroundStep(c) /\ ~ForwardExited(c)
    BY <1>2, <1>3, <1>12 DEF ForegroundStep, CleanedUp, ForegroundSave, ForegroundSaveFails
<1>13. CASE DownStep(c)
    BY <1>2, <1>3, <1>13 DEF DownStep, DownVisited, DownSave, DownSaveFails
<1> QED
    BY <1>5, <1>6, <1>7, <1>8, <1>9, <1>10, <1>11, <1>12, <1>13 DEF Step

\* The next forward in line is a forward of a session in the command's scope.
LEMMA TargetInLine ==
    ASSUME TypeInv, NEW c \in Cmds, TodoInv(c), AtTarget(c)
    PROVE  \E s \in snap[c] \cup {Built(c)} :
                InScope(Key(s), req[c]) /\ Target(c) \in ForwardsOf(s)
<1> DEFINE t == todo[c][1]
<1>1. todo[c] \in Seq(Session) /\ todo[c] # <<>> /\ 1 \in DOMAIN todo[c] /\ Head(todo[c]) = t
  <2>1. todo[c] \in Seq(Session) /\ todo[c] # <<>>
      BY DEF TypeInv, TypeOK, CommandsTypeOK, AtTarget
  <2> QED BY <2>1, LenProperties, EmptySeq, HeadTailProperties
<1>2. PICK s \in snap[c] \cup {Built(c)} :
        Key(s) = Key(t) /\ ForwardsOf(t) \subseteq ForwardsOf(s) /\ InScope(Key(t), req[c])
    BY <1>1 DEF TodoInv
<1>3. Target(c) \in ForwardsOf(t)
  <2> DEFINE g == t.fwds
  <2>1. g \in Seq(Forward) /\ g # <<>>
    <3>1. t \in Session
        BY <1>1, ElementOfSeq, LenProperties
    <3> QED BY <1>1, <3>1 DEF TypeInv, TypeOK, CommandsTypeOK, Session
  <2> HIDE DEF g
  <2>2. 1 \in DOMAIN g /\ Head(g) = g[1]
      BY <2>1, LenProperties, EmptySeq, HeadTailProperties
  <2>3. Target(c) = Head(g)
      BY <1>1 DEF Target, g
  <2> QED BY <2>2, <2>3 DEF ForwardsOf, g
<1> HIDE DEF t
<1> QED BY <1>2, <1>3

\* If it is a kubectl and no pid is reused, it is the scope's.
LEMMA TargetScope ==
    ASSUME TypeInv, ScopeInv, NEW c \in Cmds, AtTarget(c), LiveKubectl(Target(c).pid)
    PROVE  InScope(proc[Target(c).pid].key, req[c])
<1>1. PICK s \in snap[c] \cup {Built(c)} :
        InScope(Key(s), req[c]) /\ Target(c) \in ForwardsOf(s)
    BY TargetInLine DEF ScopeInv, LineInv
<1>2. Target(c).pid \in PidsOf(s)
    BY <1>1 DEF ForwardsOf, PidsOf
<1>3. OwnsIn(proc, s)
    BY DEF ScopeInv, OwnsInv
<1> QED BY <1>1, <1>2, <1>3 DEF OwnsIn, LiveKubectl, Live

LEMMA ScopeInit == Init => ScopeInv
<1> SUFFICES ASSUME Init PROVE ScopeInv
    OBVIOUS
<1>1. \A c \in Cmds : own[c] = <<>> /\ todo[c] = <<>> /\ snap[c] = {} /\ pc[c] = "idle"
    BY DEF Init
<1>2. \A c \in Cmds : TodoInv(c) /\ StartInv(c) /\ OwnsIn(proc, Built(c))
    BY <1>1 DEF TodoInv, StartInv, OwnsIn, PidsOf, Built
<1>3. \A s \in file : OwnsIn(proc, s)
  <2>1. CASE file = {}
      BY <2>1
  <2>2. ASSUME NEW k \in Keys, NEW q \in Ports, NEW p \in Pids,
               file = {LegacyRecord(k, q, p)},
               proc = [o \in Pids |->
                          IF o # p THEN FreeSlot
                          ELSE [Kubectl(Reaper, q, k) EXCEPT !.st = "listening"]]
        PROVE  \A s \in file : OwnsIn(proc, s)
    <3>1. Key(LegacyRecord(k, q, p)) = k /\ PidsOf(LegacyRecord(k, q, p)) = {p}
        BY DEF Key, LegacyRecord, PidsOf, Keys
    <3>2. proc[p].key = k
        BY <2>2 DEF Kubectl
    <3> QED BY <2>2, <3>1, <3>2 DEF OwnsIn
  <2> QED BY <2>1, <2>2 DEF Init
<1> QED BY <1>1, <1>2, <1>3 DEF ScopeInv, LineInv, OwnsInv

-----------------------------------------------------------------------------
(* Pids that are given out again.  A record may then name a kubectl of any  *)
(* session; what still tells them apart is the port mapping, as long as no  *)
(* two environments have one in common.                                     *)

\* The port q is one that environment k has been asked to forward.
PlanPort(k, q) == \E r \in Requests : r.op = "up" /\ Key(r) = k /\ q \in Range(r.plan)

\* No port mapping of one environment occurs in the text of another's.
PlansApart ==
    \A r, t \in Requests : r.op = "up" /\ t.op = "up" /\ Key(r) # Key(t) =>
        \A q \in Range(r.plan), o \in Range(t.plan) : <<q, o>> \notin Within

\* The forwards a session could stop have ports of a plan for it, and so has
\* the kubectl that now runs on the recorded pid, whosever it is.
PlannedIn(table, s) ==
    \A f \in ForwardsOf(s) : f.argv =>
        /\ PlanPort(Key(s), f.port)
        /\ table[f.pid].st \in LiveStates /\ table[f.pid].kind = "kubectl" =>
                PlanPort(table[f.pid].key, table[f.pid].port)

PlannedInv ==
    /\ \A s \in file : PlannedIn(proc, s)
    /\ \A c \in Cmds : PlannedIn(proc, Built(c)) /\ \A s \in snap[c] : PlannedIn(proc, s)

LEMMA SessionForwards ==
    ASSUME NEW s, s.fwds \in Seq(Forward)
    PROVE  ForwardsOf(s) \subseteq Forward
<1> DEFINE f == s.fwds
<1> HIDE DEF f
<1>1. f \in Seq(Forward)
    BY DEF f
<1>2. \A i \in DOMAIN f : f[i] \in Forward
    BY <1>1, LenProperties, ElementOfSeq
<1>3. {f[i] : i \in DOMAIN f} \subseteq Forward
    BY <1>2
<1> QED BY <1>3 DEF ForwardsOf, f

\* The port of the next forward to start is one of a plan for the session.
LEMMA WantedPlanned ==
    ASSUME TypeInv, PlannedInv, NEW c \in Cmds, StartInv(c), pc[c] = "start",
           NEW n \in 1..Len(Wanted(c))
    PROVE  PlanPort(Key(req[c]), Wanted(c)[n])
<1>1. req[c] \in Requests /\ req[c].op = "up" /\ mode[c] \in {"new", "restore"}
    BY UpRequest DEF TypeInv, TypeOK, CommandsTypeOK, UpStages
<1>2. Wanted(c) \in Seq(Ports) /\ n \in DOMAIN Wanted(c)
    BY WantedType, LenProperties
<1>3. CASE mode[c] = "new"
    BY <1>1, <1>2, <1>3 DEF Wanted, PlanPort, Range
<1>4. CASE mode[c] = "restore"
  <2>1. Previous(c) \in Existing(c)
      BY <1>4 DEF TypeInv, ControlInv, Previous
  <2> DEFINE s == Previous(c)
  <2>2. s \in snap[c] /\ Restartable(s)
      BY <2>1 DEF StartInv, Existing, Matching
  <2>3. Key(s) = Key(req[c])
    <3>1. req[c].env \in Envs /\ req[c].env # AllEnvs
        BY <1>1, RequestsAssumption, AllEnvsAssumption
    <3> QED BY <2>1, <3>1 DEF Existing, Matching, Key
  <2> HIDE DEF s
  <2>4. Wanted(c) = PortsOf(s.fwds)
      BY <1>4 DEF Wanted, s
  <2>5. n \in DOMAIN s.fwds /\ Wanted(c)[n] = s.fwds[n].port
      BY <1>2, <2>4 DEF PortsOf
  <2>6. s.fwds[n] \in ForwardsOf(s) /\ s.fwds[n].argv
      BY <2>2, <2>5 DEF ForwardsOf, Restartable
  <2>7. PlannedIn(proc, s)
      BY <2>2 DEF PlannedInv
  <2> QED BY <2>3, <2>5, <2>6, <2>7 DEF PlannedIn
<1> QED BY <1>1, <1>3, <1>4

\* The step that brings a kubectl to life gives it a port of its plan.
LEMMA PlannedNext ==
    ASSUME TypeInv, LineInv, PlannedInv, [Next]_vars
    PROVE  PlannedInv'
<1>1. /\ proc \in [Pids -> Process] /\ file \subseteq Session
      /\ snap \in [Cmds -> SUBSET Session] /\ own \in [Cmds -> Seq(Forward)]
    BY DEF TypeInv, TypeOK, TableTypeOK, CommandsTypeOK
<1> DEFINE Record(s) ==
        s \in file \/ \E d \in Cmds : s \in snap[d] \/ s = Built(d)
<1>2. \A s : Record(s) => ForwardsOf(s) \subseteq Forward /\ PlannedIn(proc, s)
  <2>1. \A s \in Session : s.fwds \in Seq(Forward)
      BY DEF Session
  <2>2. \A d \in Cmds : Built(d).fwds \in Seq(Forward)
      BY <1>1 DEF Built
  <2>3. \A s : Record(s) => s.fwds \in Seq(Forward)
    <3> SUFFICES ASSUME NEW s, Record(s) PROVE s.fwds \in Seq(Forward)
        OBVIOUS
    <3>1. CASE s \in Session
        BY <2>1, <3>1
    <3>2. CASE \E d \in Cmds : s = Built(d)
        BY <2>2, <3>2
    <3> QED BY <1>1, <3>1, <3>2
  <2>4. \A s : Record(s) => PlannedIn(proc, s)
      BY DEF PlannedInv
  <2> QED BY <2>3, <2>4, SessionForwards
<1>3. ASSUME NEW c \in Cmds, StartForward(c)
      PROVE  \E p \in Pids, q \in Ports :
                /\ PlanPort(Key(req[c]), q)
                /\ proc' = [proc EXCEPT ![p] = Kubectl(c, q, Key(req[c]))]
                /\ own' = [own EXCEPT ![c] =
                            Append(own[c], [port |-> q, pid |-> p, argv |-> TRUE])]
                /\ req' = req
  <2> DEFINE n == Len(own[c]) + 1
             q == Wanted(c)[n]
  <2>1. /\ pc[c] = "start" /\ n <= Len(Wanted(c)) /\ req' = req
        /\ \E p \in FreshPids :
            /\ proc' = [proc EXCEPT ![p] = Kubectl(c, q, Key(req[c]))]
            /\ own' = [own EXCEPT ![c] =
                        Append(own[c], [port |-> q, pid |-> p, argv |-> TRUE])]
      BY <1>3 DEF StartForward
  <2>2. Wanted(c) \in Seq(Ports) /\ n \in 1..Len(Wanted(c))
    <3>1. Wanted(c) \in Seq(Ports) /\ Len(own[c]) \in Nat
        BY <1>1, <2>1, WantedType, LenProperties
    <3> QED BY <2>1, <3>1, LenProperties
  <2> HIDE DEF n
  <2>3. q \in Ports
      BY <2>2, ElementOfSeq
  <2>4. PlanPort(Key(req[c]), q)
      BY <2>1, <2>2, WantedPlanned DEF LineInv
  <2> HIDE DEF q
  <2> QED BY <2>1, <2>3, <2>4 DEF FreshPids
<1>4. \A s : Record(s) => PlannedIn(proc', s)
  <2>1. CASE Calm
      BY <1>2, <2>1 DEF Calm, PlannedIn, LiveKubectl, Live, Forward
  <2>2. ASSUME NEW c \in Cmds, StartForward(c) PROVE \A s : Record(s) => PlannedIn(proc', s)
    <3>1. PICK p, q : /\ PlanPort(Key(req[c]), q)
                      /\ proc' = [proc EXCEPT ![p] = Kubectl(c, q, Key(req[c]))]
        BY <1>3, <2>2
    <3>2. \A o \in Pids :
            proc'[o] = proc[o] \/ PlanPort(proc'[o].key, proc'[o].port)
        BY <1>1, <3>1 DEF Kubectl
    <3> SUFFICES ASSUME NEW s, Record(s), NEW f \in ForwardsOf(s), f.argv
                 PROVE  /\ PlanPort(Key(s), f.port)
                        /\ proc'[f.pid].st \in LiveStates /\ proc'[f.pid].kind = "kubectl" =>
                                PlanPort(proc'[f.pid].key, proc'[f.pid].port)
        BY DEF PlannedIn
    <3>3. f.pid \in Pids /\ PlannedIn(proc, s)
        BY <1>2 DEF Forward
    <3> QED BY <3>2, <3>3 DEF PlannedIn
  <2> QED BY <2>1, <2>2, CalmStep
<1>5. \A d \in Cmds : PlannedIn(proc', Built(d)')
  <2> TAKE d \in Cmds
  <2>1. CASE own'[d] = own[d] /\ req'[d] = req[d]
    <3>1. Built(d)' = Built(d)
        BY <2>1 DEF Built
    <3> QED BY <1>4, <3>1
  <2>2. CASE own'[d] = <<>>
      BY <2>2 DEF Built, PlannedIn, ForwardsOf
  <2>3. CASE StartForward(d)
    <3>1. PICK p \in Pids, q \in Ports :
            /\ PlanPort(Key(req[d]), q)
            /\ proc' = [proc EXCEPT ![p] = Kubectl(d, q, Key(req[d]))]
            /\ own' = [own EXCEPT ![d] =
                        Append(own[d], [port |-> q, pid |-> p, argv |-> TRUE])]
            /\ req' = req
        BY <1>3, <2>3
    <3> DEFINE f == [port |-> q, pid |-> p, argv |-> TRUE]
    <3>2. own'[d] = Append(own[d], f) /\ f.pid = p /\ f.port = q
        BY <1>1, <3>1
    <3> HIDE DEF f
    <3>3. {own'[d][i] : i \in DOMAIN own'[d]} = {own[d][i] : i \in DOMAIN own[d]} \cup {f}
      <4>1. own[d] \in Seq(Forward) /\ Len(own[d]) \in Nat /\ DOMAIN own[d] = 1..Len(own[d])
          BY <1>1, LenProperties
      <4>2. /\ DOMAIN own'[d] = 1..(Len(own[d]) + 1)
            /\ \A i \in 1..Len(own[d]) : own'[d][i] = own[d][i]
            /\ own'[d][Len(own[d]) + 1] = f
          BY <3>2, <4>1
      <4>3. 1..(Len(own[d]) + 1) = 1..Len(own[d]) \cup {Len(own[d]) + 1}
          BY <4>1
      <4> QED BY <4>1, <4>2, <4>3
    <3>4. /\ ForwardsOf(Built(d)') = ForwardsOf(Built(d)) \cup {f}
          /\ Key(Built(d)') = Key(req[d]) /\ Key(Built(d)) = Key(req[d])
        BY <3>1, <3>3 DEF Built, ForwardsOf, Key
    <3>5. proc'[p].key = Key(req[d]) /\ proc'[p].port = q
        BY <1>1, <3>1 DEF Kubectl
    <3>6. PlannedIn(proc', Built(d))
        BY <1>4
    <3> QED BY <3>1, <3>2, <3>4, <3>5, <3>6 DEF PlannedIn
  <2>4. StartInv(d)
      BY DEF LineInv
  <2>5. CASE Environment \/ UNCHANGED vars
      BY <2>1, <2>5 DEF Environment, vars
  <2>6. ASSUME NEW c \in Cmds, Invoke(c) \/ UserStops(c) \/ Crash(c) \/ Step(c)
        PROVE  PlannedIn(proc', Built(d)')
      BY <2>1, <2>2, <2>3, <2>4, <2>6, OwnStep
  <2> QED BY <2>5, <2>6 DEF Next
<1>6. /\ \A s \in file' : Record(s)
      /\ \A d \in Cmds : \A s \in snap'[d] : Record(s)
  <2>1. \A c \in Cmds : Save(c) => \A s \in file' : Record(s)
      BY DEF Save, Without
  <2>2. \A s : s \in file \/ (\E d \in Cmds : s \in snap[d]) => Record(s)
      OBVIOUS
  <2> HIDE DEF Record
  <2> QED BY <1>1, <2>1, <2>2, RecordsStep
<1> HIDE DEF Record
<1> QED BY <1>4, <1>5, <1>6 DEF PlannedInv

\* A kubectl that a signal ends has the port mapping of a forward in scope in
\* its command line, and was planned: so it is itself in scope.
LEMMA SignalScope ==
    ASSUME PlansApart, TypeInv, LineInv, PlannedInv, NEW c \in Cmds, AtTarget(c),
           ShouldSignal(Target(c)), LiveKubectl(Target(c).pid)
    PROVE  InScope(proc[Target(c).pid].key, req[c])
<1> DEFINE f == Target(c)
           k == proc[f.pid].key
           q == proc[f.pid].port
<1>1. f.argv /\ <<f.port, q>> \in Within
    BY DEF ShouldSignal, Recognises, LiveKubectl, Exists, Live, LiveStates
<1>2. PICK s \in snap[c] \cup {Built(c)} : InScope(Key(s), req[c]) /\ f \in ForwardsOf(s)
    BY TargetInLine DEF LineInv
<1>3. PlannedIn(proc, s)
    BY DEF PlannedInv
<1>4. PlanPort(Key(s), f.port) /\ PlanPort(k, q)
    BY <1>1, <1>2, <1>3 DEF PlannedIn, LiveKubectl, Live
<1> HIDE DEF f, k, q
<1>5. PICK r \in Requests : r.op = "up" /\ Key(r) = Key(s) /\ f.port \in Range(r.plan)
    BY <1>4 DEF PlanPort
<1>6. PICK t \in Requests : t.op = "up" /\ Key(t) = k /\ q \in Range(t.plan)
    BY <1>4 DEF PlanPort
<1>7. Key(s) = k
    BY <1>1, <1>5, <1>6 DEF PlansApart
<1> QED BY <1>2, <1>7 DEF k, f

LEMMA LineInit == Init => LineInv /\ PlannedInv
<1> SUFFICES ASSUME Init PROVE LineInv /\ PlannedInv
    OBVIOUS
<1>1. LineInv
    BY ScopeInit DEF ScopeInv
<1>2. \A c \in Cmds : own[c] = <<>> /\ snap[c] = {}
    BY DEF Init
<1>3. \A c \in Cmds : PlannedIn(proc, Built(c))
    BY <1>2 DEF PlannedIn, ForwardsOf, Built
<1>4. \A s \in file : \A f \in ForwardsOf(s) : ~f.argv
    BY DEF Init, LegacyRecord, ForwardsOf
<1> QED BY <1>1, <1>2, <1>3, <1>4 DEF PlannedInv, PlannedIn

\* A command that stops processes ends only kubectls of the sessions it was
\* asked about, however stale its snapshot is, whatever other commands do and
\* whichever pids the system gives out again, as long as no two environments
\* have a port mapping in common (ShouldSignalManagedProcess).
THEOREM ScopeCorrect ==
    ASSUME PlansApart
    PROVE  Spec => ScopeRespect
<1>1. Init => LineInv /\ PlannedInv
    BY LineInit
<1>2. TypeInv /\ LineInv /\ PlannedInv /\ [Next]_vars =>
        [\A c \in Cmds, p \in Pids :
            Progressed(c) /\ LiveKubectl(p) /\ ~LiveKubectl(p)'
                => InScope(proc[p].key, req[c])]_vars
  <2> SUFFICES ASSUME TypeInv, LineInv, PlannedInv, [Next]_vars, ~UNCHANGED vars,
                      NEW c \in Cmds, NEW p \in Pids,
                      Progressed(c), LiveKubectl(p), ~LiveKubectl(p)'
               PROVE  InScope(proc[p].key, req[c])
      OBVIOUS
  <2>1. CASE Environment
      BY <2>1 DEF Environment, Progressed
  <2>2. ASSUME NEW d \in Cmds, Invoke(d) \/ UserStops(d) \/ Crash(d) \/ Step(d)
        PROVE  InScope(proc[p].key, req[c])
    <3>1. d = c
        BY <2>2, OthersSame DEF Progressed
    <3> QED BY <2>2, <3>1, EndsStep, SignalScope
  <2> QED BY <2>1, <2>2 DEF Next
<1>3. TypeInv /\ LineInv /\ PlannedInv /\ [Next]_vars => (LineInv /\ PlannedInv)'
    BY LineNext, PlannedNext
<1> QED BY <1>1, <1>2, <1>3, TypeInit, TypeNext, PTL DEF Spec, ScopeRespect
=============================================================================
