---------------------- MODULE PosixProcessRunnerProofs ----------------------
(***************************************************************************)
(* Theorems about PosixProcessRunner, for any commands, pids, numbers of   *)
(* polls and faults.                                                       *)
(***************************************************************************)
EXTENDS PosixProcessRunner, TLAPS

Starting == {"group", "read", "reap"}

\* What the table says of a process by itself.
ProcessInv(p) ==
    /\ proc[p].st = "free" => proc[p].parent = NoPid
    /\ proc[p].st \in BeforeExec => proc[p].parent \in Cmds \cup {Reaper}
    /\ proc[p].st \in {"grouped", "failed"} \/ proc[p].errno => proc[p].group = p
    /\ proc[p].st = "forked" => proc[p].group \in {p, NoPid}
    /\ proc[p].errno <=> proc[p].st = "failed" \/ (proc[p].errno /\ proc[p].st = "zombie")
    /\ proc[p].parent \in Cmds => proc[p].group \in {p, NoPid}
    /\ proc[p].parent \in Cmds /\ proc[p].st = "run" => proc[p].group = p
    /\ p \in handed => Leads(p) /\ proc[p].st \notin BeforeExec /\ ~proc[p].errno

\* A command in Start has one child that nobody else knows of; all the other
\* children of a command have been handed out.
CallInv(c) ==
    /\ pc[c] # "idle" => ret[c] = "none"
    /\ pc[c] = "fork" => pid[c] = NoPid
    /\ pc[c] \in Starting => proc[pid[c]].parent = c /\ pid[c] \notin handed
    /\ pc[c] = "read" => proc[pid[c]].group = pid[c]
    /\ pc[c] = "reap" => proc[pid[c]].errno
    /\ pc[c] \in StopStages /\ pid[c] # NoPid => Leads(pid[c])
    /\ \A p \in Pids : proc[p].parent = c =>
        p \in handed \/ (pc[c] \in Starting /\ pid[c] = p)

RunnerInv ==
    /\ TypeOK
    /\ \A p \in Pids : ProcessInv(p)
    /\ \A c \in Cmds : CallInv(c)

(***************************************************************************)
(* Updates of two or three fields of a record, one at a time.              *)
(***************************************************************************)
LEMMA UpdateGrouped ==
    ASSUME NEW r \in ProcessRecord, NEW g \in Pids
    PROVE  \E q \in ProcessRecord :
            /\ q = [r EXCEPT !.st = "grouped", !.group = g]
            /\ q.st = "grouped" /\ q.group = g /\ q.parent = r.parent /\ q.errno = r.errno
<1> DEFINE a == [r EXCEPT !.st = "grouped"]
<1>1. /\ a \in ProcessRecord
      /\ a.st = "grouped" /\ a.group = r.group /\ a.parent = r.parent /\ a.errno = r.errno
    BY DEF ProcessRecord, States, BeforeExec
<1> HIDE DEF a
<1> DEFINE b == [a EXCEPT !.group = g]
<1>2. /\ b \in ProcessRecord
      /\ b.st = "grouped" /\ b.group = g /\ b.parent = r.parent /\ b.errno = r.errno
    BY <1>1 DEF ProcessRecord
<1> QED
    BY <1>2, Zenon DEF a

LEMMA UpdateFailed ==
    ASSUME NEW r \in ProcessRecord
    PROVE  \E q \in ProcessRecord :
            /\ q = [r EXCEPT !.st = "failed", !.errno = TRUE]
            /\ q.st = "failed" /\ q.group = r.group /\ q.parent = r.parent /\ q.errno = TRUE
<1> DEFINE a == [r EXCEPT !.st = "failed"]
<1>1. /\ a \in ProcessRecord
      /\ a.st = "failed" /\ a.group = r.group /\ a.parent = r.parent /\ a.errno = r.errno
    BY DEF ProcessRecord, States, BeforeExec
<1> HIDE DEF a
<1> DEFINE b == [a EXCEPT !.errno = TRUE]
<1>2. /\ b \in ProcessRecord
      /\ b.st = "failed" /\ b.group = r.group /\ b.parent = r.parent /\ b.errno = TRUE
    BY <1>1 DEF ProcessRecord
<1> QED
    BY <1>2, Zenon DEF a

LEMMA UpdateZombie ==
    ASSUME NEW r \in ProcessRecord
    PROVE  \E q \in ProcessRecord :
            /\ q = [r EXCEPT !.st = "zombie", !.deaf = FALSE, !.sig = "none"]
            /\ q.st = "zombie" /\ q.group = r.group /\ q.parent = r.parent /\ q.errno = r.errno
<1> DEFINE a == [r EXCEPT !.st = "zombie"]
<1>1. /\ a \in ProcessRecord
      /\ a.st = "zombie" /\ a.group = r.group /\ a.parent = r.parent /\ a.errno = r.errno
    BY DEF ProcessRecord, States, BeforeExec
<1> HIDE DEF a
<1> DEFINE b == [a EXCEPT !.deaf = FALSE]
<1>2. /\ b \in ProcessRecord
      /\ b.st = "zombie" /\ b.group = r.group /\ b.parent = r.parent /\ b.errno = r.errno
    BY <1>1 DEF ProcessRecord
<1> HIDE DEF b
<1> DEFINE d == [b EXCEPT !.sig = "none"]
<1>3. /\ d \in ProcessRecord
      /\ d.st = "zombie" /\ d.group = r.group /\ d.parent = r.parent /\ d.errno = r.errno
    BY <1>2 DEF ProcessRecord
<1> QED
    BY <1>3, Zenon DEF a, b

LEMMA ChildStepUpdates ==
    ASSUME NEW p \in Pids, proc \in [Pids -> ProcessRecord], ChildStep(p)
    PROVE  \E r \in ProcessRecord :
            /\ proc' = [proc EXCEPT ![p] = r]
            /\ r.parent = proc[p].parent
            /\ \/ /\ proc[p].st = "forked"
                  /\ r.st = "grouped" /\ r.group = p /\ r.errno = proc[p].errno
               \/ /\ proc[p].st = "grouped"
                  /\ r.group = proc[p].group
                  /\ \/ r.st = "run" /\ r.errno = proc[p].errno
                     \/ r.st = "failed" /\ r.errno = TRUE
<1>a. proc[p] \in ProcessRecord /\ TRUE \in BOOLEAN
    OBVIOUS
<1>1. CASE ChildGroups(p)
    <2>1. PICK r \in ProcessRecord :
            /\ r = [proc[p] EXCEPT !.st = "grouped", !.group = p]
            /\ r.st = "grouped" /\ r.group = p
            /\ r.parent = proc[p].parent /\ r.errno = proc[p].errno
        BY <1>a, UpdateGrouped, Zenon
    <2>2. proc' = [proc EXCEPT ![p] = r] /\ proc[p].st = "forked"
        BY <1>1, <2>1, Zenon DEF ChildGroups
    <2> QED
        BY <2>1, <2>2, Zenon
<1>2. CASE ChildExecs(p)
    <2>1. PICK deaf \in BOOLEAN :
            proc' = [proc EXCEPT ![p] = [@ EXCEPT !.st = "run", !.deaf = deaf]]
        BY <1>2, Zenon DEF ChildExecs
    <2> DEFINE a == [proc[p] EXCEPT !.st = "run"]
    <2>2. /\ a \in ProcessRecord
          /\ a.st = "run" /\ a.group = proc[p].group
          /\ a.parent = proc[p].parent /\ a.errno = proc[p].errno
        BY <1>a DEF ProcessRecord, States, BeforeExec
    <2> HIDE DEF a
    <2> DEFINE r == [a EXCEPT !.deaf = deaf]
    <2>a. /\ r \in ProcessRecord
          /\ r.st = "run" /\ r.group = proc[p].group
          /\ r.parent = proc[p].parent /\ r.errno = proc[p].errno
        BY <2>1, <2>2 DEF ProcessRecord
    <2>3. proc' = [proc EXCEPT ![p] = r] /\ proc[p].st = "grouped"
        BY <1>2, <2>1, Zenon DEF ChildExecs, a
    <2> HIDE DEF r
    <2> QED
        BY <2>a, <2>3, Zenon
<1>3. CASE ChildFails(p)
    <2>1. PICK r \in ProcessRecord :
            /\ r = [proc[p] EXCEPT !.st = "failed", !.errno = TRUE]
            /\ r.st = "failed" /\ r.group = proc[p].group
            /\ r.parent = proc[p].parent /\ r.errno = TRUE
        BY <1>a, UpdateFailed, Zenon
    <2>2. proc' = [proc EXCEPT ![p] = r] /\ proc[p].st = "grouped"
        BY <1>3, <2>1, Zenon DEF ChildFails
    <2> QED
        BY <2>1, <2>2, Zenon
<1> QED
    BY <1>1, <1>2, <1>3 DEF ChildStep

LEMMA EndsUpdates ==
    ASSUME NEW p \in Pids, Ends(p), Orphaned(p) \in [Pids -> ProcessRecord]
    PROVE  \E r \in ProcessRecord :
            /\ proc' = [Orphaned(p) EXCEPT ![p] = r]
            /\ r.st = "zombie"
            /\ r.parent = Orphaned(p)[p].parent
            /\ r.group = Orphaned(p)[p].group
            /\ r.errno = Orphaned(p)[p].errno
<1>1. Orphaned(p)[p] \in ProcessRecord /\ TRUE \in BOOLEAN
    OBVIOUS
<1>2. PICK r \in ProcessRecord :
        /\ r = [Orphaned(p)[p] EXCEPT !.st = "zombie", !.deaf = FALSE, !.sig = "none"]
        /\ r.st = "zombie" /\ r.group = Orphaned(p)[p].group
        /\ r.parent = Orphaned(p)[p].parent /\ r.errno = Orphaned(p)[p].errno
    BY <1>1, UpdateZombie, Zenon
<1>3. proc' = [Orphaned(p) EXCEPT ![p] = r]
    BY <1>2, Zenon DEF Ends
<1> QED
    BY <1>2, <1>3

USE DEF Free, BeforeExec, States, Starting, StopStages, Stages, ProcessRecord, Results

LEMMA InitInv == Init => RunnerInv
BY NamesAssumption DEF Init, RunnerInv, TypeOK, ProcessInv, CallInv, Leads

LEMMA Inductive == RunnerInv /\ [Next]_vars => RunnerInv'
<1> SUFFICES ASSUME RunnerInv, [Next]_vars PROVE RunnerInv'
    OBVIOUS
<1> USE NamesAssumption, PollsAssumption DEF RunnerInv
<1>1. ASSUME NEW c \in Cmds, CallStart(c) PROVE RunnerInv'
    BY <1>1 DEF CallStart, Call, Goto, TypeOK, ProcessInv, CallInv, Leads
<1>2. ASSUME NEW c \in Cmds, CallStop(c) PROVE RunnerInv'
    BY <1>2 DEF CallStop, Call, Goto, TypeOK, ProcessInv, CallInv, Leads
<1>3. ASSUME NEW c \in Cmds, Leave(c) PROVE RunnerInv'
    <2>1. TypeOK'
        BY <1>3 DEF Leave, Orphaned, Return, Goto, TypeOK
    <2>2. ASSUME NEW q \in Pids PROVE ProcessInv(q)'
        BY <1>3 DEF Leave, Orphaned, Return, Goto, TypeOK, ProcessInv, CallInv, Leads
    <2>3. ASSUME NEW d \in Cmds PROVE CallInv(d)'
        BY <1>3 DEF Leave, Orphaned, Return, Goto, TypeOK, ProcessInv, CallInv, Leads
    <2> QED
        BY <2>1, <2>2, <2>3
<1>4. ASSUME NEW c \in Cmds, StartRefused(c) PROVE RunnerInv'
    BY <1>4 DEF StartRefused, Return, Goto, TypeOK, ProcessInv, CallInv, Leads
<1>5. ASSUME NEW c \in Cmds, Fork(c) PROVE RunnerInv'
    <2>0. PICK p \in FreshPids :
            /\ proc' = [proc EXCEPT ![p] = [Free EXCEPT !.st = "forked", !.parent = c]]
            /\ pid' = [pid EXCEPT ![c] = p]
            /\ handed' = handed \ {p}
        BY <1>5 DEF Fork
    <2>a. p \in Pids /\ [Free EXCEPT !.st = "forked", !.parent = c] \in ProcessRecord
        BY DEF FreshPids
    <2>1. TypeOK'
        BY <1>5, <2>0, <2>a DEF Fork, Goto, TypeOK
    <2>2. ASSUME NEW q \in Pids PROVE ProcessInv(q)'
        BY <1>5 DEF Fork, FreshPids, Goto, TypeOK, ProcessInv, CallInv, Leads
    <2>3. ASSUME NEW d \in Cmds PROVE CallInv(d)'
        BY <1>5 DEF Fork, FreshPids, Goto, TypeOK, ProcessInv, CallInv, Leads
    <2> QED
        BY <2>1, <2>2, <2>3
<1>6. ASSUME NEW c \in Cmds, ParentGroups(c) PROVE RunnerInv'
    <2>1. TypeOK'
        <3>1. pid[c] \in Pids
            BY <1>6 DEF ParentGroups, TypeOK
        <3>2. proc' \in [Pids -> ProcessRecord]
            BY <1>6, <3>1 DEF ParentGroups, TypeOK
        <3> QED
            BY <1>6, <3>1, <3>2 DEF ParentGroups, Goto, TypeOK
    <2>2. ASSUME NEW q \in Pids PROVE ProcessInv(q)'
        BY <1>6 DEF ParentGroups, TypeOK, ProcessInv, CallInv, Leads
    <2>3. ASSUME NEW d \in Cmds PROVE CallInv(d)'
        BY <1>6 DEF ParentGroups, Goto, TypeOK, ProcessInv, CallInv, Leads
    <2> QED
        BY <2>1, <2>2, <2>3
<1>7. ASSUME NEW c \in Cmds, ReadEnd(c) PROVE RunnerInv'
    <2>1. TypeOK'
        BY <1>7 DEF ReadEnd, Return, Goto, TypeOK
    <2>2. ASSUME NEW q \in Pids PROVE ProcessInv(q)'
        BY <1>7 DEF ReadEnd, WriteEndOpen, TypeOK, ProcessInv, CallInv, Leads
    <2>3. ASSUME NEW d \in Cmds PROVE CallInv(d)'
        BY <1>7 DEF ReadEnd, Return, Goto, TypeOK, CallInv, Leads
    <2> QED
        BY <2>1, <2>2, <2>3
<1>8. ASSUME NEW c \in Cmds, ReadErrno(c) PROVE RunnerInv'
    BY <1>8 DEF ReadErrno, Goto, TypeOK, ProcessInv, CallInv, Leads
<1>9. ASSUME NEW c \in Cmds, Reap(c) PROVE RunnerInv'
    BY <1>9 DEF Reap, Return, Goto, TypeOK, ProcessInv, CallInv, Leads
<1>10. ASSUME NEW c \in Cmds, KillRefused(c) \/ NothingToStop(c) \/ PollFindsNone(c)
       PROVE RunnerInv'
    <2>0. UNCHANGED <<proc, handed>> /\ \E r \in {"kept", "refused", "stopped"} : StopReturns(c, r)
        BY <1>10 DEF KillRefused, NothingToStop, PollFindsNone
    <2>1. TypeOK'
        BY <2>0 DEF StopReturns, Return, Goto, TypeOK
    <2>2. ASSUME NEW q \in Pids PROVE ProcessInv(q)'
        BY <2>0 DEF ProcessInv, Leads
    <2>3. ASSUME NEW d \in Cmds PROVE CallInv(d)'
        BY <1>10, <2>0 DEF StopReturns, Return, Goto, TypeOK, CallInv, Leads,
            KillRefused, NothingToStop, PollFindsNone, Waiting
    <2> QED
        BY <2>1, <2>2, <2>3
<1>11. ASSUME NEW c \in Cmds, SendTerm(c) \/ SendKill(c) PROVE RunnerInv'
    <2>0. PICK g \in {"term", "kill"} : proc' = Signalled(pid[c], g)
        BY <1>11 DEF SendTerm, SendKill
    <2>a. /\ proc' \in [Pids -> ProcessRecord]
          /\ \A q \in Pids :
                /\ proc'[q].st = proc[q].st
                /\ proc'[q].parent = proc[q].parent
                /\ proc'[q].group = proc[q].group
                /\ proc'[q].errno = proc[q].errno
        BY <2>0 DEF Signalled, TypeOK
    <2>1. TypeOK'
        BY <1>11, <2>a DEF SendTerm, SendKill, Goto, TypeOK
    <2>2. ASSUME NEW q \in Pids PROVE ProcessInv(q)'
        BY <1>11, <2>a DEF SendTerm, SendKill, TypeOK, ProcessInv, Leads
    <2>3. ASSUME NEW d \in Cmds PROVE CallInv(d)'
        BY <1>11, <2>a DEF SendTerm, SendKill, Goto, TypeOK, CallInv, Leads
    <2> QED
        BY <2>1, <2>2, <2>3
<1>12. ASSUME NEW c \in Cmds, PollReaps(c) PROVE RunnerInv'
    BY <1>12 DEF PollReaps, Waiting, MyZombie, StopReturns, Return, Goto,
        TypeOK, ProcessInv, CallInv, Leads
<1>13. ASSUME NEW c \in Cmds, PollAgain(c) \/ TimeIsOver(c) PROVE RunnerInv'
    BY <1>13 DEF PollAgain, TimeIsOver, Waiting, StopReturns, Return, Goto,
        TypeOK, ProcessInv, CallInv, Leads
<1>14. ASSUME NEW p \in Pids, ChildStep(p) PROVE RunnerInv'
    <2>0. PICK r \in ProcessRecord :
            /\ proc' = [proc EXCEPT ![p] = r]
            /\ r.parent = proc[p].parent
            /\ \/ /\ proc[p].st = "forked"
                  /\ r.st = "grouped" /\ r.group = p /\ r.errno = proc[p].errno
               \/ /\ proc[p].st = "grouped"
                  /\ r.group = proc[p].group
                  /\ \/ r.st = "run" /\ r.errno = proc[p].errno
                     \/ r.st = "failed" /\ r.errno = TRUE
        BY <1>14, ChildStepUpdates DEF TypeOK
    <2>a. UNCHANGED <<handed, pc, pid, polls, ret>>
        BY <1>14 DEF ChildStep, ChildGroups, ChildExecs, ChildFails, callVars
    <2>1. TypeOK'
        BY <2>0, <2>a DEF TypeOK
    <2>2. ASSUME NEW q \in Pids PROVE ProcessInv(q)'
        BY <2>0, <2>a DEF TypeOK, ProcessInv, Leads
    <2>3. ASSUME NEW d \in Cmds PROVE CallInv(d)'
        BY <2>0, <2>a DEF TypeOK, ProcessInv, CallInv, Leads
    <2> QED
        BY <2>1, <2>2, <2>3
<1>15. ASSUME NEW p \in Pids, Ends(p) PROVE RunnerInv'
    <2>0. /\ Orphaned(p) \in [Pids -> ProcessRecord]
          /\ \A q \in Pids :
                /\ Orphaned(p)[q].parent = IF proc[q].parent = p THEN Reaper ELSE proc[q].parent
                /\ Orphaned(p)[q].st = proc[q].st
                /\ Orphaned(p)[q].group = proc[q].group
                /\ Orphaned(p)[q].errno = proc[q].errno
        BY DEF Orphaned, TypeOK
    <2>b. PICK r \in ProcessRecord :
            /\ proc' = [Orphaned(p) EXCEPT ![p] = r]
            /\ r.st = "zombie"
            /\ r.parent = Orphaned(p)[p].parent
            /\ r.group = proc[p].group
            /\ r.errno = proc[p].errno
        BY <1>15, <2>0, EndsUpdates
    <2>a. /\ proc' \in [Pids -> ProcessRecord]
          /\ \A q \in Pids :
                /\ proc'[q].st = IF q = p THEN "zombie" ELSE proc[q].st
                /\ proc'[q].parent = IF proc[q].parent = p THEN Reaper ELSE proc[q].parent
                /\ proc'[q].group = proc[q].group
                /\ proc'[q].errno = proc[q].errno
        BY <2>0, <2>b
    <2>1. TypeOK'
        BY <1>15, <2>a DEF Ends, callVars, TypeOK
    <2>2. ASSUME NEW q \in Pids PROVE ProcessInv(q)'
        BY <1>15, <2>a DEF Ends, Live, callVars, TypeOK, ProcessInv, CallInv, Leads
    <2>3. ASSUME NEW d \in Cmds PROVE CallInv(d)'
        BY <1>15, <2>a DEF Ends, Live, callVars, TypeOK, ProcessInv, CallInv, Leads
    <2> QED
        BY <2>1, <2>2, <2>3
<1>16. ASSUME NEW p \in Pids, Spawns(p) PROVE RunnerInv'
    <2>0. PICK h \in FreshPids, deaf \in BOOLEAN :
            /\ proc' = [proc EXCEPT ![h] =
                [Free EXCEPT !.st = "run", !.group = p, !.parent = p, !.deaf = deaf]]
            /\ handed' = handed \ {h}
        BY <1>16 DEF Spawns
    <2>a. /\ h \in Pids
          /\ [Free EXCEPT !.st = "run", !.group = p, !.parent = p, !.deaf = deaf] \in ProcessRecord
        BY DEF FreshPids
    <2>1. TypeOK'
        BY <1>16, <2>0, <2>a DEF Spawns, callVars, TypeOK
    <2>2. ASSUME NEW q \in Pids PROVE ProcessInv(q)'
        BY <1>16 DEF Spawns, FreshPids, callVars, TypeOK, ProcessInv, CallInv, Leads
    <2>3. ASSUME NEW d \in Cmds PROVE CallInv(d)'
        BY <1>16 DEF Spawns, FreshPids, callVars, TypeOK, ProcessInv, CallInv, Leads
    <2> QED
        BY <2>1, <2>2, <2>3
<1>17. ASSUME NEW p \in Pids, IsReaped(p) PROVE RunnerInv'
    BY <1>17 DEF IsReaped, callVars, TypeOK, ProcessInv, CallInv, Leads
<1>18. CASE UNCHANGED vars
    BY <1>18 DEF vars, callVars, TypeOK, ProcessInv, CallInv, Leads
<1> QED
    BY <1>1, <1>2, <1>3, <1>4, <1>5, <1>6, <1>7, <1>8, <1>9, <1>10, <1>11, <1>12, <1>13,
       <1>14, <1>15, <1>16, <1>17, <1>18 DEF Next, StartStep, StopStep

LEMMA Invariance == Spec => []RunnerInv
BY InitInv, Inductive, PTL DEF Spec

-----------------------------------------------------------------------------
\* Types, whatever the commands call and whatever fails.
THEOREM TypeCorrect == Spec => []TypeOK
<1>1. RunnerInv => TypeOK
    BY DEF RunnerInv
<1> QED
    BY <1>1, Invariance, PTL

\* Every pid that Start has handed out leads a group of its own.
THEOREM GroupCorrect == Spec => []StartedGroup
<1>1. RunnerInv => StartedGroup
    BY DEF RunnerInv, ProcessInv, StartedGroup, TypeOK
<1> QED
    BY <1>1, Invariance, PTL

\* The result of a call comes from a step of its own command.
LEMMA WhoReturns ==
    ASSUME RunnerInv, Next, NEW c \in Cmds, pc[c] # "idle", ret'[c] # "none"
    PROVE  \/ StartRefused(c) \/ Reap(c) \/ ReadEnd(c)
           \/ KillRefused(c) \/ NothingToStop(c)
           \/ PollReaps(c) \/ PollFindsNone(c) \/ TimeIsOver(c)
<1>1. ret[c] = "none" /\ ret \in [Cmds -> Results]
    BY DEF RunnerInv, CallInv, TypeOK
<1>2. ASSUME NEW d \in Cmds, CallStart(d) \/ CallStop(d) \/ Leave(d) PROVE FALSE
    BY <1>1, <1>2 DEF CallStart, CallStop, Call, Leave, Return
<1>3. ASSUME NEW d \in Cmds, StartStep(d)
      PROVE  d = c /\ (StartRefused(d) \/ Reap(d) \/ ReadEnd(d))
    BY <1>1, <1>3 DEF StartStep, Fork, ParentGroups, ReadErrno, StartRefused, Reap, ReadEnd, Return
<1>4. ASSUME NEW d \in Cmds, StopStep(d)
      PROVE  d = c /\ (\/ KillRefused(d) \/ NothingToStop(d)
                       \/ PollReaps(d) \/ PollFindsNone(d) \/ TimeIsOver(d))
    BY <1>1, <1>4 DEF StopStep, SendTerm, SendKill, PollAgain, KillRefused, NothingToStop,
        PollReaps, PollFindsNone, TimeIsOver, StopReturns, Return
<1>5. ASSUME NEW p \in Pids, ChildStep(p) \/ Ends(p) \/ Spawns(p) \/ IsReaped(p) PROVE FALSE
    BY <1>1, <1>5 DEF ChildStep, ChildGroups, ChildExecs, ChildFails, Ends, Spawns, IsReaped, callVars
<1> QED
    BY <1>2, <1>3, <1>4, <1>5 DEF Next

\* A Start that fails leaves its caller no child.
THEOREM FailureCorrect == Spec => FailedStartLeavesNothing
<1>1. ASSUME RunnerInv, Next, NEW c \in Cmds, pc[c] # "idle", ret'[c] = "failed",
             NEW p \in Pids, proc'[p].parent = c
      PROVE  p \in handed
    <2> USE NamesAssumption DEF RunnerInv
    <2>1. StartRefused(c) \/ Reap(c)
        <3>1. ret \in [Cmds -> Results] /\ ret[c] = "none"
            BY <1>1 DEF TypeOK, CallInv
        <3>2. \/ StartRefused(c) \/ Reap(c) \/ ReadEnd(c)
              \/ KillRefused(c) \/ NothingToStop(c)
              \/ PollReaps(c) \/ PollFindsNone(c) \/ TimeIsOver(c)
            BY <1>1, WhoReturns
        <3> QED
            BY <1>1, <3>1, <3>2 DEF ReadEnd, KillRefused, NothingToStop, PollReaps,
                PollFindsNone, TimeIsOver, StopReturns, Return
    <2>2. CASE StartRefused(c)
        BY <1>1, <2>2 DEF StartRefused, CallInv, TypeOK
    <2>3. CASE Reap(c)
        BY <1>1, <2>3 DEF Reap, CallInv, TypeOK
    <2> QED
        BY <2>1, <2>2, <2>3
<1>2. RunnerInv /\ [Next]_vars =>
        [\A c \in Cmds : pc[c] # "idle" /\ ret'[c] = "failed" =>
            \A p \in Pids : proc'[p].parent = c => p \in handed]_vars
    BY <1>1
<1> QED
    BY <1>2, Invariance, PTL DEF Spec, FailedStartLeavesNothing

\* A Stop that succeeds on a group led by another command's child, or an
\* orphan, has left no member of it.
THEOREM ReattachedCorrect == Spec => ReattachedGroupGone
<1>1. ASSUME RunnerInv, Next, NEW c \in Cmds, pc[c] \in StopStages, ret'[c] = "stopped",
             proc[pid[c]].parent # c
      PROVE  MembersIn(proc', pid[c]) = {}
    <2> USE NamesAssumption DEF RunnerInv
    <2>1. NothingToStop(c) \/ PollReaps(c) \/ PollFindsNone(c)
        <3>1. ret \in [Cmds -> Results] /\ ret[c] = "none" /\ pc[c] # "idle"
            BY <1>1 DEF TypeOK, CallInv
        <3>2. \/ StartRefused(c) \/ Reap(c) \/ ReadEnd(c)
              \/ KillRefused(c) \/ NothingToStop(c)
              \/ PollReaps(c) \/ PollFindsNone(c) \/ TimeIsOver(c)
            BY <1>1, <3>1, WhoReturns
        <3> QED
            BY <1>1, <3>1, <3>2 DEF StartRefused, Reap, ReadEnd, KillRefused, TimeIsOver,
                StopReturns, Return
    <2>2. NothingToStop(c) \/ PollFindsNone(c)
        BY <1>1, <2>1 DEF PollReaps, MyZombie
    <2> QED
        BY <1>1, <2>2 DEF NothingToStop, PollFindsNone, HasEnded, Members, MembersIn
<1>2. RunnerInv /\ [Next]_vars =>
        [\A c \in Cmds :
            pc[c] \in StopStages /\ ret'[c] = "stopped" /\ proc[pid[c]].parent # c
                => MembersIn(proc', pid[c]) = {}]_vars
    BY <1>1
<1> QED
    BY <1>2, Invariance, PTL DEF Spec, ReattachedGroupGone

-----------------------------------------------------------------------------
(* Refinement of ProcessRunner.  The abstract variables are functions of   *)
(* the table and of the calls; what a step does to them follows from what  *)
(* it does to one process or one command.                                  *)

Views == <<kubectlView, lostView, opView, targetView, ret>>

LEMMA InitImplements == Init => Interface!Init
BY NamesAssumption DEF Init, Interface!Init, kubectlView, lostView, opView, targetView, ExecOver

LEMMA CallsImplement ==
    ASSUME RunnerInv, NEW c \in Cmds, CallStart(c) \/ CallStop(c) \/ Leave(c)
    PROVE  \/ Interface!Call(c, "start", NoPid)
           \/ \E p \in Pids \cup {NoPid} : Interface!Call(c, "stop", p)
           \/ Interface!Leave(c)
<1> USE NamesAssumption DEF RunnerInv
<1>1. CASE CallStart(c)
    BY <1>1 DEF CallStart, Call, Goto, TypeOK, Interface!Call,
        kubectlView, lostView, opView, targetView, ExecOver
<1>2. CASE CallStop(c)
    <2>1. PICK p \in handed \cup {NoPid} : Call(c, "term", p)
        BY <1>2 DEF CallStop
    <2>2. Interface!Call(c, "stop", p)
        BY <2>1 DEF Call, Goto, TypeOK, Interface!Call,
            kubectlView, lostView, opView, targetView, ExecOver
    <2> QED
        BY <2>1, <2>2 DEF TypeOK
<1>3. CASE Leave(c)
    <2>1. kubectlView' = kubectlView
        BY <1>3 DEF Leave, Orphaned, kubectlView, ExecOver, TypeOK
    <2>2. \/ lostView' = lostView
          \/ opView[c] = "start" /\ targetView[c] = NoPid /\ \E p \in Pids : lostView' = lostView \cup {p}
        <3>1. \A p \in Pids :
                p \in lostView' <=> p \in lostView \/ (proc[p].st \in BeforeExec /\ proc[p].parent = c)
            BY <1>3 DEF Leave, Orphaned, lostView, TypeOK
        <3>2. \A p \in Pids : proc[p].st \in BeforeExec /\ proc[p].parent = c =>
                pc[c] \in Starting /\ pid[c] = p
            BY DEF ProcessInv, CallInv
        <3>3. CASE pc[c] \in Starting /\ proc[pid[c]].st \in BeforeExec
            <4>1. pid[c] \in Pids /\ proc[pid[c]].parent = c
                BY <3>3 DEF CallInv, TypeOK
            <4>2. lostView' = lostView \cup {pid[c]}
                BY <3>1, <3>2, <3>3, <4>1 DEF lostView
            <4> QED
                BY <3>3, <4>1, <4>2 DEF opView, targetView, ExecOver
        <3>4. CASE ~(pc[c] \in Starting /\ proc[pid[c]].st \in BeforeExec)
            BY <3>1, <3>2, <3>4 DEF lostView
        <3> QED
            BY <3>3, <3>4
    <2>3. /\ opView' = [opView EXCEPT ![c] = "idle"]
          /\ ret' = [ret EXCEPT ![c] = "none"]
        BY <1>3 DEF Leave, Return, Goto, opView, TypeOK
    <2>4. targetView' = [targetView EXCEPT ![c] = NoPid]
        <3>1. \A p \in Pids : ExecOver(p)' = ExecOver(p)
            BY <1>3 DEF Leave, Orphaned, ExecOver, TypeOK
        <3> QED
            BY <1>3, <3>1 DEF Leave, Return, Goto, targetView, TypeOK
    <2> QED
        BY <2>1, <2>2, <2>3, <2>4 DEF Interface!Leave
<1> QED
    BY <1>1, <1>2, <1>3

LEMMA StartImplements ==
    ASSUME RunnerInv, NEW c \in Cmds, StartStep(c)
    PROVE  Interface!StartReturns(c) \/ UNCHANGED Views
<1> USE NamesAssumption DEF RunnerInv
<1>1. CASE StartRefused(c)
    <2>1. /\ pc[c] = "fork" /\ pid[c] = NoPid /\ UNCHANGED <<proc, handed, pid>>
          /\ pc' = [pc EXCEPT ![c] = "idle"] /\ ret' = [ret EXCEPT ![c] = "failed"]
        BY <1>1 DEF StartRefused, Return, Goto, CallInv
    <2>2. UNCHANGED <<kubectlView, lostView>>
        BY <2>1 DEF kubectlView, lostView, ExecOver
    <2>3. opView[c] = "start" /\ opView' = [opView EXCEPT ![c] = "idle"]
        BY <2>1 DEF opView, TypeOK
    <2>4. targetView[c] = NoPid /\ UNCHANGED targetView
        BY <2>1 DEF targetView, ExecOver, TypeOK
    <2> QED
        BY <2>1, <2>2, <2>3, <2>4 DEF Interface!StartReturns, Interface!Return
<1>2. CASE Fork(c)
    <2>1. PICK p \in FreshPids :
            /\ proc' = [proc EXCEPT ![p] = [Free EXCEPT !.st = "forked", !.parent = c]]
            /\ pid' = [pid EXCEPT ![c] = p]
        BY <1>2 DEF Fork
    <2>2. /\ p \in Pids /\ proc[p].st = "free"
          /\ \A d \in Cmds : pc[d] # "idle" => pid[d] # p
          /\ proc'[p].st = "forked" /\ proc'[p].parent = c
          /\ \A q \in Pids \ {p} : proc'[q] = proc[q]
        BY <2>1 DEF FreshPids, TypeOK
    <2>3. \A q \in Pids : ExecOver(q)' = ExecOver(q)
        BY <2>2 DEF ExecOver
    <2>4. UNCHANGED <<kubectlView, lostView>>
        BY <2>2, <2>3 DEF kubectlView, lostView, ExecOver
    <2>5. UNCHANGED <<opView, targetView, ret>>
        BY <1>2, <2>1, <2>2, <2>3 DEF Fork, Goto, opView, targetView, ExecOver, TypeOK, CallInv
    <2> QED
        BY <2>4, <2>5 DEF Views
<1>3. CASE ParentGroups(c)
    <2>1. /\ pid[c] \in Pids /\ proc[pid[c]].parent = c /\ proc[pid[c]].group \in {pid[c], NoPid}
          /\ \A q \in Pids :
                /\ proc'[q].st = proc[q].st /\ proc'[q].errno = proc[q].errno
                /\ proc'[q].parent = proc[q].parent
                /\ q # pid[c] => proc'[q].group = proc[q].group
          /\ proc'[pid[c]].group \in {pid[c], NoPid}
        BY <1>3 DEF ParentGroups, TypeOK, ProcessInv, CallInv
    <2>2. \A q \in Pids : ExecOver(q)' = ExecOver(q)
        BY <2>1 DEF ExecOver
    <2>3. UNCHANGED <<kubectlView, lostView>>
        BY <2>1, <2>2 DEF kubectlView, lostView
    <2>4. UNCHANGED <<opView, targetView, ret>>
        BY <1>3, <2>2 DEF ParentGroups, Goto, opView, targetView, TypeOK
    <2> QED
        BY <2>3, <2>4 DEF Views
<1>4. CASE ReadEnd(c)
    <2>1. ExecOver(pid[c]) /\ pid[c] \in Pids
        BY <1>4 DEF ReadEnd, WriteEndOpen, ExecOver, TypeOK, ProcessInv, CallInv
    <2> QED
        BY <1>4, <2>1 DEF ReadEnd, Return, Goto, TypeOK, Interface!StartReturns, Interface!Return,
            kubectlView, lostView, opView, targetView, ExecOver
<1>5. CASE ReadErrno(c)
    BY <1>5 DEF ReadErrno, Goto, TypeOK, Views, kubectlView, lostView, opView, targetView, ExecOver
<1>6. CASE Reap(c)
    <2>1. /\ pid[c] \in Pids /\ proc[pid[c]].errno /\ proc[pid[c]].parent = c
          /\ proc'[pid[c]] = Free /\ proc[pid[c]].st = "zombie"
          /\ \A q \in Pids \ {pid[c]} : proc'[q] = proc[q]
        BY <1>6 DEF Reap, TypeOK, CallInv
    <2>2. \A q \in Pids : ExecOver(q)' = ExecOver(q)
        BY <2>1 DEF ExecOver
    <2>3. UNCHANGED <<kubectlView, lostView>>
        BY <2>1, <2>2 DEF kubectlView, lostView, ExecOver
    <2>4. targetView[c] = NoPid /\ opView[c] = "start" /\ UNCHANGED targetView
        BY <1>6, <2>1, <2>2 DEF Reap, Return, Goto, opView, targetView, ExecOver, TypeOK
    <2> QED
        BY <1>6, <2>3, <2>4 DEF Reap, Return, Goto, opView, TypeOK,
            Interface!StartReturns, Interface!Return
<1> QED
    BY <1>1, <1>2, <1>3, <1>4, <1>5, <1>6 DEF StartStep

LEMMA StopImplements ==
    ASSUME RunnerInv, NEW c \in Cmds, StopStep(c)
    PROVE  Interface!StopSucceeds(c) \/ Interface!StopFails(c) \/ UNCHANGED Views
<1> USE NamesAssumption DEF RunnerInv
<1>0. ASSUME pc[c] \in StopStages, UNCHANGED <<proc, handed>>,
             NEW r \in {"kept", "refused"}, StopReturns(c, r)
      PROVE  Interface!StopFails(c)
    BY <1>0 DEF StopReturns, Return, Goto, TypeOK, Interface!StopFails, Interface!Return,
        kubectlView, lostView, opView, targetView, ExecOver
<1>a. ASSUME pc[c] \in StopStages, UNCHANGED <<proc, handed>>, StopReturns(c, "stopped"),
             pid[c] \in Pids, Members(pid[c]) = {}
      PROVE  Interface!StopSucceeds(c)
    <2>1. proc[pid[c]].st = "free"
        BY <1>a DEF Members, MembersIn, CallInv, Leads
    <2>2. kubectlView' = kubectlView /\ kubectlView[pid[c]] = "none"
        BY <1>a, <2>1 DEF kubectlView, ExecOver
    <2>3. kubectlView' = [kubectlView EXCEPT ![pid[c]] = "none"]
        BY <2>2 DEF kubectlView
    <2>4. opView[c] = "stop" /\ targetView[c] = pid[c] /\ UNCHANGED lostView
        BY <1>a DEF opView, targetView, lostView
    <2>5. /\ opView' = [opView EXCEPT ![c] = "idle"]
          /\ targetView' = [targetView EXCEPT ![c] = NoPid]
          /\ ret' = [ret EXCEPT ![c] = "stopped"]
        BY <1>a DEF StopReturns, Return, Goto, TypeOK, opView, targetView, ExecOver
    <2> QED
        BY <1>a, <2>2, <2>3, <2>4, <2>5 DEF Interface!StopSucceeds, Interface!Return
<1>1. CASE KillRefused(c)
    BY <1>0, <1>1 DEF KillRefused
<1>2. CASE NothingToStop(c)
    BY <1>a, <1>2 DEF NothingToStop, TypeOK
<1>3. CASE SendTerm(c) \/ SendKill(c)
    <2>1. PICK g \in {"term", "kill"} : proc' = Signalled(pid[c], g)
        BY <1>3 DEF SendTerm, SendKill
    <2>2. \A q \in Pids :
            /\ proc'[q].st = proc[q].st
            /\ proc'[q].parent = proc[q].parent
            /\ proc'[q].group = proc[q].group
            /\ proc'[q].errno = proc[q].errno
        BY <2>1 DEF Signalled, TypeOK
    <2>3. UNCHANGED <<kubectlView, lostView>>
        BY <2>2 DEF kubectlView, lostView, ExecOver
    <2>4. UNCHANGED <<opView, targetView, ret>>
        BY <1>3, <2>2 DEF SendTerm, SendKill, Goto, opView, targetView, ExecOver, TypeOK
    <2> QED
        BY <2>3, <2>4 DEF Views
<1>4. CASE PollReaps(c)
    <2>1. /\ pid[c] \in Pids /\ pc[c] \in StopStages
          /\ proc[pid[c]].st = "zombie" /\ proc[pid[c]].parent = c
          /\ proc'[pid[c]] = Free
          /\ \A q \in Pids \ {pid[c]} : proc'[q] = proc[q]
        BY <1>4 DEF PollReaps, Waiting, MyZombie, TypeOK
    <2>2. \A q \in Pids \ {pid[c]} : ExecOver(q)' = ExecOver(q)
        BY <2>1 DEF ExecOver
    <2>3. kubectlView[pid[c]] # "up" /\ kubectlView' = [kubectlView EXCEPT ![pid[c]] = "none"]
        BY <2>1, <2>2 DEF kubectlView, ExecOver
    <2>4. opView[c] = "stop" /\ targetView[c] = pid[c] /\ UNCHANGED lostView
        BY <2>1 DEF opView, targetView, lostView
    <2>5. \A d \in Cmds \ {c} : pc[d] \in Starting => pid[d] # pid[c]
        BY <2>1 DEF CallInv
    <2>6. /\ opView' = [opView EXCEPT ![c] = "idle"]
          /\ ret' = [ret EXCEPT ![c] = "stopped"]
        BY <1>4 DEF PollReaps, StopReturns, Return, Goto, TypeOK, opView
    <2>7. targetView' = [targetView EXCEPT ![c] = NoPid]
        <3>1. pc' = [pc EXCEPT ![c] = "idle"] /\ pid' = [pid EXCEPT ![c] = NoPid]
            BY <1>4 DEF PollReaps, StopReturns, Return, Goto
        <3>2. \A d \in Cmds \ {c} : pid'[d] = pid[d] /\ pc'[d] = pc[d]
            BY <3>1 DEF TypeOK
        <3>3. \A d \in Cmds \ {c} : targetView'[d] = targetView[d]
            BY <2>1, <2>5, <3>2 DEF targetView, ExecOver, TypeOK
        <3>4. targetView'[c] = NoPid
            BY <3>1 DEF targetView, TypeOK
        <3> QED
            BY <3>3, <3>4 DEF targetView
    <2> QED
        BY <2>1, <2>3, <2>4, <2>6, <2>7 DEF Interface!StopSucceeds, Interface!Return
<1>5. CASE PollFindsNone(c)
    BY <1>a, <1>5 DEF PollFindsNone, Waiting, HasEnded, TypeOK
<1>6. CASE PollAgain(c)
    BY <1>6 DEF PollAgain, Views, kubectlView, lostView, opView, targetView, ExecOver
<1>7. CASE TimeIsOver(c)
    <2>1. CASE pc[c] = "killWait" /\ StopReturns(c, "kept")
        BY <1>0, <1>7, <2>1 DEF TimeIsOver
    <2>2. CASE pc[c] = "termWait" /\ Goto(c, "kill") /\ UNCHANGED <<pid, polls, ret>>
        BY <1>7, <2>2 DEF TimeIsOver, Goto, TypeOK, Views,
            kubectlView, lostView, opView, targetView, ExecOver
    <2> QED
        BY <1>7, <2>1, <2>2 DEF TimeIsOver
<1> QED
    BY <1>1, <1>2, <1>3, <1>4, <1>5, <1>6, <1>7 DEF StopStep

\* What becomes of a child before its exec: a launch of the command that is
\* in Start with it, or a late one when that command is gone.
LEMMA ChildViews ==
    ASSUME RunnerInv, NEW p \in Pids, UNCHANGED callVars,
           proc[p].st \in BeforeExec,
           \A q \in Pids \ {p} :
                /\ proc'[q].st = proc[q].st
                /\ proc'[q].group = proc[q].group
                /\ proc'[q].errno = proc[q].errno
                /\ proc[q].st \in BeforeExec => proc'[q].parent = proc[q].parent,
           proc'[p].st \notin BeforeExec,
           proc'[p].parent = proc[p].parent,
           kubectlView'[p] \in {"none", "up", "ended"},
           ExecOver(p)' <=> kubectlView'[p] # "none"
    PROVE  \/ (\E c \in Cmds : Interface!Launch(c)) \/ UNCHANGED Views
           \/ Interface!LateLaunch(p)
<1> USE NamesAssumption DEF RunnerInv
<1>1. /\ \A q \in Pids \ {p} : kubectlView'[q] = kubectlView[q] /\ (ExecOver(q)' <=> ExecOver(q))
      /\ kubectlView[p] = "none" /\ ~ExecOver(p)
    BY DEF kubectlView, ExecOver
<1>2. \A q \in Pids : q \in lostView' <=> q \in lostView /\ q # p
    BY DEF lostView
<1>3. UNCHANGED <<opView, ret>>
    BY DEF opView, callVars
<1>4. kubectlView' = [kubectlView EXCEPT ![p] = kubectlView'[p]]
    BY <1>1 DEF kubectlView
<1>5. CASE proc[p].parent \in Cmds
    <2> DEFINE c == proc[p].parent
    <2>1. pc[c] \in Starting /\ pid[c] = p /\ \A d \in Cmds \ {c} : pc[d] \in Starting => pid[d] # p
        BY <1>5 DEF ProcessInv, CallInv
    <2>2. pc[c] # "idle" /\ opView[c] = "start" /\ targetView[c] = NoPid
        BY <1>1, <1>5, <2>1 DEF opView, targetView
    <2>3. UNCHANGED lostView
        BY <1>2, <1>5 DEF lostView
    <2>4. \A d \in Cmds \ {c} : targetView'[d] = targetView[d]
        BY <1>1, <2>1 DEF targetView, callVars, TypeOK
    <2>5. CASE kubectlView'[p] = "none"
        <3>1. targetView'[c] = targetView[c]
            BY <1>1, <1>5, <2>1, <2>5 DEF targetView, callVars
        <3>2. UNCHANGED targetView
            BY <2>4, <3>1 DEF targetView
        <3>3. UNCHANGED kubectlView
            BY <1>1, <2>5 DEF kubectlView
        <3> QED
            BY <1>3, <2>3, <3>2, <3>3 DEF Views
    <2>6. CASE kubectlView'[p] # "none"
        <3>1. targetView'[c] = p
            BY <1>5, <2>1, <2>6 DEF targetView, callVars
        <3>2. targetView' = [targetView EXCEPT ![c] = p]
            BY <1>5, <2>4, <3>1 DEF targetView
        <3> QED
            BY <1>1, <1>3, <1>4, <1>5, <2>2, <2>3, <2>6, <3>2
            DEF Interface!Launch, Interface!Launched
    <2> QED
        BY <2>5, <2>6
<1>6. CASE proc[p].parent \notin Cmds
    <2>1. proc[p].parent = Reaper
        BY <1>6 DEF ProcessInv
    <2>2. p \in lostView /\ lostView' = lostView \ {p}
        BY <1>2, <2>1 DEF lostView
    <2>3. \A d \in Cmds : pc[d] \in Starting => pid[d] # p
        BY <2>1 DEF CallInv
    <2>4. UNCHANGED targetView
        BY <1>1, <2>3 DEF targetView, callVars, TypeOK
    <2>5. kubectlView'[p] \in {"none", "up", "ended"}
        BY DEF kubectlView
    <2>6. CASE kubectlView'[p] = "none"
        <3>1. UNCHANGED kubectlView
            BY <1>1, <2>6 DEF kubectlView
        <3> QED
            BY <1>3, <2>2, <2>4, <3>1 DEF Interface!LateLaunch
    <2>7. CASE kubectlView'[p] # "none"
        <3>1. Interface!Launched(p)
            BY <1>1, <1>4, <2>5, <2>7 DEF Interface!Launched
        <3> QED
            BY <1>3, <2>2, <2>4, <3>1 DEF Interface!LateLaunch
    <2> QED
        BY <2>6, <2>7
<1> QED
    BY <1>5, <1>6

LEMMA ChildImplements ==
    ASSUME RunnerInv, NEW p \in Pids, ChildStep(p)
    PROVE  \/ (\E c \in Cmds : Interface!Launch(c)) \/ UNCHANGED Views
           \/ Interface!LateLaunch(p)
<1> USE NamesAssumption DEF RunnerInv
<1>1. PICK r \in ProcessRecord :
        /\ proc' = [proc EXCEPT ![p] = r]
        /\ r.parent = proc[p].parent
        /\ \/ /\ proc[p].st = "forked"
              /\ r.st = "grouped" /\ r.group = p /\ r.errno = proc[p].errno
           \/ /\ proc[p].st = "grouped"
              /\ r.group = proc[p].group
              /\ \/ r.st = "run" /\ r.errno = proc[p].errno
                 \/ r.st = "failed" /\ r.errno = TRUE
    BY ChildStepUpdates DEF TypeOK
<1>2. UNCHANGED callVars
    BY DEF ChildStep, ChildGroups, ChildExecs, ChildFails
<1>3. proc'[p] = r /\ \A q \in Pids \ {p} : proc'[q] = proc[q]
    BY <1>1 DEF TypeOK
<1>4. CASE r.st = "grouped"
    <2>1. \A q \in Pids : ExecOver(q)' <=> ExecOver(q)
        BY <1>1, <1>3, <1>4 DEF ExecOver
    <2>2. UNCHANGED <<kubectlView, lostView>>
        BY <1>1, <1>3, <1>4, <2>1 DEF kubectlView, lostView, ExecOver
    <2>3. UNCHANGED <<opView, targetView, ret>>
        BY <1>2, <2>1 DEF opView, targetView, callVars, TypeOK
    <2> QED
        BY <2>2, <2>3 DEF Views
<1>5. CASE r.st # "grouped"
    <2>1. proc[p].st = "grouped" /\ proc[p].group = p /\ r.group = p /\ ~proc[p].errno
        BY <1>1, <1>5 DEF ProcessInv
    <2>2. kubectlView'[p] = IF r.st = "run" THEN "up" ELSE "none"
        BY <1>1, <1>3, <1>5, <2>1 DEF kubectlView, ExecOver
    <2>3. ExecOver(p)' <=> kubectlView'[p] # "none"
        BY <1>1, <1>3, <1>5, <2>1, <2>2 DEF ExecOver
    <2> QED
        BY <1>1, <1>2, <1>3, <1>5, <2>1, <2>2, <2>3, ChildViews
<1> QED
    BY <1>4, <1>5

LEMMA EndsImplements ==
    ASSUME RunnerInv, NEW p \in Pids, Ends(p)
    PROVE  \/ (\E c \in Cmds : Interface!Launch(c)) \/ UNCHANGED Views
           \/ Interface!LateLaunch(p) \/ Interface!Ends(p)
<1> USE NamesAssumption DEF RunnerInv
<1>1. /\ Orphaned(p) \in [Pids -> ProcessRecord]
      /\ \A q \in Pids :
            /\ Orphaned(p)[q].parent = IF proc[q].parent = p THEN Reaper ELSE proc[q].parent
            /\ Orphaned(p)[q].st = proc[q].st
            /\ Orphaned(p)[q].group = proc[q].group
            /\ Orphaned(p)[q].errno = proc[q].errno
    BY DEF Orphaned, TypeOK
<1>2. PICK r \in ProcessRecord :
        /\ proc' = [Orphaned(p) EXCEPT ![p] = r]
        /\ r.st = "zombie"
        /\ r.parent = Orphaned(p)[p].parent
        /\ r.group = Orphaned(p)[p].group
        /\ r.errno = Orphaned(p)[p].errno
    BY <1>1, EndsUpdates
<1>3. /\ \A q \in Pids :
            /\ proc'[q].st = IF q = p THEN "zombie" ELSE proc[q].st
            /\ proc'[q].parent = IF proc[q].parent = p THEN Reaper ELSE proc[q].parent
            /\ proc'[q].group = proc[q].group
            /\ proc'[q].errno = proc[q].errno
      /\ UNCHANGED callVars /\ Live(p)
    BY <1>1, <1>2 DEF Ends
<1>4. \A q \in Pids : proc[q].st \in BeforeExec => proc'[q].parent = proc[q].parent
    BY <1>3 DEF ProcessInv
<1>5. CASE proc[p].st \in BeforeExec
    <2>1. ~proc[p].errno /\ proc[p].group \in {p, NoPid}
        BY <1>5 DEF ProcessInv
    <2>2. kubectlView'[p] = "ended" /\ ExecOver(p)'
        BY <1>3, <2>1 DEF kubectlView, ExecOver
    <2> QED
        BY <1>3, <1>4, <1>5, <2>2, ChildViews
<1>6. CASE proc[p].st \notin BeforeExec
    <2>1. \A q \in Pids : ExecOver(q)' <=> ExecOver(q)
        BY <1>3, <1>6 DEF ExecOver, ProcessInv, Live, TypeOK
    <2>2. UNCHANGED <<opView, targetView, ret>>
        BY <1>3, <2>1 DEF opView, targetView, callVars, TypeOK
    <2>3. UNCHANGED lostView
        BY <1>3, <1>4, <1>6 DEF lostView
    <2>4. \A q \in Pids \ {p} : kubectlView'[q] = kubectlView[q]
        BY <1>3, <2>1 DEF kubectlView
    <2>5. CASE kubectlView[p] = "up"
        <3>1. kubectlView'[p] = "ended"
            BY <1>3, <2>1, <2>5 DEF kubectlView
        <3>2. kubectlView' = [kubectlView EXCEPT ![p] = "ended"]
            BY <2>4, <3>1 DEF kubectlView
        <3> QED
            BY <2>2, <2>3, <2>5, <3>2 DEF Interface!Ends
    <2>6. CASE kubectlView[p] # "up"
        <3>1. kubectlView'[p] = kubectlView[p]
            BY <1>3, <1>6, <2>1, <2>6 DEF kubectlView, ExecOver, Live
        <3>2. UNCHANGED kubectlView
            BY <2>4, <3>1 DEF kubectlView
        <3> QED
            BY <2>2, <2>3, <3>2 DEF Views
    <2> QED
        BY <2>5, <2>6
<1> QED
    BY <1>5, <1>6

LEMMA SpawnsImplements ==
    ASSUME RunnerInv, NEW p \in Pids, Spawns(p)
    PROVE  UNCHANGED Views
<1> USE NamesAssumption DEF RunnerInv
<1>1. PICK h \in FreshPids, deaf \in BOOLEAN :
        proc' = [proc EXCEPT ![h] =
            [Free EXCEPT !.st = "run", !.group = p, !.parent = p, !.deaf = deaf]]
    BY DEF Spawns
<1>2. /\ h \in Pids /\ proc[h].st = "free" /\ h # p
      /\ proc'[h].st = "run" /\ proc'[h].group = p /\ proc'[h].parent = p
      /\ \A q \in Pids \ {h} : proc'[q] = proc[q]
      /\ \A c \in Cmds : pc[c] # "idle" => pid[c] # h
    BY <1>1 DEF Spawns, FreshPids, TypeOK
<1>3. UNCHANGED <<kubectlView, lostView>>
    BY <1>2 DEF kubectlView, lostView, ExecOver
<1>4. UNCHANGED <<opView, targetView, ret>>
    BY <1>2 DEF Spawns, opView, targetView, ExecOver, callVars, TypeOK
<1> QED
    BY <1>3, <1>4 DEF Views

LEMMA ReapedImplements ==
    ASSUME RunnerInv, NEW p \in Pids, IsReaped(p)
    PROVE  Interface!Vanishes(p) \/ UNCHANGED Views
<1> USE NamesAssumption DEF RunnerInv
<1>1. /\ proc[p].st = "zombie" /\ proc[p].parent \notin Cmds /\ proc'[p] = Free
      /\ \A q \in Pids \ {p} : proc'[q] = proc[q]
      /\ UNCHANGED callVars
    BY DEF IsReaped, TypeOK
<1>2. \A c \in Cmds : pc[c] \in Starting => pid[c] # p
    BY <1>1 DEF CallInv
<1>3. UNCHANGED <<opView, targetView, ret>>
    BY <1>1, <1>2 DEF opView, targetView, ExecOver, callVars, TypeOK
<1>4. UNCHANGED lostView
    BY <1>1 DEF lostView
<1>5. /\ \A q \in Pids \ {p} : kubectlView'[q] = kubectlView[q]
      /\ kubectlView'[p] = "none" /\ kubectlView[p] \in {"ended", "none"}
    BY <1>1 DEF kubectlView, ExecOver
<1>6. CASE kubectlView[p] = "ended"
    <2>1. kubectlView' = [kubectlView EXCEPT ![p] = "none"]
        BY <1>5 DEF kubectlView
    <2> QED
        BY <1>3, <1>4, <1>6, <2>1 DEF Interface!Vanishes
<1>7. CASE kubectlView[p] = "none"
    <2>1. UNCHANGED kubectlView
        BY <1>5, <1>7 DEF kubectlView
    <2> QED
        BY <1>3, <1>4, <2>1 DEF Views
<1> QED
    BY <1>5, <1>6, <1>7

\* The POSIX runner implements the interface.
THEOREM Implements == Spec => ImplementsProcessRunner
<1>1. RunnerInv /\ [Next]_vars => [Interface!Next]_Views
    <2> SUFFICES ASSUME RunnerInv, [Next]_vars PROVE Interface!Next \/ UNCHANGED Views
        OBVIOUS
    <2>1. ASSUME NEW c \in Cmds, CallStart(c) \/ CallStop(c) \/ Leave(c) PROVE Interface!Next
        BY <2>1, CallsImplement DEF Interface!Next
    <2>2. ASSUME NEW c \in Cmds, StartStep(c) PROVE Interface!Next \/ UNCHANGED Views
        BY <2>2, StartImplements DEF Interface!Next
    <2>3. ASSUME NEW c \in Cmds, StopStep(c) PROVE Interface!Next \/ UNCHANGED Views
        BY <2>3, StopImplements DEF Interface!Next
    <2>4. ASSUME NEW p \in Pids, ChildStep(p) PROVE Interface!Next \/ UNCHANGED Views
        BY <2>4, ChildImplements DEF Interface!Next
    <2>5. ASSUME NEW p \in Pids, Ends(p) PROVE Interface!Next \/ UNCHANGED Views
        BY <2>5, EndsImplements DEF Interface!Next
    <2>6. ASSUME NEW p \in Pids, Spawns(p) PROVE UNCHANGED Views
        BY <2>6, SpawnsImplements
    <2>7. ASSUME NEW p \in Pids, IsReaped(p) PROVE Interface!Next \/ UNCHANGED Views
        BY <2>7, ReapedImplements DEF Interface!Next
    <2>8. CASE UNCHANGED vars
        BY <2>8 DEF vars, callVars, Views, kubectlView, lostView, opView, targetView, ExecOver
    <2> QED
        BY <2>1, <2>2, <2>3, <2>4, <2>5, <2>6, <2>7, <2>8 DEF Next
<1>2. RunnerInv /\ [Next]_vars => [Interface!Next]_(Interface!abstractVars)
    BY <1>1 DEF Views, Interface!abstractVars
<1> QED
    BY <1>2, InitImplements, Invariance, PTL
    DEF Spec, ImplementsProcessRunner, Interface!Spec
=============================================================================
