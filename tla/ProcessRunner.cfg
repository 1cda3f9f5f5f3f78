\* Two fair commands and a process group of up to two; either command may be
\* killed at any point, and kill may be refused.
SPECIFICATION FairSpec
CONSTANTS
    Cmds = {k1, k2}
    Pids = {p1, p2}
    NoPid = NoPid
    Reaper = Reaper
    TermPolls = 1
    KillPolls = 0
    Faults = {"crash", "eperm"}
INVARIANTS
    TypeOK
    StartedGroup
PROPERTIES
    FailedStartLeavesNothing
    ReattachedGroupGone
    ImplementsProcessRunner
    CallsReturn
    StopEnds
