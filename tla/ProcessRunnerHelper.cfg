\* One command stops what it has started, and a helper of it is deaf.
SPECIFICATION Spec
CONSTANTS
    Cmds = {k1}
    Pids = {p1, p2}
    NoPid = NoPid
    Reaper = Reaper
    TermPolls = 1
    KillPolls = 0
    Faults = {}
SYMMETRY RunnerSymmetry
PROPERTIES
    StopEndsGroup
