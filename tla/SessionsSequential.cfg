\* One command at a time on one configuration; any two failures, also to stop a
\* process, and any other program on any free pid.
SPECIFICATION Spec
CONSTANTS
    Pids = {p1, p2, p3, p4, p5}
    Ports = {q1, q2, q3}
    NoPort = NoPort
    Cmds = {c1}
    Reaper = Reaper
    Configs = {f1}
    Envs = {dev, prod}
    NoKey = NoKey
    Faults = {"load", "kubectl", "start", "save", "hang", "die", "crashWatch", "foreign", "ps", "stop", "probe"}
    MaxFaults = 2
    Requests <- OneConfigAtOnce
    NoRequest = NoRequest
    AllEnvs = AllEnvs
    Legacy = TRUE
    PidReuse = TRUE
    Within <- FirstInSecond
    f1 = f1
    f2 = f2
    dev = dev
    prod = prod
    q1 = q1
    q2 = q2
    q3 = q3
    q4 = q4
SYMMETRY PidSymmetry
INVARIANTS
    NoOrphan
PROPERTIES
    DownClears
    ForeignSafe
    ForegroundRemovesItself
    ImplementsRegistry
