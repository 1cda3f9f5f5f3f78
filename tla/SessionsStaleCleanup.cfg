\* Two attached commands: the first to end rewrites the state file from its snapshot.
SPECIFICATION Spec
CONSTANTS
    Pids = {p1, p2, p3}
    Ports = {q1, q2}
    NoPort = NoPort
    Cmds = {c1, c2}
    Reaper = Reaper
    Configs = {f1}
    Envs = {dev, prod}
    NoKey = NoKey
    Faults = {}
    MaxFaults = 0
    Requests <- Attached
    NoRequest = NoRequest
    AllEnvs = AllEnvs
    Legacy = FALSE
    PidReuse = FALSE
    Within <- Itself
    f1 = f1
    f2 = f2
    dev = dev
    prod = prod
    q1 = q1
    q2 = q2
    q3 = q3
    q4 = q4
SYMMETRY FullSymmetry
PROPERTIES
    ForegroundRemovesItself
