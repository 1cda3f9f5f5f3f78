\* One command at a time, and a single failure: does `up` preserve what it replaces?
SPECIFICATION Spec
CONSTANTS
    Pids = {p1, p2, p3, p4, p5, p6}
    Ports = {q1, q2, q3}
    NoPort = NoPort
    Cmds = {c1}
    Reaper = Reaper
    Configs = {f1}
    Envs = {dev, prod}
    NoKey = NoKey
    Faults = {"load", "kubectl", "start", "save", "hang", "crashWatch", "probe"}
    MaxFaults = 1
    Requests <- OneConfigAtOnce
    NoRequest = NoRequest
    AllEnvs = AllEnvs
    Legacy = FALSE
    PidReuse = FALSE
    Within <- FirstInSecond
    f1 = f1
    f2 = f2
    dev = dev
    prod = prod
    q1 = q1
    q2 = q2
    q3 = q3
    q4 = q4
SYMMETRY PidSymmetry
INVARIANTS
    PortsDisjoint
PROPERTIES
    ReplaceKeepsForwards
    DownForgetsDead
