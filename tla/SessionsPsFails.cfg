\* ps fails once while `up` stops the session it replaces.
SPECIFICATION Spec
CONSTANTS
    Pids = {p1, p2, p3, p4, p5}
    Ports = {q1, q2, q3}
    NoPort = NoPort
    Cmds = {c1}
    Reaper = Reaper
    Configs = {f1}
    Envs = {dev, prod}
    NoKey = NoKey
    Faults = {"ps"}
    MaxFaults = 1
    Requests <- OneConfig
    NoRequest = NoRequest
    AllEnvs = AllEnvs
    Legacy = FALSE
    PidReuse = FALSE
    Within <- Itself
    f1 = f1
    f2 = f2
    dev = dev
    prod = prod
    q1 = q1
    q2 = q2
    q3 = q3
    q4 = q4
SYMMETRY PidSymmetry
PROPERTIES
    ReplaceKeepsForwards
