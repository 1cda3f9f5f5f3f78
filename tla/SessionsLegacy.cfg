\* The state file holds a session of a version that stored no argv.
SPECIFICATION Spec
CONSTANTS
    Pids = {p1, p2, p3}
    Ports = {q1}
    NoPort = NoPort
    Cmds = {c1}
    Reaper = Reaper
    Configs = {f1}
    Envs = {dev}
    NoKey = NoKey
    Faults = {"die"}
    MaxFaults = 1
    Requests <- DevOnly
    NoRequest = NoRequest
    AllEnvs = AllEnvs
    Legacy = TRUE
    PidReuse = FALSE
    Within <- Itself
    f1 = f1
    f2 = f2
    dev = dev
    prod = prod
    q1 = q1
    q2 = q2
    q3 = q3
    q4 = q4
SYMMETRY PidSymmetry
PROPERTIES
    DownForgetsDead
