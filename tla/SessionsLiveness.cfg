\* Two commands at once, fair, one failure.
SPECIFICATION FairSpec
CONSTANTS
    Pids = {p1, p2}
    Ports = {q1, q2}
    NoPort = NoPort
    Cmds = {c1, c2}
    Reaper = Reaper
    Configs = {f1}
    Envs = {dev}
    NoKey = NoKey
    Faults = {"hang", "die"}
    MaxFaults = 1
    Requests <- AttachedDev
    NoRequest = NoRequest
    AllEnvs = AllEnvs
    Legacy = FALSE
    PidReuse = TRUE
    Within <- Itself
    f1 = f1
    f2 = f2
    dev = dev
    prod = prod
    q1 = q1
    q2 = q2
    q3 = q3
    q4 = q4
PROPERTIES
    CommandsFinish
    ForegroundEnds
