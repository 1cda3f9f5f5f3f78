\* Two commands at once on two environments that share a state file, one with a plan
\* of two forwards; every pid is recycled.  A command may be killed, a start, a stop
\* or ps may fail, a kubectl may hang or die, the state file may be unreadable.
SPECIFICATION Spec
CONSTANTS
    Pids = {p1, p2}
    Ports = {q1, q2, q3}
    NoPort = NoPort
    Cmds = {c1, c2}
    Reaper = Reaper
    Configs = {f1}
    Envs = {dev, prod}
    NoKey = NoKey
    Faults = {"ps", "stop", "crash", "die", "start", "hang", "unreadable"}
    MaxFaults = 1
    Requests <- TwoEnvironments
    NoRequest = NoRequest
    AllEnvs = AllEnvs
    Legacy = FALSE
    PidReuse = TRUE
    Within <- FirstInSecond
    f1 = f1
    f2 = f2
    dev = dev
    prod = prod
    q1 = q1
    q2 = q2
    q3 = q3
    q4 = q4
SYMMETRY FullSymmetry
INVARIANTS
    TypeOK
    UniqueSessions
    WholeSessions
PROPERTIES
    ScopeRespect
