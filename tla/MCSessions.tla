----------------------------- MODULE MCSessions -----------------------------
(***************************************************************************)
(* Small instances of Sessions for TLC: the command lines that may be      *)
(* given in each run, and the symmetry of the process identifiers.         *)
(***************************************************************************)
EXTENDS Sessions

CONSTANTS f1, f2, dev, prod, q1, q2, q3, q4

Up(cfg, env, plan, daemon) ==
    [op |-> "up", cfg |-> cfg, env |-> env, plan |-> plan, daemon |-> daemon, skip |-> FALSE]
UpAtOnce(cfg, env, plan) == [Up(cfg, env, plan, TRUE) EXCEPT !.skip = TRUE]
Down(cfg, env) ==
    [op |-> "down", cfg |-> cfg, env |-> env, plan |-> <<>>, daemon |-> FALSE, skip |-> FALSE]

Everything(cfg, env, plans) ==
    {Up(cfg, env, p, d) : p \in plans, d \in BOOLEAN} \cup {Down(cfg, env)}

\* One configuration with two environments that share the port q2; a plan
\* changes when the configuration is edited between two runs, and may be empty.
OneConfig ==
    Everything(f1, dev, {<<q1, q2>>, <<q3>>}) \cup Everything(f1, prod, {<<q2>>, <<>>})
        \cup {Down(f1, AllEnvs)}

\* The same, and some commands do not wait for their ports to open.
OneConfigAtOnce ==
    OneConfig \cup {UpAtOnce(f1, dev, <<q1, q2>>), UpAtOnce(f1, prod, <<q2>>)}

\* Two environments that share no port, one with two forwards, one with an `up`
\* of each kind.
TwoEnvironments ==
    {Up(f1, dev, <<q1, q2>>, FALSE), Up(f1, prod, <<q3>>, TRUE), Down(f1, dev)}

\* One environment with two forwards, brought up attached, and stopped.
AttachedDev == {Up(f1, dev, <<q1, q2>>, FALSE), Down(f1, dev)}

\* Environments that do not share a port, brought up attached, and stopped.
Attached ==
    {Up(f1, dev, <<q1>>, FALSE), Up(f1, prod, <<q2>>, FALSE), Down(f1, dev)}

\* An environment whose session an older version has recorded.
DevOnly == Everything(f1, dev, {<<q1>>})

\* No port mapping is found in another's text; or q1's is found in q2's, as
\* 432:80 is in 5432:80.
Itself == {<<q, q>> : q \in Ports}
FirstInSecond == Itself \cup {<<q1, q2>>}

PidSymmetry == Permutations(Pids)
FullSymmetry == Permutations(Pids) \cup Permutations(Cmds)
=============================================================================
