--------------------------- MODULE PlanResolution ---------------------------
(***************************************************************************)
(* BuildResolvedPlan (src/runtime/resolved_plan.cpp) on a configuration    *)
(* that has been loaded: environments inherit settings, guards and         *)
(* forwards from the one they extend.  Both recursions are unfolded: a     *)
(* step is a call, or what a call does before it returns.                  *)
(*                                                                         *)
(* `plan` asks for all environments or for one, `up` for one; `down` does  *)
(* not resolve a plan, it goes by what the state file records.             *)
(***************************************************************************)
EXTENDS Configuration

VARIABLES
    asked,      \* environments to resolve, or what is left of them
    calls,      \* calls of ResolveEnvironmentRecursive that have not returned
    walk,       \* where ResolveForwardDefinitions looks, for the last call
    cache,      \* what has been resolved: a function on names
    plan,       \* names of the environments in the plan
    planErrors, \* <<kind, where>>
    planStage

planVars == <<asked, calls, walk, cache, plan, planErrors, planStage>>
vars == <<configVars, planVars>>

Init ==
    /\ LoadInit
    /\ asked = {}
    /\ calls = <<>>
    /\ walk = NoName
    /\ cache = [n \in {} |-> Empty]
    /\ plan = {}
    /\ planErrors = {}
    /\ planStage = "idle"

\* A command uses only what LoadConfigFromFile has accepted.
Loads == Load /\ UNCHANGED planVars

\* The caller's filter: none, or one name.  Without one, up takes the first
\* environment, whichever that is.
AskAll ==
    /\ stage = "accepted"
    /\ planStage = "idle"
    /\ planStage' = "resolve"
    /\ asked' = Defined
    /\ UNCHANGED <<configVars, calls, walk, cache, plan, planErrors>>

AskOne(n) ==
    /\ stage = "accepted"
    /\ planStage = "idle"
    /\ IF n \in Defined
       THEN planStage' = "resolve" /\ asked' = {n} /\ UNCHANGED planErrors
       ELSE planStage' = "failed" /\ planErrors' = {<<"target", n>>} /\ UNCHANGED asked
    /\ UNCHANGED <<configVars, calls, walk, cache, plan>>

-----------------------------------------------------------------------------
(* What is inherited.                                                      *)

Or(value, fallback) == IF value # Unset THEN value ELSE fallback

\* Mutant: the other way round.
MergeBaseWins(base, override) == [f \in Fields |-> Or(base[f], override[f])]

MergeTargetDefaults(base, override) == [f \in Fields |-> Or(override[f], base[f])]

\* Mutant: an environment's own guard replaces what it inherits.
OwnGuardOnly(base, override) == override

MergeEnvironmentGuards(base, override) == base \/ override

ResolveForwards(forwards, settings) ==
    [i \in DOMAIN forwards |->
        [name |-> forwards[i].name,
         detach |-> forwards[i].detach,
         context |-> Or(forwards[i].context, settings["context"]),
         namespace |-> Or(Or(forwards[i].namespace, settings["namespace"]), Empty),
         ports |->
            [k \in DOMAIN forwards[i].ports |->
                [local |-> forwards[i].ports[k].local,
                 bindAddress |-> Or(forwards[i].ports[k].bindAddress, settings["bindAddress"])]]]]

\* A namespace that is missing or empty; a foreground forward in production.
ResolvedErrors(n, env) ==
    {<<k, n>> : k \in {k \in {"namespace", "detach"} :
        \E i \in DOMAIN env.forwards :
            \/ k = "namespace" /\ env.forwards[i].namespace = Empty
            \/ k = "detach" /\ env.production /\ ~env.forwards[i].detach}}

-----------------------------------------------------------------------------
(* ResolveEnvironmentRecursive.                                            *)

Current == calls[Len(calls)]
Resolving == {calls[i] : i \in DOMAIN calls}    \* `visiting`

HasParent(n) == Parent(n) # NoName

\* A call for the parent that comes back without an environment.
ParentErrors(n) ==
    IF ~HasParent(n) THEN {}
    ELSE {<<"cyclic", Parent(n)>> : x \in Resolving \cap {Parent(n)}}
            \cup {<<"unknown", Parent(n)>> : x \in {Parent(n)} \ Defined}

Enter(n) ==
    /\ calls' = Append(calls, n)
    /\ UNCHANGED <<configVars, asked, walk, cache, plan, planErrors, planStage>>

EnterTarget ==
    /\ planStage = "resolve"
    /\ calls = <<>>
    /\ \E n \in asked : n \notin DOMAIN cache /\ Enter(n)

EnterParent ==
    /\ planStage = "resolve"
    /\ calls # <<>>
    /\ walk = NoName
    /\ HasParent(Current)
    /\ Parent(Current) \notin DOMAIN cache
    /\ ParentErrors(Current) = {}
    /\ Enter(Parent(Current))

\* The parent, if any, has been dealt with; ResolveForwardDefinitions begins.
SeekForwards ==
    /\ planStage = "resolve"
    /\ calls # <<>>
    /\ walk = NoName
    /\ HasParent(Current) => Parent(Current) \in DOMAIN cache \/ ParentErrors(Current) # {}
    /\ walk' = Current
    /\ planErrors' = planErrors \cup ParentErrors(Current)
    /\ UNCHANGED <<configVars, asked, calls, cache, plan, planStage>>

\* It calls itself for the parent.
SeekInParent ==
    /\ walk # NoName
    /\ config[walk].forwards = <<>>
    /\ Parent(walk) \in Defined
    /\ walk' = Parent(walk)
    /\ UNCHANGED <<configVars, asked, calls, cache, plan, planErrors, planStage>>

\* What the current call resolves to.
Effective ==
    LET env == config[Current]
        inherits == HasParent(Current) /\ Parent(Current) \in DOMAIN cache
        settings == MergeTargetDefaults(
            IF inherits THEN cache[Parent(Current)].settings ELSE doc.defaults, env.settings)
        production == MergeEnvironmentGuards(
            IF inherits THEN cache[Parent(Current)].production ELSE FALSE, env.production)
    IN [settings |-> settings, production |-> production,
        forwards |-> ResolveForwards(config[walk].forwards, settings)]

\* Mutant: the environment stays in `visiting`.
ResolveKeepsVisiting ==
    /\ walk # NoName
    /\ config[walk].forwards # <<>> \/ Parent(walk) \notin Defined
    /\ cache' = [n \in DOMAIN cache \cup {Current} |->
                    IF n \in DOMAIN cache THEN cache[n] ELSE Effective]
    /\ planErrors' = planErrors \cup ResolvedErrors(Current, Effective)
    /\ walk' = NoName
    /\ UNCHANGED <<configVars, asked, calls, plan, planStage>>

Resolve ==
    /\ walk # NoName
    /\ config[walk].forwards # <<>> \/ Parent(walk) \notin Defined
    /\ cache' = [n \in DOMAIN cache \cup {Current} |->
                    IF n \in DOMAIN cache THEN cache[n] ELSE Effective]
    /\ planErrors' = planErrors \cup ResolvedErrors(Current, Effective)
    /\ calls' = SubSeq(calls, 1, Len(calls) - 1)
    /\ walk' = NoName
    /\ UNCHANGED <<configVars, asked, plan, planStage>>

AddToPlan ==
    /\ planStage = "resolve"
    /\ calls = <<>>
    /\ \E n \in asked \cap DOMAIN cache :
        /\ plan' = plan \cup {n}
        /\ asked' = asked \ {n}
    /\ UNCHANGED <<configVars, calls, walk, cache, planErrors, planStage>>

Complete ==
    /\ planStage = "resolve"
    /\ calls = <<>>
    /\ asked = {}
    /\ planStage' = IF planErrors = {} THEN "planned" ELSE "failed"
    /\ UNCHANGED <<configVars, asked, calls, walk, cache, plan, planErrors>>

Resolves ==
    \/ EnterTarget \/ EnterParent \/ SeekForwards \/ SeekInParent
    \/ Resolve \/ AddToPlan \/ Complete

Next == Loads \/ AskAll \/ (\E n \in Names : AskOne(n)) \/ Resolves

Spec == Init /\ [][Next]_vars

\* A command runs on.
FairSpec == Spec /\ WF_vars(Next)

-----------------------------------------------------------------------------
(* What inheritance means, without following it: the line of an            *)
(* environment are the environments that every set with it contains that   *)
(* is closed under `extends`.                                              *)

Line(n) ==
    {a \in Defined : \A S \in SUBSET Defined :
        n \in S /\ (\A m \in S : HasParent(m) => Parent(m) \in S) => a \in S}

\* Of some environments of one line, the one that inherits from the others.
Nearest(X) == CHOOSE a \in X : X \subseteq Line(a)

Setting(n, f) ==
    LET X == {a \in Line(n) : config[a].settings[f] # Unset} IN
    IF X = {} THEN doc.defaults[f] ELSE config[Nearest(X)].settings[f]

\* The entry that the environment was parsed from has a list of forwards, be it
\* an empty one.
Gives(n) ==
    \E i \in DOMAIN doc.environments :
        LET e == doc.environments[i] IN e.name = n /\ e.env = config[n] /\ e.listed

Listed(n) ==
    LET X == {a \in Line(n) : Gives(a)} IN
    IF X = {} THEN <<>> ELSE config[Nearest(X)].forwards

Production(n) == \E a \in Line(n) : config[a].production

Inherited(n) ==
    LET settings == [f \in Fields |-> Setting(n, f)] IN
    [settings |-> settings, production |-> Production(n),
     forwards |-> ResolveForwards(Listed(n), settings)]

\* No environment gives an empty list to inherit none of another one's forwards.
NoEmptyOverrides ==
    \A d \in Documents : \A i \in DOMAIN d.environments :
        LET e == d.environments[i] IN
        e.listed /\ e.env.forwards = <<>> => e.env.extends = NoName

\* The types of the plan's own variables.  A call is in progress once, for a
\* defined environment that is not resolved yet, and each call but the first
\* is for the parent of the one before (ResolveEnvironmentRecursive).
PlanTypeOK ==
    /\ asked \subseteq Defined /\ plan \subseteq DOMAIN cache
    /\ calls \in Seq(Defined \ DOMAIN cache)
    /\ \A i, j \in DOMAIN calls : calls[i] = calls[j] => i = j
    /\ \A i \in 1..(Len(calls) - 1) : Parent(calls[i]) = calls[i + 1]
    /\ walk \in Defined \cup {NoName}
    /\ DOMAIN cache \subseteq Defined
    /\ \A n \in DOMAIN cache :
        /\ cache[n].settings \in Settings
        /\ cache[n].production \in BOOLEAN
    /\ planStage \in {"idle", "resolve", "planned", "failed"}

\* An accepted configuration never fails for its graph when it is resolved:
\* the loader has found every cycle and every unknown parent already
\* (ValidateEnvironmentExtends against ResolveEnvironmentRecursive).
LoaderSuffices ==
    \A n \in Names \cup {Empty} : {<<"cyclic", n>>, <<"unknown", n>>} \cap planErrors = {}

\* An environment resolves to the nearest value of its line for each setting,
\* to production if any of its line is, and to the nearest list of forwards
\* that the file gives, whatever has been asked for and cached in which order
\* (MergeTargetDefaults, MergeEnvironmentGuards, ResolveForwardDefinitions;
\* docs/config-schema.md: "Lists are replaced, not merged").
InheritanceCorrect == \A n \in DOMAIN cache : cache[n] = Inherited(n)

\* No forward of a plan stays in the foreground if its environment, or any it
\* inherits from, is a production one (claim
\* production-detach-revalidated-after-extends: "inherited foreground
\* forwards cannot bypass allowProduction safety").
ProductionDetached ==
    planStage = "planned" => \A n \in plan : Production(n) =>
        \A i \in DOMAIN cache[n].forwards : cache[n].forwards[i].detach

\* No environment of a plan listens twice on a port, whoever has listed its
\* forwards (docs/config-schema.md: "Local port collisions are forbidden
\* post-merge").
PortsDistinctPostMerge ==
    planStage = "planned" => \A n \in plan : DistinctPorts(cache[n].forwards)

\* Every load and every plan comes to an end: neither recursion runs in a
\* circle.
PlanEnds == stage = "parse" ~> stage = "rejected" \/ planStage \in {"planned", "failed"}
=============================================================================
