--------------------------- MODULE Configuration ---------------------------
(***************************************************************************)
(* LoadConfigFromFile (src/config/loader.cpp): a file's environments are   *)
(* parsed one by one, and then validated: each by itself, the graph of     *)
(* their `extends` by a depth-first search, and their forwards together.   *)
(* No step stops at an error; a configuration comes out if there was none. *)
(*                                                                         *)
(* What only concerns the text (unknown keys, types, ranges, enumerations, *)
(* the other blocks of the file) is one bit of an entry, wellFormed.       *)
(***************************************************************************)
EXTENDS Naturals, Sequences

CONSTANTS
    Names,          \* of environments
    ForwardNames,
    Fields,         \* of the settings: namespace, ..., and one for each label
    Values,         \* of these
    NoName,         \* no `extends`
    Empty,          \* the empty string
    Unset,          \* an optional without a value
    Documents       \* what the file may contain

Strings == Values \cup {Empty}
Settings == [Fields -> Strings \cup {Unset}]
Mapping == [local : Nat, bindAddress : Strings \cup {Unset}]
Forward ==
    [name : ForwardNames \cup {Empty}, namespace : Strings \cup {Unset},
     context : Strings \cup {Unset}, detach : BOOLEAN, ports : Seq(Mapping)]
Environment ==
    [extends : Names \cup {NoName, Empty}, settings : Settings,
     production : BOOLEAN, forwards : Seq(Forward)]

\* An environment as it is written; `forwards` may be missing altogether, which
\* is parsed like an empty list.
Entry ==
    {e \in [name : Names \cup {Empty}, env : Environment, listed : BOOLEAN, wellFormed : BOOLEAN] :
        e.listed \/ e.env.forwards = <<>>}

ASSUME NamesAssumption ==
    /\ NoName \notin Names \cup {Empty}
    /\ Empty \notin Names \cup ForwardNames
    /\ Unset \notin Strings
    /\ {"namespace", "context", "bindAddress"} \subseteq Fields
ASSUME DocumentsAssumption ==
    \A d \in Documents : d.defaults \in Settings /\ d.environments \in Seq(Entry)

ErrorKinds ==
    {"malformed", "unnamed", "duplicate", "forwards", "name", "ports", "local", "detach",
     "self", "unknown", "cycle", "shared"}

VARIABLES
    doc,        \* the file
    rest,       \* its entries that are still to be parsed
    config,     \* what has been parsed: a function on names
    errors,     \* <<kind, where>>
    stage,
    visit,      \* kUnvisited, kVisiting, kVisited
    stack       \* of the calls of visit

configVars == <<doc, rest, config, errors, stage, visit, stack>>

LoadInit ==
    /\ doc \in Documents
    /\ rest = doc.environments
    /\ config = [n \in {} |-> Empty]
    /\ errors = {}
    /\ stage = "parse"
    /\ visit = [n \in Names |-> "unvisited"]
    /\ stack = <<>>

Defined == DOMAIN config
Parent(n) == config[n].extends

\* What visit follows: `extends` if it names another environment.
Follows(n) == Parent(n) \in Defined \ {n}

-----------------------------------------------------------------------------
(* Parsing.                                                                *)

ParseErrors(e) ==
    {<<kind, e.name>> : kind \in
        {k \in {"malformed", "forwards"} :
            \/ k = "malformed" /\ ~e.wellFormed
            \/ k = "forwards" /\ ~e.listed /\ e.env.extends \in {NoName, Empty}}}

SkipUnnamed ==
    /\ stage = "parse"
    /\ rest # <<>>
    /\ Head(rest).name = Empty
    /\ errors' = errors \cup {<<"unnamed", Empty>>}
    /\ rest' = Tail(rest)
    /\ UNCHANGED <<doc, config, stage, visit, stack>>

\* A second environment of the same name is parsed and dropped.
ParseDuplicate ==
    /\ stage = "parse"
    /\ rest # <<>>
    /\ Head(rest).name \in Defined
    /\ errors' = errors \cup ParseErrors(Head(rest)) \cup {<<"duplicate", Head(rest).name>>}
    /\ rest' = Tail(rest)
    /\ UNCHANGED <<doc, config, stage, visit, stack>>

ParseEnvironment ==
    /\ stage = "parse"
    /\ rest # <<>>
    /\ Head(rest).name \in Names \ Defined
    /\ config' = [n \in Defined \cup {Head(rest).name} |->
                    IF n \in Defined THEN config[n] ELSE Head(rest).env]
    /\ errors' = errors \cup ParseErrors(Head(rest))
    /\ rest' = Tail(rest)
    /\ UNCHANGED <<doc, stage, visit, stack>>

-----------------------------------------------------------------------------
(* Validation.                                                             *)

\* The port mappings of a list of forwards, by their places.
Places(forwards) == UNION {{i} \X DOMAIN forwards[i].ports : i \in DOMAIN forwards}
LocalPort(forwards, place) == forwards[place[1]].ports[place[2]].local

DistinctPorts(forwards) ==
    \A p, q \in Places(forwards) : LocalPort(forwards, p) = LocalPort(forwards, q) => p = q

DistinctNames(forwards) ==
    \A i, j \in DOMAIN forwards : forwards[i].name = forwards[j].name => i = j

\* Mutant: only the ports of one forward are compared.
FlawsWithinForwards(env) ==
    LET forwards == env.forwards IN
    {k \in {"name", "ports", "local", "detach"} :
        \/ k = "name" /\ \/ \E i \in DOMAIN forwards : forwards[i].name = Empty
                         \/ ~DistinctNames(forwards)
        \/ k = "ports" /\ \E i \in DOMAIN forwards : forwards[i].ports = <<>>
        \/ k = "local" /\ \/ \E p \in Places(forwards) : LocalPort(forwards, p) = 0
                          \/ \E i \in DOMAIN forwards : ~DistinctPorts(<<forwards[i]>>)
        \/ k = "detach" /\ env.production /\ \E i \in DOMAIN forwards : ~forwards[i].detach}

\* ValidateEnvironment.
Flaws(env) ==
    LET forwards == env.forwards IN
    {k \in {"name", "ports", "local", "detach"} :
        \/ k = "name" /\ \/ \E i \in DOMAIN forwards : forwards[i].name = Empty
                         \/ ~DistinctNames(forwards)
        \/ k = "ports" /\ \E i \in DOMAIN forwards : forwards[i].ports = <<>>
        \/ k = "local" /\ \/ \E p \in Places(forwards) : LocalPort(forwards, p) = 0
                          \/ ~DistinctPorts(forwards)
        \/ k = "detach" /\ env.production /\ \E i \in DOMAIN forwards : ~forwards[i].detach}

\* Mutant: a parent that does not exist is taken for none.
SelfExtends(n) == {<<"self", n>> : x \in {Parent(n)} \cap {n}}

\* The first loop of ValidateEnvironmentExtends.
ExtendsErrors(n) ==
    {<<"self", n>> : x \in {Parent(n)} \cap {n}}
        \cup {<<"unknown", n>> : x \in {Parent(n)} \ (Defined \cup {NoName})}

Validate ==
    /\ stage = "parse"
    /\ rest = <<>>
    /\ errors' = errors \cup UNION {(Flaws(config[n]) \X {n}) \cup ExtendsErrors(n) : n \in Defined}
    /\ stage' = "extends"
    /\ UNCHANGED <<doc, rest, config, visit, stack>>

-----------------------------------------------------------------------------
(* The depth-first search.  The names are visited in their order; any      *)
(* order is the order of some names.                                       *)

Top == stack[Len(stack)]

Begin(n) ==
    /\ visit' = [visit EXCEPT ![n] = "visiting"]
    /\ stack' = Append(stack, n)
    /\ UNCHANGED <<doc, rest, config, errors, stage>>

End ==
    /\ visit' = [visit EXCEPT ![Top] = "visited"]
    /\ stack' = SubSeq(stack, 1, Len(stack) - 1)
    /\ UNCHANGED <<doc, rest, config, stage>>

VisitNext ==
    /\ stage = "extends"
    /\ stack = <<>>
    /\ \E n \in Defined : visit[n] = "unvisited" /\ Begin(n)

VisitParent ==
    /\ stage = "extends"
    /\ stack # <<>>
    /\ Follows(Top)
    /\ visit[Parent(Top)] = "unvisited"
    /\ Begin(Parent(Top))

\* Mutant: whatever has been seen before counts.
SeenBefore(n) == visit[n] # "unvisited"

\* The parent is one of those whose own visit has led here.
Visiting(n) == visit[n] = "visiting"

\* Mutant: no error.
CycleUnnoticed ==
    /\ stage = "extends"
    /\ stack # <<>>
    /\ Follows(Top)
    /\ Visiting(Parent(Top))
    /\ UNCHANGED errors
    /\ End

FindCycle ==
    /\ stage = "extends"
    /\ stack # <<>>
    /\ Follows(Top)
    /\ Visiting(Parent(Top))
    /\ errors' = errors \cup {<<"cycle", Top>>}
    /\ End

\* Mutant: the name stays on the stack.
LeaveOnStack ==
    /\ stage = "extends"
    /\ stack # <<>>
    /\ Follows(Top) => visit[Parent(Top)] = "visited"
    /\ visit[Top] = "visiting"
    /\ visit' = [visit EXCEPT ![Top] = "visited"]
    /\ UNCHANGED <<doc, rest, config, errors, stage, stack>>

\* No parent to follow, or one whose visit is over.
EndVisit ==
    /\ stage = "extends"
    /\ stack # <<>>
    /\ Follows(Top) => visit[Parent(Top)] = "visited"
    /\ UNCHANGED errors
    /\ End

\* ValidateGlobalForwardNames: two environments, or one twice.
SharedNames ==
    {f \in ForwardNames : \E n, m \in Defined :
        \E i \in DOMAIN config[n].forwards, j \in DOMAIN config[m].forwards :
            /\ <<n, i>> # <<m, j>>
            /\ config[n].forwards[i].name = f
            /\ config[m].forwards[j].name = f}

Finish ==
    /\ stage = "extends"
    /\ stack = <<>>
    /\ \A n \in Defined : visit[n] = "visited"
    /\ errors' = errors \cup {"shared"} \X SharedNames
    /\ stage' = IF errors' = {} THEN "accepted" ELSE "rejected"
    /\ UNCHANGED <<doc, rest, config, visit, stack>>

Load ==
    \/ SkipUnnamed \/ ParseDuplicate \/ ParseEnvironment \/ Validate
    \/ VisitNext \/ VisitParent \/ FindCycle \/ EndVisit \/ Finish

LoadSpec == LoadInit /\ [][Load]_configVars

-----------------------------------------------------------------------------
\* The types, and what the search knows: the names on the stack are the ones
\* it is visiting, each once and each the parent of the one before
\* (ValidateEnvironmentExtends).
ConfigTypeOK ==
    /\ doc \in Documents
    /\ rest \in Seq(Entry)
    /\ Defined \subseteq Names /\ config \in [Defined -> Environment]
    /\ errors \subseteq ErrorKinds \X (Names \cup ForwardNames \cup {Empty})
    /\ stage \in {"parse", "extends", "accepted", "rejected"}
    /\ visit \in [Names -> {"unvisited", "visiting", "visited"}]
    /\ stack \in Seq(Defined)
    /\ \A n \in Names : Visiting(n) <=> \E i \in DOMAIN stack : stack[i] = n
    /\ \A i, j \in DOMAIN stack : stack[i] = stack[j] => i = j
    /\ \A i \in 1..(Len(stack) - 1) : Parent(stack[i]) = stack[i + 1]

\* Environments that extend one another in a circle.
Circle(S) == S # {} /\ S \subseteq Defined /\ S = {Parent(n) : n \in S}

\* No accepted configuration has a circle, and every parent in it exists, so
\* that plan resolution, which follows `extends` without a bound of its own,
\* comes to an end (ValidateEnvironmentExtends).
AcceptedAcyclic ==
    stage = "accepted" =>
        /\ \A n \in Defined : Parent(n) \in Defined \cup {NoName}
        /\ \A S \in SUBSET Defined : ~Circle(S)

\* A reported cycle is one: the environment it is reported for lies on a
\* circle.  Environments that share an ancestor, or that lead into a circle
\* from outside, are not blamed.
CycleErrorsReal ==
    \A n \in Defined : <<"cycle", n>> \in errors =>
        \E S \in SUBSET Defined : n \in S /\ Circle(S)
=============================================================================
