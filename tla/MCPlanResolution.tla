-------------------------- MODULE MCPlanResolution --------------------------
(***************************************************************************)
(* Files for TLC: every graph of three environments, every inheritance of  *)
(* settings along two of these graphs, and every small fault in a list of  *)
(* forwards or in the entries of the file.                                 *)
(***************************************************************************)
EXTENDS PlanResolution, TLC

CONSTANTS NoNameHere, EmptyHere, UnsetHere

MCNames == {"a", "b", "c", "x"}     \* x is never defined
MCForwardNames == {"a", "b", "c", "f", "g"}
MCFields == {"namespace", "context", "bindAddress"}
MCValues == {"0", "a", "b", "c", "f"}

Set(namespace, bindAddress) ==
    [f \in MCFields |->
        CASE f = "namespace" -> namespace
          [] f = "bindAddress" -> bindAddress
          [] OTHER -> UnsetHere]
Defaults == Set("0", UnsetHere)

Ports(locals) ==
    [k \in DOMAIN locals |-> [local |-> locals[k], bindAddress |-> UnsetHere]]
MakeForward(name, namespace, detach, locals) ==
    [name |-> name, namespace |-> namespace, context |-> UnsetHere,
     detach |-> detach, ports |-> Ports(locals)]

\* lists: an empty set for a missing `forwards`, or the one list.
MakeEntry(name, extends, settings, production, lists, wellFormed) ==
    [name |-> name, listed |-> lists # {}, wellFormed |-> wellFormed,
     env |-> [extends |-> extends, settings |-> settings, production |-> production,
              forwards |-> IF lists = {} THEN <<>> ELSE CHOOSE l \in lists : TRUE]]

Files(defaults, first, second, third) ==
    [defaults : defaults, environments : first \X second \X third]

\* Who extends whom, and which of them are production.
Node(n) ==
    {MakeEntry(n, x, Set(UnsetHere, UnsetHere), p, l, TRUE) :
        x \in MCNames \cup {NoNameHere}, p \in BOOLEAN,
        l \in {{}} \cup {{<<MakeForward(n, UnsetHere, d, <<1>>)>>} : d \in BOOLEAN}}
Graphs == Files({Defaults}, Node("a"), Node("b"), Node("c"))

\* c extends b or a, which b extends; b may set its namespace to nothing.
Heir(n, parents, namespaces, lists) ==
    {MakeEntry(n, x, Set(ns, b), FALSE, l, TRUE) :
        x \in parents, ns \in {UnsetHere, n} \cup namespaces, b \in {UnsetHere, n},
        l \in {{<<MakeForward(n, UnsetHere, TRUE, <<1>>)>>}} \cup lists}
Heirs ==
    Files({Defaults, Set(UnsetHere, "0")},
          Heir("a", {NoNameHere}, {}, {}),
          Heir("b", {"a"}, {EmptyHere}, {{}}),
          Heir("c", {"a", "b"}, {}, {{}, {<<MakeForward("c", "f", TRUE, <<1>>)>>}}))

\* What may be wrong with a list of forwards, and with the entries of a file.
Lists ==
    LET One == {MakeForward(n, UnsetHere, d, l) :
                n \in {"f", "g", EmptyHere}, d \in BOOLEAN,
                l \in {<<>>, <<0>>, <<1>>, <<1, 2>>, <<1, 1>>}}
    IN {<<f>> : f \in One} \cup (One \X One)
OneList ==
    [defaults : {Defaults}, environments :
        {<<MakeEntry("a", NoNameHere, Set(UnsetHere, UnsetHere), p, {l}, TRUE)>> :
            p \in BOOLEAN, l \in Lists}]

SomeLists ==
    LET F(n, locals) == MakeForward(n, UnsetHere, TRUE, locals) IN
    {{}, {<<>>}, {<<F("f", <<1>>)>>}, {<<F("g", <<2>>)>>}, {<<F("f", <<1>>), F("g", <<2>>)>>}}
Misplaced ==
    {MakeEntry(n, x, Set(UnsetHere, UnsetHere), FALSE, l, w) :
        n \in {"a", "b", EmptyHere}, x \in {NoNameHere, EmptyHere, "a"},
        l \in SomeLists, w \in BOOLEAN}
EmptyOverrides ==
    {e \in Misplaced : e.listed /\ e.env.forwards = <<>> /\ e.env.extends # NoNameHere}
TwoEntries(entries) == [defaults : {Defaults}, environments : entries \X entries]

\* Without and with environments that give an empty list where they extend one.
AllFiles == Graphs \cup Heirs \cup OneList \cup TwoEntries(Misplaced \ EmptyOverrides)
OverridingFiles == TwoEntries(Misplaced)
=============================================================================
