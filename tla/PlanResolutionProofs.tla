------------------------ MODULE PlanResolutionProofs ------------------------
(***************************************************************************)
(* What is proved of loading and resolving a configuration, for every set  *)
(* of names and every content of the file: the loader's depth-first search *)
(* is sound and complete, and what it accepts resolves without an error of *)
(* its graph and without a foreground forward in production.               *)
(***************************************************************************)
EXTENDS PlanResolution, TLAPS, SequenceTheorems

-----------------------------------------------------------------------------
(* Sequences.                                                              *)

LEMMA Pushed ==
    ASSUME NEW S, NEW s \in Seq(S), NEW x \in S
    PROVE  /\ Append(s, x) \in Seq(S)
           /\ Len(Append(s, x)) = Len(s) + 1
           /\ \A i \in 1..Len(s) : Append(s, x)[i] = s[i]
           /\ Append(s, x)[Len(s) + 1] = x
    OBVIOUS

LEMMA Popped ==
    ASSUME NEW S, NEW T, NEW s \in Seq(S), s # <<>>,
           \A i \in 1..(Len(s) - 1) : s[i] \in T
    PROVE  /\ SubSeq(s, 1, Len(s) - 1) \in Seq(T)
           /\ Len(SubSeq(s, 1, Len(s) - 1)) = Len(s) - 1
           /\ \A i \in 1..(Len(s) - 1) : SubSeq(s, 1, Len(s) - 1)[i] = s[i]
           /\ Len(s) \in Nat \ {0} /\ s[Len(s)] \in S
<1>1. Len(s) \in Nat \ {0} /\ \A i \in 1..Len(s) : s[i] \in S
    OBVIOUS
<1> DEFINE n == Len(s) - 1
<1>2. n \in Int /\ n \in Nat /\ 1 \in Int /\ \A i \in 1..n : s[i] \in T
    BY <1>1
<1> HIDE DEF n
<1>3. /\ SubSeq(s, 1, n) \in Seq(T)
      /\ Len(SubSeq(s, 1, n)) = IF 1 <= n THEN n - 1 + 1 ELSE 0
      /\ \A i \in 1..(n - 1 + 1) : SubSeq(s, 1, n)[i] = s[1 + i - 1]
    BY <1>2, SubSeqProperties
<1>4. Len(SubSeq(s, 1, n)) = n /\ \A i \in 1..n : SubSeq(s, 1, n)[i] = s[i]
    BY <1>2, <1>3
<1> QED
    BY <1>1, <1>3, <1>4 DEF n

-----------------------------------------------------------------------------
(* Loading.                                                                *)

\* Nothing is visited before all is parsed, and Validate has looked at all.
StageInv ==
    /\ stage = "parse" =>
        /\ stack = <<>>
        /\ visit = [n \in Names |-> "unvisited"]
        /\ \A n \in Names : <<"cycle", n>> \notin errors
    /\ stage # "parse" => \A n \in Defined :
        /\ Parent(n) = n => <<"self", n>> \in errors
        /\ Parent(n) \notin Defined \cup {NoName} => <<"unknown", n>> \in errors
    /\ stage = "accepted" => errors = {} /\ \A n \in Defined : visit[n] = "visited"

\* As long as there is no error, nothing that has been visited leads back to
\* what has not.
SearchInv ==
    errors = {} =>
        /\ \A n \in Defined : visit[n] = "visited" /\ Follows(n) => visit[Parent(n)] = "visited"
        /\ stage # "parse" => \A S \in SUBSET Defined :
            Circle(S) => \E n \in S : visit[n] # "visited"

LoadInv == ConfigTypeOK /\ StageInv /\ SearchInv /\ CycleErrorsReal

LEMMA LoadInitially == LoadInit => LoadInv
<1> SUFFICES ASSUME LoadInit PROVE LoadInv
    OBVIOUS
<1> USE NamesAssumption DEF LoadInit
<1>1. Defined = {} /\ config \in [Defined -> Environment]
    BY DEF Defined
<1>2. ConfigTypeOK
    BY <1>1, DocumentsAssumption DEF ConfigTypeOK, Visiting
<1>3. StageInv /\ SearchInv /\ CycleErrorsReal
    BY <1>1 DEF StageInv, SearchInv, CycleErrorsReal
<1> QED
    BY <1>2, <1>3 DEF LoadInv

\* A step of the parser.
LEMMA ParseErrorsType ==
    ASSUME NEW e \in Entry
    PROVE  /\ ParseErrors(e) \subseteq ErrorKinds \X (Names \cup ForwardNames \cup {Empty})
           /\ \A n \in Names : <<"cycle", n>> \notin ParseErrors(e)
    BY DEF ParseErrors, ErrorKinds, Entry

LEMMA ParseKeeps ==
    ASSUME LoadInv, SkipUnnamed \/ ParseDuplicate \/ ParseEnvironment
    PROVE  LoadInv'
<1> USE NamesAssumption DEF LoadInv
<1> DEFINE e == Head(rest)
<1>1. e \in Entry /\ rest' \in Seq(Entry)
    <2>1. rest \in Seq(Entry) /\ rest # <<>> /\ rest' = Tail(rest)
        BY DEF ConfigTypeOK, SkipUnnamed, ParseDuplicate, ParseEnvironment
    <2> QED
        BY <2>1, HeadTailProperties
<1>2. stage = "parse" /\ stage' = "parse" /\ stack = <<>> /\ stack' = <<>> /\ visit' = visit
      /\ doc' = doc
    BY DEF StageInv, SkipUnnamed, ParseDuplicate, ParseEnvironment
<1>3. errors' \subseteq ErrorKinds \X (Names \cup ForwardNames \cup {Empty})
      /\ \A n \in Names : <<"cycle", n>> \notin errors'
    <2>1. CASE SkipUnnamed
        BY <1>2, <2>1 DEF SkipUnnamed, ConfigTypeOK, StageInv, ErrorKinds
    <2>2. CASE ParseDuplicate
        <3>1. e.name \in Names /\ errors' = errors \cup ParseErrors(e) \cup {<<"duplicate", e.name>>}
            BY <2>2 DEF ParseDuplicate, ConfigTypeOK
        <3> HIDE DEF e
        <3> QED
            BY <1>1, <1>2, <3>1, ParseErrorsType DEF ConfigTypeOK, StageInv, ErrorKinds
    <2>3. CASE ParseEnvironment
        <3>1. errors' = errors \cup ParseErrors(e)
            BY <2>3 DEF ParseEnvironment
        <3> HIDE DEF e
        <3> QED
            BY <1>1, <1>2, <3>1, ParseErrorsType DEF ConfigTypeOK, StageInv, ErrorKinds
    <2> QED
        BY <2>1, <2>2, <2>3
<1>4. Defined' \subseteq Names /\ config' \in [Defined' -> Environment]
    <2>1. CASE UNCHANGED config
        BY <2>1 DEF ConfigTypeOK, Defined
    <2>2. CASE ParseEnvironment
        BY <1>1, <2>2 DEF ParseEnvironment, ConfigTypeOK, Defined, Entry
    <2> QED
        BY <2>1, <2>2 DEF SkipUnnamed, ParseDuplicate
<1>5. ConfigTypeOK'
    BY <1>1, <1>2, <1>3, <1>4 DEF ConfigTypeOK, StageInv, Visiting
<1>6. StageInv'
    BY <1>2, <1>3 DEF StageInv
<1>7. SearchInv' /\ CycleErrorsReal'
    BY <1>2, <1>3, <1>4 DEF SearchInv, CycleErrorsReal, StageInv
<1> QED
    BY <1>5, <1>6, <1>7

LEMMA ValidateKeeps == ASSUME LoadInv, Validate PROVE LoadInv'
<1> USE NamesAssumption DEF LoadInv
<1>1. stage = "parse" /\ stage' = "extends" /\ UNCHANGED <<doc, rest, config, visit, stack>>
      /\ stack = <<>> /\ visit = [n \in Names |-> "unvisited"]
    BY DEF Validate, StageInv
<1>2. Defined' = Defined /\ \A n \in Defined : Parent(n)' = Parent(n)
    BY <1>1 DEF Defined, Parent
<1>3. \A n \in Defined : Flaws(config[n]) \subseteq {"name", "ports", "local", "detach"}
    BY DEF Flaws
<1>4. \A n \in Defined : ExtendsErrors(n) \subseteq {"self", "unknown"} \X {n}
    BY DEF ExtendsErrors
<1> DEFINE found == UNION {(Flaws(config[n]) \X {n}) \cup ExtendsErrors(n) : n \in Defined}
<1>5. found \subseteq {"name", "ports", "local", "detach", "self", "unknown"} \X Defined
    BY <1>3, <1>4
<1>6. \A n \in Defined : ExtendsErrors(n) \subseteq found
    OBVIOUS
<1>7. errors' = errors \cup found
    BY DEF Validate
<1> HIDE DEF found
<1>8. errors' \subseteq ErrorKinds \X (Names \cup ForwardNames \cup {Empty})
      /\ \A n \in Names : <<"cycle", n>> \notin errors'
    BY <1>1, <1>5, <1>6, <1>7 DEF ConfigTypeOK, StageInv, ErrorKinds
<1>9. ConfigTypeOK'
    BY <1>1, <1>2, <1>8 DEF ConfigTypeOK, Visiting
<1>10. StageInv'
    <2>1. \A n \in Defined : ExtendsErrors(n) \subseteq errors'
        BY <1>6, <1>7
    <2>2. \A n \in Defined :
            /\ Parent(n) = n => <<"self", n>> \in errors'
            /\ Parent(n) \notin Defined \cup {NoName} => <<"unknown", n>> \in errors'
        BY <2>1 DEF ExtendsErrors
    <2> QED
        BY <1>1, <1>2, <2>2 DEF StageInv
<1>11. SearchInv'
    <2>1. \A n \in Defined : visit'[n] = "unvisited"
        BY <1>1 DEF ConfigTypeOK
    <2>2. \A S \in SUBSET Defined : Circle(S)' => \E n \in S : visit'[n] # "visited"
        BY <2>1 DEF Circle
    <2> QED
        BY <1>2, <2>1, <2>2 DEF SearchInv
<1>12. CycleErrorsReal'
    BY <1>2, <1>8 DEF CycleErrorsReal, ConfigTypeOK
<1> QED
    BY <1>9, <1>10, <1>11, <1>12
\* A step that leaves the configuration alone.
UnchangedGraph ==
    /\ Defined' = Defined
    /\ \A m \in Defined : Parent(m)' = Parent(m) /\ (Follows(m)' <=> Follows(m))
    /\ \A S \in SUBSET Defined : Circle(S)' <=> Circle(S)

LEMMA SameGraph == ASSUME UNCHANGED config PROVE UnchangedGraph
    BY DEF UnchangedGraph, Defined, Parent, Follows, Circle

\* A step of the search.
LEMMA BeginKeeps ==
    ASSUME LoadInv, NEW n \in Defined, stage = "extends", visit[n] = "unvisited",
           stack # <<>> => Parent(Top) = n, Begin(n)
    PROVE  LoadInv'
<1> USE DEF LoadInv
<1>1. UNCHANGED <<doc, rest, config, errors, stage>>
      /\ visit' = [visit EXCEPT ![n] = "visiting"] /\ stack' = Append(stack, n)
    BY DEF Begin
<1>2. UnchangedGraph
    BY <1>1, SameGraph
<1>3. n \in Names /\ stack \in Seq(Defined) /\ Len(stack) \in Nat
    BY DEF ConfigTypeOK
<1>4. /\ stack' \in Seq(Defined)
      /\ Len(stack') = Len(stack) + 1
      /\ \A i \in 1..Len(stack) : stack'[i] = stack[i]
      /\ stack'[Len(stack) + 1] = n
    BY <1>1, <1>3, Pushed
<1>5. DOMAIN stack = 1..Len(stack) /\ DOMAIN stack' = 1..(Len(stack) + 1)
    BY <1>3, <1>4
<1>6. \A i \in DOMAIN stack : stack[i] # n
    BY <1>3 DEF ConfigTypeOK, Visiting
<1>7. \A m \in Names : Visiting(m)' <=> \E i \in DOMAIN stack' : stack'[i] = m
    <2> SUFFICES ASSUME NEW m \in Names
                 PROVE  Visiting(m)' <=> \E i \in DOMAIN stack' : stack'[i] = m
        OBVIOUS
    <2>1. CASE m = n
        BY <1>1, <1>3, <1>4, <1>5, <2>1 DEF Visiting, ConfigTypeOK
    <2>2. CASE m # n
        <3>1. Visiting(m)' <=> Visiting(m)
            BY <1>1, <2>2 DEF Visiting, ConfigTypeOK
        <3>2. (\E i \in DOMAIN stack' : stack'[i] = m) <=> \E i \in DOMAIN stack : stack[i] = m
            BY <1>3, <1>4, <1>5, <2>2
        <3> QED
            BY <3>1, <3>2 DEF ConfigTypeOK
    <2> QED
        BY <2>1, <2>2
<1>8. \A i, j \in DOMAIN stack' : stack'[i] = stack'[j] => i = j
    BY <1>3, <1>4, <1>5, <1>6 DEF ConfigTypeOK
<1>9. \A i \in 1..(Len(stack') - 1) : Parent(stack'[i]) = stack'[i + 1]
    BY <1>3, <1>4, <1>5 DEF ConfigTypeOK, Top
<1>10. ConfigTypeOK'
    <2>1. visit' \in [Names -> {"unvisited", "visiting", "visited"}]
        BY <1>1 DEF ConfigTypeOK
    <2>2. (\A i \in 1..(Len(stack) - 1) : Parent(stack[i]) = stack[i + 1])'
        BY <1>1, <1>9 DEF Parent
    <2> QED
        BY <1>1, <1>2, <1>4, <1>7, <1>8, <2>1, <2>2 DEF ConfigTypeOK, UnchangedGraph
<1>11. \A m \in Names : visit'[m] = "visited" <=> visit[m] = "visited"
    BY <1>1 DEF ConfigTypeOK
<1>12. StageInv' /\ CycleErrorsReal'
    BY <1>1, <1>2 DEF StageInv, CycleErrorsReal, UnchangedGraph
<1>13. SearchInv'
    BY <1>1, <1>2, <1>11 DEF SearchInv, UnchangedGraph, ConfigTypeOK
<1> QED
    BY <1>10, <1>12, <1>13

LEMMA EndType ==
    ASSUME LoadInv, stage = "extends", stack # <<>>, End,
           errors' \subseteq ErrorKinds \X (Names \cup ForwardNames \cup {Empty})
    PROVE  /\ ConfigTypeOK'
           /\ Top \in Defined /\ visit[Top] = "visiting"
           /\ visit' = [visit EXCEPT ![Top] = "visited"]
           /\ UNCHANGED <<config, stage>>
<1> USE DEF LoadInv
<1>1. UNCHANGED <<doc, rest, config, stage>>
      /\ visit' = [visit EXCEPT ![Top] = "visited"]
      /\ stack' = SubSeq(stack, 1, Len(stack) - 1)
    BY DEF End
<1>2. Defined' = Defined
    BY <1>1 DEF Defined
<1>3. stack \in Seq(Defined)
    BY DEF ConfigTypeOK
<1>4. /\ stack' \in Seq(Defined)
      /\ Len(stack') = Len(stack) - 1
      /\ \A i \in 1..(Len(stack) - 1) : stack'[i] = stack[i]
      /\ Len(stack) \in Nat \ {0} /\ Top \in Defined
    <2>1. \A i \in 1..(Len(stack) - 1) : stack[i] \in Defined
        BY <1>3
    <2> QED
        BY <1>1, <1>3, <2>1, Popped DEF Top
<1>5. DOMAIN stack = 1..Len(stack) /\ DOMAIN stack' = 1..(Len(stack) - 1)
    BY <1>3, <1>4
<1>6. Top \in Names /\ visit[Top] = "visiting"
    BY <1>4, <1>5 DEF ConfigTypeOK, Visiting, Top
<1>7. \A m \in Names : Visiting(m)' <=> \E i \in DOMAIN stack' : stack'[i] = m
    <2> SUFFICES ASSUME NEW m \in Names
                 PROVE  Visiting(m)' <=> \E i \in DOMAIN stack' : stack'[i] = m
        OBVIOUS
    <2>1. CASE m = Top
        <3>1. \A i \in DOMAIN stack' : stack'[i] # Top
            BY <1>4, <1>5 DEF ConfigTypeOK, Top
        <3> QED
            BY <1>1, <1>6, <2>1, <3>1 DEF Visiting, ConfigTypeOK
    <2>2. CASE m # Top
        <3>1. Visiting(m)' <=> Visiting(m)
            BY <1>1, <2>2 DEF Visiting, ConfigTypeOK
        <3>2. (\E i \in DOMAIN stack' : stack'[i] = m) <=> \E i \in DOMAIN stack : stack[i] = m
            BY <1>4, <1>5, <2>2 DEF Top
        <3> QED
            BY <3>1, <3>2 DEF ConfigTypeOK
    <2> QED
        BY <2>1, <2>2
<1>8. \A i, j \in DOMAIN stack' : stack'[i] = stack'[j] => i = j
    BY <1>4, <1>5 DEF ConfigTypeOK
<1>9. (\A i \in 1..(Len(stack) - 1) : Parent(stack[i]) = stack[i + 1])'
    <2>1. \A i \in 1..(Len(stack') - 1) : Parent(stack'[i]) = stack'[i + 1]
        BY <1>4, <1>5 DEF ConfigTypeOK
    <2> QED
        BY <1>1, <2>1 DEF Parent
<1>10. visit' \in [Names -> {"unvisited", "visiting", "visited"}]
    BY <1>1 DEF ConfigTypeOK
<1> QED
    BY <1>1, <1>2, <1>4, <1>6, <1>7, <1>8, <1>9, <1>10 DEF ConfigTypeOK

LEMMA EndVisitKeeps == ASSUME LoadInv, EndVisit PROVE LoadInv'
<1> USE DEF LoadInv
<1>1. stage = "extends" /\ stack # <<>> /\ End /\ UNCHANGED errors
      /\ (Follows(Top) => visit[Parent(Top)] = "visited")
    BY DEF EndVisit
<1>2. /\ ConfigTypeOK'
      /\ Top \in Defined /\ visit[Top] = "visiting"
      /\ visit' = [visit EXCEPT ![Top] = "visited"]
      /\ UNCHANGED <<config, stage>>
    BY <1>1, EndType DEF ConfigTypeOK
<1>3. UnchangedGraph
    BY <1>2, SameGraph
<1>4. StageInv' /\ CycleErrorsReal'
    BY <1>1, <1>2, <1>3 DEF StageInv, CycleErrorsReal, UnchangedGraph
<1>5. Defined \subseteq Names
    BY DEF ConfigTypeOK
<1>6. visit'[Top] = "visited" /\ \A m \in Names \ {Top} : visit'[m] = visit[m]
    BY <1>2, <1>5 DEF ConfigTypeOK
<1>7. ASSUME errors = {}, NEW m \in Defined, visit'[m] = "visited", Follows(m)
      PROVE  visit'[Parent(m)] = "visited"
    <2>1. Parent(m) \in Names
        BY <1>5, <1>7 DEF Follows
    <2>2. CASE m = Top
        BY <1>1, <1>5, <1>6, <1>7, <2>1, <2>2
    <2>3. CASE m # Top
        BY <1>5, <1>6, <1>7, <2>1, <2>3 DEF SearchInv
    <2> QED
        BY <2>2, <2>3
<1>8. ASSUME errors = {}, NEW S \in SUBSET Defined, Circle(S)
      PROVE  \E m \in S : visit'[m] # "visited"
    <2>1. PICK m \in S : visit[m] # "visited"
        BY <1>1, <1>8 DEF SearchInv
    <2>2. CASE m # Top
        BY <1>5, <1>6, <2>1, <2>2
    <2>3. CASE m = Top
        <3>1. PICK k \in S : Parent(k) = Top
            BY <1>8, <2>3 DEF Circle
        <3>2. k # Top
            BY <1>1, <1>2, <1>8, <3>1 DEF StageInv
        <3>3. Follows(k)
            BY <1>2, <3>1, <3>2 DEF Follows
        <3>4. visit[k] # "visited"
            BY <1>2, <1>8, <3>1, <3>3 DEF SearchInv
        <3> QED
            BY <1>5, <1>6, <3>2, <3>4
    <2> QED
        BY <2>2, <2>3
<1>9. SearchInv'
    BY <1>1, <1>3, <1>7, <1>8 DEF SearchInv, UnchangedGraph
<1> QED
    BY <1>2, <1>4, <1>9

\* Environments of which each extends the next, and the last one extends one
\* of them, contain a circle.
LEMMA ChainCloses ==
    ASSUME NEW s \in Seq(Defined), s # <<>>,
           \A i \in 1..(Len(s) - 1) : Parent(s[i]) = s[i + 1],
           NEW k \in 1..Len(s), s[k] = Parent(s[Len(s)])
    PROVE  \E S \in SUBSET Defined : s[Len(s)] \in S /\ Circle(S)
<1> DEFINE last == Len(s)
           S == {s[j] : j \in k..last}
           next(j) == IF j = last THEN k ELSE j + 1
<1>1. last \in Nat \ {0} /\ k \in 1..last /\ \A i \in 1..last : s[i] \in Defined
    OBVIOUS
<1>2. (\A i \in 1..(last - 1) : Parent(s[i]) = s[i + 1]) /\ s[k] = Parent(s[last])
    OBVIOUS
<1> HIDE DEF last
<1>3. s[last] \in S /\ S \subseteq Defined
    BY <1>1
<1>4. ASSUME NEW j \in k..last
      PROVE  Parent(s[j]) = s[next(j)] /\ next(j) \in k..last
    <2>1. j # last => j \in 1..(last - 1) /\ j + 1 \in k..last
        BY <1>1
    <2> QED
        BY <1>1, <1>2, <2>1
<1>5. ASSUME NEW j \in k..last, j # k
      PROVE  j - 1 \in k..last /\ next(j - 1) = j
    BY <1>1, <1>5
<1> HIDE DEF next
<1>6. S = {Parent(m) : m \in S}
    <2>1. ASSUME NEW m \in S PROVE Parent(m) \in S
        <3>1. PICK j \in k..last : m = s[j]
            OBVIOUS
        <3> QED
            BY <1>4, <3>1
    <2>2. ASSUME NEW m \in S PROVE \E l \in S : Parent(l) = m
        <3>1. PICK j \in k..last : m = s[j]
            OBVIOUS
        <3>2. CASE j = k
            BY <1>2, <1>3, <3>1, <3>2
        <3>3. CASE j # k
            <4>1. Parent(s[j - 1]) = m /\ s[j - 1] \in S
                BY <1>4, <1>5, <3>1, <3>3
            <4> QED
                BY <4>1
        <3> QED
            BY <3>2, <3>3
    <2> QED
        BY <2>1, <2>2
<1>7. Circle(S)
    BY <1>3, <1>6 DEF Circle
<1> HIDE DEF S
<1> QED
    BY <1>3, <1>7 DEF last

LEMMA FindCycleKeeps == ASSUME LoadInv, FindCycle PROVE LoadInv'
<1> USE DEF LoadInv
<1>1. stage = "extends" /\ stack # <<>> /\ End /\ errors' = errors \cup {<<"cycle", Top>>}
      /\ Follows(Top) /\ Visiting(Parent(Top))
    BY DEF FindCycle
<1>2. stack \in Seq(Defined) /\ Len(stack) \in Nat \ {0} /\ DOMAIN stack = 1..Len(stack)
      /\ Top \in Defined /\ Defined \subseteq Names
    BY <1>1 DEF ConfigTypeOK, Top
<1>3. errors' \subseteq ErrorKinds \X (Names \cup ForwardNames \cup {Empty})
    BY <1>1, <1>2 DEF ConfigTypeOK, ErrorKinds
<1>4. ConfigTypeOK' /\ UNCHANGED <<config, stage>>
    BY <1>1, <1>3, EndType
<1>5. UnchangedGraph
    BY <1>4, SameGraph
<1>6. StageInv' /\ SearchInv'
    BY <1>1, <1>4, <1>5 DEF StageInv, SearchInv, UnchangedGraph
<1>7. PICK k \in 1..Len(stack) : stack[k] = Parent(Top)
    <2>1. Parent(Top) \in Names
        BY <1>1, <1>2 DEF Follows
    <2> QED
        BY <1>1, <1>2, <2>1 DEF ConfigTypeOK
<1>8. \E S \in SUBSET Defined : Top \in S /\ Circle(S)
    BY <1>1, <1>2, <1>7, ChainCloses DEF ConfigTypeOK, Top
<1>9. CycleErrorsReal'
    BY <1>1, <1>5, <1>8 DEF CycleErrorsReal, UnchangedGraph
<1> QED
    BY <1>4, <1>6, <1>9

LEMMA FinishKeeps == ASSUME LoadInv, Finish PROVE LoadInv'
<1> USE DEF LoadInv
<1>1. /\ stage = "extends" /\ UNCHANGED <<doc, rest, config, visit, stack>>
      /\ errors' = errors \cup {"shared"} \X SharedNames
      /\ stage' = IF errors' = {} THEN "accepted" ELSE "rejected"
      /\ \A n \in Defined : visit[n] = "visited"
    BY DEF Finish
<1>2. UnchangedGraph
    BY <1>1, SameGraph
<1>3. SharedNames \subseteq ForwardNames
    BY DEF SharedNames
<1>4. /\ errors' \subseteq ErrorKinds \X (Names \cup ForwardNames \cup {Empty})
      /\ errors \subseteq errors'
      /\ \A n \in Names : <<"cycle", n>> \in errors' => <<"cycle", n>> \in errors
    BY <1>1, <1>3 DEF ConfigTypeOK, ErrorKinds
<1>5. ConfigTypeOK'
    BY <1>1, <1>4 DEF ConfigTypeOK, Visiting, Defined, Parent
<1>6. StageInv' /\ CycleErrorsReal'
    BY <1>1, <1>2, <1>4 DEF StageInv, CycleErrorsReal, UnchangedGraph, ConfigTypeOK
<1>7. SearchInv'
    BY <1>1, <1>2, <1>4 DEF SearchInv, UnchangedGraph
<1> QED
    BY <1>5, <1>6, <1>7

LEMMA LoadKeeps == ASSUME LoadInv, Load PROVE LoadInv'
<1>1. CASE VisitNext
    <2>1. PICK n \in Defined : visit[n] = "unvisited" /\ Begin(n)
        BY <1>1 DEF VisitNext
    <2> QED
        BY <1>1, <2>1, BeginKeeps DEF VisitNext
<1>2. CASE VisitParent
    BY <1>2, BeginKeeps DEF VisitParent, Follows
<1> QED
    BY <1>1, <1>2, ParseKeeps, ValidateKeeps, FindCycleKeeps, EndVisitKeeps, FinishKeeps
    DEF Load

LEMMA LoadInvAcyclic == ASSUME LoadInv PROVE AcceptedAcyclic
    BY DEF LoadInv, StageInv, SearchInv, AcceptedAcyclic
-----------------------------------------------------------------------------
(* Resolving.                                                              *)

\* What holds between steps of ResolveEnvironmentRecursive.
PlanStageInv ==
    /\ planStage = "idle" =>
        asked = {} /\ calls = <<>> /\ DOMAIN cache = {} /\ plan = {} /\ planErrors = {}
    /\ planStage # "idle" => stage = "accepted"
    /\ planStage = "planned" => planErrors = {}
    /\ walk # NoName =>
        /\ calls # <<>> /\ planStage = "resolve"
        /\ HasParent(Current) => Parent(Current) \in DOMAIN cache

\* What has been resolved has its parent resolved, is production with it, and
\* has been looked at by ValidateResolvedEnvironment.
CacheInv ==
    /\ LoaderSuffices
    /\ \A n \in DOMAIN cache :
        /\ HasParent(n) => /\ Parent(n) \in DOMAIN cache
                           /\ cache[Parent(n)].production => cache[n].production
        /\ config[n].production => cache[n].production
        /\ planErrors = {} /\ cache[n].production =>
            \A i \in DOMAIN cache[n].forwards : cache[n].forwards[i].detach

PlanInv == PlanTypeOK /\ PlanStageInv /\ CacheInv

LEMMA PlanInitially == Init => PlanInv
<1> SUFFICES ASSUME Init PROVE PlanInv
    OBVIOUS
<1>1. DOMAIN cache = {} /\ planErrors = {} /\ calls = <<>> /\ asked = {} /\ plan = {}
      /\ walk = NoName /\ planStage = "idle"
    BY DEF Init
<1> QED
    BY <1>1 DEF PlanInv, PlanTypeOK, PlanStageInv, CacheInv, LoaderSuffices

\* While a configuration is being loaded there is nothing of a plan.
LEMMA LoadsKeepPlan == ASSUME LoadInv, PlanInv, Loads PROVE PlanInv'
<1> USE DEF PlanInv
<1>1. stage # "accepted" /\ UNCHANGED planVars
    BY DEF Loads, Load, SkipUnnamed, ParseDuplicate, ParseEnvironment, Validate, VisitNext,
           VisitParent, FindCycle, EndVisit, Finish
<1>2. planStage = "idle" /\ asked = {} /\ calls = <<>> /\ DOMAIN cache = {} /\ plan = {}
      /\ planErrors = {} /\ walk = NoName
    BY <1>1 DEF PlanStageInv
<1>3. planStage' = "idle" /\ asked' = {} /\ calls' = <<>> /\ DOMAIN cache' = {} /\ plan' = {}
      /\ planErrors' = {} /\ walk' = NoName
    BY <1>1, <1>2 DEF planVars
<1> QED
    BY <1>3 DEF PlanTypeOK, PlanStageInv, CacheInv, LoaderSuffices

\* In an accepted configuration a call for the parent never fails.
LEMMA ParentIsFound ==
    ASSUME LoadInv, PlanInv, stage = "accepted", calls # <<>>
    PROVE  /\ Current \in Defined \ DOMAIN cache
           /\ HasParent(Current) => Parent(Current) \in Defined \ Resolving
           /\ ParentErrors(Current) = {}
<1>1. calls \in Seq(Defined \ DOMAIN cache)
      /\ \A i \in 1..(Len(calls) - 1) : Parent(calls[i]) = calls[i + 1]
    BY DEF PlanInv, PlanTypeOK
<1>2. Current \in Defined \ DOMAIN cache /\ calls \in Seq(Defined) /\ DOMAIN calls = 1..Len(calls)
    BY <1>1 DEF Current
<1>3. AcceptedAcyclic
    BY LoadInvAcyclic
<1>4. HasParent(Current) => Parent(Current) \in Defined
    BY <1>2, <1>3 DEF AcceptedAcyclic, HasParent
<1>5. ASSUME Parent(Current) \in Resolving PROVE FALSE
    <2>1. PICK k \in 1..Len(calls) : calls[k] = Parent(Current)
        BY <1>2, <1>5 DEF Resolving
    <2>2. \E S \in SUBSET Defined : Circle(S)
        BY <1>1, <1>2, <2>1, ChainCloses DEF Current
    <2> QED
        BY <1>3, <2>2 DEF AcceptedAcyclic
<1>6. ParentErrors(Current) = {}
    BY <1>4, <1>5 DEF ParentErrors
<1> QED
    BY <1>2, <1>4, <1>5, <1>6

LEMMA AsksKeepPlan ==
    ASSUME LoadInv, PlanInv, AskAll \/ \E n \in Names : AskOne(n)
    PROVE  PlanInv'
<1> USE DEF PlanInv
<1>1. /\ UNCHANGED <<configVars, calls, walk, cache, plan>>
      /\ stage = "accepted" /\ planStage = "idle"
      /\ \/ planStage' = "resolve" /\ asked' \subseteq Defined /\ planErrors' = planErrors
         \/ /\ planStage' = "failed" /\ asked' = asked
            /\ \E n \in Names : planErrors' = {<<"target", n>>}
    BY DEF AskAll, AskOne
<1>2. calls = <<>> /\ DOMAIN cache = {} /\ plan = {} /\ planErrors = {} /\ walk = NoName
    BY <1>1 DEF PlanStageInv
<1>3. LoaderSuffices'
    BY <1>1, <1>2 DEF LoaderSuffices
<1>4. PlanTypeOK'
    BY <1>1, <1>2 DEF PlanTypeOK, configVars, Defined, Parent
<1>5. PlanStageInv'
    BY <1>1, <1>2 DEF PlanStageInv, configVars
<1> QED
    BY <1>1, <1>2, <1>3, <1>4, <1>5 DEF CacheInv

LEMMA EnterKeeps ==
    ASSUME LoadInv, PlanInv, planStage = "resolve", walk = NoName,
           NEW n \in Defined, n \notin DOMAIN cache, n \notin Resolving,
           calls # <<>> => Parent(Current) = n, Enter(n)
    PROVE  PlanInv'
<1> USE DEF PlanInv
<1>1. /\ UNCHANGED <<configVars, asked, walk, cache, plan, planErrors, planStage>>
      /\ calls' = Append(calls, n)
    BY DEF Enter
<1>2. UNCHANGED <<config, stage>> /\ Defined' = Defined
    BY <1>1 DEF configVars, Defined
<1>3. calls \in Seq(Defined \ DOMAIN cache) /\ Len(calls) \in Nat /\ DOMAIN calls = 1..Len(calls)
    BY DEF PlanTypeOK
<1>4. /\ calls' \in Seq(Defined \ DOMAIN cache)
      /\ Len(calls') = Len(calls) + 1
      /\ \A i \in 1..Len(calls) : calls'[i] = calls[i]
      /\ calls'[Len(calls) + 1] = n
    BY <1>1, <1>3, Pushed
<1>5. DOMAIN calls' = 1..(Len(calls) + 1)
    BY <1>4
<1>6. \A i, j \in DOMAIN calls' : calls'[i] = calls'[j] => i = j
    BY <1>3, <1>4, <1>5 DEF PlanTypeOK, Resolving
<1>7. \A i \in 1..(Len(calls') - 1) : Parent(calls'[i]) = calls'[i + 1]
    BY <1>3, <1>4, <1>5 DEF PlanTypeOK, Current
<1>8. (\A i \in 1..(Len(calls) - 1) : Parent(calls[i]) = calls[i + 1])'
    BY <1>2, <1>7 DEF Parent
<1>9. PlanTypeOK'
    BY <1>1, <1>2, <1>4, <1>6, <1>8 DEF PlanTypeOK
<1>10. PlanStageInv'
    BY <1>1, <1>2 DEF PlanStageInv
<1>11. CacheInv'
    BY <1>1, <1>2 DEF CacheInv, LoaderSuffices, HasParent, Parent
<1> QED
    BY <1>9, <1>10, <1>11

LEMMA SeeksKeepPlan ==
    ASSUME LoadInv, PlanInv, SeekForwards \/ SeekInParent
    PROVE  PlanInv'
<1> USE NamesAssumption DEF PlanInv
<1>1. UNCHANGED <<configVars, asked, calls, cache, plan, planStage>>
      /\ calls # <<>> /\ planStage = "resolve" /\ stage = "accepted"
    BY DEF SeekForwards, SeekInParent, PlanStageInv
<1>2. UNCHANGED <<config, stage>>
    BY <1>1 DEF configVars
<1>3. Current \in Defined /\ ParentErrors(Current) = {}
    BY <1>1, ParentIsFound
<1>4. /\ planErrors' = planErrors /\ walk' \in Defined
      /\ HasParent(Current) => Parent(Current) \in DOMAIN cache
    BY <1>3 DEF SeekForwards, SeekInParent, PlanStageInv
<1>5. PlanTypeOK'
    BY <1>1, <1>2, <1>4 DEF PlanTypeOK, Defined, Parent
<1>6. PlanStageInv'
    BY <1>1, <1>2, <1>4 DEF PlanStageInv, HasParent, Parent, Current
<1>7. CacheInv'
    BY <1>1, <1>2, <1>4 DEF CacheInv, LoaderSuffices, HasParent, Parent
<1> QED
    BY <1>5, <1>6, <1>7

\* What a resolved environment is checked for.
LEMMA NoErrorsNoForeground ==
    ASSUME NEW n, NEW env, ResolvedErrors(n, env) = {}, env.production
    PROVE  \A i \in DOMAIN env.forwards : env.forwards[i].detach
<1> SUFFICES ASSUME NEW i \in DOMAIN env.forwards, ~env.forwards[i].detach PROVE FALSE
    OBVIOUS
<1>1. <<"detach", n>> \in ResolvedErrors(n, env)
    BY DEF ResolvedErrors
<1> QED
    BY <1>1

LEMMA ResolvedErrorKinds ==
    ASSUME NEW n, NEW env
    PROVE  \A m : <<"cyclic", m>> \notin ResolvedErrors(n, env)
                  /\ <<"unknown", m>> \notin ResolvedErrors(n, env)
    BY DEF ResolvedErrors

\* What the current call has inherited makes an environment of the right
\* types, and a production one if either side is.
LEMMA EffectiveType ==
    ASSUME LoadInv, PlanInv, walk # NoName
    PROVE  /\ Current \in Defined \ DOMAIN cache
           /\ Effective.settings \in Settings /\ Effective.production \in BOOLEAN
           /\ HasParent(Current) =>
                Parent(Current) \in DOMAIN cache
                /\ (cache[Parent(Current)].production => Effective.production)
           /\ config[Current].production => Effective.production
<1> USE DEF PlanInv
<1>1. calls # <<>> /\ planStage = "resolve" /\ stage = "accepted"
      /\ (HasParent(Current) => Parent(Current) \in DOMAIN cache)
    BY DEF PlanStageInv
<1>2. Current \in Defined \ DOMAIN cache
    BY <1>1, ParentIsFound
<1>3. config[Current] \in Environment
    BY <1>2 DEF LoadInv, ConfigTypeOK, Defined
<1>4. config[Current].settings \in Settings /\ config[Current].production \in BOOLEAN
    BY <1>3 DEF Environment
<1>5. doc.defaults \in Settings
    BY DocumentsAssumption DEF LoadInv, ConfigTypeOK
<1> DEFINE inherits == HasParent(Current) /\ Parent(Current) \in DOMAIN cache
           base == IF inherits THEN cache[Parent(Current)].settings ELSE doc.defaults
           guard == IF inherits THEN cache[Parent(Current)].production ELSE FALSE
<1>6. base \in Settings /\ guard \in BOOLEAN
    BY <1>5 DEF PlanTypeOK
<1>7. /\ Effective.settings = MergeTargetDefaults(base, config[Current].settings)
      /\ Effective.production = (guard \/ config[Current].production)
    BY DEF Effective, MergeEnvironmentGuards
<1>8. HasParent(Current) => guard = cache[Parent(Current)].production
    BY <1>1
<1> HIDE DEF base, guard
<1>9. Effective.settings \in Settings
    BY <1>4, <1>6, <1>7 DEF MergeTargetDefaults, Settings, Or
<1> QED
    BY <1>1, <1>2, <1>4, <1>6, <1>7, <1>8, <1>9

LEMMA ResolveKeepsPlan == ASSUME LoadInv, PlanInv, Resolve PROVE PlanInv'
<1> USE DEF PlanInv
<1>1. /\ UNCHANGED <<configVars, asked, plan, planStage>>
      /\ walk # NoName /\ walk' = NoName
      /\ cache' = [n \in DOMAIN cache \cup {Current} |->
                    IF n \in DOMAIN cache THEN cache[n] ELSE Effective]
      /\ planErrors' = planErrors \cup ResolvedErrors(Current, Effective)
      /\ calls' = SubSeq(calls, 1, Len(calls) - 1)
    BY DEF Resolve
<1>2. calls # <<>> /\ planStage = "resolve" /\ stage = "accepted"
    BY <1>1 DEF PlanStageInv
<1>3. UNCHANGED <<config, stage>> /\ Defined' = Defined
    BY <1>1 DEF configVars, Defined
<1>4. /\ Current \in Defined \ DOMAIN cache
      /\ Effective.settings \in Settings /\ Effective.production \in BOOLEAN
      /\ HasParent(Current) =>
           Parent(Current) \in DOMAIN cache
           /\ (cache[Parent(Current)].production => Effective.production)
      /\ config[Current].production => Effective.production
    BY <1>1, EffectiveType
<1> DEFINE found == Effective
           flaws == ResolvedErrors(Current, Effective)
<1>5. /\ flaws = {} /\ found.production =>
           \A i \in DOMAIN found.forwards : found.forwards[i].detach
      /\ \A m : <<"cyclic", m>> \notin flaws /\ <<"unknown", m>> \notin flaws
    BY NoErrorsNoForeground, ResolvedErrorKinds
<1> HIDE DEF found, flaws
<1>6. /\ DOMAIN cache' = DOMAIN cache \cup {Current}
      /\ \A n \in DOMAIN cache : cache'[n] = cache[n]
      /\ cache'[Current] = found
      /\ planErrors' = planErrors \cup flaws
    BY <1>1, <1>4 DEF found, flaws
<1>7. /\ found.settings \in Settings /\ found.production \in BOOLEAN
      /\ HasParent(Current) =>
           Parent(Current) \in DOMAIN cache /\ (cache[Parent(Current)].production => found.production)
      /\ config[Current].production => found.production
    BY <1>4 DEF found
<1>8. calls \in Seq(Defined \ DOMAIN cache) /\ Len(calls) \in Nat \ {0}
      /\ DOMAIN calls = 1..Len(calls)
    BY <1>2 DEF PlanTypeOK
<1>9. \A i \in 1..(Len(calls) - 1) : calls[i] \in Defined \ DOMAIN cache'
    BY <1>6, <1>8 DEF PlanTypeOK, Current
<1>10. /\ calls' \in Seq(Defined \ DOMAIN cache')
       /\ Len(calls') = Len(calls) - 1
       /\ \A i \in 1..(Len(calls) - 1) : calls'[i] = calls[i]
    BY <1>1, <1>2, <1>8, <1>9, Popped
<1>11. DOMAIN calls' = 1..(Len(calls) - 1)
    BY <1>10
<1>12. \A i, j \in DOMAIN calls' : calls'[i] = calls'[j] => i = j
    BY <1>8, <1>10, <1>11 DEF PlanTypeOK
<1>13. \A i \in 1..(Len(calls') - 1) : Parent(calls'[i]) = calls'[i + 1]
    BY <1>8, <1>10, <1>11 DEF PlanTypeOK
<1>14. (\A i \in 1..(Len(calls) - 1) : Parent(calls[i]) = calls[i + 1])'
    BY <1>3, <1>13 DEF Parent
<1>15. PlanTypeOK'
    BY <1>1, <1>3, <1>4, <1>6, <1>7, <1>10, <1>12, <1>14 DEF PlanTypeOK
<1>16. PlanStageInv'
    BY <1>1, <1>2, <1>3 DEF PlanStageInv
<1>17. LoaderSuffices'
    BY <1>5, <1>6 DEF CacheInv, LoaderSuffices
<1>18. CacheInv'
    BY <1>3, <1>5, <1>6, <1>7, <1>17 DEF CacheInv, HasParent, Parent
<1> QED
    BY <1>15, <1>16, <1>18

LEMMA EndsKeepPlan ==
    ASSUME LoadInv, PlanInv, AddToPlan \/ Complete
    PROVE  PlanInv'
<1> USE DEF PlanInv
<1>1. /\ UNCHANGED <<configVars, calls, walk, cache, planErrors>>
      /\ planStage = "resolve" /\ calls = <<>>
      /\ asked' \subseteq asked /\ plan' \subseteq DOMAIN cache
      /\ planStage' = "planned" => planErrors = {}
      /\ planStage' \in {"resolve", "planned", "failed"}
    <2>1. CASE AddToPlan
        BY <2>1 DEF AddToPlan, PlanTypeOK
    <2>2. CASE Complete
        <3>1. UNCHANGED <<configVars, asked, calls, walk, cache, plan, planErrors>>
              /\ planStage = "resolve"
            BY <2>2 DEF Complete
        <3>2. calls = <<>>
            BY <2>2 DEF Complete
        <3> QED
            BY <2>2, <3>1, <3>2 DEF Complete, PlanTypeOK
    <2> QED
        BY <2>1, <2>2
<1>2. UNCHANGED <<config, stage>>
    BY <1>1 DEF configVars
<1>3. PlanTypeOK'
    BY <1>1, <1>2 DEF PlanTypeOK, Defined, Parent
<1>4. PlanStageInv'
    BY <1>1, <1>2 DEF PlanStageInv, HasParent, Parent, Current
<1>5. CacheInv'
    BY <1>1, <1>2 DEF CacheInv, LoaderSuffices, HasParent, Parent
<1> QED
    BY <1>3, <1>4, <1>5

LEMMA LoadStutters == ASSUME LoadInv, UNCHANGED configVars PROVE LoadInv'
<1> USE DEF LoadInv
<1>1. UNCHANGED <<doc, rest, config, errors, stage, visit, stack>>
    BY DEF configVars
<1>2. UnchangedGraph
    BY <1>1, SameGraph
<1>3. ConfigTypeOK'
    BY <1>1 DEF ConfigTypeOK, Visiting, Defined, Parent
<1>4. StageInv'
    BY <1>1, <1>2 DEF StageInv, UnchangedGraph
<1>5. SearchInv' /\ CycleErrorsReal'
    BY <1>1, <1>2 DEF SearchInv, CycleErrorsReal, UnchangedGraph
<1> QED
    BY <1>3, <1>4, <1>5

LEMMA PlanKeeps == ASSUME LoadInv, PlanInv, Next PROVE LoadInv' /\ PlanInv'
<1> USE DEF PlanInv
<1>1. CASE Loads
    BY <1>1, LoadKeeps, LoadsKeepPlan DEF Loads
<1>2. ASSUME UNCHANGED configVars PROVE LoadInv'
    BY <1>2, LoadStutters
<1>3. CASE AskAll \/ \E n \in Names : AskOne(n)
    <2>1. UNCHANGED configVars
        BY <1>3 DEF AskAll, AskOne
    <2> QED
        BY <1>2, <1>3, <2>1, AsksKeepPlan
<1>4. CASE EnterTarget
    <2>1. PICK n \in asked : n \notin DOMAIN cache /\ Enter(n)
        BY <1>4 DEF EnterTarget
    <2>2. planStage = "resolve" /\ calls = <<>> /\ n \in Defined
        BY <1>4 DEF EnterTarget, PlanTypeOK
    <2>3. walk = NoName /\ n \notin Resolving
        BY <2>2 DEF PlanStageInv, Resolving
    <2>4. UNCHANGED configVars
        BY <2>1 DEF Enter
    <2> QED
        BY <1>2, <2>1, <2>2, <2>3, <2>4, EnterKeeps
<1>5. CASE EnterParent
    <2>1. /\ planStage = "resolve" /\ calls # <<>> /\ walk = NoName
          /\ HasParent(Current) /\ Parent(Current) \notin DOMAIN cache
          /\ Enter(Parent(Current))
        BY <1>5 DEF EnterParent
    <2>2. Parent(Current) \in Defined \ Resolving
        BY <2>1, ParentIsFound DEF PlanStageInv
    <2>3. UNCHANGED configVars
        BY <2>1 DEF Enter
    <2> QED
        BY <1>2, <2>1, <2>2, <2>3, EnterKeeps
<1>6. CASE SeekForwards \/ SeekInParent
    <2>1. UNCHANGED configVars
        BY <1>6 DEF SeekForwards, SeekInParent
    <2> QED
        BY <1>2, <1>6, <2>1, SeeksKeepPlan
<1>7. CASE Resolve
    <2>1. UNCHANGED configVars
        BY <1>7 DEF Resolve
    <2> QED
        BY <1>2, <1>7, <2>1, ResolveKeepsPlan
<1>8. CASE AddToPlan \/ Complete
    <2>1. UNCHANGED configVars
        BY <1>8 DEF AddToPlan, Complete
    <2> QED
        BY <1>2, <1>8, <2>1, EndsKeepPlan
<1> QED
    BY <1>1, <1>3, <1>4, <1>5, <1>6, <1>7, <1>8 DEF Next, Resolves

LEMMA Invariance == Spec => [](LoadInv /\ PlanInv)
<1>1. Init => LoadInv /\ PlanInv
    BY LoadInitially, PlanInitially DEF Init
<1>2. LoadInv /\ PlanInv /\ [Next]_vars => (LoadInv /\ PlanInv)'
    <2> SUFFICES ASSUME LoadInv, PlanInv, [Next]_vars PROVE LoadInv' /\ PlanInv'
        OBVIOUS
    <2>1. CASE Next
        BY <2>1, PlanKeeps
    <2>2. CASE UNCHANGED vars
        <3>1. UNCHANGED <<doc, rest, config, errors, stage, visit, stack>>
              /\ UNCHANGED <<asked, calls, walk, cache, plan, planErrors, planStage>>
            BY <2>2 DEF vars, configVars, planVars
        <3>2. LoadInv'
            BY <3>1, LoadStutters DEF configVars
        <3>3. PlanTypeOK' /\ PlanStageInv'
            BY <3>1 DEF PlanInv, PlanTypeOK, PlanStageInv, Defined, Parent, HasParent, Current
        <3>4. CacheInv'
            BY <3>1 DEF PlanInv, CacheInv, LoaderSuffices, HasParent, Parent
        <3> QED
            BY <3>2, <3>3, <3>4 DEF PlanInv
    <2> QED
        BY <2>1, <2>2
<1> QED
    BY <1>1, <1>2, PTL DEF Spec

-----------------------------------------------------------------------------
(* Inheritance.                                                            *)

\* What an accepted configuration is known for.
Acyclic ==
    /\ \A n \in Defined : Parent(n) \in Defined \cup {NoName}
    /\ \A S \in SUBSET Defined : ~Circle(S)

LEMMA LineCloses ==
    ASSUME Acyclic, NEW n \in Defined
    PROVE  /\ n \in Line(n) /\ Line(n) \in SUBSET Defined
           /\ \A m \in Line(n) : HasParent(m) => Parent(m) \in Line(n)
           /\ \A S \in SUBSET Defined :
                n \in S /\ (\A m \in S : HasParent(m) => Parent(m) \in S) => Line(n) \subseteq S
<1>1. n \in Line(n) /\ Line(n) \in SUBSET Defined
    BY DEF Line
<1>2. ASSUME NEW m \in Line(n), HasParent(m) PROVE Parent(m) \in Line(n)
    <2>1. m \in Defined /\ Parent(m) \in Defined
        BY <1>1, <1>2 DEF Acyclic, HasParent
    <2> SUFFICES ASSUME NEW S \in SUBSET Defined, n \in S,
                        \A k \in S : HasParent(k) => Parent(k) \in S
                 PROVE  Parent(m) \in S
        BY <2>1 DEF Line
    <2>2. m \in S
        BY <1>2 DEF Line
    <2> QED
        BY <1>2, <2>2
<1>3. ASSUME NEW S \in SUBSET Defined, n \in S, \A m \in S : HasParent(m) => Parent(m) \in S
      PROVE  Line(n) \subseteq S
    BY <1>3 DEF Line
<1> QED
    BY <1>1, <1>2, <1>3

\* The line of an environment is its parent's, and itself.
LEMMA LineStep ==
    ASSUME Acyclic, NEW n \in Defined
    PROVE  /\ HasParent(n) => Parent(n) \in Defined /\ Line(n) = {n} \cup Line(Parent(n))
           /\ ~HasParent(n) => Line(n) = {n}
<1>1. /\ n \in Line(n) /\ Line(n) \in SUBSET Defined
      /\ \A m \in Line(n) : HasParent(m) => Parent(m) \in Line(n)
      /\ \A S \in SUBSET Defined :
            n \in S /\ (\A m \in S : HasParent(m) => Parent(m) \in S) => Line(n) \subseteq S
    BY LineCloses
<1>2. CASE HasParent(n)
    <2> DEFINE p == Parent(n)
    <2>1. p \in Defined
        BY <1>2 DEF Acyclic, HasParent
    <2>2. /\ p \in Line(p) /\ Line(p) \in SUBSET Defined
          /\ \A m \in Line(p) : HasParent(m) => Parent(m) \in Line(p)
          /\ \A S \in SUBSET Defined :
                p \in S /\ (\A m \in S : HasParent(m) => Parent(m) \in S) => Line(p) \subseteq S
        BY <2>1, LineCloses
    <2>3. Line(p) \subseteq Line(n)
        BY <1>1, <1>2, <2>2
    <2>4. Line(n) \subseteq {n} \cup Line(p)
        <3>1. ({n} \cup Line(p)) \in SUBSET Defined
            BY <2>2
        <3>2. \A m \in {n} \cup Line(p) : HasParent(m) => Parent(m) \in {n} \cup Line(p)
            BY <2>2
        <3> QED
            BY <1>1, <3>1, <3>2
    <2> QED
        BY <1>1, <1>2, <2>1, <2>3, <2>4
<1>3. CASE ~HasParent(n)
    <2>1. Line(n) \subseteq {n}
        BY <1>1, <1>3
    <2> QED
        BY <1>1, <1>3, <2>1
<1> QED
    BY <1>2, <1>3

LEMMA LineTransitive ==
    ASSUME Acyclic, NEW n \in Defined, NEW a \in Line(n)
    PROVE  a \in Defined /\ Line(a) \subseteq Line(n)
<1>1. /\ Line(n) \in SUBSET Defined
      /\ \A m \in Line(n) : HasParent(m) => Parent(m) \in Line(n)
    BY LineCloses
<1> QED
    BY <1>1, LineCloses

\* Nobody inherits from itself: those of the parent's line that had it in
\* theirs would be a circle.
LEMMA NoReturn ==
    ASSUME Acyclic, NEW n \in Defined, HasParent(n)
    PROVE  n \notin Line(Parent(n))
<1> SUFFICES ASSUME n \in Line(Parent(n)) PROVE FALSE
    OBVIOUS
<1> DEFINE p == Parent(n)
           S == {m \in Line(p) : n \in Line(m)}
<1>1. p \in Defined
    BY LineStep
<1>2. /\ p \in Line(p) /\ Line(p) \in SUBSET Defined
      /\ \A m \in Line(p) : HasParent(m) => Parent(m) \in Line(p)
      /\ \A T \in SUBSET Defined :
            p \in T /\ (\A m \in T : HasParent(m) => Parent(m) \in T) => Line(p) \subseteq T
    BY <1>1, LineCloses
<1>3. p \in S /\ n \in S
    BY <1>2, LineCloses
<1>4. ASSUME NEW m \in S PROVE Parent(m) \in S
    <2>1. m \in Defined /\ n \in Line(m)
        BY <1>2
    <2>2. CASE m = n
        BY <1>3, <2>2
    <2>3. CASE m # n
        <3>1. HasParent(m) /\ n \in Line(Parent(m))
            BY <2>1, <2>3, LineStep
        <3> QED
            BY <1>2, <3>1
    <2> QED
        BY <2>2, <2>3
<1>5. ASSUME NEW m \in S PROVE \E k \in S : Parent(k) = m
    <2>1. CASE m = p
        BY <1>3, <2>1
    <2>2. CASE m # p
        <3> DEFINE T == Line(p) \ {m}
        <3>1. T \in SUBSET Defined /\ p \in T /\ ~(Line(p) \subseteq T)
            BY <1>2, <2>2
        <3>2. PICK k \in T : HasParent(k) /\ Parent(k) \notin T
            BY <1>2, <3>1
        <3>3. k \in Line(p) /\ k \in Defined /\ Parent(k) = m
            BY <1>2, <3>2
        <3>4. n \in Line(k)
            BY <3>2, <3>3, LineStep
        <3> QED
            BY <3>3, <3>4
    <2> QED
        BY <2>1, <2>2
<1>6. Circle(S)
    BY <1>2, <1>3, <1>4, <1>5 DEF Circle
<1> QED
    BY <1>2, <1>6 DEF Acyclic

LEMMA NearestIsOwn ==
    ASSUME Acyclic, NEW n \in Defined, NEW X \in SUBSET Line(n), n \in X
    PROVE  Nearest(X) = n
<1>1. ASSUME NEW a \in X, X \subseteq Line(a) PROVE a = n
    <2> SUFFICES ASSUME a # n PROVE FALSE
        OBVIOUS
    <2>1. HasParent(n) /\ a \in Line(Parent(n)) /\ Parent(n) \in Defined
        BY LineStep
    <2>2. n \in Line(Parent(n))
        BY <1>1, <2>1, LineTransitive
    <2> QED
        BY <2>1, <2>2, NoReturn
<1>2. \E a \in X : X \subseteq Line(a)
    OBVIOUS
<1>3. Nearest(X) \in X /\ X \subseteq Line(Nearest(X))
    BY <1>2 DEF Nearest
<1> QED
    BY <1>1, <1>3

\* What is parsed, or is still to be, comes from the file.
SourceInv ==
    /\ \A i \in DOMAIN rest : \E j \in DOMAIN doc.environments : rest[i] = doc.environments[j]
    /\ \A n \in Defined : \E i \in DOMAIN doc.environments :
            doc.environments[i].name = n /\ doc.environments[i].env = config[n]

LEMMA SourceInitially == Init => SourceInv
BY DEF Init, LoadInit, SourceInv, Defined

LEMMA SourceKeeps ==
    ASSUME LoadInv, SourceInv, [Next]_vars
    PROVE  SourceInv'
<1> DEFINE From(e) == \E j \in DOMAIN doc.environments : e = doc.environments[j]
<1>1. rest \in Seq(Entry) /\ \A i \in DOMAIN rest : From(rest[i])
    BY DEF LoadInv, ConfigTypeOK, SourceInv
<1>2. CASE UNCHANGED <<doc, rest, config>>
    BY <1>2 DEF SourceInv, Defined
<1>3. CASE SkipUnnamed \/ ParseDuplicate \/ ParseEnvironment
    <2>1. rest # <<>> /\ rest' = Tail(rest) /\ UNCHANGED doc
        BY <1>3 DEF SkipUnnamed, ParseDuplicate, ParseEnvironment
    <2>2. From(Head(rest)) /\ \A i \in DOMAIN rest' : From(rest'[i])
        <3>1. /\ Len(rest) \in Nat /\ DOMAIN rest = 1..Len(rest) /\ Head(rest) = rest[1]
              /\ Len(rest) > 0
            BY <1>1, <2>1, LenProperties, EmptySeq, HeadTailProperties
        <3>2. /\ Tail(rest) \in Seq(Entry) /\ Len(Tail(rest)) = Len(rest) - 1
              /\ \A i \in 1..(Len(rest) - 1) : Tail(rest)[i] = rest[i + 1]
            BY <1>1, <2>1, HeadTailProperties
        <3>3. DOMAIN Tail(rest) = 1..(Len(rest) - 1)
            BY <3>2, LenProperties
        <3> QED
            BY <1>1, <2>1, <3>1, <3>2, <3>3
    <2>3. CASE UNCHANGED config
        BY <2>1, <2>2, <2>3 DEF SourceInv, Defined
    <2>4. CASE ParseEnvironment
        <3>1. config' = [n \in Defined \cup {Head(rest).name} |->
                            IF n \in Defined THEN config[n] ELSE Head(rest).env]
            BY <2>4 DEF ParseEnvironment
        <3>2. ASSUME NEW n \in Defined'
              PROVE  \E i \in DOMAIN doc.environments :
                        doc.environments[i].name = n /\ doc.environments[i].env = config'[n]
            <4>1. CASE n \in Defined
                BY <3>1, <4>1 DEF SourceInv
            <4>2. CASE n \notin Defined
                BY <2>2, <3>1, <3>2, <4>2 DEF Defined
            <4> QED
                BY <4>1, <4>2
        <3> QED
            BY <2>1, <2>2, <3>2 DEF SourceInv
    <2> QED
        BY <1>3, <2>3, <2>4 DEF SkipUnnamed, ParseDuplicate
<1>4. CASE Load
    BY <1>2, <1>3, <1>4
    DEF Load, Validate, VisitNext, VisitParent, Begin, FindCycle, EndVisit, End, Finish
<1> QED
    BY <1>2, <1>4
    DEF Next, Loads, AskAll, AskOne, Resolves, EnterTarget, EnterParent, Enter, SeekForwards,
        SeekInParent, Resolve, AddToPlan, Complete, vars, configVars

LEMMA SourceInvariance == Spec => []SourceInv
BY SourceInitially, SourceKeeps, Invariance, PTL DEF Spec

\* A list that is not empty is given, and an empty one only to no parent's heir.
LEMMA GivesStep ==
    ASSUME LoadInv, SourceInv, NoEmptyOverrides, NEW n \in Defined
    PROVE  /\ config[n].forwards # <<>> => Gives(n)
           /\ config[n].forwards = <<>> /\ HasParent(n) => ~Gives(n)
<1>1. doc \in Documents
    BY DEF LoadInv, ConfigTypeOK
<1>2. ASSUME NEW i \in DOMAIN doc.environments
      PROVE  doc.environments[i].listed \/ doc.environments[i].env.forwards = <<>>
    <2>1. doc.environments \in Seq(Entry)
        BY <1>1, DocumentsAssumption
    <2>2. doc.environments[i] \in Entry
        BY <1>2, <2>1, ElementOfSeq, LenProperties
    <2> QED
        BY <2>2 DEF Entry
<1>3. config[n].forwards # <<>> => Gives(n)
    BY <1>2 DEF SourceInv, Gives
<1>4. config[n].forwards = <<>> /\ HasParent(n) => ~Gives(n)
    BY <1>1 DEF NoEmptyOverrides, Gives, HasParent, Parent
<1> QED
    BY <1>3, <1>4

\* A setting, a list of forwards and the guard, from those of the parent.
LEMMA SettingStep ==
    ASSUME Acyclic, NEW n \in Defined, NEW f
    PROVE  Setting(n, f) =
            IF config[n].settings[f] # Unset THEN config[n].settings[f]
            ELSE IF HasParent(n) THEN Setting(Parent(n), f) ELSE doc.defaults[f]
<1> DEFINE X(m) == {a \in Line(m) : config[a].settings[f] # Unset}
<1>1. n \in Line(n) /\ X(n) \in SUBSET Line(n)
    BY LineCloses
<1>2. CASE config[n].settings[f] # Unset
    <2>1. n \in X(n)
        BY <1>1, <1>2
    <2>2. Nearest(X(n)) = n
        BY <1>1, <2>1, NearestIsOwn
    <2> QED
        BY <1>2, <2>1, <2>2 DEF Setting
<1>3. CASE config[n].settings[f] = Unset /\ HasParent(n)
    <2>1. X(n) = X(Parent(n))
        BY <1>3, LineStep
    <2> QED
        BY <1>3, <2>1 DEF Setting
<1>4. CASE config[n].settings[f] = Unset /\ ~HasParent(n)
    <2>1. X(n) = {}
        BY <1>4, LineStep
    <2> QED
        BY <1>4, <2>1 DEF Setting
<1> QED
    BY <1>2, <1>3, <1>4

LEMMA ListedStep ==
    ASSUME LoadInv, SourceInv, NoEmptyOverrides, Acyclic, NEW n \in Defined
    PROVE  Listed(n) =
            IF config[n].forwards # <<>> THEN config[n].forwards
            ELSE IF HasParent(n) THEN Listed(Parent(n)) ELSE <<>>
<1> DEFINE X(m) == {a \in Line(m) : Gives(a)}
<1>1. n \in Line(n) /\ X(n) \in SUBSET Line(n)
    BY LineCloses
<1>5. /\ config[n].forwards # <<>> => Gives(n)
      /\ config[n].forwards = <<>> /\ HasParent(n) => ~Gives(n)
    BY GivesStep
<1>2. CASE config[n].forwards # <<>>
    <2>1. n \in X(n)
        BY <1>1, <1>2, <1>5
    <2>2. Nearest(X(n)) = n
        BY <1>1, <2>1, NearestIsOwn
    <2> QED
        BY <1>2, <2>1, <2>2 DEF Listed
<1>3. CASE config[n].forwards = <<>> /\ HasParent(n)
    <2>1. X(n) = X(Parent(n))
        BY <1>3, <1>5, LineStep
    <2> QED
        BY <1>3, <2>1 DEF Listed
<1>4. CASE config[n].forwards = <<>> /\ ~HasParent(n)
    <2>1. X(n) \in SUBSET {n}
        BY <1>4, LineStep
    <2>2. n \in X(n) => Nearest(X(n)) = n
        BY <1>1, NearestIsOwn
    <2>3. X(n) # {} => config[Nearest(X(n))].forwards = <<>>
        BY <1>4, <2>1, <2>2
    <2> HIDE DEF X
    <2>4. Listed(n) = IF X(n) = {} THEN <<>> ELSE config[Nearest(X(n))].forwards
        BY DEF Listed, X
    <2> QED
        BY <1>4, <2>3, <2>4
<1> QED
    BY <1>2, <1>3, <1>4

LEMMA ProductionStep ==
    ASSUME Acyclic, NEW n \in Defined
    PROVE  Production(n) <=> config[n].production \/ (HasParent(n) /\ Production(Parent(n)))
<1>1. CASE HasParent(n)
    <2>1. Line(n) = {n} \cup Line(Parent(n))
        BY <1>1, LineStep
    <2> QED
        BY <1>1, <2>1 DEF Production
<1>2. CASE ~HasParent(n)
    <2>1. Line(n) = {n}
        BY <1>2, LineStep
    <2> QED
        BY <1>2, <2>1 DEF Production
<1> QED
    BY <1>1, <1>2

\* What is left of the list of forwards that is looked for.
WalkInv == walk # NoName => Listed(walk) = Listed(Current)

InheritInv == InheritanceCorrect /\ WalkInv

LEMMA SameInheritance ==
    ASSUME UNCHANGED <<doc, config>>
    PROVE  \A n : Inherited(n)' = Inherited(n) /\ Listed(n)' = Listed(n)
<1>1. \A n : Line(n)' = Line(n)
    BY DEF Line, Defined, HasParent, Parent
<1>2. \A X : Nearest(X)' = Nearest(X)
    BY <1>1 DEF Nearest
<1>3. \A n : Listed(n)' = Listed(n)
    BY <1>1, <1>2 DEF Listed, Gives
<1>4. \A n, f : Setting(n, f)' = Setting(n, f)
    BY <1>1, <1>2 DEF Setting
<1>5. \A n : Production(n)' = Production(n)
    BY <1>1 DEF Production
<1>6. \A n : Inherited(n)' = Inherited(n)
    <2>1. SUFFICES ASSUME NEW n PROVE Inherited(n)' = Inherited(n)
        OBVIOUS
    <2>2. [f \in Fields |-> Setting(n, f)]' = [f \in Fields |-> Setting(n, f)]
        BY <1>4
    <2>3. Listed(n)' = Listed(n) /\ Production(n)' = Production(n)
        BY <1>3, <1>5
    <2> QED
        BY <2>2, <2>3 DEF Inherited
<1> QED
    BY <1>3, <1>6

\* The environment that a call resolves to is what it inherits.
LEMMA EffectiveInherited ==
    ASSUME LoadInv, SourceInv, NoEmptyOverrides, PlanInv, InheritInv, walk # NoName,
           config[walk].forwards # <<>> \/ Parent(walk) \notin Defined
    PROVE  Effective = Inherited(Current)
<1> USE NamesAssumption
<1>1. /\ calls # <<>> /\ stage = "accepted"
      /\ HasParent(Current) => Parent(Current) \in DOMAIN cache
      /\ walk \in Defined
    BY DEF PlanInv, PlanStageInv, PlanTypeOK
<1>2. Acyclic
    BY <1>1, LoadInvAcyclic DEF Acyclic, AcceptedAcyclic
<1>3. Current \in Defined
    BY <1>1, ParentIsFound
<1>4. config[Current].settings \in Settings /\ config[Current].production \in BOOLEAN
    BY <1>3 DEF LoadInv, ConfigTypeOK, Defined, Environment
<1>5. doc.defaults \in Settings
    BY DocumentsAssumption DEF LoadInv, ConfigTypeOK
<1> DEFINE p == Parent(Current)
           settings == [f \in Fields |-> Setting(Current, f)]
           base == IF HasParent(Current) THEN cache[p].settings ELSE doc.defaults
           guard == IF HasParent(Current) THEN cache[p].production ELSE FALSE
<1>6. Listed(Current) = config[walk].forwards
    <2>1. Listed(walk) = config[walk].forwards
        BY <1>1, <1>2, ListedStep DEF Acyclic, HasParent
    <2> QED
        BY <2>1 DEF InheritInv, WalkInv
<1>7. HasParent(Current) =>
        /\ cache[p].settings = [f \in Fields |-> Setting(p, f)]
        /\ cache[p].production = Production(p)
    BY <1>1 DEF InheritInv, InheritanceCorrect, Inherited
<1>8. MergeTargetDefaults(base, config[Current].settings) = settings
    <2>1. ASSUME NEW f \in Fields
          PROVE  Or(config[Current].settings[f], base[f]) = Setting(Current, f)
        BY <1>2, <1>3, <1>7, SettingStep DEF Or
    <2> QED
        BY <2>1 DEF MergeTargetDefaults
<1>9. MergeEnvironmentGuards(guard, config[Current].production) = Production(Current)
    <2>1. guard \in BOOLEAN /\ (guard <=> HasParent(Current) /\ Production(p))
        BY <1>1, <1>7 DEF PlanInv, PlanTypeOK
    <2>2. (guard \/ config[Current].production) <=> Production(Current)
        BY <1>2, <1>3, <2>1, ProductionStep
    <2> QED
        BY <1>4, <2>1, <2>2 DEF MergeEnvironmentGuards, Production
<1>10. Effective =
        [settings |-> MergeTargetDefaults(base, config[Current].settings),
         production |-> MergeEnvironmentGuards(guard, config[Current].production),
         forwards |-> ResolveForwards(config[walk].forwards,
                        MergeTargetDefaults(base, config[Current].settings))]
    BY <1>1 DEF Effective
<1> QED
    BY <1>6, <1>8, <1>9, <1>10 DEF Inherited

LEMMA InheritKeeps ==
    ASSUME LoadInv, SourceInv, NoEmptyOverrides, PlanInv, InheritInv, Next
    PROVE  InheritInv'
<1> USE NamesAssumption
<1>1. CASE Loads
    <2>1. stage # "accepted" /\ UNCHANGED <<cache, walk>>
        BY <1>1 DEF Loads, planVars, Load, SkipUnnamed, ParseDuplicate, ParseEnvironment,
                    Validate, VisitNext, VisitParent, FindCycle, EndVisit, Finish
    <2>2. DOMAIN cache = {} /\ walk = NoName
        BY <2>1 DEF PlanInv, PlanStageInv
    <2> QED
        BY <2>1, <2>2 DEF InheritInv, InheritanceCorrect, WalkInv
<1>2. ASSUME UNCHANGED <<configVars, cache, walk>>, walk # NoName => UNCHANGED calls
      PROVE  InheritInv'
    <2>1. UNCHANGED <<doc, config>>
        BY <1>2 DEF configVars
    <2>2. InheritanceCorrect'
        BY <1>2, <2>1, SameInheritance DEF InheritInv, InheritanceCorrect
    <2>3. WalkInv'
        BY <1>2, <2>1, SameInheritance DEF InheritInv, WalkInv, Current
    <2> QED
        BY <2>2, <2>3 DEF InheritInv
<1>3. CASE AskAll \/ (\E n \in Names : AskOne(n)) \/ AddToPlan \/ Complete
    <2>1. UNCHANGED <<configVars, cache, walk, calls>>
        BY <1>3 DEF AskAll, AskOne, AddToPlan, Complete
    <2> QED
        BY <1>2, <2>1
<1>4. CASE EnterTarget \/ EnterParent
    <2>1. UNCHANGED <<configVars, cache, walk>> /\ (calls = <<>> \/ walk = NoName)
        BY <1>4 DEF EnterTarget, EnterParent, Enter
    <2>2. walk = NoName
        BY <2>1 DEF PlanInv, PlanStageInv
    <2> QED
        BY <1>2, <2>1, <2>2
<1>5. CASE SeekForwards
    <2>1. UNCHANGED <<configVars, cache, calls>> /\ walk' = Current
        BY <1>5 DEF SeekForwards
    <2>2. UNCHANGED <<doc, config>> /\ Current' = Current
        BY <2>1 DEF configVars, Current
    <2>3. InheritanceCorrect'
        BY <2>1, <2>2, SameInheritance DEF InheritInv, InheritanceCorrect
    <2>4. WalkInv'
        BY <2>1, <2>2 DEF WalkInv
    <2> QED
        BY <2>3, <2>4 DEF InheritInv
<1>6. CASE SeekInParent
    <2>1. /\ UNCHANGED <<configVars, cache, calls>> /\ walk' = Parent(walk)
          /\ walk # NoName /\ config[walk].forwards = <<>> /\ Parent(walk) \in Defined
        BY <1>6 DEF SeekInParent
    <2>2. UNCHANGED <<doc, config>> /\ Current' = Current
        BY <2>1 DEF configVars, Current
    <2>3. InheritanceCorrect'
        BY <2>1, <2>2, SameInheritance DEF InheritInv, InheritanceCorrect
    <2>4. walk \in Defined /\ stage = "accepted" /\ HasParent(walk)
        BY <2>1 DEF PlanInv, PlanTypeOK, PlanStageInv, LoadInv, ConfigTypeOK, HasParent
    <2>5. Acyclic
        BY <2>4, LoadInvAcyclic DEF Acyclic, AcceptedAcyclic
    <2>6. Listed(Parent(walk)) = Listed(Current)
        BY <2>1, <2>4, <2>5, ListedStep DEF InheritInv, WalkInv
    <2>7. WalkInv'
        BY <2>1, <2>2, <2>6, SameInheritance DEF WalkInv
    <2> QED
        BY <2>3, <2>7 DEF InheritInv
<1>7. CASE Resolve
    <2>1. /\ UNCHANGED configVars /\ walk # NoName /\ walk' = NoName
          /\ config[walk].forwards # <<>> \/ Parent(walk) \notin Defined
          /\ cache' = [n \in DOMAIN cache \cup {Current} |->
                        IF n \in DOMAIN cache THEN cache[n] ELSE Effective]
        BY <1>7 DEF Resolve
    <2>2. UNCHANGED <<doc, config>>
        BY <2>1 DEF configVars
    <2>3. Effective = Inherited(Current)
        BY <2>1, EffectiveInherited
    <2>4. \A n \in DOMAIN cache' : cache'[n] = Inherited(n)
        BY <2>1, <2>3 DEF InheritInv, InheritanceCorrect
    <2> QED
        BY <2>1, <2>2, <2>4, SameInheritance DEF InheritInv, InheritanceCorrect, WalkInv
<1> QED
    BY <1>1, <1>3, <1>4, <1>5, <1>6, <1>7 DEF Next, Resolves

LEMMA InheritInvariance ==
    ASSUME NoEmptyOverrides
    PROVE  Spec => []InheritInv
<1>1. Init => InheritInv
    BY DEF Init, InheritInv, InheritanceCorrect, WalkInv
<1>2. InheritInv /\ SourceInv /\ LoadInv /\ PlanInv /\ [Next]_vars => InheritInv'
    <2> SUFFICES ASSUME InheritInv, SourceInv, LoadInv, PlanInv, [Next]_vars PROVE InheritInv'
        OBVIOUS
    <2>1. CASE Next
        BY <2>1, InheritKeeps
    <2>2. CASE UNCHANGED vars
        <3>1. UNCHANGED <<doc, config, cache, walk, calls>>
            BY <2>2 DEF vars, configVars, planVars
        <3>2. InheritanceCorrect'
            BY <3>1, SameInheritance DEF InheritInv, InheritanceCorrect
        <3>3. WalkInv'
            BY <3>1, SameInheritance DEF InheritInv, WalkInv, Current
        <3> QED
            BY <3>2, <3>3 DEF InheritInv
    <2> QED
        BY <2>1, <2>2
<1> QED
    BY <1>1, <1>2, Invariance, SourceInvariance, PTL DEF Spec
-----------------------------------------------------------------------------
(* Ports.                                                                  *)

\* Without an error the ports of every environment have been compared, and
\* those of what has been resolved are the ones of some environment.
PortsInv ==
    /\ stage # "parse" /\ errors = {} => \A n \in Defined : DistinctPorts(config[n].forwards)
    /\ \A n \in DOMAIN cache : DistinctPorts(cache[n].forwards)

LEMMA ResolvedPorts ==
    ASSUME NEW forwards, NEW settings, DistinctPorts(forwards)
    PROVE  DistinctPorts(ResolveForwards(forwards, settings))
<1> DEFINE R == ResolveForwards(forwards, settings)
<1>1. /\ DOMAIN R = DOMAIN forwards
      /\ \A i \in DOMAIN forwards :
            /\ DOMAIN R[i].ports = DOMAIN forwards[i].ports
            /\ \A k \in DOMAIN forwards[i].ports :
                R[i].ports[k].local = forwards[i].ports[k].local
    BY DEF ResolveForwards
<1> HIDE DEF R
<1>2. \A p \in Places(R) : p \in Places(forwards) /\ LocalPort(R, p) = LocalPort(forwards, p)
    BY <1>1 DEF Places, LocalPort
<1>3. DistinctPorts(R)
    BY <1>2 DEF DistinctPorts
<1> QED
    BY <1>3 DEF R

LEMMA ValidatedPorts ==
    ASSUME LoadInv, Validate, errors' = {}, NEW n \in Defined
    PROVE  DistinctPorts(config[n].forwards)
<1>1. Flaws(config[n]) \X {n} \subseteq errors'
    BY DEF Validate
<1>2. "local" \notin Flaws(config[n])
    <2> DEFINE flaws == Flaws(config[n])
    <2> HIDE DEF flaws
    <2>1. flaws \X {n} \subseteq {}
        BY <1>1 DEF flaws
    <2>2. \A k \in flaws : <<k, n>> \in flaws \X {n}
        OBVIOUS
    <2> QED
        BY <2>1, <2>2 DEF flaws
<1> QED
    BY <1>2 DEF Flaws

LEMMA PortsKept == ASSUME LoadInv, PlanInv, PortsInv, Next PROVE PortsInv'
<1> USE DEF PortsInv
<1>1. CASE Loads
    <2>1. UNCHANGED cache /\ Load
        BY <1>1 DEF Loads, planVars
    <2>2. CASE SkipUnnamed \/ ParseDuplicate \/ ParseEnvironment
        BY <2>1, <2>2 DEF SkipUnnamed, ParseDuplicate, ParseEnvironment
    <2>3. CASE Validate
        BY <2>1, <2>3, ValidatedPorts DEF Validate, Defined
    <2>4. CASE VisitNext \/ VisitParent \/ FindCycle \/ EndVisit \/ Finish
        <3>1. stage = "extends" /\ errors \subseteq errors' /\ UNCHANGED config
            BY <2>4 DEF VisitNext, VisitParent, FindCycle, EndVisit, Finish, Begin, End
        <3> QED
            BY <2>1, <3>1 DEF Defined
    <2> QED
        BY <2>1, <2>2, <2>3, <2>4 DEF Load
<1>2. CASE Resolve
    <2>1. /\ UNCHANGED configVars /\ walk # NoName
          /\ cache' = [n \in DOMAIN cache \cup {Current} |->
                        IF n \in DOMAIN cache THEN cache[n] ELSE Effective]
        BY <1>2 DEF Resolve
    <2>2. stage = "accepted" /\ errors = {} /\ walk \in Defined
        BY <2>1 DEF PlanInv, PlanStageInv, PlanTypeOK, LoadInv, StageInv
    <2>3. DistinctPorts(config[walk].forwards)
        BY <2>2
    <2>4. DistinctPorts(Effective.forwards)
        BY <2>3, ResolvedPorts DEF Effective
    <2>5. \A n \in DOMAIN cache' : DistinctPorts(cache'[n].forwards)
        <3> HIDE DEF PortsInv
        <3>1. SUFFICES ASSUME NEW n \in DOMAIN cache' PROVE DistinctPorts(cache'[n].forwards)
            OBVIOUS
        <3>2. CASE n \in DOMAIN cache
            <4>1. cache'[n] = cache[n]
                BY <2>1, <3>2
            <4> QED
                BY <4>1, <3>2 DEF PortsInv
        <3>3. CASE n \notin DOMAIN cache
            <4>1. cache'[n] = Effective
                BY <2>1, <3>1, <3>3
            <4> QED
                BY <4>1, <2>4
        <3> QED
            BY <3>2, <3>3
    <2>6. UNCHANGED <<stage, errors, config>> /\ Defined' = Defined
        BY <2>1 DEF configVars, Defined
    <2> QED
        BY <2>5, <2>6
<1>3. CASE UNCHANGED <<configVars, cache>>
    BY <1>3 DEF configVars, Defined
<1>4. Next => Loads \/ Resolve \/ UNCHANGED <<configVars, cache>>
    BY DEF Next, Resolves, AskAll, AskOne, EnterTarget, EnterParent, Enter, SeekForwards,
           SeekInParent, AddToPlan, Complete
<1> QED
    BY <1>1, <1>2, <1>3, <1>4

LEMMA PortsInvariance == Spec => []PortsInv
<1>1. Init => PortsInv
    BY DEF Init, LoadInit, PortsInv
<1>2. PortsInv /\ LoadInv /\ PlanInv /\ [Next]_vars => PortsInv'
    <2>1. UNCHANGED vars /\ PortsInv => PortsInv'
        BY DEF vars, configVars, planVars, PortsInv, Defined
    <2> QED
        BY <2>1, PortsKept
<1> QED
    BY <1>1, <1>2, Invariance, PTL DEF Spec


-----------------------------------------------------------------------------
(* The theorems.                                                           *)

\* The loader's variables have their types, and the search's stack holds the
\* environments it is visiting, each the parent of the one before
\* (ValidateEnvironmentExtends).
THEOREM LoadTypeCorrect == Spec => []ConfigTypeOK
<1>1. LoadInv /\ PlanInv => ConfigTypeOK
    BY DEF LoadInv
<1> QED
    BY <1>1, Invariance, PTL

\* What the loader accepts has no circle of `extends` and no parent that does
\* not exist, however many environments extend one another in whatever way
\* (ValidateEnvironmentExtends finds every cycle).
THEOREM AcyclicCorrect == Spec => []AcceptedAcyclic
<1>1. LoadInv /\ PlanInv => AcceptedAcyclic
    BY LoadInvAcyclic
<1> QED
    BY <1>1, Invariance, PTL

\* An environment that the loader blames for a cycle lies on one
\* (ValidateEnvironmentExtends blames nobody else).
THEOREM CyclesCorrect == Spec => []CycleErrorsReal
<1>1. LoadInv /\ PlanInv => CycleErrorsReal
    BY DEF LoadInv
<1> QED
    BY <1>1, Invariance, PTL

\* The plan's variables have their types, and the calls in progress follow
\* `extends` without coming back to one of them (ResolveEnvironmentRecursive).
THEOREM PlanTypeCorrect == Spec => []PlanTypeOK
<1>1. LoadInv /\ PlanInv => PlanTypeOK
    BY DEF PlanInv
<1> QED
    BY <1>1, Invariance, PTL

\* ResolveEnvironmentRecursive never reports a cycle or an unknown parent: the
\* loader has.
THEOREM LoaderCorrect == Spec => []LoaderSuffices
<1>1. LoadInv /\ PlanInv => LoaderSuffices
    BY DEF PlanInv, CacheInv
<1> QED
    BY <1>1, Invariance, PTL

\* An environment that has been resolved is a production one if any
\* environment is that it inherits from, at whatever distance.
LEMMA ProductionInherited ==
    ASSUME PlanInv, NEW n \in DOMAIN cache, Production(n)
    PROVE  cache[n].production
<1> SUFFICES ASSUME ~cache[n].production PROVE FALSE
    OBVIOUS
<1> DEFINE S == {m \in DOMAIN cache : ~cache[m].production}
<1>1. S \in SUBSET Defined /\ n \in S
    BY DEF PlanInv, PlanTypeOK
<1>2. \A m \in S : HasParent(m) => Parent(m) \in S
    BY DEF PlanInv, CacheInv
<1>3. PICK a \in Line(n) : config[a].production
    BY DEF Production
<1>4. a \in S
    BY <1>1, <1>2, <1>3 DEF Line
<1> QED
    BY <1>3, <1>4 DEF PlanInv, CacheInv

\* A plan has no foreground forward in an environment that is a production one
\* or inherits from one (MergeEnvironmentGuards, ValidateResolvedEnvironment).
THEOREM ProductionCorrect == Spec => []ProductionDetached
<1>1. LoadInv /\ PlanInv => ProductionDetached
    <2> SUFFICES ASSUME PlanInv, planStage = "planned", NEW n \in plan, Production(n)
                 PROVE  \A i \in DOMAIN cache[n].forwards : cache[n].forwards[i].detach
        BY DEF ProductionDetached
    <2>1. n \in DOMAIN cache /\ planErrors = {}
        BY DEF PlanInv, PlanTypeOK, PlanStageInv
    <2>2. cache[n].production
        BY <2>1, ProductionInherited
    <2> QED
        BY <2>1, <2>2 DEF PlanInv, CacheInv
<1> QED
    BY <1>1, Invariance, PTL

\* Whatever has been resolved has the nearest value of its line for each
\* setting, the guard of all of it, and the nearest list of forwards that is
\* given, for configurations of any size and in any order of resolution
\* (ResolveEnvironmentRecursive, ResolveForwardDefinitions), as long as no
\* environment gives an empty list where it extends another one: the code
\* takes that for a list that is missing.
THEOREM InheritCorrect ==
    ASSUME NoEmptyOverrides
    PROVE  Spec => []InheritanceCorrect
<1>1. InheritInv => InheritanceCorrect
    BY DEF InheritInv
<1> QED
    BY <1>1, InheritInvariance, PTL

\* No environment of a plan listens twice on a port, though the ports are
\* compared before forwards are inherited (ValidateEnvironment,
\* ResolveForwardDefinitions).
THEOREM PortsCorrect == Spec => []PortsDistinctPostMerge
<1>1. PlanInv /\ PortsInv => PortsDistinctPostMerge
    BY DEF PlanInv, PlanTypeOK, PortsInv, PortsDistinctPostMerge
<1> QED
    BY <1>1, Invariance, PortsInvariance, PTL
=============================================================================
