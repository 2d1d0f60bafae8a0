------------------------------ MODULE MCRouter ------------------------------
(***************************************************************************)
(* The router over every list of up to three rules and both states of the  *)
(* shortcut, beside the matchers over leaves on short texts and trees of   *)
(* depth two over some leaves.  They share no state: either the document   *)
(* or the tree is a fixed one while the other ranges.                      *)
(***************************************************************************)
EXTENDS Router, Matchers

CONSTANTS b1, b2, c1, ws1

-----------------------------------------------------------------------------
SomeRules ==
    [enabled : BOOLEAN, workspace : {NoWorkspace, ws1}, when : {{}, {c1}},
     then : {Open(b1), Ask, Block}]

\* A rule that takes part, and one that does not for each of the reasons.
LiveRules ==
    {r \in SomeRules : r.enabled /\ r.workspace = NoWorkspace} \cup
    {r \in SomeRules : r.when = {c1} /\ r.then = Open(b1)}

Lists == UNION {[1..n -> LiveRules] : n \in 0..3}

MCDocs ==
    [smart : {TRUE}, rules : Lists, paused : {{}, {ws1}}, default : {b2},
     hidden : {{}}] \cup
    [smart : BOOLEAN, rules : [1..1 -> LiveRules], paused : {{}},
     default : {b2, System}, hidden : {{}}]

NoRules ==
    [smart |-> TRUE, rules |-> <<>>, paused |-> {}, default |-> b2, hidden |-> {}]

-----------------------------------------------------------------------------
Texts(chars, n) == UNION {[1..k -> chars] : k \in 0..n}

Hosts == Texts({"a", "b", "."}, 4)
Names == {None, <<"x">>, <<"X">>, <<"y">>}

Context(host, path, app, bundle, browser, profile) ==
    [host |-> host, path |-> path, app |-> app, bundle |-> bundle,
     browser |-> browser, profile |-> profile]

HostContexts == {Context(h, None, None, None, None, None) : h \in Hosts}
PathContexts == {Context(None, <<"/">> \o p, None, None, None, None) :
                    p \in Texts({"a", "b"}, 3)}
SourceContexts == {Context(<<"a">>, <<"a">>, n, m, b, p) :
                    n \in Names, m \in Names, b \in Names, p \in Names}

HostLeaves ==
    {[op |-> "url-host", pattern |-> p, of |-> <<>>] :
        p \in {<<"*", ".", "a">>, <<"*", ".", "b", ".", "a">>, <<"*", ".">>, <<"a">>, <<"a", "*">>}}
PathLeaves == {[op |-> "url-path", pattern |-> p, of |-> <<>>] :
    p \in {<<"/", "a", "*">>, <<"/", "a", "b">>, <<"*">>}}
SourceLeaves ==
    {[op |-> "source-app", name |-> n, bundle |-> b, of |-> <<>>] :
        n \in Names \ {None}, b \in Names} \cup
    {[op |-> "source-browser", browser |-> <<"x">>, of |-> <<>>],
     [op |-> "source-profile", profile |-> <<"x">>, of |-> <<>>]}
Always == [op |-> "always", of |-> <<>>]

\* Groups of up to two children, negations, and one more level over them.
Grow(leaves) ==
    {[op |-> o, of |-> cs] : o \in {"all", "any"}, cs \in Texts(leaves, 2)} \cup
    {[op |-> "not", of |-> <<l>>] : l \in leaves}
FewLeaves ==
    {[op |-> "source-app", name |-> <<"x">>, bundle |-> <<"y">>, of |-> <<>>],
     [op |-> "source-profile", profile |-> <<"x">>, of |-> <<>>]}
Groups == Grow(FewLeaves)

\* Leaves, groups, and negated groups.
AllTrees == HostLeaves \cup PathLeaves \cup SourceLeaves \cup {Always} \cup Groups
            \cup {Negated(g) : g \in Groups}
AllContexts == HostContexts \cup PathContexts \cup SourceContexts


\* De Morgan's form of each group, with its parts.
Inner == {[op |-> o, of |-> cs] :
            o \in {"all", "any"}, cs \in Texts({Negated(l) : l \in FewLeaves}, 2)}
AllNodes == AllTrees \cup Inner \cup {Negated(g) : g \in Inner}

AllHeights ==
    [t \in AllNodes |->
        IF t.op \notin {"all", "any", "not"} THEN 0
        ELSE IF t \in Groups THEN 1
        ELSE IF t \in Inner \/ t.of[1] \in Groups THEN 2
        ELSE 3]

AllChars == {"a", "b", ".", "/", "*", "x", "X", "y"}
ToLower == [c \in {"X"} |-> "x"]

-----------------------------------------------------------------------------
RoutingInit ==
    \/ doc = NoRules /\ shortcut = FALSE /\ Init /\ MatchersInit
    \/ /\ tree = Always /\ context = Context(None, None, None, None, None, None)
       /\ MatchersInit /\ Init

RoutingNext ==
    \/ Next /\ UNCHANGED matcherVars
    \/ EvaluateTree /\ UNCHANGED vars

RoutingSpec ==
    RoutingInit /\ [][RoutingNext]_<<vars, matcherVars>> /\ WF_vars(Next)
=============================================================================
