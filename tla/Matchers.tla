------------------------------ MODULE Matchers ------------------------------
(***************************************************************************)
(* Evaluation of a matcher tree against a routing context: eval_tree,      *)
(* glob_match and MatcherEval of src/crates/core/src/routing.rs.           *)
(*                                                                         *)
(* Texts are sequences of characters, <<>> stands for a missing text       *)
(* (None).  A node is a record with an op, its arguments, and of, the      *)
(* sequence of its children; its evaluation adds matched.                  *)
(***************************************************************************)
EXTENDS Naturals, SequencesExt

CONSTANTS
    Chars,        \* the characters of texts
    Nodes,        \* trees and what they are made of
    Trees,        \* the trees under consideration
    Height,       \* [Nodes -> Nat]: how deep a node's children nest
    MaxHeight,    \* bound: a document is parsed to a limited depth
    TextContexts, \* the contexts: host, path, app, bundle, browser, profile
    LowerCase     \* the lower-case form of each letter that has one

ASSUME MatchersAssumption ==
    /\ Trees \subseteq Nodes
    /\ MaxHeight \in Nat /\ Height \in [Nodes -> 0..MaxHeight]
    /\ \A t \in Nodes : t.of \in Seq(Nodes)
    /\ \A t \in Nodes : \A i \in DOMAIN t.of : Height[t.of[i]] < Height[t]
    /\ \A t \in Nodes : t.op = "url-host" => t.pattern \in Seq(Chars)
    /\ \A c \in TextContexts : c.host \in Seq(Chars)

VARIABLES tree, context, eval

matcherVars == <<tree, context, eval>>

None == <<>>
Dot == <<".">>
Unevaluated == [op |-> "none", matched |-> FALSE, of |-> <<>>]

Lower(text) ==
    [i \in DOMAIN text |->
        IF text[i] \in DOMAIN LowerCase THEN LowerCase[text[i]] ELSE text[i]]

EqIgnoreCase(a, b) == Lower(a) = Lower(b)

\* Faulty variant: the dot before the domain is not required.
GlobMatchLoose(pattern, value) ==
    IF IsPrefix(<<"*", ".">>, pattern)
    THEN IsSuffix(SubSeq(pattern, 3, Len(pattern)), value)
    ELSE IF IsSuffix(<<"*">>, pattern)
    THEN IsPrefix(Front(pattern), value)
    ELSE pattern = value

\* A leading "*." matches the domain and its subdomains, a trailing "*" any
\* ending; everything else is literal.
GlobMatch(pattern, value) ==
    IF IsPrefix(<<"*", ".">>, pattern)
    THEN LET rest == SubSeq(pattern, 3, Len(pattern))
         IN  value = rest \/ IsSuffix(Dot \o rest, value)
    ELSE IF IsSuffix(<<"*">>, pattern)
    THEN IsPrefix(Front(pattern), value)
    ELSE pattern = value

\* Bundle ids decide when the rule and the context both have one; otherwise
\* the names do.
MatchApp(t, c) ==
    IF t.bundle # None /\ c.bundle # None
    THEN EqIgnoreCase(t.bundle, c.bundle)
    ELSE c.app # None /\ EqIgnoreCase(c.app, t.name)

\* A context whose URL does not parse has neither host nor path.
MatchLeaf(t, c) ==
    CASE t.op = "always"         -> TRUE
      [] t.op = "url-host"       -> c.host # None /\ GlobMatch(t.pattern, c.host)
      [] t.op = "url-path"       -> c.path # None /\ GlobMatch(t.pattern, c.path)
      [] t.op = "source-app"     -> MatchApp(t, c)
      [] t.op = "source-browser" -> c.browser # None /\ EqIgnoreCase(c.browser, t.browser)
      [] t.op = "source-profile" -> c.profile # None /\ c.profile = t.profile

\* What a node makes of its children; an empty "all" does not match.
Combine(op, children) ==
    LET hits == {i \in DOMAIN children : children[i].matched}
    IN  CASE op = "all" -> children # <<>> /\ hits = DOMAIN children
          [] op = "any" -> hits # {}
          [] op = "not" -> hits = {}

\* What a node evaluates to, given its children's evaluations.
Evaluated(t, c, children) ==
    [op |-> t.op, of |-> children,
     matched |-> IF t.op \in {"all", "any", "not"}
                 THEN Combine(t.op, children) ELSE MatchLeaf(t, c)]

EvalTree(t, c) ==
    LET evaluated[u \in Nodes] ==
            Evaluated(u, c, [i \in DOMAIN u.of |-> evaluated[u.of[i]]])
    IN  evaluated[t]

MatchersInit ==
    /\ tree \in Trees
    /\ context \in TextContexts
    /\ eval = Unevaluated

EvaluateTree ==
    /\ eval = Unevaluated
    /\ eval' = EvalTree(tree, context)
    /\ UNCHANGED <<tree, context>>

MatchersSpec == MatchersInit /\ [][EvaluateTree]_matcherVars

Done == eval # Unevaluated

-----------------------------------------------------------------------------
\* The labels of a host name, between the dots.
Labels(host) ==
    LET dots == {i \in DOMAIN host : host[i] = "."}
        cuts == {0, Len(host) + 1} \cup dots
        NextCut(i) == CHOOSE j \in cuts : j > i /\ \A k \in cuts : k > i => j <= k
    IN  [i \in cuts \ {Len(host) + 1} |-> SubSeq(host, i + 1, NextCut(i) - 1)]

\* "*.corp.com" matches corp.com and what has corp.com as its last labels,
\* never a host that merely ends in the same letters.
HostGlobIsByLabel ==
    Done /\ tree.op = "url-host" /\ IsPrefix(<<"*", ".">>, tree.pattern) =>
        LET rest == SubSeq(tree.pattern, 3, Len(tree.pattern))
        IN  eval.matched <=>
                /\ context.host # None
                /\ \E i \in DOMAIN Labels(context.host) :
                       SubSeq(context.host, i + 1, Len(context.host)) = rest

\* The comment on MatcherTree::SourceApp: a bundle id on both sides settles the
\* match, whatever the localised names are.
BundleSettles ==
    Done /\ tree.op = "source-app" /\ tree.bundle # None /\ context.bundle # None =>
        (eval.matched <=> EqIgnoreCase(tree.bundle, context.bundle))

\* The boolean laws the rule editor relies on, for every tree the evaluator
\* annotates: an empty group never matches, so a rule that lost its conditions
\* does not take over every link, and a group that is not empty obeys
\* De Morgan's law.
Dual(op) == IF op = "all" THEN "any" ELSE "all"
Negated(t) == [op |-> "not", of |-> <<t>>]
DeMorgan(t) == Negated([op |-> Dual(t.op), of |-> [i \in DOMAIN t.of |-> Negated(t.of[i])]])
GroupLaws ==
    Done /\ tree.op \in {"all", "any"} =>
        IF tree.of = <<>> THEN ~eval.matched
        ELSE DeMorgan(tree) \in Nodes =>
                 (eval.matched <=> EvalTree(DeMorgan(tree), context).matched)

\* What a rule's author may count on, in whatever tree: domain globs respect
\* labels, a bundle id settles the application, and groups obey the laws of
\* Boolean algebra.
MatcherLaws == HostGlobIsByLabel /\ BundleSettles /\ GroupLaws
=============================================================================
