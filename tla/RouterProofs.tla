---------------------------- MODULE RouterProofs ----------------------------
(***************************************************************************)
(* Theorems about Router, for any documents, rules and contexts, and about *)
(* Matchers, for trees of any depth and texts of any length.               *)
(***************************************************************************)
EXTENDS Router, Matchers, SequenceTheorems, NaturalsInduction,
        WellFoundedInduction, TLAPS

\* The rules behind the loop: none of them decided, and skipped is the first
\* of them that matched.
LoopInv ==
    /\ \A i \in 1..(next - 1) : Hit(i) => shortcut /\ IsAsk(i)
    /\ skipped = 0 => \A i \in 1..(next - 1) : ~Hit(i)
    /\ skipped # 0 =>
        /\ skipped < next
        /\ Hit(skipped)
        /\ \A i \in 1..(skipped - 1) : ~Hit(i)
    /\ chosen # 0 => doc.smart

Results == FirstMatchWins /\ DefaultIsLast /\ ShortcutAsksLast

\* A document's rules are a sequence of rules.
LEMMA DocIsDoc == ASSUME TypeOK PROVE doc.rules \in Seq(Rules)
BY DocsAssumption DEF TypeOK, IsDoc

\* The loop's variables keep their types.
THEOREM RouterTypeCorrect == Spec => []TypeOK
<1>1. Init => TypeOK
    BY DocsAssumption DEF Init, TypeOK, IsDoc
<1>2. TypeOK /\ [Next]_vars => TypeOK'
    <2> SUFFICES ASSUME TypeOK, [Next]_vars PROVE TypeOK'
        OBVIOUS
    <2>1. Len(doc.rules) \in Nat
        BY DocIsDoc
    <2> QED
        BY <2>1 DEF TypeOK, vars, input, Next, SwitchedOff, Return, Looking,
            PassOver, SkipAsk, Take, Exhausted
<1> QED
    BY <1>1, <1>2, PTL DEF Spec

\* Nothing is behind the loop when it starts.
LEMMA LoopInit == Init => LoopInv
BY DEF Init, LoopInv

\* Every step of the loop keeps LoopInv.
LEMMA LoopStep == TypeOK /\ LoopInv /\ [Next]_vars => LoopInv'
<1> SUFFICES ASSUME TypeOK, LoopInv, [Next]_vars PROVE LoopInv'
    OBVIOUS
<1>1. Len(doc.rules) \in Nat
    BY DocIsDoc
<1>2. UNCHANGED input
    BY DEF vars, input, Next, SwitchedOff, Return, PassOver, SkipAsk, Take,
        Exhausted
<1>3. \A i : (Hit(i)' <=> Hit(i)) /\ (IsAsk(i)' <=> IsAsk(i))
    BY <1>2 DEF input, Hit, IsAsk
<1>4. (chosen # 0 => doc.smart)'
    BY <1>2 DEF LoopInv, input, vars, Next, SwitchedOff, Return, Looking,
        PassOver, SkipAsk, Take, Exhausted
<1>5. CASE UNCHANGED <<next, skipped>>
    BY <1>2, <1>3, <1>4, <1>5 DEF LoopInv, input
<1>6. CASE PassOver
    BY <1>1, <1>2, <1>3, <1>4, <1>6 DEF PassOver, Looking, LoopInv, TypeOK, input
<1>7. CASE SkipAsk
    BY <1>1, <1>2, <1>3, <1>4, <1>7 DEF SkipAsk, Looking, LoopInv, TypeOK, input
<1> QED
    BY <1>5, <1>6, <1>7
    DEF Next, SwitchedOff, Take, Exhausted, Return, vars

\* A loop that stops stops with the right result.
LEMMA ResultsStep == TypeOK /\ LoopInv /\ Results /\ [Next]_vars => Results'
<1> SUFFICES ASSUME TypeOK, LoopInv, Results, [Next]_vars PROVE Results'
    OBVIOUS
<1> USE DEF Results, FirstMatchWins, DefaultIsLast, ShortcutAsksLast
<1>1. Len(doc.rules) \in Nat
    BY DocIsDoc
<1>2. UNCHANGED input
    BY DEF vars, input, Next, SwitchedOff, Return, PassOver, SkipAsk, Take,
        Exhausted
<1>3. \A i : (Hit(i)' <=> Hit(i)) /\ (IsAsk(i)' <=> IsAsk(i))
    BY <1>2 DEF input, Hit, IsAsk
<1>4. CASE UNCHANGED <<state, chosen>>
    BY <1>2, <1>3, <1>4 DEF input
<1>5. CASE SwitchedOff
    BY <1>2, <1>5 DEF SwitchedOff, Return, input
<1>6. CASE Take
    BY <1>1, <1>2, <1>3, <1>6 DEF Take, Return, Looking, LoopInv, TypeOK, input
<1>7. CASE Exhausted
    BY <1>1, <1>2, <1>3, <1>7 DEF Exhausted, Return, LoopInv, TypeOK, input
<1> QED
    BY <1>4, <1>5, <1>6, <1>7 DEF Next, PassOver, SkipAsk, vars

\* The results are right throughout.
LEMMA ResultsHold == Spec => []Results
<1>1. Init => Results
    BY DEF Init, Results, FirstMatchWins, DefaultIsLast, ShortcutAsksLast
<1> QED
    BY <1>1, LoopInit, LoopStep, ResultsStep, RouterTypeCorrect, PTL DEF Spec

\* For every list of rules, the rule that decides matches, and every match
\* above it was an Ask passed over because the shortcut was held.
THEOREM ListOrderIsPriority == Spec => []FirstMatchWins
<1>1. Results => FirstMatchWins
    BY DEF Results
<1> QED
    BY <1>1, ResultsHold, PTL

\* For every list of rules, the default target decides only when smart
\* routing is off or nothing matches, shortcut or not.
THEOREM DefaultOnlyWithoutMatch == Spec => []DefaultIsLast
<1>1. Results => DefaultIsLast
    BY DEF Results
<1> QED
    BY <1>1, ResultsHold, PTL

\* For every list of rules, an Ask decides under the shortcut only when it is
\* the first match and no match is anything else.
THEOREM ShortcutAsksOnlyIfAllAsk == Spec => []ShortcutAsksLast
<1>1. Results => ShortcutAsksLast
    BY DEF Results
<1> QED
    BY <1>1, ResultsHold, PTL

\* For every document, context and shortcut the right rule decides: the three
\* results above together.
THEOREM RightRuleDecides == Spec => []RightRule
<1>1. Results => RightRule
    BY DEF Results, RightRule
<1> QED
    BY <1>1, ResultsHold, PTL

\* The least member of a set of positions is the first one.
LEMMA FirstIsLeast ==
    ASSUME NEW S \in SUBSET Nat, NEW n \in S, \A j \in S : n <= j
    PROVE  First(S) = n
<1>1. PICK m \in S : m = First(S) /\ \A j \in S : m <= j
    BY DEF First
<1> QED
    BY <1>1

\* For every document and context the loop returns what the definition says,
\* with the shortcut and without.
THEOREM LoopComputesEvaluate == Spec => []LoopIsEvaluate
<1>1. TypeOK /\ LoopInv /\ Results => LoopIsEvaluate
    <2> SUFFICES ASSUME TypeOK, LoopInv, Results, state = "done"
                 PROVE  Decision = Evaluate(doc, ctx, shortcut)
        BY DEF LoopIsEvaluate
    <2> DEFINE hits  == {i \in 1..Len(doc.rules) : Hit(i)}
               taken == {i \in hits : ~(shortcut /\ IsAsk(i))}
    <2>1. Len(doc.rules) \in Nat
        BY DocIsDoc
    <2>2. Evaluate(doc, ctx, shortcut) =
            IF ~doc.smart \/ hits = {} THEN DefaultDecision(doc)
            ELSE IF taken = {} THEN doc.rules[First(hits)].then
            ELSE doc.rules[First(taken)].then
        BY DEF Evaluate, Hit, IsAsk
    <2>3. CASE chosen = 0
        BY <2>2, <2>3 DEF Results, DefaultIsLast, Decision
    <2>4. CASE chosen # 0
        <3>1. chosen \in hits /\ doc.smart
            BY <2>1, <2>4 DEF Results, FirstMatchWins, LoopInv, TypeOK
        <3>2. hits \in SUBSET Nat /\ taken \in SUBSET Nat
            BY <2>1
        <3>3. CASE shortcut /\ IsAsk(chosen)
            <4>1. taken = {}
                BY <2>1, <2>4, <3>3 DEF Results, ShortcutAsksLast
            <4>2. \A j \in hits : chosen <= j
                BY <2>1, <2>4, <3>1, <3>3 DEF Results, ShortcutAsksLast
            <4>3. First(hits) = chosen
                BY <3>1, <3>2, <4>2, FirstIsLeast
            <4> HIDE DEF hits, taken
            <4> QED
                BY <2>2, <2>4, <3>1, <4>1, <4>3 DEF Decision
        <3>4. CASE ~(shortcut /\ IsAsk(chosen))
            <4>1. chosen \in taken
                BY <3>1, <3>4
            <4>2. \A j \in taken : chosen <= j
                BY <2>1, <2>4, <3>1 DEF Results, FirstMatchWins
            <4>3. First(taken) = chosen
                BY <3>2, <4>1, <4>2, FirstIsLeast
            <4> HIDE DEF hits, taken
            <4> QED
                BY <2>2, <2>4, <3>1, <4>1, <4>3 DEF Decision
        <3> QED
            BY <3>3, <3>4
    <2> QED
        BY <2>3, <2>4
<1> QED
    BY <1>1, RouterTypeCorrect, LoopInit, LoopStep, ResultsHold, PTL DEF Spec
-----------------------------------------------------------------------------
(* Matcher trees, of any depth and over any texts.                         *)

\* A set of numbers has a least one.
LEMMA LeastNat ==
    ASSUME NEW T \in SUBSET Nat, T # {}
    PROVE  \E x \in T : \A y \in T : x <= y
<1> DEFINE Less == {ss \in Nat \X Nat : ss[1] < ss[2]}
<1>1. IsWellFoundedOn(Less, Nat)
    BY NatLessThanWellFounded, Zenon DEF OpToRel
<1>2. \A x, y \in Nat : y < x => <<y, x>> \in Less
    OBVIOUS
<1> HIDE DEF Less
<1>3. PICK x \in T : \A y \in T : ~(<<y, x>> \in Less)
    BY <1>1, WFMin
<1>4. ASSUME NEW y \in T
      PROVE  x <= y
    <2>1. x \in Nat /\ y \in Nat
        OBVIOUS
    <2>2. ~(y < x)
        BY <1>2, <1>3, <2>1
    <2> QED
        BY <2>1, <2>2
<1> QED
    BY <1>4

\* What a node evaluates to follows from what its children evaluate to: the
\* recursion over a tree is well-founded.
LEMMA EvalUnfolds ==
    ASSUME NEW c, NEW t \in Nodes
    PROVE  EvalTree(t, c) = Evaluated(t, c, [i \in DOMAIN t.of |-> EvalTree(t.of[i], c)])
<1> DEFINE Kids(g, u) == [i \in DOMAIN u.of |-> g[u.of[i]]]
           Step(g) == [u \in Nodes |-> Evaluated(u, c, Kids(g, u))]
           Below(g, n) == \A u \in Nodes : Height[u] < n => g[u] = Evaluated(u, c, Kids(g, u))
           T == {n \in Nat : ~\E g : g = [u \in Nodes |-> g[u]] /\ Below(g, n)}
<1>1. /\ \A u \in Nodes : Height[u] \in Nat /\ Height[u] < MaxHeight + 1
      /\ \A u \in Nodes : \A i \in DOMAIN u.of :
             u.of[i] \in Nodes /\ Height[u.of[i]] < Height[u]
      /\ MaxHeight + 1 \in Nat
    BY MatchersAssumption
<1>2. T = {}
    <2> SUFFICES ASSUME T # {} PROVE FALSE
        OBVIOUS
    <2>1. T \in SUBSET Nat
        OBVIOUS
    <2>2. PICK n \in T : \A j \in T : n <= j
        BY <2>1, LeastNat
    <2>3. n # 0
        <3> DEFINE g0 == [u \in Nodes |-> 0]
        <3>1. g0 = [u \in Nodes |-> g0[u]]
            OBVIOUS
        <3>2. Below(g0, 0)
            BY <1>1
        <3> HIDE DEF g0, Below
        <3>3. 0 \notin T
            BY <3>1, <3>2
        <3> HIDE DEF T
        <3> QED
            BY <2>2, <3>3
    <2>4. n - 1 \in Nat /\ n \in Nat /\ n - 1 \notin T
        <3> HIDE DEF T
        <3>1. n \in Nat /\ n - 1 \in Nat /\ ~(n <= n - 1)
            BY <2>1, <2>2, <2>3
        <3> QED
            BY <2>2, <3>1
    <2>5. PICK g : g = [u \in Nodes |-> g[u]] /\ Below(g, n - 1)
        BY <2>4
    <2> DEFINE higher == [u \in Nodes |-> IF Height[u] < n - 1 THEN g[u]
                                        ELSE Evaluated(u, c, Kids(g, u))]
    <2>6. higher = [u \in Nodes |-> higher[u]]
        OBVIOUS
    <2>7. \A u \in Nodes : higher[u] = Evaluated(u, c, Kids(g, u))
        BY <2>5
    <2>8. \A u \in Nodes : Height[u] < n - 1 => higher[u] = g[u]
        OBVIOUS
    <2> HIDE DEF higher
    <2>9. ASSUME NEW u \in Nodes, Height[u] < n
          PROVE  higher[u] = Evaluated(u, c, Kids(higher, u))
        <3>1. \A i \in DOMAIN u.of : higher[u.of[i]] = g[u.of[i]]
            <4> TAKE i \in DOMAIN u.of
            <4>1. u.of[i] \in Nodes /\ Height[u.of[i]] \in Nat /\ Height[u] \in Nat
                  /\ Height[u.of[i]] < Height[u]
                BY <1>1
            <4>2. Height[u.of[i]] < n - 1
                BY <2>4, <2>9, <4>1
            <4> QED
                BY <2>8, <4>1, <4>2
        <3>2. Kids(higher, u) = Kids(g, u)
            BY <3>1
        <3> HIDE DEF Kids
        <3> QED
            BY <2>7, <3>2
    <2>10. Below(higher, n)
        BY <2>9
    <2> HIDE DEF Below
    <2>11. n \notin T
        BY <2>6, <2>10
    <2> HIDE DEF T
    <2> QED
        BY <2>2, <2>11
<1>3. PICK g : g = [u \in Nodes |-> g[u]] /\ Below(g, MaxHeight + 1)
    BY <1>1, <1>2, ZenonT(60)
<1>4. g = Step(g)
    <2>1. \A u \in Nodes : g[u] = Evaluated(u, c, Kids(g, u))
        BY <1>1, <1>3
    <2> HIDE DEF Kids
    <2> QED
        BY <1>3, <2>1
<1> DEFINE all == CHOOSE f : f = Step(f)
<1>5. all = Step(all)
    <2>1. \E f : f = Step(f)
        BY <1>4
    <2> QED
        BY <2>1
<1>6. \A u : EvalTree(u, c) = all[u]
    BY DEF EvalTree
<1> HIDE DEF all
<1>7. all[t] = Evaluated(t, c, Kids(all, t))
    <2> HIDE DEF Kids
    <2> QED
        BY <1>5
<1>8. Kids(all, t) = [i \in DOMAIN t.of |-> EvalTree(t.of[i], c)]
    BY <1>6
<1> HIDE DEF Kids
<1> QED
    BY <1>6, <1>7, <1>8

\* Whether a node matches.
LEMMA EvalMatched ==
    ASSUME NEW c, NEW t \in Nodes
    PROVE  EvalTree(t, c).matched =
               IF t.op \in {"all", "any", "not"}
               THEN Combine(t.op, [i \in DOMAIN t.of |-> EvalTree(t.of[i], c)])
               ELSE MatchLeaf(t, c)
<1> DEFINE kids == [i \in DOMAIN t.of |-> EvalTree(t.of[i], c)]
<1> HIDE DEF kids
<1>1. EvalTree(t, c) = Evaluated(t, c, kids)
    BY EvalUnfolds DEF kids
<1>2. Evaluated(t, c, kids).matched =
          IF t.op \in {"all", "any", "not"} THEN Combine(t.op, kids) ELSE MatchLeaf(t, c)
    BY DEF Evaluated
<1> QED
    BY <1>1, <1>2 DEF kids

\* The groups, in terms of what their children match.
LEMMA GroupsMatch ==
    ASSUME NEW c, NEW t \in Nodes
    PROVE  /\ t.op = "all" => (EvalTree(t, c).matched <=>
                 t.of # <<>> /\ \A i \in DOMAIN t.of : EvalTree(t.of[i], c).matched)
           /\ t.op = "any" => (EvalTree(t, c).matched <=>
                 \E i \in DOMAIN t.of : EvalTree(t.of[i], c).matched)
           /\ t.op = "not" => (EvalTree(t, c).matched <=>
                 \A i \in DOMAIN t.of : ~EvalTree(t.of[i], c).matched)
<1> DEFINE kids == [i \in DOMAIN t.of |-> EvalTree(t.of[i], c)]
           hits == {i \in DOMAIN kids : kids[i].matched}
<1>1. DOMAIN kids = DOMAIN t.of /\ \A i \in DOMAIN t.of : kids[i] = EvalTree(t.of[i], c)
    OBVIOUS
<1>2. kids = <<>> <=> t.of = <<>>
    <2>1. t.of \in Seq(Nodes)
        BY MatchersAssumption
    <2>2. t.of = <<>> <=> DOMAIN t.of = {}
        <3> DEFINE list == t.of
        <3>1. list \in Seq(Nodes)
            BY <2>1
        <3> HIDE DEF list
        <3>2. list = <<>> <=> DOMAIN list = {}
            BY <3>1
        <3> QED
            BY <3>2 DEF list
    <2>4. kids = <<>> <=> DOMAIN kids = {}
        <3>1. kids = [i \in DOMAIN kids |-> kids[i]]
            OBVIOUS
        <3> HIDE DEF kids
        <3> QED
            BY <3>1
    <2> QED
        BY <1>1, <2>2, <2>4
<1> HIDE DEF kids
<1>3. \A i \in DOMAIN t.of : i \in hits <=> EvalTree(t.of[i], c).matched
    BY <1>1, Zenon
<1>4. hits \subseteq DOMAIN t.of
    BY <1>1
<1>5. t.op \in {"all", "any", "not"} => EvalTree(t, c).matched = Combine(t.op, kids)
    BY EvalMatched DEF kids
<1>6. /\ Combine("all", kids) = (kids # <<>> /\ hits = DOMAIN kids)
      /\ Combine("any", kids) = (hits # {})
      /\ Combine("not", kids) = (hits = {})
    BY DEF Combine
<1> HIDE DEF hits
<1>7. ASSUME t.op = "all"
      PROVE  EvalTree(t, c).matched <=>
                 t.of # <<>> /\ \A i \in DOMAIN t.of : EvalTree(t.of[i], c).matched
    <2>1. EvalTree(t, c).matched <=> kids # <<>> /\ hits = DOMAIN kids
        BY <1>5, <1>6, <1>7, Zenon
    <2>2. hits = DOMAIN kids <=> \A i \in DOMAIN t.of : i \in hits
        BY <1>1, <1>4
    <2> QED
        BY <1>2, <1>3, <2>1, <2>2, Zenon
<1>8. ASSUME t.op = "any"
      PROVE  EvalTree(t, c).matched <=> \E i \in DOMAIN t.of : EvalTree(t.of[i], c).matched
    <2>1. EvalTree(t, c).matched <=> hits # {}
        BY <1>5, <1>6, <1>8, Zenon
    <2>2. hits # {} <=> \E i \in DOMAIN t.of : i \in hits
        BY <1>4
    <2> QED
        BY <1>3, <2>1, <2>2, Zenon
<1>9. ASSUME t.op = "not"
      PROVE  EvalTree(t, c).matched <=> \A i \in DOMAIN t.of : ~EvalTree(t.of[i], c).matched
    <2>1. EvalTree(t, c).matched <=> hits = {}
        BY <1>5, <1>6, <1>9, Zenon
    <2>2. hits = {} <=> \A i \in DOMAIN t.of : i \notin hits
        BY <1>4
    <2> QED
        BY <1>3, <2>1, <2>2, Zenon
<1> QED
    BY <1>7, <1>8, <1>9, Zenon

\* An empty group does not match, and De Morgan's law.
LEMMA GroupsObey ==
    ASSUME NEW c, NEW t \in Nodes, t.op \in {"all", "any"}
    PROVE  IF t.of = <<>> THEN ~EvalTree(t, c).matched
           ELSE DeMorgan(t) \in Nodes =>
                    (EvalTree(t, c).matched <=> EvalTree(DeMorgan(t), c).matched)
<1> DEFINE M(u) == EvalTree(u, c).matched
           dual == [op |-> Dual(t.op), of |-> [i \in DOMAIN t.of |-> Negated(t.of[i])]]
<1>1. t.of = <<>> => ~M(t)
    <2> HAVE t.of = <<>>
    <2>1. DOMAIN t.of = {}
        OBVIOUS
    <2>2. t.op = "any" => ~M(t)
        BY <2>1, GroupsMatch, Zenon
    <2>3. t.op = "all" => ~M(t)
        BY GroupsMatch, Zenon
    <2> QED
        BY <2>2, <2>3
<1>2. ASSUME t.of # <<>>, DeMorgan(t) \in Nodes
      PROVE  M(t) <=> M(DeMorgan(t))
    <2>1. DeMorgan(t) = Negated(dual)
        BY DEF DeMorgan
    <2>2. /\ Negated(dual).op = "not" /\ Negated(dual).of = <<dual>>
          /\ \A u : Negated(u).op = "not" /\ Negated(u).of = <<u>>
        BY DEF Negated
    <2>3. \A u \in Nodes : \A i \in DOMAIN u.of : u.of[i] \in Nodes
        BY MatchersAssumption
    <2>4. \A u : DOMAIN <<u>> = {1} /\ <<u>>[1] = u
        OBVIOUS
    <2>5. dual \in Nodes
        BY <1>2, <2>1, <2>2, <2>3, <2>4
    <2>6. /\ dual.op = Dual(t.op) /\ DOMAIN dual.of = DOMAIN t.of
          /\ \A i \in DOMAIN t.of : dual.of[i] = Negated(t.of[i])
        OBVIOUS
    <2> HIDE DEF dual
    <2>7. \A i \in DOMAIN t.of : Negated(t.of[i]) \in Nodes
        BY <2>3, <2>5, <2>6
    <2>8. ASSUME NEW u, Negated(u) \in Nodes
          PROVE  M(Negated(u)) <=> ~M(u)
        <3>1. M(Negated(u)) <=> \A i \in DOMAIN Negated(u).of : ~M(Negated(u).of[i])
            BY <2>2, <2>8, GroupsMatch, Zenon
        <3>2. M(Negated(u)) <=> \A i \in {1} : ~M(<<u>>[i])
            BY <2>2, <2>4, <3>1
        <3> QED
            BY <2>4, <3>2
    <2>9. M(DeMorgan(t)) <=> ~M(dual)
        BY <1>2, <2>1, <2>8
    <2>10. \A i \in DOMAIN t.of : M(dual.of[i]) <=> ~M(t.of[i])
        BY <2>6, <2>7, <2>8
    <2>11. dual.of # <<>>
        <3>1. t.of \in Seq(Nodes) /\ dual.of \in Seq(Nodes)
            BY <2>5, MatchersAssumption
        <3> QED
            BY <1>2, <2>6, <3>1
    <2>12. CASE t.op = "all"
        <3>1. M(t) <=> \A i \in DOMAIN t.of : M(t.of[i])
            BY <1>2, <2>12, GroupsMatch, Zenon
        <3>2. dual.op = "any"
            BY <2>6, <2>12 DEF Dual
        <3>3. M(dual) <=> \E i \in DOMAIN dual.of : M(dual.of[i])
            BY <2>5, <3>2, GroupsMatch, Zenon
        <3> HIDE DEF M
        <3> QED
            BY <2>6, <2>9, <2>10, <3>1, <3>3, Zenon
    <2>13. CASE t.op = "any"
        <3>1. M(t) <=> \E i \in DOMAIN t.of : M(t.of[i])
            BY <2>13, GroupsMatch, Zenon
        <3>2. dual.op = "all"
            BY <2>6, <2>13 DEF Dual
        <3>3. M(dual) <=> \A i \in DOMAIN dual.of : M(dual.of[i])
            BY <2>5, <2>11, <3>2, GroupsMatch, Zenon
        <3> HIDE DEF M
        <3> QED
            BY <2>6, <2>9, <2>10, <3>1, <3>3, Zenon
    <2> QED
        BY <2>12, <2>13
<1> QED
    BY <1>1, <1>2, Zenon

\* A text ends in another when it has its characters at the end.
LEMMA SuffixIs ==
    ASSUME NEW S, NEW s \in Seq(S), NEW t \in Seq(S)
    PROVE  IsSuffix(s, t) <=>
               Len(s) <= Len(t) /\ \A i \in 1..Len(s) : t[Len(t) - Len(s) + i] = s[i]
<1> DEFINE m == Len(s)
           n == Len(t)
           rs == Reverse(s)
           rt == Reverse(t)
<1>1. m \in Nat /\ n \in Nat
    OBVIOUS
<1>2. /\ rs \in Seq(S) /\ Len(rs) = m /\ \A j \in 1..m : rs[j] = s[(m - j) + 1]
      /\ rt \in Seq(S) /\ Len(rt) = n /\ \A j \in 1..n : rt[j] = t[(n - j) + 1]
    <2>1. \A j \in 1..m : (m - j) + 1 \in 1..m
        BY <1>1
    <2>2. \A j \in 1..n : (n - j) + 1 \in 1..n
        BY <1>1
    <2>3. rs \in [1..m -> S] /\ rt \in [1..n -> S]
        BY <2>1, <2>2 DEF Reverse
    <2>4. rs \in Seq(S) /\ Len(rs) = m /\ rt \in Seq(S) /\ Len(rt) = n
        <3> HIDE DEF rs, rt, m, n
        <3> QED
            BY <1>1, <2>3
    <2> QED
        BY <2>4 DEF Reverse
<1> HIDE DEF rs, rt
<1>3. IsSuffix(s, t) <=> m <= n /\ SubSeq(rs, 1, m) = SubSeq(rt, 1, m)
    BY <1>2 DEF IsSuffix, IsPrefix, rs, rt
<1>4. ASSUME m <= n
      PROVE  SubSeq(rs, 1, m) = SubSeq(rt, 1, m) <=> \A i \in 1..m : t[n - m + i] = s[i]
    <2> DEFINE a == SubSeq(rs, 1, m)
               b == SubSeq(rt, 1, m)
    <2>1. /\ a \in Seq(S) /\ Len(a) = m /\ \A j \in 1..m : a[j] = rs[j]
          /\ b \in Seq(S) /\ Len(b) = m /\ \A j \in 1..m : b[j] = rt[j]
        BY <1>1, <1>2, <1>4
    <2> HIDE DEF a, b
    <2>2. a = b <=> \A j \in 1..m : a[j] = b[j]
        BY <2>1
    <2>3. \A j \in 1..m : a[j] = s[(m - j) + 1] /\ b[j] = t[(n - j) + 1]
        BY <1>1, <1>2, <1>4, <2>1
    <2>4. ASSUME a = b, NEW i \in 1..m
          PROVE  t[n - m + i] = s[i]
        <3>1. (m - i) + 1 \in 1..m /\ (m - ((m - i) + 1)) + 1 = i
              /\ (n - ((m - i) + 1)) + 1 = n - m + i
            BY <1>1
        <3> QED
            BY <2>3, <2>4, <3>1
    <2>5. ASSUME \A i \in 1..m : t[n - m + i] = s[i], NEW j \in 1..m
          PROVE  a[j] = b[j]
        <3>1. (m - j) + 1 \in 1..m /\ n - m + ((m - j) + 1) = (n - j) + 1
            BY <1>1
        <3> QED
            BY <2>3, <2>5, <3>1
    <2> QED
        BY <2>2, <2>4, <2>5 DEF a, b
<1> QED
    BY <1>3, <1>4

\* What follows a dot.
LEMMA DotSuffix ==
    ASSUME NEW S, NEW host \in Seq(S), NEW rest \in Seq(S)
    PROVE  IsSuffix(Dot \o rest, host) <=>
               \E i \in DOMAIN host : host[i] = "." /\ SubSeq(host, i + 1, Len(host)) = rest
<1> DEFINE U == S \cup {"."}
           m == Len(rest)
           n == Len(host)
           text == Dot \o rest
<1>1. m \in Nat /\ n \in Nat /\ DOMAIN host = 1..n
    OBVIOUS
<1>2. host \in Seq(U) /\ rest \in Seq(U) /\ Dot \in Seq(U) /\ Len(Dot) = 1 /\ Dot[1] = "."
    BY DEF Dot
<1>3. /\ text \in Seq(U) /\ Len(text) = m + 1 /\ text[1] = "."
      /\ \A k \in 1..m : text[k + 1] = rest[k]
    <2>1. /\ text \in Seq(U) /\ Len(text) = Len(Dot) + m
          /\ \A k \in 1..Len(Dot) + m :
                 text[k] = IF k <= Len(Dot) THEN Dot[k] ELSE rest[k - Len(Dot)]
        BY <1>2, ConcatProperties
    <2> HIDE DEF text
    <2>2. \A k \in 1..(m + 1) : text[k] = IF k <= 1 THEN Dot[k] ELSE rest[k - 1]
        BY <1>1, <1>2, <2>1
    <2>3. text[1] = "."
        BY <1>1, <1>2, <2>2
    <2>4. \A k \in 1..m : k + 1 \in 1..(m + 1) /\ ~(k + 1 <= 1) /\ (k + 1) - 1 = k
        BY <1>1
    <2>5. \A k \in 1..m : text[k + 1] = rest[k]
        BY <2>2, <2>4
    <2> QED
        BY <1>1, <1>2, <2>1, <2>3, <2>5
<1> HIDE DEF text, U
<1>4. IsSuffix(text, host) <=>
          m + 1 <= n /\ \A k \in 1..(m + 1) : host[n - (m + 1) + k] = text[k]
    <2>1. IsSuffix(text, host) <=>
              Len(text) <= n /\ \A k \in 1..Len(text) : host[n - Len(text) + k] = text[k]
        BY <1>2, <1>3, SuffixIs
    <2> QED
        BY <1>3, <2>1
<1>5. \A i \in 1..n : /\ SubSeq(host, i + 1, n) \in Seq(S)
                      /\ Len(SubSeq(host, i + 1, n)) = n - i
                      /\ \A k \in 1..(n - i) : SubSeq(host, i + 1, n)[k] = host[i + k]
    <2> TAKE i \in 1..n
    <2>1. /\ i \in Nat /\ i + 1 \in 1..(n + 1) /\ i <= n /\ n - (i + 1) + 1 = n - i
          /\ \A k \in 1..(n - i) : k + (i + 1) - 1 = i + k
        BY <1>1
    <2> HIDE DEF n
    <2>2. \A k \in (i + 1)..n : host[k] \in S
        <3>1. \A k \in (i + 1)..n : k \in 1..n
            BY <1>1, <2>1
        <3> QED
            BY <1>1, <3>1
    <2> DEFINE tail == SubSeq(host, i + 1, n)
    <2>3. /\ tail \in Seq(S)
          /\ Len(tail) = IF i + 1 <= n THEN n - (i + 1) + 1 ELSE 0
          /\ \A k \in 1..(n - (i + 1) + 1) : tail[k] = host[(i + 1) + k - 1]
        BY <1>1, <2>1, <2>2, SubSeqProperties
    <2> HIDE DEF tail
    <2>4. Len(tail) = n - i
        BY <1>1, <2>1, <2>3
    <2>5. \A k \in 1..(n - i) : tail[k] = host[i + k]
        <3>1. \A k \in 1..(n - i) : (i + 1) + k - 1 = i + k
            BY <2>1
        <3> QED
            BY <2>1, <2>3, <3>1
    <2> QED
        BY <2>3, <2>4, <2>5 DEF tail
<1>6. ASSUME IsSuffix(text, host)
      PROVE  \E i \in 1..n : host[i] = "." /\ SubSeq(host, i + 1, n) = rest
    <2> DEFINE i == n - m
    <2>1. i \in 1..n /\ n - i = m /\ m + 1 <= n
        BY <1>1, <1>4, <1>6
    <2>2. \A k \in 1..(m + 1) : host[n - (m + 1) + k] = text[k]
        BY <1>4, <1>6
    <2>3. host[i] = "."
        <3>1. 1 \in 1..(m + 1) /\ n - (m + 1) + 1 = i
            BY <1>1
        <3> QED
            BY <1>3, <2>2, <3>1
    <2>4. \A k \in 1..m : host[i + k] = rest[k]
        <3> TAKE k \in 1..m
        <3>1. k + 1 \in 1..(m + 1) /\ n - (m + 1) + (k + 1) = i + k
            BY <1>1
        <3> QED
            BY <1>3, <2>2, <3>1
    <2> HIDE DEF i
    <2> DEFINE tail == SubSeq(host, i + 1, n)
    <2>5. tail \in Seq(S) /\ Len(tail) = m /\ \A k \in 1..m : tail[k] = host[i + k]
        BY <1>5, <2>1
    <2> HIDE DEF tail
    <2>6. tail = rest
        BY <2>4, <2>5
    <2> QED
        BY <2>1, <2>3, <2>6 DEF tail
<1>7. ASSUME NEW i \in 1..n, host[i] = ".", SubSeq(host, i + 1, n) = rest
      PROVE  IsSuffix(text, host)
    <2>0. n - i = m
        <3>1. Len(SubSeq(host, i + 1, n)) = n - i
            BY <1>5
        <3> QED
            BY <1>7, <3>1
    <2>1. n - i = m /\ m + 1 <= n /\ n - (m + 1) = i - 1 /\ i \in Nat
        <3>1. i \in 1..n
            OBVIOUS
        <3> HIDE DEF m, n
        <3> QED
            BY <1>1, <2>0, <3>1
    <2>2. \A k \in 1..m : rest[k] = host[i + k]
        BY <1>5, <1>7, <2>1
    <2>3. \A k \in 1..(m + 1) : host[n - (m + 1) + k] = text[k]
        <3> TAKE k \in 1..(m + 1)
        <3>1. CASE k = 1
            <4>1. (i - 1) + 1 = i
                BY <2>1
            <4> QED
                BY <1>3, <1>7, <2>1, <3>1, <4>1
        <3>2. CASE k # 1
            <4>1. k - 1 \in 1..m /\ (k - 1) + 1 = k /\ (i - 1) + k = i + (k - 1)
                BY <1>1, <2>1, <3>2
            <4>2. text[(k - 1) + 1] = rest[k - 1] /\ rest[k - 1] = host[i + (k - 1)]
                BY <1>3, <2>2, <4>1
            <4> QED
                BY <2>1, <4>1, <4>2
        <3> QED
            BY <3>1, <3>2
    <2> QED
        BY <1>4, <2>1, <2>3
<1> QED
    BY <1>1, <1>6, <1>7 DEF text

\* A "*." pattern matches what it names and what has that as its last labels.
LEMMA GlobIsByLabel ==
    ASSUME NEW host \in Seq(Chars), NEW pattern \in Seq(Chars),
           IsPrefix(<<"*", ".">>, pattern)
    PROVE  GlobMatch(pattern, host) <=>
               \E i \in DOMAIN Labels(host) :
                   SubSeq(host, i + 1, Len(host)) = SubSeq(pattern, 3, Len(pattern))
<1> DEFINE rest == SubSeq(pattern, 3, Len(pattern))
           n == Len(host)
           dots == {i \in DOMAIN host : host[i] = "."}
<1>1. n \in Nat /\ DOMAIN host = 1..n
    OBVIOUS
<1>2. rest \in Seq(Chars)
    OBVIOUS
<1> HIDE DEF rest
<1>3. GlobMatch(pattern, host) <=> host = rest \/ IsSuffix(Dot \o rest, host)
    BY DEF GlobMatch, rest
<1>4. DOMAIN Labels(host) = {0} \cup dots
    <2>1. DOMAIN Labels(host) = ({0, n + 1} \cup dots) \ {n + 1}
        BY DEF Labels
    <2>2. 0 # n + 1 /\ \A i \in dots : i # n + 1
        BY <1>1
    <2> HIDE DEF dots
    <2> QED
        BY <2>1, <2>2
<1>5. SubSeq(host, 0 + 1, n) = host
    <2>1. SubSeq(host, 1, n) = host
        BY <1>1
    <2> QED
        BY <2>1
<1>6. IsSuffix(Dot \o rest, host) <=> \E i \in dots : SubSeq(host, i + 1, n) = rest
    <2>1. IsSuffix(Dot \o rest, host) <=>
              \E i \in DOMAIN host : host[i] = "." /\ SubSeq(host, i + 1, n) = rest
        BY <1>2, DotSuffix
    <2> QED
        BY <2>1
<1> HIDE DEF dots
<1>7. (\E i \in {0} \cup dots : SubSeq(host, i + 1, n) = rest) <=>
          host = rest \/ \E i \in dots : SubSeq(host, i + 1, n) = rest
    BY <1>5
<1> QED
    BY <1>3, <1>4, <1>6, <1>7 DEF rest

\* The evaluation, once it is there.
EvalInv ==
    /\ tree \in Trees /\ context \in TextContexts
    /\ eval = Unevaluated \/ eval = EvalTree(tree, context)

LEMMA EvalStays == MatchersSpec => []EvalInv
<1>1. MatchersInit => EvalInv
    BY DEF MatchersInit, EvalInv
<1>2. EvalInv /\ [EvaluateTree]_matcherVars => EvalInv'
    BY DEF EvalInv, EvaluateTree, matcherVars
<1> QED
    BY <1>1, <1>2, PTL DEF MatchersSpec

LEMMA LeavesObey == ASSUME EvalInv PROVE HostGlobIsByLabel /\ BundleSettles
<1>1. tree \in Nodes /\ (Done => eval = EvalTree(tree, context))
    BY MatchersAssumption DEF EvalInv, Done
<1>2. tree.op \in {"url-host", "source-app"} =>
          EvalTree(tree, context).matched = MatchLeaf(tree, context)
    BY <1>1, EvalMatched
<1>3. ASSUME Done, tree.op = "url-host", IsPrefix(<<"*", ".">>, tree.pattern)
      PROVE  eval.matched <=>
                 /\ context.host # None
                 /\ \E i \in DOMAIN Labels(context.host) :
                        SubSeq(context.host, i + 1, Len(context.host))
                            = SubSeq(tree.pattern, 3, Len(tree.pattern))
    <2>1. tree.pattern \in Seq(Chars) /\ context.host \in Seq(Chars)
        BY <1>1, <1>3, MatchersAssumption DEF EvalInv
    <2>2. MatchLeaf(tree, context) = (context.host # None /\ GlobMatch(tree.pattern, context.host))
        BY <1>3 DEF MatchLeaf
    <2>3. eval.matched <=> context.host # None /\ GlobMatch(tree.pattern, context.host)
        BY <1>1, <1>2, <1>3, <2>2
    <2>4. GlobMatch(tree.pattern, context.host) <=>
              \E i \in DOMAIN Labels(context.host) :
                  SubSeq(context.host, i + 1, Len(context.host))
                      = SubSeq(tree.pattern, 3, Len(tree.pattern))
        BY <1>3, <2>1, GlobIsByLabel
    <2> QED
        BY <2>3, <2>4, Zenon
<1>4. ASSUME Done, tree.op = "source-app", tree.bundle # None, context.bundle # None
      PROVE  eval.matched <=> EqIgnoreCase(tree.bundle, context.bundle)
    <2>1. MatchLeaf(tree, context) = MatchApp(tree, context)
        BY <1>4 DEF MatchLeaf
    <2>2. MatchApp(tree, context) = EqIgnoreCase(tree.bundle, context.bundle)
        BY <1>4 DEF MatchApp
    <2> QED
        BY <1>1, <1>2, <1>4, <2>1, <2>2
<1> QED
    BY <1>3, <1>4 DEF HostGlobIsByLabel, BundleSettles

\* For trees of any depth, any texts and any contexts: what a rule's author may
\* count on.
THEOREM MatchersObey == MatchersSpec => []MatcherLaws
<1>1. ASSUME EvalInv PROVE GroupLaws
    <2>1. tree \in Nodes /\ (Done => eval = EvalTree(tree, context))
        BY <1>1, MatchersAssumption DEF EvalInv, Done
    <2>2. ASSUME Done, tree.op \in {"all", "any"}
          PROVE  IF tree.of = <<>> THEN ~eval.matched
                 ELSE DeMorgan(tree) \in Nodes =>
                          (eval.matched <=> EvalTree(DeMorgan(tree), context).matched)
        BY <2>1, <2>2, GroupsObey, ZenonT(60)
    <2> QED
        BY <2>2 DEF GroupLaws
<1>2. EvalInv => MatcherLaws
    BY <1>1, LeavesObey DEF MatcherLaws
<1> QED
    BY <1>2, EvalStays, PTL
=============================================================================
