----------------------------- MODULE RuleList -----------------------------
(***************************************************************************)
(* What a user is promised about the rule list, whichever of the editors   *)
(* is used: an edit adds new rules at one end, removes one, changes one    *)
(* where it stands, moves one, or takes the rules of one group out of it;  *)
(* everything else stays as it is and where it is.  Only a write made from *)
(* an older copy, or one that brings a document of its own, may do more.   *)
(***************************************************************************)
EXTENDS Naturals, Sequences

CONSTANTS
    NoSpace      \* a rule in no workspace

VARIABLES
    rules,       \* <<[id, on, space], ..>> in order of priority
    created,     \* ids 1..created have been given out
    overwritten  \* the last write did not start from the rules as they were

vars == <<rules, created, overwritten>>

Init ==
    /\ \A i, j \in DOMAIN rules : rules[i].id = rules[j].id => i = j
    /\ \A i \in DOMAIN rules : rules[i].id \in 1..created
    /\ overwritten = FALSE

\* New rules at the bottom, or on top of the list.
Add ==
    \E n \in 1..(Len(rules') - Len(rules)) :
        /\ Len(rules') = Len(rules) + n
        /\ created' = created + n
        /\ \/ /\ SubSeq(rules', 1, Len(rules)) = rules
              /\ \A k \in 1..n : rules'[Len(rules) + k].id = created + k
           \/ /\ SubSeq(rules', n + 1, n + Len(rules)) = rules
              /\ \A k \in 1..n : rules'[k].id = created + k

\* A rule was made up and could not be saved; its id is not used again.
Lose == rules' = rules /\ created' > created

Remove ==
    /\ UNCHANGED created
    /\ \E i \in DOMAIN rules :
           rules' = SubSeq(rules, 1, i - 1) \o SubSeq(rules, i + 1, Len(rules))

Change ==
    /\ UNCHANGED created
    /\ \E i \in DOMAIN rules :
           /\ DOMAIN rules' = DOMAIN rules
           /\ rules'[i].id = rules[i].id
           /\ \A k \in DOMAIN rules \ {i} : rules'[k] = rules[k]

Move ==
    /\ UNCHANGED created
    /\ \E i, j \in DOMAIN rules :
           rules' = [k \in DOMAIN rules |->
                        IF k = j THEN rules[i]
                        ELSE IF i <= k /\ k < j THEN rules[k + 1]
                        ELSE IF j < k /\ k <= i THEN rules[k - 1]
                        ELSE rules[k]]

Ungroup ==
    /\ UNCHANGED created
    /\ \E w \in {rules[i].space : i \in DOMAIN rules} :
           rules' = [i \in DOMAIN rules |->
                        IF rules[i].space = w
                        THEN [rules[i] EXCEPT !.space = NoSpace] ELSE rules[i]]

\* The write did not look at the list: nothing is promised of it.
Overwrite == overwritten'

Next ==
    \/ Overwrite
    \/ ~overwritten' /\ (Add \/ Lose \/ Remove \/ Change \/ Move \/ Ungroup)

\* A step that leaves the rules alone may still say how it was made.
Spec == Init /\ [][Next]_<<rules, created>>
============================================================================
