------------------------------- MODULE Router -------------------------------
(***************************************************************************)
(* The loop of Router::evaluate_explained_with_ask_shortcut, one step per  *)
(* rule: src/crates/core/src/routing.rs.                                   *)
(***************************************************************************)
EXTENDS Routing

CONSTANT Docs  \* the documents under consideration

ASSUME DocsAssumption == \A d \in Docs : IsDoc(d)

VARIABLES
    doc,      \* the document
    ctx,      \* the routing context
    shortcut, \* is the ask shortcut held?
    next,     \* the position of the rule to look at
    skipped,  \* the position of skipped_ask, or 0
    state,    \* running, or done
    chosen    \* the position of the rule that decided, or 0 for the default

input == <<doc, ctx, shortcut>>
vars == <<input, next, skipped, state, chosen>>

TypeOK ==
    /\ doc \in Docs
    /\ ctx \in Contexts
    /\ shortcut \in BOOLEAN
    /\ next \in 1..(Len(doc.rules) + 1)
    /\ skipped \in 0..Len(doc.rules)
    /\ state \in {"running", "done"}
    /\ chosen \in 0..Len(doc.rules)

Init ==
    /\ doc \in Docs
    /\ ctx \in Contexts
    /\ shortcut \in BOOLEAN
    /\ next = 1
    /\ skipped = 0
    /\ state = "running"
    /\ chosen = 0

\* Faulty variant: rules of disabled workspaces take part.
HitAnyWorkspace(i) == doc.rules[i].enabled /\ ctx \in doc.rules[i].when

Hit(i) == Matches(doc, doc.rules[i], ctx)
IsAsk(i) == doc.rules[i].then.kind = "ask"

Return(i) ==
    /\ state' = "done"
    /\ chosen' = i
    /\ UNCHANGED <<input, next, skipped>>

\* The master switch: rules are not even looked at.
SwitchedOff ==
    /\ state = "running"
    /\ ~doc.smart
    /\ Return(0)

Looking == state = "running" /\ doc.smart /\ next <= Len(doc.rules)

\* Faulty variant: the loop does not move on.
PassOverStuck ==
    /\ Looking
    /\ ~Hit(next)
    /\ UNCHANGED vars

\* A disabled rule, a rule of a disabled workspace, or no match.
PassOver ==
    /\ Looking
    /\ ~Hit(next)
    /\ next' = next + 1
    /\ UNCHANGED <<input, skipped, state, chosen>>

\* Faulty variant: no skipped Ask is remembered.
SkipAskForgets ==
    /\ Looking
    /\ Hit(next) /\ shortcut /\ IsAsk(next)
    /\ next' = next + 1
    /\ UNCHANGED <<input, skipped, state, chosen>>

\* Under the shortcut a matching Ask rule is passed over; the first is kept.
SkipAsk ==
    /\ Looking
    /\ Hit(next) /\ shortcut /\ IsAsk(next)
    /\ skipped' = IF skipped = 0 THEN next ELSE skipped
    /\ next' = next + 1
    /\ UNCHANGED <<input, state, chosen>>

Take ==
    /\ Looking
    /\ Hit(next) /\ ~(shortcut /\ IsAsk(next))
    /\ Return(next)

\* No rule returned: the skipped Ask if there is one, else the default.
Exhausted ==
    /\ state = "running" /\ doc.smart
    /\ next > Len(doc.rules)
    /\ Return(skipped)

Next == SwitchedOff \/ PassOver \/ SkipAsk \/ Take \/ Exhausted

Spec == Init /\ [][Next]_vars /\ WF_vars(Next)

Decision ==
    IF chosen = 0 THEN DefaultDecision(doc) ELSE doc.rules[chosen].then

-----------------------------------------------------------------------------
\* List order is priority: no rule above the one that decided would have
\* decided, so it matches and every match above it was an Ask that the
\* shortcut passed over.
FirstMatchWins ==
    state = "done" /\ chosen # 0 =>
        /\ Hit(chosen)
        /\ \A i \in 1..(chosen - 1) : Hit(i) => shortcut /\ IsAsk(i)

\* The shortcut never turns a link that would be asked about into one that
\* opens in the default: the default decides only when nothing matches at all
\* or smart routing is off.
DefaultIsLast ==
    state = "done" /\ chosen = 0 =>
        ~doc.smart \/ \A i \in 1..Len(doc.rules) : ~Hit(i)

\* An Ask decides under the shortcut only when every match is an Ask.
ShortcutAsksLast ==
    state = "done" /\ chosen # 0 /\ shortcut /\ IsAsk(chosen) =>
        /\ \A i \in 1..Len(doc.rules) : Hit(i) => IsAsk(i)
        /\ \A i \in 1..(chosen - 1) : ~Hit(i)

\* The right rule decides, the default only if there is none.
RightRule == FirstMatchWins /\ DefaultIsLast /\ ShortcutAsksLast

\* The loop computes the definition the dispatcher's model uses.
LoopIsEvaluate == state = "done" => Decision = Evaluate(doc, ctx, shortcut)

\* The loop ends.
Decides == <>(state = "done")
=============================================================================
