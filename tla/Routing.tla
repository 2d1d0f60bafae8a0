------------------------------ MODULE Routing ------------------------------
(***************************************************************************)
(* Configuration documents and what the router decides with them:          *)
(* src/crates/core/src/routing.rs, rules.rs, config/mod.rs.                *)
(*                                                                         *)
(* The matcher tree of a rule is abstracted to the set of contexts it      *)
(* matches (module Matchers evaluates trees), a browser target to its      *)
(* browser.                                                                *)
(***************************************************************************)
EXTENDS Naturals, Sequences

CONSTANTS
    Browsers,   \* browser ids
    System,     \* the id "system": no default target configured
    Contexts,   \* routing contexts: the URL and where it came from
    Workspaces, \* workspace ids a document or a rule may name
    NoWorkspace \* Rule.workspace_id = None

ASSUME RoutingAssumption ==
    /\ System \notin Browsers
    /\ NoWorkspace \notin Workspaces

Targets == Browsers \cup {System}

Open(target) == [kind |-> "open", target |-> target]
KeepSource   == [kind |-> "keep-source", target |-> System]
Ask          == [kind |-> "ask", target |-> System]
Block        == [kind |-> "block", target |-> System]
Actions == [kind : {"open", "keep-source", "ask", "block"}, target : Targets]

Rules == [enabled : BOOLEAN, workspace : Workspaces \cup {NoWorkspace},
          when : SUBSET Contexts, then : Actions]

\* paused: the workspaces the document declares and disables; hidden: the
\* browsers its settings keep out of the chooser (disabled_browsers).
IsDoc(d) ==
    /\ d.smart \in BOOLEAN
    /\ d.rules \in Seq(Rules)
    /\ d.paused \subseteq Workspaces
    /\ d.default \in Targets
    /\ d.hidden \subseteq Browsers

\* A rule takes part unless it is disabled or sits in a workspace that is; a
\* workspace the document does not declare counts as enabled.
Enabled(d, r) == r.enabled /\ r.workspace \notin d.paused

Matches(d, r, c) == Enabled(d, r) /\ c \in r.when

DefaultDecision(d) ==
    IF d.default = System THEN Ask ELSE Open(d.default)

\* The position of the first rule among some.
First(positions) == CHOOSE i \in positions : \A j \in positions : i <= j

\* evaluate_explained_with_ask_shortcut as a definition: the first match
\* decides; under the shortcut the first match that does not ask, and the
\* first match of all when they all ask.
Evaluate(d, c, shortcut) ==
    LET hits  == {i \in 1..Len(d.rules) : Matches(d, d.rules[i], c)}
        taken == {i \in hits : ~(shortcut /\ d.rules[i].then.kind = "ask")}
    IN  IF ~d.smart \/ hits = {} THEN DefaultDecision(d)
        ELSE IF taken = {} THEN d.rules[First(hits)].then
        ELSE d.rules[First(taken)].then
=============================================================================
