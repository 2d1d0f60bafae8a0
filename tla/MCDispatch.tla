----------------------------- MODULE MCDispatch -----------------------------
(* Instances of Dispatch: documents of at most two rules for every URL.    *)
EXTENDS Dispatch

CONSTANTS b1, b2, custom, sys1, ipc1

Rule(then) == [enabled |-> TRUE, workspace |-> NoWorkspace, when |-> Contexts,
               then |-> then]
Document(rules, dflt, hidden) ==
    [smart |-> TRUE, rules |-> rules, paused |-> {}, default |-> dflt,
     hidden |-> hidden]

\* A rule that opens b1 with b2 as the default, the picker with b1 hidden, a
\* block, no rule with the default not configured, and a custom browser.
FiveDocs == {
    Document(<<Rule(Ask), Rule(Open(b1))>>, b2, {}),
    Document(<<Rule(Ask)>>, b1, {b1}),
    Document(<<Rule(Block)>>, b1, {}),
    Document(<<>>, System, {b1, b2}),
    Document(<<Rule(Open(custom))>>, b1, {}) }
=============================================================================
