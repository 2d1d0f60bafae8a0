------------------------------ MODULE MCEdits ------------------------------
(* Three rules, two of them in a workspace and a second workspace that may  *)
(* come, two browsers, three profiles of which one is gone, and two edits   *)
(* in any order by any program.                                             *)
EXTENDS Edits

CONSTANTS b1, b2, w1, w2, none

MCReal == [b \in {b1, b2} |-> IF b = b1 THEN {"p", "q"} ELSE {}]

MCOrders == {<<>>, <<"q", "old", "p", "q">>}

MCDoc(rules, spaces, login) ==
    [rules |-> rules, spaces |-> spaces, customs |-> <<>>, hidden |-> <<>>,
     orders |-> [b \in {b1, b2} |-> <<>>], target |-> b1, smart |-> TRUE,
     login |-> login]

MCRule(id, space) == [id |-> id, on |-> TRUE, space |-> space]

MCInitialDocs ==
    {MCDoc(<<MCRule(1, w1), MCRule(2, none), MCRule(3, w1)>>,
           <<[id |-> w1, on |-> TRUE]>>, FALSE)}

MCBrought == {MCDoc(<<MCRule(2, w2)>>, <<>>, TRUE)}
============================================================================
