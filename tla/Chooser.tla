------------------------------ MODULE Chooser ------------------------------
(***************************************************************************)
(* What a configuration document makes the user see: the list of browsers  *)
(* (merged_browsers, run_browsers_list) and the choices of the ask picker  *)
(* (resolve_ask, picker_preview, apply_profile_order).                     *)
(*                                                                         *)
(* An inventory answers with a list of browsers and, per browser, a set of *)
(* profiles, which is shown in an order of its own when none is saved.     *)
(***************************************************************************)
EXTENDS Lists

\* Custom entries override the detected ones in place, others follow.
Merged(detected, customs) ==
    LET merged[n \in 0..Len(customs)] ==
            IF n = 0 THEN detected ELSE Put(merged[n - 1], customs[n])
    IN  merged[Len(customs)]

\* apply_profile_order: a saved order is the whole list; ids of profiles that
\* no longer exist are passed over, and each profile is taken once.
Profiles(real, order) ==
    IF order = <<>> THEN SetToSeq(real)
    ELSE Deduped(Kept(order, {i \in DOMAIN order : order[i] \in real}))

\* Faulty variant: no way back when every browser is hidden.
OnlyVisible(offered, hidden) ==
    Kept(offered, {i \in DOMAIN offered : ~Contains(hidden, offered[i])})

\* The browsers not hidden; all of them when that leaves none.
Visible(offered, hidden) ==
    LET kept == Kept(offered, {i \in DOMAIN offered : ~Contains(hidden, offered[i])})
    IN  IF kept = <<>> THEN offered ELSE kept

\* The tiles of the wheel.
Wheel(offered, real, doc) ==
    LET shown == Visible(offered, doc.hidden)
    IN  [i \in DOMAIN shown |->
            [id |-> shown[i],
             profiles |-> Profiles(real[shown[i]], doc.orders[shown[i]])]]
============================================================================
