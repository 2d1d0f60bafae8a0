---------------------------- MODULE Installation ----------------------------
(***************************************************************************)
(* What an update promises about the installed application: a newer        *)
(* version is put on trial, and the one it replaced is kept until the new  *)
(* one has confirmed that it runs.  A trial that is not confirmed goes     *)
(* back to exactly what was there, or breaks off: then the version under   *)
(* trial stays installed, and the one it replaced stays on disk beside it. *)
(***************************************************************************)
EXTENDS Integers

CONSTANTS Versions, First

VARIABLES
    installed,  \* the version under the application's path
    replaced,   \* the version the one on trial replaced; 0 without a trial
    confirmed,  \* the version on trial has started
    kept        \* versions left on disk beside the application

vars == <<installed, replaced, confirmed, kept>>

Init == installed = First /\ replaced = 0 /\ confirmed = FALSE /\ kept = {}

Replace ==
    /\ replaced = 0 /\ replaced' = installed
    /\ \E v \in Versions : v > installed /\ installed' = v
    /\ confirmed' = FALSE /\ UNCHANGED kept

Confirm ==
    /\ replaced # 0 /\ confirmed' = TRUE
    /\ UNCHANGED <<installed, replaced, kept>>

EndTrial == replaced # 0 /\ replaced' = 0 /\ confirmed' = FALSE

Accept == EndTrial /\ confirmed /\ UNCHANGED <<installed, kept>>
GoBack == EndTrial /\ installed' = replaced /\ UNCHANGED kept
BreakOff == EndTrial /\ kept' = kept \cup {replaced} /\ UNCHANGED installed

\* A version that was not installed, or did not start, is left for inspection.
Retain ==
    /\ \E v \in Versions : kept' = kept \cup {v}
    /\ UNCHANGED <<installed, replaced, confirmed>>

Next == Replace \/ Confirm \/ Accept \/ GoBack \/ BreakOff \/ Retain
Spec == Init /\ [][Next]_vars
=============================================================================
