----------------------------- MODULE MCDesktop -----------------------------
(* Four routes on a page of two, two processes that log picks of two        *)
(* targets, four applications, and a user with four acts.                   *)
EXTENDS Desktop

\* All targets are on one host; two applications have no bundle id.
MCHost == [t \in Targets |-> "host"]
MCBundle == [a \in Apps |-> IF a \in {"tool", "script"} THEN "none" ELSE a]
=============================================================================
