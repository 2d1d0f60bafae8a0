----------------------------- MODULE MCLptOpen -----------------------------
(***************************************************************************)
(* Two daemons, one after or beside the other, a GUI that may serve in     *)
(* their place, and one lpt open that meets them; one worker thread, so    *)
(* that a request keeps a probe waiting.                                   *)
(***************************************************************************)
EXTENDS LptOpen
=============================================================================
