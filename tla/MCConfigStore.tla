--------------------------- MODULE MCConfigStore ---------------------------
(* Instances of ConfigStore for TLC.                                       *)
EXTENDS ConfigStore

CONSTANTS gui, lpt, w1, w2, w3, e1

AllInGui  == [w \in Writers |-> gui]
\* w1 and w2 are GUI commands, w3 is an lpt invocation.
GuiAndLpt == [w \in Writers |-> IF w = w3 THEN lpt ELSE gui]

NoOverlap  == {}
AllOverlap == Writers \X Writers
=============================================================================
