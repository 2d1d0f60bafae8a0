------------------------------ MODULE MCPicker ------------------------------
(* Instances of Picker for TLC.                                            *)
EXTENDS Picker

CONSTANTS a1, a2, a3

TwoAsks   == {a1, a2}
ThreeAsks == {a1, a2, a3}

\* The last ask of each instance, when one of them is a preview.
NoPreview   == {}
LastOfTwo   == {a2}
LastOfThree == {a3}
=============================================================================
