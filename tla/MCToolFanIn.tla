--------------------------- MODULE MCToolFanIn ---------------------------
(* Model values and constants for checking ToolFanIn. *)
EXTENDS ToolFanIn, TLC

CONSTANTS c1, c2

OneClick  == {c1}
TwoClicks == {c1, c2}
ClickSymmetry == Permutations(TwoClicks)
NoClick   == {}

BothModes == {"continue", "finalize"}
=============================================================================
