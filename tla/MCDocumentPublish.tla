-------------------------- MODULE MCDocumentPublish --------------------------
(* Model values for TLC: two calls may overlap.  Three operations for the  *)
(* safety properties, two for liveness: a call and one that overtakes it.  *)
EXTENDS DocumentPublish, TLC

CONSTANTS s1, s2

MCSlot == {s1, s2}
MCMaxOps == 3
MCMaxOpsLive == 2

(* Slots are interchangeable; used for the safety properties only.         *)
MCSymmetry == Permutations(MCSlot)
=============================================================================
