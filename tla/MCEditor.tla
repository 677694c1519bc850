------------------------------- MODULE MCEditor -------------------------------
(* Two commands at once, so that one is sent while another is under way.   *)
EXTENDS Editor, TLC

CONSTANTS c1, c2

MCCall == {c1, c2}
Symmetry == Permutations(MCCall)

=============================================================================
