------------------------------- MODULE MCAccess -------------------------------
(* A user and one who is super ask for a document; two calls at once,      *)
(* and enough of them in all to ask twice and to decide twice.             *)
EXTENDS Access, TLC

CONSTANTS u, root, d, c1, c2

MCUser == {u, root}
MCDocument == {d}
MCSuper == {root}
MCCall == {c1, c2}
Symmetry == Permutations(MCCall)

=============================================================================
