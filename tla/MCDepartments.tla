---------------------------- MODULE MCDepartments ----------------------------
(* A small tenant: one department at first, which the search finds, and    *)
(* room for two more.                                                      *)
EXTENDS Departments

CONSTANTS c1, c2

MCCall == {c1, c2}
MCMatching == {1}
Symmetry == Permutations(MCCall)

=============================================================================
