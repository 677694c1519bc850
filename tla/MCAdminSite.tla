----------------------------- MODULE MCAdminSite ------------------------------
(* Model values for TLC: two calls may be under way at once.  Two users on *)
(* two pages of the list, who differ in every field; two projects, one of  *)
(* them with members (and no owner: it was imported), and one more that    *)
(* may be created.                                                         *)
EXTENDS AdminSite, TLC

CONSTANTS c1, c2, n1, n2, p1, p2

MCPageCall == {c1, c2}

MCName == {n1, n2}
MCFirstUsers == <<[dept |-> n1, position |-> Unset, role |-> "viewer"],
                  [dept |-> n2, position |-> n1, role |-> "user"]>>

MCPerson == {p1, p2}
MCMatching == {1}
MCFirstProjects == <<[owner |-> None, members |-> {p1, p2}, level |-> 1, order |-> 0],
                     [owner |-> None, members |-> {}, level |-> 1, order |-> 0]>>

Symmetry == Permutations(MCPageCall) \cup Permutations(MCPerson)
=============================================================================
