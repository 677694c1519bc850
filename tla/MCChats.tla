------------------------------- MODULE MCChats -------------------------------
(* Model values for TLC: two questions and two openings at once, and pages *)
(* of two messages, so that two questions fill two pages exactly.          *)
EXTENDS Chats, TLC

CONSTANTS a1, a2, l1, l2

MCAsk == {a1, a2}
MCLoad == {l1, l2}
MCSymmetry == Permutations(MCAsk) \cup Permutations(MCLoad)
=============================================================================
