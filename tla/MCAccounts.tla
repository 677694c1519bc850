----------------------------- MODULE MCAccounts -----------------------------
(* Model values for TLC: two organisations that know the address, and two  *)
(* calls of the service at once.                                           *)
EXTENDS Accounts, TLC

CONSTANTS red, blue, c1, c2

MCTenant == {red, blue}
MCCall == {c1, c2}
MCSymmetry == Permutations(MCTenant) \cup Permutations(MCCall)
=============================================================================
