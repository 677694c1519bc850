----------------------------- MODULE MCSignaling -----------------------------
(* Model values for TLC.  Three connections of two peers: one peer may     *)
(* connect a second time while its first connection goes away.             *)
EXTENDS Signaling, TLC

CONSTANTS alice, bob, c1, c2, c3

MCPeer == {alice, bob}
MCConnection == {c1, c2, c3}

(* Two signals of one sender, which must not overtake one another, and one *)
(* of another sender.                                                      *)
MCTwoSenders == [c \in MCConnection |->
                    CASE c = c1 -> 2 [] c = c2 -> 1 [] OTHER -> 0]
MCOneSender == [MCTwoSenders EXCEPT ![c2] = 0]

(* The peers are interchangeable; used for the safety properties only.     *)
MCSymmetry == Permutations(MCPeer)
=============================================================================
