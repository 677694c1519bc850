----------------------------- MODULE SignalRelay -----------------------------
(***************************************************************************)
(* What the signaling service promises, whatever happens to connections,   *)
(* streams and the service itself: a signal that arrives was posted to the *)
(* owner of the connection it arrives at, arrives once, and the signals of *)
(* one connection arrive at another in the order they were posted.         *)
(* Signals may be lost.                                                    *)
(***************************************************************************)
EXTENDS Naturals, Sequences

CONSTANTS
    Peer,       \* the users
    Connection, \* the WebSocket connections there can be
    NoPeer      \* the owner of a connection that is not open yet

VARIABLES
    owner,      \* the peer of each connection
    posted,     \* the targets of the signals each connection posted
    arrived     \* the signals that arrived at each connection

vars == <<owner, posted, arrived>>

(* The n-th signal that a connection posted.                               *)
Arrival == [from : Connection, n : Nat \ {0}]

Init ==
    /\ owner = [c \in Connection |-> NoPeer]
    /\ posted = [c \in Connection |-> <<>>]
    /\ arrived = [c \in Connection |-> <<>>]

Join(c, p) ==
    /\ owner[c] = NoPeer
    /\ owner' = [owner EXCEPT ![c] = p]
    /\ UNCHANGED <<posted, arrived>>

Post(c, p) ==
    /\ owner[c] # NoPeer
    /\ posted' = [posted EXCEPT ![c] = Append(@, p)]
    /\ UNCHANGED <<owner, arrived>>

(* None of the later signals of the same connection is there already.      *)
InOrder(c, a) ==
    \A i \in DOMAIN arrived[c] : arrived[c][i].from = a.from => arrived[c][i].n < a.n

ArrivedAnywhere(a) ==
    \E c \in Connection : \E i \in DOMAIN arrived[c] : arrived[c][i] = a

Arrive(c, f, n) ==
    LET a == [from |-> f, n |-> n] IN
    /\ n \in DOMAIN posted[f]
    /\ posted[f][n] = owner[c]
    /\ InOrder(c, a)
    /\ ~ArrivedAnywhere(a)
    /\ arrived' = [arrived EXCEPT ![c] = Append(@, a)]
    /\ UNCHANGED <<owner, posted>>

Next ==
    \E c \in Connection :
        \/ \E p \in Peer : Join(c, p) \/ Post(c, p)
        \/ \E f \in Connection : \E n \in DOMAIN posted[f] : Arrive(c, f, n)

Spec == Init /\ [][Next]_vars

=============================================================================
