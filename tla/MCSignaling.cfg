SPECIFICATION Spec
CONSTANTS
    alice = alice
    bob = bob
    c1 = c1
    c2 = c2
    c3 = c3
    NoPeer = NoPeer
    NoConnection = NoConnection
    Peer <- MCPeer
    Connection <- MCConnection
    Window = 2
    MaxSignals <- MCTwoSenders
    MaxRestarts = 1
SYMMETRY MCSymmetry
INVARIANTS
    TypeOK
    NoStaleStream
PROPERTIES
    RelaySpec
CHECK_DEADLOCK FALSE
