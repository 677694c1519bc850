SPECIFICATION FairSpec
CONSTANTS
    alice = alice
    bob = bob
    c1 = c1
    c2 = c2
    c3 = c3
    NoPeer = NoPeer
    NoConnection = NoConnection
    Peer <- MCPeer
    Connection <- MCConnection
    Window = 1
    MaxSignals <- MCOneSender
    MaxRestarts = 0
PROPERTIES
    SignalArrives
CHECK_DEADLOCK FALSE
