SPECIFICATION Spec
CONSTANTS
    NoPid = NoPid
    Infinity = 100
    Node <- Nodes
    Connection <- Connections
    Scenarios <- AllBridges
    MaxScore = 4
    MaxHello = 0
CHECK_DEADLOCK FALSE
INVARIANTS
    DisconnectedStaysAway
