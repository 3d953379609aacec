SPECIFICATION Spec
CONSTANTS
    NoPid = NoPid
    Infinity = 100
    Node <- Nodes
    Connection <- Connections
    Scenarios <- Triangle
    MaxScore = 4
    MaxHello = 0
CHECK_DEADLOCK FALSE
INVARIANTS
    NeighboursKnown
