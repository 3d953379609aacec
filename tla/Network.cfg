SPECIFICATION Spec
CONSTANTS
    NoPid = NoPid
    Infinity = 100
    Node <- Nodes
    Connection <- Connections
    Scenarios <- Hub
    MaxScore = 4
    MaxHello = 1
CHECK_DEADLOCK FALSE
INVARIANTS
    TypeOK
    RoutesLead
    RoutesAgree
    NeighboursKnown
    BridgedKnown
    Addressed
    NoCircles
PROPERTIES
    IdsKeepNames
    WatchersHear
