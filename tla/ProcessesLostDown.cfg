SPECIFICATION Spec
CONSTANTS
    p1 = p1
    p2 = p2
    Pid = {p1,p2}
    System = System
    NoPid = NoPid
    Name = {n1}
    Ref = {r1}
    Message = {m1}
    UserReason = {"kill"}
    Programs <- RacePrograms
    MaxQueue = 2
    MaxInbox = 2
CHECK_DEADLOCK FALSE
INVARIANTS
    DownAlwaysArrives
