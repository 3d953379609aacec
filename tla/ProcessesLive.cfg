SPECIFICATION Spec
CONSTANTS
    p1 = p1
    p2 = p2
    p3 = p3
    Pid = {p1,p2,p3}
    System = System
    NoPid = NoPid
    Name = {n1}
    Ref = {r1}
    Message = {m1}
    UserReason = {"kill"}
    Programs <- LivenessPrograms
    MaxQueue = 1
    MaxInbox = 2
CHECK_DEADLOCK FALSE
PROPERTIES
    WatchersAreTold
    LinkedDieTogether
