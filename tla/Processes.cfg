SPECIFICATION Spec
CONSTANTS
    p1 = p1
    p2 = p2
    p3 = p3
    Pid = {p1,p2,p3}
    System = System
    NoPid = NoPid
    Name = {n1}
    Ref = {r1,r2}
    Message = {m1}
    UserReason = {"kill"}
    Programs <- SafetyPrograms
    MaxQueue = 3
    MaxInbox = 2
CHECK_DEADLOCK FALSE
SYMMETRY Symmetry
INVARIANTS
    TypeOK
    DownAtMostOnce
    DownLostOnlyByRace
    SpawnMonitorNeverLate
    LinksAgree
    ExitLostOnlyByRace
    NamesOfLiving
PROPERTIES
    StartsLinked
    DeathIsFinal
    MonitoringKept
