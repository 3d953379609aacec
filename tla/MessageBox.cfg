SPECIFICATION Spec
CONSTANTS
    Message = {m1, m2, m3}
    Timer = {t1, t2}
    NoTimer = NoTimer
    NoReceive = NoReceive
INVARIANTS
    TypeOK
    Conserved
    NoLostWakeup
    TimerOwnsReceive
PROPERTIES
    TimedReceiveEnds
