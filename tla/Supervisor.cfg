SPECIFICATION Spec
CONSTANTS
    Id = {"a", "b", "c"}
    Pid = {1, 2, 3, 4, 5, 6, 7, 8, 9}
    Config <- MCConfig
    MaxRetries = 2
    MaxMessages = 2
    MaxAlive = 2
INVARIANTS TypeOK NoDeathMissed NoOrphans OrderKept
PROPERTIES RestartedOrGivenUp
CHECK_DEADLOCK FALSE
