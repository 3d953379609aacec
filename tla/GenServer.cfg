SPECIFICATION Spec
CONSTANTS
    Client = {c1, c2}
    Server = {s1, s2}
    Ref = {r1}
    Nobody = nobody
    MaxQueue = 2
    MaxInbox = 1
INVARIANTS TypeOK OneServer StraysExplained
PROPERTIES CallPromise StartsAnswered CallsEnd
CHECK_DEADLOCK FALSE
