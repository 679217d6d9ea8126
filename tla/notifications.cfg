SPECIFICATION SystemSpec
CHECK_DEADLOCK FALSE
CONSTANTS
    k1 = k1
    t1 = t1
    t2 = t2
    o1 = o1
    w1 = w1
    w2 = w2
    Key = {k1}
    Direct = Direct
    Tick = {t1, t2}
    Operator = {o1}
    BatchSize = 1
    MaxDispatchAttempts = 1
    MaxNotes = 2
    MaxDirect = 0
    MaxFaults = 1
    MaxRetries = 0
    Worker = {w1, w2}
    ListSize = 2
    MaxAttempts = 2
INVARIANTS
    MarksAreEarned
PROPERTIES
    PromisesKept
    NotificationsSettle
