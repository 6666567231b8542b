SPECIFICATION FairSpec
CONSTANTS
    b1 = b1
    t1 = t1
    t2 = t2
    None = None
    Browsers = {b1}
    Threads = {t1, t2}
    MaxFails = 1
    QueueSize = 1
INVARIANTS TypeOK CommandsMatchAudience TapIsServed
PROPERTIES LonelyStreamEnds
CHECK_DEADLOCK FALSE
