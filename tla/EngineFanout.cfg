\* A worker, two subscriptions of it or of the web UI: fan-out, eviction and the lock.
SPECIFICATION FairSpec
CONSTANTS
    w1 = w1
    m1 = m1
    Workers = {w1}
    Managers = {}
    ManagerOf <- MCManagerOf
    RequestIds = {}
    Streams = {s1, s2}
    Global = Global
    None = None
    QueueCap = 2
    SweepGrace = 0
    SweepHeartbeat = 0
    SweepEvery = 1
    PurgeAge = 0
    PlainKinds = {"inbound"}
    MaxEvents = 3
    MaxNow = 1
    MaxFaults = 0
INVARIANTS
    OneForwarder
    NoGapInStream
    SentinelIsLast
PROPERTIES
    LockWaitsForItsReader
