\* One worker, one forwarder: durability, decisions and sweeps over time.
SPECIFICATION Spec
CONSTANTS
    w1 = w1
    m1 = m1
    Workers = {w1}
    Managers = {}
    ManagerOf <- MCManagerOf
    RequestIds = {r1}
    Streams = {}
    Global = Global
    None = None
    QueueCap = 4
    SweepGrace = 1
    SweepHeartbeat = 2
    SweepEvery = 1
    PurgeAge = 3
    PlainKinds = {"interrupt", "session_boundary"}
    MaxEvents = 3
    MaxNow = 4
    MaxFaults = 1
INVARIANTS
    TypeOK
    AckedEventsDurable
    FileIsCurrent
    PendingAwaitsDecision
    EveryDecisionAnswersARequest
    NoZombiePending
PROPERTIES
    TimelineOnlyGrows
