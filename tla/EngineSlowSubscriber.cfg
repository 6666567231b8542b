\* One slow subscriber.
SPECIFICATION Spec
CONSTANTS
    w1 = w1
    m1 = m1
    Workers = {w1}
    Managers = {}
    ManagerOf <- MCManagerOf
    RequestIds = {}
    Streams = {s1}
    Global = Global
    None = None
    QueueCap = 1
    SweepGrace = 0
    SweepHeartbeat = 0
    SweepEvery = 1
    PurgeAge = 0
    PlainKinds = {"inbound"}
    MaxEvents = 2
    MaxNow = 1
    MaxFaults = 0
INVARIANTS
    SlowSubscriberIsClosed
