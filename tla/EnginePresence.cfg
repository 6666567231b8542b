\* A worker that is connected and silent, a restart of the hub, its startup purge.
SPECIFICATION PresenceSpec
CONSTANTS
    w1 = w1
    m1 = m1
    Workers = {w1}
    Managers = {}
    ManagerOf <- MCManagerOf
    RequestIds = {}
    Streams = {s1}
    Global = Global
    None = None
    QueueCap = 1
    SweepGrace = 1
    SweepHeartbeat = 2
    SweepEvery = 4
    PurgeAge = 2
    PlainKinds = {"inbound"}
    MaxEvents = 1
    MaxNow = 4
    MaxFaults = 0
PROPERTIES
    StalePurgeDropsTheLongGone
