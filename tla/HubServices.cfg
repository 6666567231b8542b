SPECIFICATION Spec
CONSTANTS
    c1 = c1
    c2 = c2
    r1 = r1
    r2 = r2
    b1 = b1
    b2 = b2
    health = health
    reconnect = reconnect
    Callers = {c1, c2}
    Topics = {health, reconnect}
    NoTopic = NoTopic
    ReadLimit = 2
    MaxEvents = 5
    MaxChunks = 2
    KeepLimits = {1, 2}
    MaxFiles = 3
    MaxPurges = 2
    Runs = {r1, r2}
    Bodies = {b1, b2}
    NoFlow = NoFlow
    MaxTime = 7
SYMMETRY Symmetry
INVARIANTS
    HubServicesTypeOK AnswerIsNext BoundaryReadIsNewest RecordingIsKept RecordingFollowsFlag FlowFilesAreTrue
CHECK_DEADLOCK FALSE
