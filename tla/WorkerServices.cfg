SPECIFICATION Spec
CONSTANTS
    c1 = c1
    c2 = c2
    d1 = d1
    d2 = d2
    s1 = s1
    RelayTries = 2
    RelayCap = 2
    MaxReplies = 4
    MaxPermFiles = 3
    Calls = {c1, c2}
    Tools = {"Bash", "Read"}
    NoCall = NoCall
    Drives = {d1, d2}
    Servers = {s1}
    MaxAttempts = 2
    Unsent = Unsent
    MaxChanges = 2
    MaxForgets = 1
INVARIANTS
    ServicesTypeOK SpoolGoesOldestFirst ApprovalSpentOnce ResolvedIsNotPending OkMeansReconnected
PROPERTIES
    RelayIsOutbox DriveEnds HubLearnsTheScreen
CHECK_DEADLOCK FALSE
