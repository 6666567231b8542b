SPECIFICATION Spec
CONSTANTS
    r1 = r1
    r2 = r2
    None = None
    RequestIds = {r1, r2}
    Behaviors = {"allow", "deny"}
    MaxRetries = 2
    SpoolCap = 1
    HookCap = 9
    MaxStuck = 0
    MaxSessions = 2
    MaxLate = 1
    MaxBreaks = 1
INVARIANT SpoolDrainsOnSuccess
CHECK_DEADLOCK FALSE
