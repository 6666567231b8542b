SPECIFICATION Spec
CONSTANTS
    r1 = r1
    r2 = r2
    None = None
    RequestIds = {r1, r2}
    Behaviors = {"allow"}
    MaxRetries = 2
    SpoolCap = 2
    HookCap = 1
    MaxStuck = 1
    MaxSessions = 2
    MaxLate = 1
    MaxBreaks = 1
INVARIANTS TypeOK NoResolutionForgotten
PROPERTIES SpoolKeepsWhatTheHubLacks HandlerWorkRunsOut
SYMMETRY Prompts
CHECK_DEADLOCK FALSE
