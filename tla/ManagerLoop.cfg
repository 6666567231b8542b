SPECIFICATION FairSpec
CONSTANTS
    None = None
    MaxCrash = 2
INVARIANTS TypeOK NewbornIsSpared NoGoodbyeForUpdateOrSignal
PROPERTIES TypedExitIsHonoured KeepsConversation StopEndsTheManager
CHECK_DEADLOCK FALSE
