SPECIFICATION Spec
CONSTANTS
    Actions = {"a1", "a2"}
    OldActions = {"a2"}
    Kinds <- ThreeKinds
    Window = 1
    TornLines = TRUE
    MaxTime = 2
    MaxKills = 1
    MaxFaults = 1
INVARIANT NothingLost
CHECK_DEADLOCK FALSE
