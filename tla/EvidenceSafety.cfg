SPECIFICATION Spec
CONSTANTS
    Actions = {"a1", "a2"}
    OldActions = {"a2"}
    Kinds <- ThreeKinds
    Window = 1
    TornLines = FALSE
    MaxTime = 2
    MaxKills = 1
    MaxFaults = 1
INVARIANTS
    NothingLost
    BackupComplete
    RecentIsFound
PROPERTIES
    RestoreBringsBack
CHECK_DEADLOCK FALSE
