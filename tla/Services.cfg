\* Four services, one at a time; each may stop when its bounds are reached.
SPECIFICATION ServicesSpec
CONSTANTS
    Executions = {"e1", "e2"}
    Routes <- GatedRoutes
    MaxRestarts = 2
    Commands = {"c1", "c2"}
    Rules = {"push", "wipe"}
    HighRules = {"wipe"}
    Deciders = {"d1", "d2"}
    MaxLives = 2
    MaxLosses = 1
    Changes = {"m1", "m2", "m3"}
    Names = {"audit", "logs"}
    MaxStops = 1
    Components = {1, 2, 3}
    Pollers = {"p1"}
    Stale = 0
    Delay = 1
    MaxNow = 2
    MaxPolls = 2
    MaxChanges = 1
INVARIANTS
    VerifiedWasObserved
    LiveAgrees
    AlertedOnce
    ApproveIsEarned
    RecordShowsWhatRan
    RegistrationsKept
    DuplicateWasOvertaken
    HealthyWasRunning
    FailureIsNotMasked
CHECK_DEADLOCK FALSE
