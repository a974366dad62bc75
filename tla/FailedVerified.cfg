SPECIFICATION Spec
CONSTANTS
    Executions = {"e1"}
    Routes <- UngatedRoutes
    MaxRestarts = 0
INVARIANT
    FailedIsNotVerified
CHECK_DEADLOCK FALSE
