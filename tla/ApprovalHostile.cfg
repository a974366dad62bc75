\* Ids taken from GET /ops/holds, and a reconcile that a write may end.  No
\* symmetry: a liveness property is checked.
CONSTANTS
    a1 = a1
    r1 = r1
    r2 = r2
    v1 = v1
    v2 = v2
    Nobody = Nobody
    Actions = {a1}
    Requests = {r1, r2}
    Versions = {v1, v2}
    EarlyIds = TRUE
    ReconcileMayFail = TRUE
    HoldTTL = 0
    AuthTTL = 0
    MaxTime = 1
    MaxCrashes = 1
    MaxFaults = 1
SPECIFICATION FairSpec
INVARIANTS
    OneAuthorizationPerLife
PROPERTIES
    EveryRequestAnswered
