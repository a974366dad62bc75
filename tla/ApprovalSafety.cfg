\* One governed action, two approvals of it, two deaths of the process;
\* approval ids come from the answers and the reconcile completes.
CONSTANTS
    a1 = a1
    r1 = r1
    r2 = r2
    v1 = v1
    v2 = v2
    Nobody = Nobody
    Actions = {a1}
    Requests = {r1, r2}
    Versions = {v1, v2}
    EarlyIds = FALSE
    ReconcileMayFail = FALSE
    HoldTTL = 1
    AuthTTL = 1
    MaxTime = 3
    MaxCrashes = 2
    MaxFaults = 1
SPECIFICATION Spec
SYMMETRY RequestSymmetry
INVARIANTS
    TypeOK
    OneAuthorization
    InvokedOnlyIfApproved
    RejectionIsFinal
    ExpiryIsFinal
    StartupAuditClean
    EvidenceBeforeAnswer
PROPERTIES
    ImplementsOneShot
