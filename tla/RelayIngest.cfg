SPECIFICATION Spec
CONSTANTS
    NoRequest = NoRequest
    Requests = {r1, r2, r3}
    Tenants = {t1, t2}
    f1 = f1
    f2 = f2
    Shas = {f1, f2}
    Uploads <- MCUploads
    PruneEvery = 2
    MaxRows = 1
    MaxCrashes = 1
SYMMETRY MCSymmetry
INVARIANTS TypeOK HoldsItsRow TraceSurvives CommitPoint ReplaySound
PROPERTIES RowLifecycle PruneKeepsNewest
CHECK_DEADLOCK FALSE
