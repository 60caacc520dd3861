SPECIFICATION Spec
CONSTANTS
    NoRequest = NoRequest
    Requests = {r1, r2}
    Tenants = {t1}
    f1 = f1
    f2 = f2
    Shas = {f1, f2}
    Uploads <- MCOverlapping
    PruneEvery = 2
    MaxRows = 1
    MaxCrashes = 0
INVARIANTS SameFileStoredOnce
CHECK_DEADLOCK FALSE
