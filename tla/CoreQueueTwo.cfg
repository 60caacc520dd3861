\* Two Core processes over one database, under fair scheduling.
CONSTANTS
    b1 = b1
    b2 = b2
    Entries = {b1}
    NoEntry = NoEntry
    Callers = {c1, c2}
    Scanners = {s1, s2}
    Priority <- MCPriority
    MaxAttempts = 1
    BatchSize = 1
    MaxCrashes = 1
    IntervalBinds = TRUE
SPECIFICATION FairSpec
INVARIANTS LockedBatchesDisjoint AttemptBoundPerScanner
PROPERTIES Settles ProcessedIsAnnounced
