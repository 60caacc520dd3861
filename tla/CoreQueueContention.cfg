\* Two scanners: what SKIP LOCKED is said to prevent.
CONSTANTS
    b1 = b1
    b2 = b2
    Entries = {b1}
    NoEntry = NoEntry
    Callers = {c1}
    Scanners = {s1, s2}
    Priority <- MCPriority
    MaxAttempts = 1
    BatchSize = 1
    MaxCrashes = 0
    IntervalBinds = TRUE
SPECIFICATION Spec
INVARIANT NoContention
