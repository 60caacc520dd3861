\* The driver requirements.txt names does not bind inside a literal.
CONSTANTS
    b1 = b1
    b2 = b2
    Entries = {b1}
    NoEntry = NoEntry
    Callers = {c1}
    Scanners = {s1}
    Priority <- MCPriority
    MaxAttempts = 1
    BatchSize = 1
    MaxCrashes = 1
    IntervalBinds = FALSE
SPECIFICATION FairSpec
PROPERTY Settles
