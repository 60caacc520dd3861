\* One Core process, the driver as the code intends it.
CONSTANTS
    b1 = b1
    b2 = b2
    Entries = {b1, b2}
    NoEntry = NoEntry
    Callers = {c1, c2, c3}
    Scanners = {s1}
    Priority <- MCPriority
    MaxAttempts = 2
    BatchSize = 2
    MaxCrashes = 1
    IntervalBinds = TRUE
SPECIFICATION Spec
INVARIANTS TypeOK OneScannerInv EnqueueAnswers AttemptBound AnnouncedOnce
PROPERTIES TerminalIsFinal LifecycleSpec
