SPECIFICATION Spec
CONSTANTS
    Requests = {r1, r2}
    Fields = {"name", "note"}
    Values = {"a", "b"}
    Bodies <- MCBodies
    Window = 1
    MaxHour = 2
    NotDeleted = NotDeleted
INVARIANT FullTrail
CHECK_DEADLOCK FALSE
