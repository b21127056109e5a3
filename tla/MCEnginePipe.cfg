SPECIFICATION Spec
CONSTANTS
    c1 = c1
    c2 = c2
    Callers = {c1, c2}
    MaxId = 3
    Capacity = 2
    Nobody = Nobody
INVARIANTS
    FramesWhole
    AnsweredBySent
    ServedBeforeExit
    EndedLeavesNone
PROPERTIES
    EveryoneHears
CHECK_DEADLOCK FALSE
