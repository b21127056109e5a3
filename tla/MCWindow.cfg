SPECIFICATION SingleFairSpec
CONSTANTS
    Press = {p1, p2, p3}
    StaleS = 3
    AskS = 2
    MaxPressing = 1
INVARIANTS
    SoleWindow
    PressAnswered
PROPERTY
    PressEnds
