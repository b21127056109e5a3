SPECIFICATION Spec
CONSTANTS
    Reqs = {"a", "b", "c", "d"}
    NetOf <- MCNetOf
    Straight <- MCStraight
    Corridor <- MCCorridor
    Paths <- MCPaths
    Cells <- MCCells
    Around <- MCAround
    Clash <- MCClash
    Existing <- MCExisting
    Counter = 4
    MaxRipUp = 2
    MaxTries = 2
    Free = Free
    Blocked = Blocked
    NoTrack = NoTrack
INVARIANTS
    BoardAgrees
    CopperClear
    NoneForgotten
