SPECIFICATION Spec
CONSTANTS
    Nets <- MCNets
    ClearanceOf <- MCClearance
    Role <- MCRole
    LaneOf <- MCLaneOf
    Coupled <- MCCoupled
    Boards <- MCBoards
    Asked <- MCAsked
    Name <- MCName
    Lanes = 1
    Tolerance = 1
    OffsetPercent = 0
    NoPad = NoPad
    NoJob = NoJob
    MinAmplitude = 1
    MaxAmplitude = 3
    MinRun = 3
    Keep = 1
    Flat = 1
    Space = 1
    Layers = {1, 2, 3}
    MaxPitch = 3
    MinSpan = 5
    MinMembers = 3
    MaxFree = 6
    MaxDisplacement = 4
    MinGain = 1
    Margin = 1
    MaxSuggestions = 2
INVARIANTS
    CopperClear
    ReportedIsDrawn
    ExcessAnnounced
    MetMeansMatched
    SuggestedServes
    HeadroomBounds
PROPERTY PathsKept
