SPECIFICATION Spec
CONSTANTS
    ClassClearance <- MCClassClearance
    Patterns <- MCPatterns
    MinClearance = 1
    EdgeClearance = 1
    Courtyards <- MCCourtyards
    Items <- MCItems
    File <- MCFile
    Paths <- MCPaths
    Meanders <- MCMeanders
    CopperLayers <- MCCopperLayers
    Fixed <- MCFixed
    Components <- MCComponents
    RuleLists <- MCRuleLists
    SameNetGap = 1
    Step = 4
    OpenGap = 3
    OpenMargin = 2
    Coupled = {}
    Zones <- MCZones
    MaxEdits = 4
INVARIANTS
    FollowsBoard
    KiCadAccepts
    SpacingKept
CHECK_DEADLOCK FALSE
