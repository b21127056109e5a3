SPECIFICATION Spec
CONSTANTS
    Tracks <- MCTracks
    Vias <- MCVias
    Pads <- MCPads
    Nets <- MCNets
    Span <- MCSpan
    Snaps <- MCSnaps
    Gap <- MCGap
    Lands <- MCLands
    At <- MCAt
    Off <- MCOff
    OnPad <- MCOnPad
    Entry <- MCEntry
    Over <- MCOver
    OverAt <- MCOverAt
    OverOff <- MCOverOff
    Length <- MCLength
    HalfBarrel <- MCHalfBarrel
    Package <- MCPackage
    NoTJunctionSplits = FALSE
INVARIANTS
    OneEndEach
    TouchingJoined
    RoutesShortest
CHECK_DEADLOCK FALSE
