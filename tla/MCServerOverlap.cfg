SPECIFICATION FairSpec
CONSTANTS
    Ids = {i1}
    Users = {u1, u2}
    Procs = {p1, p2}
    Params = {a}
    DefaultParams = a
    NoParams = NoParams
    Hops = {h1}
    BoardBytes <- MCBoardBytes
    MaxBytes = 0
    MaxSessions = 1
    MaxRouteJobs = 1
    MaxHeavyJobs = 1
    OneAtATime = FALSE
    TTL = 1
    MaxTime = 0
    NoRow = NoRow
    NoBoard = NoBoard
INVARIANTS
    JobSlots
    RoutedMeansRouted
PROPERTIES
    EveryRequestEnds
