SPECIFICATION Spec
CONSTANTS
    Ids = {i1, i2}
    Users = {u1, u2}
    Procs = {p1, p2}
    Params = {a, b}
    DefaultParams = a
    NoParams = NoParams
    Hops = {h1}
    BoardBytes <- MCBoardBytes
    MaxBytes = 3
    MaxSessions = 1
    MaxRouteJobs = 1
    MaxHeavyJobs = 1
    OneAtATime = TRUE
    TTL = 1
    MaxTime = 1
    NoRow = NoRow
    NoBoard = NoBoard
INVARIANTS
    AppliedDescribesResult
SYMMETRY Symm
