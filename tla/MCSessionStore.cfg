SPECIFICATION StoreSpec
CONSTANTS
    Ids = {s1, s2, s3}
    Users = {u1}
    Meta = {m1}
    Boards = {"small", "big"}
    Size <- MCSize
    MaxBytes = 4
    TTL = 2
    MaxTime = 3
    NoRow = NoRow
    NoBoard = NoBoard
INVARIANTS
    BudgetKept
PROPERTIES
    OldestFirst
    ImplementsContract
SYMMETRY Symm
