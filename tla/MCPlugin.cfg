SPECIFICATION FairSpec
CONSTANTS
    Decisions = {"tolerance", "area"}
    Everywhere = "tolerance"
    Area = "area"
    MaxOps = 4
INVARIANTS
    RulesOnDisk
    DecisionsKept
PROPERTY
    ComesToRest
CHECK_DEADLOCK FALSE
