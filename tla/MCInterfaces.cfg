SPECIFICATION Spec
CONSTANTS
    Names <- MCNames
    Letters <- MCLetters
    Complement <- MCComplement
    PcieWords <- MCPcieWords
    LaneWords <- MCLaneWords
    ClockWords <- MCClockWords
    DdrLeast = 5
    Numbered <- MCNumbered
    DdrWords <- MCDdrWords
    GuessLeast = 4
    LaneWidth = 1
    Wirings <- MCWirings
    RgmiiLeast = 2
    Parts <- MCParts
    Rails <- MCRails
    PadCount <- MCPadCount
    Twins <- MCTwins
    MaxSeriesPads = 6
    MaxSeriesHops = 4
    GroupLimit <- MCGroupLimit
    PairLimit <- MCPairLimit
    MaxPairFix = 3
    Boards <- MCBoards
    FirstLengths <- MCFirstLengths
    Broken <- MCBroken
    Sayings <- MCSayings
    Limits = {1}
    Rooms = {1, 100}
    MaxEdits = 1
INVARIANTS
    PairsChecked
    SilentMeansMatched
    FewestJoins
    StrobePerLane
    ToldAlike
PROPERTIES
    AppliedSettles
CHECK_DEADLOCK FALSE
