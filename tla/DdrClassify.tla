------------------------------ MODULE DdrClassify ------------------------------
(* The structure of the memory bus (ddr/scope.go, ddr/classify.go): which nets    *)
(* the analysis is of, what each does, which part drives them, the byte lane of   *)
(* each and the other half of each pair.  A part is a number, in the order of the *)
(* references; parts[n] is the set of those a net has pads on.                    *)
EXTENDS InterfaceNames

CONSTANTS
    Numbered,       \* a word -> its stem and its number, where it ends in one
    DdrWords,       \* the words that contain "DDR" or "DQ"
    GuessLeast,     \* the nets that make a sheet the memory's, 8 in the code
    LaneWidth       \* the data bits of a byte lane, 8 in the code

--------------------------------------------------------------------------------
(* Scope.                                                                        *)

SaysDdr(n) == \E i \in DOMAIN Leaf(n) : Leaf(n)[i] \in DdrWords

Saying(nets, sheet) == {n \in nets : Scope(n) = sheet /\ SaysDdr(n)}

\* GuessPrefix: the sheets with the most nets that say so, where there are enough.
GuessPrefix(nets) ==
    {s \in {Scope(n) : n \in nets} \ {<<>>} :
        /\ Cardinality(Saying(nets, s)) >= GuessLeast
        /\ \A t \in {Scope(n) : n \in nets} \ {<<>>} :
               Cardinality(Saying(nets, t)) <= Cardinality(Saying(nets, s))}

LargestDdr(ifaces) ==
    {i \in ifaces : \A j \in ifaces : Cardinality(j.nets) <= Cardinality(i.nets)}

\* The nets of the sheet that says so and of those in it, or else of the largest DDR interface.
DdrScope(nets, sheets, buses) ==
    IF sheets # {} THEN {n \in nets : IsPrefix(CHOOSE s \in sheets : TRUE, Scope(n))}
    ELSE IF buses # {} THEN (CHOOSE i \in buses : TRUE).nets ELSE {}

ScopeOf(nets, ifaces) ==
    DdrScope(nets, GuessPrefix(nets), LargestDdr({i \in ifaces : i.kind = "ddr"}))

--------------------------------------------------------------------------------
(* classifyName.                                                                 *)

\* signalName: the name without the prefix of a bus.
SignalName(n) == Bare(Leaf(n))

Stem(n) == IF SignalName(n)[1] \in DOMAIN Numbered THEN Numbered[SignalName(n)[1]][1] ELSE SignalName(n)[1]
Index(n) == IF SignalName(n)[1] \in DOMAIN Numbered THEN Numbered[SignalName(n)[1]][2] ELSE -1

\* splitPolarity: only a strobe or a clock has halves.
Polarity(n) ==
    IF Len(SignalName(n)) < 2 \/ Stem(n) \notin {"DQS", "CK", "CLK", "WCK", "RDQS", "DQSU", "DQSL"} THEN "single"
    ELSE IF SignalName(n)[2] \in {"P", "T"} THEN "positive"
    ELSE IF SignalName(n)[2] \in {"N", "C"} THEN "negative" ELSE "single"

Roles ==
    [data |-> {"DQ", "D"}, strobe |-> {"DQS", "RDQS", "DQSU", "DQSL"}, clock |-> {"CK", "CLK", "WCK", "CKT", "CKC"},
     mask |-> {"DM", "DQM", "DMI", "DBI", "UDM", "LDM", "DQSDM"},
     address |-> {"A", "ADDR", "MA", "BA", "BG", "BANK"},
     command |-> {"RAS", "RASN", "CAS", "CASN", "WE", "WEN", "ACT", "ACTN", "CS", "CSN", "CKE", "ODT", "PAR",
                  "ALERT", "ALERTN", "TEN", "CA"},
     control |-> {"RESET", "RESETN", "RST", "RSTN", "ZQ", "VREF", "MIR", "CAI", "LBDQS"}]

Role(n) ==
    IF \E r \in DOMAIN Roles : Stem(n) \in Roles[r]
    THEN CHOOSE r \in DOMAIN Roles : Stem(n) \in Roles[r] ELSE "unknown"

--------------------------------------------------------------------------------
(* Classify.                                                                     *)

\* The nets the names place and that lead somewhere.
Classified(nets, parts) == {n \in nets : Role(n) # "unknown" /\ Cardinality(parts[n]) >= 2}

On(nets, parts, part) == {n \in nets : part \in parts[n]}

\* The part on the most nets drives them; of equals the first by reference.
Controller(nets, parts) ==
    FirstOf({p \in UNION {parts[n] : n \in nets} :
        \A o \in UNION {parts[n] : n \in nets} :
            Cardinality(On(nets, parts, o)) <= Cardinality(On(nets, parts, p))})

DataOn(nets, parts, part) == {n \in On(nets, parts, part) : Role(n) = "data"}

\* The memories are the other parts on data nets: a termination is on none.
Devices(nets, parts, ctrl) ==
    {p \in (UNION {parts[n] : n \in nets}) \ {ctrl} : DataOn(nets, parts, p) # {}}

DataLane(n) == Index(n) \div LaneWidth

LanesOfDevice(nets, parts, part) ==
    {DataLane(n) : n \in {m \in DataOn(nets, parts, part) : Index(m) >= 0}}

\* mutant: the lane is the index, whatever the part carries
ClueOfIndex(lanes, index) == IF index >= 0 THEN {index} ELSE lanes

\* What a part that carries these lanes says of the lane of a net with this index.
Clue(lanes, index) ==
    IF Cardinality(lanes) = 1 THEN lanes
    ELSE IF index \in lanes /\ index < Cardinality(lanes) + Min(lanes) + LaneWidth THEN {index} ELSE {}

FirstClue(clues, index) ==
    IF \E p \in DOMAIN clues : clues[p] # {}
    THEN CHOOSE l \in clues[Min({p \in DOMAIN clues : clues[p] # {}})] : TRUE
    ELSE index

\* A strobe or a mask is in the lane of the part it lands on.
Lane(n, nets, parts, ctrl) ==
    CASE Role(n) = "data" -> IF Index(n) >= 0 THEN DataLane(n) ELSE -1
      [] Role(n) \in {"strobe", "mask"} ->
            FirstClue([p \in parts[n] \ {ctrl} |-> Clue(LanesOfDevice(nets, parts, p), Index(n))], Index(n))
      [] OTHER -> -1

Signals(nets, parts, ctrl) == [n \in nets |-> [role |-> Role(n), lane |-> Lane(n, nets, parts, ctrl)]]

\* The halves of one base, role and lane.
Halves(n, signals) ==
    {m \in DOMAIN signals : /\ Polarity(m) # "single" /\ Polarity(n) # "single"
                            /\ SignalName(m)[1] = SignalName(n)[1] /\ signals[m] = signals[n]}

\* Exactly two make a pair.
PairsOf(signals) ==
    [n \in DOMAIN signals |-> IF Cardinality(Halves(n, signals)) = 2 THEN Halves(n, signals) \ {n} ELSE {}]

Structure(nets, parts, ctrl, signals) ==
    [controller |-> ctrl, devices |-> Devices(nets, parts, ctrl), signals |-> signals, pairs |-> PairsOf(signals)]

Driven(nets, parts, ctrl) == Structure(nets, parts, ctrl, Signals(nets, parts, ctrl))

Classify(nets, parts) == Driven(nets, parts, Controller(nets, parts))
=============================================================================
