---------------------------- MODULE InterfaceNames ----------------------------
(* Reading the interfaces of a board from its net names (proto/detect.go and     *)
(* proto/pairs.go): seven detectors, most specific first, each shown the nets    *)
(* the ones before it left.                                                      *)
(*                                                                               *)
(* A net name is data: the sheet it is on and the words of its last part, the    *)
(* ones its separators '_' and '.' divide it into.  A regular expression is the  *)
(* set of word sequences it matches, so far as the boards here use them.  Nets   *)
(* are numbered in the order of their names, which is the order the code sorts   *)
(* them in, and 0 is no net.                                                     *)
EXTENDS Integers, Sequences, FiniteSets, FiniteSetsExt, SequencesExt

CONSTANTS
    Names,          \* Names[n] = [scope |-> words of the sheet, leaf |-> words]
    Letters,        \* the words of one letter: a prefix, never an instance
    Complement,     \* a positive ending -> its negative endings, in the order tried
    PcieWords,      \* the words that contain "PCIE"
    LaneWords,      \* the words that begin with PCIE, RX, TX or COMBO
    ClockWords,     \* the words that contain "CLK"
    DdrLeast,       \* the nets that make a DDR bus, 16 in the code
    RgmiiLeast,     \* the nets of a direction that make RGMII, 4 in the code
    GroupLimit      \* kind -> the limit of a group, 0 for none

Nets == 1 .. Len(Names)

ASSUME NamesAssumption ==
    /\ Len(Names) \in Nat
    /\ \A n \in Nets : Len(Names[n].leaf) > 0
    /\ \A n, o \in Nets : Names[n] = Names[o] => n = o

ASSUME ComplementAssumption ==
    \A w \in DOMAIN Complement : \A i \in DOMAIN Complement[w] :
        Complement[w][i] \notin DOMAIN Complement

--------------------------------------------------------------------------------
(* What a name says (pairs.go).                                                  *)

Leaf(n) == Names[n].leaf
Scope(n) == Names[n].scope

\* instance: the first word, when a separator follows it and it is not a letter.
Instance(n) ==
    IF Len(Leaf(n)) > 1 /\ Leaf(n)[1] \notin Letters THEN <<Leaf(n)[1]>> ELSE <<>>

\* signal: what the first separator leaves, whatever came before it.
Signal(n) == IF Len(Leaf(n)) > 1 THEN Tail(Leaf(n)) ELSE Leaf(n)

\* The instance a net is grouped under: its own, or else the sheet it is on.
Key(n) == IF Instance(n) # <<>> THEN Instance(n) ELSE Scope(n)

Words(n) == {Scope(n)[i] : i \in DOMAIN Scope(n)} \cup {Leaf(n)[i] : i \in DOMAIN Leaf(n)}

\* The name with another last word.
Ending(n, word) == [Names[n] EXCEPT !.leaf[Len(Leaf(n))] = word]

\* The nets that are the other half of n by one of the endings tried.
With(n, word, nets) == {o \in nets : Names[o] = Ending(n, word)}

FirstWith(n, words, nets) ==
    UNION {With(n, words[i], nets) : i \in
              {j \in DOMAIN words : \A k \in 1 .. j - 1 : With(n, words[k], nets) = {}}}

\* The other half of the pair n is the positive half of: of the endings tried, the
\* first that some net has.
Partners(n, nets) ==
    IF Last(Leaf(n)) \notin DOMAIN Complement \/ Leaf(n) \in {<<l>> : l \in Letters} THEN {}
    ELSE FirstWith(n, Complement[Last(Leaf(n))], nets)

\* FindPairs: both halves have to exist.
FindPairs(nets) == UNION {{[p |-> n, n |-> o] : o \in Partners(n, nets)} : n \in nets}

Paired(pairs) == UNION {{q.p, q.n} : q \in pairs}

\* byInstance: the nets of each key.
ByInstance(nets) == {{n \in nets : Key(n) = k} : k \in {Key(n) : n \in nets}}

KeyOf(nets) == Key(Min(nets))

--------------------------------------------------------------------------------
(* The patterns, as the word sequences they match.                               *)

Polar(stems) == {<<s, e>> : s \in stems, e \in {"P", "N"}}

DdrSignals ==
    {<<s>> : s \in {"DQ0", "DQ1", "A0", "A1", "CASN", "RESETN"}} \cup Polar({"DQS0", "DQS1", "CK", "CLK"})

RgmiiTxClock == {<<"GTX", "CLK">>, <<"GTXCLK">>, <<"TX", "CLK">>, <<"TXCLK">>, <<"TXC">>}
RgmiiRxClock == {<<"RX", "CLK">>, <<"RXCLK">>, <<"RXC">>}
RgmiiTx == RgmiiTxClock \cup {<<"TXD0">>, <<"TXD1">>, <<"TX", "CTL">>, <<"TX", "EN">>, <<"TXCTL">>}
RgmiiRx == RgmiiRxClock \cup {<<"RXD0">>, <<"RXD1">>, <<"RX", "CTL">>, <<"RX", "DV">>, <<"RXCTL">>}
RgmiiMd == {<<"MDC">>, <<"MDIO">>, <<"INT">>, <<"RESETN">>}

MipiPlain == Polar({"CK", "CLK"}) \cup {<<"CK+">>, <<"CK-">>}
MipiClock == MipiPlain \cup Polar({"CKCON"})
MipiLane == Polar({"D0", "D1", "D0CON"}) \cup {<<"D0+">>, <<"D0-">>}

UsbTail == {<<"D+">>, <<"D-">>, <<"DP">>, <<"DM">>} \cup Polar({"D"})
UsbWords == {"D+", "D-", "DP", "DM", "D", "DET"}

SdBuses == {"SDMMC1", "SDMMC3", "SD", "EMMC"}
SdClocks == {"CK", "CLK"}
SdSignals == SdClocks \cup {"CMD", "D0", "D1"}

--------------------------------------------------------------------------------
(* The detectors.  Each gives a set of interfaces: its groups have nothing in    *)
(* common, and the order of its list is only the order of the report.            *)

\* What an interface of a kind is called before its instance.
Label == [ddr |-> "DDR memory", rgmii |-> "Ethernet RGMII", mipi |-> "MIPI D-PHY", pcie |-> "PCI Express",
          usb2 |-> "USB", sdmmc |-> "SD/eMMC", differential |-> "Differential pairs"]

Group(name, reference, members, limit) ==
    [name |-> name, reference |-> reference, members |-> members, limit |-> limit]

Interface(kind, instance, nets, pairs, groups) ==
    [kind |-> kind, instance |-> instance, nets |-> nets, pairs |-> pairs,
     groups |-> groups, name |-> <<Label[kind], instance>>]

\* bracketFor: an instance that only repeats the family is left out of the name.
Named(i, family) ==
    [i EXCEPT !.name = <<Label[i.kind], IF i.instance = <<family>> THEN <<>> ELSE i.instance>>]

FirstOf(nets) == IF nets = {} THEN 0 ELSE Min(nets)

Bare(s) == IF Len(s) > 1 /\ s[1] = "DDR" THEN Tail(s) ELSE s

detectDDR(nets) ==
    {Named(Interface("ddr", KeyOf(ns), ns, FindPairs(ns), {}), "DDR") :
        ns \in {b \in ByInstance({n \in nets : Bare(Signal(n)) \in DdrSignals}) : Cardinality(b) >= DdrLeast}}

\* ethSignal: where the signal begins, the whole leaf tried first.
EthStart(n) ==
    FirstOf({i \in DOMAIN Leaf(n) :
                SubSeq(Leaf(n), i, Len(Leaf(n))) \in RgmiiTx \cup RgmiiRx \cup RgmiiMd})

EthSignal(n) == SubSeq(Leaf(n), EthStart(n), Len(Leaf(n)))

EthInstance(n) ==
    IF EthStart(n) > 1 THEN SubSeq(Leaf(n), 1, EthStart(n) - 1) ELSE Scope(n)

EthBuses(claimed) == {{n \in claimed : EthInstance(n) = k} : k \in {EthInstance(n) : n \in claimed}}

EthClock(ns, names) == FirstOf({n \in ns : EthSignal(n) \in names})

\* Both directions, or it is not RGMII; each is matched to its own clock.
Rgmii(ns, tx, rx) ==
    IF Cardinality(tx) < RgmiiLeast \/ Cardinality(rx) < RgmiiLeast THEN {}
    ELSE {Interface("rgmii", EthInstance(Min(ns)), ns, {},
             {Group(<<"transmit", 0>>, EthClock(tx, RgmiiTxClock), tx, GroupLimit["rgmii"]),
              Group(<<"receive", 0>>, EthClock(rx, RgmiiRxClock), rx, GroupLimit["rgmii"])})}

detectRGMII(nets) ==
    UNION {Rgmii(ns, {n \in ns : EthSignal(n) \in RgmiiTx}, {n \in ns : EthSignal(n) \in RgmiiRx \ RgmiiTx}) :
               ns \in EthBuses({n \in nets : EthStart(n) > 0})}

\* The plainest clock name wins: a link with a connector in it has two clocks.
PlainClock(plain, clocks) == IF plain # {} THEN Min(plain) ELSE FirstOf(clocks)

Mipi(ns, pairs, clocks, lanes) ==
    IF clocks = {} \/ lanes = {} THEN {}
    ELSE {Interface("mipi", KeyOf(ns), ns, pairs,
             {Group(<<"data lanes to clock", 0>>,
                    PlainClock({n \in clocks : Signal(n) \in MipiPlain}, clocks), lanes, GroupLimit["mipi"])})}

MipiLink(ns, pairs) ==
    Mipi(ns, pairs, {q.p : q \in {r \in pairs : Signal(r.p) \in MipiClock}},
         {q.p : q \in {r \in pairs : Signal(r.p) \notin MipiClock}})

detectMIPI(nets) ==
    UNION {MipiLink(ns, FindPairs(ns)) : ns \in ByInstance({n \in nets : Signal(n) \in MipiClock \cup MipiLane})}

\* The lanes of PCI Express are pairs and nothing more.
PcieLike(s) == s[1] \in LaneWords \/ \E i \in DOMAIN s : s[i] \in ClockWords

\* An interface that is its pairs, where there are any.
OfPairs(kind, ns, pairs, family) ==
    IF pairs = {} THEN {} ELSE {Named(Interface(kind, KeyOf(ns), Paired(pairs), pairs, {}), family)}

detectPCIe(nets) ==
    UNION {OfPairs("pcie", ns, FindPairs(ns), "PCIE") :
               ns \in {l \in ByInstance({n \in nets : PcieLike(Signal(n))}) : \E n \in l : Words(n) \cap PcieWords # {}}}

UsbLike(s) == s \in UsbTail \/ (Len(s) > 1 /\ s[1] = "USB" /\ s[2] \in UsbWords)

detectUSB(nets) ==
    UNION {OfPairs("usb2", ns, FindPairs(ns), "USB") : ns \in ByInstance({n \in nets : UsbLike(Signal(n))})}

\* The bus is read from the whole leaf, or else from what follows the instance.
SdMatches(s) == Len(s) = 2 /\ s[1] \in SdBuses /\ s[2] \in SdSignals

SdName(n) ==
    IF SdMatches(Leaf(n)) THEN Leaf(n) ELSE IF SdMatches(Signal(n)) THEN Signal(n) ELSE <<"", "">>

SdGroups(claimed) == {{n \in claimed : SdName(n)[1] = k} : k \in {SdName(n)[1] : n \in claimed}}

SdBus(ns, clock) ==
    IF Cardinality(ns) < 3 \/ clock = 0 THEN {}
    ELSE {Interface("sdmmc", <<SdName(Min(ns))[1]>>, ns, {},
             {Group(<<"command and data to clock", 0>>, clock, ns \ {clock}, GroupLimit["sdmmc"])})}

detectSDMMC(nets) ==
    UNION {SdBus(ns, FirstOf({n \in ns : SdName(n)[2] \in SdClocks})) :
               ns \in SdGroups({n \in nets : SdName(n)[1] # ""})}

\* A pair nobody recognised is still a pair.
Leftover(pairs) ==
    {Interface("differential", s, Paired({q \in pairs : Scope(q.p) = s}), {q \in pairs : Scope(q.p) = s}, {}) :
        s \in {Scope(q.p) : q \in pairs}}

detectLeftoverPairs(nets) == Leftover(FindPairs(nets))

Detector(d, nets) ==
    CASE d = 1 -> detectDDR(nets)   [] d = 2 -> detectRGMII(nets) [] d = 3 -> detectMIPI(nets)
      [] d = 4 -> detectPCIe(nets)  [] d = 5 -> detectUSB(nets)   [] d = 6 -> detectSDMMC(nets)
      [] OTHER -> detectLeftoverPairs(nets)

Detectors == 1 .. 7

NetsOf(found) == UNION {i.nets : i \in found}

\* What the next detector is offered: the nets nobody has claimed.
Available(nets, found) == nets \ NetsOf(found)

Claim(d, found, nets) == found \cup Detector(d, Available(nets, found))

\* Detect: the detectors in order.
Detect(nets) == FoldLeft(LAMBDA found, d : Claim(d, found, nets), {}, <<1, 2, 3, 4, 5, 6, 7>>)

--------------------------------------------------------------------------------
(* What the user says instead.                                                   *)

\* ID: what an override is looked up by.
ID(i) == <<i.kind, IF i.instance # <<>> THEN i.instance ELSE <<Label[i.kind]>>>>

\* mutant: the structure of some of the nets is enough
StructuredInPart(nets, kind) ==
    {i \in UNION {Detector(d, nets) : d \in Detectors} : i.kind = kind}

\* A detector of the family that finds its structure in all of these nets.
Structured(nets, kind) ==
    {i \in UNION {Detector(d, nets) : d \in Detectors} : i.kind = kind /\ i.nets = nets}

OneOf(S, otherwise) == IF S = {} THEN otherwise ELSE CHOOSE x \in S : TRUE

\* Reassign: the family's structure where the names carry it, else its pairs.
Reassign(nets, kind) ==
    [OneOf(Structured(nets, kind),
           [Interface(kind, <<>>, nets, FindPairs(nets), {}) EXCEPT !.name = <<"family", <<kind>>>>])
        EXCEPT !.nets = nets]

\* WithReference: every other net is matched to the one named.
WithReference(i, ref) ==
    [i EXCEPT !.groups = {Group(<<"matched to", ref>>, ref, i.nets \ {ref}, GroupLimit[i.kind])}]
=============================================================================
