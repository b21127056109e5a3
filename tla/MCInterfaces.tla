----------------------------- MODULE MCInterfaces -----------------------------
(* Boards of one or two interfaces, named in the ways that are easy to misread.  *)
EXTENDS Interfaces

N(scope, leaf) == [scope |-> scope, leaf |-> leaf]

Eth1 == <<N(<<>>, <<"ETH1", "GTX", "CLK">>), N(<<>>, <<"ETH1", "TXD0">>), N(<<>>, <<"ETH1", "TX", "CTL">>),
          N(<<>>, <<"ETH1", "RXD0">>), N(<<>>, <<"ETH1", "RX", "CLK">>), N(<<>>, <<"ETH1", "MDC">>)>>
Eth  == <<N(<<"eth">>, <<"TXD0">>), N(<<"eth">>, <<"TX", "CLK">>),
          N(<<"eth">>, <<"RXD0">>), N(<<"eth">>, <<"RX", "CLK">>)>>
Csi  == <<N(<<>>, <<"CSI", "CKCON", "P">>), N(<<>>, <<"CSI", "CKCON", "N">>), N(<<>>, <<"CSI", "CK", "P">>),
          N(<<>>, <<"CSI", "CK", "N">>), N(<<>>, <<"CSI", "D0", "P">>), N(<<>>, <<"CSI", "D0", "N">>)>>
Pcie == <<N(<<"a">>, <<"PCIE", "RX0+">>), N(<<"a">>, <<"PCIE", "RX0-">>), N(<<"b">>, <<"PCIE", "TX0+">>),
          N(<<"b">>, <<"PCIE", "TX0-">>), N(<<"b">>, <<"PCIE", "CLK">>)>>
Usb  == <<N(<<"pod">>, <<"P", "USB", "D+">>), N(<<"pod">>, <<"P", "USB", "D-">>), N(<<>>, <<"USB", "D+">>),
          N(<<>>, <<"USB", "D-">>), N(<<>>, <<"HUB", "DP">>), N(<<>>, <<"HUB", "DM">>), N(<<>>, <<"USB", "DET">>)>>
Sd   == <<N(<<>>, <<"SDMMC1", "CK">>), N(<<>>, <<"SDMMC1", "CMD">>), N(<<>>, <<"SDMMC1", "D0">>),
          N(<<>>, <<"GPIO", "SDMMC3", "CK">>), N(<<>>, <<"GPIO", "SDMMC3", "CMD">>), N(<<>>, <<"SDMMC3", "D0">>)>>
Ddr  == <<N(<<>>, <<"DDR", "DQ0">>), N(<<>>, <<"DDR", "DQ1">>), N(<<>>, <<"DDR", "DQS0", "P">>),
          N(<<>>, <<"DDR", "DQS0", "N">>), N(<<>>, <<"DDR", "CASN">>), N(<<>>, <<"DDR", "DQS1", "P">>),
          N(<<>>, <<"DDR", "DQS1", "N">>)>>
Rest == <<N(<<>>, <<"CLK", "P">>), N(<<>>, <<"CLK", "N">>), N(<<"x">>, <<"LVDS", "A", "P">>),
          N(<<"x">>, <<"LVDS", "A", "N">>), N(<<>>, <<"RESETN">>)>>
Far  == <<N(<<>>, <<"Net-(R80)">>), N(<<>>, <<"Net-(L2)">>), N(<<>>, <<"Net-(R81)">>), N(<<>>, <<"VCC">>),
          N(<<>>, <<"STRAP">>), N(<<>>, <<"Net-(C1)">>), N(<<>>, <<"Net-(J3)">>)>>

MCNames == Eth1 \o Eth \o Csi \o Pcie \o Usb \o Sd \o Ddr \o Rest \o Far

Blocks == {1 .. 6 \cup 47 .. 51, 7 .. 10, 11 .. 16 \cup {52, 53}, 17 .. 21, 22 .. 28, 29 .. 34, 35 .. 41, 42 .. 46}
MCBoards == {a \cup b : a \in Blocks, b \in Blocks} \cup {UNION Blocks}

\* ETH1_RXD0 runs on through R80 and L2 and has a pull-up, ETH1_RX_CLK through R81
\* and a strap with many pads, one half of the camera clock through C1; D0 is
\* terminated, and J3 is a connector.
MCParts ==
    {[kind |-> "R", ends |-> {4, 47}], [kind |-> "L", ends |-> {47, 48}], [kind |-> "C", ends |-> {4, 50}],
     [kind |-> "R", ends |-> {5, 49}], [kind |-> "R", ends |-> {2, 51}], [kind |-> "C", ends |-> {14, 52}],
     [kind |-> "R", ends |-> {15, 16}], [kind |-> "J", ends |-> {15, 53}]}
MCRails == {50}
MCPadCount == [n \in 1 .. Len(MCNames) |-> IF n = 51 THEN 7 ELSE IF n = 50 THEN 9 ELSE 2]
MCTwins == {{"P", "N"}, {"D+", "D-"}, {"DP", "DN"}, {"RX0+", "RX0-"}, {"TX0+", "TX0-"}}

MCLetters == {"P", "N", "D", "A"}
MCComplement == [w \in {"P", "D+", "DP", "RX0+", "TX0+"} |->
    CASE w = "P" -> <<"N">> [] w = "D+" -> <<"D-">> [] w = "DP" -> <<"DM", "DN">>
      [] w = "RX0+" -> <<"RX0-">> [] OTHER -> <<"TX0-">>]
MCPcieWords == {"PCIE"}
MCLaneWords == {"PCIE", "RX", "TX", "RX0+", "RX0-", "TX0+", "TX0-", "RXD0", "TXD0"}
MCClockWords == {"CLK"}

Kinds == {"ddr", "rgmii", "mipi", "pcie", "usb2", "sdmmc", "differential"}
MCGroupLimit == [k \in Kinds |-> CASE k \in {"rgmii", "sdmmc"} -> 2 [] k = "mipi" -> 1 [] OTHER -> 0]
MCPairLimit == [k \in Kinds |-> IF k \in {"ddr", "rgmii", "sdmmc"} THEN 0 ELSE 1]

Islands == [n \in {8, 13, 17} |->
    CASE n = 8 -> {{0}, {3}, {5, 6}} [] n = 13 -> {{0, 7}, {4}, {12}} [] OTHER -> {{0}, {9}, {2, 7}}]

Small(b) == b \in Blocks
MCBroken == [b \in MCBoards |-> [n \in {m \in b : Small(b) /\ m \in DOMAIN Islands} |-> Islands[n]]]

Span(a) == Max(a) - Min(a)

\* A net in islands measures what the longest of them spans, a far one little.
Measured(b, l(_)) ==
    [n \in b |-> IF n \in DOMAIN MCBroken[b] THEN Max({Span(a) : a \in Islands[n]})
                ELSE IF n \in 47 .. Len(MCNames) THEN 1 ELSE l(n)]

\* Every net the same; and spreads in which the halves of a pair and the members
\* of a group differ, with nets not routed.
Even(n) == 8
Spread(n) == 8 + 2 * (n % 3)
Gaps(n) == IF n % 4 = 1 THEN 0 ELSE 8 + (n % 4)

MCFirstLengths == [b \in MCBoards |->
    {Measured(b, Even)} \cup
    (IF ~Small(b) THEN {} ELSE {Measured(b, Spread), Measured(b, Gaps)})]

\* The memories, each with as many strobes as lanes: one with both lanes, one to a
\* lane, and these with the strobes numbered the other way round.  1 and 4 are
\* memories, 3 drives them, 2 ends the command net.
MCWirings == [b \in MCBoards |->
    {[n \in b |-> CASE n = 35 -> {3, m[1]} [] n = 36 -> {3, m[2]} [] n = 39 -> {1, 2, 3, 4}
                   [] n \in {37, 38} -> {3, s[1]} [] n \in {40, 41} -> {3, s[2]} [] OTHER -> {5, 6}] :
        <<m, s>> \in IF 35 \in b THEN {<<<<1, 1>>, <<1, 1>>>>, <<<<1, 4>>, <<1, 4>>>>, <<<<1, 4>>, <<4, 1>>>>,
                                      <<<<4, 1>>, <<1, 4>>>>}
                    ELSE {<<<<1, 1>>, <<1, 1>>>>}}]

MCNumbered == [w \in {"DQ0", "DQ1", "DQS0", "DQS1"} |->
    CASE w = "DQ0" -> <<"DQ", 0>> [] w = "DQ1" -> <<"DQ", 1>> [] w = "DQS0" -> <<"DQS", 0>> [] OTHER -> <<"DQS", 1>>]
MCDdrWords == {"DDR", "DQ0", "DQ1", "DQS0", "DQS1"}

MCSayings == [k \in Kinds |-> {[Nothing EXCEPT !.ignore = TRUE]} \cup
    {[Nothing EXCEPT !.kind = l] : l \in {"mipi", "differential", "sdmmc"} \ {k}}]
=============================================================================
