----------------------------- MODULE MCAnalysis ----------------------------
(* Small markets, readings, portfolios, weights and crowds. *)
EXTENDS Analysis, MCOffers

MCConfig ==
    [enabled |-> SingleKinds, minDropPct |-> 50, minDivergence |-> 5, targetSpread |-> 4,
     minNet |-> 1, cap |-> 5]

MCConfigs ==
    {MCConfig, [MCConfig EXCEPT !.enabled = {"volume", "stale", "quote"}, !.minNet = 3]}

\* Quiet and wide; thin asks and busy; old and far from its siblings, the second book
\* lost; about to resolve, the first book lost; no book at all.
MCSignalTokens == <<"q", "r">>
Quiet1 ==
    [books |-> <<Snapshot("q", {At(40, 3), At(38, 4)}, {At(48, 4), At(50, 3)}),
                 Snapshot("r", {At(50, 2)}, {At(60, 3)})>>,
     mids |-> <<44, 56>>, models |-> <<44, 66>>, siblings |-> <<30, 26>>,
     volume |-> 1, change |-> 0, hours |-> 9, age |-> 0, interval |-> 10]
Busy ==
    [books |-> <<Snapshot("q", {At(46, 3)}, {At(47, 2)}), Snapshot("r", {At(51, 2)}, {At(53, 3)})>>,
     mids |-> <<46, 54>>, models |-> <<60, 40>>, siblings |-> <<54>>,
     volume |-> 4, change |-> 8, hours |-> 9, age |-> 0, interval |-> 10]
Old ==
    [books |-> <<Snapshot("q", {At(60, 1), At(58, 1)}, {At(63, 9)})>>,
     mids |-> <<62, 38>>, models |-> <<62, 38>>, siblings |-> <<20, 50>>,
     volume |-> 2, change |-> -7, hours |-> 0, age |-> 5, interval |-> 90]
Closing ==
    [books |-> <<Snapshot("r", {At(90, 5)}, {At(91, 2), At(92, 2)})>>,
     mids |-> <<92, 8>>, models |-> <<99, 1>>, siblings |-> <<8>>,
     volume |-> 1, change |-> 1, hours |-> 1, age |-> 0, interval |-> 10]

MCReadings == {Quiet1, Busy, Old, Closing, [Busy EXCEPT !.books = <<>>, !.volume = 0]}

MCOverrides == {<<>>, [minNet |-> 0, cap |-> 3]}
MCUnparsable == -1
MCSweeps ==
    {[param |-> "minDivergence", values |-> <<5, 20>>],
     [param |-> "targetSpread", values |-> <<2, MCUnparsable>>]}

Report(edge, fees, size, day) == [edge |-> edge, fees |-> fees, size |-> size, day |-> day]
MCHistories ==
    {<<Report(4, 1, 2, 2), Report(-3, 1, 3, 1), Report(5, 2, 1, 1)>>,
     <<Report(0, 0, 2, 1), Report(2, 1, 4, 1), Report(3, 1, 2, 1), Report(1, 0, 1, 1)>>}

MCPnls == {-3, -1, 2}
MCSpreads == {<<0, 1>>, <<3, 1>>, <<-2, 2>>}
MCPortfolios ==
    {<<>>, <<[size |-> 2, price |-> 40, losing |-> TRUE]>>,
     <<[size |-> 3, price |-> 30, losing |-> FALSE], [size |-> 0, price |-> 70, losing |-> FALSE],
       [size |-> 1, price |-> 90, losing |-> TRUE]>>}
MCPercents == {-10, 0, 50, 100, 5000}

MCGuesses == {[p |-> 2, precision |-> 1], [p |-> 5, precision |-> 3], [p |-> 9, precision |-> 0]}

Agent(type, value, width, lookback) ==
    [type |-> type, value |-> value, width |-> width, lookback |-> lookback]
MCCrowds ==
    {<<>>,
     <<Agent("noise", 0, 0, 1), Agent("zeroIntelligence", 500, 0, 1)>>,
     <<Agent("informed", 90, 0, 1), Agent("momentum", 0, 1, 2), Agent("marketMaker", 0, 0, 1)>>,
     <<Agent("arbitrageur", 30, 5, 1), Agent("contrarian", 0, 1, 2), Agent("noise", 0, 0, 1)>>}
MCDraws == {0, 40, 300}
=============================================================================
