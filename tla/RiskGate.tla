------------------------------ MODULE RiskGate ------------------------------
(***************************************************************************)
(* RiskLimits as the gate of automated trading: an opportunity is checked  *)
(* under the risk_limits mutex, executed with no lock held, and recorded   *)
(* under a second lock.  Manual orders and closes are recorded in between  *)
(* and before and after; nothing checks them.                              *)
(*                                                                         *)
(* Kept: the caps on exposure and open orders, and everything their        *)
(* counters are computed from.  The kill switch and the daily loss, which  *)
(* only forbid more, are TradingHalt's; entry prices and profit are        *)
(* PositionBook's.                                                         *)
(*                                                                         *)
(* Sizes are whole lots: a reduced size is rounded down to lots, and no    *)
(* lot means no trade.                                                     *)
(***************************************************************************)
EXTENDS Integers, Sequences, FiniteSets, SequencesExt

CONSTANTS
    Tokens, Markets,
    MarketOf,      \* the market a token belongs to
    Opportunities, \* what the detectors may find: [legs, size, markets]
    ManualPrices,  \* by token, the prices of manual orders
    Unit,          \* price ticks in a dollar
    MaxTotal,      \* config.max_total_exposure, in ticks
    MaxPerMarket,  \* config.max_position_per_market, in ticks
    MaxOrders,     \* config.max_open_orders
    FillPrices,    \* what the exchange may fill an order at, whatever was asked
    MaxHeld,       \* bound: lots of a token a manual order buys up to
    MaxDrift,      \* bound: the drift a manual purchase starts from
    Modes          \* trading modes the process may be started in

\* A leg trades the size of its opportunity: every detector builds them so.
Leg == [token : Tokens, side : {"buy", "sell"}, price : Nat]

\* Leg i belongs to the i-th market, or to the first if there is no i-th.
LegMarket(markets, i) == IF i \in DOMAIN markets THEN markets[i] ELSE Head(markets)

\* The engines' detectors name a market for each leg, or one for all of them.
ASSUME GateAssumption ==
    /\ IsFiniteSet(Tokens)
    /\ MarketOf \in [Tokens -> Markets]
    /\ Opportunities \subseteq [legs : Seq(Leg), size : Nat, markets : Seq(Markets)]
    /\ \A opp \in Opportunities :
          /\ opp.markets # <<>>
          /\ \A i \in DOMAIN opp.legs :
                MarketOf[opp.legs[i].token] = LegMarket(opp.markets, i)
    /\ ManualPrices \in [Tokens -> SUBSET Nat]
    /\ Unit \in Nat \ {0} /\ MaxTotal \in Nat /\ MaxPerMarket \in Nat
    /\ MaxOrders \in Nat /\ MaxHeld \in Nat /\ MaxDrift \in Nat
    /\ FillPrices \in SUBSET Nat
    /\ Modes \subseteq {"paper", "live"}

VARIABLES
    mode,       \* ArbConfig::is_live() when the engine built its executor
    book,       \* PositionTracker.positions: by token, [known, size, price, market]
    openOrders, \* RiskLimits.open_order_count
    eng,        \* the opportunity in execution, cut to the size granted, if any
    drift       \* history: what the exposure gained since the last check that granted
                \* something, and that this check did not look at

vars == <<mode, book, openOrders, eng, drift>>

None == [legs |-> <<>>, size |-> 0, markets |-> <<>>]

NoMarket == "" \* of a token never traded

TypeOK ==
    /\ mode \in Modes
    /\ book \in [Tokens -> [known : BOOLEAN, size : Nat, price : Nat,
                            market : Markets \cup {NoMarket}]]
    /\ openOrders \in Nat
    /\ \/ eng = None
       \/ /\ eng.size \in Nat \ {0}
          /\ \E o \in Opportunities : eng = [o EXCEPT !.size = eng.size]
    /\ drift \in Int

-----------------------------------------------------------------------------
\* PositionTracker.

Values == [t \in Tokens |-> book[t].size * book[t].price]

Exposure == SumFunction(Values)

MarketExposure(m) == SumFunctionOnSet(Values, {t \in Tokens : book[t].market = m})

\* apply_fill: the first fill fixes the market, every fill the current price,
\* a fill of nothing included.
ApplyFill(b, fill) ==
    [b EXCEPT ![fill.token] =
        [known |-> TRUE,
         size |-> IF fill.side = "buy" THEN @.size + fill.size
                  ELSE Max({@.size - fill.size, 0}),
         price |-> fill.price,
         market |-> IF @.known THEN @.market ELSE fill.market]]

-----------------------------------------------------------------------------
\* check_opportunity.

PriceSum(opp) == FoldLeft(LAMBDA s, l : s + l.price, 0, opp.legs)

Notional(opp) == PriceSum(opp) * opp.size

\* As OrdersFit, for one order whatever the legs are.
OrdersFitOffByOne(opp) == openOrders < MaxOrders

OrdersFit(opp) == openOrders + Len(opp.legs) <= MaxOrders

\* Each market of the opportunity is charged an equal share of its notional.
OverMarket(opp) ==
    {i \in DOMAIN opp.markets :
        MarketExposure(opp.markets[i]) * Len(opp.markets) + Notional(opp)
            > MaxPerMarket * Len(opp.markets)}

\* As TotalReduced, without the exposure there is.
TotalReducedToCap(opp) == (MaxTotal * opp.size) \div Notional(opp)

\* The lots the total cap leaves for an opportunity of that price.
TotalReduced(opp) ==
    IF MaxTotal > Exposure /\ Notional(opp) > 0
    THEN ((MaxTotal - Exposure) * opp.size) \div Notional(opp)
    ELSE 0

\* What the first market over its cap has left, in dollars, is taken for a
\* number of lots.
MarketReduced(opp) ==
    LET first == opp.markets[Min(OverMarket(opp))]
    IN  IF MaxPerMarket > MarketExposure(first)
        THEN (MaxPerMarket - MarketExposure(first)) \div Unit ELSE 0

\* RiskDecision: the size approved, 0 for Reject.
Granted(opp) ==
    CASE ~OrdersFit(opp) -> 0
      [] OrdersFit(opp) /\ Exposure + Notional(opp) > MaxTotal -> TotalReduced(opp)
      [] OrdersFit(opp) /\ Exposure + Notional(opp) <= MaxTotal ->
            IF OverMarket(opp) = {} THEN opp.size ELSE MarketReduced(opp)

\* Opportunity::with_max_size.
WithMaxSize(opp, max) == [opp EXCEPT !.size = IF @ > max THEN max ELSE @]

EngineCheck(opp) ==
    /\ eng = None
    /\ Granted(opp) > 0
    /\ eng' = WithMaxSize(opp, Granted(opp))
    /\ drift' = 0
    /\ UNCHANGED <<mode, book, openOrders>>

-----------------------------------------------------------------------------
\* Executing and recording.

\* The paper executor's fill: in the first market, whatever the leg.  What the
\* leg was checked at is history, here and below.
FillAtFirstMarket(i, size, price) ==
    [token |-> eng.legs[i].token, side |-> eng.legs[i].side, size |-> size,
     price |-> price, market |-> Head(eng.markets), checked |-> eng.legs[i].price]

\* The live executor's fill: in the leg's own market.
Fill(i, size, price) ==
    [token |-> eng.legs[i].token, side |-> eng.legs[i].side, size |-> size,
     price |-> price, market |-> LegMarket(eng.markets, i), checked |-> eng.legs[i].price]

\* What no check looked at when a fill is booked: the lots that were held before
\* and stay are worth its price from now on, and bought lots cost more, or less,
\* than they were checked at.
Unchecked(b, fill) ==
    LET old == b[fill.token]
        bought == fill.size * (fill.price - fill.checked)
        stay == IF fill.side = "buy" THEN old.size ELSE Max({old.size - fill.size, 0})
    IN  stay * (fill.price - old.price) + IF fill.side = "buy" THEN bought ELSE 0

Booked(s, fill) ==
    [book |-> ApplyFill(s.book, fill), drift |-> s.drift + Unchecked(s.book, fill)]

\* record_execution: legs neither filled in full, nor rejected, nor cancelled
\* are counted as open orders from now on.
RecordLegs(fills, open) ==
    /\ book' = FoldLeft(ApplyFill, book, fills)
    /\ drift' = FoldLeft(Booked, [book |-> book, drift |-> drift], fills).drift
    /\ openOrders' = openOrders + open

\* The paper executor fills every leg at a price a tenth worse, in the first
\* market of the opportunity.
PaperExecute ==
    /\ mode = "paper"
    /\ eng # None
    /\ LET Worse(leg) == IF leg.side = "buy" THEN leg.price + leg.price \div 10
                         ELSE leg.price - leg.price \div 10
       IN  RecordLegs([i \in DOMAIN eng.legs |->
                          FillAtFirstMarket(i, eng.size, Worse(eng.legs[i]))], 0)
    /\ eng' = None
    /\ UNCHANGED mode

\* The price reported of a leg.  A fill: one amount of the answer over the other, or
\* the leg's own price if the answer lacks one of them.  No fill: the leg's own price
\* when the exchange declines it, 0 when it failed or timed out.
AnswerPrices(i, filled) ==
    {eng.legs[i].price} \cup (IF filled > 0 THEN FillPrices ELSE {0})

\* The live executor works through all the legs.  Posting, retrying and cancelling
\* the orders are LiveOrders'.
LiveExecute(filled, price) ==
    LET legs == DOMAIN eng.legs
        partial == {i \in legs : 0 < filled[i] /\ filled[i] < eng.size}
    IN  /\ mode = "live"
        /\ eng # None
        /\ \A i \in legs : price[i] \in AnswerPrices(i, filled[i])
        /\ RecordLegs([i \in legs |-> Fill(i, filled[i], price[i])], Cardinality(partial))
        /\ eng' = None
        /\ UNCHANGED mode

\* The execution ended in an error (LiveOrders: an unreadable token, a cancellation
\* that failed): the report is lost with the fills it holds.
LiveExecuteLost ==
    /\ mode = "live"
    /\ eng # None
    /\ eng' = None
    /\ UNCHANGED <<mode, book, openOrders, drift>>

ReportedPrices == {0} \cup FillPrices \cup {eng.legs[i].price : i \in DOMAIN eng.legs}

LiveExecution ==
    \E filled \in [DOMAIN eng.legs -> 0..eng.size] :
        \E price \in [DOMAIN eng.legs -> ReportedPrices] : LiveExecute(filled, price)

\* place_order and the closes: always filled in full, in the token's market, and
\* never checked.
ManualFill(t, side, size, price) ==
    /\ side = "buy" => book[t].size + size <= MaxHeld /\ drift <= MaxDrift
    /\ RecordLegs(<<[token |-> t, side |-> side, size |-> size, price |-> price,
                     market |-> MarketOf[t], checked |-> 0]>>, 0)
    /\ UNCHANGED <<mode, eng>>

-----------------------------------------------------------------------------
Init ==
    /\ mode \in Modes
    /\ book = [t \in Tokens |->
                 [known |-> FALSE, size |-> 0, price |-> 0, market |-> NoMarket]]
    /\ openOrders = 0
    /\ eng = None
    /\ drift = 0

Next ==
    \/ \E opp \in Opportunities : EngineCheck(opp)
    \/ PaperExecute \/ LiveExecution \/ LiveExecuteLost
    \/ \E t \in Tokens, size \in 1..MaxHeld :
        \E price \in ManualPrices[t], side \in {"buy", "sell"} :
            ManualFill(t, side, size, price)

Spec == Init /\ [][Next]_vars

-----------------------------------------------------------------------------
\* The orders counted as open never exceed max_open_orders, although they are
\* counted only when the execution is recorded, long after the check.
OpenOrdersWithinLimit == openOrders <= MaxOrders

\* What makes it inductive: an execution keeps the room its check found.
OrderRoom ==
    /\ OpenOrdersWithinLimit
    /\ eng # None => openOrders + Len(eng.legs) <= MaxOrders

\* What the check grants, approved or reduced, fits under the total cap on top
\* of the exposure it was granted on.
GrantFitsTotal ==
    [][\A opp \in Opportunities : EngineCheck(opp)
        => Exposure + Notional(eng') <= MaxTotal]_vars

\* The total cap in terms of what was checked.  Through executions of either
\* executor, reduced sizes, partial fills, declined and failed legs, lost reports and
\* manual orders at any moment, the exposure, with what is in execution, passes
\* max_total_exposure by no more than what manual orders bought, what fills cost
\* beyond the price that was checked, and what the lots held gained when a fill
\* changed their price, all since the last check that granted something.
CapPassedOnlyByDrift == Exposure + Notional(eng) <= MaxTotal + drift

\* The markets a position of the token may be charged to.  Its own; and on paper the
\* first one of an opportunity that trades it, which may be another.
ChargedTo(t) ==
    {MarketOf[t]} \cup
    {Head(o.markets) : o \in {o \in Opportunities : /\ mode = "paper"
                                                   /\ \E i \in DOMAIN o.legs : o.legs[i].token = t}}

\* With the live executor, manual orders included, a position counts against the
\* limit of its own market; on paper a wrong market is the first of an opportunity
\* with several.
ChargedMarket == \A t \in Tokens : book[t].known => book[t].market \in ChargedTo(t)

\* What the risk limits keep to, however executions and manual orders interleave.
CapsHold == CapPassedOnlyByDrift /\ ChargedMarket
=============================================================================
