------------------------------- MODULE Metrics ------------------------------
(***************************************************************************)
(* PerformanceMetrics of metrics.rs: what record_execution of the risk      *)
(* limits books for every report, and what is read from it.  The engine     *)
(* shows the drawdown, the trade count and the PnL of each kind of          *)
(* arbitrage on the dashboard, the daemon raises its alerts by them.        *)
(***************************************************************************)
EXTENDS Integers, Sequences, FiniteSets, FiniteSetsExt

CONSTANTS Kinds,          \* arbitrage types
          Realized,       \* what one report may realize
          StartingEquity,
          MaxReports,     \* reports kept (10,000)
          MaxOpen,        \* bound: partially filled legs of one report
          MaxBooked       \* bound: reports of a behaviour

ASSUME MetricsAssumption ==
    /\ IsFiniteSet(Kinds) /\ Realized \subseteq Int /\ StartingEquity \in Int
    /\ {MaxReports, MaxOpen, MaxBooked} \subseteq Nat /\ MaxReports > 0

VARIABLES pnlByType, peakEquity, currentEquity, executionReports, openOrders,
          equities   \* history: the equity after each report, the first included

metricsVars == <<pnlByType, peakEquity, currentEquity, executionReports, openOrders,
                 equities>>

MetricsInit ==
    /\ pnlByType = [k \in Kinds |-> 0]
    /\ peakEquity = StartingEquity /\ currentEquity = StartingEquity
    /\ executionReports = <<>> /\ openOrders = 0
    /\ equities = <<StartingEquity>>

\* As NewPeak, after the equity rather than its maximum.
NewPeakLatest(equity) == equity

NewPeak(equity) == IF equity > peakEquity THEN equity ELSE peakEquity

\* Legs that are not filled, rejected or cancelled are open, and nothing ever
\* calls record_order_completion for them.
RecordReport(kind, edge, open) ==
    /\ Len(equities) <= MaxBooked
    /\ pnlByType' = [pnlByType EXCEPT ![kind] = @ + edge]
    /\ currentEquity' = currentEquity + edge
    /\ peakEquity' = NewPeak(currentEquity')
    /\ executionReports' =
          Append(IF Len(executionReports) >= MaxReports THEN Tail(executionReports)
                 ELSE executionReports, edge)
    /\ openOrders' = openOrders + open
    /\ equities' = Append(equities, currentEquity')

MetricsNext ==
    \E k \in Kinds, e \in Realized, open \in 0..MaxOpen : RecordReport(k, e, open)

TotalPnl == MapThenSumSet(LAMBDA k : pnlByType[k], Kinds)
TradeCount == Len(executionReports)

\* drawdown_pct, as a loss; no percentage is given of a peak that is not positive.
Drawdown ==
    IF peakEquity <= 0 \/ peakEquity <= currentEquity THEN 0
    ELSE peakEquity - currentEquity

\* The drawdown reported is the loss since the best moment of the whole history,
\* eviction of reports or not, the PnL by type adds up to the equity gained, and
\* trades are counted up to the number of reports that is kept.
DrawdownFromPeak ==
    LET best == Max({equities[i] : i \in 1..Len(equities)})
    IN  /\ Drawdown = (IF best <= 0 THEN 0 ELSE best - currentEquity)
        /\ currentEquity = StartingEquity + TotalPnl
        /\ TradeCount = Min({MaxReports, Len(equities) - 1})
=============================================================================
