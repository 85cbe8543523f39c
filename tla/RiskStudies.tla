----------------------------- MODULE RiskStudies ----------------------------
(***************************************************************************)
(* What the risk crate says could be lost: the value at risk of var.rs and  *)
(* the stress tests of stress_test.rs, and the stress test that the API     *)
(* answers with, routes/stress.rs, which uses neither.                     *)
(*                                                                         *)
(* Amounts are integers, a rate is num parts of den, and a loss is kept as  *)
(* [num, den] with the rate not divided out.                               *)
(***************************************************************************)
EXTENDS Integers, Sequences, FiniteSets, FiniteSetsExt, SequencesExt

CONSTANTS Pnls,        \* profits and losses a period may end with
          Spreads,     \* pairs of a mean and a deviation, which is not negative
          MaxSeries,   \* bound on the periods
          Tail95, Tail99, \* one period in so many: 20 and 100
          Portfolios,  \* sets of positions: sequences of [size, price, losing]
          Percents,    \* what the caller asks for, in percent or in seconds
          BleedSeconds \* seconds until all is lost: 1200

ASSUME StudiesAssumption ==
    /\ {MaxSeries, BleedSeconds} \subseteq Nat /\ BleedSeconds > 0
    /\ {Tail95, Tail99} \subseteq Nat \ {0, 1} /\ Tail95 <= Tail99
    /\ Percents \subseteq Int /\ Pnls \subseteq Int /\ Spreads \subseteq Int \X Nat
    /\ Portfolios \subseteq Seq([size : Int, price : Nat, losing : BOOLEAN])

VARIABLES pnls,      \* the series
          estimate,  \* the last value at risk: [var95, var99, cvarSum, cvarCount, how]
          holdings,  \* positions of the tracker
          stressed   \* the last stress test

studyVars == <<pnls, estimate, holdings, stressed>>

(***************************************************************************)
(* var.rs                                                                  *)
(***************************************************************************)
Ascending(series) ==
    LET n == Len(series)
        order == CHOOSE p \in [1..n -> 1..n] :
                    \A i, j \in 1..n : i < j => p[i] # p[j] /\ series[p[i]] <= series[p[j]]
    IN  [i \in 1..n |-> series[order[i]]]

AtLeastZero(x) == IF x > 0 THEN x ELSE 0

\* As PercentileLoss, an observation further from the worst.
PercentileLossNext(series, tail) ==
    LET i == Len(series) \div tail + 2
    IN  -(Ascending(series)[IF i < Len(series) THEN i ELSE Len(series)])

\* The observation at the floor of alpha times n, counted from the worst.
PercentileLoss(series, tail) ==
    LET i == Len(series) \div tail + 1
    IN  -(Ascending(series)[IF i < Len(series) THEN i ELSE Len(series)])

\* compute_cvar: the mean of what is no better than the value at risk.
TailLosses(series, var) == {i \in DOMAIN series : series[i] <= -var}

HistoricalVar(series) ==
    LET var95 == PercentileLoss(series, Tail95)
        tail == TailLosses(series, var95)
    IN  [how |-> "historical", var95 |-> var95, var99 |-> PercentileLoss(series, Tail99),
         cvarSum |-> -SumFunction([i \in tail |-> series[i]]),
         cvarCount |-> Cardinality(tail)]

\* From drawn samples, where a profit is no loss.  If the value at risk was cut to
\* zero the tail is every sample that is no profit.
MonteCarloVar(samples) ==
    LET var95 == AtLeastZero(PercentileLoss(samples, Tail95))
        tail == TailLosses(samples, var95)
        sum == -SumFunction([i \in tail |-> samples[i]])
    IN  [how |-> "samples", var95 |-> var95,
         var99 |-> AtLeastZero(PercentileLoss(samples, Tail99)),
         cvarSum |-> IF tail = {} THEN var95 ELSE AtLeastZero(sum),
         cvarCount |-> IF tail = {} THEN 1 ELSE Cardinality(tail)]

\* In ten-thousandths: 1.6449, 2.3263 and 2.0628 deviations.
ParametricVar(mean, deviation) ==
    [how |-> "parametric",
     var95 |-> AtLeastZero(16449 * deviation - 10000 * mean),
     var99 |-> AtLeastZero(23263 * deviation - 10000 * mean),
     cvarSum |-> AtLeastZero(20628 * deviation - 10000 * mean), cvarCount |-> 1]

(***************************************************************************)
(* stress_test.rs                                                          *)
(***************************************************************************)
Clamped(x, lo, hi) == IF x < lo THEN lo ELSE IF x > hi THEN hi ELSE x

Notionals == [i \in DOMAIN holdings |-> holdings[i].size * holdings[i].price]
AtRisk == {i \in DOMAIN holdings : holdings[i].size > 0}
Exposure == SumFunction([i \in AtRisk |-> Notionals[i]])
Largest == IF AtRisk = {} THEN 0 ELSE Max({Notionals[i] : i \in AtRisk})

\* Every position loses num parts of den of its notional.
Losing(scenario, num, den) ==
    [scenario |-> scenario, loss |-> num * Exposure, worst |-> num * Largest, den |-> den,
     atRisk |-> Cardinality(AtRisk)]

\* A slippage of one percent, times reduction / (1 - reduction).
LiquidityShock(percent) ==
    LET r == Clamped(percent, 0, 99) IN Losing("liquidity", r, 100 * (100 - r))

FlashCrash(percent) == Losing("crash", Clamped(percent, 0, 100), 100)

KillSwitchDelay(seconds) ==
    Losing("delay", IF seconds < BleedSeconds THEN seconds ELSE BleedSeconds, BleedSeconds)

\* What the portfolio's variance becomes in hundredths; the volatility of a position
\* is a tenth of its notional.  The deviation of the code is its root.
CorrelationSpike(percent) ==
    LET squares == SumFunction([i \in AtRisk |-> Notionals[i] * Notionals[i]])
        corr == Clamped(percent, 0, 100)
    IN  [scenario |-> "correlation", atRisk |-> Cardinality(AtRisk), worst |-> Largest,
         before |-> 100 * squares,
         after |-> 100 * squares + (Exposure * Exposure - squares) * corr]

(***************************************************************************)
(* routes/stress.rs: rates of its own, of every position listed and not cut *)
(* to the exposure.                                                        *)
(***************************************************************************)
RouteRates(scenario, x) ==
    CASE scenario = "liquidity" -> [impact |-> x * 100, most |-> x * 240, den |-> 100000]
      [] scenario = "correlation" -> [impact |-> x * 35, most |-> x * 94, den |-> 100000]
      [] scenario = "crash" -> [impact |-> x * 3, most |-> x * 5, den |-> 300]
      [] scenario = "delay" -> [impact |-> x, most |-> x * 4, den |-> 3000]

RouteStress(scenario, x) ==
    LET rates == RouteRates(scenario, x)
        total == SumFunction([i \in DOMAIN holdings |-> Notionals[i]])
    IN  [scenario |-> "route", of |-> scenario, asked |-> x, loss |-> rates.impact * total,
         worst |-> rates.most * total, den |-> rates.den,
         atRisk |-> Cardinality(IF scenario = "delay"
                                THEN {i \in DOMAIN holdings : holdings[i].losing}
                                ELSE DOMAIN holdings)]

(***************************************************************************)
(* Studies                                                                 *)
(***************************************************************************)
Period(x) ==
    /\ Len(pnls) < MaxSeries
    /\ pnls' = Append(pnls, x)
    /\ estimate' = HistoricalVar(pnls')
    /\ UNCHANGED <<holdings, stressed>>

DrawPaths ==
    /\ pnls # <<>>
    /\ estimate' = MonteCarloVar(pnls)
    /\ UNCHANGED <<pnls, holdings, stressed>>

Assume(spread) ==
    /\ estimate' = ParametricVar(spread[1], spread[2])
    /\ UNCHANGED <<pnls, holdings, stressed>>

Stress(x) ==
    /\ stressed' \in {LiquidityShock(x), FlashCrash(x), KillSwitchDelay(AtLeastZero(x)),
                      CorrelationSpike(x)}
                     \cup {RouteStress(s, x) : s \in {"liquidity", "correlation", "crash", "delay"}}
    /\ UNCHANGED <<pnls, estimate, holdings>>

StudyInit ==
    /\ pnls = <<>> /\ holdings \in Portfolios
    /\ estimate = [how |-> "none"]
    /\ stressed = [scenario |-> "none"]

VarNext ==
    (\E x \in Pnls : Period(x)) \/ DrawPaths \/ (\E spread \in Spreads : Assume(spread))

StressNext == \E x \in Percents : Stress(x)

(***************************************************************************)
(* Properties                                                              *)
(***************************************************************************)
\* The value at risk is what one period in twenty (or in a hundred) is worse than,
\* and no more of them: strictly worse are at most that share of the series,
\* and with the observation itself there are more.  The shortfall is no better.
VarCoversTail ==
    estimate.how # "none" =>
        LET worse(var) == Cardinality({i \in DOMAIN pnls : -pnls[i] > var})
            noBetter(var) == Cardinality({i \in DOMAIN pnls : -pnls[i] >= var})
        IN  /\ estimate.var99 >= estimate.var95
            /\ estimate.cvarSum >= estimate.var95 * estimate.cvarCount
            /\ estimate.how \in {"historical", "samples"} =>
                  /\ worse(estimate.var95) * Tail95 <= Len(pnls)
                  /\ worse(estimate.var99) * Tail99 <= Len(pnls)
            /\ estimate.how = "historical" =>
                  /\ noBetter(estimate.var95) * Tail95 > Len(pnls)
                  /\ noBetter(estimate.var99) * Tail99 > Len(pnls)

\* Whatever a caller asks for, no scenario of the crate makes the positions lose
\* more than they are worth, one of them more than all, or gain; and correlation
\* only adds variance, up to that of one position of the whole exposure.
StressWithinExposure ==
    /\ stressed.scenario \in {"liquidity", "crash", "delay"} =>
          /\ 0 <= stressed.worst /\ stressed.worst <= stressed.loss
          /\ stressed.loss <= Exposure * stressed.den
    /\ stressed.scenario = "correlation" =>
          /\ stressed.before <= stressed.after
          /\ stressed.after <= 100 * Exposure * Exposure

\* What the studies say.
StudiesHold == VarCoversTail /\ StressWithinExposure
=============================================================================
