--------------------------- MODULE CircuitBreaker ---------------------------
(***************************************************************************)
(* circuit_breaker.rs: three triggers over a loss and two rolling windows.  *)
(* Results and latencies are queued as they come and pruned from the front  *)
(* by check() alone.  A sample is bad when the call failed, or when its     *)
(* latency exceeds max_latency_ms.                                         *)
(***************************************************************************)
EXTENDS Integers, Sequences, FiniteSets, Filter

CONSTANTS ErrorWindow, LatencyWindow,  \* in ticks
          MinResults, MinLatencies,    \* samples a trigger needs (10 and 5)
          MaxSamples, MaxClock         \* bounds

ASSUME BreakerAssumption ==
    {ErrorWindow, LatencyWindow, MinResults, MinLatencies, MaxSamples, MaxClock}
        \subseteq Nat

VARIABLES clock, overLoss, apiResults, latencies,
          verdict,                   \* what the last check() said
          allResults, allLatencies   \* history: every sample recorded

breakerVars == <<clock, overLoss, apiResults, latencies, verdict, allResults,
                 allLatencies>>

\* As Pruned, popping one sample at most.
PrunedOnce(queue, window) ==
    IF queue # <<>> /\ Head(queue).at < clock - window THEN Tail(queue) ELSE queue

\* Pops from the front until a sample is recent.
Pruned(queue, window) ==
    LET old == {n \in 1..Len(queue) :
                   \A i \in 1..n : queue[i].at < clock - window}
    IN  SubSeq(queue, Cardinality(old) + 1, Len(queue))

Bad(queue) == Cardinality({i \in 1..Len(queue) : queue[i].bad})

\* The rate exceeds one half, the default, of the results.
ErrorRateTrips(queue) == Len(queue) >= MinResults /\ 2 * Bad(queue) > Len(queue)

LatencyTrips(queue) == Len(queue) >= MinLatencies /\ Bad(queue) = Len(queue)

Verdict(loss, results, delays) ==
    IF loss THEN "loss"
    ELSE IF ErrorRateTrips(results) THEN "error rate"
    ELSE IF LatencyTrips(delays) THEN "latency"
    ELSE "none"

BreakerInit ==
    /\ clock = 0 /\ overLoss = FALSE
    /\ apiResults = <<>> /\ latencies = <<>>
    /\ verdict = "unchecked"
    /\ allResults = <<>> /\ allLatencies = <<>>

RecordPnl(loss) ==
    /\ overLoss' = loss
    /\ verdict' = "unchecked"
    /\ UNCHANGED <<clock, apiResults, latencies, allResults, allLatencies>>

RecordResult(bad) ==
    /\ Len(allResults) + Len(allLatencies) < MaxSamples
    /\ apiResults' = Append(apiResults, [at |-> clock, bad |-> bad])
    /\ allResults' = Append(allResults, [at |-> clock, bad |-> bad])
    /\ verdict' = "unchecked"
    /\ UNCHANGED <<clock, overLoss, latencies, allLatencies>>

RecordLatency(bad) ==
    /\ Len(allResults) + Len(allLatencies) < MaxSamples
    /\ latencies' = Append(latencies, [at |-> clock, bad |-> bad])
    /\ allLatencies' = Append(allLatencies, [at |-> clock, bad |-> bad])
    /\ verdict' = "unchecked"
    /\ UNCHANGED <<clock, overLoss, apiResults, allResults>>

CheckBreaker ==
    /\ apiResults' = Pruned(apiResults, ErrorWindow)
    /\ latencies' = Pruned(latencies, LatencyWindow)
    /\ verdict' = Verdict(overLoss, apiResults', latencies')
    /\ UNCHANGED <<clock, overLoss, allResults, allLatencies>>

\* reset_daily is RecordPnl(FALSE).
ClockTicks ==
    /\ clock < MaxClock /\ clock' = clock + 1
    /\ verdict' = "unchecked"
    /\ UNCHANGED <<overLoss, apiResults, latencies, allResults, allLatencies>>

BreakerNext ==
    \/ \E b \in BOOLEAN : RecordPnl(b) \/ RecordResult(b) \/ RecordLatency(b)
    \/ CheckBreaker \/ ClockTicks

BreakerSpec == BreakerInit /\ [][BreakerNext]_breakerVars

Recent(all, window) == Kept(all, {s \in ToSet(all) : s.at >= clock - window})

\* Whenever the breaker was last checked before, it trips for what happened
\* within its windows, no less and no more: an old failure is not held against
\* the exchange, and none that is recent has been thrown away.
TripsOnRecent ==
    verdict # "unchecked" =>
        verdict = Verdict(overLoss, Recent(allResults, ErrorWindow),
                          Recent(allLatencies, LatencyWindow))
=============================================================================
