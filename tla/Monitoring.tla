----------------------------- MODULE Monitoring -----------------------------
(***************************************************************************)
(* arb-monitor: the webhook alerts with their rate limit for each category  *)
(* (webhook.rs), and the rolling Brier scores of ModelHealth with the      *)
(* confidence drawn from them (alerts.rs).  The tests are their only users. *)
(*                                                                         *)
(* A prediction is its squared error in hundredths.  It is recorded when    *)
(* its outcome is known, with the time it was made: times may go back.     *)
(***************************************************************************)
EXTENDS Integers, Sequences, FiniteSets, FiniteSetsExt

CONSTANTS Categories,
          Quiet,                \* ticks between two alerts of a category (60 s)
          ShortWindow,          \* 30 minutes ...
          LongWindow,           \* ... and 24 hours, in ticks
          Errors,               \* squared errors, in hundredths
          MaxDelay,             \* bound: how far back a prediction was made
          MaxAlerts, MaxRecords, LastTick  \* bounds

ASSUME MonitoringAssumption ==
    /\ {Quiet, ShortWindow, LongWindow, MaxDelay, MaxAlerts, MaxRecords, LastTick}
           \subseteq Nat
    /\ Errors \subseteq 0..100 /\ Quiet > 0
    /\ ShortWindow + MaxDelay <= LongWindow

VARIABLES tick,
          lastSent,   \* of the categories that have sent one
          asked,      \* history: times of the alerts of each category ...
          sent,       \* ... and of those that were sent
          records,    \* the ring buffer
          score30,    \* brier_score_30m, as a sum and a count
          ever        \* history: every prediction recorded

monitorVars == <<tick, lastSent, asked, sent, records, score30, ever>>

(***************************************************************************)
(* WebhookAlerter                                                          *)
(***************************************************************************)
\* As ShouldSend, for whatever category was sent last.
ShouldSendToAny(c) ==
    \E d \in DOMAIN lastSent : tick - lastSent[d] >= Quiet \/ d # c

ShouldSend(c) == c \in DOMAIN lastSent => tick - lastSent[c] >= Quiet

\* The time is recorded before the posts, which may fail without a trace.
SendAlert(c) ==
    /\ Len(asked[c]) < MaxAlerts
    /\ asked' = [asked EXCEPT ![c] = Append(@, tick)]
    /\ IF ShouldSend(c)
       THEN /\ lastSent' = [d \in DOMAIN lastSent \cup {c} |->
                               IF d = c THEN tick ELSE lastSent[d]]
            /\ sent' = [sent EXCEPT ![c] = Append(@, tick)]
       ELSE UNCHANGED <<lastSent, sent>>
    /\ UNCHANGED <<tick, records, score30, ever>>

(***************************************************************************)
(* ModelHealth                                                             *)
(***************************************************************************)
\* As PopOlder, asking every record.
PopAllOlder(queue, cutoff) == SelectSeq(queue, LAMBDA r : r.made > cutoff)

\* Pops from the front while the front was made before the cutoff.
PopOlder(queue, cutoff) ==
    LET old == {n \in 1..Len(queue) : \A i \in 1..n : queue[i].made < cutoff}
    IN  SubSeq(queue, Cardinality(old) + 1, Len(queue))

Score(queue, cutoff) ==
    LET counted == {i \in 1..Len(queue) : queue[i].made >= cutoff}
    IN  [sum |-> MapThenSumSet(LAMBDA i : queue[i].error, counted),
         count |-> Cardinality(counted)]

\* The record's own time serves as now.
RecordPrediction(error, delay) ==
    /\ Len(ever) < MaxRecords /\ delay <= tick
    /\ LET made == tick - delay
           longer == Append(records, [made |-> made, error |-> error])
       IN  /\ records' = PopOlder(longer, made - LongWindow)
           /\ score30' = Score(records', made - ShortWindow)
           /\ ever' = Append(ever, [made |-> made, error |-> error])
    /\ UNCHANGED <<tick, lastSent, asked, sent>>

\* Comparing the score with a threshold in hundredths.
AtLeast(threshold) ==
    score30.count > 0 /\ score30.sum >= threshold * score30.count

DriftDetected == score30.count > 0 /\ score30.sum > 35 * score30.count

\* confidence_level, in hundredths and times the number of records: 1 below 0.20,
\* 0 from 0.45 on, through 0.5 at 0.35.
Confidence ==
    IF AtLeast(45) THEN 0
    ELSE IF AtLeast(35) THEN 5 * (45 * score30.count - score30.sum)
    ELSE IF AtLeast(20)
         THEN 50 * score30.count + (10 * (35 * score30.count - score30.sum)) \div 3
    ELSE 100 * score30.count

MonitorTick ==
    /\ tick < LastTick
    /\ tick' = tick + 1
    /\ UNCHANGED <<lastSent, asked, sent, records, score30, ever>>

MonitorInit ==
    /\ tick = 0
    /\ lastSent = [c \in {} |-> 0]
    /\ asked = [c \in Categories |-> <<>>] /\ sent = [c \in Categories |-> <<>>]
    /\ records = <<>> /\ ever = <<>>
    /\ score30 = [sum |-> 0, count |-> 0]

AlertsNext == MonitorTick \/ \E c \in Categories : SendAlert(c)

HealthNext ==
    MonitorTick \/ \E e \in Errors, d \in 0..MaxDelay : RecordPrediction(e, d)

(***************************************************************************)
(* Properties                                                              *)
(***************************************************************************)
\* One alert of a category in a quiet time, and none without need: what was
\* held back follows one of its own category that is recent.
AlertsSpaced ==
    \A c \in Categories :
        /\ \A i, j \in 1..Len(sent[c]) : i < j => sent[c][j] - sent[c][i] >= Quiet
        /\ \A i \in 1..Len(asked[c]) :
              \E j \in 1..Len(sent[c]) : asked[c][i] - sent[c][j] \in 0..(Quiet - 1)

\* Predictions may be recorded late and out of order, and the front of the buffer
\* alone is pruned: the short score is all the same that of every prediction
\* ever recorded that was made within its window, and sizes are to be cut below
\* one half exactly when drift was detected.
HealthSeesWindow ==
    ever # <<>> =>
        /\ score30 = Score(ever, ever[Len(ever)].made - ShortWindow)
        /\ DriftDetected => 2 * Confidence < 100 * score30.count
        /\ ~DriftDetected => 2 * Confidence >= 100 * score30.count
=============================================================================
