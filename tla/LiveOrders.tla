----------------------------- MODULE LiveOrders -----------------------------
(***************************************************************************)
(* The live executor against the exchange: execute_opportunity posts the   *)
(* legs one after the other, every leg with a retry and a timeout, and     *)
(* cancels what is open if a leg failed.  A leg whose token id is no number *)
(* ends the execution at once.                                             *)
(*                                                                         *)
(* Requests cross a network: one may be lost, arrive after the client gave *)
(* up on it, or be carried out while its answer is lost.  Orders are named *)
(* by execution, leg and attempt: the code never sends an order twice      *)
(* under one name.  A leg is worth Size lots; prices are RiskGate's.       *)
(***************************************************************************)
EXTENDS Integers, Sequences, FiniteSets

CONSTANTS
    Legs,       \* legs of an opportunity
    Size,       \* lots of a leg
    MaxRetries, \* MAX_RETRIES
    PreferPostOnly, \* config: orders are GTC and may rest, or FOK
    Faults,     \* the network and the exchange may fail
    MaxRuns     \* bound: opportunities executed

ASSUME OrdersAssumption ==
    /\ Legs \in Nat \ {0} /\ Size \in Nat \ {0} /\ MaxRetries \in Nat
    /\ MaxRuns \in Nat
    /\ PreferPostOnly \in BOOLEAN /\ Faults \in BOOLEAN

VARIABLES
    phase,   \* where execute_opportunity is
    run,     \* executions begun
    attempt, \* of the current leg, from 0
    answer,  \* what the pending post has returned, if it has
    report,  \* leg_reports
    result,  \* of the last execution: Ok, Err or none yet
    wire,    \* orders sent that the exchange has not seen
    orders,  \* orders the exchange has taken: [name, filled, open]
    late,    \* history: the wire when the last cancellation was carried out
    lost     \* history: orders sent whose answer the client never read

client == <<phase, run, attempt, answer, report, result>>
exchange == <<wire, orders, late>>
orderVars == <<phase, run, attempt, answer, report, result, wire, orders, late,
              lost>>

Name == (1..MaxRuns) \X (1..Legs) \X (0..MaxRetries)
RunOf(n) == n[1]
LegOf(n) == n[2]

Order == [name : Name, filled : 0..Size, open : BOOLEAN]
NoAnswer == [kind |-> "none", filled |-> 0]
Answer == [kind : {"none", "success", "refused", "transient", "permanent"}, filled : 0..Size]
LegReport == [status : {"FullyFilled", "PartiallyFilled", "Rejected", "Cancelled"},
              filled : 0..Size]

OrdersTypeOK ==
    /\ phase \in {"idle", "post", "wait", "cancel"}
    /\ run \in 0..MaxRuns
    /\ attempt \in 0..MaxRetries
    /\ answer \in Answer
    /\ report \in Seq(LegReport) /\ Len(report) <= Legs
    /\ phase \in {"post", "wait"} => run > 0 /\ Len(report) < Legs
    /\ result \in {"none", "Ok", "Err"}
    /\ wire \subseteq Name
    /\ orders \subseteq Order
    /\ late \subseteq Name
    /\ lost \subseteq Name

-----------------------------------------------------------------------------
Leg == Len(report) + 1
Current == <<run, Leg, attempt>>

Failed(leg) == leg.status \in {"Rejected", "Cancelled"}

\* As AnyFailed, without the legs that timed out.
AnyFailedButTimeouts(legs) == \E i \in DOMAIN legs : legs[i].status = "Rejected"

AnyFailed(legs) == \E i \in DOMAIN legs : Failed(legs[i])

\* As FilledReport, full for every success.
FilledReportFull(filled) == [status |-> "PartiallyFilled", filled |-> Size]

\* As FilledReport, with no amount for no fill.
FilledReportNone(filled) ==
    IF filled = 0 THEN [status |-> "Rejected", filled |-> 0]
    ELSE [status |-> IF filled = Size THEN "FullyFilled" ELSE "PartiallyFilled",
          filled |-> filled]

\* A success with no amount counts as a full fill: "some order types report
\* success without amounts".
FilledReport(filled) ==
    IF filled \in {0, Size} THEN [status |-> "FullyFilled", filled |-> Size]
    ELSE [status |-> "PartiallyFilled", filled |-> filled]

-----------------------------------------------------------------------------
\* The client.

Begin ==
    /\ phase = "idle"
    /\ run < MaxRuns
    /\ run' = run + 1
    /\ phase' = "post"
    /\ attempt' = 0 /\ answer' = NoAnswer /\ report' = <<>> /\ result' = "none"
    /\ UNCHANGED <<exchange, lost>>

\* U256::from_str fails, before the leg's timeout begins: the error is returned
\* with `?`, past the other legs and the cancellation.
Unparsed ==
    /\ phase = "post" /\ attempt = 0
    /\ phase' = "idle" /\ result' = "Err"
    /\ UNCHANGED <<run, attempt, answer, report, exchange, lost>>

\* post_single_order; building or signing the order may fail instead.
Post ==
    /\ phase = "post"
    /\ phase' = "wait"
    /\ \/ wire' = wire \cup {Current} /\ answer' = NoAnswer
       \/ /\ Faults
          /\ answer' = [NoAnswer EXCEPT !.kind = "permanent"]
          /\ UNCHANGED wire
    /\ UNCHANGED <<run, attempt, report, result, orders, late, lost>>

\* The leg is decided: on to the next one, or to the end.
Decide(leg) ==
    /\ report' = Append(report, leg)
    /\ attempt' = 0 /\ answer' = NoAnswer
    /\ phase' = CASE Len(report') < Legs -> "post"
                  [] Len(report') = Legs /\ AnyFailed(report') -> "cancel"
                  [] OTHER -> "idle"
    /\ result' = IF phase' = "idle" THEN "Ok" ELSE "none"
    /\ UNCHANGED <<run, exchange>>

Succeed ==
    /\ phase = "wait"
    /\ answer.kind = "success"
    /\ Decide(FilledReport(answer.filled))
    /\ UNCHANGED lost

\* As MayRetry, off by one.
MayRetryOnceMore == attempt <= MaxRetries

MayRetry == attempt < MaxRetries

\* As Transient, for a success that filled nothing too.
TransientOrResting == answer.kind = "transient" \/ answer = [kind |-> "success", filled |-> 0]

\* is_transient_error: what the error says of a connection or a gateway.
Transient == answer.kind = "transient"

Retry ==
    /\ phase = "wait"
    /\ Transient
    /\ MayRetry
    /\ attempt' = attempt + 1
    /\ phase' = "post" /\ answer' = NoAnswer
    /\ UNCHANGED <<run, report, result, exchange, lost>>

Reject ==
    /\ phase = "wait"
    /\ \/ answer.kind \in {"refused", "permanent"}
       \/ Transient /\ ~MayRetry
    /\ Decide([status |-> "Rejected", filled |-> 0])
    /\ UNCHANGED lost

\* As TimeOut, around the post alone.
TimeOutOfPost ==
    /\ phase = "post"
    /\ Faults
    /\ Decide([status |-> "Cancelled", filled |-> 0])
    /\ UNCHANGED lost

\* One timeout covers all attempts of the leg.
TimeOut ==
    /\ phase \in {"post", "wait"}
    /\ Faults
    /\ Decide([status |-> "Cancelled", filled |-> 0])
    /\ lost' = IF phase = "wait" THEN lost \cup {Current} ELSE lost

\* cancel_all: an error is returned in place of the reports.
CancelAll ==
    /\ phase = "cancel"
    /\ phase' = "idle"
    /\ \/ /\ orders' = {[o EXCEPT !.open = FALSE] : o \in orders}
          /\ late' = wire
          /\ result' = "Ok" \/ (Faults /\ result' = "Err")
       \/ /\ Faults
          /\ result' = "Err"
          /\ UNCHANGED <<orders, late>>
    /\ UNCHANGED <<run, attempt, answer, report, wire, lost>>

Client == Begin \/ Unparsed \/ Post \/ Succeed \/ Retry \/ Reject \/ TimeOut \/ CancelAll

-----------------------------------------------------------------------------
\* The exchange and the network.

Awaited(n) == phase = "wait" /\ n = Current /\ answer = NoAnswer

Reply(n, a) == answer' = IF Awaited(n) THEN a ELSE answer

\* The exchange fills what it can at once; the rest of a GTC order stays open, a
\* FOK order is filled or refused.
Take(n) ==
    /\ n \in wire
    /\ wire' = wire \ {n}
    /\ \E filled \in (IF PreferPostOnly THEN 0..Size ELSE {Size}) :
        /\ orders' = orders \cup
               {[name |-> n, filled |-> filled, open |-> filled < Size]}
        /\ Reply(n, [kind |-> "success", filled |-> filled])
    /\ UNCHANGED <<phase, run, attempt, report, result, late, lost>>

Refuse(n) ==
    /\ n \in wire
    /\ wire' = wire \ {n}
    /\ Reply(n, [NoAnswer EXCEPT !.kind = "refused"])
    /\ UNCHANGED <<phase, run, attempt, report, result, orders, late, lost>>

\* The connection breaks, or a gateway gives up, and the error says so or says
\* something else.  The request may still arrive.
LoseAnswer ==
    /\ Faults
    /\ phase = "wait" /\ answer = NoAnswer
    /\ \E kind \in {"transient", "permanent"} : answer' = [NoAnswer EXCEPT !.kind = kind]
    /\ lost' = lost \cup {Current}
    /\ UNCHANGED <<phase, run, attempt, report, result, exchange>>

\* A request nobody waits for any more never arrives.
LoseRequest(n) ==
    /\ n \in wire /\ ~Awaited(n)
    /\ wire' = wire \ {n}
    /\ UNCHANGED <<client, orders, late, lost>>

\* An open order trades.
FillResting ==
    \E o \in orders, filled \in 1..Size :
        /\ o.open /\ o.filled < filled
        /\ orders' = (orders \ {o}) \cup
               {[o EXCEPT !.filled = filled, !.open = filled < Size]}
        /\ UNCHANGED <<client, wire, late, lost>>

Exchange ==
    \/ \E n \in wire : Take(n) \/ Refuse(n) \/ LoseRequest(n)
    \/ LoseAnswer \/ FillResting

-----------------------------------------------------------------------------
OrdersInit ==
    /\ phase = "idle" /\ run = 0 /\ attempt = 0
    /\ answer = NoAnswer /\ report = <<>> /\ result = "none"
    /\ wire = {} /\ orders = {} /\ late = {} /\ lost = {}

OrdersNext == Client \/ Exchange

OrdersSpec == OrdersInit /\ [][OrdersNext]_orderVars

\* The executor goes on when it can, and its timer fires.
Fairness == WF_orderVars(Post \/ Succeed \/ Retry \/ Reject) /\ WF_orderVars(TimeOut) /\ WF_orderVars(CancelAll)

OrdersFairSpec == OrdersSpec /\ Fairness

-----------------------------------------------------------------------------
OrdersOf(r, l) ==
    {n \in wire \cup {o.name : o \in orders} : RunOf(n) = r /\ LegOf(n) = l}

Returned == phase = "idle" /\ result = "Ok"

SomethingUnfilled == \E l \in DOMAIN report : report[l].filled = 0

\* After an execution that reports a failed leg, an order is still open only if it
\* was on its way when the cancellation was carried out: no order rests because
\* its attempt was retried, refused or timed out.  One that ends in an error, at a
\* token id or in the cancellation itself, reports nothing and promises nothing.
OpenAfterFailureIsLate ==
    Returned /\ SomethingUnfilled => \A o \in orders : o.open => o.name \in late

\* What makes it inductive: the reports say which legs failed, and what is late
\* was on its way.
CancelInv ==
    /\ \A l \in DOMAIN report : report[l].filled = 0 => Failed(report[l])
    /\ Returned /\ SomethingUnfilled =>
          /\ wire \subseteq late
          /\ \A o \in orders : o.open => o.name \in late

\* A lot reported as sold or bought, if the exchange gave an amount at all, is a
\* lot some order of that leg traded.
PartialFillsAreReal ==
    \A l \in DOMAIN report : report[l].status = "PartiallyFilled" =>
        \E o \in orders : RunOf(o.name) = run /\ LegOf(o.name) = l
                          /\ o.filled >= report[l].filled

\* The orders the exchange has of a leg whose answers the client read.
Heard(l) ==
    {o \in orders : RunOf(o.name) = run /\ LegOf(o.name) = l /\ o.name \notin lost}

\* A report answers for every order of its leg but those whose answers were lost:
\* a leg reported as filled is one order at the exchange, and one reported as
\* failed is none.  So retries trade a leg twice, and failures leave one behind,
\* no more often than the network loses an answer or the timeout drops one.
ReportsAnswerForOrders ==
    \A l \in DOMAIN report :
        IF Failed(report[l]) THEN Heard(l) = {} ELSE \E o \in orders : Heard(l) = {o}

\* Every execution returns, whatever the exchange does, as long as it answers the
\* cancellation (the fairness of CancelAll).
ExecutionReturns == phase # "idle" ~> phase = "idle"

-----------------------------------------------------------------------------
(* What a comment says, and the program does not do. *)

\* executor.rs, execute_leg: "Place a limit order for a single leg".  No leg
\* trades more than its size.
LegTradedOnce ==
    \A r \in 1..MaxRuns, l \in 1..Legs : \A o, p \in orders :
        {o.name, p.name} \subseteq OrdersOf(r, l) /\ o # p
            => o.filled + p.filled <= Size
=============================================================================
