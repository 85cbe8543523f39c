---------------------------- MODULE PositionBook ----------------------------
(***************************************************************************)
(* The position tracker under the operator's own orders: place_order,      *)
(* close_position, reduce_position and close_all, each recorded through    *)
(* RiskLimits::record_execution.                                           *)
(*                                                                         *)
(* A handler reads the position under the risk_limits mutex, lets the      *)
(* mutex go, and books the fill and its profit under a second lock, so two *)
(* handlers may work from the same snapshot.  close_all keeps the mutex.   *)
(*                                                                         *)
(* Prices and sizes are whole ticks and lots.  Decimal's division is taken *)
(* as exact: a buy that would leave an average off the tick grid is not    *)
(* among the inputs.  The engine's fills are RiskGate's.                   *)
(***************************************************************************)
EXTENDS Integers

CONSTANTS
    Tokens,    \* outcome tokens
    Requests,  \* HTTP requests that may be in progress at the same time
    MaxPrice,  \* a price of 1, in ticks: prices are 1..MaxPrice
    MaxHeld,   \* bound: lots bought up to, and lots in one order
    CashBound  \* bound: |cash| and |booked| of a token an order starts from

ASSUME BookAssumption ==
    MaxPrice \in Nat \ {0} /\ MaxHeld \in Nat \ {0} /\ CashBound \in Nat

VARIABLES
    book,    \* PositionTracker.positions: by token, [known, size, avg, price]
    booked,  \* the part of RiskLimits' realized PnL that comes from each token
    req,     \* by request, the report it is about to record, if any
    cash,    \* history: what the fills really paid (+) and cost (-)
    raced    \* history: a report was recorded that the position no longer supports

vars == <<book, booked, req, cash, raced>>

Prices == 1..MaxPrice
Lots == 1..MaxHeld

Position == [known : BOOLEAN, size : Nat, avg : Nat, price : Nat]
Absent == [known |-> FALSE, size |-> 0, avg |-> 0, price |-> 0]

\* What a request carries from its first lock to its second.
Report == [op : {"order", "close"}, token : Tokens, seen : Position,
           price : Prices, size : Nat]
Idle == [idle |-> TRUE]
Pending(r) == req[r] # Idle

TypeOK ==
    /\ book \in [Tokens -> Position]
    /\ \A t \in Tokens : ~book[t].known => book[t] = Absent
    /\ \A t \in Tokens : book[t].known => book[t].price \in Prices
    /\ booked \in [Tokens -> Int]
    /\ cash \in [Tokens -> Int]
    /\ req \in [Requests -> Report \cup {Idle}]
    /\ raced \in BOOLEAN

-----------------------------------------------------------------------------
\* PositionTracker::apply_fill.

Bought(pos, price, size, avg) ==
    [known |-> TRUE, size |-> pos.size + size, avg |-> avg, price |-> price]

\* The average is what the whole position cost, per lot.
IsAverage(avg, pos, price, size) ==
    avg * (pos.size + size) = pos.avg * pos.size + price * size

\* More than is held empties the position.
Sold(pos, price, size) ==
    IF size < pos.size
    THEN [known |-> TRUE, size |-> pos.size - size, avg |-> pos.avg, price |-> price]
    ELSE [known |-> TRUE, size |-> 0, avg |-> 0, price |-> price]

\* As Edge, over the last price in place of the average entry.
EdgeOfMark(pos, price, size) == (price - pos.price) * size

\* The profit a sale books: on the position as it was read, all of the size.
Edge(pos, price, size) ==
    IF pos.known THEN (price - pos.avg) * size ELSE 0

Bounded(t) ==
    /\ cash[t] \in (-CashBound)..CashBound
    /\ booked[t] \in (-CashBound)..CashBound

-----------------------------------------------------------------------------
\* place_order, Side::Buy: one lock, nothing realized.
OrderBuy(t, price, size) ==
    /\ Bounded(t)
    /\ book[t].size + size <= MaxHeld
    /\ \E avg \in Prices :
        /\ IsAverage(avg, book[t], price, size)
        /\ book' = [book EXCEPT ![t] = Bought(@, price, size, avg)]
    /\ cash' = [cash EXCEPT ![t] = @ - price * size]
    /\ UNCHANGED <<booked, req, raced>>

Start(r, op, t, price, size) ==
    /\ ~Pending(r)
    /\ Bounded(t)
    /\ req' = [req EXCEPT ![r] = [op |-> op, token |-> t, seen |-> book[t],
                                 price |-> price, size |-> size]]
    /\ UNCHANGED <<book, booked, cash, raced>>

\* place_order, Side::Sell: any size, held or not.
OrderSell(r, t, price, size) == Start(r, "order", t, price, size)

\* close_position and reduce_position: a size that is held when it is read, at
\* the price of the last fill.
Reduce(r, t, size) ==
    /\ book[t].known
    /\ size <= book[t].size
    /\ Start(r, "close", t, book[t].price, size)

\* The second lock of the three: record_execution.
Record(r) ==
    /\ Pending(r)
    /\ LET rep == req[r]
           t == rep.token
       IN /\ book' = [book EXCEPT ![t] = Sold(@, rep.price, rep.size)]
          /\ booked' = [booked EXCEPT ![t] = @ + Edge(rep.seen, rep.price, rep.size)]
          /\ cash' = [cash EXCEPT ![t] = @ + rep.price * rep.size]
          /\ raced' = (raced \/ rep.seen # book[t] \/ rep.size > book[t].size)
    /\ req' = [req EXCEPT ![r] = Idle]

\* close_all: snapshots and fills under one lock.
CloseAll ==
    /\ LET Held(t) == book[t].size > 0
       IN /\ book' = [t \in Tokens |->
                IF Held(t) THEN Sold(book[t], book[t].price, book[t].size) ELSE book[t]]
          /\ booked' = [t \in Tokens |->
                booked[t] + Edge(book[t], book[t].price, book[t].size)]
          /\ cash' = [t \in Tokens |-> cash[t] + book[t].price * book[t].size]
    /\ UNCHANGED <<req, raced>>

-----------------------------------------------------------------------------
Init ==
    /\ book = [t \in Tokens |-> Absent]
    /\ booked = [t \in Tokens |-> 0]
    /\ cash = [t \in Tokens |-> 0]
    /\ req = [r \in Requests |-> Idle]
    /\ raced = FALSE

Next ==
    \/ \E t \in Tokens, price \in Prices, size \in Lots : OrderBuy(t, price, size)
    \/ \E r \in Requests, t \in Tokens, size \in Lots :
        \/ \E price \in Prices : OrderSell(r, t, price, size)
        \/ Reduce(r, t, size)
    \/ \E r \in Requests : Record(r)
    \/ CloseAll

Spec == Init /\ [][Next]_vars

-----------------------------------------------------------------------------
Cost(t) == book[t].avg * book[t].size

Balanced(t) == booked[t] = cash[t] + Cost(t)

\* The realized profit is the cash taken in plus the cost of what is still
\* held, through any mix of buys, partial sales and closes, as long as no
\* report was recorded after the position it was computed from had changed, or
\* for more than was held: nothing else makes the books wrong.
BalancedUntilRaced == ~raced => \A t \in Tokens : Balanced(t)

-----------------------------------------------------------------------------
(* What comments say, and the program does not do. *)

\* positions.rs: "under a single lock acquisition to avoid TOCTOU races".  No
\* close is recorded for more than is held, whichever handler gives it.
ClosedOnce ==
    [][\A r \in Requests : Record(r) /\ req[r].op = "close"
        => req[r].size <= book[req[r].token].size]_vars
=============================================================================
