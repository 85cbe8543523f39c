------------------------ MODULE PositionBook_proofs -------------------------
(* The books of the position tracker balance until a stale report is recorded. *)
EXTENDS PositionBook, TLAPS

\* What averaging and selling do to the cost of a position.
LEMMA BuyCost ==
  ASSUME NEW pos \in Position, NEW price \in Prices, NEW size \in Nat,
         NEW avg \in Prices, IsAverage(avg, pos, price, size)
  PROVE  LET new == Bought(pos, price, size, avg)
         IN  /\ new \in Position
             /\ new.avg * new.size = pos.avg * pos.size + price * size
  BY BookAssumption DEF Position, Prices, Bought, IsAverage

LEMMA SellCost ==
  ASSUME NEW pos \in Position, NEW price \in Prices, NEW size \in Nat, size <= pos.size
  PROVE  LET new == Sold(pos, price, size)
         IN  new.avg * new.size = pos.avg * pos.size - pos.avg * size
  <1>1. CASE size < pos.size
    <2>1. pos.avg * (pos.size - size) = pos.avg * pos.size - pos.avg * size
      BY DEF Position
    <2> QED
      BY <1>1, <2>1 DEF Sold
  <1>2. CASE size = pos.size
    <2>1. pos.avg * pos.size - pos.avg * pos.size = 0
      BY DEF Position
    <2> QED
      BY <1>2, <2>1 DEF Sold, Position
  <1>3. size < pos.size \/ size = pos.size
    BY DEF Position
  <1> QED
    BY <1>1, <1>2, <1>3

LEMMA SoldType ==
  ASSUME NEW pos \in Position, NEW price \in Prices, NEW size \in Nat
  PROVE  /\ Sold(pos, price, size) \in Position
         /\ Sold(pos, price, size).known
         /\ Sold(pos, price, size).price = price
  BY BookAssumption DEF Position, Prices, Sold

LEMMA EdgeType ==
  ASSUME NEW pos \in Position, NEW price \in Nat, NEW size \in Nat
  PROVE  Edge(pos, price, size) \in Int
  BY DEF Position, Edge

-----------------------------------------------------------------------------
(* Types. *)

LEMMA BuyType ==
  ASSUME TypeOK, NEW t \in Tokens, NEW price \in Prices, NEW size \in Lots,
         OrderBuy(t, price, size)
  PROVE  TypeOK'
  <1> DEFINE pos == book[t]
  <1>1. PICK avg \in Prices : /\ IsAverage(avg, pos, price, size)
                             /\ book' = [book EXCEPT ![t] = Bought(pos, price, size, avg)]
    BY DEF OrderBuy
  <1>2. pos \in Position /\ size \in Nat
    BY BookAssumption DEF TypeOK, Lots
  <1>3. Bought(pos, price, size, avg) \in Position
    BY <1>1, <1>2, BuyCost
  <1>4. /\ book' \in [Tokens -> Position]
        /\ \A u \in Tokens : ~book'[u].known => book'[u] = Absent
        /\ \A u \in Tokens : book'[u].known => book'[u].price \in Prices
    BY <1>1, <1>3 DEF TypeOK, Bought
  <1>5. cash' \in [Tokens -> Int]
    BY <1>2, BookAssumption DEF TypeOK, OrderBuy, Prices
  <1> QED
    BY <1>4, <1>5 DEF TypeOK, OrderBuy

LEMMA StartType ==
  ASSUME TypeOK, NEW r \in Requests, NEW op \in {"order", "close"},
         NEW t \in Tokens, NEW price \in Prices, NEW size \in Lots,
         Start(r, op, t, price, size)
  PROVE  TypeOK'
  <1>1. size \in Nat /\ book[t] \in Position
    BY BookAssumption DEF TypeOK, Lots
  <1>2. [op |-> op, token |-> t, seen |-> book[t], price |-> price, size |-> size]
            \in Report
    BY <1>1 DEF Report
  <1>3. req' \in [Requests -> Report \cup {Idle}]
    BY <1>2 DEF TypeOK, Start
  <1> QED
    BY <1>3 DEF TypeOK, Start

LEMMA RecordType ==
  ASSUME TypeOK, NEW r \in Requests, Record(r)
  PROVE  TypeOK'
  <1> DEFINE rep == req[r]
             t == rep.token
  <1>1. rep \in Report
    BY DEF TypeOK, Record, Pending
  <1>2. /\ t \in Tokens /\ rep.price \in Prices /\ rep.size \in Nat
        /\ rep.seen \in Position /\ book[t] \in Position
    BY <1>1 DEF Report, TypeOK
  <1>3. /\ Sold(book[t], rep.price, rep.size) \in Position
        /\ Sold(book[t], rep.price, rep.size).known
        /\ Sold(book[t], rep.price, rep.size).price = rep.price
    BY <1>2, SoldType
  <1>4. book' = [book EXCEPT ![t] = Sold(book[t], rep.price, rep.size)]
    BY DEF Record
  <1>5. /\ book' \in [Tokens -> Position]
        /\ \A u \in Tokens : ~book'[u].known => book'[u] = Absent
        /\ \A u \in Tokens : book'[u].known => book'[u].price \in Prices
    BY <1>2, <1>3, <1>4 DEF TypeOK
  <1>6. rep.price \in Nat
    BY <1>2, BookAssumption DEF Prices
  <1>7. Edge(rep.seen, rep.price, rep.size) \in Int
    BY <1>2, <1>6, EdgeType
  <1>8. booked' \in [Tokens -> Int]
    BY <1>2, <1>7 DEF TypeOK, Record
  <1>9. cash' \in [Tokens -> Int]
    BY <1>2, <1>6 DEF TypeOK, Record
  <1>10. raced' \in BOOLEAN
    BY DEF TypeOK, Record
  <1>11. req' \in [Requests -> Report \cup {Idle}]
    BY DEF TypeOK, Record
  <1> QED
    BY <1>5, <1>8, <1>9, <1>10, <1>11 DEF TypeOK

LEMMA CloseAllType ==
  ASSUME TypeOK, CloseAll
  PROVE  TypeOK'
  <1>1. \A t \in Tokens : book[t] \in Position /\ book[t].price \in Nat
    BY DEF TypeOK, Position
  <1>2. \A t \in Tokens : Edge(book[t], book[t].price, book[t].size) \in Int
    BY <1>1, EdgeType DEF Position
  <1>3. ASSUME NEW t \in Tokens
        PROVE  /\ book'[t] \in Position
               /\ ~book'[t].known => book'[t] = Absent
               /\ book'[t].known => book'[t].price \in Prices
    <2>1. CASE book[t].size > 0
      <3>1. book[t].price \in Prices
        BY <2>1 DEF TypeOK, Absent
      <3> QED
        BY <1>1, <2>1, <3>1, SoldType DEF CloseAll, Position
    <2>2. CASE ~(book[t].size > 0)
      BY <2>2 DEF CloseAll, TypeOK
    <2> QED
      BY <2>1, <2>2
  <1>4. book' \in [Tokens -> Position]
    BY <1>3 DEF CloseAll
  <1>5. booked' \in [Tokens -> Int]
    BY <1>2 DEF CloseAll, TypeOK
  <1>6. cash' \in [Tokens -> Int]
    BY <1>1 DEF CloseAll, TypeOK, Position
  <1> QED
    BY <1>3, <1>4, <1>5, <1>6 DEF CloseAll, TypeOK

LEMMA InitType == Init => TypeOK
  <1> SUFFICES ASSUME Init
               PROVE  TypeOK
    OBVIOUS
  <1>1. Absent \in Position /\ ~Absent.known
    BY DEF Absent, Position
  <1>2. raced \in BOOLEAN
    BY DEF Init
  <1>3. req \in [Requests -> Report \cup {Idle}]
    BY DEF Init
  <1>4. \A t \in Tokens : book[t] = Absent
    BY DEF Init
  <1>5. book \in [Tokens -> Position]
    BY <1>1 DEF Init
  <1>6. booked \in [Tokens -> Int] /\ cash \in [Tokens -> Int]
    BY DEF Init
  <1> QED
    BY <1>1, <1>2, <1>3, <1>4, <1>5, <1>6 DEF TypeOK

LEMMA NextType == TypeOK /\ [Next]_vars => TypeOK'
  <1> SUFFICES ASSUME TypeOK, [Next]_vars
               PROVE  TypeOK'
    OBVIOUS
  <1>1. ASSUME NEW r \in Requests, NEW t \in Tokens, NEW size \in Lots,
               Reduce(r, t, size)
        PROVE  TypeOK'
    <2>1. book[t].price \in Prices
      BY <1>1 DEF TypeOK, Reduce
    <2> QED
      BY <1>1, <2>1, StartType DEF Reduce
  <1>2. CASE UNCHANGED vars
    BY <1>2 DEF vars, TypeOK, Pending
  <1> QED
    BY <1>1, <1>2, BuyType, StartType, RecordType, CloseAllType DEF Next, OrderSell

-----------------------------------------------------------------------------
(* The balance, action by action. *)

LEMMA BuyBalance ==
  ASSUME TypeOK, NEW t \in Tokens, NEW price \in Prices, NEW size \in Lots,
         OrderBuy(t, price, size), NEW u \in Tokens, Balanced(u)
  PROVE  Balanced(u)'
  <1> DEFINE pos == book[t]
  <1>1. PICK avg \in Prices : /\ IsAverage(avg, pos, price, size)
                             /\ book' = [book EXCEPT ![t] = Bought(pos, price, size, avg)]
    BY DEF OrderBuy
  <1>2. pos \in Position /\ size \in Nat
    BY BookAssumption DEF TypeOK, Lots
  <1>3. CASE u # t
    BY <1>1, <1>3 DEF Balanced, Cost, OrderBuy, TypeOK
  <1>4. CASE u = t
    <2>1. Cost(t)' = Cost(t) + price * size
      BY <1>1, <1>2, BuyCost DEF TypeOK, Cost
    <2>2. cash'[t] = cash[t] - price * size /\ booked'[t] = booked[t]
      BY DEF OrderBuy, TypeOK
    <2>3. cash[t] \in Int /\ Cost(t) \in Int /\ price * size \in Int
      BY <1>2, BookAssumption DEF TypeOK, Cost, Position, Prices
    <2>4. Cost(t)' = book'[t].avg * book'[t].size
      BY DEF Cost
    <2> QED
      BY <1>4, <2>1, <2>2, <2>3 DEF Balanced
  <1> QED
    BY <1>3, <1>4

LEMMA RecordBalance ==
  ASSUME TypeOK, NEW r \in Requests, Record(r), ~raced', NEW u \in Tokens, Balanced(u)
  PROVE  Balanced(u)'
  <1> DEFINE rep == req[r]
             t == rep.token
             pos == book[t]
  <1>1. rep \in Report
    BY DEF TypeOK, Record, Pending
  <1>2. /\ t \in Tokens /\ rep.price \in Prices /\ rep.price \in Nat
        /\ rep.size \in Nat /\ pos \in Position
    BY <1>1, BookAssumption DEF Report, TypeOK, Prices
  <1>3. rep.seen = pos /\ rep.size <= pos.size
    <2>1. rep.seen = pos /\ ~(rep.size > pos.size)
      BY DEF Record
    <2> QED
      BY <1>2, <2>1 DEF Position
  <1>4. CASE u # t
    BY <1>2, <1>4 DEF Balanced, Cost, Record, TypeOK
  <1>5. CASE u = t
    <2>1. Cost(u)' = Cost(u) - pos.avg * rep.size
      BY <1>2, <1>3, <1>5, SellCost DEF Record, TypeOK, Cost
    <2>2. Edge(pos, rep.price, rep.size) = rep.price * rep.size - pos.avg * rep.size
      <3>1. CASE pos.known
        BY <1>2, <3>1 DEF Edge, Position
      <3>2. CASE ~pos.known
        <4>1. pos = Absent
          BY <1>2, <3>2 DEF TypeOK
        <4>2. pos.size = 0 /\ pos.avg = 0
          BY <4>1 DEF Absent
        <4>3. rep.size = 0
          BY <1>2, <1>3, <4>2
        <4> QED
          BY <1>2, <3>2, <4>2, <4>3 DEF Edge
      <3> QED
        BY <3>1, <3>2
    <2>3. /\ cash'[u] = cash[u] + rep.price * rep.size
          /\ booked'[u] = booked[u] + Edge(pos, rep.price, rep.size)
      BY <1>2, <1>3, <1>5 DEF Record, TypeOK
    <2>4. /\ cash[u] \in Int /\ booked[u] \in Int /\ Cost(u) \in Int
          /\ rep.price * rep.size \in Int /\ pos.avg * rep.size \in Int
      BY <1>2, <1>5 DEF TypeOK, Cost, Position
    <2> QED
      BY <2>1, <2>2, <2>3, <2>4 DEF Balanced
  <1> QED
    BY <1>4, <1>5

LEMMA CloseAllBalance ==
  ASSUME TypeOK, CloseAll, NEW u \in Tokens, Balanced(u)
  PROVE  Balanced(u)'
  <1> DEFINE pos == book[u]
  <1>1. pos \in Position
    BY DEF TypeOK
  <1>2. CASE pos.size > 0
    <2>1. pos.known /\ pos.price \in Prices
      BY <1>2 DEF TypeOK, Absent
    <2>2. Cost(u)' = Cost(u) - pos.avg * pos.size
      BY <1>1, <1>2, <2>1, SellCost DEF CloseAll, Cost, Position
    <2>3. Edge(pos, pos.price, pos.size) = pos.price * pos.size - pos.avg * pos.size
      BY <1>1, <2>1 DEF Edge, Position
    <2>4. /\ cash'[u] = cash[u] + pos.price * pos.size
          /\ booked'[u] = booked[u] + Edge(pos, pos.price, pos.size)
      BY DEF CloseAll
    <2>5. /\ cash[u] \in Int /\ booked[u] \in Int /\ Cost(u) \in Int
          /\ pos.price * pos.size \in Int /\ pos.avg * pos.size \in Int
      BY <1>1 DEF TypeOK, Cost, Position
    <2> QED
      BY <2>2, <2>3, <2>4, <2>5 DEF Balanced
  <1>3. CASE pos.size = 0
    <2>1. book'[u] = book[u]
      BY <1>3 DEF CloseAll
    <2>2. Edge(pos, pos.price, pos.size) = 0
      BY <1>1, <1>3 DEF Edge, Position
    <2>3. pos.price * pos.size = 0
      BY <1>1, <1>3 DEF Position
    <2>4. cash'[u] = cash[u] /\ booked'[u] = booked[u]
      BY <2>2, <2>3 DEF CloseAll, TypeOK
    <2> QED
      BY <2>1, <2>4 DEF Balanced, Cost
  <1> QED
    BY <1>1, <1>2, <1>3 DEF Position

LEMMA NextBalance ==
  ASSUME TypeOK, BalancedUntilRaced, [Next]_vars
  PROVE  BalancedUntilRaced'
  <1> SUFFICES ASSUME ~raced', NEW u \in Tokens
               PROVE  Balanced(u)'
    BY DEF BalancedUntilRaced
  <1>1. ~raced
    BY DEF Next, OrderBuy, OrderSell, Reduce, Start, Record, CloseAll, vars
  <1>2. Balanced(u)
    BY <1>1 DEF BalancedUntilRaced
  <1>3. ASSUME NEW r \in Requests, NEW op, NEW t, NEW price, NEW size,
               Start(r, op, t, price, size)
        PROVE  Balanced(u)'
    BY <1>2, <1>3 DEF Start, Balanced, Cost
  <1>4. CASE UNCHANGED vars
    BY <1>2, <1>4 DEF vars, Balanced, Cost
  <1> QED
    BY <1>2, <1>3, <1>4, BuyBalance, RecordBalance, CloseAllBalance
       DEF Next, OrderSell, Reduce

\* Whatever the operator buys, sells, reduces and closes, in whatever order: the
\* profit that record_execution has booked on a token is the cash its fills
\* brought in plus the cost of what is held, until a report is recorded that
\* the position no longer supports.
THEOREM BooksBalance == Spec => []BalancedUntilRaced
  <1>1. Init => BalancedUntilRaced
    <2> SUFFICES ASSUME Init, NEW t \in Tokens
                 PROVE  Balanced(t)
      BY DEF BalancedUntilRaced
    <2>1. book[t].avg = 0 /\ book[t].size = 0 /\ booked[t] = 0 /\ cash[t] = 0
      BY DEF Init, Absent
    <2> QED
      BY <2>1 DEF Balanced, Cost
  <1> QED
    BY <1>1, InitType, NextType, NextBalance, PTL DEF Spec
=============================================================================
