-------------------------- MODULE RiskGate_proofs --------------------------
(* What the risk limits promise, for every instance: the counted orders     *)
(* never exceed max_open_orders, what a check grants fits under the total   *)
(* cap, and the exposure passes the cap only by what no check looked at.    *)
EXTENDS RiskGate, FiniteSetTheorems, TLAPS

-----------------------------------------------------------------------------
(***************************************************************************)
(* Sums and folds: the instances of FoldFacts for SumFunction, for the     *)
(* price of the legs, and for the fills of an execution.                   *)
(***************************************************************************)
AnyOf(s) == CHOOSE x \in s : TRUE
HighestOf(s) == CHOOSE x \in s : \A y \in s : x >= y

AddValue(f, x, sum) == f[x] + sum
AddPrice(legs, i, sum) == sum + legs[i].price
AddFill(fills, i, b) == ApplyFill(b, fills[i])

Sums == INSTANCE FoldFacts WITH Op <- AddValue, Pick <- AnyOf
Prices == INSTANCE FoldFacts WITH Op <- AddPrice, Pick <- HighestOf
Fills == INSTANCE FoldFacts WITH Op <- AddFill, Pick <- HighestOf

\* A sum, value by value: of the subsets of S, in some order.
Partial(f, S, it) ==
    /\ it[{}] = 0
    /\ \A s \in SUBSET S : s # {} => it[s] = f[AnyOf(s)] + it[s \ {AnyOf(s)}]
    /\ SumFunctionOnSet(f, S) = it[S]

LEMMA AnyOfIn == \A s : s # {} => AnyOf(s) \in s
  BY DEF AnyOf

LEMMA SameFinite == \A S : IsFiniteSet(S) => Sums!IsFiniteSet(S)
  BY DEF IsFiniteSet, Sums!IsFiniteSet

LEMMA SumUnwinds ==
  ASSUME NEW S, IsFiniteSet(S), NEW f
  PROVE  \E it : Partial(f, S, it)
  <1>1. PICK it : Sums!Unwinds(f, 0, S, it)
    BY AnyOfIn, SameFinite, Sums!FoldUnwinds
  <1>2. SumFunctionOnSet(f, S) = Sums!Fold(f, 0, S)
    BY DEF SumFunctionOnSet, FoldFunctionOnSet, MapThenFoldSet, AnyOf, Sums!Fold,
           Sums!Equation, AddValue
  <1>3. Partial(f, S, it)
    BY <1>1, <1>2 DEF Sums!Unwinds, Partial, AddValue
  <1> QED
    BY <1>3

LEMMA SumInduction ==
  ASSUME NEW S, IsFiniteSet(S), NEW Q \in SUBSET (SUBSET S), {} \in Q,
         \A s \in SUBSET S : s # {} /\ s \ {AnyOf(s)} \in Q => s \in Q
  PROVE  S \in Q
  BY AnyOfIn, SameFinite, Sums!SubsetInduction

\* Natural numbers add up to a natural number.
LEMMA SumIsNat ==
  ASSUME NEW S, IsFiniteSet(S), NEW f, \A x \in S : f[x] \in Nat
  PROVE  SumFunctionOnSet(f, S) \in Nat
  <1>1. PICK it : Partial(f, S, it)
    BY SumUnwinds
  <1> DEFINE Q == {s \in SUBSET S : it[s] \in Nat}
  <1>2. {} \in Q
    BY <1>1 DEF Partial
  <1>3. \A s \in SUBSET S : s # {} /\ s \ {AnyOf(s)} \in Q => s \in Q
    BY <1>1, AnyOfIn DEF Partial
  <1>4. Q \in SUBSET (SUBSET S)
    OBVIOUS
  <1> HIDE DEF Q
  <1>5. S \in Q
    BY <1>2, <1>3, <1>4, SumInduction
  <1> QED
    BY <1>1, <1>5 DEF Q, Partial

\* What holds between the values holds between their sums.
LEMMA SumScales ==
  ASSUME NEW S, IsFiniteSet(S), NEW a \in Nat, NEW b \in Nat, NEW f, NEW g,
         \A x \in S : f[x] \in Nat /\ g[x] \in Nat /\ a * f[x] <= b * g[x]
  PROVE  a * SumFunctionOnSet(f, S) <= b * SumFunctionOnSet(g, S)
  <1>1. PICK p : Partial(f, S, p)
    BY SumUnwinds
  <1>2. PICK q : Partial(g, S, q)
    BY SumUnwinds
  <1> DEFINE Q == {s \in SUBSET S : p[s] \in Nat /\ q[s] \in Nat /\ a * p[s] <= b * q[s]}
  <1>3. {} \in Q
    BY <1>1, <1>2 DEF Partial
  <1>4. \A s \in SUBSET S : s # {} /\ s \ {AnyOf(s)} \in Q => s \in Q
    <2> SUFFICES ASSUME NEW s \in SUBSET S, s # {}, s \ {AnyOf(s)} \in Q PROVE s \in Q
      OBVIOUS
    <2> DEFINE x == AnyOf(s)
               t == s \ {AnyOf(s)}
    <2>1. x \in S /\ f[x] \in Nat /\ g[x] \in Nat /\ a * f[x] <= b * g[x]
      BY AnyOfIn
    <2>2. p[t] \in Nat /\ q[t] \in Nat /\ a * p[t] <= b * q[t]
      OBVIOUS
    <2>3. p[s] = f[x] + p[t] /\ q[s] = g[x] + q[t]
      BY <1>1, <1>2 DEF Partial
    <2> HIDE DEF x, t
    <2>4. a * (f[x] + p[t]) = a * f[x] + a * p[t] /\ b * (g[x] + q[t]) = b * g[x] + b * q[t]
      BY <2>1, <2>2
    <2>5. a * f[x] \in Nat /\ a * p[t] \in Nat /\ b * g[x] \in Nat /\ b * q[t] \in Nat
      BY <2>1, <2>2
    <2>6. a * p[s] <= b * q[s]
      BY <2>1, <2>2, <2>3, <2>4, <2>5
    <2> QED
      BY <2>1, <2>2, <2>3, <2>6
  <1>5. Q \in SUBSET (SUBSET S)
    OBVIOUS
  <1> HIDE DEF Q
  <1>6. S \in Q
    BY <1>3, <1>4, <1>5, SumInduction
  <1> QED
    BY <1>1, <1>2, <1>6 DEF Q, Partial

\* A sum changes by what one of its values changes.
LEMMA SumUpdate ==
  ASSUME NEW S, IsFiniteSet(S), NEW f, NEW g, NEW e \in S,
         \A x \in S : f[x] \in Nat /\ g[x] \in Nat,
         \A x \in S \ {e} : f[x] = g[x]
  PROVE  SumFunctionOnSet(g, S) + f[e] = SumFunctionOnSet(f, S) + g[e]
  <1>1. PICK p : Partial(f, S, p)
    BY SumUnwinds
  <1>2. PICK q : Partial(g, S, q)
    BY SumUnwinds
  <1> DEFINE Q == {s \in SUBSET S : /\ p[s] \in Nat /\ q[s] \in Nat
                                    /\ e \notin s => q[s] = p[s]
                                    /\ e \in s => q[s] + f[e] = p[s] + g[e]}
  <1>3. {} \in Q
    BY <1>1, <1>2 DEF Partial
  <1>4. \A s \in SUBSET S : s # {} /\ s \ {AnyOf(s)} \in Q => s \in Q
    <2> SUFFICES ASSUME NEW s \in SUBSET S, s # {}, s \ {AnyOf(s)} \in Q PROVE s \in Q
      OBVIOUS
    <2> DEFINE x == AnyOf(s)
               t == s \ {AnyOf(s)}
    <2>1. x \in s /\ x \in S /\ f[x] \in Nat /\ g[x] \in Nat
      BY AnyOfIn
    <2>2. /\ p[t] \in Nat /\ q[t] \in Nat
          /\ e \notin t => q[t] = p[t]
          /\ e \in t => q[t] + f[e] = p[t] + g[e]
      OBVIOUS
    <2>3. p[s] = f[x] + p[t] /\ q[s] = g[x] + q[t]
      BY <1>1, <1>2 DEF Partial
    <2>4. (x = e => e \notin t) /\ (x # e => f[x] = g[x] /\ (e \in s <=> e \in t))
      BY <2>1
    <2>5. f[e] \in Nat /\ g[e] \in Nat
      OBVIOUS
    <2> HIDE DEF x, t
    <2>6. p[s] \in Nat /\ q[s] \in Nat
      BY <2>1, <2>2, <2>3
    <2>7. CASE x = e
      BY <2>1, <2>2, <2>3, <2>4, <2>5, <2>6, <2>7
    <2>8. CASE x # e
      BY <2>1, <2>2, <2>3, <2>4, <2>5, <2>6, <2>8
    <2> QED
      BY <2>7, <2>8
  <1>5. Q \in SUBSET (SUBSET S)
    OBVIOUS
  <1> HIDE DEF Q
  <1>6. S \in Q
    BY <1>3, <1>4, <1>5, SumInduction
  <1> QED
    BY <1>1, <1>2, <1>6 DEF Q, Partial

\* The price of the legs, leg by leg.
LEMMA PricesAddUp ==
  ASSUME NEW o, NEW n \in Nat, DOMAIN o.legs = 1..n
  PROVE  \E sum : /\ sum[0] = 0
                  /\ \A i \in 1..n : sum[i] = sum[i - 1] + o.legs[i].price
                  /\ PriceSum(o) = sum[n]
  <1>1. \A s : HighestOf(s) = Prices!Highest(s)
    BY DEF HighestOf, Prices!Highest
  <1>2. PICK sum : Prices!Runs(o.legs, 0, n, sum)
    BY <1>1, Prices!FoldRuns
  <1>3. PriceSum(o) = Prices!Fold(o.legs, 0, DOMAIN o.legs)
    BY DEF PriceSum, FoldLeft, MapThenFoldSet, Max, HighestOf, Prices!Fold,
           Prices!Equation, AddPrice
  <1>4. /\ sum[0] = 0
        /\ \A i \in 1..n : sum[i] = sum[i - 1] + o.legs[i].price
        /\ PriceSum(o) = sum[n]
    BY <1>2, <1>3 DEF Prices!Runs, AddPrice
  <1> QED
    BY <1>4

\* The books between the fills of an execution.
BooksBetween(b, fills, n, acc) ==
    /\ acc[0] = b
    /\ \A i \in 1..n : acc[i] = ApplyFill(acc[i - 1], fills[i])
    /\ FoldLeft(ApplyFill, b, fills) = acc[n]

LEMMA FillsApplied ==
  ASSUME NEW b, NEW fills, NEW n \in Nat, DOMAIN fills = 1..n
  PROVE  \E acc : BooksBetween(b, fills, n, acc)
  <1>1. \A s : HighestOf(s) = Fills!Highest(s)
    BY DEF HighestOf, Fills!Highest
  <1>2. PICK acc : Fills!Runs(fills, b, n, acc)
    BY <1>1, Fills!FoldRuns
  <1>3. FoldLeft(ApplyFill, b, fills) = Fills!Fold(fills, b, 1..n)
    BY DEF FoldLeft, MapThenFoldSet, Max, HighestOf, Fills!Fold, Fills!Equation, AddFill
  <1>4. BooksBetween(b, fills, n, acc)
    BY <1>2, <1>3 DEF Fills!Runs, AddFill, BooksBetween
  <1> QED
    BY <1>4

-----------------------------------------------------------------------------
(***************************************************************************)
(* Types: sums, sizes and books stay what they are.                        *)
(***************************************************************************)
Books == [Tokens -> [known : BOOLEAN, size : Nat, price : Nat,
                     market : Markets \cup {NoMarket}]]

TypedFill(fill) ==
    /\ fill.token \in Tokens /\ fill.side \in {"buy", "sell"}
    /\ fill.size \in Nat /\ fill.price \in Nat /\ fill.market \in Markets
    /\ fill.checked \in Nat

\* What is left of a position is never negative, and never more than there was.
LEMMA LeftOver ==
  ASSUME NEW a \in Nat, NEW b \in Nat
  PROVE  Max({a - b, 0}) \in Nat /\ Max({a - b, 0}) <= a
  <1>1. CASE a >= b
    <2>1. Max({a - b, 0}) = a - b
      BY <1>1 DEF Max
    <2> QED
      BY <1>1, <2>1
  <1>2. CASE a < b
    <2>1. Max({a - b, 0}) = 0
      BY <1>2 DEF Max
    <2> QED
      BY <2>1
  <1> QED
    BY <1>1, <1>2

\* apply_fill changes one position: to the price of the fill, and by no more lots.
LEMMA FillChanges ==
  ASSUME NEW b \in Books, NEW fill, TypedFill(fill)
  PROVE  /\ ApplyFill(b, fill) \in Books
         /\ ApplyFill(b, fill)[fill.token].price = fill.price
         /\ ApplyFill(b, fill)[fill.token].size <= b[fill.token].size + fill.size
         /\ ApplyFill(b, fill)[fill.token].known
         /\ ApplyFill(b, fill)[fill.token].market =
              IF b[fill.token].known THEN b[fill.token].market ELSE fill.market
         /\ \A t \in Tokens \ {fill.token} : ApplyFill(b, fill)[t] = b[t]
  <1> DEFINE old == b[fill.token]
             lots == IF fill.side = "buy" THEN old.size + fill.size
                     ELSE Max({old.size - fill.size, 0})
             new == [known |-> TRUE, size |-> lots, price |-> fill.price,
                     market |-> IF old.known THEN old.market ELSE fill.market]
  <1>1. /\ fill.token \in Tokens /\ fill.size \in Nat
        /\ fill.price \in Nat /\ fill.market \in Markets
    BY DEF TypedFill
  <1>2. old \in [known : BOOLEAN, size : Nat, price : Nat, market : Markets \cup {NoMarket}]
    BY <1>1 DEF Books
  <1>3. lots \in Nat /\ lots <= old.size + fill.size
    <2>1. old.size \in Nat
      BY <1>2
    <2>2. /\ Max({old.size - fill.size, 0}) \in Nat
          /\ Max({old.size - fill.size, 0}) <= old.size
      BY <1>1, <2>1, LeftOver
    <2> HIDE DEF old
    <2> QED
      BY <1>1, <2>1, <2>2
  <1>4. ApplyFill(b, fill) = [b EXCEPT ![fill.token] = new]
    BY DEF ApplyFill
  <1> HIDE DEF lots
  <1>5. new \in [known : BOOLEAN, size : Nat, price : Nat, market : Markets \cup {NoMarket}]
    BY <1>1, <1>2, <1>3
  <1>6. /\ new.price = fill.price /\ new.size = lots /\ new.known
        /\ new.market = IF old.known THEN old.market ELSE fill.market
    OBVIOUS
  <1> HIDE DEF new
  <1>7. /\ [b EXCEPT ![fill.token] = new] \in Books
        /\ [b EXCEPT ![fill.token] = new][fill.token] = new
        /\ \A t \in Tokens \ {fill.token} : [b EXCEPT ![fill.token] = new][t] = b[t]
    BY <1>1, <1>5 DEF Books
  <1> QED
    BY <1>3, <1>4, <1>6, <1>7

LEMMA FillLots ==
  ASSUME NEW b \in Books, NEW fill, TypedFill(fill)
  PROVE  ApplyFill(b, fill)[fill.token].size =
            IF fill.side = "buy" THEN b[fill.token].size + fill.size
            ELSE Max({b[fill.token].size - fill.size, 0})
  <1>1. fill.token \in Tokens
    BY DEF TypedFill
  <1> QED
    BY <1>1 DEF ApplyFill, Books

LEMMA FillsKeepType ==
  ASSUME NEW b \in Books, NEW n \in Nat, NEW fills, DOMAIN fills = 1..n,
         \A i \in 1..n : TypedFill(fills[i])
  PROVE  FoldLeft(ApplyFill, b, fills) \in Books
  <1>1. PICK acc : BooksBetween(b, fills, n, acc)
    BY FillsApplied
  <1> DEFINE Good == {i \in 0..n : acc[i] \in Books}
  <1>2. 0 \in Good
    BY <1>1 DEF BooksBetween
  <1>3. \A i \in 1..n : i - 1 \in Good => i \in Good
    BY <1>1, FillChanges DEF BooksBetween
  <1> HIDE DEF Good
  <1>4. n \in Good
    BY <1>2, <1>3, Sums!UpToInduction
  <1> QED
    BY <1>1, <1>4 DEF BooksBetween, Good

\* The books and the drift together, between the fills of an execution.
AfterFills(fills) == FoldLeft(Booked, [book |-> book, drift |-> drift], fills)

AddBooked(fills, i, s) == Booked(s, fills[i])

Ledgers == INSTANCE FoldFacts WITH Op <- AddBooked, Pick <- HighestOf

LedgerBetween(fills, n, acc) ==
    /\ acc[0] = [book |-> book, drift |-> drift]
    /\ \A i \in 1..n : acc[i] = Booked(acc[i - 1], fills[i])
    /\ AfterFills(fills) = acc[n]

LEMMA LedgerApplied ==
  ASSUME NEW fills, NEW n \in Nat, DOMAIN fills = 1..n
  PROVE  \E acc : LedgerBetween(fills, n, acc)
  <1>1. \A s : HighestOf(s) = Ledgers!Highest(s)
    BY DEF HighestOf, Ledgers!Highest
  <1> DEFINE s0 == [book |-> book, drift |-> drift]
  <1>2. PICK acc : Ledgers!Runs(fills, s0, n, acc)
    BY <1>1, Ledgers!FoldRuns
  <1>3. AfterFills(fills) = Ledgers!Fold(fills, s0, 1..n)
    BY DEF AfterFills, FoldLeft, MapThenFoldSet, Max, HighestOf, Ledgers!Fold,
           Ledgers!Equation, AddBooked
  <1>4. LedgerBetween(fills, n, acc)
    BY <1>2, <1>3 DEF Ledgers!Runs, AddBooked, LedgerBetween
  <1> QED
    BY <1>4

\* Both folds go through the same books.
LEMMA SameBooks ==
  ASSUME NEW fills, NEW n \in Nat, NEW acc, LedgerBetween(fills, n, acc), DOMAIN fills = 1..n
  PROVE  FoldLeft(ApplyFill, book, fills) = acc[n].book
  <1>1. PICK b : BooksBetween(book, fills, n, b)
    BY FillsApplied
  <1> DEFINE Good == {i \in 0..n : acc[i].book = b[i]}
  <1>2. 0 \in Good
    BY <1>1 DEF BooksBetween, LedgerBetween
  <1>3. \A i \in 1..n : i - 1 \in Good => i \in Good
    <2> SUFFICES ASSUME NEW i \in 1..n, i - 1 \in Good PROVE acc[i].book = b[i]
      OBVIOUS
    <2>1. acc[i] = Booked(acc[i - 1], fills[i]) /\ b[i] = ApplyFill(b[i - 1], fills[i])
      BY <1>1 DEF BooksBetween, LedgerBetween
    <2>2. acc[i].book = ApplyFill(acc[i - 1].book, fills[i])
      BY <2>1 DEF Booked
    <2> QED
      BY <2>1, <2>2
  <1> HIDE DEF Good
  <1>4. n \in Good
    BY <1>2, <1>3, Sums!UpToInduction
  <1> QED
    BY <1>1, <1>4 DEF BooksBetween, Good

LEMMA UncheckedIsInt ==
  ASSUME NEW b \in Books, NEW fill, TypedFill(fill)
  PROVE  Unchecked(b, fill) \in Int
  <1> DEFINE old == b[fill.token]
             stay == IF fill.side = "buy" THEN old.size ELSE Max({old.size - fill.size, 0})
             bought == fill.size * (fill.price - fill.checked)
  <1>1. old.size \in Nat /\ old.price \in Nat /\ fill.size \in Nat /\ fill.price \in Nat
        /\ fill.checked \in Nat
    BY DEF Books, TypedFill
  <1>2. stay \in Nat
    BY <1>1, LeftOver
  <1>3. bought \in Int
    BY <1>1
  <1>4. Unchecked(b, fill) =
          stay * (fill.price - old.price) + IF fill.side = "buy" THEN bought ELSE 0
    BY DEF Unchecked
  <1> HIDE DEF stay, bought, old
  <1>5. stay * (fill.price - old.price) \in Int
    BY <1>1, <1>2
  <1> QED
    BY <1>3, <1>4, <1>5

LEMMA DriftTyped ==
  ASSUME book \in Books, drift \in Int, NEW n \in Nat, NEW fills, DOMAIN fills = 1..n,
         \A i \in 1..n : TypedFill(fills[i])
  PROVE  AfterFills(fills).drift \in Int
  <1>1. PICK acc : LedgerBetween(fills, n, acc)
    BY LedgerApplied
  <1> DEFINE Good == {i \in 0..n : acc[i].book \in Books /\ acc[i].drift \in Int}
  <1>2. 0 \in Good
    BY <1>1 DEF LedgerBetween
  <1>3. \A i \in 1..n : i - 1 \in Good => i \in Good
    <2> SUFFICES ASSUME NEW i \in 1..n, i - 1 \in Good PROVE i \in Good
      OBVIOUS
    <2>1. acc[i] = Booked(acc[i - 1], fills[i])
      BY <1>1 DEF LedgerBetween
    <2>2. acc[i - 1].book \in Books /\ acc[i - 1].drift \in Int
      OBVIOUS
    <2>3. /\ acc[i].book = ApplyFill(acc[i - 1].book, fills[i])
          /\ acc[i].drift = acc[i - 1].drift + Unchecked(acc[i - 1].book, fills[i])
      BY <2>1 DEF Booked
    <2>4. /\ ApplyFill(acc[i - 1].book, fills[i]) \in Books
          /\ Unchecked(acc[i - 1].book, fills[i]) \in Int
      BY <2>2, FillChanges, UncheckedIsInt
    <2> QED
      BY <2>2, <2>3, <2>4
  <1> HIDE DEF Good
  <1>4. n \in Good
    BY <1>2, <1>3, Sums!UpToInduction
  <1> QED
    BY <1>1, <1>4 DEF LedgerBetween, Good

LEMMA OpportunityShape ==
  ASSUME NEW o \in Opportunities
  PROVE  /\ o \in [legs : Seq(Leg), size : Nat, markets : Seq(Markets)]
         /\ Len(o.legs) \in Nat /\ DOMAIN o.legs = 1..Len(o.legs)
         /\ \A i \in DOMAIN o.legs : o.legs[i] \in Leg
         /\ Head(o.markets) \in Markets
         /\ \A i \in DOMAIN o.legs : LegMarket(o.markets, i) \in Markets
  <1>1. o \in [legs : Seq(Leg), size : Nat, markets : Seq(Markets)] /\ o.markets # <<>>
    BY GateAssumption
  <1>2. o.markets \in Seq(Markets) /\ Head(o.markets) \in Markets
    BY <1>1
  <1>3. \A i \in DOMAIN o.markets : o.markets[i] \in Markets
    BY <1>2
  <1> QED
    BY <1>1, <1>2, <1>3 DEF LegMarket

LEMMA PriceSumIsNat ==
  ASSUME NEW o \in Opportunities
  PROVE  PriceSum(o) \in Nat
  <1>1. PICK sum : /\ sum[0] = 0
                   /\ \A i \in 1..Len(o.legs) : sum[i] = sum[i - 1] + o.legs[i].price
                   /\ PriceSum(o) = sum[Len(o.legs)]
    BY OpportunityShape, PricesAddUp
  <1> DEFINE Good == {i \in 0..Len(o.legs) : sum[i] \in Nat}
  <1>2. 0 \in Good
    BY <1>1, OpportunityShape
  <1>3. \A i \in 1..Len(o.legs) : i - 1 \in Good => i \in Good
    <2> SUFFICES ASSUME NEW i \in 1..Len(o.legs), i - 1 \in Good PROVE i \in Good
      OBVIOUS
    <2>1. o.legs[i].price \in Nat
      BY OpportunityShape DEF Leg
    <2>2. sum[i] = sum[i - 1] + o.legs[i].price /\ sum[i - 1] \in Nat
      BY <1>1
    <2>3. sum[i] \in Nat
      BY <2>1, <2>2
    <2> QED
      BY <2>3
  <1> HIDE DEF Good
  <1>4. Len(o.legs) \in Good
    BY <1>2, <1>3, OpportunityShape, Sums!UpToInduction
  <1> QED
    BY <1>1, <1>4 DEF Good

\* The exposures are natural numbers.
LEMMA ExposureIsNat ==
  ASSUME book \in Books
  PROVE  /\ DOMAIN Values = Tokens /\ \A t \in Tokens : Values[t] \in Nat
         /\ Exposure = SumFunctionOnSet(Values, Tokens)
         /\ Exposure \in Nat /\ \A m : MarketExposure(m) \in Nat
  <1>1. DOMAIN Values = Tokens /\ \A t \in Tokens : Values[t] \in Nat
    <2> SUFFICES ASSUME NEW t \in Tokens PROVE book[t].size * book[t].price \in Nat
      BY DEF Values
    <2>1. book[t].size \in Nat /\ book[t].price \in Nat
      BY DEF Books
    <2> QED
      BY <2>1
  <1>2. IsFiniteSet(Tokens) /\ \A T \in SUBSET Tokens : IsFiniteSet(T)
    BY GateAssumption, FS_Subset
  <1>3. Exposure = SumFunctionOnSet(Values, Tokens)
    BY <1>1 DEF Exposure, SumFunction
  <1>4. Exposure \in Nat
    BY <1>1, <1>2, <1>3, SumIsNat
  <1>5. ASSUME NEW m PROVE MarketExposure(m) \in Nat
    <2> DEFINE T == {t \in Tokens : book[t].market = m}
    <2>1. IsFiniteSet(T) /\ \A t \in T : Values[t] \in Nat
      BY <1>1, <1>2
    <2> HIDE DEF T
    <2>2. SumFunctionOnSet(Values, T) \in Nat
      BY <2>1, SumIsNat
    <2> QED
      BY <2>2 DEF MarketExposure, T
  <1> QED
    BY <1>1, <1>3, <1>4, <1>5

LEMMA Quotient ==
  ASSUME NEW a \in Nat, NEW b \in Nat \ {0}
  PROVE  a \div b \in Nat
  OBVIOUS

\* What a check grants is a number of lots.
LEMMA GrantIsNat ==
  ASSUME book \in Books, openOrders \in Nat, NEW o \in Opportunities
  PROVE  Granted(o) \in Nat
  <1>1. /\ o.size \in Nat /\ MaxTotal \in Nat /\ MaxPerMarket \in Nat /\ MaxOrders \in Nat
        /\ Unit \in Nat \ {0} /\ Len(o.legs) \in Nat
    BY GateAssumption, OpportunityShape
  <1>2. Exposure \in Nat /\ \A m : MarketExposure(m) \in Nat
    BY ExposureIsNat
  <1>3. Notional(o) \in Nat
    <2>1. PriceSum(o) \in Nat
      BY PriceSumIsNat
    <2> QED
      BY <1>1, <2>1 DEF Notional
  <1>4. TotalReduced(o) \in Nat
    <2>1. CASE MaxTotal > Exposure /\ Notional(o) > 0
      <3> DEFINE left == (MaxTotal - Exposure) * o.size
      <3>1. left \in Nat
        <4>1. MaxTotal - Exposure \in Nat
          BY <1>1, <1>2, <2>1
        <4> QED
          BY <1>1, <4>1
      <3>2. TotalReduced(o) = left \div Notional(o)
        BY <2>1 DEF TotalReduced
      <3> HIDE DEF left
      <3> QED
        BY <1>3, <2>1, <3>1, <3>2, Quotient
    <2>2. CASE ~(MaxTotal > Exposure /\ Notional(o) > 0)
      BY <2>2 DEF TotalReduced
    <2> QED
      BY <2>1, <2>2
  <1>5. MarketReduced(o) \in Nat
    <2> DEFINE here == MarketExposure(o.markets[Min(OverMarket(o))])
    <2>1. here \in Nat
      BY <1>2
    <2>2. MarketReduced(o) = IF MaxPerMarket > here THEN (MaxPerMarket - here) \div Unit ELSE 0
      BY DEF MarketReduced
    <2> HIDE DEF here
    <2>3. MaxPerMarket > here => MaxPerMarket - here \in Nat
      BY <1>1, <2>1
    <2> QED
      BY <1>1, <2>1, <2>2, <2>3, Quotient
  <1>6. OrdersFit(o) \in BOOLEAN
    BY DEF OrdersFit
  <1>7. CASE ~OrdersFit(o)
    BY <1>7 DEF Granted
  <1>8. CASE OrdersFit(o) /\ Exposure + Notional(o) > MaxTotal
    <2>1. ~(~OrdersFit(o))
      BY <1>8
    <2>2. ~(Exposure + Notional(o) <= MaxTotal)
      BY <1>1, <1>2, <1>3, <1>8
    <2> QED
      BY <1>4, <1>8, <2>1, <2>2 DEF Granted
  <1>9. CASE OrdersFit(o) /\ Exposure + Notional(o) <= MaxTotal
    <2>1. ~(Exposure + Notional(o) > MaxTotal)
      BY <1>1, <1>2, <1>3, <1>9
    <2> QED
      BY <1>1, <1>5, <1>9, <2>1 DEF Granted
  <1> QED
    BY <1>1, <1>2, <1>3, <1>7, <1>8, <1>9

\* Fewer lots cost no more.
LEMMA FewerCostLess ==
  ASSUME NEW price \in Nat, NEW n \in Nat, NEW m \in Nat, n <= m
  PROVE  price * n \in Nat /\ price * n <= price * m
  BY SMTT(30)

\* What is in execution was cut from an opportunity.
LEMMA InExecution ==
  ASSUME TypeOK, eng # None
  PROVE  /\ eng.size \in Nat \ {0}
         /\ \E o \in Opportunities : eng.legs = o.legs /\ eng.markets = o.markets
  <1>1. PICK o \in Opportunities : eng = [o EXCEPT !.size = eng.size]
    BY DEF TypeOK
  <1>2. [o EXCEPT !.size = eng.size].legs = o.legs /\ [o EXCEPT !.size = eng.size].markets = o.markets
    BY OpportunityShape
  <1>3. eng.legs = o.legs /\ eng.markets = o.markets
    BY <1>1, <1>2
  <1> QED
    BY <1>3 DEF TypeOK

\* What either executor reports of the legs is something a tracker can record.
PaperFills ==
    [i \in DOMAIN eng.legs |->
        FillAtFirstMarket(i, eng.size,
            IF eng.legs[i].side = "buy"
            THEN eng.legs[i].price + eng.legs[i].price \div 10
            ELSE eng.legs[i].price - eng.legs[i].price \div 10)]

LiveFills(filled, price) == [i \in DOMAIN eng.legs |-> Fill(i, filled[i], price[i])]

LEMMA Tenth ==
  ASSUME NEW p \in Nat
  PROVE  /\ p \div 10 \in Nat /\ 10 * (p \div 10) <= p
         /\ p + p \div 10 \in Nat /\ p - p \div 10 \in Nat
  OBVIOUS

LEMMA PaperFillsTyped ==
  ASSUME TypeOK, eng # None
  PROVE  /\ Len(eng.legs) \in Nat /\ DOMAIN eng.legs = 1..Len(eng.legs)
         /\ DOMAIN PaperFills = 1..Len(eng.legs)
         /\ \A i \in 1..Len(eng.legs) : TypedFill(PaperFills[i])
  <1>1. PICK o \in Opportunities : eng.legs = o.legs /\ eng.markets = o.markets
    BY InExecution
  <1>2. /\ Len(eng.legs) \in Nat /\ DOMAIN eng.legs = 1..Len(eng.legs)
        /\ \A i \in DOMAIN eng.legs : eng.legs[i] \in Leg
        /\ Head(eng.markets) \in Markets
    BY <1>1, OpportunityShape
  <1>3. ASSUME NEW i \in 1..Len(eng.legs) PROVE TypedFill(PaperFills[i])
    <2> DEFINE p == eng.legs[i].price
               worse == IF eng.legs[i].side = "buy" THEN p + p \div 10 ELSE p - p \div 10
    <2>1. p \in Nat /\ eng.legs[i].token \in Tokens /\ eng.legs[i].side \in {"buy", "sell"}
      BY <1>2 DEF Leg
    <2>2. worse \in Nat
      BY <2>1, Tenth
    <2>3. PaperFills[i] = FillAtFirstMarket(i, eng.size, worse)
      BY <1>2 DEF PaperFills
    <2> HIDE DEF worse
    <2> QED
      BY <1>2, <2>1, <2>2, <2>3, InExecution DEF TypedFill, FillAtFirstMarket
  <1> QED
    BY <1>2, <1>3 DEF PaperFills

LEMMA LiveFillsTyped ==
  ASSUME TypeOK, eng # None,
         NEW filled \in [DOMAIN eng.legs -> 0..eng.size],
         NEW price \in [DOMAIN eng.legs -> ReportedPrices]
  PROVE  /\ Len(eng.legs) \in Nat /\ DOMAIN eng.legs = 1..Len(eng.legs)
         /\ DOMAIN LiveFills(filled, price) = 1..Len(eng.legs)
         /\ \A i \in 1..Len(eng.legs) : TypedFill(LiveFills(filled, price)[i])
  <1>1. PICK o \in Opportunities : eng.legs = o.legs /\ eng.markets = o.markets
    BY InExecution
  <1>2. /\ Len(eng.legs) \in Nat /\ DOMAIN eng.legs = 1..Len(eng.legs)
        /\ \A i \in DOMAIN eng.legs : eng.legs[i] \in Leg
        /\ \A i \in DOMAIN eng.legs : LegMarket(eng.markets, i) \in Markets
    BY <1>1, OpportunityShape
  <1>3. ASSUME NEW i \in 1..Len(eng.legs) PROVE TypedFill(LiveFills(filled, price)[i])
    <2>1. eng.legs[i].token \in Tokens /\ eng.legs[i].side \in {"buy", "sell"}
      BY <1>2 DEF Leg
    <2>2. filled[i] \in Nat
      BY <1>2, InExecution
    <2>3. price[i] \in Nat /\ eng.legs[i].price \in Nat
      <3>1. \A j \in DOMAIN eng.legs : eng.legs[j].price \in Nat
        BY <1>2 DEF Leg
      <3>2. ReportedPrices \subseteq Nat
        <4> SUFFICES ASSUME NEW p \in ReportedPrices PROVE p \in Nat
          OBVIOUS
        <4>1. p = 0 \/ p \in FillPrices \/ \E j \in DOMAIN eng.legs : p = eng.legs[j].price
          BY DEF ReportedPrices
        <4>2. FillPrices \in SUBSET Nat
          BY GateAssumption
        <4>3. CASE p = 0
          BY <4>3
        <4>4. CASE p \in FillPrices
          BY <4>2, <4>4
        <4>5. CASE \E j \in DOMAIN eng.legs : p = eng.legs[j].price
          BY <3>1, <4>5
        <4> QED
          BY <4>1, <4>3, <4>4, <4>5
      <3> QED
        BY <1>2, <3>1, <3>2
    <2> QED
      BY <1>2, <2>1, <2>2, <2>3 DEF TypedFill, Fill, LiveFills
  <1> QED
    BY <1>2, <1>3 DEF LiveFills

LEMMA InitTyped == Init => TypeOK
  BY DEF Init, TypeOK

\* A market over its cap on its own has nothing left to grant.
LEMMA NothingLeft ==
  ASSUME book \in Books, NEW o \in Opportunities, Notional(o) = 0, OverMarket(o) # {}
  PROVE  MarketReduced(o) = 0
  <1> DEFINE n == Len(o.markets)
             first == Min(OverMarket(o))
             here == MarketExposure(o.markets[first])
  <1>1. o.markets \in Seq(Markets)
    BY OpportunityShape
  <1>2. n \in Nat /\ OverMarket(o) \subseteq 1..n
    BY <1>1 DEF OverMarket
  <1>3. \E x \in OverMarket(o) : \A y \in OverMarket(o) : x <= y
    <2>1. OverMarket(o) \in SUBSET Nat
      BY <1>2
    <2> QED
      BY <2>1, Sums!NatSetHasMin
  <1>4. first \in OverMarket(o)
    BY <1>3 DEF Min
  <1>5. n # 0 /\ MaxPerMarket \in Nat /\ here \in Nat
    BY <1>2, <1>4, ExposureIsNat, GateAssumption
  <1>6. here * n > MaxPerMarket * n
    <2>1. here * n + 0 > MaxPerMarket * n
      BY <1>4 DEF OverMarket
    <2> HIDE DEF here, n
    <2>2. here * n \in Nat
      BY <1>2, <1>5
    <2> QED
      BY <2>1, <2>2
  <1>7. ~(MaxPerMarket > here)
    <2> HIDE DEF here, n
    <2> SUFFICES ASSUME MaxPerMarket > here PROVE FALSE
      OBVIOUS
    <2>1. here * n \in Nat /\ MaxPerMarket * n \in Nat
      BY <1>2, <1>5
    <2>2. here <= MaxPerMarket
      BY <1>5
    <2>3. n * here <= n * MaxPerMarket
      BY <1>2, <1>5, <2>2, FewerCostLess
    <2>4. n * here = here * n /\ n * MaxPerMarket = MaxPerMarket * n
      BY <1>2, <1>5
    <2> QED
      BY <1>6, <2>1, <2>3, <2>4
  <1> QED
    BY <1>7 DEF MarketReduced

LEMMA CheckTyped ==
  ASSUME TypeOK, NEW o \in Opportunities, EngineCheck(o)
  PROVE  TypeOK'
  <1>1. Granted(o) \in Nat /\ Granted(o) > 0
    BY GrantIsNat DEF EngineCheck, TypeOK, Books
  <1> DEFINE size == IF o.size > Granted(o) THEN Granted(o) ELSE o.size
  <1>2. eng' = [o EXCEPT !.size = size]
    BY DEF EngineCheck, WithMaxSize
  <1>3. eng'.size = size
    BY <1>2, OpportunityShape
  <1>4. o.size \in Nat
    BY OpportunityShape
  <1>5. o.size # 0
    <2> SUFFICES ASSUME o.size = 0 PROVE FALSE
      OBVIOUS
    <2>1. PriceSum(o) \in Nat /\ Exposure \in Nat /\ MaxTotal \in Nat
      BY PriceSumIsNat, ExposureIsNat, GateAssumption DEF TypeOK, Books
    <2>2. Notional(o) = 0
      BY <2>1 DEF Notional
    <2>3. TotalReduced(o) = 0
      BY <2>2 DEF TotalReduced
    <2>4. OverMarket(o) # {} => MarketReduced(o) = 0
      BY <2>2, NothingLeft DEF TypeOK, Books
    <2>5. CASE Exposure + Notional(o) <= MaxTotal
      <3>1. ~(Exposure + Notional(o) > MaxTotal) /\ OrdersFit(o)
        BY <1>1, <2>1, <2>2, <2>5 DEF Granted
      <3> QED
        BY <1>1, <2>4, <2>5, <3>1 DEF Granted
    <2>6. CASE Exposure + Notional(o) > MaxTotal
      <3>1. ~(Exposure + Notional(o) <= MaxTotal) /\ OrdersFit(o)
        BY <1>1, <2>1, <2>2, <2>6 DEF Granted
      <3> QED
        BY <1>1, <2>3, <2>6, <3>1 DEF Granted
    <2> QED
      BY <2>1, <2>2, <2>5, <2>6
  <1>6. drift' \in Int
    BY DEF EngineCheck
  <1>7. eng'.size \in Nat \ {0} /\ eng' = [o EXCEPT !.size = eng'.size]
    BY <1>1, <1>2, <1>3, <1>4, <1>5
  <1>8. UNCHANGED <<mode, book, openOrders>>
    BY DEF EngineCheck
  <1> QED
    BY <1>6, <1>7, <1>8 DEF TypeOK

\* At most as many legs are left partly filled as there are legs.
LEMMA SomeLegs ==
  ASSUME NEW n \in Nat, NEW S \in SUBSET (1..n)
  PROVE  Cardinality(S) \in Nat /\ Cardinality(S) <= n
  <1>1. IsFiniteSet(1..n) /\ Cardinality(1..n) = n
    BY FS_Interval
  <1>2. IsFiniteSet(S) /\ Cardinality(S) <= n
    BY <1>1, FS_Subset
  <1> QED
    BY <1>2, FS_CardinalityType

LEMMA PaperTyped == TypeOK /\ PaperExecute => TypeOK'
  <1> SUFFICES ASSUME TypeOK, PaperExecute PROVE TypeOK'
    OBVIOUS
  <1>1. eng # None /\ book' = FoldLeft(ApplyFill, book, PaperFills) /\ openOrders' = openOrders + 0
    BY DEF PaperExecute, RecordLegs, PaperFills
  <1>2. book' \in Books /\ drift' \in Int
    <2>1. drift' = AfterFills(PaperFills).drift
      BY DEF PaperExecute, RecordLegs, PaperFills, AfterFills
    <2> QED
      BY <1>1, <2>1, PaperFillsTyped, FillsKeepType, DriftTyped DEF TypeOK, Books
  <1> QED
    BY <1>1, <1>2 DEF PaperExecute, TypeOK, Books

LEMMA LiveTyped ==
  ASSUME TypeOK,
         NEW filled \in [DOMAIN eng.legs -> 0..eng.size],
         NEW price \in [DOMAIN eng.legs -> ReportedPrices],
         LiveExecute(filled, price)
  PROVE  TypeOK'
  <1> DEFINE partial == {i \in DOMAIN eng.legs : 0 < filled[i] /\ filled[i] < eng.size}
  <1>1. /\ eng # None /\ eng' = None /\ mode' = mode
        /\ book' = FoldLeft(ApplyFill, book, LiveFills(filled, price))
        /\ openOrders' = openOrders + Cardinality(partial)
        /\ drift' = AfterFills(LiveFills(filled, price)).drift
    BY DEF LiveExecute, RecordLegs, LiveFills, AfterFills
  <1>2. book' \in Books /\ drift' \in Int
    BY <1>1, LiveFillsTyped, FillsKeepType, DriftTyped DEF TypeOK, Books
  <1>3. partial \in SUBSET (1..Len(eng.legs)) /\ Len(eng.legs) \in Nat
    BY <1>1, LiveFillsTyped
  <1> HIDE DEF partial
  <1>4. Cardinality(partial) \in Nat
    BY <1>3, SomeLegs
  <1> QED
    BY <1>1, <1>2, <1>4 DEF TypeOK, Books

LEMMA ManualTyped ==
  ASSUME TypeOK, NEW t \in Tokens, NEW side \in {"buy", "sell"}, NEW size \in 1..MaxHeld,
         NEW price \in ManualPrices[t], ManualFill(t, side, size, price)
  PROVE  TypeOK'
  <1> DEFINE fill == [token |-> t, side |-> side, size |-> size, price |-> price,
                      market |-> MarketOf[t], checked |-> 0]
  <1>1. /\ book' = FoldLeft(ApplyFill, book, <<fill>>) /\ openOrders' = openOrders + 0
        /\ drift' = AfterFills(<<fill>>).drift
    BY DEF ManualFill, RecordLegs, AfterFills
  <1>2. TypedFill(fill)
    <2>1. size \in Nat /\ price \in Nat /\ MarketOf[t] \in Markets
      BY GateAssumption
    <2> QED
      BY <2>1 DEF TypedFill
  <1> HIDE DEF fill
  <1>3. DOMAIN <<fill>> = 1..1 /\ \A i \in 1..1 : TypedFill(<<fill>>[i])
    BY <1>2
  <1>4. book' \in Books /\ drift' \in Int
    BY <1>1, <1>3, FillsKeepType, DriftTyped DEF TypeOK, Books
  <1>5. mode' = mode /\ eng' = eng
    BY DEF ManualFill
  <1>6. openOrders' \in Nat
    BY <1>1 DEF TypeOK
  <1> QED
    BY <1>4, <1>5, <1>6 DEF TypeOK, Books

LEMMA NextTyped == TypeOK /\ [Next]_vars => TypeOK'
  <1> SUFFICES ASSUME TypeOK, [Next]_vars PROVE TypeOK'
    OBVIOUS
  <1>1. CASE \E o \in Opportunities : EngineCheck(o)
    BY <1>1, CheckTyped
  <1>2. CASE PaperExecute
    BY <1>2, PaperTyped
  <1>3. CASE LiveExecution
    BY <1>3, LiveTyped DEF LiveExecution
  <1>4. CASE LiveExecuteLost
    BY <1>4 DEF LiveExecuteLost, TypeOK
  <1>5. CASE \E t \in Tokens, size \in 1..MaxHeld :
               \E price \in ManualPrices[t], side \in {"buy", "sell"} :
                 ManualFill(t, side, size, price)
    BY <1>5, ManualTyped
  <1>6. CASE UNCHANGED vars
    BY <1>6 DEF vars, TypeOK
  <1> QED
    BY <1>1, <1>2, <1>3, <1>4, <1>5, <1>6 DEF Next

\* Whatever the opportunities, the caps and the fills, sizes stay natural numbers,
\* and what is in execution is an opportunity cut to a positive number of lots.
THEOREM TypeCorrect == Spec => []TypeOK
  BY InitTyped, NextTyped, PTL DEF Spec

-----------------------------------------------------------------------------
(***************************************************************************)
(* The open orders.                                                        *)
(***************************************************************************)
\* The invariant proved: OrderRoom, and the types it needs.  Of an execution only
\* its legs matter here.
OrderInv ==
    /\ openOrders \in Nat
    /\ eng = None \/ eng.legs \in {o.legs : o \in Opportunities}
    /\ OrderRoom

LEMMA InitOrders == Init => OrderInv
  BY GateAssumption DEF Init, OrderInv, OrderRoom, OpenOrdersWithinLimit

\* The check finds room for all the legs of what it grants.
LEMMA CheckKeepsRoom ==
  ASSUME OrderInv, NEW opp \in Opportunities, EngineCheck(opp)
  PROVE  OrderInv'
  <1>1. OrdersFit(opp)
    BY DEF EngineCheck, Granted
  <1>2. eng'.legs = opp.legs
    BY DEF EngineCheck, WithMaxSize
  <1>3. openOrders' = openOrders
    BY DEF EngineCheck
  <1> QED
    BY <1>1, <1>2, <1>3 DEF OrderInv, OrderRoom, OrdersFit, OpenOrdersWithinLimit

\* Recording an execution counts at most its legs.
LEMMA ExecutionKeepsLimit ==
  ASSUME OrderInv, NEW filled, NEW price, LiveExecute(filled, price)
  PROVE  OrderInv'
  <1> DEFINE partial == {i \in DOMAIN eng.legs : 0 < filled[i] /\ filled[i] < eng.size}
  <1>1. eng # None /\ eng' = None /\ openOrders' = openOrders + Cardinality(partial)
    BY DEF LiveExecute, RecordLegs
  <1>2. PICK o \in Opportunities : eng.legs = o.legs
    BY <1>1 DEF OrderInv
  <1>3. Len(eng.legs) \in Nat /\ partial \in SUBSET (1..Len(eng.legs))
    BY <1>2, OpportunityShape
  <1>4. Cardinality(partial) \in Nat /\ Cardinality(partial) <= Len(eng.legs)
    BY <1>3, SomeLegs
  <1>5. openOrders + Len(eng.legs) <= MaxOrders
    BY <1>1 DEF OrderInv, OrderRoom
  <1> HIDE DEF partial
  <1> QED
    BY <1>1, <1>3, <1>4, <1>5, GateAssumption DEF OrderInv, OrderRoom, OpenOrdersWithinLimit

LEMMA NextOrders == OrderInv /\ [Next]_vars => OrderInv'
  <1> SUFFICES ASSUME OrderInv, [Next]_vars
               PROVE  OrderInv'
    OBVIOUS
  <1>1. ASSUME NEW opp \in Opportunities, EngineCheck(opp)
        PROVE  OrderInv'
    BY <1>1, CheckKeepsRoom
  <1>2. CASE PaperExecute
    <2>1. eng' = None /\ openOrders' = openOrders
      BY <1>2 DEF PaperExecute, RecordLegs, OrderInv
    <2> QED
      BY <2>1 DEF OrderInv, OrderRoom, OpenOrdersWithinLimit
  <1>3. CASE LiveExecution
    BY <1>3, ExecutionKeepsLimit DEF LiveExecution
  <1>4. CASE LiveExecuteLost
    BY <1>4 DEF LiveExecuteLost, OrderInv, OrderRoom, OpenOrdersWithinLimit
  <1>5. ASSUME NEW t, NEW side, NEW size, NEW price, ManualFill(t, side, size, price)
        PROVE  OrderInv'
    <2>1. eng' = eng /\ openOrders' = openOrders
      BY <1>5 DEF ManualFill, RecordLegs, OrderInv
    <2> QED
      BY <2>1 DEF OrderInv, OrderRoom, OpenOrdersWithinLimit
  <1>6. CASE UNCHANGED vars
    BY <1>6 DEF vars, OrderInv, OrderRoom, OpenOrdersWithinLimit
  <1> QED
    BY <1>1, <1>2, <1>3, <1>4, <1>5, <1>6 DEF Next

\* The orders the risk limits count never exceed max_open_orders, whatever the
\* opportunities, the caps, the fills and the manual orders are: the count made
\* after the execution stays inside the room the check found before it.
THEOREM OrdersWithinLimit == Spec => []OpenOrdersWithinLimit
  <1>1. OrderInv => OpenOrdersWithinLimit
    BY DEF OrderInv, OrderRoom
  <1> QED
    BY <1>1, InitOrders, NextOrders, PTL DEF Spec

-----------------------------------------------------------------------------
\* The total cap.

\* What can be divided out of a budget fits into it.
LEMMA DividedFits ==
  ASSUME NEW a \in Nat, NEW b \in Nat \ {0}
  PROVE  a \div b \in Nat /\ (a \div b) * b <= a
  BY SMTT(30)

\* A factor on both sides of a comparison can be taken away.
LEMMA FactorOut ==
  ASSUME NEW x \in Nat, NEW y \in Nat, NEW s \in Nat \ {0}, x * s <= y * s
  PROVE  x <= y
  <1>1. CASE x > y
    <2>1. x >= y + 1
      BY <1>1
    <2>2. (x - (y + 1)) * s >= 0
      BY <2>1, SMTT(30)
    <2>3. x * s >= y * s + s
      BY <2>2, SMTT(30)
    <2> QED
      BY <2>3, SMTT(30)
  <1> QED
    BY <1>1

\* The lots the total cap leaves cost no more than is left of it.
LEMMA ReducedFits ==
  ASSUME NEW left \in Nat, NEW size \in Nat \ {0}, NEW price \in Nat \ {0}
  PROVE  /\ (left * size) \div (price * size) \in Nat
         /\ price * ((left * size) \div (price * size)) <= left
  <1>1. left * size \in Nat /\ price * size \in Nat \ {0}
    BY SMTT(30)
  <1> DEFINE lots == (left * size) \div (price * size)
  <1>2. lots \in Nat /\ lots * (price * size) <= left * size
    BY <1>1, DividedFits
  <1> HIDE DEF lots
  <1>3. (price * lots) * size <= left * size /\ price * lots \in Nat
    BY <1>2, SMTT(30)
  <1>4. price * lots <= left
    BY <1>3, FactorOut
  <1> QED
    BY <1>2, <1>4 DEF lots

\* What a check grants, whole, reduced to the total cap or to a market's, costs at
\* the prices it was checked at no more than the total cap leaves: the step of
\* GrantFitsTotal.
LEMMA GrantsFit ==
  ASSUME NEW opp \in Opportunities,
         Exposure \in Nat, PriceSum(opp) \in Nat, Granted(opp) \in Nat
  PROVE  EngineCheck(opp) => Exposure + Notional(eng') <= MaxTotal
  <1> SUFFICES ASSUME EngineCheck(opp)
               PROVE  Exposure + Notional(eng') <= MaxTotal
    OBVIOUS
  <1> DEFINE max == Granted(opp)
             granted == IF opp.size > max THEN max ELSE opp.size
  <1>1. opp \in [legs : Seq(Leg), size : Nat, markets : Seq(Markets)] /\ MaxTotal \in Nat
    BY GateAssumption
  <1>2. max > 0 /\ eng' = [opp EXCEPT !.size = granted]
    BY DEF EngineCheck, WithMaxSize
  <1>3. eng'.legs = opp.legs /\ eng'.size = granted
    BY <1>1, <1>2
  <1>4. Notional(eng') = PriceSum(opp) * granted
    BY <1>3 DEF Notional, PriceSum
  <1>5. granted \in Nat /\ opp.size \in Nat /\ granted <= opp.size /\ granted <= max
    BY <1>1
  <1>6. OrdersFit(opp)
    BY <1>2 DEF Granted
  <1>7. CASE Exposure + Notional(opp) <= MaxTotal
    <2>1. PriceSum(opp) * granted \in Nat /\ PriceSum(opp) * granted <= PriceSum(opp) * opp.size
      BY <1>5, FewerCostLess
    <2>2. PriceSum(opp) * opp.size = Notional(opp) /\ Notional(opp) \in Nat
      BY <1>5, SMTT(30) DEF Notional
    <2> QED
      BY <1>1, <1>4, <1>7, <2>1, <2>2
  <1>8. CASE Exposure + Notional(opp) > MaxTotal
    <2> DEFINE left == MaxTotal - Exposure
               lots == (left * opp.size) \div (PriceSum(opp) * opp.size)
    <2>1. max = TotalReduced(opp)
      <3>1. Notional(opp) \in Nat
        BY <1>5, SMTT(30) DEF Notional
      <3>2. ~(Exposure + Notional(opp) <= MaxTotal)
        BY <1>1, <1>8, <3>1
      <3> QED
        BY <1>6, <1>8, <3>2 DEF Granted
    <2>2. MaxTotal > Exposure /\ Notional(opp) > 0 /\ max = lots
      BY <1>2, <2>1 DEF TotalReduced, Notional
    <2>3. left \in Nat /\ opp.size \in Nat \ {0} /\ PriceSum(opp) \in Nat \ {0}
      <3>1. PriceSum(opp) * opp.size > 0
        BY <2>2 DEF Notional
      <3>2. opp.size # 0 /\ PriceSum(opp) # 0
        BY <1>5, <3>1
      <3> QED
        BY <1>1, <1>5, <2>2, <3>2
    <2> HIDE DEF left
    <2>4. PriceSum(opp) * lots <= left
      BY <2>3, ReducedFits
    <2>5. PriceSum(opp) * granted \in Nat /\ PriceSum(opp) * granted <= PriceSum(opp) * max
      BY <1>5, FewerCostLess
    <2>6. PriceSum(opp) * granted <= left
      <3>1. PriceSum(opp) * max <= left
        BY <2>2, <2>4
      <3> HIDE DEF lots, max, granted
      <3>2. PriceSum(opp) * max \in Nat
        BY FewerCostLess DEF max
      <3> QED
        BY <2>3, <2>5, <3>1, <3>2
    <2> QED
      BY <1>1, <1>4, <2>2, <2>5, <2>6 DEF left
  <1> QED
    BY <1>1, <1>4, <1>5, <1>7, <1>8, SMTT(30) DEF Notional

\* For every opportunity, cap and book: no check, whole or reduced, grants more than
\* the total cap has left (check_opportunity, limits.rs).
THEOREM GrantsFitTotalCap == Spec => GrantFitsTotal
  <1>1. TypeOK => \A opp \in Opportunities :
                     EngineCheck(opp) => Exposure + Notional(eng') <= MaxTotal
    <2> SUFFICES ASSUME TypeOK, NEW opp \in Opportunities
                 PROVE  EngineCheck(opp) => Exposure + Notional(eng') <= MaxTotal
      OBVIOUS
    <2>1. book \in Books /\ openOrders \in Nat
      BY DEF TypeOK, Books
    <2> QED
      BY <2>1, ExposureIsNat, PriceSumIsNat, GrantIsNat, GrantsFit
  <1>2. TypeOK /\ [Next]_vars =>
          [\A opp \in Opportunities : EngineCheck(opp)
              => Exposure + Notional(eng') <= MaxTotal]_vars
    BY <1>1
  <1> QED
    BY <1>2, TypeCorrect, PTL DEF Spec, GrantFitsTotal

-----------------------------------------------------------------------------
(***************************************************************************)
(* The exposure and what no check looked at.                               *)
(***************************************************************************)
AtLast(b) == [t \in Tokens |-> b[t].size * b[t].price]

Exposed(b) == SumFunctionOnSet(AtLast(b), Tokens)

\* What the check counted for a fill: the cost of a bought lot at the checked price.
Counted(fill) == IF fill.side = "buy" THEN fill.size * fill.checked ELSE 0

CapsInv == TypeOK /\ CapPassedOnlyByDrift

LEMMA ExposureIsExposed == Exposure = Exposed(book) /\ Exposure' = Exposed(book')
  BY DEF Exposure, Exposed, SumFunction, Values, AtLast

LEMMA NotionalNext == Notional(eng)' = Notional(eng')
  OBVIOUS

LEMMA NothingInExecution == Notional(None) = 0
  <1>1. PICK sum : sum[0] = 0 /\ PriceSum(None) = sum[0]
    <2>1. DOMAIN None.legs = 1..0
      BY DEF None
    <2> QED
      BY <2>1, PricesAddUp
  <1>2. None.size = 0
    BY DEF None
  <1> QED
    BY <1>1, <1>2 DEF Notional

LEMMA NotionalIsNat ==
  ASSUME TypeOK
  PROVE  Notional(eng) \in Nat
  <1>1. CASE eng = None
    BY <1>1, NothingInExecution
  <1>2. CASE eng # None
    <2>1. PICK o \in Opportunities : eng.legs = o.legs
      BY <1>2, InExecution
    <2>2. PriceSum(eng) \in Nat
      BY <2>1, PriceSumIsNat DEF PriceSum
    <2> QED
      BY <1>2, <2>2, InExecution DEF Notional
  <1> QED
    BY <1>1, <1>2

LEMMA ProductIsNat ==
  ASSUME NEW a \in Nat, NEW b \in Nat
  PROVE  a * b \in Nat
  OBVIOUS

LEMMA ExposedIsNat ==
  ASSUME NEW b \in Books
  PROVE  Exposed(b) \in Nat /\ \A t \in Tokens : AtLast(b)[t] \in Nat
  <1>1. \A t \in Tokens : b[t].size \in Nat /\ b[t].price \in Nat
    BY DEF Books
  <1>2. \A t \in Tokens : AtLast(b)[t] \in Nat
    BY <1>1, ProductIsNat DEF AtLast
  <1>3. IsFiniteSet(Tokens)
    BY GateAssumption
  <1> QED
    BY <1>2, <1>3, SumIsNat DEF Exposed

\* Lots bought at q, when h were held at p: marked, and dearer than checked at c.
LEMMA BuyAdds ==
  ASSUME NEW h \in Nat, NEW n \in Nat, NEW p \in Nat, NEW q \in Nat, NEW c \in Nat
  PROVE  (h + n) * q = h * p + (h * (q - p) + n * (q - c)) + n * c
  <1>1. (h + n) * q = h * q + n * q /\ h * (q - p) = h * q - h * p /\ n * (q - c) = n * q - n * c
    BY SMTT(30)
  <1>2. h * q \in Nat /\ n * q \in Nat /\ h * p \in Nat /\ n * c \in Nat
    BY ProductIsNat
  <1> QED
    BY <1>1, <1>2

LEMMA SellAdds ==
  ASSUME NEW h \in Nat, NEW k \in Nat, NEW p \in Nat, NEW q \in Nat, k <= h
  PROVE  k * q <= h * p + k * (q - p)
  <1>1. k * (q - p) = k * q - k * p
    BY SMTT(30)
  <1>2. p * k <= p * h /\ p * k = k * p /\ p * h = h * p
    BY FewerCostLess
  <1>3. k * q \in Nat /\ k * p \in Nat /\ h * p \in Nat
    BY ProductIsNat
  <1> QED
    BY <1>1, <1>2, <1>3

\* A fill adds no more exposure than was counted for it, and what was not looked at.
LEMMA FillAdds ==
  ASSUME NEW b \in Books, NEW fill, TypedFill(fill)
  PROVE  /\ Counted(fill) \in Nat
         /\ Exposed(ApplyFill(b, fill)) <= Exposed(b) + Unchecked(b, fill) + Counted(fill)
  <1> DEFINE c == ApplyFill(b, fill)
             e == fill.token
             h == b[e].size
             p == b[e].price
             n == fill.size
             q == fill.price
             k == fill.checked
             left == Max({h - n, 0})
  <1>1. /\ c \in Books /\ e \in Tokens
        /\ c[e].size = IF fill.side = "buy" THEN h + n ELSE left
        /\ c[e].price = q
        /\ \A t \in Tokens \ {e} : c[t] = b[t]
    <2>1. c \in Books /\ c[e].price = q /\ \A t \in Tokens \ {e} : c[t] = b[t]
      BY FillChanges
    <2>2. c[e].size = IF fill.side = "buy" THEN h + n ELSE left
      BY FillLots
    <2>3. e \in Tokens
      BY DEF TypedFill
    <2> HIDE DEF c, e, h, n, left, q
    <2> QED
      BY <2>1, <2>2, <2>3
  <1>2. h \in Nat /\ p \in Nat /\ n \in Nat /\ q \in Nat /\ k \in Nat
    BY <1>1 DEF Books, TypedFill
  <1>3. left \in Nat /\ left <= h
    BY <1>2, LeftOver
  <1>4. AtLast(c)[e] = c[e].size * q /\ AtLast(b)[e] = h * p
    BY <1>1 DEF AtLast
  <1>5. /\ fill.side = "buy" => Unchecked(b, fill) = h * (q - p) + n * (q - k) /\ Counted(fill) = n * k
        /\ fill.side # "buy" => Unchecked(b, fill) = left * (q - p) /\ Counted(fill) = 0
    <2>1. left * (q - p) \in Int
      BY <1>2, <1>3
    <2> QED
      BY <2>1 DEF Unchecked, Counted
  <1>6. \A t \in Tokens \ {e} : AtLast(b)[t] = AtLast(c)[t]
    BY <1>1 DEF AtLast
  <1>7. /\ Exposed(c) \in Nat /\ Exposed(b) \in Nat
        /\ \A t \in Tokens : AtLast(b)[t] \in Nat /\ AtLast(c)[t] \in Nat
    BY <1>1, ExposedIsNat
  <1>8. Exposed(c) + AtLast(b)[e] = Exposed(b) + AtLast(c)[e]
    <2>1. IsFiniteSet(Tokens)
      BY GateAssumption
    <2> QED
      BY <1>1, <1>6, <1>7, <2>1, SumUpdate DEF Exposed
  <1>9. Unchecked(b, fill) \in Int
    BY UncheckedIsInt
  <1> HIDE DEF c, h, p, n, q, k, left
  <1>10. Counted(fill) \in Nat
    BY <1>2, <1>5, ProductIsNat DEF Counted
  <1>11. AtLast(c)[e] <= AtLast(b)[e] + Unchecked(b, fill) + Counted(fill)
    <2>1. CASE fill.side = "buy"
      BY <1>1, <1>2, <1>4, <1>5, <2>1, BuyAdds
    <2>2. CASE fill.side # "buy"
      <3>1. left * q <= h * p + left * (q - p)
        BY <1>2, <1>3, SellAdds
      <3>2. AtLast(c)[e] = left * q /\ Unchecked(b, fill) = left * (q - p) /\ Counted(fill) = 0
        BY <1>1, <1>4, <1>5, <2>2
      <3>3. left * q \in Nat /\ h * p \in Nat
        BY <1>2, <1>3, ProductIsNat
      <3> HIDE DEF e
      <3> QED
        BY <1>4, <1>9, <3>1, <3>2, <3>3
    <2> QED
      BY <2>1, <2>2
  <1>12. AtLast(b)[e] \in Nat /\ AtLast(c)[e] \in Nat
    BY <1>1, <1>7
  <1>13. Exposed(c) <= Exposed(b) + Unchecked(b, fill) + Counted(fill)
    BY <1>7, <1>8, <1>9, <1>10, <1>11, <1>12
  <1> QED
    BY <1>10, <1>13 DEF c

\* The fills of an execution: at most its lots of every leg, as they were checked.
LegFills(fills) ==
    \A i \in 1..Len(eng.legs) :
        /\ TypedFill(fills[i])
        /\ fills[i].size <= eng.size
        /\ fills[i].checked = eng.legs[i].price

LEMMA SumsChain ==
  \A x, x0, x1, w, y, k \in Nat, d, u, r \in Int :
     x0 + r <= x1 + w + d /\ x <= x0 + u + k /\ k <= y
     => x + r <= x1 + (w + y) + (d + u)
  OBVIOUS

\* An execution adds no more than its notional, and what was not looked at.
LEMMA ExecutionAddsNotional ==
  ASSUME TypeOK, eng # None, NEW fills, DOMAIN fills = 1..Len(eng.legs), LegFills(fills),
         book' = FoldLeft(ApplyFill, book, fills), drift' = AfterFills(fills).drift
  PROVE  /\ Notional(eng) \in Nat
         /\ Exposure' + drift <= Exposure + Notional(eng) + drift'
  <1> DEFINE n == Len(eng.legs)
             legs == eng.legs
             size == eng.size
  <1>1. PICK o \in Opportunities : legs = o.legs
    BY InExecution
  <1>2. /\ n \in Nat /\ DOMAIN legs = 1..n /\ size \in Nat
        /\ \A i \in 1..n : legs[i].price \in Nat
    BY <1>1, OpportunityShape, InExecution DEF Leg
  <1>3. book \in Books /\ drift \in Int
    BY DEF TypeOK, Books
  <1>4. PICK acc : LedgerBetween(fills, n, acc)
    BY <1>2, LedgerApplied
  <1>5. PICK sum : /\ sum[0] = 0
                   /\ \A i \in 1..n : sum[i] = sum[i - 1] + legs[i].price
                   /\ PriceSum(eng) = sum[n]
    BY <1>2, PricesAddUp
  <1> DEFINE Good == {i \in 0..n :
                /\ acc[i].book \in Books /\ acc[i].drift \in Int /\ sum[i] \in Nat
                /\ Exposed(acc[i].book) + drift <= Exposed(book) + sum[i] * size + acc[i].drift}
  <1>6. 0 \in Good
    <2>1. Exposed(book) \in Nat
      BY <1>3, ExposedIsNat
    <2>2. acc[0].book = book /\ acc[0].drift = drift /\ sum[0] = 0 /\ 0 \in 0..n
      BY <1>2, <1>4, <1>5 DEF LedgerBetween
    <2>3. 0 * size = 0
      BY <1>2
    <2> HIDE DEF size, n
    <2> QED
      BY <1>3, <2>1, <2>2, <2>3
  <1>7. \A i \in 1..n : i - 1 \in Good => i \in Good
    <2> SUFFICES ASSUME NEW i \in 1..n, i - 1 \in Good PROVE i \in Good
      OBVIOUS
    <2> DEFINE b == acc[i - 1].book
               d == acc[i - 1].drift
               fill == fills[i]
               s == sum[i - 1]
               p == legs[i].price
    <2>1. /\ b \in Books /\ d \in Int /\ s \in Nat
          /\ Exposed(b) + drift <= Exposed(book) + s * size + d
      OBVIOUS
    <2>2. TypedFill(fill) /\ fill.size <= size /\ fill.checked = p
      BY DEF LegFills
    <2>3. /\ acc[i].book = ApplyFill(b, fill) /\ acc[i].drift = d + Unchecked(b, fill)
          /\ sum[i] = s + p
      <3>1. acc[i] = Booked(acc[i - 1], fill) /\ sum[i] = s + p
        BY <1>4, <1>5 DEF LedgerBetween
      <3> QED
        BY <3>1 DEF Booked
    <2>4. fill.size \in Nat /\ p \in Nat
      BY <1>2, <2>2 DEF TypedFill
    <2>5. i \in 0..n
      BY <1>2
    <2> HIDE DEF Good, b, d, fill, s, p, n, legs, size
    <2>6. acc[i].book \in Books /\ Unchecked(b, fill) \in Int
      <3>1. ApplyFill(b, fill) \in Books
        BY <2>1, <2>2, FillChanges
      <3> QED
        BY <2>1, <2>2, <2>3, <3>1, UncheckedIsInt
    <2>7. /\ Counted(fill) \in Nat
          /\ Exposed(acc[i].book) <= Exposed(b) + Unchecked(b, fill) + Counted(fill)
      BY <2>1, <2>2, <2>3, FillAdds
    <2>8. p * fill.size <= p * size /\ p * size \in Nat
      BY <1>2, <2>2, <2>4, FewerCostLess, ProductIsNat
    <2>9. Counted(fill) <= p * size
      <3>1. fill.size * p = p * fill.size
        BY <2>4
      <3> QED
        BY <2>2, <2>8, <3>1 DEF Counted
    <2>10. (s + p) * size = s * size + p * size
      BY <1>2, <2>1, <2>4, SMTT(30)
    <2>11. /\ Exposed(acc[i].book) \in Nat /\ Exposed(b) \in Nat /\ Exposed(book) \in Nat
           /\ s * size \in Nat
      BY <1>2, <1>3, <2>1, <2>6, ExposedIsNat, ProductIsNat
    <2>12. Exposed(acc[i].book) + drift <= Exposed(book) + (s + p) * size + acc[i].drift
      <3> DEFINE x == Exposed(acc[i].book)
                 x0 == Exposed(b)
                 x1 == Exposed(book)
                 u == Unchecked(b, fill)
                 k == Counted(fill)
                 w == s * size
                 y == p * size
      <3>1. /\ x \in Nat /\ x0 \in Nat /\ x1 \in Nat /\ u \in Int /\ k \in Nat
            /\ w \in Nat /\ y \in Nat /\ d \in Int /\ drift \in Int
            /\ x0 + drift <= x1 + w + d /\ x <= x0 + u + k /\ k <= y
            /\ acc[i].drift = d + u /\ (s + p) * size = w + y
        BY <1>3, <2>1, <2>3, <2>6, <2>7, <2>8, <2>9, <2>10, <2>11
      <3> HIDE DEF x, x0, x1, u, k, w, y
      <3>2. x + drift <= x1 + (w + y) + (d + u)
        BY <3>1, SumsChain
      <3> QED
        BY <3>1, <3>2 DEF x, x1
    <2>13. sum[i] \in Nat /\ acc[i].drift \in Int
      BY <2>1, <2>3, <2>4, <2>6
    <2> QED
      BY <2>3, <2>5, <2>6, <2>12, <2>13 DEF Good
  <1> HIDE DEF Good
  <1>8. n \in Good
    BY <1>2, <1>6, <1>7, Sums!UpToInduction
  <1>9. Notional(eng) = sum[n] * size
    BY <1>5 DEF Notional
  <1>10. /\ sum[n] \in Nat
         /\ Exposed(acc[n].book) + drift <= Exposed(book) + sum[n] * size + acc[n].drift
    BY <1>8 DEF Good
  <1>11. book' = acc[n].book /\ drift' = acc[n].drift
    BY <1>2, <1>4, SameBooks DEF LedgerBetween
  <1>12. Notional(eng) \in Nat
    BY <1>2, <1>9, <1>10, ProductIsNat
  <1> HIDE DEF n, size, legs
  <1> QED
    BY <1>9, <1>10, <1>11, <1>12, ExposureIsExposed

LEMMA ExecutionKeepsCap ==
  ASSUME CapsInv, eng # None, NEW fills, DOMAIN fills = 1..Len(eng.legs), LegFills(fills),
         book' = FoldLeft(ApplyFill, book, fills), drift' = AfterFills(fills).drift,
         TypeOK', eng' = None
  PROVE  CapPassedOnlyByDrift'
  <1>1. /\ Notional(eng) \in Nat
        /\ Exposure' + drift <= Exposure + Notional(eng) + drift'
    BY ExecutionAddsNotional DEF CapsInv
  <1>2. Exposure + Notional(eng) <= MaxTotal + drift
    BY DEF CapsInv, CapPassedOnlyByDrift
  <1>3. Exposure \in Nat /\ Exposure' \in Nat
    BY ExposedIsNat, ExposureIsExposed DEF CapsInv, TypeOK, Books
  <1>4. drift \in Int /\ drift' \in Int /\ MaxTotal \in Nat
    BY GateAssumption DEF CapsInv, TypeOK
  <1>5. Notional(eng') = 0
    BY NothingInExecution
  <1>6. Exposure' + Notional(eng') <= MaxTotal + drift'
    BY <1>1, <1>2, <1>3, <1>4, <1>5
  <1> QED
    BY <1>6, NotionalNext DEF CapPassedOnlyByDrift

LEMMA PaperLegs ==
  ASSUME TypeOK, eng # None
  PROVE  DOMAIN PaperFills = 1..Len(eng.legs) /\ LegFills(PaperFills)
  <1>1. /\ DOMAIN eng.legs = 1..Len(eng.legs) /\ DOMAIN PaperFills = 1..Len(eng.legs)
        /\ \A i \in 1..Len(eng.legs) : TypedFill(PaperFills[i])
    BY PaperFillsTyped
  <1>2. eng.size \in Nat
    BY InExecution
  <1>3. \A i \in 1..Len(eng.legs) :
           PaperFills[i].size <= eng.size /\ PaperFills[i].checked = eng.legs[i].price
    BY <1>1, <1>2 DEF PaperFills, FillAtFirstMarket
  <1> QED
    BY <1>1, <1>3 DEF LegFills

LEMMA LiveLegs ==
  ASSUME TypeOK, eng # None, NEW filled \in [DOMAIN eng.legs -> 0..eng.size],
         NEW price \in [DOMAIN eng.legs -> ReportedPrices]
  PROVE  /\ DOMAIN LiveFills(filled, price) = 1..Len(eng.legs)
         /\ LegFills(LiveFills(filled, price))
  <1>1. /\ DOMAIN eng.legs = 1..Len(eng.legs)
        /\ DOMAIN LiveFills(filled, price) = 1..Len(eng.legs)
        /\ \A i \in 1..Len(eng.legs) : TypedFill(LiveFills(filled, price)[i])
    BY LiveFillsTyped
  <1>2. \A i \in 1..Len(eng.legs) :
           /\ LiveFills(filled, price)[i].size <= eng.size
           /\ LiveFills(filled, price)[i].checked = eng.legs[i].price
    BY <1>1 DEF LiveFills, Fill
  <1> QED
    BY <1>1, <1>2 DEF LegFills

LEMMA ManualKeepsCap ==
  ASSUME CapsInv, TypeOK', NEW t \in Tokens, NEW side \in {"buy", "sell"},
         NEW size \in 1..MaxHeld, NEW price \in ManualPrices[t], ManualFill(t, side, size, price)
  PROVE  CapPassedOnlyByDrift'
  <1> DEFINE fill == [token |-> t, side |-> side, size |-> size, price |-> price,
                      market |-> MarketOf[t], checked |-> 0]
  <1>1. /\ book' = FoldLeft(ApplyFill, book, <<fill>>)
        /\ drift' = AfterFills(<<fill>>).drift /\ eng' = eng
    BY DEF ManualFill, RecordLegs, AfterFills
  <1>2. TypedFill(fill) /\ Counted(fill) = 0
    <2>1. size \in Nat /\ price \in Nat /\ MarketOf[t] \in Markets /\ size * 0 = 0
      BY GateAssumption
    <2> QED
      BY <2>1 DEF TypedFill, Counted
  <1> HIDE DEF fill
  <1> DEFINE fills == <<fill>>
             n == 1
  <1>3. DOMAIN fills = 1..n /\ n \in Nat /\ fills[1] = fill
    OBVIOUS
  <1>4. book' = FoldLeft(ApplyFill, book, fills) /\ drift' = AfterFills(fills).drift
    BY <1>1
  <1> HIDE DEF fills
  <1>5. PICK acc : LedgerBetween(fills, n, acc)
    BY <1>3, LedgerApplied
  <1>6. acc[0] = [book |-> book, drift |-> drift] /\ acc[1] = Booked(acc[0], fill)
    <2>1. 1 \in 1..n /\ 1 - 1 = 0
      OBVIOUS
    <2> QED
      BY <1>3, <1>5, <2>1 DEF LedgerBetween
  <1>7. book' = ApplyFill(book, fill) /\ drift' = drift + Unchecked(book, fill)
    <2>1. book' = acc[1].book /\ drift' = acc[1].drift
      BY <1>3, <1>4, <1>5, SameBooks DEF LedgerBetween
    <2> QED
      BY <1>6, <2>1 DEF Booked
  <1>8. book \in Books /\ book' \in Books /\ drift \in Int /\ drift' \in Int
    BY DEF CapsInv, TypeOK, Books
  <1>9. Exposed(book') <= Exposed(book) + Unchecked(book, fill) + 0
    BY <1>2, <1>7, <1>8, FillAdds
  <1>10. Unchecked(book, fill) \in Int
    BY <1>2, <1>8, UncheckedIsInt
  <1>11. Exposure \in Nat /\ Exposure' \in Nat /\ Exposure' <= Exposure + Unchecked(book, fill)
    BY <1>8, <1>9, <1>10, ExposedIsNat, ExposureIsExposed
  <1>12. Exposure + Notional(eng) <= MaxTotal + drift
    BY DEF CapsInv, CapPassedOnlyByDrift
  <1>13. Notional(eng) \in Nat /\ Notional(eng') = Notional(eng) /\ MaxTotal \in Nat
    BY <1>1, NotionalIsNat, GateAssumption DEF CapsInv
  <1>14. Exposure' + Notional(eng') <= MaxTotal + drift'
    BY <1>7, <1>8, <1>10, <1>11, <1>12, <1>13
  <1> QED
    BY <1>14, NotionalNext DEF CapPassedOnlyByDrift

LEMMA InitCaps == Init => CapsInv
  <1> SUFFICES ASSUME Init PROVE CapsInv
    OBVIOUS
  <1>1. TypeOK /\ book \in Books
    BY InitTyped DEF TypeOK, Books
  <1>2. \A t \in Tokens : book[t].size = 0
    BY DEF Init
  <1>3. Exposure = 0
    <2>1. \A t \in Tokens : AtLast(book)[t] \in Nat /\ 1 * AtLast(book)[t] <= 0 * AtLast(book)[t]
      BY <1>1, <1>2 DEF AtLast, Books
    <2>2. IsFiniteSet(Tokens)
      BY GateAssumption
    <2>3. 1 * Exposed(book) <= 0 * Exposed(book)
      BY <2>1, <2>2, SumScales DEF Exposed
    <2>4. Exposure \in Nat /\ Exposure = Exposed(book)
      BY <1>1, ExposureIsNat, ExposureIsExposed
    <2> QED
      BY <2>3, <2>4
  <1>4. Notional(eng) = 0 /\ drift = 0 /\ MaxTotal \in Nat
    BY NothingInExecution, GateAssumption DEF Init
  <1> QED
    BY <1>1, <1>3, <1>4 DEF CapsInv, CapPassedOnlyByDrift

LEMMA NextCaps == CapsInv /\ [Next]_vars => CapsInv'
  <1> SUFFICES ASSUME CapsInv, [Next]_vars PROVE CapPassedOnlyByDrift'
    BY NextTyped DEF CapsInv
  <1>1. TypeOK /\ TypeOK'
    BY NextTyped DEF CapsInv
  <1>2. ASSUME NEW o \in Opportunities, EngineCheck(o)
        PROVE  CapPassedOnlyByDrift'
    <2>1. book' = book /\ drift' = 0
      BY <1>2 DEF EngineCheck
    <2>2. book \in Books /\ openOrders \in Nat
      BY <1>1 DEF TypeOK, Books
    <2>3. Exposure \in Nat /\ PriceSum(o) \in Nat /\ Granted(o) \in Nat
      BY <2>2, ExposureIsNat, PriceSumIsNat, GrantIsNat
    <2>4. Exposure + Notional(eng') <= MaxTotal
      BY <1>2, <2>3, GrantsFit
    <2>5. Exposure' = Exposure /\ MaxTotal + drift' = MaxTotal
      BY <2>1, ExposureIsExposed, GateAssumption
    <2> QED
      BY <2>4, <2>5, NotionalNext DEF CapPassedOnlyByDrift
  <1>3. CASE PaperExecute
    <2>1. /\ eng # None /\ eng' = None
          /\ book' = FoldLeft(ApplyFill, book, PaperFills)
          /\ drift' = AfterFills(PaperFills).drift
      BY <1>3 DEF PaperExecute, RecordLegs, PaperFills, AfterFills
    <2> QED
      BY <1>1, <2>1, PaperLegs, ExecutionKeepsCap
  <1>4. CASE LiveExecution
    <2>1. PICK filled \in [DOMAIN eng.legs -> 0..eng.size],
               price \in [DOMAIN eng.legs -> ReportedPrices] : LiveExecute(filled, price)
      BY <1>4 DEF LiveExecution
    <2> DEFINE fills == LiveFills(filled, price)
    <2>2. /\ eng # None /\ eng' = None
          /\ book' = FoldLeft(ApplyFill, book, fills)
          /\ drift' = AfterFills(fills).drift
      BY <2>1 DEF LiveExecute, RecordLegs, LiveFills, AfterFills
    <2>3. DOMAIN fills = 1..Len(eng.legs) /\ LegFills(fills)
      BY <1>1, <2>2, LiveLegs
    <2> HIDE DEF fills
    <2> QED
      BY <1>1, <2>2, <2>3, ExecutionKeepsCap
  <1>5. CASE LiveExecuteLost
    <2>1. eng' = None /\ UNCHANGED <<book, drift>>
      BY <1>5 DEF LiveExecuteLost
    <2>2. Notional(eng') = 0 /\ Notional(eng) \in Nat /\ Exposure \in Nat /\ Exposure' = Exposure
      BY <1>1, <2>1, NothingInExecution, NotionalIsNat, ExposedIsNat, ExposureIsExposed
      DEF TypeOK, Books
    <2>3. Exposure + Notional(eng) <= MaxTotal + drift /\ drift \in Int /\ MaxTotal \in Nat
      BY <1>1, GateAssumption DEF CapsInv, CapPassedOnlyByDrift, TypeOK
    <2>4. Exposure' + Notional(eng') <= MaxTotal + drift'
      BY <2>1, <2>2, <2>3
    <2> QED
      BY <2>4, NotionalNext DEF CapPassedOnlyByDrift
  <1>6. ASSUME NEW t \in Tokens, NEW size \in 1..MaxHeld, NEW price \in ManualPrices[t],
               NEW side \in {"buy", "sell"}, ManualFill(t, side, size, price)
        PROVE  CapPassedOnlyByDrift'
    BY <1>1, <1>6, ManualKeepsCap
  <1>7. CASE UNCHANGED vars
    <2>1. UNCHANGED <<book, eng, drift>>
      BY <1>7 DEF vars
    <2>2. Exposure' = Exposure /\ Notional(eng') = Notional(eng)
      BY <2>1, ExposureIsExposed
    <2> QED
      BY <2>1, <2>2, NotionalNext DEF CapsInv, CapPassedOnlyByDrift
  <1> QED
    BY <1>2, <1>3, <1>4, <1>5, <1>6, <1>7 DEF Next

-----------------------------------------------------------------------------
(***************************************************************************)
(* The market a position is charged to.                                    *)
(***************************************************************************)
Charged(b) == \A t \in Tokens : b[t].known => b[t].market \in ChargedTo(t)

ChargedFill(fill) == TypedFill(fill) /\ fill.market \in ChargedTo(fill.token)

LEMMA FillsKeepCharged ==
  ASSUME NEW b \in Books, NEW n \in Nat, NEW fills, DOMAIN fills = 1..n,
         \A i \in 1..n : ChargedFill(fills[i]), Charged(b)
  PROVE  Charged(FoldLeft(ApplyFill, b, fills))
  <1>1. PICK acc : BooksBetween(b, fills, n, acc)
    BY FillsApplied
  <1> DEFINE Good == {i \in 0..n : acc[i] \in Books /\ Charged(acc[i])}
  <1>2. 0 \in Good
    BY <1>1 DEF BooksBetween
  <1>3. \A i \in 1..n : i - 1 \in Good => i \in Good
    <2> SUFFICES ASSUME NEW i \in 1..n, i - 1 \in Good PROVE i \in Good
      OBVIOUS
    <2>1. acc[i] = ApplyFill(acc[i - 1], fills[i])
      BY <1>1 DEF BooksBetween
    <2>2. acc[i - 1] \in Books /\ Charged(acc[i - 1]) /\ ChargedFill(fills[i])
      OBVIOUS
    <2> DEFINE b0 == acc[i - 1]
               fill == fills[i]
    <2> HIDE DEF b0, fill
    <2>3. ApplyFill(b0, fill) \in Books
      BY <2>2, FillChanges DEF ChargedFill, b0, fill
    <2>4. Charged(ApplyFill(b0, fill))
      <3> DEFINE c == ApplyFill(b0, fill)
                 e == fill.token
      <3>1. b0 \in Books /\ Charged(b0) /\ TypedFill(fill) /\ fill.market \in ChargedTo(e)
        BY <2>2 DEF ChargedFill, b0, fill
      <3>2. /\ c[e].market = IF b0[e].known THEN b0[e].market ELSE fill.market
            /\ \A t \in Tokens \ {e} : c[t] = b0[t]
        BY <3>1, FillChanges
      <3>3. e \in Tokens
        BY <3>1 DEF TypedFill
      <3> HIDE DEF c, e
      <3>4. \A t \in Tokens : c[t].known => c[t].market \in ChargedTo(t)
        BY <3>1, <3>2, <3>3 DEF Charged
      <3> QED
        BY <3>4 DEF c, Charged
    <2> QED
      BY <2>1, <2>3, <2>4 DEF b0, fill
  <1> HIDE DEF Good
  <1>4. n \in Good
    BY <1>2, <1>3, Sums!UpToInduction
  <1> QED
    BY <1>1, <1>4 DEF BooksBetween, Good

LEMMA PaperCharged ==
  ASSUME TypeOK, eng # None, mode = "paper"
  PROVE  \A i \in 1..Len(eng.legs) : ChargedFill(PaperFills[i])
  <1>1. PICK o \in Opportunities : eng.legs = o.legs /\ eng.markets = o.markets
    BY InExecution
  <1>2. /\ DOMAIN eng.legs = 1..Len(eng.legs)
        /\ \A i \in 1..Len(eng.legs) : TypedFill(PaperFills[i])
    BY PaperFillsTyped
  <1>3. ASSUME NEW i \in 1..Len(eng.legs)
        PROVE  PaperFills[i].market \in ChargedTo(PaperFills[i].token)
    <2>1. /\ PaperFills[i].token = o.legs[i].token /\ PaperFills[i].market = Head(o.markets)
          /\ i \in DOMAIN o.legs
      BY <1>1, <1>2 DEF PaperFills, FillAtFirstMarket
    <2> QED
      BY <2>1 DEF ChargedTo
  <1> QED
    BY <1>2, <1>3 DEF ChargedFill

LEMMA LiveCharged ==
  ASSUME TypeOK, eng # None, NEW filled \in [DOMAIN eng.legs -> 0..eng.size],
         NEW price \in [DOMAIN eng.legs -> ReportedPrices]
  PROVE  \A i \in 1..Len(eng.legs) : ChargedFill(LiveFills(filled, price)[i])
  <1>1. PICK o \in Opportunities : eng.legs = o.legs /\ eng.markets = o.markets
    BY InExecution
  <1>2. /\ DOMAIN eng.legs = 1..Len(eng.legs)
        /\ \A i \in 1..Len(eng.legs) : TypedFill(LiveFills(filled, price)[i])
    BY LiveFillsTyped
  <1>3. \A i \in 1..Len(eng.legs) :
           LiveFills(filled, price)[i].market = MarketOf[LiveFills(filled, price)[i].token]
    BY <1>1, <1>2, GateAssumption DEF LiveFills, Fill
  <1> QED
    BY <1>2, <1>3 DEF ChargedFill, ChargedTo

LEMMA NextCharged == TypeOK /\ ChargedMarket /\ [Next]_vars => ChargedMarket'
  <1> SUFFICES ASSUME TypeOK, ChargedMarket, [Next]_vars PROVE ChargedMarket'
    OBVIOUS
  <1>6. mode' = mode
    <2>1. CASE \E o \in Opportunities : EngineCheck(o)
      BY <2>1 DEF EngineCheck
    <2>2. CASE LiveExecution
      BY <2>2 DEF LiveExecution, LiveExecute
    <2>3. CASE PaperExecute \/ LiveExecuteLost
      BY <2>3 DEF PaperExecute, LiveExecuteLost
    <2>4. ASSUME NEW t, NEW side, NEW size, NEW price, ManualFill(t, side, size, price)
          PROVE  mode' = mode
      BY <2>4 DEF ManualFill
    <2>5. CASE UNCHANGED vars
      BY <2>5 DEF vars
    <2> QED
      BY <2>1, <2>2, <2>3, <2>4, <2>5 DEF Next
  <1>7. SUFFICES Charged(book')
    <2>1. \A t : ChargedTo(t)' = ChargedTo(t)
      BY <1>6 DEF ChargedTo
    <2> QED
      BY <2>1 DEF ChargedMarket, Charged
  <1>1. Charged(book) /\ book \in Books
    BY DEF ChargedMarket, Charged, TypeOK, Books
  <1>2. CASE PaperExecute
    <2>1. eng # None /\ mode = "paper" /\ book' = FoldLeft(ApplyFill, book, PaperFills)
      BY <1>2 DEF PaperExecute, RecordLegs, PaperFills
    <2>2. Len(eng.legs) \in Nat /\ DOMAIN PaperFills = 1..Len(eng.legs)
      BY <2>1, PaperFillsTyped
    <2> QED
      BY <1>1, <2>1, <2>2, PaperCharged, FillsKeepCharged
  <1>3. CASE LiveExecution
    <2>1. PICK filled \in [DOMAIN eng.legs -> 0..eng.size],
               price \in [DOMAIN eng.legs -> ReportedPrices] : LiveExecute(filled, price)
      BY <1>3 DEF LiveExecution
    <2> DEFINE fills == LiveFills(filled, price)
    <2>2. eng # None /\ book' = FoldLeft(ApplyFill, book, fills)
      BY <2>1 DEF LiveExecute, RecordLegs, LiveFills
    <2>3. /\ Len(eng.legs) \in Nat /\ DOMAIN fills = 1..Len(eng.legs)
          /\ \A i \in 1..Len(eng.legs) : ChargedFill(fills[i])
      BY <2>2, LiveFillsTyped, LiveCharged
    <2> HIDE DEF fills
    <2> QED
      BY <1>1, <2>2, <2>3, FillsKeepCharged
  <1>4. ASSUME NEW t \in Tokens, NEW side \in {"buy", "sell"}, NEW size \in 1..MaxHeld,
               NEW price \in ManualPrices[t], ManualFill(t, side, size, price)
        PROVE  Charged(book')
    <2> DEFINE fill == [token |-> t, side |-> side, size |-> size, price |-> price,
                        market |-> MarketOf[t], checked |-> 0]
    <2>1. book' = FoldLeft(ApplyFill, book, <<fill>>)
      BY <1>4 DEF ManualFill, RecordLegs
    <2>2. ChargedFill(fill)
      <3>1. size \in Nat /\ price \in Nat /\ MarketOf[t] \in Markets
        BY GateAssumption
      <3> QED
        BY <3>1 DEF TypedFill, ChargedFill, ChargedTo
    <2> HIDE DEF fill
    <2> DEFINE fills == <<fill>>
               n == 1
    <2>3. DOMAIN fills = 1..n /\ n \in Nat /\ \A i \in 1..n : ChargedFill(fills[i])
      BY <2>2
    <2>4. book' = FoldLeft(ApplyFill, book, fills)
      BY <2>1
    <2> HIDE DEF fills, n
    <2> QED
      BY <1>1, <2>3, <2>4, FillsKeepCharged
  <1>5. CASE UNCHANGED book
    BY <1>1, <1>5
  <1> QED
    BY <1>2, <1>3, <1>4, <1>5 DEF Next, EngineCheck, LiveExecuteLost, vars

\* For any tokens, prices, opportunities, caps, fills at whatever price, declined and
\* failed legs, reduced sizes and manual orders at any moment: the exposure passes the
\* total cap only by what no check looked at, and every position is charged to its own
\* market, or on paper to the first of an opportunity that trades it.
THEOREM CapsAlwaysHold == Spec => []CapsHold
  <1>1. CapsInv /\ ChargedMarket => CapsHold
    BY DEF CapsInv, CapsHold
  <1>2. Init => ChargedMarket
    BY DEF Init, ChargedMarket
  <1>3. TypeOK /\ ChargedMarket /\ [Next]_vars => ChargedMarket'
    BY NextCharged
  <1> QED
    BY <1>1, <1>2, <1>3, InitCaps, NextCaps, TypeCorrect, PTL DEF Spec
=============================================================================
