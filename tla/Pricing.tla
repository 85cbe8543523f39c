------------------------------- MODULE Pricing ------------------------------
(***************************************************************************)
(* What it costs to take a size from an order book: orderbook.rs of         *)
(* arb-data and its twin slippage.rs of arb-execution, calculate_vwap of    *)
(* local_book.rs, and the cache of vwap_cache.rs.                          *)
(*                                                                         *)
(* Prices are ticks, Dollar of them to the dollar, sizes are lots.  An      *)
(* estimate keeps the total cost: the vwap is the cost over the size.      *)
(***************************************************************************)
EXTENDS Integers, Sequences, FiniteSets, FiniteSetsExt, SequencesExt

CONSTANTS Dollar,   \* ticks to the dollar
          Depth,    \* config.slippage.vwap_depth_levels
          FeeNum, FeeDen  \* the fee rate, of what a leg costs

ASSUME PricingAssumption ==
    Dollar \in Nat \ {0} /\ Depth \in Nat \ {0} /\ FeeNum \in Nat /\ FeeDen \in Nat \ {0}

Sides == {"buy", "sell"}

\* Snapshots as fetch_orderbook leaves them: the levels sorted, the best first.
BookLevel == [price : Nat \ {0}, size : Nat]
Books ==
    {b \in [token : STRING, bids : Seq(BookLevel), asks : Seq(BookLevel)] :
        /\ \A i, j \in DOMAIN b.bids : i < j => b.bids[i].price >= b.bids[j].price
        /\ \A i, j \in DOMAIN b.asks : i < j => b.asks[i].price <= b.asks[j].price}

\* build_snapshot: bids from the highest price down, asks from the lowest up.
Snapshot(token, bids, asks) ==
    [token |-> token,
     bids |-> SetToSortSeq(bids, LAMBDA a, b : a.price > b.price),
     asks |-> SetToSortSeq(asks, LAMBDA a, b : a.price < b.price)]

Levels(book, side) == IF side = "buy" THEN book.asks ELSE book.bids

SizeUpTo(levels, n) == SumFunction([i \in 1..n |-> levels[i].size])

TotalSize(levels) == SizeUpTo(levels, Len(levels))

Smaller(a, b) == IF a < b THEN a ELSE b

\* No estimate: an error in the code.
NoEstimate == [cost |-> -1, size |-> 0, levels |-> 0, available |-> 0]

(***************************************************************************)
(* The walk over the first Depth levels until nothing remains.             *)
(***************************************************************************)
\* What is taken at level i of a walk for size lots.
FillAt(levels, size, i) ==
    Smaller(levels[i].size, size - Smaller(size, SizeUpTo(levels, i - 1)))

\* As Estimate, without the error for what remains.
EstimatePartial(book, side, size) ==
    LET levels == Levels(book, side)
        reach == 1..Smaller(Depth, Len(levels))
    IN  IF size <= 0 \/ levels = <<>> THEN NoEstimate
        ELSE [cost |-> SumFunction(
                          [i \in reach |-> FillAt(levels, size, i) * levels[i].price]),
              size |-> size, levels |-> Cardinality(reach),
              available |-> SizeUpTo(levels, Cardinality(reach))]

Estimate(book, side, size) ==
    LET levels == Levels(book, side)
        enough == {n \in 1..Smaller(Depth, Len(levels)) : SizeUpTo(levels, n) >= size}
    IN  IF size <= 0 \/ enough = {} THEN NoEstimate
        ELSE LET consumed == Min(enough)
             IN  [cost |-> SumFunction(
                              [i \in 1..consumed |-> FillAt(levels, size, i) * levels[i].price]),
                  size |-> size, levels |-> consumed,
                  available |-> SizeUpTo(levels, consumed)]

\* estimate_vwap_tiers: a failed tier is an estimate of nothing.
EstimateTiers(book, side, sizes) ==
    [i \in 1..Len(sizes) |->
        LET e == Estimate(book, side, sizes[i])
        IN  IF e = NoEstimate THEN [e EXCEPT !.cost = 0] ELSE e]

\* calculate_vwap of a local book: the same walk over all of its levels.
LocalCost(book, side, size) ==
    LET levels == Levels(book, side)
    IN  IF size <= 0 \/ TotalSize(levels) < size THEN NoEstimate.cost
        ELSE SumFunction([i \in 1..Len(levels) |-> FillAt(levels, size, i) * levels[i].price])

\* A limit on slippage is a fraction of the best price: num parts of den.
WithinSlippage(levels, price, num, den) ==
    LET best == levels[1].price
        away == IF price > best THEN price - best ELSE best - price
    IN  best <= 0 \/ away * den <= num * best

\* split_order: one chunk a level, until one is too far from the best price.
SplitOrder(book, side, size, num, den) ==
    LET levels == Levels(book, side)
        taken == {i \in 1..Smaller(Depth, Len(levels)) :
                     /\ SizeUpTo(levels, i - 1) < size
                     /\ \A j \in 1..i : WithinSlippage(levels, levels[j].price, num, den)}
    IN  [i \in 1..Cardinality(taken) |->
            [size |-> FillAt(levels, size, i), price |-> levels[i].price,
             delay |-> 500 * (i - 1)]]

\* spread_depth_profile, with twice the mid.
DepthOf(levels, n) == SizeUpTo(levels, Smaller(n, Len(levels)))
Best(levels) == IF levels = <<>> THEN 0 ELSE levels[1].price

SpreadDepthProfile(book) ==
    [bestBid |-> Best(book.bids), bestAsk |-> Best(book.asks),
     spread |-> Best(book.asks) - Best(book.bids),
     twiceMid |-> Best(book.asks) + Best(book.bids),
     bidDepth |-> <<DepthOf(book.bids, 3), DepthOf(book.bids, 5)>>,
     askDepth |-> <<DepthOf(book.asks, 3), DepthOf(book.asks, 5)>>]

\* The tiers of `arb scan --all`: none is better than the best price, and a larger
\* one neither has a better price than a smaller one nor is filled where that is not.
TiersWorsen(book, side) ==
    LET tiers == EstimateTiers(book, side, <<1, 2, 3>>)
        profile == SpreadDepthProfile(book)
        best == IF side = "buy" THEN profile.bestAsk ELSE profile.bestBid
        noBetter(e, cost, size) ==
            IF side = "buy" THEN e.cost * size >= cost * e.size
                            ELSE e.cost * size <= cost * e.size
    IN  \A i \in DOMAIN tiers : tiers[i].cost # 0 =>
            /\ noBetter(tiers[i], best, 1)
            /\ \A j \in 1..(i - 1) :
                  /\ tiers[j].cost # 0
                  /\ noBetter(tiers[i], tiers[j].cost, tiers[j].size)

(***************************************************************************)
(* The reference: the best way of taking the size from those levels.       *)
(***************************************************************************)
Takings(levels, size, depth) ==
    LET n == Smaller(depth, Len(levels))
    IN  {take \in [1..n -> 0..size] :
            /\ \A i \in 1..n : take[i] <= levels[i].size
            /\ SumFunction([i \in 1..n |-> take[i]]) = size}

CostOfTaking(levels, take) ==
    SumFunction([i \in DOMAIN take |-> take[i] * levels[i].price])

BestCost(book, side, size, depth) ==
    LET levels == Levels(book, side)
        costs == {CostOfTaking(levels, take) : take \in Takings(levels, size, depth)}
    IN  IF costs = {} THEN NoEstimate.cost
        ELSE IF side = "buy" THEN Min(costs) ELSE Max(costs)

\* An order that was split trades at no worse a price than the limit, no more
\* than was asked for, and as much of it as the levels within the limit hold.
SplitIsRight(book, side, size, num, den) ==
    LET levels == Levels(book, side)
        chunks == SplitOrder(book, side, size, num, den)
        near == {i \in 1..Smaller(Depth, Len(levels)) :
                    WithinSlippage(levels, levels[i].price, num, den)}
    IN  /\ SumFunction([i \in DOMAIN chunks |-> chunks[i].size])
             = Smaller(size, SumFunction([i \in near |-> levels[i].size]))
        /\ \A i \in DOMAIN chunks :
              WithinSlippage(levels, chunks[i].price, num, den)
=============================================================================
