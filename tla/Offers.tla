-------------------------------- MODULE Offers ------------------------------
(***************************************************************************)
(* What the structural detectors offer and at which edge: intra_market.rs,  *)
(* multi_outcome.rs, cross_market.rs and deadline.rs on the books a tick    *)
(* has fetched, priced through vwap_cache.rs, and then refined by edge.rs.  *)
(* The engines of the server and of `arb run` do so in every tick, `arb     *)
(* scan`, `arb scan --all` and a request of the sandbox once.              *)
(* MarketScan says which markets a tick is given; here it is given all.     *)
(*                                                                         *)
(* The edges of an offer are for its whole size and counted in fee parts,   *)
(* FeeDen of them to the tick.                                             *)
(***************************************************************************)
EXTENDS Pricing, Filter

CONSTANTS
    OfferMarkets,   \* condition ids, in the order of a scan (earliest deadline first)
    OutcomeTokens,  \* token_ids of each market
    NegRisk,        \* markets of an event whose outcomes exclude each other
    SharedPrefix,   \* markets whose questions are alike up to " by "
    Events,         \* event_id of each market
    CorrelationFiles, \* what the correlation file may hold: pairs [a, b, how]
    Fetches,        \* what fetching the books of each market may give
    MidPrices,      \* outcome_prices of each market, set when it was loaded
    MaxIntra, MaxEvent, MaxPair, MaxDeadline, \* sizes: 1000, 500, 500 and 100
    MinDeviation, MinImplied, MinEdge         \* ticks

ASSUME OffersAssumption ==
    /\ OfferMarkets \in Seq(STRING) /\ NegRisk \subseteq Range(OfferMarkets)
    /\ \A m \in Range(OfferMarkets) : Fetches[m] \subseteq Seq(Books)
    /\ {MaxIntra, MaxEvent, MaxPair, MaxDeadline, MinDeviation, MinImplied, MinEdge}
           \subseteq Nat

VARIABLES program,     \* the one that looks for offers
          graph,       \* its correlation pairs, built at its start
          file,        \* the correlation file it was started with
          orderbooks,  \* books of each market, those that could be fetched
          cache,       \* estimates memoized for (token, side, size)
          phase,       \* "fetch", "refine", "retain", "done"
          offers

offerVars == <<program, graph, file, orderbooks, cache, phase, offers>>

MarketSet == Range(OfferMarkets)
Engines == {"engine", "daemon"}  \* the server's, and that of `arb run`
Relating == Engines \cup {"sandbox"}  \* those that are given a correlation file
Memoizing == {"engine", "sandbox"}

(***************************************************************************)
(* correlation.rs                                                          *)
(***************************************************************************)
Relations == {"impliedBy", "exclusive", "exhaustive", "custom"}

\* CorrelationGraph::load: one unknown relation loses the whole file.
Load(pairs) == IF \A p \in pairs : p.how \in Relations THEN pairs ELSE {}

\* auto_detect: all markets of an event are taken to exclude each other.
AutoDetected ==
    LET before(a, b) == \E i, j \in DOMAIN OfferMarkets :
                            i < j /\ OfferMarkets[i] = a /\ OfferMarkets[j] = b
        pairs == [a : MarketSet, b : MarketSet, how : {"exclusive"}]
    IN  {p \in pairs : before(p.a, p.b) /\ Events[p.a] = Events[p.b]}

\* As Merged, comparing the two in the order they are written.
MergedOrdered(pairs, new) ==
    pairs \cup {p \in new : \A q \in pairs : <<q.a, q.b>> # <<p.a, p.b>>}

\* merge: a pair that is there already, in either order, stays what it is.
Merged(pairs, new) ==
    pairs \cup {p \in new : \A q \in pairs : {q.a, q.b} # {p.a, p.b}}

\* The server's engine only loads; the sandbox merges what it detects in the active
\* markets, and `arb run` what it detects in the first fetch, unless that fails.
Graphs(who, pairs) ==
    CASE who = "engine" -> {Load(pairs)}
      [] who = "daemon" -> {Load(pairs), Merged(Load(pairs), AutoDetected)}
      [] who = "sandbox" -> {Merged(Load(pairs), AutoDetected)}
      [] OTHER -> {{}}

(***************************************************************************)
(* vwap_cache.rs                                                           *)
(***************************************************************************)
Key(book, side, size) == [token |-> book.token, side |-> side, size |-> size]

Cached(book, side, size) ==
    IF Key(book, side, size) \in DOMAIN cache THEN cache[Key(book, side, size)]
    ELSE Estimate(book, side, size)

\* The cache with what these walks have added; errors are not kept.
Remembering(asked) ==
    LET new == {w \in asked : Estimate(w.book, w.side, w.size) # NoEstimate}
    IN  cache @@ [k \in {Key(w.book, w.side, w.size) : w \in new} |->
            LET w == CHOOSE w \in new : Key(w.book, w.side, w.size) = k
            IN  Estimate(w.book, w.side, w.size)]

(***************************************************************************)
(* Legs and offers                                                         *)
(***************************************************************************)
Leg(token, book, side, price, size) ==
    [token |-> token, book |-> book, side |-> side, price |-> price, size |-> size,
     cost |-> Cached(book, side, size).cost]

LegCosts(legs) == SumFunction([i \in DOMAIN legs |-> legs[i].cost])

\* Paid for what is bought, less what is received for what is sold.
Outlay(legs) ==
    SumFunction([i \in DOMAIN legs |->
                    IF legs[i].side = "buy" THEN legs[i].cost ELSE -legs[i].cost])

Fees(legs) == FeeNum * LegCosts(legs)

Offer(kind, markets, legs, gross, net) ==
    [kind |-> kind, markets |-> markets, legs |-> legs, size |-> legs[1].size,
     gross |-> gross, net |-> net]

\* An edge in basis points of a share is compared with the minimum.
WorthIt(offer) == offer.net >= MinEdge * offer.size * FeeDen

Priced(legs) == \A i \in DOMAIN legs : legs[i].cost # NoEstimate.cost

(***************************************************************************)
(* One share of every outcome is worth a dollar: buy all for less, or sell  *)
(* all for more.                                                           *)
(***************************************************************************)
BestSum(books, side) ==
    SumFunction([i \in DOMAIN books |-> Best(Levels(books[i], side))])

Off(books, side) ==
    IF side = "buy" THEN Dollar - BestSum(books, side) ELSE BestSum(books, side) - Dollar

\* The thinnest book decides the size, all levels of it counted.
SetSize(books, side, max) ==
    Smaller(max, Min({TotalSize(Levels(books[i], side)) : i \in DOMAIN books}))

CompleteSet(kind, markets, tokens, books, side, max) ==
    LET size == SetSize(books, side, max)
        legs == [i \in DOMAIN books |->
                    Leg(tokens[i], books[i], side, Best(Levels(books[i], side)), size)]
        payoff == IF side = "buy" THEN Dollar * size ELSE -(Dollar * size)
        offer == Offer(kind, markets, legs, Off(books, side),
                       FeeDen * (payoff - Outlay(legs)) - Fees(legs))
    IN  IF /\ \A i \in DOMAIN books : Levels(books[i], side) # <<>>
           /\ Off(books, side) > MinDeviation
           /\ size > 0 /\ Priced(legs) /\ WorthIt(offer)
        THEN {offer} ELSE {}

\* check_market looks at no bid before it knows that both books have asks.
IntraMarket(m) ==
    LET tokens == OutcomeTokens[m]
        books == orderbooks[m]
    IN  IF m \notin NegRisk /\ Len(tokens) = 2 /\ Len(books) = 2
           /\ \A i \in 1..2 : books[i].asks # <<>>
        THEN UNION {CompleteSet("intra", <<m>>, tokens, books, side, MaxIntra) : side \in Sides}
        ELSE {}

\* check_event_group, on every market of a group by itself.
SingleMarket(m) ==
    LET tokens == OutcomeTokens[m]
        books == orderbooks[m]
    IN  IF Len(MidPrices[m]) >= 2 /\ Len(books) >= 2 /\ Len(tokens) = Len(books)
           /\ Len(books) = Len(MidPrices[m])
        THEN UNION {CompleteSet("single", <<m>>, tokens, books, side, MaxEvent) : side \in Sides}
        ELSE {}

\* check_cross_market_group: the first book and the first token of every market,
\* if the first prices add up to 0.95 or more (groups up to three).
\* `arb scan` leaves out the markets of which it has no book.
EventGroup ==
    Kept(OfferMarkets, {m \in NegRisk : program = "scan" => orderbooks[m] # <<>>})

AcrossEvent ==
    LET n == Len(EventGroup)
        mids == SumFunction([i \in 1..n |-> MidPrices[EventGroup[i]][1]])
        tokens == [i \in 1..n |-> OutcomeTokens[EventGroup[i]][1]]
        books == [i \in 1..n |-> orderbooks[EventGroup[i]][1]]
    IN  IF n >= 2 /\ (\A i \in 1..n : orderbooks[EventGroup[i]] # <<>>)
           /\ 100 * mids >= 95 * Dollar
        THEN UNION {CompleteSet("event", EventGroup, tokens, books, side, MaxEvent) :
                       side \in Sides}
        ELSE {}

(***************************************************************************)
(* Pairs of markets                                                        *)
(***************************************************************************)
\* check_pair: sides and edge, from the first prices.
PairEdge(p) ==
    LET a == MidPrices[p.a][1]
        b == MidPrices[p.b][1]
    IN  CASE p.how = "impliedBy" -> a - b
          [] p.how = "exclusive" -> a + b - Dollar
          [] p.how = "exhaustive" -> Dollar - a - b
          [] p.how = "custom" -> 0

PairSides(p) ==
    CASE p.how = "exclusive" -> <<"sell", "sell">>
      [] p.how = "exhaustive" -> <<"buy", "buy">>
      [] OTHER -> <<"sell", "buy">>

\* build_cross_opp: the size is fixed and the edge that of the first prices.
OfferPair(p) ==
    LET complete == \A m \in {p.a, p.b} : Len(orderbooks[m]) = Len(OutcomeTokens[m])
        legs == [i \in 1..2 |->
                    LET m == IF i = 1 THEN p.a ELSE p.b
                    IN  Leg(OutcomeTokens[m][1], orderbooks[m][1], PairSides(p)[i],
                            MidPrices[m][1], MaxPair)]
        offer == Offer("pair", <<p.a, p.b>>, legs, PairEdge(p),
                       FeeDen * PairEdge(p) * MaxPair - Fees(legs))
    IN  IF p.how # "custom" /\ PairEdge(p) > MinImplied /\ complete
           /\ Priced(legs) /\ WorthIt(offer)
        THEN {offer} ELSE {}

\* The deadline detector, which `arb scan --all` alone runs, on the markets with
\* such questions in the order they were listed: no book is asked, and the net
\* edge is left at zero.
DeadlineGroup ==
    Kept(OfferMarkets, {m \in SharedPrefix \ NegRisk : Len(OutcomeTokens[m]) = 2})

Inverted(i) ==
    LET earlier == MidPrices[DeadlineGroup[i]][1]
        later == MidPrices[DeadlineGroup[i + 1]][1]
    IN  earlier # 0 /\ later < earlier

DeadlineLeg(m, side) ==
    [token |-> OutcomeTokens[m][1], book |-> Snapshot("none", {}, {}), side |-> side,
     price |-> MidPrices[m][1], size |-> MaxDeadline,
     cost |-> MidPrices[m][1] * MaxDeadline]

Deadlines ==
    {LET earlier == DeadlineGroup[i]
         later == DeadlineGroup[i + 1]
     IN  Offer("deadline", <<earlier, later>>,
               <<DeadlineLeg(later, "buy"), DeadlineLeg(earlier, "sell")>>,
               MidPrices[earlier][1] - MidPrices[later][1], 0)
     : i \in {j \in 1..(Len(DeadlineGroup) - 1) : Inverted(j)}}

OfMarkets == UNION {IntraMarket(m) : m \in MarketSet}
OfGroups == UNION {SingleMarket(m) : m \in NegRisk}
OfPairs == UNION {OfferPair(p) : p \in graph}
OfDeadlines == IF program = "scanAll" THEN Deadlines ELSE {}

Detected == OfMarkets \cup OfGroups \cup AcrossEvent \cup OfPairs \cup OfDeadlines

(***************************************************************************)
(* Refinement                                                              *)
(***************************************************************************)
\* The book of a leg's own token among those of the offer's markets; without one
\* the leg keeps its price and its cost.
OwnBooks(offer, leg) ==
    {b \in UNION {Range(orderbooks[m]) : m \in Range(offer.markets)} : b.token = leg.token}

RefinedLeg(offer, leg) ==
    IF OwnBooks(offer, leg) = {} THEN leg
    ELSE LET book == CHOOSE b \in OwnBooks(offer, leg) : TRUE
         IN  [leg EXCEPT !.book = book, !.cost = Cached(book, leg.side, leg.size).cost]

\* refine_with_vwap: a walk that fails ends it, and the edge stays.  Otherwise it
\* is the gross edge of one share less the fees of the whole size.
Refined(offer) ==
    LET legs == [i \in DOMAIN offer.legs |-> RefinedLeg(offer, offer.legs[i])]
        upTo(i) == Priced([j \in 1..i |-> legs[j]])
    IN  IF ~Priced(legs)
        THEN [offer EXCEPT !.legs =
                [i \in DOMAIN legs |-> IF upTo(i) THEN legs[i] ELSE offer.legs[i]]]
        ELSE [offer EXCEPT !.legs = legs,
                           !.net = (FeeDen * offer.gross - Fees(legs)) * offer.size]

(***************************************************************************)
(* A tick of the engine                                                    *)
(***************************************************************************)
\* As StartTick, without clear_cache.
StartTickWarm ==
    /\ phase = "done" /\ program \in Engines
    /\ offers' = {} /\ phase' = "fetch"
    /\ UNCHANGED <<program, graph, file, orderbooks, cache>>

StartTick ==
    /\ phase = "done" /\ program \in Engines
    /\ cache' = [k \in {} |-> NoEstimate]
    /\ offers' = {} /\ phase' = "fetch"
    /\ UNCHANGED <<program, graph, file, orderbooks>>

Fetch(m) ==
    /\ phase = "fetch"
    /\ \E books \in Fetches[m] : orderbooks' = [orderbooks EXCEPT ![m] = books]
    /\ UNCHANGED <<program, graph, file, cache, phase, offers>>

\* Only the server's engine memoizes, and the sandbox in each request anew.  The
\* walks of what is offered are remembered; those of what is not are left out here:
\* repeated in this tick they would give the same.
Detect ==
    /\ phase = "fetch"
    /\ offers' = Detected
    /\ cache' = IF program \notin Memoizing THEN cache
                ELSE Remembering({[book |-> leg.book, side |-> leg.side, size |-> leg.size] :
                                    leg \in UNION {Range(o.legs) : o \in Detected}})
    /\ phase' = "refine"
    /\ UNCHANGED <<program, graph, file, orderbooks>>

Refine ==
    /\ phase = "refine"
    /\ offers' = {Refined(o) : o \in offers}
    /\ phase' = "retain"
    /\ UNCHANGED <<program, graph, file, orderbooks, cache>>

\* What is left of them goes to the engine's risk check or is shown; `arb scan --all`
\* shows, and exports, all of them when none is worth it.
Retain ==
    /\ phase = "retain"
    /\ LET worthIt == {o \in offers : WorthIt(o)}
       IN  offers' = IF program = "scanAll" /\ worthIt = {} THEN offers ELSE worthIt
    /\ phase' = "done"
    /\ UNCHANGED <<program, graph, file, orderbooks, cache>>

OfferInit ==
    /\ program \in Relating \cup {"scan", "scanAll"}
    /\ file \in (IF program \in Relating THEN CorrelationFiles ELSE {{}})
    /\ graph \in Graphs(program, file)
    /\ orderbooks = [m \in MarketSet |-> <<>>]
    /\ cache = [k \in {} |-> NoEstimate]
    /\ phase = "fetch"
    /\ offers = {}

OfferNext ==
    StartTick \/ (\E m \in MarketSet : Fetch(m)) \/ Detect \/ Refine \/ Retain

(***************************************************************************)
(* Properties                                                              *)
(***************************************************************************)
\* The edge of a complete set: what it can be bought or sold for at best, by any way
\* of taking its size from the books as they were fetched in this tick.
Attainable(offer) ==
    LET total == SumFunction(
                     [i \in DOMAIN offer.legs |->
                         BestCost(offer.legs[i].book, offer.legs[i].side, offer.size, Depth)])
        gain == IF offer.legs[1].side = "buy" THEN Dollar * offer.size - total
                ELSE total - Dollar * offer.size
    IN  FeeDen * gain - FeeNum * total

CompleteSets == {"intra", "single", "event"}

\* The edge at which detection finds a complete set is what its books give for its
\* whole size, from the books of this tick and not from what an earlier tick remembers
\* of them.  It is not the number the risk check gets: that is what the refinement
\* makes of it, see RefinedEdgeIsReal.
DetectedEdgeIsReal ==
    phase = "refine" =>
        \A o \in offers : o.kind \in CompleteSets => o.net = Attainable(o)

\* What the user wrote of two markets, and whether a slip anywhere in the file has
\* lost all of it.
Declared(markets) == {p \in file : {p.a, p.b} = Range(markets)}
Slipped == \E p \in file : p.how \notin Relations

\* The guess of those that detect pairs: two markets of one event exclude each other.
Guessed(o) ==
    /\ program \in {"daemon", "sandbox"}
    /\ Events[o.markets[1]] = Events[o.markets[2]]
    /\ \A i \in 1..2 : o.legs[i].side = "sell"

\* Two markets the user related are traded as the user wrote, in whatever order the
\* detection finds them.  The guess comes in only where the user said nothing of
\* the two, or the file has a slip, and never in the server's engine.
PairsAsDeclared ==
    phase = "refine" =>
        \A o \in offers : o.kind = "pair" =>
            \/ \E p \in Declared(o.markets) :
                  /\ o.markets = <<p.a, p.b>>
                  /\ \A i \in 1..2 : o.legs[i].side = PairSides(p)[i]
            \/ Guessed(o) /\ (Slipped \/ Declared(o.markets) = {})

\* Every walk over a fetched book finds the best way of taking its size: that of
\* the snapshots, that of the local books over all levels, and, within the limit on
\* slippage, that of an order split by levels; and a larger tier is never cheaper.
WalksAreBest ==
    phase = "fetch" =>
        \A m \in MarketSet : \A book \in Range(orderbooks[m]) : \A side \in Sides :
            /\ TiersWorsen(book, side)
            /\ \A size \in 1..(MaxIntra + 1) :
                  /\ Estimate(book, side, size).cost = BestCost(book, side, size, Depth)
                  /\ LocalCost(book, side, size)
                       = BestCost(book, side, size, Len(Levels(book, side)))
                  /\ SplitIsRight(book, side, size, 1, 2)

(* What a comment says, and the program does not do. *)

\* edge.rs: refine_with_vwap refines "an opportunity's edge using real VWAP".
RefinedEdgeIsReal ==
    phase = "retain" =>
        \A o \in offers : o.kind \in CompleteSets => o.net <= Attainable(o)
=============================================================================
