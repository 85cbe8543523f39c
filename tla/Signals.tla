------------------------------- MODULE Signals ------------------------------
(***************************************************************************)
(* The detectors that bet on one market: liquidity_sniping.rs and           *)
(* volume_spike.rs, which remember what earlier scans saw, and              *)
(* stale_market.rs, resolution_sniping.rs, market_making.rs and             *)
(* prob_model.rs, which judge the market as it is; then the refinement of   *)
(* edge.rs and the minimum, as the engine loop applies them.                *)
(*                                                                         *)
(* One market of two outcomes is scanned.  It and the other markets of its  *)
(* event may be left out of a scan when nothing in them changed             *)
(* (MarketScan); the windows grow by scans, not by time.                    *)
(*                                                                         *)
(* The detectors are built when the engine loop starts, from a copy of the  *)
(* configuration, and keep that copy and their windows until it ends; the   *)
(* minimum is looked up in every scan.                                      *)
(***************************************************************************)
EXTENDS Pricing

CONSTANTS
    Tokens,         \* token_ids of the market: of its first and its second outcome
    Readings,       \* what a poll may find: [books, those that could be fetched;
                    \*   mids and models of both outcomes; siblings, the prices of the
                    \*   event's others; volume, change, hours, age, interval]
    Configs,        \* configurations: [enabled, minDropPct, minDivergence,
                    \*   targetSpread, minNet, cap]
    DepthWindow, MinDepths,                      \* 30 and 5
    VolumeWindow, MinVolume, SpikeTimes,         \* 10, a volume, a factor
    MaxAge,                                      \* stale_market
    MinPrice, MaxPrice, MaxHours,                \* resolution_sniping
    MinModelEdge, MaxInterval,                   \* prob_model, in ticks
    MaxPosition, QuoteSize,                      \* sizes of a bet and of a quote
    MaxScans                                     \* bound on the scans

SingleKinds == {"liquidity", "volume", "stale", "resolution", "model", "quote"}

ConfigTypes ==
    [enabled : SUBSET SingleKinds, minDropPct : Int, minDivergence : Nat, targetSpread : Nat,
     minNet : Nat, cap : Int]

Outcomes == 1..2

ASSUME SignalsAssumption ==
    /\ {DepthWindow, MinDepths, VolumeWindow, MinVolume, SpikeTimes, MaxAge, MinPrice,
        MaxPrice, MaxHours, MinModelEdge, MaxInterval, MaxPosition, QuoteSize, MaxScans}
           \subseteq Nat
    /\ DepthWindow > 0 /\ VolumeWindow > 0 /\ MinDepths > 0
    /\ Tokens \in [Outcomes -> STRING] /\ Tokens[1] # Tokens[2]
    /\ Readings \subseteq [books : Seq(Books), mids : [Outcomes -> Int],
                           models : [Outcomes -> Int], siblings : Seq(Int), volume : Nat,
                           change : Int, hours : Int, age : Int, interval : Int]
    /\ Configs \subseteq ConfigTypes

\* fetch_orderbooks keeps the order of the tokens and leaves out what it cannot get,
\* so that the first book may be of the second token.
ASSUME FetchAssumption ==
    \A r \in Readings :
        \/ r.books = <<>>
        \/ Len(r.books) = 1 /\ r.books[1].token \in {Tokens[1], Tokens[2]}
        \/ Len(r.books) = 2 /\ \A i \in Outcomes : r.books[i].token = Tokens[i]

VARIABLES config,         \* state.config
          loopConfig,     \* the copy the detectors of the engine were built from
          reading,        \* the market as it was last polled
          scanned,        \* it has been scanned since
          scans,          \* scans since the loop started
          beside,         \* the siblings that were in the last scan
          depthHistory,   \* <<ask depth, bid depth>> of the last scans
          volumeHistory,  \* volumes of the last scans that had enough of it
          found,          \* what the detectors found in the last scan
          signals,        \* what refinement and the minimum have left of it
          retainedBy,     \* history: that minimum
          depthsSeen, volumesSeen  \* history: all of them since the loop started

windows == <<depthHistory, volumeHistory, depthsSeen, volumesSeen>>
signalVars == <<config, loopConfig, reading, scanned, scans, beside, windows, found,
                signals, retainedBy>>

\* As Pushed, a reading late.
PushedLate(window, x, max) ==
    LET longer == Append(window, x)
    IN  IF Len(longer) > max + 1 THEN Tail(longer) ELSE longer

\* push_back, then pop_front when the ring buffer is too long.
Pushed(window, x, max) ==
    LET longer == Append(window, x)
    IN  IF Len(longer) > max THEN Tail(longer) ELSE longer

(***************************************************************************)
(* Edges are fractions of ticks a share, <<n, d>>.                          *)
(***************************************************************************)
\* An edge less the fees of a cost, spread over so many shares.
LessFees(edge, cost, shares) ==
    <<edge[1] * FeeDen * shares - cost * FeeNum * edge[2], edge[2] * FeeDen * shares>>

AtLeast(edge, ticks) == edge[1] >= ticks * edge[2]

(***************************************************************************)
(* A bet of the full position on outcome i, at a gross edge: what it is     *)
(* worth must pay its fees and the minimum.  Books and tokens are both      *)
(* looked up by position, and not matched.                                  *)
(***************************************************************************)
\* As TokenOf, whatever the outcome.
FirstToken(i) == Tokens[1]

TokenOf(i) == Tokens[i]

Bet(c, kind, i, side, gross, worth) ==
    IF i \notin DOMAIN reading.books THEN {}
    ELSE LET book == reading.books[i]
             e == Estimate(book, side, MaxPosition)
             net == LessFees(worth, e.cost, MaxPosition)
         IN  IF e = NoEstimate \/ ~AtLeast(net, c.minNet) THEN {}
             ELSE {[kind |-> kind, token |-> TokenOf(i), sides |-> {side}, book |-> book,
                    size |-> Smaller(MaxPosition, e.available), cost |-> e.cost,
                    gross |-> gross, net |-> net]}

\* total_depth of the first book: three levels.
Depths == <<DepthOf(reading.books[1].asks, 3), DepthOf(reading.books[1].bids, 3)>>

\* As Wipeout, the current scan counted in the average.
WipeoutWithCurrent(c, window, i, side) ==
    LET n == Len(window)
        sum == SumFunction([k \in 1..n |-> window[k][i]])
        lost == sum - n * window[n][i]
        edge == <<5 * Dollar * lost, 100 * sum>>
    IN  IF sum > 0 /\ 100 * lost >= c.minDropPct * sum
        THEN Bet(c, "liquidity", 1, side, edge, edge) ELSE {}

\* A side of the book has lost so much of its average depth, the current scan
\* excluded; the edge is five cents times the part that was lost.
Wipeout(c, window, i, side) ==
    LET n == Len(window) - 1
        sum == SumFunction([k \in 1..n |-> window[k][i]])
        lost == sum - n * window[n + 1][i]
        edge == <<5 * Dollar * lost, 100 * sum>>
    IN  IF sum > 0 /\ 100 * lost >= c.minDropPct * sum
        THEN Bet(c, "liquidity", 1, side, edge, edge) ELSE {}

LiquiditySignals(c, window) ==
    IF Len(window) < MinDepths THEN {}
    ELSE Wipeout(c, window, 1, "buy") \cup Wipeout(c, window, 2, "sell")

\* A bet on a change of the price, up or down, of its size.
Follow(c, kind, i, change) ==
    LET size == <<IF change > 0 THEN change ELSE -change, 1>>
    IN  Bet(c, kind, i, IF change > 0 THEN "buy" ELSE "sell", size, size)

\* The volume is a multiple of its average: bet on the day's direction.
VolumeSignals(c, window) ==
    LET n == Len(window) - 1
        sum == SumFunction([k \in 1..n |-> window[k]])
        spike == n >= 1 /\ sum > 0 /\ window[n + 1] * n >= SpikeTimes * sum
    IN  IF spike /\ reading.change # 0 THEN Follow(c, "volume", 1, reading.change) ELSE {}

\* The prices of an event's markets should add up to a dollar: an old book is bet to
\* follow those of its siblings that are in the scan, down to a cent.
StaleSignals(c, among) ==
    LET cent == Dollar \div 100
        rest == Dollar - SumFunction([k \in among |-> reading.siblings[k]])
        divergence == (IF rest > cent THEN rest ELSE cent) - reading.mids[1]
        size == IF divergence > 0 THEN divergence ELSE -divergence
    IN  IF /\ among # {} /\ reading.age >= MaxAge /\ reading.volume >= MinVolume
           /\ size >= c.minDivergence
        THEN Follow(c, "stale", 1, divergence) ELSE {}

\* An outcome trades near a dollar, and the market resolves soon: the edge shown is
\* what its price is short of the dollar, the worth what is left after the walk.
ResolutionSignals(c) ==
    LET of(i) ==
            LET e == Estimate(reading.books[i], "buy", MaxPosition)
            IN  Bet(c, "resolution", i, "buy", <<Dollar - reading.mids[i], 1>>,
                    <<Dollar * MaxPosition - e.cost, MaxPosition>>)
        near == {i \in Outcomes \cap DOMAIN reading.books :
                    reading.mids[i] \in MinPrice..MaxPrice}
    IN  IF reading.hours \in 1..MaxHours /\ reading.volume >= MinVolume
        THEN UNION {of(i) : i \in near} ELSE {}

\* A model's probability, as a price, differs from the market's, and its interval
\* is narrow.
ModelSignals(c) ==
    LET edge(i) == reading.models[i] - reading.mids[i]
        size(i) == IF edge(i) > 0 THEN edge(i) ELSE -edge(i)
        apart == {i \in Outcomes : size(i) >= MinModelEdge}
    IN  IF reading.interval <= MaxInterval
        THEN UNION {Follow(c, "model", i, edge(i)) : i \in apart} ELSE {}

\* Both sides of the first book quoted around its mid, the target apart; prices are
\* doubled.  Nothing ever writes the inventory, so that there is no skew.
Quote(c, book) ==
    LET mids == Best(book.bids) + Best(book.asks)
        twice == <<mids - c.targetSpread, mids + c.targetSpread>>
        net == LessFees(<<c.targetSpread, 1>>, mids, 1)
    IN  IF /\ book.bids # <<>> /\ book.asks # <<>>
           /\ Best(book.asks) - Best(book.bids) >= c.targetSpread
           /\ twice[1] < 2 * Best(book.asks) /\ twice[2] > 2 * Best(book.bids)
           /\ AtLeast(net, c.minNet)
        THEN {[kind |-> "quote", token |-> TokenOf(1), sides |-> Sides, book |-> book,
               size |-> QuoteSize, cost |-> mids * QuoteSize,
               gross |-> <<c.targetSpread, 1>>, net |-> net, twicePrices |-> twice]}
        ELSE {}

QuoteSignals(c) ==
    IF reading.volume >= MinVolume /\ reading.books # <<>> THEN Quote(c, reading.books[1])
    ELSE {}

(***************************************************************************)
(* What the enabled detectors of a configuration find in the reading, and   *)
(* what is left of it.                                                     *)
(***************************************************************************)
Enough == reading.volume >= MinVolume

Found(c, depths, volumes, among) ==
    LET by(kind, of) == IF kind \in c.enabled THEN of ELSE {}
    IN  by("liquidity", LiquiditySignals(c, depths))
            \cup by("volume", IF Enough THEN VolumeSignals(c, volumes) ELSE {})
            \cup by("stale", StaleSignals(c, among)) \cup by("resolution", ResolutionSignals(c))
            \cup by("model", ModelSignals(c)) \cup by("quote", QuoteSignals(c))

\* refine_with_vwap looks for the token's own book, charges the fees of the whole
\* size to the gross edge of one share, and leaves the edge where a walk fails.
OwnBook(token) == {b \in Range(reading.books) : b.token = token}

RefinedSignal(s) ==
    LET walk(side) == Estimate(CHOOSE b \in OwnBook(s.token) : TRUE, side, s.size)
        cost == IF OwnBook(s.token) = {} THEN s.cost
                ELSE SumFunction([side \in s.sides |-> walk(side).cost])
    IN  IF OwnBook(s.token) # {} /\ \E side \in s.sides : walk(side) = NoEstimate THEN s
        ELSE [s EXCEPT !.cost = cost, !.net = LessFees(s.gross, cost, 1)]

Retained(opportunities, minNet) ==
    {s \in {RefinedSignal(o) : o \in opportunities} : AtLeast(s.net, minNet)}

(***************************************************************************)
(* The loop, polls and scans                                               *)
(***************************************************************************)
PutConfig ==
    /\ config' \in Configs
    /\ UNCHANGED <<loopConfig, reading, scanned, scans, beside, windows, found, signals,
                   retainedBy>>

\* What a tick found is gone when the next one begins.
NewTick ==
    /\ scanned' = FALSE /\ beside' = {} /\ retainedBy' = 0
    /\ found' = {} /\ signals' = {}

\* run_engine_loop begins, at the start or after the supervisor's backoff.
StartLoop ==
    /\ loopConfig' = config
    /\ scans' = 0
    /\ depthHistory' = <<>> /\ volumeHistory' = <<>>
    /\ depthsSeen' = <<>> /\ volumesSeen' = <<>>
    /\ NewTick
    /\ UNCHANGED <<config, reading>>

PollMarket ==
    /\ reading' \in Readings
    /\ NewTick
    /\ UNCHANGED <<config, loopConfig, scans, windows>>

\* The first scan of a loop is of all active markets, a later one of those that
\* changed.  A detector that is not enabled was not built, and keeps no window; no
\* depth is kept where no book was fetched.
ScanMarket ==
    /\ ~scanned /\ scans < MaxScans
    /\ scanned' = TRUE /\ scans' = scans + 1
    /\ beside' \in (IF scans = 0 THEN {DOMAIN reading.siblings}
                    ELSE SUBSET DOMAIN reading.siblings)
    /\ LET deep == reading.books # <<>>
       IN  /\ depthsSeen' = IF deep THEN Append(depthsSeen, Depths) ELSE depthsSeen
           /\ depthHistory' = IF deep /\ "liquidity" \in loopConfig.enabled
                              THEN Pushed(depthHistory, Depths, DepthWindow) ELSE depthHistory
    /\ volumesSeen' = IF Enough THEN Append(volumesSeen, reading.volume) ELSE volumesSeen
    /\ volumeHistory' = IF Enough /\ "volume" \in loopConfig.enabled
                        THEN Pushed(volumeHistory, reading.volume, VolumeWindow)
                        ELSE volumeHistory
    /\ found' = Found(loopConfig, depthHistory', volumeHistory', beside')
    /\ signals' = Retained(found', config.minNet) /\ retainedBy' = config.minNet
    /\ UNCHANGED <<config, loopConfig, reading>>

SignalInit ==
    /\ config \in Configs /\ loopConfig = config
    /\ reading \in Readings /\ scanned = FALSE /\ scans = 0 /\ beside = {}
    /\ depthHistory = <<>> /\ volumeHistory = <<>>
    /\ found = {} /\ signals = {} /\ retainedBy = 0
    /\ depthsSeen = <<>> /\ volumesSeen = <<>>

SignalNext == PutConfig \/ StartLoop \/ PollMarket \/ ScanMarket

(***************************************************************************)
(* Properties                                                              *)
(***************************************************************************)
\* How many readings before the last one a window covers, and which they are.
ScansBefore(seen, window) == Smaller(window, Len(seen)) - 1
Before(seen, window) ==
    LET n == ScansBefore(seen, window)
    IN  [k \in 1..n |-> seen[Len(seen) - 1 - n + k]]

\* What the fall of the last depth of one side below the average of those before it,
\* over all that was seen since the loop started, is bet to be worth.
BetOnFall(i) ==
    LET n == ScansBefore(depthsSeen, DepthWindow)
        before == Before(depthsSeen, DepthWindow)
        sum == SumFunction([k \in 1..n |-> before[k][i]])
        fall == sum - n * depthsSeen[Len(depthsSeen)][i]
        edge == <<5 * Dollar * fall, 100 * sum>>
    IN  IF n + 1 >= MinDepths /\ sum > 0 /\ 100 * fall >= loopConfig.minDropPct * sum
        THEN Bet(loopConfig, "liquidity", 1, IF i = 1 THEN "buy" ELSE "sell", edge, edge)
        ELSE {}

\* The last volume is a multiple of the average of those before it.
Spike ==
    LET n == ScansBefore(volumesSeen, VolumeWindow)
        sum == SumFunction([k \in 1..n |-> Before(volumesSeen, VolumeWindow)[k]])
    IN  n >= 1 /\ sum > 0 /\ volumesSeen[Len(volumesSeen)] * n >= SpikeTimes * sum

OfKind(kind) == {s \in found : s.kind = kind}

\* Liquidity and volume are compared with the average of the scans before the current
\* one, as many as the window covers and no other, however many there have been and
\* whatever was changed in the configuration meanwhile.
SignalsSeeLastScans ==
    scanned =>
        /\ "liquidity" \in loopConfig.enabled /\ reading.books # <<>> =>
              OfKind("liquidity") = BetOnFall(1) \cup BetOnFall(2)
        /\ "volume" \in loopConfig.enabled /\ Enough =>
              OfKind("volume") = IF Spike /\ reading.change # 0
                                 THEN Follow(loopConfig, "volume", 1, reading.change) ELSE {}

\* A bet that is kept is of the full position, and the book it was priced from holds
\* as much: the cut to what is available, which the detectors make, never cuts
\* anything.  That book is of the token that is bet on or quoted, unless the book of
\* that token could not be fetched: then it may be the other outcome's.
BetsFillable ==
    scanned => \A s \in signals :
        /\ s.kind # "quote" =>
              /\ s.size = MaxPosition
              /\ \A side \in s.sides : Takings(Levels(s.book, side), MaxPosition, Depth) # {}
        /\ s.book \in Range(reading.books)
        /\ OwnBook(s.token) # {} => s.book.token = s.token

\* What a signal may be acted on for.
SignalsHold == SignalsSeeLastScans /\ BetsFillable
=============================================================================
