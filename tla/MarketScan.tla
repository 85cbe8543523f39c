----------------------------- MODULE MarketScan -----------------------------
(***************************************************************************)
(* How the engine task finds opportunities: it loads the markets once,     *)
(* refreshes the order books of those that are due, and hands the          *)
(* detectors the markets whose generation stamp in the cache is newer than *)
(* the last scan.                                                          *)
(*                                                                         *)
(* A fetch of several books skips the ones that fail and returns the rest, *)
(* so a market may be stored with fewer books than tokens.                 *)
(*                                                                         *)
(* Kept of the detectors: which markets and books an opportunity to buy    *)
(* all outcomes is built from (intra_market.rs and multi_outcome.rs;       *)
(* selling is its mirror image).  A book is its best ask; fees, slippage   *)
(* and the minimum edge are one threshold on the sum of the asks.  The     *)
(* engine is the only writer of the cache, and its kill switch is          *)
(* TradingHalt's.                                                          *)
(***************************************************************************)
EXTENDS Integers, Sequences, FiniteSets, Filter

CONSTANTS
    Markets, Tokens,
    TokensOf,  \* by market, its tokens: the first outcome's (YES) first
    NegRisk,   \* markets that are one outcome of an event
    EventOf,   \* by market, its event
    One,       \* a dollar, in price ticks
    MaxSum,    \* the highest sum of asks that leaves enough edge
    Asks,      \* best asks the exchange may quote, in ticks
    Mids,      \* functions: first outcome prices the markets may be loaded with
    MaxGen     \* bound on the cache's generation

ASSUME ScanAssumption ==
    /\ TokensOf \in [Markets -> Seq(Tokens)]
    /\ \A m \in Markets : TokensOf[m] # <<>>
    /\ NegRisk \subseteq Markets
    /\ One \in Nat /\ MaxSum \in Nat /\ Asks \subseteq Nat \ {0}
    /\ \A mid \in Mids : mid \in [Markets -> Nat]
    /\ MaxGen \in Nat

VARIABLES
    pc,         \* where run_engine_loop is
    cache,      \* MarketCache.markets: [known, books, gen]
    generation, \* MarketCache.generation
    mids,       \* outcome_prices of the first outcome, as loaded: never refreshed
    lastScan,   \* last_scan_gen
    todo,       \* markets of this phase whose books are still to be fetched
    polled,     \* MarketPoller.last_poll: markets polled and not due again yet
    snapshot,   \* markets_snapshot
    found,      \* opportunities of this tick
    stored      \* history: markets whose books were stored since the last scan

vars == <<pc, cache, generation, mids, lastScan, todo, polled, snapshot, found, stored>>

\* A book of a token: no asks, or a best ask.
NoAsks == 0
Book == [token : Tokens, ask : Asks \cup {NoAsks}]
NotFetched == -1

Unknown == [known |-> FALSE, books |-> <<>>, gen |-> 0]
Known == {m \in Markets : cache[m].known}

Opportunity == [markets : SUBSET Markets, legs : Seq(Book)]

TypeOK ==
    /\ pc \in {"load", "books", "head", "poll", "act"}
    /\ cache \in [Markets -> [known : BOOLEAN, books : Seq(Book), gen : Nat]]
    /\ generation \in Nat /\ lastScan \in 0..generation
    /\ \A m \in Markets : cache[m].gen <= generation
    /\ mids \in Mids
    /\ todo \subseteq Known /\ polled \subseteq Known /\ stored \subseteq Known
    /\ snapshot \subseteq Known
    /\ found \subseteq Opportunity

-----------------------------------------------------------------------------
\* The detectors.

\* One leg per book, on the token of the same place.
LegsOf(m) ==
    [i \in DOMAIN cache[m].books |->
        [token |-> TokensOf[m][i], ask |-> cache[m].books[i].ask]]

\* The first book, on the first token.
FirstLeg(m) == [token |-> Head(TokensOf[m]), ask |-> Head(cache[m].books).ask]

CostOf(legs) == FoldLeft(LAMBDA s, l : s + l.ask, 0, legs)

Pays(legs) ==
    /\ \A i \in DOMAIN legs : legs[i].ask # NoAsks
    /\ CostOf(legs) <= MaxSum

\* As Aligned, for the books there are.
AlignedOrNot(m) == Len(cache[m].books) > 0

\* check_market, check_event_group: every token has its book.
Aligned(m) ==
    /\ Len(cache[m].books) = Len(TokensOf[m])
    /\ Len(cache[m].books) = 2 \/ (m \in NegRisk /\ Len(cache[m].books) > 2)

\* check_market for a binary market, check_event_group for a neg-risk one.
OutcomesOf(m) ==
    IF Aligned(m) /\ Pays(LegsOf(m)) THEN {[markets |-> {m}, legs |-> LegsOf(m)]} ELSE {}

\* The share of a dollar, in percent, the prices of a complete event reach.
MinPercent(n) == IF n <= 3 THEN 95 ELSE IF n <= 6 THEN 90 ELSE 85

MidSum(group) == MapThenSumSet(LAMBDA m : mids[m], group)

\* check_cross_market_group.
EventOutcomes(group) ==
    LET legs == [i \in 1..Cardinality(group) |-> FirstLeg(SetToSeq(group)[i])]
    IN  IF /\ Cardinality(group) >= 2
           /\ \A m \in group : cache[m].books # <<>>
           /\ 100 * MidSum(group) >= MinPercent(Cardinality(group)) * One
           /\ Pays(legs)
        THEN {[markets |-> group, legs |-> legs]} ELSE {}

\* group_by_event, over the markets handed in.
Groups(markets) ==
    {{n \in markets \cap NegRisk : EventOf[n] = EventOf[m]} : m \in markets \cap NegRisk}

Detected(markets) ==
    UNION ({OutcomesOf(m) : m \in markets} \cup {EventOutcomes(g) : g \in Groups(markets)})

-----------------------------------------------------------------------------
\* MarketCache.

\* As Store, the generation read and not raised.
StoreUncounted(m, books) ==
    /\ generation' = generation
    /\ cache' = [cache EXCEPT ![m] =
          [known |-> TRUE, books |-> books, gen |-> generation + 1]]
    /\ stored' = stored \cup {m}

\* update_one.
Store(m, books) ==
    /\ generation' = generation + 1
    /\ cache' = [cache EXCEPT ![m] =
          [known |-> TRUE, books |-> books, gen |-> generation + 1]]
    /\ stored' = stored \cup {m}

\* As ChangedSince, including the generation scanned last.
ChangedSinceInclusive(gen) == {m \in Known : cache[m].gen >= gen}

ChangedSince(gen) == {m \in Known : cache[m].gen > gen}

\* The books a fetch of all tokens of m may bring back, in their order.
Fetched(m) ==
    {Kept([i \in DOMAIN TokensOf[m] |-> [token |-> TokensOf[m][i], ask |-> ask[i]]], Book)
        : ask \in [DOMAIN TokensOf[m] -> Asks \cup {NoAsks, NotFetched}]}

-----------------------------------------------------------------------------
\* run_engine_loop.

\* Phase 1.  A failed fetch of the markets is not tried again.
Load ==
    /\ pc = "load"
    /\ pc' = "books"
    /\ \/ /\ generation' = generation + 1
          /\ cache' = [m \in Markets |-> [known |-> TRUE, books |-> <<>>, gen |-> generation + 1]]
          /\ todo' = Markets
       \/ UNCHANGED <<generation, cache, todo>>
    /\ UNCHANGED <<mids, lastScan, polled, snapshot, found, stored>>

\* Phase 2.  A market none of whose books came is left as it is.
FirstBooks(m) ==
    /\ pc = "books"
    /\ m \in todo
    /\ todo' = todo \ {m}
    /\ \E books \in Fetched(m) :
        IF books = <<>> THEN UNCHANGED <<cache, generation, stored>> ELSE Store(m, books)
    /\ UNCHANGED <<pc, mids, lastScan, polled, snapshot, found>>

EnterLoop ==
    /\ pc = "books"
    /\ todo = {}
    /\ pc' = "head"
    /\ UNCHANGED <<cache, generation, mids, lastScan, todo, polled, snapshot, found, stored>>

\* filter_due.
StartTick ==
    /\ pc = "head"
    /\ pc' = "poll"
    /\ todo' = Known \ polled
    /\ UNCHANGED <<cache, generation, mids, lastScan, polled, snapshot, found, stored>>

\* fetch_orderbooks returns Ok whatever it could fetch, and the poll is recorded.
Poll(m) ==
    /\ pc = "poll"
    /\ m \in todo
    /\ todo' = todo \ {m}
    /\ \E books \in Fetched(m) : Store(m, books)
    /\ polled' = polled \cup {m}
    /\ UNCHANGED <<pc, mids, lastScan, snapshot, found>>

\* The first scan takes all markets, the others those that changed; none
\* changed: back to the loop's head.
Scan ==
    /\ pc = "poll"
    /\ todo = {}
    /\ snapshot' = IF lastScan = 0 THEN Known ELSE ChangedSince(lastScan)
    /\ lastScan' = generation
    /\ pc' = IF lastScan > 0 /\ snapshot' = {} THEN "head" ELSE "act"
    /\ found' = Detected(snapshot')
    /\ stored' = {}
    /\ UNCHANGED <<cache, generation, mids, todo, polled>>

\* Deciding and executing what was found: RiskGate and TradingHalt.
Act ==
    /\ pc = "act"
    /\ pc' = "head"
    /\ snapshot' = {} /\ found' = {}
    /\ UNCHANGED <<cache, generation, mids, lastScan, todo, polled, stored>>

\* The polling interval of a market's tier is over.
Elapse(m) ==
    /\ m \in polled
    /\ generation + Cardinality(Known \ polled) < MaxGen
    /\ polled' = polled \ {m}
    /\ UNCHANGED <<pc, cache, generation, mids, lastScan, todo, snapshot, found, stored>>

-----------------------------------------------------------------------------
Init ==
    /\ pc = "load"
    /\ cache = [m \in Markets |-> Unknown]
    /\ generation = 0 /\ lastScan = 0
    /\ mids \in Mids
    /\ todo = {} /\ polled = {} /\ snapshot = {} /\ found = {} /\ stored = {}

Next ==
    \/ Load \/ EnterLoop \/ StartTick \/ Scan \/ Act
    \/ \E m \in Markets : FirstBooks(m) \/ Poll(m) \/ Elapse(m)

Spec == Init /\ [][Next]_vars

-----------------------------------------------------------------------------
\* Every scan sees exactly the markets whose books were stored since the scan
\* before: no refresh is missed and none is judged twice, through the boot, the
\* first scan of everything and the ticks in which nothing changed.
ScanIsExact == [][Scan => snapshot' = stored]_vars

\* What makes it inductive: stamps and stored books agree once a scan has seen a
\* generation, and until then every market is due or has been stored.
ScanInv ==
    /\ \A m \in Known : 1 <= cache[m].gen /\ cache[m].gen <= generation
    /\ pc \in {"load", "books"} => lastScan = 0
    /\ lastScan > 0 => stored = ChangedSince(lastScan)
    /\ lastScan = 0 => polled \subseteq stored
    /\ lastScan = 0 /\ pc = "poll" => Known \ todo \subseteq stored

HasBook(o, leg) == \E m \in o.markets : \E i \in DOMAIN cache[m].books : cache[m].books[i] = leg

\* Buying all outcomes of one market, every token is priced from its own book,
\* whichever books a fetch failed to bring back.
MarketLegsOwnBook ==
    \A o \in found : Cardinality(o.markets) = 1 =>
        \A i \in DOMAIN o.legs : HasBook(o, o.legs[i])

-----------------------------------------------------------------------------
(* What a comment says, and the program does not do. *)

\* multi_outcome.rs: "If a partial fetch returned fewer orderbooks than tokens,
\* the index-based access below would pair the wrong token with the wrong
\* orderbook".  No opportunity does, across the markets of an event either.
EventLegsOwnBook ==
    \A o \in found : \A i \in DOMAIN o.legs : HasBook(o, o.legs[i])
=============================================================================
