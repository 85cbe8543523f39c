----------------------------- MODULE MarketLoad -----------------------------
(***************************************************************************)
(* How the engine fills its cache at the start: the pages of the exchange's *)
(* market list (poller.rs), the classification of the markets, and the      *)
(* order books fetched by one task per token under a semaphore              *)
(* (engine_task.rs, phases 1 and 2).  The list changes while it is paged.   *)
(***************************************************************************)
EXTENDS Integers, Sequences, FiniteSets, SequencesExt, Filter

CONSTANTS Listed,      \* the exchange's list at the start: a sequence of markets
          Kind,        \* of a market: "binary", "event" (neg_risk), "odd", "closing"
          TokensOf,    \* of a market: a sequence of tokens
          PageSize,    \* markets of a page (100)
          MaxBooks,    \* MAX_ORDERBOOK_TOKENS (400)
          MaxConcurrent, \* permits of the semaphore (10)
          MaxDelisted  \* bound: markets delisted while the list is paged

\* The exchange lists no market twice, and the tokens of a market are distinct.
ASSUME LoadAssumption ==
    /\ {PageSize, MaxBooks, MaxConcurrent} \subseteq Nat \ {0} /\ MaxDelisted \in Nat
    /\ Listed \in Seq(ToSet(Listed)) /\ IsInjective(Listed)
    /\ \A m \in ToSet(Listed) :
          TokensOf[m] \in Seq(ToSet(TokensOf[m])) /\ IsInjective(TokensOf[m])

VARIABLES list,      \* the exchange's list (external)
          delisted,  \* history: markets it dropped
          loadPc, offset,
          cached,    \* phase 1: markets in the cache
          task,      \* phase 2: token -> "waiting", "inflight", "got", "failed"
          permits,
          placed     \* market -> the tokens its order books are of, in order

loadVars == <<list, delisted, loadPc, offset, cached, task, permits, placed>>

AllListed == ToSet(Listed)

LoadInit ==
    /\ list = Listed /\ delisted = {}
    /\ loadPc = "page" /\ offset = 0 /\ cached = {}
    /\ task = << >> /\ permits = MaxConcurrent
    /\ placed = [m \in AllListed |-> << >>]

\* A market is resolved or closed and leaves the list (external).
Delist(q) ==
    /\ loadPc = "page" /\ Cardinality(delisted) < MaxDelisted
    /\ list' = RemoveAt(list, q) /\ delisted' = delisted \cup {list[q]}
    /\ UNCHANGED <<loadPc, offset, cached, task, permits, placed>>

\* convert_market and the filter: active, with tokens.
Convertible(m) == Kind[m] # "closing" /\ TokensOf[m] # << >>

PageAt(o) == SubSeq(list, o + 1, IF o + PageSize < Len(list) THEN o + PageSize ELSE Len(list))

\* As IsLast, of the markets that were converted.
IsLastConverted(page) == Len(SelectSeq(page, Convertible)) < PageSize

IsLast(page) == Len(page) < PageSize

\* classify_markets: markets of neither kind are dropped.
Classified(m) == Kind[m] = "event" \/ Len(TokensOf[m]) = 2

TokensIn(markets) == UNION {ToSet(TokensOf[m]) : m \in {n \in markets : Classified(n)}}

\* The tokens of the cached markets in the map's arbitrary order, cut at MaxBooks.
StartFetch(markets) ==
    \E tokens \in SUBSET TokensIn(markets) :
        /\ Cardinality(tokens) = (IF Cardinality(TokensIn(markets)) < MaxBooks
                                  THEN Cardinality(TokensIn(markets)) ELSE MaxBooks)
        /\ task' = [t \in tokens |-> "waiting"]

\* One page of fetch_all_active_markets; the cache is written after the last.
FetchPage ==
    /\ loadPc = "page"
    /\ LET page == PageAt(offset)
           found == cached \cup {m \in ToSet(page) : Convertible(m)}
       IN  /\ cached' = found
           /\ offset' = offset + PageSize
           /\ IF IsLast(page) THEN loadPc' = "books" /\ StartFetch(found)
              ELSE UNCHANGED <<loadPc, task>>
    /\ UNCHANGED <<list, delisted, permits, placed>>

\* A page that fails loses the pages before it; the engine runs with an empty cache.
FetchPageFails ==
    /\ loadPc = "page"
    /\ cached' = {} /\ loadPc' = "books" /\ StartFetch({})
    /\ UNCHANGED <<list, delisted, offset, permits, placed>>

Acquire(t) ==
    /\ task[t] = "waiting" /\ permits > 0
    /\ task' = [task EXCEPT ![t] = "inflight"] /\ permits' = permits - 1
    /\ UNCHANGED <<list, delisted, loadPc, offset, cached, placed>>

\* An answer, an error or the timeout; the permit is dropped with the task.
FinishFetch(t) ==
    /\ task[t] = "inflight"
    /\ \E result \in {"got", "failed"} : task' = [task EXCEPT ![t] = result]
    /\ permits' = permits + 1
    /\ UNCHANGED <<list, delisted, loadPc, offset, cached, placed>>

FetchEnded(t) == task[t] \in {"got", "failed"}

\* Each market is given the books of those of its tokens that were fetched.
Distribute ==
    /\ loadPc = "books" /\ \A t \in DOMAIN task : FetchEnded(t)
    /\ placed' = [m \in AllListed |->
                     IF m \notin cached THEN << >>
                     ELSE Kept(TokensOf[m], {t \in DOMAIN task : task[t] = "got"})]
    /\ loadPc' = "done"
    /\ UNCHANGED <<list, delisted, offset, cached, task, permits>>

LoadNext ==
    \/ FetchPage \/ FetchPageFails \/ Distribute
    \/ \E q \in DOMAIN list : Delist(q)
    \/ \E t \in DOMAIN task : Acquire(t) \/ FinishFetch(t)

\* A list that shrinks between two pages hides at most one market that stayed in
\* it for each that left, and the markets converted are loaded all or not at all;
\* the fetches hold what is missing of the permits and give all of them back, so
\* that the load ends; no market gets a book of a token it has not, or one twice.
LoadSound ==
    LET stayed == {m \in ToSet(list) : Convertible(m)}
        pending == {t \in DOMAIN task : task[t] = "inflight"}
    IN  /\ loadPc # "page" =>
              cached = {} \/ Cardinality(stayed \ cached) <= Cardinality(delisted)
        /\ permits + Cardinality(pending) = MaxConcurrent
        /\ loadPc = "done" => permits = MaxConcurrent
        /\ \A m \in AllListed : IsInjective(placed[m]) /\ ToSet(placed[m]) \subseteq ToSet(TokensOf[m])
=============================================================================
