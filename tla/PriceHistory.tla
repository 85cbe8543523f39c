---------------------------- MODULE PriceHistory ----------------------------
(***************************************************************************)
(* The price history of price_history.rs, a table in SQLite: the engine     *)
(* records the markets of a cycle in one transaction and deletes the ticks  *)
(* older than Retention from time to time; the process may end between two  *)
(* statements.  record_market, a row by a statement of its own, is called   *)
(* by nobody but is part of the store.                                      *)
(***************************************************************************)
EXTENDS Integers, Sequences, FiniteSets, SequencesExt, FiniteSetsExt, Filter

CONSTANTS TickTokens,   \* of a market: the number of its tokens
          ZeroPriced,   \* <<market, token>> of the tokens whose price is zero
          Retention,    \* 30 days
          MinTicks,     \* ticks a volatility needs (20)
          LastDay,      \* bound on the clock
          MaxBatches    \* bound on the calls that record

ASSUME HistoryAssumption ==
    /\ TickTokens \in Seq(Nat)
    /\ {Retention, MinTicks, LastDay, MaxBatches} \subseteq Nat

TickMarkets == DOMAIN TickTokens

VARIABLES rows,      \* committed: a sequence of [market, token, ts, batch]
          staged,    \* the rows of the open transaction
          todo,      \* the rows it has still to insert
          writing,   \* "none", "one" (record_market), "many" (record_markets)
          day,
          batches,
          kept,      \* history: committed batches of record_markets, with day and size
          dropped,   \* history: batches of record_markets that were rolled back
          swept      \* history: the latest cutoff of cleanup

tickVars == <<rows, staged, todo, writing, day, batches, kept, dropped, swept>>

TickInit ==
    /\ rows = << >> /\ staged = << >> /\ todo = << >> /\ writing = "none"
    /\ day = 0 /\ batches = 0 /\ kept = {} /\ dropped = {} /\ swept = 0

MarketRows(m, d, b) ==
    [t \in 1..TickTokens[m] |-> [market |-> m, token |-> t, ts |-> d, batch |-> b]]

RowsOf(markets, b) ==
    FoldLeft(LAMBDA acc, m : acc \o MarketRows(m, day, b), << >>, SetToSeq(markets))

\* The lock is taken and the rows of the markets are prepared.
RecordTicks(markets, how) ==
    /\ writing = "none" /\ batches < MaxBatches
    /\ how = "one" => Cardinality(markets) = 1
    /\ writing' = how /\ todo' = RowsOf(markets, batches + 1) /\ batches' = batches + 1
    /\ UNCHANGED <<rows, staged, day, kept, dropped, swept>>

\* As InsertTick, each statement of a batch committed by itself.
InsertTickAlone ==
    /\ todo # << >> /\ todo' = Tail(todo)
    /\ rows' = Append(rows, Head(todo))
    /\ UNCHANGED <<staged, writing, day, batches, kept, dropped, swept>>

InsertTick ==
    /\ todo # << >> /\ todo' = Tail(todo)
    /\ IF writing = "many"
       THEN staged' = Append(staged, Head(todo)) /\ UNCHANGED rows
       ELSE rows' = Append(rows, Head(todo)) /\ UNCHANGED staged
    /\ UNCHANGED <<writing, day, batches, kept, dropped, swept>>

CommitTicks ==
    /\ writing # "none" /\ todo = << >>
    /\ rows' = rows \o staged /\ staged' = << >> /\ writing' = "none"
    /\ kept' = IF writing = "many"
               THEN kept \cup {[batch |-> batches, ts |-> day, size |-> Len(staged)]}
               ELSE kept
    /\ UNCHANGED <<todo, day, batches, dropped, swept>>

\* A statement fails, or the process ends: the transaction is rolled back.
Rollback ==
    /\ writing # "none"
    /\ staged' = << >> /\ todo' = << >> /\ writing' = "none"
    /\ dropped' = IF writing = "many" THEN dropped \cup {batches} ELSE dropped
    /\ UNCHANGED <<rows, day, batches, kept, swept>>

\* As Expired, of the cutoff's day too.
ExpiredToday(r) == r.ts <= day - Retention

Expired(r) == r.ts < day - Retention

Cleanup ==
    /\ writing = "none"
    /\ rows' = Kept(rows, {r \in ToSet(rows) : ~Expired(r)})
    /\ swept' = IF day > Retention THEN day - Retention ELSE 0
    /\ UNCHANGED <<staged, todo, writing, day, batches, kept, dropped>>

NextDay ==
    /\ writing = "none" /\ day < LastDay /\ day' = day + 1
    /\ UNCHANGED <<rows, staged, todo, writing, batches, kept, dropped, swept>>

TickNext ==
    \/ InsertTick \/ CommitTicks \/ Rollback \/ Cleanup \/ NextDay
    \/ \E ms \in (SUBSET TickMarkets) \ {{}}, how \in {"one", "many"} : RecordTicks(ms, how)

(***************************************************************************)
(* Queries: by market, of whatever token.  Nothing in the server asks.     *)
(***************************************************************************)
Ticks(m, since, until) ==
    Kept(rows, {r \in ToSet(rows) : r.market = m /\ r.ts \in since..until})

\* Ticks of one time stay in the order they were inserted in.
InTime(ticks) ==
    LET before(i) == {j \in DOMAIN ticks :
                         IF j < i THEN ticks[j].ts <= ticks[i].ts ELSE ticks[j].ts < ticks[i].ts}
    IN  [n \in DOMAIN ticks |->
            ticks[CHOOSE i \in DOMAIN ticks : Cardinality(before(i)) = n - 1]]

GetHistory(m, since, until) == InTime(Ticks(m, since, until))

\* As GetRecent, in the order of time instead of against it.
GetRecentOldest(m, n) ==
    LET ticks == GetHistory(m, 0, day)
    IN  SubSeq(ticks, 1, IF n < Len(ticks) THEN n ELSE Len(ticks))

\* The newest n, turned round.
GetRecent(m, n) ==
    LET newest == Reverse(GetHistory(m, 0, day))
    IN  Reverse(SubSeq(newest, 1, IF n < Len(newest) THEN n ELSE Len(newest)))

\* realized_volatility: the ticks its log returns are taken between, those with a
\* price, when there are enough of them.
Returns(m, days) ==
    LET ticks == GetHistory(m, day - days, day)
        priced == Kept(ticks, {r \in ToSet(ticks) : <<m, r.token>> \notin ZeroPriced})
    IN  IF Len(priced) < MinTicks THEN << >>
        ELSE [i \in 1..(Len(priced) - 1) |-> <<priced[i], priced[i + 1]>>]

Count(b) == Cardinality({i \in DOMAIN rows : rows[i].batch = b})

\* A cycle's ticks are all in the table from their commit until they have expired
\* at a cleanup, and a cycle that was rolled back has left none; a tick older than
\* the last cleanup's cutoff is gone.
HistoryKept ==
    /\ \A k \in kept : k.ts >= swept => Count(k.batch) = k.size
    /\ \A i \in DOMAIN rows : rows[i].ts >= swept /\ rows[i].batch \notin dropped

\* Asked for its last ticks a market shows, for as many as there are, those of its
\* last cycles, in their order and none left out; and the returns of a market with
\* one token are between one cycle and the next that was recorded for it.
HistoryShown ==
    \A m \in TickMarkets :
        LET batchesOf(ticks) == {ticks[i].batch : i \in DOMAIN ticks}
            all == batchesOf(Ticks(m, 0, day))
            between(b, c) == {x \in all : b < x /\ x < c}
        IN  /\ \A n \in 1..3 :
                  LET recent == GetRecent(m, n)
                  IN  \A i, j \in DOMAIN recent : i <= j =>
                        /\ recent[i].batch <= recent[j].batch
                        /\ between(recent[i].batch, recent[j].batch) \subseteq batchesOf(recent)
                        /\ j = Len(recent) => recent[j].batch = Max(all)
            /\ TickTokens[m] = 1 =>
                  \A i \in DOMAIN Returns(m, Retention) :
                      LET pair == Returns(m, Retention)[i]
                      IN  /\ pair[1].batch < pair[2].batch
                          /\ between(pair[1].batch, pair[2].batch) = {}
=============================================================================
