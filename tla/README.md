# TLA+ models of the arbitrage system

This directory holds TLA+ modules that model the trading core of the Rust
workspace (`crates/`) and the state-changing commands of the vendored
`polymarket` command line, the TLC configurations that check them on small
instances, and proofs of their main theorems that TLAPS checks. Paths below are
relative to the repository; `engine_task.rs` is
`crates/arb-api/src/engine_task.rs`, and so on.

To check: `tlc -config X.cfg M.tla` for each run of section 3, `tlapm
M_proofs.tla` for each proof module. `PROJECT.json` lists, for each definition,
the source lines it models; for each property, the mutant of the code it
catches; and, for each hazard of the code, the properties that cover it.

## 1. The system

The process that matters is `arb-api`: an axum server, one **engine task**, an
autosave task, a WebSocket feed, and shared state (`AppState`, state.rs). A second
front end, `arb` (arb-daemon), is a command line tool that has an engine of its
own. Both keep their files in one directory, with the vendored command line.

| Component | State it keeps | Operations | Modules |
|---|---|---|---|
| Kill switch (kill_switch.rs), mirror (state.rs, control.rs) | `active`, the file `KILL_SWITCH`, an atomic Boolean | activate, deactivate, check (reload from the file) | TradingHalt |
| Risk limits (limits.rs) | daily PnL and its day, open order count, a copy of the configuration | check_opportunity, record_execution, daily reset | RiskGate, TradingHalt, PositionBook |
| Position tracker (position_tracker.rs) | positions by token | apply_fill, exposures, save, load, write-ahead log | PositionBook, RiskGate, StateFiles, FillLog |
| Engine task (engine_task.rs) | last scan, pollers, executor, detectors | load, refresh, scan, refine, check, execute, record, kill on loss | MarketLoad, MarketScan, Offers, RiskGate, TradingHalt |
| Daemon engine (arb-daemon/src/engine.rs) | its own tracker, switch and correlation pairs | run loop, Ctrl+C | DaemonEngine, Offers |
| Market cache and poller (market_cache.rs, poller.rs) | markets stamped with a generation; last poll times | paged load, update, changed_since, is_due, fetch | MarketLoad, MarketScan |
| Structural detectors, edge.rs, correlation.rs | correlation pairs | books and prices to offers, refinement | Offers, MarketScan |
| Single-market strategies (arb-strategy) | windows of depths and volumes | scan | Signals |
| Order book arithmetic (orderbook.rs, slippage.rs, vwap_cache.rs) | memoized estimates | walk, split, tiers | Pricing, Offers |
| Live executor (executor.rs) | orders at the exchange | post with retry and timeout, cancel_all | LiveOrders, RiskGate |
| Paper executor (paper_trade.rs) | positions nothing reads | fill at a worse price | RiskGate |
| HTTP routes (routes/) | none of their own | kill, resume, orders, closes, configuration, sandbox, stress | TradingHalt, PositionBook, RiskGate, ConfigFile, Sandbox, RiskStudies |
| Persistence (main.rs, helpers.rs, config.rs, price_history.rs) | positions.json, history.json, config.toml, a table of ticks | load, autosave, save at shutdown; record, clean up, query | StateFiles, ConfigFile, PriceHistory |
| WebSocket feed (ws_feed.rs, local_book.rs) | local books, retry counter | connect, subscribe, apply, notify | BookFeed |
| Dashboard clients (ws.rs) | a receiver and two tasks a client | forward, read, abort | WsClients |
| Quote manager, rate limiter, circuit breaker, write-ahead log | quotes; tokens; samples; lines | used by the repository's tests only | QuoteManager, RateLimiter, CircuitBreaker, FillLog |
| Metrics, monitors (metrics.rs, arb-monitor) | profit, peak, alerts sent, predictions | record, read | Metrics, Monitoring |
| VaR, stress tests (arb-risk, routes/stress.rs) | none | losses of a portfolio | RiskStudies |
| Simulation (arb-simulation) | particles, estimates, agents | update, resample, combine, step | Estimation, Agents |
| `polymarket` command line | one key file; approvals; its own binary | create, import, reset, setup; approve; upgrade; post orders | CliWallet, CliCommands |

### How they interact

* Everything that trades in `arb-api` goes through one `Mutex<RiskLimits>`. The
  engine locks it to check an opportunity, lets it go to execute (which may take
  many seconds), and locks it again to record. Routes do the same around their
  own reads and writes. So each critical section is atomic, and everything
  between two of them is not.
* Trading is halted by a file, by a flag behind the mutex, and by an atomic
  Boolean beside it. The file is written by several processes.
* The engine is the only writer of the market cache; routes read it. The feed
  fills local books and wakes the engine through a bounded channel, holding a
  write lock while the channel is full; the engine drains it only while it is
  not killed.
* The executor talks to the exchange over a network that may lose a request,
  lose an answer, or deliver a request the client has given up.
* Two savers write positions and history while the engine trades.
* Detectors price offers through a memo of book walks that is cleared each tick.

### What is hard about it

Interleavings of requests with the engine between two critical sections; three
copies of the halt, written one after the other, by several processes, with
writes that may fail and restarts in between; a retry of an order that may have
been taken; a timeout that races a late answer; books that fail to be fetched one
at a time; a list that changes while it is paged; a check against counters that
are updated only after execution; files written in place; windows pruned or
grown only when something looks; walks that end exactly at a level. The
`hazards` of `PROJECT.json` have each at its line.

## 2. Modules

Each module says in its head comment what it leaves to the others. An action is
one critical section, one file operation or one message; history variables are
marked `history` at their declaration and appear in no guard of the code's
actions (bounds apart).

### Halting: TradingHalt, HaltContract, DaemonEngine

`TradingHalt` has the three copies (`flag`, `active`, `mirror`), the daily PnL
and its day, the three copies of the loss limit, the engine's program counter
and one program counter per HTTP request in progress. `KillSwitchOn` then
`KillMirror` are the two halves of the kill route, since `control.rs` stores the
mirror after it has let the mutex go; `EngineDecide`, `EngineExecute`,
`EngineRecord` are check, execution and record of one opportunity; a step of the
engine that waits for the exchange may never be taken (section 3, Fairness). `CliKill` and
`CliResume` change the file only. `Restart` covers crash and clean exit: memory
is lost, the file and config.toml stay, and `main` reads them again. With
`IoFaults` the switch file or the configuration may fail to be written. What
`check_opportunity` decides on sizes and counts is left open here.

`HaltContract` is the promise without the mechanism: a trade is admitted only
while trading is not blocked, so that at most one completes afterwards.
TradingHalt implements it under `blocked <- Blocked` (the file exists or the
daily loss is exceeded), `inflight <- (pc = "exec")`, `late <- overshoot`, and so
does `DaemonEngine`, the loop of `arb run`: a task with its own memory of the
switch, its own kill on loss, and a Ctrl+C it listens for in the select between
two ticks. Other processes create and delete the file at any moment.

### Money: PositionBook, RiskGate

`PositionBook` has positions by token with size, average entry and current
price; realized profit; and one record per request in progress, holding the
position it read under its first lock. `Record` is the second lock. `close_all`
keeps the lock and is one action. History: `cash`, what fills really paid and
cost; `raced`, a report was recorded for a position that had changed meanwhile.
A buy whose new average is not an integer is not among the inputs, so that
`Decimal`'s division is exact.

`RiskGate` is `check_opportunity` in full (order count, total cap with its size
reduction, market caps over the opportunity's markets), the engine's check,
execution and record, both executors' reports, and manual orders in between. A
live execution fills each leg anywhere from nothing to all of it; its price is one
amount of the exchange's answer over the other, whatever was checked, the leg's own
where an amount is missing, and 0 where posting failed, as `executor.rs` reports
it. The whole report may be lost. History: `drift`, what the exposure gained since
the last check that granted something, and that no check looked at.

### The exchange: LiveOrders, BookFeed, MarketLoad

`LiveOrders` is `execute_opportunity` of the live executor, leg by leg: post,
retry after a transient error, one timeout around all attempts, reports,
`cancel_all` after a failed leg; a token id that cannot be read ends the execution
at once, past the other legs and the cancellation (`Unparsed`). The exchange and
the network are external: `wire` holds requests sent and not yet seen, `orders`
those taken. History: `lost`, the attempts whose answer never came to the client.

`BookFeed` is the feed task from connection to connection: subscribe, apply
snapshots and changes, notify, back off; the exchange sends each subscribed token
a snapshot and then every change, until the connection drops. `net` is what is
under way. The engine drains notifications at the head of its loop, where it may be
killed; then a tick begins, which ends when its calls return.

`MarketLoad` is the first load: pages of a list that shrinks meanwhile, filters,
classification, one fetch a token under a semaphore, and the distribution of
the books to their markets.

### Finding offers: MarketScan, Pricing, Offers, Signals, Sandbox

`MarketScan` says which markets a tick judges: due markets are refreshed one by
one, the markets with a generation above `last_scan_gen` are given to the
detectors. A fetch brings back any subset of the books of a market, in order.

`Pricing` has the walks over a book as functions, with the best way of taking a
size as their reference. `Offers` has the structural detectors with prices,
sizes, fees, the memo of walks and the refinement, and five programs around
them: the server's engine, the sandbox of its dashboard, the engine of `arb run`,
`arb scan` and `arb scan --all`. They differ in the correlation pairs they start
with (the file; the file merged with detected pairs; none), in the memo, in what
they leave out and in what they show. `file` is what the user wrote, `graph` what
the program made of it: nothing, after one slip.

`Signals` has the six single-market strategies with their windows. Books and tokens
are looked up by position, apart: after a fetch that lost books, a signal is priced
from one outcome's book and bets on another's token. The first scan of a loop is
given all markets, a later one those that changed, so that siblings may be missing.
`found` is what the detectors find, `signals` what the refinement and the minimum
leave of it. `Sandbox` is the dashboard's trial of a changed configuration, which
scans everything with empty windows, refines for detect and sweeps and not for
explain, and its replay of the history.

### State on disk: StateFiles, ConfigFile, PriceHistory, FillLog

`StateFiles`: a trade is a number; the tracker is the set of trades recorded, and
each saver goes through temporary file, rename, and history written in place.
A write may fail or stop half way, the process may crash anywhere, and a
restart loads what it finds, or starts with nothing where it cannot (main.rs:61;
history: `passedOver`, what such a start leaves on the disk until the next save).
`ConfigFile` is PUT /api/config, whose handlers overlap between the memory and the
file, and the load at the next start. A text is a few pieces, written one after the
other; a save may end after any of them, and a prefix parses if only the end of
`[alerts]`, the last section, is missing. Two handlers may leave any mixture.
History: `disturbed`, `spoilt`, which of the two happened.
`PriceHistory` is the table of ticks with its transactions, clean-up and
queries. `FillLog` is the write-ahead log, whose lines are two writes each.

### Guards and reports

`QuoteManager`, `RateLimiter`, `CircuitBreaker`, `Monitoring`, `Metrics`, `WsClients`
are one small machine each; `Guards` runs any one of them, `MarketLoad` or a
machine of the two groups around it, and `Analysis` does the same for `Offers`,
`Sandbox`, `RiskStudies`, `Estimation` and `Agents`: they share no state, so one
run of each composition checks what separate runs would.

### Command line: CliWallet, CliCommands

`CliWallet` has the one key file, overlapping runs of create, import, setup and
reset that may end at any step, and what each tells the user. `CliCommands` has
the transactions of approve, which the chain may revert, the two moves of upgrade
with a move back that may fail and processes killed anywhere (history:
`stranded`), and the batch of post-orders.

## 3. Runs

| Run | What it asks | Instance |
|---|---|---|
| Halting | a stored kill stands everywhere; at most one trade after a block, which is HaltContract; a file that stays ends trading, unless an execution hangs; a loss that stays kills again | 2 requests, live mode, command line, restarts, faults, `FairSpec` |
| BookBalance | profit, cash and cost agree until a report is recorded on a stale position | 1 token, 2 requests (symmetric), prices 1..3, 2 lots |
| GateCaps | caps and order counts, both modes | 2 tokens in 2 markets, 3 opportunities, cap 300, market cap 200, 2 orders, fills at 60, 20, 70 or 0, manual orders at 40 and 20 |
| OrderFates | reports answer for orders; retries, cancellation, return | 2 legs of 2 lots, 1 retry, 1 execution, `FairSpec` |
| ScanMarkets | scans are exact; legs within a market are priced from their own books | an event of 2 binary markets, asks 8 or 12 or none, 7 generations |
| StateFiles | what is saved stays; what is recorded gets saved | 3 trades, history of 2, two savers, faults, `FairSpec` |
| DaemonRun | `arb run` keeps HaltContract; Ctrl+C stops it unless it was killed or hangs in a call | 2 opportunities a tick, edges -1 and 1, limit 1, faults, `FairSpec` |
| FeedBooks | local books become the exchange's; the write lock is released while ticks end | 2 tokens, one subscribed late, 2 levels, 1 channel slot, 2 messages under way, `FairSpec` |
| GuardsHold | the promise of each small machine | section 2; bounds below |
| Analysis | offers, pairs, walks, signals, sandbox, studies, estimates, agents | 4 markets of 2 tokens, 4 kinds of book, 3 correlation files, 5 readings; bounds below |
| HaltCliResume (violation) | deleting the file resumes a running engine | 1 request, `FairSpec` |
| EdgeRefined (violation) | the refined edge of a complete set is real | as Analysis |

### What they show

* *Halting, DaemonRun*: neither engine completes more than the one trade that had
  passed its check, whatever else kills, resumes, fails or restarts meanwhile;
  `HaltContract` is implemented by both.
* *BookBalance*: the money balances until a report is recorded on a position that
  changed meanwhile.
* *GateCaps*: the cap is not kept, since nothing looks at manual orders, at fills
  off the checked price or at held lots whose price changes with a fill. `CapsHold`
  says that nothing else passes it: the exposure, with what is in execution, is
  within the cap and `drift`, however executions and manual orders interleave.
  And it says which market a position is charged to: its own, or on paper the first
  one of an opportunity that trades it (paper_trade.rs:136).
* *OrderFates*: reports do not invent fills; a report answers for every order of its
  leg but those whose answers were lost (`ReportsAnswerForOrders`), so that retries
  double an order only there; and what a failed execution leaves open was on the wire
  when the cancellation was carried out.
* *ScanMarkets, LoadSound*: no refreshed market is missed or judged twice; a load
  misses at most one market for each that left the list.
* *StateFiles*: positions.json never loses a trade it held, but for those a start
  could not load: it begins with none, and the next save writes that over them.
* *FeedBooks*: after a reconnection no change of the gap survives in a local book.
* *GuardsHold*: `IndexesAgree` (a kill of a market reaches all its quotes),
  `BudgetHolds` (from any moment on, no more than a burst and the refill),
  `ReplayLosesLittle` (at most two fills for each append cut short), `TripsOnRecent`
  (the breaker judges its windows, no less and no more), `MonitorsHold` (alerts
  spaced, model health of the window, drawdown from the peak), `ClientsServed` (no
  holes, no orphan task), `LoadSound`, `WrittenComesBack` (configuration and ticks
  over failures and restarts, with the two ways an unvalidated configuration gets
  into a start, and the queries show the newest in order), `KeysKept` (a key the
  user was told of is not overwritten), `CommandsHold` (approve set claims what was
  mined, which is approved unless it reverted; the program is never lost, and is
  under its name unless an upgrade was stranded between its moves).
* *Analysis*: `DetectedEdgeIsReal` (the edge a complete set is detected at is the best
  its books give this tick: not the number the risk check gets, which edge.rs
  overwrites; that is EdgeRefined), `PairsAsDeclared` (related markets are traded as
  the user's file relates them; where it says nothing of them, or has a slip, only
  the daemon and the sandbox trade them, by their guess), `WalksAreBest`,
  `SignalsHold` (what detectors with a memory bet is computed here again from all
  the scans, the current one apart from those before; a bet that is kept fills from
  the book it was priced from, which is the token's own if that came),
  `SandboxHonest` (detect and sweeps show what the engine kept, explain what it
  found, where the two can be compared: not strategies with a memory or a model,
  and not a stale price judged without some siblings), `StudiesHold`,
  `EstimatesSound`, `BudgetsHold`.

Every property has at least one mutant: a plausible slip in a mapped definition
under which TLC finds the property violated. The type invariants of TradingHalt
and LiveOrders are proved and in a run; those of the other modules hold on their
run's instance too.

### Bounds, and why they are enough

* *Two requests* give every overlap of a kill, a resume, an order and a close
  with one another and with the engine; the halves that race are two steps long,
  so a third request adds no new kind of overlap. Theorems hold for any number.
* *Opportunities per tick* (2): the second meets a block that came during the
  execution of the first.
* *PnL* within its bound: a loss can exceed the limits and be made up again.
* *MaxHeld, CashBound, MaxPrice* (PositionBook): enough for two entry prices, an
  average of two lots, a partial sale at a gain and at a loss. `UntilRaced` stops
  exploring after the first stale report: the invariant says nothing from there
  on.
* *Caps* (RiskGate): every branch is reached: approved, reduced to the total cap,
  reduced to a market's, rejected for either, no room for orders; fills above and
  below the checked price; a position revalued by another's fill. `MaxDrift`: no
  manual purchase begins from a drift above 100 ticks, a third of the cap.
* *Legs, lots, retries* (LiveOrders): two legs let one fail after the other was
  posted; two lots make a partial fill; one retry makes a duplicate. With
  `MaxRuns` executions done the client stops, so deadlock is not checked there.
* *MaxGen* (MarketScan): after the boot (1 + 2 generations) and the first tick
  (2), two refreshes remain: both markets in one tick, or one in each of two
  ticks. With the bound used up the engine goes on ticking.
* *StateFiles*: three trades with a history of two, so that the history forgets;
  saves by both savers can meet between any two steps.
* *BookFeed*: two messages under way and one channel slot make the feed wait with
  the lock held; two tokens let it hold one book while the other changes; the
  reconnection counter stops at two (`MaxRetry`), so that it can be reset and grow again.
* *Guards*: five quotes over two markets; a clock of nearly three windows and a
  bucket of two; five fills (a glued line takes two); four samples over windows
  of one and two; a channel of two slots and four events (a client lags); pages
  of two over five markets with two delisted; four configurations put by two
  handlers, of texts of two and three pieces, so that a shorter one leaves the end
  of a longer one behind it; three batches over four days with retention of one; three keys, two
  shells; two upgraders.
* *Analysis*: books of up to three levels with a walk of two (a walk that runs
  out, ends at a level, or within one); sizes up to one more than any offer
  asks for; windows of two and three over four scans, which is one more than the
  longer window, of five readings: quiet and wide; thin asks and a spike of volume; an
  old price far from its siblings, the second book lost; about to resolve, the first
  book lost; and one with no book at all; a request asks when
  none is answered, since answers do not depend on one another; series of up to five; three
  particles with six parts of weight; crowds of up to three agents, four steps.

Deadlock is not checked where a bound, a finished execution or a machine that
has said all it has to may stop the behaviour (the cfg says so).

### Fairness

Not every await of the engines is bounded: `cancel_all` (executor.rs:389) has no
timeout, and neither have the fetches of books (poller.rs:482, engine_task.rs:382).
So fairness is assumed only of the steps between such calls, which tokio takes when
they are ready, and a property that needs the calls to return has it as a premise.

* `TradingHalt!FairSpec`: weak fairness of `EngineStep`, every step of the engine task
  but the three that wait for something outside (building the executor, the fetches
  of a tick, an execution), and of the second half of a request once its first half
  is done. Nothing is assumed of kills, resumes, orders, the command line or
  restarts. `HaltQuiesces` has the premise `ExecutionsReturn`: an engine that hangs
  in an execution never comes to look at the file. The premises of `LossHalts`: an executor is built, and
  ticks reach their loss check, which a tick that hangs, or in which no market
  changed, does not (engine_task.rs:409-413).
* `LiveOrders!OrdersFairSpec`: the client goes on when it can, its timer fires, and the
  cancellation is answered. The last is an assumption on the exchange, not on
  the code: `cancel_all` has no timeout (executor.rs:389). Nothing is assumed of
  the exchange's answers to posts.
* `DaemonEngine!DaemonFairSpec`: the engine's next step between two calls;
  `StopsOrKilled` has the premise `CallsReturn`.
* `BookFeed!FeedFairSpec`: the feed task receives what has arrived, applies it and
  notifies when there is room, and the engine drains at the head of its loop when it
  is not killed. Not that a connection ever succeeds, a subscription is heard, or a
  tick ends: `LockIsReleased` has the premise `TicksEnd`.
* `StateFiles!FairSpec`: each saver goes on; the autosave timer fires.

## 4. Proofs

TLAPS proves these for all values of the constants that satisfy the modules'
assumptions, which are the types of constants; TLC evaluates them in the runs.

| Theorem | Statement | Inductive invariant |
|---|---|---|
| TradingHalt_proofs!TypeCorrect | `TypeOK`, with `Undecided` | an opportunity in execution is still counted in `left`, or the decrement after it could leave `Nat` |
| TradingHalt_proofs!KillStands | `KillStandsEverywhere` | `KillInv`: an ordered kill is in file and memory; a standing one is in the mirror and no older resume is pending, which could clear the mirror later |
| TradingHalt_proofs!ImplementsContract | `Spec => ContractSpec` | `TypeOK`; every action is admitted by an action or a stutter of the contract |
| TradingHalt_proofs!AtMostOneTrade | `AtMostOneTradeWhileBlocked` | from the contract's theorem, through the refinement |
| HaltContract!LateBounded | `AtMostOneLate` | `LateInv`: late trades plus the one in flight are at most one |
| Safeguards_proofs!DaemonKeepsContract | `DaemonSpec => DaemonContract` | `CountInv`: late trades are counted only while trading is blocked |
| PositionBook_proofs!BooksBalance | `BalancedUntilRaced` | `TypeOK` and the balance itself; a buy at the exact average keeps size times average plus cash (`BuyCost`), a sale within what is held moves price times size into cash and the difference to profit (`SellCost`) |
| RiskGate_proofs!TypeCorrect | `TypeOK`, with the parts of an execution | the opportunity under way is one of the inputs, and its legs are those that were granted |
| RiskGate_proofs!OrdersWithinLimit | `OpenOrdersWithinLimit` | `OrderRoom`: an execution keeps the room its check found, since only the engine adds to the count |
| RiskGate_proofs!GrantsFitTotalCap | (`GrantFitsTotal`, a step of the next) | a product of sizes and prices divided and multiplied back (`ReducedFits`), over sums that are natural numbers because every position and leg is (`SumUnwinds` and the sums of FoldFacts) |
| RiskGate_proofs!CapsAlwaysHold | `CapsHold` | `CapsInv`: the types and `CapPassedOnlyByDrift`. What a fill adds to the exposure is what the check counted for it, and what the history counts as unchecked, leg by leg over a running fold; a grant fits (`GrantsFitTotalCap`) and starts the history anew |
| EngineTask_proofs!StampsAgree, ScansAreExact | `ScanIsExact` | `ScanInv`: stamps lie in 1..generation; after a first scan the stored markets are those stamped above it; before it, every known market is due or stored |
| EngineTask_proofs!LegsFromOwnBooks | `MarketLegsOwnBook` | `LegsInv`: the books of a market are those of its tokens in order, some left out; as many books as tokens leave out none |
| EngineTask_proofs!OrdersTypeCorrect | `OrdersTypeOK` | itself |
| EngineTask_proofs!CancelLeavesLate | `OpenAfterFailureIsLate` | a leg reported with no fill is reported failed, so a failed execution cancels; after it the wire holds only late orders |
| EngineTask_proofs!FillsAreReal | `PartialFillsAreReal` | `FillInv`: an answer that is waited for, and a report, stand for lots some order of that name traded; what was traded stays traded |
| EngineTask_proofs!ReportsAnswer | `ReportsAnswerForOrders` | `HeardInv`: a name is used once; the orders of a leg under way that were heard of are the one its answer is about, or none; earlier attempts were lost or refused, and what is still on the wire is not waited for |
| Safeguards_proofs!RateBudget | `BudgetHolds` | `RateInv`: what is granted and what is left in the bucket are together within the burst and the refill up to the last refill |
| Safeguards_proofs!QuoteIndexesAgree | `IndexesAgree` | with the types of both maps |
| Safeguards_proofs!PositionsSaved | `SavedStays` | `SaveInv`: who saves holds the lock; a temporary file about to be renamed is the whole tracker, which holds what the file holds, except for what the process could not load |
| Safeguards_proofs!EveryClientServed | `ClientsServed` | `ServedInv`: what a client was sent counts up from where it joined to where its receiver stands |
| Safeguards_proofs!WalletKeysKept | `KeysKept` | `WalletInv`: while one run changes the file no other does, and what it would overwrite was given up |
| Safeguards_proofs!CommandsAlwaysHold | `CommandsHold` | `ApproveInv`: the steps before the current one have been mined; `UpgradeInv`: where the program and its backup are at each step of an upgrade, and why it is not under its name; `BatchInv`: what was posted is a prefix of the batches |
| Safeguards_proofs!BreakerJudgesRecent | `TripsOnRecent` | `BreakerInv`: samples are in clock order, and a pruned queue is the end of everything recorded that is within its window |
| Safeguards_proofs!LogLosesLittle | `ReplayLosesLittle` | `LogInv`: every line that was cut short is counted, and an unfinished tail is one more loss that is due (`Due`) |
| Safeguards_proofs!FeedFollowsExchange | `BooksFollowExchange` | `FeedInv`: applying the messages under way, in their order, to a served token's local book gives the exchange's book |
| Safeguards_proofs!MonitorsAlwaysHold | `MonitorsHold` | `MonitorsInv`: the records kept are an end of all that were made, and what was dropped is older than the long window; `MetricsInv`: profit, peak and drawdown are those of the whole history |
| Safeguards_proofs!LoadAlwaysSound | `LoadSound` | `LoadInv`: every delisting lets at most one market slip past the pages; the permits out are the fetches under way |
| Safeguards_proofs!WrittenAlwaysComesBack | `WrittenComesBack` | `ConfigInv`: without an overlap one handler at most is between memory and file, what it writes is in the memory once it opens the file, and the file is a beginning of that text (`OwnFile`); `HistInv`: rows come in the order of the calls, those of a transaction under way last |
| Safeguards_proofs!GuardsKeepTheirSpecs, GuardsAlwaysHold | all invariants of run GuardsHold | a step of the composition is a step of one guard and a stutter of the others |
| Analysis_proofs!WalksAlwaysBest | `WalksAreBest` | `Booked`: what is walked is a list of sorted snapshots; with sorted prices, moving a share to an earlier level never costs more (`EarlierCostsLess`), so the walk is the cheapest of all ways of taking the size |
| Analysis_proofs!DetectedEdgeAlwaysReal, PairsAlwaysAsDeclared | `DetectedEdgeIsReal`, `PairsAsDeclared` | `OffersInv`: a tick starts with an empty memo of walks, so what it memoizes is of this tick's books; the graph is one its program makes of the user's file; offers that wait for their refinement are real, and pairs among them declared or guessed |
| Analysis_proofs!SignalsAlwaysHold | `SignalsHold` | `SignalsInv`: the window of a detector that was built is the end of all that was scanned since the loop began (`PushedIsTheEnd`), so that without its last reading it is what was scanned before (`WindowIsBefore`); the signals are what refinement, which changes cost and edge only (`RefinedKeeps`), leaves of what the detectors find |
| Analysis_proofs!SandboxAlwaysHonest | `SandboxHonest` | `SandboxInv`: `SignalsInv` and the honesty of the last answer; detectors that saw one scan find no change of depth or volume, the others look at nothing the trial does not have (`TrialShows`), and the same minimum leaves the same of the same (`RetainedAlike`); the verdicts of a replay are those of each report after the kept ones before it (`ReplayIs`) |
| Analysis_proofs!StudiesAlwaysHold | `StudiesHold` | `StudiesInv`: itself, with the types. An ascending order of a series exists (`OrderExists`); at most k places of it are below its place k + 1; the sum of a tail is bounded by its last place, and a sum of squares by the square of the sum |
| Analysis_proofs!EstimatesAlwaysSound | `EstimatesSound` | `EstimatesInv`: what a filter's last resampling copied is each particle's share of the weight, rounded down or up (`CopiesAreShares`); of a run's batches only the last can be precise enough, and the run has stopped if it is |
| Analysis_proofs!BudgetsAlwaysHold | `BudgetsHold` | `AgentsInv`: what an agent has left and what it traded are together its budget, the sums over its orders being running ones |

How the proofs are laid out. Each invariant is a conjunction of named parts; the
theorem that it is kept has one step per action. Facts that need an induction
over data (what a sum over a set, a filter of a sequence or a running fold comes
to) are in `FoldFacts`: the theorems of induction that take an operator cannot be
instantiated, but one about a *set* of numbers that holds 0 and each successor
can, so each induction is over the set of lengths (or sizes of sets) for which
the fact holds. FoldFacts is instantiated with the operation a module folds
(`Sums == INSTANCE FoldFacts WITH ...`), and `Filter` has the filter whose facts
it proves.

What the theorems assume beyond the modules' assumptions: nothing. Those
assumptions are of types and of finiteness (tokens and
kinds of opportunity are finite sets; the versions of the program differ from the
marks of a file), with these about the code's inputs:

* The markets of a list are distinct, a market's tokens are distinct, and the
  legs of an opportunity name the markets its `markets` lists in the same order.
  The last is how every detector builds them but deadline.rs, whose legs are
  [later, earlier] beside the markets [earlier, later]; only `arb scan` runs that
  detector, and it executes nothing.
* Fetched snapshots are sorted, with prices of at least a tick and sizes that are
  not negative (`Books`): poller.rs sorts every book it builds; the exchange
  answers with no other prices. Markets flagged neg-risk are markets.
* A configuration and its overrides give `ConfigTypes`: a spread, a divergence
  and a minimal edge are unsigned in config.rs; the cap and the drop may be
  anything, since nothing validates overrides. So does a swept value.
* Books of a reading are those of its market's tokens in their order, some left out.
* An agent is one of `AgentKinds`, a simulation starts between a cent and 99, and
  tails are of at most one period in two; deviations are not negative.

`KillStands` needs no assumption on the file system: what it says begins when the
file is there. `BooksBalance` says nothing after a race.

Only model-checked: liveness (`HaltQuiesces`, `LossHalts`, `ExecutionReturns`,
`RecordedGetsSaved`, `StopsOrKilled`, `LockIsReleased`), because fairness and
ENABLED are out of the prover's reach. Every invariant and every action property
of the passing runs is a theorem.

No module declares a RECURSIVE operator.

## 5. Plan

What would come next, in the order of importance:

1. One gate: TradingHalt and RiskGate composed, so that a kill during the
   execution of an opportunity that fills the cap is one behaviour.
2. A poisoned mutex: a panic inside a critical section, and the supervisor that
   sees the engine task end.

## 6. Divergences met while modelling

Checked by a violation run:

* `HaltCliResume`: kill_switch.rs:19 says deleting the file resumes; the engine's
  loop looks only at the mirror, which nothing clears when the file goes.
* `EdgeRefined`: edge.rs:51 says `net_edge` is updated from the VWAPs of the legs;
  edge.rs:82 takes the gross edge at the best prices less the fees of all shares.

Stated in the modules under "What a comment says", without a run:

* `MirrorAgreesAtRest`: a kill and a resume may store the mirror in the opposite
  order of their switch changes (control.rs:24, 47).
* `ClosedOnce`: two closes of a position both book its profit (positions.rs:76).
* `HeldIsExposed`: a failed leg is recorded with price 0, which becomes the price
  of the position (position_tracker.rs:124).
* `LegTradedOnce`: an order whose answer was lost is sent again as a new order
  (executor.rs:167).
* `EventLegsOwnBook`: an event's first token may be priced from the other token's
  book (multi_outcome.rs:126).
* `CtrlCStops`: a killed daemon does not listen for Ctrl+C (engine.rs:262).
* `TrendsOverLookback`: an agent's lookback is one step short (agent_model.rs:16).

Other divergences, visible in the models:

*Halting and risk*

* place_order looks at the mirror only, so `arb kill` does not stop manual orders
  (order.rs:35); manual orders are checked against no cap (order.rs:103).
* A kill whose file could not be written is undone by the next check, which
  trusts the file (kill_switch.rs:62).
* After a failed live start and a resume the engine trades on paper in live mode
  (engine_task.rs:237-247).
* The day changes only when a trade is recorded, so a tick after midnight may
  judge yesterday's loss (limits.rs:61).
* A new daily_loss_limit reaches the tick's own check, not the copy RiskLimits
  checks with (config.rs:32).
* A reduction to the total cap skips the market caps (limits.rs:138); a market is
  charged an average share, not what its own legs cost (limits.rs:161).
* Nothing checks what a fill costs beyond the price that was checked
  (executor.rs:245), or what held lots are worth once a fill has changed their price
  (position_tracker.rs:124): the exposure passes the total cap by it.
* Partly filled legs are counted as open orders for ever (limits.rs:192); the
  metrics' trade count stops at its cap.
* The paper executor charges every leg to the first market
  (paper_trade.rs:136).
* The daemon never loads its state file. In arb-api a panic poisons the mutex,
  and nothing restarts the engine task.

*Execution*

* An order abandoned by its timeout may arrive after the cancellation and rest
  (executor.rs:369); a GTC order that rests unfilled is reported as filled
  (executor.rs:231); the legs after a refused one are posted all the same
  (executor.rs:345); an execution with no fill reports its whole edge as
  realized (executor.rs:372); cancel_all has no timeout (executor.rs:389), nor has
  the fetch of a book (poller.rs:482).
* A token id that cannot be read ends the execution with the legs before it posted,
  the others not, and nothing cancelled (executor.rs:148).

*Finding offers*

* The engine gives the cross-market detector the changed markets only, though
  the comment above says it needs all (engine_task.rs:397-413); that detector
  and the deadline detector read prices that are never refreshed
  (cross_market.rs:54). An event is taken for complete on such prices
  (multi_outcome.rs:101).
* `auto_detect` takes all markets of an event to exclude each other
  (correlation.rs:139), but "by March" and "by June" of one event imply each
  other. One unknown relation in the correlation file drops all of it, and `arb
  run` and the sandbox then trade their own guess where the user had said otherwise;
  the server's engine merges nothing, so the sandbox shows pairs it never trades.
* `arb run` cannot know of markets beyond the first hundred when it relates them
  (poller.rs:450).
* A size counts every level of a book while the walk is given the first few.
* The single-market strategies take a book and a token by the index of an outcome
  without comparing them: after a fetch that lost a book, a signal is priced from
  the other outcome's (liquidity_sniping.rs:136, 180). The refinement looks for the
  token's own book, charges the fees of the whole size to the edge of one share,
  and may take a signal away that pays. Windows of depths and volumes grow by scans in
  which the market changed. The market maker's inventory is never written.
* The engine's detectors keep the configuration of the loop's start.
* `arb scan` leaves out markets without books, `arb scan --all` shows near misses
  as offers; its groups are not sorted by deadline, as deadline.rs:15 requires.
* A `mm_target_spread_bps` of 0 lets the market maker's quotes meet
  (market_making.rs). Nothing validates the sandbox's overrides: with a cap below
  0 a backtest keeps nothing.
* The sandbox has no signals that need a window or a model; its stale detector sees
  all markets where the engine's sees those that changed (engine_task.rs:406); its
  explain does not refine, so that it may tell of an opportunity nothing else
  shows (sandbox.rs:804); its backtest replays
  the newest report first, compares dollars with basis points per share, and
  lets losing trades pass by their size (sandbox.rs).

*Data*

* A page that cannot be fetched loses all pages; Phase 2 skips missing books.
* The feed of an engine that has ended lives on; a subscription whose write fails
  is forgotten (ws_feed.rs:159); the retry counter is reset only by a clean
  close; nothing reads the local books.
* A client that lags stays connected and hears nothing more (ws.rs:30).
* A line cut short in the write-ahead log is glued to the next, and both are lost.
* The configuration is written in place, and a loaded one is not validated
  (config.rs:577): a file cut off before `[alerts]` is complete is replaced by
  defaults at the next start, one cut off in the midst of it loads with default
  alerts, and two overlapping saves may leave a mixture that loads.
* A positions.json that cannot be loaded is passed over with a warning, and written
  over by the next autosave (main.rs:58-64).
* The volatility of a market is taken over the ticks of all its tokens together,
  so that YES and NO prices alternate (price_history.rs:264). `HistoryShown`
  states returns for markets with one token only. Nothing calls it.
* ModelHealth takes a record's own time for now.

*Studies*

* historical_var is not clamped at 0; the stress route has formulas of its own,
  counts positions of size 0, reads its inputs under two locks, and may report
  a flash-crash loss above the exposure.
* A standard error of 0 counts as converged, a batch of 0 never ends, and
  combine_estimates drops estimates with a standard error of 0.

*Command line*

* Setup replaces a good key unasked when POLYMARKET_PRIVATE_KEY is unusable;
  `wallet reset` deletes the whole directory with KILL_SWITCH, positions and
  configuration; two `wallet create` may race; with the key in the environment
  the address announced is not the one used.
* An upgrade whose second move fails under sudo is not put back (upgrade.rs:81), nor
  is one killed between its moves; two upgrades at once can lose the binary.
* approve set says "All contracts approved" after a transaction that was mined and
  reverted: nobody looks at the receipt's status (approve.rs:157-167).

## 7. Not modelled

* Amounts are small integers: `Decimal` rounding and floating point are not
  represented, apart from the roundings a property depends on.
* Closed formulas and samplers of arb-simulation (monte_carlo.rs, copula.rs,
  importance_sampling.rs, jump_diffusion.rs, variance_reduction.rs): floating-point
  computations in one call, which keep no state.
* Read-only routes, simulation routes and the daemon's status and history: they
  format what they read. Authentication and preflight: key files and one-time
  checks. Logging and tables.
* The queries of the vendored command line: one request and a table each.
* Frontend, scripts and deployment.
* The delay between two connections of the feed, and the wall clock: time is a
  counter where something compares times, and a choice elsewhere.
* Out of the prover's reach, not of the models': liveness and ENABLED.
