------------------------------ MODULE BookFeed ------------------------------
(***************************************************************************)
(* The WebSocket feed of the exchange's books: ws_feed.rs, local_book.rs    *)
(* and the engine that drains its notifications (engine_task.rs).          *)
(*                                                                         *)
(* A book is the size at each level, zero where there is none; a level     *)
(* stands for a side and a price.  The exchange and its connection are     *)
(* external: it answers a subscription with a snapshot of each token, then *)
(* sends every change, in order, until the connection ends.                *)
(***************************************************************************)
EXTENDS Naturals, Sequences, FiniteSets, SequencesExt

CONSTANTS Tokens, Levels,
          InitialTokens,  \* what spawn() is given
          MaxSize,        \* sizes at a level
          ChannelSlots,   \* of the notification channel (1000 in the code)
          MaxNet,         \* bound on the messages under way
          MaxRetry        \* bound on the reconnection counter

ASSUME FeedAssumption ==
    /\ IsFiniteSet(Tokens) /\ InitialTokens \subseteq Tokens
    /\ {MaxSize, ChannelSlots, MaxNet, MaxRetry} \subseteq Nat \ {0}

VARIABLES
    exchange,    \* the exchange's books
    net,         \* messages of this connection not yet read
    served,      \* tokens this connection has been sent a snapshot of
    connection,  \* "down", "up", or "gone": the client has not seen its end yet
    subscribed,  \* subscribed_tokens
    requests,    \* the channel of new subscriptions
    retry,       \* retry_count
    books,       \* the local books, by token
    holding,     \* the token whose write lock the feed holds while it waits
    updates,     \* notifications in the channel
    engine       \* "head" of its loop, in a "tick", or "killed": it sleeps only

feedVars == <<exchange, net, served, connection, subscribed, requests, retry, books,
          holding, updates, engine>>

link == <<connection, subscribed, requests, retry>>
outside == <<exchange, net, served>>

Sizes == 0..MaxSize
Book == [Levels -> Sizes]
Empty == [l \in Levels |-> 0]

\* A snapshot message carries the levels there are.
Snapshot(t) ==
    [type |-> "book", token |-> t,
     levels |-> {<<l, exchange[t][l]>> : l \in {k \in Levels : exchange[t][k] > 0}}]

\* As ApplySnapshot, without the two clear() calls.
ApplySnapshotOver(book, levels) ==
    [l \in Levels |-> LET s == {e \in levels : e[1] = l}
                      IN  IF s = {} THEN book[l] ELSE (CHOOSE e \in s : TRUE)[2]]

ApplySnapshot(book, levels) ==
    [l \in Levels |-> LET s == {e \in levels : e[1] = l}
                      IN  IF s = {} THEN 0 ELSE (CHOOSE e \in s : TRUE)[2]]

\* update_bid, update_ask: a size of zero removes the level.
UpdateLevel(book, l, size) == [book EXCEPT ![l] = size]

Applied(book, m) ==
    IF m.type = "book" THEN ApplySnapshot(book, m.levels)
    ELSE UpdateLevel(book, m.level, m.size)

(***************************************************************************)
(* The exchange and the network                                            *)
(***************************************************************************)
Change(t, l, size) ==
    /\ size # exchange[t][l]
    /\ exchange' = [exchange EXCEPT ![t][l] = size]
    /\ IF t \in served /\ connection = "up"
       THEN /\ Len(net) < MaxNet
            /\ net' = Append(net, [type |-> "price_change", token |-> t,
                                   level |-> l, size |-> size])
       ELSE UNCHANGED net
    /\ UNCHANGED <<served, link, books, holding, updates, engine>>

\* The connection ends: what was under way may still be read, or may not.
Drop ==
    /\ connection = "up"
    /\ connection' = "gone"
    /\ \E n \in 0..Len(net) : net' = SubSeq(net, 1, n)
    /\ UNCHANGED <<exchange, served, subscribed, requests, retry, books, holding,
                   updates, engine>>

(***************************************************************************)
(* The feed task                                                           *)
(***************************************************************************)
Snapshots(S) == [i \in 1..Cardinality(S) |-> Snapshot(SetToSeq(S)[i])]

\* connect_async, then the subscription to everything subscribed so far.
Connect ==
    /\ connection = "down"
    /\ connection' = "up"
    /\ net' = Snapshots(subscribed)
    /\ served' = subscribed
    /\ UNCHANGED <<exchange, subscribed, requests, retry, books, holding, updates,
                   engine>>

\* connect_async or the first subscription fails: one more failure, one longer
\* delay (the delay itself stops growing at the fourth).
ConnectFails ==
    /\ connection = "down" /\ retry < MaxRetry
    /\ retry' = retry + 1
    /\ UNCHANGED <<outside, connection, subscribed, requests, books, holding,
                   updates, engine>>

\* read.next(): a text message is applied under the write lock of its book, and
\* the notification is sent before the lock is given up.
Receive ==
    /\ connection # "down" /\ holding = {} /\ net # <<>>
    /\ LET m == Head(net)
       IN  /\ books' = [books EXCEPT ![m.token] = Applied(@, m)]
           /\ holding' = {m.token}
    /\ net' = Tail(net)
    /\ UNCHANGED <<exchange, served, link, updates, engine>>

\* update_tx.send() returns once the channel has a slot.
Notify ==
    /\ holding # {} /\ updates < ChannelSlots
    /\ updates' = updates + 1
    /\ holding' = {}
    /\ UNCHANGED <<outside, link, books, engine>>

\* The end of the stream is read after the messages before it: a clean close
\* resets the counter, an error does not; either way one is added after the delay.
Ended ==
    /\ connection = "gone" /\ holding = {} /\ net = <<>>
    /\ connection' = "down"
    /\ retry' \in {1, IF retry < MaxRetry THEN retry + 1 ELSE retry}
    /\ served' = {}
    /\ UNCHANGED <<exchange, net, subscribed, requests, books, holding, updates,
                   engine>>

\* sub_rx.recv(): the tokens are sent to the exchange and then remembered.
Subscribe ==
    /\ connection = "up" /\ holding = {} /\ requests # <<>>
    /\ LET new == Head(requests)
       IN  /\ Len(net) + Cardinality(new) <= MaxNet
           /\ net' = net \o Snapshots(new)
           /\ served' = served \cup new
           /\ subscribed' = subscribed \cup new
    /\ requests' = Tail(requests)
    /\ UNCHANGED <<exchange, connection, retry, books, holding, updates, engine>>

\* A write to a connection whose end has not been seen may succeed, unheard.
SubscribeUnheard ==
    /\ connection = "gone" /\ holding = {} /\ requests # <<>>
    /\ subscribed' = subscribed \cup Head(requests)
    /\ requests' = Tail(requests)
    /\ UNCHANGED <<outside, connection, retry, books, holding, updates, engine>>

\* write.send() fails: the task reconnects, and has forgotten the tokens.
SubscribeFails ==
    /\ connection = "gone" /\ holding = {} /\ requests # <<>>
    /\ requests' = Tail(requests)
    /\ connection' = "down" /\ net' = <<>> /\ served' = {}
    /\ retry' = IF retry < MaxRetry THEN retry + 1 ELSE retry
    /\ UNCHANGED <<exchange, subscribed, books, holding, updates, engine>>

Feed == Connect \/ ConnectFails \/ Receive \/ Notify \/ Ended \/ Subscribe
        \/ SubscribeUnheard \/ SubscribeFails

(***************************************************************************)
(* The engine task and the callers of the subscription channel             *)
(***************************************************************************)
\* As Drain, looking at the channel without taking anything.
DrainPeek ==
    /\ engine = "head"
    /\ engine' = "tick"
    /\ UNCHANGED <<outside, link, books, holding, updates>>

\* The head of the loop takes what is there and goes on with its tick.
Drain ==
    /\ engine = "head"
    /\ engine' = "tick"
    /\ updates' = 0
    /\ UNCHANGED <<outside, link, books, holding>>

\* The tick is over: its fetches, executions and the sleep at its end.
TickEnds ==
    /\ engine = "tick"
    /\ engine' = "head"
    /\ UNCHANGED <<outside, link, books, holding, updates>>

\* Killed, the head sleeps and does not drain.
KillOrResume ==
    /\ engine # "tick"
    /\ engine' = IF engine = "killed" THEN "head" ELSE "killed"
    /\ UNCHANGED <<outside, link, books, holding, updates>>

Request(S) ==
    /\ S # {} /\ S \cap subscribed = {} /\ requests = <<>>
    /\ requests' = <<S>>
    /\ UNCHANGED <<outside, connection, subscribed, retry, books, holding, updates,
                   engine>>

FeedInit ==
    /\ exchange = [t \in Tokens |-> Empty]
    /\ net = <<>> /\ served = {}
    /\ connection = "down" /\ subscribed = InitialTokens /\ requests = <<>>
    /\ retry = 0
    /\ books = [t \in Tokens |-> Empty]
    /\ holding = {} /\ updates = 0
    /\ engine = "head"

FeedNext ==
    \/ \E t \in Tokens, l \in Levels, size \in Sizes : Change(t, l, size)
    \/ Drop
    \/ Feed
    \/ Drain \/ TickEnds \/ KillOrResume
    \/ \E S \in SUBSET Tokens : Request(S)

FeedSpec == FeedInit /\ [][FeedNext]_feedVars

\* The feed and the engine are tasks of their own; what they wait for is in
\* their guards.  A connection is made sooner or later only if it is possible,
\* and nothing bounds the calls of a tick.
FeedFairSpec == FeedSpec /\ WF_feedVars(Receive) /\ WF_feedVars(Notify) /\ WF_feedVars(Ended)
                 /\ WF_feedVars(Drain)

(***************************************************************************)
(* Properties                                                              *)
(***************************************************************************)
Message == [type : {"book"}, token : Tokens, levels : SUBSET (Levels \X Sizes)]
             \cup [type : {"price_change"}, token : Tokens, level : Levels, size : Sizes]

FeedTypeOK ==
    /\ exchange \in [Tokens -> Book] /\ books \in [Tokens -> Book]
    /\ net \in Seq(Message)
    /\ served \subseteq Tokens /\ subscribed \subseteq Tokens
    /\ connection \in {"down", "up", "gone"}
    /\ requests \in Seq(SUBSET Tokens)
    /\ retry \in 0..MaxRetry
    /\ holding \subseteq Tokens /\ Cardinality(holding) <= 1
    /\ updates \in 0..ChannelSlots
    /\ engine \in {"head", "tick", "killed"}

Heard(t, book, m) == IF m.token = t THEN Applied(book, m) ELSE book

\* What reading messages makes of a book of t.
Through(t, messages, book) == FoldLeft(LAMBDA b, m : Heard(t, b, m), book, messages)

\* The book of t once the messages under way have been read.
AfterNet(t) == Through(t, net, books[t])

\* While the connection lasts, the messages under way turn the local book of
\* every subscribed token into the exchange's: no change is lost or doubled over
\* reconnections, repeated snapshots and late subscriptions, and levels that
\* went away while the connection was down do not come back.
BooksFollowExchange ==
    connection = "up" => \A t \in served : AfterNet(t) = exchange[t]

\* No fetch and no execution of a tick hangs for ever.
TicksEnd == []<>(engine # "tick")

\* The feed gives up the write lock of a book, whoever waits for it, unless the
\* engine is killed or hangs in its tick, when nobody drains the channel.
LockIsReleased == TicksEnd => ((holding # {}) ~> (holding = {} \/ engine = "killed"))
=============================================================================
