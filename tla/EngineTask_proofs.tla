--------------------------- MODULE EngineTask_proofs ---------------------------
(* The two ends of a tick of the engine task, for every instance: no scan   *)
(* misses a stored market, takes one twice or prices a token from another's *)
(* book; and reports invent no fill, no leg is sent more often than its     *)
(* retries allow, and what an execution with a failed leg leaves open was   *)
(* on its way when the rest was cancelled.                                  *)
EXTENDS MarketScan, LiveOrders, FiniteSetTheorems, TLAPS

(***************************************************************************)
(* The scan                                                                *)
(***************************************************************************)
\* The books a cache may hold: all that matters of them here is that they are
\* some value.
BookLists == (UNION {Fetched(m) : m \in Markets}) \cup {<<>>}

\* The types the proof needs.
CacheType ==
    /\ cache \in [Markets -> [known : BOOLEAN, books : BookLists, gen : Nat]]
    /\ generation \in Nat /\ lastScan \in 0..generation
    /\ todo \subseteq Known /\ polled \subseteq Known /\ stored \subseteq Known

IInv == CacheType /\ ScanInv

LEMMA InitScan == Init => IInv
  <1> SUFFICES ASSUME Init PROVE IInv
    OBVIOUS
  <1>1. cache \in [Markets -> [known : BOOLEAN, books : BookLists, gen : Nat]]
    BY DEF Init, Unknown, BookLists
  <1>2. Known = {}
    BY DEF Init, Unknown, Known
  <1> QED
    BY <1>1, <1>2 DEF Init, IInv, CacheType, ScanInv

\* Storing a market's books marks it, and it alone, as changed.
LEMMA StoreKeepsStamps ==
  ASSUME IInv, NEW m \in Known, NEW books \in Fetched(m), Store(m, books),
         UNCHANGED lastScan
  PROVE  /\ cache' \in [Markets -> [known : BOOLEAN, books : BookLists, gen : Nat]]
         /\ generation' \in Nat /\ lastScan' \in 0..generation'
         /\ Known' = Known
         /\ stored' = stored \cup {m}
         /\ \A n \in Known : 1 <= cache'[n].gen /\ cache'[n].gen <= generation'
         /\ lastScan > 0 => stored' = ChangedSince(lastScan)'
  <1>1. m \in Markets /\ books \in BookLists
    BY DEF Known, BookLists
  <1>2. cache' = [cache EXCEPT ![m] =
                    [known |-> TRUE, books |-> books, gen |-> generation + 1]]
    BY <1>1 DEF IInv, CacheType, Store
  <1>3. cache' \in [Markets -> [known : BOOLEAN, books : BookLists, gen : Nat]]
    BY <1>1, <1>2 DEF IInv, CacheType
  <1>4. generation' = generation + 1 /\ stored' = stored \cup {m}
    BY DEF Store
  <1>5. \A n \in Markets : n # m => cache'[n] = cache[n]
    BY <1>2 DEF IInv, CacheType
  <1>6. cache'[m].known /\ cache'[m].gen = generation + 1
    BY <1>1, <1>2 DEF IInv, CacheType
  <1>7. Known' = Known
    BY <1>5, <1>6 DEF Known
  <1>8. \A n \in Known : cache[n].gen \in Nat
    BY DEF Known, IInv, CacheType
  <1>9. \A n \in Known : 1 <= cache'[n].gen /\ cache'[n].gen <= generation'
    BY <1>4, <1>5, <1>6, <1>8 DEF IInv, CacheType, ScanInv, Known
  <1>10. lastScan > 0 => stored' = ChangedSince(lastScan)'
    <2> SUFFICES ASSUME lastScan > 0 PROVE stored' = {n \in Known' : cache'[n].gen > lastScan}
      BY DEF ChangedSince
    <2>1. stored = {n \in Known : cache[n].gen > lastScan}
      BY DEF IInv, ScanInv, ChangedSince
    <2>2. generation + 1 > lastScan
      BY DEF IInv, CacheType
    <2> QED
      BY <1>4, <1>5, <1>6, <1>7, <2>1, <2>2 DEF Known
  <1> QED
    BY <1>3, <1>4, <1>7, <1>9, <1>10 DEF IInv, CacheType

\* Phase 1: everything is known from now on, or nothing is.
LEMMA LoadKeeps ==
  ASSUME IInv, Load
  PROVE  IInv'
  <1>1. pc' = "books" /\ lastScan = 0 /\ UNCHANGED <<lastScan, polled, stored>>
    BY DEF Load, IInv, ScanInv
  <1>2. CASE UNCHANGED <<generation, cache, todo>>
    BY <1>1, <1>2 DEF IInv, CacheType, ScanInv, Known
  <1>3. CASE /\ generation' = generation + 1
             /\ cache' = [m \in Markets |->
                   [known |-> TRUE, books |-> <<>>, gen |-> generation + 1]]
             /\ todo' = Markets
    <2>1. cache' \in [Markets -> [known : BOOLEAN, books : BookLists, gen : Nat]]
      BY <1>3 DEF IInv, CacheType, BookLists
    <2>2. Known' = Markets /\ \A m \in Markets : cache'[m].gen = generation + 1
      BY <1>3 DEF Known
    <2> QED
      BY <1>1, <1>3, <2>1, <2>2 DEF IInv, CacheType, ScanInv, Known
  <1> QED
    BY <1>2, <1>3 DEF Load

LEMMA FirstBooksKeeps ==
  ASSUME IInv, NEW m \in Markets, FirstBooks(m)
  PROVE  IInv'
  <1>1. pc = "books" /\ m \in todo /\ todo' = todo \ {m}
        /\ UNCHANGED <<pc, lastScan, polled>>
    BY DEF FirstBooks
  <1>2. lastScan = 0 /\ m \in Known
    BY <1>1 DEF IInv, ScanInv, CacheType
  <1>3. CASE UNCHANGED <<cache, generation, stored>>
    BY <1>1, <1>2, <1>3 DEF IInv, CacheType, ScanInv, Known
  <1>4. CASE \E books \in Fetched(m) : Store(m, books)
    BY <1>1, <1>2, <1>4, StoreKeepsStamps DEF IInv, CacheType, ScanInv
  <1> QED
    BY <1>3, <1>4 DEF FirstBooks

LEMMA PollKeeps ==
  ASSUME IInv, NEW m \in Markets, Poll(m)
  PROVE  IInv'
  <1>1. /\ pc = "poll" /\ m \in todo /\ todo' = todo \ {m}
        /\ polled' = polled \cup {m} /\ UNCHANGED <<pc, lastScan>>
    BY DEF Poll
  <1>2. m \in Known
    BY <1>1 DEF IInv, CacheType
  <1>3. PICK books \in Fetched(m) : Store(m, books)
    BY DEF Poll
  <1>4. /\ cache' \in [Markets -> [known : BOOLEAN, books : BookLists, gen : Nat]]
        /\ generation' \in Nat /\ lastScan' \in 0..generation'
        /\ Known' = Known
        /\ stored' = stored \cup {m}
        /\ \A n \in Known : 1 <= cache'[n].gen /\ cache'[n].gen <= generation'
        /\ lastScan > 0 => stored' = ChangedSince(lastScan)'
    BY <1>1, <1>2, <1>3, StoreKeepsStamps
  <1> QED
    BY <1>1, <1>2, <1>4 DEF IInv, CacheType, ScanInv

\* What a scan takes is what was stored, and from then on nothing is.
LEMMA ScanTakesStored ==
  ASSUME IInv, Scan
  PROVE  snapshot' = stored
  <1>1. CASE lastScan = 0
    <2>1. Known \subseteq stored
      BY <1>1 DEF Scan, IInv, ScanInv
    <2> QED
      BY <1>1, <2>1 DEF Scan, IInv, CacheType
  <1>2. CASE lastScan > 0
    BY <1>2 DEF Scan, IInv, ScanInv
  <1> QED
    BY <1>1, <1>2 DEF IInv, CacheType

LEMMA ScanKeeps ==
  ASSUME IInv, Scan
  PROVE  IInv'
  <1>1. /\ pc = "poll" /\ pc' \in {"head", "act"}
        /\ todo = {} /\ stored' = {} /\ lastScan' = generation
        /\ UNCHANGED <<cache, generation, todo, polled>>
    BY DEF Scan
  <1>2. Known' = Known
    BY <1>1 DEF Known
  <1>3. CacheType'
    BY <1>1, <1>2 DEF IInv, CacheType
  <1>4. ChangedSince(lastScan)' = {}
    BY <1>1, <1>2 DEF ChangedSince, IInv, CacheType, ScanInv, Known
  <1>5. lastScan' = 0 => Known = {}
    BY <1>1 DEF IInv, CacheType, ScanInv, Known
  <1>6. lastScan' = 0 => polled' = {}
    BY <1>1, <1>5 DEF IInv, CacheType
  <1> QED
    BY <1>1, <1>2, <1>3, <1>4, <1>6 DEF IInv, ScanInv

LEMMA NextScan == IInv /\ [Next]_vars => IInv'
  <1> SUFFICES ASSUME IInv, [Next]_vars PROVE IInv'
    OBVIOUS
  <1>1. CASE EnterLoop
    BY <1>1 DEF EnterLoop, IInv, CacheType, ScanInv, Known, ChangedSince
  <1>2. CASE StartTick
    BY <1>2 DEF StartTick, IInv, CacheType, ScanInv, Known, ChangedSince
  <1>3. CASE Act
    BY <1>3 DEF Act, IInv, CacheType, ScanInv, Known, ChangedSince
  <1>4. ASSUME NEW m \in Markets, Elapse(m) PROVE IInv'
    BY <1>4 DEF Elapse, IInv, CacheType, ScanInv, Known, ChangedSince
  <1>5. CASE UNCHANGED vars
    BY <1>5 DEF vars, IInv, CacheType, ScanInv, Known, ChangedSince
  <1> QED
    BY <1>1, <1>2, <1>3, <1>4, <1>5, LoadKeeps, FirstBooksKeeps, PollKeeps, ScanKeeps
    DEF Next

THEOREM StampsAgree == Spec => []IInv
  BY InitScan, NextScan, PTL DEF Spec

\* Through the boot, ticks in which nothing is due, and any number of markets,
\* the engine hands its detectors exactly the markets stored since the last scan.
THEOREM ScansAreExact == Spec => ScanIsExact
  <1>1. IInv /\ [Next]_vars => [Scan => snapshot' = stored]_vars
    BY ScanTakesStored
  <1> QED
    BY <1>1, StampsAgree, PTL DEF Spec, ScanIsExact

-----------------------------------------------------------------------------
\* What a filter keeps: FoldFacts, for the fold of Filter.
AppendKept(of, i, kept) == IF of[1][i] \in of[2] THEN Append(kept, of[1][i]) ELSE kept
HighestOf(s) == CHOOSE x \in s : \A y \in s : x >= y
Keeping == INSTANCE FoldFacts WITH Op <- AppendKept, Pick <- HighestOf

\* A fetch that brought as many books as there are tokens brought each its own.
LEMMA FullFetchInOrder ==
  ASSUME NEW m \in Markets, NEW books \in Fetched(m), Len(books) = Len(TokensOf[m])
  PROVE  \A i \in DOMAIN books : books[i] = [token |-> TokensOf[m][i], ask |-> books[i].ask]
  <1> DEFINE tokens == TokensOf[m]
             Sent == [token : Tokens, ask : Asks \cup {NoAsks, NotFetched}]
  <1>1. tokens \in Seq(Tokens)
    BY ScanAssumption
  <1>2. PICK ask \in [DOMAIN tokens -> Asks \cup {NoAsks, NotFetched}] :
           books = Kept([i \in DOMAIN tokens |-> [token |-> tokens[i], ask |-> ask[i]]], Book)
    BY DEF Fetched
  <1> DEFINE seq == [i \in DOMAIN tokens |-> [token |-> tokens[i], ask |-> ask[i]]]
  <1>3. DOMAIN tokens = 1..Len(tokens) /\ Len(tokens) \in Nat
    BY <1>1
  <1>4. \A i \in DOMAIN tokens : seq[i] \in Sent
    <2> SUFFICES ASSUME NEW i \in DOMAIN tokens PROVE seq[i] \in Sent
      OBVIOUS
    <2>1. tokens[i] \in Tokens /\ ask[i] \in Asks \cup {NoAsks, NotFetched}
      BY <1>1
    <2> QED
      BY <2>1
  <1>5. \A i \in DOMAIN tokens : seq[i] = [token |-> tokens[i], ask |-> ask[i]]
    OBVIOUS
  <1>6. DOMAIN seq = 1..Len(tokens)
    BY <1>3
  <1>7. seq \in [1..Len(tokens) -> Sent]
    <2> HIDE DEF Sent
    <2> QED
      BY <1>3, <1>4
  <1> HIDE DEF seq, tokens, Sent
  <1>8. seq \in Seq(Sent) /\ Len(seq) = Len(tokens)
    BY <1>3, <1>7
  <1>9. Kept(seq, Book) = Keeping!KeptOf(seq, Book)
    BY <1>6, <1>8 DEF Kept, FoldLeft, MapThenFoldSet, Max, HighestOf, Keeping!KeptOf,
       Keeping!Fold, Keeping!Equation, AppendKept
  <1>10. /\ Keeping!Keeps(seq, Book)
         /\ \A n \in Nat : \A s \in SUBSET (1..n) : HighestOf(s) = Keeping!Highest(s)
    BY DEF Keeping!Keeps, AppendKept, HighestOf, Keeping!Highest
  <1>11. Len(Keeping!KeptOf(seq, Book)) = Len(seq)
    BY <1>2, <1>8, <1>9 DEF seq, tokens
  <1>12. books = seq
    BY <1>2, <1>8, <1>9, <1>10, <1>11, Keeping!KeptWhole DEF seq
  <1>13. \A i \in DOMAIN tokens : seq[i].ask = ask[i]
    <2> SUFFICES ASSUME NEW i \in DOMAIN tokens PROVE seq[i].ask = ask[i]
      OBVIOUS
    <2>1. seq[i] = [token |-> tokens[i], ask |-> ask[i]]
      BY <1>5
    <2> QED
      BY <2>1
  <1>14. \A i \in DOMAIN seq : seq[i] = [token |-> tokens[i], ask |-> seq[i].ask]
    BY <1>3, <1>5, <1>6, <1>13
  <1> QED
    BY <1>12, <1>14 DEF tokens

\* Every market's books came from a fetch of its own tokens, and opportunities
\* are held only until they are acted on.
LegsInv ==
    /\ CacheType
    /\ \A m \in Markets : cache[m].books \in Fetched(m) \cup {<<>>}
    /\ found # {} => pc = "act"
    /\ MarketLegsOwnBook

\* The legs of an opportunity within a market are its books.
LEMMA DetectedOwnBook ==
  ASSUME LegsInv, NEW markets \in SUBSET Markets, NEW o \in Detected(markets),
         Cardinality(o.markets) = 1
  PROVE  \A i \in DOMAIN o.legs : HasBook(o, o.legs[i])
  <1>1. \A g : \A x \in EventOutcomes(g) : x.markets = g /\ Cardinality(g) >= 2
    BY DEF EventOutcomes
  <1>2. PICK m \in markets : o \in OutcomesOf(m)
    <2>1. \A g \in Groups(markets) : o \notin EventOutcomes(g)
      <3> SUFFICES ASSUME NEW g \in Groups(markets), o \in EventOutcomes(g) PROVE FALSE
        OBVIOUS
      <3>1. Cardinality(g) = 1 /\ Cardinality(g) >= 2
        BY <1>1
      <3> QED
        BY <3>1
    <2> QED
      BY <2>1 DEF Detected
  <1>3. m \in Markets /\ o = [markets |-> {m}, legs |-> LegsOf(m)] /\ Aligned(m)
    BY <1>2 DEF OutcomesOf
  <1> DEFINE books == cache[m].books
  <1>4. Len(books) = Len(TokensOf[m]) /\ TokensOf[m] \in Seq(Tokens) /\ TokensOf[m] # <<>>
    BY <1>3, ScanAssumption DEF Aligned
  <1>5. books \in Fetched(m)
    <2>1. books # <<>>
      BY <1>4
    <2> QED
      BY <1>3, <2>1 DEF LegsInv
  <1>6. \A i \in DOMAIN books : books[i] = [token |-> TokensOf[m][i], ask |-> books[i].ask]
    BY <1>3, <1>4, <1>5, FullFetchInOrder
  <1>7. o.markets = {m} /\ o.legs = LegsOf(m)
    BY <1>3
  <1>8. \A i \in DOMAIN LegsOf(m) : i \in DOMAIN books /\ books[i] = LegsOf(m)[i]
    BY <1>6 DEF LegsOf
  <1> QED
    BY <1>7, <1>8 DEF HasBook

LEMMA LegsInitially == Init => LegsInv
  BY InitScan DEF Init, Unknown, IInv, LegsInv, MarketLegsOwnBook

\* Storing a market's books leaves the others'.
LEMMA StoreOwnBooks ==
  ASSUME LegsInv, NEW m \in Markets, NEW books \in Fetched(m), Store(m, books)
  PROVE  \A n \in Markets : cache'[n].books \in Fetched(n) \cup {<<>>}
  BY DEF LegsInv, CacheType, Store

\* A step that changes no opportunity, while there is none or with the cache as it is.
LEMMA LegsUntouched ==
  ASSUME LegsInv, CacheType', UNCHANGED found,
         \A m \in Markets : cache'[m].books \in Fetched(m) \cup {<<>>},
         (pc # "act") \/ (UNCHANGED <<pc, cache>>)
  PROVE  LegsInv'
  BY DEF LegsInv, MarketLegsOwnBook, HasBook

LEMMA LegsStep == IInv /\ LegsInv /\ [Next]_vars => LegsInv'
  <1> SUFFICES ASSUME IInv, LegsInv, [Next]_vars PROVE LegsInv'
    OBVIOUS
  <1>1. CacheType'
    BY NextScan DEF IInv
  <1>2. CASE Load
    <2>1. \A m \in Markets : cache'[m].books \in Fetched(m) \cup {<<>>}
      BY <1>2 DEF Load, LegsInv
    <2> QED
      BY <1>1, <1>2, <2>1, LegsUntouched DEF Load
  <1>3. ASSUME NEW m \in Markets, FirstBooks(m) PROVE LegsInv'
    <2>1. \A n \in Markets : cache'[n].books \in Fetched(n) \cup {<<>>}
      BY <1>3, StoreOwnBooks DEF FirstBooks, LegsInv
    <2> QED
      BY <1>1, <1>3, <2>1, LegsUntouched DEF FirstBooks
  <1>4. ASSUME NEW m \in Markets, Poll(m) PROVE LegsInv'
    <2>1. \A n \in Markets : cache'[n].books \in Fetched(n) \cup {<<>>}
      BY <1>4, StoreOwnBooks DEF Poll
    <2> QED
      BY <1>1, <1>4, <2>1, LegsUntouched DEF Poll
  <1>5. CASE Scan
    <2>1. snapshot' \in SUBSET Markets /\ found' = Detected(snapshot') /\ cache' = cache
      BY <1>5 DEF Scan, Known, ChangedSince
    <2>2. snapshot' = {} => found' = {}
      BY <2>1 DEF Detected, Groups
    <2>3. found' # {} => pc' = "act"
      BY <1>5, <2>2 DEF Scan
    <2>4. \A o \in found' : Cardinality(o.markets) = 1 =>
             \A i \in DOMAIN o.legs : HasBook(o, o.legs[i])
      BY <2>1, DetectedOwnBook
    <2>5. MarketLegsOwnBook'
      BY <2>1, <2>4 DEF MarketLegsOwnBook, HasBook
    <2> QED
      BY <1>1, <2>1, <2>3, <2>5 DEF LegsInv
  <1>6. CASE Act
    BY <1>1, <1>6 DEF Act, LegsInv, MarketLegsOwnBook
  <1>7. CASE EnterLoop \/ StartTick \/ (\E m \in Markets : Elapse(m)) \/ UNCHANGED vars
    <2>1. UNCHANGED <<found, cache>> /\ (pc # "act" \/ UNCHANGED pc)
      BY <1>7 DEF EnterLoop, StartTick, Elapse, vars
    <2> QED
      BY <1>1, <2>1, LegsUntouched DEF LegsInv
  <1> QED
    BY <1>2, <1>3, <1>4, <1>5, <1>6, <1>7 DEF Next

\* For any markets, tokens and books that fail to come: buying all outcomes of one
\* market, every token is priced from its own book.
THEOREM LegsFromOwnBooks == Spec => []MarketLegsOwnBook
  <1>1. Init => IInv /\ LegsInv
    BY InitScan, LegsInitially
  <1>2. IInv /\ LegsInv /\ [Next]_vars => (IInv /\ LegsInv)'
    BY NextScan, LegsStep
  <1>3. LegsInv => MarketLegsOwnBook
    BY DEF LegsInv
  <1> QED
    BY <1>1, <1>2, <1>3, PTL DEF Spec

(***************************************************************************)
(* The executor                                                            *)
(***************************************************************************)
\* Types.

LEMMA InitType == OrdersInit => OrdersTypeOK
  BY OrdersAssumption DEF OrdersInit, OrdersTypeOK, NoAnswer, Answer

\* The name of the order to post.
LEMMA CurrentIsName ==
  ASSUME OrdersTypeOK, phase \in {"post", "wait"}
  PROVE  Current \in Name
  <1>1. run \in 1..MaxRuns /\ attempt \in 0..MaxRetries
    BY OrdersAssumption DEF OrdersTypeOK
  <1>2. Len(report) \in Nat /\ Len(report) < Legs
    BY DEF OrdersTypeOK
  <1>3. Leg \in 1..Legs
    BY <1>2, OrdersAssumption DEF Leg
  <1> QED
    BY <1>1, <1>3 DEF Current, Name

\* Appending a report: the others stay, and the new one comes last.
LEMMA Appended ==
  ASSUME OrdersTypeOK, NEW leg \in LegReport, Decide(leg)
  PROVE  /\ report' \in Seq(LegReport)
         /\ Len(report) \in Nat /\ DOMAIN report = 1..Len(report)
         /\ Len(report') = Len(report) + 1
         /\ DOMAIN report' = 1..(Len(report) + 1)
         /\ \A l \in 1..Len(report) : report'[l] = report[l]
         /\ report'[Len(report) + 1] = leg
  BY DEF OrdersTypeOK, Decide

LEMMA DecideType ==
  ASSUME OrdersTypeOK, phase \in {"post", "wait"}, NEW leg \in LegReport, Decide(leg),
         lost' \subseteq Name
  PROVE  OrdersTypeOK'
  <1>1. report' \in Seq(LegReport) /\ Len(report) \in Nat /\ Len(report') = Len(report) + 1
    BY Appended
  <1>2. Len(report) < Legs /\ run > 0
    BY DEF OrdersTypeOK
  <1>3. Len(report') <= Legs
    BY <1>1, <1>2, OrdersAssumption
  <1>4. /\ phase' \in {"idle", "post", "wait", "cancel"}
        /\ phase' \in {"post", "wait"} => run' > 0 /\ Len(report') < Legs
    BY <1>2 DEF Decide
  <1>5. attempt' \in 0..MaxRetries /\ answer' \in Answer /\ result' \in {"none", "Ok", "Err"}
    BY OrdersAssumption DEF Decide, NoAnswer, Answer
  <1> QED
    BY <1>1, <1>3, <1>4, <1>5 DEF Decide, exchange, OrdersTypeOK

\* What the three outcomes of a leg report.
LEMMA OutcomeType ==
  /\ \A filled \in 0..Size : FilledReport(filled) \in LegReport
                             /\ FilledReport(filled).filled # 0
  /\ [status |-> "Rejected", filled |-> 0] \in LegReport
  /\ [status |-> "Cancelled", filled |-> 0] \in LegReport
  BY OrdersAssumption DEF FilledReport, LegReport

LEMMA ReplyType ==
  ASSUME OrdersTypeOK, NEW n, NEW a \in Answer, Reply(n, a)
  PROVE  answer' \in Answer
  BY DEF Reply, OrdersTypeOK

LEMMA FaultType ==
  \A k \in {"refused", "transient", "permanent"} : [NoAnswer EXCEPT !.kind = k] \in Answer
  BY OrdersAssumption DEF NoAnswer, Answer

LEMMA ClientType == OrdersTypeOK /\ Client => OrdersTypeOK'
  <1> SUFFICES ASSUME OrdersTypeOK, Client
               PROVE  OrdersTypeOK'
    OBVIOUS
  <1>1. CASE Begin
    BY <1>1, OrdersAssumption DEF Begin, exchange, OrdersTypeOK, NoAnswer, Answer, LegReport
  <1>2. CASE Post
    <2>1. Current \in Name
      BY <1>2, CurrentIsName DEF Post
    <2>2. answer' \in Answer /\ wire' \subseteq Name
      BY <1>2, <2>1, FaultType, OrdersAssumption DEF Post, OrdersTypeOK, NoAnswer, Answer
    <2> QED
      BY <1>2, <2>2 DEF Post, OrdersTypeOK
  <1>3. CASE Succeed
    <2>1. answer.filled \in 0..Size
      BY DEF OrdersTypeOK, Answer
    <2> QED
      BY <1>3, <2>1, OutcomeType, DecideType DEF Succeed, OrdersTypeOK
  <1>4. CASE Retry
    BY <1>4, OrdersAssumption DEF Retry, Transient, MayRetry, exchange, OrdersTypeOK, NoAnswer, Answer
  <1>5. CASE Reject
    BY <1>5, OutcomeType, DecideType DEF Reject, OrdersTypeOK
  <1>6. CASE TimeOut
    <2>1. lost' \subseteq Name
      BY <1>6, CurrentIsName DEF TimeOut, OrdersTypeOK
    <2> QED
      BY <1>6, <2>1, OutcomeType, DecideType DEF TimeOut
  <1>7. CASE CancelAll
    <2>1. orders' \subseteq Order
      <3>1. \A o \in Order : [o EXCEPT !.open = FALSE] \in Order
        BY DEF Order
      <3> QED
        BY <1>7, <3>1 DEF CancelAll, OrdersTypeOK
    <2>2. late' \subseteq Name /\ result' \in {"none", "Ok", "Err"}
      BY <1>7 DEF CancelAll, OrdersTypeOK
    <2> QED
      BY <1>7, <2>1, <2>2 DEF CancelAll, OrdersTypeOK
  <1>8. CASE Unparsed
    BY <1>8 DEF Unparsed, exchange, OrdersTypeOK
  <1> QED
    BY <1>1, <1>2, <1>3, <1>4, <1>5, <1>6, <1>7, <1>8 DEF Client

LEMMA ExchangeType == OrdersTypeOK /\ Exchange => OrdersTypeOK'
  <1> SUFFICES ASSUME OrdersTypeOK, Exchange
               PROVE  OrdersTypeOK'
    OBVIOUS
  <1>1. ASSUME NEW n \in wire, Take(n)
        PROVE  OrdersTypeOK'
    <2>1. PICK filled \in (IF PreferPostOnly THEN 0..Size ELSE {Size}) :
            /\ orders' = orders \cup {[name |-> n, filled |-> filled, open |-> filled < Size]}
            /\ Reply(n, [kind |-> "success", filled |-> filled])
      BY <1>1 DEF Take
    <2>2. filled \in 0..Size /\ n \in Name
      BY OrdersAssumption DEF OrdersTypeOK
    <2>3. (filled < Size) \in BOOLEAN
      OBVIOUS
    <2>4. [name |-> n, filled |-> filled, open |-> filled < Size] \in Order
      BY <2>2, <2>3 DEF Order
    <2>5. [kind |-> "success", filled |-> filled] \in Answer
      BY <2>2 DEF Answer
    <2>6. answer' \in Answer
      BY <2>1, <2>5, ReplyType
    <2> QED
      BY <1>1, <2>1, <2>4, <2>6 DEF Take, OrdersTypeOK
  <1>2. ASSUME NEW n \in wire, Refuse(n)
        PROVE  OrdersTypeOK'
    <2>1. answer' \in Answer
      BY <1>2, FaultType, ReplyType DEF Refuse
    <2> QED
      BY <1>2, <2>1 DEF Refuse, OrdersTypeOK
  <1>3. ASSUME NEW n \in wire, LoseRequest(n)
        PROVE  OrdersTypeOK'
    BY <1>3 DEF LoseRequest, client, OrdersTypeOK
  <1>4. CASE LoseAnswer
    <2>1. answer' \in Answer
      BY <1>4, FaultType DEF LoseAnswer
    <2>2. Current \in Name
      BY <1>4, CurrentIsName DEF LoseAnswer
    <2> QED
      BY <1>4, <2>1, <2>2 DEF LoseAnswer, exchange, OrdersTypeOK
  <1>5. CASE FillResting
    <2>1. PICK o \in orders, filled \in 1..Size :
            /\ orders' = (orders \ {o}) \cup
                 {[o EXCEPT !.filled = filled, !.open = filled < Size]}
            /\ UNCHANGED <<client, wire, late, lost>>
      BY <1>5 DEF FillResting
    <2>2. (filled < Size) \in BOOLEAN /\ filled \in 0..Size
      BY OrdersAssumption
    <2>3. [o EXCEPT !.filled = filled, !.open = filled < Size] \in Order
      BY <2>2 DEF OrdersTypeOK, Order
    <2> QED
      BY <2>1, <2>3 DEF client, OrdersTypeOK
  <1> QED
    BY <1>1, <1>2, <1>3, <1>4, <1>5 DEF Exchange

\* The type invariant of the executor and the exchange.
THEOREM OrdersTypeCorrect == OrdersSpec => []OrdersTypeOK
  <1>1. OrdersTypeOK /\ UNCHANGED orderVars => OrdersTypeOK'
    BY DEF orderVars, OrdersTypeOK
  <1> QED
    BY <1>1, InitType, ClientType, ExchangeType, PTL DEF OrdersSpec, OrdersNext

-----------------------------------------------------------------------------
\* The cancellation.

LEMMA InitCancel == OrdersInit => CancelInv
  BY DEF OrdersInit, CancelInv, Returned

\* Deciding a leg that says whether it failed: an execution with a failed leg
\* goes to the cancellation, not back to the engine.
LEMMA DecideCancel ==
  ASSUME OrdersTypeOK, CancelInv, phase \in {"post", "wait"},
         NEW leg \in LegReport, leg.filled = 0 => Failed(leg), Decide(leg)
  PROVE  CancelInv'
  <1>1. /\ report' \in Seq(LegReport)
        /\ Len(report) \in Nat /\ DOMAIN report = 1..Len(report)
        /\ Len(report') = Len(report) + 1
        /\ DOMAIN report' = 1..(Len(report) + 1)
        /\ \A l \in 1..Len(report) : report'[l] = report[l]
        /\ report'[Len(report) + 1] = leg
    BY Appended
  <1>2. \A l \in DOMAIN report' : report'[l].filled = 0 => Failed(report'[l])
    <2> SUFFICES ASSUME NEW l \in 1..(Len(report) + 1), report'[l].filled = 0
                 PROVE  Failed(report'[l])
      BY <1>1
    <2>1. CASE l = Len(report) + 1
      BY <1>1, <2>1
    <2>2. CASE l \in 1..Len(report)
      BY <1>1, <2>2 DEF CancelInv
    <2> QED
      BY <1>1, <2>1, <2>2
  <1>3. ~(Returned' /\ SomethingUnfilled')
    <2> SUFFICES ASSUME phase' = "idle", SomethingUnfilled'
                 PROVE  FALSE
      BY DEF Returned
    <2>1. AnyFailed(report')
      BY <1>2 DEF SomethingUnfilled, AnyFailed
    <2>2. Len(report') < Legs \/ Len(report') = Legs
      BY <1>1, OrdersAssumption DEF OrdersTypeOK
    <2>3. phase' \in {"post", "cancel"}
      BY <2>1, <2>2 DEF Decide
    <2> QED
      BY <2>3
  <1> QED
    BY <1>2, <1>3 DEF CancelInv

LEMMA ClientCancel ==
  ASSUME OrdersTypeOK, CancelInv, Client
  PROVE  CancelInv'
  <1>1. CASE Begin
    BY <1>1 DEF Begin, CancelInv, Returned
  <1>2. CASE Post
    BY <1>2 DEF Post, CancelInv, Returned
  <1>3. CASE Succeed
    <2>1. answer.filled \in 0..Size
      BY DEF OrdersTypeOK, Answer
    <2> QED
      BY <1>3, <2>1, OutcomeType, DecideCancel DEF Succeed
  <1>4. CASE Retry
    BY <1>4 DEF Retry, CancelInv, Returned
  <1>5. CASE Reject
    BY <1>5, OutcomeType, DecideCancel DEF Reject, Failed
  <1>6. CASE TimeOut
    BY <1>6, OutcomeType, DecideCancel DEF TimeOut, Failed
  <1>7. CASE CancelAll
    <2>1. \A l \in DOMAIN report' : report'[l].filled = 0 => Failed(report'[l])
      BY <1>7 DEF CancelAll, CancelInv
    <2>2. \A o \in Order : [o EXCEPT !.open = FALSE].open = FALSE
      BY DEF Order
    <2>3. ASSUME Returned'
          PROVE  wire' \subseteq late' /\ \A o \in orders' : o.open => o.name \in late'
      <3>1. orders' = {[o EXCEPT !.open = FALSE] : o \in orders} /\ late' = wire
        BY <1>7, <2>3 DEF CancelAll, Returned
      <3>2. \A o \in orders' : o.open = FALSE
        BY <2>2, <3>1 DEF OrdersTypeOK
      <3> QED
        BY <1>7, <3>1, <3>2 DEF CancelAll
    <2> QED
      BY <2>1, <2>3 DEF CancelInv
  <1>8. CASE Unparsed
    BY <1>8 DEF Unparsed, CancelInv, Returned
  <1> QED
    BY <1>1, <1>2, <1>3, <1>4, <1>5, <1>6, <1>7, <1>8 DEF Client

\* A step of the exchange opens only what was on the wire, and puts nothing there.
LEMMA ExchangeCancel ==
  ASSUME OrdersTypeOK, CancelInv, UNCHANGED <<phase, report, result, late>>,
         wire' \subseteq wire,
         \A o \in orders' : o.open =>
            o.name \in wire \/ \E p \in orders : p.open /\ p.name = o.name
  PROVE  CancelInv'
  <1>1. \A l \in DOMAIN report' : report'[l].filled = 0 => Failed(report'[l])
    BY DEF CancelInv
  <1>2. ASSUME Returned', SomethingUnfilled'
        PROVE  wire' \subseteq late' /\ \A o \in orders' : o.open => o.name \in late'
    <2>1. Returned /\ SomethingUnfilled
      BY <1>2 DEF Returned, SomethingUnfilled
    <2>2. wire \subseteq late /\ \A o \in orders : o.open => o.name \in late
      BY <2>1 DEF CancelInv
    <2> QED
      BY <2>2
  <1> QED
    BY <1>1, <1>2 DEF CancelInv

LEMMA CancelStep == OrdersTypeOK /\ CancelInv /\ [OrdersNext]_orderVars => CancelInv'
  <1> SUFFICES ASSUME OrdersTypeOK, CancelInv, [OrdersNext]_orderVars
               PROVE  CancelInv'
    OBVIOUS
  <1>1. CASE Client
    BY <1>1, ClientCancel
  <1>2. ASSUME NEW n \in wire, Take(n)
        PROVE  CancelInv'
    <2>1. \A o \in orders' : o.open =>
            o.name \in wire \/ \E p \in orders : p.open /\ p.name = o.name
      BY <1>2 DEF Take
    <2> QED
      BY <1>2, <2>1, ExchangeCancel DEF Take
  <1>3. ASSUME NEW n \in wire, Refuse(n)
        PROVE  CancelInv'
    BY <1>3, ExchangeCancel DEF Refuse
  <1>4. ASSUME NEW n \in wire, LoseRequest(n)
        PROVE  CancelInv'
    BY <1>4, ExchangeCancel DEF LoseRequest, client
  <1>5. CASE LoseAnswer
    BY <1>5, ExchangeCancel DEF LoseAnswer, exchange
  <1>6. CASE FillResting
    <2>1. PICK o \in orders, filled \in 1..Size :
            /\ o.open
            /\ orders' = (orders \ {o}) \cup
                 {[o EXCEPT !.filled = filled, !.open = filled < Size]}
            /\ UNCHANGED <<client, wire, late>>
      BY <1>6 DEF FillResting
    <2>2. [o EXCEPT !.filled = filled, !.open = filled < Size].name = o.name
      BY DEF OrdersTypeOK, Order
    <2>3. \A x \in orders' : x.open =>
            x.name \in wire \/ \E p \in orders : p.open /\ p.name = x.name
      BY <2>1, <2>2
    <2> QED
      BY <2>1, <2>3, ExchangeCancel DEF client
  <1>7. CASE UNCHANGED orderVars
    BY <1>7 DEF orderVars, CancelInv, Returned, SomethingUnfilled
  <1> QED
    BY <1>1, <1>2, <1>3, <1>4, <1>5, <1>6, <1>7 DEF OrdersNext, Exchange

\* When an execution with a failed leg returns, an order that is open then, or
\* becomes open before the next execution, was on the wire when the cancellation
\* was carried out; whatever the legs, the retries, the fills and the faults are.
THEOREM CancelLeavesLate == OrdersSpec => []OpenAfterFailureIsLate
  <1>1. CancelInv => OpenAfterFailureIsLate
    BY DEF CancelInv, OpenAfterFailureIsLate
  <1> QED
    BY <1>1, InitCancel, CancelStep, OrdersTypeCorrect, PTL DEF OrdersSpec

-----------------------------------------------------------------------------
\* What was traded stays traded.

Traded(n, lots) == \E o \in orders : o.name = n /\ o.filled >= lots

\* An answer that is waited for, and a report, stand for lots that were traded.
FillInv ==
    /\ phase = "wait" /\ answer.kind = "success" => Traded(Current, answer.filled)
    /\ PartialFillsAreReal

LEMMA TypeStep == OrdersTypeOK /\ [OrdersNext]_orderVars => OrdersTypeOK'
  <1>1. OrdersTypeOK /\ UNCHANGED orderVars => OrdersTypeOK'
    BY DEF orderVars, OrdersTypeOK
  <1> QED
    BY <1>1, ClientType, ExchangeType DEF OrdersNext

\* Lots that were traded stay so while every order is kept with its lots.
LEMMA TradesStay ==
  ASSUME \A o \in orders : \E p \in orders' : p.name = o.name /\ p.filled >= o.filled,
         OrdersTypeOK, OrdersTypeOK', NEW n, NEW lots \in Int, Traded(n, lots)
  PROVE  Traded(n, lots)'
  <1>1. PICK o \in orders : o.name = n /\ o.filled >= lots
    BY DEF Traded
  <1>2. PICK p \in orders' : p.name = o.name /\ p.filled >= o.filled
    BY <1>1
  <1>3. o.filled \in Int /\ p.filled \in Int
    BY <1>1, <1>2, OrdersAssumption DEF OrdersTypeOK, Order
  <1>4. p.name = n /\ p.filled >= lots
    BY <1>1, <1>2, <1>3
  <1> QED
    BY <1>4 DEF Traded

\* No step takes a trade back.
LEMMA OrdersKept ==
  ASSUME OrdersTypeOK, [OrdersNext]_orderVars
  PROVE  \A o \in orders : \E p \in orders' : p.name = o.name /\ p.filled >= o.filled
  <1>1. \A o \in orders : o \in Order /\ o.filled \in Int /\ o.filled >= o.filled
    BY OrdersAssumption DEF OrdersTypeOK, Order
  <1>2. CASE orders \subseteq orders'
    BY <1>1, <1>2
  <1>3. CASE CancelAll
    <2>1. orders' = {[o EXCEPT !.open = FALSE] : o \in orders} \/ orders' = orders
      BY <1>3 DEF CancelAll
    <2>2. \A o \in Order : [o EXCEPT !.open = FALSE].name = o.name
                           /\ [o EXCEPT !.open = FALSE].filled = o.filled
      BY DEF Order
    <2> QED
      BY <1>1, <2>1, <2>2
  <1>4. CASE FillResting
    <2>1. PICK o \in orders, filled \in 1..Size :
            /\ o.filled < filled
            /\ orders' = (orders \ {o}) \cup
                 {[o EXCEPT !.filled = filled, !.open = filled < Size]}
      BY <1>4 DEF FillResting
    <2> DEFINE q == [o EXCEPT !.filled = filled, !.open = filled < Size]
    <2>2. q \in orders' /\ q.name = o.name /\ q.filled = filled
      BY <1>1, <2>1 DEF Order
    <2>3. q.filled >= o.filled
      BY <1>1, <2>1, <2>2, OrdersAssumption
    <2>4. \A p \in orders : p # o => p \in orders'
      BY <2>1
    <2> QED
      BY <1>1, <2>2, <2>3, <2>4
  <1>5. OrdersNext => orders \subseteq orders' \/ CancelAll \/ FillResting
    BY DEF OrdersNext, Client, Exchange, Begin, Unparsed, Post, Succeed, Retry, Reject, TimeOut, Decide,
           exchange, client, Take, Refuse, LoseRequest, LoseAnswer
  <1>6. UNCHANGED orderVars => orders \subseteq orders'
    BY DEF orderVars
  <1> QED
    BY <1>2, <1>3, <1>4, <1>5, <1>6

\* Reports that are kept stay real.
LEMMA ReportsStayReal ==
  ASSUME OrdersTypeOK, [OrdersNext]_orderVars, PartialFillsAreReal, UNCHANGED <<run, report>>
  PROVE  PartialFillsAreReal'
  <1> SUFFICES ASSUME NEW l \in DOMAIN report, report[l].status = "PartiallyFilled"
               PROVE  \E o \in orders' : RunOf(o.name) = run /\ LegOf(o.name) = l
                                         /\ o.filled >= report[l].filled
    BY DEF PartialFillsAreReal
  <1>1. PICK o \in orders : RunOf(o.name) = run /\ LegOf(o.name) = l
                            /\ o.filled >= report[l].filled
    BY DEF PartialFillsAreReal
  <1>2. PICK p \in orders' : p.name = o.name /\ p.filled >= o.filled
    BY OrdersKept
  <1>3. o.filled \in Int /\ p.filled \in Int /\ report[l].filled \in Int
    <2>1. OrdersTypeOK'
      BY TypeStep
    <2>2. o \in Order /\ p \in Order /\ report[l] \in LegReport
      BY <2>1 DEF OrdersTypeOK
    <2> QED
      BY <2>2, OrdersAssumption DEF Order, LegReport
  <1> QED
    BY <1>1, <1>2, <1>3

\* Deciding a leg on an answer of the exchange, or on none.
LEMMA DecideFill ==
  ASSUME OrdersTypeOK, PartialFillsAreReal, phase \in {"post", "wait"},
         NEW leg \in LegReport, Decide(leg),
         leg.status = "PartiallyFilled" => Traded(Current, leg.filled)
  PROVE  FillInv'
  <1>1. /\ Len(report) \in Nat /\ DOMAIN report = 1..Len(report)
        /\ DOMAIN report' = 1..(Len(report) + 1)
        /\ \A l \in 1..Len(report) : report'[l] = report[l]
        /\ report'[Len(report) + 1] = leg
    BY Appended
  <1>2. UNCHANGED <<run, orders>> /\ phase' # "wait"
    BY DEF Decide, exchange
  <1>3. ASSUME NEW l \in 1..(Len(report) + 1), report'[l].status = "PartiallyFilled"
        PROVE  \E o \in orders : RunOf(o.name) = run /\ LegOf(o.name) = l
                                 /\ o.filled >= report'[l].filled
    <2>1. CASE l = Len(report) + 1
      BY <1>1, <1>3, <2>1 DEF Traded, Current, Leg, RunOf, LegOf
    <2>2. CASE l \in 1..Len(report)
      BY <1>1, <1>3, <2>2 DEF PartialFillsAreReal
    <2> QED
      BY <1>1, <2>1, <2>2
  <1>4. PartialFillsAreReal'
    BY <1>1, <1>2, <1>3 DEF PartialFillsAreReal
  <1> QED
    BY <1>2, <1>4 DEF FillInv

LEMMA FillStep == OrdersTypeOK /\ FillInv /\ [OrdersNext]_orderVars => FillInv'
  <1> SUFFICES ASSUME OrdersTypeOK, FillInv, [OrdersNext]_orderVars
               PROVE  FillInv'
    OBVIOUS
  <1>1. PartialFillsAreReal /\ OrdersTypeOK'
    BY TypeStep DEF FillInv
  <1>2. UNCHANGED <<run, report>> => PartialFillsAreReal'
    BY <1>1, ReportsStayReal
  <1>3. CASE Begin
    BY <1>3 DEF Begin, FillInv, PartialFillsAreReal
  <1>4. CASE Post
    BY <1>2, <1>4 DEF Post, FillInv, NoAnswer
  <1>5. CASE Succeed
    <2>1. answer.filled \in 0..Size /\ Traded(Current, answer.filled)
      BY <1>5 DEF Succeed, FillInv, OrdersTypeOK, Answer
    <2>2. FilledReport(answer.filled).status = "PartiallyFilled"
            => FilledReport(answer.filled).filled = answer.filled
      BY DEF FilledReport
    <2> QED
      BY <1>1, <1>5, <2>1, <2>2, OutcomeType, DecideFill DEF Succeed
  <1>6. CASE Retry
    BY <1>2, <1>6 DEF Retry, FillInv
  <1>7. CASE Reject
    BY <1>1, <1>7, OutcomeType, DecideFill DEF Reject
  <1>8. CASE TimeOut
    BY <1>1, <1>8, OutcomeType, DecideFill DEF TimeOut
  <1>9. CASE CancelAll
    BY <1>2, <1>9 DEF CancelAll, FillInv
  <1>10. ASSUME UNCHANGED <<phase, run, attempt, report, answer>>
         PROVE  FillInv'
    <2>1. Current' = Current
      BY <1>10 DEF Current, Leg
    <2>2. answer.filled \in Int
      BY OrdersAssumption DEF OrdersTypeOK, Answer
    <2>3. Traded(Current, answer.filled) => Traded(Current, answer.filled)'
      BY <1>1, <1>10, <2>1, <2>2, OrdersKept, TradesStay DEF Traded
    <2> QED
      BY <1>2, <1>10, <2>3 DEF FillInv
  <1>11. ASSUME NEW n \in wire, Take(n)
         PROVE  FillInv'
    <2>1. CASE answer' = answer
      BY <1>10, <1>11, <2>1 DEF Take
    <2>2. CASE answer' # answer
      <3>1. PICK filled \in (IF PreferPostOnly THEN 0..Size ELSE {Size}) :
              /\ orders' = orders \cup {[name |-> n, filled |-> filled, open |-> filled < Size]}
              /\ Reply(n, [kind |-> "success", filled |-> filled])
        BY <1>11 DEF Take
      <3>2. n = Current /\ answer'.filled = filled
        BY <2>2, <3>1 DEF Reply, Awaited
      <3>3. filled \in Int /\ filled >= filled
        BY OrdersAssumption
      <3>4. Current' = Current /\ UNCHANGED <<run, report>>
        BY <1>11 DEF Take, Current, Leg
      <3>5. Traded(Current, answer.filled)'
        <4> DEFINE o == [name |-> n, filled |-> filled, open |-> filled < Size]
        <4>1. o \in orders' /\ o.name = n /\ o.filled = filled
          BY <3>1
        <4>2. o.name = Current' /\ o.filled >= answer'.filled
          BY <3>2, <3>3, <3>4, <4>1
        <4> QED
          BY <4>1, <4>2 DEF Traded
      <3> QED
        BY <1>2, <3>4, <3>5 DEF FillInv
    <2> QED
      BY <2>1, <2>2
  <1>12. ASSUME NEW n \in wire, Refuse(n)
         PROVE  FillInv'
    <2>1. CASE answer' = answer
      BY <1>10, <1>12, <2>1 DEF Refuse
    <2>2. CASE answer' # answer
      <3>1. answer'.kind = "refused"
        BY <1>12, <2>2 DEF Refuse, Reply, NoAnswer
      <3> QED
        BY <1>2, <1>12, <3>1 DEF Refuse, FillInv
    <2> QED
      BY <2>1, <2>2
  <1>13. ASSUME NEW n \in wire, LoseRequest(n)
         PROVE  FillInv'
    BY <1>10, <1>13 DEF LoseRequest, client
  <1>14. CASE LoseAnswer
    BY <1>2, <1>14 DEF LoseAnswer, FillInv, NoAnswer
  <1>15. CASE FillResting
    BY <1>10, <1>15 DEF FillResting, client
  <1>16. CASE UNCHANGED orderVars
    BY <1>10, <1>16 DEF orderVars
  <1>17. CASE Unparsed
    BY <1>2, <1>17 DEF Unparsed, FillInv
  <1> QED
    BY <1>3, <1>4, <1>5, <1>6, <1>7, <1>8, <1>9, <1>11, <1>12, <1>13, <1>14, <1>15, <1>16,
       <1>17
    DEF OrdersNext, Client, Exchange

\* A partial fill that is reported was traded by an order of that leg of that
\* execution, however many answers were lost and attempts made.
THEOREM FillsAreReal == OrdersSpec => []PartialFillsAreReal
  <1>1. OrdersInit => FillInv
    BY DEF OrdersInit, FillInv, PartialFillsAreReal
  <1>2. FillInv => PartialFillsAreReal
    BY DEF FillInv
  <1> QED
    BY <1>1, <1>2, FillStep, OrdersTypeCorrect, PTL DEF OrdersSpec

-----------------------------------------------------------------------------
\* Reports and the orders they answer for.

\* An order of the current execution's leg whose answer was not lost.
Reads(o, l) == RunOf(o.name) = run /\ LegOf(o.name) = l /\ o.name \notin lost

NoneHeard(l) == \A o \in orders : ~Reads(o, l)
OneHeard(l) == \E o \in orders : Reads(o, l) /\ \A p \in orders : Reads(p, l) => p = o

\* The name was used before the order to be posted next.
Past(n) ==
    \/ RunOf(n) < run
    \/ RunOf(n) = run /\ LegOf(n) <= Len(report)
    \/ RunOf(n) = run /\ LegOf(n) = Leg /\ n[3] < attempt
    \/ phase = "wait" /\ n = Current

\* Names are used once.
NamesInv ==
    /\ \A n \in wire : Past(n)
    /\ \A n \in lost : Past(n)
    /\ \A o \in orders : Past(o.name) /\ o.name \notin wire
    /\ \A o, p \in orders : o.name = p.name => o = p

\* What has been read of the current leg, and what is still to be answered.
AnswerInv ==
    /\ phase = "post" => NoneHeard(Leg)
    /\ phase = "wait" => IF answer.kind = "success" THEN OneHeard(Leg) ELSE NoneHeard(Leg)
    /\ phase = "wait" => \A o \in orders : Reads(o, Leg) => o.name = Current
    /\ phase = "wait" /\ answer = NoAnswer => Current \notin lost
    /\ \A n \in wire \ lost :
          RunOf(n) = run => phase = "wait" /\ n = Current /\ answer = NoAnswer

Answered == \A l \in DOMAIN report :
                IF Failed(report[l]) THEN NoneHeard(l) ELSE OneHeard(l)

HeardInv == NamesInv /\ AnswerInv /\ Answered

LEMMA HeardInitially == OrdersInit => HeardInv
  BY DEF OrdersInit, HeardInv, NamesInv, AnswerInv, Answered, NoneHeard

LEMMA HeardIsRead == HeardInv => ReportsAnswerForOrders
  <1> SUFFICES ASSUME HeardInv, NEW l \in DOMAIN report
               PROVE  IF Failed(report[l]) THEN Heard(l) = {} ELSE \E o \in orders : Heard(l) = {o}
    BY DEF ReportsAnswerForOrders
  <1>1. Heard(l) = {o \in orders : Reads(o, l)}
    BY DEF Heard, Reads
  <1>2. NoneHeard(l) => Heard(l) = {}
    BY <1>1 DEF NoneHeard
  <1>3. OneHeard(l) => \E o \in orders : Heard(l) = {o}
    BY <1>1 DEF OneHeard
  <1> QED
    BY <1>2, <1>3 DEF HeardInv, Answered

\* Names as numbers, and what follows from the types.
LEMMA NamesAreNumbers ==
  ASSUME OrdersTypeOK
  PROVE  /\ run \in Int /\ attempt \in Int /\ Len(report) \in Nat /\ DOMAIN report = 1..Len(report)
         /\ \A n \in Name : RunOf(n) \in Int /\ LegOf(n) \in Int /\ n[3] \in Int
         /\ RunOf(Current) = run /\ LegOf(Current) = Leg /\ Current[3] = attempt
         /\ Leg = Len(report) + 1 /\ wire \subseteq Name /\ lost \subseteq Name
         /\ \A o \in orders : o.name \in Name
  BY OrdersAssumption DEF OrdersTypeOK, Name, RunOf, LegOf, Current, Leg, Order

\* Orders that keep their names answer for the same legs.
LEMMA SameNamesSameHeard ==
  ASSUME NEW g, orders' = {g[o] : o \in orders}, \A o \in orders : g[o].name = o.name,
         UNCHANGED <<run, lost>>, NEW l
  PROVE  (NoneHeard(l) => NoneHeard(l)') /\ (OneHeard(l) => OneHeard(l)')
  <1>1. \A o \in orders : Reads(g[o], l)' <=> Reads(o, l)
    BY DEF Reads
  <1>2. NoneHeard(l) => NoneHeard(l)'
    BY <1>1 DEF NoneHeard
  <1>3. ASSUME OneHeard(l) PROVE OneHeard(l)'
    <2>1. PICK o \in orders : Reads(o, l) /\ \A p \in orders : Reads(p, l) => p = o
      BY <1>3 DEF OneHeard
    <2>2. g[o] \in orders' /\ Reads(g[o], l)'
      BY <1>1, <2>1
    <2>3. \A q \in orders' : Reads(q, l)' => q = g[o]
      BY <1>1, <2>1
    <2> QED
      BY <2>2, <2>3 DEF OneHeard
  <1> QED
    BY <1>2, <1>3

LEMMA RenamedKeeps ==
  ASSUME OrdersTypeOK, HeardInv,
         NEW g, orders' = {g[o] : o \in orders}, \A o \in orders : g[o].name = o.name,
         UNCHANGED <<run, attempt, answer, report, wire, lost>>,
         phase' = phase \/ (phase \notin {"post", "wait"} /\ phase' \notin {"post", "wait"})
  PROVE  HeardInv'
  <1>1. Current' = Current /\ Leg' = Leg
    BY DEF Current, Leg
  <1>2. \A n : Past(n) => Past(n)'
    BY <1>1 DEF Past
  <1>3. NamesInv'
    BY <1>2 DEF HeardInv, NamesInv
  <1>4. \A l : (NoneHeard(l) => NoneHeard(l)') /\ (OneHeard(l) => OneHeard(l)')
    BY SameNamesSameHeard
  <1>5. AnswerInv'
    <2>1. phase' = "wait" => \A o \in orders' : Reads(o, Leg)' => o.name = Current
      BY <1>1 DEF HeardInv, AnswerInv, Reads
    <2> QED
      BY <1>1, <1>4, <2>1 DEF HeardInv, AnswerInv
  <1>6. Answered'
    BY <1>4 DEF HeardInv, Answered
  <1> QED
    BY <1>3, <1>5, <1>6 DEF HeardInv

\* Deciding a leg: on no order that was heard of, or on the one that was.
LEMMA DecideHeard ==
  ASSUME OrdersTypeOK, HeardInv, phase \in {"post", "wait"}, NEW leg \in LegReport, Decide(leg),
         NEW k, k = Len(report) + 1,
         lost \subseteq lost', \A n \in lost' : n \in lost \/ (phase = "wait" /\ n = Current),
         \A n \in wire \ lost' : RunOf(n) # run,
         IF Failed(leg) THEN NoneHeard(k)' ELSE OneHeard(k)'
  PROVE  HeardInv'
  <1>1. /\ Len(report) \in Nat /\ DOMAIN report = 1..Len(report)
        /\ Len(report') = Len(report) + 1
        /\ DOMAIN report' = 1..(Len(report) + 1)
        /\ \A l \in 1..Len(report) : report'[l] = report[l]
        /\ report'[Len(report) + 1] = leg
    BY Appended
  <1>2. UNCHANGED <<run, wire, orders>> /\ attempt' = 0 /\ phase' # "wait"
    BY DEF Decide, exchange
  <1>3. Leg = k /\ Leg' = k + 1
    BY <1>1 DEF Leg
  <1>4. \A n \in Name : Past(n) => Past(n)'
    BY <1>1, <1>2, <1>3, NamesAreNumbers DEF Past
  <1>5. NamesInv'
    <2>1. \A n \in lost' : Past(n)'
      <3>1. Current \in Name
        BY CurrentIsName
      <3>2. phase = "wait" => Past(Current)
        BY DEF Past
      <3> QED
        BY <1>4, <3>1, <3>2, NamesAreNumbers DEF HeardInv, NamesInv
    <2> QED
      BY <1>2, <1>4, <2>1, NamesAreNumbers DEF HeardInv, NamesInv
  <1>6. NoneHeard(k + 1)'
    <2> SUFFICES ASSUME NEW o \in orders, LegOf(o.name) = k + 1, RunOf(o.name) = run
                 PROVE  FALSE
      BY <1>2 DEF NoneHeard, Reads
    <2>1. Past(o.name)
      BY DEF HeardInv, NamesInv
    <2> QED
      BY <1>1, <1>3, <2>1, NamesAreNumbers DEF Past
  <1>7. AnswerInv'
    BY <1>2, <1>3, <1>6 DEF AnswerInv
  <1>8. ASSUME NEW l \in 1..Len(report)
        PROVE  (NoneHeard(l) => NoneHeard(l)') /\ (OneHeard(l) => OneHeard(l)')
    <2>1. \A o \in orders : Reads(o, l)' <=> Reads(o, l)
      <3>1. l # LegOf(Current)
        BY <1>1, NamesAreNumbers
      <3> QED
        BY <1>2, <3>1 DEF Reads
    <2> QED
      BY <1>2, <2>1 DEF NoneHeard, OneHeard
  <1>9. Answered'
    <2> SUFFICES ASSUME NEW l \in 1..(Len(report) + 1)
                 PROVE  IF Failed(report'[l]) THEN NoneHeard(l)' ELSE OneHeard(l)'
      BY <1>1 DEF Answered
    <2>1. CASE l = Len(report) + 1
      BY <1>1, <2>1
    <2>2. CASE l \in 1..Len(report)
      BY <1>1, <1>8, <2>2 DEF HeardInv, Answered
    <2> QED
      BY <1>1, <2>1, <2>2
  <1> QED
    BY <1>5, <1>7, <1>9 DEF HeardInv

\* The client's steps.
LEMMA PostHeard ==
  ASSUME OrdersTypeOK, HeardInv, Post
  PROVE  HeardInv'
  <1>1. UNCHANGED <<run, attempt, report, orders, lost>> /\ phase = "post" /\ phase' = "wait"
    BY DEF Post
  <1>2. Current' = Current /\ Leg' = Leg
    BY <1>1 DEF Current, Leg
  <1>3. ~Past(Current)
    BY <1>1, NamesAreNumbers DEF Past
  <1>4. \A n : Past(n) => Past(n)'
    BY <1>1, <1>2 DEF Past
  <1>5. Past(Current)'
    BY <1>1, <1>2 DEF Past
  <1>6. wire' \in {wire, wire \cup {Current}} /\ (wire' # wire => answer' = NoAnswer)
    BY DEF Post
  <1>7. Current \notin lost /\ \A o \in orders : o.name # Current
    BY <1>3 DEF HeardInv, NamesInv
  <1>8. NamesInv'
    BY <1>1, <1>2, <1>4, <1>5, <1>6, <1>7 DEF HeardInv, NamesInv
  <1>9. NoneHeard(Leg) /\ \A l : (NoneHeard(l) <=> NoneHeard(l)') /\ (OneHeard(l) <=> OneHeard(l)')
    BY <1>1 DEF HeardInv, AnswerInv, NoneHeard, OneHeard, Reads
  <1>10. AnswerInv'
    <2>1. answer'.kind # "success"
      BY DEF Post, NoAnswer
    <2>2. \A n \in wire \ lost : RunOf(n) # run
      BY <1>1 DEF HeardInv, AnswerInv
    <2> QED
      BY <1>1, <1>2, <1>6, <1>7, <1>9, <2>1, <2>2 DEF AnswerInv, NoneHeard
  <1>11. Answered'
    BY <1>1, <1>9 DEF HeardInv, Answered
  <1> QED
    BY <1>8, <1>10, <1>11 DEF HeardInv

LEMMA ClientHeard ==
  ASSUME OrdersTypeOK, HeardInv, Client
  PROVE  HeardInv'
  <1>1. CASE Begin
    <2>1. \A n \in Name : RunOf(n) <= run => RunOf(n) < run'
      BY <1>1, NamesAreNumbers DEF Begin
    <2>2. \A n \in Name : Past(n) => RunOf(n) <= run
      BY NamesAreNumbers DEF Past
    <2>3. \A n \in Name : Past(n) => Past(n)' /\ RunOf(n) # run'
      BY <2>1, <2>2, NamesAreNumbers DEF Past
    <2>4. UNCHANGED <<wire, orders, lost>> /\ report' = <<>> /\ phase' = "post"
      BY <1>1 DEF Begin, exchange
    <2>5. NamesInv'
      BY <2>3, <2>4, NamesAreNumbers DEF HeardInv, NamesInv
    <2>6. \A o \in orders : RunOf(o.name) # run'
      BY <2>3, NamesAreNumbers DEF HeardInv, NamesInv
    <2>7. AnswerInv'
      <3>1. \A l : NoneHeard(l)'
        BY <2>4, <2>6 DEF NoneHeard, Reads
      <3>2. \A n \in wire : RunOf(n) # run'
        BY <2>3, NamesAreNumbers DEF HeardInv, NamesInv
      <3> QED
        BY <2>4, <3>1, <3>2 DEF AnswerInv
    <2>8. Answered'
      BY <2>4 DEF Answered
    <2> QED
      BY <2>5, <2>7, <2>8 DEF HeardInv
  <1>2. CASE Unparsed
    <2>1. UNCHANGED <<run, attempt, answer, report, wire, orders, lost>>
          /\ phase = "post" /\ phase' = "idle"
      BY <1>2 DEF Unparsed, exchange
    <2>2. \A n : Past(n) => Past(n)'
      BY <2>1 DEF Past, Leg
    <2>3. \A l : (NoneHeard(l) <=> NoneHeard(l)') /\ (OneHeard(l) <=> OneHeard(l)')
      BY <2>1 DEF NoneHeard, OneHeard, Reads
    <2>4. NamesInv'
      BY <2>1, <2>2 DEF HeardInv, NamesInv
    <2>5. AnswerInv'
      BY <2>1 DEF HeardInv, AnswerInv
    <2>6. Answered'
      BY <2>1, <2>3 DEF HeardInv, Answered
    <2> QED
      BY <2>4, <2>5, <2>6 DEF HeardInv
  <1>3. CASE Post
    BY <1>3, PostHeard
  <1>4. CASE Succeed
    <2>1. answer.filled \in 0..Size /\ answer # NoAnswer
      BY <1>4 DEF Succeed, OrdersTypeOK, Answer, NoAnswer
    <2>2. ~Failed(FilledReport(answer.filled))
      BY DEF FilledReport, Failed
    <2>3. OneHeard(Leg) /\ \A n \in wire \ lost : RunOf(n) # run
      BY <1>4, <2>1 DEF Succeed, HeardInv, AnswerInv
    <2>4. UNCHANGED <<run, orders, lost>>
      BY <1>4 DEF Succeed, Decide, exchange
    <2> PICK k : k = Leg
      OBVIOUS
    <2>5. OneHeard(k)' /\ k = Len(report) + 1
      BY <2>3, <2>4 DEF OneHeard, Reads, Leg
    <2> QED
      BY <1>4, <2>1, <2>2, <2>3, <2>4, <2>5, OutcomeType, DecideHeard DEF Succeed
  <1>5. CASE Retry
    <2>1. UNCHANGED <<run, report, wire, orders, lost>> /\ attempt' = attempt + 1
          /\ phase = "wait" /\ phase' = "post"
      BY <1>5 DEF Retry, exchange
    <2>2. answer.kind # "success" /\ answer # NoAnswer
      BY <1>5 DEF Retry, Transient, NoAnswer
    <2>3. Leg' = Leg
      BY <2>1 DEF Leg
    <2>4. \A n \in Name : Past(n) => Past(n)'
      BY <2>1, <2>3, NamesAreNumbers DEF Past
    <2>5. \A l : (NoneHeard(l) <=> NoneHeard(l)') /\ (OneHeard(l) <=> OneHeard(l)')
      BY <2>1 DEF NoneHeard, OneHeard, Reads
    <2>6. NamesInv'
      BY <2>1, <2>4, NamesAreNumbers DEF HeardInv, NamesInv
    <2>7. AnswerInv'
      BY <2>1, <2>2, <2>3, <2>5 DEF HeardInv, AnswerInv
    <2>8. Answered'
      BY <2>1, <2>5 DEF HeardInv, Answered
    <2> QED
      BY <2>6, <2>7, <2>8 DEF HeardInv
  <1>6. CASE Reject
    <2>1. answer.kind # "success" /\ answer # NoAnswer
      BY <1>6 DEF Reject, Transient, NoAnswer
    <2>2. NoneHeard(Leg) /\ \A n \in wire \ lost : RunOf(n) # run
      BY <1>6, <2>1 DEF Reject, HeardInv, AnswerInv
    <2>3. UNCHANGED <<run, orders, lost>>
      BY <1>6 DEF Reject, Decide, exchange
    <2> PICK k : k = Leg
      OBVIOUS
    <2>4. NoneHeard(k)' /\ k = Len(report) + 1
      BY <2>2, <2>3 DEF NoneHeard, Reads, Leg
    <2>5. Failed([status |-> "Rejected", filled |-> 0])
      BY DEF Failed
    <2> QED
      BY <1>6, <2>1, <2>2, <2>3, <2>4, <2>5, OutcomeType, DecideHeard DEF Reject
  <1>7. CASE TimeOut
    <2>1. UNCHANGED <<run, orders, wire>> /\ phase \in {"post", "wait"}
      BY <1>7 DEF TimeOut, Decide, exchange
    <2>2. lost' = IF phase = "wait" THEN lost \cup {Current} ELSE lost
      BY <1>7 DEF TimeOut
    <2>3. \A n \in wire \ lost' : RunOf(n) # run
      BY <2>1, <2>2 DEF HeardInv, AnswerInv
    <2> PICK k : k = Leg
      OBVIOUS
    <2>4. NoneHeard(k)' /\ k = Len(report) + 1
      <3> SUFFICES ASSUME NEW o \in orders, RunOf(o.name) = run, LegOf(o.name) = Leg,
                          o.name \notin lost'
                   PROVE  FALSE
        BY <2>1 DEF NoneHeard, Reads, Leg
      <3>1. Reads(o, Leg)
        BY <2>2 DEF Reads
      <3>2. phase = "wait"
        BY <2>1, <3>1 DEF HeardInv, AnswerInv, NoneHeard
      <3>3. o.name = Current
        BY <3>1, <3>2 DEF HeardInv, AnswerInv
      <3> QED
        BY <2>2, <3>2, <3>3
    <2>5. Failed([status |-> "Cancelled", filled |-> 0])
      BY DEF Failed
    <2> QED
      BY <1>7, <2>1, <2>2, <2>3, <2>4, <2>5, OutcomeType, DecideHeard DEF TimeOut
  <1>8. CASE CancelAll
    <2>1. UNCHANGED <<run, attempt, answer, report, wire, lost>>
          /\ phase = "cancel" /\ phase' = "idle"
      BY <1>8 DEF CancelAll
    <2>2. \A o \in orders : [o EXCEPT !.open = FALSE].name = o.name
      BY DEF OrdersTypeOK, Order
    <2>3. PICK g : orders' = {g[o] : o \in orders} /\ \A o \in orders : g[o].name = o.name
      <3>1. CASE orders' = orders
        <4> DEFINE g == [o \in orders |-> o]
        <4>1. orders' = {g[o] : o \in orders} /\ \A o \in orders : g[o].name = o.name
          BY <3>1
        <4> QED
          BY <4>1
      <3>2. CASE orders' = {[o EXCEPT !.open = FALSE] : o \in orders}
        <4> DEFINE g == [o \in orders |-> [o EXCEPT !.open = FALSE]]
        <4>1. orders' = {g[o] : o \in orders} /\ \A o \in orders : g[o].name = o.name
          BY <2>2, <3>2
        <4> QED
          BY <4>1
      <3> QED
        BY <1>8, <3>1, <3>2 DEF CancelAll
    <2> QED
      BY <2>1, <2>3, RenamedKeeps
  <1> QED
    BY <1>1, <1>2, <1>3, <1>4, <1>5, <1>6, <1>7, <1>8 DEF Client

\* What the exchange does with a request leaves what was reported as it is.
LEMMA OldLegsStay ==
  ASSUME OrdersTypeOK, HeardInv, UNCHANGED <<run, report, lost>>,
         NEW n \in wire, \A o \in orders : o \in orders',
         \A o \in orders' : o \in orders \/ o.name = n
  PROVE  Answered'
  <1>1. ASSUME NEW l \in DOMAIN report
        PROVE  (NoneHeard(l) => NoneHeard(l)') /\ (OneHeard(l) => OneHeard(l)')
    <2>1. \A o \in orders' : o.name = n => ~Reads(o, l)'
      <3>1. n \notin lost /\ RunOf(n) = run => LegOf(n) = Leg
        BY NamesAreNumbers DEF HeardInv, AnswerInv
      <3>2. l # Leg
        BY NamesAreNumbers
      <3> QED
        BY <3>1, <3>2 DEF Reads
    <2>2. \A o \in orders : Reads(o, l)' <=> Reads(o, l)
      BY DEF Reads
    <2> QED
      BY <2>1, <2>2 DEF NoneHeard, OneHeard
  <1> QED
    BY <1>1 DEF HeardInv, Answered

LEMMA TakeHeard ==
  ASSUME OrdersTypeOK, HeardInv, NEW n \in wire, Take(n)
  PROVE  HeardInv'
  <1>1. PICK filled \in (IF PreferPostOnly THEN 0..Size ELSE {Size}) :
          /\ orders' = orders \cup {[name |-> n, filled |-> filled, open |-> filled < Size]}
          /\ Reply(n, [kind |-> "success", filled |-> filled])
    BY DEF Take
  <1> DEFINE new == [name |-> n, filled |-> filled, open |-> filled < Size]
  <1>2. new \in orders' /\ new.name = n /\ (\A o \in orders : o \in orders')
        /\ \A o \in orders' : o \in orders \/ o = new
    BY <1>1
  <1>3. UNCHANGED <<phase, run, attempt, report, lost>> /\ wire' = wire \ {n}
    BY DEF Take
  <1> HIDE DEF new
  <1>4. Current' = Current /\ Leg' = Leg /\ \A m : Past(m) <=> Past(m)'
    BY <1>3 DEF Current, Leg, Past
  <1>5. NamesInv'
    <2>1. Past(n) /\ \A o \in orders : o.name # n
      BY DEF HeardInv, NamesInv
    <2> QED
      BY <1>2, <1>3, <1>4, <2>1 DEF HeardInv, NamesInv
  <1>6. Answered'
    BY <1>2, <1>3, OldLegsStay
  <1>7. \A l : \A o \in orders : Reads(o, l)' <=> Reads(o, l)
    BY <1>3 DEF Reads
  <1>8. AnswerInv'
    <2>1. CASE n \notin lost /\ RunOf(n) = run
      <3>1. phase = "wait" /\ n = Current /\ answer = NoAnswer
        BY <2>1 DEF HeardInv, AnswerInv
      <3>2. answer' = [kind |-> "success", filled |-> filled]
        BY <1>1, <3>1 DEF Reply, Awaited
      <3>3. NoneHeard(Leg)
        BY <3>1 DEF HeardInv, AnswerInv, NoAnswer
      <3>4. Reads(new, Leg)'
        BY <1>2, <1>3, <1>4, <2>1, <3>1, NamesAreNumbers DEF Reads
      <3>5. \A o \in orders' : Reads(o, Leg)' => o = new
        BY <1>2, <1>4, <1>7, <3>3 DEF NoneHeard
      <3>6. OneHeard(Leg)'
        BY <1>2, <3>4, <3>5 DEF OneHeard
      <3>7. \A m \in wire' \ lost : RunOf(m) # run
        BY <1>3, <3>1 DEF HeardInv, AnswerInv
      <3>8. answer'.kind = "success" /\ answer' # NoAnswer
        BY <3>2 DEF NoAnswer
      <3> QED
        BY <1>2, <1>3, <1>4, <3>1, <3>5, <3>6, <3>7, <3>8 DEF AnswerInv
    <2>2. CASE n \in lost \/ RunOf(n) # run
      <3>1. ~Awaited(n)
        BY <2>2, NamesAreNumbers DEF Awaited, HeardInv, AnswerInv
      <3>2. answer' = answer
        BY <1>1, <3>1 DEF Reply
      <3>3. \A l : ~Reads(new, l)'
        BY <1>2, <1>3, <2>2 DEF Reads
      <3>4. \A l : (NoneHeard(l) => NoneHeard(l)') /\ (OneHeard(l) => OneHeard(l)')
        BY <1>2, <1>7, <3>3 DEF NoneHeard, OneHeard
      <3>5. phase = "wait" => \A o \in orders' : Reads(o, Leg)' => o.name = Current
        BY <1>2, <1>4, <1>7, <3>3 DEF HeardInv, AnswerInv
      <3> QED
        BY <1>3, <1>4, <3>2, <3>4, <3>5 DEF HeardInv, AnswerInv
    <2> QED
      BY <2>1, <2>2
  <1> QED
    BY <1>5, <1>6, <1>8 DEF HeardInv

\* A step that takes no order, and answers at most a request that is off the wire.
LEMMA NoneTakenHeard ==
  ASSUME OrdersTypeOK, HeardInv, UNCHANGED <<phase, run, attempt, report, orders>>,
         wire' \subseteq wire, lost \subseteq lost',
         \A m \in lost' : m \in lost \/ (phase = "wait" /\ m = Current /\ answer = NoAnswer),
         \/ answer' = answer /\ lost' = lost
         \/ /\ phase = "wait" /\ answer = NoAnswer /\ answer'.kind \notin {"success", "none"}
            /\ Current \notin wire' \/ Current \in lost'
  PROVE  HeardInv'
  <1>1. Current' = Current /\ Leg' = Leg /\ \A m : Past(m) <=> Past(m)'
    BY DEF Current, Leg, Past
  <1>2. NamesInv'
    BY <1>1 DEF HeardInv, NamesInv, Past
  <1>3. CASE lost' = lost /\ answer' = answer
    <2>1. \A l : (NoneHeard(l) <=> NoneHeard(l)') /\ (OneHeard(l) <=> OneHeard(l)')
      BY <1>3 DEF NoneHeard, OneHeard, Reads
    <2>2. AnswerInv'
      BY <1>1, <1>3, <2>1 DEF HeardInv, AnswerInv, Reads
    <2>3. Answered'
      BY <2>1 DEF HeardInv, Answered
    <2> QED
      BY <1>2, <2>2, <2>3 DEF HeardInv
  <1>4. CASE ~(lost' = lost /\ answer' = answer)
    <2>1. /\ phase = "wait" /\ answer = NoAnswer /\ answer'.kind \notin {"success", "none"}
          /\ Current \notin wire' \/ Current \in lost'
      BY <1>4
    <2>2. NoneHeard(Leg)
      BY <2>1 DEF HeardInv, AnswerInv, NoAnswer
    <2>3. \A l : \A o \in orders : Reads(o, l)' <=> Reads(o, l)
      <3> SUFFICES ASSUME NEW l, NEW o \in orders, Reads(o, l), o.name \in lost'
                   PROVE  FALSE
        BY DEF Reads
      <3>1. o.name = Current /\ o.name \notin lost
        BY DEF Reads
      <3>2. l = Leg
        BY <3>1, NamesAreNumbers DEF Reads
      <3> QED
        BY <2>2, <3>2 DEF NoneHeard
    <2>4. \A l : (NoneHeard(l) <=> NoneHeard(l)') /\ (OneHeard(l) <=> OneHeard(l)')
      BY <2>3 DEF NoneHeard, OneHeard
    <2>5. answer' # NoAnswer /\ answer'.kind # "success"
      BY <2>1 DEF NoAnswer
    <2>6. \A m \in wire' \ lost' : RunOf(m) # run
      BY <2>1 DEF HeardInv, AnswerInv
    <2>7. AnswerInv'
      BY <1>1, <2>1, <2>2, <2>3, <2>4, <2>5, <2>6 DEF AnswerInv, NoneHeard
    <2>8. Answered'
      BY <2>4 DEF HeardInv, Answered
    <2> QED
      BY <1>2, <2>7, <2>8 DEF HeardInv
  <1> QED
    BY <1>3, <1>4

LEMMA HeardStep == OrdersTypeOK /\ HeardInv /\ [OrdersNext]_orderVars => HeardInv'
  <1> SUFFICES ASSUME OrdersTypeOK, HeardInv, [OrdersNext]_orderVars
               PROVE  HeardInv'
    OBVIOUS
  <1>1. CASE Client
    BY <1>1, ClientHeard
  <1>2. ASSUME NEW n \in wire, Take(n) PROVE HeardInv'
    BY <1>2, TakeHeard
  <1>3. ASSUME NEW n \in wire, Refuse(n) PROVE HeardInv'
    <2>1. UNCHANGED <<phase, run, attempt, report, orders, lost>> /\ wire' = wire \ {n}
          /\ Reply(n, [NoAnswer EXCEPT !.kind = "refused"])
      BY <1>3 DEF Refuse
    <2>2. CASE Awaited(n)
      <3>1. answer'.kind = "refused" /\ Current \notin wire'
        BY <2>1, <2>2 DEF Reply, Awaited, NoAnswer
      <3> QED
        BY <2>1, <2>2, <3>1, NoneTakenHeard DEF Awaited
    <2>3. CASE ~Awaited(n)
      BY <2>1, <2>3, NoneTakenHeard DEF Reply
    <2> QED
      BY <2>2, <2>3
  <1>4. ASSUME NEW n \in wire, LoseRequest(n) PROVE HeardInv'
    BY <1>4, NoneTakenHeard DEF LoseRequest, client
  <1>5. CASE LoseAnswer
    <2>1. PICK kind \in {"transient", "permanent"} : answer' = [NoAnswer EXCEPT !.kind = kind]
      BY <1>5 DEF LoseAnswer
    <2>2. answer'.kind = kind /\ kind \notin {"success", "none"}
      BY <2>1 DEF NoAnswer
    <2> QED
      BY <1>5, <2>2, NoneTakenHeard DEF LoseAnswer, exchange
  <1>6. CASE FillResting
    <2>1. PICK o \in orders, filled \in 1..Size :
            /\ orders' = (orders \ {o}) \cup
                 {[o EXCEPT !.filled = filled, !.open = filled < Size]}
            /\ UNCHANGED <<client, wire, late, lost>>
      BY <1>6 DEF FillResting
    <2> DEFINE q == [o EXCEPT !.filled = filled, !.open = filled < Size]
               g == [p \in orders |-> IF p = o THEN q ELSE p]
    <2>2. q.name = o.name
      BY DEF OrdersTypeOK, Order
    <2> HIDE DEF q
    <2>3. orders' = {g[p] : p \in orders} /\ \A p \in orders : g[p].name = p.name
      BY <2>1, <2>2 DEF q
    <2> HIDE DEF g
    <2> QED
      BY <2>1, <2>3, RenamedKeeps DEF client
  <1>7. CASE UNCHANGED orderVars
    BY <1>7, NoneTakenHeard DEF orderVars
  <1> QED
    BY <1>1, <1>2, <1>3, <1>4, <1>5, <1>6, <1>7 DEF OrdersNext, Exchange

\* A report answers for every order of its leg but those whose answers were lost,
\* for any number of legs, retries and executions: names are used once, a request
\* is answered once, and a leg is decided on what was read.
THEOREM ReportsAnswer == OrdersSpec => []ReportsAnswerForOrders
  <1> QED
    BY HeardInitially, HeardIsRead, HeardStep, OrdersTypeCorrect, PTL DEF OrdersSpec
=============================================================================
