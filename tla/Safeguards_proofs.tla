------------------------- MODULE Safeguards_proofs -------------------------
(* For every instance: what is saved stays saved, the rate limiter keeps to *)
(* its budget, the two indexes of the quotes agree, the dashboard's clients *)
(* are served, the command line keeps the user's key and runs its commands  *)
(* as it says, the daemon keeps the halt's contract, the breaker judges     *)
(* what is recent, the log loses little, the local books follow the         *)
(* exchange's, the monitors and the metrics say what they promise, the      *)
(* first load misses only what left the list, and what is written to the    *)
(* configuration file and the price history comes back.                     *)
EXTENDS StateFiles, Guards, DaemonEngine, BookFeed, FiniteSetTheorems, TLAPS

(***************************************************************************)
(* What a filter keeps                                                     *)
(***************************************************************************)
AppendKept(of, i, sofar) == IF of[1][i] \in of[2] THEN Append(sofar, of[1][i]) ELSE sofar
HighestOf(s) == CHOOSE x \in s : \A y \in s : x >= y
Keeping == INSTANCE FoldFacts WITH Op <- AppendKept, Pick <- HighestOf

LEMMA KeptIsFold ==
  ASSUME NEW S, NEW seq \in Seq(S), NEW T
  PROVE  /\ Kept(seq, T) = Keeping!KeptOf(seq, T)
         /\ Keeping!Keeps(seq, T)
         /\ \A n \in Nat : \A s \in SUBSET (1..n) : HighestOf(s) = Keeping!Highest(s)
  <1>1. DOMAIN seq = 1..Len(seq)
    OBVIOUS
  <1>2. Kept(seq, T) = Keeping!KeptOf(seq, T)
    BY <1>1 DEF Kept, FoldLeft, MapThenFoldSet, Max, HighestOf, Keeping!KeptOf, Keeping!Fold,
       Keeping!Equation, AppendKept
  <1>3. Keeping!Keeps(seq, T)
    BY DEF Keeping!Keeps, AppendKept
  <1> QED
    BY <1>2, <1>3 DEF HighestOf, Keeping!Highest

\* A filter of a longer sequence goes on from that of the shorter one.
LEMMA KeptGrows ==
  ASSUME NEW S, NEW seq \in Seq(S), NEW x \in S, NEW T
  PROVE  /\ Kept(seq, T) \in Seq(S \cap T)
         /\ Kept(Append(seq, x), T) =
               IF x \in T THEN Append(Kept(seq, T), x) ELSE Kept(seq, T)
  <1> DEFINE more == Append(seq, x)
  <1>1. more \in Seq(S) /\ more = Append(seq, x)
    OBVIOUS
  <1> HIDE DEF more
  <1>2. /\ Kept(seq, T) = Keeping!KeptOf(seq, T) /\ Keeping!Keeps(seq, T)
        /\ \A n \in Nat : \A s \in SUBSET (1..n) : HighestOf(s) = Keeping!Highest(s)
    BY KeptIsFold
  <1>3. Kept(more, T) = Keeping!KeptOf(more, T) /\ Keeping!Keeps(more, T)
    BY <1>1, KeptIsFold
  <1>4. Kept(seq, T) \in Seq(S \cap T)
    BY <1>2, Keeping!KeptType
  <1>5. Keeping!GoesOn(seq, x, more, T)
    BY <1>1, <1>2, <1>3, Keeping!KeptAppend
  <1> QED
    BY <1>1, <1>2, <1>3, <1>4, <1>5 DEF Keeping!GoesOn

(***************************************************************************)
(* The rate limiter                                                        *)
(***************************************************************************)
\* A bucket that is refilled holds no more than it can, and no more than it
\* held and what the time since has brought.
LEMMA RefillBounded ==
  ASSUME RateTypeOK
  PROVE  /\ Refilled \in 0..Full
         /\ Refilled <= available + (now - lastRefill) * MaxTokens
  <1>1. Full \in Nat /\ MaxTokens \in Nat /\ Window \in Nat
    BY RateAssumption DEF Full
  <1>2. now - lastRefill \in Nat
    BY DEF RateTypeOK
  <1>3. (now - lastRefill) * MaxTokens \in Nat
    BY <1>1, <1>2
  <1> QED
    BY <1>1, <1>3 DEF RateTypeOK, Refilled

LEMMA RateInitially == RateInit => RateInv
  BY RateAssumption DEF RateInit, RateInv, RateTypeOK, Full

\* What a call does to the bucket: it takes at most what it grants.
RefillsFrom ==
  /\ lastRefill' = now /\ UNCHANGED <<now, since>>
  /\ available' \in 0..Full /\ granted' \in Nat
  /\ granted' * Window + available' <= granted * Window + Refilled

LEMMA AcquireRefills == RateTypeOK /\ TryAcquire => RefillsFrom
  <1> SUFFICES ASSUME RateTypeOK, TryAcquire PROVE RefillsFrom
    OBVIOUS
  <1>1. /\ Full \in Nat /\ Window \in Nat /\ Refilled \in 0..Full
        /\ granted \in Nat /\ available \in 0..Full
    BY RateAssumption, RefillBounded DEF Full, RateTypeOK
  <1>2. CASE Refilled >= Window
    <2>1. available' = Refilled - Window /\ granted' = granted + 1
      BY <1>2 DEF TryAcquire
    <2>2. granted' * Window = granted * Window + Window
      BY <1>1, <2>1
    <2>3. granted * Window \in Nat
      BY <1>1
    <2> QED
      BY <1>1, <1>2, <2>1, <2>2, <2>3 DEF RefillsFrom, TryAcquire
  <1>3. CASE ~(Refilled >= Window)
    <2>1. available' = Refilled /\ granted' = granted
      BY <1>3 DEF TryAcquire
    <2>2. granted * Window \in Nat
      BY <1>1
    <2> QED
      BY <1>1, <2>1, <2>2 DEF RefillsFrom, TryAcquire
  <1> QED
    BY <1>2, <1>3

LEMMA RemainingRefills == RateTypeOK /\ TokensRemaining => RefillsFrom
  <1> SUFFICES ASSUME RateTypeOK, TokensRemaining PROVE RefillsFrom
    OBVIOUS
  <1>1. /\ Full \in Nat /\ Window \in Nat /\ Refilled \in 0..Full
        /\ granted \in Nat /\ available \in 0..Full
    BY RateAssumption, RefillBounded DEF Full, RateTypeOK
  <1>2. granted * Window \in Nat
    BY <1>1
  <1> QED
    BY <1>1, <1>2 DEF RefillsFrom, TokensRemaining

LEMMA RefillingKeepsInv == RateInv /\ RefillsFrom => RateInv'
  <1> SUFFICES ASSUME RateInv, RefillsFrom PROVE RateInv'
    OBVIOUS
  <1>1. RateTypeOK
    BY DEF RateInv
  <1>2. /\ Full \in Nat /\ MaxTokens \in Nat /\ Window \in Nat
        /\ granted \in Nat /\ granted' \in Nat /\ available \in 0..Full
        /\ available' \in 0..Full /\ now \in Nat /\ lastRefill \in 0..now
        /\ since \in 0..now /\ lastRefill' = now /\ since' = since /\ now' = now
    BY <1>1, RateAssumption DEF Full, RateTypeOK, RefillsFrom
  <1>3. RateTypeOK'
    BY <1>2 DEF RateTypeOK, Full
  <1>4. Refilled \in 0..Full /\ Refilled <= available + (now - lastRefill) * MaxTokens
    BY <1>1, RefillBounded
  <1>5. granted' * Window + available' <= granted * Window + Refilled
    BY DEF RefillsFrom
  <1>6. granted * Window + available <= Full + (lastRefill - since) * MaxTokens
          \/ granted = 0
    BY DEF RateInv
  <1>7. granted' * Window + available' <= Full + (now - since) * MaxTokens
    <2>1. /\ granted \in Nat /\ granted' \in Nat /\ Window \in Nat /\ MaxTokens \in Nat
          /\ Full \in Nat /\ available \in Nat /\ available' \in Nat /\ Refilled \in Nat
          /\ now \in Nat /\ lastRefill \in Nat /\ since \in Nat
      BY <1>2, <1>4
    <2>2. since <= now /\ Refilled <= Full
      BY <1>2, <1>4
    <2>3. Refilled <= available + (now - lastRefill) * MaxTokens
      BY <1>4
    <2>4. PICK g2 \in Nat, v2 \in Nat : g2 = granted' /\ v2 = available'
      BY <2>1
    <2>5. PICK r \in Nat, f \in Nat : r = Refilled /\ f = Full
      BY <2>1
    <2> DEFINE a == granted * Window
               a2 == g2 * Window
               b == (lastRefill - since) * MaxTokens
               c == (now - lastRefill) * MaxTokens
               d == (now - since) * MaxTokens
    <2>6. a \in Int /\ a2 \in Int /\ b \in Int /\ c \in Int /\ d \in Int
      BY <2>1
    <2>7. d >= 0 /\ b + c = d /\ (granted = 0 => a = 0)
      BY <2>1, <2>2
    <2>8. /\ a2 + v2 <= a + r /\ r <= available + c /\ r <= f
          /\ a + available <= f + b \/ granted = 0
      BY <1>5, <1>6, <2>2, <2>3, <2>4, <2>5
    <2> HIDE DEF a, a2, b, c, d
    <2>9. a2 + v2 <= f + d
      BY <2>1, <2>6, <2>7, <2>8
    <2> QED
      BY <2>4, <2>5, <2>9 DEF a2, d
  <1> QED
    BY <1>2, <1>3, <1>7 DEF RateInv, Full

LEMMA RateStep == RateInv /\ [RateNext]_rateVars => RateInv'
  <1> SUFFICES ASSUME RateInv, [RateNext]_rateVars PROVE RateInv'
    OBVIOUS
  <1>1. RateTypeOK
    BY DEF RateInv
  <1>2. CASE TryAcquire
    BY <1>1, <1>2, AcquireRefills, RefillingKeepsInv
  <1>3. CASE TokensRemaining
    BY <1>1, <1>3, RemainingRefills, RefillingKeepsInv
  <1>4. CASE Tick
    BY <1>4 DEF RateInv, RateTypeOK, Tick, Full
  <1>5. CASE Observe
    BY <1>5 DEF RateInv, RateTypeOK, Observe, Full
  <1>6. CASE UNCHANGED rateVars
    BY <1>6 DEF RateInv, RateTypeOK, rateVars, Full
  <1> QED
    BY <1>2, <1>3, <1>4, <1>5, <1>6 DEF RateNext

LEMMA RateInvKeepsBudget == RateInv => BudgetHolds
  <1> SUFFICES ASSUME RateInv PROVE BudgetHolds
    OBVIOUS
  <1>1. Full \in Nat /\ MaxTokens \in Nat /\ Window \in Nat
    BY RateAssumption DEF Full
  <1>2. RateTypeOK
    BY DEF RateInv
  <1> DEFINE a == granted * Window
             b == (lastRefill - since) * MaxTokens
             c == (now - lastRefill) * MaxTokens
             d == (now - since) * MaxTokens
  <1>3. a \in Int /\ b \in Int /\ c \in Nat /\ d \in Nat
    BY <1>1, <1>2 DEF RateTypeOK
  <1>4. b + c = d
    BY <1>1, <1>2 DEF RateTypeOK
  <1>5. a + available <= Full + b \/ granted = 0
    BY DEF RateInv
  <1>6. granted = 0 => a = 0
    BY <1>1
  <1> HIDE DEF a, b, c, d
  <1>7. a <= Full + d
    BY <1>1, <1>2, <1>3, <1>4, <1>5, <1>6 DEF RateTypeOK
  <1> QED
    BY <1>7 DEF BudgetHolds, a, d

\* For any number of tokens, window and clock the bucket grants no more, from
\* whatever moment one counts, than one burst and what the time since refills.
THEOREM RateBudget == RateSpec => []BudgetHolds
  <1>1. RateSpec => []RateInv
    BY RateInitially, RateStep, PTL DEF RateSpec
  <1> QED
    BY <1>1, RateInvKeepsBudget, PTL

(***************************************************************************)
(* The quotes                                                              *)
(***************************************************************************)
QuoteInv == QuoteTypeOK /\ IndexesAgree

LEMMA QuoteInitially == QuoteInit => QuoteInv
  BY DEF QuoteInit, QuoteInv, QuoteTypeOK, IndexesAgree

\* The quotes listed for a market are quotes of that market.
LEMMA ListedIsPlaced ==
  ASSUME QuoteInv, NEW m \in DOMAIN quotesByMarket, NEW id \in quotesByMarket[m]
  PROVE  id \in DOMAIN activeQuotes /\ activeQuotes[id] = m
  BY DEF QuoteInv, QuoteTypeOK, IndexesAgree

LEMMA QuoteStep == QuoteInv /\ [QuoteNext]_quoteVars => QuoteInv'
  <1> SUFFICES ASSUME QuoteInv, [QuoteNext]_quoteVars PROVE QuoteInv'
    OBVIOUS
  <1>1. ASSUME NEW m \in Markets, PlaceQuote(m) PROVE QuoteInv'
    <2>1. nextId \notin DOMAIN activeQuotes
      BY DEF QuoteInv, QuoteTypeOK
    <2>2. QuoteTypeOK'
      BY <1>1 DEF QuoteInv, QuoteTypeOK, PlaceQuote, Ids
    <2>3. IndexesAgree'
      BY <1>1, <2>1 DEF QuoteInv, QuoteTypeOK, IndexesAgree, PlaceQuote
    <2> QED
      BY <2>2, <2>3 DEF QuoteInv
  <1>2. ASSUME NEW m \in Markets, CancelAllQuotes(m) PROVE QuoteInv'
    <2>1. QuoteTypeOK'
      BY <1>2 DEF QuoteInv, QuoteTypeOK, CancelAllQuotes, Without
    <2>2. IndexesAgree'
      BY <1>2 DEF QuoteInv, QuoteTypeOK, IndexesAgree, CancelAllQuotes, Without
    <2> QED
      BY <2>1, <2>2 DEF QuoteInv
  <1>3. ASSUME NEW id \in Ids, CancelQuote(id) PROVE QuoteInv'
    <2>1. CASE id \notin DOMAIN activeQuotes
      <3>1. activeQuotes' = [x \in DOMAIN activeQuotes |-> activeQuotes[x]]
        BY <1>3, <2>1 DEF CancelQuote, Without
      <3> QED
        BY <1>3, <2>1, <3>1 DEF QuoteInv, QuoteTypeOK, IndexesAgree, CancelQuote
    <2>2. CASE id \in DOMAIN activeQuotes
      <3>1. activeQuotes[id] \in DOMAIN quotesByMarket
        BY <2>2 DEF QuoteInv, QuoteTypeOK, IndexesAgree
      <3>2. QuoteTypeOK'
        BY <1>3, <2>2, <3>1 DEF QuoteInv, QuoteTypeOK, CancelQuote, Without
      <3>3. IndexesAgree'
        BY <1>3, <2>2, <3>1 DEF QuoteInv, QuoteTypeOK, IndexesAgree, CancelQuote, Without
      <3> QED
        BY <3>2, <3>3 DEF QuoteInv
    <2> QED
      BY <2>1, <2>2
  <1>4. CASE CancelEverything
    BY <1>4 DEF QuoteInv, QuoteTypeOK, IndexesAgree, CancelEverything
  <1>5. CASE UNCHANGED quoteVars
    BY <1>5 DEF QuoteInv, QuoteTypeOK, IndexesAgree, quoteVars
  <1> QED
    BY <1>1, <1>2, <1>3, <1>4, <1>5 DEF QuoteNext

\* However many markets and quotes there are, and whatever is placed and
\* cancelled, the map of the quotes and the lists of the markets agree.
THEOREM QuoteIndexesAgree == QuoteSpec => []IndexesAgree
  <1>1. QuoteSpec => []QuoteInv
    BY QuoteInitially, QuoteStep, PTL DEF QuoteSpec
  <1>2. QuoteInv => IndexesAgree
    BY DEF QuoteInv
  <1> QED
    BY <1>1, <1>2, PTL

(***************************************************************************)
(* The saved positions                                                     *)
(***************************************************************************)
Saving(s) == pc[s] \in {"temp", "rename"}

\* What a save under way has made of the temporary file: the tracker, which the
\* mutex keeps still; and what is on the disk is still in memory, unless the
\* process could not load it.
SaveInv ==
  /\ pc \in [Savers -> {"idle", "temp", "rename", "positions saved", "writing", "saved"}]
  /\ \A s \in Savers : Saving(s) => lock = s
  /\ \A s \in Savers : pc[s] = "rename" => temp = Whole(tracker)
  /\ \A s \in Savers : ~Alive => pc[s] = "idle"
  /\ Alive => positions.content \ passedOver \subseteq tracker
  /\ positions.whole

Grows == positions.whole' /\ positions.content \ passedOver \subseteq positions'.content

LEMMA SaveInitially == Init => SaveInv
  BY DEF Init, SaveInv, Saving, Savers, Alive, Whole, Nobody

LEMMA SaverIsNotNobody == \A s \in Savers : s # Nobody
  BY DEF Savers, Nobody

LEMMA SaveStep == SaveInv /\ [Next]_vars => SaveInv' /\ Grows
  <1> SUFFICES ASSUME SaveInv, [Next]_vars PROVE SaveInv' /\ Grows
    OBVIOUS
  <1> USE SaverIsNotNobody DEF SaveInv, Saving, Alive, Grows
  <1>1. CASE Record
    BY <1>1 DEF Record, files
  <1>2. ASSUME NEW t \in Trades, AppendHistory(t) PROVE SaveInv' /\ Grows
    BY <1>2 DEF AppendHistory, files
  <1>3. ASSUME NEW s \in Savers, BeginPositions(s) PROVE SaveInv' /\ Grows
    BY <1>3 DEF BeginPositions, MaySave, memory
  <1>4. ASSUME NEW s \in Savers, WriteTemp(s) PROVE SaveInv' /\ Grows
    BY <1>4 DEF WriteTemp, memory
  <1>5. ASSUME NEW s \in Savers, Rename(s) PROVE SaveInv' /\ Grows
    <2>1. positions' = Whole(tracker) /\ Alive
      BY <1>5 DEF Rename
    <2>2. positions'.content = tracker /\ positions'.whole
      BY <2>1 DEF Whole
    <2>3. lock = s /\ \A q \in Savers \ {s} : ~Saving(q)
      BY <1>5 DEF Rename
    <2>4. pc' = [pc EXCEPT ![s] = "positions saved"] /\ UNCHANGED memory /\ run' = run
      BY <1>5 DEF Rename
    <2> QED
      BY <2>1, <2>2, <2>3, <2>4 DEF memory
  <1>6. ASSUME NEW s \in Savers, PositionsFail(s) PROVE SaveInv' /\ Grows
    BY <1>6 DEF PositionsFail, memory
  <1>7. ASSUME NEW s \in Savers, BeginHistory(s) PROVE SaveInv' /\ Grows
    BY <1>7 DEF BeginHistory, memory
  <1>8. ASSUME NEW s \in Savers, WriteHistory(s) PROVE SaveInv' /\ Grows
    BY <1>8 DEF WriteHistory, memory
  <1>9. ASSUME NEW s \in Savers, HistoryFails(s) PROVE SaveInv' /\ Grows
    BY <1>9 DEF HistoryFails, memory, files
  <1>10. CASE Boot
    BY <1>10 DEF Boot, files
  <1>11. CASE Signal
    BY <1>11 DEF Signal, memory, files
  <1>12. CASE Exit
    BY <1>12 DEF Exit, Halt, files
  <1>13. CASE Crash
    BY <1>13 DEF Crash, Halt, files
  <1>14. CASE UNCHANGED vars
    BY <1>14 DEF vars
  <1> QED
    BY <1>1, <1>2, <1>3, <1>4, <1>5, <1>6, <1>7, <1>8, <1>9, <1>10, <1>11, <1>12, <1>13, <1>14
    DEF Next, Save

\* Whatever the trades, the savers, the failed writes and the crashes, the
\* positions file loses no trade but those its process could not load.
THEOREM PositionsSaved == Spec => SavedStays
  <1>1. SaveInv /\ [Next]_vars => [Grows]_vars
    BY SaveStep
  <1>2. Spec => [][Grows]_vars
    BY SaveInitially, SaveStep, <1>1, PTL DEF Spec
  <1> QED
    BY <1>2, PTL DEF SavedStays, Grows

(***************************************************************************)
(* The dashboard's clients                                                 *)
(***************************************************************************)
Counts(g, from) == g = [i \in 1..Len(g) |-> from + i - 1]

\* Where a client's receiver stands, and what it was sent, since it joined.
ServedInv ==
  /\ events \in Nat
  /\ handler \in [Clients -> {"none", "waiting", "returned"}]
  /\ sendTask \in [Clients -> Task] /\ recvTask \in [Clients -> Task]
  /\ peer \in [Clients -> {"absent", "present", "left"}]
  /\ position \in [Clients -> Nat] /\ joined \in [Clients -> Nat]
  /\ got \in [Clients -> Seq(Nat)]
  /\ \A c \in Clients :
        /\ Counts(got[c], joined[c])
        /\ position[c] = joined[c] + Len(got[c])
        /\ peer[c] = "absent" =>
              handler[c] = "none" /\ sendTask[c] = "none" /\ got[c] = <<>>
        /\ handler[c] = "waiting" => sendTask[c] # "none"
        /\ handler[c] = "returned" => sendTask[c] \in {"aborted", "ended"}

LEMMA AppendCounts ==
  ASSUME NEW from \in Nat, NEW g \in Seq(Nat), Counts(g, from)
  PROVE  /\ Append(g, from + Len(g)) \in Seq(Nat)
         /\ Len(Append(g, from + Len(g))) = Len(g) + 1
         /\ Counts(Append(g, from + Len(g)), from)
  <1> DEFINE h == Append(g, from + Len(g))
  <1>1. Len(g) \in Nat
    OBVIOUS
  <1>2. from + Len(g) \in Nat
    BY <1>1
  <1>3. h \in Seq(Nat) /\ Len(h) = Len(g) + 1
    BY <1>2
  <1>4. DOMAIN h = 1..Len(h)
    BY <1>3
  <1>5. \A i \in 1..Len(h) : h[i] = from + i - 1
    <2>1. TAKE i \in 1..Len(h)
    <2>2. CASE i \in 1..Len(g)
      <3>1. h[i] = g[i]
        BY <1>2, <2>2
      <3> QED
        BY <2>2, <3>1 DEF Counts
    <2>3. CASE i = Len(g) + 1
      BY <1>1, <1>2, <2>3
    <2> QED
      BY <1>1, <1>3, <2>2, <2>3
  <1>6. h = [i \in 1..Len(h) |-> h[i]]
    BY <1>3, <1>4
  <1> QED
    BY <1>3, <1>5, <1>6 DEF Counts

LEMMA ServedInitially == ClientsInit => ServedInv
  BY DEF ClientsInit, ServedInv, Task, Counts

LEMMA ServedStep == ServedInv /\ [ClientsNext]_clientVars => ServedInv'
  <1> SUFFICES ASSUME ServedInv, [ClientsNext]_clientVars PROVE ServedInv'
    OBVIOUS
  <1> USE DEF ServedInv, Task
  <1>1. CASE Broadcast
    BY <1>1 DEF Broadcast, Counts
  <1>2. ASSUME NEW c \in Clients, HandleSocket(c) PROVE ServedInv'
    BY <1>2 DEF HandleSocket, Counts
  <1>3. ASSUME NEW c \in Clients, Forward(c) PROVE ServedInv'
    <2>1. CASE Lagged(c) \/ peer[c] = "left"
      <3>1. /\ sendTask' = [sendTask EXCEPT ![c] = "ended"]
            /\ UNCHANGED <<events, handler, recvTask, peer, position, joined, got>>
        BY <1>3, <2>1 DEF Forward
      <3>2. peer[c] # "absent"
        BY <1>3 DEF Forward, Sends
      <3> QED
        BY <3>1, <3>2
    <2>2. CASE ~(Lagged(c) \/ peer[c] = "left")
      <3>1. /\ got' = [got EXCEPT ![c] = Append(got[c], joined[c] + Len(got[c]))]
            /\ position' = [position EXCEPT ![c] = position[c] + 1]
            /\ UNCHANGED <<events, handler, sendTask, recvTask, peer, joined>>
        BY <1>3, <2>2 DEF Forward
      <3>2. /\ got'[c] \in Seq(Nat) /\ Len(got'[c]) = Len(got[c]) + 1
            /\ Counts(got'[c], joined[c])
        BY <3>1, AppendCounts
      <3>3. position' \in [Clients -> Nat] /\ got' \in [Clients -> Seq(Nat)]
        BY <3>1, <3>2
      <3>4. position'[c] = joined[c] + Len(got'[c])
        BY <3>1, <3>2
      <3>5. \A d \in Clients \ {c} : got'[d] = got[d] /\ position'[d] = position[d]
        BY <3>1
      <3>6. peer[c] # "absent"
        BY <1>3 DEF Forward, Sends
      <3> QED
        BY <3>1, <3>2, <3>3, <3>4, <3>5, <3>6
    <2> QED
      BY <2>1, <2>2
  <1>4. ASSUME NEW c \in Clients, PeerLeaves(c) PROVE ServedInv'
    BY <1>4 DEF PeerLeaves, Counts
  <1>5. ASSUME NEW c \in Clients, ReceiveEnds(c) PROVE ServedInv'
    BY <1>5 DEF ReceiveEnds, Counts
  <1>6. ASSUME NEW c \in Clients, HandlerReturns(c) PROVE ServedInv'
    <2>1. /\ handler' = [handler EXCEPT ![c] = "returned"]
          /\ UNCHANGED <<events, recvTask, peer, position, joined, got>>
          /\ handler[c] = "waiting"
      BY <1>6 DEF HandlerReturns
    <2>2. /\ sendTask' \in [Clients -> Task]
          /\ sendTask'[c] \in {"aborted", "ended"}
          /\ \A d \in Clients \ {c} : sendTask'[d] = sendTask[d]
      BY <1>6, ZenonT(40) DEF HandlerReturns
    <2> QED
      BY <2>1, <2>2
  <1>7. ASSUME NEW c \in Clients, AbortTakes(c) PROVE ServedInv'
    BY <1>7 DEF AbortTakes, Counts
  <1>8. CASE UNCHANGED clientVars
    BY <1>8 DEF clientVars, Counts
  <1> QED
    BY <1>1, <1>2, <1>3, <1>4, <1>5, <1>6, <1>7, <1>8 DEF ClientsNext

\* However many clients come, lag and leave, each is sent every event from its
\* subscription on until it is cut off, and no sender outlives its handler but for
\* the step it is told to end in.
THEOREM EveryClientServed == ClientsSpec => []ClientsServed
  <1>1. ClientsSpec => []ServedInv
    BY ServedInitially, ServedStep, PTL DEF ClientsSpec
  <1>2. ServedInv => ClientsServed
    BY DEF ServedInv, ClientsServed, NoHoles, NoOrphanSender, Counts
  <1> QED
    BY <1>1, <1>2, PTL

(***************************************************************************)
(* The key of the command line's wallet                                    *)
(***************************************************************************)
Changing(r) == runPc[r] \in {"open", "fill", "show", "delete"}

\* While one run changes the directory, alone, no key is at stake: what was
\* shown the user has given up; otherwise the file holds it.
WalletInv ==
  /\ runPc \in [Shells -> {"idle", "asked", "open", "fill", "show", "delete"}]
  /\ newKey \in [Shells -> Nat] /\ nextKey \in Nat \ {0}
  /\ envKey \in {"unset", "unusable", "usable"}
  /\ overlapped \/ envKey = "unusable" \/
        /\ shown \subseteq given \cup Held
        /\ \A r \in Shells : Changing(r) =>
              /\ \A q \in Shells \ {r} : ~Changing(q)
              /\ shown \subseteq given
              /\ runPc[r] # "delete" => newKey[r] \in Keys
              /\ runPc[r] = "fill" => keyFile = Torn
              /\ runPc[r] = "show" => keyFile = newKey[r]

LEMMA TornIsNoKey == Torn \notin Keys /\ NoKeyFile \notin Keys
  BY WalletAssumption DEF Torn, Keys, NoKeyFile

LEMMA WalletInitially == WalletInit => WalletInv
  BY DEF WalletInit, WalletInv, Changing, NoKeyFile

LEMMA WalletStep == WalletInv /\ [WalletNext]_walletVars => WalletInv'
  <1> SUFFICES ASSUME WalletInv, [WalletNext]_walletVars PROVE WalletInv'
    OBVIOUS
  <1> USE TornIsNoKey DEF WalletInv, Changing, Held
  <1>1. ASSUME NEW r \in Shells, StartSaving(r), UNCHANGED <<keyFile, envKey, shown>>,
               given \subseteq given',
               overlapped \/ envKey = "unusable" \/ shown \subseteq given'
        PROVE  WalletInv'
    <2>1. nextKey \in Keys /\ nextKey' \in Nat \ {0} /\ newKey' \in [Shells -> Nat]
      BY <1>1, WalletAssumption DEF StartSaving, Keys
    <2>2. /\ runPc' = [runPc EXCEPT ![r] = "open"]
          /\ newKey' = [newKey EXCEPT ![r] = nextKey]
          /\ overlapped' = (overlapped \/ Busy(r))
      BY <1>1 DEF StartSaving
    <2>3. CASE overlapped \/ envKey = "unusable"
      BY <1>1, <2>1, <2>2, <2>3
    <2>4. CASE Busy(r)
      BY <1>1, <2>1, <2>2, <2>4
    <2>5. CASE ~(overlapped \/ envKey = "unusable") /\ ~Busy(r)
      <3>1. \A q \in Shells \ {r} : runPc'[q] = "idle"
        BY <2>2, <2>5 DEF Busy
      <3> QED
        BY <1>1, <2>1, <2>2, <2>5, <3>1
    <2> QED
      BY <2>3, <2>4, <2>5
  <1>2. ASSUME NEW r \in Shells, NEW force \in BOOLEAN, CreateWallet(r, force)
        PROVE  WalletInv'
    <2>1. given \subseteq given'
      BY <1>2 DEF CreateWallet
    <2>2. given' = given \cup Held \/ (given' = given /\ Held = {})
      BY <1>2 DEF CreateWallet, GuardOverwrite, ConfigExists
    <2>3. overlapped \/ envKey = "unusable" \/ shown \subseteq given'
      BY <2>2
    <2> QED
      BY <1>1, <1>2, <2>1, <2>3 DEF CreateWallet
  <1>3. ASSUME NEW r \in Shells, SetupUnasked(r) PROVE WalletInv'
    <2>1. overlapped \/ envKey = "unusable" \/ shown \subseteq given'
      BY <1>3 DEF SetupUnasked, SetupAsks, ConfigExists, ResolvesUsable
    <2> QED
      BY <1>1, <1>3, <2>1 DEF SetupUnasked
  <1>4. ASSUME NEW r \in Shells, SetupConfirm(r) PROVE WalletInv'
    BY <1>4 DEF SetupConfirm
  <1>5. ASSUME NEW r \in Shells, NEW yes \in BOOLEAN, AnswerSetup(r, yes) PROVE WalletInv'
    <2>1. CASE yes
      BY <1>1, <1>5, <2>1 DEF AnswerSetup
    <2>2. CASE ~yes
      BY <1>5, <2>2 DEF AnswerSetup
    <2> QED
      BY <2>1, <2>2
  <1>6. ASSUME NEW r \in Shells, OpenKeyFile(r) PROVE WalletInv'
    BY <1>6 DEF OpenKeyFile
  <1>7. ASSUME NEW r \in Shells, FillKeyFile(r) PROVE WalletInv'
    BY <1>7 DEF FillKeyFile
  <1>8. ASSUME NEW r \in Shells, ShowAddress(r) PROVE WalletInv'
    BY <1>8 DEF ShowAddress
  <1>9. ASSUME NEW r \in Shells, Reset(r) PROVE WalletInv'
    BY <1>9 DEF Reset, Busy
  <1>10. ASSUME NEW r \in Shells, RemoveEntry(r) PROVE WalletInv'
    BY <1>10 DEF RemoveEntry
  <1>11. ASSUME NEW r \in Shells, ResetEnds(r) PROVE WalletInv'
    BY <1>11 DEF ResetEnds
  <1>12. ASSUME NEW r \in Shells, Interrupt(r) PROVE WalletInv'
    BY <1>12 DEF Interrupt
  <1>13. ASSUME NEW f \in OtherFiles, ServerWrites(f) PROVE WalletInv'
    BY <1>13 DEF ServerWrites
  <1>14. CASE UNCHANGED walletVars
    BY <1>14 DEF walletVars
  <1> QED
    BY <1>2, <1>3, <1>4, <1>5, <1>6, <1>7, <1>8, <1>9, <1>10, <1>11, <1>12, <1>13, <1>14
    DEF WalletNext

\* For any number of runs, keys and interruptions: as long as the runs do not
\* overlap, a key whose address was shown is kept until it is given up.
THEOREM WalletKeysKept == WalletSpec => []KeysKept
  <1>1. WalletSpec => []WalletInv
    BY WalletInitially, WalletStep, PTL DEF WalletSpec
  <1>2. WalletInv => KeysKept
    BY DEF WalletInv, KeysKept
  <1> QED
    BY <1>1, <1>2, PTL

(***************************************************************************)
(* The daemon: `arb run` keeps the contract of HaltContract for any number *)
(* of opportunities, any edges, any limit and any faults.                  *)
(***************************************************************************)
\* What the mapped step needs to know: trades are only counted while trading is
\* blocked.
CountInv ==
  /\ flag \in BOOLEAN
  /\ overshoot \in Nat
  /\ ~Blocked => overshoot = 0

LEMMA BlockKept == UNCHANGED <<flag, pnl>> => Blocked' = Blocked
  BY DEF Blocked, LossExceeded

LEMMA BlockedBoolean ==
  /\ flag \in BOOLEAN => Blocked \in BOOLEAN
  /\ flag' \in BOOLEAN => Blocked' \in BOOLEAN
  BY DEF Blocked

\* A step that executes nothing and may change what blocks trading.
LEMMA BlockChanges ==
  ASSUME CountInv, flag' \in BOOLEAN, Executed(0), (at' = "exec") = (at = "exec")
  PROVE  CountInv' /\ [Contract!Next]_(Contract!vars)
  <1>1. overshoot' = IF Blocked' THEN overshoot ELSE 0
    BY DEF Executed, CountInv
  <1>2. CountInv'
    BY <1>1 DEF CountInv
  <1>3. Contract!ChangeBlock
    BY <1>1, BlockedBoolean DEF Contract!ChangeBlock
  <1> QED
    BY <1>2, <1>3 DEF Contract!Next

\* A step between two executions that leaves the block alone.
LEMMA BetweenTrades ==
  ASSUME CountInv, UNCHANGED <<flag, pnl, overshoot>>, (at' = "exec") = (at = "exec")
  PROVE  CountInv' /\ [Contract!Next]_(Contract!vars)
  BY BlockKept DEF CountInv, Contract!vars

\* The process ends, with a trade in flight or not.
LEMMA ProcessEnds ==
  ASSUME CountInv, UNCHANGED <<flag, pnl, overshoot>>, at' = "down"
  PROVE  CountInv' /\ [Contract!Next]_(Contract!vars)
  <1>1. CountInv'
    BY BlockKept DEF CountInv
  <1>2. overshoot' = IF Blocked' THEN overshoot ELSE 0
    BY BlockKept DEF CountInv
  <1>3. Contract!Restart
    BY <1>2, BlockKept, BlockedBoolean DEF Contract!Restart, CountInv
  <1> QED
    BY <1>1, <1>3 DEF Contract!Next

LEMMA DecideAdmits == CountInv /\ Decide => CountInv' /\ [Contract!Next]_(Contract!vars)
  <1> SUFFICES ASSUME CountInv, Decide
               PROVE  CountInv' /\ [Contract!Next]_(Contract!vars)
    OBVIOUS
  <1>1. UNCHANGED <<flag, pnl, overshoot>> /\ at = "decide" /\ active' = flag
    BY DEF Decide
  <1>2. CASE Approves /\ at' = "exec"
    <2>1. ~Blocked
      BY <1>1, <1>2 DEF Approves, Blocked
    <2>2. Contract!Admit
      BY <1>1, <1>2, <2>1, BlockKept DEF Contract!Admit
    <2> QED
      BY <1>1, <2>2, BlockKept DEF Contract!Next, CountInv
  <1>3. CASE at' = "decide"
    BY <1>1, <1>3, BetweenTrades
  <1> QED
    BY <1>2, <1>3 DEF Decide

LEMMA ExecuteCompletes == CountInv /\ Execute => CountInv' /\ [Contract!Next]_(Contract!vars)
  <1> SUFFICES ASSUME CountInv, Execute
               PROVE  CountInv' /\ [Contract!Next]_(Contract!vars)
    OBVIOUS
  <1>1. UNCHANGED <<flag, pnl>> /\ at = "exec" /\ at' # "exec"
    BY DEF Execute
  <1>2. overshoot' = IF Blocked THEN overshoot + 1 ELSE 0
    BY <1>1, BlockKept DEF Execute, Executed
  <1>3. CountInv'
    BY <1>1, <1>2, BlockKept DEF CountInv
  <1>4. Contract!Execute
    BY <1>1, <1>2, BlockKept DEF Contract!Execute
  <1> QED
    BY <1>3, <1>4 DEF Contract!Next

LEMMA DaemonStep == CountInv /\ [DaemonNext]_daemonVars => CountInv' /\ [Contract!Next]_(Contract!vars)
  <1> SUFFICES ASSUME CountInv, [DaemonNext]_daemonVars
               PROVE  CountInv' /\ [Contract!Next]_(Contract!vars)
    OBVIOUS
  <1> USE DEF handlerVars
  <1>1. CASE Start
    BY <1>1, BlockChanges DEF Start, CountInv
  <1>2. CASE Build
    BY <1>2, BetweenTrades DEF Build
  <1>3. CASE Gate
    BY <1>3, BetweenTrades DEF Gate
  <1>4. CASE Scan
    BY <1>4, BetweenTrades DEF Scan
  <1>5. CASE Decide
    BY <1>5, DecideAdmits
  <1>6. CASE Execute
    BY <1>6, ExecuteCompletes
  <1>7. CASE RecordTrade
    BY <1>7, BlockChanges DEF RecordTrade, CountInv
  <1>8. CASE DecideDone
    BY <1>8, BetweenTrades DEF DecideDone
  <1>9. CASE LossCheck
    <2>1. flag' \in BOOLEAN
      BY <1>9 DEF LossCheck, CountInv
    <2> QED
      BY <1>9, <2>1, BlockChanges DEF LossCheck
  <1>10. CASE Sleep
    BY <1>10, BetweenTrades DEF Sleep
  <1>11. CASE Stop
    BY <1>11, ProcessEnds DEF Stop
  <1>12. CASE CtrlC
    <2>1. CASE listening
      BY <1>12, <2>1, BetweenTrades DEF CtrlC
    <2>2. CASE ~listening
      BY <1>12, <2>2, ProcessEnds DEF CtrlC
    <2> QED
      BY <2>1, <2>2
  <1>13. CASE DaemonCrash
    BY <1>13, ProcessEnds DEF DaemonCrash
  <1>14. CASE OthersSwitch
    BY <1>14, BlockChanges DEF OthersSwitch, CountInv
  <1>15. CASE Midnight
    BY <1>15, BetweenTrades DEF Midnight
  <1>16. CASE UNCHANGED daemonVars
    BY <1>16, BetweenTrades DEF daemonVars
  <1> QED
    BY <1>1, <1>2, <1>3, <1>4, <1>5, <1>6, <1>7, <1>8, <1>9, <1>10, <1>11, <1>12, <1>13,
       <1>14, <1>15, <1>16 DEF DaemonNext, Engine, EngineStep

\* The daemon - its loop, Ctrl+C, crashes, the switches of the other programs and
\* writes that fail - keeps the contract of HaltContract.
THEOREM DaemonKeepsContract == DaemonSpec => DaemonContract
  <1>1. DaemonInit => CountInv /\ Contract!Init
    BY BlockedBoolean DEF DaemonInit, CountInv, Contract!Init
  <1> QED
    BY <1>1, DaemonStep, PTL DEF DaemonSpec, DaemonContract, Contract!Spec

(***************************************************************************)
(* The commands of the command line                                        *)
(***************************************************************************)
LastStep == Len(Approvals)

ApproveTypes ==
  /\ approved \in SUBSET Steps /\ reverted \in SUBSET Steps
  /\ onWay \in SUBSET [run : Nat, step : Steps]
  /\ sets \in Nat /\ approveAt \in 0..LastStep
  /\ watching => approveAt \in Steps /\ (approveAt \in Mined \/ OwnTx \in onWay)

\* Every step before the one approve set is at has been mined: watch() returned
\* for it.  That is why nothing after a failure is ever sent.
ApproveInv ==
  /\ ApproveTypes
  /\ \A t \in Steps : t < approveAt => t \in Mined
  /\ ApprovalsSound

LEMMA ListHasSteps == LastStep \in Nat \ {0} /\ Steps = 1..LastStep
  BY CommandsAssumption DEF LastStep, Steps

LEMMA ApproveInitially == ApproveInit => ApproveInv
  BY ListHasSteps DEF ApproveInit, ApproveInv, ApproveTypes, ApprovalsSound, Mined, Sent

\* NextStep leaves a step that is mined.
LEMMA StepLeft ==
  ASSUME ApproveInv, approveAt \in Mined, NextStep,
         UNCHANGED <<approved, reverted, onWay, sets, reported>>
  PROVE  ApproveInv'
  <1> USE ListHasSteps DEF ApproveInv, ApproveTypes, ApprovalsSound, Mined, Sent
  <1>1. CASE approveAt = LastStep
    <2>1. approveAt' = 0 /\ outcome' = "ok" /\ watching' = FALSE
      BY <1>1 DEF NextStep, LastStep
    <2>2. \A t \in Steps : t = LastStep \/ t < LastStep
      OBVIOUS
    <2>3. Mined = Steps
      BY <1>1, <2>2
    <2> QED
      BY <2>1, <2>3
  <1>2. CASE approveAt # LastStep
    <2>1. approveAt' = approveAt + 1 /\ outcome' = outcome /\ watching' = FALSE
      BY <1>2 DEF NextStep, LastStep
    <2>2. approveAt + 1 \in 0..LastStep
      BY <1>2
    <2>3. \A t \in Steps : t < approveAt + 1 => t = approveAt \/ t < approveAt
      OBVIOUS
    <2> QED
      BY <2>1, <2>2, <2>3
  <1> QED
    BY <1>1, <1>2

LEMMA ApproveStep == ApproveInv /\ [ApproveNext]_approveVars => ApproveInv'
  <1> SUFFICES ASSUME ApproveInv, [ApproveNext]_approveVars PROVE ApproveInv'
    OBVIOUS
  <1> USE ListHasSteps DEF ApproveInv, ApproveTypes, ApprovalsSound, Mined, Sent
  <1>1. CASE SetStarts
    BY <1>1 DEF SetStarts
  <1>2. CASE SendApproval
    <2>1. /\ approveAt \in Steps /\ onWay' = onWay \cup {OwnTx} /\ OwnTx' = OwnTx
          /\ UNCHANGED <<approved, reverted, approveAt, outcome, sets, reported>>
      BY <1>2 DEF SendApproval, OwnTx
    <2>2. OwnTx \in [run : Nat, step : Steps] /\ OwnTx.step = approveAt
      BY <2>1 DEF OwnTx
    <2>3. Sent' = Sent \cup {approveAt} /\ Mined' = Mined
      BY <2>1, <2>2
    <2>4. \A s \in Sent', t \in Steps : t < s => t \in Sent'
      BY <2>1, <2>3
    <2> QED
      BY <2>1, <2>2, <2>3, <2>4
  <1>3. ASSUME NEW tx \in onWay, Mine(tx) PROVE ApproveInv'
    <2>1. /\ onWay' = onWay \ {tx} /\ tx.step \in Steps /\ OwnTx' = OwnTx
          /\ approved \subseteq approved' /\ approved' \subseteq Steps /\ reverted' \subseteq Steps
          /\ UNCHANGED <<approveAt, watching, outcome, sets, reported>>
      BY <1>3 DEF Mine, OwnTx
    <2>2. Mined' = Mined \cup {tx.step}
      BY <1>3 DEF Mine
    <2>3. Sent' = Sent
      BY <2>1, <2>2
    <2>4. tx = OwnTx => tx.step = approveAt
      BY DEF OwnTx
    <2>5. watching => approveAt \in Steps /\ (approveAt \in Mined' \/ OwnTx \in onWay')
      BY <2>1, <2>2, <2>4
    <2>6. outcome = "ok" => Mined' = Steps
      BY <2>1, <2>2
    <2> HIDE DEF Mined, Sent
    <2> QED
      BY <2>1, <2>2, <2>3, <2>5, <2>6
  <1>4. CASE Confirmed
    <2>1. approveAt \in Mined
      BY <1>4 DEF Confirmed
    <2> QED
      BY <1>4, <2>1, StepLeft DEF Confirmed
  <1>5. CASE ApprovalFails
    BY <1>5 DEF ApprovalFails
  <1>6. CASE CheckApprovals
    BY <1>6 DEF CheckApprovals, OwnTx
  <1>7. CASE UNCHANGED approveVars
    BY <1>7 DEF approveVars, OwnTx
  <1> QED
    BY <1>1, <1>2, <1>3, <1>4, <1>5, <1>6, <1>7 DEF ApproveNext

Files == {"none", "old", "new", "part"}
Unfinished(u) == ~UpgradeEnded(u)

\* While upgrades do not overlap only one is under way, and where it stands says
\* where the program is; it is not under its name only if a run is between its two
\* moves, was killed there or could not undo the first, and then the backup is whole.
UpgradeInv ==
  /\ exe \in Files /\ bak \in Files
  /\ upPc \in [Upgraders -> {"idle", "fetched", "moved", "installed", "removed", "failed"}]
  /\ archive \in [Upgraders -> {"none", "new", "tampered"}]
  /\ stranded \in BOOLEAN
  /\ \A u \in Upgraders : upPc[u] \in {"moved", "installed"} => archive[u] = "new"
  /\ ~together =>
       /\ \A u, v \in Upgraders : Unfinished(u) /\ Unfinished(v) => u = v
       /\ \A u \in Upgraders : upPc[u] = "fetched" => exe \in Runs
       /\ \A u \in Upgraders : upPc[u] = "moved" => exe = "none"
       /\ \A u \in Upgraders : upPc[u] = "installed" => exe = "new"
       /\ exe \notin Runs => /\ bak \in Runs
                            /\ (stranded \/ \E u \in Upgraders : upPc[u] = "moved")

LEMMA UpgradeInitially == UpgradeInit => UpgradeInv
  BY DEF UpgradeInit, UpgradeInv, Files, Runs, Unfinished, UpgradeEnded

LEMMA UpgradeStep == UpgradeInv /\ [UpgradeNext]_upgradeVars => UpgradeInv'
  <1> SUFFICES ASSUME UpgradeInv, [UpgradeNext]_upgradeVars PROVE UpgradeInv'
    OBVIOUS
  <1> USE DEF UpgradeInv, Files, Runs, Unfinished, UpgradeEnded, Goto
  <1>1. ASSUME NEW u \in Upgraders, Download(u) PROVE UpgradeInv'
    BY <1>1 DEF Download
  <1>2. ASSUME NEW u \in Upgraders, Backup(u) PROVE UpgradeInv'
    BY <1>2 DEF Backup, Verified
  <1>3. ASSUME NEW u \in Upgraders, ChecksumFails(u) PROVE UpgradeInv'
    BY <1>3 DEF ChecksumFails
  <1>4. ASSUME NEW u \in Upgraders, Install(u) PROVE UpgradeInv'
    BY <1>4 DEF Install
  <1>5. ASSUME NEW u \in Upgraders, InstallFails(u) PROVE UpgradeInv'
    BY <1>5, ZenonT(40) DEF InstallFails
  <1>6. ASSUME NEW u \in Upgraders, RemoveBackup(u) PROVE UpgradeInv'
    BY <1>6 DEF RemoveBackup
  <1>7. ASSUME NEW u \in Upgraders, UpgradeCutOff(u) PROVE UpgradeInv'
    BY <1>7, ZenonT(40) DEF UpgradeCutOff
  <1>8. CASE UNCHANGED upgradeVars
    BY <1>8 DEF upgradeVars
  <1> QED
    BY <1>1, <1>2, <1>3, <1>4, <1>5, <1>6, <1>7, <1>8 DEF UpgradeNext

Wholes == {{}, 1..BatchSize}
BatchInv == posted \in Seq(Wholes)

LEMMA BatchStep == BatchInv /\ [BatchNext]_batchVars => BatchInv'
  <1> SUFFICES ASSUME BatchInv, [BatchNext]_batchVars PROVE BatchInv'
    OBVIOUS
  <1> USE DEF BatchInv, Wholes
  <1>1. CASE StartBatch
    BY <1>1 DEF StartBatch
  <1>2. CASE PostBatch
    BY <1>2 DEF PostBatch
  <1>3. CASE SignOrder \/ BatchFails \/ UNCHANGED batchVars
    BY <1>3 DEF SignOrder, BatchFails, batchVars
  <1> QED
    BY <1>1, <1>2, <1>3 DEF BatchNext

\* The three invariants give what the run checks.
LEMMA CommandsSound == ApproveInv /\ UpgradeInv /\ BatchInv => CommandsHold
  <1> SUFFICES ASSUME ApproveInv, UpgradeInv, BatchInv PROVE CommandsHold
    OBVIOUS
  <1>1. ApprovalsSound
    BY DEF ApproveInv
  <1>2. BinaryKept
    BY DEF BinaryKept, UpgradeInv, Files, Runs, UpgradeEnded
  <1>3. BatchWhole
    BY DEF BatchWhole, BatchInv, Wholes
  <1> QED
    BY <1>1, <1>2, <1>3 DEF CommandsHold

\* For any list of contracts, any number of upgrades and any batches, whatever
\* reverts, fails or is killed on the way: when approve set claims success each
\* approval was mined, and is there unless it reverted; it gets ahead of no failure to
\* send or confirm; a whole program stays under its name or its backup's and is never
\* one whose checksum did not match; and a batch is posted whole or not at all.
THEOREM CommandsAlwaysHold == CommandsSpec => []CommandsHold
  <1>1. CommandsInit => ApproveInv /\ UpgradeInv /\ BatchInv
    BY ApproveInitially, UpgradeInitially DEF CommandsInit, BatchInit, BatchInv, Wholes
  <1>2. /\ ApproveInv /\ UpgradeInv /\ BatchInv
        /\ [CommandsNext]_commandVars
        => (ApproveInv /\ UpgradeInv /\ BatchInv)'
    BY ApproveStep, UpgradeStep, BatchStep DEF CommandsNext, commandVars
  <1> QED
    BY <1>1, <1>2, CommandsSound, PTL DEF CommandsSpec

(***************************************************************************)
(* The circuit breaker                                                     *)
(***************************************************************************)
Samples == Seq([at : Nat, bad : BOOLEAN])

LEMMA SampleFields ==
  ASSUME NEW all \in Samples
  PROVE  Len(all) \in Nat /\ \A i \in 1..Len(all) : all[i].at \in Nat
  <1> DEFINE R == [at : Nat, bad : BOOLEAN]
  <1>1. all \in Seq(R) /\ \A x \in R : x.at \in Nat
    BY DEF Samples
  <1> HIDE DEF R
  <1>2. Len(all) \in Nat /\ \A i \in 1..Len(all) : all[i] \in R
    BY <1>1
  <1> QED
    BY <1>1, <1>2

\* A queue is what is left of all the samples when some old ones are dropped.
QueueOf(queue, all, window) ==
  \E d \in 0..Len(all) :
      /\ queue = SubSeq(all, d + 1, Len(all))
      /\ \A i \in 1..d : all[i].at < clock - window

Clocked(all) ==
  /\ all \in Samples
  /\ \A i \in 1..Len(all) : all[i].at <= clock
  /\ \A i, j \in 1..Len(all) : i <= j => all[i].at <= all[j].at

BreakerInv ==
  /\ clock \in Nat
  /\ Clocked(allResults) /\ Clocked(allLatencies)
  /\ QueueOf(apiResults, allResults, ErrorWindow)
  /\ QueueOf(latencies, allLatencies, LatencyWindow)
  /\ TripsOnRecent

LEMMA BreakerInitially == BreakerInit => BreakerInv
  <1> SUFFICES ASSUME BreakerInit PROVE BreakerInv
    OBVIOUS
  <1>1. Clocked(allResults) /\ Clocked(allLatencies)
    BY DEF BreakerInit, Clocked, Samples
  <1>2. \A w : QueueOf(<<>>, <<>>, w)
    <2> SUFFICES ASSUME NEW w PROVE QueueOf(<<>>, <<>>, w)
      OBVIOUS
    <2>1. 0 \in 0..Len(<<>>) /\ <<>> = SubSeq(<<>>, 0 + 1, Len(<<>>)) /\ 1..0 = {}
      OBVIOUS
    <2> QED
      BY <2>1 DEF QueueOf
  <1> QED
    BY <1>1, <1>2 DEF BreakerInit, BreakerInv, TripsOnRecent

\* A sample of now goes to the end of both.
LEMMA SampleAdded ==
  ASSUME clock \in Nat, NEW window \in Nat, NEW queue, NEW all, Clocked(all),
         QueueOf(queue, all, window), NEW bad \in BOOLEAN
  PROVE  /\ Clocked(Append(all, [at |-> clock, bad |-> bad]))
         /\ QueueOf(Append(queue, [at |-> clock, bad |-> bad]),
                    Append(all, [at |-> clock, bad |-> bad]), window)
  <1> DEFINE x == [at |-> clock, bad |-> bad]
             more == Append(all, x)
  <1>1. x \in [at : Nat, bad : BOOLEAN] /\ x.at = clock
    OBVIOUS
  <1> HIDE DEF x
  <1>2. /\ more \in Samples /\ Len(more) = Len(all) + 1 /\ more[Len(all) + 1] = x
        /\ \A i \in 1..Len(all) : more[i] = all[i]
    BY <1>1 DEF Clocked, Samples
  <1>3. Clocked(more)
    <2> HIDE DEF more
    <2>1. all \in Samples /\ Len(all) \in Nat
      BY DEF Clocked, Samples
    <2>2. \A i \in 1..Len(all) : all[i].at \in Nat
      BY <2>1, SampleFields
    <2>3. \A i \in 1..Len(more) : i \in 1..Len(all) \/ i = Len(all) + 1
      BY <1>2, <2>1
    <2>4. \A i \in 1..Len(more) : more[i].at <= clock
      BY <1>1, <1>2, <2>3 DEF Clocked
    <2>5. \A i, j \in 1..Len(more) : i <= j => more[i].at <= more[j].at
      <3> SUFFICES ASSUME NEW i \in 1..Len(more), NEW j \in 1..Len(more), i <= j
                   PROVE  more[i].at <= more[j].at
        OBVIOUS
      <3>1. CASE j = Len(all) + 1
        BY <1>1, <1>2, <2>4, <3>1
      <3>2. CASE j \in 1..Len(all)
        <4>1. i \in 1..Len(all)
          BY <2>1, <3>2
        <4> QED
          BY <1>2, <3>2, <4>1 DEF Clocked
      <3> QED
        BY <2>3, <3>1, <3>2
    <2> QED
      BY <1>2, <2>4, <2>5 DEF Clocked
  <1>4. QueueOf(Append(queue, x), more, window)
    <2>1. PICK d \in 0..Len(all) : /\ queue = SubSeq(all, d + 1, Len(all))
                                   /\ \A i \in 1..d : all[i].at < clock - window
      BY DEF QueueOf
    <2>2. Append(queue, x) = SubSeq(more, d + 1, Len(more))
      BY <1>1, <2>1 DEF Clocked, Samples
    <2>3. d \in 0..Len(more) /\ \A i \in 1..d : more[i].at < clock - window
      BY <1>2, <2>1
    <2> QED
      BY <2>2, <2>3 DEF QueueOf
  <1> QED
    BY <1>3, <1>4 DEF x

\* Later, what was old is old.
LEMMA QueueAges ==
  ASSUME clock \in Nat, clock' = clock + 1, NEW window \in Nat, NEW queue, NEW all,
         Clocked(all), QueueOf(queue, all, window)
  PROVE  /\ all \in Samples
         /\ \A i \in 1..Len(all) : all[i].at <= clock'
         /\ \E d \in 0..Len(all) :
              /\ queue = SubSeq(all, d + 1, Len(all))
              /\ \A i \in 1..d : all[i].at < clock' - window
  <1>1. all \in Samples /\ Len(all) \in Nat /\ \A i \in 1..Len(all) : all[i].at \in Nat
    BY SampleFields DEF Clocked
  <1>2. PICK d \in 0..Len(all) : /\ queue = SubSeq(all, d + 1, Len(all))
                                 /\ \A i \in 1..d : all[i].at < clock - window
    BY DEF QueueOf
  <1>3. \A i \in 1..d : all[i].at < clock' - window
    <2> SUFFICES ASSUME NEW i \in 1..d PROVE all[i].at < clock' - window
      OBVIOUS
    <2>1. i \in 1..Len(all)
      BY <1>1
    <2>2. all[i].at \in Nat /\ all[i].at < clock - window
      BY <1>1, <1>2, <2>1
    <2> QED
      BY <2>2
  <1>4. \A i \in 1..Len(all) : all[i].at <= clock'
    BY <1>1 DEF Clocked
  <1> QED
    BY <1>1, <1>2, <1>3, <1>4

\* Because the samples are in the order of the clock, popping the old ones from
\* the front leaves the recent ones, all of them.
LEMMA PrunedIsRecent ==
  ASSUME clock \in Nat, NEW window \in Nat, NEW queue, NEW all,
         Clocked(all), QueueOf(queue, all, window)
  PROVE  /\ Pruned(queue, window) = Recent(all, window)
         /\ QueueOf(Pruned(queue, window), all, window)
  <1>1. PICK d \in 0..Len(all) : /\ queue = SubSeq(all, d + 1, Len(all))
                                 /\ \A i \in 1..d : all[i].at < clock - window
    BY DEF QueueOf
  <1> DEFINE n == Len(queue)
             Old(i) == queue[i].at < clock - window
             olds == {m \in 1..n : \A i \in 1..m : Old(i)}
             k == Cardinality(olds)
  <1>2. /\ all \in Samples /\ queue \in Samples /\ n = Len(all) - d /\ n \in Nat
        /\ Len(all) \in Nat
        /\ \A i \in 1..n : queue[i] = all[d + i]
    <2> DEFINE R == [at : Nat, bad : BOOLEAN]
    <2>1. all \in Seq(R)
      BY DEF Clocked, Samples
    <2> HIDE DEF R
    <2>2. /\ queue \in Seq(R) /\ n = Len(all) - d /\ n \in Nat /\ Len(all) \in Nat
          /\ \A i \in 1..n : queue[i] = all[d + i]
      BY <1>1, <2>1
    <2> QED
      BY <2>1, <2>2 DEF Samples, R
  <1>3. \A i \in 1..Len(all) : all[i].at \in Nat
    BY <1>2, SampleFields
  <1> HIDE DEF n
  <1>4. PICK m \in 0..n : olds = 1..m
    <2> HIDE DEF Old
    <2>1. CASE \A i \in 1..n : Old(i)
      <3>1. \A m \in 1..n : \A i \in 1..m : i \in 1..n
        BY <1>2
      <3>2. olds = 1..n
        BY <2>1, <3>1
      <3> QED
        <4>1. n \in 0..n
          BY <1>2
        <4> HIDE DEF olds
        <4> QED
          BY <3>2, <4>1
    <2>2. CASE ~(\A i \in 1..n : Old(i))
      <3> DEFINE news == {i \in 1..n : ~Old(i)}
      <3>1. news \in SUBSET Nat /\ news # {}
        <4>1. news \subseteq 1..n /\ news # {}
          BY <2>2
        <4> QED
          BY <4>1
      <3>2. PICK f \in news : \A i \in news : f <= i
        <4> HIDE DEF news
        <4> QED
          BY <3>1, Keeping!NatSetHasMin
      <3>3. f \in 1..n /\ ~Old(f) /\ \A i \in 1..n : i < f => Old(i)
        BY <3>2
      <3>4. olds = 1..(f - 1)
        <4>1. ASSUME NEW x \in olds PROVE x \in 1..(f - 1)
          <5>1. x \in 1..n /\ ~(f \in 1..x)
            BY <3>3
          <5> QED
            BY <3>3, <5>1
        <4>2. ASSUME NEW x \in 1..(f - 1) PROVE x \in olds
          <5>1. x \in 1..n /\ \A i \in 1..x : i \in 1..n /\ i < f
            BY <3>3, <1>2
          <5> QED
            BY <3>3, <5>1
        <4> QED
          BY <4>1, <4>2
      <3>5. f - 1 \in 0..n
        BY <1>2, <3>3
      <3> HIDE DEF olds
      <3> QED
        BY <3>4, <3>5
    <2> QED
      BY <2>1, <2>2
  <1>5. k = m
    <2>1. Cardinality(1..m) = m
      BY FS_Interval
    <2> QED
      BY <1>4, <2>1
  <1>6. Pruned(queue, window) = SubSeq(queue, m + 1, n)
    BY <1>5 DEF Pruned, n
  <1>7. \A i \in 1..m : Old(i)
    <2>1. m = 0 \/ m \in olds
      BY <1>4
    <2> QED
      BY <2>1
  <1>8. m < n => ~Old(m + 1)
    <2> SUFFICES ASSUME m < n, Old(m + 1) PROVE FALSE
      OBVIOUS
    <2>1. m + 1 \in 1..n /\ \A i \in 1..(m + 1) : i \in 1..m \/ i = m + 1
      BY <1>2
    <2>2. m + 1 \in olds
      BY <1>7, <2>1
    <2> QED
      BY <1>4, <2>2
  <1> DEFINE e == d + m
  <1>9. e \in 0..Len(all)
    BY <1>2
  <1>10. \A i \in 1..e : all[i].at < clock - window
    <2> SUFFICES ASSUME NEW i \in 1..e PROVE all[i].at < clock - window
      OBVIOUS
    <2>1. CASE i <= d
      BY <1>1, <2>1
    <2>2. CASE i > d
      <3>1. i - d \in 1..m /\ i - d \in 1..n /\ d + (i - d) = i
        BY <1>2, <2>2
      <3>2. Old(i - d) /\ queue[i - d] = all[i]
        BY <1>2, <1>7, <3>1
      <3> QED
        BY <3>2
    <2> QED
      BY <2>1, <2>2
  <1>11. \A i \in 1..Len(all) : i > e => all[i].at >= clock - window
    <2> SUFFICES ASSUME NEW i \in 1..Len(all), i > e PROVE all[i].at >= clock - window
      OBVIOUS
    <2>1. m < n /\ m + 1 \in 1..n /\ d + (m + 1) \in 1..Len(all) /\ d + (m + 1) <= i
      <3>1. n = Len(all) - d /\ Len(all) \in Nat /\ i > d + m /\ i <= Len(all)
        BY <1>2
      <3>2. d \in Nat /\ m \in Nat /\ i \in Nat
        OBVIOUS
      <3> HIDE DEF e
      <3> QED
        BY <3>1, <3>2
    <2>2. queue[m + 1] = all[d + (m + 1)]
      BY <1>2, <2>1
    <2>3. ~(all[d + (m + 1)].at < clock - window)
      BY <1>8, <2>1, <2>2
    <2>4. all[d + (m + 1)].at <= all[i].at
      BY <2>1 DEF Clocked
    <2> QED
      BY <1>3, <2>1, <2>3, <2>4, SMTT(30)
  <1>12. Pruned(queue, window) = SubSeq(all, e + 1, Len(all))
    <2> DEFINE R == [at : Nat, bad : BOOLEAN]
    <2>1. all \in Seq(R) /\ queue \in Seq(R)
      BY <1>2 DEF Samples
    <2> HIDE DEF R
    <2>2. SubSeq(queue, m + 1, n) = SubSeq(all, e + 1, Len(all))
      <3>1. /\ n = Len(queue) /\ m \in 0..n /\ d \in Nat /\ Len(all) = d + n /\ n \in Nat
            /\ Len(all) \in Nat
        BY <1>1, <1>2 DEF n
      <3>2. SubSeq(queue, m + 1, n) \in Seq(R) /\ SubSeq(all, e + 1, Len(all)) \in Seq(R)
        BY <2>1, <3>1
      <3>3. /\ Len(SubSeq(queue, m + 1, n)) = n - m
            /\ Len(SubSeq(all, e + 1, Len(all))) = n - m
        BY <2>1, <3>1
      <3>4. \A i \in 1..(n - m) : SubSeq(queue, m + 1, n)[i] = queue[m + i]
        BY <2>1, <3>1
      <3>5. \A i \in 1..(n - m) : SubSeq(all, e + 1, Len(all))[i] = all[e + i]
        BY <2>1, <3>1
      <3>6. \A i \in 1..(n - m) : m + i \in 1..n /\ d + (m + i) = e + i
        BY <3>1
      <3>7. \A i \in 1..(n - m) : queue[m + i] = all[e + i]
        BY <1>2, <3>6
      <3> QED
        BY <3>2, <3>3, <3>4, <3>5, <3>7
    <2> QED
      BY <1>6, <2>2
  <1> HIDE DEF e
  <1>13. Recent(all, window) = SubSeq(all, e + 1, Len(all))
    <2> DEFINE T == {s \in ToSet(all) : s.at >= clock - window}
    <2>1. \A i \in 1..Len(all) : all[i] \in T <=> i > e
      <3> SUFFICES ASSUME NEW i \in 1..Len(all) PROVE all[i] \in T <=> i > e
        OBVIOUS
      <3>1. all[i] \in ToSet(all)
        <4>1. DOMAIN all = 1..Len(all)
          BY <1>2 DEF Samples
        <4> QED
          BY <4>1 DEF ToSet
      <3>2. all[i] \in T <=> all[i].at >= clock - window
        BY <3>1
      <3> QED
        BY <1>3, <1>9, <1>10, <1>11, <3>2
    <2> HIDE DEF T
    <2>2. all \in Seq([at : Nat, bad : BOOLEAN])
      BY <1>2 DEF Samples
    <2>3. Keeping!KeptOf(all, T) = SubSeq(all, e + 1, Len(all))
      <3> DEFINE R == [at : Nat, bad : BOOLEAN]
      <3>1. all \in Seq(R)
        BY <2>2
      <3> HIDE DEF R
      <3>2. /\ Keeping!Keeps(all, T)
            /\ \A q \in Nat : \A t \in SUBSET (1..q) : HighestOf(t) = Keeping!Highest(t)
        BY <3>1, KeptIsFold
      <3> QED
        BY <1>9, <2>1, <3>1, <3>2, Keeping!KeptIsTheEnd
    <2>4. Recent(all, window) = Kept(all, T)
      BY DEF Recent, T
    <2> QED
      BY <2>2, <2>3, <2>4, KeptIsFold
  <1> QED
    BY <1>9, <1>10, <1>12, <1>13 DEF QueueOf

LEMMA BreakerStep == BreakerInv /\ [BreakerNext]_breakerVars => BreakerInv'
  <1> SUFFICES ASSUME BreakerInv, [BreakerNext]_breakerVars PROVE BreakerInv'
    OBVIOUS
  <1>0. ErrorWindow \in Nat /\ LatencyWindow \in Nat
    BY BreakerAssumption
  <1>1. ASSUME NEW b \in BOOLEAN, RecordPnl(b) PROVE BreakerInv'
    BY <1>1 DEF RecordPnl, BreakerInv, Clocked, QueueOf, TripsOnRecent
  <1>2. ASSUME NEW b \in BOOLEAN, RecordResult(b) PROVE BreakerInv'
    <2>1. /\ Clocked(allResults') /\ QueueOf(apiResults', allResults', ErrorWindow)
          /\ verdict' = "unchecked" /\ UNCHANGED <<clock, latencies, allLatencies>>
      BY <1>0, <1>2, SampleAdded DEF RecordResult, BreakerInv
    <2> QED
      BY <2>1 DEF BreakerInv, Clocked, QueueOf, TripsOnRecent
  <1>3. ASSUME NEW b \in BOOLEAN, RecordLatency(b) PROVE BreakerInv'
    <2>1. /\ Clocked(allLatencies') /\ QueueOf(latencies', allLatencies', LatencyWindow)
          /\ verdict' = "unchecked" /\ UNCHANGED <<clock, apiResults, allResults>>
      BY <1>0, <1>3, SampleAdded DEF RecordLatency, BreakerInv
    <2> QED
      BY <2>1 DEF BreakerInv, Clocked, QueueOf, TripsOnRecent
  <1>4. CASE CheckBreaker
    <2>1. /\ apiResults' = Recent(allResults, ErrorWindow)
          /\ QueueOf(apiResults', allResults, ErrorWindow)
      BY <1>0, <1>4, PrunedIsRecent DEF CheckBreaker, BreakerInv
    <2>2. /\ latencies' = Recent(allLatencies, LatencyWindow)
          /\ QueueOf(latencies', allLatencies, LatencyWindow)
      BY <1>0, <1>4, PrunedIsRecent DEF CheckBreaker, BreakerInv
    <2>3. UNCHANGED <<clock, overLoss, allResults, allLatencies>>
      BY <1>4 DEF CheckBreaker
    <2>4. TripsOnRecent'
      BY <1>4, <2>1, <2>2, <2>3 DEF CheckBreaker, TripsOnRecent, Recent
    <2> QED
      BY <2>1, <2>2, <2>3, <2>4 DEF BreakerInv, Clocked, QueueOf
  <1>5. CASE ClockTicks
    <2>1. clock \in Nat /\ clock' = clock + 1 /\ verdict' = "unchecked"
          /\ UNCHANGED <<apiResults, latencies, allResults, allLatencies>>
      BY <1>5 DEF ClockTicks, BreakerInv
    <2>2. QueueOf(apiResults, allResults, ErrorWindow)' /\ Clocked(allResults)'
      BY <1>0, <2>1, QueueAges DEF BreakerInv, Clocked, QueueOf
    <2>3. QueueOf(latencies, allLatencies, LatencyWindow)' /\ Clocked(allLatencies)'
      BY <1>0, <2>1, QueueAges DEF BreakerInv, Clocked, QueueOf
    <2> QED
      BY <2>1, <2>2, <2>3 DEF BreakerInv, TripsOnRecent
  <1>6. CASE UNCHANGED breakerVars
    BY <1>6 DEF breakerVars, BreakerInv, Clocked, QueueOf, TripsOnRecent, Recent
  <1> QED
    BY <1>1, <1>2, <1>3, <1>4, <1>5, <1>6 DEF BreakerNext

\* For any windows, sample counts and clock, whenever the breaker is checked it
\* judges what happened within its windows, no less and no more.
THEOREM BreakerJudgesRecent == BreakerSpec => []TripsOnRecent
  <1>1. BreakerSpec => []BreakerInv
    BY BreakerInitially, BreakerStep, PTL DEF BreakerSpec
  <1>2. BreakerInv => TripsOnRecent
    BY DEF BreakerInv
  <1> QED
    BY <1>1, <1>2, PTL

(***************************************************************************)
(* The write-ahead log                                                     *)
(***************************************************************************)
Texts == 0..(MaxFills + 1)
Intact == Kept(lines, Fills)

\* Fills in the order they were made, the last no later than top.
Made(s, top) == s \in Seq(Fills) /\ InOrder(s) /\ \A i \in 1..Len(s) : s[i] <= top

\* What an unterminated line may still cost: a fill, and the next one with it.
Due(text) == IF text = Nothing THEN 0 ELSE IF text \in Fills THEN 2 ELSE 1

\* The fills that were at the log before the one that is on its way to it.
Logged == IF step = "text" THEN fill - 1 ELSE fill

LogInv ==
  /\ fill \in 0..MaxFills /\ damage \in Nat
  /\ step \in {"idle", "text", "newline", "apply"}
  /\ step # "idle" => fill > 0
  /\ lines \in Seq(Texts) /\ tail \in Texts
  /\ Made(applied, IF step = "idle" THEN fill ELSE fill - 1)
  /\ Made(Intact, IF step \in {"text", "newline"} THEN fill - 1 ELSE fill)
  /\ step = "newline" => tail \in {fill, Garbage}
  /\ tail \in Fills => /\ \A i \in 1..Len(Intact) : Intact[i] < tail
                       /\ tail <= Logged
  /\ (IF step = "idle" THEN fill ELSE fill - 1) - Len(applied) <= 2 * damage
  /\ Logged - Len(Replay) + (IF step = "newline" THEN 0 ELSE Due(tail)) <= 2 * damage

LEMMA TextsAndFills ==
  /\ MaxFills \in Nat /\ Fills \in SUBSET Texts /\ Fills \in SUBSET Nat
  /\ Nothing \in Texts /\ Garbage \in Texts
  /\ Nothing \notin Fills /\ Garbage \notin Fills /\ Garbage # Nothing
  /\ \A x \in Texts : Due(x) \in 0..2
  /\ Due(Nothing) = 0 /\ Due(Garbage) = 1 /\ \A x \in Fills : Due(x) = 2
  BY FillLogAssumption DEF Texts, Fills, Nothing, Garbage, Due

LEMMA MadeType ==
  ASSUME NEW s, NEW top, Made(s, top)
  PROVE  /\ s \in Seq(Fills) /\ Len(s) \in Nat
         /\ \A i \in 1..Len(s) : s[i] \in Fills /\ s[i] \in Nat /\ s[i] <= top
  <1>1. s \in Seq(Fills)
    BY DEF Made
  <1>2. Len(s) \in Nat /\ \A i \in 1..Len(s) : s[i] \in Fills
    BY <1>1
  <1>3. \A x \in Fills : x \in Nat
    BY TextsAndFills
  <1> QED
    BY <1>1, <1>2, <1>3 DEF Made

LEMMA MadeGrows ==
  ASSUME NEW s, NEW top \in Nat, Made(s, top), NEW x \in Fills,
         \A i \in 1..Len(s) : s[i] < x, NEW more \in Nat, x <= more, top <= more
  PROVE  Made(Append(s, x), more) /\ Len(Append(s, x)) = Len(s) + 1
  <1>1. /\ Append(s, x) \in Seq(Fills) /\ Len(Append(s, x)) = Len(s) + 1 /\ Len(s) \in Nat
        /\ Append(s, x)[Len(s) + 1] = x
        /\ \A i \in 1..Len(s) : Append(s, x)[i] = s[i] /\ s[i] \in Nat
    <2>1. s \in Seq(Fills) /\ \A i \in 1..Len(s) : s[i] \in Nat
      BY MadeType
    <2> QED
      BY <2>1
  <1> DEFINE r == Append(s, x)
  <1> HIDE DEF r
  <1>2. \A i \in 1..Len(r) : i \in 1..Len(s) \/ i = Len(s) + 1
    BY <1>1 DEF r
  <1>3. InOrder(r)
    <2> SUFFICES ASSUME NEW i \in 1..Len(r), NEW j \in 1..Len(r), i < j PROVE r[i] < r[j]
      BY DEF InOrder
    <2>1. i \in 1..Len(s)
      BY <1>1, <1>2 DEF r
    <2>2. CASE j = Len(s) + 1
      BY <1>1, <2>1, <2>2 DEF r
    <2>3. CASE j \in 1..Len(s)
      BY <1>1, <2>1, <2>3 DEF r, Made, InOrder
    <2> QED
      BY <1>2, <2>2, <2>3
  <1>4. \A i \in 1..Len(r) : r[i] <= more
    BY <1>1, <1>2, TextsAndFills DEF r, Made
  <1> QED
    BY <1>1, <1>3, <1>4 DEF r, Made

LEMMA MadeEarlier ==
  ASSUME NEW s, NEW top \in Nat, Made(s, top), NEW more \in Nat, top <= more
  PROVE  Made(s, more)
  <1>1. \A i \in 1..Len(s) : s[i] \in Nat
    BY MadeType
  <1> QED
    BY <1>1 DEF Made

\* What a replay finds: what is terminated, and the tail if it can be read.
LEMMA ReplayParts ==
  ASSUME NEW ls \in Seq(Texts), NEW x \in Texts
  PROVE  /\ Kept(ls, Fills) \in Seq(Fills)
         /\ Kept(Append(ls, x), Fills) =
              IF x \in Fills THEN Append(Kept(ls, Fills), x) ELSE Kept(ls, Fills)
  <1>1. Texts \cap Fills = Fills
    BY TextsAndFills
  <1> QED
    BY <1>1, KeptGrows

LEMMA ReplayMade ==
  ASSUME LogInv
  PROVE  /\ Made(Replay, Logged) /\ Len(Replay) \in Nat
         /\ Replay = IF tail \in Fills THEN Append(Intact, tail) ELSE Intact
         /\ Len(Replay) = Len(Intact) + (IF tail \in Fills THEN 1 ELSE 0)
  <1>1. Replay = IF tail \in Fills THEN Append(Intact, tail) ELSE Intact
    BY ReplayParts DEF LogInv, Replay, Intact
  <1>2. Logged \in Nat /\ fill \in Nat
    BY DEF LogInv, Logged
  <1>3. CASE tail \in Fills
    <2>1. CASE step \in {"text", "newline"}
      <3>1. Made(Intact, fill - 1) /\ fill - 1 \in Nat
        BY <2>1 DEF LogInv
      <3>2. Made(Append(Intact, tail), Logged) /\ Len(Append(Intact, tail)) = Len(Intact) + 1
        <4>1. /\ \A i \in 1..Len(Intact) : Intact[i] < tail
              /\ tail <= Logged /\ fill - 1 <= Logged
          BY <1>2, <1>3, <2>1 DEF LogInv, Logged
        <4> QED
          BY <1>2, <1>3, <3>1, <4>1, MadeGrows
      <3> QED
        BY <1>1, <1>3, <3>2, MadeType
    <2>2. CASE step \notin {"text", "newline"}
      <3>1. Made(Intact, fill)
        BY <2>2 DEF LogInv
      <3>2. Made(Append(Intact, tail), Logged) /\ Len(Append(Intact, tail)) = Len(Intact) + 1
        <4>1. /\ \A i \in 1..Len(Intact) : Intact[i] < tail
              /\ tail <= Logged /\ fill <= Logged
          BY <1>2, <1>3, <2>2 DEF LogInv, Logged
        <4> QED
          BY <1>2, <1>3, <3>1, <4>1, MadeGrows
      <3> QED
        BY <1>1, <1>3, <3>2, MadeType
    <2> QED
      BY <2>1, <2>2
  <1>4. CASE tail \notin Fills
    <2>1. CASE step = "newline"
      <3>1. Made(Intact, fill - 1) /\ fill - 1 \in Nat
        BY <2>1 DEF LogInv
      <3> QED
        BY <1>1, <1>2, <1>4, <2>1, <3>1, MadeEarlier DEF Logged, Made
    <2>2. CASE step # "newline"
      <3>1. Made(Intact, Logged)
        BY <2>2 DEF LogInv, Logged
      <3> QED
        BY <1>1, <1>4, <3>1 DEF Made
    <2> QED
      BY <2>1, <2>2
  <1> QED
    BY <1>1, <1>3, <1>4

LEMMA LogSound == LogInv => ReplayLosesLittle
  <1> SUFFICES ASSUME LogInv PROVE ReplayLosesLittle
    OBVIOUS
  <1>1. Made(Replay, Logged) /\ Len(Replay) \in Nat
    BY ReplayMade
  <1>2. Due(tail) \in 0..2
    BY TextsAndFills DEF LogInv
  <1> QED
    BY <1>1, <1>2 DEF LogInv, ReplayLosesLittle, Made, Logged

LEMMA LogInitially == FillInit => LogInv
  <1> SUFFICES ASSUME FillInit PROVE LogInv
    OBVIOUS
  <1>1. lines \in Seq(Texts) /\ lines = <<>> /\ tail = Nothing /\ fill = 0 /\ Len(<<>>) = 0
        /\ applied = <<>> /\ damage = 0 /\ step = "idle"
    BY DEF FillInit
  <1>2. <<>> \in Seq(Fills) /\ Made(<<>>, 0)
    BY DEF Made, InOrder
  <1>3. Intact = <<>> /\ Replay = <<>>
    <2>1. Keeping!Keeps(<<>>, Fills) /\ Kept(<<>>, Fills) = Keeping!KeptOf(<<>>, Fills)
          /\ \A n \in Nat : \A s \in SUBSET (1..n) : HighestOf(s) = Keeping!Highest(s)
      BY <1>2, KeptIsFold
    <2>2. Kept(<<>>, Fills) = <<>>
      BY <2>1, Keeping!KeptOfNothing
    <2>3. Kept(Append(lines, tail), Fills) = Kept(lines, Fills)
      BY <1>1, TextsAndFills, ReplayParts
    <2> QED
      BY <1>1, <2>2, <2>3 DEF Intact, Replay
  <1> QED
    BY <1>1, <1>2, <1>3, TextsAndFills DEF LogInv, Logged

\* An append that does not run to its end, because it fails or the process does.
LEMMA AppendBroken ==
  ASSUME LogInv, step \in {"text", "newline"}, UNCHANGED <<fill, lines>>,
         tail' \in (IF step = "text" THEN {tail, Garbage} ELSE {tail}),
         damage' = damage + 1, step' \in {"idle", "apply"}
  PROVE  /\ damage' \in Nat /\ lines' \in Seq(Texts) /\ tail' \in Texts
         /\ Intact' = Intact /\ Made(Intact, fill) /\ fill \in Nat \ {0}
         /\ Replay' = (IF tail' \in Fills THEN Append(Intact, tail') ELSE Intact)
         /\ tail' \in Fills => /\ \A i \in 1..Len(Intact) : Intact[i] < tail'
                               /\ tail' <= fill
         /\ fill - Len(Replay') + Due(tail') <= 2 * damage'
  <1>1. /\ fill \in Nat \ {0} /\ Made(Intact, fill - 1) /\ damage \in Nat
        /\ lines \in Seq(Texts) /\ tail \in Texts
    BY DEF LogInv
  <1>2. Made(Intact, fill) /\ Intact' = Intact /\ Len(Intact) \in Nat
    BY <1>1, MadeEarlier DEF Intact, Made
  <1>3. tail' \in Texts /\ lines' \in Seq(Texts)
    BY <1>1, TextsAndFills
  <1>4. Replay' = (IF tail' \in Fills THEN Append(Intact, tail') ELSE Intact)
    BY <1>1, <1>3, ReplayParts DEF Replay, Intact
  <1>5. /\ Len(Replay) = Len(Intact) + (IF tail \in Fills THEN 1 ELSE 0)
    BY ReplayMade
  <1>6. /\ tail' \in Fills => /\ \A i \in 1..Len(Intact) : Intact[i] < tail'
                              /\ tail' <= fill
    <2> SUFFICES ASSUME tail' \in Fills
                 PROVE  (\A i \in 1..Len(Intact) : Intact[i] < tail') /\ tail' <= fill
      OBVIOUS
    <2>1. tail' = tail
      BY TextsAndFills
    <2> QED
      BY <1>1, <2>1, TextsAndFills DEF LogInv, Logged
  <1>7. Len(Replay') = Len(Intact) + (IF tail' \in Fills THEN 1 ELSE 0)
    BY <1>2, <1>4 DEF Made
  <1>8. CASE step = "text"
    <2>1. fill - 1 - Len(Replay) + Due(tail) <= 2 * damage
      BY <1>8 DEF LogInv, Logged
    <2>2. CASE tail' = tail
      <3>1. Len(Replay') = Len(Replay) /\ Due(tail') = Due(tail)
        BY <1>5, <1>7, <2>2
      <3>2. Due(tail) \in Int /\ Len(Replay) \in Nat
        BY <1>1, ReplayMade, TextsAndFills
      <3> QED
        BY <1>1, <1>2, <1>3, <1>4, <1>6, <2>1, <3>1, <3>2
    <2>3. CASE tail' = Garbage
      <3>1. Len(Replay') = Len(Intact) /\ Due(tail') = 1
        BY <1>2, <1>7, <2>3, TextsAndFills
      <3>2. CASE tail \in Fills
        <4>1. Due(tail) = 2 /\ Len(Replay) = Len(Intact) + 1
          BY <1>5, <3>2, TextsAndFills
        <4>2. fill - Len(Replay') + Due(tail') <= 2 * damage'
          BY <1>1, <1>2, <2>1, <3>1, <4>1
        <4> QED
          BY <1>1, <1>2, <1>3, <1>4, <1>6, <4>2
      <3>3. CASE tail \notin Fills
        <4>1. Due(tail) \in Nat /\ Len(Replay) = Len(Intact)
          BY <1>1, <1>2, <1>5, <3>3, TextsAndFills
        <4>2. fill - Len(Replay') + Due(tail') <= 2 * damage'
          BY <1>1, <1>2, <2>1, <3>1, <4>1
        <4> QED
          BY <1>1, <1>2, <1>3, <1>4, <1>6, <4>2
      <3> QED
        BY <3>2, <3>3
    <2> QED
      BY <1>8, <2>2, <2>3
  <1>9. CASE step = "newline"
    <2>1. fill - Len(Replay) <= 2 * damage /\ tail' = tail
      BY <1>9, ReplayMade DEF LogInv, Logged
    <2>2. Due(tail') \in 0..2 /\ Len(Replay') = Len(Replay) /\ Len(Replay) \in Nat
      BY <1>3, <1>5, <1>7, <2>1, ReplayMade, TextsAndFills
    <2> QED
      BY <1>1, <1>2, <1>3, <1>4, <1>6, <2>1, <2>2
  <1> QED
    BY <1>8, <1>9

LEMMA FillStep == LogInv /\ [FillNext]_fillVars => LogInv'
  <1> SUFFICES ASSUME LogInv, [FillNext]_fillVars PROVE LogInv'
    OBVIOUS
  <1>0. /\ fill \in Nat /\ Len(applied) \in Nat /\ Len(Intact) \in Nat /\ damage \in Nat
        /\ Due(tail) \in 0..2 /\ Made(Replay, Logged) /\ Len(Replay) \in Nat
        /\ Replay = (IF tail \in Fills THEN Append(Intact, tail) ELSE Intact)
        /\ Len(Replay) = Len(Intact) + (IF tail \in Fills THEN 1 ELSE 0)
    BY ReplayMade, TextsAndFills DEF LogInv, Made
  <1>1. CASE Update
    <2>1. /\ step = "idle" /\ step' = "text" /\ fill' = fill + 1 /\ fill' \in Fills
          /\ UNCHANGED <<applied, lines, tail, damage>>
      BY <1>1 DEF Update
    <2>2. Intact' = Intact /\ Replay' = Replay /\ Logged' = fill /\ Logged = fill
      BY <1>0, <2>1 DEF Intact, Replay, Logged
    <2> QED
      BY <1>0, <2>1, <2>2 DEF LogInv, Fills
  <1>2. CASE WriteText
    <2>1. /\ step = "text" /\ step' = "newline" /\ tail' = Glued(fill)
          /\ UNCHANGED <<fill, applied, lines, damage>>
      BY <1>2 DEF WriteText
    <2>8. fill \in Fills /\ Made(Intact, fill - 1)
      BY <1>0, <2>1 DEF LogInv, Fills
    <2>9. Intact' = Intact /\ Logged' = fill
      BY <2>1 DEF Intact, Logged
    <2>10. (fill - 1) - Len(Replay) + Due(tail) <= 2 * damage
      BY <1>0, <2>1 DEF LogInv, Logged
    <2>2. /\ fill \in Fills /\ Intact' = Intact /\ Logged' = fill /\ Made(Intact, fill - 1)
          /\ (fill - 1) - Len(Replay) + Due(tail) <= 2 * damage
      BY <2>8, <2>9, <2>10
    <2>3. tail' \in {fill, Garbage} /\ tail' \in Texts
      BY <2>1, <2>2, TextsAndFills DEF Glued
    <2>4. Replay' = (IF tail' \in Fills THEN Append(Intact, tail') ELSE Intact)
      BY <2>1, <2>3, ReplayParts DEF Replay, Intact, LogInv
    <2>5. tail' \in Fills => /\ \A i \in 1..Len(Intact) : Intact[i] < tail'
                             /\ tail' <= fill
      <3> SUFFICES ASSUME tail' \in Fills
                   PROVE  (\A i \in 1..Len(Intact) : Intact[i] < tail') /\ tail' <= fill
        OBVIOUS
      <3>1. tail' = fill
        BY <2>3, TextsAndFills
      <3>2. \A i \in 1..Len(Intact) : Intact[i] \in Nat /\ Intact[i] <= fill - 1
        BY <2>2, MadeType
      <3> QED
        BY <1>0, <3>1, <3>2
    <2>6. Len(Replay') = Len(Intact) + (IF tail' \in Fills THEN 1 ELSE 0)
      BY <2>2, <2>4 DEF Made
    <2>7. fill - Len(Replay') <= 2 * damage
      <3>1. CASE tail = Nothing
        <4>1. tail' = fill /\ tail \notin Fills
          BY <2>1, <3>1, TextsAndFills DEF Glued
        <4> QED
          BY <1>0, <2>2, <2>6, <4>1
      <3>2. CASE tail # Nothing
        <4>1. tail' = Garbage /\ tail' \notin Fills
          BY <2>1, <3>2, TextsAndFills DEF Glued
        <4>2. Len(Replay') = Len(Intact)
          BY <1>0, <2>6, <4>1
        <4>3. CASE tail \in Fills
          <5>1. Due(tail) = 2 /\ Len(Replay) = Len(Intact) + 1
            BY <1>0, <4>3, TextsAndFills
          <5>2. (fill - 1) - (Len(Intact) + 1) + 2 <= 2 * damage
            BY <2>10, <5>1
          <5> QED
            BY <1>0, <4>2, <5>2
        <4>4. CASE tail \notin Fills
          <5>1. Due(tail) = 1 /\ Len(Replay) = Len(Intact)
            BY <1>0, <3>2, <4>4 DEF Due
          <5>2. (fill - 1) - Len(Intact) + 1 <= 2 * damage
            BY <2>10, <5>1
          <5> QED
            BY <1>0, <4>2, <5>2
        <4> QED
          BY <4>3, <4>4
      <3> QED
        BY <3>1, <3>2
    <2> QED
      BY <1>0, <2>1, <2>2, <2>3, <2>5, <2>7 DEF LogInv
  <1>3. CASE WriteNewline
    <2>1. /\ step = "newline" /\ step' = "apply" /\ lines' = Append(lines, tail)
          /\ tail' = Nothing /\ UNCHANGED <<fill, applied, damage>>
      BY <1>3 DEF WriteNewline
    <2>2. Intact' = Replay /\ lines' \in Seq(Texts) /\ tail' \in Texts /\ tail' \notin Fills
      BY <2>1, TextsAndFills DEF Intact, Replay, LogInv
    <2>3. Replay' = Replay
      BY <2>2, ReplayParts DEF Replay, Intact
    <2>4. Logged = fill /\ Logged' = fill /\ Due(tail') = 0
      BY <2>1, TextsAndFills DEF Logged
    <2> QED
      BY <1>0, <2>1, <2>2, <2>3, <2>4 DEF LogInv
  <1>4. CASE AppendFails
    <2>1. /\ step \in {"text", "newline"} /\ step' = "apply" /\ damage' = damage + 1
          /\ tail' \in (IF step = "text" THEN {tail, Garbage} ELSE {tail})
          /\ UNCHANGED <<fill, applied, lines>>
      BY <1>4 DEF AppendFails
    <2>2. /\ damage' \in Nat /\ lines' \in Seq(Texts) /\ tail' \in Texts
          /\ Intact' = Intact /\ Made(Intact, fill) /\ fill \in Nat \ {0}
          /\ tail' \in Fills => /\ \A i \in 1..Len(Intact) : Intact[i] < tail'
                                /\ tail' <= fill
          /\ fill - Len(Replay') + Due(tail') <= 2 * damage'
      BY <2>1, AppendBroken
    <2>3. Logged' = fill
      BY <2>1 DEF Logged
    <2> QED
      BY <1>0, <2>1, <2>2, <2>3 DEF LogInv
  <1>5. CASE ApplyFill
    <2>1. /\ step = "apply" /\ step' = "idle" /\ applied' = Append(applied, fill)
          /\ UNCHANGED <<fill, lines, tail, damage>>
      BY <1>5 DEF ApplyFill
    <2>2. fill \in Fills /\ Made(applied, fill - 1) /\ fill - 1 \in Nat
      BY <1>0, <2>1 DEF LogInv, Fills
    <2>3. \A i \in 1..Len(applied) : applied[i] < fill
      BY <1>0, <2>2, MadeType
    <2>4. Made(applied', fill) /\ Len(applied') = Len(applied) + 1
      BY <1>0, <2>1, <2>2, <2>3, MadeGrows
    <2>5. Intact' = Intact /\ Replay' = Replay /\ Logged' = Logged
      BY <2>1 DEF Intact, Replay, Logged
    <2> QED
      BY <1>0, <2>1, <2>4, <2>5 DEF LogInv
  <1>6. CASE CrashAndRestore
    <2>1. /\ step' = "idle" /\ applied' = Kept(Append(lines, tail'), Fills)
          /\ tail' \in (IF step = "text" THEN {tail, Garbage} ELSE {tail})
          /\ damage' = (IF step \in {"text", "newline"} THEN damage + 1 ELSE damage)
          /\ UNCHANGED <<fill, lines>>
      BY <1>6 DEF CrashAndRestore
    <2>2. applied' = Replay' /\ Logged' = fill
      BY <2>1 DEF Replay, Logged
    <2>3. /\ damage' \in Nat /\ lines' \in Seq(Texts) /\ tail' \in Texts
          /\ Intact' = Intact /\ Made(Intact, fill)
          /\ Replay' = (IF tail' \in Fills THEN Append(Intact, tail') ELSE Intact)
          /\ tail' \in Fills => /\ \A i \in 1..Len(Intact) : Intact[i] < tail'
                                /\ tail' <= fill
          /\ fill - Len(Replay') + Due(tail') <= 2 * damage'
      <3>1. CASE step \in {"text", "newline"}
        <4>1. damage' = damage + 1 /\ step' \in {"idle", "apply"}
          BY <2>1, <3>1
        <4> QED
          BY <2>1, <3>1, <4>1, AppendBroken
      <3>2. CASE step \notin {"text", "newline"}
        <4>1. tail' = tail /\ damage' = damage /\ lines' = lines
          BY <2>1, <3>2
        <4> QED
          BY <1>0, <3>2, <4>1 DEF LogInv, Logged, Intact, Replay
      <3> QED
        BY <3>1, <3>2
    <2>4. Made(Replay', fill)
      <3>1. CASE tail' \in Fills
        BY <1>0, <2>3, <3>1, MadeGrows
      <3>2. CASE tail' \notin Fills
        BY <2>3, <3>2
      <3> QED
        BY <3>1, <3>2
    <2>5. Len(Replay') \in Nat /\ Due(tail') \in 0..2
      BY <2>3, <2>4, TextsAndFills DEF Made
    <2>6. fill - Len(Replay') <= 2 * damage'
      BY <1>0, <2>3, <2>5
    <2> QED
      BY <1>0, <2>1, <2>2, <2>3, <2>4, <2>6 DEF LogInv
  <1>7. CASE UNCHANGED fillVars
    BY <1>7 DEF fillVars, LogInv, Intact, Replay, Logged
  <1> QED
    BY <1>1, <1>2, <1>3, <1>4, <1>5, <1>6, <1>7 DEF FillNext

\* For any number of fills, crashes and failed writes: the tracker and a replay
\* hold fills in order and miss at most two for every append that was broken off.
THEOREM LogLosesLittle == FillSpec => []ReplayLosesLittle
  BY LogInitially, FillStep, LogSound, PTL DEF FillSpec

(***************************************************************************)
(* The books of the feed                                                   *)
(***************************************************************************)
HearOf(of, i, book) == Heard(of[2], book, of[1][i])
Hearing == INSTANCE FoldFacts WITH Op <- HearOf, Pick <- HighestOf

ReadSoFar(t, seq, book, acc) ==
  /\ acc[0] = book
  /\ \A i \in 1..Len(seq) : acc[i] = Heard(t, acc[i - 1], seq[i])
  /\ Through(t, seq, book) = acc[Len(seq)]

LEMMA ReadRuns ==
  ASSUME NEW t, NEW S, NEW seq \in Seq(S), NEW book
  PROVE  \E acc : ReadSoFar(t, seq, book, acc)
  <1> DEFINE of == <<seq, t>>
             n == Len(seq)
  <1>1. n \in Nat /\ DOMAIN seq = 1..n
    OBVIOUS
  <1>2. \A s \in SUBSET (1..n) : HighestOf(s) = Hearing!Highest(s)
    BY DEF HighestOf, Hearing!Highest
  <1>3. Through(t, seq, book) = Hearing!Fold(of, book, 1..n)
    BY <1>1 DEF Through, FoldLeft, MapThenFoldSet, Max, HighestOf, Hearing!Fold,
       Hearing!Equation, HearOf
  <1>4. \A i, b : HearOf(of, i, b) = Heard(t, b, seq[i])
    BY DEF HearOf
  <1> HIDE DEF of, n
  <1>5. PICK acc : Hearing!Runs(of, book, n, acc)
    BY <1>1, <1>2, Hearing!FoldRuns
  <1>6. ReadSoFar(t, seq, book, acc)
    BY <1>3, <1>4, <1>5 DEF Hearing!Runs, ReadSoFar, n
  <1> QED
    BY <1>6

\* Messages are read one after the other: what comes later starts from the book
\* that what came before has made.
InTurn(t, one, two, both, book) ==
  Through(t, both, book) = Through(t, two, Through(t, one, book))

LEMMA ReadsOn ==
  ASSUME NEW t, NEW S, NEW one \in Seq(S), NEW two \in Seq(S), NEW both,
         both = one \o two, NEW book
  PROVE  InTurn(t, one, two, both, book)
  <1> DEFINE m == Len(one)
             n == Len(two)
  <1>1. /\ m \in Nat /\ n \in Nat /\ both \in Seq(S) /\ Len(both) = m + n
        /\ \A i \in 1..m : both[i] = one[i]
        /\ \A i \in 1..n : both[m + i] = two[i]
    OBVIOUS
  <1> HIDE DEF m, n
  <1>2. PICK a : ReadSoFar(t, one, book, a)
    BY ReadRuns
  <1>3. PICK b : ReadSoFar(t, two, a[m], b)
    BY ReadRuns
  <1>4. PICK c : ReadSoFar(t, both, book, c)
    BY <1>1, ReadRuns
  <1> DEFINE First == {i \in 0..m : c[i] = a[i]}
  <1>5. m \in First
    <2>1. 0 \in First
      BY <1>1, <1>2, <1>4 DEF ReadSoFar
    <2>2. \A i \in 1..m : i - 1 \in First => i \in First
      <3> SUFFICES ASSUME NEW i \in 1..m, i - 1 \in First PROVE i \in First
        OBVIOUS
      <3>1. a[i] = Heard(t, a[i - 1], one[i])
        BY <1>2 DEF ReadSoFar, m
      <3>2. i \in 1..Len(both)
        BY <1>1
      <3>3. c[i] = Heard(t, c[i - 1], both[i])
        BY <1>4, <3>2 DEF ReadSoFar
      <3> QED
        BY <1>1, <3>1, <3>3
    <2> HIDE DEF First
    <2> QED
      BY <1>1, <2>1, <2>2, Hearing!UpToInduction
  <1> DEFINE Second == {i \in 0..n : c[m + i] = b[i]}
  <1>6. n \in Second
    <2>1. 0 \in Second
      BY <1>1, <1>3, <1>5 DEF ReadSoFar
    <2>2. \A i \in 1..n : i - 1 \in Second => i \in Second
      <3> SUFFICES ASSUME NEW i \in 1..n, i - 1 \in Second PROVE i \in Second
        OBVIOUS
      <3>1. b[i] = Heard(t, b[i - 1], two[i])
        BY <1>3 DEF ReadSoFar, n
      <3>2. m + i \in 1..Len(both) /\ (m + i) - 1 = m + (i - 1)
        BY <1>1
      <3>3. c[m + i] = Heard(t, c[m + (i - 1)], both[m + i])
        BY <1>4, <3>2 DEF ReadSoFar
      <3> QED
        BY <1>1, <3>1, <3>3
    <2> HIDE DEF Second
    <2> QED
      BY <1>1, <2>1, <2>2, Hearing!UpToInduction
  <1>7. Through(t, one, book) = a[m] /\ Through(t, two, a[m]) = b[n]
    BY <1>2, <1>3 DEF ReadSoFar, m, n
  <1>8. Through(t, both, book) = c[m + n]
    BY <1>1, <1>4 DEF ReadSoFar
  <1> QED
    BY <1>6, <1>7, <1>8 DEF InTurn

LEMMA ReadsOne ==
  ASSUME NEW t, NEW x, NEW seq, seq = <<x>>, NEW book
  PROVE  Through(t, seq, book) = Heard(t, book, x)
  <1>1. seq \in Seq({x}) /\ Len(seq) = 1 /\ seq[1] = x
    OBVIOUS
  <1>2. PICK acc : ReadSoFar(t, seq, book, acc)
    BY <1>1, ReadRuns
  <1>3. acc[1] = Heard(t, acc[1 - 1], seq[1])
    BY <1>1, <1>2 DEF ReadSoFar
  <1> QED
    BY <1>1, <1>2, <1>3 DEF ReadSoFar

\* What is said of one token alone says nothing of the others.
LEMMA ReadsNothing ==
  ASSUME NEW t, NEW S, NEW seq \in Seq(S), NEW book,
         \A i \in 1..Len(seq) : seq[i].token # t
  PROVE  Through(t, seq, book) = book
  <1>1. PICK acc : ReadSoFar(t, seq, book, acc)
    BY ReadRuns
  <1> DEFINE Same == {i \in 0..Len(seq) : acc[i] = book}
  <1>2. 0 \in Same /\ Len(seq) \in Nat
    BY <1>1 DEF ReadSoFar
  <1>3. \A i \in 1..Len(seq) : i - 1 \in Same => i \in Same
    BY <1>1 DEF ReadSoFar, Heard
  <1> HIDE DEF Same
  <1>4. Len(seq) \in Same
    BY <1>2, <1>3, Hearing!UpToInduction
  <1> QED
    BY <1>1, <1>4 DEF Same, ReadSoFar

\* One message about t, and others about other tokens.
LEMMA ReadsTheOne ==
  ASSUME NEW t, NEW S, NEW seq \in Seq(S), NEW book,
         NEW k \in 1..Len(seq), seq[k].token = t,
         \A i \in 1..Len(seq) : seq[i].token = t => i = k
  PROVE  Through(t, seq, book) = Applied(book, seq[k])
  <1>1. PICK acc : ReadSoFar(t, seq, book, acc)
    BY ReadRuns
  <1> DEFINE Good == {i \in 0..Len(seq) : acc[i] = IF i < k THEN book ELSE Applied(book, seq[k])}
  <1>2. 0 \in Good /\ Len(seq) \in Nat
    BY <1>1 DEF ReadSoFar
  <1>3. \A i \in 1..Len(seq) : i - 1 \in Good => i \in Good
    <2> SUFFICES ASSUME NEW i \in 1..Len(seq), i - 1 \in Good PROVE i \in Good
      OBVIOUS
    <2>1. acc[i] = Heard(t, acc[i - 1], seq[i])
      BY <1>1 DEF ReadSoFar
    <2>2. CASE i = k
      <3>1. acc[i - 1] = book
        BY <2>2
      <3> QED
        BY <2>1, <2>2, <3>1 DEF Heard
    <2>3. CASE i # k
      <3>1. acc[i] = acc[i - 1]
        BY <2>1, <2>3 DEF Heard
      <3>2. i - 1 < k <=> i < k
        BY <2>3
      <3> QED
        BY <3>1, <3>2
    <2> QED
      BY <2>2, <2>3
  <1> HIDE DEF Good
  <1>4. Len(seq) \in Good
    BY <1>2, <1>3, Hearing!UpToInduction
  <1> QED
    BY <1>1, <1>4 DEF Good, ReadSoFar

\* SetToSeq lists a finite set, each element once.
LEMMA ListOfSet ==
  ASSUME NEW S, IsFiniteSet(S)
  PROVE  /\ SetToSeq(S) \in [1..Cardinality(S) -> S] /\ Cardinality(S) \in Nat
         /\ \A i, j \in 1..Cardinality(S) : SetToSeq(S)[i] = SetToSeq(S)[j] => i = j
         /\ \A x \in S : \E i \in 1..Cardinality(S) : SetToSeq(S)[i] = x
  <1> DEFINE n == Cardinality(S)
             f == SetToSeq(S)
  <1>1. n \in Nat
    BY FS_CardinalityType
  <1>2. f \in [1..n -> S] /\ \A i, j \in 1..n : f[i] = f[j] => i = j
    <2>1. \E g : g \in Bijection(1..n, S)
      BY FS_NatBijection, FS_CardinalityType DEF ExistsBijection
    <2>2. PICK g : g \in [1..n -> S] /\ \A i, j \in 1..n : g[i] = g[j] => i = j
      BY <2>1 DEF Bijection, Injection, IsInjective
    <2>3. \E h \in [1..n -> S] : IsInjective(h)
      BY <2>2 DEF IsInjective
    <2>4. f \in [1..n -> S] /\ IsInjective(f)
      BY <2>3 DEF SetToSeq
    <2> QED
      BY <2>4 DEF IsInjective
  <1> HIDE DEF f, n
  <1>3. \A x \in S : \E i \in 1..n : f[i] = x
    <2> SUFFICES ASSUME NEW x \in S, \A i \in 1..n : f[i] # x PROVE FALSE
      OBVIOUS
    <2>1. IsFiniteSet(S \ {x}) /\ Cardinality(S \ {x}) = n - 1
      BY FS_RemoveElement DEF n
    <2>2. IsFiniteSet(1..n) /\ Cardinality(1..n) = n
      BY <1>1, FS_Interval
    <2>3. f \in [1..n -> S \ {x}]
      BY <1>2
    <2>4. PICK i, j \in 1..n : i # j /\ f[i] = f[j]
      BY <1>1, <2>1, <2>2, <2>3, FS_PigeonHole
    <2> QED
      BY <1>2, <2>4
  <1> QED
    BY <1>1, <1>2, <1>3 DEF f, n

FeedTypes ==
  /\ exchange \in [Tokens -> Book] /\ books \in [Tokens -> Book]
  /\ net \in Seq(Message)
  /\ served \subseteq Tokens /\ subscribed \subseteq Tokens
  /\ requests \in Seq(SUBSET Tokens)

FeedInv == FeedTypes /\ BooksFollowExchange

\* A snapshot makes the exchange's book of any book.
LEMMA SnapshotApplies ==
  ASSUME exchange \in [Tokens -> Book], NEW t \in Tokens, NEW book
  PROVE  Snapshot(t) \in Message /\ Snapshot(t).token = t
         /\ Applied(book, Snapshot(t)) = exchange[t]
  <1> DEFINE levels == {<<l, exchange[t][l]>> : l \in {k \in Levels : exchange[t][k] > 0}}
  <1>1. Snapshot(t) = [type |-> "book", token |-> t, levels |-> levels]
    BY DEF Snapshot
  <1>2. exchange[t] \in [Levels -> Sizes] /\ \A l \in Levels : exchange[t][l] \in Sizes
    BY DEF Book
  <1>3. levels \in SUBSET (Levels \X Sizes)
    BY <1>2
  <1>4. Snapshot(t) \in Message
    BY <1>1, <1>3 DEF Message
  <1>5. ApplySnapshot(book, levels) = exchange[t]
    <2>1. \A l \in Levels : exchange[t][l] = 0 \/ exchange[t][l] > 0
      BY <1>2 DEF Sizes
    <2>2. ASSUME NEW l \in Levels
          PROVE  exchange[t][l] = LET s == {e \in levels : e[1] = l}
                                  IN  IF s = {} THEN 0 ELSE (CHOOSE e \in s : TRUE)[2]
      <3> DEFINE s == {e \in levels : e[1] = l}
      <3>1. CASE exchange[t][l] = 0
        <4>1. s = {}
          BY <3>1
        <4> QED
          BY <3>1, <4>1
      <3>2. CASE exchange[t][l] > 0
        <4>1. s = {<<l, exchange[t][l]>>}
          BY <3>2
        <4>2. (CHOOSE e \in s : TRUE) = <<l, exchange[t][l]>>
          BY <4>1
        <4> QED
          BY <4>1, <4>2
      <3> QED
        BY <2>1, <3>1, <3>2
    <2>3. exchange[t] = [l \in Levels |-> exchange[t][l]]
      BY <1>2
    <2> HIDE DEF levels
    <2> QED
      BY <2>2, <2>3 DEF ApplySnapshot
  <1> HIDE DEF levels
  <1>6. Applied(book, Snapshot(t)) = ApplySnapshot(book, levels)
    BY <1>1 DEF Applied
  <1> QED
    BY <1>1, <1>4, <1>5, <1>6

LEMMA SnapshotList ==
  ASSUME exchange \in [Tokens -> Book], NEW S \in SUBSET Tokens
  PROVE  Snapshots(S) \in Seq(Message)
  <1> DEFINE n == Cardinality(S)
             f == SetToSeq(S)
  <1>1. f \in [1..n -> S] /\ n \in Nat
    BY FeedAssumption, FS_Subset, ListOfSet
  <1>2. Snapshots(S) = [i \in 1..n |-> Snapshot(f[i])]
    BY DEF Snapshots
  <1> HIDE DEF f, n
  <1>3. \A i \in 1..n : Snapshot(f[i]) \in Message
    BY <1>1, SnapshotApplies
  <1> QED
    BY <1>1, <1>2, <1>3

\* The snapshots of a set of tokens make each one's book, and leave the others'.
Renewed(t, S, book) ==
  Through(t, Snapshots(S), book) = IF t \in S THEN exchange[t] ELSE book

LEMMA SnapshotsApply ==
  ASSUME exchange \in [Tokens -> Book], NEW S \in SUBSET Tokens, NEW book, NEW t \in Tokens
  PROVE  /\ Snapshots(S) \in Seq(Message)
         /\ Renewed(t, S, book)
  <1> DEFINE n == Cardinality(S)
             f == SetToSeq(S)
             seq == Snapshots(S)
  <1>1. /\ f \in [1..n -> S] /\ n \in Nat
        /\ \A i, j \in 1..n : f[i] = f[j] => i = j
        /\ \A x \in S : \E i \in 1..n : f[i] = x
    BY FeedAssumption, FS_Subset, ListOfSet
  <1>2. seq = [i \in 1..n |-> Snapshot(f[i])]
    BY DEF Snapshots
  <1> HIDE DEF f, n, seq
  <1>3. \A i \in 1..n : /\ f[i] \in Tokens /\ Snapshot(f[i]) \in Message
                        /\ Snapshot(f[i]).token = f[i]
    BY <1>1, SnapshotApplies
  <1>4. seq \in [1..n -> Message]
    BY <1>2, <1>3
  <1>5. seq \in Seq(Message) /\ Len(seq) = n
    BY <1>1, <1>4
  <1>6. \A i \in 1..n : seq[i] = Snapshot(f[i]) /\ seq[i].token = f[i]
    BY <1>2, <1>3
  <1>7. CASE t \in S
    <2>1. PICK k \in 1..n : f[k] = t
      BY <1>1, <1>7
    <2>2. k \in 1..Len(seq) /\ seq[k].token = t /\ seq[k] = Snapshot(t)
      BY <1>5, <1>6, <2>1
    <2>3. \A i \in 1..Len(seq) : seq[i].token = t => i = k
      BY <1>1, <1>5, <1>6, <2>1
    <2>4. Through(t, seq, book) = Applied(book, seq[k])
      BY <1>5, <2>2, <2>3, ReadsTheOne
    <2> QED
      BY <1>5, <1>7, <2>2, <2>4, SnapshotApplies DEF seq, Renewed
  <1>8. CASE t \notin S
    <2>1. \A i \in 1..Len(seq) : seq[i].token # t
      BY <1>1, <1>5, <1>6, <1>8
    <2>2. Through(t, seq, book) = book
      BY <1>5, <2>1, ReadsNothing
    <2> QED
      BY <1>5, <1>8, <2>2 DEF seq, Renewed
  <1> QED
    BY <1>7, <1>8

LEMMA AppliedIsBook ==
  ASSUME NEW b \in Book, NEW m \in Message
  PROVE  Applied(b, m) \in Book /\ m.token \in Tokens
  <1>1. CASE m \in [type : {"book"}, token : Tokens, levels : SUBSET (Levels \X Sizes)]
    <2>1. m.levels \in SUBSET (Levels \X Sizes) /\ m.type = "book" /\ m.token \in Tokens
      BY <1>1
    <2> DEFINE levels == m.levels
               At(l) == {e \in levels : e[1] = l}
    <2>2. ASSUME NEW l \in Levels
          PROVE  (IF At(l) = {} THEN 0 ELSE (CHOOSE e \in At(l) : TRUE)[2]) \in Sizes
      <3>1. 0 \in Sizes
        BY FeedAssumption DEF Sizes
      <3>2. CASE At(l) # {}
        <4>1. (CHOOSE e \in At(l) : TRUE) \in At(l)
          BY <3>2
        <4>2. \A e \in At(l) : e[2] \in Sizes
          BY <2>1
        <4> QED
          BY <3>2, <4>1, <4>2
      <3> QED
        BY <3>1, <3>2
    <2>3. ApplySnapshot(b, levels) \in [Levels -> Sizes]
      BY <2>2 DEF ApplySnapshot
    <2> QED
      BY <2>1, <2>3 DEF Applied, Book
  <1>2. CASE m \in [type : {"price_change"}, token : Tokens, level : Levels, size : Sizes]
    <2>1. m.level \in Levels /\ m.size \in Sizes /\ m.type = "price_change" /\ m.token \in Tokens
      BY <1>2
    <2> QED
      BY <2>1 DEF Applied, UpdateLevel, Book
  <1> QED
    BY <1>1, <1>2 DEF Message

LEMMA FeedInitially == FeedInit => FeedInv
  <1> SUFFICES ASSUME FeedInit PROVE FeedInv
    OBVIOUS
  <1>1. Empty \in Book
    BY FeedAssumption DEF Empty, Book, Sizes
  <1>2. FeedTypes
    BY <1>1, FeedAssumption DEF FeedInit, FeedTypes
  <1> QED
    BY <1>2 DEF FeedInit, FeedInv, BooksFollowExchange

\* A change goes to the end of what is under way, if the token has been served.
LEMMA ChangeFollowed ==
  ASSUME FeedInv, NEW t \in Tokens, NEW l \in Levels, NEW size \in Sizes, Change(t, l, size)
  PROVE  FeedInv'
  <1>1. /\ exchange' = [exchange EXCEPT ![t][l] = size]
        /\ UNCHANGED <<served, connection, subscribed, requests, books>>
    BY DEF Change, link
  <1>2. exchange' \in [Tokens -> Book] /\ exchange'[t] = [exchange[t] EXCEPT ![l] = size]
        /\ \A u \in Tokens \ {t} : exchange'[u] = exchange[u]
    BY <1>1 DEF FeedInv, FeedTypes, Book
  <1>3. CASE t \in served /\ connection = "up"
    <2> DEFINE x == [type |-> "price_change", token |-> t, level |-> l, size |-> size]
               one == <<x>>
    <2>1. x \in Message /\ x.token = t /\ \A b : Applied(b, x) = [b EXCEPT ![l] = size]
      BY DEF Message, Applied, UpdateLevel
    <2>2. net' = Append(net, x)
      BY <1>3 DEF Change
    <2> HIDE DEF x
    <2>3. one \in Seq(Message) /\ net' = net \o one /\ net \in Seq(Message)
          /\ net' \in Seq(Message)
      BY <2>1, <2>2 DEF FeedInv, FeedTypes
    <2>4. \A u : Through(u, one, Through(u, net, books[u])) = Heard(u, Through(u, net, books[u]), x)
      BY ReadsOne
    <2> HIDE DEF one
    <2>8. \A u : InTurn(u, net, one, net', books[u])
      BY <2>3, ReadsOn
    <2>5. \A u : Through(u, net', books[u]) = Heard(u, Through(u, net, books[u]), x)
      BY <2>4, <2>8 DEF InTurn
    <2>6. \A u : AfterNet(u)' = Heard(u, AfterNet(u), x)
      BY <1>1, <2>5 DEF AfterNet
    <2>7. \A u \in served : AfterNet(u)' = exchange'[u]
      <3> SUFFICES ASSUME NEW u \in served PROVE AfterNet(u)' = exchange'[u]
        OBVIOUS
      <3>1. AfterNet(u) = exchange[u] /\ u \in Tokens
        BY <1>3 DEF FeedInv, FeedTypes, BooksFollowExchange
      <3>2. CASE u = t
        BY <1>2, <2>1, <2>6, <3>1, <3>2 DEF Heard
      <3>3. CASE u # t
        BY <1>2, <2>1, <2>6, <3>1, <3>3 DEF Heard
      <3> QED
        BY <3>2, <3>3
    <2> QED
      BY <1>1, <1>2, <2>3, <2>7 DEF FeedInv, FeedTypes, BooksFollowExchange
  <1>4. CASE ~(t \in served /\ connection = "up")
    <2>1. net' = net
      BY <1>4 DEF Change
    <2>2. \A u : AfterNet(u)' = AfterNet(u)
      BY <1>1, <2>1 DEF AfterNet
    <2> QED
      BY <1>1, <1>2, <1>4, <2>1, <2>2 DEF FeedInv, FeedTypes, BooksFollowExchange
  <1> QED
    BY <1>3, <1>4

LEMMA ReceiveFollows == FeedInv /\ Receive => FeedInv'
  <1> SUFFICES ASSUME FeedInv, Receive PROVE FeedInv'
    OBVIOUS
  <1> DEFINE m == Head(net)
             rest == Tail(net)
             one == <<m>>
  <1>1. /\ net # <<>> /\ net' = rest /\ books' = [books EXCEPT ![m.token] = Applied(@, m)]
        /\ UNCHANGED <<exchange, served, connection, subscribed, requests>>
    BY DEF Receive, link
  <1>2. /\ m \in Message /\ rest \in Seq(Message) /\ one \in Seq(Message) /\ net = one \o rest
        /\ net \in Seq(Message)
    BY <1>1 DEF FeedInv, FeedTypes
  <1> HIDE DEF m, rest
  <1>3. m.token \in Tokens /\ books[m.token] \in Book /\ Applied(books[m.token], m) \in Book
    <2>1. m.token \in Tokens
      BY <1>2 DEF Message
    <2>2. books[m.token] \in Book
      BY <2>1 DEF FeedInv, FeedTypes
    <2> QED
      BY <1>2, <2>1, <2>2, AppliedIsBook
  <1>4. /\ books' \in [Tokens -> Book]
        /\ \A t \in Tokens : books'[t] = Heard(t, books[t], m)
    BY <1>1, <1>3 DEF FeedInv, FeedTypes, Heard
  <1>5. \A t : Through(t, one, books[t]) = Heard(t, books[t], m)
    BY ReadsOne
  <1> HIDE DEF one
  <1>6. \A t \in Tokens : Through(t, net, books[t]) = Through(t, rest, books'[t])
    <2>1. \A t \in Tokens : InTurn(t, one, rest, net, books[t])
      BY <1>2, ReadsOn
    <2> QED
      BY <1>4, <1>5, <2>1 DEF InTurn
  <1>7. \A t \in Tokens : AfterNet(t)' = AfterNet(t)
    BY <1>1, <1>6 DEF AfterNet
  <1> QED
    BY <1>1, <1>2, <1>4, <1>7 DEF FeedInv, FeedTypes, BooksFollowExchange

\* A subscription adds snapshots, which make the books whatever they were.
LEMMA SnapshotsFollow ==
  ASSUME FeedInv, NEW old \in Seq(Message), NEW S \in SUBSET Tokens,
         net' = old \o Snapshots(S), books' = books, exchange' = exchange,
         NEW heard \in SUBSET Tokens,
         \A t \in heard : Through(t, old, books[t]) = exchange[t]
  PROVE  net' \in Seq(Message) /\ \A t \in heard \cup S : AfterNet(t)' = exchange'[t]
  <1> DEFINE new == Snapshots(S)
  <1>1. new \in Seq(Message)
        /\ \A t \in Tokens : \A b : Through(t, new, b) = IF t \in S THEN exchange[t] ELSE b
    <2>1. exchange \in [Tokens -> Book]
      BY DEF FeedInv, FeedTypes
    <2>2. \A t \in Tokens : \A b : new \in Seq(Message) /\ Renewed(t, S, b)
      BY <2>1, SnapshotsApply
    <2>3. new \in Seq(Message)
      BY <2>1, SnapshotList
    <2> QED
      BY <2>2, <2>3 DEF Renewed
  <1> HIDE DEF new
  <1>2. net' \in Seq(Message) /\ net' = old \o new
    BY <1>1 DEF new
  <1>3. \A t : Through(t, net', books[t]) = Through(t, new, Through(t, old, books[t]))
    <2>1. \A t : InTurn(t, old, new, net', books[t])
      BY <1>1, <1>2, ReadsOn
    <2> QED
      BY <2>1 DEF InTurn
  <1>4. \A t : AfterNet(t)' = Through(t, net', books[t])
    BY DEF AfterNet
  <1>5. \A t \in heard \cup S : AfterNet(t)' = exchange[t]
    BY <1>1, <1>3, <1>4
  <1> QED
    BY <1>2, <1>5

LEMMA FeedStep == FeedInv /\ [FeedNext]_feedVars => FeedInv'
  <1> SUFFICES ASSUME FeedInv, [FeedNext]_feedVars PROVE FeedInv'
    OBVIOUS
  <1>1. CASE Drop
    <2>1. connection' = "gone" /\ net' \in Seq(Message)
      BY <1>1 DEF Drop, FeedInv, FeedTypes
    <2> QED
      BY <1>1, <2>1 DEF Drop, FeedInv, FeedTypes, BooksFollowExchange
  <1>2. CASE Connect
    <2> DEFINE old == <<>>
               none == {}
    <2>1. /\ net' = Snapshots(subscribed) /\ served' = subscribed
          /\ UNCHANGED <<exchange, subscribed, requests, books>>
      BY <1>2 DEF Connect
    <2>2. subscribed \in SUBSET Tokens /\ Snapshots(subscribed) \in Seq(Message)
      BY SnapshotList DEF FeedInv, FeedTypes
    <2>3. /\ old \in Seq(Message) /\ net' = old \o Snapshots(subscribed)
          /\ none \in SUBSET Tokens
          /\ \A t \in none : Through(t, old, books[t]) = exchange[t]
          /\ none \cup subscribed = subscribed
      BY <2>1, <2>2
    <2> HIDE DEF old, none
    <2>4. books' = books /\ exchange' = exchange
      BY <2>1
    <2>5. net' \in Seq(Message) /\ \A t \in none \cup subscribed : AfterNet(t)' = exchange'[t]
      BY <2>2, <2>3, <2>4, SnapshotsFollow, SMTT(30)
    <2>6. served' = none \cup subscribed
      BY <2>1, <2>3
    <2>7. FeedTypes'
      BY <2>1, <2>5, <2>6, <2>3 DEF FeedInv, FeedTypes
    <2> QED
      BY <2>5, <2>6, <2>7 DEF FeedInv, BooksFollowExchange
  <1>3. CASE Subscribe
    <2> DEFINE new == Head(requests)
    <2>1. /\ requests # <<>> /\ net' = net \o Snapshots(new) /\ served' = served \cup new
          /\ subscribed' = subscribed \cup new /\ requests' = Tail(requests)
          /\ connection = "up" /\ UNCHANGED <<exchange, connection, books>>
      BY <1>3 DEF Subscribe
    <2>2. new \in SUBSET Tokens /\ requests' \in Seq(SUBSET Tokens)
      BY <2>1 DEF FeedInv, FeedTypes
    <2> HIDE DEF new
    <2>3. net \in Seq(Message) /\ served \in SUBSET Tokens
          /\ \A t \in served : Through(t, net, books[t]) = exchange[t]
      BY <2>1 DEF FeedInv, FeedTypes, BooksFollowExchange, AfterNet
    <2>4. net' \in Seq(Message) /\ \A t \in served \cup new : AfterNet(t)' = exchange'[t]
      BY <2>1, <2>2, <2>3, SnapshotsFollow
    <2> QED
      BY <2>1, <2>2, <2>4 DEF FeedInv, FeedTypes, BooksFollowExchange
  <1>4. CASE SubscribeUnheard \/ SubscribeFails
    <2>1. requests # <<>> /\ requests' = Tail(requests) /\ connection' # "up"
          /\ subscribed' \in {subscribed, subscribed \cup Head(requests)}
          /\ net' \in {net, <<>>} /\ served' \in {served, {}} /\ UNCHANGED <<exchange, books>>
      BY <1>4 DEF SubscribeUnheard, SubscribeFails, outside
    <2>2. /\ Head(requests) \in SUBSET Tokens /\ requests' \in Seq(SUBSET Tokens)
          /\ <<>> \in Seq(Message)
      BY <2>1 DEF FeedInv, FeedTypes
    <2> QED
      BY <2>1, <2>2 DEF FeedInv, FeedTypes, BooksFollowExchange
  <1>5. CASE Ended
    BY <1>5 DEF Ended, FeedInv, FeedTypes, BooksFollowExchange
  <1>6. ASSUME NEW S \in SUBSET Tokens, Request(S) PROVE FeedInv'
    <2>1. requests' = <<S>> /\ UNCHANGED <<exchange, net, served, connection, subscribed, books>>
      BY <1>6 DEF Request, outside
    <2>2. requests' \in Seq(SUBSET Tokens)
      BY <2>1
    <2> QED
      BY <2>1, <2>2 DEF FeedInv, FeedTypes, BooksFollowExchange, AfterNet
  <1>7. CASE ConnectFails \/ Notify \/ Drain \/ TickEnds \/ KillOrResume \/ UNCHANGED feedVars
    <2>1. UNCHANGED <<exchange, net, served, connection, subscribed, requests, books>>
      BY <1>7 DEF ConnectFails, Notify, Drain, TickEnds, KillOrResume, feedVars, outside, link
    <2> QED
      BY <2>1 DEF FeedInv, FeedTypes, BooksFollowExchange, AfterNet
  <1> QED
    BY <1>1, <1>2, <1>3, <1>4, <1>5, <1>6, <1>7, ReceiveFollows, ChangeFollowed
    DEF FeedNext, Feed

\* For any tokens, levels and sizes, any connections and late subscriptions: while
\* a connection lasts, what is under way turns the local books into the exchange's.
THEOREM FeedFollowsExchange == FeedSpec => []BooksFollowExchange
  <1>1. FeedInv => BooksFollowExchange
    BY DEF FeedInv
  <1> QED
    BY <1>1, FeedInitially, FeedStep, PTL DEF FeedSpec

(***************************************************************************)
(* The monitors                                                            *)
(***************************************************************************)
AlertsInv ==
  /\ tick \in Nat
  /\ asked \in [Categories -> Seq(Nat)] /\ sent \in [Categories -> Seq(Nat)]
  /\ DOMAIN lastSent = {c \in Categories : sent[c] # <<>>}
  /\ \A c \in DOMAIN lastSent : lastSent[c] = sent[c][Len(sent[c])]
  /\ \A c \in Categories : \A i \in 1..Len(sent[c]) :
        /\ sent[c][i] <= tick
        /\ \A j \in 1..Len(sent[c]) : i <= j => sent[c][i] <= sent[c][j]
  /\ AlertsSpaced

LEMMA AlertsInitially == MonitorInit => AlertsInv
  <1> SUFFICES ASSUME MonitorInit PROVE AlertsInv
    OBVIOUS
  <1>1. /\ tick = 0 /\ asked = [c \in Categories |-> <<>>] /\ sent = [c \in Categories |-> <<>>]
        /\ DOMAIN lastSent = {}
    BY DEF MonitorInit
  <1>2. \A c \in Categories : sent[c] = <<>> /\ asked[c] = <<>>
    BY <1>1
  <1> QED
    BY <1>1, <1>2 DEF AlertsInv, AlertsSpaced

LEMMA SendKeepsSpacing ==
  ASSUME AlertsInv, NEW c \in Categories, SendAlert(c)
  PROVE  AlertsInv'
  <1> DEFINE past == sent[c]
             n == Len(past)
  <1>1. /\ asked' = [asked EXCEPT ![c] = Append(@, tick)] /\ tick' = tick
        /\ tick \in Nat /\ past \in Seq(Nat) /\ asked[c] \in Seq(Nat) /\ n \in Nat
    BY DEF SendAlert, AlertsInv
  <1>2. asked' \in [Categories -> Seq(Nat)]
    BY <1>1 DEF AlertsInv
  <1>3. CASE ShouldSend(c)
    <2>1. sent' = [sent EXCEPT ![c] = Append(@, tick)]
          /\ lastSent' = [d \in DOMAIN lastSent \cup {c} |-> IF d = c THEN tick ELSE lastSent[d]]
      BY <1>3 DEF SendAlert
    <2>2. sent' \in [Categories -> Seq(Nat)]
      BY <1>1, <2>1 DEF AlertsInv
    <2>3. /\ sent'[c] = Append(past, tick) /\ \A d \in Categories \ {c} : sent'[d] = sent[d]
          /\ Len(sent'[c]) = n + 1 /\ sent'[c][n + 1] = tick
          /\ \A i \in 1..n : sent'[c][i] = past[i]
      BY <1>1, <2>1 DEF AlertsInv
    <2>4. \A i \in 1..n : past[i] \in Nat /\ past[i] <= tick /\ tick - past[i] >= Quiet
      <3> SUFFICES ASSUME NEW i \in 1..n
                   PROVE  past[i] \in Nat /\ past[i] <= tick /\ tick - past[i] >= Quiet
        OBVIOUS
      <3>1. past # <<>> /\ n \in 1..n
        BY <1>1
      <3>2. c \in DOMAIN lastSent /\ lastSent[c] = past[n]
        BY <3>1 DEF AlertsInv
      <3>3. tick - past[n] >= Quiet
        BY <1>3, <3>2 DEF ShouldSend
      <3>4. past[i] <= past[n] /\ past[n] \in Nat /\ past[i] \in Nat /\ past[i] <= tick
        BY <1>1, <3>1 DEF AlertsInv
      <3>5. Quiet \in Nat
        BY MonitoringAssumption
      <3> QED
        BY <1>1, <3>3, <3>4, <3>5
    <2>5. /\ DOMAIN lastSent' = {d \in Categories : sent'[d] # <<>>}
          /\ \A d \in DOMAIN lastSent' : lastSent'[d] = sent'[d][Len(sent'[d])]
      <3>1. sent'[c] # <<>>
        <4>1. sent'[c] \in Seq(Nat) /\ Len(sent'[c]) # 0
          BY <1>1, <2>2, <2>3
        <4> QED
          BY <4>1
      <3>2. DOMAIN lastSent' = DOMAIN lastSent \cup {c} /\ lastSent'[c] = tick
            /\ \A d \in DOMAIN lastSent \ {c} : lastSent'[d] = lastSent[d]
        BY <2>1
      <3> QED
        BY <2>3, <3>1, <3>2 DEF AlertsInv
    <2>6. ASSUME NEW d \in Categories
          PROVE  \A i \in 1..Len(sent'[d]) :
                    /\ sent'[d][i] <= tick
                    /\ \A j \in 1..Len(sent'[d]) :
                          /\ i <= j => sent'[d][i] <= sent'[d][j]
                          /\ i < j => sent'[d][j] - sent'[d][i] >= Quiet
      <3>1. CASE d = c
        <4> SUFFICES ASSUME NEW i \in 1..(n + 1), NEW j \in 1..(n + 1)
                     PROVE  /\ sent'[c][i] <= tick
                            /\ i <= j => sent'[c][i] <= sent'[c][j]
                            /\ i < j => sent'[c][j] - sent'[c][i] >= Quiet
          BY <2>3, <3>1
        <4>1. CASE i \in 1..n /\ j \in 1..n
          BY <2>3, <4>1 DEF AlertsInv, AlertsSpaced
        <4>2. CASE i = n + 1
          BY <1>1, <2>3, <2>4, <4>2
        <4>3. CASE i \in 1..n /\ j = n + 1
          BY <1>1, <2>3, <2>4, <4>3
        <4> QED
          BY <1>1, <4>1, <4>2, <4>3
      <3>2. CASE d # c
        BY <2>3, <3>2 DEF AlertsInv, AlertsSpaced
      <3> QED
        BY <3>1, <3>2
    <2>7. ASSUME NEW d \in Categories, NEW i \in 1..Len(asked'[d])
          PROVE  \E j \in 1..Len(sent'[d]) : asked'[d][i] - sent'[d][j] \in 0..(Quiet - 1)
      <3>1. CASE d # c
        BY <1>1, <2>3, <3>1 DEF AlertsInv, AlertsSpaced
      <3>2. CASE d = c
        <4>1. /\ asked'[c] = Append(asked[c], tick) /\ Len(asked'[c]) = Len(asked[c]) + 1
              /\ asked'[c][Len(asked[c]) + 1] = tick
              /\ \A k \in 1..Len(asked[c]) : asked'[c][k] = asked[c][k]
          BY <1>1 DEF AlertsInv
        <4>2. CASE i = Len(asked[c]) + 1
          <5>1. asked'[c][i] - sent'[c][n + 1] = 0 /\ 0 \in 0..(Quiet - 1)
            BY <1>1, <2>3, <4>1, <4>2, MonitoringAssumption
          <5>2. n + 1 \in 1..Len(sent'[c])
            BY <1>1, <2>3
          <5> QED
            BY <3>2, <5>1, <5>2
        <4>3. CASE i \in 1..Len(asked[c])
          <5>1. PICK j \in 1..n : asked[c][i] - past[j] \in 0..(Quiet - 1)
            BY <4>3 DEF AlertsInv, AlertsSpaced
          <5>2. sent'[c][j] = past[j]
            BY <2>3, <5>1
          <5>3. asked'[c][i] = asked[c][i]
            BY <4>1, <4>3
          <5>4. j \in 1..Len(sent'[c])
            BY <1>1, <2>3, <5>1
          <5> QED
            BY <3>2, <5>1, <5>2, <5>3, <5>4
        <4>4. i = Len(asked[c]) + 1 \/ i \in 1..Len(asked[c])
          BY <1>1, <3>2, <4>1
        <4> QED
          BY <4>2, <4>3, <4>4
      <3> QED
        BY <3>1, <3>2
    <2> QED
      BY <1>1, <1>2, <2>2, <2>5, <2>6, <2>7 DEF AlertsInv, AlertsSpaced
  <1>4. CASE ~ShouldSend(c)
    <2>1. UNCHANGED <<sent, lastSent>>
      BY <1>4 DEF SendAlert
    <2>2. c \in DOMAIN lastSent /\ ~(tick - lastSent[c] >= Quiet)
      BY <1>4 DEF ShouldSend
    <2>3. n \in 1..n /\ past[n] = lastSent[c] /\ past[n] \in Nat /\ past[n] <= tick
      BY <1>1, <2>2 DEF AlertsInv
    <2>4. tick - past[n] \in 0..(Quiet - 1)
      <3>1. Quiet \in Nat
        BY MonitoringAssumption
      <3>2. past[n] \in Nat /\ past[n] <= tick /\ ~(tick - past[n] >= Quiet) /\ tick \in Nat
        BY <1>1, <2>2, <2>3
      <3> QED
        BY <3>1, <3>2
    <2>5. ASSUME NEW d \in Categories, NEW i \in 1..Len(asked'[d])
          PROVE  \E j \in 1..Len(sent[d]) : asked'[d][i] - sent[d][j] \in 0..(Quiet - 1)
      <3>1. CASE d # c
        BY <1>1, <3>1 DEF AlertsInv, AlertsSpaced
      <3>2. CASE d = c
        <4>1. /\ asked'[c] = Append(asked[c], tick) /\ Len(asked'[c]) = Len(asked[c]) + 1
              /\ asked'[c][Len(asked[c]) + 1] = tick
              /\ \A k \in 1..Len(asked[c]) : asked'[c][k] = asked[c][k]
          BY <1>1 DEF AlertsInv
        <4>2. CASE i = Len(asked[c]) + 1
          BY <2>3, <2>4, <3>2, <4>1, <4>2
        <4>3. CASE i \in 1..Len(asked[c])
          BY <3>2, <4>1, <4>3 DEF AlertsInv, AlertsSpaced
        <4>4. i = Len(asked[c]) + 1 \/ i \in 1..Len(asked[c])
          BY <1>1, <3>2, <4>1
        <4> QED
          BY <4>2, <4>3, <4>4
      <3> QED
        BY <3>1, <3>2
    <2> QED
      BY <1>1, <1>2, <2>1, <2>5 DEF AlertsInv, AlertsSpaced
  <1> QED
    BY <1>3, <1>4

AnyOf(s) == CHOOSE x \in s : TRUE
AddError(queue, i, sum) == queue[i].error + sum
AddPnl(booked, k, sum) == booked[k] + sum
Errs == INSTANCE FoldFacts WITH Op <- AddError, Pick <- AnyOf
ByKind == INSTANCE FoldFacts WITH Op <- AddPnl, Pick <- AnyOf

LEMMA AnyOfIn == \A s : s # {} => AnyOf(s) \in s
  BY DEF AnyOf

Predictions == [made : Nat, error : Nat]

SameScore(one, two, cutoff) ==
  /\ Score(one, cutoff) = Score(two, cutoff)
  /\ Score(two, cutoff).sum \in Int /\ Score(two, cutoff).count \in Nat

\* The predictions that count are the same in a queue and in its end, if those
\* before the end were made before the cutoff.
LEMMA ScoreOfEnd ==
  ASSUME NEW all \in Seq(Predictions), NEW d \in 0..Len(all), NEW end,
         end = SubSeq(all, d + 1, Len(all)), NEW cutoff \in Int,
         \A i \in 1..d : all[i].made < cutoff
  PROVE  SameScore(end, all, cutoff)
  <1> DEFINE D == {i \in 1..Len(end) : end[i].made >= cutoff}
             E == {i \in 1..Len(all) : all[i].made >= cutoff}
             f == [i \in D |-> end[i].error]
             g == [i \in E |-> all[i].error]
             h == [i \in D |-> i + d]
  <1>1. /\ Len(all) \in Nat /\ d \in Nat /\ Len(end) = Len(all) - d /\ Len(end) \in Nat
        /\ \A i \in 1..Len(end) : i + d \in 1..Len(all) /\ end[i] = all[i + d]
        /\ \A i \in 1..Len(all) : all[i].made \in Nat /\ all[i].error \in Nat
    <2>1. \A x \in Predictions : x.made \in Nat /\ x.error \in Nat
      BY DEF Predictions
    <2>2. /\ Len(all) \in Nat /\ d \in Nat
          /\ \A i \in 1..Len(all) : all[i] \in Predictions
      OBVIOUS
    <2>3. Len(end) = Len(all) - d /\ Len(end) \in Nat
      BY <2>2
    <2>4. \A i \in 1..Len(end) : i + d \in 1..Len(all) /\ end[i] = all[i + d]
      BY <2>2, <2>3
    <2> QED
      BY <2>1, <2>2, <2>3, <2>4
  <1>2. IsFiniteSet(D) /\ IsFiniteSet(E)
    <2>1. ASSUME NEW n \in Nat PROVE IsFiniteSet(1..n)
      <3>1. 1 \in Int /\ n \in Int
        OBVIOUS
      <3> QED
        BY <3>1, FS_Interval
    <2> QED
      BY <1>1, <2>1, FS_Subset
  <1>3. \A i \in D : h[i] \in E /\ g[h[i]] = f[i]
    BY <1>1
  <1>4. \A i, j \in D : h[i] = h[j] => i = j
    <2>1. D \subseteq Int /\ d \in Int
      BY <1>1
    <2>2. \A i \in D : h[i] = i + d
      OBVIOUS
    <2> HIDE DEF D, h
    <2> SUFFICES ASSUME NEW i \in D, NEW j \in D, h[i] = h[j]
                 PROVE  i = j
      OBVIOUS
    <2>3. i \in Int /\ j \in Int /\ d \in Int
      BY <2>1
    <2>4. h[i] = i + d /\ h[j] = j + d
      BY <2>2
    <2>5. i + d = j + d
      BY <2>4
    <2> QED
      BY <2>3, <2>5
  <1>5. \A e \in E : \E i \in D : h[i] = e
    <2> SUFFICES ASSUME NEW e \in E PROVE \E i \in D : h[i] = e
      OBVIOUS
    <2>1. e > d
      BY <1>1
    <2>2. e - d \in 1..Len(end) /\ (e - d) + d = e
      BY <1>1, <2>1
    <2>3. e - d \in D
      BY <1>1, <2>2
    <2> QED
      BY <2>2, <2>3
  <1>6. Errs!AddsUp(end, D, f) /\ Errs!AddsUp(all, E, g)
    <2>1. Errs!Adds(end, D, f) /\ Errs!Adds(all, E, g)
      BY DEF Errs!Adds, AddError
    <2>2. (\A i \in D : f[i] \in Int) /\ (\A i \in E : g[i] \in Int)
      BY <1>1
    <2> HIDE DEF D, E, f, g
    <2> QED
      BY <1>2, <2>1, <2>2 DEF Errs!AddsUp, IsFiniteSet, Errs!IsFiniteSet
  <1>7. /\ Score(end, cutoff) = [sum |-> Errs!Total(end, D), count |-> Cardinality(D)]
        /\ Score(all, cutoff) = [sum |-> Errs!Total(all, E), count |-> Cardinality(E)]
    BY DEF Score, MapThenSumSet, MapThenFoldSet, AnyOf, Errs!Total, Errs!Fold, Errs!Equation,
       AddError
  <1>8. Cardinality(D) = Cardinality(E) /\ Cardinality(E) \in Nat
    <2>1. h \in Bijection(D, E)
      <3>1. h \in [D -> E]
        BY <1>3
      <3> HIDE DEF D, E
      <3> QED
        BY <1>4, <1>5, <3>1 DEF Bijection, Injection, Surjection, IsInjective
    <2> HIDE DEF D, E, h
    <2>2. ExistsBijection(D, E)
      BY <2>1 DEF ExistsBijection
    <2> QED
      BY <1>2, <2>2, FS_Bijection, FS_CardinalityType
  <1> HIDE DEF D, E, f, g, h
  <1>9. Errs!Total(end, D) = Errs!Total(all, E)
    BY <1>3, <1>4, <1>5, <1>6, AnyOfIn, Errs!TotalMoves
  <1>10. Errs!Total(all, E) \in Int
    BY <1>6, AnyOfIn, Errs!TotalType
  <1> QED
    BY <1>7, <1>8, <1>9, <1>10 DEF SameScore

HealthInv ==
  /\ tick \in Nat
  /\ ever \in Seq(Predictions)
  /\ \A i \in 1..Len(ever) : ever[i].made <= tick
  /\ \E d \in 0..Len(ever) :
        /\ records = SubSeq(ever, d + 1, Len(ever))
        /\ \A i \in 1..d : ever[i].made < tick - LongWindow
  /\ score30.sum \in Int /\ score30.count \in Nat
  /\ ever # <<>> => score30 = Score(ever, ever[Len(ever)].made - ShortWindow)

\* Drift is what halves the sizes.
LEMMA DriftCutsSizes ==
  ASSUME score30.sum \in Int, score30.count \in Nat
  PROVE  /\ DriftDetected => 2 * Confidence < 100 * score30.count
         /\ ~DriftDetected => 2 * Confidence >= 100 * score30.count
  <1> DEFINE s == score30.sum
             n == score30.count
  <1>1. s \in Int /\ n \in Nat
    OBVIOUS
  <1>2. /\ DriftDetected <=> n > 0 /\ s > 35 * n
        /\ \A t \in {20, 35, 45} : AtLeast(t) <=> n > 0 /\ s >= t * n
    BY DEF DriftDetected, AtLeast
  <1>3. Confidence = IF AtLeast(45) THEN 0
                     ELSE IF AtLeast(35) THEN 5 * (45 * n - s)
                     ELSE IF AtLeast(20) THEN 50 * n + (10 * (35 * n - s)) \div 3
                     ELSE 100 * n
    BY DEF Confidence
  <1> HIDE DEF s, n
  <1>4. CASE AtLeast(45)
    BY <1>1, <1>2, <1>3, <1>4 DEF n
  <1>5. CASE AtLeast(35) /\ ~AtLeast(45)
    <2>1. Confidence = 5 * (45 * n - s) /\ n > 0 /\ s >= 35 * n
      BY <1>2, <1>3, <1>5
    <2>2. s > 35 * n => 2 * Confidence < 100 * n
      BY <1>1, <2>1
    <2>3. ~(s > 35 * n) => 2 * Confidence >= 100 * n
      BY <1>1, <2>1
    <2> QED
      BY <1>2, <2>1, <2>2, <2>3 DEF n
  <1>6. CASE AtLeast(20) /\ ~AtLeast(35) /\ ~AtLeast(45)
    <2>1. Confidence = 50 * n + (10 * (35 * n - s)) \div 3 /\ n > 0 /\ ~(s >= 35 * n)
      BY <1>2, <1>3, <1>6
    <2>2. ~DriftDetected
      BY <1>1, <1>2, <2>1
    <2>3. 10 * (35 * n - s) \in Nat
      BY <1>1, <2>1
    <2>4. \A m \in Nat : m \div 3 \in Nat
      OBVIOUS
    <2>5. (10 * (35 * n - s)) \div 3 \in Nat
      BY <2>3, <2>4
    <2>6. 2 * Confidence >= 100 * n
      BY <1>1, <2>1, <2>5
    <2> QED
      BY <2>2, <2>6 DEF n
  <1>7. CASE ~AtLeast(20) /\ ~AtLeast(35) /\ ~AtLeast(45)
    <2>1. Confidence = 100 * n /\ ~DriftDetected
      BY <1>1, <1>2, <1>3, <1>7
    <2>2. 2 * Confidence >= 100 * n
      BY <1>1, <2>1
    <2> QED
      BY <2>1, <2>2 DEF n
  <1>8. AtLeast(45) => AtLeast(35)
    BY <1>1, <1>2
  <1>9. AtLeast(35) => AtLeast(20)
    BY <1>1, <1>2
  <1> QED
    BY <1>4, <1>5, <1>6, <1>7, <1>8, <1>9

LEMMA HealthSound == HealthInv => HealthSeesWindow
  <1> SUFFICES ASSUME HealthInv, ever # <<>> PROVE HealthSeesWindow
    BY DEF HealthSeesWindow
  <1>1. score30.sum \in Int /\ score30.count \in Nat
        /\ score30 = Score(ever, ever[Len(ever)].made - ShortWindow)
    BY DEF HealthInv
  <1> QED
    BY <1>1, DriftCutsSizes DEF HealthSeesWindow

LEMMA HealthInitially == MonitorInit => HealthInv
  <1> SUFFICES ASSUME MonitorInit PROVE HealthInv
    OBVIOUS
  <1>1. /\ tick = 0 /\ ever = <<>> /\ records = <<>> /\ score30.sum = 0 /\ score30.count = 0
    BY DEF MonitorInit
  <1>2. 0 \in 0..Len(<<>>) /\ <<>> = SubSeq(<<>>, 0 + 1, Len(<<>>)) /\ 1..0 = {}
    OBVIOUS
  <1>3. \E d \in 0..Len(ever) :
          /\ records = SubSeq(ever, d + 1, Len(ever))
          /\ \A i \in 1..d : ever[i].made < tick - LongWindow
    BY <1>1, <1>2
  <1>4. ever \in Seq(Predictions) /\ 1..Len(ever) = {}
    BY <1>1
  <1> QED
    BY <1>1, <1>3, <1>4 DEF HealthInv

\* Popping from the front leaves an end; what went was made before the cutoff.
LEMMA PopsTheFront ==
  ASSUME NEW queue \in Seq(Predictions), NEW cutoff
  PROVE  \E k \in 0..Len(queue) :
            /\ PopOlder(queue, cutoff) = SubSeq(queue, k + 1, Len(queue))
            /\ \A i \in 1..k : queue[i].made < cutoff
  <1> DEFINE old == {n \in 1..Len(queue) : \A i \in 1..n : queue[i].made < cutoff}
  <1>1. Len(queue) \in Nat /\ old \in SUBSET (1..Len(queue))
    OBVIOUS
  <1>2. PopOlder(queue, cutoff) = SubSeq(queue, Cardinality(old) + 1, Len(queue))
    BY DEF PopOlder
  <1>3. PICK k \in 0..Len(queue) : old = 1..k /\ \A i \in 1..k : queue[i].made < cutoff
    <2>1. CASE old = {}
      <3>1. 0 \in 0..Len(queue) /\ old = 1..0
        BY <1>1, <2>1
      <3> QED
        BY <3>1
    <2>2. CASE old # {}
      <3> DEFINE k == Errs!Highest(old)
      <3>1. k \in old /\ \A y \in old : k >= y
        BY <1>1, <2>2, Errs!IntervalHasMax
      <3> HIDE DEF k
      <3>2. k \in 1..Len(queue) /\ \A i \in 1..k : queue[i].made < cutoff
        BY <3>1
      <3>3. \A n \in 1..k : n \in old
        BY <1>1, <3>2
      <3>4. old = 1..k
        BY <1>1, <3>1, <3>3
      <3> HIDE DEF old
      <3> QED
        BY <1>1, <3>2, <3>4
    <2> QED
      BY <2>1, <2>2
  <1>4. Cardinality(old) = k
    <2>1. k \in Int /\ 1 \in Int
      OBVIOUS
    <2>2. Cardinality(1..k) = IF 1 > k THEN 0 ELSE k - 1 + 1
      BY <2>1, FS_Interval
    <2>3. Cardinality(1..k) = k
      BY <1>1, <2>2
    <2> HIDE DEF old
    <2> QED
      BY <1>3, <2>3
  <1> QED
    BY <1>2, <1>3, <1>4

\* The end of an end is an end.
LEMMA EndOfEnd ==
  ASSUME NEW S, NEW all \in Seq(S), NEW d \in 0..Len(all), NEW end,
         end = SubSeq(all, d + 1, Len(all)), NEW k \in 0..Len(end)
  PROVE  /\ d + k \in 0..Len(all)
         /\ SubSeq(end, k + 1, Len(end)) = SubSeq(all, d + k + 1, Len(all))
  <1>1. /\ Len(all) \in Nat /\ d \in Nat /\ k \in Nat
    OBVIOUS
  <1>2. Len(end) = Len(all) - d /\ end \in Seq(S)
    BY <1>1
  <1>3. d + k \in 0..Len(all)
    BY <1>1, <1>2
  <1>4. \A i \in 1..Len(end) : end[i] = all[d + i]
    BY <1>1, <1>2
  <1> DEFINE a == SubSeq(end, k + 1, Len(end))
             b == SubSeq(all, d + k + 1, Len(all))
  <1>5. Len(a) = Len(all) - d - k /\ Len(b) = Len(all) - d - k
    BY <1>1, <1>2, <1>3
  <1>6. a \in Seq(S) /\ b \in Seq(S)
    BY <1>1, <1>2
  <1>7. \A i \in 1..Len(a) : a[i] = b[i]
    <2> SUFFICES ASSUME NEW i \in 1..Len(a) PROVE a[i] = b[i]
      OBVIOUS
    <2>1. i \in Nat /\ 1 <= i /\ i <= Len(all) - d - k
      BY <1>5
    <2>2. a[i] = end[k + i]
      BY <1>1, <1>2, <2>1
    <2>3. b[i] = all[d + k + i]
      BY <1>1, <2>1
    <2>4. k + i \in 1..Len(end) /\ d + (k + i) = d + k + i
      BY <1>1, <1>2, <2>1
    <2> QED
      BY <1>4, <2>2, <2>3, <2>4
  <1> HIDE DEF a, b
  <1>8. a = b
    BY <1>5, <1>6, <1>7
  <1> QED
    BY <1>3, <1>8 DEF a, b

LEMMA RecordKeepsHealth ==
  ASSUME HealthInv, NEW error \in Errors, NEW delay \in 0..MaxDelay,
         RecordPrediction(error, delay)
  PROVE  HealthInv'
  <1> DEFINE made == tick - delay
             new == [made |-> made, error |-> error]
             longer == Append(records, new)
             all == Append(ever, new)
             n == Len(ever)
  <1>1. /\ tick \in Nat /\ delay \in Nat /\ delay <= tick /\ delay <= MaxDelay /\ made \in Nat
        /\ {ShortWindow, LongWindow, MaxDelay} \subseteq Nat /\ ShortWindow + MaxDelay <= LongWindow
        /\ new \in Predictions /\ new.made = made
    <2>1. error \in Nat
      BY MonitoringAssumption
    <2> QED
      BY <2>1, MonitoringAssumption DEF RecordPrediction, HealthInv, Predictions
  <1>2. /\ ever' = all /\ tick' = tick
        /\ records' = PopOlder(longer, made - LongWindow)
        /\ score30' = Score(records', made - ShortWindow)
    BY DEF RecordPrediction
  <1> HIDE DEF new
  <1>3. /\ ever \in Seq(Predictions) /\ n \in Nat /\ all \in Seq(Predictions)
        /\ Len(all) = n + 1 /\ all[n + 1] = new /\ \A i \in 1..n : all[i] = ever[i]
    BY <1>1 DEF HealthInv
  <1>4. PICK d \in 0..n : /\ records = SubSeq(ever, d + 1, n)
                          /\ \A i \in 1..d : ever[i].made < tick - LongWindow
    BY DEF HealthInv
  <1> HIDE DEF all
  <1>5. /\ longer = SubSeq(all, d + 1, Len(all)) /\ longer \in Seq(Predictions)
        /\ Len(longer) = n - d + 1 /\ \A i \in 1..Len(longer) : longer[i] = all[d + i]
    <2>1. records \in Seq(Predictions) /\ Len(records) = n - d
          /\ \A i \in 1..Len(records) : records[i] = ever[d + i]
      BY <1>3, <1>4
    <2>2. longer \in Seq(Predictions) /\ Len(longer) = n - d + 1 /\ longer[n - d + 1] = new
          /\ \A i \in 1..(n - d) : longer[i] = ever[d + i]
      BY <1>1, <1>3, <2>1
    <2> HIDE DEF longer
    <2> DEFINE end == SubSeq(all, d + 1, Len(all))
    <2>3. end \in Seq(Predictions) /\ Len(end) = n - d + 1
          /\ \A i \in 1..(n - d + 1) : end[i] = all[d + i]
      BY <1>3
    <2>4. \A i \in 1..(n - d + 1) : longer[i] = end[i]
      <3> SUFFICES ASSUME NEW i \in 1..(n - d + 1) PROVE longer[i] = all[d + i]
        BY <2>3
      <3>1. CASE i = n - d + 1
        BY <1>3, <2>2, <3>1
      <3>2. CASE i \in 1..(n - d)
        <4>1. d + i \in 1..n
          BY <1>3, <3>2
        <4>2. all[d + i] = ever[d + i]
          BY <1>3, <4>1
        <4> QED
          BY <2>2, <3>2, <4>2
      <3> QED
        BY <1>3, <3>1, <3>2
    <2>5. Len(longer) = Len(end)
      BY <2>2, <2>3
    <2>6. \A i \in 1..Len(longer) : longer[i] = all[d + i]
      BY <2>2, <2>3, <2>4
    <2> HIDE DEF end
    <2>8. \A i \in 1..Len(longer) : longer[i] = end[i]
      BY <2>2, <2>4
    <2>7. longer = end
      BY <2>2, <2>3, <2>5, <2>8
    <2> QED
      BY <2>2, <2>6, <2>7 DEF end
  <1> HIDE DEF longer
  <1>6. PICK k \in 0..Len(longer) :
           /\ records' = SubSeq(longer, k + 1, Len(longer))
           /\ \A i \in 1..k : longer[i].made < made - LongWindow
    BY <1>2, <1>5, PopsTheFront
  <1>7. d + k \in 0..Len(all) /\ records' = SubSeq(all, d + k + 1, Len(all))
    <2>1. d \in 0..Len(all)
      BY <1>3
    <2> QED
      BY <1>3, <1>5, <1>6, <2>1, EndOfEnd
  <1>8. \A i \in 1..Len(all) : all[i].made \in Nat
    <2>1. \A x \in Predictions : x.made \in Nat
      BY DEF Predictions
    <2>2. \A i \in 1..Len(all) : all[i] \in Predictions
      BY <1>3
    <2> QED
      BY <2>1, <2>2
  <1>9. \A i \in 1..(d + k) : all[i].made < tick - LongWindow
    <2> DEFINE Early(i) == all[i].made < tick - LongWindow
    <2> SUFFICES ASSUME NEW i \in 1..(d + k) PROVE Early(i)
      OBVIOUS
    <2>1. CASE i \in 1..d
      <3>1. i \in 1..n
        BY <1>3, <2>1
      <3> QED
        BY <1>3, <1>4, <2>1, <3>1
    <2>2. CASE i \notin 1..d
      <3>1. i - d \in 1..k /\ i - d \in 1..Len(longer) /\ i \in 1..Len(all)
        BY <1>3, <1>6, <1>7, <2>2
      <3>2. longer[i - d] = all[i]
        <4>1. d + (i - d) = i
          BY <1>3
        <4> QED
          BY <1>5, <3>1, <4>1
      <3>3. all[i].made < made - LongWindow /\ all[i].made \in Nat
        BY <1>6, <1>8, <3>1, <3>2
      <3>4. made <= tick /\ {made, tick, LongWindow} \subseteq Int
        BY <1>1
      <3> HIDE DEF made
      <3> QED
        BY <3>3, <3>4
    <2> HIDE DEF Early
    <2> QED
      BY <2>1, <2>2
  <1>10. \A i \in 1..(d + k) : all[i].made < made - ShortWindow
    <2> SUFFICES ASSUME NEW i \in 1..(d + k) PROVE all[i].made < made - ShortWindow
      OBVIOUS
    <2>1. i \in 1..Len(all)
      <3>1. Len(all) \in Nat
        BY <1>3
      <3>2. d + k \in 0..Len(all)
        BY <1>7
      <3> HIDE DEF all
      <3> QED
        BY <3>1, <3>2
    <2>2. all[i].made \in Nat /\ all[i].made < tick - LongWindow
      BY <1>8, <1>9, <2>1
    <2> QED
      BY <1>1, <2>2
  <1>11. /\ Score(records', made - ShortWindow) = Score(all, made - ShortWindow)
         /\ score30' = Score(all, made - ShortWindow)
         /\ score30'.sum \in Int /\ score30'.count \in Nat
    <2> DEFINE end == records'
               cutoff == made - ShortWindow
               e == d + k
    <2>1. cutoff \in Int /\ e \in 0..Len(all) /\ end = SubSeq(all, e + 1, Len(all))
      BY <1>1, <1>7
    <2>2. \A i \in 1..e : all[i].made < cutoff
      BY <1>10
    <2>3. score30' = Score(end, cutoff)
      BY <1>2
    <2> HIDE DEF end, cutoff, e
    <2>4. all \in Seq(Predictions)
      BY <1>3
    <2>5. SameScore(end, all, cutoff)
      BY <2>1, <2>2, <2>4, ScoreOfEnd
    <2> QED
      BY <2>3, <2>5 DEF SameScore, end, cutoff
  <1>12. \A i \in 1..Len(all) : all[i].made <= tick
    <2> SUFFICES ASSUME NEW i \in 1..Len(all) PROVE all[i].made <= tick
      OBVIOUS
    <2>1. CASE i \in 1..n
      BY <1>3, <2>1 DEF HealthInv
    <2>2. CASE i = n + 1
      BY <1>1, <1>3, <2>2
    <2> QED
      BY <1>3, <2>1, <2>2
  <1>13. all[Len(all)].made = made
    BY <1>1, <1>3
  <1> HIDE DEF made
  <1> QED
    BY <1>1, <1>2, <1>3, <1>7, <1>9, <1>11, <1>12, <1>13 DEF HealthInv

LEMMA HealthAges ==
  ASSUME HealthInv, tick' = tick + 1, UNCHANGED <<records, score30, ever>>
  PROVE  HealthInv'
  <1>1. tick \in Nat /\ ever \in Seq(Predictions) /\ LongWindow \in Nat /\ Len(ever) \in Nat
    BY MonitoringAssumption DEF HealthInv
  <1>2. \A i \in 1..Len(ever) : ever[i].made \in Nat
    <2>1. \A x \in Predictions : x.made \in Nat
      BY DEF Predictions
    <2> QED
      BY <1>1, <2>1
  <1>3. PICK d \in 0..Len(ever) : /\ records = SubSeq(ever, d + 1, Len(ever))
                                  /\ \A i \in 1..d : ever[i].made < tick - LongWindow
    BY DEF HealthInv
  <1>4. \A i \in 1..d : ever[i].made < tick' - LongWindow
    <2> SUFFICES ASSUME NEW i \in 1..d PROVE ever[i].made < tick' - LongWindow
      OBVIOUS
    <2>1. i \in 1..Len(ever)
      BY <1>1
    <2>2. ever[i].made \in Nat /\ ever[i].made < tick - LongWindow
      BY <1>2, <1>3, <2>1
    <2> QED
      BY <1>1, <2>2
  <1>5. \A i \in 1..Len(ever) : ever[i].made <= tick'
    <2> SUFFICES ASSUME NEW i \in 1..Len(ever) PROVE ever[i].made <= tick'
      OBVIOUS
    <2>1. ever[i].made \in Nat /\ ever[i].made <= tick
      BY <1>2 DEF HealthInv
    <2> QED
      BY <1>1, <2>1
  <1>6. \E e \in 0..Len(ever) : /\ records = SubSeq(ever, e + 1, Len(ever))
                                 /\ \A i \in 1..e : ever[i].made < tick' - LongWindow
    BY <1>3, <1>4
  <1>7. tick' \in Nat
    BY <1>1
  <1> QED
    BY <1>5, <1>6, <1>7 DEF HealthInv

MonitorsInv == AlertsInv /\ HealthInv

LEMMA MonitorStep == MonitorsInv /\ [AlertsNext \/ HealthNext]_monitorVars => MonitorsInv'
  <1> SUFFICES ASSUME MonitorsInv, [AlertsNext \/ HealthNext]_monitorVars PROVE MonitorsInv'
    OBVIOUS
  <1>1. ASSUME NEW c \in Categories, SendAlert(c) PROVE MonitorsInv'
    <2>1. UNCHANGED <<tick, records, score30, ever>>
      BY <1>1 DEF SendAlert
    <2> QED
      BY <1>1, <2>1, SendKeepsSpacing DEF MonitorsInv, HealthInv
  <1>2. ASSUME NEW e \in Errors, NEW d \in 0..MaxDelay, RecordPrediction(e, d) PROVE MonitorsInv'
    <2>1. UNCHANGED <<tick, lastSent, asked, sent>>
      BY <1>2 DEF RecordPrediction
    <2> QED
      BY <1>2, <2>1, RecordKeepsHealth DEF MonitorsInv, AlertsInv, AlertsSpaced
  <1>3. CASE MonitorTick
    <2>1. tick' = tick + 1 /\ UNCHANGED <<lastSent, asked, sent, records, score30, ever>>
      BY <1>3 DEF MonitorTick
    <2>2. HealthInv'
      BY <2>1, HealthAges DEF MonitorsInv
    <2>3. tick' \in Nat /\ \A m \in Nat : m <= tick => m <= tick'
      BY <2>1 DEF MonitorsInv, AlertsInv
    <2>4. \A c \in Categories : \A i \in 1..Len(sent[c]) : sent[c][i] <= tick'
      <3> SUFFICES ASSUME NEW c \in Categories, NEW i \in 1..Len(sent[c]) PROVE sent[c][i] <= tick'
        OBVIOUS
      <3>1. sent[c] \in Seq(Nat) /\ sent[c][i] <= tick
        BY DEF MonitorsInv, AlertsInv
      <3>2. sent[c][i] \in Nat
        BY <3>1
      <3> QED
        BY <2>3, <3>1, <3>2
    <2>5. AlertsInv'
      BY <2>1, <2>3, <2>4 DEF MonitorsInv, AlertsInv, AlertsSpaced
    <2> QED
      BY <2>2, <2>5 DEF MonitorsInv
  <1>4. CASE UNCHANGED monitorVars
    BY <1>4 DEF monitorVars, MonitorsInv, AlertsInv, AlertsSpaced, HealthInv
  <1> QED
    BY <1>1, <1>2, <1>3, <1>4 DEF AlertsNext, HealthNext

(***************************************************************************)
(* The metrics                                                             *)
(***************************************************************************)
TotalOf(booked) == MapThenSumSet(LAMBDA k : booked[k], Kinds)

MetricsInv ==
  /\ pnlByType \in [Kinds -> Int] /\ currentEquity \in Int /\ peakEquity \in Int
  /\ executionReports \in Seq(Int) /\ equities \in Seq(Int) /\ equities # <<>>
  /\ equities[Len(equities)] = currentEquity
  /\ \E i \in 1..Len(equities) : peakEquity = equities[i]
  /\ \A i \in 1..Len(equities) : equities[i] <= peakEquity
  /\ currentEquity = StartingEquity + TotalOf(pnlByType)
  /\ Len(executionReports) <= MaxReports
  /\ Len(executionReports) = MaxReports \/ Len(executionReports) = Len(equities) - 1
  /\ Len(executionReports) <= Len(equities) - 1

\* The total as a sum of a function.
LEMMA TotalIsSum ==
  ASSUME NEW booked \in [Kinds -> Int]
  PROVE  /\ ByKind!AddsUp(booked, Kinds, booked)
         /\ TotalOf(booked) = ByKind!Total(booked, Kinds)
  <1>1. ByKind!Adds(booked, Kinds, booked)
    BY DEF ByKind!Adds, AddPnl
  <1>2. ByKind!AddsUp(booked, Kinds, booked)
    BY <1>1, MetricsAssumption DEF ByKind!AddsUp, IsFiniteSet, ByKind!IsFiniteSet
  <1>3. TotalOf(booked) = ByKind!Total(booked, Kinds)
    BY DEF TotalOf, MapThenSumSet, MapThenFoldSet, AnyOf, ByKind!Total, ByKind!Fold, ByKind!Equation,
       AddPnl
  <1> QED
    BY <1>2, <1>3

Gained(booked, more, edge) == TotalOf(more) = TotalOf(booked) + edge /\ TotalOf(booked) \in Int

LEMMA TotalGrows ==
  ASSUME NEW booked \in [Kinds -> Int], NEW more \in [Kinds -> Int],
         NEW k \in Kinds, NEW edge \in Int,
         more[k] = booked[k] + edge, \A j \in Kinds \ {k} : more[j] = booked[j]
  PROVE  Gained(booked, more, edge)
  <1> DEFINE rest == Kinds \ {k}
  <1>1. /\ more \in [Kinds -> Int] /\ more[k] = booked[k] + edge
        /\ \A j \in rest : more[j] = booked[j]
    OBVIOUS
  <1>2. ByKind!AddsUp(booked, Kinds, booked) /\ ByKind!AddsUp(more, Kinds, more)
    BY <1>1, TotalIsSum
  <1>3. k \notin rest /\ Kinds = rest \cup {k}
    OBVIOUS
  <1>4. ByKind!AddsUp(booked, rest, booked) /\ ByKind!AddsUp(more, rest, more)
    <2>1. IsFiniteSet(rest)
      BY MetricsAssumption, FS_Subset
    <2> QED
      BY <1>2, <2>1 DEF ByKind!AddsUp, ByKind!Adds, IsFiniteSet, ByKind!IsFiniteSet
  <1> HIDE DEF rest
  <1>5. ByKind!Total(booked, Kinds) = booked[k] + ByKind!Total(booked, rest)
    <2>1. ByKind!AddsUp(booked, Kinds, booked)
      BY <1>2
    <2> QED
      BY <2>1, <1>3, AnyOfIn, ByKind!TotalAdds
  <1>6. ByKind!Total(more, Kinds) = more[k] + ByKind!Total(more, rest)
    <2>1. ByKind!AddsUp(more, Kinds, more)
      BY <1>2
    <2> QED
      BY <2>1, <1>3, AnyOfIn, ByKind!TotalAdds
  <1>7. ByKind!Total(more, rest) = ByKind!Total(booked, rest) /\ ByKind!Total(booked, rest) \in Int
    <2>1. ByKind!Total(more, rest) = ByKind!Total(booked, rest)
      <3>1. ByKind!AddsUp(more, rest, more)
        BY <1>4
      <3>2. ByKind!AddsUp(booked, rest, booked)
        BY <1>4
      <3>3. \A j \in rest : more[j] = booked[j]
        BY <1>1
      <3> QED
        BY <3>1, <3>2, <3>3, AnyOfIn, ByKind!TotalSame
    <2>2. ByKind!Total(booked, rest) \in Int
      BY <1>4, AnyOfIn, ByKind!TotalType
    <2> QED
      BY <2>1, <2>2
  <1>8. booked[k] \in Int
    OBVIOUS
  <1>9. ByKind!Total(more, Kinds) = ByKind!Total(booked, Kinds) + edge
        /\ ByKind!Total(booked, Kinds) \in Int
    <2> DEFINE all == ByKind!Total(booked, Kinds)
               after == ByKind!Total(more, Kinds)
               besides == ByKind!Total(booked, rest)
               new == more[k]
               old == booked[k]
    <2>1. /\ all = old + besides /\ after = new + besides /\ new = old + edge
          /\ old \in Int /\ besides \in Int
      BY <1>1, <1>5, <1>6, <1>7, <1>8
    <2> HIDE DEF all, after, besides, new, old
    <2>2. after = all + edge /\ all \in Int
      BY <2>1
    <2> QED
      BY <2>2 DEF all, after
  <1>10. TotalOf(booked) = ByKind!Total(booked, Kinds)
    BY TotalIsSum
  <1>11. TotalOf(more) = ByKind!Total(more, Kinds)
    BY <1>1, TotalIsSum
  <1> QED
    BY <1>9, <1>10, <1>11 DEF Gained

\* Nothing adds up to nothing.
LEMMA NothingTotal ==
  ASSUME NEW booked, booked = [k \in Kinds |-> 0]
  PROVE  TotalOf(booked) = 0
  <1>1. booked \in [Kinds -> Int] /\ \A k \in Kinds : booked[k] = 0
    OBVIOUS
  <1>2. ByKind!AddsUp(booked, Kinds, booked) /\ TotalOf(booked) = ByKind!Total(booked, Kinds)
    BY <1>1, TotalIsSum
  <1>3. ByKind!Total(booked, Kinds) = 0
    BY <1>1, <1>2, AnyOfIn, ByKind!TotalOfNaughts
  <1> QED
    BY <1>2, <1>3

LEMMA MetricsInitially == MetricsInit => MetricsInv
  <1> SUFFICES ASSUME MetricsInit PROVE MetricsInv
    OBVIOUS
  <1>1. /\ pnlByType = [k \in Kinds |-> 0] /\ peakEquity = StartingEquity
        /\ currentEquity = StartingEquity /\ executionReports = <<>>
        /\ equities = <<StartingEquity>> /\ StartingEquity \in Int /\ MaxReports \in Nat
    BY MetricsAssumption DEF MetricsInit
  <1>2. TotalOf(pnlByType) = 0
    <2>1. pnlByType \in [Kinds -> Int]
      BY <1>1
    <2> QED
      BY <1>1, <2>1, NothingTotal
  <1>3. Len(equities) = 1 /\ equities[1] = StartingEquity /\ equities \in Seq(Int)
    BY <1>1
  <1> QED
    BY <1>1, <1>2, <1>3 DEF MetricsInv

LEMMA MetricsStep == MetricsInv /\ [MetricsNext]_metricsVars => MetricsInv'
  <1> SUFFICES ASSUME MetricsInv, [MetricsNext]_metricsVars PROVE MetricsInv'
    OBVIOUS
  <1> DEFINE n == Len(equities)
             count == Len(executionReports)
  <1>0. /\ pnlByType \in [Kinds -> Int] /\ currentEquity \in Int /\ peakEquity \in Int
        /\ n \in Nat /\ n >= 1 /\ count \in Nat
        /\ executionReports \in Seq(Int) /\ equities \in Seq(Int)
        /\ \A i \in 1..n : equities[i] \in Int
        /\ MaxReports \in Nat /\ MaxReports > 0 /\ StartingEquity \in Int
    <2>1. /\ pnlByType \in [Kinds -> Int] /\ currentEquity \in Int /\ peakEquity \in Int
          /\ executionReports \in Seq(Int) /\ equities \in Seq(Int) /\ equities # <<>>
      BY DEF MetricsInv
    <2>2. MaxReports \in Nat /\ MaxReports > 0 /\ StartingEquity \in Int
      BY MetricsAssumption
    <2>3. n \in Nat /\ n >= 1 /\ count \in Nat
      BY <2>1
    <2>4. \A i \in 1..n : equities[i] \in Int
      BY <2>1
    <2> QED
      BY <2>1, <2>2, <2>3, <2>4
  <1>1. ASSUME NEW k \in Kinds, NEW edge \in Realized, NEW open \in 0..MaxOpen,
               RecordReport(k, edge, open)
        PROVE  MetricsInv'
    <2> DEFINE equity == currentEquity + edge
    <2>1. edge \in Int /\ equity \in Int
      BY <1>0, MetricsAssumption
    <2>2. /\ pnlByType' = [pnlByType EXCEPT ![k] = @ + edge]
          /\ currentEquity' = equity
          /\ peakEquity' = IF equity > peakEquity THEN equity ELSE peakEquity
          /\ executionReports' = Append(IF count >= MaxReports THEN Tail(executionReports)
                                        ELSE executionReports, edge)
          /\ equities' = Append(equities, equity)
      <3>1. currentEquity' = equity /\ pnlByType' = [pnlByType EXCEPT ![k] = @ + edge]
        BY <1>1 DEF RecordReport
      <3>2. peakEquity' = NewPeak(currentEquity') /\ equities' = Append(equities, currentEquity')
        BY <1>1 DEF RecordReport
      <3>3. executionReports' = Append(IF count >= MaxReports THEN Tail(executionReports)
                                       ELSE executionReports, edge)
        BY <1>1 DEF RecordReport
      <3>4. peakEquity' = IF currentEquity' > peakEquity THEN currentEquity' ELSE peakEquity
        BY <3>2 DEF NewPeak
      <3> QED
        BY <3>1, <3>2, <3>3, <3>4
    <2> HIDE DEF equity
    <2>3. /\ pnlByType' \in [Kinds -> Int]
          /\ TotalOf(pnlByType)' = TotalOf(pnlByType) + edge
          /\ TotalOf(pnlByType) \in Int
      <3>1. pnlByType' \in [Kinds -> Int]
        BY <1>0, <2>1, <2>2
      <3>2. /\ pnlByType'[k] = pnlByType[k] + edge
            /\ \A j \in Kinds \ {k} : pnlByType'[j] = pnlByType[j]
        BY <1>0, <2>1, <2>2
      <3>3. Gained(pnlByType, pnlByType', edge)
        BY <1>0, <2>1, <3>1, <3>2, TotalGrows
      <3> QED
        BY <3>1, <3>3 DEF Gained
    <2>4. currentEquity' = StartingEquity + TotalOf(pnlByType)'
      <3>1. currentEquity = StartingEquity + TotalOf(pnlByType)
        BY DEF MetricsInv
      <3>2. currentEquity' = currentEquity + edge
        BY <2>2 DEF equity
      <3> QED
        BY <1>0, <2>1, <2>3, <3>1, <3>2
    <2>5. /\ equities' \in Seq(Int) /\ Len(equities') = n + 1 /\ equities'[n + 1] = equity
          /\ \A i \in 1..n : equities'[i] = equities[i]
          /\ equities' # <<>>
      <3>1. equities' = Append(equities, equity) /\ equities \in Seq(Int) /\ equity \in Int
        BY <1>0, <2>1, <2>2
      <3>2. equities' \in Seq(Int) /\ Len(equities') = n + 1
        BY <3>1
      <3>3. equities'[n + 1] = equity
        BY <3>1
      <3>4. \A i \in 1..n : equities'[i] = equities[i]
        BY <3>1
      <3>5. equities' # <<>>
        BY <1>0, <3>2
      <3> QED
        BY <3>2, <3>3, <3>4, <3>5
    <2>6. /\ executionReports' \in Seq(Int)
          /\ Len(executionReports') = IF count >= MaxReports THEN count ELSE count + 1
      <3>1. CASE count >= MaxReports
        <4>1. executionReports # <<>>
          BY <1>0, <3>1
        <4>2. Tail(executionReports) \in Seq(Int) /\ Len(Tail(executionReports)) = count - 1
          BY <1>0, <4>1
        <4> DEFINE later == Tail(executionReports)
        <4>3. executionReports' = Append(later, edge)
          BY <2>2, <3>1
        <4>4. later \in Seq(Int) /\ Len(later) = count - 1
          BY <4>2
        <4> HIDE DEF later, count
        <4> QED
          BY <1>0, <2>1, <3>1, <4>3, <4>4
      <3>2. CASE ~(count >= MaxReports)
        <4>1. executionReports' = Append(executionReports, edge)
          BY <2>2, <3>2
        <4>2. Len(executionReports) = count
          OBVIOUS
        <4> HIDE DEF count
        <4> QED
          BY <1>0, <2>1, <3>2, <4>1, <4>2
      <3> QED
        BY <3>1, <3>2
    <2>7. /\ \E i \in 1..(n + 1) : peakEquity' = equities'[i]
          /\ \A i \in 1..(n + 1) : equities'[i] <= peakEquity'
      <3>1. PICK p \in 1..n : peakEquity = equities[p]
        BY DEF MetricsInv
      <3>2. \A i \in 1..n : equities[i] <= peakEquity
        BY DEF MetricsInv
      <3>3. CASE equity > peakEquity
        <4>1. peakEquity' = equities'[n + 1] /\ n + 1 \in 1..(n + 1)
          BY <1>0, <2>2, <2>5, <3>3
        <4>2. \A i \in 1..(n + 1) : equities'[i] <= peakEquity'
          <5> SUFFICES ASSUME NEW i \in 1..(n + 1) PROVE equities'[i] <= peakEquity'
            OBVIOUS
          <5>1. CASE i \in 1..n
            <6>1. equities'[i] = equities[i] /\ equities[i] <= peakEquity
              BY <2>5, <3>2, <5>1
            <6>2. equities[i] \in Int /\ peakEquity \in Int
              BY <1>0, <5>1
            <6>3. peakEquity' = equity
              BY <2>2, <3>3
            <6> QED
              BY <2>1, <3>3, <6>1, <6>2, <6>3
          <5>2. CASE i = n + 1
            BY <2>1, <2>2, <2>5, <3>3, <5>2
          <5> QED
            BY <1>0, <5>1, <5>2
        <4> QED
          BY <4>1, <4>2
      <3>4. CASE ~(equity > peakEquity)
        <4>1. peakEquity' = equities'[p] /\ p \in 1..(n + 1)
          BY <1>0, <2>2, <2>5, <3>1, <3>4
        <4>2. \A i \in 1..(n + 1) : equities'[i] <= peakEquity'
          <5> SUFFICES ASSUME NEW i \in 1..(n + 1) PROVE equities'[i] <= peakEquity'
            OBVIOUS
          <5>1. CASE i \in 1..n
            <6>1. equities'[i] = equities[i] /\ equities[i] <= peakEquity
              BY <2>5, <3>2, <5>1
            <6>2. peakEquity' = peakEquity
              BY <2>2, <3>4
            <6> QED
              BY <6>1, <6>2
          <5>2. CASE i = n + 1
            BY <1>0, <2>1, <2>2, <2>5, <3>4, <5>2
          <5> QED
            BY <1>0, <5>1, <5>2
        <4> QED
          BY <4>1, <4>2
      <3> QED
        BY <3>3, <3>4
    <2>8. /\ count <= MaxReports /\ (count = MaxReports \/ count = n - 1) /\ count <= n - 1
      BY DEF MetricsInv
    <2>9. peakEquity' \in Int
      BY <1>0, <2>1, <2>2
    <2>10. /\ Len(executionReports') <= MaxReports
           /\ Len(executionReports') = MaxReports \/ Len(executionReports') = Len(equities') - 1
           /\ Len(executionReports') <= Len(equities') - 1
      BY <1>0, <2>5, <2>6, <2>8
    <2>11. currentEquity' \in Int /\ equities'[Len(equities')] = currentEquity'
      BY <2>1, <2>2, <2>5
    <2> QED
      BY <2>3, <2>4, <2>5, <2>6, <2>7, <2>9, <2>10, <2>11 DEF MetricsInv
  <1>2. CASE UNCHANGED metricsVars
    <2>1. /\ pnlByType' = pnlByType /\ currentEquity' = currentEquity
          /\ peakEquity' = peakEquity /\ equities' = equities
          /\ executionReports' = executionReports
      BY <1>2 DEF metricsVars
    <2> QED
      BY <2>1 DEF MetricsInv
  <1> QED
    BY <1>1, <1>2 DEF MetricsNext

LEMMA MetricsSound == MetricsInv => DrawdownFromPeak
  <1> SUFFICES ASSUME MetricsInv PROVE DrawdownFromPeak
    OBVIOUS
  <1> DEFINE S == {equities[i] : i \in 1..Len(equities)}
             T == {MaxReports, Len(equities) - 1}
  <1>1. /\ currentEquity \in Int /\ peakEquity \in Int /\ equities \in Seq(Int)
        /\ Len(equities) \in Nat /\ Len(executionReports) \in Nat /\ MaxReports \in Nat
    <2>1. /\ currentEquity \in Int /\ peakEquity \in Int /\ equities \in Seq(Int)
          /\ executionReports \in Seq(Int)
      BY DEF MetricsInv
    <2> QED
      BY <2>1, MetricsAssumption
  <1>2. peakEquity \in S /\ (\A y \in S : peakEquity >= y) /\ S \in SUBSET Int
    <2>1. \A i \in 1..Len(equities) : equities[i] \in Int
      BY <1>1
    <2>2. \A i \in 1..Len(equities) : equities[i] <= peakEquity
      BY DEF MetricsInv
    <2>3. \E i \in 1..Len(equities) : peakEquity = equities[i]
      BY DEF MetricsInv
    <2> QED
      BY <1>1, <2>1, <2>2, <2>3
  <1>3. \A x \in S : (\A y \in S : x >= y) => x = peakEquity
    <2> HIDE DEF S
    <2> SUFFICES ASSUME NEW x \in S, \A y \in S : x >= y PROVE x = peakEquity
      OBVIOUS
    <2>1. x \in Int /\ x >= peakEquity /\ peakEquity >= x
      BY <1>2
    <2> QED
      BY <1>1, <2>1
  <1>4. Max(S) = peakEquity
    <2> HIDE DEF S
    <2> QED
      BY <1>2, <1>3 DEF Max
  <1>5. /\ Len(executionReports) \in T
        /\ \A y \in T : Len(executionReports) <= y
    BY <1>1 DEF MetricsInv
  <1>6. \A x \in T : (\A y \in T : x <= y) => x = Len(executionReports)
    BY <1>1, <1>5
  <1>7. Min(T) = TradeCount
    <2> HIDE DEF T
    <2> QED
      BY <1>5, <1>6 DEF Min, TradeCount
  <1>8. currentEquity <= peakEquity
    BY <1>1, <1>2 DEF MetricsInv
  <1>9. Drawdown = IF peakEquity <= 0 THEN 0 ELSE peakEquity - currentEquity
    BY <1>1, <1>8 DEF Drawdown
  <1> QED
    BY <1>4, <1>7, <1>9 DEF DrawdownFromPeak, MetricsInv, TotalPnl, TotalOf

(***************************************************************************)
(* The first load of the markets                                           *)
(***************************************************************************)
Stages == {"waiting", "inflight", "got", "failed"}
InFlight == {t \in DOMAIN task : task[t] = "inflight"}

\* The convertible markets of the list that the pages read so far went past.
Passed == {list[i] : i \in {j \in 1..Len(list) : j <= offset /\ Convertible(list[j])}}
Missed == Passed \ cached

\* Each market that leaves the list lets one other slip past the pages, at most.
LoadTypes ==
  /\ list \in Seq(AllListed) /\ \A i, j \in 1..Len(list) : list[i] = list[j] => i = j
  /\ IsFiniteSet(delisted) /\ \A i \in 1..Len(list) : list[i] \notin delisted
  /\ offset \in Nat /\ cached \in SUBSET AllListed /\ permits \in Int
  /\ IsFiniteSet(DOMAIN task) /\ task \in [DOMAIN task -> Stages]

LoadInv ==
  /\ LoadTypes
  /\ (loadPc # "page" /\ cached = {}) \/ Cardinality(Missed) <= Cardinality(delisted)
  /\ loadPc # "page" => cached = {} \/ Len(list) <= offset
  /\ loadPc = "page" => DOMAIN task = {}
  /\ permits + Cardinality(InFlight) = MaxConcurrent
  /\ loadPc = "done" => \A t \in DOMAIN task : FetchEnded(t)
  /\ \A m \in AllListed :
        IsInjective(placed[m]) /\ ToSet(placed[m]) \subseteq ToSet(TokensOf[m])

LEMMA ToSetFinite ==
  ASSUME NEW S, NEW seq \in Seq(S)
  PROVE  IsFiniteSet(ToSet(seq)) /\ ToSet(seq) = {seq[i] : i \in 1..Len(seq)}
  <1>1. DOMAIN seq = 1..Len(seq) /\ Len(seq) \in Nat
    OBVIOUS
  <1>2. IsFiniteSet(1..Len(seq))
    BY <1>1, FS_Interval
  <1> DEFINE D == 1..Len(seq)
             R == {seq[i] : i \in D}
             f == [i \in D |-> seq[i]]
  <1>3. ToSet(seq) = R
    BY <1>1 DEF ToSet
  <1>4. f \in Surjection(D, R)
    BY DEF Surjection
  <1>5. IsFiniteSet(D)
    BY <1>2
  <1> HIDE DEF D, R, f
  <1>6. IsFiniteSet(R)
    BY <1>4, <1>5, FS_Surjection
  <1> QED
    BY <1>3, <1>6 DEF R, D

LEMMA TokensFinite ==
  ASSUME NEW markets \in SUBSET AllListed
  PROVE  IsFiniteSet(TokensIn(markets))
  <1> DEFINE M == {n \in markets : Classified(n)}
             f == [m \in M |-> ToSet(TokensOf[m])]
             R == {ToSet(TokensOf[m]) : m \in M}
  <1>1. IsFiniteSet(AllListed)
    BY LoadAssumption, ToSetFinite DEF AllListed
  <1>2. M \in SUBSET AllListed /\ TokensIn(markets) = UNION R
    BY DEF TokensIn
  <1>3. \A r \in R : IsFiniteSet(r)
    <2> SUFFICES ASSUME NEW m \in M PROVE IsFiniteSet(ToSet(TokensOf[m]))
      OBVIOUS
    <2>1. TokensOf[m] \in Seq(ToSet(TokensOf[m]))
      BY <1>2, LoadAssumption DEF AllListed
    <2> QED
      BY <2>1, ToSetFinite
  <1>4. f \in Surjection(M, R)
    BY DEF Surjection
  <1> HIDE DEF M, f, R
  <1>5. IsFiniteSet(M)
    BY <1>1, <1>2, FS_Subset
  <1>6. IsFiniteSet(R)
    BY <1>4, <1>5, FS_Surjection
  <1> QED
    BY <1>2, <1>3, <1>6, FS_UNION

LEMMA PassedFinite == LoadTypes => IsFiniteSet(Passed) /\ IsFiniteSet(Missed)
  <1> SUFFICES ASSUME LoadTypes PROVE IsFiniteSet(Passed) /\ IsFiniteSet(Missed)
    OBVIOUS
  <1>1. IsFiniteSet(ToSet(list)) /\ ToSet(list) = {list[i] : i \in 1..Len(list)}
    BY ToSetFinite DEF LoadTypes
  <1>2. Passed \in SUBSET ToSet(list) /\ Missed \in SUBSET ToSet(list)
    BY <1>1 DEF Passed, Missed
  <1> QED
    BY <1>1, <1>2, FS_Subset

LEMMA LoadSoundness == LoadInv => LoadSound
  <1> SUFFICES ASSUME LoadInv PROVE LoadSound
    OBVIOUS
  <1> DEFINE stayed == {m \in ToSet(list) : Convertible(m)}
  <1>1. LoadTypes /\ ToSet(list) = {list[i] : i \in 1..Len(list)}
    BY ToSetFinite DEF LoadInv, LoadTypes
  <1>2. loadPc # "page" /\ cached # {} => stayed = Passed
    <2> SUFFICES ASSUME loadPc # "page", cached # {} PROVE stayed = Passed
      OBVIOUS
    <2>1. Len(list) <= offset /\ Len(list) \in Nat /\ offset \in Nat
      BY DEF LoadInv, LoadTypes
    <2>2. \A i \in 1..Len(list) : i <= offset
      BY <2>1
    <2> QED
      BY <1>1, <2>2 DEF Passed
  <1>3. loadPc # "page" => cached = {} \/ Cardinality(stayed \ cached) <= Cardinality(delisted)
    BY <1>2 DEF LoadInv, Missed
  <1>4. loadPc = "done" => permits = MaxConcurrent
    <2> SUFFICES ASSUME loadPc = "done" PROVE permits = MaxConcurrent
      OBVIOUS
    <2>1. InFlight = {} /\ permits \in Int
      BY DEF LoadInv, LoadTypes, InFlight, FetchEnded
    <2> QED
      BY <2>1, FS_EmptySet DEF LoadInv
  <1> QED
    BY <1>3, <1>4 DEF LoadInv, LoadSound, InFlight

LEMMA LoadInitially == LoadInit => LoadInv
  <1> SUFFICES ASSUME LoadInit PROVE LoadInv
    OBVIOUS
  <1>1. list \in Seq(AllListed) /\ \A i, j \in 1..Len(list) : list[i] = list[j] => i = j
    BY LoadAssumption DEF LoadInit, AllListed, IsInjective
  <1>2. delisted = {} /\ IsFiniteSet({}) /\ Cardinality({}) = 0
    BY FS_EmptySet DEF LoadInit
  <1>3. task = << >> /\ DOMAIN task = {} /\ task \in [DOMAIN task -> Stages]
    BY DEF LoadInit
  <1>4. offset = 0 /\ cached = {} /\ loadPc = "page" /\ permits = MaxConcurrent
        /\ MaxConcurrent \in Nat
    BY LoadAssumption DEF LoadInit
  <1>5. LoadTypes
    BY <1>1, <1>2, <1>3, <1>4 DEF LoadTypes
  <1>6. Passed = {} /\ Missed = {}
    BY <1>4 DEF Passed, Missed
  <1>7. InFlight = {}
    BY <1>3 DEF InFlight
  <1>8. \A m \in AllListed : IsInjective(placed[m]) /\ ToSet(placed[m]) \subseteq ToSet(TokensOf[m])
    BY DEF LoadInit, IsInjective, ToSet
  <1> QED
    BY <1>2, <1>3, <1>4, <1>5, <1>6, <1>7, <1>8 DEF LoadInv

\* Fetches that all wait hold no permit.
LEMMA StartsWaiting ==
  ASSUME LoadInv, loadPc = "page", NEW markets \in SUBSET AllListed, StartFetch(markets),
         permits' = permits
  PROVE  /\ IsFiniteSet(DOMAIN task') /\ task' \in [DOMAIN task' -> Stages]
         /\ InFlight' = {} /\ permits' + Cardinality(InFlight') = MaxConcurrent
         /\ permits' \in Int
  <1>1. PICK tokens \in SUBSET TokensIn(markets) : task' = [t \in tokens |-> "waiting"]
    BY DEF StartFetch
  <1>2. IsFiniteSet(tokens)
    BY TokensFinite, FS_Subset
  <1>3. InFlight = {} /\ InFlight' = {}
    BY <1>1 DEF LoadInv, InFlight
  <1> QED
    BY <1>1, <1>2, <1>3 DEF LoadInv, LoadTypes, Stages

LEMMA DelistKeepsLoad ==
  ASSUME LoadInv, NEW q \in DOMAIN list, Delist(q)
  PROVE  LoadInv'
  <1> DEFINE n == Len(list)
  <1>1. LoadTypes /\ list \in Seq(AllListed) /\ n \in Nat /\ q \in 1..n /\ offset \in Nat
    BY DEF LoadInv, LoadTypes
  <1>2. /\ loadPc = "page" /\ list' = RemoveAt(list, q) /\ delisted' = delisted \cup {list[q]}
        /\ UNCHANGED <<loadPc, offset, cached, task, permits, placed>>
    BY DEF Delist
  <1>3. /\ list' \in Seq(AllListed) /\ Len(list') = n - 1
        /\ \A i \in 1..(n - 1) : list'[i] = IF i < q THEN list[i] ELSE list[i + 1]
    <2> DEFINE a == SubSeq(list, 1, q - 1)
               b == SubSeq(list, q + 1, n)
    <2>1. a \in Seq(AllListed) /\ Len(a) = q - 1 /\ \A i \in 1..(q - 1) : a[i] = list[i]
      BY <1>1
    <2>2. b \in Seq(AllListed) /\ Len(b) = n - q /\ \A i \in 1..(n - q) : b[i] = list[q + i]
      BY <1>1
    <2>3. list' = a \o b
      BY <1>2 DEF RemoveAt
    <2> HIDE DEF a, b, n
    <2>6. a \o b \in Seq(AllListed) /\ Len(a \o b) = Len(a) + Len(b)
      BY <2>1, <2>2
    <2>4. list' \in Seq(AllListed) /\ Len(list') = n - 1
      BY <1>1, <2>1, <2>2, <2>3, <2>6
    <2>5. \A i \in 1..(n - 1) : list'[i] = IF i < q THEN list[i] ELSE list[i + 1]
      <3> SUFFICES ASSUME NEW i \in 1..(n - 1)
                   PROVE  list'[i] = IF i < q THEN list[i] ELSE list[i + 1]
        OBVIOUS
      <3>1. CASE i < q
        <4>1. i \in 1..(q - 1) /\ i \in 1..Len(a)
          BY <1>1, <2>1, <3>1
        <4> QED
          BY <2>1, <2>2, <2>3, <3>1, <4>1
      <3>2. CASE ~(i < q)
        <4>1. i - (q - 1) \in 1..(n - q) /\ q + (i - (q - 1)) = i + 1 /\ i \in 1..(Len(a) + Len(b))
              /\ ~(i <= Len(a)) /\ i - Len(a) = i - (q - 1)
          <5> DEFINE la == Len(a)
                     lb == Len(b)
          <5>1. q \in Int /\ i \in Int /\ n \in Int /\ q >= 1 /\ q <= n /\ i <= n - 1 /\ i >= q
                /\ la = q - 1 /\ lb = n - q
            BY <1>1, <2>1, <2>2, <3>2
          <5> HIDE DEF la, lb
          <5>2. i - (q - 1) \in 1..(n - q) /\ q + (i - (q - 1)) = i + 1
            BY <5>1
          <5>3. i \in 1..(la + lb) /\ ~(i <= la) /\ i - la = i - (q - 1)
            BY <5>1
          <5> QED
            BY <5>2, <5>3 DEF la, lb
        <4>2. list'[i] = b[i - (q - 1)]
          BY <2>1, <2>2, <2>3, <4>1
        <4> QED
          BY <2>2, <3>2, <4>1, <4>2
      <3> QED
        BY <3>1, <3>2
    <2> QED
      BY <2>4, <2>5
  <1> HIDE DEF n
  <1> DEFINE from(i) == IF i < q THEN i ELSE i + 1
  <1>4. \A i \in 1..(n - 1) : /\ from(i) \in 1..n /\ list'[i] = list[from(i)] /\ from(i) # q
                              /\ i <= offset => from(i) <= offset + 1
    BY <1>1, <1>3
  <1>5. \A i, j \in 1..(n - 1) : from(i) = from(j) => i = j
    BY <1>1
  <1> HIDE DEF from
  <1>6. \A i, j \in 1..n : list[i] = list[j] => i = j
    BY DEF LoadInv, LoadTypes, n
  <1>7. \A i, j \in 1..Len(list') : list'[i] = list'[j] => i = j
    BY <1>3, <1>4, <1>5, <1>6, SMTT(30)
  <1>8. \A i \in 1..Len(list') : list'[i] \notin delisted'
    <2> SUFFICES ASSUME NEW i \in 1..(n - 1) PROVE list'[i] \notin delisted'
      BY <1>3
    <2>1. list[from(i)] # list[q] /\ list[from(i)] \notin delisted
      BY <1>1, <1>4, <1>6 DEF LoadInv, LoadTypes, n
    <2> QED
      BY <1>2, <1>4, <2>1
  <1>9. IsFiniteSet(delisted') /\ Cardinality(delisted') = Cardinality(delisted) + 1
    <2>1. list[q] \notin delisted /\ IsFiniteSet(delisted)
      BY <1>1 DEF LoadInv, LoadTypes, n
    <2> QED
      BY <1>2, <2>1, FS_AddElement
  <1>10. LoadTypes'
    BY <1>2, <1>3, <1>7, <1>8, <1>9 DEF LoadInv, LoadTypes
  <1>11. \E m : Missed' \subseteq Missed \cup {m}
    <2> DEFINE m == list[offset + 1]
    <2>1. \A i \in 1..(n - 1) : i <= offset /\ Convertible(list'[i]) =>
             list'[i] = m \/ list'[i] \in Passed
      <3> SUFFICES ASSUME NEW i \in 1..(n - 1), i <= offset, Convertible(list'[i]),
                          list'[i] # m
                   PROVE  list'[i] \in Passed
        OBVIOUS
      <3>1. from(i) \in 1..n /\ list'[i] = list[from(i)] /\ from(i) <= offset + 1
        BY <1>4
      <3>2. from(i) # offset + 1
        BY <3>1
      <3>3. from(i) <= offset
        BY <1>1, <3>1, <3>2
      <3> QED
        BY <3>1, <3>3 DEF Passed, n
    <2> HIDE DEF m
    <2>2. Passed' \subseteq Passed \cup {m}
      BY <1>2, <1>3, <2>1 DEF Passed, Convertible
    <2>3. Missed' \subseteq Missed \cup {m}
      BY <1>2, <2>2 DEF Missed
    <2> QED
      BY <2>3
  <1>12. Cardinality(Missed') <= Cardinality(delisted')
    <2>1. PICK m : Missed' \subseteq Missed \cup {m}
      BY <1>11
    <2> DEFINE more == Missed \cup {m}
    <2>2. IsFiniteSet(Missed)
      BY <1>1, PassedFinite
    <2>3. IsFiniteSet(more) /\ Cardinality(more) <= Cardinality(Missed) + 1
      BY <2>2, FS_AddElement, FS_CardinalityType
    <2>4. Missed' \in SUBSET more
      BY <2>1
    <2> HIDE DEF more
    <2>5. Cardinality(Missed') <= Cardinality(more) /\ Cardinality(Missed') \in Nat
          /\ Cardinality(more) \in Nat
      BY <2>3, <2>4, FS_Subset, FS_CardinalityType
    <2>6. Cardinality(Missed) <= Cardinality(delisted) /\ Cardinality(Missed) \in Nat
          /\ Cardinality(delisted) \in Nat
      BY <1>2, <2>2, FS_CardinalityType DEF LoadInv, LoadTypes
    <2> QED
      BY <1>9, <2>3, <2>5, <2>6
  <1>13. InFlight' = InFlight
    BY <1>2 DEF InFlight
  <1> QED
    BY <1>2, <1>10, <1>12, <1>13 DEF LoadInv

LEMMA PageKeepsLoad == LoadInv /\ FetchPage => LoadInv'
  <1> SUFFICES ASSUME LoadInv, FetchPage PROVE LoadInv'
    OBVIOUS
  <1> DEFINE page == PageAt(offset)
             found == cached \cup {m \in ToSet(page) : Convertible(m)}
             n == Len(list)
             end == IF offset + PageSize < n THEN offset + PageSize ELSE n
  <1>1. LoadTypes /\ list \in Seq(AllListed) /\ n \in Nat /\ offset \in Nat /\ cached \in SUBSET AllListed
        /\ PageSize \in Nat /\ PageSize > 0
    BY LoadAssumption DEF LoadInv, LoadTypes
  <1>2. /\ loadPc = "page" /\ cached' = found /\ offset' = offset + PageSize
        /\ UNCHANGED <<list, delisted, permits, placed>>
        /\ IF IsLast(page) THEN loadPc' = "books" /\ StartFetch(found)
           ELSE UNCHANGED <<loadPc, task>>
    BY DEF FetchPage
  <1>3. page = SubSeq(list, offset + 1, end) /\ end \in Nat /\ end <= n
    BY <1>1 DEF PageAt
  <1>4. page \in Seq(AllListed)
        /\ Len(page) = (IF offset + 1 <= end THEN end - offset ELSE 0)
        /\ \A i \in 1..Len(page) : page[i] = list[offset + i]
    <2> HIDE DEF page, end
    <2> QED
      BY <1>1, <1>3
  <1>5. ToSet(page) = {page[i] : i \in 1..Len(page)}
    BY <1>4, ToSetFinite
  <1>6. \A i \in 1..n : i > offset /\ i <= offset + PageSize => list[i] \in ToSet(page)
    <2> SUFFICES ASSUME NEW i \in 1..n, i > offset, i <= offset + PageSize
                 PROVE  list[i] \in ToSet(page)
      OBVIOUS
    <2>1. i <= end /\ offset + 1 <= end
      BY <1>1
    <2> HIDE DEF page, end
    <2>2. i - offset \in 1..Len(page) /\ offset + (i - offset) = i
      BY <1>1, <1>3, <1>4, <2>1
    <2> QED
      BY <1>4, <1>5, <2>2
  <1>7. IsLast(page) => n <= offset + PageSize
    <2> SUFFICES ASSUME Len(page) < PageSize, n > offset + PageSize PROVE FALSE
      BY <1>1 DEF IsLast
    <2>1. end = offset + PageSize
      BY <1>1
    <2> QED
      BY <1>1, <1>4, <2>1
  <1>8. found \in SUBSET AllListed
    BY <1>1, <1>4, <1>5
  <1> HIDE DEF page, end
  <1>9. Missed' \subseteq Missed
    <2>1. \A i \in 1..n : i <= offset + PageSize /\ Convertible(list[i]) /\ list[i] \notin found =>
             i <= offset
      BY <1>1, <1>6
    <2> HIDE DEF found
    <2>2. cached \subseteq found
      BY DEF found
    <2> QED
      BY <1>2, <2>1, <2>2 DEF Missed, Passed, n, Convertible
  <1> HIDE DEF found, n
  <1>10. Cardinality(Missed') <= Cardinality(delisted')
    <2>1. IsFiniteSet(Missed) /\ Cardinality(Missed) <= Cardinality(delisted)
      BY <1>1, <1>2, PassedFinite DEF LoadInv
    <2>2. Missed' \in SUBSET Missed
      BY <1>9
    <2>3. Cardinality(Missed') <= Cardinality(Missed) /\ Cardinality(Missed') \in Nat
          /\ Cardinality(Missed) \in Nat
      BY <2>1, <2>2, FS_Subset, FS_CardinalityType
    <2>4. Cardinality(delisted) \in Nat
      BY <1>1, FS_CardinalityType DEF LoadTypes
    <2> QED
      BY <1>2, <2>1, <2>3, <2>4
  <1>11. offset' \in Nat
    BY <1>1, <1>2
  <1>12. CASE IsLast(page)
    <2>1. StartFetch(found) /\ loadPc' = "books" /\ permits' = permits
      BY <1>2, <1>12
    <2>2. /\ IsFiniteSet(DOMAIN task') /\ task' \in [DOMAIN task' -> Stages]
          /\ InFlight' = {} /\ permits' + Cardinality(InFlight') = MaxConcurrent
          /\ permits' \in Int
      BY <1>2, <1>8, <2>1, StartsWaiting
    <2>3. LoadTypes'
      BY <1>1, <1>2, <1>8, <1>11, <2>2 DEF LoadTypes
    <2>4. Len(list') <= offset'
      BY <1>2, <1>7, <1>12 DEF n
    <2> QED
      BY <1>2, <1>10, <2>1, <2>2, <2>3, <2>4 DEF LoadInv
  <1>13. CASE ~IsLast(page)
    <2>1. UNCHANGED <<loadPc, task>>
      BY <1>2, <1>13
    <2>2. LoadTypes'
      BY <1>1, <1>2, <1>8, <1>11, <2>1 DEF LoadTypes
    <2>3. InFlight' = InFlight
      BY <2>1 DEF InFlight
    <2> QED
      BY <1>2, <1>10, <2>1, <2>2, <2>3 DEF LoadInv
  <1> QED
    BY <1>12, <1>13

\* A market's books are those of its tokens that were fetched, in their order.
LEMMA KeptDistinct ==
  ASSUME NEW S, NEW seq \in Seq(S), IsInjective(seq), NEW T
  PROVE  IsInjective(Kept(seq, T)) /\ ToSet(Kept(seq, T)) \subseteq ToSet(seq)
  <1>1. /\ Kept(seq, T) = Keeping!KeptOf(seq, T) /\ Keeping!Keeps(seq, T)
        /\ \A n \in Nat : \A s \in SUBSET (1..n) : HighestOf(s) = Keeping!Highest(s)
    BY KeptIsFold
  <1> DEFINE w == Kept(seq, T)
  <1>2. PICK place : Keeping!KeptFrom(seq, T, Len(seq), w, place)
    BY <1>1, Keeping!KeptPlaces
  <1>3. w \in Seq(S \cap T)
    BY <1>1, Keeping!KeptType
  <1>4. DOMAIN w = 1..Len(w) /\ DOMAIN seq = 1..Len(seq) /\ Len(w) \in Nat
    BY <1>3
  <1> HIDE DEF w
  <1>5. /\ \A i \in 1..Len(w) : place[i] \in 1..Len(seq) /\ w[i] = seq[place[i]]
        /\ \A i, j \in 1..Len(w) : i < j => place[i] < place[j]
    BY <1>2 DEF Keeping!KeptFrom
  <1>6. \A i, j \in 1..Len(w) : place[i] = place[j] => i = j
    <2> SUFFICES ASSUME NEW i \in 1..Len(w), NEW j \in 1..Len(w), place[i] = place[j] PROVE i = j
      OBVIOUS
    <2>1. ~(i < j) /\ ~(j < i)
      <3>1. place[i] \in Int
        BY <1>5
      <3> QED
        BY <1>5, <3>1
    <2> QED
      BY <1>4, <2>1
  <1>7. IsInjective(w)
    BY <1>4, <1>5, <1>6 DEF IsInjective
  <1>8. ToSet(w) \subseteq ToSet(seq)
    BY <1>4, <1>5 DEF ToSet
  <1> QED
    BY <1>7, <1>8 DEF w

LEMMA LoadStep == LoadInv /\ [LoadNext]_loadVars => LoadInv'
  <1> SUFFICES ASSUME LoadInv, [LoadNext]_loadVars PROVE LoadInv'
    OBVIOUS
  <1>0. LoadTypes
    BY DEF LoadInv
  <1>1. CASE FetchPage
    BY <1>1, PageKeepsLoad
  <1>2. ASSUME NEW q \in DOMAIN list, Delist(q) PROVE LoadInv'
    BY <1>2, DelistKeepsLoad
  <1>3. CASE FetchPageFails
    <2>1. /\ loadPc = "page" /\ cached' = {} /\ loadPc' = "books" /\ StartFetch({})
          /\ UNCHANGED <<list, delisted, offset, permits, placed>>
      BY <1>3 DEF FetchPageFails
    <2> DEFINE none == {}
    <2>2. none \in SUBSET AllListed /\ StartFetch(none)
      BY <2>1
    <2> HIDE DEF none
    <2>3. /\ IsFiniteSet(DOMAIN task') /\ task' \in [DOMAIN task' -> Stages]
          /\ InFlight' = {} /\ permits' + Cardinality(InFlight') = MaxConcurrent
          /\ permits' \in Int
      BY <2>1, <2>2, StartsWaiting
    <2>4. LoadTypes'
      BY <1>0, <2>1, <2>3 DEF LoadTypes
    <2> QED
      BY <2>1, <2>3, <2>4 DEF LoadInv
  <1>4. ASSUME NEW t \in DOMAIN task, Acquire(t) PROVE LoadInv'
    <2>1. /\ task[t] = "waiting" /\ task' = [task EXCEPT ![t] = "inflight"]
          /\ permits' = permits - 1
          /\ UNCHANGED <<list, delisted, loadPc, offset, cached, placed>>
      BY <1>4 DEF Acquire
    <2>2. DOMAIN task' = DOMAIN task /\ task' \in [DOMAIN task -> Stages]
      BY <1>0, <2>1 DEF LoadTypes, Stages
    <2>3. InFlight' = InFlight \cup {t} /\ t \notin InFlight
      BY <1>0, <2>1, <2>2 DEF InFlight, LoadTypes
    <2>4. IsFiniteSet(InFlight)
      BY <1>0, FS_Subset DEF InFlight, LoadTypes
    <2>5. Cardinality(InFlight') = Cardinality(InFlight) + 1 /\ Cardinality(InFlight) \in Nat
      BY <2>3, <2>4, FS_AddElement, FS_CardinalityType
    <2>6. permits \in Int /\ permits + Cardinality(InFlight) = MaxConcurrent
      BY <1>0 DEF LoadInv, LoadTypes
    <2>7. permits' + Cardinality(InFlight') = MaxConcurrent /\ permits' \in Int
      BY <2>1, <2>5, <2>6
    <2>8. LoadTypes'
      BY <1>0, <2>1, <2>2, <2>7 DEF LoadTypes
    <2>9. Missed' = Missed
      BY <2>1 DEF Missed, Passed, Convertible
    <2>10. loadPc # "page" /\ loadPc # "done"
      BY <2>1 DEF LoadInv, FetchEnded
    <2> QED
      BY <2>1, <2>2, <2>7, <2>8, <2>9, <2>10 DEF LoadInv
  <1>5. ASSUME NEW t \in DOMAIN task, FinishFetch(t) PROVE LoadInv'
    <2>1. PICK result \in {"got", "failed"} :
             /\ task[t] = "inflight" /\ task' = [task EXCEPT ![t] = result]
             /\ permits' = permits + 1
             /\ UNCHANGED <<list, delisted, loadPc, offset, cached, placed>>
      BY <1>5 DEF FinishFetch
    <2>2. DOMAIN task' = DOMAIN task /\ task' \in [DOMAIN task -> Stages]
      BY <1>0, <2>1 DEF LoadTypes, Stages
    <2>3. InFlight' = InFlight \ {t} /\ t \in InFlight
      BY <1>0, <2>1, <2>2 DEF InFlight, LoadTypes
    <2>4. IsFiniteSet(InFlight)
      BY <1>0, FS_Subset DEF InFlight, LoadTypes
    <2>5. Cardinality(InFlight') = Cardinality(InFlight) - 1 /\ Cardinality(InFlight) \in Nat
      BY <2>3, <2>4, FS_RemoveElement, FS_CardinalityType
    <2>6. permits \in Int /\ permits + Cardinality(InFlight) = MaxConcurrent
      BY <1>0 DEF LoadInv, LoadTypes
    <2>7. permits' + Cardinality(InFlight') = MaxConcurrent /\ permits' \in Int
      BY <2>1, <2>5, <2>6
    <2>8. LoadTypes'
      BY <1>0, <2>1, <2>2, <2>7 DEF LoadTypes
    <2>9. Missed' = Missed
      BY <2>1 DEF Missed, Passed, Convertible
    <2>10. loadPc # "page" /\ loadPc # "done"
      BY <2>1 DEF LoadInv, FetchEnded
    <2> QED
      BY <2>1, <2>2, <2>7, <2>8, <2>9, <2>10 DEF LoadInv
  <1>6. CASE Distribute
    <2> DEFINE fetched == {t \in DOMAIN task : task[t] = "got"}
    <2>1. /\ loadPc = "books" /\ (\A t \in DOMAIN task : FetchEnded(t)) /\ loadPc' = "done"
          /\ placed' = [m \in AllListed |-> IF m \notin cached THEN << >> ELSE Kept(TokensOf[m], fetched)]
          /\ UNCHANGED <<list, delisted, offset, cached, task, permits>>
      BY <1>6 DEF Distribute
    <2>2. InFlight = {} /\ InFlight' = InFlight
      BY <2>1 DEF InFlight, FetchEnded
    <2>3. LoadTypes' /\ Missed' = Missed
      BY <1>0, <2>1 DEF LoadTypes, Missed, Passed, Convertible
    <2> HIDE DEF fetched
    <2>4. ASSUME NEW m \in AllListed
          PROVE  IsInjective(placed'[m]) /\ ToSet(placed'[m]) \subseteq ToSet(TokensOf[m])
      <3>1. CASE m \notin cached
        <4>1. placed'[m] = << >>
          BY <2>1, <3>1
        <4> QED
          BY <4>1 DEF IsInjective, ToSet
      <3>2. CASE m \in cached
        <4>1. placed'[m] = Kept(TokensOf[m], fetched)
          BY <2>1, <3>2
        <4>2. TokensOf[m] \in Seq(ToSet(TokensOf[m])) /\ IsInjective(TokensOf[m])
          BY LoadAssumption DEF AllListed
        <4> QED
          BY <4>1, <4>2, KeptDistinct
      <3> QED
        BY <3>1, <3>2
    <2>5. \A m \in AllListed :
             IsInjective(placed'[m]) /\ ToSet(placed'[m]) \subseteq ToSet(TokensOf[m])
      BY <2>4
    <2> QED
      BY <2>1, <2>2, <2>3, <2>5 DEF LoadInv, FetchEnded
  <1>7. CASE UNCHANGED loadVars
    BY <1>7 DEF loadVars, LoadInv, LoadTypes, InFlight, Missed, Passed, Convertible, FetchEnded
  <1> QED
    BY <1>1, <1>2, <1>3, <1>4, <1>5, <1>6, <1>7 DEF LoadNext

(***************************************************************************)
(* The configuration file                                                  *)
(***************************************************************************)
ConfigTexts == Sane \cup {"none", "empty", "mixed"}
ConfigFiles == [text : ConfigTexts, length : Nat, parses : BOOLEAN]
WholeValues == {AsSent(v) : v \in Sane \cup {DefaultVersion}}
CutValues == {Shortened(v) : v \in Sane}
Putting(h) == putPc[h] # "idle"
Filling(h) == putPc[h] = "fill"

\* Only what no overlap mixed is a version's; only what a save left half way lacks its end.
KnownValue(x) ==
  /\ x \in WholeValues \cup CutValues \cup {Mixed}
  /\ x \in WholeValues \/ (x \in CutValues /\ "cut" \in spoilt) \/ "mixed" \in spoilt

KnownFile ==
  /\ fileOn \in ConfigFiles
  /\ fileOn.parses => fileOn.text \in Sane \cup {"mixed"}
  /\ "mixed" \notin spoilt => fileOn.text # "mixed"
  /\ (spoilt = {} /\ \A h \in Handlers : ~Filling(h)) =>
        (fileOn.text \in Sane => fileOn.length = Length[fileOn.text])

\* The file is this handler's as far as it has come.
OwnFile(h) ==
  \/ putAt[h] = 0 /\ fileOn = EmptyFile
  \/ fileOn.text = putOf[h] /\ fileOn.length = putAt[h] /\ putAt[h] < Length[putOf[h]]

AloneIn == ~disturbed \/ "mixed" \notin spoilt

\* When no saves overlap there is one handler at most: its value is in the memory
\* once it opens the file, and the file is its own while it fills it.
ConfigInv ==
  /\ disturbed \in BOOLEAN /\ spoilt \subseteq {"cut", "mixed"}
  /\ putPc \in [Handlers -> {"idle", "memory", "open", "fill"}]
  /\ putOf \in [Handlers -> Sane \cup {DefaultVersion}]
  /\ putAt \in [Handlers -> Nat]
  /\ \A h \in Handlers : Putting(h) => putOf[h] \in Sane
  /\ KnownValue(version) /\ KnownFile
  /\ AloneIn => /\ \A g, h \in Handlers : Putting(g) /\ Putting(h) => g = h
                /\ \A h \in Handlers : Filling(h) => OwnFile(h)
  /\ ~disturbed => /\ (\A h \in Handlers : putPc[h] \in {"idle", "memory"}) => Loaded = version
                   /\ \A h \in Handlers : putPc[h] \in {"open", "fill"} => version = AsSent(putOf[h])

LEMMA ConfigSound == ConfigInv => ChangesSurvive
  BY DEF ConfigInv, ChangesSurvive, KnownValue, WholeValues, CutValues

LEMMA ConfigInitially == ConfigInit => ConfigInv
  <1> SUFFICES ASSUME ConfigInit PROVE ConfigInv
    OBVIOUS
  <1>1. /\ fileOn = NoFile /\ version = AsSent(DefaultVersion) /\ spoilt = {} /\ disturbed = FALSE
        /\ putPc = [h \in Handlers |-> "idle"] /\ putOf = [h \in Handlers |-> DefaultVersion]
        /\ putAt = [h \in Handlers |-> 0]
    BY DEF ConfigInit
  <1>2. fileOn \in ConfigFiles /\ fileOn.text = "none" /\ fileOn.parses = FALSE
    BY <1>1 DEF NoFile, ConfigTexts, ConfigFiles
  <1>3. "none" \notin Sane
    BY ConfigAssumption
  <1>4. KnownFile
    BY <1>2, <1>3 DEF KnownFile
  <1>5. version \in WholeValues
    BY <1>1 DEF WholeValues
  <1>6. Loaded = version
    BY <1>1, <1>2 DEF Loaded
  <1>7. \A h \in Handlers : putPc[h] = "idle"
    BY <1>1
  <1> QED
    BY <1>1, <1>4, <1>5, <1>6, <1>7 DEF ConfigInv, KnownValue, Putting, Filling

\* What a start loads is known, when nobody was filling the file or that is remembered.
LEMMA LoadedKnown ==
  ASSUME KnownFile, spoilt \subseteq {"cut", "mixed"}
  PROVE  /\ Loaded \in WholeValues \cup CutValues \cup {Mixed}
         /\ Loaded \in WholeValues \/ "mixed" \in spoilt
               \/ (Loaded \in CutValues /\ ("cut" \in spoilt \/ \E h \in Handlers : Filling(h)))
  <1>1. CASE ~fileOn.parses
    BY <1>1 DEF Loaded, WholeValues
  <1>2. CASE fileOn.parses /\ fileOn.text = "mixed"
    BY <1>2 DEF Loaded, KnownFile
  <1>3. CASE fileOn.parses /\ fileOn.text # "mixed"
    <2>1. fileOn.text \in Sane
      BY <1>3 DEF KnownFile
    <2>2. CASE fileOn.length = Length[fileOn.text]
      BY <1>3, <2>1, <2>2 DEF Loaded, WholeValues
    <2>3. CASE fileOn.length # Length[fileOn.text]
      <3>1. Loaded = Shortened(fileOn.text) /\ Loaded \in CutValues
        BY <1>3, <2>1, <2>3 DEF Loaded, CutValues
      <3>2. spoilt # {} \/ \E h \in Handlers : Filling(h)
        BY <2>1, <2>3 DEF KnownFile
      <3> QED
        BY <3>1, <3>2
    <2> QED
      BY <2>2, <2>3
  <1> QED
    BY <1>1, <1>2, <1>3

LEMMA FillOfOwn ==
  ASSUME NEW h \in Handlers, NEW upTo \in Nat, FillFile(h, upTo), OwnFile(h),
         putOf[h] \in Sane, upTo <= Length[putOf[h]], putAt[h] \in Nat
  PROVE  /\ fileOn'.text = putOf[h] /\ fileOn'.length = upTo
         /\ upTo = Length[putOf[h]] => fileOn'.parses
  <1> DEFINE v == putOf[h]
  <1>0. Length[v] \in Nat \ {0} /\ v # "mixed"
    BY ConfigAssumption
  <1>1. putAt[h] < upTo /\ upTo \in Nat
    BY DEF FillFile
  <1>2. fileOn.length = putAt[h] /\ (fileOn.text = v \/ putAt[h] = 0)
    BY DEF OwnFile, EmptyFile
  <1>3. IsOf(v, putAt[h]) /\ ~(fileOn.length > upTo)
    BY <1>1, <1>2 DEF IsOf
  <1>4. PICK parses \in BOOLEAN :
            /\ upTo = Length[v] => parses
            /\ fileOn' = [text |-> v, length |-> upTo, parses |-> parses]
    BY <1>3 DEF FillFile
  <1> QED
    BY <1>4

LEMMA FillKnown ==
  ASSUME NEW h \in Handlers, NEW upTo \in Nat, FillFile(h, upTo),
         putOf[h] \in Sane, fileOn \in ConfigFiles
  PROVE  /\ fileOn' \in ConfigFiles
         /\ fileOn'.text \in {putOf[h], "mixed"}
  <1> DEFINE v == putOf[h]
             behind == fileOn.length > upTo /\ fileOn.text # v
             text == IF IsOf(v, putAt[h]) /\ ~behind THEN v ELSE "mixed"
             length == IF fileOn.length > upTo THEN fileOn.length ELSE upTo
  <1>1. PICK parses \in BOOLEAN :
            fileOn' = [text |-> text, length |-> length, parses |-> parses]
    BY DEF FillFile
  <1>2. text \in {v, "mixed"} /\ length \in Nat
    BY DEF ConfigFiles
  <1> HIDE DEF text, length
  <1> QED
    BY <1>1, <1>2 DEF ConfigFiles, ConfigTexts

LEMMA ConfigStep == ConfigInv /\ [ConfigNext]_configVars => ConfigInv'
  <1> SUFFICES ASSUME ConfigInv, [ConfigNext]_configVars PROVE ConfigInv'
    OBVIOUS
  <1>0. /\ disturbed \in BOOLEAN /\ spoilt \subseteq {"cut", "mixed"}
        /\ putPc \in [Handlers -> {"idle", "memory", "open", "fill"}]
        /\ putOf \in [Handlers -> Sane \cup {DefaultVersion}]
        /\ putAt \in [Handlers -> Nat]
        /\ \A h \in Handlers : Putting(h) => putOf[h] \in Sane
        /\ KnownValue(version) /\ KnownFile
    BY DEF ConfigInv
  <1>1. CASE RestartServer
    <2>1. /\ version' = Loaded /\ fileOn' = fileOn /\ putOf' = putOf /\ putAt' = putAt
          /\ disturbed' = FALSE /\ putPc' = [h \in Handlers |-> "idle"]
          /\ spoilt' = IF \E h \in Handlers : putPc[h] = "fill" THEN spoilt \cup {"cut"} ELSE spoilt
      BY <1>1 DEF RestartServer
    <2>2. \A h \in Handlers : putPc'[h] = "idle"
      BY <2>1
    <2>3. KnownValue(version)'
      BY <1>0, <2>1, LoadedKnown DEF KnownValue, Filling
    <2>4. spoilt' = {} => spoilt = {} /\ \A h \in Handlers : ~Filling(h)
      BY <2>1 DEF Filling
    <2>5. KnownFile'
      BY <1>0, <2>1, <2>4 DEF KnownFile
    <2>6. Loaded' = version'
      BY <2>1 DEF Loaded
    <2> QED
      BY <1>0, <2>1, <2>2, <2>3, <2>5, <2>6 DEF ConfigInv, Putting, Filling
  <1>2. ASSUME NEW h \in Handlers, NEW v \in Versions, ReceivePut(h, v) PROVE ConfigInv'
    <2>1. /\ v \in Sane /\ putPc[h] = "idle" /\ putPc' = [putPc EXCEPT ![h] = "memory"]
          /\ putOf' = [putOf EXCEPT ![h] = v] /\ version' = version /\ fileOn' = fileOn
          /\ putAt' = putAt
          /\ IF \E g \in Handlers : putPc[g] # "idle"
             THEN disturbed' = TRUE /\ spoilt' = spoilt \cup {"mixed"}
             ELSE disturbed' = disturbed /\ spoilt' = spoilt
      BY <1>2 DEF ReceivePut, Accepted, Goes
    <2>2. /\ disturbed' \in BOOLEAN /\ Loaded' = Loaded /\ spoilt \subseteq spoilt'
          /\ spoilt' \subseteq {"cut", "mixed"}
      BY <1>0, <2>1 DEF Loaded
    <2>3. AloneIn' => /\ disturbed' = disturbed /\ spoilt' = spoilt
                      /\ \A g \in Handlers : putPc[g] = "idle"
      BY <2>1 DEF AloneIn
    <2>4. ~disturbed' => ~disturbed /\ AloneIn'
      BY <2>1 DEF AloneIn
    <2>5. KnownValue(version)'
      BY <1>0, <2>1, <2>2 DEF KnownValue
    <2>6. \A g \in Handlers : Filling(g)' <=> Filling(g)
      BY <1>0, <2>1 DEF Filling
    <2>7. KnownFile'
      BY <1>0, <2>1, <2>2, <2>6 DEF KnownFile
    <2>8. \A g \in Handlers : Putting(g)' => g = h \/ Putting(g)
      BY <1>0, <2>1 DEF Putting
    <2>9. \A g \in Handlers : Putting(g)' => putOf'[g] \in Sane
      BY <1>0, <2>1, <2>8
    <2>10. AloneIn' => \A g \in Handlers : ~Filling(g)' /\ (Putting(g)' => g = h)
      BY <2>3, <2>6, <2>8 DEF Filling, Putting
    <2>11. ~disturbed' => /\ (\A g \in Handlers : putPc[g] = "idle") /\ Loaded' = version'
                          /\ \A g \in Handlers : putPc'[g] \in {"idle", "memory"}
      BY <1>0, <2>1, <2>2, <2>3, <2>4 DEF ConfigInv
    <2>12. putPc' \in [Handlers -> {"idle", "memory", "open", "fill"}]
           /\ putOf' \in [Handlers -> Sane \cup {DefaultVersion}]
      BY <1>0, <2>1
    <2> QED
      BY <1>0, <2>1, <2>2, <2>5, <2>7, <2>9, <2>10, <2>11, <2>12 DEF ConfigInv
  <1>3. ASSUME NEW h \in Handlers, WriteMemory(h) PROVE ConfigInv'
    <2>1. /\ putPc[h] = "memory" /\ version' = AsSent(putOf[h]) /\ fileOn' = fileOn
          /\ putOf' = putOf /\ putAt' = putAt /\ spoilt' = spoilt
          /\ putPc' = [putPc EXCEPT ![h] = "open"] /\ disturbed' = disturbed
      BY <1>3 DEF WriteMemory, Goes
    <2>2. \A g \in Handlers : (Filling(g)' <=> Filling(g)) /\ (Putting(g)' <=> Putting(g))
      BY <1>0, <2>1 DEF Filling, Putting
    <2>3. putOf[h] \in Sane
      BY <1>0, <2>1 DEF Putting
    <2>4. KnownValue(version)'
      BY <2>1, <2>3 DEF KnownValue, WholeValues
    <2>5. KnownFile'
      BY <1>0, <2>1, <2>2 DEF KnownFile
    <2>6. AloneIn' => AloneIn /\ \A g \in Handlers : OwnFile(g)' <=> OwnFile(g)
      BY <2>1 DEF AloneIn, OwnFile
    <2>7. ~disturbed => \A g \in Handlers : g # h => putPc[g] = "idle"
      BY <2>1 DEF ConfigInv, Putting, AloneIn
    <2>8. putPc' \in [Handlers -> {"idle", "memory", "open", "fill"}] /\ putPc'[h] = "open"
          /\ \A g \in Handlers : g # h => putPc'[g] = putPc[g]
      BY <1>0, <2>1
    <2>9. AloneIn' => /\ \A f, g \in Handlers : Putting(f)' /\ Putting(g)' => f = g
                      /\ \A g \in Handlers : Filling(g)' => OwnFile(g)'
      BY <2>2, <2>6 DEF ConfigInv
    <2>10. ~disturbed' => \A g \in Handlers : putPc'[g] \in {"open", "fill"} => version' = AsSent(putOf'[g])
      BY <2>1, <2>7, <2>8
    <2>11. \A g \in Handlers : Putting(g)' => putOf'[g] \in Sane
      BY <1>0, <2>1, <2>2
    <2> QED
      BY <1>0, <2>1, <2>4, <2>5, <2>8, <2>9, <2>10, <2>11 DEF ConfigInv
  <1>4. ASSUME NEW h \in Handlers, OpenFile(h) PROVE ConfigInv'
    <2>1. /\ putPc[h] = "open" /\ putPc' = [putPc EXCEPT ![h] = "fill"] /\ fileOn' = EmptyFile
          /\ putAt' = [putAt EXCEPT ![h] = 0] /\ spoilt' = spoilt
          /\ version' = version /\ putOf' = putOf /\ disturbed' = disturbed
      BY <1>4 DEF OpenFile, Goes
    <2>2. /\ putPc' \in [Handlers -> {"idle", "memory", "open", "fill"}] /\ putPc'[h] = "fill"
          /\ putAt' \in [Handlers -> Nat] /\ putAt'[h] = 0
          /\ \A g \in Handlers : g # h => putPc'[g] = putPc[g]
      BY <1>0, <2>1
    <2>3. fileOn' \in ConfigFiles /\ fileOn'.text = "empty" /\ fileOn'.parses = FALSE
      BY <2>1 DEF EmptyFile, ConfigTexts, ConfigFiles
    <2>4. "empty" \notin Sane
      BY ConfigAssumption
    <2>5. KnownFile'
      BY <2>3, <2>4 DEF KnownFile
    <2>6. KnownValue(version)'
      BY <1>0, <2>1 DEF KnownValue
    <2>7. \A g \in Handlers : Putting(g)' <=> Putting(g)
      BY <2>1, <2>2 DEF Putting
    <2>8. AloneIn' => /\ \A f, g \in Handlers : Putting(f)' /\ Putting(g)' => f = g
                      /\ \A g \in Handlers : g # h => putPc'[g] = "idle"
      <3>1. AloneIn' => AloneIn
        BY <2>1 DEF AloneIn
      <3>2. AloneIn => \A g \in Handlers : Putting(g) => g = h
        BY <2>1 DEF ConfigInv, Putting
      <3> QED
        BY <2>2, <2>7, <3>1, <3>2 DEF Putting
    <2>9. OwnFile(h)'
      BY <2>1, <2>2 DEF OwnFile
    <2>10. \A g \in Handlers : Filling(g)' /\ AloneIn' => OwnFile(g)'
      BY <2>8, <2>9 DEF Filling
    <2>11. ~disturbed => version = AsSent(putOf[h])
      BY <2>1 DEF ConfigInv
    <2>12. ~disturbed' => \A g \in Handlers : putPc'[g] \in {"open", "fill"} => version' = AsSent(putOf'[g])
      BY <2>1, <2>8, <2>11 DEF AloneIn
    <2>13. \A g \in Handlers : Putting(g)' => putOf'[g] \in Sane
      BY <1>0, <2>1, <2>7
    <2> QED
      BY <1>0, <2>1, <2>2, <2>5, <2>6, <2>8, <2>10, <2>12, <2>13 DEF ConfigInv
  <1>5. ASSUME NEW h \in Handlers, NEW upTo \in 1..Length[putOf[h]], putPc[h] = "fill",
               FillFile(h, upTo)
        PROVE  ConfigInv'
    <2>1. /\ putAt' = [putAt EXCEPT ![h] = upTo] /\ spoilt' = spoilt
          /\ putPc' = [putPc EXCEPT ![h] = IF upTo = Length[putOf[h]] THEN "idle" ELSE "fill"]
          /\ version' = version /\ putOf' = putOf /\ disturbed' = disturbed
      BY <1>5 DEF FillFile, Goes
    <2>2. putOf[h] \in Sane /\ Length[putOf[h]] \in Nat /\ upTo \in Nat /\ upTo <= Length[putOf[h]]
      BY <1>0, <1>5, ConfigAssumption DEF Putting
    <2>3. /\ putPc' \in [Handlers -> {"idle", "memory", "open", "fill"}]
          /\ putPc'[h] = (IF upTo = Length[putOf[h]] THEN "idle" ELSE "fill")
          /\ putAt' \in [Handlers -> Nat] /\ putAt'[h] = upTo
          /\ \A g \in Handlers : g # h => putPc'[g] = putPc[g]
      BY <1>0, <2>1, <2>2
    <2>4. /\ fileOn' \in ConfigFiles /\ fileOn'.text \in {putOf[h], "mixed"}
      BY <1>0, <1>5, <2>2, FillKnown DEF KnownFile
    <2>5. AloneIn => /\ \A g \in Handlers : g # h => putPc[g] = "idle"
                     /\ OwnFile(h)
      BY <1>5 DEF ConfigInv, Putting, Filling
    <2>6. AloneIn => /\ fileOn'.text = putOf[h] /\ fileOn'.length = upTo
                     /\ upTo = Length[putOf[h]] => fileOn'.parses
      BY <1>0, <1>5, <2>2, <2>5, FillOfOwn
    <2>7. putOf[h] # "mixed" /\ "mixed" \notin Sane
      BY <2>2, ConfigAssumption
    <2>8. spoilt = {} /\ (\A g \in Handlers : ~Filling(g)') => upTo = Length[putOf[h]]
      BY <2>3 DEF Filling
    <2>9. KnownFile'
      BY <2>1, <2>2, <2>4, <2>6, <2>7, <2>8 DEF KnownFile, AloneIn
    <2>10. KnownValue(version)'
      BY <1>0, <2>1 DEF KnownValue
    <2>11. AloneIn' <=> AloneIn
      BY <2>1 DEF AloneIn
    <2>12. AloneIn' => \A g \in Handlers : g # h => putPc'[g] = "idle"
      BY <2>3, <2>5, <2>11
    <2>13. AloneIn' /\ putPc'[h] = "fill" => OwnFile(h)'
      BY <2>1, <2>2, <2>3, <2>6, <2>11 DEF OwnFile
    <2>14. AloneIn' => /\ \A f, g \in Handlers : Putting(f)' /\ Putting(g)' => f = g
                       /\ \A g \in Handlers : Filling(g)' => OwnFile(g)'
      BY <2>12, <2>13 DEF Putting, Filling
    <2>15. ~disturbed => version = AsSent(putOf[h])
      BY <1>5 DEF ConfigInv
    <2>16. ~disturbed' => \A g \in Handlers : putPc'[g] \in {"open", "fill"} => version' = AsSent(putOf'[g])
      BY <2>1, <2>12, <2>15 DEF AloneIn
    <2>17. ~disturbed' /\ putPc'[h] # "fill" => Loaded' = version'
      <3> SUFFICES ASSUME ~disturbed, putPc'[h] # "fill" PROVE Loaded' = version'
        BY <2>1
      <3>1. upTo = Length[putOf[h]] /\ version' = AsSent(putOf[h])
        BY <2>1, <2>3, <2>15
      <3>2. fileOn'.text = putOf[h] /\ fileOn'.length = upTo /\ fileOn'.parses
        BY <2>6, <3>1 DEF AloneIn
      <3> QED
        BY <2>7, <3>1, <3>2 DEF Loaded
    <2>18. \A g \in Handlers : Putting(g)' => putOf'[g] \in Sane
      <3>1. \A g \in Handlers : Putting(g)' => Putting(g)
        BY <1>5, <2>3 DEF Putting
      <3> QED
        BY <1>0, <2>1, <3>1
    <2> QED
      BY <1>0, <2>1, <2>3, <2>9, <2>10, <2>14, <2>16, <2>17, <2>18 DEF ConfigInv
  <1>6. ASSUME NEW h \in Handlers, SaveFails(h) PROVE ConfigInv'
    <2>1. /\ putPc' = [putPc EXCEPT ![h] = "idle"] /\ disturbed' = TRUE /\ putAt' = putAt
          /\ version' = version /\ fileOn' = fileOn /\ putOf' = putOf
          /\ spoilt' = IF putPc[h] = "fill" THEN spoilt \cup {"cut"} ELSE spoilt
      BY <1>6 DEF SaveFails, Goes
    <2>2. /\ spoilt \subseteq spoilt' /\ spoilt' \subseteq {"cut", "mixed"}
          /\ ("mixed" \in spoilt' <=> "mixed" \in spoilt)
          /\ putPc' \in [Handlers -> {"idle", "memory", "open", "fill"}]
          /\ \A g \in Handlers : Putting(g)' => Putting(g)
          /\ \A g \in Handlers : Filling(g)' => Filling(g)
      BY <1>0, <2>1 DEF Putting, Filling
    <2>3. spoilt' = {} => spoilt = {} /\ \A g \in Handlers : Filling(g)' <=> Filling(g)
      BY <1>0, <2>1 DEF Filling
    <2>4. KnownFile'
      BY <1>0, <2>1, <2>2, <2>3 DEF KnownFile
    <2>5. KnownValue(version)'
      BY <1>0, <2>1, <2>2 DEF KnownValue
    <2>6. AloneIn' => AloneIn /\ \A g \in Handlers : OwnFile(g)' <=> OwnFile(g)
      BY <2>1, <2>2 DEF AloneIn, OwnFile
    <2>7. AloneIn' => /\ \A f, g \in Handlers : Putting(f)' /\ Putting(g)' => f = g
                      /\ \A g \in Handlers : Filling(g)' => OwnFile(g)'
      BY <2>2, <2>6 DEF ConfigInv
    <2>8. \A g \in Handlers : Putting(g)' => putOf'[g] \in Sane
      BY <1>0, <2>1, <2>2
    <2> QED
      BY <1>0, <2>1, <2>2, <2>4, <2>5, <2>7, <2>8 DEF ConfigInv
  <1>7. CASE UNCHANGED configVars
    BY <1>7 DEF configVars, ConfigInv, Putting, Filling, Loaded, KnownValue, KnownFile, AloneIn, OwnFile
  <1> QED
    BY <1>1, <1>2, <1>3, <1>4, <1>5, <1>6, <1>7 DEF ConfigNext

(***************************************************************************)
(* The price history                                                       *)
(***************************************************************************)
TickRows == {r \in [market : TickMarkets, token : Nat, ts : Nat, batch : Nat] :
                r.token \in 1..TickTokens[r.market]}
Cell(r) == <<r.market, r.token, r.batch>>
Before(r, s) == r.ts <= s.ts /\ r.batch <= s.batch /\ Cell(r) # Cell(s)
Timely(a) == \A i, j \in 1..Len(a) : i < j => Before(a[i], a[j])
Precede(a, b) == \A i \in 1..Len(a), j \in 1..Len(b) : Before(a[i], b[j])

LEMMA RowAdded ==
  ASSUME NEW a \in Seq(TickRows), NEW x \in TickRows, Timely(a),
         \A i \in 1..Len(a) : Before(a[i], x)
  PROVE  /\ Append(a, x) \in Seq(TickRows) /\ Timely(Append(a, x))
         /\ Len(Append(a, x)) = Len(a) + 1 /\ Append(a, x)[Len(a) + 1] = x
         /\ \A i \in 1..Len(a) : Append(a, x)[i] = a[i]
  <1> DEFINE w == Append(a, x)
  <1>1. /\ w \in Seq(TickRows) /\ Len(w) = Len(a) + 1 /\ w[Len(a) + 1] = x
        /\ \A i \in 1..Len(a) : w[i] = a[i]
        /\ Len(a) \in Nat
    OBVIOUS
  <1> HIDE DEF w
  <1>2. Timely(w)
    <2> SUFFICES ASSUME NEW i \in 1..Len(w), NEW j \in 1..Len(w), i < j PROVE Before(w[i], w[j])
      BY DEF Timely
    <2>1. i \in 1..Len(a) /\ w[i] = a[i]
      BY <1>1
    <2>2. CASE j = Len(a) + 1
      BY <1>1, <2>1, <2>2
    <2>3. CASE j # Len(a) + 1
      <3>1. j \in 1..Len(a) /\ w[j] = a[j]
        BY <1>1, <2>3
      <3> QED
        BY <2>1, <3>1 DEF Timely
    <2> QED
      BY <2>2, <2>3
  <1> QED
    BY <1>1, <1>2 DEF w

LEMMA RowTaken ==
  ASSUME NEW a \in Seq(TickRows), a # <<>>, Timely(a)
  PROVE  /\ Head(a) \in TickRows /\ Head(a) = a[1] /\ Tail(a) \in Seq(TickRows)
         /\ Timely(Tail(a)) /\ Len(Tail(a)) = Len(a) - 1 /\ Len(a) >= 1
         /\ \A i \in 1..Len(Tail(a)) : Tail(a)[i] = a[i + 1] /\ Before(Head(a), Tail(a)[i])
  <1> DEFINE w == Tail(a)
             n == Len(a)
  <1>1. /\ w \in Seq(TickRows) /\ Len(w) = n - 1 /\ n \in Nat /\ n >= 1
        /\ Head(a) = a[1] /\ Head(a) \in TickRows
    OBVIOUS
  <1>2. \A i \in 1..(n - 1) : w[i] = a[i + 1]
    OBVIOUS
  <1> HIDE DEF w
  <1>3. \A i \in 1..(n - 1) : Before(a[1], a[i + 1])
    <2> SUFFICES ASSUME NEW i \in 1..(n - 1) PROVE Before(a[1], a[i + 1])
      OBVIOUS
    <2>1. 1 \in 1..n /\ i + 1 \in 1..n /\ 1 < i + 1
      BY <1>1
    <2> QED
      BY <2>1 DEF Timely
  <1>4. Timely(w)
    <2> SUFFICES ASSUME NEW i \in 1..Len(w), NEW j \in 1..Len(w), i < j PROVE Before(w[i], w[j])
      BY DEF Timely
    <2>1. i + 1 \in 1..n /\ j + 1 \in 1..n /\ i + 1 < j + 1 /\ w[i] = a[i + 1] /\ w[j] = a[j + 1]
      BY <1>1, <1>2
    <2>2. Before(a[i + 1], a[j + 1])
      <3> HIDE DEF n
      <3> QED
        BY <2>1 DEF Timely, n
    <2> QED
      BY <2>1, <2>2
  <1> QED
    BY <1>1, <1>2, <1>3, <1>4 DEF w, n

LEMMA RowsJoined ==
  ASSUME NEW a \in Seq(TickRows), NEW b \in Seq(TickRows), Timely(a), Timely(b), Precede(a, b)
  PROVE  /\ a \o b \in Seq(TickRows) /\ Timely(a \o b) /\ Len(a \o b) = Len(a) + Len(b)
         /\ \A i \in 1..Len(a) : (a \o b)[i] = a[i]
         /\ \A i \in 1..Len(b) : (a \o b)[Len(a) + i] = b[i]
         /\ \A k \in 1..Len(a \o b) : \/ k \in 1..Len(a)
                                      \/ k - Len(a) \in 1..Len(b) /\ k = Len(a) + (k - Len(a))
  <1> DEFINE w == a \o b
             m == Len(a)
             n == Len(b)
  <1>1. /\ w \in Seq(TickRows) /\ Len(w) = m + n /\ m \in Nat /\ n \in Nat
        /\ \A i \in 1..m : w[i] = a[i]
        /\ \A i \in 1..n : w[m + i] = b[i]
    OBVIOUS
  <1>2. /\ \A i, j \in 1..m : i < j => Before(a[i], a[j])
        /\ \A i, j \in 1..n : i < j => Before(b[i], b[j])
        /\ \A i \in 1..m, j \in 1..n : Before(a[i], b[j])
    BY DEF Timely, Precede
  <1> HIDE DEF w, m, n
  <1>3. \A k \in 1..(m + n) : k \in 1..m \/ (k - m \in 1..n /\ k = m + (k - m))
    BY <1>1
  <1>4. Timely(w)
    <2> SUFFICES ASSUME NEW i \in 1..(m + n), NEW j \in 1..(m + n), i < j PROVE Before(w[i], w[j])
      BY <1>1 DEF Timely
    <2>1. CASE i \in 1..m /\ j \in 1..m
      BY <1>1, <1>2, <2>1
    <2>2. CASE i \in 1..m /\ j \notin 1..m
      <3>1. j - m \in 1..n /\ j = m + (j - m)
        BY <1>3, <2>2
      <3>2. w[j] = b[j - m]
        BY <1>1, <3>1
      <3> QED
        BY <1>1, <1>2, <2>2, <3>1, <3>2
    <2>3. CASE i \notin 1..m
      <3>1. i - m \in 1..n /\ i = m + (i - m) /\ j - m \in 1..n /\ j = m + (j - m) /\ i - m < j - m
        BY <1>1, <2>3
      <3>2. w[i] = b[i - m] /\ w[j] = b[j - m]
        BY <1>1, <3>1
      <3> QED
        BY <1>2, <3>1, <3>2
    <2> QED
      BY <2>1, <2>2, <2>3
  <1> QED
    BY <1>1, <1>3, <1>4 DEF w, m, n

AddRows(of, i, acc) == acc \o MarketRows(of[1][i], of[3], of[2])
Adding == INSTANCE FoldFacts WITH Op <- AddRows, Pick <- HighestOf

RowsSoFar(l, b, d, acc) ==
  /\ acc[0] = <<>>
  /\ \A i \in 1..Len(l) : acc[i] = acc[i - 1] \o MarketRows(l[i], d, b)

LEMMA RowsOfRuns ==
  ASSUME NEW markets \in SUBSET TickMarkets, NEW b,
         NEW l, l = SetToSeq(markets), NEW n \in Nat, l \in [1..n -> markets]
  PROVE  \E acc : RowsSoFar(l, b, day, acc) /\ RowsOf(markets, b) = acc[n]
  <1> DEFINE of == <<l, b, day>>
  <1>1. DOMAIN l = 1..n /\ Len(l) = n /\ l \in Seq(markets)
    OBVIOUS
  <1>2. \A s \in SUBSET (1..n) : HighestOf(s) = Adding!Highest(s)
    BY DEF HighestOf, Adding!Highest
  <1>3. RowsOf(markets, b) = Adding!Fold(of, <<>>, 1..n)
    BY <1>1 DEF RowsOf, FoldLeft, MapThenFoldSet, Max, HighestOf, Adding!Fold,
       Adding!Equation, AddRows
  <1>4. \A i, a : AddRows(of, i, a) = a \o MarketRows(l[i], day, b)
    BY DEF AddRows
  <1> HIDE DEF of
  <1> DEFINE none == <<>>
  <1> HIDE DEF none
  <1>5. PICK acc : Adding!Runs(of, none, n, acc)
    BY <1>1, <1>2, Adding!FoldRuns
  <1>6. RowsSoFar(l, b, day, acc) /\ RowsOf(markets, b) = acc[n]
    BY <1>1, <1>3, <1>4, <1>5 DEF Adding!Runs, RowsSoFar, none
  <1> QED
    BY <1>6

\* The rows prepared for a call are one of each token of its markets.
LEMMA RowsPrepared ==
  ASSUME NEW markets \in SUBSET TickMarkets, NEW b \in Nat, day \in Nat
  PROVE  /\ RowsOf(markets, b) \in Seq(TickRows) /\ Timely(RowsOf(markets, b))
         /\ \A i \in 1..Len(RowsOf(markets, b)) :
               RowsOf(markets, b)[i].ts = day /\ RowsOf(markets, b)[i].batch = b
  <1> DEFINE l == SetToSeq(markets)
             n == Cardinality(markets)
  <1>1. TickTokens \in Seq(Nat) /\ TickMarkets = 1..Len(TickTokens) /\ Len(TickTokens) \in Nat
    BY HistoryAssumption DEF TickMarkets
  <1>2. IsFiniteSet(markets)
    <2>1. IsFiniteSet(TickMarkets)
      BY <1>1, FS_Interval
    <2> QED
      BY <2>1, FS_Subset
  <1>3. /\ l \in [1..n -> markets] /\ n \in Nat
        /\ \A i, j \in 1..n : l[i] = l[j] => i = j
    BY <1>2, ListOfSet
  <1>4. Len(l) = n
    BY <1>3
  <1> HIDE DEF l, n
  <1>5. PICK acc : RowsSoFar(l, b, day, acc) /\ RowsOf(markets, b) = acc[n]
    BY <1>3, RowsOfRuns DEF l
  <1> DEFINE OfThe(r, k) == \E i \in 1..k : r.market = l[i]
             Fine(k) == /\ acc[k] \in Seq(TickRows) /\ Timely(acc[k])
                        /\ \A i \in 1..Len(acc[k]) : /\ acc[k][i].ts = day /\ acc[k][i].batch = b
                                                     /\ OfThe(acc[k][i], k)
             Good == {k \in 0..n : Fine(k)}
  <1>6. 0 \in Good
    <2>1. acc[0] = <<>> /\ 0 \in 0..n
      BY <1>3, <1>5 DEF RowsSoFar
    <2>2. acc[0] \in Seq(TickRows) /\ Len(acc[0]) = 0
      BY <2>1
    <2> HIDE DEF OfThe
    <2>3. Fine(0)
      BY <2>2 DEF Timely
    <2> QED
      BY <2>1, <2>3
  <1>7. \A k \in 1..n : k - 1 \in Good => k \in Good
    <2> SUFFICES ASSUME NEW k \in 1..n, k - 1 \in Good PROVE k \in Good
      OBVIOUS
    <2> DEFINE m == l[k]
               new == MarketRows(m, day, b)
               old == acc[k - 1]
    <2>1. m \in TickMarkets /\ TickTokens[m] \in Nat
      <3>1. l[k] \in markets
        BY <1>3
      <3>2. l[k] \in TickMarkets
        BY <3>1
      <3>3. \A x \in 1..Len(TickTokens) : TickTokens[x] \in Nat
        BY <1>1
      <3> QED
        BY <1>1, <3>2, <3>3
    <2>5. acc[k] = old \o new
      BY <1>4, <1>5 DEF RowsSoFar
    <2>4. Fine(k - 1)
      OBVIOUS
    <2> HIDE DEF m, Good
    <2>2. /\ new \in Seq(TickRows) /\ Len(new) = TickTokens[m]
          /\ \A i \in 1..Len(new) : new[i] = [market |-> m, token |-> i, ts |-> day, batch |-> b]
      <3>1. new = [t \in 1..TickTokens[m] |-> [market |-> m, token |-> t, ts |-> day, batch |-> b]]
        BY DEF MarketRows
      <3>2. \A t \in 1..TickTokens[m] :
               [market |-> m, token |-> t, ts |-> day, batch |-> b] \in TickRows
        BY <2>1 DEF TickRows
      <3>3. Len(new) = TickTokens[m] /\ DOMAIN new = 1..TickTokens[m]
        BY <2>1, <3>1
      <3>4. \A i \in 1..Len(new) : new[i] = [market |-> m, token |-> i, ts |-> day, batch |-> b]
        BY <3>1, <3>3
      <3>5. new \in Seq(TickRows)
        BY <2>1, <3>1, <3>2
      <3> QED
        BY <3>3, <3>4, <3>5
    <2> HIDE DEF new
    <2>12. \A i \in 1..Len(new) : /\ new[i].market = m /\ new[i].token = i
                                  /\ new[i].ts = day /\ new[i].batch = b
      <3> SUFFICES ASSUME NEW i \in 1..Len(new)
                   PROVE  /\ new[i].market = m /\ new[i].token = i
                          /\ new[i].ts = day /\ new[i].batch = b
        OBVIOUS
      <3> DEFINE r == [market |-> m, token |-> i, ts |-> day, batch |-> b]
      <3>1. new[i] = r
        BY <2>2
      <3>2. r.market = m /\ r.token = i /\ r.ts = day /\ r.batch = b
        OBVIOUS
      <3> HIDE DEF r
      <3> QED
        BY <3>1, <3>2
    <2>3. Timely(new)
      <3> SUFFICES ASSUME NEW i \in 1..Len(new), NEW j \in 1..Len(new), i < j
                   PROVE  Before(new[i], new[j])
        BY DEF Timely
      <3> QED
        BY <2>12 DEF Before, Cell
    <2>6. Precede(old, new)
      <3> SUFFICES ASSUME NEW i \in 1..Len(old), NEW j \in 1..Len(new)
                   PROVE  Before(old[i], new[j])
        BY DEF Precede
      <3>1. old[i].ts = day /\ old[i].batch = b /\ OfThe(old[i], k - 1)
        BY <2>4
      <3>2. PICK p \in 1..(k - 1) : old[i].market = l[p]
        BY <3>1
      <3>3. l[p] # l[k]
        BY <1>3
      <3>4. new[j].ts = day /\ new[j].batch = b /\ new[j].market = m
        BY <2>12
      <3> QED
        BY <3>1, <3>2, <3>3, <3>4 DEF Before, Cell, m
    <2> DEFINE w == acc[k]
    <2>7. /\ w \in Seq(TickRows) /\ Timely(w) /\ Len(w) = Len(old) + Len(new)
          /\ \A i \in 1..Len(old) : w[i] = old[i]
          /\ \A i \in 1..Len(new) : w[Len(old) + i] = new[i]
          /\ \A q \in 1..Len(w) : \/ q \in 1..Len(old)
                                  \/ q - Len(old) \in 1..Len(new) /\ q = Len(old) + (q - Len(old))
      <3>1. old \in Seq(TickRows) /\ Timely(old)
        BY <2>4
      <3>2. w = old \o new
        BY <2>5
      <3> HIDE DEF old, w
      <3> QED
        BY <2>2, <2>3, <2>6, <3>1, <3>2, RowsJoined
    <2>8. \A i \in 1..Len(old) : OfThe(old[i], k)
      BY <2>4
    <2>9. \A i \in 1..Len(new) : OfThe(new[i], k)
      BY <2>12 DEF m
    <2> HIDE DEF OfThe, w, old
    <2>10. ASSUME NEW q \in 1..Len(w)
           PROVE  w[q].ts = day /\ w[q].batch = b /\ OfThe(w[q], k)
      <3>1. CASE q \in 1..Len(old)
        BY <2>4, <2>7, <2>8, <3>1 DEF old
      <3>2. CASE q \notin 1..Len(old)
        <4>1. PICK i \in 1..Len(new) : w[q] = new[i]
          BY <2>7, <3>2
        <4> QED
          BY <2>9, <2>12, <4>1
      <3> QED
        BY <3>1, <3>2
    <2>11. Fine(k)
      BY <2>7, <2>10 DEF w
    <2> QED
      BY <2>11 DEF Good
  <1> HIDE DEF Good
  <1>8. n \in Good
    BY <1>3, <1>6, <1>7, Adding!UpToInduction
  <1> QED
    BY <1>5, <1>8 DEF Good

CountIn(a, x) == Cardinality({i \in 1..Len(a) : a[i].batch = x})

\* What is kept of a table that is in order is in order.
LEMMA RowsKept ==
  ASSUME NEW a \in Seq(TickRows), NEW T
  PROVE  /\ Kept(a, T) \in Seq(TickRows)
         /\ \E place : Keeping!KeptFrom(a, T, Len(a), Kept(a, T), place)
         /\ \A i \in 1..Len(Kept(a, T)) : \E j \in 1..Len(a) : Kept(a, T)[i] = a[j] /\ a[j] \in T
         /\ Timely(a) => Timely(Kept(a, T))
  <1> DEFINE w == Kept(a, T)
  <1>1. /\ w = Keeping!KeptOf(a, T) /\ Keeping!Keeps(a, T)
        /\ \A n \in Nat : \A s \in SUBSET (1..n) : HighestOf(s) = Keeping!Highest(s)
    BY KeptIsFold
  <1>2. PICK place : Keeping!KeptFrom(a, T, Len(a), w, place)
    BY <1>1, Keeping!KeptPlaces
  <1>3. w \in Seq(TickRows \cap T)
    BY <1>1, Keeping!KeptType
  <1>4. w \in Seq(TickRows)
    <2> HIDE DEF w
    <2>1. Len(w) \in Nat /\ \A i \in 1..Len(w) : w[i] \in TickRows
      BY <1>3
    <2> QED
      BY <1>3, <2>1
  <1> HIDE DEF w
  <1>5. /\ \A i \in 1..Len(w) : place[i] \in 1..Len(a) /\ w[i] = a[place[i]] /\ a[place[i]] \in T
        /\ \A i, j \in 1..Len(w) : i < j => place[i] < place[j]
    BY <1>2 DEF Keeping!KeptFrom
  <1>6. Timely(a) => Timely(w)
    BY <1>5 DEF Timely
  <1> QED
    BY <1>2, <1>4, <1>5, <1>6 DEF w

Joined(a, b, w) == /\ Len(w) = Len(a) + Len(b) /\ \A i \in 1..Len(a) : w[i] = a[i]
                   /\ \A i \in 1..Len(b) : w[Len(a) + i] = b[i]
NoneOf(a, x) == \A i \in 1..Len(a) : a[i].batch # x
AllOf(a, x) == \A i \in 1..Len(a) : a[i].batch = x

LEMMA CountJoined ==
  ASSUME NEW a \in Seq(TickRows), NEW b \in Seq(TickRows), NEW w \in Seq(TickRows), NEW x,
         Joined(a, b, w)
  PROVE  /\ NoneOf(b, x) => CountIn(w, x) = CountIn(a, x)
         /\ NoneOf(a, x) /\ AllOf(b, x) => CountIn(w, x) = Len(b)
  <1> DEFINE m == Len(a)
             n == Len(b)
             C == {i \in 1..Len(w) : w[i].batch = x}
  <1>1. m \in Nat /\ n \in Nat /\ Len(w) = m + n
        /\ (\A i \in 1..m : w[i] = a[i]) /\ (\A i \in 1..n : w[m + i] = b[i])
    BY DEF Joined
  <1>2. \A k \in 1..(m + n) : k \in 1..m \/ (k - m \in 1..n /\ k = m + (k - m))
    <2> HIDE DEF m, n
    <2> QED
      BY <1>1
  <1>3. \A i \in 1..m : i \in 1..(m + n)
    <2> HIDE DEF m, n
    <2> QED
      BY <1>1
  <1> HIDE DEF m, n
  <1>4. ASSUME \A i \in 1..n : b[i].batch # x
        PROVE  C = {i \in 1..m : a[i].batch = x}
    <2>1. \A k \in 1..(m + n) : w[k].batch = x => k \in 1..m
      <3> SUFFICES ASSUME NEW k \in 1..(m + n), k \notin 1..m PROVE w[k].batch # x
        OBVIOUS
      <3>1. k - m \in 1..n /\ w[k] = b[k - m]
        BY <1>1, <1>2
      <3> QED
        BY <1>4, <3>1
    <2> QED
      BY <1>1, <1>3, <2>1
  <1>5. ASSUME \A i \in 1..m : a[i].batch # x, \A i \in 1..n : b[i].batch = x
        PROVE  Cardinality(C) = n
    <2>1. C = (m + 1)..(m + n)
      <3>1. \A k \in 1..(m + n) : w[k].batch = x <=> k \notin 1..m
        <4> SUFFICES ASSUME NEW k \in 1..(m + n) PROVE w[k].batch = x <=> k \notin 1..m
          OBVIOUS
        <4>1. CASE k \in 1..m
          BY <1>1, <1>5, <4>1
        <4>2. CASE k \notin 1..m
          <5>1. k - m \in 1..n /\ w[k] = b[k - m]
            BY <1>1, <1>2, <4>2
          <5> QED
            BY <1>5, <4>2, <5>1
        <4> QED
          BY <4>1, <4>2
      <3>2. C = {k \in 1..(m + n) : k \notin 1..m}
        BY <1>1, <3>1
      <3> HIDE DEF C
      <3> QED
        BY <1>1, <3>2
    <2> HIDE DEF C
    <2>2. Cardinality((m + 1)..(m + n)) = IF m + 1 > m + n THEN 0 ELSE (m + n) - (m + 1) + 1
      <3>1. m + 1 \in Int /\ m + n \in Int
        BY <1>1
      <3> QED
        BY <3>1, FS_Interval
    <2> QED
      BY <1>1, <2>1, <2>2
  <1> QED
    BY <1>4, <1>5 DEF CountIn, NoneOf, AllOf, m, n

LEMMA CountKept ==
  ASSUME NEW a \in Seq(TickRows), NEW T, NEW x,
         \A i \in 1..Len(a) : a[i].batch = x => a[i] \in T
  PROVE  CountIn(Kept(a, T), x) = CountIn(a, x)
  <1> DEFINE w == Kept(a, T)
  <1>1. PICK place : Keeping!KeptFrom(a, T, Len(a), w, place)
    BY RowsKept
  <1>2. w \in Seq(TickRows)
    BY RowsKept
  <1> HIDE DEF w
  <1> DEFINE C == {i \in 1..Len(w) : w[i].batch = x}
             D == {i \in 1..Len(a) : a[i].batch = x}
             f == [i \in C |-> place[i]]
  <1>3. /\ \A i \in 1..Len(w) : place[i] \in 1..Len(a) /\ w[i] = a[place[i]]
        /\ \A i, j \in 1..Len(w) : i < j => place[i] < place[j]
        /\ \A p \in 1..Len(a) : a[p] \in T => \E i \in 1..Len(w) : place[i] = p
    BY <1>1 DEF Keeping!KeptFrom
  <1>4. \A i, j \in 1..Len(w) : place[i] = place[j] => i = j
    <2> SUFFICES ASSUME NEW i \in 1..Len(w), NEW j \in 1..Len(w), place[i] = place[j] PROVE i = j
      OBVIOUS
    <2>1. place[i] \in Int
      BY <1>3
    <2>2. ~(i < j) /\ ~(j < i)
      BY <1>3, <2>1
    <2> QED
      BY <1>2, <2>2
  <1>5. f \in Bijection(C, D)
    <2>1. f \in [C -> D]
      BY <1>3
    <2>2. \A i, j \in C : f[i] = f[j] => i = j
      BY <1>4
    <2>3. \A p \in D : \E i \in C : f[i] = p
      <3> SUFFICES ASSUME NEW p \in D PROVE \E i \in C : f[i] = p
        OBVIOUS
      <3>1. PICK i \in 1..Len(w) : place[i] = p
        BY <1>3
      <3>2. i \in C
        BY <1>3, <3>1
      <3> QED
        BY <3>1, <3>2
    <2> QED
      BY <2>1, <2>2, <2>3 DEF Bijection, Injection, Surjection, IsInjective
  <1>6. IsFiniteSet(C)
    <2>1. IsFiniteSet(1..Len(w)) /\ C \in SUBSET (1..Len(w))
      BY <1>2, FS_Interval
    <2> QED
      BY <2>1, FS_Subset
  <1> HIDE DEF C, D, f
  <1>7. Cardinality(C) = Cardinality(D)
    BY <1>5, <1>6, FS_Bijection DEF ExistsBijection
  <1> QED
    BY <1>7 DEF CountIn, C, D, w

HistTypes ==
  /\ rows \in Seq(TickRows) /\ staged \in Seq(TickRows) /\ todo \in Seq(TickRows)
  /\ day \in Nat /\ batches \in Nat /\ swept \in Nat
  /\ writing \in {"none", "one", "many"}
  /\ kept \in SUBSET [batch : Nat, ts : Nat, size : Nat] /\ dropped \in SUBSET Nat

OrderInv ==
  /\ Timely(rows) /\ Timely(staged) /\ Timely(todo)
  /\ Precede(rows, staged) /\ Precede(rows, todo) /\ Precede(staged, todo)

OfThisCall(r) == r.ts = day /\ r.batch = batches

\* Rows are in the order of the calls that recorded them, those under way last; a
\* batch is in the table whole or not at all, until a cleanup.
HistInv ==
  /\ HistTypes /\ OrderInv
  /\ \A i \in 1..Len(rows) : /\ rows[i].ts <= day /\ rows[i].ts >= swept
                             /\ rows[i].batch <= batches /\ rows[i].batch \notin dropped
                             /\ writing = "many" => rows[i].batch # batches
  /\ \A i \in 1..Len(staged) : OfThisCall(staged[i])
  /\ \A i \in 1..Len(todo) : OfThisCall(todo[i])
  /\ swept = 0 \/ swept <= day - Retention
  /\ writing # "many" => staged = <<>>
  /\ writing = "none" => todo = <<>>
  /\ writing # "none" => batches \notin dropped /\ \A k \in kept : k.batch # batches
  /\ \A k \in kept : /\ k.batch <= batches
                     /\ \A i \in 1..Len(rows) : rows[i].batch = k.batch => rows[i].ts = k.ts
                     /\ k.ts >= swept => CountIn(rows, k.batch) = k.size
  /\ \A d \in dropped : d <= batches

LEMMA HistoryIsKept == HistInv => HistoryKept
  <1> SUFFICES ASSUME HistInv PROVE HistoryKept
    OBVIOUS
  <1>1. rows \in Seq(TickRows) /\ DOMAIN rows = 1..Len(rows)
    BY DEF HistInv, HistTypes
  <1>2. \A x : Count(x) = CountIn(rows, x)
    BY <1>1 DEF Count, CountIn
  <1> QED
    BY <1>1, <1>2 DEF HistInv, HistoryKept

LEMMA HistoryInitially == TickInit => HistInv
  <1> SUFFICES ASSUME TickInit PROVE HistInv
    OBVIOUS
  <1> DEFINE none == <<>>
  <1>1. none \in Seq(TickRows) /\ Len(none) = 0
    OBVIOUS
  <1>2. rows = none /\ staged = none /\ todo = none
    BY DEF TickInit
  <1> HIDE DEF none
  <1>3. 1..0 = {}
    OBVIOUS
  <1>4. Timely(none) /\ Precede(none, none)
    BY <1>1, <1>3 DEF Timely, Precede
  <1>5. staged = <<>> /\ todo = <<>>
    BY DEF TickInit
  <1>6. day = 0 /\ batches = 0 /\ kept = {} /\ dropped = {} /\ swept = 0 /\ writing = "none"
    BY DEF TickInit
  <1>7. HistTypes /\ OrderInv
    BY <1>1, <1>2, <1>4, <1>6 DEF HistTypes, OrderInv
  <1> QED
    BY <1>1, <1>2, <1>3, <1>5, <1>6, <1>7 DEF HistInv

LEMMA RecordKeepsHistory ==
  ASSUME HistInv, NEW markets \in SUBSET TickMarkets, NEW how \in {"one", "many"},
         RecordTicks(markets, how)
  PROVE  HistInv'
  <1> DEFINE new == RowsOf(markets, batches + 1)
  <1>1. /\ writing = "none" /\ writing' = how /\ todo' = new /\ batches' = batches + 1
        /\ UNCHANGED <<rows, staged, day, kept, dropped, swept>>
    BY DEF RecordTicks
  <1>2. HistTypes /\ OrderInv /\ day \in Nat /\ batches \in Nat /\ staged = <<>> /\ rows \in Seq(TickRows)
    BY <1>1 DEF HistInv, HistTypes
  <1>3. batches + 1 \in Nat
    BY <1>2
  <1>4. /\ new \in Seq(TickRows) /\ Timely(new)
        /\ \A i \in 1..Len(new) : new[i].ts = day /\ new[i].batch = batches + 1
    BY <1>2, <1>3, RowsPrepared
  <1> HIDE DEF new
  <1>5. Len(staged) = 0 /\ 1..0 = {}
    BY <1>2
  <1>6. \A i \in 1..Len(rows) : /\ rows[i].ts <= day /\ rows[i].batch <= batches
                                /\ rows[i].ts \in Nat /\ rows[i].batch \in Nat
    BY <1>2 DEF HistInv, TickRows
  <1>7. Precede(rows, new) /\ Precede(staged, new)
    <2>1. ASSUME NEW i \in 1..Len(rows), NEW j \in 1..Len(new) PROVE Before(rows[i], new[j])
      <3>1. new[j].ts = day /\ new[j].batch = batches + 1
        BY <1>4
      <3>2. rows[i].ts <= day /\ rows[i].batch <= batches /\ rows[i].batch \in Nat
        BY <1>6
      <3>3. rows[i].batch < batches + 1
        BY <1>2, <3>2
      <3> QED
        BY <1>2, <3>1, <3>2, <3>3 DEF Before, Cell
    <2> QED
      BY <1>5, <2>1 DEF Precede
  <1>8. HistTypes' /\ OrderInv'
    BY <1>1, <1>2, <1>3, <1>4, <1>7 DEF HistTypes, OrderInv
  <1>9. \A i \in 1..Len(rows) : rows[i].batch <= batches + 1 /\ rows[i].batch # batches + 1
    BY <1>2, <1>6
  <1>10. \A k \in kept : k.batch <= batches + 1 /\ k.batch # batches + 1
    <2> SUFFICES ASSUME NEW k \in kept PROVE k.batch <= batches + 1 /\ k.batch # batches + 1
      OBVIOUS
    <2>1. k.batch \in Nat /\ k.batch <= batches
      BY <1>2 DEF HistInv, HistTypes
    <2> QED
      BY <1>2, <2>1
  <1>11. batches + 1 \notin dropped /\ \A d \in dropped : d <= batches + 1
    <2>1. \A d \in dropped : d \in Nat /\ d <= batches
      BY DEF HistInv, HistTypes
    <2> QED
      BY <1>2, <2>1
  <1>12. \A i \in 1..Len(todo') : OfThisCall(todo[i])'
    BY <1>1, <1>4 DEF OfThisCall
  <1>13. \A i \in 1..Len(staged') : OfThisCall(staged[i])'
    BY <1>1, <1>5
  <1>14. writing' # "none" /\ staged' = <<>>
    BY <1>1, <1>2
  <1>15. \A k \in kept : /\ \A i \in 1..Len(rows) : rows[i].batch = k.batch => rows[i].ts = k.ts
                         /\ k.ts >= swept => CountIn(rows, k.batch) = k.size
    BY DEF HistInv
  <1>16. \A i \in 1..Len(rows) : rows[i].ts >= swept /\ rows[i].batch \notin dropped
    BY DEF HistInv
  <1>17. swept = 0 \/ swept <= day - Retention
    BY DEF HistInv
  <1> QED
    BY <1>1, <1>6, <1>8, <1>9, <1>10, <1>11, <1>12, <1>13, <1>14, <1>15, <1>16, <1>17 DEF HistInv

LEMMA InsertKeepsHistory ==
  ASSUME HistInv, InsertTick
  PROVE  HistInv'
  <1> DEFINE x == Head(todo)
             rest == Tail(todo)
  <1>1. /\ todo # <<>> /\ todo' = rest
        /\ UNCHANGED <<writing, day, batches, kept, dropped, swept>>
    BY DEF InsertTick
  <1>2. HistTypes /\ OrderInv /\ day \in Nat /\ batches \in Nat
        /\ rows \in Seq(TickRows) /\ staged \in Seq(TickRows) /\ todo \in Seq(TickRows)
    BY DEF HistInv, HistTypes
  <1>3. /\ x \in TickRows /\ x = todo[1] /\ rest \in Seq(TickRows) /\ Timely(rest)
        /\ Len(rest) = Len(todo) - 1 /\ Len(todo) >= 1 /\ Len(todo) \in Nat
        /\ \A i \in 1..Len(rest) : rest[i] = todo[i + 1] /\ Before(x, rest[i])
    BY <1>1, <1>2, RowTaken DEF OrderInv
  <1> HIDE DEF x, rest
  <1>4. 1 \in 1..Len(todo) /\ \A i \in 1..Len(rest) : i + 1 \in 1..Len(todo)
    BY <1>3
  <1>5. OfThisCall(x) /\ \A i \in 1..Len(rest) : OfThisCall(rest[i])
    BY <1>3, <1>4 DEF HistInv
  <1>6. /\ \A i \in 1..Len(rows) : Before(rows[i], x)
        /\ \A i \in 1..Len(staged) : Before(staged[i], x)
        /\ Precede(rows, rest) /\ Precede(staged, rest)
    BY <1>2, <1>3, <1>4 DEF OrderInv, Precede
  <1>7. \A i \in 1..Len(todo') : OfThisCall(todo[i])'
    BY <1>1, <1>5 DEF OfThisCall
  <1>8. writing # "none"
    BY <1>1 DEF HistInv
  <1>9. CASE writing = "many"
    <2> DEFINE w == Append(staged, x)
    <2>1. staged' = w /\ rows' = rows
      BY <1>9 DEF InsertTick, x
    <2>2. /\ w \in Seq(TickRows) /\ Timely(w) /\ Len(w) = Len(staged) + 1 /\ w[Len(staged) + 1] = x
          /\ \A i \in 1..Len(staged) : w[i] = staged[i]
      BY <1>2, <1>3, <1>6, RowAdded DEF OrderInv
    <2> HIDE DEF w
    <2>3. \A i \in 1..Len(w) : i \in 1..Len(staged) \/ i = Len(staged) + 1
      BY <1>2, <2>2
    <2>4. Precede(rows, w) /\ Precede(w, rest)
      <3>1. ASSUME NEW i \in 1..Len(rows), NEW j \in 1..Len(w) PROVE Before(rows[i], w[j])
        BY <1>2, <1>6, <2>2, <2>3 DEF OrderInv, Precede
      <3>2. ASSUME NEW i \in 1..Len(w), NEW j \in 1..Len(rest) PROVE Before(w[i], rest[j])
        BY <1>3, <1>6, <2>2, <2>3 DEF Precede
      <3> QED
        BY <3>1, <3>2 DEF Precede
    <2>5. HistTypes' /\ OrderInv'
      BY <1>1, <1>2, <1>3, <1>6, <2>1, <2>2, <2>4 DEF HistTypes, OrderInv
    <2>6. \A i \in 1..Len(w) : OfThisCall(w[i])
      BY <1>5, <2>2, <2>3 DEF HistInv
    <2>7. \A i \in 1..Len(staged') : OfThisCall(staged[i])'
      BY <1>1, <2>6, <2>1 DEF OfThisCall
    <2> QED
      BY <1>1, <1>7, <1>8, <1>9, <2>1, <2>5, <2>7 DEF HistInv
  <1>10. CASE writing # "many"
    <2> DEFINE w == Append(rows, x)
    <2>1. staged' = staged /\ rows' = w /\ staged = <<>>
      BY <1>10 DEF InsertTick, x, HistInv
    <2>2. /\ w \in Seq(TickRows) /\ Timely(w) /\ Len(w) = Len(rows) + 1 /\ w[Len(rows) + 1] = x
          /\ \A i \in 1..Len(rows) : w[i] = rows[i]
      BY <1>2, <1>3, <1>6, RowAdded DEF OrderInv
    <2> HIDE DEF w
    <2>3. \A i \in 1..Len(w) : i \in 1..Len(rows) \/ i = Len(rows) + 1
      BY <1>2, <2>2
    <2>4. Len(staged) = 0 /\ 1..0 = {}
      BY <2>1
    <2>5. Precede(w, rest) /\ Precede(w, staged)
      <3>1. ASSUME NEW i \in 1..Len(w), NEW j \in 1..Len(rest) PROVE Before(w[i], rest[j])
        BY <1>3, <1>6, <2>2, <2>3 DEF Precede
      <3> QED
        BY <2>4, <3>1 DEF Precede
    <2>6. HistTypes' /\ OrderInv'
      BY <1>1, <1>2, <1>3, <1>6, <2>1, <2>2, <2>5 DEF HistTypes, OrderInv
    <2>7. x.ts = day /\ x.batch = batches /\ day >= swept /\ batches \notin dropped
      <3>1. Retention \in Nat /\ swept \in Nat /\ (swept = 0 \/ swept <= day - Retention)
        BY HistoryAssumption DEF HistInv, HistTypes
      <3> QED
        BY <1>2, <1>5, <1>8, <3>1 DEF OfThisCall, HistInv
    <2>8. \A i \in 1..Len(rows) : /\ rows[i].ts <= day /\ rows[i].ts >= swept
                                  /\ rows[i].batch <= batches /\ rows[i].batch \notin dropped
      BY DEF HistInv
    <2>9. \A i \in 1..Len(w) : /\ w[i].ts <= day /\ w[i].ts >= swept
                               /\ w[i].batch <= batches /\ w[i].batch \notin dropped
      <3> SUFFICES ASSUME NEW i \in 1..Len(w)
                   PROVE  /\ w[i].ts <= day /\ w[i].ts >= swept
                          /\ w[i].batch <= batches /\ w[i].batch \notin dropped
        OBVIOUS
      <3>1. CASE i \in 1..Len(rows)
        BY <2>2, <2>8, <3>1
      <3>2. CASE i = Len(rows) + 1
        BY <1>2, <2>2, <2>7, <3>2
      <3> QED
        BY <2>3, <3>1, <3>2
    <2>10. \A k \in kept : CountIn(w, k.batch) = CountIn(rows, k.batch)
      <3> SUFFICES ASSUME NEW k \in kept PROVE CountIn(w, k.batch) = CountIn(rows, k.batch)
        OBVIOUS
      <3> DEFINE b == <<x>>
                 y == k.batch
      <3>1. y # x.batch
        BY <1>8, <2>7 DEF HistInv
      <3>2. b \in Seq(TickRows) /\ Len(b) = 1 /\ b[1] = x /\ \A i \in 1..1 : i = 1
        BY <1>3
      <3> HIDE DEF b, y
      <3>3. NoneOf(b, y)
        BY <3>1, <3>2 DEF NoneOf
      <3>4. Joined(rows, b, w)
        BY <2>2, <3>2 DEF Joined
      <3>5. CountIn(w, y) = CountIn(rows, y)
        BY <1>2, <2>2, <3>2, <3>3, <3>4, CountJoined
      <3> QED
        BY <3>5 DEF y
    <2>11. \A k \in kept : \A i \in 1..Len(w) : w[i].batch = k.batch => w[i].ts = k.ts
      <3> SUFFICES ASSUME NEW k \in kept, NEW i \in 1..Len(w), w[i].batch = k.batch
                   PROVE  w[i].ts = k.ts
        OBVIOUS
      <3>1. k.batch # batches
        BY <1>8 DEF HistInv
      <3>2. i \in 1..Len(rows)
        BY <2>2, <2>3, <2>7, <3>1
      <3> QED
        BY <2>2, <3>2 DEF HistInv
    <2>12. \A i \in 1..Len(staged') : OfThisCall(staged[i])'
      BY <2>1, <2>4
    <2> QED
      BY <1>1, <1>7, <1>8, <1>10, <2>1, <2>6, <2>9, <2>10, <2>11, <2>12 DEF HistInv
  <1> QED
    BY <1>9, <1>10

LEMMA CommitKeepsHistory ==
  ASSUME HistInv, CommitTicks
  PROVE  HistInv'
  <1> DEFINE w == rows \o staged
             none == <<>>
  <1>1. /\ writing # "none" /\ todo = none /\ rows' = w /\ staged' = none /\ writing' = "none"
        /\ kept' = (IF writing = "many"
                    THEN kept \cup {[batch |-> batches, ts |-> day, size |-> Len(staged)]}
                    ELSE kept)
        /\ UNCHANGED <<todo, day, batches, dropped, swept>>
    BY DEF CommitTicks
  <1>2. HistTypes /\ OrderInv /\ day \in Nat /\ batches \in Nat
        /\ rows \in Seq(TickRows) /\ staged \in Seq(TickRows) /\ Len(staged) \in Nat
    BY DEF HistInv, HistTypes
  <1>3. /\ w \in Seq(TickRows) /\ Timely(w)
        /\ \A k \in 1..Len(w) : \/ k \in 1..Len(rows) /\ w[k] = rows[k]
                                \/ \E j \in 1..Len(staged) : w[k] = staged[j]
        /\ Joined(rows, staged, w)
    <2>1. Timely(rows) /\ Timely(staged) /\ Precede(rows, staged)
      BY <1>2 DEF OrderInv
    <2>2. /\ w \in Seq(TickRows) /\ Timely(w) /\ Len(w) = Len(rows) + Len(staged)
          /\ \A i \in 1..Len(rows) : w[i] = rows[i]
          /\ \A i \in 1..Len(staged) : w[Len(rows) + i] = staged[i]
          /\ \A k \in 1..Len(w) : \/ k \in 1..Len(rows)
                                  \/ k - Len(rows) \in 1..Len(staged) /\ k = Len(rows) + (k - Len(rows))
      BY <1>2, <2>1, RowsJoined
    <2> HIDE DEF w
    <2> QED
      BY <2>2 DEF Joined
  <1> HIDE DEF w
  <1>4. none \in Seq(TickRows) /\ Len(none) = 0 /\ 1..0 = {}
    OBVIOUS
  <1>5. todo' = none /\ writing' = "none" /\ staged' = <<>> /\ todo' = <<>>
    BY <1>1
  <1> HIDE DEF none
  <1>6. OrderInv'
    BY <1>1, <1>3, <1>4, <1>5 DEF OrderInv, Timely, Precede
  <1>7. HistTypes'
    <2> DEFINE k == [batch |-> batches, ts |-> day, size |-> Len(staged)]
    <2>1. k \in [batch : Nat, ts : Nat, size : Nat]
      BY <1>2
    <2>2. kept' = IF writing = "many" THEN kept \cup {k} ELSE kept
      BY <1>1
    <2> HIDE DEF k
    <2>3. kept' \in SUBSET [batch : Nat, ts : Nat, size : Nat]
      BY <1>2, <2>1, <2>2 DEF HistTypes
    <2> QED
      BY <1>1, <1>2, <1>3, <1>4, <1>5, <2>3 DEF HistTypes
  <1>8. \A j \in 1..Len(staged) : staged[j].ts = day /\ staged[j].batch = batches
    BY DEF HistInv, OfThisCall
  <1>9. day >= swept /\ batches \notin dropped /\ \A k \in kept : k.batch # batches
    <2>1. Retention \in Nat /\ swept \in Nat /\ (swept = 0 \/ swept <= day - Retention)
      BY HistoryAssumption DEF HistInv, HistTypes
    <2> QED
      BY <1>1, <1>2, <2>1 DEF HistInv
  <1>10. \A i \in 1..Len(w) : /\ w[i].ts <= day /\ w[i].ts >= swept
                              /\ w[i].batch <= batches /\ w[i].batch \notin dropped
    <2> SUFFICES ASSUME NEW i \in 1..Len(w)
                 PROVE  /\ w[i].ts <= day /\ w[i].ts >= swept
                        /\ w[i].batch <= batches /\ w[i].batch \notin dropped
      OBVIOUS
    <2>1. CASE i \in 1..Len(rows) /\ w[i] = rows[i]
      BY <2>1 DEF HistInv
    <2>2. CASE \E j \in 1..Len(staged) : w[i] = staged[j]
      BY <1>2, <1>8, <1>9, <2>2
    <2> QED
      BY <1>3, <2>1, <2>2
  <1>11. ASSUME NEW k \in kept
         PROVE  /\ k.batch <= batches
                /\ \A i \in 1..Len(w) : w[i].batch = k.batch => w[i].ts = k.ts
                /\ k.ts >= swept => CountIn(w, k.batch) = k.size
    <2> DEFINE y == k.batch
    <2>1. y # batches /\ y <= batches
      BY <1>9 DEF HistInv
    <2>2. \A i \in 1..Len(w) : w[i].batch = y => i \in 1..Len(rows) /\ w[i] = rows[i]
      BY <1>3, <1>8, <2>1
    <2>3. \A i \in 1..Len(rows) : rows[i].batch = y => rows[i].ts = k.ts
      BY DEF HistInv
    <2>4. k.ts >= swept => CountIn(rows, y) = k.size
      BY DEF HistInv
    <2> HIDE DEF y
    <2>5. NoneOf(staged, y)
      BY <1>8, <2>1 DEF NoneOf
    <2>6. CountIn(w, y) = CountIn(rows, y)
      BY <1>2, <1>3, <2>5, CountJoined
    <2> QED
      BY <2>1, <2>2, <2>3, <2>4, <2>6 DEF y
  <1>12. ASSUME writing = "many"
         PROVE  /\ CountIn(w, batches) = Len(staged)
                /\ \A i \in 1..Len(w) : w[i].batch = batches => w[i].ts = day
    <2>1. NoneOf(rows, batches) /\ AllOf(staged, batches)
      BY <1>8, <1>12 DEF NoneOf, AllOf, HistInv
    <2>2. CountIn(w, batches) = Len(staged)
      BY <1>2, <1>3, <2>1, CountJoined
    <2>3. \A i \in 1..Len(w) : w[i].batch = batches => w[i].ts = day
      BY <1>3, <1>8, <2>1 DEF NoneOf
    <2> QED
      BY <2>2, <2>3
  <1>13. \A k \in kept' : /\ k.batch <= batches
                          /\ \A i \in 1..Len(w) : w[i].batch = k.batch => w[i].ts = k.ts
                          /\ k.ts >= swept => CountIn(w, k.batch) = k.size
    <2> SUFFICES ASSUME NEW k \in kept'
                 PROVE  /\ k.batch <= batches
                        /\ \A i \in 1..Len(w) : w[i].batch = k.batch => w[i].ts = k.ts
                        /\ k.ts >= swept => CountIn(w, k.batch) = k.size
      OBVIOUS
    <2>1. CASE k \in kept
      BY <1>11, <2>1
    <2>2. CASE k \notin kept
      <3>1. writing = "many" /\ k = [batch |-> batches, ts |-> day, size |-> Len(staged)]
        BY <1>1, <2>2
      <3>2. k.batch = batches /\ k.ts = day /\ k.size = Len(staged)
        BY <3>1
      <3> QED
        BY <1>2, <1>12, <3>1, <3>2
    <2> QED
      BY <2>1, <2>2
  <1>14. \A d \in dropped : d <= batches
    BY DEF HistInv
  <1>15. swept = 0 \/ swept <= day - Retention
    BY DEF HistInv
  <1>16. /\ \A i \in 1..Len(rows') : /\ rows'[i].ts <= day /\ rows'[i].ts >= swept
                                     /\ rows'[i].batch <= batches /\ rows'[i].batch \notin dropped
         /\ \A k \in kept' : /\ k.batch <= batches
                             /\ \A i \in 1..Len(rows') : rows'[i].batch = k.batch => rows'[i].ts = k.ts
                             /\ k.ts >= swept => CountIn(rows', k.batch) = k.size
    BY <1>1, <1>10, <1>13
  <1>17. \A i \in 1..Len(todo') : OfThisCall(todo[i])'
    BY <1>4, <1>5
  <1>18. \A i \in 1..Len(staged') : OfThisCall(staged[i])'
    BY <1>1, <1>4
  <1> QED
    BY <1>1, <1>5, <1>6, <1>7, <1>14, <1>15, <1>16, <1>17, <1>18 DEF HistInv, CountIn

LEMMA RollbackKeepsHistory ==
  ASSUME HistInv, Rollback
  PROVE  HistInv'
  <1> DEFINE none == <<>>
  <1>1. /\ writing # "none" /\ staged' = none /\ todo' = none /\ writing' = "none"
        /\ staged' = <<>> /\ todo' = <<>>
        /\ dropped' = IF writing = "many" THEN dropped \cup {batches} ELSE dropped
        /\ UNCHANGED <<rows, day, batches, kept, swept>>
    BY DEF Rollback
  <1>2. HistTypes /\ OrderInv /\ batches \in Nat
    BY DEF HistInv, HistTypes
  <1>3. none \in Seq(TickRows) /\ Len(none) = 0 /\ 1..0 = {}
    OBVIOUS
  <1> HIDE DEF none
  <1>4. OrderInv' /\ HistTypes'
    BY <1>1, <1>2, <1>3 DEF OrderInv, HistTypes, Timely, Precede
  <1>5. \A i \in 1..Len(rows) : rows[i].batch \notin dropped'
    BY <1>1 DEF HistInv
  <1>6. \A d \in dropped' : d <= batches
    BY <1>1, <1>2 DEF HistInv
  <1>7. \A i \in 1..Len(todo') : OfThisCall(todo[i])'
    BY <1>1, <1>3
  <1>8. \A i \in 1..Len(staged') : OfThisCall(staged[i])'
    BY <1>1, <1>3
  <1> QED
    BY <1>1, <1>4, <1>5, <1>6, <1>7, <1>8 DEF HistInv, CountIn

LEMMA CleanupKeepsHistory ==
  ASSUME HistInv, Cleanup
  PROVE  HistInv'
  <1> DEFINE T == {r \in ToSet(rows) : ~Expired(r)}
             w == Kept(rows, T)
             s == IF day > Retention THEN day - Retention ELSE 0
  <1>1. /\ writing = "none" /\ rows' = w /\ swept' = s
        /\ UNCHANGED <<staged, todo, writing, day, batches, kept, dropped>>
    BY DEF Cleanup
  <1>2. HistTypes /\ OrderInv /\ day \in Nat /\ batches \in Nat /\ rows \in Seq(TickRows)
        /\ staged = <<>> /\ todo = <<>> /\ Retention \in Nat /\ swept \in Nat
        /\ (swept = 0 \/ swept <= day - Retention)
    BY <1>1, HistoryAssumption DEF HistInv, HistTypes
  <1>3. /\ w \in Seq(TickRows) /\ Timely(w)
        /\ \A i \in 1..Len(w) : \E j \in 1..Len(rows) : w[i] = rows[j] /\ rows[j] \in T
    BY <1>2, RowsKept DEF OrderInv
  <1>4. s \in Nat /\ s >= swept /\ (s = 0 \/ s <= day - Retention)
    BY <1>2
  <1>5. \A i \in 1..Len(rows) : rows[i] \in TickRows /\ rows[i] \in ToSet(rows)
    BY <1>2 DEF ToSet
  <1>6. \A i \in 1..Len(rows) : rows[i] \in T <=> rows[i].ts >= s
    <2> SUFFICES ASSUME NEW i \in 1..Len(rows) PROVE rows[i] \in T <=> rows[i].ts >= s
      OBVIOUS
    <2>1. rows[i].ts \in Nat
      BY <1>5 DEF TickRows
    <2> QED
      BY <1>2, <1>5, <2>1 DEF Expired
  <1> HIDE DEF T, w, s
  <1>7. \A i \in 1..Len(w) : /\ w[i].ts <= day /\ w[i].ts >= s
                             /\ w[i].batch <= batches /\ w[i].batch \notin dropped
    <2> SUFFICES ASSUME NEW i \in 1..Len(w)
                 PROVE  /\ w[i].ts <= day /\ w[i].ts >= s
                        /\ w[i].batch <= batches /\ w[i].batch \notin dropped
      OBVIOUS
    <2>1. PICK j \in 1..Len(rows) : w[i] = rows[j] /\ rows[j] \in T
      BY <1>3
    <2> QED
      BY <1>6, <2>1 DEF HistInv
  <1>8. \A k \in kept : /\ \A i \in 1..Len(w) : w[i].batch = k.batch => w[i].ts = k.ts
                        /\ k.ts >= s => CountIn(w, k.batch) = k.size
    <2> SUFFICES ASSUME NEW k \in kept
                 PROVE  /\ \A i \in 1..Len(w) : w[i].batch = k.batch => w[i].ts = k.ts
                        /\ k.ts >= s => CountIn(w, k.batch) = k.size
      OBVIOUS
    <2> DEFINE y == k.batch
    <2>1. \A i \in 1..Len(rows) : rows[i].batch = y => rows[i].ts = k.ts
      BY DEF HistInv
    <2>2. k.ts >= swept => CountIn(rows, y) = k.size
      BY DEF HistInv
    <2>3. k.ts \in Nat
      BY <1>2 DEF HistTypes
    <2> HIDE DEF y
    <2>4. \A i \in 1..Len(w) : w[i].batch = y => w[i].ts = k.ts
      BY <1>3, <2>1
    <2>5. ASSUME k.ts >= s PROVE CountIn(w, y) = k.size
      <3>1. \A i \in 1..Len(rows) : rows[i].batch = y => rows[i] \in T
        BY <1>6, <2>1, <2>5
      <3>2. CountIn(w, y) = CountIn(rows, y)
        BY <1>2, <3>1, CountKept DEF w
      <3>3. k.ts >= swept
        BY <1>2, <1>4, <2>3, <2>5
      <3> QED
        BY <2>2, <3>2, <3>3
    <2> QED
      BY <2>4, <2>5 DEF y
  <1>9. Precede(w, staged) /\ Precede(w, todo)
    <2>1. Len(staged) = 0 /\ Len(todo) = 0 /\ 1..0 = {}
      BY <1>2
    <2> QED
      BY <2>1 DEF Precede
  <1>10. OrderInv' /\ HistTypes'
    BY <1>1, <1>2, <1>3, <1>4, <1>9 DEF OrderInv, HistTypes
  <1>11. /\ \A i \in 1..Len(rows') : /\ rows'[i].ts <= day /\ rows'[i].ts >= swept'
                                     /\ rows'[i].batch <= batches /\ rows'[i].batch \notin dropped
         /\ \A k \in kept : /\ \A i \in 1..Len(rows') : rows'[i].batch = k.batch => rows'[i].ts = k.ts
                            /\ k.ts >= swept' => CountIn(rows', k.batch) = k.size
    BY <1>1, <1>7, <1>8
  <1>12. /\ \A i \in 1..Len(staged') : OfThisCall(staged[i])'
         /\ \A i \in 1..Len(todo') : OfThisCall(todo[i])'
    BY <1>1 DEF HistInv, OfThisCall
  <1>13. swept' = 0 \/ swept' <= day - Retention
    BY <1>1, <1>4
  <1>14. (\A k \in kept : k.batch <= batches) /\ \A d \in dropped : d <= batches
    BY DEF HistInv
  <1> QED
    BY <1>1, <1>2, <1>10, <1>11, <1>12, <1>13, <1>14 DEF HistInv, CountIn

LEMMA DayKeepsHistory ==
  ASSUME HistInv, NextDay
  PROVE  HistInv'
  <1>1. /\ writing = "none" /\ day' = day + 1
        /\ UNCHANGED <<rows, staged, todo, writing, batches, kept, dropped, swept>>
    BY DEF NextDay
  <1>2. HistTypes /\ OrderInv /\ day \in Nat /\ staged = <<>> /\ todo = <<>> /\ Retention \in Nat
        /\ swept \in Nat
    BY <1>1, HistoryAssumption DEF HistInv, HistTypes
  <1>3. HistTypes' /\ OrderInv'
    BY <1>1, <1>2 DEF HistTypes, OrderInv
  <1>4. swept' = 0 \/ swept' <= day' - Retention
    BY <1>1, <1>2 DEF HistInv
  <1>5. Len(staged') = 0 /\ Len(todo') = 0 /\ 1..0 = {}
    BY <1>1, <1>2
  <1>6. \A i \in 1..Len(rows) : rows[i].ts <= day'
    <2> SUFFICES ASSUME NEW i \in 1..Len(rows) PROVE rows[i].ts <= day'
      OBVIOUS
    <2>1. rows[i].ts \in Nat /\ rows[i].ts <= day
      BY <1>2 DEF HistTypes, HistInv, TickRows
    <2> QED
      BY <1>1, <1>2, <2>1
  <1>7. /\ \A i \in 1..Len(staged') : OfThisCall(staged[i])'
        /\ \A i \in 1..Len(todo') : OfThisCall(todo[i])'
    BY <1>5
  <1> QED
    BY <1>1, <1>3, <1>4, <1>5, <1>6, <1>7 DEF HistInv, CountIn

LEMMA HistStep == HistInv /\ [TickNext]_tickVars => HistInv'
  <1> SUFFICES ASSUME HistInv, [TickNext]_tickVars PROVE HistInv'
    OBVIOUS
  <1>1. CASE UNCHANGED tickVars
    <2>1. UNCHANGED <<rows, staged, todo, day, batches, swept, writing, kept, dropped>>
      BY <1>1 DEF tickVars
    <2>2. HistTypes' /\ OrderInv'
      BY <2>1 DEF HistInv, HistTypes, OrderInv
    <2>3. \A r : OfThisCall(r)' <=> OfThisCall(r)
      BY <2>1 DEF OfThisCall
    <2> QED
      BY <2>1, <2>2, <2>3 DEF HistInv, OfThisCall, CountIn
  <1>2. CASE \E ms \in (SUBSET TickMarkets) \ {{}}, how \in {"one", "many"} : RecordTicks(ms, how)
    BY <1>2, RecordKeepsHistory
  <1> QED
    BY <1>1, <1>2, InsertKeepsHistory, CommitKeepsHistory, RollbackKeepsHistory,
       CleanupKeepsHistory, DayKeepsHistory DEF TickNext

\* Ticks that are in the order of their calls are in the order of their times.
LEMMA AlreadyInTime ==
  ASSUME NEW s \in Seq(TickRows), Timely(s)
  PROVE  InTime(s) = s
  <1> DEFINE n == Len(s)
             before(i) == {j \in DOMAIN s :
                              IF j < i THEN s[j].ts <= s[i].ts ELSE s[j].ts < s[i].ts}
  <1>1. n \in Nat /\ DOMAIN s = 1..n /\ s = [k \in 1..n |-> s[k]]
        /\ \A i \in 1..n : s[i].ts \in Nat
    BY DEF TickRows
  <1> HIDE DEF n
  <1>2. \A i, j \in 1..n : i < j => s[i].ts <= s[j].ts
    BY DEF Timely, Before, n
  <1>3. ASSUME NEW i \in 1..n PROVE Cardinality(before(i)) = i - 1
    <2>1. \A j \in 1..n : (IF j < i THEN s[j].ts <= s[i].ts ELSE s[j].ts < s[i].ts) <=> j < i
      <3> SUFFICES ASSUME NEW j \in 1..n
                   PROVE  (IF j < i THEN s[j].ts <= s[i].ts ELSE s[j].ts < s[i].ts) <=> j < i
        OBVIOUS
      <3>1. CASE j < i
        BY <1>2, <3>1
      <3>2. CASE ~(j < i)
        <4>1. j = i \/ i < j
          BY <1>1, <3>2
        <4>2. s[i].ts <= s[j].ts /\ s[i].ts \in Nat /\ s[j].ts \in Nat
          BY <1>1, <1>2, <4>1
        <4>3. ~(s[j].ts < s[i].ts)
          BY <4>2
        <4> QED
          BY <3>2, <4>3
      <3> QED
        BY <3>1, <3>2
    <2>2. before(i) = {j \in 1..n : j < i}
      BY <1>1, <2>1
    <2> HIDE DEF before
    <2>3. before(i) = 1..(i - 1)
      BY <1>1, <2>2
    <2>4. Cardinality(1..(i - 1)) = IF 1 > i - 1 THEN 0 ELSE (i - 1) - 1 + 1
      <3>1. i - 1 \in Int /\ 1 \in Int
        BY <1>1
      <3> QED
        BY <3>1, FS_Interval
    <2> QED
      BY <1>1, <2>3, <2>4
  <1>4. InTime(s) = [k \in 1..n |-> s[CHOOSE i \in 1..n : Cardinality(before(i)) = k - 1]]
    BY <1>1 DEF InTime
  <1> HIDE DEF before
  <1>5. \A k \in 1..n : (CHOOSE i \in 1..n : Cardinality(before(i)) = k - 1) = k
    <2> SUFFICES ASSUME NEW k \in 1..n
                 PROVE  (CHOOSE i \in 1..n : Cardinality(before(i)) = k - 1) = k
      OBVIOUS
    <2> DEFINE P(i) == Cardinality(before(i)) = k - 1
    <2>1. P(k) /\ \A i \in 1..n : P(i) => i = k
      BY <1>1, <1>3
    <2> HIDE DEF P
    <2>2. (CHOOSE i \in 1..n : P(i)) = k
      BY <2>1
    <2> QED
      BY <2>2 DEF P
  <1> QED
    BY <1>1, <1>4, <1>5

AskedFor(m, from, to) == {r \in ToSet(rows) : r.market = m /\ r.ts \in from..to}

\* What a query by market finds: rows of the table, in its order, with their places.
LEMMA TicksFound ==
  ASSUME HistInv, NEW m, NEW from, NEW to
  PROVE  /\ Ticks(m, from, to) \in Seq(TickRows) /\ Timely(Ticks(m, from, to))
         /\ GetHistory(m, from, to) = Ticks(m, from, to)
         /\ \E place : Keeping!KeptFrom(rows, AskedFor(m, from, to), Len(rows), Ticks(m, from, to), place)
         /\ \A i \in 1..Len(Ticks(m, from, to)) : Ticks(m, from, to)[i].market = m
  <1> DEFINE T == AskedFor(m, from, to)
             w == Ticks(m, from, to)
  <1>1. rows \in Seq(TickRows) /\ Timely(rows)
    BY DEF HistInv, HistTypes, OrderInv
  <1>2. w = Kept(rows, T)
    BY DEF Ticks, AskedFor
  <1>3. \A r \in T : r.market = m
    BY DEF AskedFor
  <1> HIDE DEF T
  <1>4. /\ Kept(rows, T) \in Seq(TickRows)
        /\ \E place : Keeping!KeptFrom(rows, T, Len(rows), Kept(rows, T), place)
        /\ \A i \in 1..Len(Kept(rows, T)) : \E j \in 1..Len(rows) : Kept(rows, T)[i] = rows[j] /\ rows[j] \in T
        /\ Timely(Kept(rows, T))
    BY <1>1, RowsKept
  <1>5. GetHistory(m, from, to) = InTime(w)
    BY DEF GetHistory
  <1> HIDE DEF w
  <1>6. InTime(w) = w
    BY <1>2, <1>4, AlreadyInTime
  <1> QED
    BY <1>2, <1>3, <1>4, <1>5, <1>6 DEF w, T

\* The newest n, turned round, are the end of the history.
LEMMA RecentIsEnd ==
  ASSUME HistInv, NEW m, NEW n \in Nat
  PROVE  \E k \in 0..Len(Ticks(m, 0, day)) :
            LET s == Ticks(m, 0, day)
            IN  /\ DOMAIN GetRecent(m, n) = 1..k /\ Len(GetRecent(m, n)) = k
                /\ \A i \in 1..k : GetRecent(m, n)[i] = s[Len(s) - k + i] /\ Len(s) - k + i \in 1..Len(s)
  <1> DEFINE s == Ticks(m, 0, day)
             l == Len(s)
             r == Reverse(s)
             k == IF n < l THEN n ELSE l
             e == SubSeq(r, 1, k)
  <1>1. s \in Seq(TickRows) /\ GetHistory(m, 0, day) = s
    BY TicksFound
  <1>2. l \in Nat /\ k \in 0..l
    BY <1>1
  <1>3. r = [i \in 1..l |-> s[(l - i) + 1]]
    BY DEF Reverse
  <1>4. Len(r) = l
    <2> HIDE DEF l, s
    <2> QED
      BY <1>2, <1>3
  <1>5. GetRecent(m, n) = Reverse(e)
    BY <1>1, <1>4 DEF GetRecent
  <1> HIDE DEF s, l, r, k
  <1>6. r \in Seq(TickRows) /\ \A i \in 1..k : i \in 1..l /\ r[i] = s[(l - i) + 1]
    <2>1. \A i \in 1..l : s[i] \in TickRows /\ (l - i) + 1 \in 1..l
      BY <1>1, <1>2 DEF l
    <2>2. \A i \in 1..l : s[(l - i) + 1] \in TickRows
      BY <2>1
    <2>3. r \in Seq(TickRows)
      BY <1>2, <1>3, <2>2
    <2> QED
      BY <1>2, <1>3, <2>3
  <1>7. Len(e) = k /\ DOMAIN e = 1..k /\ \A i \in 1..k : e[i] = r[i]
    BY <1>2, <1>4, <1>6
  <1>8. \A i \in 1..k : e[i] = s[(l - i) + 1]
    BY <1>6, <1>7
  <1>9. Reverse(e) = [i \in 1..k |-> e[(k - i) + 1]]
    BY <1>7 DEF Reverse
  <1> HIDE DEF e
  <1>10. \A i \in 1..k : /\ Reverse(e)[i] = s[l - k + i] /\ l - k + i \in 1..l
    <2> SUFFICES ASSUME NEW i \in 1..k PROVE Reverse(e)[i] = s[l - k + i] /\ l - k + i \in 1..l
      OBVIOUS
    <2>1. (k - i) + 1 \in 1..k /\ (l - ((k - i) + 1)) + 1 = l - k + i /\ l - k + i \in 1..l
      BY <1>2
    <2> QED
      BY <1>8, <1>9, <2>1
  <1>11. DOMAIN Reverse(e) = 1..k /\ Len(Reverse(e)) = k
    BY <1>2, <1>9
  <1> QED
    BY <1>2, <1>5, <1>10, <1>11 DEF s, l

BatchesOf(s) == {s[i].batch : i \in DOMAIN s}
Between(m, b, c) == {x \in BatchesOf(Ticks(m, 0, day)) : b < x /\ x < c}

LEMMA RecentShown ==
  ASSUME HistInv, NEW m, NEW n \in Nat,
         NEW recent, recent = GetRecent(m, n),
         NEW i \in DOMAIN recent, NEW j \in DOMAIN recent, i <= j
  PROVE  /\ recent[i].batch <= recent[j].batch
         /\ Between(m, recent[i].batch, recent[j].batch) \subseteq BatchesOf(recent)
         /\ j = Len(recent) => recent[j].batch = Max(BatchesOf(Ticks(m, 0, day)))
  <1> DEFINE s == Ticks(m, 0, day)
             l == Len(s)
             all == BatchesOf(s)
  <1>1. PICK k \in 0..l : /\ DOMAIN recent = 1..k /\ Len(recent) = k
                          /\ \A q \in 1..k : recent[q] = s[l - k + q] /\ l - k + q \in 1..l
    BY RecentIsEnd
  <1>2. s \in Seq(TickRows) /\ Timely(s)
    BY TicksFound
  <1> HIDE DEF s
  <1>3. l \in Nat /\ DOMAIN s = 1..l /\ \A q \in 1..l : s[q].batch \in Nat
    BY <1>2 DEF TickRows
  <1>4. \A p, q \in 1..l : p <= q => s[p].batch <= s[q].batch
    <2> SUFFICES ASSUME NEW p \in 1..l, NEW q \in 1..l, p <= q PROVE s[p].batch <= s[q].batch
      OBVIOUS
    <2>1. CASE p = q
      BY <1>3, <2>1
    <2>2. CASE p < q
      BY <1>2, <2>2 DEF Timely, Before
    <2> QED
      BY <1>3, <2>1, <2>2
  <1> HIDE DEF l
  <1>5. i \in 1..k /\ j \in 1..k /\ k \in 1..l
    BY <1>1, <1>3
  <1>6. /\ recent[i] = s[l - k + i] /\ l - k + i \in 1..l
        /\ recent[j] = s[l - k + j] /\ l - k + j \in 1..l
    BY <1>1, <1>5
  <1>7. recent[i].batch <= recent[j].batch
    <2>1. l - k + i <= l - k + j
      BY <1>3, <1>5
    <2> QED
      BY <1>4, <1>6, <2>1
  <1>8. Between(m, recent[i].batch, recent[j].batch) \subseteq BatchesOf(recent)
    <2> SUFFICES ASSUME NEW p \in 1..l, recent[i].batch < s[p].batch, s[p].batch < recent[j].batch
                 PROVE  s[p].batch \in BatchesOf(recent)
      BY <1>3 DEF Between, BatchesOf, s
    <2>1. ~(p <= l - k + i) /\ ~(l - k + j <= p)
      <3>1. s[p].batch \in Nat /\ recent[i].batch \in Nat /\ recent[j].batch \in Nat
        BY <1>3, <1>6
      <3> QED
        BY <1>4, <1>6, <3>1
    <2>2. p - (l - k) \in 1..k /\ l - k + (p - (l - k)) = p
      BY <1>3, <1>5, <2>1
    <2>3. recent[p - (l - k)] = s[p]
      BY <1>1, <2>2
    <2> QED
      BY <1>1, <2>2, <2>3 DEF BatchesOf
  <1>9. ASSUME j = Len(recent) PROVE recent[j].batch = Max(all)
    <2>1. j = k /\ l - k + j = l
      BY <1>1, <1>3, <1>5, <1>9
    <2>2. recent[j] = s[l] /\ l \in 1..l
      BY <1>6, <2>1
    <2>3. s[l].batch \in all /\ \A y \in all : s[l].batch >= y
      <3>1. \A p \in 1..l : s[p].batch <= s[l].batch
        BY <1>3, <1>4, <2>2
      <3> QED
        BY <1>3, <2>2, <3>1 DEF BatchesOf
    <2>4. \A y \in all : y \in Nat
      BY <1>3 DEF BatchesOf
    <2> HIDE DEF all
    <2>5. \A z \in all : (\A y \in all : z >= y) => z = s[l].batch
      BY <2>3, <2>4
    <2>6. Max(all) = s[l].batch
      BY <2>3, <2>5 DEF Max
    <2> QED
      BY <2>2, <2>6
  <1> QED
    BY <1>7, <1>8, <1>9 DEF s

\* Of the ticks of a market with one token either none has a price or all have.
LEMMA ReturnsShown ==
  ASSUME HistInv, NEW m \in TickMarkets, TickTokens[m] = 1, NEW i \in DOMAIN Returns(m, Retention)
  PROVE  LET pair == Returns(m, Retention)[i]
         IN  /\ pair[1].batch < pair[2].batch
             /\ Between(m, pair[1].batch, pair[2].batch) = {}
  <1> DEFINE from == day - Retention
             ticks == Ticks(m, from, day)
             T == {r \in ToSet(ticks) : <<m, r.token>> \notin ZeroPriced}
             w == Kept(ticks, T)
             A == AskedFor(m, from, day)
             s == Ticks(m, 0, day)
  <1>1. /\ day \in Nat /\ Retention \in Nat /\ from \in Int
        /\ rows \in Seq(TickRows) /\ Timely(rows)
        /\ \A q \in 1..Len(rows) : rows[q].ts <= day
    <2>1. day \in Nat /\ rows \in Seq(TickRows) /\ Timely(rows)
      BY DEF HistInv, HistTypes, OrderInv
    <2>2. \A q \in 1..Len(rows) : rows[q].ts <= day
      BY DEF HistInv
    <2>3. Retention \in Nat
      BY HistoryAssumption
    <2> QED
      BY <2>1, <2>2, <2>3
  <1>2. ticks \in Seq(TickRows) /\ GetHistory(m, from, day) = ticks
    BY TicksFound
  <1>3. PICK place : Keeping!KeptFrom(rows, A, Len(rows), ticks, place)
    BY TicksFound
  <1>4. \A p \in 1..Len(ticks) : ticks[p].market = m
    BY TicksFound
  <1>5. PICK of : Keeping!KeptFrom(ticks, T, Len(ticks), w, of)
    BY <1>2, RowsKept
  <1>6. w \in Seq(TickRows)
    BY <1>2, RowsKept
  <1>7. i \in 1..(Len(w) - 1) /\ Returns(m, Retention)[i] = <<w[i], w[i + 1]>>
    <2>1. Returns(m, Retention) = IF Len(w) < MinTicks THEN << >>
                                  ELSE [q \in 1..(Len(w) - 1) |-> <<w[q], w[q + 1]>>]
      BY <1>2 DEF Returns
    <2> HIDE DEF w
    <2>2. ~(Len(w) < MinTicks)
      BY <2>1
    <2> QED
      BY <2>1, <2>2
  <1>8. PICK sat : Keeping!KeptFrom(rows, AskedFor(m, 0, day), Len(rows), s, sat)
    BY TicksFound
  <1>9. s \in Seq(TickRows)
    BY TicksFound
  <1>10. \A p \in 1..Len(ticks) : ticks[p] \in TickRows /\ ticks[p] \in ToSet(ticks)
    BY <1>2 DEF ToSet
  <1>11. \A p \in 1..Len(rows) : rows[p] \in TickRows /\ rows[p] \in ToSet(rows)
    BY <1>1 DEF ToSet
  <1> HIDE DEF ticks, w, A, s
  <1>12. i \in 1..Len(w) /\ i + 1 \in 1..Len(w) /\ Len(w) \in Nat
    BY <1>6, <1>7
  <1>13. <<m, 1>> \notin ZeroPriced /\ \A p \in 1..Len(ticks) : ticks[p] \in T
    <2>1. \A p \in 1..Len(ticks) : ticks[p].token = 1
      BY <1>4, <1>10 DEF TickRows
    <2>2. of[i] \in 1..Len(ticks) /\ ticks[of[i]] \in T
      BY <1>5, <1>12 DEF Keeping!KeptFrom
    <2> QED
      BY <1>10, <2>1, <2>2
  <1> HIDE DEF T
  <1> DEFINE u == place[of[i]]
             v == place[of[i + 1]]
  <1>14. /\ of[i] \in 1..Len(ticks) /\ of[i + 1] \in 1..Len(ticks) /\ of[i] < of[i + 1]
         /\ w[i] = ticks[of[i]] /\ w[i + 1] = ticks[of[i + 1]]
    BY <1>5, <1>12 DEF Keeping!KeptFrom
  <1>15. /\ u \in 1..Len(rows) /\ v \in 1..Len(rows) /\ u < v
         /\ w[i] = rows[u] /\ w[i + 1] = rows[v] /\ rows[u] \in A /\ rows[v] \in A
    BY <1>3, <1>14 DEF Keeping!KeptFrom
  <1>16. Before(rows[u], rows[v])
    BY <1>1, <1>15 DEF Timely
  <1>17. rows[u].batch \in Nat /\ rows[v].batch \in Nat
    BY <1>11, <1>15 DEF TickRows
  <1>18. rows[u].batch < rows[v].batch
    <2>1. rows[u].market = m /\ rows[v].market = m
      BY <1>15 DEF A, AskedFor
    <2>2. rows[u].token = 1 /\ rows[v].token = 1
      BY <1>11, <1>15, <2>1, SMTT(30) DEF TickRows
    <2>3. rows[u].batch # rows[v].batch /\ rows[u].batch <= rows[v].batch
      BY <1>16, <2>1, <2>2 DEF Before, Cell
    <2> QED
      BY <1>17, <2>3
  <1>19. ASSUME NEW e \in 1..Len(s), rows[u].batch < s[e].batch, s[e].batch < rows[v].batch
         PROVE  FALSE
    <2> DEFINE p == sat[e]
    <2>1. p \in 1..Len(rows) /\ s[e] = rows[p] /\ rows[p] \in AskedFor(m, 0, day)
      BY <1>8 DEF Keeping!KeptFrom
    <2> HIDE DEF p
    <2>2. rows[p].batch \in Nat /\ rows[p].ts \in Nat /\ rows[u].ts \in Nat /\ rows[v].ts \in Nat
      BY <1>11, <1>15, <2>1 DEF TickRows
    <2>3. u < p /\ p < v
      <3>1. CASE p < u
        <4>1. rows[p].batch <= rows[u].batch
          BY <1>1, <1>15, <2>1, <3>1 DEF Timely, Before
        <4> QED
          BY <1>17, <1>19, <2>1, <2>2, <4>1
      <3>2. CASE v < p
        <4>1. rows[v].batch <= rows[p].batch
          BY <1>1, <1>15, <2>1, <3>2 DEF Timely, Before
        <4> QED
          BY <1>17, <1>19, <2>1, <2>2, <4>1
      <3>3. p # u /\ p # v
        BY <1>17, <1>19, <2>1, <2>2
      <3> QED
        BY <1>15, <2>1, <3>1, <3>2, <3>3
    <2>4. rows[p] \in A
      <3>1. rows[u].ts <= rows[p].ts
        BY <1>1, <1>15, <2>1, <2>3 DEF Timely, Before
      <3>2. rows[u].ts \in from..day /\ rows[p].market = m /\ rows[p].ts <= day
        BY <1>1, <1>15, <2>1 DEF A, AskedFor
      <3>3. rows[p].ts \in from..day
        <4>1. from <= rows[u].ts /\ rows[p].ts <= day
          BY <3>2
        <4> QED
          BY <1>1, <2>2, <3>1, <4>1, SMTT(30)
      <3>4. rows[p] \in ToSet(rows)
        BY <1>11, <2>1
      <3> QED
        BY <3>2, <3>3, <3>4 DEF A, AskedFor
    <2>5. PICK d \in 1..Len(ticks) : place[d] = p
      BY <1>3, <2>1, <2>4 DEF Keeping!KeptFrom
    <2>6. ticks[d] \in T
      BY <1>13
    <2>7. PICK c \in 1..Len(w) : of[c] = d
      BY <1>5, <2>6 DEF Keeping!KeptFrom
    <2>8. \A x, y \in 1..Len(ticks) : x < y => place[x] < place[y]
      BY <1>3 DEF Keeping!KeptFrom
    <2>9. \A x, y \in 1..Len(w) : x < y => of[x] < of[y]
      BY <1>5 DEF Keeping!KeptFrom
    <2>10. ~(c <= i)
      <3>1. c = i => p = u
        BY <2>5, <2>7
      <3>2. ASSUME c < i PROVE p < u
        <4>1. of[c] < of[i]
          BY <1>12, <2>9, <3>2
        <4> QED
          BY <1>14, <2>5, <2>7, <2>8, <4>1
      <3>3. p \in Int /\ u \in Int
        BY <1>15, <2>1
      <3>4. ~(p < u) /\ p # u
        BY <2>3, <3>3
      <3>5. c \in Int /\ i \in Int
        BY <1>12
      <3> HIDE DEF u, v
      <3> QED
        BY <3>1, <3>2, <3>4, <3>5
    <2>11. ~(i + 1 <= c)
      <3>1. c = i + 1 => p = v
        BY <2>5, <2>7
      <3>2. ASSUME i + 1 < c PROVE v < p
        <4>1. of[i + 1] < of[c]
          BY <1>12, <2>9, <3>2
        <4> QED
          BY <1>14, <2>5, <2>7, <2>8, <4>1
      <3>3. p \in Int /\ v \in Int
        BY <1>15, <2>1
      <3>4. ~(v < p) /\ p # v
        BY <2>3, <3>3
      <3>5. c \in Int /\ i \in Int
        BY <1>12
      <3> HIDE DEF u, v
      <3> QED
        BY <3>1, <3>2, <3>4, <3>5
    <2> QED
      BY <1>12, <2>10, <2>11
  <1>20. DOMAIN s = 1..Len(s)
    BY <1>9
  <1>21. Between(m, rows[u].batch, rows[v].batch) = {}
    BY <1>19, <1>20 DEF Between, BatchesOf, s
  <1> HIDE DEF u, v
  <1>22. Returns(m, Retention)[i][1] = rows[u] /\ Returns(m, Retention)[i][2] = rows[v]
    BY <1>7, <1>15
  <1> QED
    BY <1>18, <1>21, <1>22

LEMMA HistoryIsShown == HistInv => HistoryShown
  <1> SUFFICES ASSUME HistInv PROVE HistoryShown
    OBVIOUS
  <1> SUFFICES ASSUME NEW m \in TickMarkets
               PROVE  /\ \A n \in 1..3 :
                            \A i, j \in DOMAIN GetRecent(m, n) : i <= j =>
                               LET recent == GetRecent(m, n)
                               IN  /\ recent[i].batch <= recent[j].batch
                                   /\ Between(m, recent[i].batch, recent[j].batch)
                                         \subseteq BatchesOf(recent)
                                   /\ j = Len(recent) =>
                                         recent[j].batch = Max(BatchesOf(Ticks(m, 0, day)))
                      /\ TickTokens[m] = 1 =>
                            \A i \in DOMAIN Returns(m, Retention) :
                               LET pair == Returns(m, Retention)[i]
                               IN  /\ pair[1].batch < pair[2].batch
                                   /\ Between(m, pair[1].batch, pair[2].batch) = {}
    BY DEF HistoryShown, BatchesOf, Between
  <1>1. 1..3 \subseteq Nat
    OBVIOUS
  <1> QED
    BY <1>1, RecentShown, ReturnsShown

(***************************************************************************)
(* The guards, side by side                                                *)
(***************************************************************************)
\* A step of the guards is one of every guard's own, or leaves it as it is.
LEMMA StepsAreOwn ==
  ASSUME [GuardsNext]_guardsVars
  PROVE  /\ [QuoteNext]_quoteVars /\ [RateNext]_rateVars /\ [FillNext]_fillVars
         /\ [BreakerNext]_breakerVars /\ [AlertsNext \/ HealthNext]_monitorVars
         /\ [MetricsNext]_metricsVars /\ [ClientsNext]_clientVars /\ [LoadNext]_loadVars
         /\ [ConfigNext]_configVars /\ [TickNext]_tickVars /\ [WalletNext]_walletVars
         /\ [CommandsNext]_commandVars
  <1> USE DEF GuardsNext, guardsVars
  <1>1. CASE UNCHANGED guardsVars
    BY <1>1
  <1>2. CASE Quotes
    BY <1>2 DEF Quotes
  <1>3. CASE Rate
    BY <1>3 DEF Rate
  <1>4. CASE Log
    BY <1>4 DEF Log
  <1>5. CASE Breaker
    BY <1>5 DEF Breaker
  <1>6. CASE Alerts \/ Health
    BY <1>6 DEF Alerts, Health
  <1>7. CASE Books
    BY <1>7 DEF Books
  <1>8. CASE Sockets
    BY <1>8 DEF Sockets
  <1>9. CASE Loading
    BY <1>9 DEF Loading
  <1>10. CASE Configuring
    BY <1>10 DEF Configuring
  <1>11. CASE Recording
    BY <1>11 DEF Recording
  <1>12. CASE Wallets
    BY <1>12 DEF Wallets
  <1>13. CASE Approving \/ Upgrading \/ Batching
    <2>1. /\ UNCHANGED <<quoteVars, rateVars, fillVars, breakerVars, monitorVars, metricsVars,
                         clientVars, loadVars, configVars, tickVars, walletVars>>
          /\ CommandsNext
      BY <1>13 DEF Approving, Upgrading, Batching, CommandsNext
    <2> QED
      BY <2>1
  <1> QED
    BY <1>1, <1>2, <1>3, <1>4, <1>5, <1>6, <1>7, <1>8, <1>9, <1>10, <1>11, <1>12, <1>13

\* Whatever guard runs, each behaves as by itself.
THEOREM GuardsKeepTheirSpecs ==
    GuardsSpec => /\ QuoteSpec /\ RateSpec /\ FillSpec /\ BreakerSpec /\ ClientsSpec
                  /\ WalletSpec /\ CommandsSpec
  <1>1. GuardsInit => /\ QuoteInit /\ RateInit /\ FillInit /\ BreakerInit /\ ClientsInit
                      /\ WalletInit /\ CommandsInit
    BY DEF GuardsInit, CommandsInit
  <1> QED
    BY <1>1, StepsAreOwn, PTL DEF GuardsSpec, QuoteSpec, RateSpec, FillSpec, BreakerSpec,
       ClientsSpec, WalletSpec, CommandsSpec

\* Alerts of a category are spaced and never held back without one that is
\* recent, the short score is that of every prediction of its window and cuts
\* the sizes as drift says, and the drawdown, the PnL by type and the trade count
\* are those of the whole history.
THEOREM MonitorsAlwaysHold == GuardsSpec => []MonitorsHold
  <1> DEFINE Inv == MonitorsInv /\ MetricsInv
  <1>1. GuardsInit => Inv
    BY AlertsInitially, HealthInitially, MetricsInitially DEF GuardsInit, MonitorsInv
  <1>2. Inv /\ [GuardsNext]_guardsVars => Inv'
    BY StepsAreOwn, MonitorStep, MetricsStep
  <1>3. Inv => MonitorsHold
    BY HealthSound, MetricsSound DEF MonitorsInv, AlertsInv, MonitorsHold
  <1> QED
    BY <1>1, <1>2, <1>3, PTL DEF GuardsSpec

\* For any list of markets, page size and number of permits, whatever leaves the
\* list or fails under way: a load that cached anything missed no more of the
\* convertible markets still listed than have left the list; every permit is
\* given back; and the books of a market are of its own tokens, none twice.
THEOREM LoadAlwaysSound == GuardsSpec => []LoadSound
  <1>1. GuardsInit => LoadInv
    BY LoadInitially DEF GuardsInit
  <1>2. LoadInv /\ [GuardsNext]_guardsVars => LoadInv'
    BY StepsAreOwn, LoadStep
  <1> QED
    BY <1>1, <1>2, LoadSoundness, PTL DEF GuardsSpec

\* For any number of handlers, lengths of the file, markets, calls and days: once a
\* change is answered the next start loads what is in the memory, as long as no two
\* saves overlap and none fails; and unless two overlapped what is loaded is the
\* defaults or what a handler validated, with the end of [alerts] possibly missing
\* when a save was cut off; a cycle's ticks are in the history whole or not at all, until they
\* expire; and what a market shows of its history is the end of it, in order and
\* without a gap.
THEOREM WrittenAlwaysComesBack == GuardsSpec => []WrittenComesBack
  <1>1. GuardsInit => ConfigInv /\ HistInv
    BY ConfigInitially, HistoryInitially DEF GuardsInit
  <1>2. ConfigInv /\ HistInv /\ [GuardsNext]_guardsVars => (ConfigInv /\ HistInv)'
    BY StepsAreOwn, ConfigStep, HistStep
  <1>3. ConfigInv /\ HistInv => WrittenComesBack
    BY ConfigSound, HistoryIsKept, HistoryIsShown DEF WrittenComesBack
  <1> QED
    BY <1>1, <1>2, <1>3, PTL DEF GuardsSpec

\* Every guard keeps what it promises, whichever of them runs.
THEOREM GuardsAlwaysHold ==
    GuardsSpec => [](/\ IndexesAgree /\ BudgetHolds /\ ReplayLosesLittle /\ TripsOnRecent
                     /\ MonitorsHold /\ ClientsServed /\ LoadSound /\ WrittenComesBack
                     /\ KeysKept /\ CommandsHold)
  BY GuardsKeepTheirSpecs, QuoteIndexesAgree, RateBudget, LogLosesLittle, BreakerJudgesRecent,
     MonitorsAlwaysHold, EveryClientServed, LoadAlwaysSound, WrittenAlwaysComesBack,
     WalletKeysKept, CommandsAlwaysHold, PTL
=============================================================================
