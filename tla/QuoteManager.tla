---------------------------- MODULE QuoteManager ----------------------------
(***************************************************************************)
(* The standing quotes of the market maker, quote_manager.rs: a map from   *)
(* order ids to quotes and, for each market, the list of its order ids.    *)
(* The two are kept in step by hand, in four operations.  Ids count up; a  *)
(* list of distinct ids that only ever has members added and taken away is *)
(* a set.                                                                  *)
(***************************************************************************)
EXTENDS Naturals

CONSTANTS Markets,
          MaxQuotes    \* bound on the quotes placed

ASSUME QuoteAssumption == MaxQuotes \in Nat

VARIABLES activeQuotes,    \* the market of each standing quote, by order id
          quotesByMarket,  \* markets that have an entry, and their order ids
          nextId

quoteVars == <<activeQuotes, quotesByMarket, nextId>>

Ids == 1..MaxQuotes

Without(f, S) == [x \in DOMAIN f \ S |-> f[x]]

QuoteInit ==
    /\ activeQuotes = [id \in {} |-> 0]
    /\ quotesByMarket = [m \in {} |-> {}]
    /\ nextId = 1

\* or_default(): the entry of a market appears with its first quote.
PlaceQuote(m) ==
    /\ nextId \in Ids
    /\ activeQuotes' =
          [id \in DOMAIN activeQuotes \cup {nextId} |->
              IF id = nextId THEN m ELSE activeQuotes[id]]
    /\ quotesByMarket' =
          [n \in DOMAIN quotesByMarket \cup {m} |->
              (IF n \in DOMAIN quotesByMarket THEN quotesByMarket[n] ELSE {})
                  \cup (IF n = m THEN {nextId} ELSE {})]
    /\ nextId' = nextId + 1

\* As CancelQuote, without the retain() on the market's list.
CancelQuoteInMapOnly(id) ==
    /\ activeQuotes' = Without(activeQuotes, {id})
    /\ UNCHANGED <<quotesByMarket, nextId>>

\* An id that is not there, or not there any more, is passed over; an emptied
\* list keeps its entry.
CancelQuote(id) ==
    /\ activeQuotes' = Without(activeQuotes, {id})
    /\ quotesByMarket' =
          IF id \in DOMAIN activeQuotes
          THEN [quotesByMarket EXCEPT ![activeQuotes[id]] = @ \ {id}]
          ELSE quotesByMarket
    /\ UNCHANGED nextId

CancelAllQuotes(m) ==
    /\ m \in DOMAIN quotesByMarket
    /\ activeQuotes' = Without(activeQuotes, quotesByMarket[m])
    /\ quotesByMarket' = Without(quotesByMarket, {m})
    /\ UNCHANGED nextId

\* cancel_all, for the kill switch.
CancelEverything ==
    /\ activeQuotes' = [id \in {} |-> 0]
    /\ quotesByMarket' = [m \in {} |-> {}]
    /\ UNCHANGED nextId

QuoteNext ==
    \/ \E m \in Markets : PlaceQuote(m) \/ CancelAllQuotes(m)
    \/ \E id \in Ids : CancelQuote(id)
    \/ CancelEverything

QuoteSpec == QuoteInit /\ [][QuoteNext]_quoteVars

QuoteTypeOK ==
    /\ DOMAIN activeQuotes \subseteq 1..(nextId - 1)
    /\ \A id \in DOMAIN activeQuotes : activeQuotes[id] \in Markets
    /\ DOMAIN quotesByMarket \subseteq Markets
    /\ nextId \in Nat \ {0}

\* Every standing quote is in the list of its market and in no other, and every
\* listed id is a standing quote: a kill or a requote of a market reaches all of
\* its quotes, and none of another's.
IndexesAgree ==
    \A m \in Markets :
        {id \in DOMAIN activeQuotes : activeQuotes[id] = m}
            = (IF m \in DOMAIN quotesByMarket THEN quotesByMarket[m] ELSE {})

=============================================================================
