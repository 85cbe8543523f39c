----------------------------- MODULE RateLimiter ----------------------------
(***************************************************************************)
(* The token bucket of rate_limiter.rs.  Every call refills the bucket for *)
(* the time since the last refill, under the mutex, and then looks at it.  *)
(* The budget is counted in fractions of a token, one window's ticks to    *)
(* the token, so that the refill of one tick is a whole number.            *)
(***************************************************************************)
EXTENDS Integers

CONSTANTS MaxTokens,  \* requests a window allows
          Window,     \* ticks of a window
          MaxTime     \* bound on the clock

ASSUME RateAssumption ==
    MaxTokens \in Nat /\ Window \in Nat \ {0} /\ MaxTime \in Nat

VARIABLES now, available, lastRefill,
          since,   \* history: an observer started to count at this time ...
          granted  \* ... and has seen so many requests granted

rateVars == <<now, available, lastRefill, since, granted>>

Full == MaxTokens * Window

\* As Refilled, without the min().
RefilledUncapped == available + (now - lastRefill) * MaxTokens

Refilled ==
    LET more == available + (now - lastRefill) * MaxTokens
    IN  IF more > Full THEN Full ELSE more

RateInit ==
    /\ now = 0 /\ available = Full /\ lastRefill = 0
    /\ since = 0 /\ granted = 0

\* try_acquire, of a caller of its own or of one that waits in acquire().
TryAcquire ==
    /\ lastRefill' = now
    /\ IF Refilled >= Window
       THEN available' = Refilled - Window /\ granted' = granted + 1
       ELSE available' = Refilled /\ UNCHANGED granted
    /\ UNCHANGED <<now, since>>

TokensRemaining ==
    /\ lastRefill' = now
    /\ available' = Refilled
    /\ UNCHANGED <<now, since, granted>>

Tick ==
    /\ now < MaxTime
    /\ now' = now + 1
    /\ UNCHANGED <<available, lastRefill, since, granted>>

Observe ==
    /\ since' = now /\ granted' = 0
    /\ UNCHANGED <<now, available, lastRefill>>

RateNext == TryAcquire \/ TokensRemaining \/ Tick \/ Observe

RateSpec == RateInit /\ [][RateNext]_rateVars

RateTypeOK ==
    /\ now \in Nat /\ lastRefill \in 0..now /\ since \in 0..now
    /\ available \in 0..Full
    /\ granted \in Nat

\* From whatever moment one counts, the requests granted are at most a full
\* bucket and what the time since has refilled: waiting long saves up no more
\* than one burst.
BudgetHolds == granted * Window <= Full + (now - since) * MaxTokens

\* The inductive form: what is left in the bucket counts too.
RateInv ==
    /\ RateTypeOK
    /\ granted * Window + available <= Full + (lastRefill - since) * MaxTokens
         \/ /\ lastRefill <= since
            /\ granted = 0

=============================================================================
