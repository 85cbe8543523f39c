------------------------------ MODULE Estimation ----------------------------
(***************************************************************************)
(* The probability estimates of arb-simulation: the particle filter kept    *)
(* for every market (particle_filter.rs, estimator.rs) and the simulation   *)
(* that adds batches of paths until it has converged (convergence.rs).     *)
(*                                                                         *)
(* A weight is a number of parts, Parts of them in all; a particle is       *)
(* known by its place before the last update.  What the draws and the       *)
(* likelihood give is arbitrary.                                           *)
(***************************************************************************)
EXTENDS Integers, Sequences, FiniteSets, FiniteSetsExt, SequencesExt

CONSTANTS FilterMarkets,
          Particles,   \* of a filter
          Parts,       \* a multiple of Particles
          Guesses,     \* [p, precision] of the methods; precision is 1/SE^2
          MaxPaths, BatchSize,
          SeNum, SeDen \* the square of the target standard error

ASSUME EstimationAssumption ==
    /\ {Particles, Parts, MaxPaths, BatchSize, SeDen} \subseteq Nat \ {0}
    /\ SeNum \in Nat /\ Parts % Particles = 0
    /\ \A g \in Guesses : g.p \in Nat /\ g.precision \in Nat

VARIABLES filters,   \* the markets that have one: [weights, parents, likely]
          combined,  \* of the last estimate: [num, den, guesses]
          sim        \* [paths, hits, batches, state]

estimationVars == <<filters, combined, sim>>

Slots == 1..Particles
Sum(weights, n) == SumFunction([i \in 1..n |-> weights[i]])

Weightings == {w \in [Slots -> 0..Parts] : Sum(w, Particles) = Parts}
Uniform == [i \in Slots |-> Parts \div Particles]

\* 1 / Sum(w^2) below half of the particles.
TooFew(weights) ==
    2 * Parts * Parts < Particles * SumFunction([i \in Slots |-> weights[i] * weights[i]])

(***************************************************************************)
(* systematic_resample: for each of evenly spaced thresholds the first      *)
(* particle whose cumulative weight reaches it, the last one at most.  The  *)
(* offset u falls between two parts.                                       *)
(***************************************************************************)
\* As Resampled, with the thresholds spaced by what the weights would be without one.
ResampledWide(weights, u) ==
    [i \in Slots |->
        LET threshold == 2 * (u + i * (Parts \div Particles)) + 1
        IN  Min({j \in Slots : 2 * Sum(weights, j) >= threshold} \cup {Particles})]

Resampled(weights, u) ==
    [i \in Slots |->
        LET threshold == 2 * (u + (i - 1) * (Parts \div Particles)) + 1
        IN  Min({j \in Slots : 2 * Sum(weights, j) >= threshold} \cup {Particles})]

\* update: the particles move and are weighed by the observation; too uneven
\* weights are resampled.
Updated(likely, u) ==
    IF TooFew(likely)
    THEN [weights |-> Uniform, parents |-> Resampled(likely, u), likely |-> likely]
    ELSE [weights |-> likely, parents |-> [i \in Slots |-> i], likely |-> likely]

(***************************************************************************)
(* combine_estimates: weighted by precision.  An estimate without an error  *)
(* (precision 0 here) is left out; none left is no result.                 *)
(***************************************************************************)
Valid(guesses) == {g \in guesses : g.precision > 0}

Combined(guesses) ==
    [num |-> SumFunction([g \in Valid(guesses) |-> g.p * g.precision]),
     den |-> SumFunction([g \in Valid(guesses) |-> g.precision]),
     guesses |-> guesses]

\* The ensemble: the filter of the market, made if it has none, is updated under
\* the mutex; then the methods are combined.
EstimateMarket(m) ==
    /\ \E likely \in Weightings, u \in 0..(Parts \div Particles - 1) :
          filters' = [x \in DOMAIN filters \cup {m} |->
                         IF x = m THEN Updated(likely, u) ELSE filters[x]]
    /\ \E one, other \in Guesses : one # other /\ combined' = Combined({one, other})
    /\ UNCHANGED sim

(***************************************************************************)
(* adaptive_monte_carlo, a batch at a time                                 *)
(***************************************************************************)
\* p(1 - p)/n is below the square of the target.
Precise(hits, paths) ==
    hits * (paths - hits) * SeDen < SeNum * paths * paths * paths

Batch ==
    /\ sim.state = "running" /\ sim.paths < MaxPaths
    /\ LET size == Min({BatchSize, MaxPaths - sim.paths})
           paths == sim.paths + size
       IN  \E new \in 0..size :
              LET hits == sim.hits + new
                  enough == Precise(hits, paths) /\ paths >= BatchSize
              IN  sim' = [paths |-> paths, hits |-> hits,
                          batches |-> Append(sim.batches, [paths |-> paths, hits |-> hits]),
                          state |-> IF enough THEN "converged" ELSE "running"]
    /\ UNCHANGED <<filters, combined>>

\* The loop ends at max_paths without having converged.
GiveUp ==
    /\ sim.state = "running" /\ sim.paths >= MaxPaths
    /\ sim' = [sim EXCEPT !.state = "notConverged"]
    /\ UNCHANGED <<filters, combined>>

EstimationInit ==
    /\ filters = [m \in {} |-> Updated(Uniform, 0)]
    /\ combined = Combined({})
    /\ sim = [paths |-> 0, hits |-> 0, batches |-> <<>>, state |-> "running"]

EnsembleNext == \E m \in FilterMarkets : EstimateMarket(m)

PathsNext == Batch \/ GiveUp

(***************************************************************************)
(* Properties                                                              *)
(***************************************************************************)
Copies(parents, i) == Cardinality({k \in Slots : parents[k] = i})

\* After every update the filter has an effective sample of half its particles at
\* least, and a resampling has copied each particle as often as its weight
\* says, rounded down or up, in their order.
FilterStaysFair ==
    \A m \in DOMAIN filters :
        LET f == filters[m]
        IN  /\ ~TooFew(f.weights)
            /\ TooFew(f.likely) =>
                  \A i \in Slots :
                      LET exact == f.likely[i] * Particles
                      IN  /\ Copies(f.parents, i) * Parts > exact - Parts
                          /\ Copies(f.parents, i) * Parts < exact + Parts
            /\ \A i, j \in Slots : i < j => f.parents[i] <= f.parents[j]

\* A combined estimate lies between those it combines.
CombinedBetween ==
    combined.den > 0 =>
        /\ \E g \in combined.guesses : g.p * combined.den <= combined.num
        /\ \E g \in combined.guesses : g.p * combined.den >= combined.num

\* The simulation stops at the first batch precise enough or when it has used up its
\* paths, and never uses more.
StopsWithReason ==
    LET last == Len(sim.batches)
    IN  /\ sim.paths <= MaxPaths
        /\ \A i \in 1..(last - 1) : ~Precise(sim.batches[i].hits, sim.batches[i].paths)
        /\ sim.state = "converged" =>
              Precise(sim.batches[last].hits, sim.batches[last].paths)
        /\ sim.state = "notConverged" => sim.paths = MaxPaths

\* What an estimate rests on.
EstimatesSound == FilterStaysFair /\ CombinedBetween /\ StopsWithReason
=============================================================================
