---------------------------- MODULE Analysis_proofs ----------------------------
(* What the system computes about markets and positions is right for every  *)
(* book, portfolio and crowd: walks over a book are the best way of taking  *)
(* a size, the edge of a complete set is what its books give, related       *)
(* markets are traded as they were related, a simulated agent keeps within  *)
(* its budget, estimates of a probability stay between their inputs, what   *)
(* could be lost is counted as it is, detectors judge by the scans their    *)
(* windows cover, and the sandbox answers what the engine would find.      *)
EXTENDS Analysis, FiniteSetTheorems, TLAPS

(***************************************************************************)
(* Sums, by way of FoldFacts                                               *)
(***************************************************************************)
AnyOf(s) == CHOOSE x \in s : TRUE
AddValue(f, x, sum) == f[x] + sum
Sums == INSTANCE FoldFacts WITH Op <- AddValue, Pick <- AnyOf

LEMMA AnyOfIn == \A s : s # {} => AnyOf(s) \in s
  BY DEF AnyOf

SumTo(f, n) == Sums!Total(f, 1..n)

\* The sum of a function is a fold of its values.
LEMMA SumIsTotal == \A f : SumFunction(f) = Sums!Total(f, DOMAIN f)
  BY DEF SumFunction, SumFunctionOnSet, FoldFunctionOnSet, MapThenFoldSet, AnyOf, Sums!Total,
         Sums!Fold, Sums!Equation, AddValue

LEMMA SameFinite == \A S : IsFiniteSet(S) <=> Sums!IsFiniteSet(S)
  BY DEF IsFiniteSet, Sums!IsFiniteSet

Ints(f, S) == \A x \in S : f[x] \in Int

LEMMA ValuesAddUp ==
  ASSUME NEW S, IsFiniteSet(S), NEW f, Ints(f, S)
  PROVE  Sums!AddsUp(f, S, f)
  <1>1. Sums!Adds(f, S, f)
    BY DEF Sums!Adds, AddValue
  <1> QED
    BY <1>1, SameFinite DEF Sums!AddsUp, Ints

LEMMA IntervalsFinite == \A n \in Nat : IsFiniteSet(1..n)
  <1> SUFFICES ASSUME NEW n \in Nat PROVE IsFiniteSet(1..n)
    OBVIOUS
  <1>1. 1 \in Int /\ n \in Int
    OBVIOUS
  <1> QED
    BY <1>1, FS_Interval

\* The sums of longer and longer prefixes.
Runs(f, n) ==
    /\ SumTo(f, 0) = 0
    /\ \A k \in 1..n : SumTo(f, k) = SumTo(f, k - 1) + f[k]
    /\ \A k \in 0..n : SumTo(f, k) \in Int

LEMMA RunningSum ==
  ASSUME NEW n \in Nat, NEW f, Ints(f, 1..n)
  PROVE  Runs(f, n)
  <1>1. SumTo(f, 0) = 0
    <2> DEFINE none == 1..0
    <2>1. none = {}
      OBVIOUS
    <2>2. Sums!AddsUp(f, none, f)
      BY <2>1, FS_EmptySet, ValuesAddUp DEF Ints
    <2> HIDE DEF none
    <2>3. Sums!Total(f, none) = 0
      BY <2>1, <2>2, AnyOfIn, Sums!TotalOfNone
    <2> QED
      BY <2>3 DEF SumTo, none
  <1>2. \A k \in 0..n : Sums!AddsUp(f, 1..k, f)
    <2> SUFFICES ASSUME NEW k \in 0..n PROVE Sums!AddsUp(f, 1..k, f)
      OBVIOUS
    <2>1. 1..k \subseteq 1..n
      OBVIOUS
    <2>2. Ints(f, 1..k)
      BY <2>1 DEF Ints
    <2> QED
      BY <2>2, IntervalsFinite, ValuesAddUp
  <1>3. \A k \in 0..n : SumTo(f, k) \in Int
    BY <1>2, AnyOfIn, Sums!TotalType DEF SumTo
  <1>4. \A k \in 1..n : SumTo(f, k) = SumTo(f, k - 1) + f[k]
    <2> SUFFICES ASSUME NEW k \in 1..n PROVE SumTo(f, k) = SumTo(f, k - 1) + f[k]
      OBVIOUS
    <2> DEFINE S == 1..(k - 1)
               T == 1..k
    <2>1. k \notin S /\ T = S \cup {k} /\ k \in 0..n
      OBVIOUS
    <2>2. Sums!AddsUp(f, T, f)
      BY <1>2, <2>1
    <2> HIDE DEF S, T
    <2>3. Sums!Total(f, T) = f[k] + Sums!Total(f, S)
      BY <2>1, <2>2, AnyOfIn, Sums!TotalAdds
    <2>4. f[k] \in Int /\ SumTo(f, k - 1) \in Int
      BY <1>3 DEF Ints
    <2> QED
      BY <2>3, <2>4 DEF S, T, SumTo
  <1> QED
    BY <1>1, <1>3, <1>4 DEF Runs

\* The sum of a function of 1..n, written in whatever way.
LEMMA SumOfSeries ==
  ASSUME NEW n \in Nat, NEW f, Ints(f, 1..n), NEW g, DOMAIN g = 1..n,
         \A i \in 1..n : g[i] = f[i]
  PROVE  SumFunction(g) = SumTo(f, n)
  <1>1. Sums!AddsUp(f, 1..n, f) /\ Sums!AddsUp(g, 1..n, g)
    <2>1. Ints(g, 1..n)
      BY DEF Ints
    <2> QED
      BY <2>1, IntervalsFinite, ValuesAddUp
  <1> DEFINE S == 1..n
  <1>2. \A i \in S : g[i] = f[i]
    OBVIOUS
  <1> HIDE DEF S
  <1>3. Sums!AddsUp(f, S, f) /\ Sums!AddsUp(g, S, g)
    BY <1>1 DEF S
  <1>4. Sums!Total(g, S) = Sums!Total(f, S)
    BY <1>2, <1>3, AnyOfIn, Sums!TotalSame
  <1> QED
    BY <1>4, SumIsTotal DEF S, SumTo

\* A product is monotonic in either factor.
LEMMA ProductGrows ==
  ASSUME NEW a \in Int, NEW x \in Int, NEW y \in Int, x <= y, a >= 0
  PROVE  a * x <= a * y
  <1>1. y - x \in Nat /\ a \in Nat
    OBVIOUS
  <1>2. a * (y - x) \in Nat
    BY <1>1
  <1>3. a * (y - x) = a * y - a * x
    OBVIOUS
  <1>4. a * x \in Int /\ a * y \in Int
    OBVIOUS
  <1> QED
    BY <1>2, <1>3, <1>4

\* A multiple of a series adds up to the multiple.
Scales(g, c, f, n) == \A i \in 1..n : g[i] = c * f[i]

LEMMA SumScaled ==
  ASSUME NEW n \in Nat, NEW c \in Int, NEW f, Ints(f, 1..n), NEW g, Scales(g, c, f, n)
  PROVE  Ints(g, 1..n) /\ \A k \in 0..n : SumTo(g, k) = c * SumTo(f, k)
  <1>1. \A i \in 1..n : f[i] \in Int /\ c * f[i] \in Int
    BY DEF Ints
  <1>2. Ints(g, 1..n)
    BY <1>1 DEF Ints, Scales
  <1>3. Runs(f, n) /\ Runs(g, n)
    BY <1>2, RunningSum
  <1> SUFFICES ASSUME NEW k \in 0..n PROVE SumTo(g, k) = c * SumTo(f, k)
    BY <1>2
  <1> DEFINE Good == {i \in 0..n : SumTo(g, i) = c * SumTo(f, i)}
  <1>4. 0 \in Good
    BY <1>3 DEF Runs
  <1>5. ASSUME NEW i \in 1..n, i - 1 \in Good PROVE i \in Good
    <2>1. /\ SumTo(g, i) = SumTo(g, i - 1) + c * f[i]
          /\ SumTo(f, i) = SumTo(f, i - 1) + f[i]
          /\ SumTo(g, i - 1) = c * SumTo(f, i - 1)
      BY <1>3, <1>5 DEF Runs, Scales
    <2>2. i - 1 \in 0..n
      OBVIOUS
    <2>3. f[i] \in Int /\ SumTo(f, i - 1) \in Int
      BY <1>1, <1>3, <2>2 DEF Runs
    <2>4. c * (SumTo(f, i - 1) + f[i]) = c * SumTo(f, i - 1) + c * f[i]
      BY <2>3
    <2> QED
      BY <2>1, <2>4
  <1> HIDE DEF Good
  <1>6. \A i \in 1..k : i - 1 \in Good => i \in Good
    <2>1. 1..k \subseteq 1..n
      OBVIOUS
    <2> QED
      BY <1>5, <2>1
  <1>7. k \in Good
    <2>1. k \in Nat
      OBVIOUS
    <2> QED
      BY <1>4, <1>6, <2>1, Sums!UpToInduction
  <1> QED
    BY <1>7 DEF Good

\* A series below another adds up to no more.
LEMMA SumBelow ==
  ASSUME NEW n \in Nat, NEW f, NEW g, Ints(f, 1..n), Ints(g, 1..n),
         \A i \in 1..n : f[i] <= g[i]
  PROVE  \A k \in 0..n : SumTo(f, k) <= SumTo(g, k)
  <1>1. Runs(f, n) /\ Runs(g, n)
    BY RunningSum
  <1> SUFFICES ASSUME NEW k \in 0..n PROVE SumTo(f, k) <= SumTo(g, k)
    OBVIOUS
  <1> DEFINE Good == {i \in 0..n : SumTo(f, i) <= SumTo(g, i)}
  <1>2. 0 \in Good
    BY <1>1 DEF Runs
  <1>3. ASSUME NEW i \in 1..n, i - 1 \in Good PROVE i \in Good
    <2>1. /\ SumTo(g, i) = SumTo(g, i - 1) + g[i] /\ SumTo(f, i) = SumTo(f, i - 1) + f[i]
          /\ SumTo(f, i - 1) <= SumTo(g, i - 1) /\ f[i] <= g[i]
      BY <1>1, <1>3 DEF Runs
    <2>2. i - 1 \in 0..n
      OBVIOUS
    <2>3. {f[i], g[i], SumTo(f, i - 1), SumTo(g, i - 1)} \subseteq Int
      BY <1>1, <2>2 DEF Runs, Ints
    <2> QED
      BY <2>1, <2>3
  <1> HIDE DEF Good
  <1>4. \A i \in 1..k : i - 1 \in Good => i \in Good
    <2>1. 1..k \subseteq 1..n
      OBVIOUS
    <2> QED
      BY <1>3, <2>1
  <1>5. k \in Good
    <2>1. k \in Nat
      OBVIOUS
    <2> QED
      BY <1>2, <1>4, <2>1, Sums!UpToInduction
  <1> QED
    BY <1>5 DEF Good

\* What comes earlier in u comes later in v: of equal sums the one that has more of
\* it where prices are lower costs no more.
Earlier(u, v, n) ==
    /\ \A k \in 1..n : SumTo(u, k) >= SumTo(v, k)
    /\ SumTo(u, n) = SumTo(v, n)

Rising(p, n) == \A i, j \in 1..n : i < j => p[i] <= p[j]
Falling(p, n) == \A i, j \in 1..n : i < j => p[i] >= p[j]
PricedBy(paid, u, p, n) == \A i \in 1..n : paid[i] = u[i] * p[i]

LEMMA EarlierCostsLess ==
  ASSUME NEW n \in Nat, NEW u, NEW v, NEW p, Ints(u, 1..n), Ints(v, 1..n), Ints(p, 1..n),
         Earlier(u, v, n), Rising(p, n),
         NEW up, NEW vp, PricedBy(up, u, p, n), PricedBy(vp, v, p, n)
  PROVE  SumTo(up, n) <= SumTo(vp, n)
  <1>1. \A i \in 1..n : {u[i], v[i], p[i]} \subseteq Int
    BY DEF Ints
  <1>2. \A i \in 1..n : up[i] \in Int /\ vp[i] \in Int
    <2>1. \A i \in 1..n : u[i] * p[i] \in Int /\ v[i] * p[i] \in Int
      BY <1>1
    <2> QED
      BY <2>1 DEF PricedBy
  <1>3. Runs(u, n) /\ Runs(v, n) /\ Runs(up, n) /\ Runs(vp, n)
    BY <1>2, RunningSum DEF Ints
  <1> DEFINE U(k) == SumTo(v, k) - SumTo(u, k)
             D(k) == SumTo(vp, k) - SumTo(up, k)
             Good == {0} \cup {k \in 1..n : D(k) >= p[k] * U(k)}
  <1>4. \A k \in 0..n : U(k) \in Int /\ D(k) \in Int
    BY <1>3 DEF Runs
  <1>5. \A k \in 1..n : /\ U(k) = U(k - 1) + (v[k] - u[k])
                         /\ D(k) = D(k - 1) + (v[k] * p[k] - u[k] * p[k])
    <2> SUFFICES ASSUME NEW k \in 1..n
                 PROVE  /\ U(k) = U(k - 1) + (v[k] - u[k])
                        /\ D(k) = D(k - 1) + (v[k] * p[k] - u[k] * p[k])
      OBVIOUS
    <2>1. /\ SumTo(u, k) = SumTo(u, k - 1) + u[k] /\ SumTo(v, k) = SumTo(v, k - 1) + v[k]
          /\ SumTo(up, k) = SumTo(up, k - 1) + u[k] * p[k]
          /\ SumTo(vp, k) = SumTo(vp, k - 1) + v[k] * p[k]
      BY <1>3 DEF Runs, PricedBy
    <2>2. k - 1 \in 0..n
      OBVIOUS
    <2>3. {SumTo(u, k - 1), SumTo(v, k - 1), SumTo(up, k - 1), SumTo(vp, k - 1)} \subseteq Int
      BY <1>3, <2>2 DEF Runs
    <2>4. u[k] \in Int /\ v[k] \in Int
      BY <1>1
    <2>5. u[k] * p[k] \in Int /\ v[k] * p[k] \in Int
      BY <1>1
    <2>6. U(k) = U(k - 1) + (v[k] - u[k])
      BY <2>1, <2>3, <2>4
    <2> DEFINE a == u[k] * p[k]
               b == v[k] * p[k]
    <2>7. SumTo(up, k) = SumTo(up, k - 1) + a /\ SumTo(vp, k) = SumTo(vp, k - 1) + b
          /\ a \in Int /\ b \in Int
      BY <2>1, <2>5
    <2> HIDE DEF a, b
    <2>8. D(k) = D(k - 1) + (b - a)
      BY <2>3, <2>7
    <2> QED
      BY <2>6, <2>8 DEF a, b
  <1>6. \A k \in 0..n : U(k) <= 0
    <2> SUFFICES ASSUME NEW k \in 0..n PROVE U(k) <= 0
      OBVIOUS
    <2>1. SumTo(u, k) \in Int /\ SumTo(v, k) \in Int
      BY <1>3 DEF Runs
    <2>2. SumTo(u, k) >= SumTo(v, k)
      <3>1. CASE k = 0
        BY <1>3, <2>1, <3>1 DEF Runs
      <3>2. CASE k # 0
        <4>1. k \in 1..n
          BY <3>2
        <4> QED
          BY <4>1 DEF Earlier
      <3> QED
        BY <3>1, <3>2
    <2> QED
      BY <2>1, <2>2
  <1>7. U(0) = 0 /\ D(0) = 0
    BY <1>3 DEF Runs
  <1> HIDE DEF U, D
  <1>8. ASSUME NEW k \in 1..n, k - 1 \in Good PROVE k \in Good
    <2> DEFINE w == v[k] - u[k]
    <2>1. w \in Int /\ p[k] \in Int /\ v[k] * p[k] - u[k] * p[k] = p[k] * w
      BY <1>1
    <2>2. U(k) = U(k - 1) + w /\ D(k) = D(k - 1) + p[k] * w
      BY <1>5, <2>1
    <2>3. k - 1 \in 0..n
      OBVIOUS
    <2>4. U(k - 1) \in Int /\ D(k - 1) \in Int /\ U(k - 1) <= 0
      BY <1>4, <1>6, <2>3
    <2> HIDE DEF w
    <2>5. p[k] * (U(k - 1) + w) = p[k] * U(k - 1) + p[k] * w
      BY <2>1, <2>4
    <2>6. D(k - 1) >= p[k] * U(k - 1)
      <3>1. CASE k = 1
        <4>1. U(k - 1) = 0 /\ D(k - 1) = 0
          BY <1>7, <3>1
        <4>2. p[k] * 0 = 0
          BY <2>1
        <4> QED
          BY <4>1, <4>2
      <3>2. CASE k # 1
        <4>1. k - 1 \in 1..n /\ k - 1 < k
          BY <3>2
        <4>2. D(k - 1) >= p[k - 1] * U(k - 1)
          BY <1>8, <3>2
        <4>3. p[k - 1] <= p[k] /\ p[k - 1] \in Int
          BY <1>1, <4>1 DEF Rising
        <4> DEFINE a == -U(k - 1)
        <4>4. a \in Int /\ a >= 0
          BY <2>4
        <4>5. a * p[k - 1] <= a * p[k]
          BY <2>1, <4>3, <4>4, ProductGrows
        <4>6. a * p[k - 1] = -(p[k - 1] * U(k - 1)) /\ a * p[k] = -(p[k] * U(k - 1))
          BY <2>1, <2>4, <4>3
        <4>7. p[k - 1] * U(k - 1) \in Int /\ p[k] * U(k - 1) \in Int
          BY <2>1, <2>4, <4>3
        <4> HIDE DEF a
        <4> QED
          BY <2>4, <4>2, <4>5, <4>6, <4>7
      <3> QED
        BY <3>1, <3>2
    <2>7. p[k] * U(k - 1) \in Int /\ p[k] * w \in Int
      BY <2>1, <2>4
    <2>8. D(k) >= p[k] * U(k)
      BY <2>2, <2>4, <2>5, <2>6, <2>7
    <2> QED
      BY <2>8
  <1> HIDE DEF Good
  <1>9. n \in Good
    <2>1. 0 \in Good
      BY DEF Good
    <2> QED
      BY <1>8, <2>1, Sums!UpToInduction
  <1>10. CASE n = 0
    BY <1>3, <1>10 DEF Runs
  <1>11. CASE n # 0
    <2>1. n \in 1..n /\ D(n) >= p[n] * U(n)
      BY <1>9, <1>11 DEF Good
    <2>2. U(n) = 0
      BY <1>3 DEF Earlier, Runs, U
    <2>3. p[n] * 0 = 0
      BY <1>1, <2>1
    <2>4. D(n) >= 0
      BY <2>1, <2>2, <2>3
    <2>5. SumTo(vp, n) \in Int /\ SumTo(up, n) \in Int
      BY <1>3 DEF Runs
    <2> QED
      BY <2>4, <2>5 DEF D
  <1> QED
    BY <1>10, <1>11

\* And where prices fall it brings no less.
LEMMA EarlierBringsMore ==
  ASSUME NEW n \in Nat, NEW u, NEW v, NEW p, Ints(u, 1..n), Ints(v, 1..n), Ints(p, 1..n),
         Earlier(u, v, n), Falling(p, n),
         NEW up, NEW vp, PricedBy(up, u, p, n), PricedBy(vp, v, p, n)
  PROVE  SumTo(up, n) >= SumTo(vp, n)
  <1> DEFINE q == [i \in 1..n |-> -p[i]]
             uq == [i \in 1..n |-> u[i] * q[i]]
             vq == [i \in 1..n |-> v[i] * q[i]]
  <1>1. \A i \in 1..n : {u[i], v[i], p[i]} \subseteq Int
    BY DEF Ints
  <1>2. \A i \in 1..n : q[i] \in Int /\ uq[i] = u[i] * q[i] /\ vq[i] = v[i] * q[i]
    BY <1>1
  <1>3. Rising(q, n)
    BY <1>1 DEF Rising, Falling
  <1>4. Scales(uq, -1, up, n) /\ Scales(vq, -1, vp, n)
    BY <1>1 DEF PricedBy, Scales
  <1>5. \A i \in 1..n : up[i] \in Int /\ vp[i] \in Int
    <2>1. \A i \in 1..n : u[i] * p[i] \in Int /\ v[i] * p[i] \in Int
      BY <1>1
    <2> QED
      BY <2>1 DEF PricedBy
  <1> HIDE DEF q, uq, vq
  <1>6. SumTo(uq, n) <= SumTo(vq, n)
    <2>1. Ints(q, 1..n) /\ PricedBy(uq, u, q, n) /\ PricedBy(vq, v, q, n)
      BY <1>2 DEF Ints, PricedBy
    <2> QED
      BY <1>3, <2>1, EarlierCostsLess
  <1>7. n \in 0..n /\ -1 \in Int /\ Ints(up, 1..n) /\ Ints(vp, 1..n)
    BY <1>5 DEF Ints
  <1>8. \A k \in 0..n : SumTo(uq, k) = (-1) * SumTo(up, k)
    BY <1>4, <1>7, SumScaled
  <1>9. \A k \in 0..n : SumTo(vq, k) = (-1) * SumTo(vp, k)
    BY <1>4, <1>7, SumScaled
  <1>10. SumTo(up, n) \in Int /\ SumTo(vp, n) \in Int
    BY <1>7, RunningSum DEF Runs
  <1> QED
    BY <1>6, <1>7, <1>8, <1>9, <1>10

\* A series that is zero from some place on adds up to what it did there.
LEMMA SumStops ==
  ASSUME NEW n \in Nat, NEW c \in 0..n, NEW f, Ints(f, 1..n), \A i \in 1..n : i > c => f[i] = 0
  PROVE  SumTo(f, n) = SumTo(f, c)
  <1>1. Runs(f, n)
    BY RunningSum
  <1> DEFINE Good == {i \in 0..n : i >= c => SumTo(f, i) = SumTo(f, c)}
  <1>2. 0 \in Good
    OBVIOUS
  <1>3. ASSUME NEW i \in 1..n, i - 1 \in Good PROVE i \in Good
    <2>1. CASE i <= c
      BY <2>1
    <2>2. CASE i > c
      <3>1. SumTo(f, i) = SumTo(f, i - 1) + f[i] /\ f[i] = 0
        BY <1>1, <2>2 DEF Runs
      <3>2. SumTo(f, i - 1) = SumTo(f, c) /\ i - 1 \in 0..n
        BY <1>3, <2>2
      <3>3. SumTo(f, i - 1) \in Int
        BY <1>1, <3>2 DEF Runs
      <3> QED
        BY <3>1, <3>2, <3>3
    <2> QED
      BY <2>1, <2>2
  <1> HIDE DEF Good
  <1>4. n \in Good
    BY <1>2, <1>3, Sums!UpToInduction
  <1> QED
    BY <1>4 DEF Good

\* What is never negative adds up to more and more.
LEMMA SumsGrow ==
  ASSUME NEW n \in Nat, NEW f, \A i \in 1..n : f[i] \in Nat
  PROVE  \A i, j \in 0..n : i <= j => SumTo(f, i) <= SumTo(f, j)
  <1>1. Runs(f, n)
    BY RunningSum DEF Ints
  <1> SUFFICES ASSUME NEW i \in 0..n PROVE \A j \in 0..n : i <= j => SumTo(f, i) <= SumTo(f, j)
    OBVIOUS
  <1> DEFINE Good == {j \in 0..n : i <= j => SumTo(f, i) <= SumTo(f, j)}
  <1>2. 0 \in Good
    <2>1. SumTo(f, 0) \in Int
      BY <1>1 DEF Runs
    <2> QED
      BY <2>1
  <1>3. ASSUME NEW j \in 1..n, j - 1 \in Good PROVE j \in Good
    <2>1. CASE i = j
      <3>1. SumTo(f, i) \in Int
        BY <1>1 DEF Runs
      <3> QED
        BY <2>1, <3>1
    <2>2. CASE i > j
      BY <2>2
    <2>3. CASE i < j
      <3>1. SumTo(f, j) = SumTo(f, j - 1) + f[j] /\ f[j] \in Nat
        BY <1>1 DEF Runs
      <3>2. SumTo(f, i) <= SumTo(f, j - 1) /\ j - 1 \in 0..n
        BY <1>3, <2>3
      <3>3. SumTo(f, j - 1) \in Int /\ SumTo(f, i) \in Int
        BY <1>1, <3>2 DEF Runs
      <3> QED
        BY <3>1, <3>2, <3>3
    <2> QED
      BY <2>1, <2>2, <2>3
  <1> HIDE DEF Good
  <1> SUFFICES ASSUME NEW k \in 0..n PROVE k \in Good
    BY DEF Good
  <1>4. \A j \in 1..k : j - 1 \in Good => j \in Good
    <2>1. 1..k \subseteq 1..n
      OBVIOUS
    <2> QED
      BY <1>3, <2>1
  <1> QED
    <2>1. k \in Nat
      OBVIOUS
    <2> QED
      BY <1>2, <1>4, <2>1, Sums!UpToInduction

(***************************************************************************)
(* Walks over a book                                                       *)
(***************************************************************************)
SizeAt(levels) == [i \in 1..Len(levels) |-> levels[i].size]
PriceAt(levels) == [i \in 1..Len(levels) |-> levels[i].price]
FilledAt(levels, size) == [i \in 1..Len(levels) |-> FillAt(levels, size, i)]
PaidAt(levels, size) == [i \in 1..Len(levels) |-> FillAt(levels, size, i) * levels[i].price]

LEMMA LevelFields ==
  ASSUME NEW levels \in Seq(BookLevel)
  PROVE  \A i \in 1..Len(levels) : levels[i].size \in Nat /\ levels[i].price \in Nat \ {0}
  <1>1. \A i \in 1..Len(levels) : levels[i] \in BookLevel
    OBVIOUS
  <1> QED
    BY <1>1 DEF BookLevel

\* The sizes of the levels, added up.
SizesRun(levels) ==
    /\ SizeUpTo(levels, 0) = 0
    /\ \A k \in 1..Len(levels) :
          SizeUpTo(levels, k) = SizeUpTo(levels, k - 1) + levels[k].size
    /\ \A k \in 0..Len(levels) :
          SizeUpTo(levels, k) \in Nat /\ SizeUpTo(levels, k) = SumTo(SizeAt(levels), k)
    /\ \A i, j \in 0..Len(levels) : i <= j => SizeUpTo(levels, i) <= SizeUpTo(levels, j)

LEMMA SizesAddUp ==
  ASSUME NEW levels \in Seq(BookLevel)
  PROVE  SizesRun(levels)
  <1> DEFINE n == Len(levels)
             f == SizeAt(levels)
  <1>1. n \in Nat /\ \A i \in 1..n : f[i] = levels[i].size /\ f[i] \in Nat
    BY LevelFields DEF SizeAt
  <1>2. Ints(f, 1..n)
    BY <1>1 DEF Ints
  <1>3. Runs(f, n)
    BY <1>1, <1>2, RunningSum
  <1>4. \A i, j \in 0..n : i <= j => SumTo(f, i) <= SumTo(f, j)
    BY <1>1, SumsGrow
  <1>5. \A k \in 0..n : SizeUpTo(levels, k) = SumTo(f, k)
    <2> SUFFICES ASSUME NEW k \in 0..n PROVE SizeUpTo(levels, k) = SumTo(f, k)
      OBVIOUS
    <2> DEFINE g == [i \in 1..k |-> levels[i].size]
    <2>1. 1..k \subseteq 1..n /\ k \in Nat
      BY <1>1
    <2>2. DOMAIN g = 1..k /\ \A i \in 1..k : g[i] = f[i]
      BY <1>1, <2>1
    <2>3. Ints(f, 1..k)
      BY <1>2, <2>1 DEF Ints
    <2>4. SizeUpTo(levels, k) = SumFunction(g)
      BY DEF SizeUpTo
    <2> HIDE DEF g, f
    <2> QED
      BY <2>1, <2>2, <2>3, <2>4, SumOfSeries
  <1> HIDE DEF f
  <1>6. \A k \in 1..n : k \in 0..n /\ k - 1 \in 0..n /\ f[k] = levels[k].size
    BY <1>1
  <1>7. \A k \in 0..n : SumTo(f, k) \in Nat
    <2>1. \A k \in 0..n : 0 \in 0..n /\ 0 <= k
      BY <1>1
    <2>2. \A k \in 0..n : SumTo(f, 0) <= SumTo(f, k)
      BY <1>4, <2>1
    <2> QED
      BY <1>3, <2>2 DEF Runs
  <1>8. SizeUpTo(levels, 0) = 0
    <2>1. 0 \in 0..n
      BY <1>1
    <2> QED
      BY <1>3, <1>5, <2>1 DEF Runs
  <1>9. \A k \in 1..n : SizeUpTo(levels, k) = SizeUpTo(levels, k - 1) + levels[k].size
    BY <1>3, <1>5, <1>6 DEF Runs
  <1> QED
    BY <1>4, <1>5, <1>7, <1>8, <1>9 DEF SizesRun, f

\* The greedy walk takes what is asked for, or all there is, and from no level more
\* than it holds.
FillsRun(levels, size) ==
    /\ \A i \in 1..Len(levels) : /\ FillAt(levels, size, i) \in 0..size
                                 /\ FillAt(levels, size, i) <= levels[i].size
    /\ \A k \in 0..Len(levels) :
          SumTo(FilledAt(levels, size), k) = Smaller(size, SizeUpTo(levels, k))

LEMMA FillsAddUp ==
  ASSUME NEW levels \in Seq(BookLevel), NEW size \in Nat
  PROVE  FillsRun(levels, size)
  <1> DEFINE n == Len(levels)
             S(k) == SizeUpTo(levels, k)
             f == FilledAt(levels, size)
  <1>1. n \in Nat
    OBVIOUS
  <1>2. /\ S(0) = 0 /\ \A k \in 1..n : S(k) = S(k - 1) + levels[k].size
        /\ \A k \in 0..n : S(k) \in Nat
    BY SizesAddUp DEF SizesRun
  <1>3. \A i \in 1..n : FillAt(levels, size, i) = Smaller(levels[i].size, size - Smaller(size, S(i - 1)))
    BY DEF FillAt
  <1>4. \A i \in 1..n : f[i] = FillAt(levels, size, i)
    BY DEF FilledAt
  <1> HIDE DEF S, f, n
  <1>5. \A i \in 1..n : i - 1 \in 0..n /\ levels[i].size \in Nat
    BY <1>1, LevelFields DEF n
  <1>6. \A i \in 1..n : FillAt(levels, size, i) \in 0..size /\ FillAt(levels, size, i) <= levels[i].size
    BY <1>2, <1>3, <1>5 DEF Smaller
  <1>7. Runs(f, n)
    <2>1. Ints(f, 1..n)
      BY <1>4, <1>6 DEF Ints
    <2> QED
      BY <1>1, <2>1, RunningSum
  <1> DEFINE Good == {k \in 0..n : SumTo(f, k) = Smaller(size, S(k))}
  <1>8. 0 \in Good
    <2>1. SumTo(f, 0) = 0
      BY <1>7 DEF Runs
    <2>2. Smaller(size, 0) = 0
      BY DEF Smaller
    <2>3. 0 \in 0..n
      BY <1>1
    <2> QED
      BY <1>2, <2>1, <2>2, <2>3
  <1>9. ASSUME NEW i \in 1..n, i - 1 \in Good PROVE i \in Good
    <2>1. SumTo(f, i) = SumTo(f, i - 1) + f[i]
      BY <1>7 DEF Runs
    <2>2. SumTo(f, i - 1) = Smaller(size, S(i - 1))
      BY <1>9
    <2>3. f[i] = Smaller(levels[i].size, size - Smaller(size, S(i - 1)))
      BY <1>3, <1>4
    <2>4. S(i) = S(i - 1) + levels[i].size /\ S(i - 1) \in Nat /\ levels[i].size \in Nat
      BY <1>2, <1>5
    <2>5. Smaller(size, S(i - 1)) + Smaller(levels[i].size, size - Smaller(size, S(i - 1)))
             = Smaller(size, S(i - 1) + levels[i].size)
      BY <2>4 DEF Smaller
    <2> QED
      BY <1>1, <2>1, <2>2, <2>3, <2>4, <2>5
  <1> HIDE DEF Good
  <1>10. \A k \in 0..n : k \in Good
    <2> SUFFICES ASSUME NEW k \in 0..n PROVE k \in Good
      OBVIOUS
    <2>1. k \in Nat /\ 1..k \subseteq 1..n
      BY <1>1
    <2> QED
      BY <1>8, <1>9, <2>1, Sums!UpToInduction
  <1>11. \A k \in 0..n : SumTo(f, k) = Smaller(size, S(k))
    BY <1>10 DEF Good
  <1> QED
    BY <1>6, <1>11 DEF FillsRun, S, f, n

\* The fills of a walk are a way of taking its size, if the levels hold it, and take
\* it earlier than any other.
LEMMA FillIsEarliest ==
  ASSUME NEW levels \in Seq(BookLevel), NEW size \in Nat, NEW n \in 0..Len(levels),
         NEW take, \A i \in 1..n : take[i] \in 0..size /\ take[i] <= levels[i].size,
         SumTo(take, n) = size
  PROVE  SizeUpTo(levels, n) >= size /\ Earlier(FilledAt(levels, size), take, n)
  <1> DEFINE f == FilledAt(levels, size)
             z == SizeAt(levels)
  <1>1. n \in Nat /\ 1..n \subseteq 1..Len(levels) /\ 0..n \subseteq 0..Len(levels)
        /\ n \in 0..n /\ n <= Len(levels)
    OBVIOUS
  <1>2. \A i \in 1..n : z[i] = levels[i].size /\ levels[i].size \in Nat
    BY <1>1, LevelFields DEF SizeAt
  <1>3. \A k \in 0..n : SumTo(z, k) = SizeUpTo(levels, k) /\ SizeUpTo(levels, k) \in Nat
    BY <1>1, SizesAddUp DEF SizesRun
  <1>4. \A k \in 0..n : SumTo(f, k) = Smaller(size, SizeUpTo(levels, k))
    BY <1>1, FillsAddUp DEF FillsRun
  <1> HIDE DEF f, z
  <1>5. \A i \in 1..n : take[i] \in Nat /\ take[i] <= z[i] /\ z[i] \in Nat
    BY <1>2
  <1>6. Ints(take, 1..n) /\ Ints(z, 1..n)
    <2>1. ASSUME NEW i \in 1..n PROVE take[i] \in Int /\ z[i] \in Int
      BY <1>5
    <2> QED
      BY <2>1, Zenon DEF Ints
  <1>7. \A k \in 0..n : SumTo(take, k) <= SumTo(z, k)
    BY <1>1, <1>5, <1>6, SumBelow
  <1>8. \A k \in 0..n : SumTo(take, k) <= size
    <2>1. \A k \in 0..n : k <= n
      OBVIOUS
    <2> QED
      BY <1>1, <1>5, <2>1, SumsGrow
  <1>9. \A k \in 0..n : SumTo(take, k) \in Int
    BY <1>1, <1>6, RunningSum DEF Runs
  <1>10. SizeUpTo(levels, n) >= size
    BY <1>1, <1>3, <1>7
  <1>11. \A k \in 0..n : SumTo(f, k) >= SumTo(take, k)
    BY <1>3, <1>4, <1>7, <1>8, <1>9 DEF Smaller
  <1>12. SumTo(f, n) = SumTo(take, n)
    BY <1>1, <1>3, <1>4, <1>10 DEF Smaller
  <1>13. \A k \in 1..n : k \in 0..n
    OBVIOUS
  <1> QED
    BY <1>10, <1>11, <1>12, <1>13 DEF Earlier, f

Sorted(levels, side) ==
    \A i, j \in 1..Len(levels) : i < j =>
        IF side = "buy" THEN levels[i].price <= levels[j].price
                        ELSE levels[i].price >= levels[j].price

AsGoodAs(side, cost, other) == IF side = "buy" THEN cost <= other ELSE cost >= other

LEMMA PaidIsInt ==
  ASSUME NEW levels \in Seq(BookLevel), NEW size \in Nat
  PROVE  \A i \in 1..Len(levels) :
            /\ PaidAt(levels, size)[i] = FilledAt(levels, size)[i] * PriceAt(levels)[i]
            /\ FilledAt(levels, size)[i] = FillAt(levels, size, i)
            /\ PriceAt(levels)[i] = levels[i].price
            /\ PaidAt(levels, size)[i] \in Nat /\ FilledAt(levels, size)[i] \in Nat
            /\ PriceAt(levels)[i] \in Nat
  <1> SUFFICES ASSUME NEW i \in 1..Len(levels)
               PROVE  /\ PaidAt(levels, size)[i] = FilledAt(levels, size)[i] * PriceAt(levels)[i]
                      /\ FilledAt(levels, size)[i] = FillAt(levels, size, i)
                      /\ PriceAt(levels)[i] = levels[i].price
                      /\ PaidAt(levels, size)[i] \in Nat /\ FilledAt(levels, size)[i] \in Nat
                      /\ PriceAt(levels)[i] \in Nat
    OBVIOUS
  <1>1. FillAt(levels, size, i) \in Nat /\ levels[i].price \in Nat
    <2>1. FillsRun(levels, size)
      BY FillsAddUp
    <2> QED
      BY <2>1, LevelFields DEF FillsRun
  <1>2. FillAt(levels, size, i) * levels[i].price \in Nat
    BY <1>1
  <1> QED
    BY <1>1, <1>2 DEF PaidAt, FilledAt, PriceAt

\* No taking of the size is better than the walk.
LEMMA WalkBeats ==
  ASSUME NEW levels \in Seq(BookLevel), NEW side, Sorted(levels, side), NEW size \in Nat,
         NEW n \in 0..Len(levels),
         NEW take, \A i \in 1..n : take[i] \in 0..size /\ take[i] <= levels[i].size,
         SumTo(take, n) = size,
         NEW paid, PricedBy(paid, take, PriceAt(levels), n)
  PROVE  AsGoodAs(side, SumTo(PaidAt(levels, size), n), SumTo(paid, n))
  <1> DEFINE u == FilledAt(levels, size)
             p == PriceAt(levels)
             up == PaidAt(levels, size)
  <1>1. Earlier(u, take, n)
    BY FillIsEarliest
  <1>2. n \in Nat /\ 1..n \subseteq 1..Len(levels)
    OBVIOUS
  <1>3. \A i \in 1..n : /\ up[i] = u[i] * p[i] /\ p[i] = levels[i].price
                        /\ u[i] \in Int /\ p[i] \in Int
    BY <1>2, PaidIsInt
  <1>4. PricedBy(paid, take, p, n)
    OBVIOUS
  <1> HIDE DEF u, p, up
  <1>5. /\ Ints(u, 1..n) /\ Ints(p, 1..n) /\ Ints(take, 1..n)
        /\ PricedBy(up, u, p, n)
    BY <1>3 DEF Ints, PricedBy
  <1>6. CASE side = "buy"
    <2>1. Rising(p, n)
      BY <1>2, <1>3, <1>6 DEF Sorted, Rising
    <2>2. SumTo(up, n) <= SumTo(paid, n)
      BY <1>1, <1>2, <1>4, <1>5, <2>1, EarlierCostsLess
    <2> QED
      BY <1>6, <2>2 DEF AsGoodAs, up
  <1>7. CASE side # "buy"
    <2>1. Falling(p, n)
      BY <1>2, <1>3, <1>7 DEF Sorted, Falling
    <2>2. SumTo(up, n) >= SumTo(paid, n)
      BY <1>1, <1>2, <1>4, <1>5, <2>1, EarlierBringsMore
    <2> QED
      BY <1>7, <2>2 DEF AsGoodAs, up
  <1> QED
    BY <1>6, <1>7

\* The best of some costs, by what Min and Max choose.
LEMMA BestOfCosts ==
  ASSUME NEW costs \in SUBSET Int, NEW c \in costs, NEW side,
         \A d \in costs : AsGoodAs(side, c, d)
  PROVE  (IF side = "buy" THEN Min(costs) ELSE Max(costs)) = c
  <1>1. \A d \in costs : d \in Int
    OBVIOUS
  <1>2. CASE side = "buy"
    <2>1. \A d \in costs : c <= d
      BY <1>2 DEF AsGoodAs
    <2>2. \A x \in costs : (\A d \in costs : x <= d) => x = c
      BY <1>1, <2>1
    <2>3. Min(costs) = CHOOSE x \in costs : \A y \in costs : x <= y
      BY DEF Min
    <2>4. Min(costs) \in costs /\ \A y \in costs : Min(costs) <= y
      BY <2>1, <2>3
    <2> QED
      BY <1>2, <2>2, <2>4
  <1>3. CASE side # "buy"
    <2>1. \A d \in costs : c >= d
      BY <1>3 DEF AsGoodAs
    <2>2. \A x \in costs : (\A d \in costs : x >= d) => x = c
      BY <1>1, <2>1
    <2>3. Max(costs) = CHOOSE x \in costs : \A y \in costs : x >= y
      BY DEF Max
    <2>4. Max(costs) \in costs /\ \A y \in costs : Max(costs) >= y
      BY <2>1, <2>3
    <2> QED
      BY <1>3, <2>2, <2>4
  <1> QED
    BY <1>2, <1>3

\* The reference is what the walk over those levels costs, and -1 where they do not
\* hold the size.
WalkCost(levels, size, n) ==
    IF SizeUpTo(levels, n) < size THEN -1 ELSE SumTo(PaidAt(levels, size), n)

LEMMA BestCostIsTheWalk ==
  ASSUME NEW book, NEW side, NEW levels \in Seq(BookLevel), levels = Levels(book, side),
         Sorted(levels, side), NEW size \in Nat, NEW depth \in Nat,
         NEW n, n = Smaller(depth, Len(levels))
  PROVE  BestCost(book, side, size, depth) = WalkCost(levels, size, n)
  <1>1. n \in 0..Len(levels) /\ n \in Nat /\ 1..n \subseteq 1..Len(levels)
    BY DEF Smaller
  <1> DEFINE takings == Takings(levels, size, depth)
             costs == {CostOfTaking(levels, take) : take \in takings}
             up == PaidAt(levels, size)
             u == [i \in 1..n |-> FillAt(levels, size, i)]
  <1>2. \A i \in 1..n : /\ FillAt(levels, size, i) \in 0..size /\ levels[i].price \in Nat
                        /\ FillAt(levels, size, i) <= levels[i].size
                        /\ up[i] = FillAt(levels, size, i) * levels[i].price
                        /\ up[i] \in Nat
    <2>1. FillsRun(levels, size)
      BY FillsAddUp
    <2>2. \A i \in 1..n : i \in 1..Len(levels)
      BY <1>1
    <2>3. \A i \in 1..n : FillAt(levels, size, i) \in 0..size
                         /\ FillAt(levels, size, i) <= levels[i].size
      BY <2>1, <2>2 DEF FillsRun
    <2>4. \A i \in 1..n : up[i] \in Nat
      BY <2>2, PaidIsInt
    <2>5. \A i \in 1..n : up[i] = FillAt(levels, size, i) * levels[i].price
      BY <2>2 DEF PaidAt
    <2> QED
      BY <2>2, <2>3, <2>4, <2>5, LevelFields
  <1>3. ASSUME NEW take \in [1..n -> 0..size]
        PROVE  /\ SumFunction([i \in 1..n |-> take[i]]) = SumTo(take, n)
               /\ \A paid : PricedBy(paid, take, PriceAt(levels), n)
                     => CostOfTaking(levels, take) = SumTo(paid, n)
    <2> DEFINE g == [i \in 1..n |-> take[i]]
               h == [i \in DOMAIN take |-> take[i] * levels[i].price]
    <2>1. \A i \in 1..n : take[i] \in 0..size /\ take[i] \in Int
      OBVIOUS
    <2>2. Ints(take, 1..n)
      BY <2>1 DEF Ints
    <2>3. DOMAIN g = 1..n /\ \A i \in 1..n : g[i] = take[i]
      OBVIOUS
    <2>4. DOMAIN h = 1..n /\ \A i \in 1..n : h[i] = take[i] * levels[i].price
      OBVIOUS
    <2>5. \A i \in 1..n : take[i] * levels[i].price \in Int
      BY <1>2, <2>1
    <2>6. CostOfTaking(levels, take) = SumFunction(h)
      BY DEF CostOfTaking
    <2> HIDE DEF g, h
    <2>7. SumFunction(g) = SumTo(take, n)
      BY <1>1, <2>2, <2>3, SumOfSeries
    <2>8. ASSUME NEW paid, PricedBy(paid, take, PriceAt(levels), n)
          PROVE  CostOfTaking(levels, take) = SumTo(paid, n)
      <3> DEFINE p == PriceAt(levels)
      <3>1. \A i \in 1..n : p[i] = levels[i].price
        BY <1>1 DEF PriceAt
      <3>2. PricedBy(paid, take, p, n)
        BY <2>8
      <3> HIDE DEF p
      <3>3. Ints(paid, 1..n)
        BY <2>5, <3>1, <3>2 DEF Ints, PricedBy
      <3>4. \A i \in 1..n : h[i] = paid[i]
        BY <2>4, <3>1, <3>2 DEF PricedBy
      <3> QED
        BY <1>1, <2>4, <2>6, <3>3, <3>4, SumOfSeries
    <2> QED
      BY <2>7, <2>8 DEF g
  <1>4. \A take : take \in takings <=>
            /\ take \in [1..n -> 0..size]
            /\ \A i \in 1..n : take[i] <= levels[i].size
            /\ SumFunction([i \in 1..n |-> take[i]]) = size
    BY DEF Takings
  <1>5. ASSUME NEW take \in takings
        PROVE  /\ SizeUpTo(levels, n) >= size
               /\ CostOfTaking(levels, take) \in Int
               /\ AsGoodAs(side, SumTo(up, n), CostOfTaking(levels, take))
    <2>1. take \in [1..n -> 0..size] /\ SumTo(take, n) = size
          /\ \A i \in 1..n : take[i] \in 0..size /\ take[i] <= levels[i].size
      BY <1>3, <1>4
    <2> DEFINE paid == [i \in 1..n |-> take[i] * levels[i].price]
               p == PriceAt(levels)
    <2>2. \A i \in 1..n : p[i] = levels[i].price
      BY <1>1 DEF PriceAt
    <2>3. \A i \in 1..n : paid[i] = take[i] * levels[i].price /\ paid[i] \in Int
      BY <1>2, <2>1
    <2> HIDE DEF paid, takings
    <2>4. PricedBy(paid, take, PriceAt(levels), n) /\ Ints(paid, 1..n)
      <3> HIDE DEF p
      <3>1. PricedBy(paid, take, p, n)
        BY <2>2, <2>3 DEF PricedBy
      <3> QED
        BY <2>3, <3>1 DEF p, Ints
    <2>5. CostOfTaking(levels, take) = SumTo(paid, n)
      <3>1. \A other : PricedBy(other, take, PriceAt(levels), n)
                     => CostOfTaking(levels, take) = SumTo(other, n)
        BY <1>3, <2>1
      <3> QED
        BY <2>4, <3>1
    <2>6. SumTo(paid, n) \in Int
      <3>1. n \in 0..n
        BY <1>1
      <3> QED
        BY <1>1, <2>4, <3>1, RunningSum DEF Runs
    <2>7. SizeUpTo(levels, n) >= size
      BY <1>1, <2>1, FillIsEarliest
    <2>8. AsGoodAs(side, SumTo(up, n), SumTo(paid, n))
      BY <1>1, <2>1, <2>4, WalkBeats
    <2> QED
      BY <2>5, <2>6, <2>7, <2>8
  <1>6. CASE SizeUpTo(levels, n) < size
    <2>1. SizeUpTo(levels, n) \in Nat
      BY <1>1, SizesAddUp DEF SizesRun
    <2>2. takings = {}
      BY <1>5, <1>6, <2>1
    <2>3. costs = {}
      BY <2>2
    <2>4. BestCost(book, side, size, depth) = NoEstimate.cost
      BY <2>3 DEF BestCost
    <2> QED
      BY <1>6, <2>4 DEF NoEstimate, WalkCost
  <1>7. CASE ~(SizeUpTo(levels, n) < size)
    <2>1. SizeUpTo(levels, n) \in Nat
      BY <1>1, SizesAddUp DEF SizesRun
    <2>2. u \in [1..n -> 0..size] /\ (\A i \in 1..n : u[i] = FillAt(levels, size, i))
      BY <1>2
    <2>3. SumTo(u, n) = size
      <3> DEFINE w == FilledAt(levels, size)
      <3>1. \A i \in 1..n : w[i] = FillAt(levels, size, i) /\ w[i] \in Int
        BY <1>1, <1>2 DEF FilledAt
      <3>2. SumTo(w, n) = Smaller(size, SizeUpTo(levels, n))
        BY <1>1, FillsAddUp DEF FillsRun
      <3>3. DOMAIN u = 1..n /\ \A i \in 1..n : u[i] = w[i]
        BY <3>1
      <3> HIDE DEF w, u
      <3>4. Ints(w, 1..n) /\ Ints(u, 1..n)
        BY <3>1, <3>3 DEF Ints
      <3>5. SumFunction(u) = SumTo(w, n) /\ SumFunction(u) = SumTo(u, n)
        BY <1>1, <3>3, <3>4, SumOfSeries
      <3> QED
        BY <1>7, <2>1, <3>2, <3>5 DEF Smaller
    <2> HIDE DEF u
    <2>4. u \in takings
      <3>1. SumFunction([i \in 1..n |-> u[i]]) = size
        BY <1>3, <2>2, <2>3
      <3>2. \A i \in 1..n : u[i] <= levels[i].size
        BY <1>2, <2>2
      <3> HIDE DEF takings
      <3> QED
        BY <1>4, <2>2, <3>1, <3>2
    <2>5. CostOfTaking(levels, u) = SumTo(up, n)
      <3> DEFINE p == PriceAt(levels)
      <3>1. \A i \in 1..n : p[i] = levels[i].price
        BY <1>1 DEF PriceAt
      <3> HIDE DEF p, up
      <3>2. PricedBy(up, u, p, n)
        BY <1>2, <2>2, <3>1 DEF PricedBy
      <3> QED
        BY <1>3, <2>2, <3>2 DEF p
    <2> DEFINE c == SumTo(up, n)
    <2> HIDE DEF takings, up
    <2>6. costs \in SUBSET Int /\ c \in costs /\ \A d \in costs : AsGoodAs(side, c, d)
      BY <1>5, <2>4, <2>5
    <2> HIDE DEF costs, c
    <2>7. (IF side = "buy" THEN Min(costs) ELSE Max(costs)) = c
      BY <2>6, BestOfCosts
    <2>8. BestCost(book, side, size, depth)
            = IF side = "buy" THEN Min(costs) ELSE Max(costs)
      BY <2>6 DEF BestCost, costs, takings
    <2> QED
      BY <1>7, <2>7, <2>8 DEF WalkCost, c, up
  <1> QED
    BY <1>6, <1>7

\* What a walk costs: nothing where nothing is filled any more, and at least a tick
\* for every lot.
Walk(levels, size, n) ==
    /\ SumTo(PaidAt(levels, size), n) \in Nat
    /\ SizeUpTo(levels, n) >= size => SumTo(PaidAt(levels, size), n) >= size
    /\ \A c \in 0..n : SizeUpTo(levels, c) >= size =>
          SumTo(PaidAt(levels, size), n) = SumTo(PaidAt(levels, size), c)

LEMMA WalksCost ==
  ASSUME NEW levels \in Seq(BookLevel), NEW size \in Nat, NEW n \in 0..Len(levels)
  PROVE  Walk(levels, size, n)
  <1> DEFINE up == PaidAt(levels, size)
             u == FilledAt(levels, size)
             p == PriceAt(levels)
  <1>1. n \in Nat /\ 1..n \subseteq 1..Len(levels) /\ n \in 0..n /\ 0..n \subseteq 0..Len(levels)
    OBVIOUS
  <1>2. \A i \in 1..n : /\ up[i] = u[i] * p[i] /\ u[i] = FillAt(levels, size, i)
                        /\ up[i] \in Nat /\ u[i] \in Nat /\ p[i] \in Nat \ {0}
    <2>1. \A i \in 1..n : p[i] \in Nat \ {0}
      BY <1>1, LevelFields DEF PriceAt
    <2> HIDE DEF up, u, p
    <2> QED
      BY <1>1, <2>1, PaidIsInt DEF up, u, p
  <1>3. \A k \in 0..n : /\ SumTo(u, k) = Smaller(size, SizeUpTo(levels, k))
                        /\ SizeUpTo(levels, k) \in Nat
    BY <1>1, FillsAddUp, SizesAddUp DEF FillsRun, SizesRun
  <1>4. \A i, j \in 0..n : i <= j => SizeUpTo(levels, i) <= SizeUpTo(levels, j)
    BY <1>1, SizesAddUp DEF SizesRun
  <1>5. \A i \in 1..n : levels[i].size \in Nat
    BY <1>1, LevelFields
  <1> HIDE DEF up, u, p
  <1>6. Ints(up, 1..n) /\ Ints(u, 1..n)
    BY <1>2 DEF Ints
  <1>7. SumTo(up, n) \in Nat
    <2>1. Runs(up, n)
      BY <1>1, <1>6, RunningSum
    <2>2. SumTo(up, 0) <= SumTo(up, n)
      <3>1. 0 \in 0..n /\ 0 <= n
        BY <1>1
      <3> QED
        BY <1>1, <1>2, <3>1, SumsGrow
    <2> QED
      BY <1>1, <2>1, <2>2 DEF Runs
  <1>8. ASSUME SizeUpTo(levels, n) >= size PROVE SumTo(up, n) >= size
    <2>1. \A i \in 1..n : u[i] <= up[i]
      <3> SUFFICES ASSUME NEW i \in 1..n PROVE u[i] <= up[i]
        OBVIOUS
      <3>1. u[i] \in Int /\ u[i] >= 0 /\ p[i] \in Int /\ 1 <= p[i] /\ up[i] = u[i] * p[i]
        BY <1>2
      <3>2. u[i] * 1 <= u[i] * p[i]
        BY <3>1, ProductGrows
      <3>3. u[i] * 1 = u[i]
        BY <3>1
      <3> QED
        BY <3>1, <3>2, <3>3
    <2>2. SumTo(u, n) <= SumTo(up, n)
      BY <1>1, <1>6, <2>1, SumBelow
    <2>3. SumTo(u, n) = size
      BY <1>1, <1>3, <1>8 DEF Smaller
    <2> QED
      BY <1>7, <2>2, <2>3
  <1>9. ASSUME NEW c \in 0..n, SizeUpTo(levels, c) >= size
        PROVE  SumTo(up, n) = SumTo(up, c)
    <2>1. ASSUME NEW i \in 1..n, i > c PROVE up[i] = 0
      <3>1. i - 1 \in 0..n /\ c <= i - 1
        BY <1>1, <2>1
      <3>2. SizeUpTo(levels, i - 1) >= size /\ SizeUpTo(levels, i - 1) \in Nat
        BY <1>3, <1>4, <1>9, <3>1
      <3>3. FillAt(levels, size, i)
              = Smaller(levels[i].size, size - Smaller(size, SizeUpTo(levels, i - 1)))
        BY DEF FillAt
      <3>4. Smaller(size, SizeUpTo(levels, i - 1)) = size
        BY <3>2 DEF Smaller
      <3>5. size - size = 0 /\ Smaller(levels[i].size, 0) = 0
        BY <1>5 DEF Smaller
      <3>6. u[i] = 0
        BY <1>2, <3>3, <3>4, <3>5
      <3>7. up[i] = u[i] * p[i] /\ p[i] \in Int
        BY <1>2
      <3>8. 0 * p[i] = 0
        BY <3>7
      <3> QED
        BY <3>6, <3>7, <3>8
    <2> QED
      BY <1>1, <1>6, <2>1, SumStops
  <1> QED
    BY <1>7, <1>8, <1>9 DEF Walk, up

\* The estimate of a size costs what the walk does, and there is none where the
\* levels do not hold it.
Estimated(e, levels, size, n) ==
    /\ e.cost = WalkCost(levels, size, n)
    /\ SizeUpTo(levels, n) >= size => e.size = size /\ e.cost \in Nat /\ e # NoEstimate
    /\ SizeUpTo(levels, n) < size => e = NoEstimate

LEMMA EstimateIsTheWalk ==
  ASSUME NEW book, NEW side, NEW levels \in Seq(BookLevel), levels = Levels(book, side),
         NEW size \in Nat \ {0}, NEW n, n = Smaller(Depth, Len(levels))
  PROVE  Estimated(Estimate(book, side, size), levels, size, n)
  <1> DEFINE enough == {k \in 1..n : SizeUpTo(levels, k) >= size}
             up == PaidAt(levels, size)
  <1>1. n \in 0..Len(levels) /\ n \in Nat /\ 1..n \subseteq 1..Len(levels) /\ 1..n \subseteq 0..n
    BY PricingAssumption DEF Smaller
  <1>2. SizesRun(levels) /\ Walk(levels, size, n)
    BY <1>1, SizesAddUp, WalksCost
  <1>3. \A k \in 0..n : SizeUpTo(levels, k) \in Nat /\ k \in 0..Len(levels)
    BY <1>1, <1>2 DEF SizesRun
  <1>4. Estimate(book, side, size) =
           IF enough = {} THEN NoEstimate
           ELSE [cost |-> SumFunction([i \in 1..Min(enough) |->
                                          FillAt(levels, size, i) * levels[i].price]),
                 size |-> size, levels |-> Min(enough),
                 available |-> SizeUpTo(levels, Min(enough))]
    BY DEF Estimate
  <1>5. CASE SizeUpTo(levels, n) < size
    <2>1. \A k \in 1..n : k \in 0..n /\ n \in 0..n /\ k <= n
      BY <1>1
    <2>2. \A k \in 1..n : SizeUpTo(levels, k) <= SizeUpTo(levels, n)
      BY <1>2, <1>3, <2>1 DEF SizesRun
    <2>3. n \in 0..n
      BY <1>1
    <2>4. \A k \in 1..n : ~(SizeUpTo(levels, k) >= size)
      BY <1>3, <1>5, <2>1, <2>2, <2>3
    <2>5. Estimate(book, side, size) = NoEstimate
      BY <1>4, <2>4
    <2>6. SizeUpTo(levels, n) \in Nat
      BY <1>3, <2>3
    <2> QED
      BY <1>5, <2>5, <2>6 DEF Estimated, WalkCost, NoEstimate
  <1>6. CASE ~(SizeUpTo(levels, n) < size)
    <2>1. n \in 0..n /\ SizeUpTo(levels, n) \in Nat /\ SizeUpTo(levels, n) >= size
      BY <1>1, <1>3, <1>6
    <2>2. n # 0
      BY <1>2, <2>1 DEF SizesRun
    <2>3. n \in enough
      BY <1>1, <2>1, <2>2
    <2>4. enough \in SUBSET Nat
      OBVIOUS
    <2>5. \A k : k \in enough => k \in 1..n /\ SizeUpTo(levels, k) >= size
      OBVIOUS
    <2> DEFINE c == Min(enough)
    <2> HIDE DEF enough
    <2>6. \E x \in enough : \A y \in enough : x <= y
      BY <2>3, <2>4, Sums!NatSetHasMin
    <2>7. c \in enough
      BY <2>6 DEF Min
    <2> HIDE DEF c
    <2>8. c \in 1..n /\ SizeUpTo(levels, c) >= size /\ c \in 0..n /\ c \in Nat
      BY <1>1, <2>5, <2>7
    <2> DEFINE g == [i \in 1..c |-> FillAt(levels, size, i) * levels[i].price]
    <2>9. \A i \in 1..c : i \in 1..Len(levels)
      BY <1>1, <2>8
    <2>10. DOMAIN g = 1..c /\ (\A i \in 1..c : g[i] = up[i]) /\ Ints(up, 1..c)
      <3>1. \A i \in 1..c : up[i] = FillAt(levels, size, i) * levels[i].price
        BY <2>9 DEF PaidAt
      <3>2. \A i \in 1..c : up[i] \in Int
        <4> HIDE DEF up
        <4> QED
          BY <2>9, PaidIsInt DEF up
      <3> HIDE DEF up
      <3> QED
        BY <3>1, <3>2 DEF Ints
    <2> HIDE DEF g, up
    <2>11. SumFunction(g) = SumTo(up, c)
      BY <2>8, <2>10, SumOfSeries
    <2>12. Estimate(book, side, size) =
              [cost |-> SumFunction(g), size |-> size, levels |-> c,
               available |-> SizeUpTo(levels, c)]
      BY <1>4, <2>3 DEF g, c
    <2>13. SumTo(up, c) = SumTo(up, n) /\ SumTo(up, n) \in Nat
      BY <1>2, <2>8 DEF Walk, up
    <2>14. /\ Estimate(book, side, size).cost = SumTo(up, n)
           /\ Estimate(book, side, size).size = size
      BY <2>11, <2>12, <2>13
    <2>15. NoEstimate.size = 0
      BY DEF NoEstimate
    <2> QED
      BY <1>6, <2>1, <2>13, <2>14, <2>15 DEF Estimated, WalkCost, up
  <1> QED
    BY <1>5, <1>6

LEMMA LocalIsTheWalk ==
  ASSUME NEW book, NEW side, NEW levels \in Seq(BookLevel), levels = Levels(book, side),
         NEW size \in Nat \ {0}
  PROVE  LocalCost(book, side, size) = WalkCost(levels, size, Len(levels))
  <1> DEFINE up == PaidAt(levels, size)
             g == [i \in 1..Len(levels) |-> FillAt(levels, size, i) * levels[i].price]
             n == Len(levels)
  <1>1. g = up /\ n \in Nat
    BY DEF PaidAt
  <1>2. DOMAIN up = 1..n
    BY DEF PaidAt
  <1> HIDE DEF up
  <1>3. Ints(up, 1..n)
    BY PaidIsInt DEF Ints, up
  <1> HIDE DEF n, g
  <1>4. SumFunction(up) = SumTo(up, n)
    BY <1>1, <1>2, <1>3, SumOfSeries
  <1>5. LocalCost(book, side, size)
           = IF SizeUpTo(levels, n) < size THEN NoEstimate.cost ELSE SumFunction(g)
    BY DEF LocalCost, TotalSize, n, g
  <1> QED
    BY <1>1, <1>4, <1>5 DEF WalkCost, NoEstimate, up, n

\* A walk for more is never the cheaper one, share by share.
LEMMA LargerWalkIsWorse ==
  ASSUME NEW levels \in Seq(BookLevel), NEW side, Sorted(levels, side),
         NEW n \in 0..Len(levels), NEW less \in Nat, NEW more \in Nat, less < more,
         SizeUpTo(levels, n) >= more,
         NEW a, a = SumTo(PaidAt(levels, less), n), NEW b, b = SumTo(PaidAt(levels, more), n)
  PROVE  AsGoodAs(side, more * a, less * b)
  <1> DEFINE p == PriceAt(levels)
             f == FilledAt(levels, less)
             g == FilledAt(levels, more)
             fp == PaidAt(levels, less)
             gp == PaidAt(levels, more)
             u == [i \in 1..n |-> more * f[i]]
             v == [i \in 1..n |-> less * g[i]]
             up == [i \in 1..n |-> more * fp[i]]
             vp == [i \in 1..n |-> less * gp[i]]
  <1>1. n \in Nat /\ 1..n \subseteq 1..Len(levels) /\ 0..n \subseteq 0..Len(levels) /\ n \in 0..n
        /\ more \in Int /\ less \in Int
    OBVIOUS
  <1>2. \A i \in 1..n : /\ fp[i] = f[i] * p[i] /\ gp[i] = g[i] * p[i] /\ p[i] \in Int
                        /\ {f[i], g[i], fp[i], gp[i]} \subseteq Int /\ p[i] = levels[i].price
    <2> HIDE DEF f, g, fp, gp, p
    <2> QED
      BY <1>1, PaidIsInt DEF f, g, fp, gp, p
  <1>3. \A k \in 0..n : /\ SumTo(f, k) = Smaller(less, SizeUpTo(levels, k))
                        /\ SumTo(g, k) = Smaller(more, SizeUpTo(levels, k))
                        /\ SizeUpTo(levels, k) \in Nat
    <2>1. FillsRun(levels, less) /\ FillsRun(levels, more) /\ SizesRun(levels)
      BY FillsAddUp, SizesAddUp
    <2> QED
      BY <1>1, <2>1 DEF FillsRun, SizesRun
  <1>4. \A i \in 1..n : /\ u[i] = more * f[i] /\ v[i] = less * g[i]
                        /\ up[i] = more * fp[i] /\ vp[i] = less * gp[i]
    OBVIOUS
  <1>5. Scales(u, more, f, n) /\ Scales(v, less, g, n) /\ Scales(up, more, fp, n)
        /\ Scales(vp, less, gp, n)
    BY <1>4 DEF Scales
  <1> HIDE DEF p, f, g, fp, gp, u, v, up, vp
  <1>6. Ints(f, 1..n) /\ Ints(g, 1..n) /\ Ints(fp, 1..n) /\ Ints(gp, 1..n) /\ Ints(p, 1..n)
    BY <1>2 DEF Ints
  <1>7. Ints(u, 1..n) /\ \A k \in 0..n : SumTo(u, k) = more * SumTo(f, k)
    BY <1>1, <1>6, <1>5, SumScaled
  <1>8. Ints(v, 1..n) /\ \A k \in 0..n : SumTo(v, k) = less * SumTo(g, k)
    BY <1>1, <1>6, <1>5, SumScaled
  <1>9. \A k \in 0..n : SumTo(up, k) = more * SumTo(fp, k)
    BY <1>1, <1>6, <1>5, SumScaled
  <1>10. \A k \in 0..n : SumTo(vp, k) = less * SumTo(gp, k)
    BY <1>1, <1>6, <1>5, SumScaled
  <1>11. Earlier(u, v, n)
    <2>1. ASSUME NEW k \in 0..n
          PROVE  more * Smaller(less, SizeUpTo(levels, k)) >= less * Smaller(more, SizeUpTo(levels, k))
      <3> DEFINE s == SizeUpTo(levels, k)
      <3>1. s \in Nat
        BY <1>3
      <3> HIDE DEF s
      <3>2. CASE s < less
        <4>1. Smaller(less, s) = s /\ Smaller(more, s) = s
          BY <3>1, <3>2 DEF Smaller
        <4>2. s * less <= s * more
          BY <3>1, ProductGrows
        <4>3. s * less = less * s /\ s * more = more * s /\ less * s \in Int /\ more * s \in Int
          BY <3>1
        <4> QED
          BY <4>1, <4>2, <4>3 DEF s
      <3>3. CASE less <= s
        <4>1. Smaller(less, s) = less /\ Smaller(more, s) <= more /\ Smaller(more, s) \in Int
          BY <3>1, <3>3 DEF Smaller
        <4> DEFINE m == Smaller(more, s)
        <4> HIDE DEF m
        <4>2. less * m <= less * more
          BY <4>1, ProductGrows DEF m
        <4>3. less * more = more * less /\ less * more \in Int /\ less * m \in Int
          BY <4>1 DEF m
        <4>4. more * less >= less * m
          BY <4>2, <4>3
        <4> QED
          BY <4>1, <4>4 DEF s, m
      <3> QED
        BY <3>1, <3>2, <3>3
    <2>2. \A k \in 0..n : SumTo(u, k) >= SumTo(v, k)
      BY <1>3, <1>7, <1>8, <2>1
    <2>3. Smaller(less, SizeUpTo(levels, n)) = less /\ Smaller(more, SizeUpTo(levels, n)) = more
      BY <1>1, <1>3 DEF Smaller
    <2>4. SumTo(u, n) = more * less /\ SumTo(v, n) = less * more
      BY <1>1, <1>3, <1>7, <1>8, <2>3
    <2>5. more * less = less * more
      OBVIOUS
    <2>6. \A k \in 1..n : k \in 0..n
      OBVIOUS
    <2> QED
      BY <2>2, <2>4, <2>5, <2>6 DEF Earlier
  <1>12. PricedBy(up, u, p, n) /\ PricedBy(vp, v, p, n)
    <2> SUFFICES ASSUME NEW i \in 1..n PROVE up[i] = u[i] * p[i] /\ vp[i] = v[i] * p[i]
      BY DEF PricedBy
    <2>1. f[i] \in Int /\ g[i] \in Int /\ p[i] \in Int
      BY <1>2
    <2>2. more * (f[i] * p[i]) = (more * f[i]) * p[i] /\ less * (g[i] * p[i]) = (less * g[i]) * p[i]
      BY <2>1
    <2> QED
      BY <1>2, <1>4, <2>2
  <1>13. a = SumTo(fp, n) /\ b = SumTo(gp, n)
    BY DEF fp, gp
  <1>14. CASE side = "buy"
    <2>1. Rising(p, n)
      BY <1>1, <1>2, <1>14 DEF Sorted, Rising
    <2>2. SumTo(up, n) <= SumTo(vp, n)
      BY <1>1, <1>6, <1>7, <1>8, <1>11, <1>12, <2>1, EarlierCostsLess
    <2> QED
      BY <1>1, <1>9, <1>10, <1>13, <1>14, <2>2 DEF AsGoodAs
  <1>15. CASE side # "buy"
    <2>1. Falling(p, n)
      BY <1>1, <1>2, <1>15 DEF Sorted, Falling
    <2>2. SumTo(up, n) >= SumTo(vp, n)
      BY <1>1, <1>6, <1>7, <1>8, <1>11, <1>12, <2>1, EarlierBringsMore
    <2> QED
      BY <1>1, <1>9, <1>10, <1>13, <1>15, <2>2 DEF AsGoodAs
  <1> QED
    BY <1>14, <1>15

\* And none is better than the best price.
LEMMA NoneBeatsBest ==
  ASSUME NEW levels \in Seq(BookLevel), NEW side, Sorted(levels, side),
         NEW n \in 1..Len(levels), NEW size \in Nat, SizeUpTo(levels, n) >= size
  PROVE  AsGoodAs(side, levels[1].price * size, SumTo(PaidAt(levels, size), n))
  <1> DEFINE p == PriceAt(levels)
             f == FilledAt(levels, size)
             fp == PaidAt(levels, size)
             best == levels[1].price
             u == [i \in 1..n |-> best * f[i]]
  <1>1. n \in Nat /\ 1..n \subseteq 1..Len(levels) /\ n \in 0..n /\ n \in 0..Len(levels)
        /\ 1 \in 1..Len(levels)
    OBVIOUS
  <1>2. \A i \in 1..n : /\ fp[i] = f[i] * p[i] /\ p[i] \in Int /\ fp[i] \in Int
                        /\ f[i] \in Nat /\ p[i] = levels[i].price
    <2> HIDE DEF f, fp, p
    <2> QED
      BY <1>1, PaidIsInt DEF f, fp, p
  <1>3. best \in Nat
    BY <1>1, LevelFields
  <1>4. SumTo(f, n) = size
    <2>1. FillsRun(levels, size) /\ SizeUpTo(levels, n) \in Nat
      BY <1>1, FillsAddUp, SizesAddUp DEF SizesRun
    <2> QED
      BY <1>1, <2>1 DEF FillsRun, Smaller
  <1>5. (\A i \in 1..n : u[i] = best * f[i]) /\ Scales(u, best, f, n)
    BY DEF Scales
  <1>6. ASSUME NEW i \in 1..n PROVE AsGoodAs(side, best, p[i])
    <2>1. i = 1 \/ (1 < i /\ i \in 1..Len(levels))
      BY <1>1
    <2> QED
      BY <1>1, <1>2, <1>3, <2>1 DEF Sorted, AsGoodAs
  <1> HIDE DEF p, f, fp, u, best
  <1>7. Ints(f, 1..n) /\ Ints(fp, 1..n)
    <2>1. ASSUME NEW i \in 1..n PROVE f[i] \in Int /\ fp[i] \in Int
      BY <1>2
    <2> QED
      BY <2>1, Zenon DEF Ints
  <1>8. Ints(u, 1..n) /\ SumTo(u, n) = best * size
    <2>1. best \in Int
      BY <1>3
    <2>2. Ints(u, 1..n) /\ \A k \in 0..n : SumTo(u, k) = best * SumTo(f, k)
      BY <1>1, <1>5, <1>7, <2>1, SumScaled
    <2> QED
      BY <1>1, <1>4, <2>2
  <1>9. \A i \in 1..n : AsGoodAs(side, u[i], fp[i])
    <2> SUFFICES ASSUME NEW i \in 1..n PROVE AsGoodAs(side, u[i], fp[i])
      OBVIOUS
    <2>1. f[i] \in Int /\ f[i] >= 0 /\ best \in Int /\ p[i] \in Int
      BY <1>2, <1>3
    <2>2. best * f[i] = f[i] * best
      BY <2>1
    <2>3. CASE side = "buy"
      <3>1. best <= p[i]
        BY <1>6, <2>3 DEF AsGoodAs
      <3>2. f[i] * best <= f[i] * p[i]
        BY <2>1, <3>1, ProductGrows
      <3> QED
        BY <1>2, <1>5, <2>2, <2>3, <3>2 DEF AsGoodAs
    <2>4. CASE side # "buy"
      <3>1. p[i] <= best
        BY <1>6, <2>1, <2>4 DEF AsGoodAs
      <3>2. f[i] * p[i] <= f[i] * best /\ f[i] * p[i] \in Int /\ f[i] * best \in Int
        BY <2>1, <3>1, ProductGrows
      <3> QED
        BY <1>2, <1>5, <2>2, <2>4, <3>2 DEF AsGoodAs
    <2> QED
      BY <2>3, <2>4
  <1>10. CASE side = "buy"
    <2>1. \A i \in 1..n : u[i] <= fp[i]
      BY <1>9, <1>10 DEF AsGoodAs
    <2>2. SumTo(u, n) <= SumTo(fp, n)
      BY <1>1, <1>7, <1>8, <2>1, SumBelow
    <2> QED
      BY <1>8, <1>10, <2>2 DEF AsGoodAs, best, fp
  <1>11. CASE side # "buy"
    <2>1. \A i \in 1..n : fp[i] <= u[i]
      BY <1>2, <1>7, <1>8, <1>9, <1>11 DEF AsGoodAs, Ints
    <2>2. SumTo(fp, n) <= SumTo(u, n)
      BY <1>1, <1>7, <1>8, <2>1, SumBelow
    <2>3. SumTo(fp, n) \in Int /\ SumTo(u, n) \in Int
      BY <1>1, <1>7, <1>8, RunningSum DEF Runs
    <2> QED
      BY <1>8, <1>11, <2>2, <2>3 DEF AsGoodAs, best, fp
  <1> QED
    BY <1>10, <1>11

\* A set of levels that has with every level those before it is that of the first.
LEMMA FirstOnes ==
  ASSUME NEW n \in Nat, NEW S \in SUBSET (1..n), \A i \in S : \A j \in 1..i : j \in S
  PROVE  \E a \in 0..n : S = 1..a
  <1> DEFINE Good == {k \in 0..n : \E a \in 0..k : \A i \in 1..k : i \in S <=> i <= a}
  <1>1. 0 \in Good
    OBVIOUS
  <1>2. ASSUME NEW k \in 1..n, k - 1 \in Good PROVE k \in Good
    <2>1. CASE k \in S
      <3>1. \A i \in 1..k : i \in S /\ i <= k
        BY <2>1
      <3>2. k \in 0..k /\ k \in 0..n
        OBVIOUS
      <3> QED
        BY <3>1, <3>2
    <2>2. CASE k \notin S
      <3>1. PICK a \in 0..(k - 1) : \A i \in 1..(k - 1) : i \in S <=> i <= a
        BY <1>2
      <3>2. a \in 0..k /\ ~(k <= a)
        OBVIOUS
      <3>3. \A i \in 1..k : i \in 1..(k - 1) \/ i = k
        OBVIOUS
      <3>4. \A i \in 1..k : i \in S <=> i <= a
        BY <2>2, <3>1, <3>2, <3>3
      <3>5. \E b \in 0..k : \A i \in 1..k : i \in S <=> i <= b
        BY <3>2, <3>4
      <3>6. k \in 0..n
        OBVIOUS
      <3> QED
        BY <3>5, <3>6
    <2> QED
      BY <2>1, <2>2
  <1> HIDE DEF Good
  <1>3. n \in Good
    BY <1>1, <1>2, Sums!UpToInduction
  <1>4. PICK a \in 0..n : \A i \in 1..n : i \in S <=> i <= a
    BY <1>3 DEF Good
  <1>5. \A i \in 1..n : i \in 1..a <=> i <= a
    OBVIOUS
  <1>6. 1..a \subseteq 1..n
    OBVIOUS
  <1>7. S = 1..a
    BY <1>4, <1>5, <1>6
  <1> QED
    BY <1>7

LEMMA IntervalSize == \A b \in Nat : Cardinality(1..b) = b
  <1> SUFFICES ASSUME NEW b \in Nat PROVE Cardinality(1..b) = b
    OBVIOUS
  <1>1. 1 \in Int /\ b \in Int
    OBVIOUS
  <1>2. Cardinality(1..b) = IF 1 > b THEN 0 ELSE b - 1 + 1
    BY <1>1, FS_Interval
  <1> QED
    BY <1>2

\* Prices only get farther from the best.
LEMMA NearIsFirst ==
  ASSUME NEW levels \in Seq(BookLevel), NEW side, Sorted(levels, side),
         NEW num \in Nat, NEW den \in Nat,
         NEW i \in 1..Len(levels), NEW j \in 1..i,
         WithinSlippage(levels, levels[i].price, num, den)
  PROVE  WithinSlippage(levels, levels[j].price, num, den)
  <1> DEFINE best == levels[1].price
             p == levels[i].price
             q == levels[j].price
             away(x) == IF x > best THEN x - best ELSE best - x
  <1>1. 1 \in 1..Len(levels) /\ j \in 1..Len(levels) /\ (j < i \/ j = i) /\ (1 < j \/ 1 = j)
    OBVIOUS
  <1>2. best \in Nat /\ p \in Nat /\ q \in Nat /\ best > 0
    BY <1>1, LevelFields
  <1>3. AsGoodAs(side, best, q) /\ AsGoodAs(side, q, p)
    BY <1>1, <1>2 DEF Sorted, AsGoodAs
  <1>4. away(p) * den <= num * best
    BY <1>2 DEF WithinSlippage
  <1>5. WithinSlippage(levels, q, num, den) <=> best <= 0 \/ away(q) * den <= num * best
    BY DEF WithinSlippage
  <1> HIDE DEF best, p, q
  <1>6. away(q) <= away(p) /\ away(q) \in Int /\ away(p) \in Int
    BY <1>2, <1>3 DEF AsGoodAs
  <1> HIDE DEF away
  <1>7. den * away(q) <= den * away(p)
    BY <1>6, ProductGrows
  <1>8. den * away(q) = away(q) * den /\ den * away(p) = away(p) * den
        /\ away(q) * den \in Int /\ away(p) * den \in Int /\ num * best \in Int
    BY <1>2, <1>6
  <1>9. away(q) * den <= num * best
    BY <1>4, <1>7, <1>8
  <1> QED
    BY <1>5, <1>9 DEF q

\* Splitting by levels takes the first of those within the limit.
LEMMA SplitIsRightAlways ==
  ASSUME NEW book, NEW side, NEW levels \in Seq(BookLevel), levels = Levels(book, side),
         Sorted(levels, side), NEW size \in Nat \ {0}, NEW num \in Nat, NEW den \in Nat
  PROVE  SplitIsRight(book, side, size, num, den)
  <1> DEFINE n == Smaller(Depth, Len(levels))
             ok(i) == WithinSlippage(levels, levels[i].price, num, den)
             near == {i \in 1..n : ok(i)}
             taken == {i \in 1..n : SizeUpTo(levels, i - 1) < size /\ \A j \in 1..i : ok(j)}
             f == FilledAt(levels, size)
             z == SizeAt(levels)
  <1>1. n \in Nat /\ n \in 0..Len(levels)
    BY PricingAssumption DEF Smaller
  <1>2. ASSUME NEW i \in 1..Len(levels), ok(i), NEW j \in 1..i PROVE ok(j)
    BY <1>2, NearIsFirst
  <1>3. SizesRun(levels) /\ FillsRun(levels, size)
    BY SizesAddUp, FillsAddUp
  <1> HIDE DEF n, ok
  <1>4. /\ 1..n \subseteq 1..Len(levels) /\ 0..n \subseteq 0..Len(levels)
        /\ \A i \in 1..n : i - 1 \in 0..n /\ i \in 0..n
    BY <1>1
  <1>5. /\ \A k \in 0..n : SizeUpTo(levels, k) \in Nat
        /\ \A i, j \in 0..n : i <= j => SizeUpTo(levels, i) <= SizeUpTo(levels, j)
        /\ SizeUpTo(levels, 0) = 0
    BY <1>3, <1>4 DEF SizesRun
  <1>6. PICK a \in 0..n : near = 1..a
    <2>1. near \in SUBSET (1..n)
      OBVIOUS
    <2>2. ASSUME NEW i \in near, NEW j \in 1..i PROVE j \in near
      <3>1. i \in 1..n /\ ok(i) /\ i \in 1..Len(levels)
        BY <1>4
      <3>2. j \in 1..n
        BY <1>1, <3>1
      <3>3. ok(j)
        BY <1>2, <3>1
      <3> QED
        BY <3>2, <3>3
    <2> HIDE DEF near
    <2> QED
      BY <1>1, <2>1, <2>2, FirstOnes
  <1>7. PICK b \in 0..n : taken = 1..b
    <2>1. taken \in SUBSET (1..n)
      OBVIOUS
    <2>2. ASSUME NEW i \in taken, NEW j \in 1..i PROVE j \in taken
      <3>1. i \in 1..n /\ j \in 1..n /\ i - 1 \in 0..n /\ j - 1 \in 0..n /\ j - 1 <= i - 1
        BY <1>1
      <3>2. SizeUpTo(levels, j - 1) <= SizeUpTo(levels, i - 1)
        BY <1>5, <3>1
      <3>3. SizeUpTo(levels, j - 1) < size
        BY <1>5, <3>1, <3>2
      <3>4. \A k \in 1..j : k \in 1..i
        BY <3>1
      <3>5. \A k \in 1..j : ok(k)
        BY <3>4
      <3> QED
        BY <3>1, <3>3, <3>5
    <2> HIDE DEF taken
    <2> QED
      BY <1>1, <2>1, <2>2, FirstOnes
  <1>8. a \in Nat /\ b \in Nat /\ a \in 0..n /\ b \in 0..n
    BY <1>1
  <1>9. \A i \in 1..n : i \in taken <=> SizeUpTo(levels, i - 1) < size /\ \A j \in 1..i : ok(j)
    OBVIOUS
  <1>10. \A i \in 1..n : i \in near <=> ok(i)
    OBVIOUS
  <1>11. b <= a
    <2>1. CASE b = 0
      BY <1>8, <2>1
    <2>2. CASE b # 0
      <3>1. b \in 1..b /\ b \in 1..n
        BY <1>8, <2>2
      <3>2. b \in near
        BY <1>7, <1>9, <1>10, <3>1
      <3> QED
        BY <1>6, <1>8, <3>2
    <2> QED
      BY <2>1, <2>2
  <1> DEFINE chunks == SplitOrder(book, side, size, num, den)
  <1>12. chunks = [i \in 1..b |->
                      [size |-> FillAt(levels, size, i), price |-> levels[i].price,
                       delay |-> 500 * (i - 1)]]
    <2>1. chunks = [i \in 1..Cardinality(taken) |->
                      [size |-> FillAt(levels, size, i), price |-> levels[i].price,
                       delay |-> 500 * (i - 1)]]
      BY DEF SplitOrder, n, ok
    <2>2. Cardinality(taken) = b
      BY <1>7, <1>8, IntervalSize
    <2> QED
      BY <2>1, <2>2
  <1>13. SumFunction([i \in DOMAIN chunks |-> chunks[i].size]) = Smaller(size, SizeUpTo(levels, b))
    <2> DEFINE g == [i \in DOMAIN chunks |-> chunks[i].size]
    <2>1. DOMAIN g = 1..b /\ \A i \in 1..b : g[i] = FillAt(levels, size, i)
      BY <1>12
    <2>2. \A i \in 1..b : i \in 1..Len(levels)
      BY <1>4, <1>8
    <2>3. \A i \in 1..b : f[i] = FillAt(levels, size, i) /\ f[i] \in Int
      BY <1>3, <2>2 DEF FilledAt, FillsRun
    <2> HIDE DEF g, f
    <2>4. Ints(f, 1..b)
      BY <2>3 DEF Ints
    <2>5. SumFunction(g) = SumTo(f, b)
      BY <1>8, <2>1, <2>3, <2>4, SumOfSeries
    <2>6. SumTo(f, b) = Smaller(size, SizeUpTo(levels, b))
      BY <1>3, <1>4, <1>8 DEF FillsRun, f
    <2> QED
      BY <2>5, <2>6 DEF g
  <1>14. SumFunction([i \in near |-> levels[i].size]) = SizeUpTo(levels, a)
    BY <1>6 DEF SizeUpTo
  <1>15. Smaller(size, SizeUpTo(levels, b)) = Smaller(size, SizeUpTo(levels, a))
    <2>1. CASE a = b
      BY <2>1
    <2>2. CASE b < a
      <3> DEFINE c == b + 1
      <3>1. c \in 1..a /\ c \in 1..n /\ c - 1 = b /\ c \notin 1..b
        <4>1. c \in Nat /\ c >= 1 /\ c <= a /\ a <= n /\ c > b /\ c - 1 = b
          BY <1>1, <1>8, <2>2
        <4> HIDE DEF c
        <4> QED
          BY <1>1, <1>8, <4>1
      <3> HIDE DEF c, near, taken
      <3>2. c \in near /\ c \notin taken
        BY <1>6, <1>7, <3>1
      <3>3. \A j \in 1..c : ok(j)
        BY <1>2, <1>4, <1>10, <3>1, <3>2
      <3>4. ~(SizeUpTo(levels, b) < size)
        BY <1>9, <3>1, <3>2, <3>3
      <3>5. SizeUpTo(levels, b) <= SizeUpTo(levels, a) /\ b <= a
        BY <1>5, <1>8, <2>2
      <3>6. SizeUpTo(levels, b) \in Nat /\ SizeUpTo(levels, a) \in Nat
        BY <1>5, <1>8
      <3> QED
        BY <3>4, <3>5, <3>6 DEF Smaller
    <2> QED
      BY <1>8, <1>11, <2>1, <2>2
  <1>16. \A i \in DOMAIN chunks : WithinSlippage(levels, chunks[i].price, num, den)
    <2> SUFFICES ASSUME NEW i \in DOMAIN chunks
                 PROVE  WithinSlippage(levels, chunks[i].price, num, den)
      OBVIOUS
    <2>1. i \in 1..b /\ chunks[i].price = levels[i].price
      BY <1>12
    <2>2. i \in taken /\ i \in 1..n /\ i \in 1..i
      BY <1>7, <1>8, <2>1
    <2>3. ok(i)
      BY <1>9, <2>2
    <2> QED
      BY <2>1, <2>3 DEF ok
  <1>17. near = {i \in 1..Smaller(Depth, Len(levels)) :
                    WithinSlippage(levels, levels[i].price, num, den)}
    BY DEF n, ok
  <1> HIDE DEF chunks, near, taken
  <1>18. /\ SumFunction([i \in DOMAIN chunks |-> chunks[i].size])
              = Smaller(size, SumFunction([i \in near |-> levels[i].size]))
         /\ \A i \in DOMAIN chunks : WithinSlippage(levels, chunks[i].price, num, den)
    BY <1>13, <1>14, <1>15, <1>16
  <1> QED
    BY <1>17, <1>18 DEF SplitIsRight, chunks

LEMMA BooksAreSorted ==
  ASSUME NEW book \in Books, NEW side \in Sides
  PROVE  Levels(book, side) \in Seq(BookLevel) /\ Sorted(Levels(book, side), side)
  <1>1. /\ book.bids \in Seq(BookLevel) /\ book.asks \in Seq(BookLevel)
        /\ \A i, j \in DOMAIN book.bids : i < j => book.bids[i].price >= book.bids[j].price
        /\ \A i, j \in DOMAIN book.asks : i < j => book.asks[i].price <= book.asks[j].price
    BY DEF Books
  <1>2. DOMAIN book.bids = 1..Len(book.bids) /\ DOMAIN book.asks = 1..Len(book.asks)
    BY <1>1
  <1> QED
    BY <1>1, <1>2 DEF Sides, Levels, Sorted

\* The tiers of `arb scan --all` get worse as they get larger.
LEMMA TiersAlwaysWorsen ==
  ASSUME NEW book \in Books, NEW side \in Sides
  PROVE  TiersWorsen(book, side)
  <1> DEFINE levels == Levels(book, side)
             n == Smaller(Depth, Len(levels))
             tiers == EstimateTiers(book, side, <<1, 2, 3>>)
             paid(t) == SumTo(PaidAt(levels, t), n)
             best == IF side = "buy" THEN SpreadDepthProfile(book).bestAsk
                     ELSE SpreadDepthProfile(book).bestBid
             noBetter(e, cost, size) ==
                IF side = "buy" THEN e.cost * size >= cost * e.size
                                ELSE e.cost * size <= cost * e.size
  <1>1. levels \in Seq(BookLevel) /\ Sorted(levels, side)
    BY BooksAreSorted
  <1> HIDE DEF levels
  <1>2. n \in Nat /\ n \in 0..Len(levels)
    BY <1>1, PricingAssumption DEF Smaller
  <1>3. levels = Levels(book, side)
    BY DEF levels
  <1>4. best = Best(levels)
    BY DEF SpreadDepthProfile, levels, Levels
  <1>5. DOMAIN tiers = 1..3 /\ \A t \in 1..3 :
           tiers[t] = LET e == Estimate(book, side, t)
                      IN  IF e = NoEstimate THEN [e EXCEPT !.cost = 0] ELSE e
    <2>1. Len(<<1, 2, 3>>) = 3 /\ \A t \in 1..3 : <<1, 2, 3>>[t] = t
      OBVIOUS
    <2> QED
      BY <2>1 DEF EstimateTiers
  <1>6. SizesRun(levels)
    BY <1>1, SizesAddUp
  <1> HIDE DEF n, tiers
  <1>7. SizeUpTo(levels, n) \in Nat
    BY <1>2, <1>6 DEF SizesRun
  <1>8. ASSUME NEW t \in 1..3
        PROVE  /\ SizeUpTo(levels, n) < t => tiers[t].cost = 0
               /\ SizeUpTo(levels, n) >= t =>
                     tiers[t].cost = paid(t) /\ tiers[t].size = t /\ paid(t) \in Nat /\ paid(t) # 0
    <2>1. t \in Nat \ {0}
      OBVIOUS
    <2>2. Estimated(Estimate(book, side, t), levels, t, n)
      BY <1>1, <1>3, <2>1, EstimateIsTheWalk DEF n
    <2>3. Walk(levels, t, n)
      BY <1>1, <1>2, <2>1, WalksCost
    <2>4. CASE SizeUpTo(levels, n) < t
      <3>1. Estimate(book, side, t) = NoEstimate
        BY <2>2, <2>4 DEF Estimated
      <3>2. tiers[t].cost = 0
        BY <1>5, <3>1 DEF NoEstimate
      <3> QED
        BY <1>7, <2>1, <2>4, <3>2
    <2>5. CASE SizeUpTo(levels, n) >= t
      <3>1. /\ Estimate(book, side, t) # NoEstimate /\ Estimate(book, side, t).size = t
            /\ Estimate(book, side, t).cost = WalkCost(levels, t, n)
        BY <2>2, <2>5 DEF Estimated
      <3>2. tiers[t] = Estimate(book, side, t)
        BY <1>5, <3>1
      <3>3. WalkCost(levels, t, n) = paid(t)
        BY <1>7, <2>1, <2>5 DEF WalkCost
      <3>4. paid(t) \in Nat /\ paid(t) >= t
        BY <2>3, <2>5 DEF Walk
      <3>5. paid(t) # 0
        BY <2>1, <3>4
      <3> HIDE DEF paid
      <3> QED
        BY <1>7, <2>1, <2>5, <3>1, <3>2, <3>3, <3>4, <3>5
    <2> HIDE DEF paid
    <2> QED
      BY <1>7, <2>1, <2>4, <2>5
  <1>9. ASSUME NEW t \in 1..3, SizeUpTo(levels, n) >= t
        PROVE  noBetter(tiers[t], best, 1)
    <2>1. t \in Nat /\ t >= 1
      OBVIOUS
    <2>2. n \in 1..Len(levels)
      BY <1>2, <1>6, <1>9, <2>1 DEF SizesRun
    <2>3. AsGoodAs(side, levels[1].price * t, paid(t))
      BY <1>1, <1>9, <2>1, <2>2, NoneBeatsBest
    <2>4. best = levels[1].price
      BY <1>1, <1>4, <2>2 DEF Best
    <2>5. tiers[t].cost = paid(t) /\ tiers[t].size = t /\ paid(t) \in Nat
      BY <1>8, <1>9
    <2> HIDE DEF paid, best
    <2>6. paid(t) * 1 = paid(t)
      BY <2>5
    <2>7. levels[1].price \in Nat
      BY <1>1, <2>2, LevelFields
    <2>8. levels[1].price * t \in Int
      BY <2>1, <2>7
    <2> QED
      BY <2>3, <2>4, <2>5, <2>6, <2>8 DEF AsGoodAs
  <1>10. ASSUME NEW t \in 1..3, SizeUpTo(levels, n) >= t, NEW s \in 1..(t - 1)
         PROVE  tiers[s].cost # 0 /\ noBetter(tiers[t], tiers[s].cost, tiers[s].size)
    <2>1. t \in Nat /\ s \in Nat /\ s < t /\ s \in 1..3 /\ SizeUpTo(levels, n) >= s
      BY <1>7, <1>10
    <2>2. AsGoodAs(side, t * paid(s), s * paid(t))
      BY <1>1, <1>2, <1>10, <2>1, LargerWalkIsWorse
    <2>3. /\ tiers[t].cost = paid(t) /\ tiers[t].size = t /\ paid(t) \in Nat
          /\ tiers[s].cost = paid(s) /\ tiers[s].size = s /\ paid(s) \in Nat /\ paid(s) # 0
      BY <1>8, <1>10, <2>1
    <2> HIDE DEF paid, best
    <2>4. /\ paid(t) * s = s * paid(t) /\ paid(s) * t = t * paid(s)
          /\ paid(t) * s \in Int /\ paid(s) * t \in Int
      BY <2>1, <2>3
    <2> QED
      BY <2>2, <2>3, <2>4 DEF AsGoodAs
  <1>11. \A t \in 1..3 : tiers[t].cost # 0 => SizeUpTo(levels, n) >= t
    BY <1>7, <1>8
  <1> HIDE DEF paid, best
  <1>12. \A t \in DOMAIN tiers : tiers[t].cost # 0 =>
            /\ noBetter(tiers[t], best, 1)
            /\ \A s \in 1..(t - 1) : /\ tiers[s].cost # 0
                                     /\ noBetter(tiers[t], tiers[s].cost, tiers[s].size)
    BY <1>5, <1>9, <1>10, <1>11
  <1> QED
    BY <1>12 DEF TiersWorsen, tiers, best

\* Whatever the book, its walks are the best ones.
WalksOf(book) ==
    \A side \in Sides :
        /\ TiersWorsen(book, side)
        /\ \A size \in 1..(MaxIntra + 1) :
              /\ Estimate(book, side, size).cost = BestCost(book, side, size, Depth)
              /\ LocalCost(book, side, size)
                   = BestCost(book, side, size, Len(Levels(book, side)))
              /\ SplitIsRight(book, side, size, 1, 2)

LEMMA EstimateIsBest ==
  ASSUME NEW book \in Books, NEW side \in Sides, NEW size \in Nat \ {0}
  PROVE  Estimate(book, side, size).cost = BestCost(book, side, size, Depth)
  <1> DEFINE levels == Levels(book, side)
             n == Smaller(Depth, Len(levels))
  <1>1. levels \in Seq(BookLevel) /\ Sorted(levels, side) /\ levels = Levels(book, side)
    BY BooksAreSorted
  <1>2. Depth \in Nat /\ size \in Nat
    BY PricingAssumption
  <1> HIDE DEF levels
  <1>3. n = Smaller(Depth, Len(levels))
    OBVIOUS
  <1> HIDE DEF n
  <1>4. Estimated(Estimate(book, side, size), levels, size, n)
    BY <1>1, <1>3, EstimateIsTheWalk
  <1>5. BestCost(book, side, size, Depth) = WalkCost(levels, size, n)
    BY <1>1, <1>2, <1>3, BestCostIsTheWalk
  <1> QED
    BY <1>4, <1>5 DEF Estimated

LEMMA WalksOfBooks ==
  ASSUME NEW book \in Books
  PROVE  WalksOf(book)
  <1> SUFFICES ASSUME NEW side \in Sides, NEW size \in 1..(MaxIntra + 1)
               PROVE  /\ Estimate(book, side, size).cost = BestCost(book, side, size, Depth)
                      /\ LocalCost(book, side, size)
                           = BestCost(book, side, size, Len(Levels(book, side)))
                      /\ SplitIsRight(book, side, size, 1, 2)
    BY TiersAlwaysWorsen DEF WalksOf
  <1> DEFINE levels == Levels(book, side)
             n == Len(levels)
  <1>1. levels \in Seq(BookLevel) /\ Sorted(levels, side) /\ levels = Levels(book, side)
    BY BooksAreSorted
  <1>2. size \in Nat \ {0} /\ size \in Nat /\ 1 \in Nat /\ 2 \in Nat
    OBVIOUS
  <1> HIDE DEF levels
  <1>3. n \in Nat /\ n = Smaller(n, Len(levels))
    BY <1>1 DEF Smaller
  <1>4. Estimate(book, side, size).cost = BestCost(book, side, size, Depth)
    BY <1>2, EstimateIsBest
  <1>5. LocalCost(book, side, size) = WalkCost(levels, size, Len(levels))
    BY <1>1, <1>2, LocalIsTheWalk
  <1>6. BestCost(book, side, size, n) = WalkCost(levels, size, n)
    <2> HIDE DEF n
    <2> QED
      BY <1>1, <1>2, <1>3, BestCostIsTheWalk
  <1>7. SplitIsRight(book, side, size, 1, 2)
    BY <1>1, <1>2, SplitIsRightAlways
  <1> QED
    BY <1>1, <1>4, <1>5, <1>6, <1>7

(***************************************************************************)
(* What is walked is sorted                                                *)
(***************************************************************************)
Booked == orderbooks \in [MarketSet -> Seq(Books)]

\* What the engine fetches stays a list of snapshots.
LEMMA BooksStaySorted == Spec => []Booked
  <1>1. Init => Booked
    <2> SUFFICES ASSUME Init PROVE Booked
      OBVIOUS
    <2>1. orderbooks = [m \in MarketSet |-> <<>>]
      BY DEF Init, OfferInit
    <2>2. <<>> \in Seq(Books)
      OBVIOUS
    <2> QED
      BY <2>1, <2>2 DEF Booked
  <1>2. Booked /\ [Next]_vars => Booked'
    <2> SUFFICES ASSUME Booked, [Next]_vars PROVE Booked'
      OBVIOUS
    <2>1. CASE orderbooks' = orderbooks
      BY <2>1 DEF Booked
    <2>2. CASE \E m \in MarketSet : Fetch(m)
      <3>1. PICK m \in MarketSet : Fetch(m)
        BY <2>2
      <3>2. PICK books \in Fetches[m] : orderbooks' = [orderbooks EXCEPT ![m] = books]
        BY <3>1 DEF Fetch
      <3>3. books \in Seq(Books)
        BY <3>2, OffersAssumption DEF MarketSet
      <3> QED
        BY <3>2, <3>3 DEF Booked
    <2>3. CASE UNCHANGED vars
      BY <2>1, <2>3 DEF vars, offerVars
    <2>4. CASE Offering
      BY <2>1, <2>2, <2>4 DEF Offering, OfferNext, StartTick, Detect, Refine, Retain
    <2>5. CASE Trying \/ Studying \/ Estimating \/ Simulating
      BY <2>1, <2>5 DEF Trying, Studying, Estimating, Simulating, offerVars
    <2> QED
      BY <2>3, <2>4, <2>5 DEF Next
  <1> QED
    BY <1>1, <1>2, PTL DEF Spec

\* Whatever books are fetched, walking them greedily is the best way of taking any
\* size, and larger sizes are never better ones.
THEOREM WalksAlwaysBest == Spec => []WalksAreBest
  <1>1. Booked => WalksAreBest
    <2> SUFFICES ASSUME Booked, NEW m \in MarketSet, NEW book \in Range(orderbooks[m]),
                        NEW side \in Sides
                 PROVE  /\ TiersWorsen(book, side)
                        /\ \A size \in 1..(MaxIntra + 1) :
                              /\ Estimate(book, side, size).cost
                                   = BestCost(book, side, size, Depth)
                              /\ LocalCost(book, side, size)
                                   = BestCost(book, side, size, Len(Levels(book, side)))
                              /\ SplitIsRight(book, side, size, 1, 2)
      BY DEF WalksAreBest
    <2>1. orderbooks[m] \in Seq(Books)
      BY DEF Booked
    <2>2. book \in Books
      BY <2>1 DEF Range
    <2> QED
      BY <2>2, WalksOfBooks DEF WalksOf
  <1> QED
    BY <1>1, BooksStaySorted, PTL

(***************************************************************************)
(* What is offered                                                         *)
(***************************************************************************)
AppendKept(of, i, sofar) == IF of[1][i] \in of[2] THEN Append(sofar, of[1][i]) ELSE sofar
HighestOf(s) == CHOOSE x \in s : \A y \in s : x >= y
Keeping == INSTANCE FoldFacts WITH Op <- AppendKept, Pick <- HighestOf

\* What a filter keeps.
LEMMA KeptType ==
  ASSUME NEW S, NEW seq \in Seq(S), NEW T
  PROVE  Kept(seq, T) \in Seq(S \cap T)
  <1>1. DOMAIN seq = 1..Len(seq)
    OBVIOUS
  <1>2. Kept(seq, T) = Keeping!KeptOf(seq, T)
    BY <1>1 DEF Kept, FoldLeft, MapThenFoldSet, Max, HighestOf, Keeping!KeptOf, Keeping!Fold,
       Keeping!Equation, AppendKept
  <1>3. Keeping!Keeps(seq, T)
    BY DEF Keeping!Keeps, AppendKept
  <1>4. \A n \in Nat : \A s \in SUBSET (1..n) : HighestOf(s) = Keeping!Highest(s)
    BY DEF HighestOf, Keeping!Highest
  <1> QED
    BY <1>2, <1>3, <1>4, Keeping!KeptType

\* With nothing memoized, a complete set is offered at what its books give.
EdgeReal(o) == o.kind \in CompleteSets => o.net = Attainable(o)

BookList(books) ==
    \E n \in Nat \ {0} : DOMAIN books = 1..n /\ \A i \in 1..n : books[i] \in Books

LEMMA SetSizeType ==
  ASSUME NEW books, BookList(books), NEW side \in Sides, NEW max \in Nat
  PROVE  SetSize(books, side, max) \in Nat
  <1>1. PICK n \in Nat \ {0} : DOMAIN books = 1..n /\ \A i \in 1..n : books[i] \in Books
    BY DEF BookList
  <1> DEFINE sizes == {TotalSize(Levels(books[i], side)) : i \in DOMAIN books}
  <1>2. ASSUME NEW i \in 1..n PROVE TotalSize(Levels(books[i], side)) \in Nat
    <2> DEFINE levels == Levels(books[i], side)
    <2>1. levels \in Seq(BookLevel)
      BY <1>1, BooksAreSorted
    <2> HIDE DEF levels
    <2>2. SizesRun(levels)
      BY <2>1, SizesAddUp
    <2>3. Len(levels) \in 0..Len(levels)
      BY <2>1
    <2> QED
      BY <2>2, <2>3 DEF SizesRun, TotalSize, levels
  <1>3. sizes \in SUBSET Nat
    BY <1>1, <1>2
  <1>4. sizes # {}
    <2>1. 1 \in DOMAIN books
      BY <1>1
    <2> QED
      BY <2>1
  <1> HIDE DEF sizes
  <1>5. \E x \in sizes : \A y \in sizes : x <= y
    BY <1>3, <1>4, Sums!NatSetHasMin
  <1>6. Min(sizes) \in Nat
    BY <1>3, <1>5 DEF Min
  <1> QED
    BY <1>6 DEF SetSize, Smaller, sizes

LEMMA CompleteSetIsReal ==
  ASSUME DOMAIN cache = {}, NEW kind, NEW markets, NEW tokens, NEW books, BookList(books),
         NEW side \in Sides, NEW max \in Nat,
         NEW o \in CompleteSet(kind, markets, tokens, books, side, max)
  PROVE  o.kind = kind /\ o.net = Attainable(o)
  <1>1. PICK n \in Nat \ {0} : DOMAIN books = 1..n /\ \A i \in 1..n : books[i] \in Books
    BY DEF BookList
  <1> DEFINE size == SetSize(books, side, max)
             legs == [i \in DOMAIN books |->
                         Leg(tokens[i], books[i], side, Best(Levels(books[i], side)), size)]
             payoff == IF side = "buy" THEN Dollar * size ELSE -(Dollar * size)
             off == Off(books, side)
             best == [i \in 1..n |-> BestCost(books[i], side, size, Depth)]
  <1>2. /\ o = Offer(kind, markets, legs, off, FeeDen * (payoff - Outlay(legs)) - Fees(legs))
        /\ size > 0
    BY DEF CompleteSet
  <1>3. size \in Nat
    BY SetSizeType
  <1> HIDE DEF size, off
  <1>4. size \in Nat \ {0}
    BY <1>2, <1>3
  <1>5. ASSUME NEW i \in 1..n
        PROVE  /\ legs[i].book = books[i] /\ legs[i].side = side /\ legs[i].size = size
               /\ legs[i].cost = best[i] /\ best[i] \in Int
    <2>1. legs[i] = Leg(tokens[i], books[i], side, Best(Levels(books[i], side)), size)
      BY <1>1
    <2>2. legs[i].book = books[i] /\ legs[i].side = side /\ legs[i].size = size
          /\ legs[i].cost = Cached(books[i], side, size).cost
      BY <2>1 DEF Leg
    <2>3. Cached(books[i], side, size) = Estimate(books[i], side, size)
      BY DEF Cached
    <2>4. Estimate(books[i], side, size).cost = BestCost(books[i], side, size, Depth)
      BY <1>1, <1>4, EstimateIsBest
    <2>5. BestCost(books[i], side, size, Depth) \in Int
      <3> DEFINE levels == Levels(books[i], side)
                 d == Smaller(Depth, Len(levels))
      <3>1. levels \in Seq(BookLevel) /\ Sorted(levels, side) /\ levels = Levels(books[i], side)
        BY <1>1, BooksAreSorted
      <3>2. Depth \in Nat
        BY PricingAssumption
      <3> HIDE DEF levels
      <3>3. d \in 0..Len(levels) /\ d = Smaller(Depth, Len(levels))
        BY <3>1, <3>2 DEF Smaller
      <3> HIDE DEF d
      <3>4. BestCost(books[i], side, size, Depth) = WalkCost(levels, size, d)
        BY <1>3, <3>1, <3>2, <3>3, BestCostIsTheWalk
      <3>5. SumTo(PaidAt(levels, size), d) \in Int
        BY <1>3, <3>1, <3>3, WalksCost DEF Walk
      <3> QED
        BY <3>4, <3>5 DEF WalkCost
    <2> QED
      BY <2>2, <2>3, <2>4, <2>5
  <1>6. DOMAIN legs = 1..n
    BY <1>1
  <1> HIDE DEF legs, best
  <1>7. Ints(best, 1..n) /\ n \in Nat /\ n \in 0..n /\ 1 \in 1..n
    BY <1>5 DEF Ints
  <1> DEFINE total == SumTo(best, n)
  <1>8. total \in Int
    BY <1>7, RunningSum DEF Runs
  <1>9. LegCosts(legs) = total
    <2> DEFINE g == [i \in DOMAIN legs |-> legs[i].cost]
    <2>1. DOMAIN g = 1..n /\ \A i \in 1..n : g[i] = best[i]
      BY <1>5, <1>6
    <2> HIDE DEF g
    <2>2. SumFunction(g) = total
      BY <1>7, <2>1, SumOfSeries
    <2> QED
      BY <2>2 DEF LegCosts, g
  <1>10. Outlay(legs) = IF side = "buy" THEN total ELSE -total
    <2> DEFINE g == [i \in DOMAIN legs |->
                        IF legs[i].side = "buy" THEN legs[i].cost ELSE -legs[i].cost]
    <2>1. DOMAIN g = 1..n /\ \A i \in 1..n : g[i] = IF side = "buy" THEN best[i] ELSE -best[i]
      BY <1>5, <1>6
    <2>2. Outlay(legs) = SumFunction(g)
      BY DEF Outlay
    <2> HIDE DEF g
    <2>3. CASE side = "buy"
      <3>1. \A i \in 1..n : g[i] = best[i]
        BY <2>1, <2>3
      <3> QED
        BY <1>7, <2>1, <2>2, <2>3, <3>1, SumOfSeries
    <2>4. CASE side # "buy"
      <3>1. Scales(g, -1, best, n)
        BY <1>5, <2>1, <2>4 DEF Scales
      <3>2. -1 \in Int
        OBVIOUS
      <3>3. Ints(g, 1..n) /\ \A k \in 0..n : SumTo(g, k) = (-1) * SumTo(best, k)
        BY <1>7, <3>1, <3>2, SumScaled
      <3>4. SumFunction(g) = SumTo(g, n)
        BY <1>7, <2>1, <3>3, SumOfSeries
      <3>5. SumFunction(g) = -total
        BY <1>7, <1>8, <3>3, <3>4
      <3> QED
        BY <2>2, <2>4, <3>5
    <2> QED
      BY <2>3, <2>4
  <1> HIDE DEF total
  <1>11. /\ o.kind = kind /\ o.legs = legs /\ o.size = size
         /\ o.net = FeeDen * (payoff - Outlay(legs)) - Fees(legs)
    <2>1. legs[1].size = size
      BY <1>5, <1>7
    <2> QED
      BY <1>2, <2>1 DEF Offer
  <1>12. SumFunction([i \in DOMAIN o.legs |->
                         BestCost(o.legs[i].book, o.legs[i].side, o.size, Depth)]) = total
    <2> DEFINE g == [i \in DOMAIN o.legs |->
                         BestCost(o.legs[i].book, o.legs[i].side, o.size, Depth)]
    <2>1. DOMAIN g = 1..n
      BY <1>6, <1>11
    <2>2. \A i \in 1..n : best[i] = BestCost(books[i], side, size, Depth)
      BY DEF best
    <2>3. \A i \in 1..n : g[i] = best[i]
      BY <1>5, <1>6, <1>11, <2>2
    <2> HIDE DEF g
    <2>4. SumFunction(g) = total
      BY <1>7, <2>1, <2>3, SumOfSeries DEF total
    <2> QED
      BY <2>4 DEF g
  <1>13. o.legs[1].side = side
    BY <1>5, <1>7, <1>11
  <1> DEFINE worth == Dollar * size
  <1>14. worth \in Int
    BY <1>3, PricingAssumption
  <1>15. Attainable(o) =
            FeeDen * (IF side = "buy" THEN worth - total ELSE total - worth) - FeeNum * total
    BY <1>11, <1>12, <1>13 DEF Attainable
  <1>16. payoff - Outlay(legs) = IF side = "buy" THEN worth - total ELSE total - worth
    <2>1. payoff = IF side = "buy" THEN worth ELSE -worth
      OBVIOUS
    <2> HIDE DEF worth, payoff
    <2> QED
      BY <1>8, <1>10, <1>14, <2>1
  <1>17. Fees(legs) = FeeNum * total
    BY <1>9 DEF Fees
  <1> HIDE DEF worth, payoff
  <1> QED
    BY <1>11, <1>15, <1>16, <1>17

\* Only pairs a graph of this program holds are offered as such: as the user wrote
\* them, or as a guess where the guess may come in.
PairRight(o) ==
    o.kind = "pair" =>
        \/ \E p \in Declared(o.markets) :
              /\ o.markets = <<p.a, p.b>>
              /\ \A i \in 1..2 : o.legs[i].side = PairSides(p)[i]
        \/ Guessed(o) /\ (Slipped \/ Declared(o.markets) = {})

Programs == Relating \cup {"scan", "scanAll"}

LEMMA PairIsRight ==
  ASSUME NEW p \in graph, graph \in Graphs(program, file), NEW o \in OfferPair(p),
         program \in Programs
  PROVE  o.kind = "pair" /\ PairRight(o)
  <1> DEFINE legs == [i \in 1..2 |->
                         LET m == IF i = 1 THEN p.a ELSE p.b
                         IN  Leg(OutcomeTokens[m][1], orderbooks[m][1], PairSides(p)[i],
                                 MidPrices[m][1], MaxPair)]
  <1>1. o = Offer("pair", <<p.a, p.b>>, legs, PairEdge(p),
                  FeeDen * PairEdge(p) * MaxPair - Fees(legs))
    BY DEF OfferPair
  <1>2. /\ o.kind = "pair" /\ o.markets = <<p.a, p.b>> /\ o.legs = legs
    BY <1>1 DEF Offer
  <1>3. \A i \in 1..2 : legs[i].side = PairSides(p)[i]
    BY DEF Leg
  <1> HIDE DEF legs
  <1>4. \A i \in 1..2 : o.legs[i].side = PairSides(p)[i]
    BY <1>2, <1>3
  <1>5. Range(o.markets) = {p.a, p.b}
    BY <1>2 DEF Range
  <1>6. o.markets[1] = p.a /\ o.markets[2] = p.b
    BY <1>2
  <1>7. Load(file) = IF Slipped THEN {} ELSE file
    BY DEF Load, Slipped
  <1>8. CASE p \in Load(file)
    <2>1. p \in file
      BY <1>7, <1>8
    <2>2. p \in Declared(o.markets)
      BY <1>5, <2>1 DEF Declared
    <2> QED
      BY <1>2, <1>4, <2>2 DEF PairRight
  <1>9. CASE p \notin Load(file)
    <2>1. graph = Merged(Load(file), AutoDetected) /\ program \in {"daemon", "sandbox"}
      BY <1>9 DEF Graphs, Relating, Engines, Programs
    <2>2. p \in AutoDetected /\ \A q \in Load(file) : {q.a, q.b} # {p.a, p.b}
      BY <1>9, <2>1 DEF Merged
    <2>3. ~Slipped => Declared(o.markets) = {}
      BY <1>5, <1>7, <2>2 DEF Declared
    <2>4. Events[p.a] = Events[p.b] /\ p.how = "exclusive"
      BY <2>2 DEF AutoDetected
    <2>5. \A i \in 1..2 : o.legs[i].side = "sell"
      BY <1>4, <2>4 DEF PairSides
    <2>6. Guessed(o)
      BY <1>6, <2>1, <2>4, <2>5 DEF Guessed
    <2> QED
      BY <1>2, <2>3, <2>6 DEF PairRight
  <1> QED
    BY <1>8, <1>9

LEMMA DetectedParts ==
  ASSUME NEW o, o \in Detected
  PROVE  \/ \E m \in MarketSet : o \in IntraMarket(m)
         \/ \E m \in NegRisk : o \in SingleMarket(m)
         \/ o \in AcrossEvent
         \/ \E p \in graph : o \in OfferPair(p)
         \/ o \in Deadlines
  <1>1. o \in OfDeadlines => o \in Deadlines
    BY DEF OfDeadlines
  <1>2. o \in OfMarkets => \E m \in MarketSet : o \in IntraMarket(m)
    BY DEF OfMarkets
  <1>3. o \in OfGroups => \E m \in NegRisk : o \in SingleMarket(m)
    BY DEF OfGroups
  <1>4. o \in OfPairs => \E p \in graph : o \in OfferPair(p)
    BY DEF OfPairs
  <1> QED
    BY <1>1, <1>2, <1>3, <1>4 DEF Detected

LEMMA DetectedIsReal ==
  ASSUME Booked, DOMAIN cache = {}, graph \in Graphs(program, file),
         program \in Programs, NEW o \in Detected
  PROVE  EdgeReal(o) /\ PairRight(o)
  <1>1. \A m \in MarketSet : orderbooks[m] \in Seq(Books)
    BY DEF Booked
  <1>2. MaxIntra \in Nat /\ MaxEvent \in Nat /\ NegRisk \subseteq MarketSet
    BY OffersAssumption DEF MarketSet
  <1>3. ASSUME NEW kind \in CompleteSets, NEW markets, NEW tokens, NEW books, BookList(books),
               NEW side \in Sides, NEW max \in Nat,
               o \in CompleteSet(kind, markets, tokens, books, side, max)
        PROVE  EdgeReal(o) /\ PairRight(o)
    <2>1. o.kind = kind /\ o.net = Attainable(o)
      BY <1>3, CompleteSetIsReal
    <2> QED
      BY <2>1 DEF EdgeReal, PairRight, CompleteSets
  <1>4. ASSUME NEW books \in Seq(Books), Len(books) >= 2
        PROVE  BookList(books)
    <2>1. DOMAIN books = 1..Len(books) /\ Len(books) \in Nat \ {0}
      BY <1>4
    <2>2. \A i \in 1..Len(books) : books[i] \in Books
      OBVIOUS
    <2> QED
      BY <2>1, <2>2 DEF BookList
  <1>5. ASSUME NEW m \in MarketSet, o \in IntraMarket(m)
        PROVE  EdgeReal(o) /\ PairRight(o)
    <2>1. Len(orderbooks[m]) = 2 /\ \E side \in Sides :
             o \in CompleteSet("intra", <<m>>, OutcomeTokens[m], orderbooks[m], side, MaxIntra)
      BY <1>5 DEF IntraMarket
    <2>2. BookList(orderbooks[m])
      <3>1. orderbooks[m] \in Seq(Books) /\ Len(orderbooks[m]) >= 2
        BY <1>1, <2>1
      <3> QED
        BY <1>4, <3>1
    <2>3. "intra" \in CompleteSets
      BY DEF CompleteSets
    <2> QED
      BY <1>2, <1>3, <2>1, <2>2, <2>3
  <1>6. ASSUME NEW m \in NegRisk, o \in SingleMarket(m)
        PROVE  EdgeReal(o) /\ PairRight(o)
    <2>1. Len(orderbooks[m]) >= 2 /\ \E side \in Sides :
             o \in CompleteSet("single", <<m>>, OutcomeTokens[m], orderbooks[m], side, MaxEvent)
      BY <1>6 DEF SingleMarket
    <2>2. BookList(orderbooks[m])
      BY <1>1, <1>2, <1>4, <2>1
    <2>3. "single" \in CompleteSets
      BY DEF CompleteSets
    <2> QED
      BY <1>2, <1>3, <2>1, <2>2, <2>3
  <1>7. ASSUME o \in AcrossEvent
        PROVE  EdgeReal(o) /\ PairRight(o)
    <2> DEFINE n == Len(EventGroup)
               tokens == [i \in 1..n |-> OutcomeTokens[EventGroup[i]][1]]
               books == [i \in 1..n |-> orderbooks[EventGroup[i]][1]]
    <2>1. /\ n >= 2 /\ \A i \in 1..n : orderbooks[EventGroup[i]] # <<>>
          /\ \E side \in Sides :
                o \in CompleteSet("event", EventGroup, tokens, books, side, MaxEvent)
      BY <1>7 DEF AcrossEvent
    <2>2. EventGroup \in Seq(MarketSet)
      <3> DEFINE T == {m \in NegRisk : program = "scan" => orderbooks[m] # <<>>}
      <3>1. OfferMarkets \in Seq(STRING)
        BY OffersAssumption
      <3>2. T \subseteq MarketSet
        BY <1>2
      <3> HIDE DEF T
      <3>3. Kept(OfferMarkets, T) \in Seq(STRING \cap T)
        BY <3>1, KeptType
      <3>4. \A i \in 1..Len(Kept(OfferMarkets, T)) : Kept(OfferMarkets, T)[i] \in MarketSet
        BY <3>2, <3>3
      <3>5. Kept(OfferMarkets, T) \in Seq(MarketSet)
        BY <3>2, <3>3
      <3> QED
        BY <3>5 DEF EventGroup, T
    <2>3. n \in Nat \ {0} /\ DOMAIN books = 1..n
      BY <2>1, <2>2
    <2>4. \A i \in 1..n : books[i] \in Books
      <3> SUFFICES ASSUME NEW i \in 1..n PROVE orderbooks[EventGroup[i]][1] \in Books
        OBVIOUS
      <3>1. EventGroup[i] \in MarketSet
        BY <2>2
      <3> DEFINE fetched == orderbooks[EventGroup[i]]
      <3>2. fetched \in Seq(Books) /\ fetched # <<>>
        BY <1>1, <2>1, <3>1
      <3> HIDE DEF fetched
      <3>3. 1 \in 1..Len(fetched)
        BY <3>2
      <3>4. fetched[1] \in Books
        BY <3>2, <3>3
      <3> QED
        BY <3>4 DEF fetched
    <2> HIDE DEF n, tokens, books
    <2>5. BookList(books)
      BY <2>3, <2>4 DEF BookList
    <2>6. "event" \in CompleteSets
      BY DEF CompleteSets
    <2> QED
      BY <1>2, <1>3, <2>1, <2>5, <2>6
  <1>8. ASSUME NEW p \in graph, o \in OfferPair(p)
        PROVE  EdgeReal(o) /\ PairRight(o)
    <2>1. o.kind = "pair" /\ PairRight(o)
      BY <1>8, PairIsRight
    <2> QED
      BY <2>1 DEF EdgeReal, CompleteSets
  <1>9. ASSUME o \in Deadlines
        PROVE  EdgeReal(o) /\ PairRight(o)
    <2>1. o.kind = "deadline"
      BY <1>9 DEF Deadlines, Offer
    <2> QED
      BY <2>1 DEF EdgeReal, PairRight, CompleteSets
  <1>10. \/ \E m \in MarketSet : o \in IntraMarket(m)
         \/ \E m \in NegRisk : o \in SingleMarket(m)
         \/ o \in AcrossEvent
         \/ \E p \in graph : o \in OfferPair(p)
         \/ o \in Deadlines
    BY DetectedParts
  <1> QED
    BY <1>5, <1>6, <1>7, <1>8, <1>9, <1>10

\* What a tick looks at: sorted books, nothing memoized before it, and the graph the
\* program was started with.
OffersInv ==
    /\ program \in Programs
    /\ graph \in Graphs(program, file)
    /\ phase = "fetch" => DOMAIN cache = {}
    /\ phase = "refine" => \A o \in offers : EdgeReal(o) /\ PairRight(o)

LEMMA OffersInvHolds == Spec => []OffersInv
  <1>1. Init => OffersInv
    <2> SUFFICES ASSUME Init PROVE OffersInv
      OBVIOUS
    <2>1. /\ program \in Programs
          /\ graph \in Graphs(program, file) /\ cache = [k \in {} |-> NoEstimate]
          /\ phase = "fetch"
      BY DEF Init, OfferInit, Programs
    <2>2. DOMAIN cache = {}
      BY <2>1
    <2> QED
      BY <2>1, <2>2 DEF OffersInv
  <1>2. Booked /\ OffersInv /\ [Next]_vars => OffersInv'
    <2> SUFFICES ASSUME Booked, OffersInv, [Next]_vars PROVE OffersInv'
      OBVIOUS
    <2>1. CASE UNCHANGED offerVars
      BY <2>1 DEF OffersInv, offerVars, EdgeReal, PairRight, Guessed, Declared, Slipped
    <2>2. CASE StartTick
      <3>1. DOMAIN cache' = {}
        BY <2>2 DEF StartTick
      <3> QED
        BY <2>2, <3>1 DEF StartTick, OffersInv
    <2>3. CASE \E m \in MarketSet : Fetch(m)
      BY <2>3 DEF Fetch, OffersInv
    <2>4. CASE Detect
      <3>1. DOMAIN cache = {}
        BY <2>4 DEF Detect, OffersInv
      <3>2. \A o \in Detected : EdgeReal(o) /\ PairRight(o)
        BY <3>1, DetectedIsReal DEF OffersInv
      <3>3. offers' = Detected /\ phase' = "refine" /\ UNCHANGED <<program, graph, file>>
        BY <2>4 DEF Detect
      <3>4. \A o \in Detected : EdgeReal(o)' /\ PairRight(o)'
        BY <3>2, <3>3 DEF EdgeReal, PairRight, Guessed, Declared, Slipped
      <3> QED
        BY <3>3, <3>4 DEF OffersInv
    <2>5. CASE Refine
      BY <2>5 DEF Refine, OffersInv
    <2>6. CASE Retain
      BY <2>6 DEF Retain, OffersInv
    <2>7. CASE Offering
      BY <2>2, <2>3, <2>4, <2>5, <2>6, <2>7 DEF Offering, OfferNext
    <2>8. CASE Trying \/ Studying \/ Estimating \/ Simulating
      BY <2>1, <2>8 DEF Trying, Studying, Estimating, Simulating
    <2>9. CASE UNCHANGED vars
      BY <2>1, <2>9 DEF vars
    <2> QED
      BY <2>7, <2>8, <2>9 DEF Next
  <1> QED
    BY <1>1, <1>2, BooksStaySorted, PTL DEF Spec

\* Whatever books are fetched, and whatever was memoized before, detection finds a
\* complete set at the edge its books of this tick give at best.
THEOREM DetectedEdgeAlwaysReal == Spec => []DetectedEdgeIsReal
  <1>1. OffersInv => DetectedEdgeIsReal
    BY DEF OffersInv, DetectedEdgeIsReal, EdgeReal
  <1> QED
    BY <1>1, OffersInvHolds, PTL

\* Whatever the correlation file holds, markets the user related are traded as the
\* user wrote, unless a slip has lost the file; a guess never takes their place.
THEOREM PairsAlwaysAsDeclared == Spec => []PairsAsDeclared
  <1>1. OffersInv => PairsAsDeclared
    BY DEF OffersInv, PairsAsDeclared, PairRight
  <1> QED
    BY <1>1, OffersInvHolds, PTL

(***************************************************************************)
(* The simulated crowd                                                     *)
(***************************************************************************)
OpenPrices == 1..99

LEMMA OpenPriceType == \A x : x \in OpenPrices <=> x \in 1..99
  BY DEF OpenPrices

LEMMA OpenPriceIsInt == \A x \in OpenPrices : x \in Int
  BY DEF OpenPrices

\* What the agents have done so far.
AgentsInv ==
    /\ crowd \in Seq(AgentKinds)
    /\ prices \in Seq(OpenPrices) /\ Len(prices) > 0
    /\ \E S : orders \in Seq(S)
    /\ \A k \in DOMAIN orders : \A i \in DOMAIN crowd : orders[k][i] \in Int
    /\ budgets \in [DOMAIN crowd -> Nat]
    /\ \A i \in DOMAIN crowd :
          crowd[i].type = "zeroIntelligence" => budgets[i] = crowd[i].value - Traded(i)

LEMMA AbsType == \A x \in Int : Abs(x) \in Nat
  BY DEF Abs

LEMMA DrawnType ==
  ASSUME NEW T \in SUBSET Nat, NEW x \in EitherWay(T)
  PROVE  x \in Int /\ Abs(x) \in T
  <1>1. x \in T \/ \E s \in T : x = -s
    BY DEF EitherWay
  <1>2. CASE x \in T
    <2>1. x \in Nat
      BY <1>2
    <2> QED
      BY <1>2, <2>1 DEF Abs
  <1>3. CASE \E s \in T : x = -s
    <2>1. PICK s \in T : x = -s
      BY <1>3
    <2>2. s \in Nat
      OBVIOUS
    <2>3. x \in Int /\ Abs(x) = s
      BY <2>1, <2>2 DEF Abs
    <2> QED
      BY <2>3
  <1> QED
    BY <1>1, <1>2, <1>3

LEMMA TrendType ==
  ASSUME prices \in Seq(OpenPrices), NEW agent \in AgentKinds
  PROVE  Trend(agent) \in Int
  <1>1. agent.lookback \in Nat \ {0}
    BY DEF AgentKinds
  <1>2. CASE Len(prices) < agent.lookback + 1
    BY <1>2 DEF Trend
  <1>3. CASE ~(Len(prices) < agent.lookback + 1)
    <2> DEFINE j == Len(prices) - agent.lookback + 1
    <2>1. j \in 1..Len(prices) /\ Len(prices) \in 1..Len(prices)
      BY <1>1, <1>3
    <2> HIDE DEF j
    <2>2. prices[j] \in OpenPrices /\ prices[Len(prices)] \in OpenPrices
      BY <2>1
    <2>3. prices[j] \in Int /\ prices[Len(prices)] \in Int
      BY <2>2, OpenPriceIsInt
    <2>4. Past(agent.lookback) \in Int /\ Price \in Int
      BY <2>3 DEF Past, Price, j
    <2>5. Trend(agent) = IF Abs(Price - Past(agent.lookback)) > agent.width
                         THEN Price - Past(agent.lookback) ELSE 0
      BY <1>3 DEF Trend
    <2> QED
      BY <2>4, <2>5
  <1> QED
    BY <1>2, <1>3

\* Every flow is a number, and an agent without intelligence has the budget for it.
LEMMA FlowType ==
  ASSUME prices \in Seq(OpenPrices), Len(prices) > 0, NEW agent \in AgentKinds, NEW budget \in Nat,
         NEW flow \in Flows(agent, budget)
  PROVE  /\ flow \in Int
         /\ agent.type = "zeroIntelligence" => Abs(flow) <= budget
  <1>1. agent.type \in AgentTypes /\ agent.value \in Nat
    BY DEF AgentKinds
  <1>2. Price \in Int
    <2>1. Len(prices) \in 1..Len(prices)
      OBVIOUS
    <2>2. prices[Len(prices)] \in OpenPrices
      BY <2>1
    <2> QED
      BY <2>2, OpenPriceIsInt DEF Price
  <1>3. Draws \subseteq Nat
    BY AgentsAssumption
  <1>4. CASE agent.type = "informed"
    <2>1. PICK z \in Draws :
             flow = (IF agent.value > Price THEN 1 ELSE -1) * (2 * Abs(agent.value - Price) + z)
      BY <1>4 DEF Flows
    <2>2. z \in Nat /\ Abs(agent.value - Price) \in Nat
      <3>1. agent.value - Price \in Int
        BY <1>1, <1>2
      <3> QED
        BY <1>3, <3>1, AbsType
    <2> DEFINE x == 2 * Abs(agent.value - Price) + z
    <2>3. x \in Nat
      BY <2>2
    <2> HIDE DEF x
    <2>4. (IF agent.value > Price THEN 1 ELSE -1) * x \in Int
      BY <2>3
    <2> QED
      BY <1>4, <2>1, <2>4 DEF x
  <1>5. CASE agent.type = "noise"
    <2>1. flow \in EitherWay(Draws)
      BY <1>5 DEF Flows
    <2> QED
      BY <1>3, <1>5, <2>1, DrawnType
  <1>6. CASE agent.type = "marketMaker"
    <2>1. flow = 0
      BY <1>6 DEF Flows
    <2> QED
      BY <1>6, <2>1
  <1>7. CASE agent.type = "zeroIntelligence"
    <2> DEFINE T == Affordable(agent, budget)
    <2>1. flow \in EitherWay(T) \/ flow = 0
      BY <1>7 DEF Flows
    <2>2. T \in SUBSET Nat /\ \A s \in T : s <= budget
      <3>1. \A s \in T : s \in Draws /\ 10 * s < budget
        BY DEF Affordable
      <3> HIDE DEF T
      <3>2. \A s \in T : s \in Nat
        BY <1>3, <3>1
      <3>3. \A s \in T : s <= budget
        BY <3>1, <3>2
      <3> QED
        BY <3>2, <3>3
    <2> HIDE DEF T
    <2>3. CASE flow = 0
      BY <2>3 DEF Abs
    <2>4. CASE flow \in EitherWay(T)
      <3>1. flow \in Int /\ Abs(flow) \in T
        BY <2>2, <2>4, DrawnType
      <3> QED
        BY <2>2, <3>1
    <2> QED
      BY <2>1, <2>3, <2>4
  <1>8. CASE agent.type = "momentum"
    <2>1. flow = Trend(agent)
      BY <1>8 DEF Flows
    <2> QED
      BY <1>8, <2>1, TrendType
  <1>9. CASE agent.type = "contrarian"
    <2>1. flow = -Trend(agent)
      BY <1>9 DEF Flows
    <2>2. Trend(agent) \in Int
      BY TrendType
    <2> QED
      BY <1>9, <2>1, <2>2
  <1>10. CASE agent.type = "arbitrageur"
    <2>1. flow = IF Abs(Price - agent.value) > agent.width THEN 2 * (agent.value - Price) ELSE 0
      BY <1>10 DEF Flows
    <2> QED
      BY <1>1, <1>2, <1>10, <2>1
  <1> QED
    BY <1>1, <1>4, <1>5, <1>6, <1>7, <1>8, <1>9, <1>10 DEF AgentTypes

LEMMA ImpactType ==
  ASSUME crowd \in Seq(AgentKinds), NEW flow \in Int
  PROVE  Impact(flow) \in Int
  <1> DEFINE trading == {i \in DOMAIN crowd : crowd[i].type # "marketMaker"}
             c == Cardinality(trading)
  <1>1. DOMAIN crowd = 1..Len(crowd) /\ Len(crowd) \in Nat
    OBVIOUS
  <1>2. IsFiniteSet(trading)
    BY <1>1, IntervalsFinite, FS_Subset
  <1> HIDE DEF trading
  <1>3. c \in Nat
    BY <1>2, FS_CardinalityType
  <1> HIDE DEF c
  <1> DEFINE m == Max({1, c})
  <1>4. m = CHOOSE x \in {1, c} : \A y \in {1, c} : x >= y
    BY DEF Max
  <1>5. \E x \in {1, c} : \A y \in {1, c} : x >= y
    BY <1>3
  <1>6. m \in {1, c} /\ m >= 1
    BY <1>4, <1>5
  <1> HIDE DEF m
  <1>7. 20 * m \in Nat /\ 20 * m > 0
    BY <1>3, <1>6
  <1>8. Impact(flow) = flow \div (20 * m)
    BY DEF Impact, m, c, trading
  <1> DEFINE d == 20 * m
  <1>9. d \in Nat /\ d > 0
    BY <1>7
  <1> HIDE DEF d
  <1>10. flow \div d \in Int
    BY <1>9
  <1> QED
    BY <1>8, <1>10 DEF d

\* Whatever the crowd, its agents trade within their budgets, and prices stay those
\* of an open market.
THEOREM BudgetsAlwaysHold == Spec => []BudgetsHold
  <1>1. Init => AgentsInv
    <2> SUFFICES ASSUME Init PROVE AgentsInv
      OBVIOUS
    <2>1. /\ prices = <<FirstPrice>> /\ orders = <<>>
          /\ budgets = [i \in DOMAIN crowd |->
                           IF crowd[i].type = "zeroIntelligence" THEN crowd[i].value ELSE 0]
          /\ crowd \in Seq(AgentKinds)
      <3>1. AgentsInit /\ crowd \in Crowds
        BY DEF Init, AgentsInit
      <3> QED
        BY <3>1, AgentsAssumption DEF AgentsInit
    <2>2. prices \in Seq(OpenPrices) /\ Len(prices) > 0
      <3>1. FirstPrice \in OpenPrices
        BY AgentsAssumption, OpenPriceType
      <3> QED
        BY <2>1, <3>1
    <2>3. orders \in Seq({}) /\ DOMAIN orders = {} /\ DOMAIN orders = 1..0
      BY <2>1
    <2>4. \A i \in DOMAIN crowd : crowd[i].value \in Nat
      <3>1. \A i \in DOMAIN crowd : crowd[i] \in AgentKinds
        BY <2>1
      <3> QED
        BY <3>1 DEF AgentKinds
    <2>5. budgets \in [DOMAIN crowd -> Nat]
      BY <2>1, <2>4
    <2>6. \A i : Traded(i) = 0
      <3> SUFFICES ASSUME NEW i PROVE Traded(i) = 0
        OBVIOUS
      <3> DEFINE g == [k \in DOMAIN orders |-> Abs(orders[k][i])]
      <3>1. DOMAIN g = 1..0 /\ 0 \in Nat
        BY <2>3
      <3> HIDE DEF g
      <3>2. Ints(g, 1..0)
        BY DEF Ints
      <3>3. \A k \in 1..0 : g[k] = g[k]
        OBVIOUS
      <3>4. SumFunction(g) = SumTo(g, 0)
        BY <3>1, <3>2, <3>3, SumOfSeries
      <3>5. SumTo(g, 0) = 0
        BY <3>1, <3>2, RunningSum DEF Runs
      <3> QED
        BY <3>4, <3>5 DEF Traded, g
    <2>7. \A i \in DOMAIN crowd :
             crowd[i].type = "zeroIntelligence" => budgets[i] = crowd[i].value - Traded(i)
      BY <2>1, <2>4, <2>6
    <2> QED
      BY <2>1, <2>2, <2>3, <2>5, <2>7 DEF AgentsInv
  <1>2. AgentsInv /\ [Next]_vars => AgentsInv'
    <2> SUFFICES ASSUME AgentsInv, [Next]_vars PROVE AgentsInv'
      OBVIOUS
    <2>1. CASE UNCHANGED agentVars
      BY <2>1 DEF AgentsInv, agentVars, Traded
    <2>2. CASE Step
      <3>1. PICK flows \in [DOMAIN crowd -> UNION {Flows(crowd[i], budgets[i]) : i \in DOMAIN crowd}] :
              /\ \A i \in DOMAIN crowd : flows[i] \in Flows(crowd[i], budgets[i])
              /\ prices' = Append(prices, Within(Price
                              + Impact(SumFunction([i \in DOMAIN crowd |-> flows[i]])), 1, 99))
              /\ orders' = Append(orders, flows)
              /\ budgets' = [i \in DOMAIN crowd |->
                                IF crowd[i].type = "zeroIntelligence"
                                THEN budgets[i] - Abs(flows[i]) ELSE budgets[i]]
              /\ crowd' = crowd
        BY <2>2 DEF Step
      <3>2. /\ crowd \in Seq(AgentKinds) /\ prices \in Seq(OpenPrices) /\ Len(prices) > 0
            /\ budgets \in [DOMAIN crowd -> Nat]
        BY DEF AgentsInv
      <3>3. \A i \in DOMAIN crowd : crowd[i] \in AgentKinds /\ budgets[i] \in Nat
        BY <3>2
      <3>4. ASSUME NEW i \in DOMAIN crowd
            PROVE  /\ flows[i] \in Int /\ Abs(flows[i]) \in Nat
                   /\ crowd[i].type = "zeroIntelligence" => Abs(flows[i]) <= budgets[i]
        <4>1. flows[i] \in Flows(crowd[i], budgets[i])
          BY <3>1
        <4>2. /\ flows[i] \in Int
              /\ crowd[i].type = "zeroIntelligence" => Abs(flows[i]) <= budgets[i]
          BY <3>2, <3>3, <4>1, FlowType
        <4> QED
          BY <4>2, AbsType
      <3>5. prices' \in Seq(OpenPrices) /\ Len(prices') > 0
        <4> DEFINE g == [i \in DOMAIN crowd |-> flows[i]]
                   net == SumFunction(g)
                   n == Len(crowd)
        <4>1. DOMAIN g = 1..n /\ n \in Nat /\ \A i \in 1..n : g[i] \in Int
          BY <3>2, <3>4
        <4> HIDE DEF g, n
        <4>2. Ints(g, 1..n)
          BY <4>1 DEF Ints
        <4>3. \A i \in 1..n : g[i] = g[i]
          OBVIOUS
        <4>4. net = SumTo(g, n)
          BY <4>1, <4>2, <4>3, SumOfSeries
        <4>5. n \in 0..n
          BY <4>1
        <4>6. net \in Int
          BY <4>1, <4>2, <4>4, <4>5, RunningSum DEF Runs
        <4> HIDE DEF net
        <4>7. Impact(net) \in Int
          BY <3>2, <4>6, ImpactType
        <4>8. Price \in Int
          <5>1. Len(prices) \in 1..Len(prices)
            BY <3>2
          <5>2. prices[Len(prices)] \in OpenPrices
            BY <3>2, <5>1
          <5> QED
            BY <5>2, OpenPriceIsInt DEF Price
        <4> DEFINE price == Within(Price + Impact(net), 1, 99)
        <4>9. price \in 1..99
          BY <4>7, <4>8 DEF Within
        <4>10. price \in OpenPrices
          BY <4>9, OpenPriceType
        <4> HIDE DEF price
        <4>11. prices' = Append(prices, price)
          BY <3>1 DEF price, net, g
        <4> QED
          BY <3>2, <4>10, <4>11
      <3>6. PICK S : orders \in Seq(S)
        BY DEF AgentsInv
      <3> DEFINE n == Len(orders)
      <3>7. /\ n \in Nat /\ DOMAIN orders = 1..n
            /\ orders' \in Seq(S \cup {flows}) /\ Len(orders') = n + 1
            /\ DOMAIN orders' = 1..(n + 1)
            /\ orders'[n + 1] = flows /\ \A k \in 1..n : orders'[k] = orders[k]
        <4>1. orders' = Append(orders, flows)
          BY <3>1
        <4>2. orders \in Seq(S \cup {flows})
          BY <3>6
        <4> QED
          BY <4>1, <4>2
      <3> HIDE DEF n
      <3>8. \A k \in 1..(n + 1) : k \in 1..n \/ k = n + 1
        BY <3>7
      <3>9. \A k \in DOMAIN orders' : \A i \in DOMAIN crowd : orders'[k][i] \in Int
        <4>1. \A k \in 1..n : \A i \in DOMAIN crowd : orders[k][i] \in Int
          BY <3>7 DEF AgentsInv
        <4> QED
          BY <3>4, <3>7, <3>8, <4>1
      <3>10. \A i \in DOMAIN crowd : budgets'[i] \in Nat
        <4> SUFFICES ASSUME NEW i \in DOMAIN crowd PROVE budgets'[i] \in Nat
          OBVIOUS
        <4>1. budgets'[i] = IF crowd[i].type = "zeroIntelligence"
                            THEN budgets[i] - Abs(flows[i]) ELSE budgets[i]
          BY <3>1
        <4>2. budgets[i] \in Nat
          BY <3>3
        <4> DEFINE x == Abs(flows[i])
        <4>3. x \in Nat /\ (crowd[i].type = "zeroIntelligence" => x <= budgets[i])
          BY <3>4
        <4> HIDE DEF x
        <4> QED
          BY <4>1, <4>2, <4>3 DEF x
      <3>11. budgets' \in [DOMAIN crowd -> Nat]
        BY <3>1, <3>10
      <3>12. ASSUME NEW i \in DOMAIN crowd
             PROVE  Traded(i)' = Traded(i) + Abs(flows[i]) /\ Traded(i) \in Int
        <4> DEFINE f == [k \in 1..(n + 1) |-> Abs(orders'[k][i])]
                   g == [k \in DOMAIN orders |-> Abs(orders[k][i])]
        <4>1. \A k \in 1..(n + 1) : orders'[k][i] \in Int /\ f[k] = Abs(orders'[k][i])
          BY <3>7, <3>9
        <4>2. \A k \in 1..(n + 1) : f[k] \in Int
          BY <4>1, AbsType
        <4>3. \A k \in 1..n : k \in 1..(n + 1)
          BY <3>7
        <4>4. DOMAIN g = 1..n /\ \A k \in 1..n : g[k] = f[k]
          BY <3>7, <4>3
        <4>5. f[n + 1] = Abs(flows[i])
          <5>1. n + 1 \in 1..(n + 1)
            BY <3>7
          <5> QED
            BY <3>7, <5>1
        <4>6. Traded(i)' = SumFunction(f)
          BY <3>7 DEF Traded
        <4>7. Traded(i) = SumFunction(g)
          BY DEF Traded
        <4>8. DOMAIN f = 1..(n + 1)
          OBVIOUS
        <4> HIDE DEF f, g
        <4>9. Ints(f, 1..n) /\ Ints(f, 1..(n + 1))
          BY <4>2, <4>3 DEF Ints
        <4>10. SumFunction(g) = SumTo(f, n)
          BY <3>7, <4>4, <4>9, SumOfSeries
        <4>11. SumFunction(f) = SumTo(f, n + 1)
          <5>1. n + 1 \in Nat
            BY <3>7
          <5>2. \A k \in 1..(n + 1) : f[k] = f[k]
            OBVIOUS
          <5> QED
            BY <4>8, <4>9, <5>1, <5>2, SumOfSeries
        <4>12. SumTo(f, n + 1) = SumTo(f, n) + f[n + 1] /\ SumTo(f, n) \in Int
          <5> DEFINE m == n + 1
          <5>1. m \in Nat /\ m \in 1..m /\ m - 1 \in 0..m /\ m - 1 = n
            BY <3>7
          <5>2. Ints(f, 1..m)
            BY <4>9
          <5> HIDE DEF m
          <5>3. Runs(f, m)
            BY <5>1, <5>2, RunningSum
          <5>4. SumTo(f, m) = SumTo(f, m - 1) + f[m] /\ SumTo(f, m - 1) \in Int
            BY <5>1, <5>3 DEF Runs
          <5> QED
            BY <5>1, <5>4 DEF m
        <4> QED
          BY <4>5, <4>6, <4>7, <4>10, <4>11, <4>12
      <3>13. \A i \in DOMAIN crowd :
                crowd[i].type = "zeroIntelligence" => budgets'[i] = crowd[i].value - Traded(i)'
        <4> SUFFICES ASSUME NEW i \in DOMAIN crowd, crowd[i].type = "zeroIntelligence"
                     PROVE  budgets'[i] = crowd[i].value - Traded(i)'
          OBVIOUS
        <4>1. budgets'[i] = budgets[i] - Abs(flows[i])
          BY <3>1
        <4>2. budgets[i] = crowd[i].value - Traded(i)
          BY DEF AgentsInv
        <4>3. crowd[i].value \in Nat
          BY <3>3 DEF AgentKinds
        <4>4. Abs(flows[i]) \in Nat
          BY <3>4
        <4> QED
          BY <3>12, <4>1, <4>2, <4>3, <4>4
      <3>14. crowd' = crowd
        BY <3>1
      <3> QED
        BY <3>2, <3>5, <3>7, <3>9, <3>11, <3>13, <3>14 DEF AgentsInv
    <2>3. CASE Simulating
      BY <2>2, <2>3 DEF Simulating
    <2>4. CASE Offering \/ Trying \/ Studying \/ Estimating
      BY <2>1, <2>4 DEF Offering, Trying, Studying, Estimating
    <2>5. CASE UNCHANGED vars
      BY <2>1, <2>5 DEF vars
    <2> QED
      BY <2>3, <2>4, <2>5 DEF Next
  <1>3. AgentsInv => BudgetsHold
    <2> SUFFICES ASSUME AgentsInv PROVE BudgetsHold
      OBVIOUS
    <2>1. \A i \in DOMAIN crowd : crowd[i].value \in Nat /\ budgets[i] \in Nat
      <3>1. crowd \in Seq(AgentKinds) /\ budgets \in [DOMAIN crowd -> Nat]
        BY DEF AgentsInv
      <3>2. \A i \in DOMAIN crowd : crowd[i] \in AgentKinds
        BY <3>1
      <3> QED
        BY <3>1, <3>2 DEF AgentKinds
    <2>2. \A k \in DOMAIN prices : prices[k] \in 1..99
      <3>1. prices \in Seq(OpenPrices)
        BY DEF AgentsInv
      <3>2. \A k \in DOMAIN prices : prices[k] \in OpenPrices
        BY <3>1
      <3> QED
        BY <3>2, OpenPriceType
    <2>3. ASSUME NEW i \in DOMAIN crowd, crowd[i].type = "zeroIntelligence"
          PROVE  Traded(i) <= crowd[i].value
      <3>1. Traded(i) \in Int
        <4> DEFINE f == [k \in DOMAIN orders |-> Abs(orders[k][i])]
                   n == Len(orders)
        <4>1. DOMAIN f = 1..n /\ n \in Nat /\ \A k \in 1..n : orders[k][i] \in Int
          <5>1. PICK S : orders \in Seq(S)
            BY DEF AgentsInv
          <5>2. DOMAIN orders = 1..n /\ n \in Nat
            BY <5>1
          <5>3. \A k \in DOMAIN orders : orders[k][i] \in Int
            BY DEF AgentsInv
          <5>4. DOMAIN f = DOMAIN orders
            OBVIOUS
          <5> QED
            BY <5>2, <5>3, <5>4
        <4>2. \A k \in 1..n : f[k] \in Int
          <5>1. \A k \in DOMAIN f : f[k] = Abs(orders[k][i])
            OBVIOUS
          <5> HIDE DEF f, n
          <5> SUFFICES ASSUME NEW k \in 1..n PROVE f[k] \in Int
            OBVIOUS
          <5>2. f[k] = Abs(orders[k][i]) /\ orders[k][i] \in Int
            BY <4>1, <5>1
          <5>3. Abs(orders[k][i]) \in Nat
            BY <5>2, AbsType
          <5> QED
            BY <5>2, <5>3
        <4> HIDE DEF f, n
        <4>3. Ints(f, 1..n) /\ n \in 0..n
          BY <4>1, <4>2 DEF Ints
        <4>4. \A k \in 1..n : f[k] = f[k]
          OBVIOUS
        <4>5. SumFunction(f) = SumTo(f, n)
          BY <4>1, <4>3, <4>4, SumOfSeries
        <4>6. SumTo(f, n) \in Int
          BY <4>1, <4>3, RunningSum DEF Runs
        <4> QED
          BY <4>5, <4>6 DEF Traded, f
      <3>2. budgets[i] = crowd[i].value - Traded(i)
        BY <2>3 DEF AgentsInv
      <3> QED
        BY <2>1, <3>1, <3>2
    <2> QED
      BY <2>2, <2>3 DEF AgentsInv, BudgetsHold
  <1> QED
    BY <1>1, <1>2, <1>3, PTL DEF Spec

(***************************************************************************)
(* Estimates: combined, resampled, simulated                               *)
(***************************************************************************)
\* A weighted sum is neither below nor above the sum of the weights times each
\* of its terms.
Surplus(d, S) == (\A x \in S : d[x] > 0) \/ (\A x \in S : d[x] < 0)

LEMMA NoSurplus ==
  ASSUME NEW S, IsFiniteSet(S), S # {}, NEW v, NEW w, Ints(v, S), Ints(w, S),
         NEW sums, sums = Sums!Total(v, S), NEW weight, weight = Sums!Total(w, S),
         NEW d, \A x \in S : d[x] = weight * v[x] - sums * w[x]
  PROVE  weight \in Int /\ sums \in Int /\ ~Surplus(d, S)
  <1>1. Sums!AddsUp(v, S, v) /\ Sums!AddsUp(w, S, w)
    BY ValuesAddUp
  <1>2. PICK vs : Sums!TakenApart(S, v, vs) /\ sums = vs[S]
    BY <1>1, AnyOfIn, Sums!AnyOrder DEF Sums!AddsUp
  <1>3. PICK ws : Sums!TakenApart(S, w, ws) /\ weight = ws[S]
    BY <1>1, AnyOfIn, Sums!AnyOrder DEF Sums!AddsUp
  <1>4. weight \in Int /\ sums \in Int
    BY <1>2, <1>3 DEF Sums!TakenApart
  <1>5. \A x \in S : d[x] \in Int /\ v[x] \in Int /\ w[x] \in Int
    BY <1>4 DEF Ints
  <1> DEFINE D(s) == weight * vs[s] - sums * ws[s]
  <1>6. \A s \in SUBSET S : D(s) \in Int
    BY <1>2, <1>3, <1>4 DEF Sums!TakenApart
  <1>7. D({}) = 0
    BY <1>2, <1>3, <1>4 DEF Sums!TakenApart
  <1>8. D(S) = 0
    BY <1>2, <1>3, <1>4
  <1>9. ASSUME NEW s \in SUBSET S, NEW y \in s
        PROVE  D(s) = d[y] + D(s \ {y})
    <2>1. vs[s] = v[y] + vs[s \ {y}] /\ ws[s] = w[y] + ws[s \ {y}]
      BY <1>2, <1>3, <1>9 DEF Sums!TakenApart
    <2>2. vs[s \ {y}] \in Int /\ ws[s \ {y}] \in Int /\ y \in S
      BY <1>2, <1>3, <1>9 DEF Sums!TakenApart
    <2> DEFINE a == vs[s \ {y}]
               b == ws[s \ {y}]
    <2>3. weight * (v[y] + a) - sums * (w[y] + b)
            = (weight * v[y] - sums * w[y]) + (weight * a - sums * b)
      <3>1. a \in Int /\ b \in Int /\ v[y] \in Int /\ w[y] \in Int
        BY <1>5, <2>2
      <3> HIDE DEF a, b
      <3> QED
        BY <1>4, <3>1
    <2> QED
      BY <2>1, <2>2, <2>3
  <1> HIDE DEF D
  <1>10. ASSUME Surplus(d, S) PROVE FALSE
    <2> DEFINE up == {s \in SUBSET S : s # {} => D(s) > 0}
               down == {s \in SUBSET S : s # {} => D(s) < 0}
    <2>1. CASE \A x \in S : d[x] > 0
      <3>1. {} \in up
        OBVIOUS
      <3>2. ASSUME NEW s \in SUBSET S, s # {}, s \ {AnyOf(s)} \in up PROVE s \in up
        <4> DEFINE y == AnyOf(s)
        <4>1. y \in s
          BY <3>2, AnyOfIn
        <4> HIDE DEF y
        <4>2. D(s) = d[y] + D(s \ {y}) /\ d[y] > 0 /\ d[y] \in Int /\ D(s \ {y}) \in Int
          BY <1>5, <1>6, <1>9, <2>1, <4>1
        <4> DEFINE rest == s \ {y}
        <4>3. rest # {} => D(rest) > 0
          BY <3>2 DEF y
        <4>4. D(rest) \in Int
          BY <4>2
        <4> HIDE DEF rest
        <4>5. CASE rest = {}
          <5>1. D(rest) = 0
            BY <1>7, <4>5
          <5>2. D(s) > 0
            BY <4>2, <5>1 DEF rest
          <5> QED
            BY <5>2
        <4>6. CASE rest # {}
          <5>1. D(rest) > 0
            BY <4>3, <4>6
          <5>2. D(s) > 0
            BY <4>2, <4>4, <5>1 DEF rest
          <5> QED
            BY <5>2
        <4> QED
          BY <4>5, <4>6
      <3>3. up \in SUBSET (SUBSET S)
        OBVIOUS
      <3> HIDE DEF up
      <3>4. up = SUBSET S
        <4>1. \A s \in SUBSET S : s # {} /\ s \ {AnyOf(s)} \in up => s \in up
          BY <3>2
        <4>2. \A s \in SUBSET S : s # {} => AnyOf(s) \in s
          BY AnyOfIn
        <4>3. Sums!IsFiniteSet(S)
          BY SameFinite
        <4> QED
          BY <3>1, <3>3, <4>1, <4>2, <4>3, Sums!SubsetInduction
      <3>5. D(S) > 0
        BY <3>4 DEF up
      <3> QED
        BY <1>8, <3>5
    <2>2. CASE \A x \in S : d[x] < 0
      <3>1. {} \in down
        OBVIOUS
      <3>2. ASSUME NEW s \in SUBSET S, s # {}, s \ {AnyOf(s)} \in down PROVE s \in down
        <4> DEFINE y == AnyOf(s)
        <4>1. y \in s
          BY <3>2, AnyOfIn
        <4> HIDE DEF y
        <4>2. D(s) = d[y] + D(s \ {y}) /\ d[y] < 0 /\ d[y] \in Int /\ D(s \ {y}) \in Int
          BY <1>5, <1>6, <1>9, <2>2, <4>1
        <4> DEFINE rest == s \ {y}
        <4>3. rest # {} => D(rest) < 0
          BY <3>2 DEF y
        <4>4. D(rest) \in Int
          BY <4>2
        <4> HIDE DEF rest
        <4>5. CASE rest = {}
          <5>1. D(rest) = 0
            BY <1>7, <4>5
          <5>2. D(s) < 0
            BY <4>2, <5>1 DEF rest
          <5> QED
            BY <5>2
        <4>6. CASE rest # {}
          <5>1. D(rest) < 0
            BY <4>3, <4>6
          <5>2. D(s) < 0
            BY <4>2, <4>4, <5>1 DEF rest
          <5> QED
            BY <5>2
        <4> QED
          BY <4>5, <4>6
      <3>3. down \in SUBSET (SUBSET S)
        OBVIOUS
      <3> HIDE DEF down
      <3>4. down = SUBSET S
        <4>1. \A s \in SUBSET S : s # {} /\ s \ {AnyOf(s)} \in down => s \in down
          BY <3>2
        <4>2. \A s \in SUBSET S : s # {} => AnyOf(s) \in s
          BY AnyOfIn
        <4>3. Sums!IsFiniteSet(S)
          BY SameFinite
        <4> QED
          BY <3>1, <3>3, <4>1, <4>2, <4>3, Sums!SubsetInduction
      <3>5. D(S) < 0
        BY <3>4 DEF down
      <3> QED
        BY <1>8, <3>5
    <2> QED
      BY <1>10, <2>1, <2>2 DEF Surplus
  <1> QED
    BY <1>4, <1>10

\* What is combined of some guesses.
CombinedFairly(c) ==
    c.den > 0 => /\ \E g \in c.guesses : g.p * c.den <= c.num
                 /\ \E g \in c.guesses : g.p * c.den >= c.num

LEMMA CombinedIsBetween ==
  ASSUME NEW guesses \in SUBSET Guesses, IsFiniteSet(guesses)
  PROVE  CombinedFairly(Combined(guesses))
  <1> DEFINE S == Valid(guesses)
             v == [g \in S |-> g.p * g.precision]
             w == [g \in S |-> g.precision]
             num == Sums!Total(v, S)
             den == Sums!Total(w, S)
             d == [g \in S |-> den * v[g] - num * w[g]]
  <1>1. /\ Combined(guesses).num = num /\ Combined(guesses).den = den
        /\ Combined(guesses).guesses = guesses
    <2>1. SumFunction(v) = Sums!Total(v, DOMAIN v) /\ SumFunction(w) = Sums!Total(w, DOMAIN w)
      BY SumIsTotal
    <2>2. DOMAIN v = S /\ DOMAIN w = S
      OBVIOUS
    <2> HIDE DEF num, den
    <2>3. /\ Combined(guesses).num = SumFunction(v) /\ Combined(guesses).den = SumFunction(w)
          /\ Combined(guesses).guesses = guesses
      BY DEF Combined
    <2> HIDE DEF v, w, S
    <2> QED
      BY <2>1, <2>2, <2>3 DEF num, den
  <1>2. S \subseteq guesses /\ IsFiniteSet(S)
    BY FS_Subset DEF Valid
  <1>3. \A g \in S : g.p \in Nat /\ g.precision \in Nat /\ g.precision > 0
    BY <1>2, EstimationAssumption DEF Valid
  <1>4. Ints(v, S) /\ Ints(w, S)
    BY <1>3 DEF Ints
  <1>5. CASE S = {}
    <2>1. Sums!AddsUp(w, S, w)
      BY <1>2, <1>4, ValuesAddUp
    <2> HIDE DEF w, S
    <2>2. den = 0
      BY <1>5, <2>1, AnyOfIn, Sums!TotalOfNone
    <2> HIDE DEF den
    <2> QED
      BY <1>1, <2>2 DEF CombinedFairly
  <1>6. CASE S # {}
    <2>1. \A x \in S : d[x] = den * v[x] - num * w[x]
      OBVIOUS
    <2>2. \A g \in S : v[g] = g.p * g.precision /\ w[g] = g.precision
      OBVIOUS
    <2> HIDE DEF S, v, w, d
    <2>3. den \in Int /\ num \in Int /\ ~Surplus(d, S)
      BY <1>2, <1>4, <1>6, <2>1, NoSurplus
    <2> HIDE DEF num, den
    <2>4. ASSUME NEW g \in S
          PROVE  /\ d[g] <= 0 => g.p * den <= num
                 /\ d[g] >= 0 => g.p * den >= num
      <3> DEFINE p == g.p
                 q == g.precision
                 e == p * den - num
      <3>1. p \in Nat /\ q \in Nat /\ q > 0 /\ e \in Int
        BY <1>3, <2>3
      <3>2. d[g] = den * (p * q) - num * q
        BY <2>1, <2>2
      <3> HIDE DEF p, q
      <3>3. den * (p * q) - num * q = q * e
        BY <2>3, <3>1
      <3> HIDE DEF e
      <3>4. (e > 0 => q * e > 0) /\ (e < 0 => q * e < 0)
        BY <3>1
      <3>5. (d[g] <= 0 => e <= 0) /\ (d[g] >= 0 => e >= 0)
        BY <3>1, <3>2, <3>3, <3>4
      <3>6. (e <= 0 => p * den <= num) /\ (e >= 0 => p * den >= num)
        BY <2>3, <3>1 DEF e
      <3> QED
        BY <3>5, <3>6 DEF p
    <2>5. \A g \in S : d[g] \in Int
      BY <1>4, <2>1, <2>3 DEF Ints
    <2>6. PICK g \in S : d[g] <= 0
      BY <2>3, <2>5 DEF Surplus
    <2>7. PICK h \in S : d[h] >= 0
      BY <2>3, <2>5 DEF Surplus
    <2>8. g.p * den <= num /\ h.p * den >= num /\ g \in guesses /\ h \in guesses
      BY <1>2, <2>4, <2>6, <2>7
    <2> QED
      BY <1>1, <2>8 DEF CombinedFairly
  <1> QED
    BY <1>5, <1>6

\* Rounding down.
LEMMA DivisionFloors ==
  ASSUME NEW a \in Nat, NEW s \in Nat \ {0}
  PROVE  a \div s \in Nat /\ (a \div s) * s <= a /\ a < (a \div s) * s + s
  OBVIOUS

\* What sets have a smallest of.
LEMMA MinIsLeast ==
  ASSUME NEW S \in SUBSET Nat, S # {}
  PROVE  Min(S) \in S /\ \A y \in S : Min(S) <= y
  <1>1. \E x \in S : \A y \in S : x <= y
    BY Sums!NatSetHasMin
  <1>2. Min(S) = CHOOSE x \in S : \A y \in S : x <= y
    BY DEF Min
  <1> QED
    BY <1>1, <1>2

LEMMA LeastIsMin ==
  ASSUME NEW S \in SUBSET Nat, NEW x \in S, \A y \in S : x <= y
  PROVE  Min(S) = x
  <1>1. Min(S) \in S /\ \A y \in S : Min(S) <= y
    BY MinIsLeast
  <1>2. Min(S) \in Nat /\ x \in Nat /\ x <= Min(S) /\ Min(S) <= x
    BY <1>1
  <1> QED
    BY <1>2

\* The parts of a particle of the average weight.
Share == Parts \div Particles

LEMMA ShareType == Share \in Nat \ {0} /\ Particles * Share = Parts /\ Particles \in Nat \ {0}
                   /\ Parts \in Nat \ {0}
  <1>1. Particles \in Nat \ {0} /\ Parts \in Nat \ {0} /\ Parts % Particles = 0
    BY EstimationAssumption
  <1>2. Share \in Nat /\ Parts = Particles * Share
    BY <1>1 DEF Share
  <1>3. Share # 0
    BY <1>1, <1>2
  <1> QED
    BY <1>1, <1>2, <1>3

\* The threshold of the k-th copy, in half parts, and how many thresholds a number of
\* parts reaches.
Threshold(u, k) == 2 * (u + (k - 1) * Share) + 1
Reached(u, c) == IF c <= u THEN 0 ELSE (c - u - 1) \div Share + 1

LEMMA ReachedCounts ==
  ASSUME NEW u \in 0..(Share - 1), NEW c \in 0..Parts
  PROVE  /\ Reached(u, c) \in 0..Particles
         /\ c - u <= Reached(u, c) * Share /\ Reached(u, c) * Share <= c - u + Share - 1
         /\ \A k \in Slots : 2 * c >= Threshold(u, k) <=> k <= Reached(u, c)
  <1> DEFINE s == Share
             r == Reached(u, c)
  <1>1. s \in Nat \ {0} /\ Particles * s = Parts /\ Particles \in Nat \ {0} /\ u \in Nat
        /\ c \in Nat /\ u < s /\ c <= Particles * s
    BY ShareType
  <1>2. \A k \in Slots : k \in Nat \ {0} /\ k <= Particles /\ (k - 1) * s \in Nat
        /\ Threshold(u, k) = 2 * (u + (k - 1) * s) + 1
    BY <1>1 DEF Slots, Threshold
  <1>3. \A k \in Slots : 2 * c >= Threshold(u, k) <=> c > u + (k - 1) * s
    <2> SUFFICES ASSUME NEW k \in Slots
                 PROVE  2 * c >= Threshold(u, k) <=> c > u + (k - 1) * s
      OBVIOUS
    <2> DEFINE m == (k - 1) * s
    <2>1. m \in Nat /\ Threshold(u, k) = 2 * (u + m) + 1
      BY <1>2
    <2> HIDE DEF m
    <2>2. 2 * c >= 2 * (u + m) + 1 <=> c > u + m
      BY <1>1, <2>1
    <2> QED
      BY <2>1, <2>2 DEF m
  <1>4. CASE c <= u
    <2>1. r = 0
      BY <1>4 DEF Reached
    <2>2. \A k \in Slots : ~(c > u + (k - 1) * s) /\ ~(k <= 0)
      BY <1>1, <1>2, <1>4
    <2>3. c - u <= 0 * s /\ 0 * s <= c - u + s - 1
      BY <1>1, <1>4
    <2> HIDE DEF s
    <2> QED
      BY <1>1, <1>3, <2>1, <2>2, <2>3 DEF s
  <1>5. CASE c > u
    <2> DEFINE a == c - u - 1
               q == a \div s
    <2>1. a \in Nat
      BY <1>1, <1>5
    <2>2. r = q + 1
      BY <1>1, <1>5 DEF Reached
    <2> HIDE DEF a, r
    <2>3. q \in Nat /\ q * s <= a /\ a < q * s + s
      BY <1>1, <2>1, DivisionFloors
    <2> HIDE DEF q, s
    <2>4. a = c - u - 1
      BY DEF a
    <2>5. (q + 1) * s = q * s + s /\ q * s \in Nat
      BY <1>1, <2>3
    <2>6. c - u <= (q + 1) * s /\ (q + 1) * s <= c - u + s - 1
      BY <1>1, <2>3, <2>4, <2>5
    <2>7. q + 1 <= Particles
      <3>1. q * s < Particles * s
        BY <1>1, <2>3, <2>4, <2>5
      <3>2. Particles <= q => Particles * s <= q * s
        BY <1>1, <2>3
      <3> QED
        BY <1>1, <2>3, <2>5, <3>1, <3>2
    <2>8. ASSUME NEW k \in Slots PROVE c > u + (k - 1) * s <=> k <= q + 1
      <3> DEFINE j == k - 1
      <3>1. j \in Nat /\ k = j + 1
        BY <1>2
      <3> HIDE DEF j
      <3>2. j * s \in Nat
        BY <1>1, <3>1
      <3>3. j <= q => j * s <= q * s
        BY <1>1, <2>3, <3>1
      <3>4. q + 1 <= j => (q + 1) * s <= j * s
        BY <1>1, <2>3, <3>1
      <3>5. c > u + j * s <=> j * s <= a
        BY <1>1, <2>4, <3>2
      <3>6. j * s <= a <=> j <= q
        <4> DEFINE js == j * s
                   qs == q * s
        <4>1. js \in Nat /\ qs \in Nat /\ qs <= a /\ a < qs + s /\ a \in Nat /\ s \in Nat
          BY <1>1, <2>1, <2>3, <2>5, <3>2
        <4>2. (j <= q => js <= qs) /\ (q + 1 <= j => qs + s <= js)
          BY <2>5, <3>3, <3>4
        <4> HIDE DEF js, qs
        <4>3. js <= a <=> j <= q
          BY <2>3, <3>1, <4>1, <4>2
        <4> QED
          BY <4>3 DEF js
      <3> QED
        BY <2>3, <3>1, <3>5, <3>6 DEF j
    <2> QED
      BY <1>1, <1>3, <2>2, <2>3, <2>6, <2>7, <2>8 DEF s, r
  <1> QED
    BY <1>1, <1>4, <1>5

\* The cumulative weights.
LEMMA WeightsAddUp ==
  ASSUME NEW w \in Weightings
  PROVE  /\ \A j \in 0..Particles : SumTo(w, j) \in 0..Parts
         /\ \A j \in Slots : Sum(w, j) = SumTo(w, j) /\ SumTo(w, j) = SumTo(w, j - 1) + w[j]
         /\ \A j, k \in 0..Particles : j <= k => SumTo(w, j) <= SumTo(w, k)
         /\ SumTo(w, 0) = 0 /\ SumTo(w, Particles) = Parts
         /\ \A j \in Slots : w[j] \in 0..Parts
  <1>1. /\ w \in [Slots -> 0..Parts] /\ Sum(w, Particles) = Parts
        /\ Particles \in Nat \ {0} /\ Parts \in Nat /\ Slots = 1..Particles
    BY ShareType DEF Weightings, Slots
  <1>2. \A j \in 1..Particles : w[j] \in 0..Parts /\ w[j] \in Nat
    BY <1>1
  <1>3. Ints(w, 1..Particles)
    BY <1>2 DEF Ints
  <1>4. Runs(w, Particles)
    BY <1>1, <1>3, RunningSum
  <1>5. ASSUME NEW j \in Slots PROVE Sum(w, j) = SumTo(w, j)
    <2> DEFINE g == [i \in 1..j |-> w[i]]
    <2>1. j \in Nat /\ \A i \in 1..j : i \in 1..Particles
      BY <1>1
    <2>2. DOMAIN g = 1..j /\ \A i \in 1..j : g[i] = w[i]
      OBVIOUS
    <2>3. Ints(w, 1..j)
      BY <1>3, <2>1 DEF Ints
    <2>4. Sum(w, j) = SumFunction(g)
      BY DEF Sum
    <2> HIDE DEF g
    <2> QED
      BY <2>1, <2>2, <2>3, <2>4, SumOfSeries
  <1>6. SumTo(w, 0) = 0 /\ SumTo(w, Particles) = Parts
    BY <1>1, <1>4, <1>5 DEF Runs
  <1>7. \A j, k \in 0..Particles : j <= k => SumTo(w, j) <= SumTo(w, k)
    BY <1>1, <1>2, <1>3, SumsGrow
  <1>8. \A j \in 0..Particles : SumTo(w, j) \in 0..Parts
    <2>1. \A j \in 0..Particles : SumTo(w, j) \in Int
      BY <1>4 DEF Runs
    <2>2. \A j \in 0..Particles : SumTo(w, 0) <= SumTo(w, j) /\ SumTo(w, j) <= SumTo(w, Particles)
      BY <1>1, <1>7
    <2> QED
      BY <1>1, <1>6, <2>1, <2>2
  <1>9. \A j \in Slots : SumTo(w, j) = SumTo(w, j - 1) + w[j]
    BY <1>1, <1>4 DEF Runs
  <1> QED
    BY <1>1, <1>2, <1>5, <1>6, <1>7, <1>8, <1>9

\* The particles that may be copied for a threshold.
Heavy(w, u, k) == {j \in Slots : 2 * Sum(w, j) >= Threshold(u, k)} \cup {Particles}

LEMMA ParentIs ==
  ASSUME NEW w, NEW u, NEW k \in Slots
  PROVE  Resampled(w, u)[k] = Min(Heavy(w, u, k))
  BY DEF Resampled, Heavy, Threshold, Share

LEMMA HeavyOnes ==
  ASSUME NEW w \in Weightings, NEW u \in 0..(Share - 1), NEW k \in Slots
  PROVE  /\ Heavy(w, u, k) \in SUBSET Slots /\ Heavy(w, u, k) # {}
         /\ \A j \in Slots : j \in Heavy(w, u, k) <=> k <= Reached(u, SumTo(w, j))
  <1>1. Particles \in Nat \ {0} /\ Slots = 1..Particles /\ Particles \in Slots
    BY ShareType DEF Slots
  <1>2. \A j \in Slots : SumTo(w, j) \in 0..Parts /\ Sum(w, j) = SumTo(w, j)
    BY <1>1, WeightsAddUp
  <1>3. ASSUME NEW j \in Slots
        PROVE  2 * Sum(w, j) >= Threshold(u, k) <=> k <= Reached(u, SumTo(w, j))
    BY <1>2, ReachedCounts
  <1>4. k <= Reached(u, SumTo(w, Particles))
    <2> DEFINE r == Reached(u, Parts)
    <2>1. Parts \in 0..Parts /\ SumTo(w, Particles) = Parts
      BY ShareType, WeightsAddUp
    <2>2. r \in 0..Particles /\ Parts - u <= r * Share
      BY <2>1, ReachedCounts
    <2>3. Particles <= r
      <3> HIDE DEF r
      <3>1. SUFFICES ASSUME r + 1 <= Particles PROVE FALSE
        BY <1>1, <2>2
      <3>2. (r + 1) * Share <= Particles * Share
        BY <1>1, <2>2, <3>1, ShareType, ProductGrows
      <3>3. (r + 1) * Share = r * Share + Share /\ r * Share \in Nat
        BY <2>2, ShareType
      <3> QED
        BY <2>2, <3>2, <3>3, ShareType
    <2> HIDE DEF r
    <2> QED
      BY <1>1, <2>1, <2>2, <2>3 DEF r
  <1> QED
    BY <1>1, <1>3, <1>4 DEF Heavy

\* The copies of a particle are those of the thresholds in its share.
LEMMA CopiesAreShares ==
  ASSUME NEW w \in Weightings, NEW u \in 0..(Share - 1), NEW i \in Slots, NEW k \in Slots
  PROVE  Resampled(w, u)[k] = i
           <=> Reached(u, SumTo(w, i - 1)) < k /\ k <= Reached(u, SumTo(w, i))
  <1> DEFINE T == Heavy(w, u, k)
             r == [j \in 0..Particles |-> Reached(u, SumTo(w, j))]
  <1>1. Particles \in Nat \ {0} /\ Slots = 1..Particles
    BY ShareType DEF Slots
  <1>2. T \in SUBSET Slots /\ T # {} /\ \A j \in Slots : j \in T <=> k <= r[j]
    BY <1>1, HeavyOnes
  <1>3. T \in SUBSET Nat
    BY <1>1, <1>2
  <1>4. Resampled(w, u)[k] = Min(T)
    BY ParentIs
  <1>5. \A j \in 0..Particles : r[j] = Reached(u, SumTo(w, j)) /\ r[j] \in Nat
    <2>1. \A j \in 0..Particles : SumTo(w, j) \in 0..Parts
      BY WeightsAddUp
    <2> QED
      BY <2>1, ReachedCounts
  <1>6. r[0] = 0
    <2>1. SumTo(w, 0) = 0 /\ u >= 0
      BY WeightsAddUp, ShareType
    <2> QED
      BY <1>5, <2>1, <1>1 DEF Reached
  <1>7. \A j \in 1..(i - 1) : k <= r[j] => k <= r[i - 1]
    <2> SUFFICES ASSUME NEW j \in 1..(i - 1), k <= r[j] PROVE k <= r[i - 1]
      OBVIOUS
    <2>1. j \in Slots /\ i - 1 \in Slots /\ j \in 0..Particles /\ i - 1 \in 0..Particles /\ j <= i - 1
      BY <1>1
    <2> DEFINE a == SumTo(w, j)
               b == SumTo(w, i - 1)
    <2>2. a \in 0..Parts /\ b \in 0..Parts /\ a <= b
      BY <2>1, WeightsAddUp
    <2>3. 2 * a >= Threshold(u, k) /\ Threshold(u, k) \in Int
      <3>1. r[j] = Reached(u, a)
        BY <1>5, <2>1
      <3>2. 2 * a >= Threshold(u, k)
        BY <2>2, <3>1, ReachedCounts
      <3> QED
        BY <1>1, <3>2, ShareType DEF Threshold
    <2>4. 2 * b >= Threshold(u, k)
      <3> HIDE DEF a, b
      <3> QED
        BY <2>2, <2>3
    <2>5. k <= Reached(u, b)
      BY <2>2, <2>4, ReachedCounts
    <2> QED
      BY <1>5, <2>1, <2>5
  <1> HIDE DEF T, r
  <1>8. i \in Nat /\ k \in Nat /\ i - 1 \in 0..Particles /\ i \in 0..Particles /\ k >= 1
    BY <1>1
  <1>9. ASSUME r[i - 1] < k, k <= r[i] PROVE Min(T) = i
    <2>1. i \in T
      BY <1>2, <1>9
    <2>2. ASSUME NEW j \in T PROVE i <= j
      <3>1. j \in Slots /\ k <= r[j]
        BY <1>2, <2>2
      <3>2. ~(k <= r[i - 1])
        BY <1>5, <1>8, <1>9
      <3>3. ~(j \in 1..(i - 1))
        BY <1>7, <3>1, <3>2
      <3> QED
        BY <1>1, <1>8, <3>1, <3>3
    <2> QED
      BY <1>3, <2>1, <2>2, LeastIsMin
  <1>10. ASSUME Min(T) = i PROVE r[i - 1] < k /\ k <= r[i]
    <2>1. i \in T /\ \A j \in T : i <= j
      BY <1>2, <1>3, <1>10, MinIsLeast
    <2>2. k <= r[i]
      BY <1>2, <2>1
    <2>3. CASE i = 1
      <3>1. r[i - 1] = 0
        BY <1>6, <2>3
      <3> QED
        BY <1>8, <2>2, <3>1
    <2>4. CASE i # 1
      <3>1. i - 1 \in Slots /\ ~(i <= i - 1)
        BY <1>1, <2>4
      <3>2. i - 1 \notin T
        BY <2>1, <3>1
      <3>3. ~(k <= r[i - 1])
        BY <1>2, <3>1, <3>2
      <3> QED
        BY <1>5, <1>8, <2>2, <3>3
    <2> QED
      BY <2>3, <2>4
  <1>11. r[i - 1] = Reached(u, SumTo(w, i - 1)) /\ r[i] = Reached(u, SumTo(w, i))
    BY <1>5, <1>8
  <1> QED
    BY <1>4, <1>9, <1>10, <1>11

\* As many copies as the weight says, rounded either way.
LEMMA CopiesAreFair ==
  ASSUME NEW w \in Weightings, NEW u \in 0..(Share - 1), NEW i \in Slots
  PROVE  /\ Copies(Resampled(w, u), i) * Parts > w[i] * Particles - Parts
         /\ Copies(Resampled(w, u), i) * Parts < w[i] * Particles + Parts
  <1> DEFINE a == SumTo(w, i - 1)
             b == SumTo(w, i)
             ra == Reached(u, a)
             rb == Reached(u, b)
             copies == {k \in Slots : Resampled(w, u)[k] = i}
             c == Cardinality(copies)
  <1>1. Particles \in Nat \ {0} /\ Slots = 1..Particles /\ Share \in Nat \ {0}
        /\ Particles * Share = Parts /\ i - 1 \in 0..Particles /\ i \in 0..Particles
        /\ Parts \in Nat \ {0} /\ u \in Nat
    BY ShareType DEF Slots
  <1>2. a \in 0..Parts /\ b \in 0..Parts /\ b = a + w[i] /\ w[i] \in 0..Parts
    BY <1>1, WeightsAddUp
  <1>3. /\ ra \in 0..Particles /\ a - u <= ra * Share /\ ra * Share <= a - u + Share - 1
        /\ rb \in 0..Particles /\ b - u <= rb * Share /\ rb * Share <= b - u + Share - 1
    BY <1>2, ReachedCounts
  <1>4. ra <= rb
    <2>1. CASE ra = 0
      BY <1>3, <2>1
    <2>2. CASE ra # 0
      <3>1. ra \in Slots
        BY <1>1, <1>3, <2>2
      <3>2. 2 * a >= Threshold(u, ra)
        BY <1>2, <1>3, <3>1, ReachedCounts
      <3>3. Threshold(u, ra) \in Int
        BY <1>1, <3>1 DEF Threshold
      <3>4. 2 * b >= Threshold(u, ra)
        <4> HIDE DEF a, b, ra
        <4> QED
          BY <1>2, <3>2, <3>3
      <3> QED
        BY <1>2, <3>1, <3>4, ReachedCounts
    <2> QED
      BY <2>1, <2>2
  <1>5. copies = (ra + 1)..rb
    <2>1. \A k \in Slots : Resampled(w, u)[k] = i <=> ra < k /\ k <= rb
      BY CopiesAreShares
    <2> DEFINE parents == Resampled(w, u)
    <2> HIDE DEF ra, rb, parents
    <2> QED
      BY <1>1, <1>3, <2>1 DEF parents
  <1>6. c = rb - ra
    <2> HIDE DEF copies, ra, rb
    <2>1. ra + 1 \in Int /\ rb \in Int
      BY <1>3
    <2>2. Cardinality((ra + 1)..rb) = IF ra + 1 > rb THEN 0 ELSE rb - (ra + 1) + 1
      BY <2>1, FS_Interval
    <2> QED
      BY <1>3, <1>4, <1>5, <2>2
  <1>7. Copies(Resampled(w, u), i) = c
    BY DEF Copies
  <1> HIDE DEF a, b, ra, rb, copies, c
  <1> DEFINE n == rb - ra
             d == w[i]
  <1>8. n \in Nat /\ d \in Nat
    BY <1>2, <1>3, <1>4
  <1>9. n * Share = rb * Share - ra * Share /\ ra * Share \in Nat /\ rb * Share \in Nat
    BY <1>1, <1>3
  <1>10. n * Share > d - Share /\ n * Share < d + Share /\ n * Share \in Nat
    <2> DEFINE ma == ra * Share
               mb == rb * Share
               m == n * Share
    <2>1. m = mb - ma /\ ma \in Nat /\ mb \in Nat
      BY <1>9
    <2>2. /\ a - u <= ma /\ ma <= a - u + Share - 1 /\ b - u <= mb /\ mb <= b - u + Share - 1
          /\ b = a + d /\ a \in Nat /\ b \in Nat /\ d \in Nat
      BY <1>2, <1>3
    <2>3. m \in Nat
      BY <1>1, <1>8
    <2> HIDE DEF m, ma, mb, n, d
    <2>4. m > d - Share /\ m < d + Share
      BY <1>1, <2>1, <2>2
    <2> QED
      BY <2>3, <2>4 DEF m
  <1>11. n * Parts = Particles * (n * Share) /\ d * Particles = Particles * d
         /\ Particles * (d - Share) = d * Particles - Parts
         /\ Particles * (d + Share) = d * Particles + Parts
    <2> HIDE DEF n, d
    <2> QED
      BY <1>1, <1>8
  <1>12. Particles * (n * Share) > Particles * (d - Share)
         /\ Particles * (n * Share) < Particles * (d + Share)
    <2> DEFINE m == n * Share
    <2>1. m \in Nat /\ m > d - Share /\ m < d + Share
      BY <1>10
    <2> HIDE DEF m, n, d
    <2> DEFINE low == d - Share
               high == d + Share
    <2>2. low \in Int /\ high \in Int /\ low + 1 <= m /\ m + 1 <= high
      BY <1>1, <1>8, <2>1
    <2> HIDE DEF low, high
    <2>3. /\ Particles * (low + 1) <= Particles * m /\ Particles * (m + 1) <= Particles * high
      BY <1>1, <2>1, <2>2, ProductGrows
    <2>4. /\ Particles * (low + 1) = Particles * low + Particles
          /\ Particles * (m + 1) = Particles * m + Particles
          /\ Particles * low \in Int /\ Particles * m \in Int /\ Particles * high \in Int
      BY <1>1, <2>1, <2>2
    <2>5. Particles * m > Particles * low /\ Particles * m < Particles * high
      BY <1>1, <2>3, <2>4
    <2> QED
      BY <2>5 DEF m, low, high
  <1> HIDE DEF n, d
  <1> QED
    BY <1>6, <1>7, <1>11, <1>12 DEF n, d

FilterFair(f) ==
    /\ ~TooFew(f.weights)
    /\ TooFew(f.likely) =>
          \A i \in Slots :
              /\ Copies(f.parents, i) * Parts > f.likely[i] * Particles - Parts
              /\ Copies(f.parents, i) * Parts < f.likely[i] * Particles + Parts
    /\ \A i, j \in Slots : i < j => f.parents[i] <= f.parents[j]

\* Equal weights are not too few.
LEMMA UniformIsEnough == ~TooFew(Uniform)
  <1> DEFINE h == [i \in Slots |-> Uniform[i] * Uniform[i]]
             c == Share * Share
             g == [i \in Slots |-> 1]
  <1>1. Particles \in Nat \ {0} /\ Slots = 1..Particles /\ Share \in Nat \ {0}
        /\ Particles * Share = Parts /\ Parts \in Nat \ {0}
    BY ShareType DEF Slots
  <1>2. DOMAIN h = 1..Particles /\ \A i \in 1..Particles : h[i] = c
    BY <1>1 DEF Uniform, Share
  <1>3. \A i \in 1..Particles : g[i] = 1
    BY <1>1
  <1>4. c \in Nat
    BY <1>1
  <1> HIDE DEF h, c, g
  <1>5. Ints(g, 1..Particles) /\ Scales(h, c, g, Particles)
    BY <1>2, <1>3, <1>4 DEF Ints, Scales
  <1>6. Ints(h, 1..Particles) /\ SumTo(h, Particles) = c * SumTo(g, Particles)
    BY <1>1, <1>4, <1>5, SumScaled
  <1>7. SumTo(g, Particles) = Particles
    <2> DEFINE Good == {k \in 0..Particles : SumTo(g, k) = k}
    <2>1. Runs(g, Particles)
      BY <1>1, <1>5, RunningSum
    <2>2. 0 \in Good
      BY <1>1, <2>1 DEF Runs
    <2>3. ASSUME NEW k \in 1..Particles, k - 1 \in Good PROVE k \in Good
      <3>1. SumTo(g, k) = SumTo(g, k - 1) + g[k] /\ SumTo(g, k - 1) = k - 1 /\ g[k] = 1
        BY <1>3, <2>1, <2>3 DEF Runs
      <3> QED
        BY <1>1, <3>1
    <2> HIDE DEF Good
    <2>4. Particles \in Good
      BY <1>1, <2>2, <2>3, Sums!UpToInduction
    <2> QED
      BY <2>4 DEF Good
  <1>8. SumFunction(h) = c * Particles
    BY <1>1, <1>2, <1>6, <1>7, SumOfSeries
  <1>9. TooFew(Uniform) = (2 * Parts * Parts < Particles * SumFunction(h))
    BY DEF TooFew, h
  <1>10. Particles * (c * Particles) = Parts * Parts /\ Parts * Parts \in Nat
         /\ 2 * Parts * Parts = 2 * (Parts * Parts)
    BY <1>1 DEF c
  <1> DEFINE square == Parts * Parts
  <1>11. square \in Nat /\ ~(2 * square < square)
    BY <1>10
  <1> QED
    BY <1>8, <1>9, <1>10, <1>11

\* Later thresholds copy later particles.
LEMMA ParentsInOrder ==
  ASSUME NEW w \in Weightings, NEW u \in 0..(Share - 1), NEW i \in Slots, NEW j \in Slots, i < j
  PROVE  Resampled(w, u)[i] <= Resampled(w, u)[j]
  <1>1. Slots \in SUBSET Nat
    BY ShareType DEF Slots
  <1>2. Heavy(w, u, i) \in SUBSET Nat /\ Heavy(w, u, i) # {}
        /\ Heavy(w, u, j) \in SUBSET Nat /\ Heavy(w, u, j) # {}
    BY <1>1, HeavyOnes
  <1>3. Heavy(w, u, j) \subseteq Heavy(w, u, i)
    <2> SUFFICES ASSUME NEW k \in Heavy(w, u, j) PROVE k \in Heavy(w, u, i)
      OBVIOUS
    <2>1. k \in Slots /\ j <= Reached(u, SumTo(w, k))
      BY HeavyOnes
    <2>2. Reached(u, SumTo(w, k)) \in Nat
      <3>1. k \in 0..Particles
        BY <2>1, ShareType DEF Slots
      <3>2. SumTo(w, k) \in 0..Parts
        BY <3>1, WeightsAddUp
      <3> QED
        BY <3>2, ReachedCounts
    <2>3. i <= Reached(u, SumTo(w, k))
      BY <1>1, <2>1, <2>2
    <2> QED
      BY <2>1, <2>3, HeavyOnes
  <1>4. Min(Heavy(w, u, j)) \in Heavy(w, u, i)
    BY <1>2, <1>3, MinIsLeast
  <1>5. Min(Heavy(w, u, i)) <= Min(Heavy(w, u, j))
    BY <1>2, <1>4, MinIsLeast
  <1> QED
    BY <1>5, ParentIs

LEMMA UpdatedIsFair ==
  ASSUME NEW w \in Weightings, NEW u \in 0..(Share - 1)
  PROVE  FilterFair(Updated(w, u))
  <1> DEFINE f == Updated(w, u)
  <1>1. f.likely = w
    BY DEF Updated
  <1>2. CASE TooFew(w)
    <2>1. f.weights = Uniform /\ f.parents = Resampled(w, u)
      BY <1>2 DEF Updated
    <2> HIDE DEF f
    <2>2. \A i \in Slots : /\ Copies(f.parents, i) * Parts > w[i] * Particles - Parts
                           /\ Copies(f.parents, i) * Parts < w[i] * Particles + Parts
      BY <2>1, CopiesAreFair
    <2>3. \A i, j \in Slots : i < j => f.parents[i] <= f.parents[j]
      BY <2>1, ParentsInOrder
    <2> HIDE DEF f
    <2>4. FilterFair(f)
      BY <1>1, <2>1, <2>2, <2>3, UniformIsEnough DEF FilterFair
    <2> QED
      BY <2>4 DEF f
  <1>3. CASE ~TooFew(w)
    <2>1. f.weights = w /\ f.parents = [i \in Slots |-> i]
      BY <1>3 DEF Updated
    <2>2. Slots \in SUBSET Nat
      BY ShareType DEF Slots
    <2> HIDE DEF f
    <2>3. \A i, j \in Slots : i < j => f.parents[i] <= f.parents[j]
      BY <2>1, <2>2
    <2>4. FilterFair(f)
      BY <1>1, <1>3, <2>1, <2>3 DEF FilterFair
    <2> QED
      BY <2>4 DEF f
  <1> QED
    BY <1>2, <1>3

FiltersInv == \A m \in DOMAIN filters : FilterFair(filters[m])

Batches == [paths : Nat, hits : Nat]

SimInv ==
    LET last == Len(sim.batches)
        precise(i) == Precise(sim.batches[i].hits, sim.batches[i].paths)
    IN  /\ sim \in [paths : Nat, hits : Nat, batches : Seq(Batches),
                    state : {"running", "converged", "notConverged"}]
        /\ sim.paths <= MaxPaths
        /\ \A i \in 1..(last - 1) : ~precise(i)
        /\ sim.state = "running" /\ sim.paths < MaxPaths /\ last > 0 => ~precise(last)
        /\ sim.state = "converged" => last > 0 /\ precise(last)
        /\ sim.state = "notConverged" => sim.paths = MaxPaths

LEMMA BatchKeeps ==
  ASSUME SimInv, Batch
  PROVE  SimInv'
  <1> DEFINE size == Min({BatchSize, MaxPaths - sim.paths})
             paths == sim.paths + size
  <1>1. PICK new \in 0..size :
            LET hits == sim.hits + new
                enough == Precise(hits, paths) /\ paths >= BatchSize
            IN  sim' = [paths |-> paths, hits |-> hits,
                        batches |-> Append(sim.batches, [paths |-> paths, hits |-> hits]),
                        state |-> IF enough THEN "converged" ELSE "running"]
    BY DEF Batch
  <1> DEFINE hits == sim.hits + new
             enough == Precise(hits, paths) /\ paths >= BatchSize
             batch == [paths |-> paths, hits |-> hits]
             old == sim.batches
             last == Len(old)
             precise(i) == Precise(old[i].hits, old[i].paths)
  <1>2. sim.state = "running" /\ sim.paths < MaxPaths /\ sim.paths \in Nat /\ sim.hits \in Nat
        /\ old \in Seq(Batches) /\ MaxPaths \in Nat /\ BatchSize \in Nat \ {0}
    BY EstimationAssumption DEF SimInv, Batch
  <1>3. /\ size \in Nat /\ size <= MaxPaths - sim.paths
        /\ size = BatchSize \/ size = MaxPaths - sim.paths
    <2> DEFINE S == {BatchSize, MaxPaths - sim.paths}
    <2>1. S \in SUBSET Nat /\ S # {}
      BY <1>2
    <2> HIDE DEF S
    <2>2. Min(S) \in S /\ \A y \in S : Min(S) <= y
      BY <2>1, MinIsLeast
    <2> QED
      BY <1>2, <2>2 DEF S
  <1>4. /\ sim'.paths = paths /\ sim'.hits = hits /\ sim'.batches = Append(old, batch)
        /\ sim'.state = IF enough THEN "converged" ELSE "running"
        /\ sim' = [paths |-> paths, hits |-> hits, batches |-> Append(old, batch),
                   state |-> IF enough THEN "converged" ELSE "running"]
    BY <1>1
  <1> HIDE DEF size
  <1>5. paths \in Nat /\ paths <= MaxPaths /\ hits \in Nat /\ new \in Nat
        /\ (paths < MaxPaths => paths >= BatchSize)
    BY <1>2, <1>3
  <1>6. batch \in Batches
    BY <1>5 DEF Batches
  <1>7. batch.paths = paths /\ batch.hits = hits
    OBVIOUS
  <1>8. \A i \in 1..last : ~precise(i)
    <2>1. \A i \in 1..(last - 1) : ~precise(i)
      BY DEF SimInv
    <2>2. last > 0 => ~precise(last)
      BY <1>2 DEF SimInv
    <2>3. last \in Nat
      BY <1>2
    <2> HIDE DEF precise, last
    <2> QED
      BY <2>1, <2>2, <2>3
  <1> HIDE DEF paths, hits, batch, enough, old, last
  <1> DEFINE more == Append(old, batch)
  <1>9. /\ more \in Seq(Batches) /\ Len(more) = last + 1 /\ last \in Nat
        /\ more[last + 1] = batch /\ \A i \in 1..last : more[i] = old[i]
    BY <1>2, <1>6 DEF last
  <1>10. sim'.batches = more
    BY <1>4
  <1>11. sim' \in [paths : Nat, hits : Nat, batches : Seq(Batches),
                   state : {"running", "converged", "notConverged"}]
    BY <1>4, <1>5, <1>9
  <1> HIDE DEF more
  <1>12. enough => Precise(hits, paths)
    BY DEF enough
  <1>13. ~enough /\ paths < MaxPaths => ~Precise(hits, paths)
    BY <1>5 DEF enough
  <1>14. /\ Len(sim'.batches) = last + 1 /\ sim'.batches[last + 1].hits = hits
         /\ sim'.batches[last + 1].paths = paths
         /\ \A i \in 1..last : /\ sim'.batches[i].hits = old[i].hits
                               /\ sim'.batches[i].paths = old[i].paths
    BY <1>7, <1>9, <1>10
  <1>15. \A i \in 1..last : ~Precise(sim'.batches[i].hits, sim'.batches[i].paths)
    BY <1>8, <1>14
  <1>16. sim'.state # "notConverged" /\ (sim'.state = "converged" <=> enough)
    BY <1>4
  <1>17. sim'.paths = paths /\ (last + 1) - 1 = last
    BY <1>4, <1>9
  <1> QED
    BY <1>5, <1>9, <1>11, <1>12, <1>13, <1>14, <1>15, <1>16, <1>17 DEF SimInv, Precise

EstimatesInv == FiltersInv /\ CombinedFairly(combined) /\ SimInv

\* Whatever is observed, guessed and drawn: resampling copies every particle as its
\* weight says, a combined estimate lies between those it combines, and a simulation
\* stops where it is precise enough, or out of paths.
THEOREM EstimatesAlwaysSound == Spec => []EstimatesSound
  <1>1. Init => EstimatesInv
    <2> SUFFICES ASSUME Init PROVE EstimatesInv
      OBVIOUS
    <2>1. EstimationInit
      BY DEF Init
    <2>2. FiltersInv
      BY <2>1 DEF EstimationInit, FiltersInv
    <2>3. CombinedFairly(combined)
      <3>1. {} \in SUBSET Guesses /\ IsFiniteSet({})
        BY FS_EmptySet
      <3>2. CombinedFairly(Combined({}))
        BY <3>1, CombinedIsBetween
      <3> QED
        BY <2>1, <3>2 DEF EstimationInit
    <2>4. SimInv
      <3>1. sim = [paths |-> 0, hits |-> 0, batches |-> <<>>, state |-> "running"]
        BY <2>1 DEF EstimationInit
      <3>2. MaxPaths \in Nat
        BY EstimationAssumption
      <3> QED
        BY <3>1, <3>2 DEF SimInv
    <2> QED
      BY <2>2, <2>3, <2>4 DEF EstimatesInv
  <1>2. EstimatesInv /\ [Next]_vars => EstimatesInv'
    <2> SUFFICES ASSUME EstimatesInv, [Next]_vars PROVE EstimatesInv'
      OBVIOUS
    <2>1. CASE UNCHANGED estimationVars
      <3>1. filters' = filters /\ combined' = combined /\ sim' = sim
        BY <2>1 DEF estimationVars
      <3> QED
        BY <3>1 DEF EstimatesInv, FiltersInv, SimInv
    <2>2. CASE EnsembleNext
      <3>1. PICK m \in FilterMarkets : EstimateMarket(m)
        BY <2>2 DEF EnsembleNext
      <3>2. sim' = sim
        BY <3>1 DEF EstimateMarket
      <3>3. PICK likely \in Weightings, u \in 0..(Share - 1) :
                filters' = [x \in DOMAIN filters \cup {m} |->
                               IF x = m THEN Updated(likely, u) ELSE filters[x]]
        BY <3>1 DEF EstimateMarket, Share
      <3>4. FiltersInv'
        <4> DEFINE f == Updated(likely, u)
        <4>1. FilterFair(f)
          BY UpdatedIsFair
        <4> HIDE DEF f
        <4>2. filters' = [x \in DOMAIN filters \cup {m} |-> IF x = m THEN f ELSE filters[x]]
          BY <3>3 DEF f
        <4>3. \A x \in DOMAIN filters : FilterFair(filters[x])
          BY DEF EstimatesInv, FiltersInv
        <4>4. \A x \in DOMAIN filters' : FilterFair(filters'[x])
          BY <4>1, <4>2, <4>3
        <4> QED
          BY <4>4 DEF FiltersInv
      <3>5. PICK one \in Guesses, other \in Guesses : combined' = Combined({one, other})
        BY <3>1 DEF EstimateMarket
      <3>6. CombinedFairly(combined')
        <4> DEFINE both == {one, other}
        <4>1. both \in SUBSET Guesses
          OBVIOUS
        <4>2. IsFiniteSet(both)
          <5>1. IsFiniteSet({one})
            BY FS_Singleton
          <5>2. IsFiniteSet({one} \cup {other})
            BY <5>1, FS_AddElement
          <5>3. both = {one} \cup {other}
            OBVIOUS
          <5> QED
            BY <5>2, <5>3
        <4> HIDE DEF both
        <4>3. CombinedFairly(Combined(both))
          BY <4>1, <4>2, CombinedIsBetween
        <4> QED
          BY <3>5, <4>3 DEF both
      <3>7. SimInv'
        BY <3>2 DEF EstimatesInv, SimInv
      <3> QED
        BY <3>4, <3>6, <3>7 DEF EstimatesInv
    <2>3. CASE PathsNext
      <3>1. filters' = filters /\ combined' = combined
        BY <2>3 DEF PathsNext, Batch, GiveUp
      <3>2. CASE Batch
        BY <3>1, <3>2, BatchKeeps DEF EstimatesInv, FiltersInv
      <3>3. CASE GiveUp
        <4>1. sim.paths >= MaxPaths /\ sim' = [sim EXCEPT !.state = "notConverged"]
          BY <3>3 DEF GiveUp
        <4>2. SimInv
          BY DEF EstimatesInv
        <4>3. /\ sim \in [paths : Nat, hits : Nat, batches : Seq(Batches),
                          state : {"running", "converged", "notConverged"}]
              /\ sim.paths <= MaxPaths /\ MaxPaths \in Nat
          BY <4>2, EstimationAssumption DEF SimInv
        <4>4. /\ sim'.batches = sim.batches /\ sim'.paths = sim.paths
              /\ sim'.state = "notConverged" /\ sim.paths = MaxPaths
              /\ sim' \in [paths : Nat, hits : Nat, batches : Seq(Batches),
                           state : {"running", "converged", "notConverged"}]
          BY <4>1, <4>3
        <4>5. SimInv'
          BY <4>2, <4>3, <4>4 DEF SimInv
        <4> QED
          BY <3>1, <4>5 DEF EstimatesInv, FiltersInv
      <3> QED
        BY <2>3, <3>2, <3>3 DEF PathsNext
    <2>4. Next => UNCHANGED estimationVars \/ EnsembleNext \/ PathsNext
      BY DEF Next, Offering, Trying, Studying, Estimating, Simulating
    <2>5. UNCHANGED vars => UNCHANGED estimationVars
      BY DEF vars
    <2> QED
      BY <2>1, <2>2, <2>3, <2>4, <2>5
  <1>3. EstimatesInv => EstimatesSound
    <2> SUFFICES ASSUME EstimatesInv PROVE EstimatesSound
      OBVIOUS
    <2>1. FilterStaysFair
      <3>1. \A m \in DOMAIN filters : FilterFair(filters[m])
        BY DEF EstimatesInv, FiltersInv
      <3> QED
        BY <3>1 DEF FilterFair, FilterStaysFair
    <2>2. CombinedBetween
      BY DEF EstimatesInv, CombinedFairly, CombinedBetween
    <2>3. StopsWithReason
      BY DEF EstimatesInv, SimInv, StopsWithReason
    <2> QED
      BY <2>1, <2>2, <2>3 DEF EstimatesSound
  <1> QED
    BY <1>1, <1>2, <1>3, PTL DEF Spec

-----------------------------------------------------------------------------
(* What could be lost                                                      *)

LEMMA HasGreatest ==
  ASSUME NEW S, IsFiniteSet(S), S # {}, NEW f, Ints(f, S)
  PROVE  \E x \in S : \A y \in S : f[y] <= f[x]
  <1> DEFINE P == {s \in SUBSET S : s = {} \/ \E x \in s : \A y \in s : f[y] <= f[x]}
  <1>1. {} \in P
    OBVIOUS
  <1>2. \A s \in SUBSET S : s # {} => AnyOf(s) \in s
    BY AnyOfIn
  <1>3. \A s \in SUBSET S : s # {} /\ s \ {AnyOf(s)} \in P => s \in P
    <2> SUFFICES ASSUME NEW s \in SUBSET S, s # {}, s \ {AnyOf(s)} \in P
                 PROVE  \E x \in s : \A y \in s : f[y] <= f[x]
      OBVIOUS
    <2> DEFINE e == AnyOf(s)
               rest == s \ {e}
    <2>1. e \in s /\ s = rest \cup {e}
      BY AnyOfIn
    <2> HIDE DEF e
    <2>2. \A y \in s : f[y] \in Int
      BY DEF Ints
    <2>3. CASE rest = {}
      BY <2>1, <2>2, <2>3
    <2>4. CASE rest # {}
      <3>1. PICK x \in rest : \A y \in rest : f[y] <= f[x]
        BY <2>4 DEF e
      <3>2. CASE f[x] <= f[e]
        <4>1. \A y \in s : f[y] <= f[e]
          BY <2>1, <2>2, <3>1, <3>2
        <4> QED
          BY <2>1, <4>1
      <3>3. CASE ~(f[x] <= f[e])
        <4>1. \A y \in s : f[y] <= f[x]
          BY <2>1, <2>2, <3>1, <3>3
        <4> QED
          BY <3>1, <4>1
      <3> QED
        BY <3>2, <3>3
    <2> QED
      BY <2>3, <2>4
  <1>4. P \in SUBSET (SUBSET S)
    OBVIOUS
  <1> HIDE DEF P
  <1>5. Sums!IsFiniteSet(S)
    BY SameFinite
  <1>6. P = SUBSET S
    BY <1>1, <1>2, <1>3, <1>4, <1>5, Sums!SubsetInduction
  <1> QED
    BY <1>6 DEF P

\* p names the elements of S by increasing value.
InOrder(p, n, S, f) ==
    /\ p \in [1..n -> S]
    /\ \A i, j \in 1..n : i < j => p[i] # p[j] /\ f[p[i]] <= f[p[j]]

LEMMA OrderExists ==
  ASSUME NEW n \in Nat, NEW f, Ints(f, 1..n)
  PROVE  \E p : InOrder(p, n, 1..n, f)
  <1> DEFINE D == 1..n
             Orders(k) == \A s \in SUBSET D : Cardinality(s) = k => \E p : InOrder(p, k, s, f)
             Good == {k \in Nat : Orders(k)}
  <1>1. IsFiniteSet(D) /\ Cardinality(D) = n
    <2>1. 1 \in Int /\ n \in Int
      OBVIOUS
    <2> QED
      BY <2>1, FS_Interval
  <1> HIDE DEF D
  <1>2. \A s \in SUBSET D : IsFiniteSet(s) /\ Cardinality(s) \in Nat
    BY <1>1, FS_Subset, FS_CardinalityType
  <1>3. 0 \in Good
    <2> SUFFICES ASSUME NEW s \in SUBSET D, Cardinality(s) = 0
                 PROVE  \E p : InOrder(p, 0, s, f)
      OBVIOUS
    <2> DEFINE p == [i \in 1..0 |-> 0]
    <2>1. 1..0 = {}
      OBVIOUS
    <2>2. p \in [1..0 -> s]
      BY <2>1
    <2> QED
      BY <2>1, <2>2 DEF InOrder
  <1>4. ASSUME NEW k \in Nat, Orders(k) PROVE Orders(k + 1)
    <2> SUFFICES ASSUME NEW s \in SUBSET D, Cardinality(s) = k + 1
                 PROVE  \E p : InOrder(p, k + 1, s, f)
      OBVIOUS
    <2>1. k \in Nat /\ s # {}
      <3>1. k \in Nat /\ k + 1 # 0
        OBVIOUS
      <3> QED
        BY <3>1, FS_EmptySet
    <2>2. Ints(f, s)
      BY DEF Ints, D
    <2>3. PICK x \in s : \A y \in s : f[y] <= f[x]
      BY <1>2, <2>1, <2>2, HasGreatest
    <2> DEFINE rest == s \ {x}
    <2>4. Cardinality(rest) = k /\ rest \in SUBSET D
      BY <1>2, <2>1, <2>3, FS_RemoveElement
    <2>5. PICK p : InOrder(p, k, rest, f)
      BY <1>4, <2>4
    <2> DEFINE q == [i \in 1..(k + 1) |-> IF i <= k THEN p[i] ELSE x]
    <2>6. \A i \in 1..k : p[i] \in rest
      BY <2>5 DEF InOrder
    <2>7. \A i \in 1..(k + 1) : (i \in 1..k /\ q[i] = p[i]) \/ (i = k + 1 /\ q[i] = x)
      BY <2>1
    <2>8. q \in [1..(k + 1) -> s]
      <3>1. \A i \in 1..(k + 1) : q[i] \in s
        BY <2>3, <2>6, <2>7
      <3> QED
        BY <3>1
    <2> HIDE DEF q, rest
    <2>9. ASSUME NEW i \in 1..(k + 1), NEW j \in 1..(k + 1), i < j
          PROVE  q[i] # q[j] /\ f[q[i]] <= f[q[j]]
      <3>1. i \in 1..k /\ q[i] = p[i]
        BY <2>1, <2>7, <2>9
      <3>2. CASE j \in 1..k /\ q[j] = p[j]
        BY <2>5, <2>9, <3>1, <3>2 DEF InOrder
      <3>3. CASE q[j] = x
        <4>1. p[i] \in rest
          BY <2>6, <3>1
        <4>2. p[i] # x /\ p[i] \in s
          BY <4>1 DEF rest
        <4> QED
          BY <2>3, <3>1, <3>3, <4>2
      <3> QED
        BY <2>7, <3>2, <3>3
    <2> QED
      BY <2>8, <2>9 DEF InOrder
  <1> HIDE DEF Orders
  <1>5. \A k \in Good : k + 1 \in Good
    BY <1>4
  <1> HIDE DEF Good
  <1>6. Good = Nat
    <2>1. Good \in SUBSET Nat
      BY DEF Good
    <2> QED
      BY <1>3, <1>5, <2>1, Sums!NatSetInduction
  <1>7. \E p : InOrder(p, n, D, f)
    BY <1>1, <1>6 DEF Good, Orders
  <1> QED
    BY <1>7 DEF D

\* A series in ascending order, and the period each value is from.
SortedBy(series, p) ==
    /\ InOrder(p, Len(series), 1..Len(series), series)
    /\ \A k \in 1..Len(series) : \E i \in 1..Len(series) : p[i] = k
    /\ \A i \in 1..Len(series) : Ascending(series)[i] = series[p[i]]

LEMMA AscendingSorts ==
  ASSUME NEW series \in Seq(Int)
  PROVE  \E p : SortedBy(series, p)
  <1> DEFINE n == Len(series)
             D == 1..n
             Right(p) == \A i, j \in D : i < j => p[i] # p[j] /\ series[p[i]] <= series[p[j]]
             order == CHOOSE p \in [D -> D] : Right(p)
  <1>1. n \in Nat /\ Ints(series, 1..n)
    BY DEF Ints
  <1>2. \E p \in [D -> D] : Right(p)
    <2>1. PICK p : InOrder(p, n, 1..n, series)
      BY <1>1, OrderExists
    <2> QED
      BY <2>1 DEF InOrder
  <1>3. order \in [D -> D] /\ Right(order)
    BY <1>2
  <1>4. Ascending(series) = [i \in D |-> series[order[i]]]
    BY DEF Ascending
  <1> HIDE DEF order
  <1>5. IsFiniteSet(D)
    BY <1>1, IntervalsFinite
  <1>6. order \in Injection(D, D)
    <2>1. \A i, j \in D : order[i] = order[j] => i = j
      <3> SUFFICES ASSUME NEW i \in D, NEW j \in D, order[i] = order[j], i # j PROVE FALSE
        OBVIOUS
      <3>1. i < j \/ j < i
        BY <1>1
      <3> QED
        BY <1>3, <3>1
    <2> HIDE DEF D
    <2> QED
      BY <1>3, <2>1 DEF Injection, IsInjective
  <1>7. order \in Surjection(D, D)
    <2> HIDE DEF D
    <2> QED
      BY <1>5, <1>6, FS_Injection
  <1>8. \A k \in D : \E i \in D : order[i] = k
    <2> HIDE DEF D
    <2> QED
      BY <1>7 DEF Surjection
  <1>9. InOrder(order, n, D, series)
    BY <1>3 DEF InOrder
  <1> QED
    BY <1>4, <1>8, <1>9 DEF SortedBy

\* What is worse than a value, and what is no better.
Worse(series, var) == {i \in DOMAIN series : -series[i] > var}
NoBetter(series, var) == {i \in DOMAIN series : -series[i] >= var}

LEMMA PlaceIs ==
  ASSUME NEW n \in Nat \ {0}, NEW tail \in Nat \ {0, 1}
  PROVE  n \div tail \in Nat /\ n \div tail + 1 \in 1..n /\ (n \div tail) * tail <= n
         /\ n < (n \div tail + 1) * tail
  <1> DEFINE d == n \div tail
  <1>1. d \in Nat /\ d * tail <= n /\ n < d * tail + tail
    BY DivisionFloors
  <1> HIDE DEF d
  <1>2. d < n
    <2>1. CASE d = 0
      BY <2>1
    <2>2. CASE d # 0
      <3>1. d * 2 <= d * tail
        <4>1. 2 <= tail /\ d >= 0 /\ d \in Int /\ tail \in Int
          BY <1>1
        <4> QED
          BY <4>1, ProductGrows
      <3>2. d * tail \in Int
        BY <1>1
      <3> QED
        BY <1>1, <2>2, <3>1, <3>2
    <2> QED
      BY <2>1, <2>2
  <1>3. (d + 1) * tail = d * tail + tail
    BY <1>1
  <1> QED
    BY <1>1, <1>2, <1>3 DEF d

\* The first k of the order are k.
Lowest(p, k) == {p[i] : i \in 1..k}

LEMMA FirstOfOrder ==
  ASSUME NEW series \in Seq(Int), NEW p, SortedBy(series, p), NEW k \in 0..Len(series)
  PROVE  IsFiniteSet(Lowest(p, k)) /\ Cardinality(Lowest(p, k)) = k
  <1> DEFINE n == Len(series)
             first == {p[i] : i \in 1..k}
             q == [i \in 1..k |-> p[i]]
  <1>1. n \in Nat /\ 1..k \subseteq 1..n /\ k \in Nat
    OBVIOUS
  <1>2. \A i \in 1..k : p[i] \in 1..n
    BY <1>1 DEF SortedBy, InOrder
  <1>3. \A i, j \in 1..k : p[i] = p[j] => i = j
    <2> SUFFICES ASSUME NEW i \in 1..k, NEW j \in 1..k, p[i] = p[j], i # j PROVE FALSE
      OBVIOUS
    <2>1. i < j \/ j < i
      OBVIOUS
    <2> QED
      BY <1>1, <2>1 DEF SortedBy, InOrder
  <1>4. IsFiniteSet(1..k) /\ Cardinality(1..k) = k
    <2>1. 1 \in Int /\ k \in Int
      BY <1>1
    <2> QED
      BY <1>1, <2>1, FS_Interval
  <1> DEFINE D == 1..k
  <1>5. q \in Surjection(D, first) /\ q \in Injection(D, first)
    <2>1. q \in [D -> first] /\ \A i, j \in D : q[i] = q[j] => i = j
      BY <1>3
    <2>2. \A x \in first : \E i \in D : q[i] = x
      OBVIOUS
    <2> HIDE DEF D, first, q
    <2> QED
      BY <2>1, <2>2 DEF Surjection, Injection, IsInjective
  <1>6. IsFiniteSet(first) /\ Cardinality(first) = Cardinality(D)
    <2> HIDE DEF D, first, q
    <2>1. IsFiniteSet(D)
      BY <1>4 DEF D
    <2> QED
      BY <1>5, <2>1, FS_Surjection
  <1> QED
    BY <1>4, <1>6 DEF Lowest

LEMMA QuantileIs ==
  ASSUME NEW series \in Seq(Int), series # <<>>, NEW tail \in Nat \ {0, 1}
  PROVE  LET var == PercentileLoss(series, tail)
         IN  /\ var \in Int
             /\ Cardinality(Worse(series, var)) \in Nat
             /\ Cardinality(Worse(series, var)) * tail <= Len(series)
             /\ Cardinality(NoBetter(series, var)) * tail > Len(series)
  <1> DEFINE n == Len(series)
             d == n \div tail
             var == PercentileLoss(series, tail)
  <1>1. n \in Nat \ {0} /\ DOMAIN series = 1..n /\ \A i \in 1..n : series[i] \in Int
    OBVIOUS
  <1>2. d \in Nat /\ d + 1 \in 1..n /\ d * tail <= n /\ n < (d + 1) * tail
    BY <1>1, PlaceIs
  <1>3. PICK p : SortedBy(series, p)
    BY AscendingSorts
  <1>4. /\ \A i \in 1..n : p[i] \in 1..n
        /\ \A i, j \in 1..n : i <= j => series[p[i]] <= series[p[j]]
        /\ \A k \in 1..n : \E i \in 1..n : p[i] = k
    <2>1. \A i \in 1..n : p[i] \in 1..n
      BY <1>3 DEF SortedBy, InOrder
    <2>2. \A i, j \in 1..n : i <= j => series[p[i]] <= series[p[j]]
      <3> SUFFICES ASSUME NEW i \in 1..n, NEW j \in 1..n, i <= j
                   PROVE  series[p[i]] <= series[p[j]]
        OBVIOUS
      <3>1. CASE i = j
        BY <1>1, <2>1, <3>1
      <3>2. CASE i # j
        BY <1>1, <1>3, <3>2 DEF SortedBy, InOrder
      <3> QED
        BY <3>1, <3>2
    <2> QED
      BY <1>3, <2>1, <2>2 DEF SortedBy
  <1> DEFINE x == series[p[d + 1]]
  <1>5. var = -x /\ x \in Int
    <2>1. (IF d + 1 < n THEN d + 1 ELSE n) = d + 1
      BY <1>1, <1>2
    <2>2. var = -(Ascending(series)[d + 1])
      BY <2>1 DEF PercentileLoss
    <2>3. Ascending(series)[d + 1] = x
      BY <1>2, <1>3 DEF SortedBy
    <2> QED
      BY <1>1, <1>2, <1>4, <2>2, <2>3
  <1> HIDE DEF d, var
  <1>6. Worse(series, var) \subseteq {p[i] : i \in 1..d}
    <2> SUFFICES ASSUME NEW k \in 1..n, -series[k] > var PROVE \E i \in 1..d : p[i] = k
      BY <1>1 DEF Worse
    <2>1. PICK i \in 1..n : p[i] = k
      BY <1>4
    <2>2. series[k] < x
      BY <1>1, <1>5
    <2>3. ~(d + 1 <= i)
      <3>1. d + 1 <= i => x <= series[k]
        BY <1>2, <1>4, <2>1
      <3>2. series[k] \in Int
        BY <1>1
      <3> QED
        BY <1>5, <2>2, <3>1, <3>2
    <2> QED
      BY <1>2, <2>1, <2>3
  <1>7. {p[i] : i \in 1..(d + 1)} \subseteq NoBetter(series, var)
    <2> SUFFICES ASSUME NEW i \in 1..(d + 1) PROVE p[i] \in 1..n /\ -series[p[i]] >= var
      BY <1>1 DEF NoBetter
    <2>1. i \in 1..n /\ i <= d + 1
      BY <1>2
    <2>2. series[p[i]] <= x
      BY <1>2, <1>4, <2>1
    <2>3. series[p[i]] \in Int /\ p[i] \in 1..n
      BY <1>1, <1>4, <2>1
    <2> QED
      BY <1>5, <2>2, <2>3
  <1> DEFINE low == Lowest(p, d)
             upTo == Lowest(p, d + 1)
             worse == Worse(series, var)
             noBetter == NoBetter(series, var)
  <1>8. IsFiniteSet(low) /\ Cardinality(low) = d
    <2>1. d \in 0..n
      BY <1>2
    <2> QED
      BY <1>3, <2>1, FirstOfOrder
  <1>9. Cardinality(upTo) = d + 1
    <2>1. d + 1 \in 0..n
      BY <1>2
    <2> QED
      BY <1>3, <2>1, FirstOfOrder
  <1>10. IsFiniteSet(noBetter)
    <2> DEFINE D == 1..n
    <2>1. IsFiniteSet(D) /\ noBetter \in SUBSET D
      BY <1>1, IntervalsFinite DEF NoBetter
    <2> HIDE DEF D, noBetter
    <2> QED
      BY <2>1, FS_Subset
  <1>11. worse \in SUBSET low /\ upTo \in SUBSET noBetter
    BY <1>6, <1>7 DEF Lowest
  <1> HIDE DEF low, upTo, worse, noBetter
  <1>12. Cardinality(worse) \in Nat /\ Cardinality(worse) <= d
    BY <1>8, <1>11, FS_Subset, FS_CardinalityType
  <1>13. Cardinality(noBetter) \in Nat /\ d + 1 <= Cardinality(noBetter)
    BY <1>9, <1>10, <1>11, FS_Subset, FS_CardinalityType
  <1>14. tail * Cardinality(worse) <= tail * d
    <2>1. Cardinality(worse) \in Int /\ d \in Int /\ tail \in Int /\ tail >= 0
      BY <1>2, <1>12
    <2> QED
      BY <1>12, <2>1, ProductGrows
  <1>15. tail * (d + 1) <= tail * Cardinality(noBetter)
    <2>1. Cardinality(noBetter) \in Int /\ d + 1 \in Int /\ tail \in Int /\ tail >= 0
      BY <1>2, <1>13
    <2> QED
      BY <1>13, <2>1, ProductGrows
  <1> DEFINE w == Cardinality(worse)
             b == Cardinality(noBetter)
  <1>16. tail * w = w * tail /\ tail * d = d * tail /\ tail * (d + 1) = (d + 1) * tail
         /\ tail * b = b * tail /\ {w * tail, d * tail, (d + 1) * tail, b * tail} \subseteq Int
    BY <1>2, <1>12, <1>13
  <1>17. w * tail <= n /\ b * tail > n
    <2> HIDE DEF w, b
    <2>1. tail * w <= tail * d /\ tail * (d + 1) <= tail * b
      BY <1>14, <1>15 DEF w, b
    <2> QED
      BY <1>1, <1>2, <1>16, <2>1
  <1> QED
    BY <1>5, <1>12, <1>17 DEF var, worse, noBetter

\* One in fewer is a smaller loss.
LEMMA QuantilesGrow ==
  ASSUME NEW series \in Seq(Int), series # <<>>,
         NEW s \in Nat \ {0, 1}, NEW t \in Nat \ {0, 1}, s <= t
  PROVE  PercentileLoss(series, s) <= PercentileLoss(series, t)
  <1> DEFINE n == Len(series)
             d == n \div s
             e == n \div t
  <1>1. n \in Nat \ {0} /\ \A i \in 1..n : series[i] \in Int
    OBVIOUS
  <1>2. /\ d \in Nat /\ d + 1 \in 1..n /\ d * s <= n /\ n < (d + 1) * s
        /\ e \in Nat /\ e + 1 \in 1..n /\ e * t <= n
    BY <1>1, PlaceIs
  <1>3. PICK p : SortedBy(series, p)
    BY AscendingSorts
  <1>4. PercentileLoss(series, s) = -series[p[d + 1]] /\ PercentileLoss(series, t) = -series[p[e + 1]]
    <2>1. \A k \in 1..n : (IF k < n THEN k ELSE n) = k
      BY <1>1
    <2>2. (IF d + 1 < n THEN d + 1 ELSE n) = d + 1 /\ (IF e + 1 < n THEN e + 1 ELSE n) = e + 1
      BY <1>2, <2>1
    <2> QED
      BY <1>2, <1>3, <2>2 DEF SortedBy, PercentileLoss
  <1> HIDE DEF d, e
  <1>5. e <= d
    <2> SUFFICES ASSUME d + 1 <= e PROVE FALSE
      BY <1>2
    <2>1. s * (d + 1) <= s * e /\ e * s <= e * t
      <3>1. {s, d + 1, e, t} \subseteq Int /\ s >= 0 /\ e >= 0
        BY <1>2
      <3> QED
        BY <3>1, ProductGrows
    <2>2. s * (d + 1) = (d + 1) * s /\ s * e = e * s /\ {(d + 1) * s, e * s, e * t} \subseteq Int
      BY <1>2
    <2>3. n < (d + 1) * s /\ e * t <= n /\ n \in Int
      BY <1>1, <1>2
    <2>4. (d + 1) * s <= e * s
      BY <2>1, <2>2
    <2> QED
      BY <2>1, <2>2, <2>3, <2>4
  <1>6. series[p[e + 1]] <= series[p[d + 1]]
    <2>1. CASE d = e
      <3>1. p[d + 1] \in 1..n
        BY <1>2, <1>3 DEF SortedBy, InOrder
      <3> QED
        BY <1>1, <2>1, <3>1
    <2>2. CASE e < d
      BY <1>2, <1>3, <2>2 DEF SortedBy, InOrder
    <2> QED
      BY <1>2, <1>5, <2>1, <2>2
  <1>7. p[d + 1] \in 1..n /\ p[e + 1] \in 1..n
    BY <1>2, <1>3 DEF SortedBy, InOrder
  <1> QED
    BY <1>1, <1>4, <1>6, <1>7

LEMMA SameSize == \A S : Cardinality(S) = Sums!Cardinality(S)
  BY DEF Cardinality, Sums!Cardinality, IsFiniteSet, Sums!IsFiniteSet

\* The shortfall over a tail is no less than the value at risk for each of it.
LEMMA TailCovers ==
  ASSUME NEW series \in Seq(Int), NEW var \in Int,
         NEW tail, tail = TailLosses(series, var)
  PROVE  /\ SumFunction([i \in tail |-> series[i]]) \in Int
         /\ Cardinality(tail) \in Nat
         /\ var * Cardinality(tail) <= -SumFunction([i \in tail |-> series[i]])
  <1> DEFINE f == [i \in tail |-> series[i]]
             ones == [i \in tail |-> 1]
  <1>1. \A i \in tail : series[i] \in Int /\ series[i] <= -var
    BY DEF TailLosses
  <1>2. IsFiniteSet(tail)
    <2> DEFINE D == 1..Len(series)
    <2>1. IsFiniteSet(D) /\ tail \in SUBSET D
      BY IntervalsFinite DEF TailLosses
    <2> HIDE DEF D
    <2> QED
      BY <2>1, FS_Subset
  <1>3. Ints(f, tail) /\ Ints(ones, tail) /\ \A i \in tail : ones[i] = 1 /\ f[i] <= (-var) * ones[i]
    BY <1>1 DEF Ints
  <1>4. SumFunction(f) = Sums!Total(f, tail)
    BY SumIsTotal
  <1> HIDE DEF f, ones
  <1>5. Sums!AddsUp(f, tail, f) /\ Sums!AddsUp(ones, tail, ones)
    BY <1>2, <1>3, ValuesAddUp
  <1>6. Sums!Total(ones, tail) = Cardinality(tail)
    <2>1. \A i \in tail : ones[i] = 1
      BY <1>3
    <2>2. Sums!Total(ones, tail) = Sums!Cardinality(tail)
      BY <1>5, <2>1, AnyOfIn, Sums!TotalOfOnes
    <2> QED
      BY <2>2, SameSize
  <1> DEFINE c == -var
  <1>7. c \in Int /\ \A i \in tail : f[i] <= c * ones[i]
    BY <1>3
  <1> HIDE DEF c
  <1>8. Sums!Total(f, tail) <= c * Sums!Total(ones, tail)
    BY <1>5, <1>7, AnyOfIn, Sums!TotalWithin
  <1>9. Sums!Total(f, tail) \in Int /\ Cardinality(tail) \in Nat
    BY <1>2, <1>5, AnyOfIn, Sums!TotalType, FS_CardinalityType
  <1> DEFINE m == Cardinality(tail)
             t == Sums!Total(f, tail)
  <1>10. t \in Int /\ m \in Nat /\ t <= c * m
    BY <1>6, <1>8, <1>9
  <1> HIDE DEF m, t
  <1>11. c * m = -(var * m) /\ var * m \in Int
    BY <1>10 DEF c
  <1>12. var * m <= -t
    BY <1>10, <1>11
  <1> QED
    BY <1>4, <1>10, <1>12 DEF m, t, f

\* What VarCoversTail says of an estimate of a series.
WorseShare(series, var, share) == Cardinality(Worse(series, var)) * share <= Len(series)

Covers(e, series) ==
    /\ e.var99 >= e.var95
    /\ e.cvarSum >= e.var95 * e.cvarCount
    /\ e.how \in {"historical", "samples"} =>
          WorseShare(series, e.var95, Tail95) /\ WorseShare(series, e.var99, Tail99)
    /\ e.how = "historical" =>
          /\ Cardinality(NoBetter(series, e.var95)) * Tail95 > Len(series)
          /\ Cardinality(NoBetter(series, e.var99)) * Tail99 > Len(series)

Tails == Tail95 \in Nat \ {0, 1} /\ Tail99 \in Nat \ {0, 1} /\ Tail95 <= Tail99

LEMMA TailsType == Tails
  BY StudiesAssumption DEF Tails

LEMMA HistoricalCovers ==
  ASSUME NEW series \in Seq(Int), series # <<>>
  PROVE  Covers(HistoricalVar(series), series)
  <1> DEFINE v == PercentileLoss(series, Tail95)
             w == PercentileLoss(series, Tail99)
             tail == TailLosses(series, v)
             e == HistoricalVar(series)
  <1>1. /\ v \in Int /\ WorseShare(series, v, Tail95)
        /\ Cardinality(NoBetter(series, v)) * Tail95 > Len(series)
    BY TailsType, QuantileIs DEF WorseShare, Tails
  <1>2. /\ w \in Int /\ WorseShare(series, w, Tail99)
        /\ Cardinality(NoBetter(series, w)) * Tail99 > Len(series)
    BY TailsType, QuantileIs DEF WorseShare, Tails
  <1>3. v <= w
    BY TailsType, QuantilesGrow DEF Tails
  <1>4. e = [how |-> "historical", var95 |-> v, var99 |-> w,
             cvarSum |-> -SumFunction([i \in tail |-> series[i]]), cvarCount |-> Cardinality(tail)]
    BY DEF HistoricalVar
  <1> HIDE DEF v, w
  <1>5. /\ SumFunction([i \in tail |-> series[i]]) \in Int
        /\ Cardinality(tail) \in Nat
        /\ v * Cardinality(tail) <= -SumFunction([i \in tail |-> series[i]])
    BY <1>1, TailCovers
  <1> DEFINE m == Cardinality(tail)
             sum == -SumFunction([i \in tail |-> series[i]])
  <1>6. m \in Nat /\ sum \in Int /\ v * m <= sum
    BY <1>5
  <1>7. e.var95 = v /\ e.var99 = w /\ e.cvarSum = sum /\ e.cvarCount = m
    BY <1>4
  <1> HIDE DEF m, sum, e, tail
  <1>8. e.var99 >= e.var95 /\ e.cvarSum >= e.var95 * e.cvarCount
    <2>1. v * m \in Int
      BY <1>1, <1>6
    <2> QED
      BY <1>1, <1>2, <1>3, <1>6, <1>7, <2>1
  <1> QED
    BY <1>1, <1>2, <1>7, <1>8 DEF Covers, e

\* A higher value leaves fewer worse.
LEMMA FewerAbove ==
  ASSUME NEW series \in Seq(Int), NEW v \in Int, NEW share \in Nat, WorseShare(series, v, share)
  PROVE  WorseShare(series, AtLeastZero(v), share)
  <1> DEFINE z == AtLeastZero(v)
             D == 1..Len(series)
  <1>1. z \in Int /\ z >= v
    BY DEF AtLeastZero
  <1>2. \A i \in D : series[i] \in Int
    OBVIOUS
  <1>3. Worse(series, z) \in SUBSET Worse(series, v) /\ Worse(series, v) \in SUBSET D
    <2> HIDE DEF z
    <2> QED
      BY <1>1, <1>2 DEF Worse
  <1>4. IsFiniteSet(D)
    BY IntervalsFinite
  <1> HIDE DEF D
  <1>5. IsFiniteSet(Worse(series, v)) /\ IsFiniteSet(Worse(series, z))
    BY <1>3, <1>4, FS_Subset
  <1> DEFINE a == Cardinality(Worse(series, z))
             b == Cardinality(Worse(series, v))
  <1>6. a \in Nat /\ b \in Nat /\ a <= b
    BY <1>3, <1>5, FS_Subset, FS_CardinalityType
  <1>7. b * share <= Len(series) /\ Len(series) \in Nat
    BY DEF WorseShare
  <1> HIDE DEF a, b
  <1>8. share * a <= share * b
    <2>1. share \in Int /\ a \in Int /\ b \in Int /\ share >= 0
      BY <1>6
    <2> QED
      BY <1>6, <2>1, ProductGrows
  <1>9. a * share = share * a /\ b * share = share * b /\ a * share \in Int /\ b * share \in Int
    BY <1>6
  <1>10. a * share <= Len(series)
    BY <1>7, <1>8, <1>9
  <1> QED
    BY <1>10 DEF WorseShare, a

LEMMA SamplesCover ==
  ASSUME NEW series \in Seq(Int), series # <<>>
  PROVE  Covers(MonteCarloVar(series), series)
  <1> DEFINE v0 == PercentileLoss(series, Tail95)
             w0 == PercentileLoss(series, Tail99)
             v == AtLeastZero(v0)
             w == AtLeastZero(w0)
             tail == TailLosses(series, v)
             e == MonteCarloVar(series)
  <1>1. v0 \in Int /\ WorseShare(series, v0, Tail95)
    BY TailsType, QuantileIs DEF WorseShare, Tails
  <1>2. w0 \in Int /\ WorseShare(series, w0, Tail99)
    BY TailsType, QuantileIs DEF WorseShare, Tails
  <1>3. v0 <= w0
    BY TailsType, QuantilesGrow DEF Tails
  <1>4. e = [how |-> "samples", var95 |-> v, var99 |-> w,
             cvarSum |-> IF tail = {} THEN v
                         ELSE AtLeastZero(-SumFunction([i \in tail |-> series[i]])),
             cvarCount |-> IF tail = {} THEN 1 ELSE Cardinality(tail)]
    BY DEF MonteCarloVar
  <1> HIDE DEF v0, w0
  <1>5. v \in Int /\ w \in Int /\ v <= w
    BY <1>1, <1>2, <1>3 DEF AtLeastZero
  <1>6. WorseShare(series, v, Tail95) /\ WorseShare(series, w, Tail99)
    BY <1>1, <1>2, TailsType, FewerAbove DEF Tails
  <1> HIDE DEF v, w
  <1>7. /\ SumFunction([i \in tail |-> series[i]]) \in Int
        /\ Cardinality(tail) \in Nat
        /\ v * Cardinality(tail) <= -SumFunction([i \in tail |-> series[i]])
    BY <1>5, TailCovers
  <1> DEFINE m == Cardinality(tail)
             sum == -SumFunction([i \in tail |-> series[i]])
  <1>8. m \in Nat /\ sum \in Int /\ v * m <= sum
    BY <1>7
  <1>9. /\ e.how = "samples" /\ e.var95 = v /\ e.var99 = w
        /\ e.cvarSum = IF tail = {} THEN v ELSE AtLeastZero(sum)
        /\ e.cvarCount = IF tail = {} THEN 1 ELSE m
    BY <1>4
  <1> HIDE DEF m, sum, e, tail
  <1>10. e.cvarSum >= v * e.cvarCount
    <2>1. v * m \in Int /\ v * 1 = v
      BY <1>5, <1>8
    <2>2. AtLeastZero(sum) \in Int /\ AtLeastZero(sum) >= sum
      BY <1>8 DEF AtLeastZero
    <2> QED
      BY <1>5, <1>8, <1>9, <2>1, <2>2
  <1> QED
    BY <1>5, <1>6, <1>9, <1>10 DEF Covers, e

LEMMA ParametricCovers ==
  ASSUME NEW series, NEW spread \in Spreads
  PROVE  Covers(ParametricVar(spread[1], spread[2]), series)
  <1>1. spread[1] \in Int /\ spread[2] \in Nat
    BY StudiesAssumption
  <1> DEFINE a == 16449 * spread[2] - 10000 * spread[1]
             b == 23263 * spread[2] - 10000 * spread[1]
             c == 20628 * spread[2] - 10000 * spread[1]
             e == ParametricVar(spread[1], spread[2])
  <1>2. {a, b, c} \subseteq Int /\ a <= b /\ a <= c
    BY <1>1
  <1>3. /\ e.how = "parametric" /\ e.var95 = AtLeastZero(a) /\ e.var99 = AtLeastZero(b)
        /\ e.cvarSum = AtLeastZero(c) /\ e.cvarCount = 1
    BY DEF ParametricVar
  <1> HIDE DEF a, b, c, e
  <1>4. AtLeastZero(a) <= AtLeastZero(b) /\ AtLeastZero(a) <= AtLeastZero(c) /\ AtLeastZero(a) \in Int
        /\ AtLeastZero(b) \in Int /\ AtLeastZero(c) \in Int
    BY <1>2 DEF AtLeastZero
  <1> QED
    BY <1>3, <1>4 DEF Covers, e

Worth(i) == Notionals[i]

LEMMA ExposureIs ==
  ASSUME holdings \in Portfolios
  PROVE  /\ Exposure \in Nat
         /\ Largest \in Nat /\ Largest <= Exposure
         /\ LET squares == SumFunction([i \in AtRisk |-> Notionals[i] * Notionals[i]])
            IN  squares \in Nat /\ squares <= Exposure * Exposure
  <1> DEFINE f == [i \in AtRisk |-> Notionals[i]]
             squared == [i \in AtRisk |-> Notionals[i] * Notionals[i]]
             naught == [i \in AtRisk |-> 0]
  <1>1. IsFiniteSet(AtRisk) /\ \A i \in AtRisk : Notionals[i] \in Nat
    <2>1. holdings \in Seq([size : Int, price : Nat, losing : BOOLEAN])
      BY StudiesAssumption
    <2> DEFINE D == 1..Len(holdings)
    <2>2. IsFiniteSet(D) /\ AtRisk \in SUBSET D
      BY <2>1, IntervalsFinite DEF AtRisk
    <2>3. \A i \in AtRisk : Notionals[i] \in Nat
      <3> SUFFICES ASSUME NEW i \in AtRisk PROVE Notionals[i] \in Nat
        OBVIOUS
      <3> DEFINE Held == [size : Int, price : Nat, losing : BOOLEAN]
      <3>0. i \in DOMAIN holdings /\ holdings[i].size > 0
        BY DEF AtRisk
      <3>1. i \in DOMAIN holdings /\ holdings[i].size > 0 /\ holdings[i] \in Held
        <4> HIDE DEF Held
        <4>1. holdings \in Seq(Held)
          BY <2>1 DEF Held
        <4> QED
          BY <3>0, <4>1
      <3> DEFINE a == holdings[i].size
                 b == holdings[i].price
      <3>2. a \in Nat /\ b \in Nat /\ Notionals[i] = a * b
        BY <3>1 DEF Notionals
      <3> HIDE DEF a, b
      <3> QED
        BY <3>2
    <2> HIDE DEF D
    <2> QED
      BY <2>2, <2>3, FS_Subset
  <1>2. /\ \A i \in AtRisk : f[i] = Notionals[i] /\ squared[i] = Notionals[i] * Notionals[i]
        /\ \A i \in AtRisk : naught[i] = 0
        /\ DOMAIN f = AtRisk /\ DOMAIN squared = AtRisk
    OBVIOUS
  <1>3. Exposure = SumFunction(f)
    BY DEF Exposure
  <1> HIDE DEF f, squared, naught
  <1>4. \A i \in AtRisk : f[i] \in Nat /\ squared[i] \in Nat
    <2>1. \A n \in Nat : n * n \in Nat
      OBVIOUS
    <2> QED
      BY <1>1, <1>2, <2>1
  <1>5. Ints(f, AtRisk) /\ Ints(squared, AtRisk) /\ Ints(naught, AtRisk)
    BY <1>2, <1>4 DEF Ints
  <1>6. /\ Sums!AddsUp(f, AtRisk, f) /\ Sums!AddsUp(squared, AtRisk, squared)
        /\ Sums!AddsUp(naught, AtRisk, naught)
    BY <1>1, <1>5, ValuesAddUp
  <1> DEFINE total == Sums!Total(f, AtRisk)
             squares == Sums!Total(squared, AtRisk)
  <1>7. total \in Int /\ squares \in Int /\ Sums!Total(naught, AtRisk) = 0
    BY <1>2, <1>6, AnyOfIn, Sums!TotalType, Sums!TotalOfNaughts
  <1>8. Exposure = total /\ SumFunction(squared) = squares
    BY <1>2, <1>3, SumIsTotal
  <1>9. total >= 0
    <2>1. \A i \in AtRisk : naught[i] <= 1 * f[i]
      BY <1>2, <1>4
    <2>2. 1 \in Int
      OBVIOUS
    <2>3. Sums!Total(naught, AtRisk) <= 1 * total
      BY <1>6, <2>1, <2>2, AnyOfIn, Sums!TotalWithin
    <2> QED
      BY <1>7, <2>3
  <1>10. squares >= 0
    <2>1. \A i \in AtRisk : naught[i] <= 1 * squared[i]
      BY <1>2, <1>4
    <2>2. 1 \in Int
      OBVIOUS
    <2>3. Sums!Total(naught, AtRisk) <= 1 * squares
      BY <1>6, <2>1, <2>2, AnyOfIn, Sums!TotalWithin
    <2> QED
      BY <1>7, <2>3
  <1>11. \A i \in AtRisk : f[i] <= total
    <2> SUFFICES ASSUME NEW i \in AtRisk PROVE f[i] <= total
      OBVIOUS
    <2> DEFINE rest == AtRisk \ {i}
    <2>1. i \notin rest /\ AtRisk = rest \cup {i} /\ rest \in SUBSET AtRisk
      OBVIOUS
    <2> HIDE DEF rest
    <2>2. total = f[i] + Sums!Total(f, rest)
      BY <1>6, <2>1, AnyOfIn, Sums!TotalAdds
    <2>3. IsFiniteSet(rest) /\ Ints(f, rest) /\ Ints(naught, rest)
      BY <1>1, <1>5, <2>1, FS_Subset DEF Ints
    <2>4. Sums!AddsUp(f, rest, f) /\ Sums!AddsUp(naught, rest, naught)
      BY <2>3, ValuesAddUp
    <2>5. \A x \in rest : naught[x] = 0 /\ naught[x] <= 1 * f[x]
      BY <1>2, <1>4, <2>1
    <2>6. 1 \in Int
      OBVIOUS
    <2>7. Sums!Total(naught, rest) <= 1 * Sums!Total(f, rest)
      BY <2>4, <2>5, <2>6, AnyOfIn, Sums!TotalWithin
    <2>8. Sums!Total(naught, rest) = 0 /\ Sums!Total(f, rest) \in Int
      BY <2>4, <2>5, AnyOfIn, Sums!TotalOfNaughts, Sums!TotalType
    <2> QED
      BY <1>4, <2>2, <2>7, <2>8
  <1>12. squares <= total * total
    <2>1. \A i \in AtRisk : squared[i] <= total * f[i]
      <3> SUFFICES ASSUME NEW i \in AtRisk PROVE squared[i] <= total * f[i]
        OBVIOUS
      <3> DEFINE a == f[i]
                 t == total
      <3>1. a \in Int /\ t \in Int /\ a >= 0 /\ a <= t /\ squared[i] = a * a
        BY <1>2, <1>4, <1>7, <1>11
      <3> HIDE DEF a, t
      <3>2. a * a <= a * t
        BY <3>1, ProductGrows
      <3>3. a * t = t * a
        BY <3>1
      <3>4. squared[i] <= t * a
        BY <3>1, <3>2, <3>3
      <3> QED
        BY <3>4 DEF a, t
    <2> QED
      BY <1>6, <1>7, <2>1, AnyOfIn, Sums!TotalWithin
  <1>13. Largest \in Nat /\ Largest <= total
    <2>1. CASE AtRisk = {}
      BY <1>7, <1>9, <2>1 DEF Largest
    <2>2. CASE AtRisk # {}
      <3>1. PICK x \in AtRisk : \A y \in AtRisk : f[y] <= f[x]
        BY <1>1, <1>5, <2>2, HasGreatest
      <3> DEFINE N == {Notionals[i] : i \in AtRisk}
      <3>2. f[x] \in N /\ \A z \in N : z \in Nat /\ f[x] >= z
        BY <1>2, <1>4, <3>1
      <3>3. Max(N) = CHOOSE m \in N : \A z \in N : m >= z
        BY DEF Max
      <3> HIDE DEF N
      <3>4. Max(N) \in N /\ \A z \in N : Max(N) >= z
        BY <3>2, <3>3
      <3>5. Max(N) = f[x]
        BY <3>2, <3>4
      <3>6. Largest = f[x]
        BY <2>2, <3>5 DEF Largest, N
      <3> QED
        BY <1>4, <1>11, <3>6
    <2> QED
      BY <2>1, <2>2
  <1> QED
    <2>1. squares <= Exposure * Exposure
      BY <1>8, <1>12
    <2>2. SumFunction([i \in AtRisk |-> Notionals[i] * Notionals[i]]) = squares
      BY <1>8 DEF squared
    <2> HIDE DEF total, squares
    <2> QED
      BY <1>7, <1>8, <1>9, <1>10, <1>13, <2>1, <2>2

\* StressWithinExposure, of a result.
WithinWorth(e) ==
    /\ e.scenario \in {"liquidity", "crash", "delay"} =>
          0 <= e.worst /\ e.worst <= e.loss /\ e.loss <= Exposure * e.den
    /\ e.scenario = "correlation" =>
          e.before <= e.after /\ e.after <= 100 * Exposure * Exposure

Rates == {"liquidity", "crash", "delay"}

LEMMA LosingWithin ==
  ASSUME holdings \in Portfolios, NEW scenario \in Rates, NEW num \in Nat, NEW den \in Nat,
         num <= den
  PROVE  WithinWorth(Losing(scenario, num, den))
  <1> DEFINE e == Losing(scenario, num, den)
             x == Exposure
             y == Largest
  <1>1. x \in Nat /\ y \in Nat /\ y <= x
    BY ExposureIs
  <1>2. /\ e.scenario = scenario /\ e.loss = num * x /\ e.worst = num * y /\ e.den = den
    BY DEF Losing
  <1> HIDE DEF e, x, y
  <1>3. num * y <= num * x /\ x * num <= x * den
    <2>1. {num, den, x, y} \subseteq Int /\ num >= 0 /\ x >= 0
      BY <1>1
    <2> QED
      BY <1>1, <2>1, ProductGrows
  <1>4. num * y \in Nat /\ x * num = num * x
    BY <1>1
  <1>5. 0 <= e.worst /\ e.worst <= e.loss /\ e.loss <= x * e.den
    BY <1>2, <1>3, <1>4
  <1>6. e.scenario # "correlation"
    BY <1>2 DEF Rates
  <1> QED
    BY <1>5, <1>6 DEF WithinWorth, e, x

LEMMA SpikeWithin ==
  ASSUME holdings \in Portfolios, NEW percent \in Int
  PROVE  WithinWorth(CorrelationSpike(percent))
  <1> DEFINE e == CorrelationSpike(percent)
             x == Exposure
             q == SumFunction([i \in AtRisk |-> Notionals[i] * Notionals[i]])
             c == Clamped(percent, 0, 100)
  <1>1. x \in Nat /\ q \in Nat /\ q <= x * x
    BY ExposureIs
  <1>2. c \in Nat /\ c <= 100
    BY DEF Clamped
  <1>3. e.scenario = "correlation" /\ e.before = 100 * q /\ e.after = 100 * q + (x * x - q) * c
    BY DEF CorrelationSpike
  <1> HIDE DEF e, x, q, c
  <1> DEFINE s == x * x
             gap == s - q
  <1>4. s \in Nat /\ gap \in Nat /\ s = q + gap
    BY <1>1
  <1>5. 100 * x * x = 100 * s
    BY <1>1
  <1> HIDE DEF s
  <1>6. e.after = 100 * q + gap * c
    BY <1>3 DEF s
  <1> HIDE DEF gap
  <1>7. gap * 0 <= gap * c /\ gap * c <= gap * 100
    <2>1. {gap, 0, c, 100} \subseteq Int /\ gap >= 0 /\ 0 <= c
      BY <1>2, <1>4
    <2> QED
      BY <1>2, <2>1, ProductGrows
  <1>8. gap * c \in Int
    BY <1>2, <1>4
  <1>9. e.before <= e.after /\ e.after <= 100 * s
    BY <1>1, <1>3, <1>4, <1>6, <1>7, <1>8
  <1>10. e.scenario \notin Rates
    BY <1>3 DEF Rates
  <1> QED
    BY <1>5, <1>9, <1>10 DEF WithinWorth, Rates, e, x

StressedBy(x) ==
    {LiquidityShock(x), FlashCrash(x), KillSwitchDelay(AtLeastZero(x)), CorrelationSpike(x)}
        \cup {RouteStress(s, x) : s \in {"liquidity", "correlation", "crash", "delay"}}

LEMMA StressWithin ==
  ASSUME holdings \in Portfolios, NEW x \in Int, NEW e \in StressedBy(x)
  PROVE  WithinWorth(e)
  <1>1. CASE e = LiquidityShock(x)
    <2> DEFINE r == Clamped(x, 0, 99)
    <2>1. r \in Nat /\ r <= 99
      BY DEF Clamped
    <2>2. e = Losing("liquidity", r, 100 * (100 - r))
      BY <1>1 DEF LiquidityShock
    <2> HIDE DEF r
    <2>3. 100 * (100 - r) \in Nat /\ r <= 100 * (100 - r)
      BY <2>1
    <2> QED
      BY <2>1, <2>2, <2>3, LosingWithin DEF Rates
  <1>2. CASE e = FlashCrash(x)
    <2> DEFINE r == Clamped(x, 0, 100)
    <2>1. r \in Nat /\ r <= 100 /\ 100 \in Nat
      BY DEF Clamped
    <2>2. e = Losing("crash", r, 100)
      BY <1>2 DEF FlashCrash
    <2> HIDE DEF r
    <2> QED
      BY <2>1, <2>2, LosingWithin DEF Rates
  <1>3. CASE e = KillSwitchDelay(AtLeastZero(x))
    <2> DEFINE s == AtLeastZero(x)
               r == IF s < BleedSeconds THEN s ELSE BleedSeconds
    <2>1. BleedSeconds \in Nat
      BY StudiesAssumption
    <2>2. r \in Nat /\ r <= BleedSeconds
      BY <2>1 DEF AtLeastZero
    <2>3. e = Losing("delay", r, BleedSeconds)
      BY <1>3 DEF KillSwitchDelay
    <2> HIDE DEF r
    <2> QED
      BY <2>1, <2>2, <2>3, LosingWithin DEF Rates
  <1>4. CASE e = CorrelationSpike(x)
    BY <1>4, SpikeWithin
  <1>5. CASE \E s \in {"liquidity", "correlation", "crash", "delay"} : e = RouteStress(s, x)
    <2>1. e.scenario = "route"
      BY <1>5 DEF RouteStress
    <2> QED
      BY <2>1 DEF WithinWorth
  <1> QED
    BY <1>1, <1>2, <1>3, <1>4, <1>5 DEF StressedBy

LEMMA LargerSeq == \A S, T : S \subseteq T => Seq(S) \subseteq Seq(T)
  <1> SUFFICES ASSUME NEW S, NEW T, S \subseteq T, NEW s \in Seq(S) PROVE s \in Seq(T)
    OBVIOUS
  <1>1. Len(s) \in Nat /\ s \in [1..Len(s) -> T]
    OBVIOUS
  <1> QED
    BY <1>1

StudiesInv == pnls \in Seq(Pnls) /\ holdings \in Portfolios /\ StudiesHold

\* Whatever the series, the holdings and what a caller asks for: the value at risk
\* is what one period in twenty (or a hundred) is worse than, the shortfall is no
\* better, and no scenario of the crate makes the positions lose more than their
\* worth.
THEOREM StudiesAlwaysHold == Spec => []StudiesHold
  <1>1. Init => StudiesInv
    <2> SUFFICES ASSUME Init PROVE StudiesInv
      OBVIOUS
    <2>1. StudyInit
      BY DEF Init
    <2>2. <<>> \in Seq(Pnls)
      OBVIOUS
    <2> QED
      BY <2>1, <2>2 DEF StudyInit, StudiesInv, StudiesHold, VarCoversTail, StressWithinExposure
  <1>2. ASSUME NEW series \in Seq(Pnls) PROVE series \in Seq(Int)
    BY StudiesAssumption, LargerSeq
  <1>3. StudiesInv /\ [Next]_vars => StudiesInv'
    <2> SUFFICES ASSUME StudiesInv, [Next]_vars PROVE StudiesInv'
      OBVIOUS
    <2>1. /\ pnls \in Seq(Pnls) /\ holdings \in Portfolios
          /\ VarCoversTail /\ StressWithinExposure
      BY DEF StudiesInv, StudiesHold
    <2>2. ASSUME UNCHANGED holdings
          PROVE  Exposure' = Exposure
      <3>1. UNCHANGED <<Notionals, AtRisk>>
        BY <2>2 DEF Notionals, AtRisk
      <3> QED
        BY <3>1 DEF Exposure
    <2>3. ASSUME UNCHANGED <<holdings, stressed>>
          PROVE  StressWithinExposure'
      BY <2>1, <2>2, <2>3 DEF StressWithinExposure
    <2>4. ASSUME estimate'.how # "none" => Covers(estimate', pnls')
          PROVE  VarCoversTail'
      BY <2>4 DEF VarCoversTail, Covers, WorseShare, Worse, NoBetter
    <2>5. CASE UNCHANGED studyVars
      <3>1. UNCHANGED <<pnls, estimate, holdings, stressed>>
        BY <2>5 DEF studyVars
      <3>2. VarCoversTail'
        BY <2>1, <3>1 DEF VarCoversTail
      <3> QED
        BY <2>1, <2>3, <3>1, <3>2 DEF StudiesInv, StudiesHold
    <2>6. ASSUME NEW x \in Pnls, Period(x) PROVE StudiesInv'
      <3>1. /\ pnls' = Append(pnls, x) /\ estimate' = HistoricalVar(pnls')
            /\ UNCHANGED <<holdings, stressed>>
        BY <2>6 DEF Period
      <3>2. pnls' \in Seq(Pnls) /\ pnls' # <<>>
        BY <2>1, <3>1
      <3>3. Covers(estimate', pnls')
        BY <1>2, <3>1, <3>2, HistoricalCovers
      <3> QED
        BY <2>1, <2>3, <2>4, <3>1, <3>2, <3>3 DEF StudiesInv, StudiesHold
    <2>7. ASSUME DrawPaths PROVE StudiesInv'
      <3>1. pnls # <<>> /\ estimate' = MonteCarloVar(pnls) /\ UNCHANGED <<pnls, holdings, stressed>>
        BY <2>7 DEF DrawPaths
      <3>2. Covers(estimate', pnls')
        BY <1>2, <2>1, <3>1, SamplesCover
      <3> QED
        BY <2>1, <2>3, <2>4, <3>1, <3>2 DEF StudiesInv, StudiesHold
    <2>8. ASSUME NEW spread \in Spreads, Assume(spread) PROVE StudiesInv'
      <3>1. /\ estimate' = ParametricVar(spread[1], spread[2])
            /\ UNCHANGED <<pnls, holdings, stressed>>
        BY <2>8 DEF Assume
      <3>2. Covers(estimate', pnls')
        BY <3>1, ParametricCovers
      <3> QED
        BY <2>1, <2>3, <2>4, <3>1, <3>2 DEF StudiesInv, StudiesHold
    <2>9. ASSUME NEW x \in Percents, Stress(x) PROVE StudiesInv'
      <3>1. stressed' \in StressedBy(x) /\ UNCHANGED <<pnls, estimate, holdings>>
        BY <2>9 DEF Stress, StressedBy
      <3>2. WithinWorth(stressed')
        <4>1. x \in Int
          BY StudiesAssumption
        <4> QED
          BY <2>1, <3>1, <4>1, StressWithin
      <3>3. StressWithinExposure'
        BY <2>2, <3>1, <3>2 DEF StressWithinExposure, WithinWorth
      <3>4. VarCoversTail'
        BY <2>1, <3>1 DEF VarCoversTail
      <3> QED
        BY <2>1, <3>1, <3>3, <3>4 DEF StudiesInv, StudiesHold
    <2>10. CASE Studying
      BY <2>6, <2>7, <2>8, <2>9, <2>10 DEF Studying, VarNext, StressNext
    <2> QED
      BY <2>5, <2>10 DEF Next, vars, Offering, Trying, Estimating, Simulating
  <1>4. StudiesInv => StudiesHold
    BY DEF StudiesInv
  <1> QED
    BY <1>1, <1>3, <1>4, PTL DEF Spec

-----------------------------------------------------------------------------
(* Signals                                                                 *)

\* The last n of a sequence, which a window of n holds.
LastOf(seq, n) == SubSeq(seq, IF Len(seq) > n THEN Len(seq) - n + 1 ELSE 1, Len(seq))

\* Pushing onto the end of a sequence, cut to its last elements, is the end of the
\* longer one.
LEMMA PushedIsTheEnd ==
  ASSUME NEW S, NEW seq \in Seq(S), NEW x \in S, NEW max \in Nat \ {0}
  PROVE  Pushed(LastOf(seq, max), x, max) = LastOf(Append(seq, x), max)
  <1> DEFINE n == Len(seq)
             window == LastOf(seq, max)
             longer == Append(window, x)
             all == Append(seq, x)
             end == LastOf(all, max)
  <1>1. n \in Nat /\ all \in Seq(S) /\ Len(all) = n + 1 /\ all[n + 1] = x
        /\ \A i \in 1..n : all[i] = seq[i]
    OBVIOUS
  <1> HIDE DEF n, all
  <1>2. CASE n < max
    <2>1. window = seq
      <3> ~(Len(seq) > max)
        BY <1>1, <1>2 DEF n
      <3>1. window = SubSeq(seq, 1, Len(seq))
        BY DEF LastOf
      <3> QED
        BY <3>1
    <2>2. longer = all /\ Pushed(window, x, max) = all
      BY <1>1, <1>2, <2>1 DEF Pushed, all
    <2>3. end = all
      <3>1. end = SubSeq(all, 1, Len(all))
        BY <1>1, <1>2 DEF LastOf
      <3> QED
        BY <1>1, <3>1
    <2> QED
      BY <2>2, <2>3 DEF all
  <1>3. CASE n >= max
    <2> DEFINE from == n - max
    <2>1. from \in Nat /\ n = from + max
      BY <1>1, <1>3
    <2> HIDE DEF from
    <2>2. window = SubSeq(seq, from + 1, n)
      <3>1. CASE n > max
        BY <1>1, <2>1, <3>1 DEF LastOf, n
      <3>2. CASE n = max
        BY <1>1, <2>1, <3>2 DEF LastOf, n
      <3> QED
        BY <1>1, <1>3, <3>1, <3>2
    <2>3. /\ window \in Seq(S) /\ Len(window) = max
          /\ \A i \in 1..max : window[i] = seq[from + i]
      BY <1>1, <2>1, <2>2 DEF n
    <2> HIDE DEF window
    <2>4. /\ longer \in Seq(S) /\ Len(longer) = max + 1 /\ longer[max + 1] = x
          /\ \A i \in 1..max : longer[i] = seq[from + i]
      BY <2>3
    <2> HIDE DEF longer
    <2>5. Pushed(window, x, max) = Tail(longer)
      BY <2>4 DEF Pushed, longer
    <2>6. /\ Tail(longer) \in Seq(S) /\ Len(Tail(longer)) = max
          /\ \A i \in 1..max : Tail(longer)[i] = longer[i + 1]
      BY <2>4
    <2>7. end = SubSeq(all, from + 2, n + 1)
      <3>1. Len(all) > max /\ Len(all) - max + 1 = from + 2
        BY <1>1, <1>3, <2>1
      <3> QED
        BY <1>1, <3>1 DEF LastOf
    <2>8. /\ end \in Seq(S) /\ Len(end) = max
          /\ \A i \in 1..max : end[i] = all[from + 1 + i]
      BY <1>1, <2>1, <2>7
    <2> HIDE DEF end
    <2> DEFINE tail == Tail(longer)
    <2>9. \A i \in 1..max : tail[i] = end[i]
      <3> SUFFICES ASSUME NEW i \in 1..max PROVE tail[i] = end[i]
        OBVIOUS
      <3>1. CASE i = max
        <4>1. tail[i] = x
          BY <2>4, <2>6, <3>1
        <4>2. end[i] = all[n + 1]
          BY <2>1, <2>8, <3>1
        <4> QED
          BY <1>1, <4>1, <4>2
      <3>2. CASE i # max
        <4>1. i + 1 \in 1..max /\ from + 1 + i \in 1..n /\ from + (i + 1) = from + 1 + i
          BY <2>1, <3>2
        <4> QED
          BY <1>1, <2>4, <2>6, <2>8, <4>1
      <3> QED
        BY <3>1, <3>2
    <2>10. tail \in Seq(S) /\ Len(tail) = max
      BY <2>6
    <2> HIDE DEF tail
    <2>11. tail = end
      BY <2>8, <2>9, <2>10
    <2> QED
      BY <2>5, <2>11 DEF tail, end, window, all
  <1> QED
    BY <1>1, <1>2, <1>3

\* What a window holds before its last reading is what was seen before the last.
LEMMA WindowIsBefore ==
  ASSUME NEW S, NEW seen \in Seq(S), seen # <<>>, NEW max \in Nat \ {0},
         NEW window, window = LastOf(seen, max)
  PROVE  /\ Len(window) = ScansBefore(seen, max) + 1 /\ ScansBefore(seen, max) \in Nat
         /\ window[Len(window)] = seen[Len(seen)]
         /\ \A k \in 1..ScansBefore(seen, max) : window[k] = Before(seen, max)[k]
  <1> DEFINE n == Len(seen)
             m == ScansBefore(seen, max)
             from == n - 1 - m
  <1>1. n \in Nat \ {0}
    OBVIOUS
  <1>2. m = (IF max < n THEN max ELSE n) - 1 /\ m \in Nat /\ m < n
    BY <1>1 DEF ScansBefore, Smaller
  <1>3. Before(seen, max) = [k \in 1..m |-> seen[n - 1 - m + k]]
    BY DEF Before
  <1>4. window = SubSeq(seen, from + 1, n)
    <2>1. CASE n > max
      BY <1>1, <1>2, <2>1 DEF LastOf
    <2>2. CASE ~(n > max)
      BY <1>1, <1>2, <2>2 DEF LastOf
    <2> QED
      BY <2>1, <2>2
  <1>5. from \in Nat /\ n = from + m + 1
    BY <1>1, <1>2
  <1> HIDE DEF m, from
  <1>6. Len(window) = m + 1 /\ \A k \in 1..(m + 1) : window[k] = seen[from + k]
    BY <1>1, <1>2, <1>4, <1>5 DEF n
  <1>7. window[m + 1] = seen[n]
    BY <1>2, <1>5, <1>6
  <1>8. \A k \in 1..m : window[k] = Before(seen, max)[k]
    <2>1. \A k \in 1..m : n - 1 - m + k = from + k /\ k \in 1..(m + 1)
      <3> HIDE DEF n
      <3>1. n \in Nat /\ m \in Nat /\ from \in Nat /\ n = from + m + 1
        BY <1>1, <1>2, <1>5
      <3> QED
        BY <3>1
    <2> QED
      BY <1>3, <1>6, <2>1
  <1> QED
    BY <1>2, <1>6, <1>7, <1>8 DEF m, n

\* A bet of the full position, from a book that holds as much.
Fills(s) ==
    /\ s.size = MaxPosition
    /\ \A side \in s.sides : Takings(Levels(s.book, side), MaxPosition, Depth) # {}

\* Priced from a book of this fetch, the token's own if there is one.
FromFetched(s) ==
    /\ s.book \in Range(reading.books)
    /\ OwnBook(s.token) # {} => s.book.token = s.token

\* A record that refinement may change in its cost and its edge.
Fields == {"kind", "token", "sides", "size", "book", "cost", "net"}
Fielded(s) == s = [x \in DOMAIN s |-> s[x]] /\ Fields \subseteq DOMAIN s

LEMMA RefinedKeeps ==
  ASSUME NEW s, Fielded(s)
  PROVE  /\ RefinedSignal(s).kind = s.kind /\ RefinedSignal(s).token = s.token
         /\ RefinedSignal(s).sides = s.sides /\ RefinedSignal(s).size = s.size
         /\ RefinedSignal(s).book = s.book
  <1>1. \A x, y : LET t == [s EXCEPT !.cost = x, !.net = y]
                  IN  /\ t.kind = s.kind /\ t.token = s.token /\ t.sides = s.sides
                      /\ t.size = s.size /\ t.book = s.book
    BY DEF Fielded, Fields
  <1>2. \/ RefinedSignal(s) = s
        \/ \E x, y : RefinedSignal(s) = [s EXCEPT !.cost = x, !.net = y]
    BY DEF RefinedSignal
  <1>3. CASE RefinedSignal(s) = s
    BY <1>3
  <1>4. CASE \E x, y : RefinedSignal(s) = [s EXCEPT !.cost = x, !.net = y]
    <2>1. PICK x, y : RefinedSignal(s) = [s EXCEPT !.cost = x, !.net = y]
      BY <1>4
    <2> QED
      BY <1>1, <2>1
  <1> QED
    BY <1>2, <1>3, <1>4

\* Signals of one kind.
Betting(S, kind) ==
    \A s \in S : s.kind = kind /\ Fielded(s) /\ FromFetched(s) /\ (kind # "quote" => Fills(s))

LEMMA FetchedBooks ==
  ASSUME reading \in Readings, NEW i \in Outcomes, i \in DOMAIN reading.books
  PROVE  /\ reading.books[i] \in Books /\ reading.books[i] \in Range(reading.books)
         /\ OwnBook(TokenOf(i)) # {} => reading.books[i].token = TokenOf(i)
  <1> DEFINE books == reading.books
  <1>1. books \in Seq(Books) /\ Tokens[1] # Tokens[2]
    BY SignalsAssumption
  <1>2. \/ books = <<>>
        \/ Len(books) = 1 /\ books[1].token \in {Tokens[1], Tokens[2]}
        \/ Len(books) = 2 /\ \A j \in Outcomes : books[j].token = Tokens[j]
    BY FetchAssumption
  <1>3. OwnBook(TokenOf(i)) = {b \in Range(books) : b.token = Tokens[i]}
    BY DEF OwnBook, TokenOf
  <1>4. i \in DOMAIN books
    OBVIOUS
  <1> HIDE DEF books
  <1>5. books[i] \in Books /\ books[i] \in Range(books) /\ DOMAIN books = 1..Len(books)
    BY <1>1, <1>4 DEF Range
  <1>6. ASSUME Len(books) = 1, OwnBook(TokenOf(i)) # {} PROVE books[i].token = Tokens[i]
    <2>1. PICK j \in DOMAIN books : books[j].token = Tokens[i]
      BY <1>3, <1>6 DEF Range
    <2> QED
      BY <1>4, <1>5, <1>6, <2>1
  <1>7. Len(books) = 2 => books[i].token = Tokens[i]
    BY <1>2
  <1>8. books # <<>>
    BY <1>4, <1>5
  <1> QED
    BY <1>2, <1>5, <1>6, <1>7, <1>8 DEF books, TokenOf

LEMMA BetsAreFillable ==
  ASSUME reading \in Readings, NEW c, NEW kind, NEW i \in Outcomes, NEW side \in Sides,
         NEW gross, NEW worth
  PROVE  Betting(Bet(c, kind, i, side, gross, worth), kind)
  <1> DEFINE book == reading.books[i]
             e == Estimate(book, side, MaxPosition)
             levels == Levels(book, side)
             n == Smaller(Depth, Len(levels))
             net == LessFees(worth, e.cost, MaxPosition)
  <1> SUFFICES ASSUME NEW s \in Bet(c, kind, i, side, gross, worth)
               PROVE  s.kind = kind /\ Fielded(s) /\ FromFetched(s) /\ Fills(s)
    BY DEF Betting
  <1>1. /\ i \in DOMAIN reading.books /\ e # NoEstimate
        /\ s = [kind |-> kind, token |-> TokenOf(i), sides |-> {side}, book |-> book,
                size |-> Smaller(MaxPosition, e.available), cost |-> e.cost,
                gross |-> gross, net |-> net]
    BY DEF Bet
  <1>2. book \in Books /\ MaxPosition \in Nat
    BY <1>1, SignalsAssumption, FetchedBooks
  <1> HIDE DEF net
  <1>3. levels \in Seq(BookLevel) /\ Sorted(levels, side)
    BY <1>2, BooksAreSorted
  <1>4. n \in 0..Len(levels) /\ n \in Nat
    BY <1>3, PricingAssumption DEF Smaller
  <1> DEFINE enough == {k \in 1..n : SizeUpTo(levels, k) >= MaxPosition}
  <1>5. MaxPosition # 0 /\ enough # {} /\ e.available = SizeUpTo(levels, Min(enough))
    BY <1>1, <1>2 DEF Estimate
  <1> HIDE DEF levels, n, e, book
  <1>6. /\ s.kind = kind /\ s.sides = {side} /\ s.size = Smaller(MaxPosition, e.available)
        /\ s.token = TokenOf(i) /\ s.book = book
    BY <1>1
  <1>7. Fielded(s)
    BY <1>1 DEF Fielded, Fields
  <1>8. FromFetched(s)
    BY <1>1, <1>6, FetchedBooks DEF FromFetched, book
  <1>9. SizesRun(levels)
    BY <1>3, SizesAddUp
  <1>10. \A k \in enough : SizeUpTo(levels, k) \in Nat /\ SizeUpTo(levels, k) >= MaxPosition
                         /\ SizeUpTo(levels, n) >= SizeUpTo(levels, k) /\ SizeUpTo(levels, n) \in Nat
    <2> SUFFICES ASSUME NEW k \in enough
                 PROVE  /\ SizeUpTo(levels, k) \in Nat /\ SizeUpTo(levels, k) >= MaxPosition
                        /\ SizeUpTo(levels, n) >= SizeUpTo(levels, k)
                        /\ SizeUpTo(levels, n) \in Nat
      OBVIOUS
    <2>1. k \in 0..Len(levels) /\ n \in 0..Len(levels) /\ k <= n
      BY <1>4
    <2>2. SizeUpTo(levels, k) >= MaxPosition
      OBVIOUS
    <2>3. /\ SizeUpTo(levels, k) \in Nat /\ SizeUpTo(levels, n) \in Nat
          /\ SizeUpTo(levels, k) <= SizeUpTo(levels, n)
      BY <1>9, <2>1 DEF SizesRun
    <2> QED
      BY <2>2, <2>3
  <1>11. Min(enough) \in enough
    <2>1. enough \in SUBSET Nat
      BY <1>4
    <2> HIDE DEF enough
    <2> QED
      BY <1>5, <2>1, MinIsLeast
  <1> HIDE DEF enough
  <1>12. Smaller(MaxPosition, e.available) = MaxPosition
    BY <1>2, <1>5, <1>10, <1>11 DEF Smaller
  <1>13. SizeUpTo(levels, n) >= MaxPosition /\ SizeUpTo(levels, n) \in Nat
    BY <1>2, <1>10, <1>11
  <1>14. Walk(levels, MaxPosition, n)
    BY <1>2, <1>3, <1>4, WalksCost
  <1>15. BestCost(book, side, MaxPosition, Depth) = WalkCost(levels, MaxPosition, n)
    BY <1>2, <1>3, PricingAssumption, BestCostIsTheWalk DEF levels, n
  <1>16. BestCost(book, side, MaxPosition, Depth) \in Nat
    BY <1>2, <1>13, <1>14, <1>15 DEF WalkCost, Walk
  <1>17. Takings(levels, MaxPosition, Depth) # {}
    <2> SUFFICES ASSUME Takings(levels, MaxPosition, Depth) = {} PROVE FALSE
      OBVIOUS
    <2>1. BestCost(book, side, MaxPosition, Depth) = -1
      BY DEF BestCost, levels, NoEstimate
    <2> QED
      BY <1>16, <2>1
  <1>18. Fills(s)
    <2>1. \A t \in s.sides : Takings(Levels(s.book, t), MaxPosition, Depth) # {}
      BY <1>6, <1>17 DEF levels
    <2> QED
      BY <1>6, <1>12, <2>1 DEF Fills
  <1> QED
    BY <1>6, <1>7, <1>8, <1>18

LEMMA BetsOnly ==
  ASSUME reading \in Readings, NEW c, NEW window, NEW among
  PROVE  /\ Betting(LiquiditySignals(c, window), "liquidity")
         /\ Betting(VolumeSignals(c, window), "volume")
         /\ Betting(StaleSignals(c, among), "stale")
         /\ Betting(ResolutionSignals(c), "resolution")
         /\ Betting(ModelSignals(c), "model")
         /\ Betting(QuoteSignals(c), "quote")
  <1>1. "buy" \in Sides /\ "sell" \in Sides /\ 1 \in Outcomes
    BY DEF Sides, Outcomes
  <1>2. \A kind : Betting({}, kind)
    BY DEF Betting
  <1>3. \A kind : \A i \in Outcomes : \A change : Betting(Follow(c, kind, i, change), kind)
    BY <1>1, BetsAreFillable DEF Follow
  <1>4. Betting(LiquiditySignals(c, window), "liquidity")
    <2>1. \A i : \A side \in Sides : Betting(Wipeout(c, window, i, side), "liquidity")
      BY <1>1, <1>2, BetsAreFillable DEF Wipeout
    <2>2. \A A, B : Betting(A, "liquidity") /\ Betting(B, "liquidity") => Betting(A \cup B, "liquidity")
      BY DEF Betting
    <2> QED
      BY <1>1, <1>2, <2>1, <2>2 DEF LiquiditySignals
  <1>5. Betting(VolumeSignals(c, window), "volume")
    BY <1>1, <1>2, <1>3 DEF VolumeSignals
  <1>6. Betting(StaleSignals(c, among), "stale")
    BY <1>1, <1>2, <1>3 DEF StaleSignals
  <1>7. Betting(ResolutionSignals(c), "resolution")
    <2>1. ASSUME NEW s \in ResolutionSignals(c)
          PROVE  \E i \in Outcomes : \E gross, worth : s \in Bet(c, "resolution", i, "buy", gross, worth)
      BY ZenonT(40) DEF ResolutionSignals
    <2> QED
      BY <1>1, <2>1, BetsAreFillable DEF Betting
  <1>8. Betting(ModelSignals(c), "model")
    <2>1. ASSUME NEW s \in ModelSignals(c)
          PROVE  \E i \in Outcomes : \E change : s \in Follow(c, "model", i, change)
      BY DEF ModelSignals
    <2> QED
      BY <1>3, <2>1 DEF Betting
  <1>9. Betting(QuoteSignals(c), "quote")
    <2> SUFFICES ASSUME NEW s \in QuoteSignals(c)
                 PROVE  s.kind = "quote" /\ Fielded(s) /\ FromFetched(s)
      BY DEF Betting
    <2> DEFINE book == reading.books[1]
    <2>1. reading.books # <<>> /\ s \in Quote(c, book)
      BY DEF QuoteSignals
    <2>2. 1 \in DOMAIN reading.books
      <3>1. reading.books \in Seq(Books)
        BY SignalsAssumption
      <3> QED
        BY <2>1, <3>1
    <2> HIDE DEF book
    <2>3. /\ s.kind = "quote" /\ s.token = TokenOf(1) /\ s.book = book /\ Fielded(s)
      BY <2>1 DEF Quote, Fielded, Fields
    <2>4. FromFetched(s)
      BY <1>1, <2>2, <2>3, FetchedBooks DEF FromFetched, book
    <2> QED
      BY <2>3, <2>4
  <1> QED
    BY <1>4, <1>5, <1>6, <1>7, <1>8, <1>9

\* What each detector finds.
Part(c, depths, volumes, among, kind) ==
    IF kind \notin c.enabled THEN {}
    ELSE CASE kind = "liquidity" -> LiquiditySignals(c, depths)
           [] kind = "volume" -> IF Enough THEN VolumeSignals(c, volumes) ELSE {}
           [] kind = "stale" -> StaleSignals(c, among)
           [] kind = "resolution" -> ResolutionSignals(c)
           [] kind = "model" -> ModelSignals(c)
           [] kind = "quote" -> QuoteSignals(c)

LEMMA PartsAre ==
  ASSUME NEW c, NEW depths, NEW volumes, NEW among
  PROVE  LET part(kind) == Part(c, depths, volumes, among, kind)
         IN  /\ part("liquidity") = IF "liquidity" \in c.enabled THEN LiquiditySignals(c, depths) ELSE {}
             /\ part("volume") = IF "volume" \in c.enabled
                                 THEN IF Enough THEN VolumeSignals(c, volumes) ELSE {} ELSE {}
             /\ part("stale") = IF "stale" \in c.enabled THEN StaleSignals(c, among) ELSE {}
             /\ part("resolution") = IF "resolution" \in c.enabled THEN ResolutionSignals(c) ELSE {}
             /\ part("model") = IF "model" \in c.enabled THEN ModelSignals(c) ELSE {}
             /\ part("quote") = IF "quote" \in c.enabled THEN QuoteSignals(c) ELSE {}
  BY DEF Part

LEMMA FoundIsParts ==
  ASSUME reading \in Readings, NEW c, NEW depths, NEW volumes, NEW among
  PROVE  /\ \A kind \in SingleKinds :
               /\ {s \in Found(c, depths, volumes, among) : s.kind = kind}
                     = Part(c, depths, volumes, among, kind)
               /\ Betting(Part(c, depths, volumes, among, kind), kind)
         /\ \A s \in Found(c, depths, volumes, among) : s.kind \in SingleKinds
  <1> DEFINE part(kind) == Part(c, depths, volumes, among, kind)
             all == Found(c, depths, volumes, among)
  <1>1. \A s : s \in all <=> \E kind \in SingleKinds : s \in part(kind)
    <2>1. all = part("liquidity") \cup part("volume") \cup part("stale") \cup part("resolution")
                  \cup part("model") \cup part("quote")
      BY PartsAre DEF Found
    <2> HIDE DEF part, all
    <2> QED
      BY <2>1 DEF SingleKinds
  <1>2. \A kind \in SingleKinds : Betting(part(kind), kind)
    <2>1. \A kind : Betting({}, kind)
      BY DEF Betting
    <2>2. Betting(part("liquidity"), "liquidity") /\ Betting(part("volume"), "volume")
          /\ Betting(part("stale"), "stale")
      BY <2>1, PartsAre, BetsOnly, ZenonT(40)
    <2>3. Betting(part("resolution"), "resolution") /\ Betting(part("model"), "model")
          /\ Betting(part("quote"), "quote")
      BY <2>1, PartsAre, BetsOnly
    <2> HIDE DEF part
    <2> QED
      BY <2>2, <2>3 DEF SingleKinds
  <1> HIDE DEF part, all
  <1>3. \A kind \in SingleKinds : \A s \in part(kind) : s.kind = kind
    BY <1>2 DEF Betting
  <1>4. \A kind \in SingleKinds : {s \in all : s.kind = kind} = part(kind)
    BY <1>1, <1>3
  <1> QED
    BY <1>1, <1>2, <1>3, <1>4 DEF part, all

LEMMA FoundIsBetting ==
  ASSUME reading \in Readings, NEW c, NEW depths, NEW volumes, NEW among,
         NEW s \in Found(c, depths, volumes, among)
  PROVE  s.kind \in SingleKinds /\ Betting({s}, s.kind)
  <1>1. s.kind \in SingleKinds
    BY FoundIsParts
  <1>2. s \in Part(c, depths, volumes, among, s.kind)
        /\ Betting(Part(c, depths, volumes, among, s.kind), s.kind)
    BY <1>1, FoundIsParts
  <1> QED
    BY <1>1, <1>2 DEF Betting

\* What the detectors find in a reading depends on nothing else, nor does what is
\* left of it.
LEMMA FoundUnchanged ==
  ASSUME reading' = reading
  PROVE  /\ \A c, depths, volumes, among :
               Found(c, depths, volumes, among)' = Found(c, depths, volumes, among)
         /\ \A opportunities, minNet : Retained(opportunities, minNet)' = Retained(opportunities, minNet)
         /\ Enough' = Enough
  <1>1. \A c, kind, i, side, gross, worth :
           Bet(c, kind, i, side, gross, worth)' = Bet(c, kind, i, side, gross, worth)
    BY DEF Bet
  <1>2. Enough' = Enough
    BY DEF Enough
  <1>3. \A c, kind, i, change : Follow(c, kind, i, change)' = Follow(c, kind, i, change)
    BY <1>1 DEF Follow
  <1>4. \A c, w : LiquiditySignals(c, w)' = LiquiditySignals(c, w)
    <2>1. \A c, w, i, side : Wipeout(c, w, i, side)' = Wipeout(c, w, i, side)
      BY <1>1 DEF Wipeout
    <2> QED
      BY <2>1 DEF LiquiditySignals
  <1>5. \A c, w : VolumeSignals(c, w)' = VolumeSignals(c, w)
    BY <1>3 DEF VolumeSignals
  <1>6. \A c, among : StaleSignals(c, among)' = StaleSignals(c, among)
    BY <1>3 DEF StaleSignals
  <1>7. \A c : ResolutionSignals(c)' = ResolutionSignals(c)
    BY <1>1 DEF ResolutionSignals
  <1>8. \A c : ModelSignals(c)' = ModelSignals(c)
    BY <1>3 DEF ModelSignals
  <1>9. \A c : QuoteSignals(c)' = QuoteSignals(c)
    <2>1. \A c, book : Quote(c, book)' = Quote(c, book)
      BY DEF Quote
    <2> QED
      BY <2>1 DEF QuoteSignals
  <1>10. \A c, depths, volumes, among :
            Found(c, depths, volumes, among)' = Found(c, depths, volumes, among)
    BY <1>2, <1>4, <1>5, <1>6, <1>7, <1>8, <1>9 DEF Found
  <1>11. \A o : RefinedSignal(o)' = RefinedSignal(o)
    <2>1. \A token : OwnBook(token)' = OwnBook(token)
      BY DEF OwnBook
    <2> QED
      BY <2>1 DEF RefinedSignal
  <1>12. \A opportunities, minNet :
            Retained(opportunities, minNet)' = Retained(opportunities, minNet)
    BY <1>11 DEF Retained
  <1> QED
    BY <1>2, <1>10, <1>12

LEMMA DepthsType ==
  ASSUME reading \in Readings, reading.books # <<>>
  PROVE  Depths \in Nat \X Nat
  <1> DEFINE books == reading.books
             book == reading.books[1]
  <1>1. book \in Books
    <2>1. books \in Seq(Books) /\ books # <<>>
      BY SignalsAssumption
    <2> HIDE DEF books
    <2>2. books[1] \in Books
      BY <2>1
    <2> QED
      BY <2>2 DEF books
  <1>2. book.bids \in Seq(BookLevel) /\ book.asks \in Seq(BookLevel)
    BY <1>1 DEF Books
  <1>3. \A levels \in Seq(BookLevel) : DepthOf(levels, 3) \in Nat
    <2> SUFFICES ASSUME NEW levels \in Seq(BookLevel) PROVE DepthOf(levels, 3) \in Nat
      OBVIOUS
    <2>1. Smaller(3, Len(levels)) \in 0..Len(levels)
      BY DEF Smaller
    <2>2. SizesRun(levels)
      BY SizesAddUp
    <2> QED
      BY <2>1, <2>2 DEF SizesRun, DepthOf
  <1> QED
    BY <1>2, <1>3 DEF Depths

\* The windows of the detectors are the last of what the scans saw, and the signals
\* are what they say of the reading that was scanned last.
SignalsInv ==
    /\ config \in Configs /\ loopConfig \in Configs /\ reading \in Readings
    /\ depthsSeen \in Seq(Nat \X Nat) /\ volumesSeen \in Seq(Nat)
    /\ "liquidity" \in loopConfig.enabled => depthHistory = LastOf(depthsSeen, DepthWindow)
    /\ "volume" \in loopConfig.enabled => volumeHistory = LastOf(volumesSeen, VolumeWindow)
    /\ scanned => /\ found = Found(loopConfig, depthHistory, volumeHistory, beside)
                  /\ signals = Retained(found, retainedBy)
                  /\ reading.books # <<>> => depthsSeen # <<>>
                  /\ Enough => volumesSeen # <<>>

LEMMA WindowsType == DepthWindow \in Nat \ {0} /\ VolumeWindow \in Nat \ {0}
  BY SignalsAssumption

LEMMA NothingSeen == \A max \in Nat \ {0} : LastOf(<<>>, max) = <<>>
  BY DEF LastOf

\* A step that leaves the last scan and its reading alone keeps what was found.
LEMMA ScanKept ==
  ASSUME SignalsInv, config' \in Configs,
         UNCHANGED <<loopConfig, reading, scanned, beside, depthHistory, volumeHistory,
                     depthsSeen, volumesSeen, found, signals, retainedBy>>
  PROVE  SignalsInv'
  <1>1. /\ Found(loopConfig, depthHistory, volumeHistory, beside)'
             = Found(loopConfig, depthHistory, volumeHistory, beside)
        /\ Retained(found, retainedBy)' = Retained(found, retainedBy)
        /\ Enough' = Enough
    BY FoundUnchanged
  <1> QED
    BY <1>1 DEF SignalsInv

LEMMA SignalsKept ==
  ASSUME SignalsInv, SignalNext \/ UNCHANGED signalVars
  PROVE  SignalsInv'
  <1>1. /\ config \in Configs /\ loopConfig \in Configs /\ reading \in Readings
        /\ depthsSeen \in Seq(Nat \X Nat) /\ volumesSeen \in Seq(Nat)
    BY DEF SignalsInv
  <1>2. ASSUME PutConfig PROVE SignalsInv'
    BY <1>2, ScanKept DEF PutConfig, windows
  <1>3. ASSUME StartLoop PROVE SignalsInv'
    <2>1. <<>> \in Seq(Nat \X Nat) /\ <<>> \in Seq(Nat)
      OBVIOUS
    <2> QED
      BY <1>1, <1>3, <2>1, WindowsType, NothingSeen DEF StartLoop, NewTick, SignalsInv
  <1>4. ASSUME PollMarket PROVE SignalsInv'
    BY <1>4 DEF PollMarket, NewTick, windows, SignalsInv
  <1>5. ASSUME ScanMarket PROVE SignalsInv'
    <2> DEFINE deep == reading.books # <<>>
    <2>1. /\ scanned' = TRUE
          /\ depthsSeen' = IF deep THEN Append(depthsSeen, Depths) ELSE depthsSeen
          /\ depthHistory' = IF deep /\ "liquidity" \in loopConfig.enabled
                             THEN Pushed(depthHistory, Depths, DepthWindow) ELSE depthHistory
          /\ volumesSeen' = IF Enough THEN Append(volumesSeen, reading.volume) ELSE volumesSeen
          /\ volumeHistory' = IF Enough /\ "volume" \in loopConfig.enabled
                              THEN Pushed(volumeHistory, reading.volume, VolumeWindow)
                              ELSE volumeHistory
          /\ found' = Found(loopConfig, depthHistory', volumeHistory', beside')
          /\ signals' = Retained(found', config.minNet) /\ retainedBy' = config.minNet
          /\ UNCHANGED <<config, loopConfig, reading>>
      BY <1>5 DEF ScanMarket
    <2>2. reading.volume \in Nat /\ (deep => Depths \in Nat \X Nat)
      BY <1>1, SignalsAssumption, DepthsType
    <2>3. /\ depthsSeen' \in Seq(Nat \X Nat) /\ volumesSeen' \in Seq(Nat)
          /\ deep => depthsSeen' # <<>>
          /\ Enough => volumesSeen' # <<>>
      <3>1. CASE deep
        BY <1>1, <2>1, <2>2, <3>1, SMTT(30)
      <3>2. depthsSeen' \in Seq(Nat \X Nat) /\ (deep => depthsSeen' # <<>>)
        BY <1>1, <2>1, <3>1
      <3>3. volumesSeen' \in Seq(Nat) /\ (Enough => volumesSeen' # <<>>)
        BY <1>1, <2>1, <2>2
      <3> QED
        BY <3>2, <3>3
    <2>4. "liquidity" \in loopConfig.enabled => depthHistory' = LastOf(depthsSeen', DepthWindow)
      <3> SUFFICES ASSUME "liquidity" \in loopConfig.enabled
                   PROVE  depthHistory' = LastOf(depthsSeen', DepthWindow)
        OBVIOUS
      <3>1. CASE deep
        <4>1. depthHistory' = Pushed(LastOf(depthsSeen, DepthWindow), Depths, DepthWindow)
          BY <2>1, <3>1 DEF SignalsInv
        <4> QED
          BY <1>1, <2>1, <2>2, <3>1, <4>1, WindowsType, PushedIsTheEnd
      <3>2. CASE ~deep
        BY <2>1, <3>2 DEF SignalsInv
      <3> QED
        BY <3>1, <3>2
    <2>5. "volume" \in loopConfig.enabled => volumeHistory' = LastOf(volumesSeen', VolumeWindow)
      <3> SUFFICES ASSUME "volume" \in loopConfig.enabled
                   PROVE  volumeHistory' = LastOf(volumesSeen', VolumeWindow)
        OBVIOUS
      <3>1. CASE Enough
        <4>1. volumeHistory' = Pushed(LastOf(volumesSeen, VolumeWindow), reading.volume, VolumeWindow)
          BY <2>1, <3>1 DEF SignalsInv
        <4> QED
          BY <1>1, <2>1, <2>2, <3>1, <4>1, WindowsType, PushedIsTheEnd
      <3>2. CASE ~Enough
        BY <2>1, <3>2 DEF SignalsInv
      <3> QED
        BY <3>1, <3>2
    <2>6. /\ found' = Found(loopConfig, depthHistory, volumeHistory, beside)'
          /\ signals' = Retained(found, retainedBy)' /\ Enough' = Enough
      <3>1. /\ Found(loopConfig, depthHistory, volumeHistory, beside)'
                 = Found(loopConfig', depthHistory', volumeHistory', beside')
            /\ Retained(found, retainedBy)' = Retained(found', retainedBy')
            /\ Enough' = Enough
        BY <2>1, FoundUnchanged
      <3> QED
        BY <2>1, <3>1
    <2> QED
      BY <1>1, <2>1, <2>3, <2>4, <2>5, <2>6 DEF SignalsInv
  <1>6. CASE UNCHANGED signalVars
    BY <1>1, <1>6, ScanKept DEF signalVars, windows
  <1> QED
    BY <1>2, <1>3, <1>4, <1>5, <1>6 DEF SignalNext

\* A window that holds the last of what was seen bets on the fall from all of it.
LEMMA FallIsWipeout ==
  ASSUME depthsSeen \in Seq(Nat \X Nat), depthsSeen # <<>>,
         depthHistory = LastOf(depthsSeen, DepthWindow)
  PROVE  LiquiditySignals(loopConfig, depthHistory) = BetOnFall(1) \cup BetOnFall(2)
  <1> DEFINE n == ScansBefore(depthsSeen, DepthWindow)
             before == Before(depthsSeen, DepthWindow)
             last == depthsSeen[Len(depthsSeen)]
             side(i) == IF i = 1 THEN "buy" ELSE "sell"
  <1>1. /\ Len(depthHistory) = n + 1 /\ n \in Nat /\ depthHistory[Len(depthHistory)] = last
        /\ \A k \in 1..n : depthHistory[k] = before[k]
    BY WindowsType, WindowIsBefore
  <1> HIDE DEF n, before, last
  <1>2. Len(depthHistory) - 1 = n /\ depthHistory[n + 1] = last
    BY <1>1
  <1>3. \A i : [k \in 1..n |-> depthHistory[k][i]] = [k \in 1..n |-> before[k][i]]
    BY <1>1
  <1> DEFINE sum(i) == SumFunction([k \in 1..n |-> before[k][i]])
             fall(i) == sum(i) - n * last[i]
             edge(i) == <<5 * Dollar * fall(i), 100 * sum(i)>>
             bet(i) == Bet(loopConfig, "liquidity", 1, side(i), edge(i), edge(i))
             falls(i) == sum(i) > 0 /\ 100 * fall(i) >= loopConfig.minDropPct * sum(i)
  <1>4. \A i : Wipeout(loopConfig, depthHistory, i, side(i)) = IF falls(i) THEN bet(i) ELSE {}
    <2> SUFFICES ASSUME NEW i
                 PROVE  Wipeout(loopConfig, depthHistory, i, side(i))
                          = IF falls(i) THEN bet(i) ELSE {}
      OBVIOUS
    <2>1. SumFunction([k \in 1..(Len(depthHistory) - 1) |-> depthHistory[k][i]]) = sum(i)
      BY <1>2, <1>3
    <2> QED
      BY <1>2, <2>1, ZenonT(40) DEF Wipeout
  <1>5. \A i : BetOnFall(i) = IF n + 1 >= MinDepths /\ falls(i) THEN bet(i) ELSE {}
    BY DEF BetOnFall, n, before, last
  <1>6. LiquiditySignals(loopConfig, depthHistory)
          = IF n + 1 >= MinDepths
            THEN Wipeout(loopConfig, depthHistory, 1, side(1))
                   \cup Wipeout(loopConfig, depthHistory, 2, side(2))
            ELSE {}
    <2>1. MinDepths \in Nat
      BY SignalsAssumption
    <2> QED
      BY <1>1, <2>1 DEF LiquiditySignals
  <1> HIDE DEF falls, bet, side
  <1> QED
    BY <1>4, <1>5, <1>6

LEMMA SpikeIsSeen ==
  ASSUME volumesSeen \in Seq(Nat), volumesSeen # <<>>,
         volumeHistory = LastOf(volumesSeen, VolumeWindow)
  PROVE  VolumeSignals(loopConfig, volumeHistory)
           = IF Spike /\ reading.change # 0
             THEN Follow(loopConfig, "volume", 1, reading.change) ELSE {}
  <1> DEFINE n == ScansBefore(volumesSeen, VolumeWindow)
             before == Before(volumesSeen, VolumeWindow)
             last == volumesSeen[Len(volumesSeen)]
  <1>1. /\ Len(volumeHistory) = n + 1 /\ n \in Nat /\ volumeHistory[Len(volumeHistory)] = last
        /\ \A k \in 1..n : volumeHistory[k] = before[k]
    <2> DEFINE windowed(window) ==
           /\ Len(window) = n + 1 /\ n \in Nat /\ window[Len(window)] = last
           /\ \A k \in 1..n : window[k] = before[k]
    <2>1. VolumeWindow \in Nat \ {0}
      BY WindowsType
    <2>2. \A window : window = LastOf(volumesSeen, VolumeWindow) => windowed(window)
      BY <2>1, WindowIsBefore
    <2> QED
      BY <2>2
  <1>2. Spike <=> LET sum == SumFunction([k \in 1..n |-> before[k]])
                  IN  n >= 1 /\ sum > 0 /\ last * n >= SpikeTimes * sum
    BY DEF Spike
  <1> HIDE DEF n, before, last
  <1>3. Len(volumeHistory) - 1 = n /\ volumeHistory[n + 1] = last
    BY <1>1
  <1>4. [k \in 1..n |-> volumeHistory[k]] = [k \in 1..n |-> before[k]]
    BY <1>1
  <1> QED
    BY <1>2, <1>3, <1>4 DEF VolumeSignals

LEMMA SignalsInvHolds == SignalsInv => SignalsHold
  <1> SUFFICES ASSUME SignalsInv, scanned PROVE SignalsHold
    BY DEF SignalsHold, SignalsSeeLastScans, BetsFillable
  <1> DEFINE c == loopConfig
             part(kind) == Part(c, depthHistory, volumeHistory, beside, kind)
  <1>1. reading \in Readings /\ found = Found(c, depthHistory, volumeHistory, beside)
        /\ signals = Retained(found, retainedBy)
    BY DEF SignalsInv
  <1>2. \A kind \in SingleKinds : OfKind(kind) = part(kind)
    BY <1>1, FoundIsParts DEF OfKind
  <1>3. SignalsSeeLastScans
    <2>1. "liquidity" \in SingleKinds /\ "volume" \in SingleKinds
      BY DEF SingleKinds
    <2>2. ASSUME "liquidity" \in c.enabled, reading.books # <<>>
          PROVE  OfKind("liquidity") = BetOnFall(1) \cup BetOnFall(2)
      <3>1. OfKind("liquidity") = LiquiditySignals(c, depthHistory)
        BY <1>2, <2>1, <2>2, PartsAre
      <3> QED
        BY <2>2, <3>1, FallIsWipeout DEF SignalsInv
    <2>3. ASSUME "volume" \in c.enabled, Enough
          PROVE  OfKind("volume") = IF Spike /\ reading.change # 0
                                    THEN Follow(c, "volume", 1, reading.change) ELSE {}
      <3>1. OfKind("volume") = VolumeSignals(c, volumeHistory)
        BY <1>2, <2>1, <2>3, PartsAre
      <3> QED
        BY <2>3, <3>1, SpikeIsSeen DEF SignalsInv
    <2> QED
      BY <2>2, <2>3 DEF SignalsSeeLastScans
  <1>4. BetsFillable
    <2> SUFFICES ASSUME NEW s \in signals
                 PROVE  (s.kind # "quote" => Fills(s)) /\ FromFetched(s)
      BY DEF BetsFillable, Fills, FromFetched
    <2>1. PICK o \in found : s = RefinedSignal(o)
      BY <1>1 DEF Retained
    <2>2. Fielded(o) /\ FromFetched(o) /\ (o.kind # "quote" => Fills(o))
      BY <1>1, FoundIsBetting DEF Betting
    <2>3. /\ s.kind = o.kind /\ s.token = o.token /\ s.sides = o.sides /\ s.size = o.size
          /\ s.book = o.book
      BY <2>1, <2>2, RefinedKeeps
    <2> QED
      BY <2>2, <2>3 DEF Fills, FromFetched
  <1> QED
    BY <1>3, <1>4 DEF SignalsHold

\* Whatever the readings, the books that could be fetched and the configurations: the
\* detectors with a memory compare the current scan with those just before it, as many
\* as their window covers; and a bet is of the full position, priced from a book that
\* holds it and is of the token bet on, unless that one's could not be fetched.
THEOREM SignalsAlwaysHold == Spec => []SignalsHold
  <1>1. Init => SignalsInv
    <2> SUFFICES ASSUME Init PROVE SignalsInv
      OBVIOUS
    <2>1. SignalInit
      BY DEF Init, SandboxInit
    <2>2. <<>> \in Seq(Nat \X Nat) /\ <<>> \in Seq(Nat)
      OBVIOUS
    <2> QED
      BY <2>1, <2>2, WindowsType, NothingSeen DEF SignalInit, SignalsInv
  <1>2. SignalsInv /\ [Next]_vars => SignalsInv'
    <2> SUFFICES ASSUME SignalsInv, [Next]_vars PROVE SignalsInv'
      OBVIOUS
    <2>1. SignalNext \/ UNCHANGED signalVars
      <3>1. UNCHANGED sandboxVars => UNCHANGED signalVars
        BY DEF sandboxVars
      <3>2. CASE Trying
        BY <3>2 DEF Trying, SandboxNext, Ask
      <3>3. CASE UNCHANGED vars
        BY <3>1, <3>3 DEF vars
      <3>4. CASE Offering \/ Studying \/ Estimating \/ Simulating
        BY <3>1, <3>4 DEF Offering, Studying, Estimating, Simulating
      <3> QED
        BY <3>2, <3>3, <3>4 DEF Next
    <2> QED
      BY <2>1, SignalsKept
  <1> QED
    BY <1>1, <1>2, SignalsInvHolds, PTL DEF Spec

-----------------------------------------------------------------------------
(* The replay of a backtest                                                *)
AppendPassed(of, i, replay) == Append(replay, Passes(of[1], of[2], replay, of[2][i]))
Replaying == INSTANCE FoldFacts WITH Op <- AppendPassed, Pick <- HighestOf

\* The replay after each report.
Replayed(c, reports, n, acc) ==
    /\ acc[0] = <<>>
    /\ \A i \in 1..n : acc[i] = Append(acc[i - 1], Passes(c, reports, acc[i - 1], reports[i]))
    /\ Replay(c, reports) = acc[n]

LEMMA ReplayRuns ==
  ASSUME NEW c, NEW reports, NEW n \in Nat, DOMAIN reports = 1..n
  PROVE  \E acc : Replayed(c, reports, n, acc)
  <1>1. \A s : HighestOf(s) = Replaying!Highest(s)
    BY DEF HighestOf, Replaying!Highest
  <1> DEFINE of == <<c, reports>>
  <1>2. of[1] = c /\ of[2] = reports
    OBVIOUS
  <1>3. PICK acc : Replaying!Runs(of, <<>>, n, acc)
    BY <1>1, Replaying!FoldRuns
  <1>4. Replay(c, reports) = Replaying!Fold(of, <<>>, 1..n)
    BY DEF Replay, FoldLeft, MapThenFoldSet, Max, HighestOf, Replaying!Fold, Replaying!Equation,
       AppendPassed
  <1> HIDE DEF of
  <1>5. Replayed(c, reports, n, acc)
    BY <1>2, <1>3, <1>4 DEF Replaying!Runs, AppendPassed, Replayed
  <1> QED
    BY <1>5

Report == [edge : Int, fees : Int, size : Nat, day : Int]

EarlierOf(kept, i) == {j \in kept : j < i}

LEMMA ReplayIs ==
  ASSUME NEW c, NEW reports \in Seq(Report), NEW n, n = Len(reports),
         NEW kept, kept = LetThrough(Replay(c, reports))
  PROVE  /\ kept \subseteq 1..n
         /\ \A i \in 1..n :
               i \in kept <=> /\ ~TooSmall(c, reports[i])
                              /\ SizesOf(reports, EarlierOf(kept, i)) + reports[i].size <= c.cap
  <1>1. n \in Nat /\ DOMAIN reports = 1..n
    OBVIOUS
  <1>2. PICK acc : Replayed(c, reports, n, acc)
    BY <1>1, ReplayRuns
  <1> DEFINE passes(i) == Passes(c, reports, acc[i - 1], reports[i])
             Fine(i) == /\ acc[i] \in Seq(BOOLEAN) /\ Len(acc[i]) = i
                        /\ \A j \in 1..i : acc[i][j] = passes(j)
             Good == {i \in 0..n : Fine(i)}
  <1>3. \A i \in 1..n : passes(i) \in BOOLEAN /\ acc[i] = Append(acc[i - 1], passes(i))
    BY <1>2 DEF Replayed, Passes
  <1>4. Fine(0)
    <2>1. 1..0 = {} /\ acc[0] = <<>> /\ <<>> \in Seq(BOOLEAN) /\ Len(<<>>) = 0
      BY <1>2 DEF Replayed
    <2> QED
      BY <2>1
  <1> HIDE DEF passes
  <1>5. ASSUME NEW i \in 1..n, Fine(i - 1) PROVE Fine(i)
    <2> DEFINE before == acc[i - 1]
               p == passes(i)
    <2>1. before \in Seq(BOOLEAN) /\ Len(before) = i - 1 /\ p \in BOOLEAN /\ acc[i] = Append(before, p)
          /\ \A j \in 1..(i - 1) : before[j] = passes(j)
      BY <1>3, <1>5
    <2> HIDE DEF before, p
    <2>2. acc[i] \in Seq(BOOLEAN) /\ Len(acc[i]) = i /\ acc[i][i] = p
          /\ \A j \in 1..(i - 1) : acc[i][j] = before[j]
      BY <2>1
    <2>3. \A j \in 1..i : j = i \/ j \in 1..(i - 1)
      OBVIOUS
    <2> QED
      BY <2>1, <2>2, <2>3 DEF p
  <1> HIDE DEF Fine
  <1>6. 0 \in Good /\ \A i \in 1..n : i - 1 \in Good => i \in Good
    BY <1>1, <1>4, <1>5
  <1> HIDE DEF Good
  <1>7. \A i \in 0..n : i \in Good
    <2> SUFFICES ASSUME NEW i \in 0..n PROVE i \in Good
      OBVIOUS
    <2>1. i \in Nat /\ 1..i \subseteq 1..n
      OBVIOUS
    <2>2. \A k \in 1..i : k - 1 \in Good => k \in Good
      BY <1>6, <2>1
    <2> QED
      BY <1>6, <2>1, <2>2, Sums!UpToInduction
  <1>8. \A i \in 0..n : Fine(i)
    BY <1>7 DEF Good
  <1>9. \A i \in 0..n : LetThrough(acc[i]) = {j \in 1..i : passes(j)}
    BY <1>8 DEF Fine, LetThrough
  <1>10. kept = {j \in 1..n : passes(j)}
    <2>1. Replay(c, reports) = acc[n] /\ n \in 0..n
      BY <1>1, <1>2 DEF Replayed
    <2> QED
      BY <1>9, <2>1
  <1>11. \A i \in 1..n : LetThrough(acc[i - 1]) = EarlierOf(kept, i)
    <2> SUFFICES ASSUME NEW i \in 1..n PROVE LetThrough(acc[i - 1]) = EarlierOf(kept, i)
      OBVIOUS
    <2>1. i - 1 \in 0..n
      OBVIOUS
    <2>2. LetThrough(acc[i - 1]) = {j \in 1..(i - 1) : passes(j)}
      BY <1>9, <2>1
    <2>3. \A j : j \in 1..(i - 1) <=> (j \in 1..n /\ j < i)
      BY <1>1
    <2> QED
      BY <1>10, <2>2, <2>3 DEF EarlierOf
  <1>12. \A i \in 1..n : passes(i) <=> /\ ~TooSmall(c, reports[i])
                             /\ SizesOf(reports, EarlierOf(kept, i)) + reports[i].size <= c.cap
    BY <1>11 DEF passes, Passes
  <1> QED
    BY <1>10, <1>12

\* The sum of a function of any finite set, written in whatever way.
LEMMA SumOfSet ==
  ASSUME NEW S, IsFiniteSet(S), NEW f, Ints(f, S), NEW g, DOMAIN g = S, \A x \in S : g[x] = f[x]
  PROVE  SumFunction(g) = Sums!Total(f, S) /\ Sums!Total(f, S) \in Int
  <1>1. Sums!AddsUp(f, S, f) /\ Sums!AddsUp(g, S, g)
    <2>1. Ints(g, S)
      BY DEF Ints
    <2> QED
      BY <2>1, ValuesAddUp
  <1>2. Sums!Total(g, S) = Sums!Total(f, S)
    BY <1>1, AnyOfIn, Sums!TotalSame
  <1>3. Sums!Total(f, S) \in Int
    BY <1>1, AnyOfIn, Sums!TotalType
  <1> QED
    BY <1>2, <1>3, SumIsTotal

\* What is kept fits, and what is not would not have.
LEMMA ReplayKeepsTheCap ==
  ASSUME NEW c \in ConfigTypes, NEW reports \in Seq(Report),
         NEW kept, kept = LetThrough(Replay(c, reports))
  PROVE  /\ kept # {} => SizesOf(reports, kept) <= c.cap
         /\ \A i \in DOMAIN reports \ kept :
               \/ TooSmall(c, reports[i])
               \/ SizesOf(reports, EarlierOf(kept, i) \cup {i}) > c.cap
  <1> DEFINE n == Len(reports)
             f == [i \in 1..n |-> reports[i].size]
             before(i) == EarlierOf(kept, i)
             upTo(i) == EarlierOf(kept, i) \cup {i}
  <1>1. n \in Nat /\ DOMAIN reports = 1..n /\ \A i \in 1..n : reports[i] \in Report
    <2> HIDE DEF Report
    <2> QED
      OBVIOUS
  <1>2. \A i \in 1..n : f[i] \in Int /\ f[i] = reports[i].size
    BY <1>1 DEF Report
  <1>3. c.cap \in Int
    BY DEF ConfigTypes
  <1>4. /\ kept \subseteq 1..n
        /\ \A i \in 1..n :
              i \in kept <=> ~TooSmall(c, reports[i])
                             /\ SizesOf(reports, before(i)) + reports[i].size <= c.cap
    BY ReplayIs
  <1> HIDE DEF n, f
  <1>5. \A S \in SUBSET (1..n) :
           /\ Sums!AddsUp(f, S, f)
           /\ SizesOf(reports, S) = Sums!Total(f, S) /\ Sums!Total(f, S) \in Int
    <2> SUFFICES ASSUME NEW S \in SUBSET (1..n)
                 PROVE  /\ Sums!AddsUp(f, S, f)
                        /\ SizesOf(reports, S) = Sums!Total(f, S) /\ Sums!Total(f, S) \in Int
      OBVIOUS
    <2>1. IsFiniteSet(S)
      BY <1>1, IntervalsFinite, FS_Subset
    <2>2. Ints(f, S)
      BY <1>2 DEF Ints
    <2> DEFINE g == [i \in S |-> reports[i].size]
    <2>3. DOMAIN g = S /\ \A i \in S : g[i] = f[i]
      BY <1>2
    <2>4. SizesOf(reports, S) = SumFunction(g)
      BY DEF SizesOf
    <2> HIDE DEF g
    <2>5. SumFunction(g) = Sums!Total(f, S) /\ Sums!Total(f, S) \in Int
      BY <2>1, <2>2, <2>3, SumOfSet
    <2> QED
      BY <2>1, <2>2, <2>4, <2>5, ValuesAddUp
  <1>6. \A i \in 1..n : before(i) \in SUBSET (1..n) /\ upTo(i) \in SUBSET (1..n) /\ i \notin before(i)
    BY <1>1, <1>4 DEF EarlierOf
  <1>7. \A i \in 1..n :
           /\ SizesOf(reports, upTo(i)) = reports[i].size + SizesOf(reports, before(i))
           /\ SizesOf(reports, before(i)) \in Int /\ reports[i].size \in Int
    <2> SUFFICES ASSUME NEW i \in 1..n
                 PROVE  /\ SizesOf(reports, upTo(i)) = reports[i].size + SizesOf(reports, before(i))
                        /\ SizesOf(reports, before(i)) \in Int /\ reports[i].size \in Int
      OBVIOUS
    <2> DEFINE S == before(i)
               T == upTo(i)
    <2>1. T = S \cup {i} /\ S \in SUBSET (1..n) /\ T \in SUBSET (1..n) /\ i \notin S
      BY <1>6
    <2> HIDE DEF S, T
    <2>2. Sums!AddsUp(f, T, f)
      BY <1>5, <2>1
    <2>3. Sums!Total(f, T) = f[i] + Sums!Total(f, S)
      BY <2>1, <2>2, AnyOfIn, Sums!TotalAdds
    <2>4. SizesOf(reports, T) = reports[i].size + SizesOf(reports, S)
          /\ SizesOf(reports, S) \in Int /\ reports[i].size \in Int
      BY <1>2, <1>5, <2>1, <2>3
    <2> QED
      BY <2>4 DEF S, T
  <1>8. ASSUME kept # {} PROVE SizesOf(reports, kept) <= c.cap
    <2>1. PICK last \in kept : \A i \in kept : last >= i
      BY <1>1, <1>4, <1>8, Sums!IntervalHasMax
    <2>2. last \in 1..n /\ kept = upTo(last)
      BY <1>1, <1>4, <2>1 DEF EarlierOf
    <2>3. SizesOf(reports, before(last)) + reports[last].size <= c.cap
      BY <1>4, <2>1, <2>2
    <2> HIDE DEF before, upTo
    <2>4. SizesOf(reports, upTo(last)) <= c.cap
      BY <1>3, <1>7, <2>2, <2>3
    <2> QED
      BY <2>2, <2>4
  <1>9. ASSUME NEW i \in DOMAIN reports \ kept, ~TooSmall(c, reports[i])
        PROVE  SizesOf(reports, upTo(i)) > c.cap
    <2>1. i \in 1..n /\ ~(SizesOf(reports, before(i)) + reports[i].size <= c.cap)
      BY <1>1, <1>4, <1>9
    <2> HIDE DEF before, upTo
    <2> QED
      BY <1>3, <1>7, <2>1
  <1> QED
    BY <1>8, <1>9

Gains(reports, chosen) == SumFunction([i \in chosen |-> Net(reports[i])])

GainsByDay(reports, kept, daily) ==
    /\ DOMAIN daily = {reports[i].day : i \in DOMAIN reports}
    /\ \A d \in DOMAIN daily : daily[d] = Gains(reports, {i \in kept : reports[i].day = d})

\* What was kept, added up by day.
LEMMA DaysAddUp ==
  ASSUME NEW reports \in Seq(Report), NEW kept \in SUBSET (1..Len(reports)),
         NEW daily, GainsByDay(reports, kept, daily)
  PROVE  Gains(reports, kept) = SumFunction([d \in DOMAIN daily |-> daily[d]])
  <1> DEFINE n == Len(reports)
             f == [i \in 1..n |-> Net(reports[i])]
             part == [i \in 1..n |-> reports[i].day]
             D == DOMAIN daily
             g == [d \in D |-> daily[d]]
  <1>1. n \in Nat /\ DOMAIN reports = 1..n /\ \A i \in 1..n : reports[i] \in Report
    <2> HIDE DEF Report
    <2> QED
      OBVIOUS
  <1>2. \A i \in 1..n : f[i] \in Int /\ f[i] = Net(reports[i])
    BY <1>1 DEF Report, Net
  <1>3. \A i \in 1..n : part[i] = reports[i].day /\ part[i] \in D
    BY <1>1 DEF GainsByDay
  <1>4. DOMAIN g = D /\ \A d \in D : g[d] = daily[d]
    OBVIOUS
  <1>5. IsFiniteSet(D)
    <2>1. part \in Surjection(1..n, D)
      BY <1>1, <1>3 DEF Surjection, GainsByDay
    <2> QED
      BY <1>1, <2>1, IntervalsFinite, FS_Surjection
  <1>6. kept \subseteq 1..n
    OBVIOUS
  <1> HIDE DEF n, f, part, g
  <1>7. \A S \in SUBSET kept :
           /\ Sums!AddsUp(f, S, f)
           /\ Gains(reports, S) = Sums!Total(f, S) /\ Sums!Total(f, S) \in Int
    <2> SUFFICES ASSUME NEW S \in SUBSET kept
                 PROVE  /\ Sums!AddsUp(f, S, f)
                        /\ Gains(reports, S) = Sums!Total(f, S) /\ Sums!Total(f, S) \in Int
      OBVIOUS
    <2>1. IsFiniteSet(S) /\ S \subseteq 1..n
      BY <1>1, <1>6, IntervalsFinite, FS_Subset
    <2>2. Ints(f, S)
      BY <1>2, <2>1 DEF Ints
    <2> DEFINE h == [i \in S |-> Net(reports[i])]
    <2>3. DOMAIN h = S /\ \A i \in S : h[i] = f[i]
      BY <1>2, <2>1
    <2>4. Gains(reports, S) = SumFunction(h)
      BY DEF Gains
    <2> HIDE DEF h
    <2>5. SumFunction(h) = Sums!Total(f, S) /\ Sums!Total(f, S) \in Int
      BY <2>1, <2>2, <2>3, SumOfSet
    <2> QED
      BY <2>1, <2>2, <2>4, <2>5, ValuesAddUp
  <1> DEFINE Of(d) == {i \in kept : part[i] = d}
  <1>8. \A d \in D : g[d] = Sums!Total(f, Of(d)) /\ g[d] \in Int
    <2> SUFFICES ASSUME NEW d \in D PROVE g[d] = Sums!Total(f, Of(d)) /\ g[d] \in Int
      OBVIOUS
    <2>1. Of(d) \in SUBSET kept /\ Of(d) = {i \in kept : reports[i].day = d}
      BY <1>3, <1>6
    <2>2. g[d] = Gains(reports, Of(d))
      BY <1>4, <2>1 DEF GainsByDay
    <2> HIDE DEF Of
    <2> QED
      BY <1>7, <2>1, <2>2
  <1>9. Sums!AddsUp(g, D, g)
    <2>1. Ints(g, D)
      BY <1>8 DEF Ints
    <2> QED
      BY <1>5, <2>1, ValuesAddUp
  <1>10. Sums!AddsUp(f, kept, f) /\ Gains(reports, kept) = Sums!Total(f, kept)
    BY <1>7
  <1>11. Sums!SumsOfParts(f, kept, part, D, g)
    <2>1. \A i \in kept : part[i] \in D
      BY <1>3, <1>6
    <2> QED
      BY <1>8, <2>1 DEF Sums!SumsOfParts
  <1> HIDE DEF D
  <1>12. Sums!Total(g, D) = Sums!Total(f, kept)
    BY <1>9, <1>10, <1>11, AnyOfIn, Sums!TotalParts
  <1>13. SumFunction(g) = Sums!Total(g, D)
    BY <1>4, SumIsTotal
  <1> QED
    BY <1>10, <1>12, <1>13 DEF g, D

-----------------------------------------------------------------------------
(* The sandbox                                                             *)

LEMMA NothingAddsUp == \A g : DOMAIN g = 1..0 => SumFunction(g) = 0
  <1> SUFFICES ASSUME NEW g, DOMAIN g = 1..0 PROVE SumFunction(g) = 0
    OBVIOUS
  <1>1. Ints(g, 1..0)
    BY DEF Ints
  <1>2. SumFunction(g) = SumTo(g, 0) /\ SumTo(g, 0) = 0
    BY <1>1, SumOfSeries, RunningSum DEF Runs
  <1> QED
    BY <1>2

\* Detectors that have seen one scan, or none, find no change.
LEMMA NoMemoryNoChange ==
  ASSUME NEW c, NEW depths, NEW volume
  PROVE  /\ LiquiditySignals(c, <<depths>>) = {} /\ LiquiditySignals(c, <<>>) = {}
         /\ VolumeSignals(c, <<volume>>) = {}
  <1>1. \A i, side : Wipeout(c, <<depths>>, i, side) = {}
    <2> SUFFICES ASSUME NEW i, NEW side PROVE Wipeout(c, <<depths>>, i, side) = {}
      OBVIOUS
    <2> DEFINE window == <<depths>>
               g == [k \in 1..(Len(window) - 1) |-> window[k][i]]
    <2>1. Len(window) - 1 = 0
      OBVIOUS
    <2>2. DOMAIN g = 1..0
      BY <2>1
    <2>3. ~(SumFunction(g) > 0)
      <3> HIDE DEF g
      <3>1. SumFunction(g) = 0
        BY <2>2, NothingAddsUp
      <3> QED
        BY <3>1
    <2> QED
      BY <2>3 DEF Wipeout
  <1>2. LiquiditySignals(c, <<depths>>) = {}
    BY <1>1 DEF LiquiditySignals
  <1>3. LiquiditySignals(c, <<>>) = {}
    <2>1. Len(<<>>) < MinDepths
      BY SignalsAssumption
    <2> QED
      BY <2>1 DEF LiquiditySignals
  <1>4. VolumeSignals(c, <<volume>>) = {}
    <2>1. Len(<<volume>>) - 1 = 0
      OBVIOUS
    <2> QED
      BY <2>1 DEF VolumeSignals
  <1> QED
    BY <1>2, <1>3, <1>4

\* Of the strategies it shows, the sandbox finds what any detectors of the same
\* configuration find that are given the same siblings.
LEMMA TrialShows ==
  ASSUME reading \in Readings, NEW c \in ConfigTypes, NEW depths, NEW volumes, NEW among
  PROVE  /\ \A s \in TrialFound(c) : s.kind \in SingleKinds \ NeedMore /\ Fielded(s)
         /\ \A kind \in SingleKinds \ NeedMore :
               (kind = "stale" => among = DOMAIN reading.siblings) =>
                   {s \in TrialFound(c) : s.kind = kind}
                     = {s \in Found(c, depths, volumes, among) : s.kind = kind}
  <1> DEFINE e == [c EXCEPT !.enabled = @ \ {"model"}]
             one == IF reading.books = <<>> THEN <<>> ELSE <<Depths>>
             two == <<reading.volume>>
             sibs == DOMAIN reading.siblings
             trial(kind) == Part(e, one, two, sibs, kind)
             part(kind) == Part(c, depths, volumes, among, kind)
  <1>1. /\ e.enabled = c.enabled \ {"model"} /\ e.minDropPct = c.minDropPct
        /\ e.minDivergence = c.minDivergence /\ e.targetSpread = c.targetSpread
        /\ e.minNet = c.minNet
    BY DEF ConfigTypes
  <1>2. TrialFound(c) = Found(e, one, two, sibs)
    BY DEF TrialFound
  <1> HIDE DEF e
  <1>3. LiquiditySignals(e, one) = {} /\ VolumeSignals(e, two) = {}
    BY NoMemoryNoChange
  <1> HIDE DEF one, two, sibs
  <1>4. \A kind, i, side, gross, worth :
           Bet(e, kind, i, side, gross, worth) = Bet(c, kind, i, side, gross, worth)
    BY <1>1 DEF Bet
  <1>5. \A kind, i, change : Follow(e, kind, i, change) = Follow(c, kind, i, change)
    BY <1>4 DEF Follow
  <1>6. \A x : StaleSignals(e, x) = StaleSignals(c, x)
    BY <1>1, <1>5 DEF StaleSignals
  <1>7. ResolutionSignals(e) = ResolutionSignals(c)
    <2> DEFINE open == reading.hours \in 1..MaxHours /\ reading.volume >= MinVolume
               near == {i \in Outcomes \cap DOMAIN reading.books :
                           reading.mids[i] \in MinPrice..MaxPrice}
               gross(i) == <<Dollar - reading.mids[i], 1>>
               worth(i) == <<Dollar * MaxPosition
                               - Estimate(reading.books[i], "buy", MaxPosition).cost, MaxPosition>>
               bet(d, i) == Bet(d, "resolution", i, "buy", gross(i), worth(i))
    <2>1. \A d : ResolutionSignals(d) = IF open THEN UNION {bet(d, i) : i \in near} ELSE {}
      BY DEF ResolutionSignals
    <2>2. \A i : bet(e, i) = bet(c, i)
      BY <1>4
    <2> HIDE DEF open, near, bet
    <2>3. {bet(e, i) : i \in near} = {bet(c, i) : i \in near}
      BY <2>2
    <2> QED
      BY <2>1, <2>3
  <1>8. QuoteSignals(e) = QuoteSignals(c)
    <2>1. \A book : Quote(e, book) = Quote(c, book)
      BY <1>1 DEF Quote
    <2> QED
      BY <2>1 DEF QuoteSignals
  <1>9. /\ among = sibs => trial("stale") = part("stale")
        /\ trial("resolution") = part("resolution") /\ trial("quote") = part("quote")
    <2>1. \A kind \in {"stale", "resolution", "quote"} : kind \in e.enabled <=> kind \in c.enabled
      BY <1>1
    <2>2. among = sibs => trial("stale") = part("stale")
      BY <1>6, <2>1 DEF Part
    <2>3. trial("resolution") = part("resolution")
      BY <1>7, <2>1, PartsAre
    <2>4. trial("quote") = part("quote")
      BY <1>8, <2>1 DEF Part
    <2> QED
      BY <2>2, <2>3, <2>4
  <1>10. trial("liquidity") = {} /\ trial("volume") = {} /\ trial("model") = {}
    <2>1. trial("liquidity") = {} /\ trial("volume") = {}
      BY <1>3, PartsAre
    <2>2. trial("model") = {}
      BY <1>1, PartsAre
    <2> QED
      BY <2>1, <2>2
  <1>11. \A s \in TrialFound(c) : s.kind \in SingleKinds /\ s \in trial(s.kind) /\ Fielded(s)
    BY <1>2, FoundIsParts, FoundIsBetting DEF Betting
  <1>12. \A kind \in SingleKinds :
            /\ {s \in TrialFound(c) : s.kind = kind} = trial(kind)
            /\ {s \in Found(c, depths, volumes, among) : s.kind = kind} = part(kind)
    BY <1>2, FoundIsParts
  <1> HIDE DEF trial, part
  <1>13. \A s \in TrialFound(c) : s.kind \in SingleKinds \ NeedMore /\ Fielded(s)
    BY <1>10, <1>11 DEF NeedMore
  <1>14. \A kind \in SingleKinds \ NeedMore : (kind = "stale" => among = sibs) => trial(kind) = part(kind)
    BY <1>9 DEF SingleKinds, NeedMore
  <1> QED
    BY <1>12, <1>13, <1>14 DEF sibs

\* What refinement and the same minimum leave of two sets that are alike in some kinds
\* is alike in them.
LEMMA RetainedAlike ==
  ASSUME NEW T, NEW F, NEW min, NEW Kinds,
         \A s \in T \cup F : Fielded(s),
         \A kind \in Kinds : {s \in T : s.kind = kind} = {s \in F : s.kind = kind}
  PROVE  {s \in Retained(T, min) : s.kind \in Kinds} = {s \in Retained(F, min) : s.kind \in Kinds}
  <1>1. \A s \in T \cup F : RefinedSignal(s).kind = s.kind
    BY RefinedKeeps
  <1>2. \A s : s.kind \in Kinds => (s \in T <=> s \in F)
    <2> SUFFICES ASSUME NEW s, s.kind \in Kinds PROVE s \in T <=> s \in F
      OBVIOUS
    <2>1. {t \in T : t.kind = s.kind} = {t \in F : t.kind = s.kind}
      OBVIOUS
    <2> QED
      BY <2>1
  <1>3. \A s : s \in Retained(T, min) /\ s.kind \in Kinds => s \in Retained(F, min)
    BY <1>1, <1>2 DEF Retained
  <1>4. \A s : s \in Retained(F, min) /\ s.kind \in Kinds => s \in Retained(T, min)
    BY <1>1, <1>2 DEF Retained
  <1> QED
    BY <1>3, <1>4

ComparableKinds == {kind \in SingleKinds : Comparable(kind)}

\* With the settings of the engine's detectors.
LEMMA TrialOfTheEngines ==
  ASSUME SignalsInv, scanned
  PROVE  /\ \A kind \in ComparableKinds :
               {s \in TrialFound(loopConfig) : s.kind = kind} = OfKind(kind)
         /\ retainedBy = loopConfig.minNet => Alike(TrialShown(loopConfig))
         /\ \A kind \in SingleKinds : OfKind(kind) # {} => kind \in loopConfig.enabled
  <1> DEFINE c == loopConfig
             T == TrialFound(c)
  <1>1. reading \in Readings /\ c \in ConfigTypes
        /\ found = Found(c, depthHistory, volumeHistory, beside)
        /\ signals = Retained(found, retainedBy)
    BY SignalsAssumption DEF SignalsInv
  <1>2. /\ \A s \in T : s.kind \in SingleKinds \ NeedMore /\ Fielded(s)
        /\ \A kind \in ComparableKinds : {s \in T : s.kind = kind} = {s \in found : s.kind = kind}
    BY <1>1, TrialShows DEF ComparableKinds, Comparable
  <1>3. \A s \in found : s.kind \in SingleKinds /\ Fielded(s)
    BY <1>1, FoundIsBetting DEF Betting
  <1>4. \A kind \in SingleKinds : OfKind(kind) # {} => kind \in c.enabled
    BY <1>1, FoundIsParts DEF OfKind, Part
  <1> HIDE DEF T, c
  <1>5. ASSUME retainedBy = c.minNet PROVE Alike(Retained(T, c.minNet))
    <2>1. {s \in Retained(T, c.minNet) : s.kind \in ComparableKinds}
            = {s \in signals : s.kind \in ComparableKinds}
      BY <1>1, <1>2, <1>3, <1>5, RetainedAlike
    <2>2. \A s \in Retained(T, c.minNet) \cup signals : s.kind \in SingleKinds
      BY <1>1, <1>2, <1>3, RefinedKeeps DEF Retained
    <2> QED
      BY <2>1, <2>2 DEF Alike, ComparableKinds
  <1> QED
    BY <1>2, <1>4, <1>5 DEF OfKind, T, c, TrialShown

\* What is shown is never of a strategy that needs more.
LEMMA ShownAreShown ==
  ASSUME reading \in Readings, NEW c \in ConfigTypes, NEW s \in TrialShown(c)
  PROVE  s.kind \notin NeedMore
  <1>1. PICK o \in TrialFound(c) : s = RefinedSignal(o)
    BY DEF TrialShown, Retained
  <1> QED
    BY <1>1, TrialShows, RefinedKeeps

\* A verdict that claims an opportunity.
TellsOf(c, kind) ==
    kind \in c.enabled /\ kind # "model" /\ \E s \in TrialFound(c) : s.kind = kind

\* The answers about the market as it is, of an override or, in a sweep, of one with a
\* setting more.
LEMMA TrialsKept ==
  ASSUME SignalsInv, Ask
  PROVE  TrialsAgree'
  <1>1. /\ UNCHANGED <<config, loopConfig, reading, scanned, found, signals, beside, retainedBy>>
        /\ reading \in Readings /\ config \in Configs
    BY DEF Ask, signalVars, SignalsInv
  <1>2. /\ \A kind : Comparable(kind)' = Comparable(kind) /\ OfKind(kind)' = OfKind(kind)
        /\ \A ov : OfTheEngine(ov)' = OfTheEngine(ov)
    BY <1>1 DEF Comparable, OfKind, OfTheEngine, WithOverrides
  <1>3. \A ov, shown : Agrees(ov, shown)' = Agrees(ov, shown)
    <2>1. \A shown : Alike(shown)' = Alike(shown)
      BY <1>1, <1>2 DEF Alike
    <2> QED
      BY <1>1, <1>2, <2>1 DEF Agrees
  <1>4. ASSUME NEW ov, WithOverrides(config, ov) \in ConfigTypes
        PROVE  Agrees(ov, TrialShown(WithOverrides(config, ov)))
    BY <1>1, <1>4, ShownAreShown, TrialOfTheEngines DEF Agrees, OfTheEngine
  <1>5. ASSUME NEW ov \in Overrides
        PROVE  /\ WithOverrides(config, ov) \in ConfigTypes
               /\ \A sweep \in Sweeps : \A i \in DOMAIN sweep.values :
                     Parses(sweep.values[i]) =>
                         WithOverrides(config, Applied(ov, sweep.param, sweep.values[i])) \in ConfigTypes
    BY <1>1, SandboxAssumption DEF WithOverrides
  <1>6. TrialsAgree' <=>
           /\ answer'.request = "detect" => Agrees(answer'.overrides, answer'.shown)
           /\ answer'.request = "sweep" =>
                 \A i \in DOMAIN answer'.points :
                     Agrees(answer'.points[i].overrides, answer'.points[i].shown)
           /\ answer'.request = "explain" =>
                 \A kind \in SingleKinds :
                     /\ answer'.verdicts[kind] = "opportunity_found" => kind \notin NeedMore
                     /\ OfTheEngine(answer'.overrides) /\ Comparable(kind) =>
                           (answer'.verdicts[kind] = "opportunity_found" <=> OfKind(kind) # {})
    BY <1>2, <1>3 DEF TrialsAgree
  <1>7. ASSUME NEW ov \in Overrides, TryDetect(ov) PROVE TrialsAgree'
    <2>1. /\ answer'.request = "detect" /\ answer'.overrides = ov
          /\ answer'.shown = TrialShown(WithOverrides(config, ov))
      BY <1>7 DEF TryDetect
    <2> QED
      BY <1>4, <1>5, <1>6, <2>1
  <1>8. ASSUME NEW ov \in Overrides, NEW sweep \in Sweeps, Sweep(ov, sweep) PROVE TrialsAgree'
    <2>1. CASE answer' = [request |-> "refused"]
      BY <1>6, <2>1
    <2>2. CASE /\ \A v \in Range(sweep.values) : Parses(v)
               /\ answer' = [request |-> "sweep",
                             points |-> [i \in DOMAIN sweep.values |->
                                 LET o == Applied(ov, sweep.param, sweep.values[i])
                                 IN  [overrides |-> o,
                                      shown |-> TrialShown(WithOverrides(config, o))]]]
      <3>1. /\ answer'.request = "sweep" /\ DOMAIN answer'.points = DOMAIN sweep.values
            /\ \A i \in DOMAIN sweep.values :
                  LET o == Applied(ov, sweep.param, sweep.values[i])
                  IN  /\ answer'.points[i].overrides = o
                      /\ answer'.points[i].shown = TrialShown(WithOverrides(config, o))
        BY <2>2
      <3>2. \A i \in DOMAIN sweep.values :
               WithOverrides(config, Applied(ov, sweep.param, sweep.values[i])) \in ConfigTypes
        BY <1>5, <2>2 DEF Range
      <3> QED
        BY <1>4, <1>6, <3>1, <3>2
    <2> QED
      BY <1>8, <2>1, <2>2 DEF Sweep
  <1>9. ASSUME NEW ov \in Overrides, Explain(ov) PROVE TrialsAgree'
    <2> DEFINE c == WithOverrides(config, ov)
    <2>1. /\ answer'.request = "explain" /\ answer'.overrides = ov
          /\ \A kind \in SingleKinds :
                answer'.verdicts[kind]
                  = IF kind \notin c.enabled \/ kind = "model" THEN "skipped"
                    ELSE IF \E s \in TrialFound(c) : s.kind = kind THEN "opportunity_found"
                    ELSE "no_opportunity"
      BY <1>9 DEF Explain
    <2>2. \A kind \in SingleKinds :
             answer'.verdicts[kind] = "opportunity_found" <=> TellsOf(c, kind)
      BY <2>1 DEF TellsOf
    <2>3. c \in ConfigTypes
      BY <1>5
    <2> HIDE DEF c
    <2>4. \A kind \in SingleKinds : TellsOf(c, kind) => kind \notin NeedMore
      BY <1>1, <2>3, TrialShows DEF TellsOf
    <2>5. ASSUME NEW kind \in SingleKinds, OfTheEngine(ov), Comparable(kind)
          PROVE  TellsOf(c, kind) <=> OfKind(kind) # {}
      <3>1. c = loopConfig /\ scanned /\ kind \in ComparableKinds
        BY <2>5 DEF OfTheEngine, ComparableKinds, c
      <3>2. /\ {s \in TrialFound(c) : s.kind = kind} = OfKind(kind)
            /\ OfKind(kind) # {} => kind \in c.enabled
        BY <3>1, TrialOfTheEngines
      <3>3. kind # "model"
        BY <2>5 DEF Comparable, NeedMore
      <3> QED
        BY <3>2, <3>3 DEF TellsOf
    <2> QED
      BY <1>6, <2>1, <2>2, <2>4, <2>5
  <1>10. ASSUME NEW ov, NEW reports, Backtest(ov, reports) PROVE TrialsAgree'
    <2>1. answer'.request = "backtest"
      BY <1>10 DEF Backtest
    <2> QED
      BY <1>6, <2>1
  <1> QED
    BY <1>7, <1>8, <1>9, <1>10 DEF Ask

\* The answer about the history.
LEMMA ReplayKept ==
  ASSUME config \in Configs, Ask
  PROVE  ReplayAddsUp'
  <1>1. config' = config
    BY DEF Ask, signalVars
  <1>2. ASSUME NEW ov, TryDetect(ov) \/ Explain(ov) \/ (\E sweep : Sweep(ov, sweep))
        PROVE  ReplayAddsUp'
    <2>1. answer'.request # "backtest"
      BY <1>2 DEF TryDetect, Explain, Sweep
    <2> QED
      BY <2>1 DEF ReplayAddsUp
  <1>3. ASSUME NEW ov \in Overrides, NEW reports \in Histories, Backtest(ov, reports)
        PROVE  ReplayAddsUp'
    <2> DEFINE c == WithOverrides(config, ov)
               replay == Replay(c, reports)
               kept == LetThrough(replay)
               daily == answer'.daily
    <2>1. c \in ConfigTypes /\ reports \in Seq(Report)
      BY SandboxAssumption DEF WithOverrides, Report
    <2>2. /\ answer'.overrides = ov /\ answer'.reports = reports /\ answer'.replay = replay
          /\ answer'.pnl = Gains(reports, kept)
          /\ GainsByDay(reports, kept, daily)
      BY <1>3 DEF Backtest, Gains, GainsByDay
    <2> HIDE DEF c, replay, kept, daily
    <2>3. kept \subseteq 1..Len(reports)
      BY <2>1, ReplayIs DEF kept, replay
    <2>4. Gains(reports, kept) = SumFunction([d \in DOMAIN daily |-> daily[d]])
      BY <2>1, <2>2, <2>3, DaysAddUp
    <2>5. /\ kept # {} => SizesOf(reports, kept) <= c.cap
          /\ \A i \in DOMAIN reports \ kept :
                \/ TooSmall(c, reports[i])
                \/ SizesOf(reports, {j \in kept : j < i} \cup {i}) > c.cap
      BY <2>1, ReplayKeepsTheCap DEF kept, replay, EarlierOf
    <2> QED
      BY <1>1, <2>2, <2>4, <2>5 DEF ReplayAddsUp, kept, c, daily, WithOverrides
  <1> QED
    BY <1>2, <1>3 DEF Ask

SandboxInv == SignalsInv /\ SandboxHonest

\* Whatever the requests, in whatever order with polls, scans, restarts of the loop and
\* changes of the configuration: a trial with the engine's settings shows what the
\* engine's last scan left, of the strategies the two judge by the same, and a replay
\* keeps within the cap and adds up.
THEOREM SandboxAlwaysHonest == Spec => []SandboxHonest
  <1>1. Init => SandboxInv
    <2> SUFFICES ASSUME Init PROVE SandboxInv
      OBVIOUS
    <2>1. SignalInit /\ answer = NoAnswer
      BY DEF Init, SandboxInit
    <2>2. <<>> \in Seq(Nat \X Nat) /\ <<>> \in Seq(Nat)
      OBVIOUS
    <2>3. SignalsInv
      BY <2>1, <2>2, WindowsType, NothingSeen DEF SignalInit, SignalsInv
    <2>4. SandboxHonest
      BY <2>1 DEF NoAnswer, SandboxHonest, TrialsAgree, ReplayAddsUp
    <2> QED
      BY <2>3, <2>4 DEF SandboxInv
  <1>2. SandboxInv /\ [Next]_vars => SandboxInv'
    <2> SUFFICES ASSUME SandboxInv, [Next]_vars PROVE SandboxInv'
      OBVIOUS
    <2>1. SandboxNext \/ UNCHANGED sandboxVars
      <3>1. CASE Trying
        BY <3>1 DEF Trying
      <3>2. CASE UNCHANGED vars
        BY <3>2 DEF vars
      <3>3. CASE Offering \/ Studying \/ Estimating \/ Simulating
        BY <3>3 DEF Offering, Studying, Estimating, Simulating
      <3> QED
        BY <3>1, <3>2, <3>3 DEF Next
    <2>2. CASE Ask
      <3>1. UNCHANGED signalVars /\ SignalsInv /\ config \in Configs
        BY <2>2 DEF Ask, SandboxInv, SignalsInv
      <3> QED
        BY <2>2, <3>1, SignalsKept, TrialsKept, ReplayKept DEF SandboxInv, SandboxHonest
    <2>3. CASE SignalNext /\ answer' = NoAnswer
      <3>1. SandboxHonest'
        BY <2>3 DEF NoAnswer, SandboxHonest, TrialsAgree, ReplayAddsUp
      <3> QED
        BY <2>3, <3>1, SignalsKept DEF SandboxInv
    <2>4. CASE UNCHANGED sandboxVars
      <3>1. /\ UNCHANGED signalVars
            /\ UNCHANGED <<answer, config, loopConfig, reading, scanned, found, signals, beside,
                           retainedBy>>
        BY <2>4 DEF sandboxVars, signalVars
      <3>2. TrialsAgree' = TrialsAgree
        <4>1. \A kind : Comparable(kind)' = Comparable(kind) /\ OfKind(kind)' = OfKind(kind)
          BY <3>1 DEF Comparable, OfKind
        <4>2. \A ov, shown : Agrees(ov, shown)' = Agrees(ov, shown)
                             /\ OfTheEngine(ov)' = OfTheEngine(ov)
          BY <3>1, <4>1 DEF Agrees, Alike, OfTheEngine, WithOverrides
        <4> QED
          BY <3>1, <4>1, <4>2 DEF TrialsAgree
      <3>3. ReplayAddsUp' = ReplayAddsUp
        BY <3>1 DEF ReplayAddsUp, WithOverrides
      <3> QED
        BY <3>1, <3>2, <3>3, SignalsKept DEF SandboxInv, SandboxHonest
    <2> QED
      BY <2>1, <2>2, <2>3, <2>4 DEF SandboxNext
  <1> QED
    BY <1>1, <1>2, PTL DEF Spec, SandboxInv
=============================================================================
