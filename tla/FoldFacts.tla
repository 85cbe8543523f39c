------------------------------ MODULE FoldFacts ------------------------------
(***************************************************************************)
(* Facts about the folds of the community modules, proved by induction.    *)
(*                                                                         *)
(* FoldLeft, SumFunction and their relatives are all MapThenFoldSet: a     *)
(* function of the subsets of a set, chosen to satisfy its recursive       *)
(* equation.  That there is one has to be proved before anything can be    *)
(* said of a fold.  A proof about a fold takes an instance of this module, *)
(* with what the fold does at an element, and the element it takes first.  *)
(***************************************************************************)
EXTENDS Integers, Sequences, FiniteSets, FiniteSetTheorems, WellFoundedInduction, TLAPS

CONSTANTS
    Op(_, _, _), \* of what is folded (a sequence, a function), an element, and the
                 \* result for the rest
    Pick(_)      \* the element of a set that is folded last

\* MapThenFoldSet, over the subsets of S.
Equation(of, base, S, it) ==
    it = [s \in SUBSET S |->
            IF s = {} THEN base ELSE Op(of, Pick(s), it[s \ {Pick(s)}])]

Fold(of, base, S) == (CHOOSE it : Equation(of, base, S, it))[S]

-----------------------------------------------------------------------------
\* Induction, for a set of numbers: the library's theorems take an operator.
LEMMA NatSetInduction ==
  ASSUME NEW S \in SUBSET Nat, 0 \in S, \A n \in S : n + 1 \in S
  PROVE  S = Nat
  <1> SUFFICES ASSUME Nat \ S # {} PROVE FALSE
    OBVIOUS
  <1> DEFINE R == OpToRel(<, Nat)
  <1>1. IsWellFoundedOn(R, Nat)
    BY NatLessThanWellFounded
  <1>2. \A x, y \in Nat : x < y => <<x, y>> \in R
    BY DEF OpToRel
  <1> HIDE DEF R
  <1>3. PICK x \in Nat \ S : \A y \in Nat \ S : ~(<<y, x>> \in R)
    BY <1>1, WFMin
  <1>4. x # 0 /\ x - 1 \in Nat /\ x - 1 < x
    BY <1>3
  <1>5. x - 1 \in S
    BY <1>2, <1>3, <1>4
  <1> QED
    BY <1>3, <1>4, <1>5

\* A set of numbers has a smallest.
LEMMA NatSetHasMin ==
  ASSUME NEW S \in SUBSET Nat, S # {}
  PROVE  \E x \in S : \A y \in S : x <= y
  <1> DEFINE R == OpToRel(<, Nat)
  <1>1. IsWellFoundedOn(R, Nat)
    BY NatLessThanWellFounded
  <1>2. \A x, y \in Nat : x < y => <<x, y>> \in R
    BY DEF OpToRel
  <1> HIDE DEF R
  <1>3. PICK x \in S : \A y \in S : ~(<<y, x>> \in R)
    BY <1>1, WFMin
  <1>4. ASSUME NEW y \in S PROVE x <= y
    <2>1. x \in Nat /\ y \in Nat
      OBVIOUS
    <2>2. ~(y < x)
      BY <1>2, <1>3, <2>1
    <2> QED
      BY <2>1, <2>2
  <1> QED
    BY <1>4

\* Induction up to a number.
LEMMA UpToInduction ==
  ASSUME NEW n \in Nat, NEW S, 0 \in S, \A i \in 1..n : i - 1 \in S => i \in S
  PROVE  n \in S
  <1> DEFINE T == {k \in Nat : k <= n => k \in S}
  <1>1. 0 \in T
    OBVIOUS
  <1>2. \A k \in T : k + 1 \in T
    <2> SUFFICES ASSUME NEW k \in T, k + 1 <= n PROVE k + 1 \in S
      OBVIOUS
    <2>1. k \in Nat /\ k \in S
      OBVIOUS
    <2>2. k + 1 \in 1..n /\ (k + 1) - 1 = k
      BY <2>1
    <2> QED
      BY <2>1, <2>2
  <1>3. T \in SUBSET Nat
    OBVIOUS
  <1> HIDE DEF T
  <1>4. T = Nat
    BY <1>1, <1>2, <1>3, NatSetInduction
  <1> QED
    BY <1>4 DEF T

\* Induction over the subsets of a finite set, in the order a fold takes them apart.
LEMMA SubsetInduction ==
  ASSUME NEW S, IsFiniteSet(S), NEW P \in SUBSET (SUBSET S),
         {} \in P,
         \A s \in SUBSET S : s # {} => Pick(s) \in s,
         \A s \in SUBSET S : s # {} /\ s \ {Pick(s)} \in P => s \in P
  PROVE  P = SUBSET S
  <1> DEFINE Good == {k \in Nat : \A s \in SUBSET S : Cardinality(s) = k => s \in P}
  <1>1. \A s \in SUBSET S : IsFiniteSet(s) /\ Cardinality(s) \in Nat
    BY FS_Subset, FS_CardinalityType
  <1>2. 0 \in Good
    <2> SUFFICES ASSUME NEW s \in SUBSET S, Cardinality(s) = 0 PROVE s \in P
      OBVIOUS
    <2>1. s = {}
      BY <1>1, FS_EmptySet
    <2> QED
      BY <2>1
  <1>3. \A k \in Good : k + 1 \in Good
    <2> SUFFICES ASSUME NEW k \in Good, NEW s \in SUBSET S, Cardinality(s) = k + 1
                 PROVE  s \in P
      OBVIOUS
    <2>1. k \in Nat /\ s # {}
      <3>1. k + 1 # 0 /\ k \in Nat
        OBVIOUS
      <3>2. Cardinality({}) = 0
        BY FS_EmptySet
      <3> QED
        BY <3>1, <3>2
    <2>2. Pick(s) \in s /\ s \ {Pick(s)} \in SUBSET S
      BY <2>1
    <2>3. Cardinality(s \ {Pick(s)}) = k
      BY <1>1, <2>1, <2>2, FS_RemoveElement
    <2>4. s \ {Pick(s)} \in P
      BY <2>2, <2>3
    <2> QED
      BY <2>1, <2>4
  <1> HIDE DEF Good
  <1>4. Good = Nat
    <2>1. Good \in SUBSET Nat
      BY DEF Good
    <2> QED
      BY <1>2, <1>3, <2>1, NatSetInduction
  <1> QED
    BY <1>1, <1>4 DEF Good

\* A fold over the finite set S, and over all its subsets.
Unwinds(of, base, S, it) ==
    /\ it[{}] = base
    /\ \A s \in SUBSET S : s # {} => it[s] = Op(of, Pick(s), it[s \ {Pick(s)}])
    /\ Fold(of, base, S) = it[S]

\* A fold over a finite set satisfies its equation.
LEMMA FoldUnwinds ==
  ASSUME NEW of, NEW base, NEW S, IsFiniteSet(S),
         \A s \in SUBSET S : s # {} => Pick(s) \in s
  PROVE  \E it : Unwinds(of, base, S, it)
  <1> DEFINE Low(k) == {s \in SUBSET S : Cardinality(s) <= k}
             Step(g, s) == IF s = {} THEN base ELSE Op(of, Pick(s), g[s \ {Pick(s)}])
             Part(g, k) == [s \in Low(k) |-> Step(g, s)]
             Good == {k \in Nat : \E g : g = Part(g, k)}
  <1>1. \A s \in SUBSET S : IsFiniteSet(s) /\ Cardinality(s) \in Nat
    BY FS_Subset, FS_CardinalityType
  <1>2. 0 \in Good
    <2> DEFINE g0 == [s \in Low(0) |-> base]
    <2>1. \A s \in Low(0) : s = {}
      <3> SUFFICES ASSUME NEW s \in Low(0) PROVE s = {}
        OBVIOUS
      <3>1. Cardinality(s) = 0 /\ IsFiniteSet(s)
        BY <1>1
      <3> QED
        BY <3>1, FS_EmptySet
    <2> HIDE DEF Low
    <2>2. g0 = Part(g0, 0)
      BY <2>1
    <2> QED
      BY <2>2
  <1>3. \A k \in Good : k + 1 \in Good
    <2> SUFFICES ASSUME NEW k \in Good PROVE k + 1 \in Good
      OBVIOUS
    <2>1. k \in Nat
      OBVIOUS
    <2>2. PICK g : g = Part(g, k)
      <3> HIDE DEF Part
      <3> QED
        OBVIOUS
    <2> DEFINE h == [s \in Low(k + 1) |-> Step(g, s)]
    <2>3. \A s \in Low(k) : s \in Low(k + 1)
      BY <1>1, <2>1
    <2>4. \A s \in Low(k) : h[s] = g[s]
      BY <2>2, <2>3
    <2>5. \A s \in Low(k + 1) : s # {} => s \ {Pick(s)} \in Low(k)
      <3> SUFFICES ASSUME NEW s \in Low(k + 1), s # {}
                   PROVE  s \ {Pick(s)} \in Low(k)
        OBVIOUS
      <3>1. s \in SUBSET S /\ Cardinality(s) <= k + 1 /\ Pick(s) \in s
        OBVIOUS
      <3>2. Cardinality(s \ {Pick(s)}) = Cardinality(s) - 1
        BY <1>1, <3>1, FS_RemoveElement
      <3>3. Cardinality(s) \in Nat
        BY <1>1, <3>1
      <3>4. Cardinality(s \ {Pick(s)}) <= k
        BY <2>1, <3>1, <3>2, <3>3
      <3> QED
        BY <3>1, <3>4
    <2>6. \A s \in Low(k + 1) : h[s] = Step(h, s)
      <3> SUFFICES ASSUME NEW s \in Low(k + 1), s # {}
                   PROVE  h[s] = Op(of, Pick(s), h[s \ {Pick(s)}])
        OBVIOUS
      <3>1. h[s] = Op(of, Pick(s), g[s \ {Pick(s)}])
        OBVIOUS
      <3> HIDE DEF h, Low
      <3> QED
        BY <2>4, <2>5, <3>1
    <2>7. h = Part(h, k + 1)
      BY <2>6
    <2> HIDE DEF h
    <2>8. \E f : f = Part(f, k + 1)
      BY <2>7
    <2> HIDE DEF Part
    <2> QED
      BY <2>1, <2>8
  <1> HIDE DEF Good
  <1>4. Good = Nat
    <2>1. Good \in SUBSET Nat
      BY DEF Good
    <2> QED
      BY <1>2, <1>3, <2>1, NatSetInduction
  <1>5. Low(Cardinality(S)) = SUBSET S
    BY FS_Subset, FS_CardinalityType
  <1>6. Cardinality(S) \in Good
    BY <1>1, <1>4
  <1>7. \E g : Equation(of, base, S, g)
    BY <1>5, <1>6 DEF Good, Equation
  <1> DEFINE it == CHOOSE g : Equation(of, base, S, g)
  <1>8. Equation(of, base, S, it)
    BY <1>7
  <1>9. Fold(of, base, S) = it[S]
    BY DEF Fold
  <1> HIDE DEF it
  <1>10. it[{}] = base
    <2>1. {} \in SUBSET S
      OBVIOUS
    <2> QED
      BY <1>8, <2>1 DEF Equation
  <1>11. \A s \in SUBSET S : s # {} => it[s] = Op(of, Pick(s), it[s \ {Pick(s)}])
    BY <1>8 DEF Equation
  <1> QED
    BY <1>9, <1>10, <1>11 DEF Unwinds

\* The largest number of a set, which FoldLeft folds last.
Highest(s) == CHOOSE x \in s : \A y \in s : x >= y

LEMMA IntervalHasMax ==
  ASSUME NEW n \in Nat, NEW s \in SUBSET (1..n), s # {}
  PROVE  Highest(s) \in s /\ \A y \in s : Highest(s) >= y
  <1> DEFINE B == {m \in Nat : \A t \in SUBSET (1..m) : t # {} => \E x \in t : \A y \in t : x >= y}
  <1>1. 0 \in B
    <2>1. 1..0 = {}
      OBVIOUS
    <2> QED
      BY <2>1
  <1>2. \A m \in B : m + 1 \in B
    <2> SUFFICES ASSUME NEW m \in B, NEW t \in SUBSET (1..(m + 1)), t # {}
                 PROVE  \E x \in t : \A y \in t : x >= y
      OBVIOUS
    <2>1. CASE m + 1 \in t
      BY <2>1
    <2>2. CASE m + 1 \notin t
      <3>1. t \in SUBSET (1..m)
        BY <2>2
      <3> QED
        BY <3>1
    <2> QED
      BY <2>1, <2>2
  <1> HIDE DEF B
  <1>3. B = Nat
    <2>1. B \in SUBSET Nat
      BY DEF B
    <2> QED
      BY <1>1, <1>2, <2>1, NatSetInduction
  <1> QED
    BY <1>3 DEF B, Highest

\* The results of a fold over the numbers to n, number by number.
Runs(of, base, n, acc) ==
    /\ acc[0] = base
    /\ \A i \in 1..n : acc[i] = Op(of, i, acc[i - 1])
    /\ Fold(of, base, 1..n) = acc[n]

\* A fold over a sequence runs through it from its first element to its last.
LEMMA FoldRuns ==
  ASSUME NEW of, NEW base, NEW n \in Nat,
         \A s \in SUBSET (1..n) : Pick(s) = Highest(s)
  PROVE  \E acc : Runs(of, base, n, acc)
  <1>1. \A k \in 1..n : k \in 1..k /\ Highest(1..k) = k /\ (1..k) \ {k} = 1..(k - 1)
    <2> SUFFICES ASSUME NEW k \in 1..n
                 PROVE  k \in 1..k /\ Highest(1..k) = k /\ (1..k) \ {k} = 1..(k - 1)
      OBVIOUS
    <2>1. k \in 1..k /\ \A j \in 1..k : k >= j
      OBVIOUS
    <2>2. \A j \in 1..k : (\A i \in 1..k : j >= i) => j = k
      BY <2>1
    <2>3. Highest(1..k) = k
      BY <2>1, <2>2 DEF Highest
    <2> QED
      BY <2>1, <2>3
  <1>2. \A s \in SUBSET (1..n) : s # {} => Pick(s) \in s
    BY IntervalHasMax
  <1>3. IsFiniteSet(1..n)
    BY FS_Interval
  <1>4. PICK it : Unwinds(of, base, 1..n, it)
    BY <1>2, <1>3, FoldUnwinds
  <1> DEFINE acc == [i \in 0..n |-> it[1..i]]
  <1>5. acc[0] = base /\ Fold(of, base, 1..n) = acc[n]
    <2>1. 1..0 = {} /\ 0 \in 0..n /\ n \in 0..n
      OBVIOUS
    <2> QED
      BY <1>4, <2>1 DEF Unwinds
  <1>6. \A i \in 1..n : acc[i] = Op(of, i, acc[i - 1])
    <2> SUFFICES ASSUME NEW i \in 1..n PROVE acc[i] = Op(of, i, acc[i - 1])
      OBVIOUS
    <2>1. 1..i \in SUBSET (1..n) /\ 1..i # {} /\ i - 1 \in 0..n /\ i \in 0..n
      OBVIOUS
    <2>2. Pick(1..i) = i /\ (1..i) \ {i} = 1..(i - 1)
      BY <1>1
    <2>3. it[1..i] = Op(of, i, it[1..(i - 1)])
      BY <1>4, <2>1, <2>2 DEF Unwinds
    <2> QED
      BY <2>1, <2>3
  <1> QED
    BY <1>5, <1>6 DEF Runs

-----------------------------------------------------------------------------
(* What a fold keeps of a sequence: for folds that append the elements of a *)
(* set T and pass over the others.                                          *)
Keeps(seq, T) ==
    \A i, kept : Op(<<seq, T>>, i, kept) =
                    IF seq[i] \in T THEN Append(kept, seq[i]) ELSE kept

KeptOf(seq, T) == Fold(<<seq, T>>, <<>>, 1..Len(seq))

KeptSoFar(seq, T, acc) ==
    /\ acc[0] = <<>>
    /\ \A i \in 1..Len(seq) :
          acc[i] = IF seq[i] \in T THEN Append(acc[i - 1], seq[i]) ELSE acc[i - 1]
    /\ KeptOf(seq, T) = acc[Len(seq)]

LEMMA KeptRuns ==
  ASSUME NEW S, NEW T, NEW seq \in Seq(S), Keeps(seq, T),
         \A n \in Nat : \A s \in SUBSET (1..n) : Pick(s) = Highest(s)
  PROVE  \E acc : KeptSoFar(seq, T, acc)
  <1> DEFINE n == Len(seq)
             of == <<seq, T>>
  <1>1. n \in Nat
    OBVIOUS
  <1>2. \A i, kept : Op(of, i, kept) = IF seq[i] \in T THEN Append(kept, seq[i]) ELSE kept
    BY DEF Keeps
  <1>3. KeptOf(seq, T) = Fold(of, <<>>, 1..n)
    BY DEF KeptOf
  <1> HIDE DEF n, of
  <1>4. PICK acc : Runs(of, <<>>, n, acc)
    BY <1>1, FoldRuns
  <1>5. KeptSoFar(seq, T, acc)
    BY <1>2, <1>3, <1>4 DEF Runs, KeptSoFar, n
  <1> QED
    BY <1>5

\* The elements kept are of T.
LEMMA KeptType ==
  ASSUME NEW S, NEW T, NEW seq \in Seq(S), Keeps(seq, T),
         \A n \in Nat : \A s \in SUBSET (1..n) : Pick(s) = Highest(s)
  PROVE  KeptOf(seq, T) \in Seq(S \cap T)
  <1>1. PICK acc : KeptSoFar(seq, T, acc)
    BY KeptRuns
  <1> DEFINE Good == {k \in 0..Len(seq) : acc[k] \in Seq(S \cap T)}
  <1>2. 0 \in Good
    <2>1. acc[0] = <<>> /\ 0 \in 0..Len(seq)
      BY <1>1 DEF KeptSoFar
    <2>2. <<>> \in Seq(S \cap T)
      OBVIOUS
    <2> QED
      BY <2>1, <2>2
  <1>3. \A i \in 1..Len(seq) : i - 1 \in Good => i \in Good
    <2> SUFFICES ASSUME NEW i \in 1..Len(seq), i - 1 \in Good PROVE i \in Good
      OBVIOUS
    <2>1. acc[i] = IF seq[i] \in T THEN Append(acc[i - 1], seq[i]) ELSE acc[i - 1]
      BY <1>1 DEF KeptSoFar
    <2>2. acc[i - 1] \in Seq(S \cap T) /\ seq[i] \in S /\ i \in 0..Len(seq)
      OBVIOUS
    <2>3. acc[i] \in Seq(S \cap T)
      BY <2>1, <2>2
    <2> QED
      BY <2>2, <2>3
  <1>4. Len(seq) \in Nat
    OBVIOUS
  <1> HIDE DEF Good
  <1>5. Len(seq) \in Good
    BY <1>2, <1>3, <1>4, UpToInduction
  <1> QED
    BY <1>1, <1>5 DEF Good, KeptSoFar

\* Nothing is kept of nothing.
LEMMA KeptOfNothing ==
  ASSUME NEW T, Keeps(<<>>, T),
         \A n \in Nat : \A s \in SUBSET (1..n) : Pick(s) = Highest(s)
  PROVE  KeptOf(<<>>, T) = <<>>
  <1> DEFINE seq == <<>>
  <1>1. seq \in Seq({}) /\ Len(seq) = 0 /\ Keeps(seq, T)
    OBVIOUS
  <1> HIDE DEF seq
  <1>2. PICK acc : KeptSoFar(seq, T, acc)
    BY <1>1, KeptRuns
  <1>3. KeptOf(seq, T) = <<>>
    BY <1>1, <1>2 DEF KeptSoFar
  <1> QED
    BY <1>3 DEF seq

\* An element that is added is kept or not by itself.
GoesOn(seq, x, more, T) ==
    KeptOf(more, T) = IF x \in T THEN Append(KeptOf(seq, T), x) ELSE KeptOf(seq, T)

LEMMA KeptAppend ==
  ASSUME NEW S, NEW T, NEW seq \in Seq(S), NEW x \in S,
         NEW more, more = Append(seq, x), Keeps(seq, T), Keeps(more, T),
         \A n \in Nat : \A s \in SUBSET (1..n) : Pick(s) = Highest(s)
  PROVE  GoesOn(seq, x, more, T)
  <1> DEFINE n == Len(seq)
  <1>1. /\ n \in Nat /\ more \in Seq(S) /\ Len(more) = n + 1 /\ more[n + 1] = x
        /\ \A i \in 1..n : more[i] = seq[i]
    OBVIOUS
  <1> HIDE DEF n
  <1>3. PICK one : KeptSoFar(seq, T, one)
    BY KeptRuns
  <1>4. PICK two : KeptSoFar(more, T, two)
    BY <1>1, KeptRuns
  <1> DEFINE Good == {k \in 0..n : one[k] = two[k]}
  <1>5. 0 \in Good
    BY <1>1, <1>3, <1>4 DEF KeptSoFar
  <1>6. \A i \in 1..n : i - 1 \in Good => i \in Good
    <2> SUFFICES ASSUME NEW i \in 1..n, i - 1 \in Good PROVE i \in Good
      OBVIOUS
    <2>1. i \in 1..Len(more) /\ i \in 1..Len(seq)
      BY <1>1 DEF n
    <2>2. one[i] = IF seq[i] \in T THEN Append(one[i - 1], seq[i]) ELSE one[i - 1]
      BY <1>3, <2>1 DEF KeptSoFar
    <2>3. two[i] = IF more[i] \in T THEN Append(two[i - 1], more[i]) ELSE two[i - 1]
      BY <1>4, <2>1 DEF KeptSoFar
    <2> QED
      BY <1>1, <2>2, <2>3
  <1> HIDE DEF Good
  <1>7. n \in Good
    BY <1>1, <1>5, <1>6, UpToInduction
  <1>8. KeptOf(seq, T) = two[n]
    BY <1>3, <1>7 DEF Good, KeptSoFar, n
  <1>9. two[n + 1] = IF x \in T THEN Append(two[n], x) ELSE two[n]
    <2>1. n + 1 \in 1..Len(more) /\ (n + 1) - 1 = n
      BY <1>1
    <2> QED
      BY <1>1, <1>4, <2>1 DEF KeptSoFar
  <1>10. KeptOf(more, T) = two[n + 1]
    BY <1>1, <1>4 DEF KeptSoFar
  <1> QED
    BY <1>8, <1>9, <1>10 DEF GoesOn

\* If what is kept is what comes after the d-th element, it is that end of the
\* sequence.
LEMMA KeptIsTheEnd ==
  ASSUME NEW S, NEW T, NEW seq \in Seq(S), Keeps(seq, T),
         \A n \in Nat : \A s \in SUBSET (1..n) : Pick(s) = Highest(s),
         NEW d \in 0..Len(seq), \A i \in 1..Len(seq) : seq[i] \in T <=> i > d
  PROVE  KeptOf(seq, T) = SubSeq(seq, d + 1, Len(seq))
  <1>1. PICK acc : KeptSoFar(seq, T, acc)
    BY KeptRuns
  <1> DEFINE Good == {k \in 0..Len(seq) : acc[k] = SubSeq(seq, d + 1, k)}
  <1>2. 0 \in Good
    <2>1. acc[0] = <<>> /\ 0 \in 0..Len(seq)
      BY <1>1 DEF KeptSoFar
    <2>2. SubSeq(seq, d + 1, 0) = <<>>
      OBVIOUS
    <2> QED
      BY <2>1, <2>2
  <1>3. \A i \in 1..Len(seq) : i - 1 \in Good => i \in Good
    <2> SUFFICES ASSUME NEW i \in 1..Len(seq), i - 1 \in Good PROVE i \in Good
      OBVIOUS
    <2>1. acc[i] = IF i > d THEN Append(acc[i - 1], seq[i]) ELSE acc[i - 1]
      BY <1>1 DEF KeptSoFar
    <2>2. acc[i - 1] = SubSeq(seq, d + 1, i - 1)
      OBVIOUS
    <2>5. SUFFICES acc[i] = SubSeq(seq, d + 1, i)
      OBVIOUS
    <2> HIDE DEF Good
    <2>3. CASE i > d
      <3>1. Append(SubSeq(seq, d + 1, i - 1), seq[i]) = SubSeq(seq, d + 1, i)
        BY <2>3
      <3> QED
        BY <2>1, <2>2, <2>3, <3>1
    <2>4. CASE i <= d
      <3>1. SubSeq(seq, d + 1, i - 1) = <<>> /\ SubSeq(seq, d + 1, i) = <<>>
        BY <2>4
      <3> QED
        BY <2>1, <2>2, <2>4, <3>1
    <2> QED
      BY <2>3, <2>4
  <1>4. Len(seq) \in Nat
    OBVIOUS
  <1> HIDE DEF Good
  <1>5. Len(seq) \in Good
    BY <1>2, <1>3, <1>4, UpToInduction
  <1> QED
    BY <1>1, <1>5 DEF Good, KeptSoFar

\* What is kept of the first k elements, and where they stand.
KeptFrom(seq, T, k, w, at) ==
    /\ at \in [1..Len(w) -> 1..k]
    /\ \A i \in 1..Len(w) : w[i] = seq[at[i]] /\ seq[at[i]] \in T
    /\ \A i, j \in 1..Len(w) : i < j => at[i] < at[j]
    /\ \A p \in 1..k : seq[p] \in T => \E i \in 1..Len(w) : at[i] = p

LEMMA KeptPlaces ==
  ASSUME NEW S, NEW T, NEW seq \in Seq(S), Keeps(seq, T),
         \A n \in Nat : \A s \in SUBSET (1..n) : Pick(s) = Highest(s)
  PROVE  \E at : KeptFrom(seq, T, Len(seq), KeptOf(seq, T), at)
  <1>1. PICK acc : KeptSoFar(seq, T, acc)
    BY KeptRuns
  <1> DEFINE Good == {k \in 0..Len(seq) : /\ acc[k] \in Seq(S)
                                          /\ \E at : KeptFrom(seq, T, k, acc[k], at)}
  <1>2. 0 \in Good
    <2>1. acc[0] = <<>> /\ 0 \in 0..Len(seq)
      BY <1>1 DEF KeptSoFar
    <2> DEFINE w == <<>>
               at == [i \in 1..0 |-> 0]
    <2>2. acc[0] = w /\ w \in Seq(S) /\ Len(w) = 0
      BY <2>1
    <2>3. at \in [1..0 -> 1..0]
      OBVIOUS
    <2> HIDE DEF w, at
    <2>4. KeptFrom(seq, T, 0, acc[0], at)
      BY <2>2, <2>3 DEF KeptFrom
    <2> QED
      BY <2>1, <2>2, <2>4
  <1>3. \A k \in 1..Len(seq) : k - 1 \in Good => k \in Good
    <2> SUFFICES ASSUME NEW k \in 1..Len(seq), k - 1 \in Good PROVE k \in Good
      OBVIOUS
    <2> DEFINE w == acc[k - 1]
    <2>1. acc[k] = IF seq[k] \in T THEN Append(w, seq[k]) ELSE w
      BY <1>1 DEF KeptSoFar
    <2>2. PICK at : KeptFrom(seq, T, k - 1, w, at)
      OBVIOUS
    <2>3. w \in Seq(S) /\ Len(w) \in Nat /\ seq[k] \in S /\ k \in 0..Len(seq)
      OBVIOUS
    <2>4. SUFFICES acc[k] \in Seq(S) /\ \E g : KeptFrom(seq, T, k, acc[k], g)
      BY <2>3
    <2> HIDE DEF w, Good
    <2>5. CASE seq[k] \in T
      <3> DEFINE n == Len(w)
                 g == [i \in 1..(n + 1) |-> IF i = n + 1 THEN k ELSE at[i]]
                 v == acc[k]
      <3>1. v = Append(w, seq[k])
        BY <2>1, <2>5
      <3>2. v \in Seq(S) /\ Len(v) = n + 1 /\ v[n + 1] = seq[k]
        BY <2>3, <3>1
      <3>3. \A i \in 1..n : v[i] = w[i]
        BY <2>3, <3>1
      <3>4. n \in Nat
        BY <2>3
      <3>5. /\ at \in [1..n -> 1..(k - 1)]
            /\ \A i \in 1..n : w[i] = seq[at[i]] /\ seq[at[i]] \in T
            /\ \A i, j \in 1..n : i < j => at[i] < at[j]
            /\ \A p \in 1..(k - 1) : seq[p] \in T => \E i \in 1..n : at[i] = p
        BY <2>2 DEF KeptFrom
      <3>6. /\ g \in [1..(n + 1) -> 1..k] /\ g[n + 1] = k
            /\ \A i \in 1..n : g[i] = at[i] /\ i \in 1..(n + 1)
        BY <3>4, <3>5
      <3>7. \A i \in 1..(n + 1) : i = n + 1 \/ i \in 1..n
        BY <3>4
      <3>8. n + 1 \in 1..(n + 1)
        BY <3>4
      <3> HIDE DEF v, n, g
      <3>9. \A i \in 1..(n + 1) : v[i] = seq[g[i]] /\ seq[g[i]] \in T
        BY <2>5, <3>2, <3>3, <3>5, <3>6, <3>7
      <3>10. \A i, j \in 1..(n + 1) : i < j => g[i] < g[j]
        <4> SUFFICES ASSUME NEW i \in 1..(n + 1), NEW j \in 1..(n + 1), i < j PROVE g[i] < g[j]
          OBVIOUS
        <4>1. i \in 1..n /\ at[i] \in 1..(k - 1)
          BY <3>4, <3>5
        <4>2. CASE j = n + 1
          BY <3>6, <4>1, <4>2
        <4>3. CASE j \in 1..n
          BY <3>5, <3>6, <4>1, <4>3
        <4> QED
          BY <3>7, <4>2, <4>3
      <3>11. \A p \in 1..k : seq[p] \in T => \E i \in 1..(n + 1) : g[i] = p
        <4> SUFFICES ASSUME NEW p \in 1..k, seq[p] \in T PROVE \E i \in 1..(n + 1) : g[i] = p
          OBVIOUS
        <4>1. CASE p = k
          BY <3>6, <3>8, <4>1
        <4>2. CASE p # k
          <5>1. p \in 1..(k - 1)
            BY <4>2
          <5>2. PICK i \in 1..n : at[i] = p
            BY <3>5, <5>1
          <5> QED
            BY <3>6, <5>2
        <4> QED
          BY <4>1, <4>2
      <3>12. KeptFrom(seq, T, k, v, g)
        BY <3>2, <3>6, <3>9, <3>10, <3>11 DEF KeptFrom
      <3> QED
        BY <3>2, <3>12 DEF v
    <2>6. CASE seq[k] \notin T
      <3>1. acc[k] = w
        BY <2>1, <2>6
      <3>2. /\ at \in [1..Len(w) -> 1..(k - 1)]
            /\ \A p \in 1..(k - 1) : seq[p] \in T => \E i \in 1..Len(w) : at[i] = p
        BY <2>2 DEF KeptFrom
      <3>3. at \in [1..Len(w) -> 1..k]
        BY <3>2
      <3>4. \A p \in 1..k : seq[p] \in T => p \in 1..(k - 1)
        BY <2>6
      <3>5. KeptFrom(seq, T, k, w, at)
        BY <2>2, <3>2, <3>3, <3>4 DEF KeptFrom
      <3> QED
        BY <2>3, <3>1, <3>5
    <2> QED
      BY <2>5, <2>6
  <1>4. Len(seq) \in Nat
    OBVIOUS
  <1> HIDE DEF Good
  <1>5. Len(seq) \in Good
    BY <1>2, <1>3, <1>4, UpToInduction
  <1>6. acc[Len(seq)] = KeptOf(seq, T)
    BY <1>1 DEF KeptSoFar
  <1> QED
    BY <1>5, <1>6 DEF Good

\* If as many are kept as there are, they are all.
LEMMA KeptWhole ==
  ASSUME NEW S, NEW T, NEW seq \in Seq(S), Keeps(seq, T),
         \A n \in Nat : \A s \in SUBSET (1..n) : Pick(s) = Highest(s),
         Len(KeptOf(seq, T)) = Len(seq)
  PROVE  KeptOf(seq, T) = seq
  <1>1. PICK acc : KeptSoFar(seq, T, acc)
    BY KeptRuns
  <1> DEFINE Whole(k) == /\ acc[k] \in Seq(S) /\ Len(acc[k]) <= k
                         /\ Len(acc[k]) = k => acc[k] = SubSeq(seq, 1, k)
             Good == {k \in 0..Len(seq) : Whole(k)}
  <1>2. 0 \in Good
    <2>1. acc[0] = <<>> /\ 0 \in 0..Len(seq)
      BY <1>1 DEF KeptSoFar
    <2>2. <<>> \in Seq(S) /\ Len(<<>>) = 0 /\ SubSeq(seq, 1, 0) = <<>>
      OBVIOUS
    <2>3. Whole(0)
      BY <2>1, <2>2
    <2> QED
      BY <2>1, <2>3
  <1>3. \A i \in 1..Len(seq) : i - 1 \in Good => i \in Good
    <2> SUFFICES ASSUME NEW i \in 1..Len(seq), i - 1 \in Good PROVE i \in Good
      OBVIOUS
    <2>1. acc[i] = IF seq[i] \in T THEN Append(acc[i - 1], seq[i]) ELSE acc[i - 1]
      BY <1>1 DEF KeptSoFar
    <2>2. Whole(i - 1)
      OBVIOUS
    <2>3. Append(SubSeq(seq, 1, i - 1), seq[i]) = SubSeq(seq, 1, i)
      OBVIOUS
    <2> HIDE DEF Good
    <2>4. Whole(i)
      BY <2>1, <2>2, <2>3
    <2> QED
      BY <2>4 DEF Good
  <1>4. Len(seq) \in Nat
    OBVIOUS
  <1> HIDE DEF Good
  <1>5. Len(seq) \in Good
    BY <1>2, <1>3, <1>4, UpToInduction
  <1>6. SubSeq(seq, 1, Len(seq)) = seq
    OBVIOUS
  <1> QED
    BY <1>1, <1>5, <1>6 DEF Good, KeptSoFar

-----------------------------------------------------------------------------
(* Sums: for folds that add up the values of f, in whatever order.          *)
Adds(of, S, f) == \A x \in S : \A rest : Op(of, x, rest) = f[x] + rest

Total(of, S) == Fold(of, 0, S)

\* The sums over the subsets of S, each by way of any of its elements.
TakenApart(S, f, it) ==
    /\ it[{}] = 0
    /\ \A s \in SUBSET S : it[s] \in Int
    /\ \A s \in SUBSET S : \A y \in s : it[s] = f[y] + it[s \ {y}]

LEMMA AnyOrder ==
  ASSUME NEW of, NEW S, IsFiniteSet(S), NEW f, Adds(of, S, f), \A x \in S : f[x] \in Int,
         \A s \in SUBSET S : s # {} => Pick(s) \in s
  PROVE  \E it : TakenApart(S, f, it) /\ Total(of, S) = it[S]
  <1>1. PICK it : Unwinds(of, 0, S, it)
    BY FoldUnwinds
  <1>2. \A s \in SUBSET S : s # {} => it[s] = f[Pick(s)] + it[s \ {Pick(s)}]
    BY <1>1 DEF Unwinds, Adds
  <1>3. \A s \in SUBSET S : IsFiniteSet(s) /\ Cardinality(s) \in Nat
    BY FS_Subset, FS_CardinalityType
  <1> DEFINE P == {s \in SUBSET S : it[s] \in Int}
  <1>4. P = SUBSET S
    <2>1. {} \in P
      BY <1>1 DEF Unwinds
    <2>2. \A s \in SUBSET S : s # {} /\ s \ {Pick(s)} \in P => s \in P
      BY <1>2
    <2>3. P \in SUBSET (SUBSET S)
      OBVIOUS
    <2> HIDE DEF P
    <2> QED
      BY <2>1, <2>2, <2>3, SubsetInduction
  <1>5. \A s \in SUBSET S : it[s] \in Int
    BY <1>4
  <1> HIDE DEF P
  <1> DEFINE Apart(s) == \A y \in s : it[s] = f[y] + it[s \ {y}]
             Good == {k \in Nat : \A s \in SUBSET S : Cardinality(s) = k => Apart(s)}
  <1>6. 0 \in Good
    <2>1. \A s \in SUBSET S : Cardinality(s) = 0 => s = {}
      BY <1>3, FS_EmptySet
    <2> QED
      BY <2>1
  <1>7. \A k \in Good : k + 1 \in Good
    <2> SUFFICES ASSUME NEW k \in Good, NEW s \in SUBSET S, Cardinality(s) = k + 1
                 PROVE  Apart(s)
      <3> HIDE DEF Apart
      <3> QED
        OBVIOUS
    <2> SUFFICES ASSUME NEW y \in s PROVE it[s] = f[y] + it[s \ {y}]
      OBVIOUS
    <2> DEFINE x == Pick(s)
               both == (s \ {x}) \ {y}
    <2>1. k \in Nat /\ x \in s /\ it[s] = f[x] + it[s \ {x}]
      BY <1>2
    <2>2. \A z \in s : s \ {z} \in SUBSET S /\ Cardinality(s \ {z}) = k
      <3> SUFFICES ASSUME NEW z \in s PROVE Cardinality(s \ {z}) = k
        OBVIOUS
      <3>1. Cardinality(s \ {z}) = Cardinality(s) - 1
        BY <1>3, FS_RemoveElement
      <3> QED
        BY <2>1, <3>1
    <2>3. \A z \in s : Apart(s \ {z})
      BY <2>2
    <2> HIDE DEF x, Good
    <2>4. CASE x # y
      <3>1. it[s \ {x}] = f[y] + it[both]
        BY <2>1, <2>3, <2>4
      <3>2. x \in s \ {y} /\ (s \ {y}) \ {x} = both
        BY <2>1, <2>4
      <3>3. it[s \ {y}] = f[x] + it[both]
        BY <2>3, <3>2
      <3>4. f[x] \in Int /\ f[y] \in Int /\ it[both] \in Int
        BY <1>5, <2>1
      <3> QED
        BY <2>1, <3>1, <3>3, <3>4
    <2> QED
      BY <2>1, <2>4
  <1> HIDE DEF Good
  <1>8. Good = Nat
    <2>1. Good \in SUBSET Nat
      BY DEF Good
    <2> QED
      BY <1>6, <1>7, <2>1, NatSetInduction
  <1>9. \A s \in SUBSET S : Apart(s)
    BY <1>3, <1>8 DEF Good
  <1>10. TakenApart(S, f, it) /\ Total(of, S) = it[S]
    BY <1>1, <1>5, <1>9 DEF Unwinds, TakenApart, Total
  <1> QED
    BY <1>10

\* Sums of the same values over the same subsets are the same.
LEMMA SameSums ==
  ASSUME NEW S, IsFiniteSet(S), NEW f, NEW g, \A x \in S : f[x] \in Int /\ f[x] = g[x],
         NEW A, NEW B, S \subseteq A, S \subseteq B,
         NEW one, TakenApart(A, f, one), NEW two, TakenApart(B, g, two),
         \A s \in SUBSET S : s # {} => Pick(s) \in s
  PROVE  one[S] = two[S]
  <1> DEFINE P == {s \in SUBSET S : one[s] = two[s]}
  <1>1. {} \in P
    BY DEF TakenApart
  <1>2. \A s \in SUBSET S : s # {} /\ s \ {Pick(s)} \in P => s \in P
    <2> SUFFICES ASSUME NEW s \in SUBSET S, s # {}, s \ {Pick(s)} \in P PROVE s \in P
      OBVIOUS
    <2> DEFINE y == Pick(s)
    <2>1. y \in s /\ f[y] = g[y] /\ one[s \ {y}] = two[s \ {y}]
      OBVIOUS
    <2> HIDE DEF y
    <2>2. one[s] = f[y] + one[s \ {y}] /\ two[s] = g[y] + two[s \ {y}]
      BY <2>1 DEF TakenApart
    <2> QED
      BY <2>1, <2>2
  <1>3. P \in SUBSET (SUBSET S)
    OBVIOUS
  <1> HIDE DEF P
  <1>4. P = SUBSET S
    BY <1>1, <1>2, <1>3, SubsetInduction
  <1> QED
    BY <1>4 DEF P

\* Total(of, S) is the sum of the integers f[x] over the finite set S.
AddsUp(of, S, f) == IsFiniteSet(S) /\ Adds(of, S, f) /\ \A x \in S : f[x] \in Int

LEMMA TotalType ==
  ASSUME NEW of, NEW S, NEW f, AddsUp(of, S, f), \A s : s # {} => Pick(s) \in s
  PROVE  Total(of, S) \in Int
  <1>1. PICK it : TakenApart(S, f, it) /\ Total(of, S) = it[S]
    BY AnyOrder DEF AddsUp
  <1> QED
    BY <1>1 DEF TakenApart

LEMMA TotalOfNone ==
  ASSUME NEW of, NEW none, none = {}
  PROVE  \A f : AddsUp(of, none, f) /\ (\A s : s # {} => Pick(s) \in s) => Total(of, none) = 0
  <1> SUFFICES ASSUME NEW f, AddsUp(of, none, f), \A s : s # {} => Pick(s) \in s
               PROVE  Total(of, none) = 0
    OBVIOUS
  <1>1. PICK it : TakenApart(none, f, it) /\ Total(of, none) = it[none]
    BY AnyOrder DEF AddsUp
  <1> QED
    BY <1>1 DEF TakenApart

LEMMA TotalOfNaughts ==
  ASSUME NEW of, NEW S, NEW f, AddsUp(of, S, f), \A x \in S : f[x] = 0,
         \A s : s # {} => Pick(s) \in s
  PROVE  Total(of, S) = 0
  <1>1. PICK it : TakenApart(S, f, it) /\ Total(of, S) = it[S]
    BY AnyOrder DEF AddsUp
  <1> DEFINE P == {s \in SUBSET S : it[s] = 0}
  <1>2. {} \in P
    BY <1>1 DEF TakenApart
  <1>3. \A s \in SUBSET S : s # {} /\ s \ {Pick(s)} \in P => s \in P
    <2> SUFFICES ASSUME NEW s \in SUBSET S, s # {}, s \ {Pick(s)} \in P PROVE s \in P
      OBVIOUS
    <2> DEFINE y == Pick(s)
    <2>1. y \in s /\ f[y] = 0 /\ it[s \ {y}] = 0
      OBVIOUS
    <2> HIDE DEF y
    <2>2. it[s] = f[y] + it[s \ {y}]
      BY <1>1, <2>1 DEF TakenApart
    <2>3. it[s] = 0
      BY <2>1, <2>2
    <2> QED
      BY <2>3
  <1>4. P \in SUBSET (SUBSET S)
    OBVIOUS
  <1> HIDE DEF P
  <1>5. P = SUBSET S
    BY <1>2, <1>3, <1>4, SubsetInduction DEF AddsUp
  <1> QED
    BY <1>1, <1>5 DEF P

\* A sum of values of which each is at most c times another's is at most c times
\* the sum of those.
LEMMA TotalWithin ==
  ASSUME NEW of, NEW other, NEW S, NEW f, NEW g, AddsUp(of, S, f), AddsUp(other, S, g),
         NEW c \in Int, \A x \in S : f[x] <= c * g[x], \A s : s # {} => Pick(s) \in s
  PROVE  Total(of, S) <= c * Total(other, S)
  <1>1. PICK one : TakenApart(S, f, one) /\ Total(of, S) = one[S]
    BY AnyOrder DEF AddsUp
  <1>2. PICK two : TakenApart(S, g, two) /\ Total(other, S) = two[S]
    BY AnyOrder DEF AddsUp
  <1> DEFINE P == {s \in SUBSET S : one[s] <= c * two[s]}
  <1>3. {} \in P
    BY <1>1, <1>2 DEF TakenApart
  <1>4. \A s \in SUBSET S : s # {} /\ s \ {Pick(s)} \in P => s \in P
    <2> SUFFICES ASSUME NEW s \in SUBSET S, s # {}, s \ {Pick(s)} \in P PROVE s \in P
      OBVIOUS
    <2> DEFINE y == Pick(s)
               rest == s \ {y}
    <2>1. y \in s /\ y \in S /\ rest \in SUBSET S /\ one[rest] <= c * two[rest]
      OBVIOUS
    <2> HIDE DEF y
    <2>2. one[s] = f[y] + one[rest] /\ two[s] = g[y] + two[rest]
      BY <1>1, <1>2, <2>1 DEF TakenApart
    <2> DEFINE a == f[y]
               b == g[y]
               m == one[rest]
               n == two[rest]
    <2>3. a \in Int /\ b \in Int /\ m \in Int /\ n \in Int /\ a <= c * b /\ m <= c * n
      BY <1>1, <1>2, <2>1 DEF TakenApart, AddsUp
    <2>4. one[s] = a + m /\ two[s] = b + n
      BY <2>2
    <2> HIDE DEF a, b, m, n, rest
    <2>5. c * (b + n) = c * b + c * n /\ c * b \in Int /\ c * n \in Int
      BY <2>3
    <2>6. one[s] <= c * two[s]
      BY <2>3, <2>4, <2>5
    <2> QED
      BY <2>6
  <1>5. P \in SUBSET (SUBSET S)
    OBVIOUS
  <1> HIDE DEF P
  <1>6. P = SUBSET S
    BY <1>3, <1>4, <1>5, SubsetInduction DEF AddsUp
  <1> QED
    BY <1>1, <1>2, <1>6 DEF P

\* As many ones.
LEMMA TotalOfOnes ==
  ASSUME NEW of, NEW S, NEW f, AddsUp(of, S, f), \A x \in S : f[x] = 1,
         \A s : s # {} => Pick(s) \in s
  PROVE  Total(of, S) = Cardinality(S)
  <1>1. PICK it : TakenApart(S, f, it) /\ Total(of, S) = it[S]
    BY AnyOrder DEF AddsUp
  <1> DEFINE P == {s \in SUBSET S : it[s] = Cardinality(s)}
  <1>2. {} \in P
    BY <1>1, FS_EmptySet DEF TakenApart
  <1>3. \A s \in SUBSET S : s # {} /\ s \ {Pick(s)} \in P => s \in P
    <2> SUFFICES ASSUME NEW s \in SUBSET S, s # {}, s \ {Pick(s)} \in P PROVE s \in P
      OBVIOUS
    <2> DEFINE y == Pick(s)
    <2>1. y \in s /\ f[y] = 1 /\ it[s \ {y}] = Cardinality(s \ {y})
      OBVIOUS
    <2> HIDE DEF y
    <2>2. it[s] = f[y] + it[s \ {y}]
      BY <1>1, <2>1 DEF TakenApart
    <2>3. IsFiniteSet(s)
      BY FS_Subset DEF AddsUp
    <2>4. Cardinality(s \ {y}) = Cardinality(s) - 1 /\ Cardinality(s) \in Nat
      BY <2>1, <2>3, FS_RemoveElement, FS_CardinalityType
    <2>5. it[s] = Cardinality(s)
      BY <2>1, <2>2, <2>4
    <2> QED
      BY <2>5
  <1>4. P \in SUBSET (SUBSET S)
    OBVIOUS
  <1> HIDE DEF P
  <1>5. P = SUBSET S
    BY <1>2, <1>3, <1>4, SubsetInduction DEF AddsUp
  <1> QED
    BY <1>1, <1>5 DEF P

\* Sums of the same values are the same, whatever they are taken from.
LEMMA TotalSame ==
  ASSUME NEW of, NEW other, NEW S, NEW f, NEW g, AddsUp(of, S, f), AddsUp(other, S, g),
         \A x \in S : f[x] = g[x], \A s : s # {} => Pick(s) \in s
  PROVE  Total(of, S) = Total(other, S)
  <1>1. PICK one : TakenApart(S, f, one) /\ Total(of, S) = one[S]
    BY AnyOrder DEF AddsUp
  <1>2. PICK two : TakenApart(S, g, two) /\ Total(other, S) = two[S]
    BY AnyOrder DEF AddsUp
  <1>3. one[S] = two[S]
    BY <1>1, <1>2, SameSums DEF AddsUp
  <1> QED
    BY <1>1, <1>2, <1>3

\* One more element adds its value.
LEMMA TotalAdds ==
  ASSUME NEW of, NEW S, NEW e, e \notin S, NEW T, T = S \cup {e}, NEW f, AddsUp(of, T, f),
         \A s : s # {} => Pick(s) \in s
  PROVE  Total(of, T) = f[e] + Total(of, S)
  <1>1. AddsUp(of, S, f) /\ S \subseteq T /\ e \in T /\ T \ {e} = S
    BY FS_Subset DEF AddsUp, Adds
  <1>2. PICK one : TakenApart(S, f, one) /\ Total(of, S) = one[S]
    BY <1>1, AnyOrder DEF AddsUp
  <1>3. PICK two : TakenApart(T, f, two) /\ Total(of, T) = two[T]
    BY AnyOrder DEF AddsUp
  <1>4. one[S] = two[S]
    BY <1>1, <1>2, <1>3, SameSums DEF AddsUp
  <1>5. two[T] = f[e] + two[T \ {e}]
    BY <1>1, <1>3 DEF TakenApart
  <1> QED
    BY <1>1, <1>2, <1>3, <1>4, <1>5

\* A sum over the values that h takes once each is one over what it takes them of.
LEMMA TotalMoves ==
  ASSUME NEW of, NEW D, NEW f, AddsUp(of, D, f),
         NEW other, NEW E, NEW g, AddsUp(other, E, g),
         NEW h, \A x \in D : h[x] \in E /\ g[h[x]] = f[x],
         \A x, y \in D : h[x] = h[y] => x = y,
         \A e \in E : \E x \in D : h[x] = e,
         \A s : s # {} => Pick(s) \in s
  PROVE  Total(of, D) = Total(other, E)
  <1>1. PICK one : TakenApart(D, f, one) /\ Total(of, D) = one[D]
    BY AnyOrder DEF AddsUp
  <1>2. PICK two : TakenApart(E, g, two) /\ Total(other, E) = two[E]
    BY AnyOrder DEF AddsUp
  <1> DEFINE Image(s) == {h[x] : x \in s}
             P == {s \in SUBSET D : one[s] = two[Image(s)]}
  <1>3. {} \in P
    <2>1. Image({}) = {}
      OBVIOUS
    <2> QED
      BY <1>1, <1>2, <2>1 DEF TakenApart
  <1>4. \A s \in SUBSET D : s # {} /\ s \ {Pick(s)} \in P => s \in P
    <2> SUFFICES ASSUME NEW s \in SUBSET D, s # {}, s \ {Pick(s)} \in P PROVE s \in P
      OBVIOUS
    <2> DEFINE y == Pick(s)
    <2>1. y \in s /\ y \in D /\ one[s \ {y}] = two[Image(s \ {y})]
      OBVIOUS
    <2> HIDE DEF y
    <2>2. one[s] = f[y] + one[s \ {y}]
      BY <1>1, <2>1 DEF TakenApart
    <2>3. Image(s) \in SUBSET E /\ h[y] \in Image(s) /\ Image(s) \ {h[y]} = Image(s \ {y})
      BY <2>1
    <2> DEFINE image == Image(s)
               z == h[y]
    <2>4. image \in SUBSET E /\ z \in image /\ image \ {z} = Image(s \ {y}) /\ g[z] = f[y]
      BY <2>1, <2>3
    <2> HIDE DEF Image, image, z
    <2>5. two[image] = g[z] + two[image \ {z}]
      BY <1>2, <2>4 DEF TakenApart
    <2>6. one[s] = two[image]
      BY <2>1, <2>2, <2>4, <2>5
    <2> QED
      BY <2>6 DEF image
  <1>5. P \in SUBSET (SUBSET D)
    OBVIOUS
  <1>6. Image(D) = E
    OBVIOUS
  <1> HIDE DEF P, Image
  <1>7. P = SUBSET D
    BY <1>3, <1>4, <1>5, SubsetInduction DEF AddsUp
  <1> QED
    BY <1>1, <1>2, <1>6, <1>7 DEF P

LEMMA TotalUnion ==
  ASSUME NEW of, NEW A, NEW B, A \cap B = {}, NEW C, C = A \cup B, NEW f, AddsUp(of, C, f),
         \A s : s # {} => Pick(s) \in s
  PROVE  Total(of, C) = Total(of, A) + Total(of, B)
  <1>1. AddsUp(of, A, f) /\ AddsUp(of, B, f)
    BY FS_Subset DEF AddsUp, Adds
  <1>2. PICK it : TakenApart(C, f, it) /\ Total(of, C) = it[C]
    BY AnyOrder DEF AddsUp
  <1>3. Total(of, A) = it[A] /\ Total(of, B) = it[B]
    <2>1. PICK one : TakenApart(A, f, one) /\ Total(of, A) = one[A]
      BY <1>1, AnyOrder DEF AddsUp
    <2>2. PICK two : TakenApart(B, f, two) /\ Total(of, B) = two[B]
      BY <1>1, AnyOrder DEF AddsUp
    <2>3. it[A] = one[A]
      BY <1>1, <1>2, <2>1, SameSums DEF AddsUp
    <2>4. it[B] = two[B]
      BY <1>1, <1>2, <2>2, SameSums DEF AddsUp
    <2> QED
      BY <2>1, <2>2, <2>3, <2>4
  <1> DEFINE P == {s \in SUBSET B : it[A \cup s] = it[A] + it[s]}
  <1>4. {} \in P
    <2>1. A \cup {} = A /\ A \in SUBSET C
      OBVIOUS
    <2> QED
      BY <1>2, <2>1 DEF TakenApart
  <1>5. \A s \in SUBSET B : s # {} /\ s \ {Pick(s)} \in P => s \in P
    <2> SUFFICES ASSUME NEW s \in SUBSET B, s # {}, s \ {Pick(s)} \in P PROVE s \in P
      OBVIOUS
    <2> DEFINE y == Pick(s)
               rest == s \ {y}
               more == A \cup s
    <2>1. y \in s /\ it[A \cup rest] = it[A] + it[rest]
      OBVIOUS
    <2>2. s \in SUBSET C /\ more \in SUBSET C /\ y \in more /\ more \ {y} = A \cup rest
          /\ rest \in SUBSET C /\ A \in SUBSET C /\ y \in C
      BY <2>1
    <2> HIDE DEF y, more
    <2>3. it[s] = f[y] + it[rest] /\ it[more] = f[y] + it[A \cup rest]
      <3>1. it[s] = f[y] + it[s \ {y}]
        BY <1>2, <2>1, <2>2 DEF TakenApart
      <3>2. it[more] = f[y] + it[more \ {y}]
        BY <1>2, <2>1, <2>2 DEF TakenApart
      <3> QED
        BY <2>2, <3>1, <3>2
    <2>4. f[y] \in Int /\ it[A] \in Int /\ it[rest] \in Int
      BY <1>2, <2>2 DEF TakenApart, AddsUp
    <2>5. it[more] = it[A] + it[s]
      BY <2>1, <2>3, <2>4
    <2> QED
      BY <2>5 DEF more
  <1>6. P \in SUBSET (SUBSET B)
    OBVIOUS
  <1> HIDE DEF P
  <1>7. P = SUBSET B
    BY <1>1, <1>4, <1>5, <1>6, SubsetInduction DEF AddsUp
  <1> QED
    BY <1>2, <1>3, <1>7 DEF P

\* g[d] is the sum of the part d of S.
SumsOfParts(of, S, part, D, g) ==
    /\ \A x \in S : part[x] \in D
    /\ \A d \in D : g[d] = Total(of, {x \in S : part[x] = d})

\* A sum adds up to the sums of its parts.
LEMMA TotalParts ==
  ASSUME NEW of, NEW S, NEW f, AddsUp(of, S, f),
         NEW other, NEW D, NEW g, AddsUp(other, D, g),
         NEW part, SumsOfParts(of, S, part, D, g),
         \A s : s # {} => Pick(s) \in s
  PROVE  Total(other, D) = Total(of, S)
  <1> DEFINE In(s) == {x \in S : part[x] \in s}
             Of(d) == {x \in S : part[x] = d}
  <1>1. PICK it : TakenApart(D, g, it) /\ Total(other, D) = it[D]
    BY AnyOrder DEF AddsUp
  <1> DEFINE P == {s \in SUBSET D : it[s] = Total(of, In(s))}
  <1>2. \A s \in SUBSET D : AddsUp(of, In(s), f)
    <2> SUFFICES ASSUME NEW s \in SUBSET D PROVE AddsUp(of, In(s), f)
      OBVIOUS
    <2>1. In(s) \in SUBSET S
      OBVIOUS
    <2> HIDE DEF In
    <2> QED
      BY <2>1, FS_Subset DEF AddsUp, Adds
  <1>3. {} \in P
    <2>1. In({}) = {} /\ AddsUp(of, In({}), f)
      BY <1>2
    <2>2. Total(of, In({})) = 0
      BY <2>1, TotalOfNone
    <2> QED
      BY <1>1, <2>2 DEF TakenApart
  <1>4. \A s \in SUBSET D : s # {} /\ s \ {Pick(s)} \in P => s \in P
    <2> SUFFICES ASSUME NEW s \in SUBSET D, s # {}, s \ {Pick(s)} \in P PROVE s \in P
      OBVIOUS
    <2> DEFINE y == Pick(s)
               a == Of(y)
               b == In(s \ {y})
               c == In(s)
    <2>1. y \in s /\ y \in D /\ it[s \ {y}] = Total(of, b)
      OBVIOUS
    <2>2. c = a \cup b /\ a \cap b = {}
      BY <2>1
    <2>3. AddsUp(of, c, f)
      BY <1>2
    <2>4. g[y] = Total(of, a)
      BY <2>1 DEF SumsOfParts
    <2> HIDE DEF a, b, c, y
    <2>5. Total(of, c) = Total(of, a) + Total(of, b)
      BY <2>2, <2>3, TotalUnion
    <2>6. it[s] = g[y] + it[s \ {y}]
      BY <1>1, <2>1 DEF TakenApart
    <2>7. it[s] = Total(of, c)
      BY <2>1, <2>4, <2>5, <2>6
    <2> QED
      BY <2>7 DEF c
  <1>5. P \in SUBSET (SUBSET D)
    OBVIOUS
  <1>6. In(D) = S
    BY DEF SumsOfParts
  <1> HIDE DEF P, In
  <1>7. P = SUBSET D
    BY <1>3, <1>4, <1>5, SubsetInduction DEF AddsUp
  <1> QED
    BY <1>1, <1>6, <1>7 DEF P
=============================================================================
