-------------------------- MODULE DateDirs_proofs --------------------------
(* Proofs about DateDirs for every length of the day, every number of days   *)
(* kept, every pair of zones, and any containers and sizes.                  *)
EXTENDS DateDirs, FiniteSetTheorems, WellFoundedInduction, TLAPS

-----------------------------------------------------------------------------
(* Induction over finite sets and over numbers, for a set of good cases       *)

\* A set of good cases has every subset of a finite set when it has each one whose
\* parts with an element less it has.
LEMMA SetInduction ==
    ASSUME NEW S, IsFiniteSet(S), NEW Good,
           \A T \in SUBSET S : (\A x \in T : T \ {x} \in Good) => T \in Good
    PROVE  S \in Good
<1> DEFINE Bad == {T \in SUBSET S : T \notin Good}
<1>1. SUFFICES ASSUME Bad # {} PROVE FALSE
  OBVIOUS
<1>2. Bad \subseteq FiniteSubsetsOf(S)
  BY FS_FiniteSubsetsOfFinite
<1>3. PICK T \in Bad : \A U \in Bad : <<U, T>> \notin StrictSubsetOrdering(S)
  <2> HIDE DEF Bad
  <2> QED BY <1>1, <1>2, FS_StrictSubsetOrderingWellFounded, WFMin
<1>4. ASSUME NEW x \in T PROVE T \ {x} \in Good
  <2> DEFINE U == T \ {x}
  <2>1. U \in SUBSET S /\ T \in SUBSET S /\ U \subseteq T /\ U # T
    BY <1>3
  <2>2. <<U, T>> \in StrictSubsetOrdering(S)
    <3> HIDE DEF U
    <3> QED BY <2>1 DEF StrictSubsetOrdering
  <2>3. U \notin Bad
    BY <1>3, <2>2
  <2> QED BY <2>1, <2>3
<1> QED BY <1>3, <1>4

\* The same for the numbers from 0.
LEMMA NumberInduction ==
    ASSUME NEW Good, 0 \in Good, \A n \in Nat : n \in Good => n + 1 \in Good, NEW m \in Nat
    PROVE  m \in Good
<1> DEFINE Sets == {T \in SUBSET (1..m) : Cardinality(T) \in Good}
<1>1. IsFiniteSet(1..m) /\ Cardinality(1..m) = m
  BY FS_Interval
<1>2. ASSUME NEW T \in SUBSET (1..m), \A x \in T : T \ {x} \in Sets PROVE T \in Sets
  <2>0. IsFiniteSet(T)
    BY <1>1, FS_Subset
  <2>1. CASE T = {}
    BY <2>1, FS_EmptySet
  <2>2. ASSUME NEW x \in T PROVE Cardinality(T) \in Good
    <3>1. Cardinality(T \ {x}) = Cardinality(T) - 1 /\ Cardinality(T \ {x}) \in Nat /\ Cardinality(T) \in Nat
      BY <2>0, FS_RemoveElement, FS_CardinalityType
    <3>2. Cardinality(T \ {x}) \in Good
      BY <1>2
    <3>3. Cardinality(T \ {x}) + 1 \in Good
      BY <3>1, <3>2
    <3> QED BY <3>1, <3>3
  <2> QED BY <2>1, <2>2
<1>3. 1..m \in Sets
  <2> HIDE DEF Sets
  <2> QED BY <1>1, <1>2, SetInduction
<1> QED BY <1>1, <1>3

-----------------------------------------------------------------------------
(* SumFunction: a fold, so a recursive function over the subsets of a domain *)

Iterates(g, f, S) ==
    g = [s \in SUBSET S |-> IF s = {} THEN 0
                            ELSE f[CHOOSE x \in s : TRUE] + g[s \ {CHOOSE x \in s : TRUE}]]

Partial(f) == CHOOSE g : Iterates(g, f, DOMAIN f)

\* The sum of a function is that partial sum which runs over its whole domain.
LEMMA SumIsPartial == \A f : SumFunction(f) = Partial(f)[DOMAIN f]
  BY DEF SumFunction, SumFunctionOnSet, FoldFunctionOnSet, MapThenFoldSet, Iterates, Partial

\* There is such a function of partial sums.
LEMMA PartialExists ==
    ASSUME NEW f, IsFiniteSet(DOMAIN f)
    PROVE  Iterates(Partial(f), f, DOMAIN f)
<1> DEFINE S == DOMAIN f
           Step(g, s) == IF s = {} THEN 0
                         ELSE f[CHOOSE x \in s : TRUE] + g[s \ {CHOOSE x \in s : TRUE}]
           Small(n) == {s \in SUBSET S : Cardinality(s) <= n}
           Has(n) == \E g : /\ g = [s \in SUBSET S |-> g[s]]
                            /\ \A s \in Small(n) : g[s] = Step(g, s)
           Good == {n \in Nat : Has(n)}
<1>1. \A s \in SUBSET S : IsFiniteSet(s) /\ Cardinality(s) \in Nat /\ Cardinality(s) <= Cardinality(S)
  BY FS_Subset, FS_CardinalityType
<1>2. 0 \in Good
  <2> DEFINE g == [s \in SUBSET S |-> 0]
  <2>1. \A s \in Small(0) : s = {}
    BY <1>1, FS_EmptySet
  <2>2. g = [s \in SUBSET S |-> g[s]] /\ \A s \in Small(0) : g[s] = Step(g, s)
    BY <2>1
  <2> QED BY <2>2
<1>3. ASSUME NEW n \in Nat, n \in Good PROVE n + 1 \in Good
  <2>1. PICK g : g = [s \in SUBSET S |-> g[s]] /\ \A s \in Small(n) : g[s] = Step(g, s)
    BY <1>3
  <2> DEFINE h == [s \in SUBSET S |-> Step(g, s)]
  <2>2. ASSUME NEW s \in Small(n + 1) PROVE h[s] = Step(h, s)
    <3>1. CASE s = {}
      BY <3>1
    <3>2. CASE s # {}
      <4> DEFINE x == CHOOSE x \in s : TRUE
      <4>1. x \in s
        BY <3>2
      <4>2. s \ {x} \in Small(n)
        <5> HIDE DEF x
        <5> QED BY <1>1, <4>1, FS_RemoveElement
      <4>3. g[s \ {x}] = Step(g, s \ {x})
        <5> HIDE DEF x, Step
        <5> QED BY <2>1, <4>2
      <4>4. h[s \ {x}] = g[s \ {x}]
        <5> HIDE DEF x, Step
        <5> QED BY <4>2, <4>3
      <4>5. h[s] = Step(g, s)
        <5> HIDE DEF Step
        <5> QED OBVIOUS
      <4> QED BY <3>2, <4>4, <4>5
    <3> QED BY <3>1, <3>2
  <2>3. h = [s \in SUBSET S |-> h[s]]
    OBVIOUS
  <2>4. Has(n + 1)
    <3> HIDE DEF h, Small, Step
    <3> QED BY <2>2, <2>3
  <2> HIDE DEF Has
  <2> QED BY <1>3, <2>4
<1>4. Cardinality(S) \in Good
  <2> HIDE DEF Good
  <2> QED BY <1>2, <1>3, NumberInduction, FS_CardinalityType
<1>5. PICK g : g = [s \in SUBSET S |-> g[s]] /\ \A s \in Small(Cardinality(S)) : g[s] = Step(g, s)
  BY <1>4
<1>6. Iterates(g, f, S)
  <2>1. \A s \in SUBSET S : s \in Small(Cardinality(S))
    BY <1>1
  <2> QED BY <1>5, <2>1 DEF Iterates
<1> QED BY <1>6 DEF Partial

\* The element of a set that the fold takes next.
Pick(T) == CHOOSE x \in T : TRUE

\* A partial sum, from the one without the element that is taken next.
LEMMA PartialStep ==
    ASSUME NEW S, IsFiniteSet(S), NEW f \in [S -> Nat], NEW T \in SUBSET S
    PROVE  Partial(f)[T] = IF T = {} THEN 0 ELSE f[Pick(T)] + Partial(f)[T \ {Pick(T)}]
<1>1. Iterates(Partial(f), f, S)
  BY PartialExists
<1>2. ASSUME NEW g, Iterates(g, f, S)
      PROVE  g[T] = IF T = {} THEN 0 ELSE f[Pick(T)] + g[T \ {Pick(T)}]
  BY <1>2 DEF Iterates, Pick
<1> QED BY <1>1, <1>2

\* The two cases of its recursion.
LEMMA PartialEmpty ==
    ASSUME NEW S, IsFiniteSet(S), NEW f \in [S -> Nat]
    PROVE  Partial(f)[{}] = 0
  BY PartialStep

LEMMA PartialPick ==
    ASSUME NEW S, IsFiniteSet(S), NEW f \in [S -> Nat], NEW T \in SUBSET S, NEW x \in T, x = Pick(T)
    PROVE  Partial(f)[T] = f[x] + Partial(f)[T \ {x}]
<1>1. T # {}
  OBVIOUS
<1> QED BY <1>1, PartialStep

\* Sums of numbers are numbers.
LEMMA SumType ==
    ASSUME NEW S, IsFiniteSet(S), NEW f \in [S -> Nat]
    PROVE  SumFunction(f) \in Nat
<1> DEFINE Good == {T \in SUBSET S : Partial(f)[T] \in Nat}
<1>1. ASSUME NEW T \in SUBSET S, \A x \in T : T \ {x} \in Good PROVE T \in Good
  <2>1. CASE T = {}
    BY <2>1, PartialEmpty
  <2>2. CASE T # {}
    <3>0. PICK x \in T : x = Pick(T)
      BY <2>2 DEF Pick
    <3>1. Partial(f)[T] = f[x] + Partial(f)[T \ {x}]
      BY <3>0, PartialPick
    <3> QED BY <1>1, <3>1
  <2> QED BY <2>1, <2>2
<1>2. S \in Good
  <2> HIDE DEF Good
  <2> QED BY <1>1, SetInduction
<1> QED BY <1>2, SumIsPartial

\* The sum of sums.
LEMMA SumAdd ==
    ASSUME NEW S, IsFiniteSet(S), NEW f \in [S -> Nat], NEW g \in [S -> Nat],
           NEW h \in [S -> Nat], \A x \in S : h[x] = f[x] + g[x]
    PROVE  SumFunction(h) = SumFunction(f) + SumFunction(g)
<1> DEFINE Good == {T \in SUBSET S : /\ Partial(f)[T] \in Nat /\ Partial(g)[T] \in Nat
                                     /\ Partial(h)[T] = Partial(f)[T] + Partial(g)[T]}
<1>1. ASSUME NEW T \in SUBSET S, \A x \in T : T \ {x} \in Good PROVE T \in Good
  <2>1. CASE T = {}
    <3>1. Partial(f)[T] = 0
      BY <2>1, PartialEmpty
    <3>2. Partial(g)[T] = 0
      BY <2>1, PartialEmpty
    <3>3. Partial(h)[T] = 0
      BY <2>1, PartialEmpty
    <3> QED BY <3>1, <3>2, <3>3
  <2>2. CASE T # {}
    <3>0. PICK x \in T : x = Pick(T)
      BY <2>2 DEF Pick
    <3>1. Partial(f)[T] = f[x] + Partial(f)[T \ {x}]
      BY <3>0, PartialPick
    <3>2. Partial(g)[T] = g[x] + Partial(g)[T \ {x}]
      BY <3>0, PartialPick
    <3>3. Partial(h)[T] = h[x] + Partial(h)[T \ {x}]
      BY <3>0, PartialPick
    <3>4. f[x] \in Nat /\ g[x] \in Nat /\ h[x] = f[x] + g[x]
      BY <3>1
    <3>5. /\ Partial(f)[T \ {x}] \in Nat /\ Partial(g)[T \ {x}] \in Nat
          /\ Partial(h)[T \ {x}] = Partial(f)[T \ {x}] + Partial(g)[T \ {x}]
      BY <1>1, <3>1
    <3> HIDE DEF Good
    <3>6. Partial(f)[T] \in Nat /\ Partial(g)[T] \in Nat /\ Partial(h)[T] = Partial(f)[T] + Partial(g)[T]
      BY <3>1, <3>2, <3>3, <3>4, <3>5
    <3> QED BY <3>6 DEF Good
  <2> QED BY <2>1, <2>2
<1>2. S \in Good
  <2> HIDE DEF Good
  <2> QED BY <1>1, SetInduction
<1> QED BY <1>2, SumIsPartial

\* Larger terms, a larger sum.
LEMMA SumMono ==
    ASSUME NEW S, IsFiniteSet(S), NEW f \in [S -> Nat], NEW g \in [S -> Nat],
           \A x \in S : f[x] <= g[x]
    PROVE  SumFunction(f) <= SumFunction(g)
<1> DEFINE d == [x \in S |-> g[x] - f[x]]
<1>1. d \in [S -> Nat] /\ \A x \in S : g[x] = f[x] + d[x]
  OBVIOUS
<1> HIDE DEF d
<1> QED BY <1>1, SumAdd, SumType

\* Nothing sums up to nothing.
LEMMA SumZero ==
    ASSUME NEW S, IsFiniteSet(S), NEW f \in [S -> Nat], \A x \in S : f[x] = 0
    PROVE  SumFunction(f) = 0
<1>1. \A x \in S : f[x] = f[x] + f[x]
  OBVIOUS
<1> QED BY <1>1, SumAdd, SumType

\* The sum of a function that is zero except in one place.
LEMMA SumSingle ==
    ASSUME NEW S, IsFiniteSet(S), NEW a \in S, NEW f \in [S -> Nat],
           \A x \in S : x # a => f[x] = 0
    PROVE  SumFunction(f) = f[a]
<1> DEFINE Good == {T \in SUBSET S : Partial(f)[T] = IF a \in T THEN f[a] ELSE 0}
<1>1. ASSUME NEW T \in SUBSET S, \A x \in T : T \ {x} \in Good PROVE T \in Good
  <2>1. CASE T = {}
    BY <2>1, PartialEmpty
  <2>2. CASE T # {}
    <3>0. PICK x \in T : x = Pick(T)
      BY <2>2 DEF Pick
    <3>1. Partial(f)[T] = f[x] + Partial(f)[T \ {x}]
      BY <3>0, PartialPick
    <3>2. f[x] \in Nat /\ f[a] \in Nat
      BY <3>1
    <3>3. CASE x = a
      <4>1. Partial(f)[T \ {x}] = 0
        BY <1>1, <3>1, <3>3
      <4> QED BY <3>1, <3>2, <3>3, <4>1
    <3>4. CASE x # a
      <4>1. Partial(f)[T \ {x}] = IF a \in T THEN f[a] ELSE 0
        BY <1>1, <3>1, <3>4
      <4>2. f[x] = 0
        BY <3>1, <3>4
      <4> QED BY <3>1, <3>2, <4>1, <4>2
    <3> QED BY <3>3, <3>4
  <2> QED BY <2>1, <2>2
<1>2. S \in Good
  <2> HIDE DEF Good
  <2> QED BY <1>1, SetInduction
<1> QED BY <1>2, SumIsPartial

\* Functions that differ in one place.
LEMMA SumUpdate ==
    ASSUME NEW S, IsFiniteSet(S), NEW a \in S, NEW f \in [S -> Nat], NEW g \in [S -> Nat],
           \A x \in S : x # a => f[x] = g[x]
    PROVE  SumFunction(f) + g[a] = SumFunction(g) + f[a]
<1> DEFINE F == [x \in S |-> IF x = a THEN f[a] ELSE 0]
           G == [x \in S |-> IF x = a THEN g[a] ELSE 0]
           h == [x \in S |-> f[x] + G[x]]
<1>1. F \in [S -> Nat] /\ G \in [S -> Nat] /\ h \in [S -> Nat]
  OBVIOUS
<1>2. SumFunction(F) = f[a] /\ SumFunction(G) = g[a]
  <2>1. F[a] = f[a] /\ G[a] = g[a] /\ \A x \in S : x # a => F[x] = 0 /\ G[x] = 0
    OBVIOUS
  <2> HIDE DEF F, G
  <2> QED BY <1>1, <2>1, SumSingle
<1>3. \A x \in S : h[x] = f[x] + G[x]
  OBVIOUS
<1>4. \A x \in S : h[x] = g[x] + F[x]
  OBVIOUS
<1> HIDE DEF F, G, h
<1>5. SumFunction(h) = SumFunction(f) + SumFunction(G)
  BY <1>1, <1>3, SumAdd
<1>6. SumFunction(h) = SumFunction(g) + SumFunction(F)
  BY <1>1, <1>4, SumAdd
<1> QED BY <1>2, <1>5, <1>6

\* The first n places of a function.
Prefix(f, n) == [k \in DOMAIN f |-> IF k < n THEN f[k] ELSE 0]

\* A place more adds its value to the sum.
LEMMA PrefixStep ==
    ASSUME NEW M \in Nat, NEW f \in [0..M -> Nat], NEW n \in 0..M
    PROVE  /\ SumFunction(Prefix(f, n)) \in Nat
           /\ SumFunction(Prefix(f, n + 1)) = SumFunction(Prefix(f, n)) + f[n]
<1> DEFINE S == 0..M
           p == Prefix(f, n)
           q == Prefix(f, n + 1)
<1>1. IsFiniteSet(S)
  BY FS_Interval
<1>2. p \in [S -> Nat] /\ q \in [S -> Nat] /\ p[n] = 0 /\ q[n] = f[n]
  BY DEF Prefix
<1>3. \A k \in S : k # n => p[k] = q[k]
  BY DEF Prefix
<1>4. n \in S /\ f[n] \in Nat
  OBVIOUS
<1> HIDE DEF S, p, q
<1>5. SumFunction(p) + q[n] = SumFunction(q) + p[n]
  BY <1>1, <1>2, <1>3, <1>4, SumUpdate
<1>6. SumFunction(p) \in Nat /\ SumFunction(q) \in Nat
  BY <1>1, <1>2, SumType
<1>7. SumFunction(p) \in Nat /\ SumFunction(q) = SumFunction(p) + f[n]
  BY <1>2, <1>4, <1>5, <1>6
<1> QED BY <1>7 DEF p, q

\* What has moved one place on sums to the same; the last place keeps what was there.
LEMMA SumShift ==
    ASSUME NEW M \in Nat, M > 0, NEW f \in [0..M -> Nat], NEW g \in [0..M -> Nat],
           g[0] = 0, \A k \in 1..(M - 1) : g[k] = f[k - 1], g[M] = f[M - 1] + f[M]
    PROVE  SumFunction(g) = SumFunction(f)
<1> DEFINE Good == {n \in Nat : n < M => SumFunction(Prefix(g, n + 1)) = SumFunction(Prefix(f, n))}
<1>1. 0 \in Good
  <2>1. Prefix(f, 0) \in [0..M -> Nat] /\ \A k \in 0..M : Prefix(f, 0)[k] = 0
    BY DEF Prefix
  <2>2. Prefix(g, 1) \in [0..M -> Nat] /\ \A k \in 0..M : Prefix(g, 1)[k] = 0
    BY DEF Prefix
  <2>3. IsFiniteSet(0..M)
    BY FS_Interval
  <2>4. SumFunction(Prefix(f, 0)) = 0
    BY ONLY <2>1, <2>3, SumZero
  <2>5. SumFunction(Prefix(g, 1)) = 0
    BY ONLY <2>2, <2>3, SumZero
  <2> QED BY <2>4, <2>5
<1>2. ASSUME NEW n \in Nat, n \in Good PROVE n + 1 \in Good
  <2>1. SUFFICES ASSUME n + 1 < M
                 PROVE  SumFunction(Prefix(g, (n + 1) + 1)) = SumFunction(Prefix(f, n + 1))
    OBVIOUS
  <2>2. n \in 0..M /\ n + 1 \in 0..M /\ g[n + 1] = f[n]
    BY <2>1
  <2>3. SumFunction(Prefix(g, (n + 1) + 1)) = SumFunction(Prefix(g, n + 1)) + g[n + 1]
    BY ONLY <2>2, PrefixStep, M \in Nat, g \in [0..M -> Nat]
  <2>4. SumFunction(Prefix(f, n + 1)) = SumFunction(Prefix(f, n)) + f[n]
    BY ONLY <2>2, PrefixStep, M \in Nat, f \in [0..M -> Nat]
  <2>5. SumFunction(Prefix(g, n + 1)) = SumFunction(Prefix(f, n))
    BY <1>2, <2>1
  <2> QED BY <2>2, <2>3, <2>4, <2>5
<1>3. M - 1 \in Nat /\ M - 1 \in Good
  <2>1. M - 1 \in Nat
    OBVIOUS
  <2> HIDE DEF Good
  <2> QED BY <1>1, <1>2, <2>1, NumberInduction
<1>4. SumFunction(Prefix(g, M)) = SumFunction(Prefix(f, M - 1))
  <2>1. (M - 1) + 1 = M /\ M - 1 < M
    OBVIOUS
  <2> QED BY <1>3, <2>1
<1>5. SumFunction(Prefix(f, M)) = SumFunction(Prefix(f, M - 1)) + f[M - 1]
  <2>1. (M - 1) + 1 = M /\ M - 1 \in 0..M
    OBVIOUS
  <2> QED BY <2>1, PrefixStep
<1>6. SumFunction(Prefix(f, M + 1)) = SumFunction(Prefix(f, M)) + f[M]
  <2>1. M \in 0..M
    OBVIOUS
  <2> QED BY ONLY <2>1, PrefixStep, M \in Nat, f \in [0..M -> Nat]
<1>7. SumFunction(Prefix(g, M + 1)) = SumFunction(Prefix(g, M)) + g[M]
  <2>1. M \in 0..M
    OBVIOUS
  <2> QED BY ONLY <2>1, PrefixStep, M \in Nat, g \in [0..M -> Nat]
<1>8. Prefix(f, M + 1) = f /\ Prefix(g, M + 1) = g
  BY DEF Prefix
<1>9. SumFunction(Prefix(f, M - 1)) \in Nat /\ f[M] \in Nat /\ f[M - 1] \in Nat
  <2>1. M - 1 \in 0..M /\ M \in 0..M
    OBVIOUS
  <2> QED BY <2>1, PrefixStep
<1> QED BY <1>4, <1>5, <1>6, <1>7, <1>8, <1>9

-----------------------------------------------------------------------------
(* The constants                                                             *)

LEMMA Constants ==
    /\ DayLength \in Nat /\ DayLength > 0 /\ Limit \in Nat /\ Limit > 0
    /\ MaxBack \in Nat /\ MaxBack > 0 /\ MaxLag \in Nat /\ MaxLag < DayLength
    /\ MaxSize \in Nat /\ MaxFaults \in Nat
    /\ Retentions \subseteq Nat /\ Shifts \subseteq Int
  BY DateDirsAssumption

\* A Duration below the limit is what it seems to be.
LEMMA NoWrap ==
    ASSUME NEW x \in Nat, x <= Limit
    PROVE  Wrap(-x) = -x
<1>1. -x + Limit \in Nat /\ -x + Limit < 2 * Limit
  BY Constants
<1>2. (-x + Limit) % (2 * Limit) = -x + Limit
  BY <1>1, Constants
<1> QED BY <1>2, Constants DEF Wrap

\* The products that the arithmetic below is about.
LEMMA Products ==
    ASSUME NEW d \in Int, NEW e \in Int
    PROVE  /\ d * DayLength \in Int
           /\ (d - e + 1) * DayLength = d * DayLength - e * DayLength + DayLength
           /\ (d - e) * DayLength = d * DayLength - e * DayLength
  BY Constants

-----------------------------------------------------------------------------
(* Type correctness                                                         *)

\* The time of day at runAt is that of the round's date, and no time has gone by
\* when there is no round.
Dated ==
    /\ mine * DayLength + hour - lag \in 0..(DayLength - 1)
    /\ pc = "idle" => mine = 0 /\ lag = 0

IInv == TypeOK /\ Dated

LEMMA NothingType == Nothing \in Sizes /\ NoManifest \in Manifests
  BY DEF Nothing, NoManifest, Sizes, Manifests

LEMMA Zeros ==
    /\ 0 \in 0..(DayLength - 1) /\ 0 \in 0..MaxLag /\ 0 \in 0..MaxFaults
    /\ 0 \in {0, 1} /\ 0 \in Back
  BY Constants DEF Back

LEMMA WrittenType ==
    ASSUME TypeOK, NEW m \in Manifests, WriteManifest(m)
    PROVE  man' \in [Back -> Manifests] /\ faults' \in 0..MaxFaults
<1>1. faults \in 0..MaxFaults /\ man \in [Back -> Manifests]
  BY DEF TypeOK
<1>2. CASE man' = [man EXCEPT ![mine] = m] /\ UNCHANGED faults
  BY <1>1, <1>2
<1>3. CASE Free = 0 /\ UNCHANGED <<man, faults>>
  BY <1>1, <1>3
<1>4. CASE Fault /\ UNCHANGED man
  BY <1>1, <1>4, Constants DEF Fault
<1> QED BY <1>2, <1>3, <1>4 DEF WriteManifest

LEMMA BaselineType == ASSUME TypeOK PROVE {Previous} \cup Misread \subseteq Manifests
<1>0. Misread \subseteq Manifests
  BY NothingType, Constants DEF Misread, TypeOK, Back
<1>1. CASE \E k \in Back : Baseline(k)
  <2>1. (CHOOSE k \in Back : Baseline(k)) \in Back
    BY <1>1
  <2> QED BY <1>0, <1>1, <2>1 DEF Previous, TypeOK
<1>2. CASE ~\E k \in Back : Baseline(k)
  BY <1>0, <1>2, NothingType DEF Previous
<1> QED BY <1>1, <1>2

LEMMA InitIInv == Init => IInv
<1> SUFFICES ASSUME Init PROVE IInv
  OBVIOUS
<1>1. {blind, tight, checked, torn} \subseteq BOOLEAN /\ {left, got} \subseteq SUBSET Containers
  BY DEF Init
<1>2. file \in [Back -> Sizes] /\ man \in [Back -> Manifests] /\ prev \in Manifests
       /\ want \in Sizes /\ dirs \subseteq Back
  BY NothingType DEF Init
<1>3. TypeOK
  BY Zeros, <1>1, <1>2 DEF Init, TypeOK
<1>4. Dated
  BY Constants DEF Init, Dated
<1> QED BY <1>3, <1>4 DEF IInv

LEMMA NewDayType ==
    ASSUME TypeOK, NewDay
    PROVE  dirs' \subseteq Back /\ file' \in [Back -> Sizes] /\ man' \in [Back -> Manifests]
<1>1. dirs' \subseteq Back
  BY DEF NewDay
<1>2. \A k \in Back : (k = 0 \/ k - 1 \in Back)
  BY Constants DEF Back
<1>3. file \in [Back -> [Containers -> Nat]] /\ man \in [Back -> Manifests]
  BY DEF TypeOK, Sizes
<1>4. file' \in [Back -> Sizes]
  <2>1. ASSUME NEW k \in Back, NEW c \in Containers
        PROVE  (IF k = 0 THEN 0 ELSE IF k < MaxBack THEN file[k - 1][c]
                ELSE file[k - 1][c] + file[k][c]) \in Nat
    <3>1. CASE k = 0
      BY <3>1
    <3>2. CASE k # 0
      <4>1. k - 1 \in Back
        BY <1>2, <3>2
      <4>2. file[k][c] \in Nat /\ file[k - 1][c] \in Nat
        BY <1>3, <4>1
      <4> QED BY <3>2, <4>2
    <3> QED BY <3>1, <3>2
  <2> QED BY <2>1 DEF NewDay, Sizes
<1>5. man' \in [Back -> Manifests]
  BY <1>2, <1>3, NothingType DEF NewDay
<1> QED BY <1>1, <1>4, <1>5

LEMMA TickIInv == ASSUME IInv, Tick PROVE IInv'
<1> USE DEF IInv
<1>1. TypeOK /\ Dated
  OBVIOUS
<1>2. hour \in Int /\ lag \in Int /\ hour' \in 0..(DayLength - 1) /\ lag' \in 0..MaxLag
  <2>1. lag' \in 0..MaxLag
    BY Constants DEF Tick, TypeOK
  <2>2. hour' \in 0..(DayLength - 1)
    BY Constants DEF Tick, NewDay, TypeOK
  <2> QED BY <2>1, <2>2 DEF TypeOK
<1>3. CASE pc = "idle"
  <2>1. mine' = 0 /\ lag' = 0 /\ pc' = pc
    BY <1>3 DEF Tick, NewDay, RoundDate, Dated
  <2>2. TypeOK'
    BY <1>2, <2>1, NewDayType, Zeros DEF Tick, TypeOK, setting, disk
  <2>3. mine' * DayLength + hour' - lag' \in 0..(DayLength - 1)
    <3>1. 0 * DayLength = 0
      BY Constants
    <3>2. hour' \in Int
      BY <1>2, Constants
    <3>3. mine' * DayLength = 0
      BY <2>1, <3>1
    <3>4. \A h \in Int : 0 + h - 0 = h
      OBVIOUS
    <3> QED BY <1>2, <2>1, <3>2, <3>3, <3>4
  <2> QED BY <2>1, <2>2, <2>3 DEF Dated
<1>4. CASE pc # "idle"
  <2>1. lag' = lag + 1 /\ lag < MaxLag /\ pc' = pc
    BY <1>4 DEF Tick
  <2>2. mine' \in {0, 1} /\ mine' * DayLength + hour' - lag' \in 0..(DayLength - 1)
    <3>1. CASE NewDay
      <4>1. mine' = mine + 1 /\ hour' = 0 /\ hour = DayLength - 1
        BY <1>4, <3>1 DEF NewDay, RoundDate
      <4>2. CASE mine = 0
        BY <1>2, <2>1, <4>1, <4>2, Constants DEF Dated
      <4>3. CASE mine = 1
        BY <1>2, <2>1, <4>1, <4>3, Constants DEF Dated
      <4> QED BY <4>2, <4>3 DEF TypeOK
    <3>2. CASE ~NewDay
      <4>1. mine' = mine /\ hour' = hour + 1
        BY <3>2 DEF Tick
      <4>2. CASE mine = 0
        BY <1>2, <2>1, <4>1, <4>2, Constants DEF Dated
      <4>3. CASE mine = 1
        BY <1>2, <2>1, <4>1, <4>3, Constants DEF Dated
      <4> QED BY <4>2, <4>3 DEF TypeOK
    <3> QED BY <3>1, <3>2
  <2>3. TypeOK'
    BY <1>2, <2>2, NewDayType DEF Tick, TypeOK, setting, disk
  <2> QED BY <1>4, <2>1, <2>2, <2>3 DEF Dated
<1> QED BY <1>3, <1>4

LEMMA BeginIInv == ASSUME IInv, Begin PROVE IInv'
<1> USE DEF IInv
<1>0. prev' \in Manifests /\ faults' \in 0..MaxFaults /\ blind' \in BOOLEAN
  <2>1. PICK base \in {Previous} \cup Misread :
            /\ prev' = base /\ blind' = (base # Previous)
            /\ UNCHANGED faults \/ Fault
    BY Zenon DEF Begin
  <2>2. blind' \in BOOLEAN
    BY <2>1, Zenon
  <2>3. faults' \in 0..MaxFaults
    BY <2>1, Constants DEF TypeOK, Fault
  <2> QED BY <2>1, <2>2, <2>3, BaselineType
<1>1. dirs' \subseteq Back
  BY Constants DEF Begin, Back, TypeOK
<1>2. want' \in Sizes
  BY Constants DEF Begin, Sizes
<1>3. checked' \in BOOLEAN /\ left' \subseteq Containers
  BY DEF Begin
<1>4. got' \subseteq Containers /\ tight' \in BOOLEAN /\ UNCHANGED torn
  BY DEF Begin
<1>5. TypeOK'
  BY <1>0, <1>1, <1>2, <1>3, <1>4, Zeros DEF Begin, TypeOK, setting
<1>6. Dated'
  BY Constants DEF Begin, TypeOK, Dated
<1> QED BY <1>5, <1>6

LEMMA RefuseIInv == ASSUME IInv, Refuse PROVE IInv'
<1> USE DEF IInv
<1>1. Refusal \in Manifests
  BY NothingType DEF Manifests, Refusal
<1>2. man' \in [Back -> Manifests] /\ faults' \in 0..MaxFaults
  <2>1. CASE WriteManifest(Refusal)
    BY <1>1, <2>1, WrittenType
  <2>2. CASE Fault /\ man' \in {man, [man EXCEPT ![mine] = Refusal]}
    BY <1>1, <2>2, Constants DEF TypeOK, Fault
  <2> QED BY <2>1, <2>2 DEF Refuse
<1>3. TypeOK'
  BY <1>2, Constants DEF Refuse, TypeOK, setting, time, local, Back
<1>4. Dated'
  BY DEF Refuse, Dated, time, local
<1> QED BY <1>3, <1>4

LEMMA DumpIInv == ASSUME IInv, NEW c \in Containers, Dump(c) PROVE IInv'
<1> USE DEF IInv
<1>1. mine \in Back
  BY Constants DEF TypeOK, Back
<1>2. file' \in [Back -> Sizes]
  BY <1>1 DEF Dump, TypeOK, Sizes
<1>3. got' \subseteq Containers /\ left' \subseteq Containers
  BY DEF Dump, TypeOK
<1>4. tight' \in BOOLEAN
  <2>1. CASE UNCHANGED tight
    BY <2>1 DEF TypeOK
  <2>2. CASE tight' \in {tight, tight \/ Pending > Free}
    <3>1. CASE tight' = tight
      BY <3>1 DEF TypeOK
    <3>2. CASE tight' = (tight \/ Pending > Free)
      BY ONLY <3>2
    <3> QED BY <2>2, <3>1, <3>2
  <2> QED BY <2>1, <2>2 DEF Dump
<1>5. TypeOK'
  BY <1>2, <1>3, <1>4 DEF Dump, TypeOK, setting, time
<1>6. Dated'
  BY DEF Dump, Dated, time
<1> QED BY <1>5, <1>6

LEMMA AssessIInv == ASSUME IInv, Assess PROVE IInv'
<1> USE DEF IInv
<1> DEFINE m == [kind |-> "assessed", size |-> Result,
                 warned |-> {c \in Containers : Anomalous(c)}, blind |-> blind]
<1>1. Result \in Sizes
  BY DEF Result, Sizes, TypeOK
<1>2. m \in Manifests
  BY <1>1 DEF Manifests, TypeOK
<1>3. WriteManifest(m)
  BY DEF Assess
<1>4. man' \in [Back -> Manifests] /\ faults' \in 0..MaxFaults
  <2> HIDE DEF m
  <2> QED BY <1>2, <1>3, WrittenType
<1>5. TypeOK'
  BY <1>4 DEF Assess, TypeOK, setting, time, local
<1>6. Dated'
  BY DEF Assess, Dated, time, local
<1> QED BY <1>5, <1>6

\* The end of a round, by itself or by a kill.
LEMMA OverIInv ==
    ASSUME IInv, Over, UNCHANGED <<setting, hour>>, faults' \in 0..MaxFaults,
           dirs' \subseteq Back, file' \in [Back -> Sizes], man' \in [Back -> Manifests],
           torn' \in BOOLEAN
    PROVE  IInv'
<1>1. {blind', tight', checked', torn'} \subseteq BOOLEAN /\ {left', got'} \subseteq SUBSET Containers
  BY DEF Over
<1>2. prev' \in Manifests /\ want' \in Sizes /\ mine' \in {0, 1} /\ lag' \in 0..MaxLag
  BY NothingType, Zeros DEF Over
<1>3. TypeOK'
  BY <1>1, <1>2 DEF IInv, Over, TypeOK, setting
<1>4. Dated'
  BY Constants DEF IInv, Over, TypeOK, Dated
<1> QED BY <1>3, <1>4 DEF IInv

\* What retention does: what it deletes has expired; without a fault nothing that has
\* expired is kept, and with one it may be kept in part.
LEMMA CleanParts ==
    ASSUME IInv, Clean
    PROVE  \E kept \in SUBSET dirs, less \in SUBSET dirs :
              /\ kept \subseteq dirs' /\ dirs' \subseteq dirs /\ dirs \ dirs' \subseteq less
              /\ \A k \in less : Expired(k)
              /\ \A k \in dirs' : Expired(k) => k \in kept
              /\ man' = [k \in Back |-> IF k \in less THEN NoManifest ELSE man[k]]
              /\ file' \in [Back -> Sizes]
              /\ \A k \in Back, c \in Containers : file'[k][c] = 0 \/ file'[k][c] = file[k][c]
              /\ \A k \in dirs \ dirs' : file'[k] = Nothing
              /\ torn' \in BOOLEAN /\ (~torn' => ~torn /\ \A j \in kept, k \in less : ~(k < j))
              /\ \/ Fault
                 \/ kept = {} /\ UNCHANGED faults /\ \A k \in dirs' : file'[k] = file[k]
<1>1. PICK kept \in SUBSET {k \in dirs : Expired(k)} :
          LET gone == {k \in dirs : Expired(k)} \ kept
          IN  /\ IF kept = {} THEN UNCHANGED faults ELSE Fault
              /\ dirs' = dirs \ gone
              /\ \E bare \in SUBSET kept, lost \in SUBSET (kept \X Containers) :
                    /\ man' = [k \in Back |-> IF k \in gone \cup bare THEN NoManifest ELSE man[k]]
                    /\ file' = [k \in Back |-> [c \in Containers |->
                                    IF k \in gone \/ <<k, c>> \in lost THEN 0 ELSE file[k][c]]]
                    /\ torn' = (torn \/ \E j \in kept, k \in gone \cup bare : k < j)
  BY Zenon DEF Clean
<1> DEFINE gone == {k \in dirs : Expired(k)} \ kept
<1>2. PICK bare \in SUBSET kept, lost \in SUBSET (kept \X Containers) :
          /\ man' = [k \in Back |-> IF k \in gone \cup bare THEN NoManifest ELSE man[k]]
          /\ file' = [k \in Back |-> [c \in Containers |->
                          IF k \in gone \/ <<k, c>> \in lost THEN 0 ELSE file[k][c]]]
          /\ torn' = (torn \/ \E j \in kept, k \in gone \cup bare : k < j)
  BY <1>1
<1>3. dirs' = dirs \ gone
  BY <1>1
<1> DEFINE less == gone \cup bare
<1>4. torn' \in BOOLEAN /\ (~torn' => ~torn /\ \A j \in kept, k \in less : ~(k < j))
  <2>1. torn' = (torn \/ \E j \in kept, k \in less : k < j)
    BY <1>2
  <2> HIDE DEF less
  <2> QED BY <2>1, Zenon
<1>5. dirs \subseteq Back /\ gone \subseteq dirs /\ file \in [Back -> [Containers -> Nat]]
  BY DEF IInv, TypeOK, Sizes
<1>6. \A k \in Back, c \in Containers :
          file'[k][c] = IF k \in gone \/ <<k, c>> \in lost THEN 0 ELSE file[k][c]
  <2> HIDE DEF gone
  <2> QED BY <1>2
<1>7. file' \in [Back -> Sizes]
  <2>1. \A k \in Back, c \in Containers :
            (IF k \in gone \/ <<k, c>> \in lost THEN 0 ELSE file[k][c]) \in Nat
    BY <1>5
  <2> HIDE DEF gone
  <2> QED BY <1>2, <2>1 DEF Sizes
<1>8. \A k \in dirs \ dirs' : file'[k] = Nothing
  <2> SUFFICES ASSUME NEW k \in dirs \ dirs' PROVE file'[k] = Nothing
    OBVIOUS
  <2>1. k \in Back /\ k \in gone
    BY <1>3, <1>5
  <2> HIDE DEF gone
  <2>2. file'[k] = [c \in Containers |-> IF k \in gone \/ <<k, c>> \in lost THEN 0 ELSE file[k][c]]
    BY <1>2, <2>1
  <2> QED BY <2>1, <2>2 DEF Nothing
<1>9. ASSUME kept = {} PROVE \A k \in dirs' : file'[k] = file[k]
  <2> SUFFICES ASSUME NEW k \in dirs' PROVE file'[k] = file[k]
    OBVIOUS
  <2>1. k \in Back /\ k \notin gone /\ lost = {}
    BY <1>3, <1>5, <1>9
  <2> HIDE DEF gone
  <2>2. file'[k] = [c \in Containers |-> IF k \in gone \/ <<k, c>> \in lost THEN 0 ELSE file[k][c]]
    BY <1>2, <2>1
  <2> QED BY <1>5, <2>1, <2>2
<1>10. /\ kept \subseteq dirs' /\ dirs' \subseteq dirs /\ dirs \ dirs' \subseteq less
       /\ kept \in SUBSET dirs /\ less \in SUBSET dirs
       /\ \A k \in less : Expired(k)
       /\ \A k \in dirs' : Expired(k) => k \in kept
  BY <1>3
<1>11. man' = [k \in Back |-> IF k \in less THEN NoManifest ELSE man[k]]
  BY <1>2
<1>12. \A k \in Back, c \in Containers : file'[k][c] = 0 \/ file'[k][c] = file[k][c]
  BY <1>6
<1>13. Fault \/ (kept = {} /\ UNCHANGED faults /\ \A k \in dirs' : file'[k] = file[k])
  BY <1>1, <1>9
<1> HIDE DEF less, gone
<1> QED BY <1>4, <1>7, <1>8, <1>10, <1>11, <1>12, <1>13

LEMMA CleanIInv == ASSUME IInv, Clean PROVE IInv'
<1>1. /\ dirs' \subseteq dirs /\ file' \in [Back -> Sizes] /\ torn' \in BOOLEAN
      /\ Fault \/ UNCHANGED faults
  BY CleanParts
<1>2. man' \in [Back -> Manifests]
  <2>1. PICK less \in SUBSET dirs : man' = [k \in Back |-> IF k \in less THEN NoManifest ELSE man[k]]
    BY CleanParts
  <2> QED BY <2>1, NothingType DEF IInv, TypeOK
<1>3. faults' \in 0..MaxFaults
  BY <1>1, Constants DEF IInv, TypeOK, Fault
<1>4. dirs' \subseteq Back
  BY <1>1 DEF IInv, TypeOK
<1> QED BY <1>1, <1>2, <1>3, <1>4, OverIInv DEF Clean

LEMMA KillIInv == ASSUME IInv, Kill PROVE IInv'
<1>1. faults' \in 0..MaxFaults
  BY Constants DEF IInv, TypeOK, Kill, Fault
<1> QED BY <1>1, OverIInv DEF Kill, IInv, TypeOK, disk

LEMMA IInvStep == IInv /\ [Next]_vars => IInv'
<1> SUFFICES ASSUME IInv, [Next]_vars PROVE IInv'
  OBVIOUS
<1>1. CASE UNCHANGED vars
  BY <1>1 DEF IInv, TypeOK, Dated, vars, setting, time, disk, local
<1> QED BY <1>1, TickIInv, BeginIInv, RefuseIInv, DumpIInv, AssessIInv, CleanIInv, KillIInv
        DEF Next, Round

LEMMA IInvCorrect == Spec => []IInv
  BY InitIInv, IInvStep, PTL DEF Spec

\* Every reachable state has the declared shape; in particular the round's date
\* is today or yesterday.
THEOREM TypeCorrect == Spec => []TypeOK
  BY IInvCorrect, PTL DEF IInv

-----------------------------------------------------------------------------
(* Ages                                                                     *)

\* What a round deletes is expired, and what it leaves is not, unless a removal
\* has failed.
LEMMA CleanEffect ==
    ASSUME Clean
    PROVE  /\ \A k \in dirs \ dirs' : Expired(k)
           /\ faults' = faults /\ faults \in Nat => \A k \in dirs' : k \in dirs /\ ~Expired(k)
<1>1. PICK kept \in SUBSET {k \in dirs : Expired(k)} :
          /\ IF kept = {} THEN UNCHANGED faults ELSE Fault
          /\ dirs' = dirs \ ({k \in dirs : Expired(k)} \ kept)
  BY DEF Clean
<1>2. ASSUME faults' = faults, faults \in Nat PROVE kept = {}
  BY <1>1, <1>2 DEF Fault
<1> QED BY <1>1, <1>2

\* A directory has expired if it is more than the days kept older than the
\* round's time of day, in the zone of the process.
LEMMA ExpiredMeans ==
    ASSUME IInv, Fits, NEW k \in Back
    PROVE  Expired(k) <=> days > 0 /\ Age(k) > days * DayLength
<1>1. days \in Nat /\ days * DayLength \in Nat
  BY Constants DEF IInv, TypeOK
<1>2. Cutoff = -(days * DayLength)
  BY <1>1, NoWrap DEF Cutoff, Fits
<1>3. Age(k) \in Int
  BY Constants DEF Age, IInv, TypeOK, Back
<1> QED BY <1>1, <1>2, <1>3 DEF Expired

LEMMA AgeBounds ==
    ASSUME IInv, NEW k \in Back
    PROVE  /\ (k - mine + 1) * DayLength - 1 >= Age(k) + shift
           /\ (k - mine) * DayLength <= Age(k) + shift
<1>1. k \in Int /\ mine \in Int /\ hour \in Int /\ lag \in Int /\ shift \in Int
  BY Constants DEF IInv, TypeOK, Back
<1> QED BY <1>1, Products, Constants DEF Age, IInv, Dated

\* A round that reaches retention within a day deletes nothing from RetentionDays - 1
\* days before its date, or later, the zones aside.
THEOREM OnlyOldIsDeleted == Spec => DeletedAreOld
<1>1. IInv /\ Clean /\ Fits =>
          \A k \in dirs \ dirs' : (k - mine + 1) * DayLength - 1 > days * DayLength + shift
  <2> SUFFICES ASSUME IInv, Clean, Fits, NEW k \in dirs \ dirs'
               PROVE  (k - mine + 1) * DayLength - 1 > days * DayLength + shift
    OBVIOUS
  <2>1. k \in Back /\ Expired(k)
    BY CleanEffect DEF IInv, TypeOK
  <2>2. Age(k) > days * DayLength
    BY <2>1, ExpiredMeans
  <2>3. {k, mine, hour, lag, shift, days} \subseteq Int
    BY <2>1, Constants DEF IInv, TypeOK, Back
  <2> QED BY <2>1, <2>2, <2>3, AgeBounds, Products, Constants DEF Age
<1> QED BY <1>1, IInvCorrect, PTL DEF DeletedAreOld

\* Nothing from more than RetentionDays before the round's date is left behind,
\* the zones and failing removals aside.
THEOREM OldIsDeleted == Spec => NothingKeptTooLong
<1>1. IInv /\ Clean /\ Fits /\ days > 0 /\ faults' = faults =>
          \A k \in dirs' : (k - mine) * DayLength <= days * DayLength + shift
  <2> SUFFICES ASSUME IInv, Clean, Fits, days > 0, faults' = faults, NEW k \in dirs'
               PROVE  (k - mine) * DayLength <= days * DayLength + shift
    OBVIOUS
  <2>1. k \in Back /\ ~Expired(k)
    BY CleanEffect, Constants DEF IInv, TypeOK
  <2>2. Age(k) <= days * DayLength
    BY <2>1, ExpiredMeans, Constants DEF Age, IInv, TypeOK, Back
  <2>3. {k, mine, hour, lag, shift, days} \subseteq Int
    BY <2>1, Constants DEF IInv, TypeOK, Back
  <2> QED BY <2>1, <2>2, <2>3, AgeBounds, Products, Constants DEF Age
<1> QED BY <1>1, IInvCorrect, PTL DEF NothingKeptTooLong

\* Where the documentation is right about the directory that a round has just
\* written: it is kept if the days kept outweigh the zones and fit a Duration.
THEOREM OwnDirectoryIsKept ==
    Spec => [][Clean /\ Fits /\ mine \in dirs
                 /\ (days - 1) * DayLength + shift >= 0 => mine \in dirs']_vars
<1>1. IInv /\ Clean /\ Fits /\ mine \in dirs
          /\ (days - 1) * DayLength + shift >= 0 => mine \in dirs'
  <2> SUFFICES ASSUME IInv, Clean, Fits, mine \in dirs, mine \notin dirs',
                      (days - 1) * DayLength + shift >= 0
               PROVE  FALSE
    OBVIOUS
  <2>1. mine \in Back /\ Expired(mine)
    BY CleanEffect DEF IInv, TypeOK
  <2>2. Age(mine) > days * DayLength
    BY <2>1, ExpiredMeans
  <2>3. {mine, hour, lag, shift, days} \subseteq Int
    BY <2>1, Constants DEF IInv, TypeOK, Back
  <2>4. (mine - mine + 1) * DayLength - 1 >= Age(mine) + shift
    BY <2>1, AgeBounds
  <2>5. (days - 1) * DayLength = days * DayLength - DayLength
    BY <2>3, Constants
  <2> QED BY <2>2, <2>3, <2>4, <2>5, Products, Constants DEF Age
<1> QED BY <1>1, IInvCorrect, PTL

-----------------------------------------------------------------------------
(* Space                                                                    *)

\* What each directory takes.
Taken == [k \in Back |-> SumFunction(file[k])]

LEMMA Finite == IsFiniteSet(Containers) /\ IsFiniteSet(Back)
  BY DateDirsAssumption, FS_Interval, Constants DEF Back

LEMMA TakenType == ASSUME TypeOK PROVE Taken \in [Back -> Nat] /\ Used \in Nat
<1>1. \A k \in Back : file[k] \in [Containers -> Nat]
  BY DEF TypeOK, Sizes
<1>2. \A k \in Back : SumFunction(file[k]) \in Nat
  BY <1>1, Finite, SumType
<1>3. Taken \in [Back -> Nat]
  BY <1>2 DEF Taken
<1>4. SumFunction(Taken) \in Nat
  <2> HIDE DEF Taken
  <2> QED BY <1>3, Finite, SumType
<1> QED BY <1>3, <1>4 DEF Used, Taken

\* The requirement is not negative, and what exceeds it exceeds twelve tenths of
\* what the manifest lists.
LEMMA RequiredCovers ==
    ASSUME NEW m \in Manifests
    PROVE  /\ Required(m) \in Nat
           /\ \A n \in Nat : n > Required(m) => 10 * n > 12 * SumFunction(m.size)
<1> DEFINE s == SumFunction(m.size)
           q == (12 * s) \div 10
<1>1. s \in Nat
  <2>1. m.size \in [Containers -> Nat]
    BY DEF Manifests, Sizes
  <2> QED BY <2>1, Finite, SumType
<1>2. MinFree \in Nat
  BY DateDirsAssumption
<1> HIDE DEF s
<1>3. q \in Nat /\ 10 * q + 10 > 12 * s
  BY <1>1
<1> HIDE DEF q
<1>4. \E x \in {MinFree, q} : \A y \in {MinFree, q} : x >= y
  BY <1>2, <1>3
<1>5. Max({MinFree, q}) \in {MinFree, q} /\ \A y \in {MinFree, q} : Max({MinFree, q}) >= y
  BY <1>4 DEF Max
<1>6. Required(m) \in Nat /\ Required(m) >= q
  BY <1>2, <1>3, <1>5 DEF Required, q, s
<1>7. \A n \in Nat : n > Required(m) => 10 * n > 12 * s
  BY <1>1, <1>3, <1>6
<1> QED BY <1>6, <1>7 DEF s

\* Midnight leaves what is on the disk as it is: directories that are merged take
\* what both of them took.
LEMMA NewDayUses == ASSUME TypeOK, NewDay PROVE Used' = Used
<1>1. MaxBack \in Nat /\ MaxBack > 0 /\ Back = 0..MaxBack
  BY Constants DEF Back
<1>2. Taken \in [0..MaxBack -> Nat] /\ Taken' \in [0..MaxBack -> Nat]
  <2>1. Taken \in [Back -> Nat]
    BY TakenType
  <2>2. \A k \in Back : SumFunction(file'[k]) \in Nat
    <3>1. \A k \in Back : file'[k] \in [Containers -> Nat]
      BY NewDayType DEF Sizes
    <3> QED BY <3>1, Finite, SumType
  <2>3. Taken' \in [Back -> Nat]
    BY <2>2 DEF Taken
  <2> QED BY <1>1, <2>1, <2>3
<1>3. \A k \in Back : file[k] \in [Containers -> Nat] /\ file'[k] \in [Containers -> Nat]
  BY NewDayType DEF TypeOK, Sizes
<1>4. Taken'[0] = 0
  <2>1. 0 \in Back
    BY Zeros
  <2>2. \A c \in Containers : file'[0][c] = 0
    BY <2>1 DEF NewDay
  <2>3. SumFunction(file'[0]) = 0
    BY <1>3, <2>1, <2>2, Finite, SumZero
  <2> QED BY <2>1, <2>3 DEF Taken
<1>5. ASSUME NEW k \in 1..(MaxBack - 1) PROVE Taken'[k] = Taken[k - 1]
  <2>1. k \in Back /\ k - 1 \in Back /\ k # 0 /\ k < MaxBack
    BY <1>1
  <2>2. file'[k] = file[k - 1]
    <3>1. \A c \in Containers : file'[k][c] = file[k - 1][c]
      BY <2>1 DEF NewDay
    <3> QED BY <1>3, <2>1, <3>1
  <2> QED BY <2>1, <2>2 DEF Taken
<1>6. Taken'[MaxBack] = Taken[MaxBack - 1] + Taken[MaxBack]
  <2>1. MaxBack \in Back /\ MaxBack - 1 \in Back /\ MaxBack # 0 /\ ~(MaxBack < MaxBack)
    BY <1>1
  <2>2. \A c \in Containers : file'[MaxBack][c] = file[MaxBack - 1][c] + file[MaxBack][c]
    BY <2>1 DEF NewDay
  <2>3. SumFunction(file'[MaxBack]) = SumFunction(file[MaxBack - 1]) + SumFunction(file[MaxBack])
    BY <1>3, <2>1, <2>2, Finite, SumAdd
  <2> QED BY <2>1, <2>3 DEF Taken
<1>7. SumFunction(Taken') = SumFunction(Taken)
  <2> HIDE DEF Taken
  <2> QED BY <1>1, <1>2, <1>4, <1>5, <1>6, SumShift
<1> QED BY <1>7 DEF Used, Taken

\* A dump takes the place of what the container had in the directory.
LEMMA DumpUses ==
    ASSUME TypeOK, NEW c \in Containers, file' = [file EXCEPT ![mine][c] = want[c]]
    PROVE  Used' \in Nat /\ Used' <= Used + want[c]
<1>1. mine \in Back /\ want[c] \in Nat
  BY Constants DEF TypeOK, Back, Sizes
<1>2. /\ file[mine] \in [Containers -> Nat] /\ file'[mine] \in [Containers -> Nat]
      /\ \A k \in Back : file[k] \in [Containers -> Nat]
      /\ \A k \in Back : k # mine => file'[k] = file[k]
      /\ file'[mine][c] = want[c] /\ \A b \in Containers : b # c => file'[mine][b] = file[mine][b]
  BY <1>1 DEF TypeOK, Sizes
<1>3. SumFunction(file'[mine]) + file[mine][c] = SumFunction(file[mine]) + want[c]
  BY <1>2, Finite, SumUpdate
<1>4. SumFunction(file'[mine]) \in Nat /\ SumFunction(file[mine]) \in Nat /\ file[mine][c] \in Nat
  BY <1>2, Finite, SumType
<1>5. Taken \in [Back -> Nat] /\ Used \in Nat
  BY TakenType
<1>6. Taken' \in [Back -> Nat] /\ \A k \in Back : k # mine => Taken'[k] = Taken[k]
  <2>1. \A k \in Back : Taken'[k] = SumFunction(file'[k]) /\ Taken[k] = SumFunction(file[k])
    BY DEF Taken
  <2>2. \A k \in Back : k # mine => Taken'[k] = Taken[k]
    BY <1>2, <2>1
  <2>3. \A k \in Back : Taken'[k] \in Nat
    BY <1>1, <1>4, <1>5, <2>1, <2>2
  <2>4. Taken' = [k \in Back |-> Taken'[k]]
    BY DEF Taken
  <2> HIDE DEF Taken
  <2> QED BY <2>2, <2>3, <2>4
<1>7. Taken'[mine] = SumFunction(file'[mine]) /\ Taken[mine] = SumFunction(file[mine])
  BY <1>1 DEF Taken
<1>8. /\ SumFunction(Taken') + Taken[mine] = SumFunction(Taken) + Taken'[mine]
      /\ SumFunction(Taken') \in Nat
  <2> HIDE DEF Taken
  <2> QED BY <1>1, <1>5, <1>6, Finite, SumUpdate, SumType
<1>9. Used' = SumFunction(Taken') /\ Used = SumFunction(Taken)
  BY DEF Used, Taken
<1> QED BY <1>1, <1>3, <1>4, <1>5, <1>7, <1>8, <1>9

\* After a check, what is free and what the round has placed make up the
\* requirement: nobody else writes, and an overwritten dump only gives space back.
Covered == pc = "dump" /\ checked => Free + SumFunction(Result) >= Required(prev)

Budget ==
    /\ pc = "dump" => left \cap got = {}
    /\ Covered
    /\ EstimateIsEnough

LEMMA ResultType == ASSUME TypeOK PROVE Result \in [Containers -> Nat] /\ SumFunction(Result) \in Nat
<1>1. Result \in [Containers -> Nat]
  BY DEF TypeOK, Sizes, Result
<1> HIDE DEF Result
<1> QED BY <1>1, Finite, SumType

\* What is placed and what is pending is not more than what the round wants.
LEMMA PendingBounds ==
    ASSUME TypeOK, left \cap got = {}
    PROVE  Pending \in Nat /\ Pending + SumFunction(Result) <= SumFunction(want)
<1> DEFINE p == [c \in Containers |-> IF c \in left THEN want[c] ELSE 0]
           s == [c \in Containers |-> p[c] + Result[c]]
<1>1. /\ want \in [Containers -> Nat] /\ p \in [Containers -> Nat] /\ s \in [Containers -> Nat]
      /\ \A c \in Containers : s[c] <= want[c]
  BY DEF TypeOK, Sizes, Result
<1>2. \A c \in Containers : s[c] = p[c] + Result[c]
  OBVIOUS
<1>3. Pending = SumFunction(p)
  BY DEF Pending
<1>4. Result \in [Containers -> Nat]
  BY ResultType
<1> HIDE DEF p, s
<1>5. SumFunction(s) = SumFunction(p) + SumFunction(Result)
  BY <1>1, <1>2, <1>4, Finite, SumAdd
<1>6. SumFunction(s) <= SumFunction(want)
  BY <1>1, Finite, SumMono
<1>7. SumFunction(p) \in Nat
  BY <1>1, Finite, SumType
<1> QED BY <1>3, <1>5, <1>6, <1>7

\* A dump that is placed adds to the result.
LEMMA ResultGrows ==
    ASSUME TypeOK, TypeOK', NEW c \in Containers, c \notin got, got' = got \cup {c}, UNCHANGED want
    PROVE  SumFunction(Result') = SumFunction(Result) + want[c]
<1>1. Result \in [Containers -> Nat]
  BY ResultType
<1>2. Result' \in [Containers -> Nat]
  BY DEF TypeOK, Sizes, Result
<1>3. Result[c] = 0 /\ Result'[c] = want[c] /\ \A b \in Containers : b # c => Result'[b] = Result[b]
  BY DEF Result
<1>4. want[c] \in Nat
  BY DEF TypeOK, Sizes
<1> HIDE DEF Result
<1>5. SumFunction(Result') + Result[c] = SumFunction(Result) + Result'[c]
  BY <1>1, <1>2, <1>3, Finite, SumUpdate
<1>6. SumFunction(Result) \in Nat /\ SumFunction(Result') \in Nat
  BY <1>1, <1>2, Finite, SumType
<1> QED BY <1>3, <1>4, <1>5, <1>6

LEMMA FreeType == ASSUME TypeOK PROVE Free \in Int
  BY TakenType, DateDirsAssumption DEF TypeOK, Free

LEMMA BeginBudget == ASSUME IInv, Begin PROVE Budget'
<1>1. got' = {} /\ tight' = FALSE
  BY DEF Begin
<1>2. ASSUME checked' PROVE Free' + SumFunction(Result') >= Required(prev')
  <2>1. Free >= Required(prev') /\ prev' \in {Previous} \cup Misread
    BY <1>2 DEF Begin
  <2>2. Free' = Free
    BY DEF Begin, Free, Used, setting
  <2>3. TypeOK'
    BY BeginIInv DEF IInv
  <2>4. Result' \in [Containers -> Nat] /\ \A c \in Containers : Result'[c] = 0
    BY <1>1, <2>3 DEF Result, TypeOK, Sizes
  <2>5. SumFunction(Result') = 0
    <3> HIDE DEF Result
    <3> QED BY <2>4, Finite, SumZero
  <2>6. Required(prev') \in Nat /\ Free \in Int
    <3>1. prev' \in Manifests
      BY <2>1, BaselineType DEF IInv
    <3> QED BY <3>1, RequiredCovers, FreeType DEF IInv
  <2> QED BY <2>1, <2>2, <2>5, <2>6
<1>3. Covered'
  BY <1>2 DEF Covered
<1> QED BY <1>1, <1>3 DEF Budget, EstimateIsEnough

LEMMA DumpBudget == ASSUME IInv, Budget, NEW c \in Containers, Dump(c) PROVE Budget'
<1> USE DEF IInv
<1>1. /\ pc = "dump" /\ c \in left /\ left \cap got = {} /\ left' = left \ {c}
      /\ UNCHANGED <<pc, want, prev, checked, capacity>>
  BY DEF Dump, Budget, setting
<1>2. TypeOK /\ TypeOK'
  BY DumpIInv
<1>3. Free \in Int /\ SumFunction(Result) \in Nat /\ Required(prev) \in Nat /\ want[c] \in Nat /\ Used \in Nat
  <2>1. prev \in Manifests /\ want[c] \in Nat
    BY DEF TypeOK, Sizes
  <2> QED BY <2>1, FreeType, ResultType, RequiredCovers, TakenType
<1>4. checked => Free + SumFunction(Result) >= Required(prev)
  BY <1>1 DEF Budget, Covered
<1>5. CASE /\ file' = [file EXCEPT ![mine][c] = want[c]]
           /\ got' = got \cup {c} /\ UNCHANGED tight
  <2>1. SumFunction(Result') = SumFunction(Result) + want[c]
    BY <1>1, <1>2, <1>5, ResultGrows
  <2>2. Used' \in Nat /\ Used' <= Used + want[c]
    BY <1>5, DumpUses
  <2>3. capacity \in Nat /\ Free = capacity - Used /\ Free' = capacity - Used'
    BY <1>1, DateDirsAssumption DEF Free, TypeOK
  <2>4. Required(prev') = Required(prev)
    BY <1>1
  <2>5. Covered'
    BY <1>1, <1>3, <1>4, <2>1, <2>2, <2>3, <2>4 DEF Covered
  <2>6. EstimateIsEnough'
    BY <1>1, <1>5 DEF Budget, EstimateIsEnough
  <2> QED BY <1>1, <1>5, <2>5, <2>6 DEF Budget
<1>6. CASE tight' \in {tight, tight \/ Pending > Free} /\ UNCHANGED <<file, got>>
  <2>1. Covered'
    BY <1>1, <1>6 DEF Budget, Covered, Free, Used, Result
  <2>2. ASSUME checked, Pending > Free PROVE 10 * SumFunction(want) > 12 * SumFunction(prev.size)
    <3>1. Pending \in Nat /\ Pending + SumFunction(Result) <= SumFunction(want)
      BY <1>1, PendingBounds
    <3>2. want \in [Containers -> Nat] /\ prev \in Manifests
      BY DEF TypeOK, Sizes
    <3>3. SumFunction(want) \in Nat
      BY <3>2, Finite, SumType
    <3>4. SumFunction(want) > Required(prev)
      BY <1>3, <1>4, <2>2, <3>1, <3>3
    <3> QED BY <3>2, <3>3, <3>4, RequiredCovers
  <2>3. EstimateIsEnough'
    <3>1. ASSUME tight', checked PROVE tight \/ Pending > Free
      <4>1. CASE tight' = tight
        BY <3>1, <4>1
      <4>2. CASE tight' = (tight \/ Pending > Free)
        BY ONLY <3>1, <4>2
      <4> QED BY <1>6, <4>1, <4>2
    <3> QED BY <1>1, <2>2, <3>1 DEF Budget, EstimateIsEnough
  <2> QED BY <1>1, <1>6, <2>1, <2>3 DEF Budget
<1> QED BY <1>5, <1>6 DEF Dump

\* Every step keeps the budget.
LEMMA BudgetStep == IInv /\ Budget /\ [Next]_vars => Budget'
<1> SUFFICES ASSUME IInv, Budget, [Next]_vars PROVE Budget'
  OBVIOUS
<1>1. CASE UNCHANGED vars
  BY <1>1 DEF Budget, Covered, EstimateIsEnough, Free, Used, Result, vars, setting, disk, local
<1>2. CASE Tick
  <2>1. UNCHANGED <<capacity, pc, checked, prev, want, got, left, tight>>
    BY <1>2 DEF Tick, setting
  <2>2. Used' = Used
    BY <1>2, NewDayUses DEF Tick, disk, Used, IInv
  <2> QED BY <2>1, <2>2 DEF Budget, Covered, EstimateIsEnough, Free, Result
<1>3. CASE Begin
  BY <1>3, BeginBudget
<1>4. CASE Refuse
  BY <1>4 DEF Refuse, local, Budget, Covered, EstimateIsEnough
<1>5. ASSUME NEW c \in Containers, Dump(c) PROVE Budget'
  BY <1>5, DumpBudget
<1>6. CASE Assess
  BY <1>6 DEF Assess, local, Budget, Covered, EstimateIsEnough
<1>7. CASE Clean \/ Kill
  BY <1>7 DEF Clean, Kill, Over, Budget, Covered, EstimateIsEnough
<1> QED BY <1>1, <1>2, <1>3, <1>4, <1>5, <1>6, <1>7 DEF Next, Round

\* Dumps of a round that was checked run out of space only if they need more than
\* a fifth more than the baseline lists, for any sizes and any number of containers.
THEOREM EstimateHolds == Spec => []EstimateIsEnough
<1>1. Init => Budget
  BY DEF Init, Budget, Covered, EstimateIsEnough
<1> QED BY <1>1, IInvCorrect, BudgetStep, PTL DEF Spec, Budget

-----------------------------------------------------------------------------
(* Manifests                                                                *)

\* A manifest has a directory, and so has the round.
Housed ==
    /\ \A k \in Back : man[k].kind # "none" => k \in dirs
    /\ pc # "idle" => mine \in dirs

\* While a round of yesterday goes on, nobody writes a manifest of today.
Alone == mine = 1 => man[0].kind = "none"

\* The baseline of a round is still the manifest that precedes its own, if it could
\* be read.
Based == pc # "idle" /\ ~blind => \A j \in Back : Before(j, mine) => prev = man[j]

Chain == Housed /\ Alone /\ Based /\ DropsAreReported

LEMMA ManType ==
    ASSUME IInv
    PROVE  /\ mine \in {0, 1} /\ mine \in Back /\ man \in [Back -> Manifests]
           /\ pc = "idle" => mine = 0
           /\ \A k \in Back : k \in Int /\ k >= 0 /\ k <= MaxBack
  BY Constants DEF IInv, TypeOK, Dated, Back

\* A pair of successive manifests is one of the day before.
LEMMA NewDayBefore ==
    ASSUME IInv, NewDay, NEW j \in Back, NEW k \in Back, k > 0, Before(j, k)'
    PROVE  /\ k - 1 \in Back /\ man'[k] = man[k - 1]
           /\ \E i \in Back : Before(i, k - 1) /\ man'[j] = man[i]
<1>1. /\ MaxBack \in Int /\ j \in Int /\ k \in Int /\ k < j /\ j <= MaxBack /\ j - 1 \in Back
      /\ k - 1 \in Back
  BY Constants DEF Back, Before
<1>2. \A i \in Back : i # 0 /\ i < MaxBack => man'[i] = man[i - 1]
  BY DEF NewDay
<1>3. man'[k] = man[k - 1]
  BY <1>1, <1>2
<1>4. \A i \in k..(j - 2) : man[i].kind = "none"
  <2> SUFFICES ASSUME NEW i \in k..(j - 2) PROVE man[i].kind = "none"
    OBVIOUS
  <2>1. i + 1 \in (k + 1)..(j - 1) /\ i + 1 \in Back /\ i + 1 # 0 /\ i + 1 < MaxBack /\ (i + 1) - 1 = i
    BY <1>1 DEF Back
  <2>2. man'[i + 1].kind = "none"
    BY <2>1 DEF Before
  <2> QED BY <1>2, <2>1, <2>2
<1>5. man'[j].kind # "none"
  BY DEF Before
<1>6. j # 0 /\ (j < MaxBack \/ man[j - 1].kind # "none" => man'[j] = man[j - 1])
           /\ (~(j < MaxBack \/ man[j - 1].kind # "none") => man'[j] = man[j])
  BY <1>1 DEF NewDay
<1>7. CASE j < MaxBack \/ man[j - 1].kind # "none"
  <2>1. man'[j] = man[j - 1]
    BY <1>6, <1>7
  <2>2. Before(j - 1, k - 1)
    <3>1. k - 1 < j - 1 /\ ((k - 1) + 1)..((j - 1) - 1) = k..(j - 2)
      BY <1>1
    <3> QED BY <1>4, <1>5, <2>1, <3>1 DEF Before
  <2> QED BY <1>1, <1>3, <2>1, <2>2
<1>8. CASE ~(j < MaxBack \/ man[j - 1].kind # "none")
  <2>1. man'[j] = man[j]
    BY <1>6, <1>8
  <2>2. Before(j, k - 1)
    <3>1. k - 1 < j /\ \A i \in ((k - 1) + 1)..(j - 1) : i \in k..(j - 2) \/ i = j - 1
      BY <1>1
    <3> QED BY <1>4, <1>5, <1>8, <2>1, <3>1 DEF Before
  <2> QED BY <1>1, <1>3, <2>1, <2>2
<1> QED BY <1>7, <1>8

LEMMA NewDayChain ==
    ASSUME IInv, Chain, NewDay, UNCHANGED <<pc, prev, blind, torn>>, mine' \in {0, 1}
    PROVE  Chain'
<1>0. /\ mine' = IF pc = "idle" THEN 0 ELSE mine + 1
      /\ 0 \in Back /\ man'[0] = NoManifest
  BY Zeros DEF NewDay, RoundDate
<1>1. Housed'
  <2>1. ASSUME NEW k \in Back, man'[k].kind # "none" PROVE k \in dirs'
    <3>1. k # 0
      BY <1>0, <2>1 DEF NoManifest
    <3>2. k - 1 \in Back /\ (man'[k] = man[k - 1] \/ (k = MaxBack /\ man'[k] = man[k]))
      BY <3>1, Constants DEF NewDay, Back
    <3>3. CASE man'[k] = man[k - 1]
      <4>1. k - 1 \in dirs /\ k - 1 \in Older(k)
        BY <2>1, <3>2, <3>3 DEF Chain, Housed, Older
      <4> QED BY <4>1 DEF NewDay
    <3>4. CASE k = MaxBack /\ man'[k] = man[k]
      <4>1. k \in dirs /\ k \in Older(k)
        BY <2>1, <3>4 DEF Chain, Housed, Older
      <4> QED BY <4>1 DEF NewDay
    <3> QED BY <3>2, <3>3, <3>4
  <2>2. ASSUME pc' # "idle" PROVE mine' \in dirs'
    <3>1. mine' = 1 /\ mine = 0 /\ 1 \in Back
      BY <1>0, <2>2, ManType, Constants DEF Back
    <3>2. mine \in dirs
      BY <2>2 DEF Chain, Housed
    <3>3. 0 \in Older(1)
      BY Constants DEF Older
    <3> QED BY <3>1, <3>2, <3>3 DEF NewDay
  <2> QED BY <2>1, <2>2 DEF Housed
<1>2. Alone'
  BY <1>0 DEF Alone, NoManifest
<1>3. Based'
  <2> SUFFICES ASSUME pc' # "idle", ~blind', NEW j \in Back, Before(j, mine)' PROVE prev' = man'[j]
    BY DEF Based
  <2>1. mine' = 1 /\ mine = 0 /\ 1 \in Back
    BY <1>0, ManType, Constants DEF Back
  <2>2. Before(j, 1)'
    BY <2>1 DEF Before
  <2>3. PICK i \in Back : Before(i, 1 - 1) /\ man'[j] = man[i]
    BY <2>1, <2>2, NewDayBefore
  <2>4. Before(i, mine)
    BY <2>1, <2>3
  <2> QED BY <2>3, <2>4 DEF Chain, Based
<1>4. DropsAreReported'
  <2> SUFFICES ASSUME ~torn', NEW j \in Back, NEW k \in Back, NEW c \in Containers,
                      Before(j, k)', man'[k].kind = "assessed", ~man'[k].blind,
                      man'[j].size[c] > 0, man'[k].size[c] = 0
               PROVE  c \in man'[k].warned
    BY DEF DropsAreReported
  <2>1. k > 0
    BY <1>0, ManType DEF NoManifest
  <2>2. k - 1 \in Back /\ man'[k] = man[k - 1] /\ \E i \in Back : Before(i, k - 1) /\ man'[j] = man[i]
    BY <2>1, NewDayBefore
  <2> QED BY <2>2 DEF Chain, DropsAreReported
<1> QED BY <1>1, <1>2, <1>3, <1>4 DEF Chain

\* A round begins with the manifest before its own, midnight or rerun.
LEMMA BeginChain == ASSUME IInv, Chain, Begin PROVE Chain'
<1>0. mine' = 0 /\ man' = man /\ dirs' = dirs \cup {0} /\ torn' = torn
  BY DEF Begin
<1>1. ~blind' => prev' = Previous
  BY DEF Begin
<1>2. ASSUME NEW j \in Back, Before(j, 0) PROVE Previous = man[j]
  <2>1. ASSUME NEW i \in Back, Baseline(i) PROVE man[i] = man[j]
    <3>1. {i, j} \subseteq Int /\ i > 0 /\ j > 0
      BY <1>2, <2>1, ManType DEF Baseline, Before
    <3>2. ~(i < j)
      <4>1. i < j => i \in (0 + 1)..(j - 1)
        BY <3>1
      <4> QED BY <1>2, <2>1, <4>1 DEF Baseline, Before
    <3>3. ~(j < i)
      <4>1. j < i => j \in 1..(i - 1)
        BY <3>1
      <4> QED BY <1>2, <2>1, <4>1 DEF Baseline, Before
    <3> QED BY <3>1, <3>2, <3>3
  <2>2. Baseline(j)
    <3>1. j \in 1..MaxBack /\ (0 + 1)..(j - 1) = 1..(j - 1)
      BY <1>2, ManType DEF Before
    <3> QED BY <1>2, <3>1 DEF Baseline, Before
  <2> QED BY <2>1, <2>2 DEF Previous
<1>3. Housed'
  BY <1>0 DEF Chain, Housed
<1>4. Alone'
  BY <1>0 DEF Alone
<1>5. Based'
  BY <1>0, <1>1, <1>2 DEF Based, Before
<1>6. DropsAreReported'
  BY <1>0 DEF Chain, DropsAreReported, Before
<1> QED BY <1>3, <1>4, <1>5, <1>6 DEF Chain

\* Refuse writes the manifest of today, which no other one precedes, and which is
\* not of a round that dumped.
LEMMA RefuseChain == ASSUME IInv, Chain, Refuse PROVE Chain'
<1>1. /\ pc = "idle" /\ mine = 0 /\ dirs' = dirs \cup {0}
      /\ UNCHANGED <<pc, mine, prev, blind, torn>> /\ 0 \in Back
  BY ManType DEF Refuse, local
<1>2. man' = man \/ man' = [man EXCEPT ![0] = Refusal]
  BY <1>1 DEF Refuse, WriteManifest
<1>3. CASE man' = man
  BY <1>1, <1>3 DEF Chain, Housed, Alone, Based, DropsAreReported, Before
<1>4. CASE man' = [man EXCEPT ![0] = Refusal]
  <2>1. man'[0].kind = "refused" /\ \A k \in Back : k # 0 => man'[k] = man[k]
    BY <1>1, <1>4, ManType DEF Refusal
  <2>2. ASSUME NEW j \in Back, NEW k \in Back, k # 0, Before(j, k)' PROVE Before(j, k) /\ man'[j] = man[j]
    <3>1. j # 0 /\ \A i \in (k + 1)..(j - 1) : i \in Back /\ i # 0
      BY <2>2, ManType, Constants DEF Before, Back
    <3> QED BY <2>1, <2>2, <3>1 DEF Before
  <2>3. Housed'
    BY <1>1, <2>1 DEF Chain, Housed
  <2>4. DropsAreReported'
    BY <1>1, <2>1, <2>2 DEF Chain, DropsAreReported
  <2> QED BY <1>1, <2>3, <2>4 DEF Chain, Alone, Based
<1> QED BY <1>2, <1>3, <1>4

\* The manifest of a round that dumped: its baseline is the one before it.
LEMMA AssessChain == ASSUME IInv, Chain, Assess PROVE Chain'
<1> DEFINE m == [kind |-> "assessed", size |-> Result,
                 warned |-> {c \in Containers : Anomalous(c)}, blind |-> blind]
<1>1. pc = "dump" /\ UNCHANGED <<dirs, mine, prev, blind, torn>>
  BY DEF Assess, local
<1>2. man' = man \/ man' = [man EXCEPT ![mine] = m]
  BY DEF Assess, WriteManifest
<1>3. CASE man' = man
  BY <1>1, <1>3 DEF Chain, Housed, Alone, Based, DropsAreReported, Before
<1>4. CASE man' = [man EXCEPT ![mine] = m]
  <2>1. man'[mine] = m /\ \A k \in Back : k # mine => man'[k] = man[k]
    <3> HIDE DEF m
    <3> QED BY <1>4, ManType
  <2>2. ASSUME NEW j \in Back, Before(j, mine)' PROVE Before(j, mine) /\ man'[j] = man[j]
    <3>1. mine' = mine /\ j # mine /\ \A i \in (mine + 1)..(j - 1) : i \in Back /\ i # mine
      BY <1>1, <2>2, ManType, Constants DEF Before, Back
    <3> QED BY <2>1, <2>2, <3>1 DEF Before
  <2>3. Housed'
    BY <1>1, <2>1 DEF Chain, Housed
  <2>4. Alone'
    <3>1. mine = 1 => man'[0] = man[0]
      BY <2>1, Zeros
    <3> QED BY <1>1, <3>1 DEF Chain, Alone
  <2>5. Based'
    BY <1>1, <2>2 DEF Chain, Based
  <2>6. DropsAreReported'
    <3> SUFFICES ASSUME ~torn', NEW j \in Back, NEW k \in Back, NEW c \in Containers,
                        Before(j, k)', man'[k].kind = "assessed", ~man'[k].blind,
                        man'[j].size[c] > 0, man'[k].size[c] = 0
                 PROVE  c \in man'[k].warned
      BY DEF DropsAreReported
    <3>1. CASE k = mine
      <4>1. Before(j, mine)'
        BY <1>1, <3>1 DEF Before
      <4>2. Before(j, mine) /\ man'[j] = man[j]
        BY <2>2, <4>1
      <4>3. prev = man[j]
        <5>1. ~blind
          BY <2>1, <3>1
        <5> QED BY <1>1, <4>2, <5>1 DEF Chain, Based
      <4>4. prev.kind # "none" /\ prev.size[c] > 0
        BY <4>2, <4>3 DEF Before
      <4>5. Result[c] = 0
        BY <2>1, <3>1
      <4>6. Anomalous(c)
        BY <4>4, <4>5 DEF Anomalous
      <4> QED BY <2>1, <3>1, <4>6
    <3>2. CASE k # mine
      <4>1. man'[k] = man[k]
        BY <2>1, <3>2
      <4>2. ~(k < mine)
        <5>1. k < mine => mine = 1 /\ k = 0
          BY ManType
        <5> QED BY <4>1, <5>1 DEF Chain, Alone
      <4>3. j # mine /\ \A i \in (k + 1)..(j - 1) : i \in Back /\ i # mine
        BY <3>2, <4>2, ManType, Constants DEF Before, Back
      <4>4. Before(j, k) /\ man'[j] = man[j]
        BY <2>1, <4>3 DEF Before
      <4> QED BY <1>1, <4>1, <4>4 DEF Chain, DropsAreReported
    <3> QED BY <3>1, <3>2
  <2> QED BY <2>3, <2>4, <2>5, <2>6 DEF Chain
<1> QED BY <1>2, <1>3, <1>4

\* What is older than something expired has expired.
LEMMA ExpiredUpward ==
    ASSUME IInv, NEW i \in Back, NEW j \in Back, i < j, Expired(i)
    PROVE  Expired(j)
<1>1. {i, j, hour, lag, shift} \subseteq Int /\ j - i > 0
  BY Constants DEF IInv, TypeOK, Back
<1>2. j * DayLength > i * DayLength
  <2>1. DayLength \in Int /\ DayLength > 0
    BY Constants
  <2>2. (j - i) * DayLength > 0
    BY <1>1, <2>1
  <2> QED BY <1>1, <2>1, <2>2, Products
<1>3. Cutoff \in Int
  BY Constants DEF Cutoff, Wrap, IInv, TypeOK
<1>4. i * DayLength \in Int /\ j * DayLength \in Int
  BY <1>1, Constants
<1>5. Age(j) > Age(i) /\ Age(i) \in Int /\ Age(j) \in Int
  BY <1>1, <1>2, <1>4 DEF Age
<1> QED BY <1>3, <1>5 DEF Expired

\* Unless a removal fails, what goes is at the far end of the chain.
LEMMA CleanChain == ASSUME IInv, Chain, Clean PROVE Chain'
<1>1. PICK kept \in SUBSET dirs, less \in SUBSET dirs :
          /\ kept \subseteq dirs' /\ dirs' \subseteq dirs /\ dirs \ dirs' \subseteq less
          /\ \A k \in less : Expired(k)
          /\ \A k \in dirs' : Expired(k) => k \in kept
          /\ man' = [k \in Back |-> IF k \in less THEN NoManifest ELSE man[k]]
          /\ ~torn' => ~torn /\ \A j \in kept, k \in less : ~(k < j)
  BY CleanParts
<1>2. pc' = "idle" /\ mine' = 0 /\ dirs \subseteq Back
  BY DEF Clean, Over, IInv, TypeOK
<1>3. /\ \A k \in Back : k \in less => man'[k].kind = "none"
      /\ \A k \in Back : k \notin less => man'[k] = man[k]
  BY <1>1 DEF NoManifest
<1>4. Housed'
  BY <1>1, <1>2, <1>3 DEF Chain, Housed
<1>5. DropsAreReported'
  <2> SUFFICES ASSUME ~torn', NEW j \in Back, NEW k \in Back, NEW c \in Containers,
                      Before(j, k)', man'[k].kind = "assessed", ~man'[k].blind,
                      man'[j].size[c] > 0, man'[k].size[c] = 0
               PROVE  c \in man'[k].warned
    BY DEF DropsAreReported
  <2>1. j \notin less /\ k \notin less /\ man'[j] = man[j] /\ man'[k] = man[k] /\ man[j].kind # "none"
    BY <1>3 DEF Before
  <2>2. \A i \in (k + 1)..(j - 1) : i \in Back /\ i < j
    BY ManType, Constants DEF Back
  <2>3. ASSUME NEW i \in (k + 1)..(j - 1) PROVE i \notin less
    <3> SUFFICES ASSUME i \in less PROVE FALSE
      OBVIOUS
    <3>1. i \in Back /\ Expired(i) /\ i < j
      BY <1>1, <2>2
    <3>2. Expired(j) /\ j \in dirs
      BY <2>1, <3>1, ExpiredUpward DEF Chain, Housed
    <3>3. j \in kept
      BY <1>1, <2>1, <3>2
    <3> QED BY <1>1, <3>1, <3>3
  <2>4. Before(j, k)
    BY <1>3, <2>1, <2>2, <2>3 DEF Before
  <2>5. ~torn
    BY <1>1
  <2> QED BY <2>1, <2>4, <2>5 DEF Chain, DropsAreReported
<1> QED BY <1>2, <1>4, <1>5 DEF Chain, Alone, Based

\* Every step keeps the chain.
LEMMA ChainStep == IInv /\ Chain /\ [Next]_vars => Chain'
<1> SUFFICES ASSUME IInv, Chain, [Next]_vars PROVE Chain'
  OBVIOUS
<1> USE DEF Chain, Housed, Alone, Based, DropsAreReported, Before
<1>1. CASE UNCHANGED vars
  BY <1>1 DEF vars, disk, local
<1>2. CASE Tick
  <2>1. UNCHANGED <<pc, prev, blind, torn>>
    BY <1>2 DEF Tick
  <2>2. CASE NewDay
    <3>1. mine' \in {0, 1}
      BY <1>2, TickIInv DEF IInv, TypeOK
    <3> HIDE DEF Chain
    <3> QED BY <2>1, <2>2, <3>1, NewDayChain
  <2>3. CASE UNCHANGED <<disk, mine>>
    BY <2>1, <2>3 DEF disk
  <2> QED BY <1>2, <2>2, <2>3 DEF Tick
<1>3. ASSUME NEW c \in Containers, Dump(c) PROVE Chain'
  BY <1>3 DEF Dump
<1>4. CASE Kill
  BY <1>4 DEF Kill, Over, disk
<1>5. CASE Begin \/ Refuse \/ Assess \/ Clean
  <2> HIDE DEF Chain
  <2> QED BY <1>5, BeginChain, RefuseChain, AssessChain, CleanChain
<1> QED BY <1>1, <1>2, <1>3, <1>4, <1>5 DEF Next, Round

\* From one date to the next no manifest of a round that dumped drops a container
\* in silence, whatever midnight, reruns, refused rounds, partial removals and kills
\* come between, unless its round could not read the manifest before it.
THEOREM DropsReported == Spec => []DropsAreReported
<1>1. Init => Chain
  BY DEF Init, NoManifest, Chain, Housed, Alone, Based, DropsAreReported, Before
<1> QED BY <1>1, IInvCorrect, ChainStep, PTL DEF Spec, Chain

-----------------------------------------------------------------------------
(* Room                                                                     *)

\* Whole days, from a product and a rest.
LEMMA Rest ==
    ASSUME NEW s \in Int, NEW d \in Nat, d > 0
    PROVE  s \div d \in Int /\ s < (s \div d) * d + d /\ (s \div d) * d <= s
  OBVIOUS

\* The same as a bound on a number of days.
LEMMA WholeDays ==
    ASSUME NEW s \in Int, NEW d \in Nat, d > 0, NEW x \in Int, NEW n \in Int, x * d <= n * d + s
    PROVE  x <= n + (s \div d)
<1> DEFINE q == s \div d
<1>1. q \in Int /\ s < q * d + d
  BY Rest
<1> HIDE DEF q
<1>2. x * d < n * d + q * d + d /\ n + q + 1 \in Int
  BY <1>1
<1>3. n * d + q * d + d = (n + q + 1) * d
  BY <1>1
<1>4. ASSUME NEW a \in Int, NEW b \in Int, a * d < b * d PROVE a < b
  <2> SUFFICES ASSUME a >= b PROVE a * d >= b * d
    BY <1>4
  <2>1. (a - b) * d >= 0
    OBVIOUS
  <2> QED BY <2>1
<1> QED BY <1>1, <1>2, <1>3, <1>4 DEF q

\* A sum is at most the largest term as often as there are terms that are not zero.
LEMMA SumBound ==
    ASSUME NEW S, IsFiniteSet(S), NEW T \in SUBSET S, NEW b \in Nat, NEW f \in [S -> Nat],
           \A x \in S : f[x] <= IF x \in T THEN b ELSE 0
    PROVE  SumFunction(f) <= b * Cardinality(T)
<1> DEFINE Good == {U \in SUBSET S : /\ Partial(f)[U] \in Nat
                                     /\ Partial(f)[U] <= b * Cardinality(U \cap T)}
<1>1. ASSUME NEW U \in SUBSET S, \A x \in U : U \ {x} \in Good PROVE U \in Good
  <2>0. /\ IsFiniteSet(U \cap T) /\ Cardinality(U \cap T) \in Nat
        /\ b * Cardinality(U \cap T) \in Nat
    BY FS_Subset, FS_CardinalityType
  <2>1. CASE U = {}
    BY <2>0, <2>1, PartialEmpty
  <2>2. CASE U # {}
    <3>0. PICK x \in U : x = Pick(U)
      BY <2>2 DEF Pick
    <3>1. Partial(f)[U] = f[x] + Partial(f)[U \ {x}]
      BY <3>0, PartialPick
    <3>2. f[x] \in Nat /\ f[x] <= IF x \in T THEN b ELSE 0
      BY <3>0
    <3> DEFINE V == U \ {x}
    <3>3. Partial(f)[V] \in Nat /\ Partial(f)[V] <= b * Cardinality(V \cap T)
      BY <1>1
    <3>4. CASE x \in T
      <4>1. V \cap T = (U \cap T) \ {x} /\ x \in U \cap T
        BY <3>4
      <4>2. Cardinality(V \cap T) = Cardinality(U \cap T) - 1
        <5>1. Cardinality((U \cap T) \ {x}) = Cardinality(U \cap T) - 1
          BY <2>0, <4>1, FS_RemoveElement
        <5> HIDE DEF V
        <5> QED BY <4>1, <5>1
      <4>3. \A n \in Nat : b * (n - 1) = b * n - b
        OBVIOUS
      <4>4. b * Cardinality(V \cap T) = b * Cardinality(U \cap T) - b
        BY <2>0, <4>2, <4>3
      <4> HIDE DEF V
      <4>5. f[x] <= b
        BY <3>2, <3>4
      <4>6. f[x] + Partial(f)[V] \in Nat /\ f[x] + Partial(f)[V] <= b * Cardinality(U \cap T)
        BY <2>0, <3>2, <3>3, <4>4, <4>5
      <4> QED BY <3>1, <4>6 DEF V
    <3>5. CASE x \notin T
      <4>1. V \cap T = U \cap T
        BY <3>5
      <4> HIDE DEF V
      <4>2. Cardinality(V \cap T) = Cardinality(U \cap T) /\ f[x] = 0
        BY <3>2, <3>5, <4>1
      <4>3. f[x] + Partial(f)[V] \in Nat /\ f[x] + Partial(f)[V] <= b * Cardinality(U \cap T)
        BY <2>0, <3>3, <4>2
      <4> QED BY <3>1, <4>3 DEF V
    <3> QED BY <3>4, <3>5
  <2> QED BY <2>1, <2>2
<1>2. S \in Good
  <2> HIDE DEF Good
  <2> QED BY <1>1, SetInduction
<1>3. S \cap T = T
  OBVIOUS
<1> QED BY <1>2, <1>3, SumIsPartial

\* What a full day takes.
FullDay == MaxSize * Cardinality(Containers)

\* The days kept fit a Duration, and the zones leave a round its own day.
Regular == Fits /\ days > 0 /\ DaysKept > 0

\* No dump outside of the merged directories is larger than the largest.
Sized ==
    /\ \A k \in Back : k < MaxBack => \A c \in Containers : file[k][c] <= MaxSize
    /\ \A c \in Containers : want[c] <= MaxSize

\* A dump has a directory, and so has the round; there is none of a later date.
Sited ==
    /\ \A k \in Back : k \notin dirs => file[k] = Nothing
    /\ pc # "idle" => mine \in dirs
    /\ mine = 1 => 0 \notin dirs

\* What others take than the round.
Others == IF pc = "idle" THEN Used ELSE Used - Taken[mine]

\* Retention leaves the days it keeps; each fault may leave one more.
Bounded == Regular => Others <= (DaysKept + faults) * FullDay

LEMMA FullDayType ==
    ASSUME TypeOK
    PROVE  /\ FullDay \in Nat /\ DaysKept \in Int /\ faults \in Nat
           /\ (DaysKept + faults) * FullDay \in Int
<1>1. Cardinality(Containers) \in Nat /\ MaxSize \in Nat
  BY Finite, FS_CardinalityType, Constants
<1>2. FullDay \in Nat
  BY <1>1 DEF FullDay
<1>3. days \in Int /\ shift \in Int /\ faults \in Nat
  BY Constants DEF TypeOK
<1>4. shift \div DayLength \in Int
  BY <1>3, Rest, Constants
<1>5. DaysKept \in Int
  BY <1>3, <1>4 DEF DaysKept
<1> QED BY <1>2, <1>3, <1>5

\* A directory that is not a merged one takes a full day at most.
LEMMA DayIsFull ==
    ASSUME TypeOK, Sized, NEW k \in Back, k < MaxBack
    PROVE  Taken[k] \in Nat /\ Taken[k] <= FullDay
<1>1. file[k] \in [Containers -> Nat] /\ MaxSize \in Nat
  BY Constants DEF TypeOK, Sizes
<1>2. \A c \in Containers : file[k][c] <= IF c \in Containers THEN MaxSize ELSE 0
  BY DEF Sized
<1>3. SumFunction(file[k]) <= MaxSize * Cardinality(Containers)
  BY <1>1, <1>2, Finite, SumBound
<1>4. SumFunction(file[k]) \in Nat
  BY <1>1, Finite, SumType
<1> QED BY <1>3, <1>4 DEF Taken, FullDay

\* More faults, more room.
LEMMA FaultsAllow ==
    ASSUME TypeOK, NEW n \in Nat, faults <= n
    PROVE  /\ (DaysKept + faults) * FullDay <= (DaysKept + n) * FullDay
           /\ (DaysKept + (faults + 1)) * FullDay = (DaysKept + faults) * FullDay + FullDay
           /\ (DaysKept + n) * FullDay \in Int
<1>1. FullDay \in Nat /\ DaysKept \in Int /\ faults \in Nat
  BY FullDayType
<1>2. \A a, b \in Int, f \in Nat : /\ a <= b => a * f <= b * f
                                   /\ (a + 1) * f = a * f + f /\ a * f \in Int
  <2> SUFFICES ASSUME NEW a \in Int, NEW b \in Int, NEW f \in Nat
               PROVE  /\ a <= b => a * f <= b * f
                      /\ (a + 1) * f = a * f + f /\ a * f \in Int
    OBVIOUS
  <2>1. a <= b => (b - a) * f >= 0
    OBVIOUS
  <2>2. (b - a) * f = b * f - a * f
    OBVIOUS
  <2> QED BY <2>1, <2>2
<1>3. DaysKept + (faults + 1) = (DaysKept + faults) + 1 /\ DaysKept + faults <= DaysKept + n
      /\ DaysKept + faults \in Int /\ DaysKept + n \in Int
  BY <1>1
<1> QED BY <1>1, <1>2, <1>3

\* Midnight keeps the sizes and the sites, and the round's own directory.
LEMMA NewDaySites ==
    ASSUME IInv, Sized, Sited, NewDay
    PROVE  /\ \A k \in Back : k < MaxBack => \A c \in Containers : file'[k][c] <= MaxSize
           /\ \A k \in Back : k \notin dirs' => file'[k] = Nothing
           /\ 0 \notin dirs'
           /\ pc # "idle" /\ mine = 0 => mine' \in dirs'
           /\ pc # "idle" /\ mine = 0 /\ MaxBack > 1 => Taken'[mine'] = Taken[mine]
<1>1. /\ MaxBack \in Nat /\ MaxBack > 0 /\ MaxSize \in Nat
      /\ \A k \in Back : k \in Int /\ k >= 0 /\ k <= MaxBack /\ (k # 0 => k - 1 \in Back)
  BY Constants DEF Back
<1>2. /\ file \in [Back -> [Containers -> Nat]] /\ file' \in [Back -> [Containers -> Nat]]
      /\ dirs \subseteq Back
  BY NewDayType DEF IInv, TypeOK, Sizes
<1>3. \A k \in Back, c \in Containers :
          file'[k][c] = IF k = 0 THEN 0 ELSE IF k < MaxBack THEN file[k - 1][c]
                        ELSE file[k - 1][c] + file[k][c]
  BY DEF NewDay
<1>4. ASSUME NEW k \in Back, k < MaxBack, NEW c \in Containers PROVE file'[k][c] <= MaxSize
  <2>1. CASE k = 0
    BY <1>1, <1>3, <2>1
  <2>2. CASE k # 0
    <3>1. k - 1 \in Back /\ k - 1 < MaxBack /\ file'[k][c] = file[k - 1][c]
      BY <1>1, <1>3, <1>4, <2>2
    <3> QED BY <3>1 DEF Sized
  <2> QED BY <2>1, <2>2
<1>5. 0 \notin dirs'
  <2>1. Older(0) = {-1} /\ -1 \notin Back
    BY <1>1 DEF Older, Back
  <2> QED BY <1>2, <2>1 DEF NewDay
<1>6. ASSUME NEW k \in Back, k \notin dirs' PROVE file'[k] = Nothing
  <2>1. ASSUME NEW c \in Containers PROVE file'[k][c] = 0
    <3>1. CASE k = 0
      BY <1>3, <3>1
    <3>2. CASE k # 0
      <4>0. k - 1 \in Back /\ \A j \in Older(k) : j \notin dirs
        BY <1>1, <1>6, <3>2 DEF NewDay
      <4>1. k - 1 \notin dirs
        BY <1>1, <4>0 DEF Older
      <4>2. file[k - 1][c] = 0
        BY <4>0, <4>1 DEF Sited, Nothing
      <4>3. CASE k < MaxBack
        BY <1>3, <3>2, <4>2, <4>3
      <4>4. CASE k = MaxBack
        <5>1. k \notin dirs
          BY <4>0, <4>4 DEF Older
        <5>2. file[k][c] = 0
          BY <5>1 DEF Sited, Nothing
        <5> QED BY <1>1, <1>3, <3>2, <4>2, <4>4, <5>2
      <4> QED BY <1>1, <4>3, <4>4
    <3> QED BY <3>1, <3>2
  <2> QED BY <1>2, <2>1 DEF Nothing
<1>7. ASSUME pc # "idle", mine = 0 PROVE mine' \in dirs'
  <2>1. mine' = 1 /\ 1 \in Back /\ 0 \in dirs
    BY <1>1, <1>7 DEF NewDay, RoundDate, Sited, Back
  <2>2. 0 \in Older(1)
    BY <1>1 DEF Older
  <2> QED BY <2>1, <2>2 DEF NewDay
<1>8. ASSUME pc # "idle", mine = 0, MaxBack > 1 PROVE Taken'[mine'] = Taken[mine]
  <2>1. mine' = 1 /\ 1 \in Back /\ 0 \in Back /\ 1 < MaxBack /\ 1 # 0 /\ 1 - 1 = 0
    BY <1>1, <1>8 DEF NewDay, RoundDate, Back
  <2>2. \A c \in Containers : file'[1][c] = file[0][c]
    BY <1>3, <2>1
  <2>3. file'[1] = file[0]
    BY <1>2, <2>1, <2>2
  <2> QED BY <1>8, <2>1, <2>3 DEF Taken
<1> QED BY <1>4, <1>5, <1>6, <1>7, <1>8

Room == Sized /\ Sited /\ Bounded

\* When the days kept are regular, directories are not merged within them.
LEMMA RegularDays ==
    ASSUME IInv, Regular
    PROVE  MaxBack > 1 /\ days * DayLength + shift < (MaxBack - 1) * DayLength
<1>1. /\ days \in Retentions /\ shift \in Shifts /\ days \in Int /\ shift \in Int
      /\ MaxBack \in Int /\ DayLength \in Nat /\ DayLength > 0
  BY Constants DEF IInv, TypeOK
<1>2. days * DayLength + shift < (MaxBack - 1) * DayLength
  <2>1. (MaxBack - 1) * DayLength > days * DayLength + shift
    BY <1>1, DateDirsAssumption DEF Regular, Fits
  <2> QED BY <1>1, <2>1
<1>3. SUFFICES ASSUME MaxBack <= 1 PROVE FALSE
  BY <1>1, <1>2
<1> DEFINE q == shift \div DayLength
<1>4. q \in Int /\ q * DayLength <= shift
  BY <1>1, Rest
<1>5. days + q >= 0
  BY <1>1, <1>4 DEF Regular, DaysKept
<1> HIDE DEF q
<1>6. \A n \in Int, m \in Int, d \in Nat : n + m >= 0 => n * d + m * d >= 0
  <2> SUFFICES ASSUME NEW n \in Int, NEW m \in Int, NEW d \in Nat, n + m >= 0
               PROVE  n * d + m * d >= 0
    OBVIOUS
  <2>1. (n + m) * d >= 0 /\ (n + m) * d = n * d + m * d
    OBVIOUS
  <2> QED BY <2>1
<1>7. days * DayLength + q * DayLength >= 0
  BY <1>1, <1>4, <1>5, <1>6
<1>8. days * DayLength + shift >= 0
  BY <1>1, <1>4, <1>7
<1>9. (MaxBack - 1) * DayLength <= 0
  BY <1>1, <1>3
<1> QED BY <1>1, <1>2, <1>8, <1>9

\* Time passes.
LEMMA TickRoom == ASSUME IInv, Room, Tick PROVE Room'
<1>1. UNCHANGED <<capacity, days, shift, pc, want, faults>>
  BY DEF Tick, setting
<1>2. Used' = Used /\ Used \in Nat
  BY NewDayUses, TakenType DEF Tick, disk, Used, IInv
<1>3. (Regular' <=> Regular) /\ DaysKept' = DaysKept
  BY <1>1 DEF Regular, Fits, DaysKept
<1>4. IInv'
  BY TickIInv
<1>5. CASE NewDay
  <2>1. mine' = IF pc = "idle" THEN 0 ELSE mine + 1
    BY <1>5 DEF NewDay, RoundDate
  <2>2. pc # "idle" => mine = 0
    BY <1>1, <1>4, <2>1 DEF IInv, TypeOK
  <2>3. Sized'
    BY <1>1, <1>5, NewDaySites DEF Room, Sized
  <2>4. Sited'
    BY <1>1, <1>5, <2>1, <2>2, NewDaySites DEF Room, Sited
  <2>5. ASSUME Regular, pc # "idle" PROVE Taken'[mine'] = Taken[mine]
    BY <1>5, <2>2, <2>5, RegularDays, NewDaySites DEF Room
  <2>6. Bounded'
    <3>1. Regular => Others' = Others
      BY <1>1, <1>2, <2>5 DEF Others
    <3> QED BY <1>1, <1>3, <3>1 DEF Room, Bounded, FullDay
  <2> QED BY <2>3, <2>4, <2>6 DEF Room
<1>6. CASE ~NewDay
  <2>1. UNCHANGED <<disk, mine>>
    BY <1>6 DEF Tick
  <2>2. Sized' /\ Sited'
    BY <1>1, <2>1 DEF Room, Sized, Sited, disk
  <2>3. Others' = Others
    BY <1>1, <1>2, <2>1 DEF Others, Taken, disk
  <2>4. Bounded'
    BY <1>1, <1>3, <2>3 DEF Room, Bounded, FullDay
  <2> QED BY <2>2, <2>4 DEF Room
<1> QED BY <1>5, <1>6
\* A round begins: what it finds is what others take.
LEMMA BeginRoom == ASSUME IInv, Room, Begin PROVE Room'
<1>1. /\ pc = "idle" /\ pc' = "dump" /\ mine' = 0 /\ dirs' = dirs \cup {0}
      /\ UNCHANGED <<capacity, days, shift, file>>
  BY DEF Begin, setting
<1>2. TypeOK /\ TypeOK' /\ faults \in Nat /\ faults' \in Nat /\ faults <= faults'
  <2>1. TypeOK /\ TypeOK' /\ faults \in Nat /\ faults' \in Nat
    BY BeginIInv DEF IInv, TypeOK
  <2>2. faults' = faults \/ faults' = faults + 1
    BY DEF Begin, Fault
  <2> QED BY <2>1, <2>2
<1>3. Sized'
  <2>1. \A c \in Containers : want'[c] \in 0..MaxSize
    BY DEF Begin
  <2> QED BY <1>1, <2>1, Constants DEF Room, Sized
<1>4. Sited'
  BY <1>1 DEF Room, Sited
<1>5. Bounded'
  <2>1. Used' = Used /\ (Regular' <=> Regular) /\ DaysKept' = DaysKept /\ FullDay' = FullDay
    BY <1>1 DEF Used, Regular, Fits, DaysKept, FullDay
  <2>2. mine' \in Back /\ Taken'[mine'] \in Nat /\ Used \in Nat
    <3>1. mine' \in Back /\ \A k \in Back : file'[k] \in [Containers -> Nat]
      BY <1>1, <1>2, Zeros DEF TypeOK, Sizes
    <3>2. SumFunction(file'[mine']) \in Nat
      BY <3>1, Finite, SumType
    <3> QED BY <1>2, <3>1, <3>2, TakenType DEF Taken
  <2>3. Others = Used /\ Others' = Used' - Taken'[mine']
    BY <1>1 DEF Others
  <2>4. ASSUME Regular PROVE Others' <= (DaysKept + faults') * FullDay
    <3>1. Used <= (DaysKept + faults) * FullDay
      BY <2>3, <2>4 DEF Room, Bounded
    <3>2. /\ (DaysKept + faults) * FullDay <= (DaysKept + faults') * FullDay
          /\ (DaysKept + faults') * FullDay \in Int /\ (DaysKept + faults) * FullDay \in Int
      BY <1>2, FaultsAllow, FullDayType
    <3> QED BY <2>1, <2>2, <2>3, <3>1, <3>2
  <2> QED BY <2>1, <2>4 DEF Bounded
<1> QED BY <1>3, <1>4, <1>5 DEF Room

\* What changes neither the dumps nor the round keeps the room; a fault adds to it.
LEMMA SameRoom ==
    ASSUME IInv, Room, UNCHANGED <<setting, file, mine, want>>, dirs' \subseteq Back,
           faults' \in Nat, faults <= faults', Taken' = Taken,
           pc' = "idle" <=> pc = "idle",
           dirs' = dirs \/ (mine = 0 /\ dirs' = dirs \cup {0})
    PROVE  Room'
<1>1. Sized' /\ Sited'
  BY DEF Room, Sized, Sited
<1>2. Used' = Used /\ (Regular' <=> Regular) /\ DaysKept' = DaysKept /\ FullDay' = FullDay
  BY DEF Used, Regular, Fits, DaysKept, FullDay, setting
<1>3. Others' = Others
  BY <1>2 DEF Others
<1>4. TypeOK /\ Others \in Int
  <2>1. TypeOK /\ mine \in Back
    BY Constants DEF IInv, TypeOK, Back
  <2> QED BY <2>1, TakenType DEF Others
<1>5. ASSUME Regular PROVE Others <= (DaysKept + faults') * FullDay
  <2>1. Others <= (DaysKept + faults) * FullDay
    BY <1>5 DEF Room, Bounded
  <2>2. /\ (DaysKept + faults) * FullDay <= (DaysKept + faults') * FullDay
        /\ (DaysKept + faults') * FullDay \in Int /\ (DaysKept + faults) * FullDay \in Int
    BY <1>4, FaultsAllow, FullDayType
  <2> QED BY <1>4, <2>1, <2>2
<1> QED BY <1>1, <1>2, <1>3, <1>5 DEF Room, Bounded

\* A dump of the round changes what the round takes, and nothing of others.
LEMMA DumpRoom == ASSUME IInv, Room, NEW c \in Containers, Dump(c) PROVE Room'
<1>1. /\ pc = "dump" /\ pc' = pc /\ TypeOK /\ TypeOK' /\ mine \in Back
      /\ UNCHANGED <<setting, mine, want, dirs, faults>>
  <2>1. pc = "dump" /\ pc' = pc /\ UNCHANGED <<setting, mine, want, dirs, faults>>
    BY DEF Dump
  <2>2. TypeOK /\ TypeOK'
    BY DumpIInv DEF IInv
  <2>3. mine \in Back
    BY <2>2, Constants DEF TypeOK, Back
  <2> QED BY <2>1, <2>2, <2>3
<1>2. CASE file' = [file EXCEPT ![mine][c] = want[c]]
  <2>1. /\ \A k \in Back : k # mine => file'[k] = file[k]
        /\ file'[mine] = [file[mine] EXCEPT ![c] = want[c]]
    BY <1>1, <1>2 DEF TypeOK
  <2>2. \A b \in Containers : file'[mine][b] = IF b = c THEN want[c] ELSE file[mine][b]
    BY <1>1, <2>1 DEF TypeOK, Sizes
  <2>3. Sized'
    BY <1>1, <2>1, <2>2 DEF Room, Sized
  <2>4. Sited'
    BY <1>1, <2>1 DEF Room, Sited
  <2>5. Taken \in [Back -> Nat] /\ Used \in Nat /\ Taken' \in [Back -> Nat] /\ Used' \in Nat
    <3>1. Taken \in [Back -> Nat] /\ Used \in Nat
      BY <1>1, TakenType
    <3>2. \A k \in Back : file'[k] \in [Containers -> Nat]
      BY <1>1 DEF TypeOK, Sizes
    <3>3. \A k \in Back : SumFunction(file'[k]) \in Nat
      BY <3>2, Finite, SumType
    <3>4. Taken' \in [Back -> Nat]
      BY <3>3 DEF Taken
    <3>5. SumFunction(Taken') \in Nat
      <4> HIDE DEF Taken
      <4> QED BY <3>4, Finite, SumType
    <3> QED BY <3>1, <3>4, <3>5 DEF Used, Taken
  <2>6. \A k \in Back : k # mine => Taken[k] = Taken'[k]
    BY <2>1 DEF Taken
  <2>7. SumFunction(Taken) + Taken'[mine] = SumFunction(Taken') + Taken[mine]
    <3> HIDE DEF Taken
    <3> QED BY <1>1, <2>5, <2>6, Finite, SumUpdate
  <2>8. Used = SumFunction(Taken) /\ Used' = SumFunction(Taken')
    BY DEF Used, Taken
  <2>9. Taken[mine] \in Nat /\ Taken'[mine] \in Nat
    BY <1>1, <2>5
  <2>10. Used' - Taken'[mine] = Used - Taken[mine]
    BY <2>5, <2>7, <2>8, <2>9
  <2>11. Others' = Others
    BY <1>1, <2>10 DEF Others
  <2>12. (Regular' <=> Regular) /\ DaysKept' = DaysKept /\ FullDay' = FullDay
    BY <1>1 DEF Regular, Fits, DaysKept, FullDay, setting
  <2>13. Bounded'
    BY <1>1, <2>11, <2>12 DEF Room, Bounded
  <2> QED BY <2>3, <2>4, <2>13 DEF Room
<1>3. CASE UNCHANGED file
  <2>1. Taken' = Taken
    BY <1>3 DEF Taken
  <2>2. dirs' \subseteq Back /\ faults' \in Nat /\ faults <= faults'
    BY <1>1 DEF TypeOK
  <2> QED BY <1>1, <1>3, <2>1, <2>2, SameRoom
<1> QED BY <1>2, <1>3 DEF Dump
\* The end of a round: nothing has grown, and what has no directory takes nothing.
LEMMA EndRoom ==
    ASSUME IInv, Room, IInv', Over, UNCHANGED setting,
           \A k \in Back, c \in Containers : file'[k][c] = 0 \/ file'[k][c] = file[k][c],
           \A k \in Back : k \notin dirs' => file'[k] = Nothing,
           Regular => Used' <= (DaysKept + faults') * FullDay
    PROVE  Room'
<1>1. pc' = "idle" /\ mine' = 0 /\ want' = Nothing /\ MaxSize \in Nat
  BY Constants DEF Over
<1>2. Sized'
  BY <1>1 DEF Room, Sized, Nothing
<1>3. Sited'
  BY <1>1 DEF Sited
<1>4. Others' = Used' /\ (Regular' <=> Regular) /\ DaysKept' = DaysKept /\ FullDay' = FullDay
  BY <1>1 DEF Others, Regular, Fits, DaysKept, FullDay, setting
<1> QED BY <1>2, <1>3, <1>4 DEF Room, Bounded

\* A round that ends in a fault leaves a full day more at most.
LEMMA FaultRoom ==
    ASSUME IInv, Room, Regular, pc # "idle", Used' \in Nat, Used' <= Used, Fault
    PROVE  Used' <= (DaysKept + faults') * FullDay
<1>1. TypeOK /\ mine \in Back /\ mine < MaxBack /\ Used \in Nat
  <2>1. mine \in {0, 1} /\ MaxBack \in Nat /\ MaxBack > 1
    BY RegularDays, Constants DEF IInv, TypeOK
  <2> QED BY <2>1, TakenType DEF IInv, Back
<1>2. Taken[mine] \in Nat /\ Taken[mine] <= FullDay
  BY <1>1, DayIsFull DEF Room
<1>3. Used - Taken[mine] <= (DaysKept + faults) * FullDay
  BY DEF Room, Bounded, Others
<1>4. /\ (DaysKept + (faults + 1)) * FullDay = (DaysKept + faults) * FullDay + FullDay
      /\ (DaysKept + faults) * FullDay \in Int /\ FullDay \in Nat /\ faults \in Nat
  BY <1>1, FullDayType, FaultsAllow
<1>5. faults' = faults + 1
  BY DEF Fault
<1>6. Used <= (DaysKept + (faults + 1)) * FullDay
  BY <1>1, <1>2, <1>3, <1>4
<1>7. (DaysKept + (faults + 1)) * FullDay \in Int
  BY <1>4
<1> QED BY <1>1, <1>5, <1>6, <1>7

\* What becomes of each directory does not take more.
LEMMA LessUsed ==
    ASSUME TypeOK, TypeOK',
           \A k \in Back, c \in Containers : file'[k][c] = 0 \/ file'[k][c] = file[k][c]
    PROVE  /\ Taken \in [Back -> Nat] /\ Taken' \in [Back -> Nat]
           /\ \A k \in Back : file'[k] = Nothing => Taken'[k] = 0
           /\ \A k \in Back : file'[k] = file[k] => Taken'[k] = Taken[k]
           /\ Used' = SumFunction(Taken') /\ Used' \in Nat /\ Used' <= Used
<1>0. \A k \in Back : file[k] \in [Containers -> Nat] /\ file'[k] \in [Containers -> Nat]
  BY DEF TypeOK, Sizes
<1>1. Taken \in [Back -> Nat]
  BY TakenType
<1>2. Taken' \in [Back -> Nat]
  <2>1. \A k \in Back : SumFunction(file'[k]) \in Nat
    BY <1>0, Finite, SumType
  <2> QED BY <2>1 DEF Taken
<1>3. SumFunction(Nothing) = 0
  <2>1. Nothing \in [Containers -> Nat] /\ \A c \in Containers : Nothing[c] = 0
    BY DEF Nothing
  <2> QED BY <2>1, Finite, SumZero
<1>4. /\ \A k \in Back : file'[k] = Nothing => Taken'[k] = 0
      /\ \A k \in Back : file'[k] = file[k] => Taken'[k] = Taken[k]
  BY <1>3 DEF Taken
<1>5. Used = SumFunction(Taken) /\ Used' = SumFunction(Taken')
  BY DEF Used, Taken
<1>6. \A k \in Back : Taken'[k] <= Taken[k]
  <2> SUFFICES ASSUME NEW k \in Back PROVE SumFunction(file'[k]) <= SumFunction(file[k])
    BY DEF Taken
  <2>1. \A c \in Containers : file'[k][c] <= file[k][c]
    BY <1>0
  <2> DEFINE f == file'[k]
             g == file[k]
  <2>2. f \in [Containers -> Nat] /\ g \in [Containers -> Nat] /\ \A c \in Containers : f[c] <= g[c]
    BY <1>0, <2>1
  <2>3. SumFunction(f) <= SumFunction(g)
    <3> HIDE DEF f, g
    <3> QED BY <2>2, Finite, SumMono
  <2> QED BY <2>3
<1> HIDE DEF Taken
<1>7. SumFunction(Taken') <= SumFunction(Taken) /\ SumFunction(Taken') \in Nat
  BY <1>1, <1>2, <1>6, Finite, SumMono, SumType
<1> QED BY <1>1, <1>2, <1>4, <1>5, <1>7

\* What is left after a removal that was complete is from the days kept, counted
\* from the date of the round.
LEMMA DaysLeft ==
    ASSUME IInv, Room, Regular, Clean, faults' = faults, NEW k \in dirs'
    PROVE  k \in Back /\ k < MaxBack /\ k \in mine..(mine + (DaysKept - 1))
<1>1. k \in Back /\ k \in dirs /\ ~Expired(k) /\ faults \in Nat
  BY CleanEffect, Constants DEF IInv, TypeOK
<1>2. {k, mine, hour, lag, shift, days, MaxBack} \subseteq Int
  BY <1>1, Constants DEF IInv, TypeOK, Back
<1>3. (k - mine) * DayLength <= days * DayLength + shift
  <2>1. Age(k) <= days * DayLength
    BY <1>1, <1>2, ExpiredMeans, Constants DEF Age, Regular
  <2> QED BY <1>1, <1>2, <2>1, AgeBounds, Products, Constants DEF Age
<1>4. k - mine <= days + (shift \div DayLength)
  BY <1>2, <1>3, WholeDays, Constants
<1>5. k <= mine + (DaysKept - 1)
  <2>1. shift \div DayLength \in Int
    BY <1>2, Rest, Constants
  <2> QED BY <1>2, <1>4, <2>1 DEF DaysKept
<1>6. mine \in {0, 1} /\ k >= 0 /\ (mine = 1 => k # 0)
  BY <1>1 DEF IInv, TypeOK, Room, Sited, Back
<1>7. k < MaxBack
  <2>1. days * DayLength + shift < (MaxBack - 1) * DayLength
    BY RegularDays
  <2>2. /\ (k - mine) * DayLength = k * DayLength - mine * DayLength
        /\ (MaxBack - 1) * DayLength = MaxBack * DayLength - DayLength
        /\ k * DayLength \in Int /\ MaxBack * DayLength \in Int
    BY <1>2, Constants
  <2>3. mine * DayLength <= DayLength
    BY <1>6, Constants
  <2>4. k # MaxBack
    BY <1>2, <1>3, <2>1, <2>2, <2>3, Constants
  <2> QED BY <1>1, <1>2, <2>4 DEF Back
<1> QED BY <1>1, <1>2, <1>5, <1>6, <1>7
\* Retention: a complete removal leaves DaysKept directories at most.
LEMMA CleanRoom == ASSUME IInv, Room, Clean PROVE Room'
<1>1. IInv' /\ TypeOK /\ TypeOK'
  BY CleanIInv DEF IInv
<1>2. pc = "clean" /\ Over /\ UNCHANGED setting /\ (faults' = faults \/ Fault)
  BY DEF Clean
<1>3. /\ \A k \in Back, c \in Containers : file'[k][c] = 0 \/ file'[k][c] = file[k][c]
      /\ \A k \in dirs \ dirs' : file'[k] = Nothing
      /\ Fault \/ \A k \in dirs' : file'[k] = file[k]
  BY CleanParts
<1>4. \A k \in Back : k \notin dirs' => file'[k] = Nothing
  <2> SUFFICES ASSUME NEW k \in Back, k \notin dirs' PROVE file'[k] = Nothing
    OBVIOUS
  <2>1. CASE k \in dirs
    BY <1>3, <2>1
  <2>2. CASE k \notin dirs
    <3>1. \A c \in Containers : file'[k][c] = 0
      BY <1>3, <2>2 DEF Room, Sited, Nothing
    <3> QED BY <1>1, <3>1 DEF TypeOK, Sizes, Nothing
  <2> QED BY <2>1, <2>2
<1>5. /\ Taken \in [Back -> Nat] /\ Taken' \in [Back -> Nat]
      /\ \A k \in Back : file'[k] = Nothing => Taken'[k] = 0
      /\ \A k \in Back : file'[k] = file[k] => Taken'[k] = Taken[k]
      /\ Used' = SumFunction(Taken') /\ Used' \in Nat /\ Used' <= Used
  BY <1>1, <1>3, LessUsed
<1>6. ASSUME Regular, Fault PROVE Used' <= (DaysKept + faults') * FullDay
  BY <1>2, <1>5, <1>6, FaultRoom
<1>7. ASSUME Regular, faults' = faults PROVE Used' <= (DaysKept + faults') * FullDay
  <2> DEFINE T == mine..(mine + (DaysKept - 1))
             U == T \cap Back
  <2>1. FullDay \in Nat /\ DaysKept \in Int /\ DaysKept > 0 /\ faults \in Nat /\ mine \in Int
    BY <1>1, <1>7, FullDayType DEF Regular, TypeOK
  <2>2. \A k \in Back : Taken'[k] <= IF k \in U THEN FullDay ELSE 0
    <3> SUFFICES ASSUME NEW k \in Back PROVE Taken'[k] <= IF k \in U THEN FullDay ELSE 0
      OBVIOUS
    <3>1. CASE file'[k] = Nothing
      <4>1. Taken'[k] = 0
        BY <1>5, <3>1
      <4> HIDE DEF U
      <4> QED BY <2>1, <4>1
    <3>2. CASE file'[k] = file[k] /\ k \in dirs'
      <4>1. k \in U /\ k < MaxBack
        BY <1>7, <3>2, DaysLeft
      <4>2. Taken'[k] = Taken[k]
        BY <1>5, <3>2
      <4>3. Taken[k] <= FullDay
        BY <1>1, <4>1, DayIsFull DEF Room
      <4> HIDE DEF U
      <4> QED BY <4>1, <4>2, <4>3
    <3>3. ~Fault
      BY <1>1, <1>7 DEF Fault, TypeOK
    <3> QED BY <1>3, <1>4, <3>1, <3>2, <3>3
  <2>3. IsFiniteSet(T) /\ Cardinality(T) = DaysKept
    <3>1. mine + (DaysKept - 1) \in Int /\ (mine + (DaysKept - 1)) - mine + 1 = DaysKept
          /\ mine <= mine + (DaysKept - 1)
      BY <2>1
    <3> QED BY <2>1, <3>1, FS_Interval
  <2>4. Cardinality(U) <= DaysKept /\ Cardinality(U) \in Nat /\ U \in SUBSET Back
    <3>1. U \in SUBSET T
      OBVIOUS
    <3>2. IsFiniteSet(U) /\ Cardinality(U) <= Cardinality(T)
      <4> HIDE DEF T, U
      <4> QED BY <2>3, <3>1, FS_Subset
    <3>3. Cardinality(U) \in Nat
      <4> HIDE DEF U
      <4> QED BY <3>2, FS_CardinalityType
    <3> QED BY <2>3, <3>2, <3>3
  <2> HIDE DEF U
  <2>5. SumFunction(Taken') <= FullDay * Cardinality(U)
    <3> DEFINE f == Taken'
    <3>1. f \in [Back -> Nat] /\ \A k \in Back : f[k] <= IF k \in U THEN FullDay ELSE 0
      BY <1>5, <2>2
    <3> HIDE DEF f
    <3>2. SumFunction(f) <= FullDay * Cardinality(U)
      BY <2>1, <2>4, <3>1, Finite, SumBound
    <3> QED BY <3>2 DEF f
  <2>6. FullDay * Cardinality(U) <= (DaysKept + faults) * FullDay
    <3>1. \A n \in Nat, d, m \in Int : n <= d /\ d <= m => /\ FullDay * n <= m * FullDay
                                                         /\ FullDay * n \in Int /\ m * FullDay \in Int
      <4> SUFFICES ASSUME NEW n \in Nat, NEW m \in Int, n <= m
                   PROVE  /\ FullDay * n <= m * FullDay
                          /\ FullDay * n \in Int /\ m * FullDay \in Int
        OBVIOUS
      <4>1. (m - n) * FullDay >= 0 /\ (m - n) * FullDay = m * FullDay - FullDay * n
        BY <2>1
      <4> QED BY <2>1, <4>1
    <3>2. DaysKept <= DaysKept + faults /\ DaysKept + faults \in Int
      BY <2>1
    <3> QED BY <2>1, <2>4, <3>1, <3>2
  <2>7. FullDay * Cardinality(U) \in Int /\ (DaysKept + faults) * FullDay \in Int
    BY <2>1, <2>4
  <2> QED BY <1>5, <1>7, <2>5, <2>6, <2>7
<1> QED BY <1>1, <1>2, <1>3, <1>4, <1>6, <1>7, EndRoom

\* A kill leaves everything.
LEMMA KillRoom == ASSUME IInv, Room, Kill PROVE Room'
<1>1. IInv' /\ TypeOK /\ TypeOK' /\ pc # "idle" /\ Over /\ Fault /\ UNCHANGED <<setting, disk>>
  BY KillIInv DEF Kill, IInv
<1>2. UNCHANGED <<dirs, file>>
  BY <1>1 DEF disk
<1>3. \A k \in Back : k \notin dirs' => file'[k] = Nothing
  BY <1>2 DEF Room, Sited
<1>4. Used' \in Nat /\ Used' <= Used
  BY <1>1, <1>2, LessUsed
<1>5. Regular => Used' <= (DaysKept + faults') * FullDay
  BY <1>1, <1>4, FaultRoom
<1> QED BY <1>1, <1>2, <1>3, <1>5, EndRoom

\* Every step keeps it, and it holds at the start.
LEMMA RoomStep == ASSUME IInv, Room, [Next]_vars PROVE Room'
<1>1. CASE UNCHANGED vars
  <2>1. UNCHANGED <<setting, file, mine, want, dirs, faults, pc, Taken>>
    BY <1>1 DEF vars, setting, disk, local, Taken
  <2>2. dirs \subseteq Back /\ faults \in Nat
    BY DEF IInv, TypeOK
  <2> QED BY <2>1, <2>2, SameRoom
<1>2. CASE Refuse
  <2>1. /\ UNCHANGED <<setting, file, mine, want, pc, Taken>> /\ pc = "idle"
        /\ dirs' = dirs \cup {0}
    BY <1>2 DEF Refuse, local, Taken
  <2>2. mine = 0 /\ dirs' \subseteq Back /\ faults \in Nat
    BY <2>1, Zeros DEF IInv, TypeOK, Dated
  <2>3. faults' = faults \/ faults' = faults + 1
    BY <1>2 DEF Refuse, WriteManifest, Fault
  <2> QED BY <2>1, <2>2, <2>3, SameRoom
<1>3. CASE Assess
  <2>1. /\ UNCHANGED <<setting, file, mine, want, dirs, Taken>> /\ pc = "dump" /\ pc' = "clean"
    BY <1>3 DEF Assess, local, Taken
  <2>2. dirs' \subseteq Back /\ faults \in Nat
    BY <2>1 DEF IInv, TypeOK
  <2>3. faults' = faults \/ faults' = faults + 1
    BY <1>3 DEF Assess, WriteManifest, Fault
  <2> QED BY <2>1, <2>2, <2>3, SameRoom
<1> QED BY <1>1, <1>2, <1>3, TickRoom, BeginRoom, DumpRoom, CleanRoom, KillRoom DEF Next, Round

LEMMA InitRoom == ASSUME Init PROVE Room
<1>1. \A k \in Back : file[k] = Nothing
  BY DEF Init
<1>2. want = Nothing /\ pc = "idle" /\ mine = 0 /\ faults = 0 /\ MaxSize \in Nat /\ TypeOK
  BY InitIInv, Constants DEF Init, IInv
<1>3. Sized /\ Sited
  BY <1>1, <1>2 DEF Sized, Sited, Nothing
<1>4. Used = 0
  <2>2. SumFunction(Nothing) = 0
    <3>1. Nothing \in [Containers -> Nat] /\ \A c \in Containers : Nothing[c] = 0
      BY DEF Nothing
    <3> QED BY <3>1, Finite, SumZero
  <2>3. Taken \in [Back -> Nat] /\ \A k \in Back : Taken[k] = 0
    BY <1>1, <1>2, <2>2, TakenType DEF Taken
  <2>4. SumFunction(Taken) = 0
    <3> HIDE DEF Taken
    <3> QED BY <2>3, Finite, SumZero
  <2> QED BY <2>4 DEF Used, Taken
<1>5. ASSUME Regular PROVE Others <= (DaysKept + faults) * FullDay
  <2>1. FullDay \in Nat /\ DaysKept \in Int /\ DaysKept > 0
    BY <1>2, <1>5, FullDayType DEF Regular
  <2>2. (DaysKept + 0) * FullDay >= 0
    BY <2>1
  <2> QED BY <1>2, <1>4, <2>2 DEF Others
<1> QED BY <1>3, <1>5 DEF Room, Bounded

\* What a round may read as its baseline.
Baselines == {Previous} \cup Misread

\* A baseline is a manifest; of one that lists nothing only MinFree is required.
LEMMA BaselineSum ==
    ASSUME TypeOK, NEW m \in Baselines
    PROVE  SumFunction(m.size) \in Nat /\ Required(m) \in Nat
<1>1. m \in Manifests
  BY BaselineType DEF Baselines
<1>2. m.size \in [Containers -> Nat]
  BY <1>1 DEF Manifests, Sizes
<1> QED BY <1>1, <1>2, Finite, SumType, RequiredCovers

\* The estimate for a baseline that lists nothing.
LEMMA RequiredMin == ASSUME NEW m, SumFunction(m.size) = 0 PROVE Required(m) = MinFree
<1>1. MinFree \in Nat /\ (12 * 0) \div 10 = 0
  BY DateDirsAssumption
<1>2. Required(m) = Max({MinFree, 0})
  BY <1>1 DEF Required
<1>3. \A x \in {MinFree, 0} : (\A y \in {MinFree, 0} : x >= y) <=> x = MinFree
  BY <1>1
<1>4. Max({MinFree, 0}) = CHOOSE x \in {MinFree, 0} : \A y \in {MinFree, 0} : x >= y
  BY DEF Max
<1> QED BY <1>1, <1>2, <1>3, <1>4

\* A manifest that is not of a round that dumped lists nothing.
ListsNothing == \A k \in Back : man[k].kind # "assessed" => man[k].size = Nothing

\* It is kept, as the manifest of a refused round is empty and the others move as they are.
LEMMA ListsNothingStep == ASSUME IInv, ListsNothing, [Next]_vars PROVE ListsNothing'
<1>1. ASSUME NEW m, WriteManifest(m), m.kind = "assessed" \/ m.size = Nothing PROVE ListsNothing'
  <2>1. man' = man \/ man' = [man EXCEPT ![mine] = m]
    BY <1>1 DEF WriteManifest
  <2> QED BY <1>1, <2>1 DEF ListsNothing, IInv, TypeOK
<1>2. CASE NewDay
  <2>1. \A k \in Back : \/ man'[k] = NoManifest \/ man'[k] = man[k]
                        \/ k - 1 \in Back /\ man'[k] = man[k - 1]
    BY <1>2, Constants DEF NewDay, Back
  <2> QED BY <2>1 DEF ListsNothing, NoManifest
<1>3. CASE Clean
  <2>1. \A k \in Back : man'[k] = NoManifest \/ man'[k] = man[k]
    <3>1. PICK less \in SUBSET dirs : man' = [k \in Back |-> IF k \in less THEN NoManifest ELSE man[k]]
      BY <1>3, CleanParts
    <3> QED BY <3>1
  <2> QED BY <2>1 DEF ListsNothing, NoManifest
<1>4. CASE Refuse
  <2>1. man' = man \/ man' = [man EXCEPT ![mine] = Refusal]
    BY <1>4 DEF Refuse, WriteManifest
  <2> QED BY <2>1 DEF ListsNothing, IInv, TypeOK, Refusal
<1>5. CASE Assess
  BY <1>1, <1>5 DEF Assess
<1>6. CASE UNCHANGED man
  BY <1>6 DEF ListsNothing
<1>7. ASSUME NEW c \in Containers, Dump(c) PROVE UNCHANGED man
  BY <1>7 DEF Dump
<1>8. Tick \/ Begin \/ Kill \/ UNCHANGED vars => NewDay \/ UNCHANGED man
  BY DEF Tick, Begin, Kill, vars, disk
<1> QED BY <1>2, <1>3, <1>4, <1>5, <1>6, <1>7, <1>8 DEF Next, Round

\* So does a baseline of a round that was refused, and the lack of one.
LEMMA BaselineLists ==
    ASSUME TypeOK, ListsNothing, NEW m \in Baselines, m.kind # "assessed"
    PROVE  SumFunction(m.size) = 0
<1>1. m.size = Nothing
  <2>1. \A k \in Back : m = man[k] => m.size = Nothing
    BY DEF ListsNothing
  <2>2. m = NoManifest => m.size = Nothing
    BY DEF NoManifest
  <2>3. CASE m \in Misread
    BY <2>1, <2>2, <2>3, Constants DEF Misread, Back
  <2>4. CASE m = Previous /\ \E k \in Back : Baseline(k)
    <3>1. (CHOOSE k \in Back : Baseline(k)) \in Back
      BY <2>4
    <3> QED BY <2>1, <2>4, <3>1 DEF Previous
  <2>5. CASE m = Previous /\ ~\E k \in Back : Baseline(k)
    BY <2>2, <2>5 DEF Previous
  <2> QED BY <2>3, <2>4, <2>5 DEF Baselines
<1>2. Nothing \in [Containers -> Nat] /\ \A c \in Containers : Nothing[c] = 0
  BY DEF Nothing
<1> HIDE DEF Nothing
<1> QED BY <1>1, <1>2, Finite, SumZero

\* A round that is due is refused, on a disk with room for the days that retention
\* keeps, a day for each fault and MinFree, only because of dumps that its baseline
\* lists, whether that is the latest manifest or an older one.
RefusedForItsBaseline ==
    Roomy /\ Regular /\ pc = "idle" => \A m \in Baselines :
        Free < Required(m) => m.kind = "assessed" /\ SumFunction(m.size) > 0

\* The estimate cannot stand in the way of backups for ever: the manifest of a
\* refused round is not a reason to refuse one of a later date, for any sizes,
\* containers, days, faults and zones.
THEOREM RefusalsDoNotRepeat == Spec => []RefusedForItsBaseline
<1>1. IInv /\ Room /\ ListsNothing => RefusedForItsBaseline
  <2> SUFFICES ASSUME IInv, Room, ListsNothing PROVE RefusedForItsBaseline
    OBVIOUS
  <2> SUFFICES ASSUME Roomy, Regular, pc = "idle", NEW m \in Baselines, Free < Required(m),
                      m.kind # "assessed" \/ ~(SumFunction(m.size) > 0)
               PROVE  FALSE
    BY DEF RefusedForItsBaseline
  <2>0. SumFunction(m.size) \in Nat /\ Required(m) \in Nat /\ Free \in Int
    BY BaselineSum, FreeType DEF IInv
  <2>1. SumFunction(m.size) = 0 /\ MinFree \in Nat
    BY <2>0, BaselineLists, DateDirsAssumption DEF IInv
  <2>2. Required(m) = MinFree
    BY <2>1, RequiredMin
  <2>3. /\ FullDay \in Nat /\ DaysKept \in Int /\ faults \in Nat /\ faults <= MaxFaults
        /\ MaxFaults \in Nat /\ (DaysKept + faults) * FullDay \in Int /\ TypeOK
    BY FullDayType, Constants DEF IInv, TypeOK
  <2>4. Used <= (DaysKept + faults) * FullDay /\ Used \in Nat
    BY TakenType DEF Room, Bounded, Others, IInv
  <2>5. /\ (DaysKept + faults) * FullDay <= (DaysKept + MaxFaults) * FullDay
        /\ (DaysKept + MaxFaults) * FullDay \in Int
    BY <2>3, FaultsAllow
  <2>6. (DaysKept + MaxFaults) * FullDay + MinFree <= capacity /\ capacity \in Nat
    <3>1. \A d \in Int, n, s \in Nat : (d * n) * s = d * (s * n)
      OBVIOUS
    <3>2. Cardinality(Containers) \in Nat /\ MaxSize \in Nat /\ DaysKept + MaxFaults \in Int
      BY <2>3, Finite, FS_CardinalityType, Constants
    <3>3. ((DaysKept + MaxFaults) * Cardinality(Containers)) * MaxSize = (DaysKept + MaxFaults) * FullDay
      BY <3>1, <3>2 DEF FullDay
    <3>4. capacity \in Nat
      BY DateDirsAssumption DEF IInv, TypeOK
    <3> QED BY <2>1, <2>5, <3>3, <3>4 DEF Roomy
  <2> QED BY <2>1, <2>2, <2>4, <2>5, <2>3, <2>6 DEF Free
<1>2. Init => ListsNothing
  BY DEF Init, ListsNothing, NoManifest
<1> QED BY <1>1, <1>2, IInvCorrect, InitRoom, RoomStep, ListsNothingStep, PTL DEF Spec
=============================================================================
