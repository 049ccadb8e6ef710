--------------------------- MODULE ResearchProofs ---------------------------
(***************************************************************************)
(* What is computed from the main contract's rows, for every calendar,     *)
(* every price and any number of sessions: splits of a walk-forward        *)
(* evaluation do not leak, the adjusted series has no gap at a roll, the   *)
(* return index is the growth of the contract held, and a label covers the *)
(* sessions it says.  The recursive functions under the last three are     *)
(* shown to exist up to n by induction over the set of such n.             *)
(***************************************************************************)
EXTENDS Research, MainContractProofs, FiniteSetTheorems, WellFoundedInduction

(* The gap is longer than the embargo and than any label of the plan.      *)
LEMMA GapExceeds ==
  ASSUME NEW plan \in Plans
  PROVE  /\ Gap(plan) \in Nat
         /\ Gap(plan) > plan.embargo
         /\ Gap(plan) > plan.horizon
  BY ResearchAssumption DEF Gap

LEMMA InPartition ==
  ASSUME NEW first \in Nat, NEW size \in Nat, NEW d \in Partition(first, size)
  PROVE  d \in Int /\ d >= first /\ d < first + size
  BY DEF Partition

(* Partitions that are a gap apart: the first keeps the embargo, and its   *)
(* labels end before the second, so that purging drops none of them.       *)
LEMMA EmbargoKept ==
  ASSUME NEW plan \in Plans, NEW first \in Nat, NEW size \in Nat,
         NEW later \in Int, later >= first + size + Gap(plan)
  PROVE  \A d \in Partition(first, size) : d + plan.embargo < later
<1>1. plan.embargo \in Nat
  BY ResearchAssumption
<1> QED
  BY <1>1, GapExceeds, InPartition

LEMMA NothingPurged ==
  ASSUME NEW plan \in Plans, NEW length \in Nat, NEW first \in Nat, NEW size \in Nat,
         NEW later \in Int, later >= first + size + Gap(plan), later < length,
         NEW horizon \in Horizons, horizon <= plan.horizon
  PROVE  purge_before(Partition(first, size), horizon, length, later) = Partition(first, size)
<1>1. plan.horizon \in Nat /\ horizon \in Nat
  BY ResearchAssumption
<1>2. ASSUME NEW d \in Partition(first, size)
      PROVE  LabelEnd(d, horizon) < later /\ LabelEnd(d, horizon) < length
  <2>1. d \in Int /\ d + 1 <= first + size
    BY InPartition
  <2>2. d + 1 + horizon < first + size + Gap(plan)
    BY <1>1, <2>1, GapExceeds
  <2> QED
    BY <1>1, <2>1, <2>2, GapExceeds DEF LabelEnd
<1> QED
  BY <1>2 DEF purge_before

(* Two splits of one plan start at least a test window apart.              *)
LEMMA TestsApart ==
  ASSUME NEW test \in Nat \ {0}, NEW p \in Nat, NEW q \in Nat,
         p % test = 0, q % test = 0, p < q
  PROVE  p + test <= q
<1>1. p = test * (p \div test) /\ q = test * (q \div test)
      /\ p \div test \in Nat /\ q \div test \in Nat
  OBVIOUS
<1>2. p \div test < q \div test
  <2>1. SUFFICES ASSUME q \div test <= p \div test PROVE FALSE
    BY <1>1
  <2>2. test * (q \div test) <= test * (p \div test)
    BY <1>1, <2>1
  <2> QED
    BY <1>1, <2>2
<1>3. test * ((p \div test) + 1) <= test * (q \div test)
  BY <1>1, <1>2
<1> QED
  BY <1>1, <1>3

(* The splits of a list of any length are as SplitsDoNotLeak says.         *)
LEMMA SplitsApart ==
  ASSUME NEW plan \in Plans, NEW length \in Nat
  PROVE  LET splits == walk_forward_splits(length, plan)
         IN  /\ \A s \in splits :
                  /\ s.train \union s.validate \union s.test \subseteq 0..(length - 1)
                  /\ \A horizon \in Horizons : horizon <= plan.horizon =>
                       /\ \A v \in s.validate : purge_before(s.train, horizon, length, v) = s.train
                       /\ \A t \in s.test : purge_before(s.validate, horizon, length, t) = s.validate
                  /\ \A d \in s.train, v \in s.validate : d + plan.embargo < v
                  /\ \A v \in s.validate, t \in s.test : v + plan.embargo < t
             /\ \A r, s \in splits : r # s => r.test \cap s.test = {}
<1> DEFINE splits == walk_forward_splits(length, plan)
           gap == Gap(plan)
           width == plan.train + plan.validate + plan.test + 2 * gap
           starts == {start \in 0..length : start % plan.test = 0 /\ start + width <= length}
<1>1. /\ plan.train \in Nat \ {0} /\ plan.validate \in Nat \ {0} /\ plan.test \in Nat \ {0}
      /\ gap \in Nat
  BY ResearchAssumption, GapExceeds
<1>2. splits = {Split(start, plan) : start \in starts}
  BY DEF walk_forward_splits
<1>3. ASSUME NEW s \in splits
      PROVE  /\ s.train \union s.validate \union s.test \subseteq 0..(length - 1)
             /\ \A horizon \in Horizons : horizon <= plan.horizon =>
                  /\ \A v \in s.validate : purge_before(s.train, horizon, length, v) = s.train
                  /\ \A t \in s.test : purge_before(s.validate, horizon, length, t) = s.validate
             /\ \A d \in s.train, v \in s.validate : d + plan.embargo < v
             /\ \A v \in s.validate, t \in s.test : v + plan.embargo < t
  <2>1. PICK start \in starts : s = Split(start, plan)
    BY <1>2
  <2>2. start \in Nat /\ start + width <= length
    OBVIOUS
  <2> PICK second : second = start + plan.train + gap
    OBVIOUS
  <2> PICK third : third = second + plan.validate + gap
    OBVIOUS
  <2>3. /\ s.train = Partition(start, plan.train)
        /\ s.validate = Partition(second, plan.validate)
        /\ s.test = Partition(third, plan.test)
    BY <2>1 DEF Split
  <2>4. second \in Nat /\ third \in Nat /\ third + plan.test <= length
    BY <1>1, <2>2
  <2>5. \A v \in s.validate : v \in Int /\ v >= second /\ v < second + plan.validate
    <3> QED  BY <1>1, <2>3, <2>4, InPartition
  <2>6. \A t \in s.test : t \in Int /\ t >= third /\ t < third + plan.test
    <3> QED  BY <1>1, <2>3, <2>4, InPartition
  <2>7. \A d \in s.train : d \in Int /\ d >= start /\ d < start + plan.train
    BY <1>1, <2>2, <2>3, InPartition
  <2>8. s.train \union s.validate \union s.test \subseteq 0..(length - 1)
    BY <1>1, <2>2, <2>4, <2>5, <2>6, <2>7
  <2>9. ASSUME NEW v \in s.validate
        PROVE  /\ \A d \in s.train : d + plan.embargo < v
               /\ \A horizon \in Horizons : horizon <= plan.horizon =>
                    purge_before(s.train, horizon, length, v) = s.train
    <3>1. v \in Int /\ v >= start + plan.train + Gap(plan) /\ v < length
      BY <1>1, <2>2, <2>4, <2>5, <2>6
    <3>2. start \in Nat /\ plan.train \in Nat
      BY <1>1, <2>2, <2>4
    <3> HIDE DEF splits, gap, width, starts
    <3>3. \A d \in s.train : d + plan.embargo < v
      BY <2>3, <3>1, <3>2, EmbargoKept
    <3>4. ASSUME NEW horizon \in Horizons, horizon <= plan.horizon
          PROVE  purge_before(s.train, horizon, length, v) = s.train
      BY <2>3, <3>1, <3>2, <3>4, NothingPurged
    <3> QED
      BY <3>3, <3>4
  <2>10. ASSUME NEW t \in s.test
        PROVE  /\ \A d \in s.validate : d + plan.embargo < t
               /\ \A horizon \in Horizons : horizon <= plan.horizon =>
                    purge_before(s.validate, horizon, length, t) = s.validate
    <3>1. t \in Int /\ t >= second + plan.validate + Gap(plan) /\ t < length
      BY <1>1, <2>2, <2>4, <2>5, <2>6
    <3>2. second \in Nat /\ plan.validate \in Nat
      BY <1>1, <2>2, <2>4
    <3> HIDE DEF splits, gap, width, starts
    <3>3. \A d \in s.validate : d + plan.embargo < t
      BY <2>3, <3>1, <3>2, EmbargoKept
    <3>4. ASSUME NEW horizon \in Horizons, horizon <= plan.horizon
          PROVE  purge_before(s.validate, horizon, length, t) = s.validate
      BY <2>3, <3>1, <3>2, <3>4, NothingPurged
    <3> QED
      BY <3>3, <3>4
  <2> QED
    BY <2>8, <2>9, <2>10
<1>4. ASSUME NEW r \in splits, NEW s \in splits, r # s
      PROVE  r.test \cap s.test = {}
  <2>1. PICK p \in starts : r = Split(p, plan)
    BY <1>2
  <2>2. PICK q \in starts : s = Split(q, plan)
    BY <1>2
  <2>3. p \in Nat /\ q \in Nat /\ p % plan.test = 0 /\ q % plan.test = 0 /\ p # q
    BY <1>4, <2>1, <2>2
  <2>4. p + plan.test <= q \/ q + plan.test <= p
    BY <1>1, <2>3, TestsApart
  <2> DEFINE third(start) == start + plan.train + gap + plan.validate + gap
  <2>5. r.test = Partition(third(p), plan.test) /\ s.test = Partition(third(q), plan.test)
    BY <2>1, <2>2 DEF Split
  <2>6. third(p) \in Nat /\ third(q) \in Nat
    BY <1>1, <2>3
  <2>7. third(p) + plan.test <= third(q) \/ third(q) + plan.test <= third(p)
    BY <1>1, <2>3, <2>4
  <2> HIDE DEF third
  <2>8. ASSUME NEW d \in r.test, d \in s.test PROVE FALSE
    <3>1. /\ d \in Int /\ d >= third(p) /\ d < third(p) + plan.test
      BY <1>1, <2>5, <2>6, InPartition
    <3>2. /\ d >= third(q) /\ d < third(q) + plan.test
      BY <1>1, <2>5, <2>6, <2>8, InPartition
    <3> QED
      BY <1>1, <2>6, <2>7, <3>1, <3>2
  <2> QED
    BY <2>8
<1> QED
  BY <1>3, <1>4

(* Whatever is replayed, the splits of the sessions so far do not leak     *)
(* (walk_forward_splits).                                                  *)
THEOREM SplitsNeverLeak == Spec => []SplitsDoNotLeak
<1>1. TypeOK => SplitsDoNotLeak
  <2>1. ASSUME TypeOK PROVE History + Len(records) \in Nat
    BY <2>1, ResearchAssumption DEF TypeOK
  <2> QED
    BY <2>1, SplitsApart DEF SplitsDoNotLeak
<1> QED
  BY <1>1, TypeCorrect, PTL
-----------------------------------------------------------------------------
(* How far sums of a function over a finite set are known:                 *)
(* SumFunctionOnSet is defined by recursion on the set, and its function   *)
(* exists because it exists up to n elements for every n.                  *)

(* A bounded set of naturals has a greatest element.                       *)
LEMMA Greatest ==
  ASSUME NEW S \in SUBSET Nat, S # {}, NEW b \in Nat, \A s \in S : s <= b
  PROVE  \E m \in S : \A s \in S : s <= m
<1> DEFINE T == {s..b : s \in S}
           R == StrictSubsetOrdering(0..b)
<1>1. T \subseteq FiniteSubsetsOf(0..b) /\ T # {}
  <2>1. IsFiniteSet(0..b)
    BY FS_Interval
  <2>2. ASSUME NEW s \in S PROVE s..b \in FiniteSubsetsOf(0..b)
    <3>1. s..b \in SUBSET (0..b)
      OBVIOUS
    <3>2. QED
      BY <3>1, <2>1, FS_Subset DEF FiniteSubsetsOf
  <2>3. QED
    BY <2>2
<1>2. IsWellFoundedOn(R, FiniteSubsetsOf(0..b))
  BY FS_StrictSubsetOrderingWellFounded
<1>3. PICK x \in T : \A y \in T : <<y, x>> \notin R
  <2> HIDE DEF T, R
  <2>1. QED
    BY <1>1, <1>2, WFMin
<1>4. PICK m \in S : x = m..b
  OBVIOUS
<1>5. \A s \in S : s <= m
  <2> SUFFICES ASSUME NEW s \in S, s > m PROVE FALSE
    OBVIOUS
  <2>1. /\ s..b \in SUBSET (0..b) /\ m..b \in SUBSET (0..b)
        /\ s..b \subseteq m..b
        /\ m \in m..b /\ m \notin s..b
    OBVIOUS
  <2>2. <<s..b, m..b>> \in R
    BY <2>1 DEF StrictSubsetOrdering
  <2>3. QED
    BY <2>2, <1>3, <1>4
<1>6. QED
  BY <1>5

(* Induction up to n, over a set for want of a predicate.                  *)
LEMMA UpTo ==
  ASSUME NEW n \in Nat, NEW S, 0 \in S, \A k \in 0..(n - 1) : k \in S => k + 1 \in S
  PROVE  0..n \subseteq S
<1> DEFINE U == {k \in 0..n : 0..k \subseteq S}
<1>1. PICK m \in U : \A k \in U : k <= m
  <2>1. U \in SUBSET Nat /\ 0 \in U /\ \A k \in U : k <= n
    OBVIOUS
  <2> QED
    BY <2>1, Greatest
<1>2. CASE m = n
  BY <1>2
<1>3. CASE m # n
  <2>1. m \in 0..(n - 1) /\ 0..m \subseteq S
    BY <1>3
  <2>2. m + 1 \in S
    BY <2>1
  <2>3. 0..(m + 1) \subseteq S
    BY <2>1, <2>2
  <2> QED
    BY <1>1, <2>1, <2>3
<1> QED
  BY <1>2, <1>3

Chosen(T) == CHOOSE x \in T : TRUE

(* F adds up f over the subsets of S.                                      *)
IsSum(F, f, S) ==
  F = [T \in SUBSET S |-> IF T = {} THEN 0 ELSE f[Chosen(T)] + F[T \ {Chosen(T)}]]

(* F adds up f over the subsets of S with at most n elements.              *)
Adds(F, f, S, n) ==
  \A T \in SUBSET S : Cardinality(T) <= n =>
    F[T] = IF T = {} THEN 0 ELSE f[Chosen(T)] + F[T \ {Chosen(T)}]

(* A finite set without one of its elements.                               *)
LEMMA OneLess ==
  ASSUME NEW T, IsFiniteSet(T), NEW x \in T
  PROVE  /\ IsFiniteSet(T \ {x}) /\ Cardinality(T) \in Nat
         /\ Cardinality(T \ {x}) = Cardinality(T) - 1
  BY FS_RemoveElement, FS_CardinalityType

(* The recursive function behind a sum exists.                             *)
LEMMA SomeAdds ==
  ASSUME NEW S, IsFiniteSet(S), NEW f
  PROVE  \E F : IsSum(F, f, S)
<1> DEFINE N == Cardinality(S)
           Ok == {n \in 0..N : \E F : F = [T \in SUBSET S |-> F[T]] /\ Adds(F, f, S, n)}
<1>1. N \in Nat
  BY FS_CardinalityType
<1>2. \A T \in SUBSET S : IsFiniteSet(T) /\ Cardinality(T) \in 0..N
  BY FS_Subset, FS_CardinalityType
<1>3. 0 \in Ok
  <2>1. PICK F : F = [T \in SUBSET S |-> 0]
    OBVIOUS
  <2>2. \A T \in SUBSET S : Cardinality(T) <= 0 => T = {}
    BY <1>2, FS_EmptySet
  <2> QED
    BY <2>1, <2>2, <1>1 DEF Adds
<1>4. ASSUME NEW n \in 0..(N - 1), n \in Ok PROVE n + 1 \in Ok
  <2>1. PICK F : F = [T \in SUBSET S |-> F[T]] /\ Adds(F, f, S, n)
    BY <1>4
  <2>2. PICK G : G = [T \in SUBSET S |-> IF Cardinality(T) <= n THEN F[T]
                                         ELSE f[Chosen(T)] + F[T \ {Chosen(T)}]]
    OBVIOUS
  <2>3. ASSUME NEW T \in SUBSET S, Cardinality(T) <= n + 1
        PROVE  G[T] = IF T = {} THEN 0 ELSE f[Chosen(T)] + G[T \ {Chosen(T)}]
    <3>1. CASE T = {}
      <4>1. Cardinality(T) = 0
        BY <3>1, FS_EmptySet
      <4>2. Cardinality(T) <= n
        BY <4>1
      <4>3. G[T] = F[T]
        BY <2>2, <4>2
      <4>4. F[T] = 0
        BY <2>1, <3>1, <4>2, Zenon DEF Adds
      <4> QED
        BY <3>1, <4>3, <4>4
    <3>2. CASE T # {}
      <4>1. PICK x : x = Chosen(T)
        OBVIOUS
      <4>2. x \in T
        BY <3>2, <4>1 DEF Chosen
      <4>3. /\ T \ {x} \in SUBSET S /\ Cardinality(T) \in Nat
            /\ Cardinality(T \ {x}) = Cardinality(T) - 1
        BY <4>2, <1>2, OneLess
      <4>4. Cardinality(T \ {x}) <= n
        BY <4>3, <2>3
      <4>5. G[T \ {x}] = F[T \ {x}]
        BY <2>2, <4>3, <4>4
      <4>6. CASE Cardinality(T) <= n
        BY <2>1, <2>2, <3>2, <4>1, <4>5, <4>6 DEF Adds
      <4>7. CASE ~(Cardinality(T) <= n)
        BY <2>2, <3>2, <4>1, <4>5, <4>7
      <4> QED
        BY <4>6, <4>7
    <3> QED
      BY <3>1, <3>2
  <2>4. Adds(G, f, S, n + 1) /\ G = [T \in SUBSET S |-> G[T]]
    BY <2>2, <2>3 DEF Adds
  <2> QED
    BY <2>4, <1>1
<1>5. N \in Ok
  <2> HIDE DEF Ok, N
  <2>1. 0..N \subseteq Ok
    BY <1>1, <1>3, <1>4, UpTo
  <2> QED  BY <1>1, <2>1
<1>6. PICK F : F = [T \in SUBSET S |-> F[T]] /\ Adds(F, f, S, N)
  BY <1>5
<1>7. ASSUME NEW T \in SUBSET S
      PROVE  F[T] = IF T = {} THEN 0 ELSE f[Chosen(T)] + F[T \ {Chosen(T)}]
  <2>1. Cardinality(T) <= N
    BY <1>1, <1>2
  <2> QED
    BY <1>6, <2>1, Zenon DEF Adds
<1>8. IsSum(F, f, S)
  BY <1>6, <1>7, Zenon DEF IsSum
<1> QED
  BY <1>8

(* SumFunctionOnSet is such a function.                                    *)
LEMMA SumIs ==
  ASSUME NEW S, IsFiniteSet(S), NEW f
  PROVE  \E F : IsSum(F, f, S) /\ SumFunctionOnSet(f, S) = F[S]
<1> DEFINE G == CHOOSE F : IsSum(F, f, S)
<1>1. SumFunctionOnSet(f, S) = G[S]
  BY DEF SumFunctionOnSet, FoldFunctionOnSet, MapThenFoldSet, Chosen, IsSum
<1>2. IsSum(G, f, S)
  <2>1. \E F : IsSum(F, f, S)
    BY SomeAdds
  <2> QED
    BY <2>1, Zenon
<1> QED
  BY <1>1, <1>2

(* The recursion by which SumFunctionOnSet is computed: it takes away the  *)
(* elements in the order in which they are chosen.                         *)
LEMMA SumStep ==
  ASSUME NEW S, IsFiniteSet(S), NEW f
  PROVE  SumFunctionOnSet(f, S) = IF S = {} THEN 0
                                  ELSE f[Chosen(S)] + SumFunctionOnSet(f, S \ {Chosen(S)})
<1>0. PICK F : IsSum(F, f, S) /\ SumFunctionOnSet(f, S) = F[S]
  BY SumIs
<1>1. /\ SumFunctionOnSet(f, S) = F[S]
      /\ \A T \in SUBSET S : F[T] = IF T = {} THEN 0 ELSE f[Chosen(T)] + F[T \ {Chosen(T)}]
  <2>1. F = [T \in SUBSET S |-> IF T = {} THEN 0 ELSE f[Chosen(T)] + F[T \ {Chosen(T)}]]
    BY <1>0 DEF IsSum
  <2> QED
    BY <1>0, <2>1, Zenon
<1>2. CASE S = {}
  BY <1>1, <1>2
<1>3. CASE S # {}
  <2>1. PICK R : R = S \ {Chosen(S)}
    OBVIOUS
  <2>2. R \in SUBSET S /\ IsFiniteSet(R)
    BY <2>1, FS_Subset
  <2>0. PICK G : IsSum(G, f, R) /\ SumFunctionOnSet(f, R) = G[R]
    BY <2>2, SumIs
  <2>3. /\ SumFunctionOnSet(f, R) = G[R]
        /\ \A T \in SUBSET R : G[T] = IF T = {} THEN 0 ELSE f[Chosen(T)] + G[T \ {Chosen(T)}]
    <3>1. G = [T \in SUBSET R |-> IF T = {} THEN 0 ELSE f[Chosen(T)] + G[T \ {Chosen(T)}]]
      BY <2>0 DEF IsSum
    <3> QED
      BY <2>0, <3>1, Zenon
  <2> DEFINE N == Cardinality(R)
             Same == {n \in 0..N : \A T \in SUBSET R : Cardinality(T) <= n => F[T] = G[T]}
  <2>4. N \in Nat /\ \A T \in SUBSET R : IsFiniteSet(T) /\ Cardinality(T) \in 0..N
    BY <2>2, FS_Subset, FS_CardinalityType
  <2>5. F[{}] = G[{}]
    BY <1>1, <2>3
  <2>6. 0 \in Same
    <3>1. \A T \in SUBSET R : Cardinality(T) <= 0 => T = {}
      BY <2>4, FS_EmptySet
    <3> QED
      BY <2>4, <2>5, <3>1
  <2>7. ASSUME NEW n \in 0..(N - 1), n \in Same PROVE n + 1 \in Same
    <3>1. ASSUME NEW T \in SUBSET R, Cardinality(T) <= n + 1, T # {}
          PROVE  F[T] = G[T]
      <4>1. PICK x : x = Chosen(T)
        OBVIOUS
      <4>2. x \in T
        BY <3>1, <4>1 DEF Chosen
      <4>3. T \ {x} \in SUBSET R /\ Cardinality(T \ {x}) <= n
        BY <2>4, <3>1, <4>2, OneLess
      <4>4. F[T \ {x}] = G[T \ {x}]
        BY <2>7, <4>3
      <4>5. T \in SUBSET S
        BY <2>2
      <4>6. F[T] = f[x] + F[T \ {x}]
        BY <1>1, <3>1, <4>1, <4>5
      <4>7. G[T] = f[x] + G[T \ {x}]
        BY <2>3, <3>1, <4>1
      <4> QED
        BY <4>4, <4>6, <4>7
    <3>2. n + 1 \in 0..N
      BY <2>4
    <3> QED
      BY <2>5, <3>1, <3>2
  <2>8. N \in Same
    <3> HIDE DEF Same, N
    <3>1. 0..N \subseteq Same
      BY <2>4, <2>6, <2>7, UpTo
    <3> QED
      BY <2>4, <3>1
  <2>9. F[R] = G[R]
    <3>1. Cardinality(R) <= N /\ R \in SUBSET R
      BY <2>4
    <3> QED
      BY <2>8, <3>1
  <2>10. F[S] = f[Chosen(S)] + F[R]
    BY <1>1, <1>3, <2>1
  <2> QED
    BY <1>1, <1>3, <2>1, <2>3, <2>9, <2>10
<1> QED
  BY <1>2, <1>3

(* A sum of integers is an integer, and any element can be taken away.     *)
LEMMA SumRemove ==
  ASSUME NEW S, IsFiniteSet(S), NEW f, \A s \in S : f[s] \in Int
  PROVE  /\ SumFunctionOnSet(f, S) \in Int
         /\ \A x \in S : SumFunctionOnSet(f, S) = f[x] + SumFunctionOnSet(f, S \ {x})
<1> DEFINE Sum(T) == SumFunctionOnSet(f, T)
           N == Cardinality(S)
           Good(T) == Sum(T) \in Int /\ \A x \in T : Sum(T) = f[x] + Sum(T \ {x})
           Ok == {n \in 0..N : \A T \in SUBSET S : Cardinality(T) <= n => Good(T)}
<1>1. N \in Nat /\ \A T \in SUBSET S : IsFiniteSet(T) /\ Cardinality(T) \in 0..N
  BY FS_Subset, FS_CardinalityType
<1>2. Good({})
  BY FS_EmptySet, SumStep
<1>3. \A T \in SUBSET S : T # {} => Chosen(T) \in T /\ Sum(T) = f[Chosen(T)] + Sum(T \ {Chosen(T)})
  <2> SUFFICES ASSUME NEW T \in SUBSET S, T # {}
               PROVE  Chosen(T) \in T /\ Sum(T) = f[Chosen(T)] + Sum(T \ {Chosen(T)})
    OBVIOUS
  <2>1. Chosen(T) \in T
    BY DEF Chosen
  <2> QED
    BY <1>1, <2>1, SumStep
<1> HIDE DEF Sum
<1>4. 0 \in Ok
  <2>1. \A T \in SUBSET S : Cardinality(T) <= 0 => T = {}
    BY <1>1, FS_EmptySet
  <2> QED
    BY <1>1, <1>2, <2>1
<1>5. ASSUME NEW n \in 0..(N - 1), n \in Ok PROVE n + 1 \in Ok
  <2>1. ASSUME NEW T \in SUBSET S, Cardinality(T) <= n + 1, T # {}
        PROVE  Good(T)
    <3>1. PICK c \in T : Sum(T) = f[c] + Sum(T \ {c})
      BY <1>3, <2>1
    <3>2. ASSUME NEW y \in T
          PROVE  /\ T \ {y} \in SUBSET S /\ Sum(T \ {y}) \in Int /\ f[y] \in Int
                 /\ \A x \in T \ {y} : Sum(T \ {y}) = f[x] + Sum((T \ {y}) \ {x})
      <4>1. Cardinality(T \ {y}) <= n
        BY <1>1, <2>1, OneLess
      <4>2. T \ {y} \in SUBSET S
        OBVIOUS
      <4>3. Good(T \ {y})
        BY <1>5, <4>1, <4>2
      <4> QED
        BY <4>2, <4>3
    <3>3. ASSUME NEW x \in T PROVE Sum(T) = f[x] + Sum(T \ {x})
      <4>1. CASE x = c
        BY <3>1, <4>1
      <4>2. CASE x # c
        <5>1. Sum(T \ {c}) = f[x] + Sum((T \ {c}) \ {x})
          BY <3>2, <4>2
        <5>2. Sum(T \ {x}) = f[c] + Sum((T \ {x}) \ {c})
          BY <3>2, <4>2
        <5>3. (T \ {c}) \ {x} = (T \ {x}) \ {c}
          OBVIOUS
        <5>4. PICK rest : rest = Sum((T \ {c}) \ {x})
          OBVIOUS
        <5>5. rest \in Int
          <6>1. (T \ {c}) \ {x} \in SUBSET S /\ Cardinality((T \ {c}) \ {x}) <= n
            <7>1. IsFiniteSet(T \ {c}) /\ x \in T \ {c} /\ Cardinality(T \ {c}) = Cardinality(T) - 1
              BY <1>1, <4>2, OneLess
            <7>2. Cardinality((T \ {c}) \ {x}) = Cardinality(T \ {c}) - 1
              BY <7>1, OneLess
            <7> QED
              BY <1>1, <2>1, <7>1, <7>2
          <6> QED
            BY <1>5, <5>4, <6>1
        <5>6. f[x] \in Int /\ f[c] \in Int
          BY <3>2
        <5>7. Sum(T \ {c}) = f[x] + rest /\ Sum(T \ {x}) = f[c] + rest
          BY <5>1, <5>2, <5>3, <5>4, Zenon
        <5> HIDE DEF Good, Ok, N
        <5> QED
          BY <3>1, <5>5, <5>6, <5>7
      <4> QED
        BY <4>1, <4>2
    <3>4. Sum(T) \in Int
      BY <3>1, <3>2
    <3> QED
      BY <3>3, <3>4
  <2>2. n + 1 \in 0..N
    BY <1>1
  <2> HIDE DEF Good
  <2> QED
    BY <1>2, <2>1, <2>2
<1>6. N \in Ok
  <2> HIDE DEF Ok, N
  <2>1. 0..N \subseteq Ok
    BY <1>1, <1>4, <1>5, UpTo
  <2> QED
    BY <1>1, <2>1
<1>7. Good(S)
  <2>1. Cardinality(S) <= N /\ S \in SUBSET S
    BY <1>1
  <2> HIDE DEF Good
  <2> QED
    BY <1>6, <2>1
<1> QED
  BY <1>7 DEF Sum

-----------------------------------------------------------------------------
(* The continuous series needs its sessions in the order of their dates.   *)

(* The sessions have dates of the model, in order; and after the first one *)
(* they are trading days if those on which curves are observed are.        *)
Dated ==
  \A i \in DOMAIN records :
    /\ expanded[i].date \in Days
    /\ \A j \in 1..(i - 1) : expanded[j].date < expanded[i].date
    /\ OnCalendar /\ i > 1 => expanded[i].date \in TradingDays

SeriesInv == IInv /\ Dated

(* The day after a day of the calendar is a trading day                    *)
(* (trading_calendar.py).                                                  *)
LEMMA NextIsTradingDay ==
  ASSUME NEW d \in Days
  PROVE  NextTradingDay(d) \in TradingDays
BY CalendarAssumption DEF NextTradingDay

(* ... and every step keeps it, expansion and refit rewriting rows but not *)
(* days.                                                                   *)
LEMMA DatedNext == SeriesInv /\ Next => Dated'
<1> SUFFICES ASSUME SeriesInv, Next PROVE Dated'
  OBVIOUS
<1>1. PICK d \in Days, c \in CandidateSets \union {Missing}, r \in MappingRecords :
        /\ Step(d, c, r) /\ ComesNext(d)
        /\ d \in SessionDays \/ (expanded # <<>> => d = NextTradingDay(expanded[Len(expanded)].date))
  BY StepTells DEF SeriesInv, IInv
<1>2. PICK n \in Nat : n = Len(records)
  BY DEF SeriesInv, IInv, TypeOK
<1>3. /\ DOMAIN records = 1..n /\ DOMAIN records' = 1..(n + 1) /\ Len(expanded) = n
      /\ \A i \in 1..n : expanded'[i] = expanded[i]
      /\ expanded'[n + 1].date = d
  <2>1. Appends(d, c, r)
    BY <1>1 DEF Step
  <2>2. /\ Len(records') = n + 1 /\ expanded'[n + 1] = [date |-> d, candidates |-> c]
        /\ \A i \in 1..n : expanded'[i] = expanded[i]
    BY <2>1, <1>2, HistoryKept DEF SeriesInv, IInv
  <2>3. TypeOK /\ TypeOK'
    BY TypeNext DEF SeriesInv, IInv
  <2> QED
    BY <1>2, <2>2, <2>3 DEF TypeOK
<1>4. d \in Nat /\ \A i \in 1..n : expanded[i].date \in Nat
  BY <1>3, CalendarAssumption DEF SeriesInv, Dated, Days
<1>5. \A j \in 1..n : expanded[j].date < d
  <2> SUFFICES ASSUME NEW j \in 1..n PROVE expanded[j].date < d
    OBVIOUS
  <2>1. expanded[n].date < d
    BY <1>1, <1>3, <1>4 DEF ComesNext
  <2>2. j = n \/ expanded[j].date < expanded[n].date
    BY <1>3 DEF SeriesInv, Dated
  <2> QED
    BY <1>4, <2>1, <2>2
<1>6. OnCalendar /\ n + 1 > 1 => d \in TradingDays
  <2> SUFFICES ASSUME OnCalendar, n + 1 > 1 PROVE d \in TradingDays
    OBVIOUS
  <2>1. expanded # <<>> /\ n \in 1..n
    BY <1>2, <1>3
  <2>2. expanded[Len(expanded)].date \in Days
    BY <1>3, <2>1 DEF SeriesInv, Dated
  <2> QED
    BY <1>1, <2>1, <2>2, NextIsTradingDay DEF OnCalendar
<1> QED
  <2> SUFFICES ASSUME NEW i \in 1..(n + 1)
               PROVE  /\ expanded'[i].date \in Days
                      /\ \A j \in 1..(i - 1) : expanded'[j].date < expanded'[i].date
                      /\ OnCalendar /\ i > 1 => expanded'[i].date \in TradingDays
    BY <1>3 DEF Dated, OnCalendar
  <2>1. CASE i = n + 1
    BY <1>1, <1>3, <1>5, <1>6, <2>1
  <2>2. CASE i # n + 1
    BY <1>3, <2>2 DEF SeriesInv, Dated
  <2> QED
    BY <2>1, <2>2

(* The series invariant holds in every state of the roll.                  *)
LEMMA SeriesInvariant == Spec => []SeriesInv
<1>1. Init => SeriesInv
  <2> SUFFICES ASSUME Init PROVE Dated
    BY InvInit DEF SeriesInv
  <2>1. DOMAIN records = {}
    BY DEF Init
  <2> QED
    BY <2>1 DEF Dated
<1>2. SeriesInv /\ [Next]_vars => SeriesInv'
  <2>1. CASE Next
    BY <2>1, DatedNext, InvNext DEF SeriesInv
  <2>2. CASE UNCHANGED vars
    <3>1. Dated' <=> Dated
      BY <2>2 DEF vars, Dated, OnCalendar
    <3> QED
      BY <2>2, <3>1, InvNext DEF SeriesInv
  <2> QED
    BY <2>1, <2>2
<1> QED
  BY <1>1, <1>2, PTL DEF Spec

-----------------------------------------------------------------------------
(* The point before a session is the last of the earlier ones.             *)
LEMMA PreviousIs ==
  ASSUME NEW i \in Nat, Earlier(i) # {}
  PROVE  /\ Previous(i) \in 1..(i - 1) /\ HasPoint(Previous(i))
         /\ \A j \in 1..(i - 1) : HasPoint(j) => j <= Previous(i)
<1>1. Earlier(i) \in SUBSET Nat /\ \A j \in Earlier(i) : j <= i
  BY DEF Earlier
<1>2. PICK m \in Earlier(i) : \A j \in Earlier(i) : j <= m
  BY <1>1, Greatest
<1>3. Previous(i) \in Earlier(i) /\ \A j \in Earlier(i) : j <= Previous(i)
  BY <1>1, <1>2 DEF Previous, Max
<1> QED
  BY <1>3 DEF Earlier

(* ... so it is the session before when that one has a point.              *)
LEMMA PreviousWhere ==
  ASSUME NEW i \in Nat, NEW p \in 1..(i - 1), HasPoint(p),
         \A j \in (p + 1)..(i - 1) : ~HasPoint(j)
  PROVE  Earlier(i) # {} /\ Previous(i) = p
<1>1. p \in Earlier(i)
  BY DEF Earlier
<1>2. Previous(i) \in 1..(i - 1) /\ HasPoint(Previous(i)) /\ p <= Previous(i)
  BY <1>1, PreviousIs
<1> QED
  BY <1>1, <1>2

(* Prices are integers of contracts.                                       *)
LEMMA PricesTyped ==
  ASSUME SeriesInv, NEW i \in DOMAIN records
  PROVE  /\ \A code : Quoted(code, i) => code \in Contracts
         /\ \A code \in Contracts : Price(code, i) \in Int
<1>1. expanded[i].date \in Days
  BY DEF SeriesInv, Dated
<1>2. expanded[i] \in [date : Nat, candidates : CandidateSets \union {Missing}]
  <2>1. /\ expanded \in Seq([date : Nat, candidates : CandidateSets \union {Missing}])
        /\ i \in 1..Len(expanded)
    BY DEF SeriesInv, IInv, TypeOK
  <2> QED
    BY <2>1, ElementOfSeq
<1>3. \A code : Quoted(code, i) => code \in Contracts
  BY <1>2, SeriesAssumption DEF Quoted
<1>4. \A code \in Contracts : Price(code, i) \in Int
  BY <1>1, SeriesAssumption DEF Price
<1> QED
  BY <1>3, <1>4

(* Sessions are numbered from 1, and points are some of them.              *)
LEMMA SessionsNumbered ==
  ASSUME SeriesInv
  PROVE  /\ Len(records) \in Nat /\ DOMAIN records = 1..Len(records)
         /\ Points \subseteq 1..Len(records) /\ \A i \in Points : HasPoint(i) /\ i \in Nat
BY DEF SeriesInv, IInv, TypeOK, Points

(* The additive gaps of the rolls are integers, finitely many.             *)
LEMMA GapsTyped ==
  ASSUME SeriesInv
  PROVE  /\ RollGaps \subseteq Points
         /\ \A g \in RollGaps : AdditiveGaps[g] = AdditiveGap(g) /\ AdditiveGap(g) \in Int
<1>1. RollGaps \subseteq Points
  BY DEF RollGaps
<1>2. ASSUME NEW g \in RollGaps PROVE AdditiveGap(g) \in Int
  <2>1. g \in DOMAIN records /\ Quoted(Held(g), g) /\ Quoted(Held(Previous(g)), g)
    BY DEF RollGaps, Points, HasPoint
  <2>2. Price(Held(g), g) \in Int /\ Price(Held(Previous(g)), g) \in Int
    BY <2>1, PricesTyped
  <2> QED
    BY <2>2 DEF AdditiveGap
<1> QED
  BY <1>1, <1>2 DEF AdditiveGaps

(* The later adjusted price lacks one gap of the earlier: that of its      *)
(* roll.                                                                   *)
LEMMA GapIsRemoved ==
  ASSUME SeriesInv, NEW i \in Points, Earlier(i) # {}, NEW p, p = Previous(i), Quoted(Held(p), i)
  PROVE  Adjusted(i) - Adjusted(p) = Price(Held(p), i) - Price(Held(p), p)
<1> DEFINE Later(k) == {g \in RollGaps : k < g}
           Sum(k) == SumFunctionOnSet(AdditiveGaps, Later(k))
<1>1. /\ i \in DOMAIN records /\ i \in Nat /\ HasPoint(i)
      /\ p \in 1..(i - 1) /\ HasPoint(p) /\ \A j \in 1..(i - 1) : HasPoint(j) => j <= p
  <2>1. i \in DOMAIN records /\ i \in Nat /\ HasPoint(i)
    BY SessionsNumbered DEF Points
  <2> QED
    BY <2>1, PreviousIs
<1>2. p \in DOMAIN records
  BY <1>1, SessionsNumbered
<1>3. /\ Price(Held(i), i) \in Int /\ Price(Held(p), p) \in Int /\ Price(Held(p), i) \in Int
  BY <1>1, <1>2, PricesTyped DEF HasPoint
<1>4. ASSUME NEW k PROVE IsFiniteSet(Later(k))
  <2>1. Later(k) \subseteq 1..Len(records) /\ IsFiniteSet(1..Len(records))
    BY GapsTyped, SessionsNumbered, FS_Interval
  <2> QED
    BY <2>1, FS_Subset
<1>5. ASSUME NEW k
      PROVE  Sum(k) \in Int /\ \A g \in Later(k) : Sum(k) = AdditiveGaps[g] + SumFunctionOnSet(AdditiveGaps, Later(k) \ {g})
  <2>1. \A g \in Later(k) : AdditiveGaps[g] \in Int
    BY GapsTyped
  <2> QED
    BY <1>4, <2>1, SumRemove
<1>6. \A g \in RollGaps : g \in Nat /\ HasPoint(g)
  BY GapsTyped, SessionsNumbered
<1>7. CASE i \in RollGaps
  <2>1. Later(p) \ {i} = Later(i) /\ i \in Later(p)
    BY <1>1, <1>6, <1>7
  <2>2. Sum(p) = AdditiveGap(i) + Sum(i)
    BY <1>5, <1>7, <2>1, GapsTyped
  <2>3. AdditiveGap(i) = Price(Held(i), i) - Price(Held(p), i)
    BY DEF AdditiveGap
  <2>4. Adjusted(i) = Price(Held(i), i) + Sum(i) /\ Adjusted(p) = Price(Held(p), p) + Sum(p)
    BY DEF Adjusted
  <2>5. Sum(i) \in Int
    BY <1>5
  <2> HIDE DEF Sum, Later
  <2> QED
    BY <1>3, <2>2, <2>3, <2>4, <2>5
<1>8. CASE i \notin RollGaps
  <2>1. Later(p) = Later(i)
    BY <1>1, <1>6, <1>8
  <2>2. Held(p) = Held(i)
    BY <1>8 DEF RollGaps
  <2>4. Adjusted(i) = Price(Held(i), i) + Sum(i) /\ Adjusted(p) = Price(Held(p), p) + Sum(p)
    BY DEF Adjusted
  <2>5. Sum(i) \in Int /\ Sum(p) = Sum(i)
    BY <1>5, <2>1
  <2> HIDE DEF Sum, Later
  <2> QED
    BY <1>3, <2>2, <2>4, <2>5
<1> QED
  BY <1>7, <1>8

(* Backward adjustment removes the gap of every roll and nothing else:     *)
(* between two points the adjusted price moves as the contract held on the *)
(* earlier day (continuous_series.py 22-60).                               *)
THEOREM RollGapsAreRemoved == Spec => []RollGapRemoved
<1>1. SeriesInv => RollGapRemoved
  BY GapIsRemoved DEF RollGapRemoved
<1> QED
  BY <1>1, SeriesInvariant, PTL

-----------------------------------------------------------------------------
(* The return index is a chain of values.                                  *)

(* The value of session i, with F the values up to every earlier session.  *)
ValueAfter(F, i, consecutive, denominator) ==
  IndexAfter(i, IF i = 1 THEN NoIndex ELSE F[i - 1][i - 1], consecutive[i], denominator[i])

IsChain(F, consecutive, denominator) ==
  F = [i \in 0..Len(records) |->
         IF i = 0 THEN <<>> ELSE Append(F[i - 1], ValueAfter(F, i, consecutive, denominator))]

(* The recursive function behind an index exists: its values are found up  *)
(* to n for every n.                                                       *)
LEMMA SomeChain ==
  ASSUME SeriesInv, NEW con, NEW den
  PROVE  \E F : IsChain(F, con, den)
<1> DEFINE N == Len(records)
           Chain(F, k) == /\ F = [i \in 0..N |-> F[i]] /\ F[0] = <<>>
                          /\ \A i \in 1..k : F[i] = Append(F[i - 1], ValueAfter(F, i, con, den))
           Ok == {k \in 0..N : \E F : Chain(F, k)}
<1>1. N \in Nat
  BY SessionsNumbered
<1>2. 0 \in Ok
  <2>1. PICK F : F = [i \in 0..N |-> <<>>]
    OBVIOUS
  <2>2. Chain(F, 0)
    BY <1>1, <2>1
  <2> QED
    BY <1>1, <2>2
<1>3. ASSUME NEW k \in 0..(N - 1), k \in Ok PROVE k + 1 \in Ok
  <2>1. PICK F : Chain(F, k)
    BY <1>3
  <2>2. PICK v : v = Append(F[k], ValueAfter(F, k + 1, con, den))
    OBVIOUS
  <2>3. PICK G : G = [i \in 0..N |-> IF i = k + 1 THEN v ELSE F[i]]
    OBVIOUS
  <2>4. /\ \A i \in 0..k : G[i] = F[i]
        /\ G[k + 1] = v /\ k + 1 \in 0..N /\ (k + 1) - 1 = k
    BY <1>1, <2>3
  <2>5. ASSUME NEW i \in 1..(k + 1)
        PROVE  G[i] = Append(G[i - 1], ValueAfter(G, i, con, den))
    <3>1. G[i - 1] = F[i - 1]
      BY <2>4
    <3>2. ValueAfter(G, i, con, den) = ValueAfter(F, i, con, den)
      BY <3>1 DEF ValueAfter
    <3>3. G[i] = Append(F[i - 1], ValueAfter(F, i, con, den))
      <4>1. CASE i = k + 1
        BY <2>2, <2>4, <4>1
      <4>2. CASE i # k + 1
        <5>1. i \in 1..k /\ i \in 0..k
          BY <4>2
        <5> QED
          BY <2>1, <2>4, <5>1, Zenon
      <4> QED
        BY <4>1, <4>2
    <3> QED
      BY <3>1, <3>2, <3>3
  <2>6. G = [i \in 0..N |-> G[i]] /\ G[0] = <<>>
    BY <2>1, <2>3, <2>4
  <2>7. Chain(G, k + 1)
    BY <2>5, <2>6
  <2> HIDE DEF Chain
  <2> QED
    BY <2>4, <2>7
<1>4. N \in Ok
  <2> HIDE DEF Ok, N
  <2>1. 0..N \subseteq Ok
    BY <1>1, <1>2, <1>3, UpTo
  <2> QED
    BY <1>1, <2>1
<1>5. PICK F : Chain(F, N)
  BY <1>4
<1>6. ASSUME NEW i \in 0..N
      PROVE  F[i] = IF i = 0 THEN <<>> ELSE Append(F[i - 1], ValueAfter(F, i, con, den))
  BY <1>1, <1>5
<1>7. IsChain(F, con, den)
  BY <1>5, <1>6, Zenon DEF IsChain
<1> QED
  BY <1>7

(* ... so that an index satisfies its equation at every session.           *)
LEMMA ChainedIs ==
  ASSUME SeriesInv, NEW con, NEW den, NEW index, index = Chained(con, den)
  PROVE  /\ DOMAIN index = DOMAIN records
         /\ \A i \in DOMAIN records :
              index[i] = IndexAfter(i, IF i = 1 THEN NoIndex ELSE index[i - 1], con[i], den[i])
<1> DEFINE N == Len(records)
           G == CHOOSE F : IsChain(F, con, den)
<1>1. index = G[N]
  BY DEF Chained, IsChain, ValueAfter
<1>2. IsChain(G, con, den)
  <2>1. \E F : IsChain(F, con, den)
    BY SomeChain
  <2> QED
    BY <2>1, Zenon
<1>3. PICK F : F = G
  OBVIOUS
<1> HIDE DEF G
<1>4. F = [i \in 0..N |-> IF i = 0 THEN <<>> ELSE Append(F[i - 1], ValueAfter(F, i, con, den))]
  BY <1>2, <1>3 DEF IsChain
<1>5. N \in Nat /\ DOMAIN records = 1..N
  BY SessionsNumbered
<1>6. F[0] = <<>> /\ \A i \in 1..N : F[i] = Append(F[i - 1], ValueAfter(F, i, con, den))
  <2>1. ASSUME NEW i \in 0..N
        PROVE  F[i] = IF i = 0 THEN <<>> ELSE Append(F[i - 1], ValueAfter(F, i, con, den))
    BY <1>4, Zenon
  <2>2. 0 \in 0..N /\ \A i \in 1..N : i \in 0..N /\ i # 0
    BY <1>5
  <2> QED
    BY <2>1, <2>2, Zenon
<1> DEFINE V == {ValueAfter(F, i, con, den) : i \in 1..N}
           Ok == {k \in 0..N : /\ F[k] \in Seq(V) /\ Len(F[k]) = k
                               /\ \A j \in 1..k : F[k][j] = F[j][j] /\ F[j][j] = ValueAfter(F, j, con, den)}
<1>7. 0 \in Ok
  <2>1. F[0] \in Seq(V) /\ Len(F[0]) = 0
    <3> HIDE DEF V
    <3> QED
      BY <1>6
  <2> QED
    BY <1>5, <2>1
<1>8. ASSUME NEW k \in 0..(N - 1), k \in Ok PROVE k + 1 \in Ok
  <2>1. PICK v \in V : v = ValueAfter(F, k + 1, con, den)
    BY <1>5
  <2>2. PICK s \in Seq(V) : s = F[k] /\ Len(s) = k
    BY <1>8
  <2>3. F[k + 1] = Append(s, v)
    <3>1. k + 1 \in 1..N /\ (k + 1) - 1 = k
      BY <1>5
    <3>2. F[k + 1] = Append(F[(k + 1) - 1], ValueAfter(F, k + 1, con, den))
      BY <1>6, <3>1, Zenon
    <3> QED
      BY <2>1, <2>2, <3>1, <3>2
  <2>4. /\ Append(s, v) \in Seq(V) /\ Len(Append(s, v)) = k + 1
        /\ \A j \in 1..k : Append(s, v)[j] = s[j]
        /\ Append(s, v)[k + 1] = v
    <3> HIDE DEF V
    <3> QED
      BY <2>2
  <2>5. ASSUME NEW j \in 1..(k + 1)
        PROVE  F[k + 1][j] = F[j][j] /\ F[j][j] = ValueAfter(F, j, con, den)
    <3>1. CASE j = k + 1
      BY <2>1, <2>3, <2>4, <3>1
    <3>2. CASE j # k + 1
      <4>1. j \in 1..k
        BY <3>2
      <4>2. F[k + 1][j] = F[k][j]
        BY <2>2, <2>3, <2>4, <4>1
      <4> QED
        BY <1>8, <4>1, <4>2
    <3> QED
      BY <3>1, <3>2
  <2> HIDE DEF V
  <2>6. k + 1 \in 0..N
    BY <1>5
  <2> QED
    BY <2>3, <2>4, <2>5, <2>6
<1>9. N \in Ok
  <2> HIDE DEF Ok, N
  <2>1. 0..N \subseteq Ok
    BY <1>5, <1>7, <1>8, UpTo
  <2> QED
    BY <1>5, <2>1
<1>10. /\ index \in Seq(V) /\ Len(index) = N
       /\ \A j \in 1..N : index[j] = F[j][j] /\ F[j][j] = ValueAfter(F, j, con, den)
  BY <1>1, <1>3, <1>9
<1>11. DOMAIN index = 1..N
  <2> HIDE DEF V
  <2> QED
    BY <1>10
<1>12. ASSUME NEW i \in 1..N
       PROVE  index[i] = IndexAfter(i, IF i = 1 THEN NoIndex ELSE index[i - 1], con[i], den[i])
  <2>1. i # 1 => index[i - 1] = F[i - 1][i - 1]
    BY <1>5, <1>10
  <2> QED
    BY <1>10, <2>1 DEF ValueAfter
<1> QED
  BY <1>5, <1>11, <1>12

-----------------------------------------------------------------------------
(* An index over the sessions, with denominators where one may be used.    *)
IsIndex(index, con, den) ==
  /\ DOMAIN index = DOMAIN records
  /\ \A i \in DOMAIN records :
       /\ index[i] = IndexAfter(i, IF i = 1 THEN NoIndex ELSE index[i - 1], con[i], den[i])
       /\ HasPoint(i) /\ Earlier(i) # {} => den[i] \in Int

(* The point before a session with a point, which the value before is of.  *)
LEMMA Carried ==
  ASSUME SeriesInv, NEW index, NEW con, NEW den, IsIndex(index, con, den),
         NEW i \in Points, Earlier(i) # {}, NEW p, p = Previous(i)
  PROVE  i # 1 /\ p \in Points /\ p < i /\ index[i - 1] = index[p]
<1>1. i \in 1..Len(records) /\ i \in Nat /\ Len(records) \in Nat /\ DOMAIN records = 1..Len(records)
  BY SessionsNumbered
<1>2. p \in 1..(i - 1) /\ HasPoint(p) /\ \A j \in 1..(i - 1) : HasPoint(j) => j <= p
  BY <1>1, PreviousIs
<1>3. p \in Points
  BY <1>1, <1>2 DEF Points
<1> DEFINE n == i - 1 - p
           Same == {k \in 0..n : index[p + k] = index[p]}
<1>4. n \in Nat /\ 0 \in Same
  BY <1>1, <1>2
<1>5. ASSUME NEW k \in 0..(n - 1), k \in Same PROVE k + 1 \in Same
  <2>1. PICK j : j = p + k + 1
    OBVIOUS
  <2>2. j \in 1..(i - 1) /\ j \in DOMAIN records /\ ~HasPoint(j) /\ j # 1 /\ j - 1 = p + k
    BY <1>1, <1>2, <2>1
  <2>3. index[j] = index[j - 1]
    BY <2>2 DEF IsIndex, IndexAfter
  <2>4. k + 1 \in 0..n /\ p + (k + 1) = j
    BY <1>1, <1>2, <2>1
  <2> QED
    BY <1>5, <2>2, <2>3, <2>4
<1>6. n \in Same
  <2> HIDE DEF n, Same
  <2>1. 0..n \subseteq Same
    BY <1>4, <1>5, UpTo
  <2> QED
    BY <1>4, <2>1
<1>7. p + n = i - 1
  BY <1>1, <1>2
<1> QED
  BY <1>1, <1>2, <1>3, <1>6, <1>7

(* A value is missing or a fraction of integers.                           *)
LEMMA IndexTyped ==
  ASSUME SeriesInv, NEW index, NEW con, NEW den, IsIndex(index, con, den)
  PROVE  \A i \in DOMAIN records : index[i] # NoIndex => index[i] \in Int \X Int
<1>1. Len(records) \in Nat /\ DOMAIN records = 1..Len(records)
  BY SessionsNumbered
<1> DEFINE N == Len(records)
           Typed(i) == index[i] # NoIndex => index[i] \in Int \X Int
           Ok == {k \in 0..N : k # 0 => Typed(k)}
<1>2. ASSUME NEW k \in 0..(N - 1), k \in Ok PROVE k + 1 \in Ok
  <2>1. PICK i : i = k + 1
    OBVIOUS
  <2>2. i \in DOMAIN records /\ i - 1 = k /\ (i # 1 => k # 0) /\ i \in 0..N
    BY <1>1, <2>1
  <2>3. PICK last : last = IF i = 1 THEN NoIndex ELSE index[i - 1]
    OBVIOUS
  <2>4. last # NoIndex => last \in Int \X Int
    BY <1>2, <2>2, <2>3
  <2>5. index[i] = IndexAfter(i, last, con[i], den[i])
    BY <2>2, <2>3 DEF IsIndex
  <2>6. CASE ~HasPoint(i)
    BY <2>1, <2>2, <2>4, <2>5, <2>6 DEF IndexAfter
  <2>7. CASE HasPoint(i)
    <3>1. Price(Held(i), i) \in Int
      BY <2>2, <2>7, PricesTyped DEF HasPoint
    <3>2. Earlier(i) # {} => den[i] \in Int
      BY <2>2, <2>7 DEF IsIndex
    <3>3. \/ index[i] = NoIndex \/ index[i] = <<1, 1>>
          \/ /\ Earlier(i) # {} /\ last # NoIndex
             /\ index[i] = <<last[1] * Price(Held(i), i), last[2] * den[i]>>
      BY <2>5, <2>7, Zenon DEF IndexAfter
    <3>4. <<1, 1>> \in Int \X Int
      OBVIOUS
    <3> QED
      BY <2>1, <2>2, <2>4, <3>1, <3>2, <3>3, <3>4
  <2> QED
    BY <2>6, <2>7
<1>3. 0..N \subseteq Ok
  <2>1. 0 \in Ok
    BY <1>1
  <2> HIDE DEF Ok, N
  <2>2. N \in Nat
    BY <1>1 DEF N
  <2> QED
    BY <1>2, <2>1, <2>2, UpTo
<1> QED
  BY <1>1, <1>3

(* What a value that is there says of the session and of the point before. *)
LEMMA Linked ==
  ASSUME SeriesInv, NEW index, NEW con, NEW den, IsIndex(index, con, den),
         NEW i \in Points, index[i] # NoIndex
  PROVE  /\ Price(Held(i), i) \in Int /\ Price(Held(i), i) > 0
         /\ Earlier(i) = {} => index[i] = <<1, 1>>
         /\ Earlier(i) # {} =>
              /\ con[i]
              /\ index[Previous(i)] = NoIndex => index[i] = <<1, 1>>
              /\ index[Previous(i)] # NoIndex =>
                   /\ den[i] \in Int /\ den[i] > 0
                   /\ index[i] = <<index[Previous(i)][1] * Price(Held(i), i),
                                   index[Previous(i)][2] * den[i]>>
<1>1. HasPoint(i) /\ i \in DOMAIN records
  BY DEF Points
<1>2. Price(Held(i), i) \in Int
  BY <1>1, PricesTyped DEF HasPoint
<1>3. PICK last : last = IF i = 1 THEN NoIndex ELSE index[i - 1]
  OBVIOUS
<1>4. index[i] = IndexAfter(i, last, con[i], den[i])
  BY <1>1, <1>3 DEF IsIndex
<1>5. /\ ~(Price(Held(i), i) <= 0)
      /\ Earlier(i) = {} => index[i] = <<1, 1>>
      /\ Earlier(i) # {} =>
           /\ con[i]
           /\ last = NoIndex => index[i] = <<1, 1>>
           /\ last # NoIndex =>
                ~(den[i] <= 0) /\ index[i] = <<last[1] * Price(Held(i), i), last[2] * den[i]>>
  BY <1>1, <1>4, Zenon DEF IndexAfter
<1>6. Earlier(i) # {} => den[i] \in Int /\ last = index[Previous(i)]
  BY <1>1, <1>3, Carried DEF IsIndex
<1> QED
  BY <1>2, <1>5, <1>6

(* The index that is stored: consecutive sessions, settlements of one      *)
(* contract.                                                               *)
LEMMA StoredIsIndex ==
  ASSUME SeriesInv
  PROVE  \E con, den : /\ IsIndex(ReturnIndex, con, den)
                       /\ \A i \in Points : con[i] = Consecutive(i) /\ den[i] = Denominator(i)
<1> DEFINE c == [i \in DOMAIN records |-> Consecutive(i)]
           d == [i \in DOMAIN records |-> Denominator(i)]
<1>1. PICK con : con = c
  OBVIOUS
<1>2. PICK den : den = d
  OBVIOUS
<1>3. PICK index : index = ReturnIndex /\ index = Chained(con, den)
  BY <1>1, <1>2 DEF ReturnIndex
<1>4. \A i \in DOMAIN records : con[i] = Consecutive(i) /\ den[i] = Denominator(i)
  BY <1>1, <1>2
<1> HIDE DEF c, d
<1>5. ASSUME NEW i \in DOMAIN records, HasPoint(i), Earlier(i) # {} PROVE den[i] \in Int
  <2>1. i \in Nat /\ i \in 1..Len(records) /\ Len(records) \in Nat /\ DOMAIN records = 1..Len(records)
    BY SessionsNumbered
  <2>2. Previous(i) \in DOMAIN records
    BY <1>5, <2>1, PreviousIs
  <2>3. Quoted(Held(i), Previous(i)) => Price(Held(i), Previous(i)) \in Int
    BY <2>2, PricesTyped
  <2> QED
    BY <1>4, <2>3 DEF Denominator
<1>6. IsIndex(index, con, den)
  <2>1. /\ DOMAIN index = DOMAIN records
        /\ \A i \in DOMAIN records :
             index[i] = IndexAfter(i, IF i = 1 THEN NoIndex ELSE index[i - 1], con[i], den[i])
    BY <1>3, ChainedIs
  <2> QED
    BY <1>5, <2>1 DEF IsIndex
<1> QED
  BY <1>3, <1>4, <1>6 DEF Points

(* The index grows from one point to the next as the contract held then.   *)
Grew(index, i, j, code) ==
  index[j][1] * index[i][2] * Price(code, i) = index[i][1] * index[j][2] * Price(code, j)

(* Growth over two parts multiplies, the value between them not being      *)
(* zero.                                                                   *)
LEMMA Products ==
  ASSUME NEW a \in Int, NEW b \in Int, NEW c \in Int, NEW d \in Int,
         NEW p \in Int, NEW q \in Int, NEW r \in Int,
         c * b * p = a * d * q
  PROVE  (c * r) * b * p = a * (d * q) * r
<1>1. (c * r) * b * p = r * (c * b * p)
  OBVIOUS
<1>2. a * (d * q) * r = r * (a * d * q)
  OBVIOUS
<1> QED
  BY <1>1, <1>2

(* ... and over a stretch of points that hold one contract.                *)
LEMMA GrownOver ==
  ASSUME SeriesInv, NEW index, NEW con, NEW den, IsIndex(index, con, den),
         NEW i \in Points, NEW code \in Contracts, index[i] # NoIndex, Held(i) = code,
         NEW j \in Points, i < j,
         \A k \in Points : i < k /\ k <= j =>
           /\ index[k] # NoIndex /\ Held(k) = code
           /\ den[k] > 0 => den[k] = Price(code, Previous(k))
  PROVE  Grew(index, i, j, code)
<1>1. /\ Len(records) \in Nat /\ DOMAIN records = 1..Len(records)
      /\ i \in 1..Len(records) /\ j \in 1..Len(records) /\ i \in Nat /\ j \in Nat
  BY SessionsNumbered
<1> DEFINE N == j
           Ok == {k \in 0..N : \A q \in Points : i <= q /\ q <= k => Grew(index, i, q, code)}
<1>2. 0 \in Ok
  BY <1>1
<1>3. ASSUME NEW k \in 0..(N - 1), k \in Ok PROVE k + 1 \in Ok
  <2>1. PICK q : q = k + 1
    OBVIOUS
  <2>2. q \in 0..N /\ q \in Nat
    BY <1>1, <2>1
  <2>3. ASSUME q \in Points, i <= q PROVE Grew(index, i, q, code)
    <3>1. CASE q = i
      <4>1. index[i] \in Int \X Int /\ Price(code, i) \in Int
        BY <1>1, IndexTyped, PricesTyped
      <4>2. PICK a, b \in Int : index[i] = <<a, b>>
        BY <4>1
      <4>3. index[i][1] = a /\ index[i][2] = b
        BY <4>2
      <4>4. a * b * Price(code, i) = a * b * Price(code, i)
        OBVIOUS
      <4> QED
        BY <3>1, <4>3 DEF Grew
    <3>2. CASE i < q
      <4>1. PICK p : p = Previous(q)
        OBVIOUS
      <4>2. i \in Earlier(q)
        BY <1>1, <2>2, <3>2 DEF Earlier, Points
      <4>3. p \in Points /\ p < q /\ i <= p
        BY <1>1, <2>2, <2>3, <3>2, <4>1, <4>2, Carried, PreviousIs, SessionsNumbered DEF Earlier
      <4>4. p \in 1..Len(records) /\ p <= k /\ p \in Nat
        BY <4>3, <2>1, <2>2, SessionsNumbered
      <4>5. Grew(index, i, p, code)
        BY <1>3, <4>3, <4>4
      <4>6. index[q] # NoIndex /\ index[p] # NoIndex /\ Held(q) = code
        <5>1. p <= j /\ q <= j
          BY <1>1, <2>2, <4>4, <4>3
        <5>2. p = i \/ i < p
          BY <4>3, <4>4, <1>1
        <5> QED
          BY <2>3, <3>2, <4>3, <5>1, <5>2
      <4>7. /\ den[q] \in Int /\ den[q] > 0
            /\ index[q] = <<index[p][1] * Price(code, q), index[p][2] * den[q]>>
        BY <2>3, <4>1, <4>2, <4>6, Linked
      <4>8. den[q] = Price(code, p)
        BY <1>1, <2>2, <2>3, <3>2, <4>1, <4>7
      <4>9. /\ index[i] \in Int \X Int /\ index[p] \in Int \X Int
            /\ Price(code, i) \in Int /\ Price(code, p) \in Int /\ Price(code, q) \in Int
        BY <1>1, <2>3, <4>4, <4>6, IndexTyped, PricesTyped DEF Points
      <4>10. PICK a \in Int, b \in Int : index[i][1] = a /\ index[i][2] = b
        BY <4>9
      <4>11. PICK c \in Int, d \in Int : index[p][1] = c /\ index[p][2] = d
        BY <4>9
      <4>12. index[q][1] = c * Price(code, q) /\ index[q][2] = d * Price(code, p)
        BY <4>7, <4>8, <4>11
      <4>13. c * b * Price(code, i) = a * d * Price(code, p)
        BY <4>5, <4>10, <4>11 DEF Grew
      <4>14. (c * Price(code, q)) * b * Price(code, i) = a * (d * Price(code, p)) * Price(code, q)
        BY <4>9, <4>13, Products
      <4> QED
        BY <4>10, <4>12, <4>14 DEF Grew
    <3> QED
      BY <1>1, <2>2, <2>3, <3>1, <3>2
  <2>4. \A r \in Points : r <= q => r <= k \/ r = q
    BY <2>1, <2>2, SessionsNumbered
  <2> QED
    BY <1>3, <2>1, <2>2, <2>3, <2>4
<1>4. 0..N \subseteq Ok
  <2> HIDE DEF Ok
  <2> QED
    BY <1>1, <1>2, <1>3, UpTo
<1> QED
  BY <1>1, <1>4

-----------------------------------------------------------------------------
(* Two sessions of an unbroken stretch that follow one another.            *)
LEMMA NightOf ==
  ASSUME SeriesInv, NEW index, index = ReturnIndex, NEW k \in Points, k + 1 \in Points,
         index[k] # NoIndex, index[k + 1] # NoIndex
  PROVE  /\ NextTradingDay(expanded[k].date) = expanded[k + 1].date
         /\ Grew(index, k, k + 1, Held(k + 1))
<1>1. PICK con, den : /\ IsIndex(index, con, den)
                      /\ \A i \in Points : con[i] = Consecutive(i) /\ den[i] = Denominator(i)
  BY StoredIsIndex
<1>2. PICK q : q = k + 1
  OBVIOUS
<1>3. k \in Nat /\ q \in Nat /\ q \in Points /\ HasPoint(k) /\ k \in DOMAIN records /\ q \in DOMAIN records
  BY <1>2, SessionsNumbered DEF Points
<1>4. Earlier(q) # {} /\ Previous(q) = k
  <2>1. k \in 1..(q - 1) /\ \A j \in (k + 1)..(q - 1) : ~HasPoint(j)
    BY <1>2, <1>3, SessionsNumbered
  <2> QED
    BY <1>3, <2>1, PreviousWhere
<1>5. /\ Consecutive(q)
      /\ Denominator(q) \in Int /\ Denominator(q) > 0
      /\ index[q] = <<index[k][1] * Price(Held(q), q), index[k][2] * Denominator(q)>>
  BY <1>1, <1>2, <1>3, <1>4, Linked
<1>6. Denominator(q) = Price(Held(q), k)
  BY <1>4, <1>5 DEF Denominator
<1>7. /\ index[k] \in Int \X Int
      /\ Price(Held(q), k) \in Int /\ Price(Held(q), q) \in Int
  <2>1. Held(q) \in Contracts
    BY <1>3, PricesTyped DEF Points, HasPoint
  <2> QED
    BY <1>1, <1>3, <2>1, IndexTyped, PricesTyped
<1>8. PICK a \in Int, b \in Int : index[k][1] = a /\ index[k][2] = b
  BY <1>7
<1>9. PICK p \in Int, r \in Int : p = Price(Held(q), k) /\ r = Price(Held(q), q)
  BY <1>7
<1>10. index[q][1] = a * r /\ index[q][2] = b * p
  BY <1>5, <1>6, <1>8, <1>9
<1>11. (a * r) * b * p = a * (b * p) * r
  OBVIOUS
<1>12. Grew(index, k, q, Held(q))
  BY <1>8, <1>9, <1>10, <1>11 DEF Grew
<1>13. NextTradingDay(expanded[k].date) = expanded[q].date
  BY <1>4, <1>5 DEF Consecutive
<1> QED
  BY <1>2, <1>12, <1>13

(* A stretch starts at 100.                                                *)
LEMMA StretchStarts ==
  ASSUME SeriesInv, OnCalendar, NEW index, index = ReturnIndex, NEW i \in Points, index[i] # NoIndex,
         i = 1 \/ i - 1 \notin Points \/ index[i - 1] = NoIndex
  PROVE  index[i] = <<1, 1>>
<1>1. PICK con, den : /\ IsIndex(index, con, den)
                      /\ \A k \in Points : con[k] = Consecutive(k) /\ den[k] = Denominator(k)
  BY StoredIsIndex
<1>2. /\ i \in Nat /\ i \in 1..Len(records) /\ Len(records) \in Nat
      /\ DOMAIN records = 1..Len(records)
  BY SessionsNumbered
<1>3. CASE Earlier(i) = {}
  BY <1>1, <1>3, Linked
<1>4. CASE Earlier(i) # {}
  <2>1. PICK p : p = Previous(i)
    OBVIOUS
  <2>2. i # 1 /\ p \in Points /\ p < i /\ index[i - 1] = index[p] /\ p \in 1..(i - 1)
    BY <1>1, <1>2, <1>4, <2>1, Carried, PreviousIs
  <2>3. CASE index[i - 1] = NoIndex
    BY <1>1, <1>4, <2>1, <2>2, <2>3, Linked
  <2>4. CASE i - 1 \notin Points
    <3>1. p # i - 1 /\ p < i - 1 /\ i - 1 \in DOMAIN records /\ i - 1 > 1 /\ p \in DOMAIN records
      BY <1>2, <2>2, <2>4
    <3>2. /\ expanded[p].date \in Days /\ expanded[i - 1].date \in TradingDays
          /\ expanded[p].date < expanded[i - 1].date /\ expanded[i - 1].date < expanded[i].date
      <4>1. p \in 1..((i - 1) - 1) /\ i - 1 \in 1..(i - 1)
        BY <1>2, <2>2, <3>1
      <4> QED
        BY <1>2, <3>1, <4>1 DEF SeriesInv, Dated
    <3>3. Consecutive(i)
      BY <1>1, <1>4, Linked
    <3>4. NextTradingDay(expanded[p].date) = expanded[i].date
      BY <2>1, <3>3 DEF Consecutive
    <3>5. NextTradingDay(expanded[p].date) <= expanded[i - 1].date
      BY <3>2, CalendarAssumption DEF NextTradingDay, Days
    <3>6. expanded[i - 1].date \in Nat /\ expanded[i].date \in Nat
      BY <1>2, <3>1, CalendarAssumption DEF SeriesInv, Dated, Days
    <3> QED
      BY <3>2, <3>4, <3>5, <3>6
  <2> QED
    BY <2>2, <2>3, <2>4
<1> QED
  BY <1>3, <1>4

(* A stretch of the stored index is chained (research_returns.py 26-31).   *)
LEMMA IndexChains == SeriesInv /\ OnCalendar => ReturnIndexChains
<1> SUFFICES ASSUME SeriesInv, OnCalendar PROVE ReturnIndexChains
  OBVIOUS
<1>1. PICK index : index = ReturnIndex
  OBVIOUS
<1>2. PICK con, den : /\ IsIndex(index, con, den)
                      /\ \A k \in Points : con[k] = Consecutive(k) /\ den[k] = Denominator(k)
  BY <1>1, StoredIsIndex
<1> DEFINE broken(k) == ~HasPoint(k) \/ index[k] = NoIndex
<1>3. ASSUME NEW i \in DOMAIN records, NEW j \in DOMAIN records, i < j, \A k \in i..j : ~broken(k)
      PROVE  /\ \A k \in i..(j - 1) : NextTradingDay(expanded[k].date) = expanded[k + 1].date
             /\ \A k \in i..j : Price(Held(k), k) > 0
             /\ j = i + 1 \/ (\A k \in i..j : Held(k) = Held(i)) => Grew(index, i, j, Held(j))
             /\ (i = 1 \/ broken(i - 1)) => index[i] = <<1, 1>>
  <2>1. /\ Len(records) \in Nat /\ DOMAIN records = 1..Len(records)
        /\ i \in 1..Len(records) /\ j \in 1..Len(records)
    BY SessionsNumbered
  <2>2. \A k \in i..j : k \in Points /\ index[k] # NoIndex /\ HasPoint(k)
    BY <1>3, <2>1 DEF Points
  <2>3. i \in Points /\ j \in Points /\ i \in i..j /\ j \in i..j
    BY <1>3, <2>1, <2>2
  <2>4. ASSUME NEW k \in i..(j - 1)
        PROVE  /\ NextTradingDay(expanded[k].date) = expanded[k + 1].date
               /\ Grew(index, k, k + 1, Held(k + 1))
    <3>1. k \in i..j /\ k + 1 \in i..j
      BY <2>1
    <3> HIDE DEF broken
    <3> QED
      BY <1>1, <2>2, <3>1, NightOf
  <2>5. ASSUME NEW k \in i..j PROVE Price(Held(k), k) > 0
    BY <1>2, <2>2, Linked
  <2>6. ASSUME j = i + 1 PROVE Grew(index, i, j, Held(j))
    <3>1. i \in i..(j - 1)
      BY <2>1, <2>6
    <3>2. Grew(index, i, i + 1, Held(i + 1))
      BY <2>4, <3>1
    <3> QED
      BY <2>6, <3>2
  <2>7. ASSUME \A k \in i..j : Held(k) = Held(i)
        PROVE  Grew(index, i, j, Held(j))
    <3>1. PICK code : code = Held(i)
      OBVIOUS
    <3>2. code \in Contracts /\ Held(j) = code
      BY <2>2, <2>3, <2>7, <3>1, PricesTyped DEF HasPoint
    <3>3. ASSUME NEW k \in Points, i < k, k <= j
          PROVE  /\ index[k] # NoIndex /\ Held(k) = code
                 /\ den[k] > 0 => den[k] = Price(code, Previous(k))
      <4>1. k \in i..j
        BY <2>1, <3>3, SessionsNumbered
      <4>2. index[k] # NoIndex /\ Held(k) = code
        BY <2>2, <2>7, <3>1, <4>1
      <4>3. den[k] = IF Quoted(code, Previous(k)) THEN Price(code, Previous(k)) ELSE 0
        BY <1>2, <4>2 DEF Denominator
      <4> QED
        BY <4>2, <4>3
    <3>4. index[i] # NoIndex
      BY <2>2, <2>3
    <3> HIDE DEF broken
    <3> QED
      BY <1>2, <1>3, <2>3, <3>1, <3>2, <3>3, <3>4, GrownOver
  <2>8. ASSUME i = 1 \/ broken(i - 1) PROVE index[i] = <<1, 1>>
    <3>1. i - 1 \in Points => HasPoint(i - 1)
      BY DEF Points
    <3>2. i = 1 \/ i - 1 \notin Points \/ index[i - 1] = NoIndex
      BY <2>8, <3>1
    <3> HIDE DEF broken
    <3> QED
      BY <1>1, <2>2, <2>3, <3>2, StretchStarts
  <2> QED
    BY <2>4, <2>5, <2>6, <2>7, <2>8
<1> QED
  BY <1>1, <1>3 DEF ReturnIndexChains, Grew

(* Within an unbroken stretch the return index grows as the contract held, *)
(* one exchange night at a time (research_returns.py 10-42).               *)
THEOREM ReturnIndexIsChained == ASSUME OnCalendar PROVE Spec => []ReturnIndexChains
<1>1. SeriesInv => ReturnIndexChains
  BY IndexChains
<1> QED
  BY <1>1, SeriesInvariant, PTL

-----------------------------------------------------------------------------
(* The window of a label.                                                  *)

(* The ends of a bounded set of naturals.                                  *)
LEMMA Ends ==
  ASSUME NEW S \in SUBSET Nat, S # {}, NEW b \in Nat, \A s \in S : s <= b
  PROVE  /\ Max(S) \in S /\ Min(S) \in S
         /\ \A s \in S : Min(S) <= s /\ s <= Max(S)
<1>1. PICK m \in S : \A s \in S : s <= m
  BY Greatest
<1>2. Max(S) \in S /\ \A s \in S : s <= Max(S)
  BY <1>1 DEF Max
<1> DEFINE T == {b - s : s \in S}
<1>3. T \in SUBSET Nat /\ T # {} /\ \A t \in T : t <= b
  OBVIOUS
<1>4. PICK t \in T : \A u \in T : u <= t
  BY <1>3, Greatest
<1>5. PICK l \in S : t = b - l
  OBVIOUS
<1>6. ASSUME NEW s \in S PROVE l <= s
  <2>1. b - s \in T
    OBVIOUS
  <2>2. b - s <= b - l
    BY <1>4, <1>5, <2>1
  <2> QED
    BY <2>2
<1>7. Min(S) \in S /\ \A s \in S : Min(S) <= s
  BY <1>5, <1>6 DEF Min
<1> QED
  BY <1>2, <1>7

(* The points after a signal, and those of them up to session i.           *)
After(signal) == {i \in Points : signal < i}
UpToSession(signal, i) == {j \in After(signal) : j <= i}

(* There are finitely many of them.                                        *)
LEMMA AfterCounted ==
  ASSUME SeriesInv, NEW signal \in Points
  PROVE  /\ After(signal) \in SUBSET Nat /\ \A i \in After(signal) : i <= Len(records)
         /\ IsFiniteSet(After(signal)) /\ Len(records) \in Nat
         /\ \A i : /\ IsFiniteSet(UpToSession(signal, i)) /\ UpToSession(signal, i) \subseteq After(signal)
                   /\ Cardinality(UpToSession(signal, i)) \in Nat
<1>1. /\ After(signal) \in SUBSET Nat /\ \A i \in After(signal) : i <= Len(records)
      /\ Len(records) \in Nat
  BY SessionsNumbered DEF After
<1>2. IsFiniteSet(After(signal))
  BY <1>1, FS_BoundedSetOfNaturals
<1>3. ASSUME NEW i
      PROVE  /\ IsFiniteSet(UpToSession(signal, i)) /\ UpToSession(signal, i) \subseteq After(signal)
             /\ Cardinality(UpToSession(signal, i)) \in Nat
  <2>1. UpToSession(signal, i) \in SUBSET After(signal)
    BY DEF UpToSession
  <2> QED
    BY <1>2, <2>1, FS_Subset, FS_CardinalityType
<1> QED
  BY <1>1, <1>2, <1>3

(* A label's window: points that follow the signal and one another.        *)
LEMMA WindowIs ==
  ASSUME SeriesInv, NEW signal \in Points, NEW horizon \in Horizons,
         NEW window, window = LabelWindow(signal, horizon), window # {},
         NEW start, start = Min(window), NEW end, end = Max(window)
  PROVE  /\ start \in window /\ end \in window /\ window \subseteq After(signal)
         /\ \A i \in window : start <= i /\ i <= end
         /\ window = UpToSession(signal, end)
         /\ \A i \in window : Cardinality(UpToSession(signal, i)) <= horizon + 1
         /\ Earlier(start) # {} /\ Previous(start) = signal
         /\ \A i \in window : i # start =>
              Earlier(i) # {} /\ Previous(i) \in window /\ Previous(i) < i
<1>1. /\ window \subseteq After(signal)
      /\ \A i \in window : Cardinality(UpToSession(signal, i)) <= horizon + 1
      /\ \A i \in After(signal) : Cardinality(UpToSession(signal, i)) <= horizon + 1 => i \in window
  BY DEF LabelWindow, After, UpToSession
<1>2. horizon \in Nat
  BY ResearchAssumption
<1>3. window \in SUBSET Nat /\ \A i \in window : i <= Len(records)
  BY <1>1, AfterCounted
<1>4. start \in window /\ end \in window /\ \A i \in window : start <= i /\ i <= end
  BY <1>3, AfterCounted, Ends
<1>5. ASSUME NEW i \in window, NEW j \in After(signal), j <= i PROVE j \in window
  <2>1. i \in Nat /\ j \in Nat
    BY <1>3, AfterCounted
  <2>2. UpToSession(signal, j) \in SUBSET UpToSession(signal, i)
    <3>1. ASSUME NEW k \in UpToSession(signal, j) PROVE k \in UpToSession(signal, i)
      <4>1. k \in After(signal) /\ k \in Nat /\ k <= j
        BY AfterCounted DEF UpToSession
      <4> QED
        BY <1>5, <2>1, <4>1 DEF UpToSession
    <3> QED
      BY <3>1
  <2>3. Cardinality(UpToSession(signal, j)) <= Cardinality(UpToSession(signal, i))
    BY <2>2, AfterCounted, FS_Subset
  <2>4. /\ Cardinality(UpToSession(signal, j)) \in Nat /\ Cardinality(UpToSession(signal, i)) \in Nat
        /\ Cardinality(UpToSession(signal, i)) <= horizon + 1
    BY <1>1, AfterCounted
  <2> QED
    BY <1>1, <1>2, <2>3, <2>4
<1>6. window = UpToSession(signal, end)
  BY <1>1, <1>4, <1>5 DEF UpToSession
<1>7. ASSUME NEW i \in window
      PROVE  /\ Earlier(i) # {} /\ Previous(i) < i
             /\ IF i = start THEN Previous(i) = signal ELSE Previous(i) \in window
  <2>1. /\ i \in Nat /\ i \in Points /\ signal < i /\ signal \in Nat /\ HasPoint(signal) /\ signal \in 1..Len(records)
        /\ Len(records) \in Nat /\ i <= Len(records) /\ DOMAIN records = 1..Len(records)
    BY <1>1, <1>3, SessionsNumbered DEF After
  <2>2. signal \in 1..(i - 1)
    BY <2>1
  <2>3. Earlier(i) # {}
    BY <2>1, <2>2 DEF Earlier
  <2>4. PICK p : p = Previous(i)
    OBVIOUS
  <2>5. p \in 1..(i - 1) /\ HasPoint(p) /\ \A j \in 1..(i - 1) : HasPoint(j) => j <= p
    BY <2>1, <2>3, <2>4, PreviousIs
  <2>6. p \in Points /\ signal <= p /\ p < i /\ p \in Nat
    BY <2>1, <2>2, <2>5 DEF Points
  <2>7. p = signal \/ p \in window
    <3>1. p # signal => p \in After(signal)
      BY <2>1, <2>6 DEF After
    <3> QED
      BY <1>5, <2>1, <2>6, <3>1
  <2>8. CASE i = start
    <3>1. p \notin window
      BY <1>3, <1>4, <2>1, <2>6, <2>8
    <3> QED
      BY <2>3, <2>4, <2>6, <2>7, <2>8, <3>1
  <2>9. CASE i # start
    <3>1. start \in Points /\ start < i /\ start \in Nat /\ signal < start
      BY <1>1, <1>3, <1>4, <2>1, <2>9 DEF After
    <3>2. start \in 1..(i - 1) /\ HasPoint(start)
      BY <2>1, <3>1, SessionsNumbered DEF Points
    <3>3. start <= p
      BY <2>5, <3>2
    <3> QED
      BY <2>1, <2>3, <2>4, <2>6, <2>7, <2>9, <3>1, <3>3
  <2> QED
    BY <2>8, <2>9
<1> QED
  BY <1>1, <1>4, <1>6, <1>7
-----------------------------------------------------------------------------
(* Trading days after day, up to d.                                        *)
TradedUpTo(day, d) == {e \in TradingDays : day < e /\ e <= d}

(* They are finitely many.                                                 *)
LEMMA TradedCounted ==
  ASSUME NEW day \in Nat, NEW d \in Nat
  PROVE  IsFiniteSet(TradedUpTo(day, d)) /\ Cardinality(TradedUpTo(day, d)) \in Nat
<1>1. TradedUpTo(day, d) \in SUBSET Nat /\ \A e \in TradedUpTo(day, d) : e <= d
  BY CalendarAssumption DEF TradedUpTo
<1> QED
  BY <1>1, FS_BoundedSetOfNaturals, FS_CardinalityType

(* One trading day more.                                                   *)
LEMMA TradedNext ==
  ASSUME NEW day \in Nat, NEW d \in Days, day <= d, NEW e, e = NextTradingDay(d)
  PROVE  /\ e \in TradingDays /\ e \in Nat /\ d < e
         /\ TradedUpTo(day, e) = TradedUpTo(day, d) \union {e}
<1>1. e \in TradingDays /\ e \in Nat /\ d < e /\ d \in Nat
  BY NextIsTradingDay, NextTradingDayLater, CalendarAssumption DEF Days
<1>2. \A u \in TradingDays : u \in Nat /\ (u > d => e <= u)
  BY CalendarAssumption DEF NextTradingDay
<1>3. ASSUME NEW u \in TradingDays
      PROVE  (day < u /\ u <= e) <=> ((day < u /\ u <= d) \/ u = e)
  BY <1>1, <1>2
<1> QED
  BY <1>1, <1>3 DEF TradedUpTo

(* The sessions of an unbroken window are all trading days after signal.   *)
LEMMA WindowTraded ==
  ASSUME SeriesInv, NEW signal \in Points, NEW horizon \in Horizons,
         NEW window, window = LabelWindow(signal, horizon), window # {},
         \A i \in window : Consecutive(i)
  PROVE  \A i \in window :
           TradedUpTo(expanded[signal].date, expanded[i].date)
             = {expanded[j].date : j \in UpToSession(signal, i)}
<1> DEFINE day == expanded[signal].date
           Dates(i) == {expanded[j].date : j \in UpToSession(signal, i)}
           Ok == {k \in 0..Len(records) : \A i \in window : i <= k => TradedUpTo(day, expanded[i].date) = Dates(i)}
<1>1. PICK start, end : start = Min(window) /\ end = Max(window)
  OBVIOUS
<1>2. /\ start \in window /\ end \in window /\ window \subseteq After(signal)
      /\ \A i \in window : start <= i /\ i <= end
      /\ window = UpToSession(signal, end)
      /\ Earlier(start) # {} /\ Previous(start) = signal
      /\ \A i \in window : i # start =>
           Earlier(i) # {} /\ Previous(i) \in window /\ Previous(i) < i
  BY <1>1, WindowIs
<1>3. /\ Len(records) \in Nat /\ DOMAIN records = 1..Len(records) /\ signal \in Nat
      /\ \A i \in window : i \in 1..Len(records) /\ i \in Nat /\ signal < i
  BY <1>2, SessionsNumbered DEF After
<1>4. \A i \in DOMAIN records : expanded[i].date \in Days /\ expanded[i].date \in Nat
  BY CalendarAssumption DEF SeriesInv, Dated, Days
<1>5. 0 \in Ok
  BY <1>3
<1>6. ASSUME NEW k \in 0..(Len(records) - 1), k \in Ok PROVE k + 1 \in Ok
  <2>1. PICK i : i = k + 1
    OBVIOUS
  <2>2. ASSUME i \in window PROVE TradedUpTo(day, expanded[i].date) = Dates(i)
    <3>1. PICK p : p = Previous(i)
      OBVIOUS
    <3>2. Earlier(i) # {}
      BY <1>2, <2>2
    <3>3. /\ p \in Points /\ p < i /\ signal <= p /\ p \in 1..Len(records)
          /\ \A j \in 1..(i - 1) : HasPoint(j) => j <= p
      <4>1. p \in 1..(i - 1) /\ HasPoint(p) /\ \A j \in 1..(i - 1) : HasPoint(j) => j <= p
        BY <1>3, <2>2, <3>1, <3>2, PreviousIs
      <4>2. p = signal \/ p \in window
        BY <1>2, <2>2, <3>1
      <4> QED
        BY <1>3, <2>2, <4>1, <4>2 DEF Points
    <3>4. NextTradingDay(expanded[p].date) = expanded[i].date
      BY <2>2, <3>1 DEF Consecutive
    <3>5. day \in Nat /\ expanded[p].date \in Days /\ day <= expanded[p].date
      <4>1. signal \in DOMAIN records /\ p \in DOMAIN records
        BY <1>3, <3>3 DEF Points
      <4>2. day \in Nat /\ expanded[p].date \in Nat
        BY <1>4, <4>1
      <4>3. signal # p => signal \in 1..(p - 1)
        BY <1>3, <3>3, <4>1
      <4> QED
        BY <1>4, <4>1, <4>2, <4>3 DEF SeriesInv, Dated
    <3>6. TradedUpTo(day, expanded[i].date) = TradedUpTo(day, expanded[p].date) \union {expanded[i].date}
      BY <3>4, <3>5, TradedNext
    <3>7. UpToSession(signal, i) = UpToSession(signal, p) \union {i}
      <4>1. ASSUME NEW j \in After(signal)
            PROVE  j <= i <=> (j <= p \/ j = i)
        <5>1. j \in Nat /\ j \in 1..Len(records) /\ HasPoint(j)
          BY SessionsNumbered DEF After
        <5> QED
          BY <1>3, <2>2, <3>3, <5>1
      <4> QED
        BY <1>2, <2>2, <4>1 DEF UpToSession
    <3>8. TradedUpTo(day, expanded[p].date) = Dates(p)
      <4>1. CASE p = signal
        <5>1. \A j \in After(signal) : ~(j <= signal)
          BY <1>3, SessionsNumbered DEF After
        <5>2. \A e \in TradingDays : ~(day < e /\ e <= day)
          BY <3>5, CalendarAssumption
        <5> QED
          BY <4>1, <5>1, <5>2 DEF TradedUpTo, UpToSession
      <4>2. CASE p # signal
        <5>1. p \in window /\ p <= k
          BY <1>2, <1>3, <2>1, <2>2, <3>1, <3>3, <4>2
        <5> QED
          BY <1>6, <5>1
      <4> QED
        BY <4>1, <4>2
    <3> QED
      BY <3>6, <3>7, <3>8
  <2>3. i \in 0..Len(records) /\ \A j \in window : j <= i => j <= k \/ j = i
    BY <1>3, <2>1
  <2> HIDE DEF Dates, day
  <2> QED
    BY <1>6, <2>1, <2>2, <2>3
<1>7. 0..Len(records) \subseteq Ok
  <2> HIDE DEF Ok
  <2> QED
    BY <1>3, <1>5, <1>6, UpTo
<1>8. \A i \in window : TradedUpTo(day, expanded[i].date) = Dates(i)
  <2>1. Len(records) \in 0..Len(records) /\ \A i \in window : i <= Len(records)
    BY <1>3
  <2> HIDE DEF Dates, day
  <2> QED
    BY <1>7, <2>1
<1> QED
  BY <1>8

-----------------------------------------------------------------------------
(* Different sessions have different dates.                                *)
LEMMA DatesCounted ==
  ASSUME SeriesInv, NEW U, U \subseteq DOMAIN records, IsFiniteSet(U)
  PROVE  LET T == {expanded[j].date : j \in U}
         IN  IsFiniteSet(T) /\ Cardinality(T) = Cardinality(U)
<1> DEFINE T == {expanded[j].date : j \in U}
           f == [j \in U |-> expanded[j].date]
<1>1. ASSUME NEW i \in U, NEW j \in U, expanded[i].date = expanded[j].date PROVE i = j
  <2>1. i \in Nat /\ j \in Nat /\ i \in DOMAIN records /\ j \in DOMAIN records
        /\ DOMAIN records = 1..Len(records)
    BY SessionsNumbered
  <2>2. expanded[i].date \in Nat
    BY <2>1, CalendarAssumption DEF SeriesInv, Dated, Days
  <2>3. i < j => i \in 1..(j - 1)
    BY <2>1
  <2>4. j < i => j \in 1..(i - 1)
    BY <2>1
  <2>5. i < j => expanded[i].date < expanded[j].date
    BY <2>1, <2>3 DEF SeriesInv, Dated
  <2>6. j < i => expanded[j].date < expanded[i].date
    BY <2>1, <2>4 DEF SeriesInv, Dated
  <2> QED
    BY <1>1, <2>1, <2>2, <2>5, <2>6
<1>2. f \in Bijection(U, T)
  BY <1>1 DEF Bijection, Injection, Surjection, IsInjective
<1>3. ExistsBijection(U, T)
  BY <1>2 DEF ExistsBijection
<1> QED
  BY <1>3, FS_Bijection

(* A label from the stored index covers the horizon's trading days.        *)
LEMMA StoredLabel ==
  ASSUME SeriesInv, NEW signal \in Points, NEW horizon \in Horizons,
         NEW window, window = LabelWindow(signal, horizon),
         Cardinality(window) > horizon, \A i \in window : ReturnIndex[i] # NoIndex,
         NEW day, day = expanded[signal].date
  PROVE  {expanded[i].date : i \in window}
           = {d \in TradingDays : day < d /\ Cardinality(TradedUpTo(day, d)) <= horizon + 1}
<1>1. PICK start, end : start = Min(window) /\ end = Max(window)
  OBVIOUS
<1>2. horizon \in Nat
  BY ResearchAssumption
<1>3. window # {}
  BY <1>2, FS_EmptySet
<1>4. /\ start \in window /\ end \in window /\ window \subseteq After(signal)
      /\ window = UpToSession(signal, end)
      /\ \A i \in window : Cardinality(UpToSession(signal, i)) <= horizon + 1
      /\ \A i \in window : Earlier(i) # {}
  BY <1>1, <1>3, WindowIs
<1>5. /\ Len(records) \in Nat /\ DOMAIN records = 1..Len(records) /\ signal \in DOMAIN records
      /\ \A i \in After(signal) : i \in DOMAIN records /\ i \in Points /\ i \in Nat /\ signal \in 1..(i - 1)
  BY SessionsNumbered DEF After
<1>6. \A i \in window : Consecutive(i)
  <2>1. PICK con, den : /\ IsIndex(ReturnIndex, con, den)
                        /\ \A i \in Points : con[i] = Consecutive(i) /\ den[i] = Denominator(i)
    BY StoredIsIndex
  <2> QED
    BY <1>4, <1>5, <2>1, Linked
<1>7. /\ \A i \in DOMAIN records : expanded[i].date \in Nat /\ expanded[i].date \in Days
      /\ \A i \in window : day < expanded[i].date
      /\ day \in Nat
  BY <1>4, <1>5, CalendarAssumption DEF SeriesInv, Dated, Days
<1>8. ASSUME NEW i \in window
      PROVE  /\ TradedUpTo(day, expanded[i].date) = {expanded[j].date : j \in UpToSession(signal, i)}
             /\ IsFiniteSet(TradedUpTo(day, expanded[i].date))
             /\ Cardinality(TradedUpTo(day, expanded[i].date)) = Cardinality(UpToSession(signal, i))
  <2>1. TradedUpTo(day, expanded[i].date) = {expanded[j].date : j \in UpToSession(signal, i)}
    BY <1>3, <1>6, WindowTraded
  <2>2. UpToSession(signal, i) \subseteq DOMAIN records /\ IsFiniteSet(UpToSession(signal, i))
    BY <1>5, AfterCounted DEF UpToSession
  <2> QED
    BY <2>1, <2>2, DatesCounted
<1>9. ASSUME NEW i \in window
      PROVE  /\ expanded[i].date \in TradingDays /\ day < expanded[i].date
             /\ Cardinality(TradedUpTo(day, expanded[i].date)) <= horizon + 1
  <2>1. Previous(i) \in DOMAIN records
    BY <1>4, <1>5, PreviousIs
  <2>2. expanded[i].date = NextTradingDay(expanded[Previous(i)].date)
    BY <1>6 DEF Consecutive
  <2>3. expanded[i].date \in TradingDays
    BY <1>7, <2>1, <2>2, NextIsTradingDay
  <2> QED
    BY <1>4, <1>7, <1>8, <2>3
<1>10. ASSUME NEW d \in TradingDays, day < d, Cardinality(TradedUpTo(day, d)) <= horizon + 1
       PROVE  \E i \in window : d = expanded[i].date
  <2>1. d \in Nat /\ expanded[end].date \in Nat
    BY <1>4, <1>5, <1>7, CalendarAssumption
  <2>2. CASE d <= expanded[end].date
    <3>1. d \in TradedUpTo(day, expanded[end].date)
      BY <1>10, <2>2 DEF TradedUpTo
    <3>2. PICK j \in UpToSession(signal, end) : d = expanded[j].date
      BY <1>4, <1>8, <3>1
    <3> QED
      BY <1>4, <3>2
  <2>3. CASE expanded[end].date < d
    <3> DEFINE T == TradedUpTo(day, expanded[end].date)
    <3>1. T \union {d} \in SUBSET TradedUpTo(day, d) /\ d \notin T
      <4>1. ASSUME NEW e \in T PROVE e \in TradingDays /\ day < e /\ e <= expanded[end].date /\ e \in Nat
        BY CalendarAssumption DEF TradedUpTo
      <4>2. ASSUME NEW e \in T PROVE e \in TradedUpTo(day, d)
        <5>1. e <= d
          BY <2>1, <2>3, <4>1
        <5> QED
          BY <4>1, <5>1 DEF TradedUpTo
      <4>3. d \in TradedUpTo(day, d)
        BY <1>10, <2>1 DEF TradedUpTo
      <4>4. d \notin T
        BY <2>1, <2>3, <4>1
      <4> HIDE DEF T
      <4> QED
        BY <4>2, <4>3, <4>4
    <3>2. IsFiniteSet(T) /\ Cardinality(T) = Cardinality(window) /\ Cardinality(T) \in Nat
      BY <1>4, <1>8, FS_CardinalityType
    <3>3. Cardinality(T \union {d}) = Cardinality(T) + 1
      BY <3>1, <3>2, FS_AddElement
    <3>4. IsFiniteSet(TradedUpTo(day, d)) /\ Cardinality(TradedUpTo(day, d)) \in Nat
      BY <1>7, <2>1, TradedCounted
    <3>5. Cardinality(T \union {d}) <= Cardinality(TradedUpTo(day, d))
      BY <3>1, <3>4, FS_Subset
    <3> HIDE DEF T
    <3> QED
      BY <1>2, <1>10, <3>2, <3>3, <3>4, <3>5
  <2> QED
    BY <2>1, <2>2, <2>3
<1> QED
  BY <1>9, <1>10

(* The plain index, which needs neither a calendar nor a table.            *)
LEMMA PlainIsIndex ==
  ASSUME SeriesInv
  PROVE  \E con, den : /\ IsIndex(PlainIndex, con, den)
                       /\ \A i \in Points : con[i] = (Earlier(i) # {}) /\ den[i] = PlainDenominator(i)
<1> DEFINE c == [i \in DOMAIN records |-> Earlier(i) # {}]
           d == [i \in DOMAIN records |-> PlainDenominator(i)]
<1>1. PICK con : con = c
  OBVIOUS
<1>2. PICK den : den = d
  OBVIOUS
<1>3. PICK index : index = PlainIndex /\ index = Chained(con, den)
  BY <1>1, <1>2 DEF PlainIndex
<1>4. \A i \in DOMAIN records : con[i] = (Earlier(i) # {}) /\ den[i] = PlainDenominator(i)
  BY <1>1, <1>2
<1> HIDE DEF c, d
<1>5. ASSUME NEW i \in DOMAIN records, HasPoint(i), Earlier(i) # {} PROVE den[i] \in Int
  <2>1. i \in Nat /\ i \in 1..Len(records) /\ Len(records) \in Nat /\ DOMAIN records = 1..Len(records)
    BY SessionsNumbered
  <2>2. Previous(i) \in DOMAIN records /\ Held(i) \in Contracts
    BY <1>5, <2>1, PreviousIs, PricesTyped DEF HasPoint
  <2>3. Price(Held(i), Previous(i)) \in Int
    BY <2>2, PricesTyped
  <2> QED
    BY <1>4, <2>3 DEF PlainDenominator
<1>6. IsIndex(index, con, den)
  <2>1. /\ DOMAIN index = DOMAIN records
        /\ \A i \in DOMAIN records :
             index[i] = IndexAfter(i, IF i = 1 THEN NoIndex ELSE index[i - 1], con[i], den[i])
    BY <1>3, ChainedIs
  <2> QED
    BY <1>5, <2>1 DEF IsIndex
<1> QED
  BY <1>3, <1>4, <1>6 DEF Points

(* A label from plain prices is the return of a single contract.           *)
LEMMA PlainLabel ==
  ASSUME SeriesInv, NEW signal \in Points, NEW horizon \in Horizons,
         NEW window, window = LabelWindow(signal, horizon), window # {},
         NEW start, start = Min(window), NEW end, end = Max(window),
         NEW index, index = PlainIndex, \A i \in window : index[i] # NoIndex
  PROVE  /\ \A i \in window : Held(i) = Held(end)
         /\ index[end][1] * index[start][2] * Price(Held(end), start)
              = index[end][2] * index[start][1] * Price(Held(end), end)
<1>1. PICK con, den : /\ IsIndex(index, con, den)
                      /\ \A i \in Points : con[i] = (Earlier(i) # {}) /\ den[i] = PlainDenominator(i)
  BY PlainIsIndex
<1>2. /\ start \in window /\ end \in window /\ window \subseteq After(signal)
      /\ \A i \in window : start <= i /\ i <= end
      /\ window = UpToSession(signal, end)
      /\ \A i \in window : i # start =>
           Earlier(i) # {} /\ Previous(i) \in window /\ Previous(i) < i
  BY WindowIs
<1>3. /\ Len(records) \in Nat /\ DOMAIN records = 1..Len(records) /\ signal \in Nat
      /\ \A i \in Points : i \in 1..Len(records) /\ i \in Nat /\ HasPoint(i)
      /\ window \subseteq Points
  BY <1>2, SessionsNumbered DEF After
<1>4. ASSUME NEW i \in window, i # start
      PROVE  Held(i) = Held(Previous(i)) /\ den[i] = Price(Held(i), Previous(i))
  <2>1. den[i] \in Int /\ den[i] > 0
    BY <1>1, <1>2, <1>3, <1>4, Linked
  <2>2. den[i] = PlainDenominator(i)
    BY <1>1, <1>3
  <2> QED
    BY <2>1, <2>2 DEF PlainDenominator
<1>5. \A i \in window : Held(i) = Held(start)
  <2> DEFINE Ok == {k \in 0..Len(records) : \A i \in window : i <= k => Held(i) = Held(start)}
  <2>1. 0 \in Ok
    BY <1>3
  <2>2. ASSUME NEW k \in 0..(Len(records) - 1), k \in Ok PROVE k + 1 \in Ok
    <3>1. ASSUME NEW i \in window, i <= k + 1 PROVE Held(i) = Held(start)
      <4>1. CASE i = start
        BY <4>1
      <4>2. CASE i # start
        <5>0. Previous(i) \in window /\ Previous(i) < i
          BY <1>2, <4>2
        <5>1. i \in Nat /\ Previous(i) \in Nat
          <6>1. i \in Points /\ Previous(i) \in Points
            BY <1>3, <3>1, <5>0
          <6> QED
            BY <1>3, <6>1
        <5>3. k \in Nat
          BY <1>3, <2>2
        <5>2. Previous(i) <= k
          BY <3>1, <5>0, <5>1, <5>3
        <5> QED
          BY <1>4, <2>2, <4>2, <5>0, <5>2
      <4> QED
        BY <4>1, <4>2
    <3>2. k + 1 \in 0..Len(records)
      BY <1>3
    <3> QED
      BY <3>1, <3>2
  <2>3. 0..Len(records) \subseteq Ok
    <3> HIDE DEF Ok
    <3> QED
      BY <1>3, <2>1, <2>2, UpTo
  <2> QED
    BY <1>3, <2>3
<1>6. PICK code : code = Held(end)
  OBVIOUS
<1>7. code \in Contracts /\ \A i \in window : Held(i) = code
  <2>1. Held(end) = Held(start)
    BY <1>2, <1>5
  <2> QED
    BY <1>2, <1>3, <1>5, <1>6, <2>1, PricesTyped DEF HasPoint
<1>8. start = end \/ Grew(index, start, end, code)
  <2> SUFFICES ASSUME start # end PROVE Grew(index, start, end, code)
    OBVIOUS
  <2>0. start \in Points /\ end \in Points /\ start <= end
    BY <1>2, <1>3
  <2>1. start < end /\ start \in Points /\ end \in Points
    <3>1. start \in Nat /\ end \in Nat
      BY <1>3, <2>0
    <3> QED
      BY <2>0, <3>1
  <2>2. ASSUME NEW k \in Points, start < k, k <= end
        PROVE  /\ index[k] # NoIndex /\ Held(k) = code
               /\ den[k] > 0 => den[k] = Price(code, Previous(k))
    <3>1. k \in After(signal)
      <4>1. signal < start /\ start \in Nat /\ k \in Nat
        BY <1>2, <1>3, <2>1 DEF After
      <4> QED
        BY <1>3, <2>2, <4>1 DEF After
    <3>2. k \in window
      BY <1>2, <2>2, <3>1 DEF UpToSession
    <3>3. k # start
      BY <1>3, <2>2
    <3> QED
      BY <1>4, <1>7, <3>2, <3>3
  <2>3. index[start] # NoIndex /\ Held(start) = code
    BY <1>2, <1>7
  <2> QED
    BY <1>1, <1>7, <2>1, <2>2, <2>3, GrownOver
<1>9. /\ index[start] \in Int \X Int /\ index[end] \in Int \X Int
      /\ Price(code, start) \in Int /\ Price(code, end) \in Int
  BY <1>1, <1>2, <1>3, <1>7, IndexTyped, PricesTyped
<1>10. PICK a \in Int, b \in Int : index[start][1] = a /\ index[start][2] = b
  BY <1>9
<1>11. PICK c \in Int, d \in Int : index[end][1] = c /\ index[end][2] = d
  BY <1>9
<1>12. PICK p \in Int, q \in Int : p = Price(code, start) /\ q = Price(code, end)
  BY <1>9
<1>13. c * b * p = d * a * q
  <2>1. CASE start = end
    <3>1. c = a /\ d = b /\ p = q
      BY <1>10, <1>11, <1>12, <2>1
    <3>2. a * b * p = b * a * p
      OBVIOUS
    <3> QED
      BY <3>1, <3>2
  <2>2. CASE Grew(index, start, end, code)
    <3>1. c * b * p = a * d * q
      BY <1>10, <1>11, <1>12, <2>2 DEF Grew
    <3>2. a * d * q = d * a * q
      OBVIOUS
    <3> QED
      BY <3>1, <3>2
  <2> QED
    BY <1>8, <2>1, <2>2
<1> QED
  BY <1>6, <1>7, <1>10, <1>11, <1>12, <1>13

(* A contract held throughout at positive prices has a label.              *)
LEMMA PlainLabelExists ==
  ASSUME SeriesInv, NEW signal \in Points, NEW horizon \in Horizons,
         NEW window, window = LabelWindow(signal, horizon), window # {},
         NEW code, \A i \in window \union {signal} : Held(i) = code /\ Price(Held(i), i) > 0
  PROVE  \A i \in window : PlainIndex[i] \in Int \X Int
<1> SUFFICES ASSUME NEW i \in window PROVE PlainIndex[i] \in Int \X Int
  OBVIOUS
<1>0. PICK index : index = PlainIndex
  OBVIOUS
<1>1. PICK con, den : /\ IsIndex(index, con, den)
                      /\ \A k \in Points : con[k] = (Earlier(k) # {}) /\ den[k] = PlainDenominator(k)
  BY <1>0, PlainIsIndex
<1>2. PICK start, end : start = Min(window) /\ end = Max(window)
  OBVIOUS
<1>3. /\ window \subseteq After(signal)
      /\ Earlier(i) # {} /\ Previous(i) \in window \union {signal}
  BY <1>2, WindowIs
<1>4. i \in Points /\ i \in DOMAIN records /\ HasPoint(i)
  BY <1>3, SessionsNumbered DEF After
<1>5. PICK p : p = Previous(i)
  OBVIOUS
<1>6. /\ Price(code, i) \in Int /\ Price(code, i) > 0 /\ Held(i) = code /\ Held(p) = code
      /\ Price(code, p) > 0
  BY <1>3, <1>4, <1>5, PricesTyped DEF HasPoint
<1>7. den[i] = Price(code, p) /\ den[i] \in Int /\ con[i]
  BY <1>1, <1>3, <1>4, <1>5, <1>6 DEF PlainDenominator, IsIndex
<1>8. PICK last : last = IF i = 1 THEN NoIndex ELSE index[i - 1]
  OBVIOUS
<1>9. index[i] = IndexAfter(i, last, con[i], den[i])
  BY <1>1, <1>4, <1>8 DEF IsIndex
<1>10. ~(Price(Held(i), i) <= 0) /\ ~(den[i] <= 0)
  BY <1>6, <1>7
<1>11. index[i] = <<1, 1>> \/ (last # NoIndex /\ index[i] = <<last[1] * Price(Held(i), i), last[2] * den[i]>>)
  BY <1>3, <1>4, <1>7, <1>9, <1>10, Zenon DEF IndexAfter
<1>12. last # NoIndex => last \in Int \X Int
  <2>1. i # 1 => i - 1 \in DOMAIN records
    BY <1>4, SessionsNumbered
  <2> QED
    BY <1>1, <1>8, <2>1, IndexTyped
<1>13. <<1, 1>> \in Int \X Int
  OBVIOUS
<1> QED
  BY <1>0, <1>6, <1>7, <1>11, <1>12, <1>13

(* The body of LabelsAttainable for one signal day and one horizon.        *)
LabelAttainable(signal, horizon, window, start, end, one, two) ==
  /\ one # NoIndex =>
       {expanded[i].date : i \in window}
         = {d \in TradingDays : expanded[signal].date < d
                              /\ Cardinality({e \in TradingDays : expanded[signal].date < e /\ e <= d})
                                   <= horizon + 1}
  /\ two # NoIndex =>
       (\A i \in window : Held(i) = Held(end)) /\ two[1] * Price(Held(end), start) = two[2] * Price(Held(end), end)
  /\ Cardinality(window) = horizon + 1 /\ (\A i \in window : Held(i) = Held(end)) /\ Held(signal) = Held(end)
       /\ (\A i \in window \union {signal} : Price(Held(i), i) > 0)
       => two # NoIndex

(* A label of the signal day for the horizon.                              *)
LEMMA LabelOf ==
  ASSUME SeriesInv, NEW signal \in Points, NEW horizon \in Horizons,
         NEW window, window = LabelWindow(signal, horizon),
         NEW start, start = Min(window), NEW end, end = Max(window),
         NEW one, one = next_session_label(ReturnIndex, signal, horizon),
         NEW two, two = next_session_label(PlainIndex, signal, horizon)
  PROVE  LabelAttainable(signal, horizon, window, start, end, one, two)
<1>0. PICK day : day = expanded[signal].date
  OBVIOUS
<1>1. horizon \in Nat
  BY ResearchAssumption
<1>2. IsFiniteSet(window) /\ Cardinality(window) \in Nat
  <2>1. window \in SUBSET After(signal)
    BY DEF LabelWindow, After
  <2> QED
    BY <2>1, AfterCounted, FS_Subset, FS_CardinalityType
<1>3. Cardinality(window) > horizon => window # {}
  BY <1>1, FS_EmptySet
<1>4. ASSUME NEW index, NEW label, label = next_session_label(index, signal, horizon)
      PROVE  IF Cardinality(window) <= horizon \/ \E i \in window : index[i] = NoIndex
             THEN label = NoIndex
             ELSE label = <<index[end][1] * index[start][2], index[end][2] * index[start][1]>>
  BY <1>4 DEF next_session_label
<1>5. ASSUME NEW index, NEW label, label = next_session_label(index, signal, horizon), label # NoIndex
      PROVE  /\ Cardinality(window) > horizon /\ \A i \in window : index[i] # NoIndex
             /\ label = <<index[end][1] * index[start][2], index[end][2] * index[start][1]>>
  <2>1. ~(Cardinality(window) <= horizon) /\ ~(\E i \in window : index[i] = NoIndex)
    BY <1>4, <1>5
  <2> QED
    BY <1>1, <1>2, <1>4, <1>5, <2>1
<1>6. ASSUME one # NoIndex
      PROVE  {expanded[i].date : i \in window}
               = {d \in TradingDays : day < d /\ Cardinality(TradedUpTo(day, d)) <= horizon + 1}
  <2>1. Cardinality(window) > horizon /\ \A i \in window : ReturnIndex[i] # NoIndex
    BY <1>5, <1>6
  <2>2. window # {}
    BY <1>3, <2>1
  <2> QED
    BY <1>0, <2>1, <2>2, StoredLabel
<1>7. ASSUME two # NoIndex
      PROVE  /\ \A i \in window : Held(i) = Held(end)
             /\ two[1] * Price(Held(end), start) = two[2] * Price(Held(end), end)
  <2>1. PICK index : index = PlainIndex
    OBVIOUS
  <2>2. /\ Cardinality(window) > horizon /\ \A i \in window : index[i] # NoIndex
        /\ two = <<index[end][1] * index[start][2], index[end][2] * index[start][1]>>
    BY <1>5, <1>7, <2>1
  <2>3. /\ \A i \in window : Held(i) = Held(end)
        /\ index[end][1] * index[start][2] * Price(Held(end), start)
             = index[end][2] * index[start][1] * Price(Held(end), end)
    BY <1>3, <2>1, <2>2, PlainLabel
  <2>4. two[1] = index[end][1] * index[start][2] /\ two[2] = index[end][2] * index[start][1]
    BY <2>2
  <2> QED
    BY <2>3, <2>4
<1>8. ASSUME Cardinality(window) = horizon + 1, \A i \in window : Held(i) = Held(end),
             Held(signal) = Held(end), \A i \in window \union {signal} : Price(Held(i), i) > 0
      PROVE  two # NoIndex
  <2>1. PICK index : index = PlainIndex
    OBVIOUS
  <2>2. Cardinality(window) > horizon /\ window # {}
    BY <1>1, <1>3, <1>8
  <2>3. \A i \in window : index[i] \in Int \X Int
    <3>1. PICK code : code = Held(end)
      OBVIOUS
    <3>2. \A i \in window \union {signal} : Held(i) = code /\ Price(Held(i), i) > 0
      BY <1>8, <3>1
    <3> QED
      BY <2>1, <2>2, <3>2, PlainLabelExists
  <2>4. \A i \in window : index[i] # NoIndex
    BY <2>3, SeriesAssumption
  <2>5. two = <<index[end][1] * index[start][2], index[end][2] * index[start][1]>>
    <3>1. ~(Cardinality(window) <= horizon) /\ ~(\E i \in window : index[i] = NoIndex)
      BY <1>1, <1>2, <2>2, <2>4
    <3> QED
      BY <1>4, <2>1, <3>1
  <2>6. index[start] \in Int \X Int /\ index[end] \in Int \X Int
    BY <2>2, <2>3, WindowIs
  <2>7. two \in Int \X Int
    BY <2>5, <2>6
  <2> QED
    BY <2>7, SeriesAssumption
<1> QED
  BY <1>0, <1>6, <1>7, <1>8 DEF LabelAttainable, TradedUpTo

(* The invariant of the labels follows from that of the series alone.      *)
LEMMA Attainable == SeriesInv => LabelsAttainable
<1> SUFFICES ASSUME SeriesInv PROVE LabelsAttainable
  OBVIOUS
<1>1. ASSUME NEW signal \in Points, NEW horizon \in Horizons
      PROVE  LabelAttainable(signal, horizon, LabelWindow(signal, horizon),
                             Min(LabelWindow(signal, horizon)), Max(LabelWindow(signal, horizon)),
                             next_session_label(ReturnIndex, signal, horizon),
                             next_session_label(PlainIndex, signal, horizon))
  BY LabelOf
<1> QED
  BY <1>1, Zenon DEF LabelsAttainable, LabelAttainable

(* A label never uses the price of its signal day and covers the sessions  *)
(* it says: research/replay.py 61-100, scripts/replay_history.py 47.       *)
THEOREM LabelsAreAttainable == Spec => []LabelsAttainable
BY Attainable, SeriesInvariant, PTL

=============================================================================
