--------------------------------- MODULE Sums ---------------------------------
(***************************************************************************)
(* Sums of weights over finite sets.  The fold of the community modules    *)
(* goes through a set in an order that CHOOSE picks; the sum does not      *)
(* depend on it.                                                           *)
(***************************************************************************)
EXTENDS Integers, FiniteSetTheorems, WellFoundedInduction, TLAPS

\* A set of numbers that contains 0 and successors contains all numbers.
LEMMA SetOfNaturals ==
  ASSUME NEW P \in SUBSET Nat, 0 \in P, \A n \in P : n + 1 \in P
  PROVE  \A n \in Nat : n \in P
  <1> SUFFICES ASSUME Nat \ P # {} PROVE FALSE
    OBVIOUS
  <1>1. PICK n \in Nat \ P : \A m \in Nat \ P : ~ (<<m, n>> \in OpToRel(<, Nat))
    BY NatLessThanWellFounded, WFMin
  <1>2. \A m \in Nat \ P : ~ (m < n)
    BY <1>1 DEF OpToRel
  <1>3. n \in Nat /\ n \notin P
    OBVIOUS
  <1>4. n # 0
    BY <1>3
  <1>5. n - 1 \in Nat /\ n - 1 < n /\ (n - 1) + 1 = n
    BY <1>3, <1>4
  <1>6. n - 1 \in P
    BY <1>2, <1>5
  <1> QED
    BY <1>3, <1>5, <1>6

\* A nonempty set of numbers has a least one.
LEMMA LeastNumber ==
  ASSUME NEW S \in SUBSET Nat, S # {}
  PROVE  \E n \in S : \A m \in S : n <= m
  <1> SUFFICES ASSUME \A n \in S : \E m \in S : m < n PROVE FALSE
    OBVIOUS
  <1> DEFINE P == {n \in Nat : \A m \in S : n < m}
  <1>1. 0 \in P
    <2>1. 0 \notin S
      OBVIOUS
    <2> QED
      BY <2>1
  <1>2. ASSUME NEW n \in P PROVE n + 1 \in P
    <2>1. n + 1 \notin S
      OBVIOUS
    <2> QED
      BY <2>1
  <1>3. P \in SUBSET Nat
    OBVIOUS
  <1> HIDE DEF P
  <1>4. \A n \in Nat : n \in P
    BY <1>1, <1>2, <1>3, SetOfNaturals
  <1>5. PICK k \in S : k \in Nat
    OBVIOUS
  <1>6. k \in P
    BY <1>4, <1>5
  <1>7. k < k
    BY <1>6 DEF P
  <1> QED
    BY <1>5, <1>7

\* If a finite set has a property whenever its proper subsets have it, all subsets have it.
LEMMA SubsetsOfFinite ==
  ASSUME NEW S, IsFiniteSet(S), NEW P,
         \A s \in SUBSET S : (\A t \in SUBSET s : t # s => t \in P) => s \in P
  PROVE  \A s \in SUBSET S : s \in P
  <1> SUFFICES ASSUME (SUBSET S) \ P # {} PROVE FALSE
    OBVIOUS
  <1> DEFINE T == (SUBSET S) \ P
  <1>1. T \subseteq FiniteSubsetsOf(S)
    BY FS_FiniteSubsetsOfFinite
  <1> HIDE DEF T
  <1>2. \E s \in T : \A t \in T : ~ (<<t, s>> \in StrictSubsetOrdering(S))
    <2>1. T # {}
      BY DEF T
    <2> QED
      BY <1>1, <2>1, FS_StrictSubsetOrderingWellFounded, WFMin
  <1>3. PICK s \in T : \A t \in T : ~ (<<t, s>> \in StrictSubsetOrdering(S))
    BY <1>2
  <1>4. s \in SUBSET S /\ s \notin P
    BY DEF T
  <1>5. \A t \in SUBSET s : t # s => t \in P
    BY <1>3, <1>4 DEF StrictSubsetOrdering, T
  <1> QED
    BY <1>4, <1>5

\* f is the sum of the weights w over the subsets of S, as the community modules fold it.
IsSum(f, w, S) ==
  f = [s \in SUBSET S |-> IF s = {} THEN 0 ELSE LET x == CHOOSE x \in s : TRUE IN w[x] + f[s \ {x}]]

\* The folds of the subsets with at most n elements exist, for every n.
LEMMA SumExists ==
  ASSUME NEW S, IsFiniteSet(S), NEW w \in [S -> Nat]
  PROVE  \E f : IsSum(f, w, S)
  <1> DEFINE Up(g) == [s \in SUBSET S |-> IF s = {} THEN 0 ELSE LET x == CHOOSE x \in s : TRUE IN w[x] + g[s \ {x}]]
             Agree(g, n) == \A s \in SUBSET S : Cardinality(s) <= n => g[s] = Up(g)[s]
             P == {n \in Nat : \E g \in [SUBSET S -> Nat] : Agree(g, n)}
  <1>1. ASSUME NEW s \in SUBSET S
        PROVE  /\ IsFiniteSet(s) /\ Cardinality(s) \in Nat /\ Cardinality(s) <= Cardinality(S)
               /\ s = {} <=> Cardinality(s) = 0
               /\ s # {} => LET x == CHOOSE x \in s : TRUE IN
                              x \in s /\ s \ {x} \in SUBSET S /\ Cardinality(s \ {x}) = Cardinality(s) - 1
    <2>1. IsFiniteSet(s) /\ Cardinality(s) <= Cardinality(S)
      BY FS_Subset
    <2> QED
      BY <2>1, FS_CardinalityType, FS_EmptySet, FS_RemoveElement
  <1>2. \A g \in [SUBSET S -> Nat] : Up(g) \in [SUBSET S -> Nat]
    BY <1>1
  <1>3. 0 \in P
    <2> DEFINE zero == [s \in SUBSET S |-> 0]
    <2>1. zero \in [SUBSET S -> Nat]
      OBVIOUS
    <2>2. ASSUME NEW s \in SUBSET S, Cardinality(s) <= 0 PROVE s = {}
      <3>1. Cardinality(s) \in Nat /\ (s = {} <=> Cardinality(s) = 0)
        BY <1>1
      <3>2. Cardinality(s) = 0
        BY <2>2, <3>1
      <3> QED
        BY <3>1, <3>2
    <2>3. Agree(zero, 0)
      BY <2>2
    <2> QED
      BY <2>1, <2>3
  <1>4. ASSUME NEW n \in P PROVE n + 1 \in P
    <2>1. PICK g \in [SUBSET S -> Nat] : Agree(g, n)
      OBVIOUS
    <2>2. Up(g) \in [SUBSET S -> Nat]
      BY <1>2
    <2>3. ASSUME NEW s \in SUBSET S, Cardinality(s) <= n + 1 PROVE Up(g)[s] = Up(Up(g))[s]
      <3>1. CASE s = {}
        BY <3>1
      <3>2. CASE s # {}
        <4> DEFINE x == CHOOSE x \in s : TRUE
        <4>1. s \ {x} \in SUBSET S /\ Cardinality(s \ {x}) <= n
          BY <1>1, <2>3, <3>2
        <4>2. g[s \ {x}] = Up(g)[s \ {x}]
          BY <2>1, <4>1
        <4>3. Up(g)[s] = w[x] + g[s \ {x}] /\ Up(Up(g))[s] = w[x] + Up(g)[s \ {x}]
          BY <3>2
        <4> QED
          BY <4>2, <4>3
      <3> QED
        BY <3>1, <3>2
    <2>4. Agree(Up(g), n + 1)
      BY <2>3
    <2> HIDE DEF Up, Agree
    <2> QED
      BY <2>2, <2>4
  <1> HIDE DEF P
  <1>5. Cardinality(S) \in P
    <2>1. \A n \in Nat : n \in P
      <3>1. P \in SUBSET Nat
        BY DEF P
      <3> QED
        BY <1>3, <1>4, <3>1, SetOfNaturals
    <2> QED
      BY <2>1, FS_CardinalityType
  <1>6. PICK g \in [SUBSET S -> Nat] : Agree(g, Cardinality(S))
    BY <1>5 DEF P
  <1>7. g = Up(g)
    BY <1>1, <1>2, <1>6
  <1> QED
    BY <1>7 DEF IsSum

\* What a fold returns: nothing for no element, and a number.
LEMMA SumStep ==
  ASSUME NEW S, NEW w \in [S -> Nat], NEW f, IsSum(f, w, S)
  PROVE  /\ f[{}] = 0
         /\ \A s \in SUBSET S : s # {} => LET x == CHOOSE x \in s : TRUE IN
              x \in s /\ s \ {x} \in SUBSET s /\ s \ {x} # s /\ f[s] = w[x] + f[s \ {x}]
  BY DEF IsSum

LEMMA SumIsNat ==
  ASSUME NEW S, IsFiniteSet(S), NEW w \in [S -> Nat], NEW f, IsSum(f, w, S)
  PROVE  \A s \in SUBSET S : f[s] \in Nat
  <1> DEFINE P == {s \in SUBSET S : f[s] \in Nat}
  <1>1. ASSUME NEW s \in SUBSET S, \A t \in SUBSET s : t # s => t \in P
        PROVE  s \in P
    <2>1. CASE s = {}
      BY <2>1, SumStep
    <2>2. CASE s # {}
      <3> DEFINE x == CHOOSE x \in s : TRUE
      <3>1. x \in s /\ s \ {x} \in SUBSET s /\ s \ {x} # s /\ f[s] = w[x] + f[s \ {x}]
        BY <2>2, SumStep
      <3> HIDE DEF x
      <3>2. f[s \ {x}] \in Nat
        BY <1>1, <3>1
      <3> QED
        BY <3>1, <3>2
    <2> QED
      BY <2>1, <2>2
  <1>2. \A s \in SUBSET S : s \in P
    <2> HIDE DEF P
    <2> QED
      BY <1>1, SubsetsOfFinite
  <1> QED
    BY <1>2

\* The order in which the fold takes the elements makes no difference.
LEMMA SumRemove ==
  ASSUME NEW S, IsFiniteSet(S), NEW w \in [S -> Nat], NEW f, IsSum(f, w, S)
  PROVE  \A s \in SUBSET S : \A y \in s : f[s] = w[y] + f[s \ {y}]
  <1> DEFINE P == {s \in SUBSET S : \A y \in s : f[s] = w[y] + f[s \ {y}]}
  <1>1. ASSUME NEW s \in SUBSET S, \A t \in SUBSET s : t # s => t \in P
        PROVE  s \in P
    <2> SUFFICES ASSUME NEW y \in s PROVE f[s] = w[y] + f[s \ {y}]
      OBVIOUS
    <2> DEFINE x == CHOOSE x \in s : TRUE
    <2>1. x \in s /\ f[s] = w[x] + f[s \ {x}]
      BY SumStep
    <2> HIDE DEF x
    <2>2. CASE x # y
      <3>1. /\ s \ {x} \in SUBSET s /\ s \ {x} # s /\ y \in s \ {x}
            /\ s \ {y} \in SUBSET s /\ s \ {y} # s /\ x \in s \ {y}
            /\ (s \ {x}) \ {y} = (s \ {y}) \ {x} /\ (s \ {x}) \ {y} \in SUBSET S
        BY <2>1, <2>2
      <3>2. s \ {x} \in P /\ s \ {y} \in P
        BY <1>1, <3>1
      <3>3. f[s \ {x}] = w[y] + f[(s \ {x}) \ {y}] /\ f[s \ {y}] = w[x] + f[(s \ {x}) \ {y}]
        BY <3>1, <3>2
      <3>4. w[x] \in Nat /\ w[y] \in Nat /\ f[(s \ {x}) \ {y}] \in Nat
        BY <2>1, <3>1, SumIsNat
      <3> QED
        BY <2>1, <3>3, <3>4
    <2> QED
      BY <2>1, <2>2
  <1>2. \A s \in SUBSET S : s \in P
    <2> HIDE DEF P
    <2> QED
      BY <1>1, SubsetsOfFinite
  <1> QED
    BY <1>2

\* Folds over different sets agree on the sets that they have in common.
LEMMA SumUnique ==
  ASSUME NEW S, IsFiniteSet(S), NEW w \in [S -> Nat], NEW f, IsSum(f, w, S),
         NEW T \in SUBSET S, NEW v \in [T -> Nat], \A x \in T : v[x] = w[x], NEW g, IsSum(g, v, T)
  PROVE  \A s \in SUBSET T : g[s] = f[s]
  <1> DEFINE P == {s \in SUBSET T : g[s] = f[s]}
  <1>1. ASSUME NEW s \in SUBSET T, \A t \in SUBSET s : t # s => t \in P
        PROVE  s \in P
    <2>1. CASE s = {}
      BY <2>1, SumStep
    <2>2. CASE s # {}
      <3> DEFINE x == CHOOSE x \in s : TRUE
      <3>1. x \in s /\ s \ {x} \in SUBSET s /\ s \ {x} # s /\ g[s] = v[x] + g[s \ {x}]
        BY <2>2, SumStep
      <3>2. f[s] = w[x] + f[s \ {x}]
        <4>1. s \in SUBSET S
          OBVIOUS
        <4> QED
          BY <2>2, <4>1, SumStep
      <3> HIDE DEF x
      <3> QED
        BY <1>1, <3>1, <3>2
    <2> QED
      BY <2>1, <2>2
  <1>2. IsFiniteSet(T)
    BY FS_Subset
  <1>3. \A s \in SUBSET T : s \in P
    <2> HIDE DEF P
    <2> QED
      BY <1>1, <1>2, SubsetsOfFinite
  <1> QED
    BY <1>3

\* Folds of weights that are the same on a subset agree on it.
LEMMA SumSameWeights ==
  ASSUME NEW S, IsFiniteSet(S), NEW w \in [S -> Nat], NEW f, IsSum(f, w, S),
         NEW v \in [S -> Nat], NEW g, IsSum(g, v, S), NEW T \in SUBSET S, \A x \in T : v[x] = w[x]
  PROVE  g[T] = f[T]
  <1> DEFINE P == {s \in SUBSET T : g[s] = f[s]}
  <1>1. ASSUME NEW s \in SUBSET T, \A t \in SUBSET s : t # s => t \in P
        PROVE  s \in P
    <2>1. CASE s = {}
      BY <2>1, SumStep
    <2>2. CASE s # {}
      <3> DEFINE x == CHOOSE x \in s : TRUE
      <3>1. s \in SUBSET S
        OBVIOUS
      <3>2. x \in s /\ s \ {x} \in SUBSET s /\ s \ {x} # s
        BY <2>2
      <3>3. f[s] = w[x] + f[s \ {x}]
        BY <2>2, <3>1 DEF IsSum
      <3>6. g[s] = v[x] + g[s \ {x}]
        BY <2>2, <3>1 DEF IsSum
      <3> HIDE DEF x
      <3>4. s \ {x} \in P
        BY <1>1, <3>2
      <3>5. v[x] = w[x]
        BY <3>2
      <3> QED
        BY <3>2, <3>3, <3>4, <3>5, <3>6
    <2> QED
      BY <2>1, <2>2
  <1>2. IsFiniteSet(T)
    BY FS_Subset
  <1>3. \A s \in SUBSET T : s \in P
    <2> HIDE DEF P
    <2> QED
      BY <1>1, <1>2, SubsetsOfFinite
  <1> QED
    BY <1>3

\* A subset has no larger sum.
LEMMA SumMonotone ==
  ASSUME NEW S, IsFiniteSet(S), NEW w \in [S -> Nat], NEW f, IsSum(f, w, S), NEW T \in SUBSET S
  PROVE  f[T] <= f[S]
  <1> DEFINE P == {s \in SUBSET S : f[s \cap T] <= f[s]}
  <1>1. ASSUME NEW s \in SUBSET S, \A t \in SUBSET s : t # s => t \in P
        PROVE  s \in P
    <2>1. CASE s = {}
      <3>1. s \cap T = {} /\ f[{}] = 0
        BY <2>1, SumStep
      <3> QED
        BY <2>1, <3>1
    <2>2. CASE s # {}
      <3>1. PICK y \in s : TRUE
        BY <2>2
      <3>2. s \ {y} \in SUBSET s /\ s \ {y} # s /\ (s \ {y}) \cap T \in SUBSET S /\ s \ {y} \in SUBSET S
        OBVIOUS
      <3>3. f[(s \ {y}) \cap T] <= f[s \ {y}]
        BY <1>1, <3>2
      <3>4. f[s] = w[y] + f[s \ {y}]
        BY SumRemove
      <3>5. w[y] \in Nat /\ f[s \ {y}] \in Nat /\ f[(s \ {y}) \cap T] \in Nat
        BY <3>2, SumIsNat
      <3>6. CASE y \in T
        <4>1. s \cap T \in SUBSET S /\ y \in s \cap T /\ (s \cap T) \ {y} = (s \ {y}) \cap T
          BY <3>6
        <4>2. f[s \cap T] = w[y] + f[(s \ {y}) \cap T]
          BY <4>1, SumRemove
        <4> QED
          BY <3>3, <3>4, <3>5, <4>2
      <3>7. CASE y \notin T
        <4>1. (s \ {y}) \cap T = s \cap T
          BY <3>7
        <4> QED
          BY <3>3, <3>4, <3>5, <4>1
      <3> QED
        BY <3>6, <3>7
    <2> QED
      BY <2>1, <2>2
  <1>2. \A s \in SUBSET S : s \in P
    <2> HIDE DEF P
    <2> QED
      BY <1>1, SubsetsOfFinite
  <1>3. S \in P /\ S \cap T = T
    BY <1>2
  <1> QED
    BY <1>3

\* The sum of equally many weights is at most so many times the largest.
LEMMA SumBounded ==
  ASSUME NEW S, IsFiniteSet(S), NEW w \in [S -> Nat], NEW f, IsSum(f, w, S),
         NEW m \in Nat, \A x \in S : w[x] <= m
  PROVE  \A s \in SUBSET S : f[s] <= Cardinality(s) * m
  <1> DEFINE P == {s \in SUBSET S : f[s] <= Cardinality(s) * m}
  <1>1. ASSUME NEW s \in SUBSET S, \A t \in SUBSET s : t # s => t \in P
        PROVE  s \in P
    <2>1. CASE s = {}
      <3>1. f[{}] = 0 /\ Cardinality({}) = 0
        BY SumStep, FS_EmptySet
      <3> QED
        BY <2>1, <3>1
    <2>2. CASE s # {}
      <3>1. PICK y \in s : TRUE
        BY <2>2
      <3>2. IsFiniteSet(s) /\ s \ {y} \in SUBSET s /\ s \ {y} # s /\ s \ {y} \in SUBSET S
        BY FS_Subset
      <3>3. /\ Cardinality(s) \in Nat /\ Cardinality(s \ {y}) = Cardinality(s) - 1
            /\ Cardinality(s) # 0
        BY <2>2, <3>1, <3>2, FS_CardinalityType, FS_EmptySet, FS_RemoveElement
      <3>4. f[s \ {y}] <= Cardinality(s \ {y}) * m
        BY <1>1, <3>2
      <3>5. f[s] = w[y] + f[s \ {y}] /\ f[s \ {y}] \in Nat /\ w[y] \in Nat /\ w[y] <= m
        BY <3>2, SumRemove, SumIsNat
      <3>6. \A k \in Nat : (k - 1) * m + m = k * m
        OBVIOUS
      <3>7. PICK k \in Nat : k = Cardinality(s)
        BY <3>3
      <3>8. (k - 1) * m \in Int /\ k * m \in Int /\ (k - 1) * m + m = k * m /\ f[s \ {y}] <= (k - 1) * m
        BY <3>3, <3>4, <3>6, <3>7
      <3>9. f[s] <= k * m
        BY <3>5, <3>8
      <3> QED
        BY <3>7, <3>9
    <2> QED
      BY <2>1, <2>2
  <1>2. \A s \in SUBSET S : s \in P
    <2> HIDE DEF P
    <2> QED
      BY <1>1, SubsetsOfFinite
  <1> QED
    BY <1>2

\* Elements without weight do not count.
LEMMA SumOfHeavy ==
  ASSUME NEW S, IsFiniteSet(S), NEW w \in [S -> Nat], NEW f, IsSum(f, w, S), NEW T \in SUBSET S,
         \A x \in S \ T : w[x] = 0
  PROVE  f[T] = f[S]
  <1> DEFINE P == {s \in SUBSET S : f[s \cap T] = f[s]}
  <1>1. ASSUME NEW s \in SUBSET S, \A t \in SUBSET s : t # s => t \in P
        PROVE  s \in P
    <2>1. CASE s = {}
      <3>1. s \cap T = {}
        BY <2>1
      <3> QED
        BY <2>1, <3>1
    <2>2. CASE s # {}
      <3>1. PICK y \in s : TRUE
        BY <2>2
      <3>2. s \ {y} \in SUBSET s /\ s \ {y} # s /\ (s \ {y}) \cap T \in SUBSET S /\ s \ {y} \in SUBSET S
        OBVIOUS
      <3>3. f[(s \ {y}) \cap T] = f[s \ {y}]
        BY <1>1, <3>2
      <3>4. f[s] = w[y] + f[s \ {y}]
        BY SumRemove
      <3>5. w[y] \in Nat /\ f[s \ {y}] \in Nat
        BY <3>2, SumIsNat
      <3>6. CASE y \in T
        <4>1. s \cap T \in SUBSET S /\ y \in s \cap T /\ (s \cap T) \ {y} = (s \ {y}) \cap T
          BY <3>6
        <4>2. f[s \cap T] = w[y] + f[(s \ {y}) \cap T]
          BY <4>1, SumRemove
        <4> QED
          BY <3>3, <3>4, <4>2
      <3>7. CASE y \notin T
        <4>1. (s \ {y}) \cap T = s \cap T /\ w[y] = 0
          BY <3>7
        <4> QED
          BY <3>3, <3>4, <3>5, <4>1
      <3> QED
        BY <3>6, <3>7
    <2> QED
      BY <2>1, <2>2
  <1>2. \A s \in SUBSET S : s \in P
    <2> HIDE DEF P
    <2> QED
      BY <1>1, SubsetsOfFinite
  <1>3. S \in P /\ S \cap T = T
    BY <1>2
  <1> QED
    BY <1>3

-----------------------------------------------------------------------------
(* The sum of all weights of a set. *)

Total(w, S) == (CHOOSE f : IsSum(f, w, S))[S]

LEMMA TotalIsFold ==
  ASSUME NEW S, IsFiniteSet(S), NEW w \in [S -> Nat]
  PROVE  \E f : IsSum(f, w, S) /\ Total(w, S) = f[S] /\ f[S] \in Nat
  <1>1. \E f : IsSum(f, w, S)
    BY SumExists
  <1>2. IsSum(CHOOSE f : IsSum(f, w, S), w, S)
    BY <1>1
  <1> QED
    BY <1>2, SumIsNat DEF Total

\* The weight of one element changes.
LEMMA TotalChanged ==
  ASSUME NEW S, IsFiniteSet(S), NEW w \in [S -> Nat], NEW v \in [S -> Nat], NEW x \in S,
         \A y \in S : y # x => v[y] = w[y]
  PROVE  Total(w, S) \in Nat /\ Total(v, S) = Total(w, S) - w[x] + v[x]
  <1> DEFINE T == S \ {x}
             u == [y \in T |-> w[y]]
  <1>1. T \in SUBSET S /\ IsFiniteSet(T) /\ u \in [T -> Nat] /\ T \in SUBSET T
    BY FS_Subset
  <1>2. \A y \in T : u[y] = w[y] /\ u[y] = v[y]
    OBVIOUS
  <1>3. PICK f : IsSum(f, w, S) /\ Total(w, S) = f[S] /\ f[S] \in Nat
    BY TotalIsFold
  <1>4. PICK g : IsSum(g, v, S) /\ Total(v, S) = g[S] /\ g[S] \in Nat
    BY TotalIsFold
  <1>5. f[S] = w[x] + f[T] /\ g[S] = v[x] + g[T] /\ f[T] \in Nat
    BY <1>3, <1>4, SumRemove, SumIsNat
  <1> HIDE DEF T, u
  <1>6. PICK h : IsSum(h, u, T)
    BY <1>1, SumExists
  <1>7. h[T] = f[T]
    BY <1>1, <1>2, <1>3, <1>6, SumUnique
  <1>8. h[T] = g[T]
    BY <1>1, <1>2, <1>4, <1>6, SumUnique
  <1>9. w[x] \in Nat /\ v[x] \in Nat
    OBVIOUS
  <1> QED
    BY <1>3, <1>4, <1>5, <1>7, <1>8, <1>9

\* All weights but one, or two, are estimated by the largest.
LEMMA TotalWithout ==
  ASSUME NEW S, IsFiniteSet(S), NEW w \in [S -> Nat], NEW m \in Nat, \A x \in S : w[x] <= m, NEW y \in S
  PROVE  Total(w, S) <= w[y] + (Cardinality(S) - 1) * m
  <1>1. PICK f : IsSum(f, w, S) /\ Total(w, S) = f[S] /\ f[S] \in Nat
    BY TotalIsFold
  <1>2. f[S] = w[y] + f[S \ {y}] /\ f[S \ {y}] \in Nat
    BY <1>1, SumRemove, SumIsNat
  <1>3. f[S \ {y}] <= Cardinality(S \ {y}) * m
    BY <1>1, SumBounded
  <1>4. Cardinality(S \ {y}) = Cardinality(S) - 1 /\ Cardinality(S) \in Nat
    BY FS_RemoveElement, FS_CardinalityType
  <1>5. PICK k \in Int : k = (Cardinality(S) - 1) * m
    BY <1>4
  <1>6. f[S \ {y}] <= k
    BY <1>3, <1>4, <1>5
  <1>7. w[y] \in Nat
    OBVIOUS
  <1> QED
    BY <1>1, <1>2, <1>5, <1>6, <1>7

LEMMA TotalWithoutTwo ==
  ASSUME NEW S, IsFiniteSet(S), NEW w \in [S -> Nat], NEW m \in Nat, \A x \in S : w[x] <= m,
         NEW y \in S, NEW z \in S, y # z
  PROVE  Total(w, S) <= w[y] + w[z] + (Cardinality(S) - 2) * m
  <1>1. PICK f : IsSum(f, w, S) /\ Total(w, S) = f[S] /\ f[S] \in Nat
    BY TotalIsFold
  <1> DEFINE T == S \ {y}
             R == T \ {z}
  <1>2. T \in SUBSET S /\ z \in T /\ R \in SUBSET S /\ IsFiniteSet(T)
    BY FS_Subset
  <1>3. f[S] = w[y] + f[T] /\ f[T] = w[z] + f[R] /\ f[R] \in Nat
    BY <1>1, <1>2, SumRemove, SumIsNat
  <1>4. f[R] <= Cardinality(R) * m
    BY <1>1, <1>2, SumBounded
  <1>5. Cardinality(R) = Cardinality(S) - 2 /\ Cardinality(S) \in Nat
    <2>1. Cardinality(T) = Cardinality(S) - 1 /\ Cardinality(S) \in Nat
      BY FS_RemoveElement, FS_CardinalityType
    <2>2. Cardinality(R) = Cardinality(T) - 1
      BY <1>2, FS_RemoveElement
    <2> QED
      BY <2>1, <2>2
  <1>6. PICK k \in Int : k = (Cardinality(S) - 2) * m
    BY <1>5
  <1>7. f[R] <= k
    BY <1>4, <1>5, <1>6
  <1>8. w[y] \in Nat /\ w[z] \in Nat
    OBVIOUS
  <1> QED
    BY <1>1, <1>3, <1>6, <1>7, <1>8
=============================================================================
