----------------------- MODULE SubsetSelection_proofs -----------------------
(***************************************************************************)
(* The choices of the optimizer are well defined, for every set of         *)
(* providers, cost model and table of estimates: the order of the subset   *)
(* keys is total, so min() and max() have exactly one answer.              *)
(***************************************************************************)
EXTENDS SubsetSelection, FiniteSetTheorems, WellFoundedInduction, TLAPS

(***************************************************************************)
(* Least elements.                                                         *)
(***************************************************************************)
LEMMA LeastElement ==
    ASSUME NEW T \in SUBSET Nat, T # {}
    PROVE  \E n \in T : \A m \in T : n <= m
<1>1. PICK n \in T : \A m \in T : ~ (<<m, n>> \in OpToRel(<, Nat))
  BY NatLessThanWellFounded, WFMin
<1>2. \A m \in T : ~ (m < n)
  BY <1>1 DEF OpToRel
<1>3. \A m \in T : m \in Nat /\ n \in Nat
  OBVIOUS
<1> QED
  BY <1>2, <1>3

\* A total preorder has a least element in every finite set: a smallest set
\* without one would, without one of its elements, be a smaller one.
LEMMA FiniteLeast ==
    ASSUME NEW S, IsFiniteSet(S), S # {}, NEW R,
           \A x, y \in S : <<x, y>> \in R \/ <<y, x>> \in R,
           \A x, y, z \in S : <<x, y>> \in R /\ <<y, z>> \in R => <<x, z>> \in R
    PROVE  \E x \in S : \A y \in S : <<x, y>> \in R
<1> DEFINE Has(T) == \E x \in T : \A y \in T : <<x, y>> \in R
           Without == {T \in SUBSET S : T # {} /\ ~Has(T)}
<1>1. \A T \in SUBSET S : IsFiniteSet(T) /\ Cardinality(T) \in Nat
  BY FS_Subset, FS_CardinalityType
<1>2. SUFFICES ASSUME Without # {} PROVE FALSE
  BY <1>1
<1>3. PICK T \in Without : \A U \in Without : Cardinality(T) <= Cardinality(U)
  <2> DEFINE Sizes == {Cardinality(U) : U \in Without}
  <2>1. Sizes \in SUBSET Nat /\ Sizes # {}
    BY <1>1, <1>2
  <2>2. PICK n \in Sizes : \A m \in Sizes : n <= m
    <3> HIDE DEF Sizes
    <3> QED
      BY <2>1, LeastElement
  <2> QED
    BY <2>2
<1>4. PICK x \in T : TRUE
  OBVIOUS
<1>5. <<x, x>> \in R
  OBVIOUS
<1>6. T \ {x} # {}
  BY <1>3, <1>5
<1>7. Cardinality(T \ {x}) = Cardinality(T) - 1
  BY <1>1, FS_RemoveElement
<1>8. T \ {x} \notin Without
  <2>1. T \in SUBSET S /\ T \ {x} \in SUBSET S
    OBVIOUS
  <2>2. Cardinality(T) \in Nat /\ Cardinality(T \ {x}) < Cardinality(T)
    BY <1>1, <1>7, <2>1
  <2>3. ~ (Cardinality(T) <= Cardinality(T \ {x}))
    BY <1>1, <2>1, <2>2
  <2> QED
    BY <1>3, <2>3
<1>9. PICK z \in T \ {x} : \A y \in T \ {x} : <<z, y>> \in R
  BY <1>6, <1>8
<1>10. x \in S /\ z \in S /\ z \in T /\ \A y \in T : y \in S /\ (y = x \/ y \in T \ {x})
  OBVIOUS
<1>11. ASSUME <<z, x>> \in R PROVE \A y \in T : <<z, y>> \in R
  BY <1>9, <1>10, <1>11
<1>12. ASSUME <<x, z>> \in R PROVE \A y \in T : <<x, y>> \in R
  BY <1>5, <1>9, <1>10, <1>12
<1>13. \A y \in T : ~ \A u \in T : <<y, u>> \in R
  BY <1>3
<1> QED
  BY <1>10, <1>11, <1>12, <1>13

\* Of finitely many integers one is the least and one is the greatest.
LEMMA FiniteMinimum ==
    ASSUME NEW F, IsFiniteSet(F), F # {}, NEW f, \A S \in F : f[S] \in Int
    PROVE  \E S \in F : \A T \in F : f[S] <= f[T]
<1> DEFINE R == {e \in F \X F : f[e[1]] <= f[e[2]]}
<1>1. \A x, y \in F : <<x, y>> \in R <=> f[x] <= f[y]
  OBVIOUS
<1> HIDE DEF R
<1>2. \A x, y \in F : <<x, y>> \in R \/ <<y, x>> \in R
  <2>1. \A x, y \in F : f[x] <= f[y] \/ f[y] <= f[x]
    OBVIOUS
  <2> QED
    BY <1>1, <2>1, Zenon
<1>3. \A x, y, z \in F : <<x, y>> \in R /\ <<y, z>> \in R => <<x, z>> \in R
  BY <1>1
<1>4. \E x \in F : \A y \in F : <<x, y>> \in R
  BY <1>2, <1>3, FiniteLeast, Zenon
<1> QED
  BY <1>1, <1>4

LEMMA FiniteMaximum ==
    ASSUME NEW F, IsFiniteSet(F), F # {}, NEW f, \A S \in F : f[S] \in Int
    PROVE  \E S \in F : \A T \in F : f[T] <= f[S]
<1> DEFINE R == {e \in F \X F : f[e[2]] <= f[e[1]]}
<1>1. \A x, y \in F : <<x, y>> \in R <=> f[y] <= f[x]
  OBVIOUS
<1> HIDE DEF R
<1>2. \A x, y \in F : <<x, y>> \in R \/ <<y, x>> \in R
  <2>1. \A x, y \in F : f[x] <= f[y] \/ f[y] <= f[x]
    OBVIOUS
  <2> QED
    BY <1>1, <2>1, Zenon
<1>3. \A x, y, z \in F : <<x, y>> \in R /\ <<y, z>> \in R => <<x, z>> \in R
  BY <1>1
<1>4. \E x \in F : \A y \in F : <<x, y>> \in R
  BY <1>2, <1>3, FiniteLeast, Zenon
<1> QED
  BY <1>1, <1>4

(***************************************************************************)
(* subset_key lists the providers of a set in the order of their ids.      *)
(***************************************************************************)
Below(S, p) == {r \in S : r < p}

LEMMA BelowGrows ==
    ASSUME NEW S \in SUBSET Nat, IsFiniteSet(S), NEW p \in S, NEW r \in S, p < r
    PROVE  Cardinality(Below(S, p)) < Cardinality(Below(S, r))
<1>1. Below(S, p) \subseteq Below(S, r) /\ p \in Below(S, r) /\ p \notin Below(S, p)
  <2>1. p \in Nat /\ r \in Nat /\ \A u \in S : u \in Nat
    OBVIOUS
  <2>2. \A u \in Below(S, p) : u \in Below(S, r)
    BY <2>1 DEF Below
  <2>3. p \in Below(S, r) /\ p \notin Below(S, p)
    BY <2>1 DEF Below
  <2> QED
    BY <2>2, <2>3
<1>2. IsFiniteSet(Below(S, r))
  <2>1. Below(S, r) \in SUBSET S
    BY DEF Below
  <2> QED
    BY <2>1, FS_Subset
<1>3. /\ IsFiniteSet(Below(S, p))
      /\ Cardinality(Below(S, p)) <= Cardinality(Below(S, r))
      /\ Cardinality(Below(S, r)) # Cardinality(Below(S, p))
  <2>1. Below(S, p) \in SUBSET Below(S, r) /\ Below(S, r) # Below(S, p)
    BY <1>1
  <2> HIDE DEF Below
  <2> QED
    BY <1>2, <2>1, FS_Subset
<1>4. Cardinality(Below(S, p)) \in Nat /\ Cardinality(Below(S, r)) \in Nat
  BY <1>2, <1>3, FS_CardinalityType
<1> QED
  BY <1>3, <1>4

LEMMA BelowSize ==
    ASSUME NEW S \in SUBSET Nat, IsFiniteSet(S), NEW p \in S
    PROVE  Cardinality(Below(S, p)) \in 0..(Cardinality(S) - 1)
<1>1. Below(S, p) \subseteq S /\ p \notin Below(S, p)
  BY DEF Below
<1>2. /\ IsFiniteSet(Below(S, p))
      /\ Cardinality(Below(S, p)) <= Cardinality(S)
      /\ Cardinality(S) # Cardinality(Below(S, p))
  <2>1. Below(S, p) \in SUBSET S
    BY <1>1
  <2> QED
    BY <1>1, <2>1, FS_Subset
<1>3. Cardinality(Below(S, p)) \in Nat /\ Cardinality(S) \in Nat
  BY <1>2, FS_CardinalityType
<1> QED
  BY <1>2, <1>3

\* Every place in the order is taken, by one provider.
LEMMA RankTaken ==
    ASSUME NEW S \in SUBSET Nat, IsFiniteSet(S), NEW i \in 1..Cardinality(S)
    PROVE  \E p \in S : Cardinality(Below(S, p)) = i - 1
<1> DEFINE n == Cardinality(S)
           T == (0..(n - 1)) \ {i - 1}
           f == [p \in S |-> Cardinality(Below(S, p))]
<1>1. n \in Nat
  BY FS_CardinalityType
<1>2. IsFiniteSet(0..(n - 1)) /\ Cardinality(0..(n - 1)) = n
  <2> HIDE DEF n
  <2>1. n - 1 \in Int /\ 0 \in Int
    BY <1>1
  <2> QED
    BY <1>1, <2>1, FS_Interval
<1>3. IsFiniteSet(T) /\ Cardinality(T) = n - 1
  <2>1. i - 1 \in 0..(n - 1)
    BY <1>1
  <2> HIDE DEF n
  <2>2. /\ IsFiniteSet((0..(n - 1)) \ {i - 1})
        /\ Cardinality((0..(n - 1)) \ {i - 1}) = Cardinality(0..(n - 1)) - 1
    BY <1>2, <2>1, FS_RemoveElement
  <2> QED
    BY <1>2, <2>2
<1>4. SUFFICES ASSUME \A p \in S : Cardinality(Below(S, p)) # i - 1 PROVE FALSE
  OBVIOUS
<1>5. f \in [S -> T]
  BY <1>4, BelowSize
<1>6. \E x, y \in S : x # y /\ f[x] = f[y]
  <2>1. Cardinality(T) < Cardinality(S)
    BY <1>1, <1>3
  <2> HIDE DEF f, T
  <2> QED
    BY <1>3, <1>5, <2>1, FS_PigeonHole
<1>7. PICK x \in S, y \in S : x < y /\ f[x] = f[y]
  <2>1. \A x, y \in S : x # y => x < y \/ y < x
    OBVIOUS
  <2> QED
    BY <1>6, <2>1
<1>8. Cardinality(Below(S, x)) < Cardinality(Below(S, y))
  BY <1>7, BelowGrows
<1>9. Cardinality(Below(S, x)) \in Nat /\ Cardinality(Below(S, x)) = Cardinality(Below(S, y))
  BY <1>7, BelowSize
<1> QED
  BY <1>8, <1>9

\* Two providers of a set have different places.
LEMMA RankUnique ==
    ASSUME NEW S \in SUBSET Nat, IsFiniteSet(S), NEW p \in S, NEW r \in S,
           Cardinality(Below(S, p)) = Cardinality(Below(S, r))
    PROVE  p = r
<1>1. p < r => Cardinality(Below(S, p)) < Cardinality(Below(S, r))
  BY BelowGrows
<1>2. r < p => Cardinality(Below(S, r)) < Cardinality(Below(S, p))
  BY BelowGrows
<1>3. Cardinality(Below(S, p)) \in Nat /\ Cardinality(Below(S, r)) \in Nat
  BY BelowSize
<1>4. p \in Nat /\ r \in Nat
  OBVIOUS
<1> QED
  BY <1>1, <1>2, <1>3, <1>4

LEMMA SetsOfProviders ==
    ASSUME NEW S \in SUBSET Providers
    PROVE  S \in SUBSET Nat /\ IsFiniteSet(S) /\ Cardinality(S) \in Nat
<1>1. Providers \subseteq Nat /\ IsFiniteSet(Providers)
  BY SelectionAssumption
<1>2. IsFiniteSet(S)
  BY <1>1, FS_Subset
<1> QED
  BY <1>1, <1>2, FS_CardinalityType

\* The key of a set is a list of its providers, in which each has its place.
LEMMA KeyType ==
    ASSUME NEW S \in SUBSET Providers
    PROVE  /\ SubsetKey[S] \in [1..Cardinality(S) -> Nat]
           /\ \A i \in 1..Cardinality(S) : SubsetKey[S][i] \in S
           /\ \A p \in S : \E i \in 1..Cardinality(S) : SubsetKey[S][i] = p
<1>1. S \in SUBSET Nat /\ IsFiniteSet(S) /\ Cardinality(S) \in Nat
  BY SetsOfProviders
<1>2. SubsetKey[S] = [i \in 1..Cardinality(S) |->
                        CHOOSE p \in S : Cardinality(Below(S, p)) = i - 1]
  BY DEF SubsetKey, Below
<1>3. ASSUME NEW i \in 1..Cardinality(S)
      PROVE  SubsetKey[S][i] \in S /\ Cardinality(Below(S, SubsetKey[S][i])) = i - 1
  <2>1. \E p \in S : Cardinality(Below(S, p)) = i - 1
    BY <1>1, RankTaken
  <2>2. SubsetKey[S][i] = CHOOSE p \in S : Cardinality(Below(S, p)) = i - 1
    BY <1>2
  <2> QED
    BY <2>1, <2>2
<1>4. SubsetKey[S] \in [1..Cardinality(S) -> Nat]
  <2>1. DOMAIN SubsetKey[S] = 1..Cardinality(S)
    BY <1>2
  <2>2. \A i \in 1..Cardinality(S) : SubsetKey[S][i] \in Nat
    BY <1>1, <1>3
  <2> QED
    BY <1>2, <2>1, <2>2
<1>5. ASSUME NEW p \in S
      PROVE  \E i \in 1..Cardinality(S) : SubsetKey[S][i] = p
  <2>1. Cardinality(Below(S, p)) \in 0..(Cardinality(S) - 1)
    BY <1>1, BelowSize
  <2>2. PICK i \in 1..Cardinality(S) : i - 1 = Cardinality(Below(S, p))
    <3>1. Cardinality(Below(S, p)) + 1 \in 1..Cardinality(S)
      BY <1>1, <2>1
    <3> QED
      BY <2>1, <3>1
  <2>3. SubsetKey[S][i] = p
    BY <1>1, <1>3, <2>2, RankUnique
  <2> QED
    BY <2>3
<1> QED
  BY <1>3, <1>4, <1>5

LEMMA KeyInjective ==
    ASSUME NEW S \in SUBSET Providers, NEW T \in SUBSET Providers,
           SubsetKey[S] = SubsetKey[T]
    PROVE  S = T
<1>1. Cardinality(S) = Cardinality(T)
  <2>1. DOMAIN SubsetKey[S] = 1..Cardinality(S) /\ DOMAIN SubsetKey[T] = 1..Cardinality(T)
    BY KeyType
  <2>2. Cardinality(S) \in Nat /\ Cardinality(T) \in Nat
    BY SetsOfProviders
  <2> QED
    BY <2>1, <2>2
<1>2. \A p \in S : p \in T
  BY <1>1, KeyType
<1>3. \A p \in T : p \in S
  BY <1>1, KeyType
<1> QED
  BY <1>2, <1>3

(***************************************************************************)
(* Python's order of tuples is a strict total order.                       *)
(***************************************************************************)
LEMMA TupleTotal ==
    ASSUME NEW m \in Nat, NEW n \in Nat,
           NEW s \in [1..m -> Nat], NEW t \in [1..n -> Nat], s # t
    PROVE  TupleLess(s, t) \/ TupleLess(t, s)
<1> DEFINE Differ == {i \in Nat \ {0} : /\ i <= m \/ i <= n
                                        /\ i <= m /\ i <= n => s[i] # t[i]}
<1>1. Differ # {}
  <2>1. CASE m < n
    <3>1. n \in Differ
      BY <2>1
    <3> QED
      BY <3>1
  <2>2. CASE n < m
    <3>1. m \in Differ
      BY <2>2
    <3> QED
      BY <3>1
  <2>3. CASE m = n
    <3>1. PICK i \in 1..n : s[i] # t[i]
      BY <2>3
    <3>2. i \in Differ
      BY <2>3, <3>1
    <3> QED
      BY <3>2
  <2> QED
    BY <2>1, <2>2, <2>3
<1>2. PICK i \in Differ : \A j \in Differ : i <= j
  <2>1. Differ \in SUBSET Nat
    OBVIOUS
  <2> HIDE DEF Differ
  <2> QED
    BY <1>1, <2>1, LeastElement
<1>3. \A j \in 1..(i - 1) : j \in 1..m /\ j \in 1..n /\ s[j] = t[j]
  <2> TAKE j \in 1..(i - 1)
  <2>1. j \notin Differ
    BY <1>2
  <2>2. j \in Nat \ {0} /\ (j <= m \/ j <= n)
    BY <1>2
  <2> QED
    BY <2>1, <2>2
<1>4. CASE i <= n /\ (i <= m => s[i] < t[i])
  <2>1. i \in 1..n /\ (i \in 1..m => s[i] < t[i])
    BY <1>4
  <2>2. TupleLess(s, t)
    BY <1>3, <2>1 DEF TupleLess
  <2> QED
    BY <2>2
<1>5. CASE i <= m /\ (i <= n => t[i] < s[i])
  <2>1. i \in 1..m /\ (i \in 1..n => t[i] < s[i])
    BY <1>5
  <2>2. TupleLess(t, s)
    BY <1>3, <2>1 DEF TupleLess
  <2> QED
    BY <2>2
<1>6. (i <= n /\ (i <= m => s[i] < t[i])) \/ (i <= m /\ (i <= n => t[i] < s[i]))
  <2>1. i <= m /\ i <= n => s[i] \in Nat /\ t[i] \in Nat /\ s[i] # t[i]
    BY <1>2
  <2> QED
    BY <1>2, <2>1
<1> QED
  BY <1>4, <1>5, <1>6

LEMMA TupleAsymmetric ==
    ASSUME NEW m \in Nat, NEW n \in Nat,
           NEW s \in [1..m -> Nat], NEW t \in [1..n -> Nat],
           TupleLess(s, t), TupleLess(t, s)
    PROVE  FALSE
<1>1. PICK i \in 1..n : /\ \A j \in 1..(i - 1) : j \in 1..m /\ s[j] = t[j]
                        /\ i \in 1..m => s[i] < t[i]
  BY DEF TupleLess
<1>2. PICK k \in 1..m : /\ \A j \in 1..(k - 1) : j \in 1..n /\ t[j] = s[j]
                        /\ k \in 1..n => t[k] < s[k]
  BY DEF TupleLess
<1>3. i = k => FALSE
  BY <1>1, <1>2
<1>4. i < k => FALSE
  BY <1>1, <1>2
<1>5. k < i => FALSE
  BY <1>1, <1>2
<1> QED
  BY <1>3, <1>4, <1>5

LEMMA TupleTransitive ==
    ASSUME NEW l \in Nat, NEW m \in Nat, NEW n \in Nat,
           NEW r \in [1..l -> Nat], NEW s \in [1..m -> Nat], NEW t \in [1..n -> Nat],
           TupleLess(r, s), TupleLess(s, t)
    PROVE  TupleLess(r, t)
<1>1. PICK i \in 1..m : /\ \A j \in 1..(i - 1) : j \in 1..l /\ r[j] = s[j]
                        /\ i \in 1..l => r[i] < s[i]
  BY DEF TupleLess
<1>2. PICK k \in 1..n : /\ \A j \in 1..(k - 1) : j \in 1..m /\ s[j] = t[j]
                        /\ k \in 1..m => s[k] < t[k]
  BY DEF TupleLess
<1>3. CASE i < k
  <2>1. i \in 1..n /\ s[i] = t[i]
    BY <1>2, <1>3
  <2>2. \A j \in 1..(i - 1) : j \in 1..l /\ r[j] = t[j]
    BY <1>1, <1>2, <1>3
  <2>3. i \in 1..l => r[i] < t[i]
    BY <1>1, <2>1
  <2> QED
    BY <2>1, <2>2, <2>3 DEF TupleLess
<1>4. CASE k < i
  <2>1. k \in 1..m /\ k \in 1..l /\ r[k] = s[k]
    BY <1>1, <1>4
  <2>2. \A j \in 1..(k - 1) : j \in 1..l /\ r[j] = t[j]
    BY <1>1, <1>2, <1>4
  <2>3. k \in 1..l => r[k] < t[k]
    BY <1>2, <2>1
  <2> QED
    BY <2>2, <2>3 DEF TupleLess
<1>5. CASE i = k
  <2>1. \A j \in 1..(k - 1) : j \in 1..l /\ r[j] = t[j]
    BY <1>1, <1>2, <1>5
  <2>2. k \in 1..l => r[k] < t[k]
    BY <1>1, <1>2, <1>5
  <2> QED
    BY <2>1, <2>2 DEF TupleLess
<1> QED
  BY <1>3, <1>4, <1>5

(***************************************************************************)
(* Both orders of sets of providers are strict and total.                  *)
(***************************************************************************)
LEMMA BeforeTotal ==
    ASSUME NEW S \in SUBSET Providers, NEW T \in SUBSET Providers, S # T
    PROVE  Before(S, T) \/ Before(T, S)
<1>1. SubsetKey[S] # SubsetKey[T]
  BY KeyInjective
<1>2. Cardinality(S) \in Nat /\ Cardinality(T) \in Nat
  BY SetsOfProviders
<1>3. /\ SubsetKey[S] \in [1..Cardinality(S) -> Nat]
      /\ SubsetKey[T] \in [1..Cardinality(T) -> Nat]
  BY KeyType
<1> QED
  BY <1>1, <1>2, <1>3, TupleTotal DEF Before

LEMMA BeforeAsymmetric ==
    ASSUME NEW S \in SUBSET Providers, NEW T \in SUBSET Providers, Before(S, T)
    PROVE  ~ Before(T, S)
<1>1. Cardinality(S) \in Nat /\ Cardinality(T) \in Nat
  BY SetsOfProviders
<1>2. /\ SubsetKey[S] \in [1..Cardinality(S) -> Nat]
      /\ SubsetKey[T] \in [1..Cardinality(T) -> Nat]
  BY KeyType
<1>3. SUFFICES ASSUME Before(T, S) PROVE FALSE
  OBVIOUS
<1> QED
  BY <1>1, <1>2, <1>3, TupleAsymmetric DEF Before

LEMMA BeforeTransitive ==
    ASSUME NEW R \in SUBSET Providers, NEW S \in SUBSET Providers,
           NEW T \in SUBSET Providers, Before(R, S), Before(S, T)
    PROVE  Before(R, T)
<1>1. Cardinality(R) \in Nat /\ Cardinality(S) \in Nat /\ Cardinality(T) \in Nat
  BY SetsOfProviders
<1>2. /\ SubsetKey[R] \in [1..Cardinality(R) -> Nat]
      /\ SubsetKey[S] \in [1..Cardinality(S) -> Nat]
      /\ SubsetKey[T] \in [1..Cardinality(T) -> Nat]
  BY KeyType
<1> QED
  BY <1>1, <1>2, TupleTransitive DEF Before

LEMMA PrecedesOrder ==
    /\ \A S, T \in SUBSET Providers : S # T => Precedes(S, T) \/ Precedes(T, S)
    /\ \A S, T \in SUBSET Providers : Precedes(S, T) => ~ Precedes(T, S)
    /\ \A R, S, T \in SUBSET Providers :
         Precedes(R, S) /\ Precedes(S, T) => Precedes(R, T)
<1>1. \A S \in SUBSET Providers : Cardinality(S) \in Nat
  BY SetsOfProviders
<1>2. \A S, T \in SUBSET Providers : S # T => Before(S, T) \/ Before(T, S)
  BY BeforeTotal
<1>3. \A S, T \in SUBSET Providers : Before(S, T) => ~ Before(T, S)
  BY BeforeAsymmetric
<1>4. \A R, S, T \in SUBSET Providers : Before(R, S) /\ Before(S, T) => Before(R, T)
  BY BeforeTransitive
<1>5. \A S, T \in SUBSET Providers : S # T => Precedes(S, T) \/ Precedes(T, S)
  BY <1>1, <1>2 DEF Precedes
<1>6. \A S, T \in SUBSET Providers : Precedes(S, T) => ~ Precedes(T, S)
  BY <1>1, <1>3 DEF Precedes
<1>7. \A R, S, T \in SUBSET Providers :
         Precedes(R, S) /\ Precedes(S, T) => Precedes(R, T)
  BY <1>1, <1>4 DEF Precedes
<1> QED
  BY <1>5, <1>6, <1>7

\* A strict total order has one first element in every finite set of sets of
\* providers.
LEMMA FirstExists ==
    ASSUME NEW F \in SUBSET SUBSET Providers, F # {}, NEW R,
           \A S, T \in SUBSET Providers : S # T => <<S, T>> \in R \/ <<T, S>> \in R,
           \A S, T, U \in SUBSET Providers :
             <<S, T>> \in R /\ <<T, U>> \in R => <<S, U>> \in R
    PROVE  \E S \in F : \A T \in F \ {S} : <<S, T>> \in R
<1> DEFINE Q == R \cup {e \in F \X F : e[1] = e[2]}
<1>1. IsFiniteSet(F)
  <2>1. IsFiniteSet(SUBSET Providers)
    BY SelectionAssumption, FS_SUBSET
  <2> QED
    BY <2>1, FS_Subset
<1>2. \A S, T \in F : <<S, T>> \in Q <=> (S = T \/ <<S, T>> \in R)
  OBVIOUS
<1> HIDE DEF Q
<1>3. \A S, T \in F : <<S, T>> \in Q \/ <<T, S>> \in Q
  BY <1>2, Zenon
<1>4. \A S, T, U \in F : <<S, T>> \in Q /\ <<T, U>> \in Q => <<S, U>> \in Q
  BY <1>2, Zenon
<1>5. \E S \in F : \A T \in F : <<S, T>> \in Q
  BY <1>1, <1>3, <1>4, FiniteLeast, Zenon
<1> QED
  BY <1>2, <1>5, Zenon

(***************************************************************************)
(* min() and max() over a nonempty table of estimates.                     *)
(***************************************************************************)
LEMMA CheapestExists ==
    ASSUME NEW F \in SUBSET SUBSET Providers, F # {}
    PROVE  Cheapest(F) # {}
<1>1. IsFiniteSet(F)
  <2>1. IsFiniteSet(SUBSET Providers)
    BY SelectionAssumption, FS_SUBSET
  <2> QED
    BY <2>1, FS_Subset
<1>2. \A S \in F : Cost[S] \in Int
  BY SelectionAssumption
<1>3. \E S \in F : \A T \in F : Cost[S] <= Cost[T]
  BY <1>1, <1>2, FiniteMinimum
<1> QED
  BY <1>3 DEF Cheapest

LEMMA LikeliestExists ==
    ASSUME NEW F \in SUBSET SUBSET Providers, F # {}, NEW q, \A S \in F : q[S] \in Int
    PROVE  Likeliest(F, q) # {}
<1>1. IsFiniteSet(F)
  <2>1. IsFiniteSet(SUBSET Providers)
    BY SelectionAssumption, FS_SUBSET
  <2> QED
    BY <2>1, FS_Subset
<1>2. \E S \in F : \A T \in F : q[T] <= q[S]
  BY <1>1, FiniteMaximum
<1> QED
  BY <1>2 DEF Likeliest

\* The definition of Likeliest, without its local table.
LEMMA LikeliestMeaning ==
    ASSUME NEW F, NEW q
    PROVE  Likeliest(F, q) = {S \in F : \A T \in F : q[T] <= q[S]}
  BY DEF Likeliest

\* min() has an answer, and anything that it could answer is that answer.
LEMMA ChosenIsUnique ==
    ASSUME NEW F \in SUBSET SUBSET Providers, F # {}, NEW q, \A S \in F : q[S] \in Int
    PROVE  /\ Chosen(F, q) \in Likeliest(Cheapest(F), q)
           /\ \A S \in Likeliest(Cheapest(F), q) :
                (\A T \in Likeliest(Cheapest(F), q) \ {S} : Before(S, T))
                => S = Chosen(F, q)
<1> DEFINE L == Likeliest(Cheapest(F), q)
           First(S) == \A T \in L \ {S} : Before(S, T)
           R == {e \in (SUBSET Providers) \X (SUBSET Providers) : Before(e[1], e[2])}
<1>1. Cheapest(F) \in SUBSET F /\ Cheapest(F) # {}
  BY CheapestExists DEF Cheapest
<1>2. L \in SUBSET SUBSET Providers /\ L # {}
  <2>1. L # {}
    BY <1>1, LikeliestExists
  <2> QED
    BY <1>1, <2>1 DEF Likeliest
<1> HIDE DEF L
<1>3. \A S, T \in SUBSET Providers : <<S, T>> \in R <=> Before(S, T)
  OBVIOUS
<1> HIDE DEF R
<1>4. \A S, T \in SUBSET Providers : S # T => <<S, T>> \in R \/ <<T, S>> \in R
  BY <1>3, BeforeTotal
<1>5. \A S, T, U \in SUBSET Providers :
        <<S, T>> \in R /\ <<T, U>> \in R => <<S, U>> \in R
  BY <1>3, BeforeTransitive
<1>6. \E S \in L : \A T \in L \ {S} : <<S, T>> \in R
  BY <1>2, <1>4, <1>5, FirstExists
<1>7. \E S \in L : First(S)
  BY <1>2, <1>3, <1>6
<1>8. Chosen(F, q) = CHOOSE S \in L : First(S)
  BY DEF Chosen, L
<1>9. Chosen(F, q) \in L /\ First(Chosen(F, q))
  BY <1>7, <1>8
<1>10. \A S, T \in L : First(S) /\ First(T) => S = T
  <2> SUFFICES ASSUME NEW S \in L, NEW T \in L, First(S), First(T), S # T PROVE FALSE
    OBVIOUS
  <2>1. Before(S, T) /\ Before(T, S)
    OBVIOUS
  <2>2. S \in SUBSET Providers /\ T \in SUBSET Providers
    BY <1>2
  <2> QED
    BY <2>1, <2>2, BeforeAsymmetric
<1> QED
  BY <1>9, <1>10 DEF L

\* Likewise max(), which keeps the first of several.
LEMMA BestIsUnique ==
    ASSUME NEW F \in SUBSET SUBSET Providers, F # {}, NEW q, \A S \in F : q[S] \in Int
    PROVE  /\ Best(F, q) \in Cheapest(Likeliest(F, q))
           /\ \A S \in Cheapest(Likeliest(F, q)) :
                (\A T \in Cheapest(Likeliest(F, q)) \ {S} : Precedes(S, T))
                => S = Best(F, q)
<1> DEFINE L == Cheapest(Likeliest(F, q))
           First(S) == \A T \in L \ {S} : Precedes(S, T)
           R == {e \in (SUBSET Providers) \X (SUBSET Providers) : Precedes(e[1], e[2])}
<1>1. Likeliest(F, q) \in SUBSET F /\ Likeliest(F, q) # {}
  BY LikeliestExists DEF Likeliest
<1>2. L \in SUBSET SUBSET Providers /\ L # {}
  <2>1. L # {}
    BY <1>1, CheapestExists
  <2> QED
    BY <1>1, <2>1 DEF Cheapest
<1> HIDE DEF L
<1>3. \A S, T \in SUBSET Providers : <<S, T>> \in R <=> Precedes(S, T)
  OBVIOUS
<1> HIDE DEF R
<1>4. \A S, T \in SUBSET Providers : S # T => <<S, T>> \in R \/ <<T, S>> \in R
  BY <1>3, PrecedesOrder
<1>5. \A S, T, U \in SUBSET Providers :
        <<S, T>> \in R /\ <<T, U>> \in R => <<S, U>> \in R
  BY <1>3, PrecedesOrder
<1>6. \E S \in L : \A T \in L \ {S} : <<S, T>> \in R
  BY <1>2, <1>4, <1>5, FirstExists
<1>7. \E S \in L : First(S)
  BY <1>2, <1>3, <1>6
<1>8. Best(F, q) = CHOOSE S \in L : First(S)
  BY DEF Best, L
<1>9. Best(F, q) \in L /\ First(Best(F, q))
  BY <1>7, <1>8
<1>10. \A S, T \in L : First(S) /\ First(T) => S = T
  <2> SUFFICES ASSUME NEW S \in L, NEW T \in L, First(S), First(T), S # T PROVE FALSE
    OBVIOUS
  <2>1. Precedes(S, T) /\ Precedes(T, S)
    OBVIOUS
  <2>2. S \in SUBSET Providers /\ T \in SUBSET Providers
    BY <1>2
  <2> QED
    BY <2>1, <2>2, PrecedesOrder
<1> QED
  BY <1>9, <1>10 DEF L

(***************************************************************************)
(* select(): what it returns for any table.                                *)
(***************************************************************************)
IsTable(P, q) == \A S \in Subsets(P) : q[S] \in Nat \cup {Unknown}

LEMMA TableParts ==
    ASSUME NEW P \in SUBSET Providers, NEW q, IsTable(P, q),
           NEW F \in SUBSET Subsets(P), \A S \in F : q[S] # Unknown
    PROVE  F \in SUBSET SUBSET Providers /\ \A S \in F : q[S] \in Int
  BY DEF IsTable, Subsets

LEMMA ChosenMeets ==
    ASSUME NEW P \in SUBSET Providers, NEW q, IsTable(P, q),
           NEW F \in SUBSET Subsets(P), F # {}, \A S \in F : q[S] # Unknown
    PROVE  /\ Chosen(F, q) \in F
           /\ \A T \in F : \/ Cost[Chosen(F, q)] < Cost[T]
                           \/ /\ Cost[Chosen(F, q)] = Cost[T]
                              /\ q[T] <= q[Chosen(F, q)]
<1>1. F \in SUBSET SUBSET Providers /\ \A S \in F : q[S] \in Int
  BY TableParts
<1>2. Chosen(F, q) \in Likeliest(Cheapest(F), q)
  BY <1>1, ChosenIsUnique
<1>3. Chosen(F, q) \in Cheapest(F) /\ \A T \in Cheapest(F) : q[T] <= q[Chosen(F, q)]
  BY <1>2, LikeliestMeaning
<1>4. Chosen(F, q) \in F /\ \A T \in F : Cost[Chosen(F, q)] <= Cost[T]
  BY <1>3 DEF Cheapest
<1>5. \A T \in F : Cost[T] \in Int
  BY <1>1, SelectionAssumption
<1>6. ASSUME NEW T \in F, ~ (Cost[Chosen(F, q)] < Cost[T])
      PROVE  T \in Cheapest(F) /\ Cost[Chosen(F, q)] = Cost[T]
  <2>1. Cost[Chosen(F, q)] = Cost[T]
    BY <1>4, <1>5, <1>6
  <2> QED
    BY <1>4, <2>1 DEF Cheapest
<1> QED
  BY <1>3, <1>4, <1>6

LEMMA BestMeets ==
    ASSUME NEW P \in SUBSET Providers, NEW q, IsTable(P, q),
           NEW F \in SUBSET Subsets(P), F # {}, \A S \in F : q[S] # Unknown
    PROVE  Best(F, q) \in F /\ \A T \in F : q[T] <= q[Best(F, q)]
<1>1. F \in SUBSET SUBSET Providers /\ \A S \in F : q[S] \in Int
  BY TableParts
<1>2. Best(F, q) \in Cheapest(Likeliest(F, q))
  BY <1>1, BestIsUnique
<1>3. Best(F, q) \in Likeliest(F, q)
  BY <1>2 DEF Cheapest
<1> QED
  BY <1>3, LikeliestMeaning

\* d is an honest decision for the table q of the subsets of P.
Sound(P, q, target, limit, d) ==
    /\ d.subset \in SUBSET P /\ d.best \in SUBSET P
    /\ d.status = "SELECTED" <=> d.subset # {}
    /\ d.subset # {} /\ ~ d.bestEffort =>
         /\ d.subset \in Subsets(P)
         /\ q[d.subset] \in Nat /\ q[d.subset] >= target
         /\ \A T \in Subsets(P) : q[T] \in Nat /\ q[T] >= target =>
              \/ Cost[d.subset] < Cost[T]
              \/ Cost[d.subset] = Cost[T] /\ q[T] <= q[d.subset]
    /\ /\ P # {} /\ Cardinality(P) <= limit
       /\ \A T \in Subsets(P) : q[T] \in Nat
       /\ \E T \in Subsets(P) : q[T] >= target
       => d.subset # {} /\ ~ d.bestEffort

\* What select() returns, for every table of estimates: it selects only
\* candidates, and a subset that it claims to be minimal is one that meets the
\* target, and none that meets it is cheaper, or as cheap and more likely.
\* Where every subset has an estimate, the exact minimum is claimed whenever
\* some subset meets the target.
THEOREM SelectIsSound ==
    ASSUME NEW P \in SUBSET Providers, NEW q, IsTable(P, q),
           NEW target \in Nat, NEW mode \in Modes, NEW allow \in BOOLEAN, NEW limit \in Nat
    PROVE  Sound(P, q, target, limit, Select(P, q, target, mode, allow, limit))
<1> DEFINE missing == {S \in Subsets(P) : q[S] = Unknown}
           scored == Subsets(P) \ missing
           feasible == {S \in scored : q[S] >= target}
           best == IF scored = {} THEN {} ELSE Best(scored, q)
           exact == missing = {}
           d == Select(P, q, target, mode, allow, limit)
<1> SUFFICES Sound(P, q, target, limit, d)
  OBVIOUS
<1>1. \A S \in scored : S \in Subsets(P) /\ q[S] \in Nat /\ q[S] # Unknown
  BY DEF IsTable
<1>2. \A S \in Subsets(P) : S # {} /\ S \in SUBSET P
  BY DEF Subsets
<1>3. best \in SUBSET P
  <2>1. scored # {} => Best(scored, q) \in scored
    <3>1. scored \in SUBSET Subsets(P)
      OBVIOUS
    <3> HIDE DEF scored
    <3> QED
      BY <1>1, <3>1, BestMeets
  <2> HIDE DEF scored
  <2> QED
    BY <1>1, <1>2, <2>1
<1>4. feasible # {} =>
        /\ Chosen(feasible, q) \in feasible
        /\ \A T \in feasible :
             \/ Cost[Chosen(feasible, q)] < Cost[T]
             \/ Cost[Chosen(feasible, q)] = Cost[T] /\ q[T] <= q[Chosen(feasible, q)]
  <2>1. feasible \in SUBSET Subsets(P) /\ \A S \in feasible : q[S] # Unknown
    BY <1>1
  <2> HIDE DEF feasible
  <2> QED
    BY <2>1, ChosenMeets
<1>5. \A T \in Subsets(P) : q[T] \in Nat /\ q[T] >= target => T \in feasible
  BY SelectionAssumption
<1>6. \A T \in feasible : T \in Subsets(P) /\ q[T] \in Nat /\ q[T] >= target
  BY <1>1
<1>7. CASE P = {}
  <2>1. d = Nothing("NO_ELIGIBLE_CANDIDATES")
    BY <1>7 DEF Select
  <2>2. d.subset = {} /\ d.best = {} /\ d.status # "SELECTED"
    <3> HIDE DEF d
    <3> QED
      BY <2>1 DEF Nothing, Decision
  <2> HIDE DEF d
  <2> QED
    BY <1>7, <2>2 DEF Sound
<1>8. CASE P # {} /\ Cardinality(P) > limit
  <2>1. d = Nothing("ADAPTIVE_CANDIDATE_LIMIT_EXCEEDED")
    BY <1>8 DEF Select
  <2>2. d.subset = {} /\ d.best = {} /\ d.status # "SELECTED"
    <3> HIDE DEF d
    <3> QED
      BY <2>1 DEF Nothing, Decision
  <2>3. Cardinality(P) \in Nat
    BY SetsOfProviders
  <2> HIDE DEF d
  <2> QED
    BY <1>8, <2>2, <2>3 DEF Sound
<1>9. CASE P # {} /\ ~ (Cardinality(P) > limit)
  <2>1. d = IF ~exact /\ mode = "require-complete"
            THEN Decision("ESTIMATOR_COVERAGE_INCOMPLETE", {}, exact, FALSE, best)
            ELSE IF feasible # {}
            THEN Decision("SELECTED", Chosen(feasible, q), exact, FALSE, best)
            ELSE IF allow /\ scored # {}
            THEN Decision("SELECTED", P, exact, TRUE, best)
            ELSE Decision("SLO_ESTIMATE_UNSATISFIABLE", {}, exact, FALSE, best)
    BY <1>9 DEF Select
  <2>2. (\A T \in Subsets(P) : q[T] \in Nat) => exact
    BY SelectionAssumption
  <2>3. feasible # {} => Chosen(feasible, q) # {} /\ Chosen(feasible, q) \in SUBSET P
    BY <1>2, <1>4, <1>6
  <2> HIDE DEF d, exact, best, feasible, scored, missing
  <2>4. CASE ~exact /\ mode = "require-complete"
    <3>1. d.subset = {} /\ d.best = best /\ d.status # "SELECTED"
      BY <2>1, <2>4 DEF Decision
    <3> QED
      BY <1>3, <2>2, <2>4, <3>1 DEF Sound
  <2>5. CASE ~(~exact /\ mode = "require-complete") /\ feasible # {}
    <3>1. /\ d.subset = Chosen(feasible, q) /\ d.best = best
          /\ d.status = "SELECTED" /\ ~d.bestEffort
      BY <2>1, <2>5 DEF Decision
    <3> QED
      BY <1>3, <1>4, <1>5, <1>6, <2>3, <2>5, <3>1 DEF Sound
  <2>6. CASE /\ ~(~exact /\ mode = "require-complete")
             /\ feasible = {} /\ allow /\ scored # {}
    <3>1. d.subset = P /\ d.best = best /\ d.status = "SELECTED" /\ d.bestEffort
      BY <2>1, <2>6 DEF Decision
    <3> QED
      BY <1>3, <1>5, <1>9, <2>6, <3>1 DEF Sound
  <2>7. CASE /\ ~(~exact /\ mode = "require-complete")
             /\ feasible = {} /\ ~(allow /\ scored # {})
    <3>1. d.subset = {} /\ d.best = best /\ d.status # "SELECTED"
      BY <2>1, <2>7 DEF Decision
    <3> QED
      BY <1>3, <1>5, <2>7, <3>1 DEF Sound
  <2> QED
    BY <2>4, <2>5, <2>6, <2>7
<1> QED
  BY <1>7, <1>8, <1>9

\* The key of S is smaller than those of all others of F, under min().
IsChosen(F, q, S) ==
    /\ S \in F
    /\ \A T \in F \ {S} : \/ Cost[S] < Cost[T]
                          \/ Cost[S] = Cost[T] /\ q[T] < q[S]
                          \/ Cost[S] = Cost[T] /\ q[T] = q[S] /\ Before(S, T)

\* The key of S is greater than those of all others of F, or as great and S
\* comes first, under max().
IsBest(F, q, S) ==
    /\ S \in F
    /\ \A T \in F \ {S} : \/ q[T] < q[S]
                          \/ q[T] = q[S] /\ Cost[S] < Cost[T]
                          \/ q[T] = q[S] /\ Cost[S] = Cost[T] /\ Precedes(S, T)

LEMMA IsChosenIsChosen ==
    ASSUME NEW F \in SUBSET SUBSET Providers, NEW q, \A T \in F : q[T] \in Int,
           NEW S, IsChosen(F, q, S)
    PROVE  S = Chosen(F, q)
<1>1. \A T \in F : Cost[T] \in Int
  BY SelectionAssumption
<1>2. S \in Cheapest(F)
  BY <1>1 DEF IsChosen, Cheapest
<1>3. \A T \in Cheapest(F) : T \in F /\ Cost[T] = Cost[S]
  BY <1>1, <1>2 DEF Cheapest
<1>4. S \in Likeliest(Cheapest(F), q)
  <2>1. \A T \in Cheapest(F) : q[T] <= q[S]
    BY <1>1, <1>2, <1>3 DEF IsChosen
  <2> QED
    BY <1>2, <2>1, LikeliestMeaning
<1>5. \A T \in Likeliest(Cheapest(F), q) : T \in Cheapest(F) /\ q[T] = q[S]
  BY <1>2, <1>3, <1>4, LikeliestMeaning
<1>6. \A T \in Likeliest(Cheapest(F), q) \ {S} : Before(S, T)
  <2> TAKE T \in Likeliest(Cheapest(F), q) \ {S}
  <2>1. T \in F \ {S} /\ Cost[T] = Cost[S] /\ q[T] = q[S]
    BY <1>3, <1>5
  <2>2. Cost[S] \in Int /\ q[S] \in Int
    BY <1>1 DEF IsChosen
  <2> QED
    BY <2>1, <2>2 DEF IsChosen
<1>7. F # {}
  BY DEF IsChosen
<1> QED
  BY <1>4, <1>6, <1>7, ChosenIsUnique

LEMMA IsBestIsBest ==
    ASSUME NEW F \in SUBSET SUBSET Providers, NEW q, \A T \in F : q[T] \in Int,
           NEW S, IsBest(F, q, S)
    PROVE  S = Best(F, q)
<1>1. \A T \in F : Cost[T] \in Int
  BY SelectionAssumption
<1>2. S \in Likeliest(F, q)
  <2>1. \A T \in F : q[T] <= q[S]
    BY DEF IsBest
  <2> QED
    BY <2>1, LikeliestMeaning DEF IsBest
<1>3. \A T \in Likeliest(F, q) : T \in F /\ q[T] = q[S]
  BY <1>2, LikeliestMeaning
<1>4. S \in Cheapest(Likeliest(F, q))
  <2>1. \A T \in Likeliest(F, q) : Cost[S] <= Cost[T]
    BY <1>1, <1>2, <1>3 DEF IsBest
  <2> QED
    BY <1>2, <2>1 DEF Cheapest
<1>5. \A T \in Cheapest(Likeliest(F, q)) : T \in Likeliest(F, q) /\ Cost[T] = Cost[S]
  BY <1>1, <1>2, <1>3, <1>4 DEF Cheapest
<1>6. \A T \in Cheapest(Likeliest(F, q)) \ {S} : Precedes(S, T)
  <2> TAKE T \in Cheapest(Likeliest(F, q)) \ {S}
  <2>1. T \in F \ {S} /\ Cost[T] = Cost[S] /\ q[T] = q[S]
    BY <1>3, <1>5
  <2>2. Cost[S] \in Int /\ q[S] \in Int
    BY <1>1 DEF IsBest
  <2> QED
    BY <2>1, <2>2 DEF IsBest
<1>7. F # {}
  BY DEF IsBest
<1> QED
  BY <1>4, <1>6, <1>7, BestIsUnique
=============================================================================
