---------------------------- MODULE SequenceFacts ----------------------------
(***************************************************************************)
(* Facts about numbers and sequences that the proofs about the checkers    *)
(* and about the status page share.                                        *)
(*                                                                         *)
(* The library's induction theorems take the claim as an operator, which   *)
(* no prover instantiates.  Here the claim is the set of the numbers it    *)
(* holds for: an ordinary variable, that a use instantiates.               *)
(***************************************************************************)
EXTENDS Sorting, SequencesExt, FiniteSetsExt, FiniteSetTheorems, FunctionTheorems,
        WellFoundedInduction, TLAPS

\* Some natural numbers have a least one.
LEMMA LeastOfNats ==
    ASSUME NEW S \in SUBSET Nat, S # {}
    PROVE  \E x \in S : \A y \in S : x <= y
<1> DEFINE R == {e \in Nat \X Nat : e[1] < e[2]}
<1>1. PICK x \in S : \A y \in S : ~(<<y, x>> \in R)
  <2>1. IsWellFoundedOn(R, Nat)
    BY NatLessThanWellFounded DEF OpToRel
  <2> HIDE DEF R
  <2> QED  BY <2>1, WFMin
<1>2. \A y \in S : x <= y
  <2> TAKE y \in S
  <2>1. x \in Nat /\ y \in Nat /\ ~(<<y, x>> \in R)
    BY <1>1
  <2> QED  BY <2>1
<1> QED  BY <1>2

\* Induction: a set of numbers with 0 and every successor has all of them.
LEMMA SetInduction ==
    ASSUME NEW T \in SUBSET Nat, 0 \in T, \A n \in T : n + 1 \in T
    PROVE  T = Nat
<1> SUFFICES ASSUME Nat \ T # {} PROVE FALSE
  OBVIOUS
<1>1. PICK x \in Nat \ T : \A y \in Nat \ T : x <= y
  BY LeastOfNats
<1>2. x - 1 \in T
  BY <1>1
<1> QED  BY <1>1, <1>2

\* The same up to a bound.
LEMMA BoundedInduction ==
    ASSUME NEW n \in Nat, NEW T, 0 \in T, \A i \in 1..n : i - 1 \in T => i \in T
    PROVE  0..n \subseteq T
<1> DEFINE U == {i \in Nat : i <= n => i \in T}
<1>1. U \in SUBSET Nat /\ 0 \in U
  OBVIOUS
<1>2. \A i \in U : i + 1 \in U
  <2> SUFFICES ASSUME NEW i \in U, i + 1 <= n PROVE i + 1 \in T
    OBVIOUS
  <2>1. i + 1 \in 1..n /\ (i + 1) - 1 \in T
    OBVIOUS
  <2> QED  BY <2>1
<1>3. U = Nat
  <2> HIDE DEF U
  <2> QED  BY <1>1, <1>2, SetInduction
<1> QED  BY <1>3

\* The values of a finite sequence of numbers have a bound.
LEMMA BoundOfNats ==
    ASSUME NEW n \in Nat, NEW f \in [1..n -> Nat]
    PROVE  \E m \in Nat : \A i \in 1..n : f[i] <= m
<1> DEFINE T == {i \in 0..n : \E m \in Nat : \A j \in 1..i : f[j] <= m}
<1>1. 0 \in T
  OBVIOUS
<1>2. ASSUME NEW i \in 1..n, i - 1 \in T PROVE i \in T
  <2>1. PICK m \in Nat : \A j \in 1..(i - 1) : f[j] <= m
    BY <1>2
  <2>2. f[i] \in Nat /\ m + f[i] \in Nat /\ \A j \in 1..i : j = i \/ j \in 1..(i - 1)
    OBVIOUS
  <2>3. \A j \in 1..i : f[j] <= m + f[i]
    BY <2>1, <2>2
  <2> QED  BY <2>2, <2>3
<1>3. n \in 0..n
  OBVIOUS
<1> HIDE DEF T
<1>4. n \in T
  BY <1>1, <1>2, <1>3, BoundedInduction
<1> QED  BY <1>4 DEF T

\* Max of the community modules chooses the greatest number of a bounded set.
LEMMA MaxOfNats ==
    ASSUME NEW S \in SUBSET Nat, S # {}, NEW n \in Nat, \A x \in S : x <= n
    PROVE  Max(S) \in S /\ \A y \in S : y <= Max(S)
<1> DEFINE Below == {n - x : x \in S}
<1>1. PICK d \in Below : \A f \in Below : d <= f
  <2>1. \A x \in S : x \in Nat /\ n - x \in Nat
    OBVIOUS
  <2>2. Below \in SUBSET Nat /\ Below # {}
    BY <2>1
  <2> HIDE DEF Below
  <2> QED  BY <2>2, LeastOfNats
<1>2. PICK m \in S : d = n - m
  BY <1>1
<1>3. ASSUME NEW y \in S PROVE m >= y
  <2>1. n - y \in Below /\ m \in Nat /\ y \in Nat
    OBVIOUS
  <2>2. n - m <= n - y
    BY <1>1, <1>2, <2>1
  <2> QED  BY <2>1, <2>2
<1>4. Max(S) \in S /\ \A y \in S : Max(S) >= y
  BY <1>3, Zenon DEF Max
<1> QED  BY <1>4

LEMMA MinOfNats ==
    ASSUME NEW S \in SUBSET Nat, S # {}
    PROVE  Min(S) \in S /\ \A y \in S : Min(S) <= y
<1>1. \E x \in S : \A y \in S : x <= y
  BY LeastOfNats
<1> QED  BY <1>1, Zenon DEF Min

-----------------------------------------------------------------------------
(* Sorting. *)

\* What is counted for the place of position i.
Before(key, i) == {j \in 1..Len(key) : key[j] < key[i] \/ (key[j] = key[i] /\ j <= i)}

\* Every position has one place, and every place one position.
LEMMA PlacesAreUnique ==
    ASSUME NEW key \in Seq(Int)
    PROVE  [i \in 1..Len(key) |-> Place(key, i)] \in Bijection(1..Len(key), 1..Len(key))
<1> DEFINE D == 1..Len(key)
           place == [i \in D |-> Place(key, i)]
<1>1. /\ Len(key) \in Nat /\ IsFiniteSet(D) /\ Cardinality(D) = Len(key)
      /\ \A i \in D : i \in Int /\ key[i] \in Int
  <2>1. Len(key) \in Nat /\ \A i \in D : i \in Int /\ key[i] \in Int
    OBVIOUS
  <2>2. 1 \in Int /\ Len(key) \in Int
    BY <2>1
  <2>3. /\ IsFiniteSet(1..Len(key))
        /\ Cardinality(1..Len(key)) = IF 1 > Len(key) THEN 0 ELSE Len(key) - 1 + 1
    BY <2>2, FS_Interval, Zenon
  <2> QED  BY <2>1, <2>3
<1>2. \A i \in D : /\ Before(key, i) \in SUBSET D /\ i \in Before(key, i)
                   /\ IsFiniteSet(Before(key, i)) /\ Place(key, i) = Cardinality(Before(key, i))
  <2> TAKE i \in D
  <2>1. Before(key, i) \in SUBSET D /\ i \in Before(key, i)
    BY <1>1 DEF Before
  <2> QED  BY <1>1, <2>1, FS_Subset DEF Place, Before
<1>3. ASSUME NEW i \in D PROVE Place(key, i) \in D
  <2>1. Cardinality(Before(key, i)) \in Nat /\ Cardinality(Before(key, i)) <= Len(key)
    BY <1>1, <1>2, FS_CardinalityType, FS_Subset
  <2>2. Cardinality(Before(key, i)) # 0
    BY <1>2, FS_EmptySet
  <2> QED  BY <1>1, <1>2, <2>1, <2>2
<1>4. ASSUME NEW i \in D, NEW j \in D, Place(key, i) = Place(key, j)
      PROVE  i = j
  <2>1. Before(key, i) \subseteq Before(key, j) \/ Before(key, j) \subseteq Before(key, i)
    BY <1>1 DEF Before
  <2>2. Before(key, i) = Before(key, j)
    BY <1>2, <1>4, <2>1, FS_Subset
  <2>3. i \in Before(key, j) /\ j \in Before(key, i)
    BY <1>2, <2>2
  <2> QED  BY <1>1, <2>3 DEF Before
<1>5. place \in Injection(D, D)
  <2>1. place \in [D -> D]
    BY <1>3
  <2>2. \A a, b \in D : place[a] = place[b] => a = b
    BY <1>4
  <2> HIDE DEF D, place
  <2> QED  BY <2>1, <2>2, Fun_IsInj
<1>6. place \in Surjection(D, D)
  <2> HIDE DEF D, place
  <2> QED  BY <1>1, <1>5, FS_Injection
<1> HIDE DEF D, place
<1>7. place \in Bijection(D, D)
  BY <1>5, <1>6, Fun_IsBij
<1> QED  BY <1>7 DEF D, place

\* A sorted sequence has the elements of the other, each from a position of
\* its own, and the keys of those positions ascend.
LEMMA SortedByIs ==
    ASSUME NEW A, NEW s \in Seq(A), NEW key \in Seq(Int), Len(key) = Len(s)
    PROVE  /\ SortedBy(s, key) \in Seq(A) /\ Len(SortedBy(s, key)) = Len(s)
           /\ \E f \in Bijection(1..Len(s), 1..Len(s)) :
                 /\ \A k \in 1..Len(s) : /\ SortedBy(s, key)[k] = s[f[k]]
                                         /\ Place(key, f[k]) = k
                 /\ \A k, l \in 1..Len(s) : k < l => key[f[k]] <= key[f[l]]
<1> DEFINE D == 1..Len(s)
           place == [i \in D |-> Place(key, i)]
           f == [k \in D |-> CHOOSE i \in D : Place(key, i) = k]
<1>1. place \in Bijection(D, D)
  BY PlacesAreUnique
<1>2. \A k \in D : f[k] \in D /\ Place(key, f[k]) = k
  <2> TAKE k \in D
  <2>1. \E i \in D : place[i] = k
    <3> HIDE DEF D, place
    <3> QED  BY <1>1, Fun_BijectionProperties
  <2>2. \E i \in D : Place(key, i) = k
    BY <2>1
  <2> QED  BY <2>2
<1>3. f \in [D -> D]
  BY <1>2
<1>4. \A a, b \in D : f[a] = f[b] => a = b
  BY <1>2
<1>5. \A i \in D : f[Place(key, i)] = i /\ Place(key, i) \in D
  <2> TAKE i \in D
  <2>1. \A a, b \in D : place[a] = place[b] => a = b
    <3> HIDE DEF D, place
    <3> QED  BY <1>1, Fun_BijectionProperties
  <2>2. place[i] \in D
    <3> HIDE DEF D, place
    <3> QED  BY <1>1, Fun_BijectionProperties
  <2> QED  BY <1>2, <2>1, <2>2
<1>6. \A k \in D : SortedBy(s, key)[k] = s[f[k]]
  BY DEF SortedBy
<1>7. ASSUME NEW k \in D, NEW l \in D, k < l PROVE key[f[k]] <= key[f[l]]
  <2>1. /\ f[k] \in D /\ f[l] \in D /\ Place(key, f[k]) = k /\ Place(key, f[l]) = l
        /\ \A i \in D : key[i] \in Int /\ i \in Int
    BY <1>2
  <2> HIDE DEF f
  <2>2. SUFFICES ASSUME key[f[l]] < key[f[k]] PROVE FALSE
    BY <2>1
  <2>3. Before(key, f[l]) \subseteq Before(key, f[k])
    <3> SUFFICES ASSUME NEW j \in Before(key, f[l]) PROVE j \in Before(key, f[k])
      OBVIOUS
    <3>1. j \in 1..Len(key) /\ key[j] <= key[f[l]] /\ key[j] \in Int
      BY <2>1, SMTT(30) DEF Before
    <3>2. key[f[k]] \in Int /\ key[f[l]] \in Int
      BY <2>1
    <3>3. key[j] < key[f[k]]
      BY <2>2, <3>1, <3>2, SMTT(30)
    <3> QED  BY <3>1, <3>3 DEF Before
  <2>4. IsFiniteSet(Before(key, f[k])) /\ Before(key, f[k]) \subseteq D
    <3>1. Before(key, f[k]) \in SUBSET D /\ IsFiniteSet(D)
      BY FS_Interval DEF Before
    <3> HIDE DEF D
    <3> QED  BY <3>1, FS_Subset
  <2>5. Cardinality(Before(key, f[l])) <= Cardinality(Before(key, f[k]))
    BY <2>3, <2>4, FS_Subset
  <2>6. l <= k
    BY <2>1, <2>5 DEF Place, Before
  <2> QED  BY <1>7, <2>6
<1>8. SortedBy(s, key) \in Seq(A) /\ Len(SortedBy(s, key)) = Len(s)
  <2>1. SortedBy(s, key) = [k \in D |-> s[f[k]]]
    BY DEF SortedBy
  <2>2. \A k \in D : s[f[k]] \in A
    BY <1>2
  <2> HIDE DEF f
  <2>3. [k \in 1..Len(s) |-> s[f[k]]] \in [1..Len(s) -> A] /\ Len(s) \in Nat
    BY <2>2
  <2> QED  BY <2>1, <2>3
<1>9. f \in Bijection(D, D)
  <2>1. \A t \in D : \E k \in D : f[k] = t
    BY <1>5
  <2> HIDE DEF f, D
  <2> QED  BY <1>3, <1>4, <2>1, Fun_IsBij
<1> HIDE DEF f
<1> QED  BY <1>2, <1>6, <1>7, <1>8, <1>9

\* What Ranked needs to know of the elements that do not come after each.
Chained(S, upTo) ==
    /\ IsFiniteSet(S) /\ upTo \in [S -> SUBSET S]
    /\ \A x \in S : x \in upTo[x]
    /\ \A x, y \in S : upTo[x] \subseteq upTo[y] \/ upTo[y] \subseteq upTo[x]
    /\ \A x, y \in S : x \in upTo[y] /\ y \in upTo[x] => x = y

\* Then it lists every element once, and none after one that it precedes.
LEMMA RankedIs ==
    ASSUME NEW S, NEW upTo, Chained(S, upTo)
    PROVE  /\ Cardinality(S) \in Nat
           /\ Ranked(S, upTo) \in [1..Cardinality(S) -> S]
           /\ \A x \in S : \E k \in 1..Cardinality(S) : Ranked(S, upTo)[k] = x
           /\ \A k, l \in 1..Cardinality(S) :
                 /\ k <= l => Ranked(S, upTo)[k] \in upTo[Ranked(S, upTo)[l]]
                 /\ Ranked(S, upTo)[k] = Ranked(S, upTo)[l] => k = l
<1> DEFINE n == Cardinality(S)
           D == 1..n
           place == [x \in S |-> Cardinality(upTo[x])]
           r == Ranked(S, upTo)
<1>1. IsFiniteSet(S) /\ n \in Nat /\ IsFiniteSet(D) /\ Cardinality(D) = n
  <2>1. IsFiniteSet(S) /\ n \in Nat
    BY FS_CardinalityType DEF Chained
  <2> HIDE DEF n
  <2>2. 1 \in Int /\ n \in Int
    BY <2>1
  <2>3. IsFiniteSet(1..n) /\ Cardinality(1..n) = IF 1 > n THEN 0 ELSE n - 1 + 1
    BY <2>2, FS_Interval, Zenon
  <2> QED  BY <2>1, <2>3
<1>2. \A x \in S : /\ upTo[x] \in SUBSET S /\ IsFiniteSet(upTo[x])
                   /\ Cardinality(upTo[x]) \in D
  <2> TAKE x \in S
  <2>1. upTo[x] \in SUBSET S /\ x \in upTo[x]
    BY DEF Chained
  <2>2. IsFiniteSet(upTo[x]) /\ Cardinality(upTo[x]) <= n
    BY <1>1, <2>1, FS_Subset
  <2>3. Cardinality(upTo[x]) \in Nat /\ Cardinality(upTo[x]) # 0
    BY <2>1, <2>2, FS_CardinalityType, FS_EmptySet
  <2> HIDE DEF n
  <2> QED  BY <1>1, <2>1, <2>2, <2>3
<1>3. ASSUME NEW x \in S, NEW y \in S, Cardinality(upTo[x]) = Cardinality(upTo[y])
      PROVE  x = y
  <2>1. upTo[x] = upTo[y]
    <3>1. CASE upTo[x] \subseteq upTo[y]
      BY <1>2, <1>3, <3>1, FS_Subset
    <3>2. CASE upTo[y] \subseteq upTo[x]
      BY <1>2, <1>3, <3>2, FS_Subset
    <3> QED  BY <3>1, <3>2 DEF Chained
  <2> QED  BY <2>1 DEF Chained
<1> HIDE DEF n
<1>4. place \in Surjection(S, D)
  <2>1. place \in [S -> D]
    BY <1>2
  <2>2. \A a, b \in S : place[a] = place[b] => a = b
    BY <1>3
  <2> HIDE DEF D, place
  <2>3. place \in Injection(S, D)
    BY <2>1, <2>2, Fun_IsInj
  <2> QED  BY <1>1, <2>3, FS_Injection DEF n
<1>5. \A k \in D : \E x \in S : Cardinality(upTo[x]) = k
  <2>1. \A k \in D : \E x \in S : place[x] = k
    <3> HIDE DEF D, place
    <3> QED  BY <1>4, Fun_SurjectionProperties
  <2> QED  BY <2>1
<1>6. \A k \in D : r[k] \in S /\ Cardinality(upTo[r[k]]) = k
  <2> TAKE k \in D
  <2>1. r[k] = CHOOSE x \in S : Cardinality(upTo[x]) = k
    BY DEF Ranked, n
  <2> QED  BY <1>5, <2>1
<1>7. r \in [D -> S]
  BY <1>6 DEF Ranked, n
<1> HIDE DEF r
<1>8. \A x \in S : r[Cardinality(upTo[x])] = x
  BY <1>2, <1>3, <1>6
<1>9. ASSUME NEW k \in D, NEW l \in D, k <= l PROVE r[k] \in upTo[r[l]]
  <2> SUFFICES ASSUME r[k] \notin upTo[r[l]] PROVE FALSE
    OBVIOUS
  <2>1. /\ r[k] \in S /\ r[l] \in S
        /\ Cardinality(upTo[r[k]]) = k /\ Cardinality(upTo[r[l]]) = l
    BY <1>6
  <2>2. r[k] \in upTo[r[k]] /\ upTo[r[l]] \subseteq upTo[r[k]]
    BY <2>1 DEF Chained
  <2>3. l <= k
    BY <1>2, <2>1, <2>2, FS_Subset
  <2>4. k = l
    BY <1>1, <1>9, <2>3
  <2> QED  BY <2>2, <2>4
<1>10. \A k, l \in D : r[k] = r[l] => k = l
  BY <1>6
<1> QED  BY <1>1, <1>2, <1>7, <1>8, <1>9, <1>10 DEF n, r

-----------------------------------------------------------------------------
(* Folds.  FoldLeft applies a function on the sets of positions, defined by *)
(* recursion on their greatest element, to the set of all of them.          *)

LEMMA MaxOfPositions ==
    ASSUME NEW n \in Nat, NEW s \in SUBSET (1..n), s # {}
    PROVE  Max(s) \in s /\ \A i \in s : i <= Max(s)
<1>1. s \in SUBSET Nat /\ \A i \in s : i <= n
  OBVIOUS
<1> QED  BY <1>1, MaxOfNats

LEMMA LastPosition ==
    ASSUME NEW k \in Nat, k >= 1
    PROVE  Max(1..k) = k /\ (1..k) \ {k} = 1..(k - 1)
<1>1. 1..k # {} /\ k \in 1..k /\ (1..k) \in SUBSET (1..k)
  OBVIOUS
<1>2. Max(1..k) \in 1..k /\ \A i \in 1..k : i <= Max(1..k)
  BY <1>1, MaxOfPositions
<1>3. Max(1..k) = k
  BY <1>1, <1>2
<1>4. (1..k) \ {k} = 1..(k - 1)
  OBVIOUS
<1> QED  BY <1>3, <1>4

FoldGraphs(A, base, step, m) ==
    {G \in [SUBSET (1..m) -> A] : \A s \in SUBSET (1..m) :
        G[s] = IF s = {} THEN base ELSE step[<<G[s \ {Max(s)}], Max(s)>>]}

\* There is such a function, whatever a step computes from a position and the
\* value of the positions before it.
LEMMA FoldGraph ==
    ASSUME NEW n \in Nat, NEW A, NEW base \in A, NEW step \in [A \X (1..n) -> A]
    PROVE  FoldGraphs(A, base, step, n) # {}
<1> DEFINE T == {m \in Nat : m <= n => FoldGraphs(A, base, step, m) # {}}
<1>1. 0 \in T
  <2> DEFINE G == [s \in SUBSET (1..0) |-> base]
  <2>1. \A s \in SUBSET (1..0) : s = {}
    OBVIOUS
  <2>2. G \in FoldGraphs(A, base, step, 0)
    BY <2>1 DEF FoldGraphs
  <2> QED  BY <2>2
<1>2. ASSUME NEW m \in T PROVE m + 1 \in T
  <2> SUFFICES ASSUME m \in Nat, m + 1 <= n
               PROVE  FoldGraphs(A, base, step, m + 1) # {}
    OBVIOUS
  <2> PICK g \in FoldGraphs(A, base, step, m) : TRUE
    BY <1>2
  <2>1. /\ g \in [SUBSET (1..m) -> A]
        /\ \A s \in SUBSET (1..m) :
              g[s] = IF s = {} THEN base ELSE step[<<g[s \ {Max(s)}], Max(s)>>]
    BY DEF FoldGraphs
  <2> DEFINE G == [s \in SUBSET (1..(m + 1)) |->
                     IF m + 1 \in s THEN step[<<g[s \ {m + 1}], m + 1>>] ELSE g[s]]
  <2>2. \A s \in SUBSET (1..(m + 1)) :
            /\ s \ {m + 1} \in SUBSET (1..m)
            /\ m + 1 \notin s => s \in SUBSET (1..m)
            /\ g[s \ {m + 1}] \in A
            /\ step[<<g[s \ {m + 1}], m + 1>>] \in A
    <3> TAKE s \in SUBSET (1..(m + 1))
    <3>1. s \ {m + 1} \in SUBSET (1..m) /\ (m + 1 \notin s => s \in SUBSET (1..m))
      OBVIOUS
    <3>2. g[s \ {m + 1}] \in A /\ m + 1 \in 1..n
      BY <2>1, <3>1
    <3> QED  BY <3>1, <3>2
  <2>3. G \in [SUBSET (1..(m + 1)) -> A]
    BY <2>1, <2>2
  <2>4. ASSUME NEW s \in SUBSET (1..(m + 1))
        PROVE  G[s] = IF s = {} THEN base ELSE step[<<G[s \ {Max(s)}], Max(s)>>]
    <3>1. CASE m + 1 \in s
      <4>1. Max(s) = m + 1
        <5>1. m + 1 \in Nat /\ s # {}
          BY <3>1
        <5>2. Max(s) \in s /\ \A i \in s : i <= Max(s)
          BY <5>1, MaxOfPositions
        <5>3. Max(s) \in 1..(m + 1) /\ m + 1 <= Max(s)
          BY <3>1, <5>2
        <5> QED  BY <5>3
      <4>2. G[s] = step[<<g[s \ {m + 1}], m + 1>>]
        BY <3>1
      <4>3. G[s \ {m + 1}] = g[s \ {m + 1}]
        OBVIOUS
      <4> QED  BY <3>1, <4>1, <4>2, <4>3
    <3>2. CASE m + 1 \notin s /\ s # {}
      <4>1. s \in SUBSET (1..m) /\ G[s] = g[s]
        BY <2>2, <3>2
      <4>2. s \ {Max(s)} \in SUBSET (1..(m + 1)) /\ m + 1 \notin s \ {Max(s)}
        BY <3>2
      <4>3. G[s \ {Max(s)}] = g[s \ {Max(s)}]
        BY <4>2
      <4> QED  BY <2>1, <3>2, <4>1, <4>3
    <3>3. CASE s = {}
      <4>1. G[s] = g[s] /\ s \in SUBSET (1..m)
        BY <3>3
      <4> QED  BY <2>1, <3>3, <4>1
    <3> QED  BY <3>1, <3>2, <3>3
  <2> HIDE DEF G
  <2>5. G \in FoldGraphs(A, base, step, m + 1)
    BY <2>3, <2>4 DEF FoldGraphs
  <2> QED  BY <2>5
<1>3. T = Nat
  <2>1. T \in SUBSET Nat
    OBVIOUS
  <2> HIDE DEF T
  <2> QED  BY <1>1, <1>2, <2>1, SetInduction
<1> QED  BY <1>3

\* What is known of the function a fold applies: it follows the steps from
\* a value of the right type on.
Follows(G, A, base, step, n) ==
    /\ n \in Nat /\ base \in A /\ step \in [A \X (1..n) -> A]
    /\ G[{}] = base
    /\ \A s \in SUBSET (1..n) : s # {} /\ G[s \ {Max(s)}] \in A =>
          G[s] = step[<<G[s \ {Max(s)}], Max(s)>>]

\* The values of the fold after each position, from left to right.
Runs(A, base, step, n) ==
    {run \in [0..n -> A] : /\ run[0] = base
                           /\ \A i \in 1..n : run[i] = step[<<run[i - 1], i>>]}

\* Applied to all positions, such a function has run through the sequence
\* from left to right.
LEMMA FoldRun ==
    ASSUME NEW n, NEW A, NEW base, NEW step, NEW G, Follows(G, A, base, step, n)
    PROVE  \E run \in Runs(A, base, step, n) : run[n] = G[1..n]
<1> DEFINE run == [k \in 0..n |-> G[1..k]]
           T == {k \in 0..n : run[k] \in A}
<1>0. n \in Nat /\ base \in A /\ step \in [A \X (1..n) -> A]
  BY DEF Follows
<1>1. run[0] = base
  <2>1. 1..0 = {}
    OBVIOUS
  <2> QED  BY <1>0, <2>1 DEF Follows
<1>2. ASSUME NEW i \in 1..n, run[i - 1] \in A PROVE run[i] = step[<<run[i - 1], i>>]
  <2>0. i \in Nat /\ i >= 1 /\ i <= n
    BY <1>0
  <2>1. Max(1..i) = i /\ (1..i) \ {i} = 1..(i - 1)
    BY <2>0, LastPosition
  <2>2. 1..i \in SUBSET (1..n) /\ 1..i # {} /\ i - 1 \in 0..n /\ i \in 0..n
    BY <1>0, <2>0
  <2>3. run[i] = G[1..i] /\ run[i - 1] = G[1..(i - 1)]
    BY <2>2
  <2> HIDE DEF run
  <2> QED  BY <1>2, <2>1, <2>2, <2>3 DEF Follows
<1>3. 0..n \subseteq T
  <2>1. 0 \in T
    BY <1>0, <1>1
  <2>2. ASSUME NEW i \in 1..n, i - 1 \in T PROVE i \in T
    <3>1. run[i] = step[<<run[i - 1], i>>] /\ run[i - 1] \in A
      BY <1>2, <2>2
    <3> HIDE DEF run
    <3> QED  BY <1>0, <3>1
  <2> HIDE DEF T
  <2> QED  BY <1>0, <2>1, <2>2, BoundedInduction
<1>4. run \in [0..n -> A]
  BY <1>3
<1> HIDE DEF run
<1>5. \A i \in 1..n : run[i] = step[<<run[i - 1], i>>]
  BY <1>0, <1>2, <1>4
<1>6. run[n] = G[1..n]
  BY <1>0 DEF run
<1> QED  BY <1>1, <1>4, <1>5, <1>6 DEF Runs
=============================================================================
