----------------------------- MODULE ListLemmas -----------------------------
(***************************************************************************)
(* Facts about the lists of StableLists, about sequences put one after the *)
(* other and about replacing in them, that the proofs of several           *)
(* components rest on.                                                     *)
(***************************************************************************)
EXTENDS StableLists, SequencesExt, FiniteSetTheorems, SequenceTheorems, WellFoundedInduction,
        TLAPS
-----------------------------------------------------------------------------
(* Least numbers.                                                          *)

\* A set of numbers has a least one.
LEMMA LeastExists ==
    ASSUME NEW T, T \subseteq Nat, T # {}
    PROVE \E n \in T : \A m \in T : n <= m
  <1> DEFINE R == OpToRel(<, Nat)
  <1>1. IsWellFoundedOn(R, Nat)
    BY NatLessThanWellFounded
  <1>2. \A x, y \in Nat : y < x => <<y, x>> \in R
    BY DEF OpToRel
  <1> HIDE DEF R
  <1>3. PICK x \in T : \A y \in T : ~(<<y, x>> \in R)
    BY <1>1, WFMin
  <1>4. ASSUME NEW m \in T PROVE x <= m
    <2>1. x \in Nat /\ m \in Nat
      OBVIOUS
    <2>2. ~(m < x)
      BY <1>2, <1>3, <2>1
    <2> QED
      BY <2>1, <2>2
  <1> QED
    BY <1>4
-----------------------------------------------------------------------------
(* Positions, ranks and orders.                                            *)

\* d[i] holds what comes no later than i, in a linear order of I.
Ordered(I, d) ==
    /\ d \in [I -> SUBSET I]
    /\ \A i \in I : i \in d[i]
    /\ \A i, j \in I : i \in d[j] \/ j \in d[i]
    /\ \A i, j \in I : i \in d[j] /\ j \in d[i] => i = j
    /\ \A i, j, k \in I : i \in d[j] /\ j \in d[k] => i \in d[k]

\* p lists I in that order: the k-th has rank k.
Lists(I, d, p) ==
    /\ p \in [1..Cardinality(I) -> I]
    /\ p = [k \in 1..Cardinality(I) |-> CHOOSE i \in I : Cardinality(d[i]) = k]
    /\ \A k \in 1..Cardinality(I) : Cardinality(d[p[k]]) = k
    /\ \A i \in I : Cardinality(d[i]) \in 1..Cardinality(I) /\ p[Cardinality(d[i])] = i

LEMMA RanksGrow ==
    ASSUME NEW I, IsFiniteSet(I), NEW d, Ordered(I, d), NEW i \in I, NEW j \in I
    PROVE /\ Cardinality(d[i]) \in 1..Cardinality(I)
          /\ i \in d[j] /\ i # j => Cardinality(d[i]) < Cardinality(d[j])
          /\ Cardinality(d[i]) = Cardinality(d[j]) => i = j
  <1>1. \A k \in I : /\ IsFiniteSet(d[k]) /\ d[k] \subseteq I
                     /\ Cardinality(d[k]) \in Nat /\ Cardinality(d[k]) <= Cardinality(I)
    <2>1. \A k \in I : d[k] \in SUBSET I
      BY DEF Ordered
    <2> QED
      BY <2>1, FS_Subset, FS_CardinalityType
  <1>2. ASSUME NEW k \in I, NEW l \in I, k \in d[l], k # l
        PROVE Cardinality(d[k]) < Cardinality(d[l])
    <2>1. d[k] \in SUBSET d[l]
      BY <1>2 DEF Ordered
    <2>2. l \in d[l] /\ l \notin d[k]
      BY <1>2 DEF Ordered
    <2>3. /\ Cardinality(d[k]) <= Cardinality(d[l])
          /\ Cardinality(d[l]) = Cardinality(d[k]) => d[l] = d[k]
      BY <1>1, <2>1, FS_Subset
    <2> QED
      BY <1>1, <2>2, <2>3
  <1>3. Cardinality(d[i]) >= 1
    <2>1. i \in d[i]
      BY DEF Ordered
    <2>2. d[i] # {}
      BY <2>1
    <2>3. Cardinality(d[i]) # 0
      BY <1>1, <2>2, FS_EmptySet
    <2> QED
      BY <1>1, <2>3
  <1>4. Cardinality(I) \in Nat
    BY FS_CardinalityType
  <1>5. Cardinality(d[i]) = Cardinality(d[j]) => i = j
    <2>1. i \in d[j] \/ j \in d[i]
      BY DEF Ordered
    <2> QED
      BY <1>1, <1>2, <2>1
  <1> QED
    BY <1>1, <1>2, <1>3, <1>4, <1>5

\* Counting what comes before each element numbers them all, 1 to |I|.
LEMMA RanksList ==
    ASSUME NEW I, IsFiniteSet(I), NEW d, Ordered(I, d)
    PROVE \E p : Lists(I, d, p)
  <1> DEFINE n == Cardinality(I)
             f == [i \in I |-> Cardinality(d[i])]
             p == [k \in 1..n |-> CHOOSE i \in I : Cardinality(d[i]) = k]
  <1>1. n \in Nat
    BY FS_CardinalityType
  <1>2. f \in Injection(I, 1..n)
    BY RanksGrow DEF Injection, IsInjective
  <1>3. IsFiniteSet(1..n) /\ Cardinality(1..n) = n
    BY <1>1, FS_Interval
  <1>4. f \in Surjection(I, 1..n)
    BY <1>2, <1>3, FS_Injection
  <1>5. \A k \in 1..n : \E i \in I : f[i] = k
    BY <1>4 DEF Surjection
  <1>6. ASSUME NEW k \in 1..n PROVE p[k] \in I /\ Cardinality(d[p[k]]) = k
    <2>1. PICK i \in I : Cardinality(d[i]) = k
      BY <1>5
    <2> QED
      BY <2>1
  <1>7. ASSUME NEW i \in I PROVE Cardinality(d[i]) \in 1..n /\ p[Cardinality(d[i])] = i
    <2>1. Cardinality(d[i]) \in 1..n
      BY RanksGrow
    <2> QED
      BY <1>6, <2>1, RanksGrow
  <1> QED
    BY <1>6, <1>7 DEF Lists

\* p lists the positions at in increasing order, and Pick takes them so.
Enumerates(places, p) ==
    /\ Lists(places, [i \in places |-> {j \in places : j <= i}], p)
    /\ \A s : Pick(s, places) = [k \in 1..Cardinality(places) |-> s[p[k]]]
    /\ \A k, l \in 1..Cardinality(places) : k < l => p[k] < p[l]

\* Pick lists the picked positions in increasing order.
LEMMA PickLists ==
    ASSUME NEW n \in Nat, NEW places \in SUBSET (1..n)
    PROVE /\ IsFiniteSet(places) /\ Cardinality(places) \in Nat /\ Cardinality(places) <= n
          /\ \E p : Enumerates(places, p)
  <1> DEFINE d == [i \in places |-> {j \in places : j <= i}]
  <1>1. IsFiniteSet(places) /\ Cardinality(places) \in Nat /\ Cardinality(places) <= n
    <2>1. IsFiniteSet(1..n) /\ Cardinality(1..n) = n
      BY FS_Interval
    <2> QED
      BY <2>1, FS_Subset, FS_CardinalityType
  <1>2. Ordered(places, d)
    BY DEF Ordered
  <1>3. PICK p : Lists(places, d, p)
    BY <1>1, <1>2, RanksList
  <1>4. \A s : Pick(s, places) = [k \in 1..Cardinality(places) |-> s[p[k]]]
    <2> DEFINE c(k) == CHOOSE i \in places : Cardinality({j \in places : j <= i}) = k
               m == Cardinality(places)
    <2>1. \A k \in 1..m : p[k] = c(k)
      <3>1. \A i \in places : d[i] = {j \in places : j <= i}
        OBVIOUS
      <3>2. \A k \in 1..Cardinality(places) : p[k] = CHOOSE i \in places : Cardinality(d[i]) = k
        BY <1>3 DEF Lists
      <3>3. ASSUME NEW k PROVE (CHOOSE i \in places : Cardinality(d[i]) = k)
                                 = CHOOSE i \in places : Cardinality({j \in places : j <= i}) = k
        OBVIOUS
      <3> HIDE DEF d
      <3> QED
        BY <3>2, <3>3
    <2> TAKE s
    <2>2. Pick(s, places) = [k \in 1..m |-> s[c(k)]]
      BY DEF Pick
    <2> HIDE DEF c, m
    <2>3. [k \in 1..m |-> s[c(k)]] = [k \in 1..m |-> s[p[k]]]
      BY <2>1
    <2> QED
      BY <2>2, <2>3 DEF m
  <1>5. ASSUME NEW k \in 1..Cardinality(places), NEW l \in 1..Cardinality(places), k < l
        PROVE p[k] < p[l]
    <2>0. places \subseteq Nat
      OBVIOUS
    <2>1. p[k] \in places /\ p[l] \in places /\ Cardinality(d[p[k]]) = k /\ Cardinality(d[p[l]]) = l
      BY <1>3 DEF Lists
    <2>2. CASE p[l] <= p[k]
      <3>1. p[l] \in d[p[k]]
        BY <2>1, <2>2
      <3> HIDE DEF d
      <3>2. l < k \/ p[l] = p[k]
        BY <1>1, <1>2, <2>1, <3>1, RanksGrow
      <3> QED
        BY <1>1, <1>5, <2>1, <3>2
    <2> HIDE DEF d
    <2>3. p[k] \in Nat /\ p[l] \in Nat
      BY <2>0, <2>1
    <2> QED
      BY <2>2, <2>3
  <1>6. Enumerates(places, p)
    BY <1>3, <1>4, <1>5 DEF Enumerates
  <1> QED
    BY <1>1, <1>6

\* What a stable sort by the keys a, then b, puts no later than the i-th.
NoLater(n, a, b) ==
    [i \in 1..n |-> {j \in 1..n : \/ a[j] < a[i]
                                  \/ a[j] = a[i] /\ b[j] < b[i]
                                  \/ a[j] = a[i] /\ b[j] = b[i] /\ j <= i}]

OneToOne(n, f) == f \in [1..n -> 1..n] /\ \A k, l \in 1..n : f[k] = f[l] => k = l
Onto(n, f) == f \in [1..n -> 1..n] /\ \A i \in 1..n : \E k \in 1..n : f[k] = i

\* p lists 1..n by those keys, each position once.
Sorts(n, a, b, p) ==
    /\ OneToOne(n, p) /\ Onto(n, p)
    /\ p = [k \in 1..n |-> CHOOSE i \in 1..n : Cardinality(NoLater(n, a, b)[i]) = k]
    /\ \A k, l \in 1..n :
         k < l => a[p[k]] < a[p[l]] \/ (a[p[k]] = a[p[l]] /\ b[p[k]] <= b[p[l]])

LEMMA KeysOrder ==
    ASSUME NEW n \in Nat, NEW a \in [1..n -> Int], NEW b \in [1..n -> Int]
    PROVE Ordered(1..n, NoLater(n, a, b))
  <1> DEFINE Le(i, j) == \/ a[j] < a[i]
                         \/ a[j] = a[i] /\ b[j] < b[i]
                         \/ a[j] = a[i] /\ b[j] = b[i] /\ j <= i
             d == NoLater(n, a, b)
  <1>1. \A i \in 1..n : d[i] = {j \in 1..n : Le(i, j)}
    BY DEF NoLater
  <1>2. d \in [1..n -> SUBSET (1..n)]
    BY DEF NoLater
  <1>3. \A i \in 1..n : i \in Nat /\ a[i] \in Int /\ b[i] \in Int
    OBVIOUS
  <1>4. \A i \in 1..n : Le(i, i)
    BY <1>3
  <1>5. \A i, j \in 1..n : Le(i, j) \/ Le(j, i)
    BY <1>3
  <1>6. \A i, j \in 1..n : Le(i, j) /\ Le(j, i) => i = j
    BY <1>3
  <1>7. \A i, j, k \in 1..n : Le(j, i) /\ Le(k, j) => Le(k, i)
    BY <1>3
  <1>8. \A i, j \in 1..n : j \in d[i] <=> Le(i, j)
    BY <1>1
  <1> HIDE DEF d, Le
  <1>9. Ordered(1..n, d)
    BY <1>2, <1>4, <1>5, <1>6, <1>7, <1>8 DEF Ordered
  <1> QED
    BY <1>9 DEF d

\* A stable sort is a permutation, and its keys ascend.
LEMMA KeysSort ==
    ASSUME NEW n \in Nat, NEW a \in [1..n -> Int], NEW b \in [1..n -> Int]
    PROVE \E p : Sorts(n, a, b, p)
  <1> DEFINE d == NoLater(n, a, b)
  <1>1. IsFiniteSet(1..n) /\ Cardinality(1..n) = n
    BY FS_Interval
  <1>2. Ordered(1..n, d)
    BY KeysOrder
  <1>3. PICK p : Lists(1..n, d, p)
    BY <1>1, <1>2, RanksList
  <1>4. p \in [1..n -> 1..n] /\ p = [k \in 1..n |-> CHOOSE i \in 1..n : Cardinality(d[i]) = k]
    BY <1>1, <1>3 DEF Lists
  <1>5. OneToOne(n, p) /\ Onto(n, p)
    <2>1. \A i \in 1..n : \E k \in 1..n : p[k] = i
      BY <1>1, <1>3 DEF Lists
    <2>2. \A k \in 1..n : Cardinality(d[p[k]]) = k
      BY <1>1, <1>3 DEF Lists
    <2> HIDE DEF d
    <2>3. \A k, l \in 1..n : p[k] = p[l] => k = l
      BY <2>2
    <2> QED
      BY <1>4, <2>1, <2>3 DEF OneToOne, Onto
  <1>6. ASSUME NEW k \in 1..n, NEW l \in 1..n, k < l
        PROVE a[p[k]] < a[p[l]] \/ (a[p[k]] = a[p[l]] /\ b[p[k]] <= b[p[l]])
    <2>1. p[k] \in 1..n /\ p[l] \in 1..n /\ Cardinality(d[p[k]]) = k /\ Cardinality(d[p[l]]) = l
      BY <1>1, <1>3 DEF Lists
    <2>2. p[k] # p[l]
      BY <1>6, <2>1
    <2> DEFINE x == p[k]
               y == p[l]
    <2> HIDE DEF d, x, y
    <2>3. y \notin d[x]
      <3>1. x \in 1..n /\ y \in 1..n /\ x # y /\ Cardinality(d[x]) = k /\ Cardinality(d[y]) = l
        BY <2>1, <2>2 DEF x, y
      <3>2. y \in d[x] => Cardinality(d[y]) < Cardinality(d[x])
        BY <1>1, <1>2, <3>1, RanksGrow
      <3> QED
        BY <1>6, <3>1, <3>2
    <2>4. x \in 1..n /\ y \in 1..n /\ x \in d[y]
      BY <1>2, <2>1, <2>3 DEF Ordered, x, y
    <2>5. \/ a[x] < a[y]
          \/ a[x] = a[y] /\ b[x] < b[y]
          \/ a[x] = a[y] /\ b[x] = b[y] /\ x <= y
      BY <2>4 DEF NoLater, d
    <2>6. a[x] \in Int /\ a[y] \in Int /\ b[x] \in Int /\ b[y] \in Int
      BY <2>4
    <2> QED
      BY <2>5, <2>6 DEF x, y
  <1>7. Sorts(n, a, b, p)
    BY <1>4, <1>5, <1>6, Zenon DEF Sorts, d
  <1> QED
    BY <1>7
Climbs(n, f) == \A k, l \in 1..n : k < l => f[k] <= f[l]

\* Two ascending lists of the same numbers are the same list.
LEMMA AscendingIsUnique ==
    ASSUME NEW n \in Nat, NEW u \in [1..n -> Int], NEW v \in [1..n -> Int], NEW r,
           Climbs(n, u), Climbs(n, v), OneToOne(n, r), \A l \in 1..n : v[r[l]] = u[l],
           NEW k \in 1..n
    PROVE u[k] = v[k]
  <1>1. k \in Nat /\ u[k] \in Int /\ v[k] \in Int
    OBVIOUS
  <1>2. r \in [1..n -> 1..n] /\ \A l, m \in 1..n : r[l] = r[m] => l = m
    BY DEF OneToOne
  <1>3. ASSUME NEW a \in Int, NEW b \in Int, a <= b + 1
        PROVE IsFiniteSet(a..b) /\ Cardinality(a..b) = b - a + 1
    <2>1. IsFiniteSet(a..b) /\ Cardinality(a..b) = IF a > b THEN 0 ELSE b - a + 1
      BY FS_Interval, SMTT(20)
    <2> QED
      BY <1>3, <2>1
  <1>4. ASSUME u[k] < v[k] PROVE FALSE
    <2> DEFINE f == [l \in 1..k |-> r[l]]
    <2>1. ASSUME NEW l \in 1..k PROVE r[l] \in 1..(k - 1)
      <3>1. l \in 1..n /\ r[l] \in 1..n /\ u[l] \in Int /\ v[r[l]] \in Int
        BY <1>1, <1>2
      <3>2. u[l] <= u[k]
        BY <1>1, <3>1 DEF Climbs
      <3>3. v[r[l]] < v[k]
        BY <1>1, <1>4, <3>1, <3>2
      <3>4. r[l] >= k => v[k] <= v[r[l]]
        BY <1>1, <3>1 DEF Climbs
      <3> QED
        BY <1>1, <3>1, <3>3, <3>4
    <2>2. f \in [1..k -> 1..(k - 1)]
      BY <2>1
    <2>3. /\ IsFiniteSet(1..k) /\ IsFiniteSet(1..(k - 1))
          /\ Cardinality(1..(k - 1)) < Cardinality(1..k)
      <3>1. k - 1 \in Int /\ 1 <= k + 1 /\ 1 <= (k - 1) + 1 /\ 1 \in Int /\ k \in Int
        BY <1>1
      <3>2. IsFiniteSet(1..k) /\ Cardinality(1..k) = k - 1 + 1
        BY <1>3, <3>1
      <3>3. IsFiniteSet(1..(k - 1)) /\ Cardinality(1..(k - 1)) = (k - 1) - 1 + 1
        BY <1>3, <3>1
      <3> QED
        BY <3>1, <3>2, <3>3
    <2>4. PICK x \in 1..k, y \in 1..k : x # y /\ f[x] = f[y]
      <3> DEFINE A == 1..k
                 B == 1..(k - 1)
      <3> HIDE DEF f, A, B
      <3>1. IsFiniteSet(A) /\ IsFiniteSet(B) /\ Cardinality(B) < Cardinality(A) /\ f \in [A -> B]
        BY <2>2, <2>3 DEF A, B
      <3>2. \E x, y \in A : x # y /\ f[x] = f[y]
        BY <3>1, FS_PigeonHole
      <3> QED
        BY <3>2 DEF A
    <2>5. x \in 1..n /\ y \in 1..n /\ r[x] = r[y]
      BY <1>1, <2>4
    <2> QED
      BY <1>2, <2>4, <2>5
  <1>5. ASSUME v[k] < u[k] PROVE FALSE
    <2> DEFINE f == [l \in k..n |-> r[l]]
    <2>1. ASSUME NEW l \in k..n PROVE r[l] \in (k + 1)..n
      <3>1. l \in 1..n /\ r[l] \in 1..n /\ u[l] \in Int /\ v[r[l]] \in Int
        BY <1>1, <1>2
      <3>2. u[k] <= u[l]
        BY <1>1, <3>1 DEF Climbs
      <3>3. v[k] < v[r[l]]
        BY <1>1, <1>5, <3>1, <3>2
      <3>4. r[l] <= k => v[r[l]] <= v[k]
        BY <1>1, <3>1 DEF Climbs
      <3>5. ~(r[l] <= k)
        BY <1>1, <3>1, <3>3, <3>4
      <3> HIDE DEF f
      <3> QED
        BY <1>1, <3>1, <3>5, Z3
    <2>2. f \in [k..n -> (k + 1)..n]
      BY <2>1
    <2>3. /\ IsFiniteSet(k..n) /\ IsFiniteSet((k + 1)..n)
          /\ Cardinality((k + 1)..n) < Cardinality(k..n)
      <3>1. k + 1 \in Int /\ k <= n + 1 /\ k + 1 <= n + 1 /\ n \in Int /\ k \in Int
        BY <1>1
      <3>2. IsFiniteSet(k..n) /\ Cardinality(k..n) = n - k + 1
        BY <1>3, <3>1
      <3>3. IsFiniteSet((k + 1)..n) /\ Cardinality((k + 1)..n) = n - (k + 1) + 1
        BY <1>3, <3>1
      <3> QED
        BY <3>1, <3>2, <3>3
    <2>4. PICK x \in k..n, y \in k..n : x # y /\ f[x] = f[y]
      <3> DEFINE A == k..n
                 B == (k + 1)..n
      <3> HIDE DEF f, A, B
      <3>1. IsFiniteSet(A) /\ IsFiniteSet(B) /\ Cardinality(B) < Cardinality(A) /\ f \in [A -> B]
        BY <2>2, <2>3 DEF A, B
      <3>2. \E x, y \in A : x # y /\ f[x] = f[y]
        BY <3>1, FS_PigeonHole
      <3> QED
        BY <3>2 DEF A
    <2>5. x \in 1..n /\ y \in 1..n /\ r[x] = r[y]
      BY <1>1, <2>4
    <2> QED
      BY <1>2, <2>4, <2>5
  <1> QED
    BY <1>1, <1>4, <1>5

Sorted(f) == StableSort(f, LAMBDA x, y : x < y)

\* sorted(): what geometry.py and run_report.py take the median of.
LEMMA SortedAscends ==
    ASSUME NEW n \in Nat, NEW h \in [1..n -> Int]
    PROVE \E p : /\ OneToOne(n, p) /\ Onto(n, p) /\ Climbs(n, [k \in 1..n |-> h[p[k]]])
                 /\ Sorted(h) = [k \in 1..n |-> h[p[k]]]
  <1> DEFINE b == [i \in 1..n |-> 0]
             Rank(i) == {j \in DOMAIN h : h[j] < h[i] \/ (j <= i /\ ~(h[i] < h[j]))}
             c(k) == CHOOSE i \in 1..n : Cardinality(Rank(i)) = k
  <1>1. b \in [1..n -> Int]
    OBVIOUS
  <1>2. PICK p : Sorts(n, h, b, p)
    BY <1>1, KeysSort
  <1>3. \A i \in 1..n : NoLater(n, h, b)[i] = Rank(i)
    <2> TAKE i \in 1..n
    <2>1. NoLater(n, h, b)[i] = {j \in 1..n : \/ h[j] < h[i]
                                              \/ h[j] = h[i] /\ b[j] < b[i]
                                              \/ h[j] = h[i] /\ b[j] = b[i] /\ j <= i}
      BY DEF NoLater
    <2>2. \A j \in 1..n : h[j] \in Int /\ b[j] = 0 /\ j \in Nat
      OBVIOUS
    <2> HIDE DEF b
    <2> QED
      BY <2>1, <2>2
  <1>4. \A k \in 1..n : p[k] = c(k)
    <2>1. \A k \in 1..n : p[k] = CHOOSE i \in 1..n : Cardinality(NoLater(n, h, b)[i]) = k
      BY <1>2 DEF Sorts
    <2>2. \A k : (CHOOSE i \in 1..n : Cardinality(NoLater(n, h, b)[i]) = k)
                   = CHOOSE i \in 1..n : Cardinality(Rank(i)) = k
      <3> HIDE DEF Rank, b
      <3> QED
        BY <1>3
    <2> QED
      BY <2>1, <2>2
  <1>5. Sorted(h) = [k \in 1..n |-> h[c(k)]]
    BY DEF StableSort, Sorted
  <1> HIDE DEF c
  <1>6. [k \in 1..n |-> h[c(k)]] = [k \in 1..n |-> h[p[k]]]
    BY <1>4
  <1>7. OneToOne(n, p) /\ Onto(n, p)
    BY <1>2 DEF Sorts
  <1>8. Climbs(n, [k \in 1..n |-> h[p[k]]])
    <2>1. \A k, l \in 1..n : k < l => h[p[k]] < h[p[l]] \/ h[p[k]] = h[p[l]]
      BY <1>2 DEF Sorts
    <2>2. \A k \in 1..n : h[p[k]] \in Int
      BY <1>7 DEF Onto
    <2> QED
      BY <2>1, <2>2 DEF Climbs
  <1> QED
    BY <1>5, <1>6, <1>7, <1>8

-----------------------------------------------------------------------------
(* Sequences put one after the other.                                      *)

\* f[i] is the first i of the sequences s, one after the other.
Joins(s, n, f) == f = [i \in 1..n |-> IF i = 1 THEN s[i] ELSE f[i - 1] \o s[i]]

\* FlattenSeq's recursion is well-founded.
LEMMA JoinsExist ==
    ASSUME NEW s, NEW n \in Nat
    PROVE \E f : Joins(s, n, f)
  <1> DEFINE T == {m \in Nat : ~\E f : Joins(s, m, f)}
  <1>1. SUFFICES ASSUME T # {} PROVE FALSE
    OBVIOUS
  <1>2. PICK m \in T : \A k \in T : m <= k
    <2>1. T \subseteq Nat
      OBVIOUS
    <2> HIDE DEF T
    <2> QED
      BY <1>1, <2>1, LeastExists
  <1>3. CASE m = 0
    <2> DEFINE f == [i \in 1..0 |-> s[i]]
    <2>1. Joins(s, 0, f)
      BY DEF Joins
    <2> QED
      BY <1>2, <1>3, <2>1
  <1>4. CASE m # 0
    <2>1. m \in Nat /\ m - 1 \in Nat /\ m - 1 \notin T
      BY <1>2, <1>4
    <2>2. PICK g : Joins(s, m - 1, g)
      BY <2>1
    <2> DEFINE f == [i \in 1..m |-> IF i = m THEN IF m = 1 THEN s[m] ELSE g[m - 1] \o s[m]
                                   ELSE g[i]]
    <2>3. \A i \in 1..m - 1 : f[i] = g[i]
      BY <2>1
    <2>4. \A i \in 1..m - 1 : g[i] = IF i = 1 THEN s[i] ELSE g[i - 1] \o s[i]
      BY <2>1, <2>2 DEF Joins
    <2>5. f[m] = IF m = 1 THEN s[m] ELSE g[m - 1] \o s[m]
      BY <1>4, <2>1
    <2>6. f = [i \in 1..m |-> f[i]]
      OBVIOUS
    <2> HIDE DEF f
    <2>7. ASSUME NEW i \in 1..m PROVE f[i] = IF i = 1 THEN s[i] ELSE f[i - 1] \o s[i]
      <3>1. CASE i = m
        <4>1. m # 1 => m - 1 \in 1..m - 1
          BY <1>4, <2>1
        <4> QED
          BY <2>3, <2>5, <3>1, <4>1
      <3>2. CASE i # m
        <4>1. i \in 1..m - 1 /\ (i # 1 => i - 1 \in 1..m - 1)
          BY <2>1, <3>2
        <4> QED
          BY <2>3, <2>4, <4>1
      <3> QED
        BY <3>1, <3>2
    <2>8. Joins(s, m, f)
      BY <2>6, <2>7 DEF Joins
    <2> QED
      BY <1>2, <2>8
  <1> QED
    BY <1>3, <1>4

\* FlattenSeq's equation.
LEMMA FlattenUnfolds ==
    ASSUME NEW S, NEW s \in Seq(Seq(S))
    PROVE /\ s = <<>> => FlattenSeq(s) = <<>>
          /\ s # <<>> => \E f : /\ FlattenSeq(s) = f[Len(s)] /\ f[1] = s[1]
                                /\ \A i \in 2..Len(s) : f[i] = f[i - 1] \o s[i]
  <1>1. Len(s) \in Nat /\ (s # <<>> => Len(s) # 0) /\ (s = <<>> => Len(s) = 0)
    BY EmptySeq, LenProperties
  <1>2. s = <<>> => FlattenSeq(s) = <<>>
    BY <1>1 DEF FlattenSeq
  <1>3. ASSUME s # <<>>
        PROVE \E f : /\ FlattenSeq(s) = f[Len(s)] /\ f[1] = s[1]
                     /\ \A i \in 2..Len(s) : f[i] = f[i - 1] \o s[i]
    <2> DEFINE n == Len(s)
               f == CHOOSE g : g = [i \in 1..n |-> IF i = 1 THEN s[i] ELSE g[i - 1] \o s[i]]
    <2>1. \E g : g = [i \in 1..n |-> IF i = 1 THEN s[i] ELSE g[i - 1] \o s[i]]
      BY <1>1, JoinsExist DEF Joins
    <2>2. FlattenSeq(s) = f[n]
      BY <1>1, <1>3, SMTT(40) DEF FlattenSeq
    <2>3. f = [i \in 1..n |-> IF i = 1 THEN s[i] ELSE f[i - 1] \o s[i]]
      BY <2>1
    <2> HIDE DEF f
    <2>4. \A i \in 1..n : f[i] = IF i = 1 THEN s[i] ELSE f[i - 1] \o s[i]
      BY <2>3
    <2>5. f[1] = s[1] /\ \A i \in 2..n : f[i] = f[i - 1] \o s[i]
      <3>1. 1 \in 1..n /\ \A i \in 2..n : i \in 1..n /\ i # 1
        BY <1>1, <1>3
      <3> QED
        BY <2>4, <3>1
    <2> QED
      BY <2>2, <2>5
  <1> QED
    BY <1>2, <1>3

\* What the first i blocks make, and where the i-th begins and ends.
Blocks(s, F, off) ==
    /\ off \in [0..Len(s) -> Nat] /\ off[0] = 0 /\ off[Len(s)] = Len(F)
    /\ \A i \in 1..Len(s) :
         /\ off[i] = off[i - 1] + Len(s[i])
         /\ \A j \in 1..Len(s[i]) : F[off[i - 1] + j] = s[i][j]

LEMMA FlattenBlocks ==
    ASSUME NEW S, NEW s \in Seq(Seq(S))
    PROVE FlattenSeq(s) \in Seq(S) /\ \E off : Blocks(s, FlattenSeq(s), off)
  <1>1. Len(s) \in Nat /\ (s # <<>> => Len(s) # 0) /\ (s = <<>> => Len(s) = 0)
        /\ \A i \in 1..Len(s) : s[i] \in Seq(S)
    BY EmptySeq, LenProperties
  <1>2. CASE s = <<>>
    <2> DEFINE off == [i \in 0..0 |-> 0]
    <2>1. FlattenSeq(s) = <<>> /\ <<>> \in Seq(S) /\ Len(<<>>) = 0
      BY <1>2, FlattenUnfolds, EmptySeq
    <2>2. Blocks(s, FlattenSeq(s), off)
      BY <1>1, <1>2, <2>1 DEF Blocks
    <2> QED
      BY <2>1, <2>2
  <1>3. CASE s # <<>>
    <2> DEFINE n == Len(s)
    <2>1. PICK f : /\ FlattenSeq(s) = f[n] /\ f[1] = s[1]
                   /\ \A i \in 2..n : f[i] = f[i - 1] \o s[i]
      BY <1>3, FlattenUnfolds
    <2> DEFINE off == [i \in 0..n |-> IF i = 0 THEN 0 ELSE Len(f[i])]
               Good(m) == /\ f[m] \in Seq(S) /\ Len(f[m]) \in Nat
                          /\ Len(f[m]) = off[m - 1] + Len(s[m])
                          /\ \A i \in 1..m : \A j \in 1..Len(s[i]) :
                               f[m][off[i - 1] + j] = s[i][j] /\ off[i - 1] + j <= off[m]
                                 /\ off[i - 1] + j \in 1..Len(f[m])
               T == {m \in 1..n : ~Good(m)}
    <2>2. off[0] = 0 /\ \A i \in 1..n : off[i] = Len(f[i])
      BY <1>1
    <2>3. Good(1)
      <3>1. 1 \in 1..n
        BY <1>1, <1>3
      <3>2. f[1] \in Seq(S) /\ Len(f[1]) \in Nat
        BY <1>1, <2>1, <3>1, LenProperties
      <3> HIDE DEF off
      <3>3. \A i \in 1..1 : i = 1
        OBVIOUS
      <3> QED
        BY <2>1, <2>2, <3>1, <3>2, <3>3
    <2>4. ASSUME NEW m \in 2..n, Good(m - 1) PROVE Good(m)
      <3>1. m \in 1..n /\ m - 1 \in 1..n /\ m # 1 /\ m \in Nat
        BY <1>1
      <3> DEFINE g == f[m - 1]
      <3> HIDE DEF off
      <3>2. g \in Seq(S) /\ s[m] \in Seq(S) /\ f[m] = g \o s[m] /\ Len(g) \in Nat
        BY <1>1, <2>1, <2>4, <3>1
      <3> HIDE DEF g
      <3>3. /\ f[m] \in Seq(S) /\ Len(f[m]) = Len(g) + Len(s[m])
            /\ \A i \in 1..Len(g) + Len(s[m]) :
                 f[m][i] = IF i <= Len(g) THEN g[i] ELSE s[m][i - Len(g)]
        BY <3>2, ConcatProperties
      <3>4. Len(s[m]) \in Nat
        BY <3>2, LenProperties
      <3>5. off[m - 1] = Len(g) /\ off[m] = Len(g) + Len(s[m])
        BY <2>2, <3>1, <3>3 DEF g
      <3>6. ASSUME NEW i \in 1..m, NEW j \in 1..Len(s[i])
            PROVE /\ f[m][off[i - 1] + j] = s[i][j] /\ off[i - 1] + j <= off[m]
                  /\ off[i - 1] + j \in 1..Len(f[m])
        <4>1. CASE i = m
          <5> DEFINE q == off[i - 1] + j
          <5>1. /\ q \in 1..Len(g) + Len(s[m]) /\ ~(q <= Len(g)) /\ q - Len(g) = j
                /\ q <= Len(g) + Len(s[m])
            BY <3>2, <3>4, <3>5, <4>1
          <5> HIDE DEF q
          <5>2. f[m][q] = s[m][j]
            BY <3>3, <5>1
          <5>3. q <= off[m] /\ q \in 1..Len(f[m]) /\ f[m][q] = s[i][j]
            BY <3>3, <3>5, <4>1, <5>1, <5>2
          <5> QED
            BY <5>3 DEF q
        <4>2. CASE i # m
          <5>1. i \in 1..m - 1
            BY <3>1, <4>2
          <5>2. g[off[i - 1] + j] = s[i][j] /\ off[i - 1] + j \in 1..Len(g)
            BY <2>4, <5>1 DEF g
          <5>3. off[i - 1] + j \in 1..Len(g) + Len(s[m]) /\ off[i - 1] + j <= Len(g)
            BY <3>2, <3>4, <5>2
          <5> QED
            BY <3>3, <3>5, <5>2, <5>3, SMTT(40)
        <4> QED
          BY <4>1, <4>2
      <3>7. Len(f[m]) \in Nat /\ Len(f[m]) = off[m - 1] + Len(s[m])
        BY <3>2, <3>3, <3>4, <3>5
      <3> QED
        BY <3>3, <3>6, <3>7
    <2>5. T = {}
      <3>1. SUFFICES ASSUME T # {} PROVE FALSE
        OBVIOUS
      <3>2. T \subseteq Nat
        BY <1>1
      <3> HIDE DEF Good
      <3>3. PICK m \in T : \A k \in T : m <= k
        <4> HIDE DEF T
        <4> QED
          BY <3>1, <3>2, LeastExists
      <3>4. m \in 2..n /\ m - 1 \in 1..n
        BY <1>1, <2>3, <3>3
      <3>5. m - 1 \notin T
        BY <3>2, <3>3, <3>4
      <3> QED
        BY <2>4, <3>3, <3>4, <3>5
    <2>6. \A m \in 1..n : Good(m)
      BY <2>5
    <2>7. off \in [0..n -> Nat]
      BY <2>6
    <2> HIDE DEF off
    <2>8. n \in 1..n
      BY <1>1, <1>3
    <2>9. Blocks(s, f[n], off)
      BY <2>2, <2>6, <2>7, <2>8 DEF Blocks
    <2> QED
      BY <2>1, <2>6, <2>8, <2>9
  <1> QED
    BY <1>2, <1>3

LEMMA FlattenCons ==
    ASSUME NEW S, NEW x \in Seq(S), NEW u \in Seq(Seq(S))
    PROVE FlattenSeq(<<x>> \o u) = x \o FlattenSeq(u)
  <1> DEFINE s == <<x>> \o u
             n == Len(u)
  <1>0. \A a, b \in Seq(S) : (x \o a) \o b = x \o (a \o b)
    BY ConcatAssociative
  <1>1. n \in Nat /\ (u = <<>> => n = 0) /\ (u # <<>> => n # 0) /\ \A i \in 1..n : u[i] \in Seq(S)
    BY EmptySeq, LenProperties
  <1>2. /\ s \in Seq(Seq(S)) /\ Len(s) = n + 1 /\ s[1] = x
        /\ \A i \in 1..n : s[i + 1] = u[i]
    <2>1. <<x>> \in Seq(Seq(S)) /\ Len(<<x>>) = 1 /\ <<x>>[1] = x
      OBVIOUS
    <2>2. /\ s \in Seq(Seq(S)) /\ Len(s) = 1 + n
          /\ \A i \in 1..1 + n : s[i] = IF i <= 1 THEN <<x>>[i] ELSE u[i - 1]
      BY <2>1, ConcatProperties
    <2> HIDE DEF s
    <2>3. 1 \in 1..1 + n /\ \A i \in 1..n : i + 1 \in 1..1 + n /\ ~(i + 1 <= 1) /\ (i + 1) - 1 = i
      BY <1>1
    <2> QED
      BY <1>1, <2>1, <2>2, <2>3
  <1> HIDE DEF s
  <1>3. s # <<>>
    BY <1>1, <1>2, EmptySeq
  <1>4. PICK f : /\ FlattenSeq(s) = f[n + 1] /\ f[1] = x
                 /\ \A i \in 2..n + 1 : f[i] = f[i - 1] \o s[i]
    <2>1. s \in Seq(Seq(S))
      BY <1>2
    <2>2. \E f : /\ FlattenSeq(s) = f[Len(s)] /\ f[1] = s[1]
                 /\ \A i \in 2..Len(s) : f[i] = f[i - 1] \o s[i]
      BY <1>3, <2>1, FlattenUnfolds
    <2> QED
      BY <1>2, <2>2
  <1>5. CASE u = <<>>
    <2>1. FlattenSeq(u) = <<>> /\ x \o <<>> = x
      BY <1>5, FlattenUnfolds, ConcatEmptySeq
    <2> QED
      BY <1>1, <1>4, <1>5, <2>1 DEF s
  <1>6. CASE u # <<>>
    <2>1. PICK g : /\ FlattenSeq(u) = g[n] /\ g[1] = u[1]
                   /\ \A i \in 2..n : g[i] = g[i - 1] \o u[i]
      BY <1>6, FlattenUnfolds
    <2> DEFINE Good(m) == g[m] \in Seq(S) /\ f[m + 1] = x \o g[m]
               T == {m \in 1..n : ~Good(m)}
    <2>2. Good(1)
      <3>1. 1 \in 1..n /\ 2 \in 2..n + 1 /\ 1 + 1 = 2 /\ 2 - 1 = 1
        BY <1>1, <1>6
      <3>2. f[2] = f[1] \o s[2] /\ s[2] = u[1]
        BY <1>2, <1>4, <3>1
      <3> QED
        BY <1>1, <1>4, <2>1, <3>1, <3>2
    <2>3. ASSUME NEW m \in 2..n, Good(m - 1) PROVE Good(m)
      <3>1. m \in 1..n /\ m + 1 \in 2..n + 1 /\ (m + 1) - 1 = m /\ (m - 1) + 1 = m
        BY <1>1
      <3>2. f[m + 1] = f[m] \o u[m] /\ u[m] \in Seq(S)
        BY <1>1, <1>2, <1>4, <3>1
      <3>3. f[m] = x \o g[m - 1] /\ g[m - 1] \in Seq(S)
        BY <2>3, <3>1
      <3>4. g[m] = g[m - 1] \o u[m]
        BY <2>1
      <3>5. (x \o g[m - 1]) \o u[m] = x \o (g[m - 1] \o u[m])
        BY <1>0, <3>2, <3>3, Zenon
      <3>6. g[m] \in Seq(S)
        BY <3>2, <3>3, <3>4, ConcatProperties
      <3> QED
        BY <3>2, <3>3, <3>4, <3>5, <3>6
    <2>4. T = {}
      <3>1. SUFFICES ASSUME T # {} PROVE FALSE
        OBVIOUS
      <3>2. T \subseteq Nat
        BY <1>1
      <3> HIDE DEF Good
      <3>3. PICK m \in T : \A k \in T : m <= k
        <4> HIDE DEF T
        <4> QED
          BY <3>1, <3>2, LeastExists
      <3>4. m \in 2..n /\ m - 1 \in 1..n
        BY <1>1, <2>2, <3>3
      <3>5. m - 1 \notin T
        BY <3>2, <3>3, <3>4
      <3> QED
        BY <2>3, <3>3, <3>4, <3>5
    <2>5. Good(n)
      BY <1>1, <1>6, <2>4
    <2> QED
      BY <1>4, <2>1, <2>5 DEF s
  <1> QED
    BY <1>5, <1>6

\* The blocks follow each other and leave no place out.
Covers(s, F, off) ==
    /\ \A i, k \in 0..Len(s) : i <= k => off[i] <= off[k]
    /\ \A q \in 1..Len(F) : \E i \in 1..Len(s) : \E j \in 1..Len(s[i]) : q = off[i - 1] + j

LEMMA BlocksCover ==
    ASSUME NEW S, NEW s \in Seq(Seq(S)), NEW F \in Seq(S), NEW off, Blocks(s, F, off)
    PROVE Covers(s, F, off)
  <1> DEFINE n == Len(s)
  <1>1. n \in Nat /\ \A i \in 1..n : Len(s[i]) \in Nat
    BY LenProperties, ElementOfSeq
  <1>2. off[0] = 0 /\ off[n] = Len(F) /\ \A i \in 0..n : off[i] \in Nat
    BY DEF Blocks
  <1>3. \A i \in 1..n : off[i] = off[i - 1] + Len(s[i])
    BY DEF Blocks
  <1> HIDE DEF n
  <1>4. ASSUME NEW i \in 0..n, NEW k \in 0..n, i <= k PROVE off[i] <= off[k]
    <2> DEFINE T == {m \in i..n : off[m] < off[i]}
    <2>1. SUFFICES ASSUME T # {} PROVE FALSE
      <3>1. k \in i..n /\ off[i] \in Nat /\ off[k] \in Nat
        BY <1>1, <1>2, <1>4
      <3>2. k \notin T
        OBVIOUS
      <3> QED
        BY <3>1, <3>2
    <2>2. T \subseteq Nat
      BY <1>1
    <2>3. PICK m \in T : \A l \in T : m <= l
      <3> HIDE DEF T
      <3> QED
        BY <2>1, <2>2, LeastExists
    <2>4. m \in i..n /\ off[m] < off[i] /\ m # i
      BY <1>2, <2>3
    <2>5. m \in 1..n /\ m - 1 \in i..n /\ m - 1 \in 0..n /\ m - 1 < m
      BY <1>1, <2>4
    <2>6. m - 1 \notin T
      <3> HIDE DEF T
      <3> QED
        BY <2>2, <2>3, <2>5
    <2>7. ~(off[m - 1] < off[i]) /\ off[m] = off[m - 1] + Len(s[m]) /\ off[m] \in Nat
          /\ off[m - 1] \in Nat /\ Len(s[m]) \in Nat
      BY <1>1, <1>2, <1>3, <2>5, <2>6
    <2> QED
      BY <1>2, <2>4, <2>7
  <1>5. ASSUME NEW q \in 1..Len(F)
        PROVE \E i \in 1..n : \E j \in 1..Len(s[i]) : q = off[i - 1] + j
    <2> DEFINE T == {i \in 0..n : q <= off[i]}
    <2>1. q \in Nat /\ q >= 1
      BY LenProperties
    <2>2. n \in T
      BY <1>1, <1>2
    <2>3. T \subseteq Nat
      BY <1>1
    <2>4. PICK i \in T : \A l \in T : i <= l
      <3> HIDE DEF T
      <3> QED
        BY <2>2, <2>3, LeastExists
    <2>5. i \in 1..n /\ i - 1 \in 0..n /\ i - 1 < i
      BY <1>1, <1>2, <2>1, <2>4
    <2>6. i - 1 \notin T
      <3> HIDE DEF T
      <3> QED
        BY <2>3, <2>4, <2>5
    <2>7. /\ q <= off[i] /\ ~(q <= off[i - 1]) /\ off[i] = off[i - 1] + Len(s[i])
          /\ off[i - 1] \in Nat /\ Len(s[i]) \in Nat
      BY <1>1, <1>2, <1>3, <2>4, <2>5, <2>6
    <2>8. q - off[i - 1] \in 1..Len(s[i]) /\ q = off[i - 1] + (q - off[i - 1])
      BY <2>1, <2>7
    <2> QED
      BY <2>5, <2>8
  <1> QED
    BY <1>4, <1>5 DEF n, Covers
-----------------------------------------------------------------------------
(* What a filter keeps.                                                    *)

\* Climbing places are picked in their order.
LEMMA PickClimbing ==
    ASSUME NEW n \in Nat, NEW N \in Nat, NEW g \in [1..n -> 1..N],
           \A k, l \in 1..n : k < l => g[k] < g[l]
    PROVE LET R == {g[k] : k \in 1..n}
          IN  Cardinality(R) = n /\ \A s : Pick(s, R) = [k \in 1..n |-> s[g[k]]]
  <1> DEFINE R == {g[k] : k \in 1..n}
             im == [m \in 0..n |-> {g[k] : k \in 1..m}]
  <1>1. \A k, l \in 1..n : g[k] = g[l] => k = l
    <2>1. \A k \in 1..n : g[k] \in Nat
      OBVIOUS
    <2> QED
      BY <2>1
  <1>2. ASSUME NEW m \in 0..n
        PROVE IsFiniteSet(im[m]) /\ Cardinality(im[m]) = m
    <2> DEFINE h == [k \in 1..m |-> g[k]]
               H == {g[k] : k \in 1..m}
    <2>1. IsFiniteSet(1..m) /\ Cardinality(1..m) = m
      BY FS_Interval
    <2>2. h \in Surjection(1..m, H)
      BY DEF Surjection
    <2>3. h \in Injection(1..m, H)
      <3>1. \A k, l \in 1..m : h[k] = h[l] => k = l
        BY <1>1
      <3> QED
        BY <3>1 DEF Injection, IsInjective
    <2> HIDE DEF h, H
    <2>4. IsFiniteSet(H) /\ Cardinality(H) = Cardinality(1..m)
      BY <2>1, <2>2, <2>3, FS_Surjection
    <2> QED
      BY <2>1, <2>4 DEF H
  <1>3. R \in SUBSET (1..N) /\ Cardinality(R) = n
    <2>1. n \in 0..n /\ im[n] = R
      OBVIOUS
    <2>2. R \in SUBSET (1..N)
      OBVIOUS
    <2> HIDE DEF R, im
    <2> QED
      BY <1>2, <2>1, <2>2
  <1>4. PICK p : Enumerates(R, p)
    <2> HIDE DEF R
    <2> QED
      BY <1>3, PickLists
  <1>5. ASSUME NEW k \in 1..n PROVE p[k] = g[k]
    <2> DEFINE d == [i \in R |-> {j \in R : j <= i}]
    <2>1. Lists(R, d, p)
      BY <1>4 DEF Enumerates
    <2>2. g[k] \in R
      OBVIOUS
    <2>3. d[g[k]] = {g[l] : l \in 1..k}
      <3>1. \A l \in 1..n : g[l] \in Nat /\ g[k] \in Nat
        OBVIOUS
      <3>2. \A l \in 1..n : g[l] <= g[k] <=> l <= k
        <4>1. \A l \in 1..n : l \in Nat /\ k \in Nat
          OBVIOUS
        <4> QED
          BY <3>1, <4>1
      <3>3. d[g[k]] = {j \in R : j <= g[k]}
        BY <2>2
      <3>4. \A l \in 1..n : l \in 1..k <=> l <= k
        OBVIOUS
      <3>5. 1..k \subseteq 1..n
        OBVIOUS
      <3> QED
        BY <3>2, <3>3, <3>4, <3>5
    <2>4. Cardinality(d[g[k]]) = k
      <3>0. k \in 0..n
        OBVIOUS
      <3>1. im[k] = d[g[k]]
        <4> HIDE DEF d
        <4>1. im[k] = {g[l] : l \in 1..k}
          BY <3>0
        <4> QED
          BY <2>3, <4>1
      <3> HIDE DEF im, d
      <3> QED
        BY <1>2, <3>0, <3>1
    <2> HIDE DEF d, R
    <2> QED
      BY <2>1, <2>2, <2>4 DEF Lists
  <1>6. ASSUME NEW s PROVE Pick(s, R) = [k \in 1..n |-> s[g[k]]]
    <2>1. Pick(s, R) = [k \in 1..Cardinality(R) |-> s[p[k]]]
      BY <1>4 DEF Enumerates
    <2> HIDE DEF R
    <2> QED
      BY <1>3, <1>5, <2>1
  <1> QED
    BY <1>3, <1>6

\* What is picked are the elements at those places, nothing else of the list.
LEMMA PickAgrees ==
    ASSUME NEW n \in Nat, NEW places \in SUBSET (1..n), NEW s, NEW t,
           \A i \in places : s[i] = t[i]
    PROVE Pick(s, places) = Pick(t, places)
  <1>1. PICK p : Enumerates(places, p)
    BY PickLists
  <1>2. p \in [1..Cardinality(places) -> places]
    BY <1>1 DEF Enumerates, Lists
  <1>3. /\ Pick(s, places) = [k \in 1..Cardinality(places) |-> s[p[k]]]
        /\ Pick(t, places) = [k \in 1..Cardinality(places) |-> t[p[k]]]
    BY <1>1 DEF Enumerates
  <1>4. \A k \in 1..Cardinality(places) : s[p[k]] = t[p[k]]
    BY <1>2
  <1> QED
    BY <1>3, <1>4
=============================================================================
