--------------------------- MODULE PipelineProofs ---------------------------
(***************************************************************************)
(* A page through the pipeline, for any detections, quads and answers: no  *)
(* text is lost, the regions are read in order, and each text stays with   *)
(* its region (PagePipeline, PageGeometry); what it is run with, for any   *)
(* saved options and requests (RunOptions); and the statistics of all      *)
(* pages, for any rows and windows (PageStats).                            *)
(***************************************************************************)
EXTENDS PagePipeline, PageStats, RunOptions, ListLemmas
-----------------------------------------------------------------------------
(* PageGeometry: the detections a page keeps, and its regions.             *)

IsDetection(d) == {d.x0, d.y0, d.x1, d.y1, d.score} \subseteq Int
IsQuad(q) == \A i \in 1..4 : q[i][1] \in Int /\ q[i][2] \in Int

\* A region: the corners of its bbox are in order, its quad is of points.
IsRegion(r) ==
    /\ \A i \in 1..4 : r.bbox[i] \in Int
    /\ r.bbox[1] <= r.bbox[3] /\ r.bbox[2] <= r.bbox[4]
    /\ IsQuad(r.quad)

ByScore(s) == StableSort(s, LAMBDA x, y : x.score > y.score)
ScoreKeys(n, s) == [i \in 1..n |-> -(s[i].score)]
NoKeys(n) == [i \in 1..n |-> 0]

\* sorted(dets, key = -score).
LEMMA SortedByScore ==
    ASSUME NEW n \in Nat, NEW s, DOMAIN s = 1..n, \A i \in 1..n : s[i].score \in Int
    PROVE \E p : /\ Sorts(n, ScoreKeys(n, s), NoKeys(n), p)
                 /\ ByScore(s) = [k \in 1..n |-> s[p[k]]]
  <1> DEFINE a == ScoreKeys(n, s)
             b == NoKeys(n)
             Rank(i) == {j \in DOMAIN s : \/ s[j].score > s[i].score
                                          \/ j <= i /\ ~(s[i].score > s[j].score)}
             c(k) == CHOOSE i \in 1..n : Cardinality(Rank(i)) = k
  <1>1. a \in [1..n -> Int] /\ b \in [1..n -> Int]
    BY DEF ScoreKeys, NoKeys
  <1>2. PICK p : Sorts(n, a, b, p)
    BY <1>1, KeysSort
  <1>3. \A i \in 1..n : NoLater(n, a, b)[i] = Rank(i)
    <2> TAKE i \in 1..n
    <2>1. NoLater(n, a, b)[i] = {j \in 1..n : \/ a[j] < a[i]
                                              \/ a[j] = a[i] /\ b[j] < b[i]
                                              \/ a[j] = a[i] /\ b[j] = b[i] /\ j <= i}
      BY DEF NoLater
    <2>2. \A j \in 1..n : s[j].score \in Int /\ a[j] = -(s[j].score) /\ b[j] = 0 /\ j \in Nat
      BY DEF ScoreKeys, NoKeys
    <2> HIDE DEF a, b
    <2> QED
      BY <2>1, <2>2
  <1>4. \A k \in 1..n : p[k] = c(k)
    <2>1. \A k \in 1..n : p[k] = CHOOSE i \in 1..n : Cardinality(NoLater(n, a, b)[i]) = k
      BY <1>2 DEF Sorts
    <2>2. \A k : (CHOOSE i \in 1..n : Cardinality(NoLater(n, a, b)[i]) = k)
                   = CHOOSE i \in 1..n : Cardinality(Rank(i)) = k
      <3> HIDE DEF Rank, a, b
      <3> QED
        BY <1>3
    <2> QED
      BY <2>1, <2>2
  <1>5. ByScore(s) = [k \in 1..n |-> s[c(k)]]
    BY DEF StableSort, ByScore
  <1> HIDE DEF c
  <1>6. [k \in 1..n |-> s[c(k)]] = [k \in 1..n |-> s[p[k]]]
    BY <1>4
  <1> QED
    BY <1>2, <1>5, <1>6

\* Integer division and its rounding up, around a quotient.
LEMMA Quotient ==
    ASSUME NEW a \in Int, NEW c \in Nat \ {0}
    PROVE /\ a \div c \in Int /\ c * (a \div c) <= a /\ a < c * (a \div c) + c
          /\ CeilDiv(a, c) \in Int /\ a <= c * CeilDiv(a, c)
  <1>1. \A x \in Int : x \div c \in Int /\ c * (x \div c) <= x /\ x < c * (x \div c) + c
    OBVIOUS
  <1>2. (-a) \div c \in Int /\ c * ((-a) \div c) <= -a
    BY <1>1
  <1> DEFINE e == (-a) \div c
  <1>3. CeilDiv(a, c) = -e
    BY DEF CeilDiv
  <1>4. e \in Int /\ c * e <= -a
    BY <1>2
  <1> HIDE DEF e
  <1>5. -e \in Int /\ a <= c * (-e)
    BY <1>4
  <1> QED
    BY <1>1, <1>3, <1>5

\* Four integers have a least and a greatest.
LEMMA FourHaveExtremes ==
    ASSUME NEW f, \A i \in 1..4 : f[i] \in Int
    PROVE LET S == {f[i] : i \in 1..4}
          IN Min(S) \in Int /\ Max(S) \in Int /\ \A i \in 1..4 : Min(S) <= f[i] /\ f[i] <= Max(S)
  <1> DEFINE S == {f[i] : i \in 1..4}
  <1>1. f[1] \in Int /\ f[2] \in Int /\ f[3] \in Int /\ f[4] \in Int
    OBVIOUS
  <1>2. S = {f[1], f[2], f[3], f[4]}
    OBVIOUS
  <1> HIDE DEF S
  <1>3. \E x \in S : \A y \in S : x <= y
    BY <1>1, <1>2
  <1>4. \E x \in S : \A y \in S : x >= y
    BY <1>1, <1>2
  <1>5. Min(S) \in S /\ \A y \in S : Min(S) <= y
    BY <1>3 DEF Min
  <1>6. Max(S) \in S /\ \A y \in S : Max(S) >= y
    BY <1>4 DEF Max
  <1>7. S \subseteq Int /\ \A i \in 1..4 : f[i] \in S
    BY <1>1, <1>2
  <1>8. Min(S) \in Int /\ Max(S) \in Int /\ \A i \in 1..4 : Min(S) <= f[i] /\ f[i] <= Max(S)
    BY <1>5, <1>6, <1>7
  <1> QED
    BY <1>8 DEF S

\* Region.from_quad rounds outwards.
LEMMA BoxesAreUpright ==
    ASSUME NEW q, IsQuad(q) PROVE IsRegion(FromQuad(q))
  <1> DEFINE b == BboxFromPoly(q)
  <1>1. Sub \in Nat \ {0}
    BY GeometryAssumption
  <1>2. /\ Min(Xs(q)) \in Int /\ Max(Xs(q)) \in Int /\ Min(Xs(q)) <= Max(Xs(q))
        /\ Min(Ys(q)) \in Int /\ Max(Ys(q)) \in Int /\ Min(Ys(q)) <= Max(Ys(q))
    <2> DEFINE fx == [i \in 1..4 |-> q[i][1]]
               fy == [i \in 1..4 |-> q[i][2]]
    <2>1. Xs(q) = {fx[i] : i \in 1..4} /\ Ys(q) = {fy[i] : i \in 1..4}
      BY DEF Xs, Ys
    <2>2. \A i \in 1..4 : fx[i] \in Int /\ fy[i] \in Int
      BY DEF IsQuad
    <2> HIDE DEF fx, fy
    <2>3. /\ Min(Xs(q)) \in Int /\ Max(Xs(q)) \in Int
          /\ \A i \in 1..4 : Min(Xs(q)) <= fx[i] /\ fx[i] <= Max(Xs(q))
      BY <2>1, <2>2, FourHaveExtremes
    <2>4. /\ Min(Ys(q)) \in Int /\ Max(Ys(q)) \in Int
          /\ \A i \in 1..4 : Min(Ys(q)) <= fy[i] /\ fy[i] <= Max(Ys(q))
      BY <2>1, <2>2, FourHaveExtremes
    <2>5. 1 \in 1..4
      OBVIOUS
    <2> QED
      BY <2>2, <2>3, <2>4, <2>5
  <1>3. ASSUME NEW lo \in Int, NEW hi \in Int, lo <= hi
        PROVE lo \div Sub \in Int /\ CeilDiv(hi, Sub) \in Int /\ lo \div Sub <= CeilDiv(hi, Sub)
    <2> DEFINE f == lo \div Sub
               c == CeilDiv(hi, Sub)
    <2>1. f \in Int /\ Sub * f <= lo /\ c \in Int /\ hi <= Sub * c
      BY <1>1, Quotient
    <2> HIDE DEF f, c
    <2>2. Sub * f <= Sub * c
      BY <1>1, <1>3, <2>1
    <2>3. f <= c
      BY <1>1, <2>1, <2>2
    <2> QED
      BY <2>1, <2>3 DEF f, c
  <1>4. /\ b[1] = Min(Xs(q)) \div Sub /\ b[3] = CeilDiv(Max(Xs(q)), Sub)
        /\ b[2] = Min(Ys(q)) \div Sub /\ b[4] = CeilDiv(Max(Ys(q)), Sub)
    BY DEF BboxFromPoly
  <1>5. /\ b[1] \in Int /\ b[3] \in Int /\ b[1] <= b[3]
        /\ b[2] \in Int /\ b[4] \in Int /\ b[2] <= b[4]
    BY <1>2, <1>3, <1>4
  <1> HIDE DEF b
  <1>6. \A i \in 1..4 : b[i] \in Int
    BY <1>5
  <1>7. FromQuad(q).bbox = b /\ FromQuad(q).quad = q
    BY DEF FromQuad, b
  <1> QED
    BY <1>5, <1>6, <1>7 DEF IsRegion

\* One order of the same numbers has the same median.
LEMMA MediansAgree ==
    ASSUME NEW n \in Nat, NEW h \in [1..n -> Int], NEW g \in [1..n -> Int], NEW q,
           Onto(n, q), \A k \in 1..n : g[k] = h[q[k]], NEW k \in 1..n
    PROVE /\ Sorted(h)[k] \in Int
          /\ Sorted(h)[k] = Sorted(g)[k]
  <1>1. PICK p : /\ OneToOne(n, p) /\ Onto(n, p) /\ Climbs(n, [m \in 1..n |-> h[p[m]]])
                 /\ Sorted(h) = [m \in 1..n |-> h[p[m]]]
    BY SortedAscends
  <1>2. PICK o : /\ OneToOne(n, o) /\ Onto(n, o) /\ Climbs(n, [m \in 1..n |-> g[o[m]]])
                 /\ Sorted(g) = [m \in 1..n |-> g[o[m]]]
    BY SortedAscends
  <1> DEFINE u == [m \in 1..n |-> h[p[m]]]
             v == [m \in 1..n |-> g[o[m]]]
             r == [l \in 1..n |-> CHOOSE m \in 1..n : q[o[m]] = p[l]]
  <1>3. \A l \in 1..n : p[l] \in 1..n /\ o[l] \in 1..n /\ q[l] \in 1..n
    BY <1>1, <1>2 DEF Onto
  <1>4. \A l \in 1..n : r[l] \in 1..n /\ q[o[r[l]]] = p[l]
    <2> TAKE l \in 1..n
    <2>1. PICK i \in 1..n : q[i] = p[l]
      BY <1>3 DEF Onto
    <2>2. PICK m \in 1..n : o[m] = i
      BY <1>2 DEF Onto
    <2>3. q[o[m]] = p[l]
      BY <2>1, <2>2
    <2> QED
      BY <2>3
  <1>5. u \in [1..n -> Int] /\ v \in [1..n -> Int]
    BY <1>3
  <1>6. OneToOne(n, r)
    <2>1. r \in [1..n -> 1..n]
      <3>1. \A l \in 1..n : (CHOOSE m \in 1..n : q[o[m]] = p[l]) \in 1..n
        BY <1>4
      <3> QED
        BY <3>1
    <2> HIDE DEF r
    <2>2. \A l, m \in 1..n : r[l] = r[m] => p[l] = p[m]
      BY <1>4
    <2> QED
      BY <1>1, <2>1, <2>2 DEF OneToOne
  <1> HIDE DEF r
  <1>7. \A l \in 1..n : v[r[l]] = u[l]
    BY <1>3, <1>4
  <1>8. Climbs(n, u) /\ Climbs(n, v)
    BY <1>1, <1>2
  <1> HIDE DEF u, v
  <1>9. u[k] = v[k]
    BY <1>5, <1>6, <1>7, <1>8, AscendingIsUnique
  <1> QED
    BY <1>1, <1>2, <1>5, <1>9 DEF u, v

-----------------------------------------------------------------------------
(* PageGeometry: the order a page is read in.                              *)

Page(n, s) == s = [i \in 1..n |-> s[i]] /\ \A i \in 1..n : IsRegion(s[i])

\* What ReadsInOrder says of the regions of a page.
InOrder(t, rtl) ==
    \A i, j \in DOMAIN t :
      /\ MidY2(t[j]) - MidY2(t[i]) >= 2 * Band(t) => i < j
      /\ MidY2(t[i]) = MidY2(t[j]) /\ MidX2(t[i]) < MidX2(t[j]) =>
           IF rtl THEN j < i ELSE i < j

LEMMA RegionMeasures ==
    ASSUME NEW r, IsRegion(r)
    PROVE /\ MidX2(r) \in Int /\ MidY2(r) \in Int
          /\ BoxWidth(r) \in Nat /\ BoxHeight(r) \in Nat
  <1>1. r.bbox[1] \in Int /\ r.bbox[2] \in Int /\ r.bbox[3] \in Int /\ r.bbox[4] \in Int
    BY DEF IsRegion
  <1> QED
    BY <1>1 DEF IsRegion, MidX2, MidY2, BoxWidth, BoxHeight

\* Centres a band or more apart are in different rows.
LEMMA RowsPart ==
    ASSUME NEW a \in Int, NEW b \in Int, NEW c \in Nat \ {0}, b - a >= c
    PROVE a \div c < b \div c
  <1> DEFINE x == a \div c
             y == b \div c
  <1>1. x \in Int /\ y \in Int /\ c * x <= a /\ b < c * y + c
    BY Quotient
  <1> HIDE DEF x, y
  <1>2. c * x < c * y
    BY <1>1
  <1>3. x < y
    BY <1>1, <1>2
  <1> QED
    BY <1>3 DEF x, y

\* The band of a page is its median height, in whatever order it is listed.
LEMMA BandsAgree ==
    ASSUME NEW n \in Nat \ {0}, NEW s, Page(n, s), NEW q, Onto(n, q),
           NEW t, t = [k \in 1..n |-> s[q[k]]]
    PROVE Band(t) \in Nat \ {0} /\ Band(t) = Band(s)
  <1> DEFINE h == [i \in 1..n |-> BoxHeight(s[i])]
             g == [i \in 1..n |-> BoxHeight(t[i])]
             m == n \div 2 + 1
  <1>1. DOMAIN s = 1..n /\ DOMAIN t = 1..n
    BY DEF Page
  <1>2. \A k \in 1..n : q[k] \in 1..n /\ BoxHeight(s[k]) \in Int
    <2>1. \A k \in 1..n : IsRegion(s[k]) /\ q[k] \in 1..n
      BY DEF Page, Onto
    <2> QED
      BY <2>1, RegionMeasures
  <1>3. h \in [1..n -> Int] /\ g \in [1..n -> Int] /\ \A k \in 1..n : g[k] = h[q[k]]
    BY <1>2
  <1>4. m \in 1..n
    OBVIOUS
  <1>5. Len(Sorted(h)) = n /\ Len(Sorted(g)) = n
    <2>1. ASSUME NEW f \in [1..n -> Int] PROVE Len(Sorted(f)) = n
      <3>1. PICK p : Sorted(f) = [k \in 1..n |-> f[p[k]]]
        BY SortedAscends, ZenonT(60)
      <3> QED
        BY <3>1
    <2> QED
      BY <1>3, <2>1
  <1>6. Sorted(h)[m] \in Int /\ Sorted(h)[m] = Sorted(g)[m]
    <2> HIDE DEF h, g, m
    <2> QED
      BY <1>3, <1>4, MediansAgree
  <1>7. Band(s) = Greatest(1, Sorted(h)[m]) /\ Band(t) = Greatest(1, Sorted(g)[m])
    <2>1. [i \in DOMAIN s |-> BoxHeight(s[i])] = h /\ [i \in DOMAIN t |-> BoxHeight(t[i])] = g
      BY <1>1
    <2> HIDE DEF h, g
    <2>2. Band(s) = Greatest(1, Sorted(h)[Len(Sorted(h)) \div 2 + 1])
      BY <2>1 DEF Band, Sorted
    <2>3. Band(t) = Greatest(1, Sorted(g)[Len(Sorted(g)) \div 2 + 1])
      BY <2>1 DEF Band, Sorted
    <2> QED
      BY <1>5, <2>2, <2>3
  <1>8. \A x \in Int : Greatest(1, x) \in Nat \ {0}
    BY DEF Greatest
  <1> HIDE DEF h, g, m
  <1> QED
    BY <1>6, <1>7, <1>8

\* geometry.assign_reading_order only permutes a page, and into that order.
LEMMA PagesAreOrdered ==
    ASSUME NEW n \in Nat, NEW s, Page(n, s), NEW rtl \in BOOLEAN
    PROVE \E q : /\ Onto(n, q)
                 /\ AssignReadingOrder(s, rtl) = [k \in 1..n |-> s[q[k]]]
                 /\ InOrder(AssignReadingOrder(s, rtl), rtl)
  <1> DEFINE t == AssignReadingOrder(s, rtl)
  <1>0. DOMAIN s = 1..n
    BY DEF Page
  <1>1. CASE n = 0
    <2>1. s = <<>>
      BY <1>1 DEF Page
    <2>2. t = <<>>
      BY <2>1 DEF AssignReadingOrder
    <2>3. t = [k \in 1..n |-> s[[i \in 1..n |-> i][k]]]
      BY <1>1, <2>2
    <2>4. Onto(n, [i \in 1..n |-> i])
      BY <1>1 DEF Onto
    <2>5. InOrder(t, rtl)
      BY <2>2 DEF InOrder
    <2> QED
      BY <2>3, <2>4, <2>5
  <1>2. CASE n # 0
    <2> DEFINE band == Band(s)
               a == [i \in 1..n |-> Row(s[i], band)]
               b == [i \in 1..n |-> IF rtl THEN -MidX2(s[i]) ELSE MidX2(s[i])]
               Before(x, y) == \/ Row(x, band) < Row(y, band)
                               \/ /\ Row(x, band) = Row(y, band)
                                  /\ IF rtl THEN MidX2(x) > MidX2(y) ELSE MidX2(x) < MidX2(y)
               Rank(i) == {j \in DOMAIN s : Before(s[j], s[i]) \/ (j <= i /\ ~Before(s[i], s[j]))}
               c(k) == CHOOSE i \in DOMAIN s : Cardinality(Rank(i)) = k
    <2>1. band \in Nat \ {0} /\ \A q, u : Onto(n, q) /\ u = [k \in 1..n |-> s[q[k]]] => Band(u) = band
      <3>1. Onto(n, [i \in 1..n |-> i]) /\ n \in Nat \ {0}
        BY <1>2 DEF Onto
      <3>2. ASSUME NEW q, Onto(n, q), NEW u, u = [k \in 1..n |-> s[q[k]]]
            PROVE Band(u) \in Nat \ {0} /\ Band(u) = Band(s)
        BY <3>1, <3>2, BandsAgree
      <3> QED
        BY <3>1, <3>2
    <2>2. \A i \in 1..n : /\ MidX2(s[i]) \in Int /\ MidY2(s[i]) \in Int
                          /\ Row(s[i], band) \in Int
      <3> TAKE i \in 1..n
      <3>1. MidX2(s[i]) \in Int /\ MidY2(s[i]) \in Int
        BY RegionMeasures DEF Page
      <3>2. 2 * band \in Nat \ {0}
        BY <2>1
      <3>3. MidY2(s[i]) \div (2 * band) \in Int
        BY <3>1, <3>2, Quotient
      <3> QED
        BY <3>1, <3>3 DEF Row
    <2>3. a \in [1..n -> Int] /\ b \in [1..n -> Int]
      BY <2>2
    <2>4. PICK p : Sorts(n, a, b, p)
      BY <2>3, KeysSort
    <2>5. \A i \in 1..n : NoLater(n, a, b)[i] = Rank(i)
      <3> TAKE i \in 1..n
      <3>1. NoLater(n, a, b)[i] = {j \in 1..n : \/ a[j] < a[i]
                                                \/ a[j] = a[i] /\ b[j] < b[i]
                                                \/ a[j] = a[i] /\ b[j] = b[i] /\ j <= i}
        BY DEF NoLater
      <3>2. ASSUME NEW j \in 1..n
            PROVE (\/ a[j] < a[i]
                   \/ a[j] = a[i] /\ b[j] < b[i]
                   \/ a[j] = a[i] /\ b[j] = b[i] /\ j <= i)
                  <=> (Before(s[j], s[i]) \/ (j <= i /\ ~Before(s[i], s[j])))
        <4>1. a[i] \in Int /\ a[j] \in Int /\ b[i] \in Int /\ b[j] \in Int /\ i \in Nat /\ j \in Nat
          BY <2>3
        <4> HIDE DEF band
        <4>2. Before(s[j], s[i]) <=> a[j] < a[i] \/ (a[j] = a[i] /\ b[j] < b[i])
          BY <2>2
        <4>3. Before(s[i], s[j]) <=> a[i] < a[j] \/ (a[i] = a[j] /\ b[i] < b[j])
          BY <2>2
        <4> HIDE DEF a, b, Before
        <4> QED
          BY <4>1, <4>2, <4>3
      <3> HIDE DEF a, b, Before, band
      <3> QED
        BY <1>0, <3>1, <3>2
    <2>6. \A k \in 1..n : p[k] = c(k)
      <3>1. \A k \in 1..n : p[k] = CHOOSE i \in 1..n : Cardinality(NoLater(n, a, b)[i]) = k
        BY <2>4 DEF Sorts
      <3>2. \A k : (CHOOSE i \in 1..n : Cardinality(NoLater(n, a, b)[i]) = k)
                     = CHOOSE i \in DOMAIN s : Cardinality(Rank(i)) = k
        <4> HIDE DEF Rank, a, b
        <4> QED
          BY <1>0, <2>5
      <3> QED
        BY <3>1, <3>2
    <2>7. t = [k \in 1..n |-> s[c(k)]]
      <3>1. s # <<>>
        BY <1>0, <1>2
      <3> QED
        BY <1>0, <3>1 DEF AssignReadingOrder, StableSort
    <2>8. t = [k \in 1..n |-> s[p[k]]]
      <3> HIDE DEF c, t
      <3> QED
        BY <2>6, <2>7
    <2>9. Onto(n, p) /\ OneToOne(n, p)
      BY <2>4 DEF Sorts
    <2>10. InOrder(t, rtl)
      <3> SUFFICES ASSUME NEW i \in 1..n, NEW j \in 1..n
                   PROVE /\ MidY2(t[j]) - MidY2(t[i]) >= 2 * Band(t) => i < j
                         /\ MidY2(t[i]) = MidY2(t[j]) /\ MidX2(t[i]) < MidX2(t[j]) =>
                              IF rtl THEN j < i ELSE i < j
        <4> HIDE DEF t
        <4> QED
          BY <2>8 DEF InOrder
      <3> DEFINE x == p[i]
                 y == p[j]
      <3>1. x \in 1..n /\ y \in 1..n /\ t[i] = s[x] /\ t[j] = s[y]
        <4> HIDE DEF t
        <4> QED
          BY <2>8, <2>9 DEF Onto
      <3>2. Band(t) = band
        <4> HIDE DEF t, band
        <4> QED
          BY <2>1, <2>8, <2>9
      <3>3. i < j => a[x] < a[y] \/ (a[x] = a[y] /\ b[x] <= b[y])
        <4> HIDE DEF a, b
        <4> QED
          BY <2>4 DEF Sorts
      <3>4. j < i => a[y] < a[x] \/ (a[y] = a[x] /\ b[y] <= b[x])
        <4> HIDE DEF a, b
        <4> QED
          BY <2>4 DEF Sorts
      <3>5. i = j => x = y
        OBVIOUS
      <3> HIDE DEF x, y, t, band
      <3>6. MidY2(s[y]) - MidY2(s[x]) >= 2 * band => a[x] < a[y]
        <4>1. MidY2(s[x]) \in Int /\ MidY2(s[y]) \in Int
          BY <2>2, <3>1
        <4>2. band \in Nat \ {0}
          BY <2>1
        <4>3. 2 * band \in Nat \ {0}
          BY <4>2
        <4> QED
          BY <3>1, <4>1, <4>3, RowsPart DEF Row
      <3>7. MidY2(s[x]) = MidY2(s[y]) => a[x] = a[y]
        BY <3>1 DEF Row
      <3>8. MidX2(s[x]) < MidX2(s[y]) => IF rtl THEN b[y] < b[x] ELSE b[x] < b[y]
        BY <2>2, <3>1
      <3>9. a[x] \in Int /\ a[y] \in Int /\ b[x] \in Int /\ b[y] \in Int /\ i \in Nat /\ j \in Nat
        BY <2>3, <3>1
      <3> HIDE DEF a, b
      <3>10. a[x] < a[y] => i < j
        BY <3>4, <3>5, <3>9
      <3>11. a[x] = a[y] /\ b[x] < b[y] => i < j
        BY <3>4, <3>5, <3>9
      <3>12. a[x] = a[y] /\ b[y] < b[x] => j < i
        BY <3>3, <3>5, <3>9
      <3> QED
        BY <3>1, <3>2, <3>6, <3>7, <3>8, <3>10, <3>11, <3>12
    <2> QED
      BY <2>8, <2>9, <2>10
  <1> QED
    BY <1>1, <1>2

-----------------------------------------------------------------------------
(* PageGeometry: the detections a page keeps.                              *)

\* Which of the first m detections the greedy pass keeps.
Greedy(s, m, K) ==
    K \in SUBSET (1..m)
    /\ \A i \in 1..m : i \in K <=> \A j \in K : j < i => ~Duplicates(s[i], s[j])

\* The greedy pass over any list comes to an end: it adds one at a time.
LEMMA GreedyExists ==
    ASSUME NEW s, NEW n \in Nat PROVE \E K : Greedy(s, n, K)
  <1> DEFINE T == {m \in Nat : \A K : ~Greedy(s, m, K)}
  <1>1. Greedy(s, 0, {})
    BY DEF Greedy
  <1>2. ASSUME NEW m \in Nat, NEW K, Greedy(s, m, K) PROVE \E L : Greedy(s, m + 1, L)
    <2> DEFINE dup == \E j \in K : Duplicates(s[m + 1], s[j])
               L == IF dup THEN K ELSE K \cup {m + 1}
    <2>1. K \subseteq 1..m /\ 1..(m + 1) = (1..m) \cup {m + 1} /\ m + 1 \notin 1..m
      BY <1>2 DEF Greedy
    <2>2. \A j \in 1..m : j < m + 1 /\ j \in Nat
      OBVIOUS
    <2>3. L \in SUBSET (1..(m + 1)) /\ (m + 1 \in L <=> ~dup)
      BY <2>1
    <2>4. ASSUME NEW i \in 1..m
          PROVE i \in L <=> \A j \in L : j < i => ~Duplicates(s[i], s[j])
      <3>1. i \in L <=> i \in K
        BY <2>1
      <3>2. ~(m + 1 < i)
        BY <2>2
      <3>3. (\A j \in L : j < i => ~Duplicates(s[i], s[j]))
              <=> \A j \in K : j < i => ~Duplicates(s[i], s[j])
        BY <3>2
      <3>4. i \in K <=> \A j \in K : j < i => ~Duplicates(s[i], s[j])
        BY <1>2 DEF Greedy
      <3> QED
        BY <3>1, <3>3, <3>4
    <2>5. m + 1 \in L <=> \A j \in L : j < m + 1 => ~Duplicates(s[m + 1], s[j])
      <3>1. ~(m + 1 < m + 1)
        OBVIOUS
      <3>2. (\A j \in L : j < m + 1 => ~Duplicates(s[m + 1], s[j])) <=> ~dup
        BY <2>1, <2>2, <3>1
      <3> QED
        BY <2>3, <3>2
    <2> HIDE DEF L
    <2> QED
      BY <2>1, <2>3, <2>4, <2>5 DEF Greedy
  <1>3. T = {}
    <2> SUFFICES ASSUME T # {} PROVE FALSE
      OBVIOUS
    <2>1. PICK m \in T : \A k \in T : m <= k
      <3>1. T \subseteq Nat
        OBVIOUS
      <3> HIDE DEF T
      <3> QED
        BY <3>1, LeastExists
    <2>2. m \in Nat /\ m # 0
      BY <1>1
    <2>3. m - 1 \in Nat /\ ~(m <= m - 1)
      BY <2>2
    <2>4. m - 1 \notin T
      <3> HIDE DEF T
      <3> QED
        BY <2>1, <2>3
    <2>5. PICK K : Greedy(s, m - 1, K)
      BY <2>3, <2>4
    <2>6. (m - 1) + 1 = m
      BY <2>2
    <2>7. \E L : Greedy(s, m, L)
      BY <1>2, <2>3, <2>5, <2>6
    <2> QED
      BY <2>7
  <1> QED
    BY <1>3

\* dedup keeps what no earlier kept detection duplicates.
LEMMA KeptIsGreedy ==
    ASSUME NEW n \in Nat, NEW s, DOMAIN s = 1..n
    PROVE Greedy(s, n, Kept(s))
  <1>1. PICK K : Greedy(s, n, K)
    BY GreedyExists
  <1>2. \E kept \in SUBSET DOMAIN s :
          \A i \in DOMAIN s : i \in kept <=> \A j \in kept : j < i => ~Duplicates(s[i], s[j])
    BY <1>1 DEF Greedy
  <1> QED
    BY <1>2 DEF Kept, Greedy

\* t lists, in some order and at most once each, things of the list s.
Sublist(n, s, m, t) ==
    /\ m \in 0..n
    /\ t = [k \in 1..m |-> t[k]]
    /\ \A k \in 1..m : \E i \in 1..n : t[k] = s[i]

Holds(places, s, m, t) == \A i \in places : \E k \in 1..m : t[k] = s[i]

\* filter_labels, filter_small: a filter keeps just what passes its test.
LEMMA PickKeeps ==
    ASSUME NEW n \in Nat, NEW s, NEW places \in SUBSET (1..n)
    PROVE \E m : Sublist(n, s, m, Pick(s, places)) /\ Holds(places, s, m, Pick(s, places))
  <1> DEFINE d == [i \in places |-> {j \in places : j <= i}]
             m == Cardinality(places)
             t == Pick(s, places)
  <1>1. PICK p : Lists(places, d, p) /\ \A x : Pick(x, places) = [k \in 1..m |-> x[p[k]]]
    <2>1. PICK q : Enumerates(places, q)
      BY PickLists
    <2> QED
      BY <2>1 DEF Enumerates
  <1>2. m \in 0..n
    BY PickLists
  <1>3. t = [k \in 1..m |-> s[p[k]]]
    BY <1>1
  <1>4. p \in [1..m -> places] /\ \A i \in places : \E k \in 1..m : p[k] = i
    <2> HIDE DEF d
    <2> QED
      BY <1>1 DEF Lists
  <1> HIDE DEF m, t
  <1>5. \A k \in 1..m : p[k] \in places /\ t[k] = s[p[k]]
    BY <1>3, <1>4
  <1>6. t = [k \in 1..m |-> t[k]]
    BY <1>3
  <1>7. Holds(places, s, m, t)
    <2> SUFFICES ASSUME NEW i \in places PROVE \E k \in 1..m : t[k] = s[i]
      BY DEF Holds
    <2>1. PICK k \in 1..m : p[k] = i
      BY <1>4
    <2> QED
      BY <1>5, <2>1
  <1>8. Sublist(n, s, m, t)
    BY <1>2, <1>5, <1>6 DEF Sublist
  <1> QED
    BY <1>7, <1>8 DEF t

LEMMA SublistsNest ==
    ASSUME NEW n \in Nat, NEW s, NEW m, NEW t, NEW l, NEW u,
           Sublist(n, s, m, t), Sublist(m, t, l, u)
    PROVE Sublist(n, s, l, u)
  BY DEF Sublist

\* postprocess.py: what is left of a page's detections, and for what reason.
LEMMA PostprocessKeeps ==
    ASSUME NEW n \in Nat, NEW s, DOMAIN s = 1..n, \A i \in 1..n : IsDetection(s[i])
    PROVE \E m : /\ Sublist(n, s, m, Postprocess(s))
                 /\ \A i \in 1..n : IsText(s[i]) /\ IsLargeEnough(s[i]) =>
                      \E k \in 1..m : /\ Postprocess(s)[k].score >= s[i].score
                                      /\ \/ Postprocess(s)[k] = s[i]
                                         \/ Duplicates(s[i], Postprocess(s)[k])
  <1> DEFINE text == {i \in 1..n : IsText(s[i])}
             a == Pick(s, text)
  <1>1. PICK na : Sublist(n, s, na, a) /\ Holds(text, s, na, a)
    <2>1. text \in SUBSET (1..n)
      OBVIOUS
    <2> HIDE DEF text
    <2> QED
      BY <2>1, PickKeeps
  <1>2. Where(s, IsText) = a
    BY DEF Where
  <1> DEFINE large == {i \in 1..na : IsLargeEnough(a[i])}
             b == Pick(a, large)
  <1> HIDE DEF text, a
  <1>3. na \in Nat /\ DOMAIN a = 1..na
    BY <1>1 DEF Sublist
  <1>4. PICK nb : Sublist(na, a, nb, b) /\ Holds(large, a, nb, b)
    <2>1. large \in SUBSET (1..na)
      OBVIOUS
    <2> HIDE DEF large
    <2> QED
      BY <1>3, <2>1, PickKeeps
  <1>5. Where(a, IsLargeEnough) = b
    BY <1>3 DEF Where
  <1>6. \A i \in 1..n : IsText(s[i]) /\ IsLargeEnough(s[i]) => \E k \in 1..nb : b[k] = s[i]
    <2> SUFFICES ASSUME NEW i \in 1..n, IsText(s[i]), IsLargeEnough(s[i])
                 PROVE \E k \in 1..nb : b[k] = s[i]
      OBVIOUS
    <2>1. PICK j \in 1..na : a[j] = s[i]
      BY <1>1 DEF text, Holds
    <2>2. j \in large
      BY <2>1
    <2> HIDE DEF b, large
    <2> QED
      BY <1>4, <2>1, <2>2 DEF Holds
  <1> HIDE DEF large, b
  <1>7. Sublist(n, s, nb, b)
    BY <1>1, <1>4, SublistsNest
  <1>8. nb \in Nat /\ DOMAIN b = 1..nb /\ \A k \in 1..nb : b[k].score \in Int
    BY <1>7 DEF Sublist, IsDetection
  <1> DEFINE c == ByScore(b)
  <1>9. PICK p : /\ Sorts(nb, ScoreKeys(nb, b), NoKeys(nb), p)
                 /\ c = [k \in 1..nb |-> b[p[k]]]
    BY <1>8, SortedByScore
  <1>10. Postprocess(s) = Pick(c, Kept(c))
    BY <1>2, <1>5 DEF Postprocess, Dedup, ByScore
  <1> HIDE DEF c
  <1>11. Onto(nb, p)
    BY <1>9 DEF Sorts
  <1>12. DOMAIN c = 1..nb /\ \A k \in 1..nb : p[k] \in 1..nb /\ c[k] = b[p[k]] /\ c[k].score \in Int
    BY <1>8, <1>9, <1>11 DEF Onto
  <1>13. \A j, k \in 1..nb : j < k => c[j].score >= c[k].score
    <2> DEFINE x == ScoreKeys(nb, b)
    <2> SUFFICES ASSUME NEW j \in 1..nb, NEW k \in 1..nb, j < k
                 PROVE c[j].score >= c[k].score
      OBVIOUS
    <2>1. x[p[j]] < x[p[k]] \/ x[p[j]] = x[p[k]]
      BY <1>9 DEF Sorts
    <2>2. x[p[j]] = -(c[j].score) /\ x[p[k]] = -(c[k].score)
      BY <1>12 DEF ScoreKeys
    <2>3. c[j].score \in Int /\ c[k].score \in Int
      BY <1>12
    <2> HIDE DEF x
    <2> QED
      BY <2>1, <2>2, <2>3
  <1>14. Sublist(nb, b, nb, c)
    BY <1>8, <1>9, <1>12 DEF Sublist
  <1>15. Greedy(c, nb, Kept(c))
    BY <1>8, <1>12, KeptIsGreedy
  <1>16. PICK m : Sublist(nb, c, m, Postprocess(s)) /\ Holds(Kept(c), c, m, Postprocess(s))
    <2>1. Kept(c) \in SUBSET (1..nb)
      BY <1>15 DEF Greedy
    <2> QED
      BY <1>8, <1>10, <2>1, PickKeeps, Zenon
  <1>17. Sublist(n, s, m, Postprocess(s))
    <2>1. Sublist(n, s, nb, c)
      BY <1>7, <1>8, <1>14, SublistsNest
    <2> QED
      BY <1>16, <2>1, SublistsNest
  <1>18. ASSUME NEW i \in 1..n, IsText(s[i]), IsLargeEnough(s[i])
         PROVE \E k \in 1..m : /\ Postprocess(s)[k].score >= s[i].score
                               /\ \/ Postprocess(s)[k] = s[i]
                                  \/ Duplicates(s[i], Postprocess(s)[k])
    <2>1. PICK y \in 1..nb : b[y] = s[i]
      BY <1>6, <1>18
    <2>2. PICK x \in 1..nb : p[x] = y
      BY <1>11 DEF Onto
    <2>3. c[x] = s[i] /\ c[x].score \in Int
      BY <1>12, <2>1, <2>2
    <2>4. CASE x \in Kept(c)
      <3>1. PICK k \in 1..m : Postprocess(s)[k] = c[x]
        BY <1>16, <2>4 DEF Holds
      <3>2. c[x].score >= c[x].score
        BY <2>3
      <3> QED
        BY <2>3, <3>1, <3>2
    <2>5. CASE x \notin Kept(c)
      <3>1. PICK j \in Kept(c) : j < x /\ Duplicates(c[x], c[j])
        BY <1>15, <2>5 DEF Greedy
      <3>2. j \in 1..nb
        BY <1>15 DEF Greedy
      <3>3. PICK k \in 1..m : Postprocess(s)[k] = c[j]
        BY <1>16 DEF Holds
      <3>4. c[j].score >= c[x].score
        BY <1>13, <3>1, <3>2
      <3> QED
        BY <2>3, <3>1, <3>3, <3>4
    <2> QED
      BY <2>4, <2>5
  <1> QED
    BY <1>17, <1>18

-----------------------------------------------------------------------------
(* PageGeometry: the crops.                                                *)

\* Of four integers one is the least, and the first of those that are.
LEMMA FirstLeastExists ==
    ASSUME NEW v, \A i \in 1..4 : v[i] \in Int
    PROVE \E i \in 1..4 : \A j \in 1..4 : v[i] < v[j] \/ (v[i] = v[j] /\ i <= j)
  <1>1. v[1] \in Int /\ v[2] \in Int /\ v[3] \in Int /\ v[4] \in Int
    OBVIOUS
  <1>2. \A i : i \in 1..4 <=> i \in {1, 2, 3, 4}
    OBVIOUS
  <1> DEFINE Leads(i) == \A j \in {1, 2, 3, 4} : v[i] < v[j] \/ (v[i] = v[j] /\ i <= j)
  <1>3. Leads(1) \/ Leads(2) \/ Leads(3) \/ Leads(4)
    BY <1>1
  <1> QED
    BY <1>2, <1>3

\* order_quad picks its corners among the four points.
LEMMA CornersArePoints ==
    ASSUME NEW q, IsQuad(q)
    PROVE \A c \in {"tl", "tr", "br", "bl"} :
            OrderQuad(q)[c][1] \in Int /\ OrderQuad(q)[c][2] \in Int
  <1>1. \A i \in 1..4 : q[i][1] \in Int /\ q[i][2] \in Int
    BY DEF IsQuad
  <1>2. \E n \in 1..4 : OrderQuad(q).tl = q[n]
    <2> DEFINE v == [i \in 1..4 |-> q[i][1] + q[i][2]]
    <2>1. \A i \in 1..4 : v[i] \in Int
      BY <1>1
    <2>2. PICK n \in 1..4 : \A j \in 1..4 : v[n] < v[j] \/ (v[n] = v[j] /\ n <= j)
      <3> HIDE DEF v
      <3> QED
        BY <2>1, FirstLeastExists
    <2> QED
      BY <2>2 DEF OrderQuad, FirstLeast
  <1>3. \E n \in 1..4 : OrderQuad(q).tr = q[n]
    <2> DEFINE v == [i \in 1..4 |-> q[i][2] - q[i][1]]
    <2>1. \A i \in 1..4 : v[i] \in Int
      BY <1>1
    <2>2. PICK n \in 1..4 : \A j \in 1..4 : v[n] < v[j] \/ (v[n] = v[j] /\ n <= j)
      <3> HIDE DEF v
      <3> QED
        BY <2>1, FirstLeastExists
    <2> QED
      BY <2>2 DEF OrderQuad, FirstLeast
  <1>4. \E n \in 1..4 : OrderQuad(q).br = q[n]
    <2> DEFINE v == [i \in 1..4 |-> -(q[i][1] + q[i][2])]
    <2>1. \A i \in 1..4 : v[i] \in Int
      BY <1>1
    <2>2. PICK n \in 1..4 : \A j \in 1..4 : v[n] < v[j] \/ (v[n] = v[j] /\ n <= j)
      <3> HIDE DEF v
      <3> QED
        BY <2>1, FirstLeastExists
    <2> QED
      BY <2>2 DEF OrderQuad, FirstLeast
  <1>5. \E n \in 1..4 : OrderQuad(q).bl = q[n]
    <2> DEFINE v == [i \in 1..4 |-> q[i][1] - q[i][2]]
    <2>1. \A i \in 1..4 : v[i] \in Int
      BY <1>1
    <2>2. PICK n \in 1..4 : \A j \in 1..4 : v[n] < v[j] \/ (v[n] = v[j] /\ n <= j)
      <3> HIDE DEF v
      <3> QED
        BY <2>1, FirstLeastExists
    <2> QED
      BY <2>2 DEF OrderQuad, FirstLeast
  <1> QED
    BY <1>1, <1>2, <1>3, <1>4, <1>5

\* A distance has a nearest whole number, the even one of two.
LEMMA NormExists ==
    ASSUME NEW n \in Nat, NEW D \in Nat, NEW e, \A r \in Nat : e[r] \in Int, n < e[D + 1]
    PROVE \E r \in 0..D : /\ n < e[r + 1] \/ (n = e[r + 1] /\ r % 2 = 0)
                          /\ r = 0 \/ n > e[r] \/ (n = e[r] /\ r % 2 = 0)
  <1> DEFINE Below(r) == n < e[r + 1] \/ (n = e[r + 1] /\ r % 2 = 0)
             T == {r \in Nat : Below(r)}
  <1>1. PICK r \in T : \A m \in T : r <= m
    <2>1. T \subseteq Nat /\ D \in T
      OBVIOUS
    <2> HIDE DEF T
    <2> QED
      BY <2>1, LeastExists
  <1>2. r \in Nat /\ Below(r) /\ r <= D
    BY <1>1
  <1>3. CASE r = 0
    BY <1>2, <1>3
  <1>4. CASE r # 0
    <2>1. r - 1 \in Nat /\ ~(r <= r - 1)
      BY <1>2, <1>4
    <2>2. ~Below(r - 1)
      BY <1>1, <2>1
    <2>3. (r - 1) + 1 = r /\ e[r] \in Int
      BY <1>2
    <2>4. ~(n < e[r]) /\ ~(n = e[r] /\ (r - 1) % 2 = 0)
      BY <2>2, <2>3
    <2>5. (r - 1) % 2 = 0 \/ r % 2 = 0
      BY <1>2, <2>1
    <2> QED
      BY <1>2, <2>3, <2>4, <2>5
  <1> QED
    BY <1>3, <1>4

LEMMA GapIsNat == \A a, b \in Int : Gap(a, b) \in Nat /\ Gap(a, b) = IF a <= b THEN b - a ELSE a - b
  BY DEF Gap

LEMMA SquaresOfSums ==
    ASSUME NEW a \in Nat, NEW b \in Nat, NEW s \in Nat \ {0}
    PROVE 4 * (a * a + b * b) < (2 * (a + b + 1) - 1) * (2 * (a + b + 1) - 1) * s * s
  <1> DEFINE x == 2 * (a + b + 1) - 1
             y == 2 * a + 2 * b
  <1>1. x = y + 1 /\ x \in Nat /\ y \in Nat
    OBVIOUS
  <1>2. a * b \in Nat /\ a * a \in Nat /\ b * b \in Nat
    OBVIOUS
  <1>3. y * y = 4 * (a * a + b * b) + 8 * (a * b)
    OBVIOUS
  <1> HIDE DEF x, y
  <1>4. x * x = y * y + 2 * y + 1
    BY <1>1
  <1>5. x * x > 4 * (a * a + b * b) /\ x * x \in Nat
    BY <1>1, <1>2, <1>3, <1>4
  <1>6. s * s \in Nat /\ s * s >= 1
    OBVIOUS
  <1>7. \A m, k \in Nat : k >= 1 => m * k >= m
    OBVIOUS
  <1>8. (x * x) * (s * s) >= x * x
    BY <1>5, <1>6, <1>7
  <1>9. x * x * s * s = (x * x) * (s * s)
    BY <1>1
  <1>10. 4 * (a * a + b * b) < x * x * s * s
    BY <1>2, <1>5, <1>6, <1>8, <1>9
  <1> QED
    BY <1>10, Zenon DEF x

\* np.linalg.norm of integers, rounded.
LEMMA NormIsNat ==
    ASSUME NEW p, NEW q, p[1] \in Int, p[2] \in Int, q[1] \in Int, q[2] \in Int
    PROVE PixelNorm(p, q) \in Nat
  <1> DEFINE a == Gap(p[1], q[1])
             b == Gap(p[2], q[2])
             n == 4 * ((p[1] - q[1]) * (p[1] - q[1]) + (p[2] - q[2]) * (p[2] - q[2]))
             e == [r \in Nat |-> (2 * r - 1) * (2 * r - 1) * Sub * Sub]
  <1>1. Sub \in Nat \ {0}
    BY GeometryAssumption
  <1>2. a \in Nat /\ b \in Nat
    BY GapIsNat
  <1>3. (p[1] - q[1]) * (p[1] - q[1]) = a * a /\ (p[2] - q[2]) * (p[2] - q[2]) = b * b
    <2>1. ASSUME NEW i \in Int, NEW j \in Int
          PROVE (i - j) * (i - j) = Gap(i, j) * Gap(i, j)
      <3>1. (i - j) * (i - j) = (j - i) * (j - i)
        OBVIOUS
      <3>2. Gap(i, j) = i - j \/ Gap(i, j) = j - i
        BY DEF Gap
      <3> QED
        BY <3>1, <3>2
    <2> HIDE DEF a, b
    <2>2. a = Gap(p[1], q[1]) /\ b = Gap(p[2], q[2])
      BY DEF a, b
    <2> QED
      BY <2>1, <2>2
  <1>4. n = 4 * (a * a + b * b)
    BY <1>3
  <1> HIDE DEF a, b
  <1>5. n \in Nat
    <2>1. a * a \in Nat /\ b * b \in Nat
      BY <1>2
    <2> QED
      BY <1>4, <2>1
  <1>6. \A r \in Nat : e[r] \in Int
    BY <1>1
  <1>7. n < e[a + b + 1]
    <2>1. a + b + 1 \in Nat
      BY <1>2
    <2> QED
      BY <1>1, <1>2, <1>4, <2>1, SquaresOfSums
  <1>8. \E r \in 0..(a + b) : /\ n < e[r + 1] \/ (n = e[r + 1] /\ r % 2 = 0)
                              /\ r = 0 \/ n > e[r] \/ (n = e[r] /\ r % 2 = 0)
    <2>1. a + b \in Nat
      BY <1>2
    <2> HIDE DEF n, e
    <2> QED
      BY <1>5, <1>6, <1>7, <2>1, NormExists
  <1>9. \A r \in 0..(a + b) : r \in Nat /\ r + 1 \in Nat
    BY <1>2
  <1>10. PixelNorm(p, q) \in 0..(a + b)
    <2>1. PixelNorm(p, q) = CHOOSE r \in 0..(a + b) :
                               /\ n < e[r + 1] \/ (n = e[r + 1] /\ r % 2 = 0)
                               /\ r = 0 \/ n > e[r] \/ (n = e[r] /\ r % 2 = 0)
      BY <1>9 DEF PixelNorm, a, b
    <2> HIDE DEF n, e
    <2> QED
      BY <1>8, <2>1
  <1> QED
    BY <1>9, <1>10

\* deskew_crop: a crop has at least a pixel, and unless its quad has no area the
\* minimum sides.
LEMMA CropsHaveSides ==
    ASSUME NEW r, IsQuad(r.quad), \A i \in 1..4 : r.bbox[i] \in Int
    PROVE LET c == DeskewCrop(r)
          IN /\ c = <<c[1], c[2]>> /\ c[1] \in Nat \ {0} /\ c[2] \in Nat \ {0}
             /\ ~IsDegenerate(r) => c[1] >= MinCrop /\ c[2] >= MinCrop
  <1> DEFINE o == OrderQuad(r.quad)
             t == TargetSize(o)
             k == CutOut(r.bbox)
             c == DeskewCrop(r)
  <1>1. MinCrop \in Nat \ {0} /\ MinCrop \in Int /\ ImageW \in Int /\ ImageH \in Int
    BY GeometryAssumption
  <1>2. ASSUME NEW x \in Int, NEW y \in Int
        PROVE /\ Greatest(x, y) \in Int /\ Greatest(x, y) >= x /\ Greatest(x, y) >= y
              /\ Least(x, y) \in Int
    BY DEF Greatest, Least
  <1>3. t = <<t[1], t[2]>> /\ t[1] \in Int /\ t[2] \in Int
    <2>1. /\ o.tl[1] \in Int /\ o.tl[2] \in Int /\ o.tr[1] \in Int /\ o.tr[2] \in Int
          /\ o.br[1] \in Int /\ o.br[2] \in Int /\ o.bl[1] \in Int /\ o.bl[2] \in Int
      BY CornersArePoints
    <2> HIDE DEF o
    <2>2. /\ PixelNorm(o.tr, o.tl) \in Nat /\ PixelNorm(o.br, o.bl) \in Nat
          /\ PixelNorm(o.bl, o.tl) \in Nat /\ PixelNorm(o.br, o.tr) \in Nat
      BY <2>1, NormIsNat
    <2> QED
      BY <1>2, <2>2 DEF TargetSize
  <1>4. k = <<k[1], k[2]>> /\ k[1] \in Int /\ k[2] \in Int
    <2>1. r.bbox[1] \in Int /\ r.bbox[2] \in Int /\ r.bbox[3] \in Int /\ r.bbox[4] \in Int
      OBVIOUS
    <2>2. ASSUME NEW x \in Int, NEW y \in Int, NEW z \in Int
          PROVE Least(z, y) - Greatest(0, x) \in Int
      <3>1. Least(z, y) \in Int /\ Greatest(0, x) \in Int
        BY DEF Least, Greatest
      <3> QED
        BY <3>1
    <2>3. /\ Least(ImageW, r.bbox[3]) - Greatest(0, r.bbox[1]) \in Int
          /\ Least(ImageH, r.bbox[4]) - Greatest(0, r.bbox[2]) \in Int
      BY <1>1, <2>1, <2>2
    <2>4. k = <<Least(ImageW, r.bbox[3]) - Greatest(0, r.bbox[1]),
                Least(ImageH, r.bbox[4]) - Greatest(0, r.bbox[2])>>
      BY DEF CutOut
    <2> HIDE DEF k
    <2> QED
      BY <2>3, <2>4
  <1>5. /\ IsDegenerate(r) <=> t[1] < 1 \/ t[2] < 1
        /\ c = IF IsDegenerate(r) THEN <<Greatest(t[1], 1), Greatest(t[2], 1)>>
               ELSE IF ~IsAxisAligned(o) THEN Padded(t[1], t[2])
               ELSE IF k[1] < 1 \/ k[2] < 1 THEN <<MinCrop, MinCrop>>
               ELSE Padded(k[1], k[2])
    BY DEF IsDegenerate, DeskewCrop
  <1> HIDE DEF o, t, k, c
  <1>6. ASSUME NEW x \in Int, NEW y \in Int
        PROVE LET d == Padded(x, y)
              IN d = <<d[1], d[2]>> /\ d[1] \in Int /\ d[2] \in Int
                 /\ d[1] >= MinCrop /\ d[2] >= MinCrop
    <2>1. /\ Greatest(x, MinCrop) \in Int /\ Greatest(x, MinCrop) >= MinCrop
          /\ Greatest(y, MinCrop) \in Int /\ Greatest(y, MinCrop) >= MinCrop
      BY <1>1, <1>2
    <2>2. Padded(x, y) = <<Greatest(x, MinCrop), Greatest(y, MinCrop)>>
      BY DEF Padded
    <2> QED
      BY <2>1, <2>2
  <1>7. CASE IsDegenerate(r)
    <2>1. c = <<Greatest(t[1], 1), Greatest(t[2], 1)>>
      BY <1>5, <1>7
    <2>2. /\ Greatest(t[1], 1) \in Int /\ Greatest(t[1], 1) >= 1
          /\ Greatest(t[2], 1) \in Int /\ Greatest(t[2], 1) >= 1
      BY <1>2, <1>3
    <2> QED
      BY <1>7, <2>1, <2>2 DEF c
  <1>8. CASE ~IsDegenerate(r)
    <2>1. c = <<c[1], c[2]>> /\ c[1] \in Int /\ c[2] \in Int /\ c[1] >= MinCrop /\ c[2] >= MinCrop
      <3>1. c = Padded(t[1], t[2]) \/ c = <<MinCrop, MinCrop>> \/ c = Padded(k[1], k[2])
        BY <1>5, <1>8
      <3> QED
        BY <1>1, <1>3, <1>4, <1>6, <3>1
    <2> QED
      BY <1>1, <2>1 DEF c
  <1> QED
    BY <1>7, <1>8
-----------------------------------------------------------------------------
\* Products of what is no less.
LEMMA ProductsGrow ==
    ASSUME NEW a \in Nat, NEW b \in Nat, NEW c \in Nat, NEW d \in Nat, a <= b, c <= d
    PROVE a * c \in Nat /\ b * d \in Nat /\ a * c <= b * d
  <1>1. \A x, y, z \in Nat : x <= y => x * z <= y * z
    OBVIOUS
  <1>2. a * c <= b * c /\ c * b <= d * b
    BY <1>1
  <1>3. b * c = c * b /\ d * b = b * d
    OBVIOUS
  <1>4. a * c \in Nat /\ b * c \in Nat /\ b * d \in Nat
    OBVIOUS
  <1> QED
    BY <1>2, <1>3, <1>4

\* The scale of mode "box" has a value.
LEMMA ScaleExists ==
    ASSUME NEW a \in Nat \ {0}, NEW b \in Nat \ {0}, NEW M \in Nat, a * b > M
    PROVE \E s \in 1..a : (s = 1 \/ s * s * b <= M * a) /\ (s + 1) * (s + 1) * b > M * a
  <1> DEFINE f == [s \in Nat |-> s * s * b]
             m == M * a
             T == {s \in Nat \ {0} : f[s + 1] > m}
  <1>1. m \in Nat /\ \A s \in Nat : f[s] \in Nat /\ s + 1 \in Nat
    OBVIOUS
  <1>2. f[a + 1] > m
    <2>1. M * a <= (a * b) * a
      BY ProductsGrow
    <2>2. (a * b) * a = (a * a) * b
      OBVIOUS
    <2>3. (a + 1) * (a + 1) * b = (a * a) * b + 2 * (a * b) + b
      OBVIOUS
    <2>4. a * b \in Nat /\ (a * a) * b \in Nat /\ b > 0
      OBVIOUS
    <2>5. f[a + 1] = (a + 1) * (a + 1) * b
      OBVIOUS
    <2> HIDE DEF f
    <2> QED
      BY <1>1, <2>1, <2>2, <2>3, <2>4, <2>5
  <1> HIDE DEF f, m
  <1>3. PICK s \in T : \A x \in T : s <= x
    <2>1. T \subseteq Nat /\ a \in T
      BY <1>2
    <2> HIDE DEF T
    <2> QED
      BY <2>1, LeastExists
  <1>4. s \in Nat \ {0} /\ f[s + 1] > m /\ s <= a
    BY <1>2, <1>3
  <1>5. s = 1 \/ f[s] <= m
    <2> SUFFICES ASSUME s # 1 PROVE f[s] <= m
      OBVIOUS
    <2>1. s - 1 \in Nat \ {0} /\ (s - 1) + 1 = s /\ ~(s <= s - 1)
      BY <1>4
    <2>2. ~(f[s] > m)
      BY <1>3, <2>1
    <2> QED
      BY <1>1, <1>4, <2>2
  <1>6. s \in 1..a /\ f[s] = s * s * b /\ f[s + 1] = (s + 1) * (s + 1) * b
    BY <1>4 DEF f
  <1> QED
    BY <1>4, <1>5, <1>6 DEF m

\* Mode "box" lands on the cap or below.
LEMMA BoxFits ==
    ASSUME NEW w \in Nat \ {0}, NEW h \in Nat \ {0}, MaxPixels > 0, w * h > MaxPixels
    PROVE /\ Scaled(w, h) \in 1..w /\ Scaled(h, w) \in 1..h
          /\ w <= MaxPixels /\ h <= MaxPixels => Scaled(w, h) * Scaled(h, w) <= MaxPixels
  <1> DEFINE M == MaxPixels
             s == Scaled(w, h)
             t == Scaled(h, w)
  <1>1. M \in Nat /\ M > 0 /\ h * w > M
    BY GeometryAssumption
  <1>2. s \in 1..w /\ (s = 1 \/ s * s * h <= M * w)
    BY <1>1, ScaleExists DEF Scaled
  <1>3. t \in 1..h /\ (t = 1 \/ t * t * w <= M * h)
    BY <1>1, ScaleExists DEF Scaled
  <1> HIDE DEF s, t
  <1>4. s \in Nat /\ t \in Nat /\ s <= w /\ t <= h
    BY <1>2, <1>3
  <1>5. ASSUME w <= M, h <= M PROVE s * t <= M
    <2>1. CASE s = 1 \/ t = 1
      BY <1>1, <1>4, <1>5, <2>1
    <2>2. CASE s # 1 /\ t # 1
      <3> DEFINE x == s * t
                 y == w * h
      <3>1. s * s * h \in Nat /\ t * t * w \in Nat /\ M * w \in Nat /\ M * h \in Nat
        BY <1>1, <1>4
      <3>2. (s * s * h) * (t * t * w) <= (M * w) * (M * h)
        BY <1>2, <1>3, <2>2, <3>1, ProductsGrow
      <3>3. (s * s * h) * (t * t * w) = (x * x) * y /\ (M * w) * (M * h) = (M * M) * y
        BY <1>1, <1>4
      <3>4. x \in Nat /\ y \in Nat \ {0}
        BY <1>4
      <3> HIDE DEF x, y
      <3>5. (x * x) * y <= (M * M) * y
        BY <3>2, <3>3
      <3>6. CASE x > M
        <4>1. x * x \in Nat /\ M * M \in Nat /\ (M + 1) * (M + 1) <= x * x
          BY <1>1, <3>4, <3>6, ProductsGrow
        <4>2. M * M + 1 <= x * x
          BY <1>1, <4>1
        <4>3. (M * M + 1) * y <= (x * x) * y
          BY <3>4, <4>1, <4>2, ProductsGrow
        <4>4. (M * M + 1) * y = (M * M) * y + y
          BY <3>4, <4>1
        <4>5. (M * M) * y \in Nat /\ (x * x) * y \in Nat
          BY <3>4, <4>1
        <4> QED
          BY <3>4, <3>5, <4>3, <4>4, <4>5
      <3> QED
        BY <1>1, <3>4, <3>6 DEF x
    <2> QED
      BY <2>1, <2>2
  <1> QED
    BY <1>2, <1>3, <1>5 DEF s, t
-----------------------------------------------------------------------------
\* The loop of mode "pow2": where it stops, its step, and what it makes of every
\* size up to w and h.
SmallEnough(s) == s[1] * s[2] <= MaxPixels \/ s[1] < 2 \/ s[2] < 2
Half(s) == <<CeilDiv(s[1], 2), CeilDiv(s[2], 2)>>
Halves(w, h, f) ==
    f = [s \in (1..w) \X (1..h) |-> IF SmallEnough(s) THEN s ELSE f[Half(s)]]

LEMMA HalfIsLess ==
    ASSUME NEW w \in Nat, NEW h \in Nat, NEW s \in (1..w) \X (1..h), ~SmallEnough(s)
    PROVE /\ Half(s)[1] \in 1..(s[1] - 1) /\ Half(s)[2] \in 1..s[2]
          /\ Half(s) = <<Half(s)[1], Half(s)[2]>> /\ s[1] \in 1..w /\ s[2] \in 1..h
  <1>1. ASSUME NEW a \in Nat, a >= 2 PROVE CeilDiv(a, 2) \in 1..(a - 1) /\ CeilDiv(a, 2) \in 1..a
    <2>1. \A b \in Int : b \div 2 \in Int /\ 2 * (b \div 2) <= b /\ b < 2 * (b \div 2) + 2
      OBVIOUS
    <2> DEFINE d == (-a) \div 2
    <2>2. d \in Int /\ 2 * d <= -a /\ -a < 2 * d + 2
      BY <2>1
    <2>3. CeilDiv(a, 2) = -d
      BY DEF CeilDiv
    <2> HIDE DEF d
    <2> QED
      BY <1>1, <2>2, <2>3
  <1>2. s[1] \in 1..w /\ s[2] \in 1..h /\ s[1] \in Nat /\ s[2] \in Nat
    OBVIOUS
  <1>3. s[1] >= 2 /\ s[2] >= 2
    BY <1>2 DEF SmallEnough
  <1> QED
    BY <1>1, <1>2, <1>3 DEF Half

LEMMA HalvesExist ==
    ASSUME NEW w \in Nat, NEW h \in Nat PROVE \E f : Halves(w, h, f)
  <1> DEFINE T == {n \in Nat : \A f : ~Halves(n, h, f)}
  <1>1. Halves(0, h, [s \in (1..0) \X (1..h) |-> s])
    <2>1. (1..0) \X (1..h) = {}
      OBVIOUS
    <2> QED
      BY <2>1 DEF Halves
  <1>2. ASSUME NEW n \in Nat, NEW f, Halves(n, h, f) PROVE \E g : Halves(n + 1, h, g)
    <2> DEFINE S == (1..n) \X (1..h)
               R == (1..(n + 1)) \X (1..h)
               g == [s \in R |-> IF SmallEnough(s) THEN s ELSE f[Half(s)]]
    <2>1. ASSUME NEW s \in R PROVE g[s] = IF SmallEnough(s) THEN s ELSE g[Half(s)]
      <3>1. CASE SmallEnough(s)
        BY <3>1
      <3>2. CASE ~SmallEnough(s)
        <4>1. /\ Half(s)[1] \in 1..(s[1] - 1) /\ Half(s)[2] \in 1..s[2]
              /\ Half(s) = <<Half(s)[1], Half(s)[2]>> /\ s[1] \in 1..(n + 1) /\ s[2] \in 1..h
          BY <3>2, HalfIsLess
        <4>2. Half(s) \in S /\ Half(s) \in R
          BY <4>1
        <4>3. f[Half(s)] = IF SmallEnough(Half(s)) THEN Half(s) ELSE f[Half(Half(s))]
          BY <1>2, <4>2 DEF Halves
        <4>4. g[Half(s)] = IF SmallEnough(Half(s)) THEN Half(s) ELSE f[Half(Half(s))]
          BY <4>2
        <4>5. g[s] = f[Half(s)]
          BY <3>2
        <4> QED
          BY <3>2, <4>3, <4>4, <4>5
      <3> QED
        BY <3>1, <3>2
    <2>2. g = [s \in R |-> IF SmallEnough(s) THEN s ELSE g[Half(s)]]
      <3>1. g = [s \in R |-> g[s]]
        OBVIOUS
      <3> HIDE DEF g
      <3> QED
        BY <2>1, <3>1
    <2> HIDE DEF g
    <2> QED
      BY <2>2 DEF Halves
  <1>3. T = {}
    <2> SUFFICES ASSUME T # {} PROVE FALSE
      OBVIOUS
    <2>1. PICK n \in T : \A k \in T : n <= k
      <3>1. T \subseteq Nat
        OBVIOUS
      <3> HIDE DEF T
      <3> QED
        BY <3>1, LeastExists
    <2>2. n \in Nat /\ n # 0
      BY <1>1
    <2>3. n - 1 \in Nat /\ ~(n <= n - 1) /\ (n - 1) + 1 = n
      BY <2>2
    <2>4. n - 1 \notin T
      <3> HIDE DEF T
      <3> QED
        BY <2>1, <2>3
    <2>5. PICK f : Halves(n - 1, h, f)
      BY <2>3, <2>4
    <2>6. \E g : Halves(n, h, g)
      BY <1>2, <2>3, <2>5
    <2> QED
      BY <2>6
  <1> QED
    BY <1>3

\* Mode "pow2" stops at a size that is small enough.
LEMMA ShrunkFits ==
    ASSUME NEW w \in Nat \ {0}, NEW h \in Nat \ {0}
    PROVE Shrunk(w, h) \in (1..w) \X (1..h) /\ SmallEnough(Shrunk(w, h))
  <1> DEFINE S == (1..w) \X (1..h)
  <1>1. PICK f : Halves(w, h, f) /\ Shrunk(w, h) = f[<<w, h>>]
    <2>1. \E f : Halves(w, h, f)
      BY HalvesExist
    <2> QED
      BY <2>1 DEF Shrunk, Halves, SmallEnough, Half
  <1> DEFINE Good(s) == f[s] \in S /\ SmallEnough(f[s])
             T == {n \in Nat : \E s \in S : s[1] = n /\ ~Good(s)}
  <1>2. ASSUME NEW s \in S PROVE f[s] = IF SmallEnough(s) THEN s ELSE f[Half(s)]
    BY <1>1 DEF Halves
  <1>3. T = {}
    <2> SUFFICES ASSUME T # {} PROVE FALSE
      OBVIOUS
    <2>1. PICK n \in T : \A k \in T : n <= k
      <3>1. T \subseteq Nat
        OBVIOUS
      <3> HIDE DEF T
      <3> QED
        BY <3>1, LeastExists
    <2>2. PICK s \in S : s[1] = n /\ ~Good(s)
      BY <2>1
    <2>3. CASE SmallEnough(s)
      BY <1>2, <2>2, <2>3
    <2>4. CASE ~SmallEnough(s)
      <3>1. /\ Half(s)[1] \in 1..(s[1] - 1) /\ Half(s)[2] \in 1..s[2]
            /\ Half(s) = <<Half(s)[1], Half(s)[2]>> /\ s[1] \in 1..w /\ s[2] \in 1..h
        BY <2>4, HalfIsLess
      <3>2. Half(s) \in S /\ Half(s)[1] \in Nat /\ ~(n <= Half(s)[1])
        BY <2>2, <3>1
      <3>3. Half(s)[1] \notin T
        <4> HIDE DEF T
        <4> QED
          BY <2>1, <3>2
      <3>4. Good(Half(s))
        BY <3>2, <3>3
      <3> QED
        BY <1>2, <2>2, <2>4, <3>4
    <2> QED
      BY <2>3, <2>4
  <1>4. <<w, h>> \in S /\ <<w, h>>[1] \in Nat
    OBVIOUS
  <1>5. Good(<<w, h>>)
    BY <1>3, <1>4
  <1> QED
    BY <1>1, <1>5

\* downscale_to_cap: no side vanishes, and a crop no side of which is longer than
\* the cap gets below it.
LEMMA DownscaleFits ==
    ASSUME NEW c, NEW mode, c = <<c[1], c[2]>>, c[1] \in Nat \ {0}, c[2] \in Nat \ {0}
    PROVE LET s == Downscale(c, mode)
          IN /\ s[1] \in 1..c[1] /\ s[2] \in 1..c[2]
             /\ MaxPixels > 0 /\ c[1] <= MaxPixels /\ c[2] <= MaxPixels => s[1] * s[2] <= MaxPixels
             /\ s = c \/ c[1] * c[2] > MaxPixels
  <1> DEFINE w == c[1]
             h == c[2]
             s == Downscale(c, mode)
  <1>1. MaxPixels \in Nat
    BY GeometryAssumption
  <1>2. s = IF MaxPixels = 0 \/ w * h <= MaxPixels THEN c
            ELSE IF mode = "box" THEN <<Scaled(w, h), Scaled(h, w)>> ELSE Shrunk(w, h)
    BY DEF Downscale
  <1>3. w * h \in Nat /\ w \in 1..w /\ h \in 1..h
    OBVIOUS
  <1> HIDE DEF w, h, s
  <1>4. w \in Nat \ {0} /\ h \in Nat \ {0} /\ c[1] = w /\ c[2] = h
    BY DEF w, h
  <1>5. CASE MaxPixels = 0 \/ w * h <= MaxPixels
    <2>1. s = c
      BY <1>2, <1>5
    <2> QED
      BY <1>1, <1>3, <1>4, <1>5, <2>1 DEF s
  <1>6. CASE ~(MaxPixels = 0 \/ w * h <= MaxPixels) /\ mode = "box"
    <2>1. /\ Scaled(w, h) \in 1..w /\ Scaled(h, w) \in 1..h
          /\ w <= MaxPixels /\ h <= MaxPixels => Scaled(w, h) * Scaled(h, w) <= MaxPixels
      BY <1>1, <1>3, <1>4, <1>6, BoxFits
    <2>2. s = <<Scaled(w, h), Scaled(h, w)>>
      BY <1>2, <1>6
    <2> QED
      BY <1>1, <1>3, <1>4, <1>6, <2>1, <2>2 DEF s
  <1>7. CASE ~(MaxPixels = 0 \/ w * h <= MaxPixels) /\ mode # "box"
    <2>1. s \in (1..w) \X (1..h) /\ SmallEnough(s)
      BY <1>2, <1>4, <1>7, ShrunkFits
    <2>2. s[1] \in 1..w /\ s[2] \in 1..h
      BY <2>1
    <2>3. ASSUME w <= MaxPixels, h <= MaxPixels PROVE s[1] * s[2] <= MaxPixels
      <3>1. CASE s[1] * s[2] <= MaxPixels
        BY <3>1
      <3>2. CASE s[1] < 2
        <4>1. s[1] = 1
          BY <1>4, <2>2, <3>2
        <4> QED
          BY <1>1, <1>4, <2>2, <2>3, <4>1
      <3>3. CASE s[2] < 2
        <4>1. s[2] = 1
          BY <1>4, <2>2, <3>3
        <4> QED
          BY <1>1, <1>4, <2>2, <2>3, <4>1
      <3> QED
        BY <2>1, <3>1, <3>2, <3>3 DEF SmallEnough
    <2> QED
      BY <1>1, <1>3, <1>4, <1>7, <2>2, <2>3 DEF s
  <1> QED
    BY <1>5, <1>6, <1>7

-----------------------------------------------------------------------------
(* PagePipeline: detection.                                                *)

\* A page's detections and its regions, one region at most for each of them.
RegionsInv ==
    /\ page \in Requests
    /\ Len(raw) \in 0..MaxDets /\ Len(regions) \in 0..Len(raw)
    /\ Page(Len(regions), regions)
    /\ RealTextSurvives /\ ReadsInOrder

LEMMA SequenceLength ==
    ASSUME NEW n \in Nat, NEW s, s = [k \in 1..n |-> s[k]] PROVE Len(s) = n /\ DOMAIN s = 1..n
  OBVIOUS

\* What the detection of a page puts in order, whichever detector read it.
LEMMA OrderedPage ==
    ASSUME NEW n \in Nat, NEW s, Page(n, s), NEW rtl \in BOOLEAN,
           NEW t, t = AssignReadingOrder(s, rtl)
    PROVE /\ Len(t) = n /\ Page(n, t) /\ InOrder(t, rtl)
          /\ \A i \in 1..n : s[i] \in ToSet(t)
  <1>1. PICK q : Onto(n, q) /\ t = [k \in 1..n |-> s[q[k]]] /\ InOrder(t, rtl)
    BY PagesAreOrdered
  <1>2. \A k \in 1..n : q[k] \in 1..n /\ t[k] = s[q[k]]
    BY <1>1 DEF Onto
  <1>3. t = [k \in 1..n |-> t[k]]
    BY <1>1
  <1>4. Len(t) = n /\ DOMAIN t = 1..n
    BY <1>3, SequenceLength
  <1>5. Page(n, t)
    BY <1>2, <1>3 DEF Page
  <1>6. \A i \in 1..n : s[i] \in ToSet(t)
    BY <1>1, <1>2, <1>4 DEF Onto, ToSet
  <1> QED
    BY <1>1, <1>4, <1>5, <1>6

LEMMA BoxesAreRegions ==
    ASSUME NEW d, IsDetection(d) PROVE IsRegion(FromBbox(d))
  <1> DEFINE q == << <<d.x0, d.y0>>, <<d.x1, d.y0>>, <<d.x1, d.y1>>, <<d.x0, d.y1>> >>
  <1>1. IsQuad(q)
    BY DEF IsQuad, IsDetection
  <1> HIDE DEF q
  <1>2. IsRegion(FromQuad(q))
    BY <1>1, BoxesAreUpright
  <1> QED
    BY <1>2 DEF FromBbox, q

LEMMA DetectsRegions ==
    ASSUME RegionsInv, Detects PROVE RegionsInv'
  <1>0. page \in Requests /\ page' = page /\ stage' = "recognize" /\ page.rtl \in BOOLEAN
    BY PipelineAssumption DEF RegionsInv, Detects
  <1>1. CASE page.shipped /\ \E dets \in BoundedSeq(Detections, MaxDets) :
               /\ raw' = dets
               /\ regions' = AssignReadingOrder(ToRegions(Postprocess(dets)), page.rtl)
    <2>1. PICK n \in 0..MaxDets : raw' \in [1..n -> Detections]
      BY <1>1 DEF BoundedSeq, SeqOf
    <2> DEFINE dets == raw'
               P == Postprocess(dets)
               s == ToRegions(P)
    <2>2. n \in Nat /\ MaxDets \in Nat
      BY PipelineAssumption
    <2>3. \A i \in 1..n : IsDetection(dets[i])
      BY <2>1, PipelineAssumption DEF IsDetection
    <2>4. DOMAIN dets = 1..n /\ Len(dets) = n
      BY <2>1, <2>2
    <2>5. regions' = AssignReadingOrder(s, page.rtl)
      BY <1>1
    <2> HIDE DEF dets
    <2>6. PICK m : /\ Sublist(n, dets, m, P)
                   /\ \A i \in 1..n : IsText(dets[i]) /\ IsLargeEnough(dets[i]) =>
                        \E k \in 1..m : /\ P[k].score >= dets[i].score
                                        /\ P[k] = dets[i] \/ Duplicates(dets[i], P[k])
      BY <2>2, <2>3, <2>4, PostprocessKeeps
    <2> HIDE DEF P
    <2>7. m \in 0..n /\ m \in Nat /\ DOMAIN P = 1..m /\ \A k \in 1..m : \E j \in 1..n : P[k] = dets[j]
      BY <2>2, <2>6 DEF Sublist
    <2>8. s = [k \in 1..m |-> FromBbox(P[k])]
      BY <2>7 DEF ToRegions
    <2> HIDE DEF s
    <2>9. \A k \in 1..m : s[k] = FromBbox(P[k]) /\ IsRegion(s[k])
      BY <2>3, <2>7, <2>8, BoxesAreRegions
    <2>10. Page(m, s)
      BY <2>8, <2>9 DEF Page
    <2>11. /\ Len(regions') = m /\ Page(m, regions') /\ InOrder(regions', page.rtl)
           /\ \A k \in 1..m : s[k] \in ToSet(regions')
      BY <1>0, <2>5, <2>7, <2>10, OrderedPage
    <2>12. RealTextSurvives'
      <3> SUFFICES ASSUME NEW i \in 1..n, IsText(dets[i]), IsLargeEnough(dets[i])
                   PROVE \E j \in 1..n : /\ FromBbox(dets[j]) \in ToSet(regions')
                                         /\ dets[j].score >= dets[i].score
                                         /\ i = j \/ Duplicates(dets[i], dets[j])
        BY <2>4 DEF RealTextSurvives, dets
      <3>1. PICK k \in 1..m : /\ P[k].score >= dets[i].score
                              /\ P[k] = dets[i] \/ Duplicates(dets[i], P[k])
        BY <2>6
      <3>2. FromBbox(P[k]) \in ToSet(regions')
        BY <2>9, <2>11
      <3>3. CASE P[k] = dets[i]
        BY <3>1, <3>2, <3>3
      <3>4. CASE Duplicates(dets[i], P[k])
        <4>1. PICK j \in 1..n : P[k] = dets[j]
          BY <2>7
        <4> QED
          BY <3>1, <3>2, <3>4, <4>1
      <3> QED
        BY <3>1, <3>3, <3>4
    <2>13. ReadsInOrder'
      BY <1>0, <2>11 DEF ReadsInOrder, InOrder
    <2>14. Len(raw') = n
      BY <2>4 DEF dets
    <2> QED
      BY <1>0, <2>2, <2>7, <2>11, <2>12, <2>13, <2>14 DEF RegionsInv
  <1>2. CASE ~page.shipped /\ \E quads \in BoundedSeq(Quads, MaxDets) :
               /\ raw' = quads
               /\ regions' = AssignReadingOrder([i \in DOMAIN quads |-> FromQuad(quads[i])], page.rtl)
    <2>1. PICK n \in 0..MaxDets : raw' \in [1..n -> Quads]
      BY <1>2 DEF BoundedSeq, SeqOf
    <2> DEFINE quads == raw'
               s == [i \in 1..n |-> FromQuad(quads[i])]
    <2>2. n \in Nat /\ MaxDets \in Nat
      BY PipelineAssumption
    <2>3. \A i \in 1..n : IsQuad(quads[i])
      <3>1. \A i \in 1..n : quads[i] \in [1..4 -> Int \X Int]
        BY <2>1, PipelineAssumption
      <3> HIDE DEF quads
      <3> QED
        BY <3>1 DEF IsQuad
    <2>4. DOMAIN quads = 1..n /\ Len(quads) = n
      BY <2>1, <2>2
    <2>5. regions' = AssignReadingOrder(s, page.rtl)
      BY <1>2, <2>4
    <2>6. Page(n, s)
      <3> HIDE DEF quads
      <3> QED
        BY <2>3, BoxesAreUpright DEF Page
    <2> HIDE DEF s
    <2>7. Len(regions') = n /\ Page(n, regions') /\ InOrder(regions', page.rtl)
      BY <1>0, <2>2, <2>5, <2>6, OrderedPage
    <2>8. RealTextSurvives'
      BY <1>0, <1>2 DEF RealTextSurvives
    <2>9. ReadsInOrder'
      BY <1>0, <2>7 DEF ReadsInOrder, InOrder
    <2> QED
      BY <1>0, <2>2, <2>4, <2>7, <2>8, <2>9 DEF RegionsInv
  <1> QED
    BY <1>1, <1>2 DEF Detects

-----------------------------------------------------------------------------
(* PagePipeline: the texts.                                                *)

\* The recognized texts, each of its own region; blank ones included.
TextsFit(s) == s \in Seq(Texts) /\ \A k \in 1..Len(s) : s[k].of = k

Spoken(s) == {i \in 1..Len(s) : s[i].len > 0}
Before(s, k) == Cardinality({j \in 1..k : s[j].len > 0})
NonBlank(s) == Where(s, LAMBDA t : t.len > 0)

\* Dropping the blank texts keeps each of the others once, where the count of
\* those up to its region says.
LEMMA NonBlankTexts ==
    ASSUME NEW s, TextsFit(s)
    PROVE LET N == NonBlank(s)
          IN /\ Len(N) \in 0..Len(s) /\ N = [k \in 1..Len(N) |-> N[k]]
             /\ \A k \in 1..Len(N) : /\ N[k] \in Texts /\ N[k].of \in Spoken(s)
                                     /\ N[k] = s[N[k].of]
             /\ \A i \in Spoken(s) : Before(s, i) \in 1..Len(N) /\ N[Before(s, i)].of = i
             /\ \A k \in 1..Len(N) : Before(s, N[k].of) = k
  <1> DEFINE n == Len(s)
             places == Spoken(s)
             d == [i \in places |-> {j \in places : j <= i}]
             m == Cardinality(places)
             N == NonBlank(s)
  <1>1. n \in Nat /\ DOMAIN s = 1..n /\ \A k \in 1..n : s[k] \in Texts /\ s[k].of = k
    BY LenProperties, ElementOfSeq DEF TextsFit
  <1>2. places \in SUBSET (1..n)
    BY DEF Spoken
  <1>3. N = Pick(s, places)
    BY <1>1 DEF NonBlank, Where, Spoken
  <1>4. PICK p : Lists(places, d, p) /\ \A x : Pick(x, places) = [k \in 1..m |-> x[p[k]]]
    <2> HIDE DEF places, n
    <2>1. PICK p : Enumerates(places, p)
      BY <1>1, <1>2, PickLists
    <2> QED
      BY <2>1 DEF Enumerates
  <1>5. m \in 0..n
    <2> HIDE DEF places, n
    <2> QED
      BY <1>1, <1>2, PickLists
  <1>6. /\ p \in [1..m -> places] /\ \A k \in 1..m : Cardinality(d[p[k]]) = k
        /\ \A i \in places : Cardinality(d[i]) \in 1..m /\ p[Cardinality(d[i])] = i
    <2> HIDE DEF d, places, m
    <2> QED
      BY <1>4 DEF Lists, m
  <1>7. \A i \in places : d[i] = {j \in 1..i : s[j].len > 0}
    <2> SUFFICES ASSUME NEW i \in places PROVE {j \in places : j <= i} = {j \in 1..i : s[j].len > 0}
      OBVIOUS
    <2>1. i \in 1..n /\ i \in Nat
      BY <1>1, <1>2
    <2>2. \A j : j \in places /\ j <= i <=> j \in 1..i /\ s[j].len > 0
      BY <1>1, <2>1 DEF Spoken
    <2> HIDE DEF places
    <2> QED
      BY <1>1, <1>2, <2>1, <2>2
  <1>8. \A i \in places : Cardinality(d[i]) = Before(s, i)
    <2> HIDE DEF d
    <2> QED
      BY <1>7 DEF Before
  <1>9. N = [k \in 1..m |-> s[p[k]]]
    BY <1>3, <1>4
  <1> HIDE DEF N, m, d
  <1>10. Len(N) = m
    BY <1>1, <1>5, <1>9
  <1>11. \A k \in 1..m : p[k] \in places /\ N[k] = s[p[k]] /\ s[p[k]] \in Texts /\ s[p[k]].of = p[k]
    BY <1>1, <1>2, <1>6, <1>9
  <1>12. N = [k \in 1..m |-> N[k]]
    BY <1>9
  <1>13. \A i \in places : Before(s, i) \in 1..m /\ N[Before(s, i)].of = i
    BY <1>6, <1>8, <1>11
  <1>14. \A k \in 1..m : Before(s, N[k].of) = k
    BY <1>6, <1>8, <1>11
  <1> QED
    BY <1>5, <1>10, <1>11, <1>12, <1>13, <1>14 DEF N

Stages == {"detect", "recognize", "batch", "texts", "translated", "done", "failed"}

\* Where a page is: its texts, and the translations it has so far.
TextsInv ==
    /\ stage \in Stages
    /\ TextsFit(texts) /\ Len(texts) <= Len(regions)
    /\ sizes \in Seq(ToSet(sizes)) /\ Len(sizes) = Len(texts)
    /\ stage = "detect" => texts = <<>>
    /\ stage \in {"batch", "texts", "translated"} => Len(texts) = Len(regions) /\ ~page.skip
    /\ translated \in Seq([of : Texts, len : Lengths]) /\ Len(translated) <= Len(Recognized)
    /\ \A k \in 1..Len(translated) : translated[k].of = Recognized[k]
    /\ stage \in {"detect", "recognize", "batch"} => translated = <<>>
    /\ stage = "batch" => Len(Recognized) > 0
    /\ stage = "texts" => Len(translated) < Len(Recognized)
    /\ stage = "translated" => Len(translated) = Len(Recognized)

RowTypes == [w : Nat, h : Nat, source_len : Lengths, dest_len : Lengths]

\* What TextsKeepTheirRegion says of the statistics rows.
Follows(row, items, k) ==
    LET own == {i \in DOMAIN items : items[i].source.of = k}
    IN \/ own = {} /\ row.dest_len = 0
       \/ \E i \in own : own = {i} /\ row.dest_len = items[i].destination.len

RowsFollow ==
    stage = "done" =>
      /\ Len(rows) = Len(regions)
      /\ \A k \in DOMAIN rows : Follows(rows[k], result, k)

ResultInv ==
    /\ stage # "done" => result = <<>> /\ rows = <<>>
    /\ Len(result) \in 0..Len(regions) /\ rows \in Seq(RowTypes)
    /\ OwnTranslation /\ RowsFollow

\* The size each crop was read at, the pool's with the others.
SizesInv == \A k \in 1..Len(sizes) : sizes[k] = ReadAt(k)

PipeInv == RegionsInv /\ TextsInv /\ SizesInv /\ ResultInv

\* What the pages of every run end with: the items are the recognized texts,
\* each with its destination.
LEMMA EndsWell ==
    ASSUME RegionsInv, TextsInv, Len(texts) = Len(regions), NEW D,
           \A k \in 1..Len(Recognized) :
             /\ D[k].len \in Lengths
             /\ IF page.skip THEN D[k] = Untranslated ELSE D[k].of = Recognized[k],
           Ends([k \in 1..Len(Recognized) |-> Item(Recognized[k], D[k])])
    PROVE ResultInv'
  <1> DEFINE R == Recognized
             n == Len(texts)
             m == Len(R)
             items == [k \in 1..m |-> Item(R[k], D[k])]
  <1>1. /\ m \in 0..n /\ R = [k \in 1..m |-> R[k]]
        /\ \A k \in 1..m : R[k] \in Texts /\ R[k].of \in Spoken(texts) /\ R[k] = texts[R[k].of]
        /\ \A i \in Spoken(texts) : Before(texts, i) \in 1..m /\ R[Before(texts, i)].of = i
        /\ \A k \in 1..m : Before(texts, R[k].of) = k
    <2>1. R = NonBlank(texts)
      BY DEF Recognized, NonBlank
    <2> HIDE DEF R
    <2> QED
      BY <2>1, NonBlankTexts DEF TextsInv
  <1>2. /\ stage' = "done" /\ result' = items /\ rows' = BuildRegionRows(items)
        /\ UNCHANGED <<page, raw, regions, sizes, texts>>
    BY DEF Ends
  <1>3. n \in Nat /\ n = Len(regions) /\ DOMAIN regions = 1..n /\ DOMAIN texts = 1..n
    BY LenProperties DEF TextsInv, TextsFit, RegionsInv, Page
  <1>4. m \in Nat
    BY <1>1, <1>3
  <1> HIDE DEF R, m
  <1>5. DOMAIN items = 1..m /\ Len(items) = m
    BY <1>4
  <1>6. \A k \in 1..m : /\ items[k].source = R[k] /\ items[k].destination = D[k]
                        /\ items[k].bounds = regions[R[k].of].bbox
    BY DEF Item
  <1> HIDE DEF items
  <1>7. UNCHANGED Recognized
    BY <1>2 DEF Recognized, Where, Pick
  <1>8. OwnTranslation'
    <2>1. [k \in DOMAIN result' |-> result'[k].source] = Recognized
      <3>1. [k \in 1..m |-> items[k].source] = [k \in 1..m |-> R[k]]
        BY <1>6
      <3> QED
        BY <1>1, <1>2, <1>5, <3>1 DEF R
    <2>2. ASSUME NEW k \in 1..m
          PROVE /\ items[k].bounds = regions[items[k].source.of].bbox
                /\ IF page.skip THEN items[k].destination = Untranslated
                   ELSE items[k].destination.of = items[k].source
      BY <1>6 DEF R, m
    <2>3. Untranslated' = Untranslated
      BY DEF Untranslated, Reading
    <2> QED
      BY <1>2, <1>5, <1>7, <2>1, <2>2, <2>3 DEF OwnTranslation
  <1>9. \A k \in 1..n : texts[k].len \in Lengths /\ texts[k].len \in Nat
    <2>1. \A k \in 1..n : texts[k] \in Texts
      BY ElementOfSeq DEF TextsInv, TextsFit
    <2> QED
      BY <2>1, PipelineAssumption DEF Texts, Reading
  <1>10. \A k \in 1..n : k \in Spoken(texts) <=> texts[k].len # 0
    BY <1>9 DEF Spoken
  <1> DEFINE dest(k) == IF texts[k].len = 0 THEN 0 ELSE items[Before(texts, k)].destination.len
             row(k) == [w |-> BoxWidth(regions[k]), h |-> BoxHeight(regions[k]),
                        source_len |-> texts[k].len, dest_len |-> dest(k)]
  <1>11. rows' = [k \in 1..n |-> row(k)]
    BY <1>2, <1>3 DEF BuildRegionRows, Before
  <1>12. \A k \in 1..n : dest(k) \in Lengths
    <2> TAKE k \in 1..n
    <2>1. CASE texts[k].len = 0
      BY <2>1, PipelineAssumption
    <2>2. CASE texts[k].len # 0
      <3>1. Before(texts, k) \in 1..m
        BY <1>1, <1>10, <2>2
      <3>2. items[Before(texts, k)].destination = D[Before(texts, k)]
        BY <1>6, <3>1
      <3>3. D[Before(texts, k)].len \in Lengths
        BY <3>1 DEF R, m
      <3> QED
        BY <2>2, <3>2, <3>3
    <2> QED
      BY <2>1, <2>2
  <1>13. \A k \in 1..n : row(k) \in RowTypes
    <2> TAKE k \in 1..n
    <2>1. IsRegion(regions[k])
      BY <1>3 DEF RegionsInv, Page
    <2>2. BoxWidth(regions[k]) \in Nat /\ BoxHeight(regions[k]) \in Nat
      BY <2>1, RegionMeasures
    <2> HIDE DEF dest
    <2> QED
      BY <1>9, <1>12, <2>2 DEF RowTypes
  <1> HIDE DEF dest
  <1>14. \A k \in 1..n : row(k).dest_len = dest(k)
    OBVIOUS
  <1> HIDE DEF row
  <1>15. rows' \in Seq(RowTypes) /\ Len(rows') = n /\ DOMAIN rows' = 1..n
    BY <1>3, <1>11, <1>13
  <1>16. RowsFollow'
    <2>0. /\ DOMAIN rows' = 1..n /\ DOMAIN result' = 1..m /\ Len(rows') = Len(regions')
          /\ result' = items
      BY <1>2, <1>3, <1>5, <1>15
    <2> SUFFICES ASSUME NEW k \in 1..n PROVE Follows(rows'[k], items, k)
      BY <2>0 DEF RowsFollow
    <2> DEFINE own == {i \in 1..m : items[i].source.of = k}
    <2>1. rows'[k].dest_len = dest(k)
      BY <1>11, <1>14
    <2>2. \A i \in 1..m : items[i].source.of = k <=> R[i].of = k
      BY <1>6
    <2>3. CASE texts[k].len = 0
      <3>1. k \notin Spoken(texts)
        BY <1>10, <2>3
      <3>2. own = {}
        BY <1>1, <2>2, <3>1
      <3> QED
        BY <1>5, <2>1, <2>3, <3>2 DEF Follows, dest
    <2>4. CASE texts[k].len # 0
      <3>1. k \in Spoken(texts)
        BY <1>10, <2>4
      <3> DEFINE i == Before(texts, k)
      <3>2. i \in 1..m /\ R[i].of = k
        BY <1>1, <3>1
      <3>3. \A j \in 1..m : R[j].of = k => j = i
        BY <1>1
      <3>4. dest(k) = items[i].destination.len
        BY <2>4 DEF dest
      <3> HIDE DEF i
      <3>5. own = {i}
        BY <2>2, <3>2, <3>3
      <3> QED
        BY <1>5, <2>1, <3>2, <3>4, <3>5 DEF Follows
    <2> QED
      BY <2>3, <2>4
  <1> QED
    BY <1>1, <1>2, <1>3, <1>5, <1>8, <1>15, <1>16 DEF ResultInv

LEMMA PipeInitInv == Init => PipeInv
  <1> SUFFICES ASSUME Init PROVE PipeInv
    OBVIOUS
  <1>1. /\ page \in Requests /\ stage = "detect" /\ raw = <<>> /\ regions = <<>> /\ sizes = <<>>
        /\ texts = <<>> /\ translated = <<>> /\ result = <<>> /\ rows = <<>> /\ MaxDets \in Nat
    BY PipelineAssumption DEF Init
  <1>2. RegionsInv
    BY <1>1 DEF RegionsInv, Page, RealTextSurvives, ReadsInOrder
  <1>3. Len(Recognized) \in Nat
    <2>1. TextsFit(texts) /\ Recognized = NonBlank(texts) /\ Len(texts) = 0
      BY <1>1 DEF TextsFit, Recognized, NonBlank
    <2> QED
      BY <2>1, NonBlankTexts
  <1>4. TextsInv
    BY <1>1, <1>3 DEF TextsInv, TextsFit, Stages
  <1>5. ResultInv
    BY <1>1 DEF ResultInv, OwnTranslation, RowsFollow
  <1>6. SizesInv
    BY <1>1 DEF SizesInv
  <1> QED
    BY <1>2, <1>4, <1>5, <1>6 DEF PipeInv

\* After detection a page keeps its regions.
LEMMA RegionsStay ==
    ASSUME RegionsInv, UNCHANGED <<page, raw, regions>>, stage' # "recognize" \/ stage' = stage
    PROVE RegionsInv'
  BY DEF RegionsInv, RealTextSurvives, ReadsInOrder

LEMMA SizesStay ==
    ASSUME SizesInv, UNCHANGED <<page, regions, sizes>> PROVE SizesInv'
  BY DEF SizesInv, ReadAt

\* Before the end there is no result to speak of.
LEMMA NoResultYet ==
    ASSUME RegionsInv', ResultInv, stage # "done", stage' # "done", UNCHANGED <<result, rows>>
    PROVE ResultInv'
  <1>1. result' = <<>> /\ rows' = <<>> /\ Len(regions') \in Nat
    BY PipelineAssumption DEF ResultInv, RegionsInv
  <1> QED
    BY <1>1 DEF ResultInv, OwnTranslation, RowsFollow

\* The texts recognized so far, and those of them that are not blank.
LEMMA RecognizedFits ==
    ASSUME TextsInv
    PROVE /\ Len(texts) \in Nat /\ Len(Recognized) \in 0..Len(texts)
          /\ \A k \in 1..Len(Recognized) : Recognized[k] \in Texts
          /\ Recognized = [k \in 1..Len(Recognized) |-> Recognized[k]]
  <1>1. TextsFit(texts) /\ Recognized = NonBlank(texts)
    BY DEF TextsInv, Recognized, NonBlank
  <1> QED
    BY <1>1, NonBlankTexts, LenProperties DEF TextsFit

LEMMA SameTexts == ASSUME UNCHANGED texts PROVE UNCHANGED Recognized
  BY DEF Recognized, Where, Pick

\* A stage that fails, and the steps that only choose the next stage.
LEMMA StageMoves ==
    ASSUME PipeInv, EngineFails \/ TextFails \/ StartsTranslating \/ BatchFallsBack
    PROVE PipeInv'
  <1>1. /\ UNCHANGED <<page, raw, regions, sizes, texts, translated, result, rows>>
        /\ stage' \in {"failed", "batch", "texts"} /\ stage # "done"
    BY DEF EngineFails, TextFails, StartsTranslating, BatchFallsBack, Fails, AllRead
  <1>2. RegionsInv'
    BY <1>1, RegionsStay DEF PipeInv
  <1>3. ResultInv'
    BY <1>1, <1>2, NoResultYet DEF PipeInv
  <1>4. UNCHANGED Recognized /\ UNCHANGED ToSet(sizes)
    BY <1>1, SameTexts DEF ToSet
  <1>5. stage' # "failed" => Len(texts) = Len(regions) /\ ~page.skip /\ translated = <<>> /\ Len(Recognized) > 0
    <2>1. CASE StartsTranslating
      <3>1. Len(Recognized) \in Nat /\ Recognized = [k \in 1..Len(Recognized) |-> Recognized[k]]
        BY RecognizedFits DEF PipeInv, TextsInv
      <3>2. Recognized # <<>> => Len(Recognized) # 0
        BY <3>1
      <3> QED
        BY <2>1, <3>1, <3>2 DEF StartsTranslating, AllRead, PipeInv, TextsInv
    <2>2. CASE BatchFallsBack
      BY <2>2 DEF BatchFallsBack, PipeInv, TextsInv
    <2>3. CASE EngineFails \/ TextFails
      BY <2>3 DEF EngineFails, TextFails, Fails
    <2> QED
      BY <2>1, <2>2, <2>3
  <1>6. TextsInv'
    BY <1>1, <1>4, <1>5 DEF PipeInv, TextsInv, TextsFit, Stages
  <1>7. SizesInv'
    BY <1>1, SizesStay DEF PipeInv
  <1> QED
    BY <1>2, <1>3, <1>6, <1>7 DEF PipeInv

LEMMA DetectKeeps == ASSUME PipeInv, Detects PROVE PipeInv'
  <1>1. RegionsInv'
    BY DetectsRegions DEF PipeInv
  <1>2. /\ stage = "detect" /\ stage' = "recognize"
        /\ UNCHANGED <<page, sizes, texts, translated, result, rows>>
    BY DEF Detects
  <1>3. ResultInv'
    BY <1>1, <1>2, NoResultYet DEF PipeInv
  <1>4. UNCHANGED Recognized /\ UNCHANGED ToSet(sizes)
    BY <1>2, SameTexts DEF ToSet
  <1>5. Len(texts) = 0 /\ Len(regions') \in Nat
    BY <1>1, <1>2, PipelineAssumption DEF PipeInv, TextsInv, RegionsInv
  <1>6. TextsInv'
    BY <1>2, <1>4, <1>5 DEF PipeInv, TextsInv, TextsFit, Stages
  <1>7. SizesInv'
    <2>1. Len(sizes) = 0 /\ sizes' = sizes
      BY <1>2, <1>5 DEF PipeInv, TextsInv
    <2> QED
      BY <2>1 DEF SizesInv
  <1> QED
    BY <1>1, <1>3, <1>6, <1>7 DEF PipeInv

\* One text for one crop, whatever was read.
LEMMA ReadingFits ==
    ASSUME RegionsInv, NEW k \in 1..Len(regions), NEW len \in Lengths
    PROVE Reading(k, len) \in Texts /\ Reading(k, len).of = k
  <1>1. k \in 1..MaxDets
    BY PipelineAssumption DEF RegionsInv
  <1> QED
    BY <1>1 DEF Reading, Texts

LEMMA RecognizeKeeps ==
    ASSUME PipeInv, RecognizesCrop \/ RecognizesOnPool PROVE PipeInv'
  <1>1. /\ stage = "recognize" /\ stage' = "recognize" /\ Len(texts) < Len(regions)
        /\ UNCHANGED <<page, raw, regions, translated, result, rows>>
    BY DEF RecognizesCrop, RecognizesOnPool
  <1>2. RegionsInv'
    BY <1>1, RegionsStay DEF PipeInv
  <1>3. ResultInv'
    BY <1>1, <1>2, NoResultYet DEF PipeInv
  <1> DEFINE n == Len(texts)
  <1>4. /\ n \in Nat /\ Len(regions) \in Nat /\ DOMAIN regions = 1..Len(regions)
        /\ texts \in Seq(Texts) /\ \A k \in 1..n : texts[k].of = k
    BY LenProperties DEF PipeInv, TextsInv, TextsFit, RegionsInv, Page
  <1>5. /\ TextsFit(texts') /\ Len(texts') <= Len(regions)
        /\ sizes' \in Seq(ToSet(sizes')) /\ Len(sizes') = Len(texts')
        /\ \A k \in 1..Len(sizes') : sizes'[k] = ReadAt(k)
    <2>1. CASE RecognizesCrop
      <3>1. PICK len \in Lengths : texts' = Append(texts, Reading(n + 1, len))
        BY <2>1 DEF RecognizesCrop
      <3>2. sizes' = Append(sizes, ReadAt(n + 1))
        BY <2>1 DEF RecognizesCrop
      <3>3. n + 1 \in 1..Len(regions)
        BY <1>1, <1>4
      <3> DEFINE t == Reading(n + 1, len)
      <3>4. t \in Texts /\ t.of = n + 1
        BY <3>3, ReadingFits DEF PipeInv
      <3> HIDE DEF t
      <3>5. /\ texts' \in Seq(Texts) /\ Len(texts') = n + 1
            /\ \A i \in 1..n : texts'[i] = texts[i] /\ texts'[n + 1] = t
        BY <1>4, <3>1, <3>4, AppendProperties DEF t
      <3>6. texts'[n + 1] = t
        BY <1>4, <3>1, <3>4, AppendProperties DEF t
      <3>7. \A i \in 1..(n + 1) : i \in 1..n \/ i = n + 1
        BY <1>4
      <3>8. TextsFit(texts')
        BY <1>4, <3>4, <3>5, <3>6, <3>7 DEF TextsFit
      <3> DEFINE S == ToSet(sizes) \cup {ReadAt(n + 1)}
      <3>9. sizes \in Seq(S) /\ Len(sizes) = n
        BY SeqMonotonic DEF PipeInv, TextsInv
      <3>10. ReadAt(n + 1) \in S
        OBVIOUS
      <3> HIDE DEF S
      <3>11. sizes' \in Seq(S) /\ Len(sizes') = n + 1
        BY <3>2, <3>9, <3>10, AppendProperties
      <3>12. sizes' \in [1..(n + 1) -> ToSet(sizes')]
        <4>1. DOMAIN sizes' = 1..(n + 1) /\ sizes' \in [1..(n + 1) -> S]
          BY <3>11, LenProperties
        <4> QED
          BY <4>1 DEF ToSet
      <3>13. n + 1 \in Nat
        BY <1>4
      <3>14. sizes' \in Seq(ToSet(sizes'))
        BY <3>12, <3>13, SeqDef
      <3>15. /\ \A k \in 1..n : sizes'[k] = sizes[k]
             /\ sizes'[n + 1] = ReadAt(n + 1)
        BY <3>2, <3>9, <3>10, AppendProperties
      <3>16. \A k \in 1..n : sizes[k] = ReadAt(k)
        BY <3>9 DEF PipeInv, SizesInv
      <3>17. \A k \in 1..(n + 1) : sizes'[k] = ReadAt(k)
        BY <3>7, <3>15, <3>16
      <3> QED
        BY <3>3, <3>5, <3>8, <3>11, <3>14, <3>17
    <2>2. CASE RecognizesOnPool
      <3>1. PICK lens \in [DOMAIN regions -> Lengths] :
              texts' = [k \in DOMAIN regions |-> Reading(k, lens[k])]
        BY <2>2 DEF RecognizesOnPool
      <3>2. sizes' = [k \in DOMAIN regions |-> ReadAt(k)]
        BY <2>2 DEF RecognizesOnPool
      <3> DEFINE m == Len(regions)
      <3>3. \A k \in 1..m : Reading(k, lens[k]) \in Texts /\ Reading(k, lens[k]).of = k
        BY <1>4, ReadingFits DEF PipeInv
      <3> HIDE DEF m
      <3>4. DOMAIN regions = 1..m /\ m \in Nat
        BY <1>4 DEF m
      <3>5. texts' \in Seq(Texts) /\ Len(texts') = m /\ \A k \in 1..m : texts'[k].of = k
        BY <3>1, <3>3, <3>4
      <3>6. sizes' \in [1..m -> ToSet(sizes')]
        BY <3>2, <3>4 DEF ToSet
      <3>7. sizes' \in Seq(ToSet(sizes')) /\ Len(sizes') = m
        BY <3>4, <3>6, SeqDef
      <3>8. \A k \in 1..m : sizes'[k] = ReadAt(k)
        BY <3>2, <3>4
      <3> QED
        BY <3>4, <3>5, <3>7, <3>8 DEF TextsFit, m
    <2> QED
      BY <2>1, <2>2
  <1>6. translated' = <<>>
    BY <1>1 DEF PipeInv, TextsInv
  <1>7. Len(Recognized') \in Nat
    <2>1. Recognized' = NonBlank(texts')
      BY DEF Recognized, NonBlank, Where, Pick
    <2>2. Len(texts') \in Nat
      BY <1>5, LenProperties DEF TextsFit
    <2> QED
      BY <1>5, <2>1, <2>2, NonBlankTexts
  <1>8. TextsInv'
    BY <1>1, <1>5, <1>6, <1>7 DEF TextsInv, Stages
  <1>9. SizesInv'
    <2>1. ReadAt(1)' = ReadAt(1) /\ \A k : ReadAt(k)' = ReadAt(k)
      BY <1>1 DEF ReadAt
    <2> QED
      BY <1>5, <2>1 DEF SizesInv
  <1> QED
    BY <1>2, <1>3, <1>8, <1>9 DEF PipeInv

\* translate_batch: a complete answer has every text's translation in place.
LEMMA BatchKeeps == ASSUME PipeInv, BatchAnswers PROVE PipeInv'
  <1>1. /\ stage = "batch" /\ stage' = "translated"
        /\ UNCHANGED <<page, raw, regions, sizes, texts, result, rows>>
    BY DEF BatchAnswers
  <1>2. RegionsInv'
    BY <1>1, RegionsStay DEF PipeInv
  <1>3. ResultInv'
    BY <1>1, <1>2, NoResultYet DEF PipeInv
  <1>4. UNCHANGED Recognized /\ UNCHANGED ToSet(sizes)
    BY <1>1, SameTexts DEF ToSet
  <1> DEFINE n == Len(Recognized)
  <1>5. n \in Nat /\ \A k \in 1..n : Recognized[k] \in Texts
    BY RecognizedFits DEF PipeInv
  <1>6. PICK answer \in Answers(n) : translated' \in Aligned(answer, n)
    BY <1>1 DEF BatchAnswers
  <1>7. /\ 0..(n - 1) \subseteq DOMAIN answer
        /\ translated' = [i \in 1..n |-> Rendered(answer, i - 1)]
    BY <1>6 DEF Aligned
  <1>8. \A i \in 0..(n - 1) : answer[i] \in Lengths
    BY <1>6, <1>7 DEF Answers
  <1> HIDE DEF n
  <1>9. \A i \in 1..n : i - 1 \in 0..(n - 1) /\ i - 1 < n /\ (i - 1) + 1 = i
    BY <1>5
  <1>10. \A i \in 1..n : Rendered(answer, i - 1) = [of |-> Recognized[i], len |-> answer[i - 1]]
    BY <1>9 DEF Rendered, n
  <1>11. ASSUME NEW i \in 1..n
         PROVE /\ Rendered(answer, i - 1) \in [of : Texts, len : Lengths]
               /\ Rendered(answer, i - 1).of = Recognized[i]
    <2>1. answer[i - 1] \in Lengths /\ Recognized[i] \in Texts
      BY <1>5, <1>8, <1>9
    <2>2. Rendered(answer, i - 1) = [of |-> Recognized[i], len |-> answer[i - 1]]
      BY <1>10
    <2> QED
      BY <2>1, <2>2
  <1> DEFINE given(i) == Rendered(answer, i - 1)
  <1>12. translated' = [i \in 1..n |-> given(i)]
    BY <1>7
  <1> HIDE DEF given
  <1>13. translated' \in [1..n -> [of : Texts, len : Lengths]]
    BY <1>11, <1>12 DEF given
  <1>14. /\ translated' \in Seq([of : Texts, len : Lengths]) /\ Len(translated') = n
         /\ \A i \in 1..n : translated'[i].of = Recognized[i]
    <2>1. translated' \in Seq([of : Texts, len : Lengths])
      BY <1>5, <1>13, SeqDef
    <2>2. Len(translated') = n
      BY <1>5, <1>12
    <2>3. \A i \in 1..n : translated'[i].of = Recognized[i]
      BY <1>11, <1>12 DEF given
    <2> QED
      BY <2>1, <2>2, <2>3
  <1>15. Len(translated') = Len(Recognized') /\ Len(Recognized') \in Nat
    BY <1>4, <1>5, <1>14 DEF n
  <1>16. \A i \in 1..Len(translated') : translated'[i].of = Recognized'[i]
    BY <1>4, <1>14
  <1>17. TextsInv'
    BY <1>1, <1>4, <1>14, <1>15, <1>16 DEF PipeInv, TextsInv, TextsFit, Stages
  <1>18. SizesInv'
    BY <1>1, SizesStay DEF PipeInv
  <1> QED
    BY <1>2, <1>3, <1>17, <1>18 DEF PipeInv

\* The per-text loop.
LEMMA TextKeeps == ASSUME PipeInv, TranslatesText PROVE PipeInv'
  <1> DEFINE k == Len(translated) + 1
  <1>1. /\ stage = "texts" /\ stage' = IF k = Len(Recognized) THEN "translated" ELSE "texts"
        /\ UNCHANGED <<page, raw, regions, sizes, texts, result, rows>>
    BY DEF TranslatesText
  <1>2. RegionsInv'
    BY <1>1, RegionsStay DEF PipeInv
  <1>3. ResultInv'
    BY <1>1, <1>2, NoResultYet DEF PipeInv
  <1>4. UNCHANGED Recognized /\ UNCHANGED ToSet(sizes)
    BY <1>1, SameTexts DEF ToSet
  <1>5. PICK len \in Lengths : translated' = Append(translated, [of |-> Recognized[k], len |-> len])
    BY DEF TranslatesText
  <1>6. /\ Len(Recognized) \in Nat /\ \A i \in 1..Len(Recognized) : Recognized[i] \in Texts
        /\ Len(translated) \in Nat /\ Len(translated) < Len(Recognized)
        /\ translated \in Seq([of : Texts, len : Lengths])
        /\ \A i \in 1..Len(translated) : translated[i].of = Recognized[i]
    BY <1>1, RecognizedFits, LenProperties DEF PipeInv, TextsInv
  <1>7. k \in 1..Len(Recognized)
    BY <1>6
  <1> DEFINE t == [of |-> Recognized[k], len |-> len]
  <1>8. t \in [of : Texts, len : Lengths] /\ t.of = Recognized[k]
    BY <1>6, <1>7
  <1> HIDE DEF t
  <1>9. /\ translated' \in Seq([of : Texts, len : Lengths]) /\ Len(translated') = k
        /\ \A i \in 1..Len(translated) : translated'[i] = translated[i]
        /\ translated'[k] = t
    BY <1>5, <1>6, <1>8, AppendProperties DEF t
  <1>10. \A i \in 1..k : i \in 1..Len(translated) \/ i = k
    BY <1>6
  <1> HIDE DEF k
  <1>11. \A i \in 1..k : translated'[i].of = Recognized[i]
    BY <1>6, <1>8, <1>9, <1>10
  <1>12. k \in Nat /\ k <= Len(Recognized)
    BY <1>6, <1>7
  <1>13. TextsInv'
    BY <1>1, <1>4, <1>6, <1>9, <1>11, <1>12 DEF PipeInv, TextsInv, TextsFit, Stages
  <1>14. SizesInv'
    BY <1>1, SizesStay DEF PipeInv
  <1> QED
    BY <1>2, <1>3, <1>13, <1>14 DEF PipeInv

\* The three ends of a page.
LEMMA EndKeeps ==
    ASSUME PipeInv, SkipsTranslation \/ TranslatesNothing \/ Returns PROVE PipeInv'
  <1> DEFINE n == Len(Recognized)
  <1>1. /\ n \in Nat /\ Recognized = [k \in 1..n |-> Recognized[k]]
        /\ DOMAIN Recognized = 1..n
    BY RecognizedFits, SequenceLength DEF PipeInv
  <1>2. 0 \in Lengths
    BY PipelineAssumption
  <1>3. PICK D : /\ Len(texts) = Len(regions)
                 /\ \A k \in 1..n : /\ D[k].len \in Lengths
                                    /\ IF page.skip THEN D[k] = Untranslated
                                       ELSE D[k].of = Recognized[k]
                 /\ Ends([k \in 1..n |-> Item(Recognized[k], D[k])])
                 /\ translated' = translated
    <2>1. CASE SkipsTranslation
      <3> DEFINE D == [k \in 1..n |-> Untranslated]
      <3>1. Ends([k \in 1..n |-> Item(Recognized[k], Untranslated)])
        BY <1>1, <2>1 DEF SkipsTranslation
      <3>2. [k \in 1..n |-> Item(Recognized[k], Untranslated)]
              = [k \in 1..n |-> Item(Recognized[k], D[k])]
        OBVIOUS
      <3>3. Ends([k \in 1..n |-> Item(Recognized[k], D[k])])
        BY <3>1, <3>2
      <3>4. \A k \in 1..n : D[k] = Untranslated /\ D[k].len \in Lengths
        BY <1>2 DEF Untranslated
      <3> HIDE DEF D
      <3> QED
        BY <2>1, <3>3, <3>4 DEF SkipsTranslation, AllRead
    <2>2. CASE TranslatesNothing
      <3>1. n = 0
        BY <2>2 DEF TranslatesNothing
      <3>2. [k \in 1..n |-> Item(Recognized[k], <<>>[k])] = <<>>
        BY <3>1
      <3>3. Ends([k \in 1..n |-> Item(Recognized[k], <<>>[k])])
        BY <2>2, <3>2 DEF TranslatesNothing
      <3> QED
        BY <2>2, <3>1, <3>3 DEF TranslatesNothing, AllRead
    <2>3. CASE Returns
      <3>1. Len(translated) = n /\ Least(n, Len(translated)) = n
        BY <1>1, <2>3 DEF Returns, PipeInv, TextsInv, Least
      <3>2. Ends([k \in 1..n |-> Item(Recognized[k], translated[k])])
        BY <2>3, <3>1 DEF Returns
      <3>3. \A k \in 1..n : translated[k].len \in Lengths /\ translated[k].of = Recognized[k]
        <4> TAKE k \in 1..n
        <4>1. translated[k] \in [of : Texts, len : Lengths]
          BY <3>1, ElementOfSeq DEF PipeInv, TextsInv
        <4>2. translated[k].of = Recognized[k]
          BY <3>1 DEF PipeInv, TextsInv
        <4> QED
          BY <4>1, <4>2
      <3> QED
        BY <2>3, <3>2, <3>3 DEF Returns, PipeInv, TextsInv
    <2> QED
      BY <2>1, <2>2, <2>3
  <1>4. /\ stage' = "done" /\ UNCHANGED <<page, raw, regions, sizes, texts, translated>>
    BY <1>3 DEF Ends
  <1>5. RegionsInv'
    BY <1>4, RegionsStay DEF PipeInv
  <1>6. ResultInv'
    BY <1>3, EndsWell DEF PipeInv
  <1>7. UNCHANGED Recognized /\ UNCHANGED ToSet(sizes)
    BY <1>4, SameTexts DEF ToSet
  <1>8. TextsInv'
    BY <1>4, <1>7 DEF PipeInv, TextsInv, TextsFit, Stages
  <1>9. SizesInv'
    BY <1>4, SizesStay DEF PipeInv
  <1> QED
    BY <1>5, <1>6, <1>8, <1>9 DEF PipeInv

LEMMA PipeStutter == ASSUME PipeInv, UNCHANGED vars PROVE PipeInv'
  <1>1. UNCHANGED <<page, stage, raw, regions, sizes, texts, translated, result, rows>>
    BY DEF vars
  <1>2. RegionsInv'
    BY <1>1, RegionsStay DEF PipeInv
  <1>3. UNCHANGED Recognized /\ UNCHANGED ToSet(sizes)
    BY <1>1, SameTexts DEF ToSet
  <1>4. TextsInv'
    BY <1>1, <1>3 DEF PipeInv, TextsInv, TextsFit, Stages
  <1>5. ResultInv'
    BY <1>1, <1>3 DEF PipeInv, ResultInv, OwnTranslation, RowsFollow, Untranslated, Reading
  <1>6. SizesInv'
    BY <1>1, SizesStay DEF PipeInv
  <1> QED
    BY <1>2, <1>4, <1>5, <1>6 DEF PipeInv

LEMMA PipeInvStep == PipeInv /\ [Next]_vars => PipeInv'
  BY StageMoves, DetectKeeps, RecognizeKeeps, BatchKeeps, TextKeeps, EndKeeps, PipeStutter DEF Next

\* Every page keeps its parts together, in all its stages.
THEOREM PipelineInvariant == Spec => []PipeInv
  <1> QED
    BY PipeInitInv, PipeInvStep, PTL DEF Spec

\* pipeline.py, http_translator.py and orchestrator.py: whatever the detector
\* found, the crops read and the backend answered, in a batch, text by text or
\* after a fallback, each recognized text ends once, in its own box, with its
\* own translation and in its own statistics row.
THEOREM TextsStayWithTheirRegion == Spec => []TextsKeepTheirRegion
  <1>1. PipeInv => TextsKeepTheirRegion
    <2> SUFFICES ASSUME PipeInv PROVE TextsKeepTheirRegion
      OBVIOUS
    <2>1. PipeTypeOK
      BY PipelineAssumption, LenProperties
         DEF PipeInv, RegionsInv, TextsInv, TextsFit, ResultInv, PipeTypeOK, Stages, RowTypes
    <2> QED
      BY <2>1 DEF PipeInv, ResultInv, RowsFollow, Follows, TextsKeepTheirRegion
  <1> QED
    BY <1>1, PipelineInvariant, PTL

\* The sizes of the invariant are those deskew_crop and downscale_to_cap make.
LEMMA PipeInvReads == PipeInv => CropsAreReadable
  <1> SUFFICES ASSUME PipeInv, NEW k \in DOMAIN sizes
               PROVE LET crop == DeskewCrop(regions[k])
                         size == sizes[k]
                     IN /\ ~IsDegenerate(regions[k]) => crop[1] >= MinCrop /\ crop[2] >= MinCrop
                        /\ size[1] \in 1 .. crop[1] /\ size[2] \in 1 .. crop[2]
                        /\ MaxPixels > 0 /\ crop[1] <= MaxPixels /\ crop[2] <= MaxPixels
                             => size[1] * size[2] <= MaxPixels
                        /\ size = crop \/ crop[1] * crop[2] > MaxPixels
    BY DEF CropsAreReadable
  <1> DEFINE r == regions[k]
             c == DeskewCrop(r)
  <1>1. k \in 1..Len(sizes) /\ k \in 1..Len(regions)
    BY LenProperties DEF PipeInv, RegionsInv, TextsInv, TextsFit
  <1>2. IsRegion(r)
    BY <1>1 DEF PipeInv, RegionsInv, Page
  <1>3. sizes[k] = Downscale(c, page.mode)
    BY <1>1 DEF PipeInv, SizesInv, ReadAt
  <1> HIDE DEF r
  <1>4. /\ c = <<c[1], c[2]>> /\ c[1] \in Nat \ {0} /\ c[2] \in Nat \ {0}
        /\ ~IsDegenerate(r) => c[1] >= MinCrop /\ c[2] >= MinCrop
    BY <1>2, CropsHaveSides DEF IsRegion
  <1> HIDE DEF c
  <1> DEFINE s == Downscale(c, page.mode)
  <1>5. /\ s[1] \in 1..c[1] /\ s[2] \in 1..c[2]
        /\ MaxPixels > 0 /\ c[1] <= MaxPixels /\ c[2] <= MaxPixels => s[1] * s[2] <= MaxPixels
        /\ s = c \/ c[1] * c[2] > MaxPixels
    BY <1>4, DownscaleFits
  <1> HIDE DEF s
  <1>6. sizes[k] = s
    BY <1>3 DEF s
  <1> QED
    BY <1>4, <1>5, <1>6 DEF c, r

\* postprocess.py, geometry.py, pipeline.py and local_engine.py, for any
\* detections, quads and thresholds: no large enough text is lost but to one that
\* scored at least as high and overlaps it, a page is read top to bottom and in
\* its language's direction, and each of its crops at a size that can be read.
THEOREM RegionsAreAlwaysRead == Spec => []RegionsAreRead
  <1>1. PipeInv => RegionsAreRead
    BY PipeInvReads DEF PipeInv, RegionsInv, RegionsAreRead
  <1> QED
    BY <1>1, PipelineInvariant, PTL
-----------------------------------------------------------------------------
(* RunOptions: what a backend is asked is a function of what the cache's   *)
(* key holds, for any engines, options, prompts and requests.              *)

\* A stored page was made as a plan with the key it is stored under asks.
RowsFit == \A row \in cached : \E p : row.key = CacheKey(p) /\ MadeAs(row.made, p)

AnswersMade == \A r \in Clients : at[r] = "answered" => MadeAs(got[r], plan[r])

\* Between its ensure and its run a request has its recognizer in the pool,
\* or no pool, or was overtaken by another's ensure.
PoolsFit ==
    \A r \in Clients :
        at[r] = "recognize" => loaded \in {None, Ensured(plan[r])} \/ r \in swapped

\* What a page was read with, until it is translated.
ReadAs(how, p) ==
    how.crop = AskedCrops(p) /\ (how.by = p.engines["recognizer"] \/ how.swapped)
ReadsFit == \A r \in Clients : at[r] = "translate" => ReadAs(read[r], plan[r])

RequestTypes ==
    /\ at = [r \in Clients |-> at[r]] /\ plan = [r \in Clients |-> plan[r]]
    /\ read = [r \in Clients |-> read[r]] /\ got = [r \in Clients |-> got[r]]

OptInv == RowsFit /\ AnswersMade /\ PoolsFit /\ ReadsFit /\ RequestTypes
-----------------------------------------------------------------------------
\* RunPlan.cache_key: two plans with one key ask the backends the same.
LEMMA KeyDecides ==
    ASSUME NEW p, NEW q, CacheKey(p) = CacheKey(q), NEW m, MadeAs(m, p) PROVE MadeAs(m, q)
  <1>1. p.langs = q.langs /\ p.engines = q.engines /\ p.opts = q.opts
    BY DEF CacheKey
  <1> QED
    BY <1>1 DEF MadeAs, AskedTexts, AskedCrops

\* state.json of a first run, or of an earlier one.
LEMMA OptInitInv == OptInit => OptInv
  BY DEF OptInit, OptInv, RowsFit, AnswersMade, PoolsFit, ReadsFit, RequestTypes

\* What is posted reaches no request that has its plan.
LEMMA PostInv == ASSUME OptInv, FormPosted PROVE OptInv'
  <1>1. UNCHANGED requests
    BY DEF FormPosted, SetOptions, SetEngine, SetLanguages, SelectPrompt, SavePrompt,
           DeletePrompt, Post
  <1> QED
    BY <1>1 DEF requests, OptInv, RowsFit, AnswersMade, PoolsFit, ReadsFit, RequestTypes

\* A step of one request leaves the others where they are.
OthersStay(r) ==
    \A s \in Clients \ {r} : /\ at'[s] = at[s] /\ plan'[s] = plan[s]
                             /\ read'[s] = read[s] /\ got'[s] = got[s]

LEMMA RequestStays ==
    ASSUME OptInv, NEW r \in Clients,
           \/ MakePlan(r) \/ CacheHit(r) \/ CacheMiss(r) \/ Ensures(r)
           \/ Recognizes(r) \/ Translates(r) \/ RequestEnds(r)
    PROVE  OthersStay(r) /\ RequestTypes'
  <1> USE DEF Advance, OptInv, RequestTypes, OthersStay
  <1>1. CASE MakePlan(r) \/ CacheHit(r) \/ CacheMiss(r)
    BY <1>1 DEF MakePlan, CacheHit, CacheMiss
  <1>2. CASE Ensures(r) \/ Recognizes(r)
    BY <1>2 DEF Ensures, Recognizes
  <1>3. CASE Translates(r)
    BY <1>3 DEF Translates
  <1>4. CASE RequestEnds(r)
    BY <1>4 DEF RequestEnds
  <1> QED
    BY <1>1, <1>2, <1>3, <1>4

\* A step that keeps the pool, the stored pages and the overtaken, and leaves
\* its request before the ensure or after the answer.
LEMMA QuietStep ==
    ASSUME OptInv, NEW r \in Clients, OthersStay(r), RequestTypes',
           cached' = cached, loaded' = loaded, swapped \ {r} \subseteq swapped',
           at'[r] \notin {"recognize", "translate", "answered"}
    PROVE  OptInv'
  BY DEF OthersStay, OptInv, RowsFit, AnswersMade, PoolsFit, ReadsFit

\* A request: what it stores has its own plan's key, and what it finds under
\* that key is what its plan asks for.
LEMMA RequestInv ==
    ASSUME OptInv, NEW r \in Clients,
           \/ MakePlan(r) \/ CacheHit(r) \/ CacheMiss(r) \/ Ensures(r)
           \/ Recognizes(r) \/ Translates(r) \/ RequestEnds(r)
    PROVE  OptInv'
  <1>0. OthersStay(r) /\ RequestTypes'
    BY RequestStays
  <1>1. CASE MakePlan(r) \/ CacheMiss(r) \/ RequestEnds(r)
    <2>1. /\ cached' = cached /\ loaded' = loaded /\ swapped \ {r} \subseteq swapped'
          /\ at'[r] \notin {"recognize", "translate", "answered"}
      BY <1>1 DEF MakePlan, CacheMiss, RequestEnds, Advance, OptInv, RequestTypes
    <2> QED
      BY <1>0, <2>1, QuietStep
  <1>2. CASE CacheHit(r)
    <2>1. PICK row \in cached : row.key = CacheKey(plan[r]) /\ got' = [got EXCEPT ![r] = row.made]
      BY <1>2 DEF CacheHit
    <2>2. MadeAs(row.made, plan[r])
      BY <2>1, KeyDecides DEF OptInv, RowsFit
    <2>3. /\ at'[r] = "answered" /\ got'[r] = row.made
          /\ UNCHANGED <<cached, plan, loaded, swapped, read>>
      BY <1>2, <2>1 DEF CacheHit, Advance, OptInv, RequestTypes
    <2> QED
      BY <1>0, <2>2, <2>3 DEF OthersStay, OptInv, RowsFit, AnswersMade, PoolsFit, ReadsFit
  <1>3. CASE Ensures(r)
    <2>1. /\ at'[r] = "recognize" /\ loaded' = Ensured(plan[r])
          /\ swapped' = (swapped \ {r}) \cup
                {c \in Clients \ {r} : at[c] = "recognize" /\ Ensured(plan[c]) # loaded'}
          /\ UNCHANGED <<cached, plan, read, got>>
      BY <1>3 DEF Ensures, Advance, OptInv, RequestTypes
    <2>2. PoolsFit'
      <3> SUFFICES ASSUME NEW s \in Clients, at'[s] = "recognize"
                   PROVE loaded' \in {None, Ensured(plan[s])} \/ s \in swapped'
        BY <2>1 DEF PoolsFit, Ensured
      <3>1. CASE s = r
        BY <2>1, <3>1
      <3>2. CASE s # r
        <4>1. at[s] = "recognize"
          BY <1>0, <3>2 DEF OthersStay
        <4> QED
          BY <2>1, <3>2, <4>1
      <3> QED
        BY <3>1, <3>2
    <2> QED
      BY <1>0, <2>1, <2>2 DEF OthersStay, OptInv, RowsFit, AnswersMade, ReadsFit
  <1>4. CASE Recognizes(r)
    <2>1. at[r] = "recognize" /\ UNCHANGED <<cached, plan, loaded, swapped, got>>
      BY <1>4 DEF Recognizes
    <2>2. CASE loaded = None
      <3>1. at'[r] = "failed"
        BY <1>4, <2>2 DEF Recognizes, Advance, OptInv, RequestTypes
      <3> QED
        BY <1>0, <2>1, <3>1, QuietStep
    <2>3. CASE loaded # None
      <3>1. /\ at'[r] = "translate"
            /\ read'[r] = [by |-> loaded, crop |-> AskedCrops(plan[r]), swapped |-> r \in swapped]
        BY <1>4, <2>3 DEF Recognizes, Advance, OptInv, RequestTypes
      <3>2. loaded = plan[r].engines["recognizer"] \/ r \in swapped
        BY <2>1, <2>3 DEF OptInv, PoolsFit, Ensured
      <3>3. ReadAs(read'[r], plan[r])
        <4>1. read'[r].by = loaded /\ read'[r].crop = AskedCrops(plan[r])
          BY <3>1
        <4>2. read'[r].swapped = (r \in swapped)
          BY <3>1
        <4> QED
          BY <3>2, <4>1, <4>2, Zenon DEF ReadAs
      <3>4. ReadsFit'
        BY <1>0, <2>1, <3>3 DEF OthersStay, OptInv, ReadsFit, ReadAs, AskedCrops
      <3> QED
        BY <1>0, <2>1, <3>1, <3>4 DEF OthersStay, OptInv, RowsFit, AnswersMade, PoolsFit
    <2> QED
      BY <2>2, <2>3
  <1>5. CASE Translates(r)
    <2>1. at[r] = "translate" /\ UNCHANGED <<plan, loaded, swapped, read>>
      BY <1>5 DEF Translates
    <2>2. CASE ~HasModel(plan[r])
      <3>1. at'[r] = "failed" /\ cached' = cached
        BY <1>5, <2>2 DEF Translates, Advance, OptInv, RequestTypes
      <3> QED
        BY <1>0, <2>1, <3>1, QuietStep
    <2>3. CASE HasModel(plan[r])
      <3> DEFINE made == [read |-> read[r], texts |-> TextsFrom(plan[r])]
                 row == [key |-> CacheKey(plan[r]), made |-> made]
      <3>1. /\ at'[r] = "answered" /\ got'[r] = made
            /\ cached' = {old \in cached : old.key # row.key} \cup {row}
        BY <1>5, <2>3 DEF Translates, Advance, OptInv, RequestTypes
      <3>2. MadeAs(made, plan[r])
        BY <2>1 DEF OptInv, ReadsFit, ReadAs, MadeAs, TextsFrom
      <3>3. row.key = CacheKey(plan[r]) /\ row.made = made
        OBVIOUS
      <3>4. cached' \subseteq cached \cup {row}
        BY <3>1
      <3> HIDE DEF row, made
      <3>5. RowsFit'
        BY <3>2, <3>3, <3>4 DEF OptInv, RowsFit
      <3>6. AnswersMade'
        BY <1>0, <2>1, <3>1, <3>2 DEF OthersStay, OptInv, AnswersMade
      <3> QED
        BY <1>0, <2>1, <3>1, <3>5, <3>6 DEF OthersStay, OptInv, PoolsFit, ReadsFit
    <2> QED
      BY <2>2, <2>3
  <1> QED
    BY <1>1, <1>2, <1>3, <1>4, <1>5

\* RunPlan.cache_key and run_page, for any schema values, prompts and requests:
\* a page is made as its own plan asks, computed or from the cache, but for a
\* recognizer another request's ensure put in the pool.
THEOREM PagesAreAsConfigured == OptSpec => []ServedAsConfigured
  <1>1. OptInv /\ [OptNext]_optVars => OptInv'
    <2> SUFFICES ASSUME OptInv, [OptNext]_optVars PROVE OptInv'
      OBVIOUS
    <2>1. CASE UNCHANGED optVars
      <3>1. UNCHANGED <<cached, at, plan, loaded, swapped, read, got>>
        BY <2>1 DEF optVars, requests
      <3> QED
        BY <3>1 DEF OptInv, RowsFit, AnswersMade, PoolsFit, ReadsFit, RequestTypes
    <2>2. CASE PoolGoes
      <3>1. loaded' = None /\ UNCHANGED <<cached, at, plan, swapped, read, got>>
        BY <2>2 DEF PoolGoes
      <3> QED
        BY <3>1 DEF OptInv, RowsFit, AnswersMade, PoolsFit, ReadsFit, RequestTypes
    <2> QED
      BY <2>1, <2>2, PostInv, RequestInv DEF OptNext
  <1>2. OptInv => ServedAsConfigured
    BY DEF OptInv, AnswersMade, ServedAsConfigured
  <1> QED
    BY <1>1, <1>2, OptInitInv, PTL DEF OptSpec

-----------------------------------------------------------------------------
(* PageStats: the tables.                                                  *)

PageRows == [id : Nat, engines : Combos, skip : BOOLEAN, raw_regions : Nat, total_ms : Spans]
RegionRows == [page : Nat, n : Nat, recognize_ms : Spans]

StatsTypes ==
    /\ IsFiniteSet(pageStats) /\ pageStats \subseteq PageRows
    /\ IsFiniteSet(regionStats) /\ regionStats \subseteq RegionRows
    /\ occ \in Seq(Windows)

StatsInv == StatsTypes /\ TablesAgree

\* A finite set of numbers has a greatest.
LEMMA GreatestExists ==
    ASSUME NEW S, S \subseteq Nat, IsFiniteSet(S), S # {}
    PROVE Max(S) \in S /\ \A y \in S : y <= Max(S)
  <1> DEFINE d == [i \in S |-> {j \in S : j <= i}]
             n == Cardinality(S)
  <1>1. n \in Nat /\ n # 0
    BY FS_CardinalityType, FS_EmptySet
  <1>2. Ordered(S, d)
    BY DEF Ordered
  <1>3. PICK p : Lists(S, d, p)
    BY <1>2, RanksList
  <1> DEFINE x == p[n]
  <1>4. x \in S /\ Cardinality(d[x]) = n
    <2> HIDE DEF d
    <2> QED
      BY <1>1, <1>3 DEF Lists
  <1>5. d[x] = S
    <2>1. d[x] \in SUBSET S
      BY <1>4
    <2> HIDE DEF d, x
    <2> QED
      BY <1>4, <2>1, FS_Subset
  <1>6. \A y \in S : y <= x
    BY <1>4, <1>5
  <1> HIDE DEF x
  <1>7. \E z \in S : \A y \in S : z >= y
    BY <1>4, <1>6
  <1>8. Max(S) \in S /\ \A y \in S : Max(S) >= y
    BY <1>7 DEF Max
  <1> QED
    BY <1>8

\* A new page gets an id no row has.
LEMMA IdsAreNew ==
    ASSUME StatsTypes PROVE NextId \in Nat /\ \A p \in pageStats : p.id < NextId
  <1> DEFINE f == [p \in pageStats |-> p.id]
             T == {p.id : p \in pageStats}
             S == T \cup {0}
  <1>1. T \subseteq Nat
    BY DEF StatsTypes, PageRows
  <1>2. f \in Surjection(pageStats, T)
    BY DEF Surjection
  <1>3. IsFiniteSet(T)
    BY <1>2, FS_Surjection DEF StatsTypes
  <1>4. IsFiniteSet(S) /\ S # {} /\ S \subseteq Nat
    BY <1>1, <1>3, FS_AddElement
  <1> HIDE DEF S
  <1>5. Max(S) \in S /\ \A y \in S : y <= Max(S)
    BY <1>4, GreatestExists
  <1>6. NextId = 1 + Max(S)
    BY DEF NextId, S
  <1>7. \A p \in pageStats : p.id \in S /\ p.id \in Nat
    BY <1>1 DEF S
  <1>8. Max(S) \in Nat
    BY <1>4, <1>5
  <1>9. \A p \in pageStats : p.id \in Nat /\ p.id <= Max(S)
    BY <1>5, <1>7
  <1> QED
    BY <1>6, <1>8, <1>9

\* A page inserted with the rows of its first crops, all of them unless its
\* record_stats raises, leaves the tables in agreement.
LEMMA InsertsAgree ==
    ASSUME StatsInv, NEW times \in BoundedSeq(Spans, MaxRegions), NEW done \in 0..Len(times),
           Inserts(times, done),
           \/ raised' = raised \cup {NextId}
           \/ raised' = raised /\ done = Len(times)
    PROVE  TablesAgree' /\ (occ' \in Seq(Windows) => StatsTypes')
  <1> DEFINE id == NextId
  <1>1. id \in Nat /\ \A p \in pageStats : p.id < id
    BY IdsAreNew DEF StatsInv
  <1>2. PICK engines \in Combos, skip \in BOOLEAN, total \in Spans :
             pageStats' = pageStats \cup
                {[id |-> id, engines |-> engines, skip |-> skip,
                  raw_regions |-> Len(times), total_ms |-> total]}
    BY DEF Inserts
  <1>a. regionStats' = regionStats \cup
           {[page |-> id, n |-> k, recognize_ms |-> times[k]] : k \in 1 .. done}
    BY DEF Inserts
  <1>b. \/ raised' = raised \cup {id}
        \/ raised' = raised /\ done = Len(times)
    OBVIOUS
  <1> HIDE DEF id
  <1>3. PICK m \in 0..MaxRegions : times \in [1..m -> Spans]
    BY DEF BoundedSeq, SeqOf
  <1>4. m \in Nat /\ DOMAIN times = 1..m /\ Len(times) = m
    BY <1>3, StatsAssumption
  <1>5. done \in Nat /\ done <= m
    BY <1>4
  <1> DEFINE new == [id |-> id, engines |-> engines, skip |-> skip, raw_regions |-> m, total_ms |-> total]
             row == [k \in 1..done |-> [page |-> id, n |-> k, recognize_ms |-> times[k]]]
             R == {row[k] : k \in 1..done}
  <1>6. pageStats' = pageStats \cup {new} /\ regionStats' = regionStats \cup R
    BY <1>2, <1>a, <1>4
  <1>7. new \in PageRows /\ new.id = id /\ new.raw_regions = m
    BY <1>1, <1>4 DEF PageRows
  <1>8. R \subseteq RegionRows /\ \A r \in R : r.page = id
    <2>1. ASSUME NEW k \in 1..done PROVE row[k] \in RegionRows /\ row[k].page = id
      <3>1. k \in 1..m /\ k \in Nat
        BY <1>4, <1>5
      <3> QED
        BY <1>1, <1>3, <3>1 DEF RegionRows
    <2> QED
      BY <2>1
  <1>9. IsFiniteSet(R) /\ Cardinality(R) = done
    <2>1. IsFiniteSet(1..done) /\ Cardinality(1..done) = done
      BY <1>5, FS_Interval
    <2>2. row \in Surjection(1..done, R)
      BY DEF Surjection
    <2>3. row \in Injection(1..done, R)
      BY DEF Injection, IsInjective
    <2> HIDE DEF R, row
    <2> QED
      BY <2>1, <2>2, <2>3, FS_Surjection
  <1> HIDE DEF new, R
  <1>10. occ' \in Seq(Windows) => StatsTypes'
    <2>1. IsFiniteSet(pageStats') /\ IsFiniteSet(regionStats')
      BY <1>6, <1>9, FS_AddElement, FS_Union DEF StatsInv, StatsTypes
    <2> QED
      BY <1>6, <1>7, <1>8, <2>1 DEF StatsInv, StatsTypes, PageRows, RegionRows
  <1>11. \A r \in regionStats : r.page # id
    <2> TAKE r \in regionStats
    <2>1. PICK p \in pageStats : p.id = r.page
      BY DEF StatsInv, TablesAgree
    <2>2. p.id < id /\ p.id \in Nat
      BY <1>1, <2>1 DEF StatsInv, StatsTypes, PageRows
    <2> QED
      BY <1>1, <2>1, <2>2
  <1>12. \A p \in pageStats : p.id # id
    BY <1>1 DEF StatsInv, StatsTypes, PageRows
  <1>13. ASSUME NEW p \in pageStats'
         PROVE IF p.id \in raised' THEN Cardinality(CropRows(p)') <= p.raw_regions
                                   ELSE Cardinality(CropRows(p)') = p.raw_regions
    <2>1. CASE p \in pageStats
      <3>1. CropRows(p)' = CropRows(p)
        BY <1>6, <1>8, <1>12, <2>1 DEF CropRows
      <3>2. p.id \in raised' <=> p.id \in raised
        BY <1>b, <1>12, <2>1
      <3> QED
        BY <2>1, <3>1, <3>2 DEF StatsInv, TablesAgree
    <2>2. CASE p = new
      <3>1. CropRows(p)' = R
        BY <1>6, <1>7, <1>8, <1>11, <2>2 DEF CropRows
      <3>2. Cardinality(CropRows(p)') = done /\ p.raw_regions = m /\ p.id = id
        BY <1>7, <1>9, <2>2, <3>1
      <3> QED
        BY <1>b, <1>4, <1>5, <3>2
    <2> QED
      BY <1>6, <2>1, <2>2
  <1>14. \A p, q \in pageStats' : p.id = q.id => p = q
    BY <1>6, <1>7, <1>12 DEF StatsInv, TablesAgree
  <1>15. \A r \in regionStats' : \E p \in pageStats' : p.id = r.page
    BY <1>6, <1>7, <1>8 DEF StatsInv, TablesAgree
  <1> QED
    BY <1>10, <1>13, <1>14, <1>15 DEF TablesAgree

\* What a restart rolls back is a page with all of its crops' rows.
LEMMA RestartAgrees == ASSUME StatsInv, Restart PROVE StatsInv'
  <1>1. /\ pageStats' = {p \in pageStats : p.id \notin open}
        /\ regionStats' = {r \in regionStats : r.page \notin open}
        /\ raised' = raised \ open
        /\ occ' = <<>>
    BY DEF Restart
  <1>2. StatsTypes'
    <2>1. pageStats' \in SUBSET pageStats /\ regionStats' \in SUBSET regionStats
      BY <1>1
    <2>2. IsFiniteSet(pageStats') /\ IsFiniteSet(regionStats')
      BY <2>1, FS_Subset DEF StatsInv, StatsTypes
    <2>3. occ' \in Seq(Windows)
      BY <1>1
    <2> QED
      BY <2>1, <2>2, <2>3 DEF StatsInv, StatsTypes, PageRows, RegionRows
  <1>3. ASSUME NEW p \in pageStats'
        PROVE IF p.id \in raised' THEN Cardinality(CropRows(p)') <= p.raw_regions
                                  ELSE Cardinality(CropRows(p)') = p.raw_regions
    <2>1. p \in pageStats /\ p.id \notin open
      BY <1>1
    <2>2. CropRows(p)' = CropRows(p)
      BY <1>1, <2>1 DEF CropRows
    <2>3. p.id \in raised' <=> p.id \in raised
      BY <1>1, <2>1
    <2> QED
      BY <2>1, <2>2, <2>3 DEF StatsInv, TablesAgree
  <1>4. \A p, q \in pageStats' : p.id = q.id => p = q
    BY <1>1 DEF StatsInv, TablesAgree
  <1>5. \A r \in regionStats' : \E p \in pageStats' : p.id = r.page
    BY <1>1 DEF StatsInv, TablesAgree
  <1> QED
    BY <1>2, <1>3, <1>4, <1>5 DEF StatsInv, TablesAgree

LEMMA StatsStep == StatsInv /\ [StatsNext]_statsVars => StatsInv'
  <1> SUFFICES ASSUME StatsInv, [StatsNext]_statsVars PROVE StatsInv'
    OBVIOUS
  <1>1. ASSUME UNCHANGED <<pageStats, regionStats, raised>>, occ' \in Seq(Windows) PROVE StatsInv'
    BY <1>1 DEF StatsInv, StatsTypes, TablesAgree, CropRows
  <1>2. CASE RecordStats
    <2>1. PICK times \in BoundedSeq(Spans, MaxRegions) : Inserts(times, Len(times))
      BY <1>2 DEF RecordStats
    <2>2. raised' = raised /\ occ' = occ
      BY <1>2 DEF RecordStats
    <2>3. PICK m \in 0..MaxRegions : times \in [1..m -> Spans]
      BY <2>1 DEF BoundedSeq, SeqOf
    <2>4. Len(times) \in 0..Len(times)
      BY <2>3, StatsAssumption
    <2>5. TablesAgree' /\ (occ' \in Seq(Windows) => StatsTypes')
      BY <2>1, <2>2, <2>4, InsertsAgree
    <2> QED
      BY <2>2, <2>5 DEF StatsInv, StatsTypes
  <1>3. CASE RecordFails
    <2>0. PICK times \in BoundedSeq(Spans, MaxRegions) : \E done \in 0..Len(times) : Inserts(times, done)
      BY <1>3 DEF RecordFails
    <2>1. PICK done \in 0..Len(times) : Inserts(times, done)
      BY <2>0
    <2>2. raised' = raised \cup {NextId} /\ occ' = occ
      BY <1>3 DEF RecordFails
    <2>3. TablesAgree' /\ (occ' \in Seq(Windows) => StatsTypes')
      BY <2>1, <2>2, InsertsAgree
    <2> QED
      BY <2>2, <2>3 DEF StatsInv, StatsTypes
  <1>4. CASE OtherCommits
    BY <1>1, <1>4 DEF OtherCommits, StatsInv, StatsTypes
  <1>5. CASE Restart
    BY <1>5, RestartAgrees
  <1>6. CASE ClearStats
    <2>1. pageStats' = {} /\ regionStats' = {} /\ occ' = occ
      BY <1>6 DEF ClearStats
    <2> QED
      BY <2>1, FS_EmptySet DEF StatsInv, StatsTypes, TablesAgree
  <1>7. CASE SplitOcc
    <2>1. PICK windows \in BoundedSeq(Windows, MaxWindows - Len(occ)) : occ' = occ \o windows
      BY <1>7 DEF SplitOcc
    <2>2. PICK m \in 0..(MaxWindows - Len(occ)) : windows \in [1..m -> Windows]
      BY <2>1 DEF BoundedSeq, SeqOf
    <2>3. m \in Nat
      BY <2>2
    <2>4. windows \in Seq(Windows)
      BY <2>2, <2>3, SeqDef
    <2>5. occ' \in Seq(Windows)
      BY <2>1, <2>4, ConcatProperties DEF StatsInv, StatsTypes
    <2> QED
      BY <1>1, <1>7, <2>5 DEF SplitOcc, tables
  <1>8. CASE ResetOccupancy
    BY <1>1, <1>8 DEF ResetOccupancy, tables
  <1>9. CASE UNCHANGED statsVars
    BY <1>1, <1>9 DEF statsVars, tables, StatsInv, StatsTypes
  <1> QED
    BY <1>2, <1>3, <1>4, <1>5, <1>6, <1>7, <1>8, <1>9 DEF StatsNext

LEMMA StatsStart == StatsInit => StatsInv
  BY FS_EmptySet DEF StatsInit, StatsInv, StatsTypes, TablesAgree

\* cache.py, across inserts that raise, commits of others, clears, restarts,
\* reused ids and pages of any number of crops.
THEOREM StatsInvariant == StatsSpec => []StatsInv
  <1> QED
    BY StatsStart, StatsStep, PTL DEF StatsSpec
-----------------------------------------------------------------------------
(* PageStats: the summaries.                                               *)

\* The cut point x hundredths of a gap into a column.
Cut(col, x) ==
    LET j == x \div 100
        d == x % 100
    IN col[j + 1] * (100 - d) + (IF d = 0 THEN 0 ELSE col[j + 2] * d)

\* Between two values: closer to the second, no less.
LEMMA Between ==
    ASSUME NEW a \in Nat, NEW b \in Nat, a <= b, NEW d \in 0..100, NEW e \in 0..100, d <= e
    PROVE /\ 100 * a <= a * (100 - d) + b * d /\ a * (100 - e) + b * e <= 100 * b
          /\ a * (100 - d) + b * d <= a * (100 - e) + b * e
          /\ a * (100 - d) + b * d \in Nat
  <1> DEFINE k == b - a
  <1>1. k \in Nat /\ b = a + k /\ d \in Nat /\ e \in Nat /\ 100 - d \in Nat /\ 100 - e \in Nat
    OBVIOUS
  <1> HIDE DEF k
  <1>2. a * (100 - d) + b * d = 100 * a + k * d /\ a * (100 - e) + b * e = 100 * a + k * e
    BY <1>1
  <1>3. k * d <= k * e /\ k * e <= k * 100 /\ k * d \in Nat /\ k * e \in Nat
    BY <1>1, ProductsGrow
  <1>4. 100 * b = 100 * a + k * 100
    BY <1>1
  <1> QED
    BY <1>1, <1>2, <1>3, <1>4

\* Where the cut point of x lies, and what it is there.
LEMMA CutsLie ==
    ASSUME NEW m \in Nat, NEW col \in [1..(m + 1) -> Nat], NEW x \in 0..(100 * m)
    PROVE \E j \in 0..m, d \in 0..99 :
            /\ x = 100 * j + d /\ (j = m => d = 0)
            /\ d = 0 => Cut(col, x) = col[j + 1] * 100
            /\ j < m => Cut(col, x) = col[j + 1] * (100 - d) + col[j + 2] * d
  <1> DEFINE j == x \div 100
             d == x % 100
  <1>1. j \in 0..m /\ d \in 0..99 /\ x = 100 * j + d /\ (j = m => d = 0)
    OBVIOUS
  <1>2. Cut(col, x) = col[j + 1] * (100 - d) + (IF d = 0 THEN 0 ELSE col[j + 2] * d)
    BY DEF Cut
  <1> HIDE DEF j, d
  <1>3. col[j + 1] \in Nat /\ (j < m => col[j + 2] \in Nat)
    BY <1>1
  <1>4. d = 0 => Cut(col, x) = col[j + 1] * 100
    BY <1>1, <1>2, <1>3
  <1>5. j < m => Cut(col, x) = col[j + 1] * (100 - d) + col[j + 2] * d
    BY <1>1, <1>2, <1>3
  <1> QED
    BY <1>1, <1>4, <1>5

\* statistics.quantiles: a later cut point is no less.
LEMMA CutsAscend ==
    ASSUME NEW m \in Nat, NEW col \in [1..(m + 1) -> Nat], Climbs(m + 1, col),
           NEW x \in 0..(100 * m), NEW y \in 0..(100 * m), x <= y
    PROVE Cut(col, x) \in Nat /\ Cut(col, x) <= Cut(col, y)
  <1>0. \A z \in 0..(100 * m) : \E j \in 0..m, d \in 0..99 :
          /\ z = 100 * j + d /\ (j = m => d = 0)
          /\ d = 0 => Cut(col, z) = col[j + 1] * 100
          /\ j < m => Cut(col, z) = col[j + 1] * (100 - d) + col[j + 2] * d
    BY CutsLie, ZenonT(60)
  <1>1. PICK j \in 0..m, d \in 0..99 :
           /\ x = 100 * j + d /\ (j = m => d = 0)
           /\ d = 0 => Cut(col, x) = col[j + 1] * 100
           /\ j < m => Cut(col, x) = col[j + 1] * (100 - d) + col[j + 2] * d
    BY <1>0
  <1>2. PICK k \in 0..m, e \in 0..99 :
           /\ y = 100 * k + e /\ (k = m => e = 0)
           /\ e = 0 => Cut(col, y) = col[k + 1] * 100
           /\ k < m => Cut(col, y) = col[k + 1] * (100 - e) + col[k + 2] * e
    BY <1>0
  <1>3. \A i \in 1..(m + 1) : col[i] \in Nat
    OBVIOUS
  <1>4. \A i, l \in 1..(m + 1) : i <= l => col[i] <= col[l]
    BY <1>3 DEF Climbs
  <1>5. /\ Cut(col, x) \in Nat /\ 100 * col[j + 1] <= Cut(col, x)
        /\ j < m => Cut(col, x) <= 100 * col[j + 2]
    <2>1. CASE j = m
      BY <1>1, <1>3, <2>1
    <2>2. CASE j < m
      <3>1. j + 1 \in 1..(m + 1) /\ j + 2 \in 1..(m + 1) /\ j + 1 <= j + 2
        BY <1>1, <2>2
      <3>2. col[j + 1] \in Nat /\ col[j + 2] \in Nat /\ col[j + 1] <= col[j + 2] /\ d \in 0..100 /\ d <= d
        BY <1>1, <1>3, <1>4, <3>1, SMTT(30)
      <3>3. /\ 100 * col[j + 1] <= col[j + 1] * (100 - d) + col[j + 2] * d
            /\ col[j + 1] * (100 - d) + col[j + 2] * d <= 100 * col[j + 2]
            /\ col[j + 1] * (100 - d) + col[j + 2] * d \in Nat
        BY <3>2, Between
      <3> QED
        BY <1>1, <2>2, <3>3
    <2> QED
      BY <1>1, <2>1, <2>2
  <1>6. Cut(col, y) \in Nat /\ 100 * col[k + 1] <= Cut(col, y)
    <2>1. CASE k = m
      BY <1>2, <1>3, <2>1
    <2>2. CASE k < m
      <3>1. k + 1 \in 1..(m + 1) /\ k + 2 \in 1..(m + 1) /\ k + 1 <= k + 2
        BY <1>2, <2>2
      <3>2. col[k + 1] \in Nat /\ col[k + 2] \in Nat /\ col[k + 1] <= col[k + 2] /\ e \in 0..100 /\ e <= e
        BY <1>2, <1>3, <1>4, <3>1, SMTT(30)
      <3>3. /\ 100 * col[k + 1] <= col[k + 1] * (100 - e) + col[k + 2] * e
            /\ col[k + 1] * (100 - e) + col[k + 2] * e \in Nat
        BY <3>2, Between
      <3> QED
        BY <1>2, <2>2, <3>3
    <2> QED
      BY <1>2, <2>1, <2>2
  <1>7. CASE j = k /\ j = m
    BY <1>1, <1>2, <1>5, <1>7
  <1>8. CASE j = k /\ j < m
    <2>0. x = 100 * j + d /\ y = 100 * j + e
      BY <1>1, <1>2, <1>8
    <2>1. d <= e /\ d \in 0..100 /\ e \in 0..100
      BY <2>0
    <2>2. j + 1 \in 1..(m + 1) /\ j + 2 \in 1..(m + 1) /\ j + 1 <= j + 2
      BY <1>1, <1>8
    <2>3. col[j + 1] \in Nat /\ col[j + 2] \in Nat /\ col[j + 1] <= col[j + 2]
      BY <1>3, <1>4, <2>2, SMTT(30)
    <2>4. col[j + 1] * (100 - d) + col[j + 2] * d <= col[j + 1] * (100 - e) + col[j + 2] * e
      BY <2>1, <2>3, Between
    <2> QED
      BY <1>1, <1>2, <1>5, <1>8, <2>4
  <1>9. CASE j < k
    <2>1. j + 2 \in 1..(m + 1) /\ k + 1 \in 1..(m + 1) /\ j + 2 <= k + 1 /\ j < m
      BY <1>1, <1>2, <1>9
    <2>2. col[j + 2] \in Nat /\ col[k + 1] \in Nat /\ col[j + 2] <= col[k + 1]
      BY <1>3, <1>4, <2>1
    <2> QED
      BY <1>5, <1>6, <2>1, <2>2
  <1>10. j <= k
    BY <1>1, <1>2
  <1> QED
    BY <1>1, <1>2, <1>7, <1>8, <1>9, <1>10

\* round() to one step keeps the order.
LEMMA RoundingAscends ==
    ASSUME NEW step \in Nat \ {0}, NEW v \in Nat, NEW w \in Nat, v <= w
    PROVE Rounded(v, step) <= Rounded(w, step)
  <1> DEFINE k == v \div step
             l == w \div step
             sk == step * k
             sl == step * l
  <1>1. k \in Int /\ sk <= v /\ v < sk + step /\ l \in Int /\ sl <= w /\ w < sl + step
    BY Quotient
  <1>2. Rounded(v, step) = step * (IF 2 * (v - sk) > step \/ (2 * (v - sk) = step /\ k % 2 = 1) THEN k + 1 ELSE k)
    BY DEF Rounded
  <1>3. Rounded(w, step) = step * (IF 2 * (w - sl) > step \/ (2 * (w - sl) = step /\ l % 2 = 1) THEN l + 1 ELSE l)
    BY DEF Rounded
  <1> HIDE DEF k, l
  <1>4. sk \in Int /\ sl \in Int
    BY <1>1
  <1>5. k <= l
    <2> SUFFICES ASSUME l < k PROVE FALSE
      BY <1>1
    <2>1. step * (l + 1) <= step * k /\ step * (l + 1) = sl + step
      BY <1>1
    <2> HIDE DEF sk, sl
    <2>2. step * k = sk
      BY DEF sk
    <2> QED
      BY <1>1, <1>4, <2>1, <2>2
  <1>6. step * (k + 1) = sk + step /\ step * (l + 1) = sl + step
    BY <1>1
  <1> DEFINE up(x, q, sq) == 2 * (x - sq) > step \/ (2 * (x - sq) = step /\ q % 2 = 1)
  <1>7. /\ Rounded(v, step) = IF up(v, k, sk) THEN sk + step ELSE sk
        /\ Rounded(w, step) = IF up(w, l, sl) THEN sl + step ELSE sl
    BY <1>2, <1>3, <1>6
  <1>8. CASE k = l
    <2>1. sk = sl /\ (up(v, k, sk) => up(w, l, sl))
      <3>1. sk = sl
        BY <1>8
      <3> HIDE DEF sk, sl
      <3> QED
        BY <1>1, <1>4, <1>8, <3>1
    <2> HIDE DEF sk, sl, up
    <2> QED
      BY <1>4, <1>7, <2>1
  <1>9. CASE k < l
    <2>1. sk + step <= sl
      <3>1. step * (k + 1) <= step * l
        BY <1>1, <1>9
      <3> QED
        BY <1>6, <3>1
    <2> HIDE DEF sk, sl, up
    <2> QED
      BY <1>4, <1>7, <2>1
  <1> QED
    BY <1>1, <1>5, <1>8, <1>9

LEMMA StepIsPositive == ASSUME NEW hi PROVE Step(hi) \in Nat \ {0}
  <1> DEFINE T == {Tens[k] : k \in {j \in 1 .. 7 : Tens[j + 1] <= hi}}
             S == {1} \cup T
  <1>1. \A k \in 1..7 : Tens[k] \in Nat \ {0}
    BY DEF Tens
  <1>2. S \subseteq Nat \ {0} /\ 1 \in S
    BY <1>1
  <1>3. T \subseteq {Tens[k] : k \in 1..7} /\ IsFiniteSet({Tens[k] : k \in 1..7})
    <2> DEFINE f == [k \in 1..7 |-> Tens[k]]
    <2>1. f \in Surjection(1..7, {Tens[k] : k \in 1..7})
      BY DEF Surjection
    <2>0. \A n \in Nat : IsFiniteSet(1..n)
      BY FS_Interval
    <2>2. IsFiniteSet(1..7)
      BY <2>0
    <2>3. IsFiniteSet({Tens[k] : k \in 1..7})
      BY <2>1, <2>2, FS_Surjection
    <2> QED
      BY <2>3 DEF T
  <1> HIDE DEF T
  <1>4. IsFiniteSet(S)
    BY <1>3, FS_Subset, FS_AddElement
  <1> HIDE DEF S
  <1>5. Max(S) \in S
    BY <1>2, <1>4, GreatestExists
  <1>6. Step(hi) = IF hi = 0 THEN Tens[7] ELSE Max(S)
    BY DEF Step, S, T
  <1>7. Tens[7] \in Nat \ {0}
    BY <1>1
  <1> QED
    BY <1>2, <1>5, <1>6, <1>7
\* The statistics of a column are cut points of it.
LEMMA StatisticsAreCuts ==
    ASSUME NEW m \in Nat, NEW col \in [1..(m + 1) -> Nat]
    PROVE /\ Len(col) = m + 1
          /\ 100 * Head(col) = Cut(col, 0) /\ 100 * Last(col) = Cut(col, 100 * m)
          /\ Median(col) = Cut(col, 50 * m)
          /\ \A i \in 1..99 : Quantile(col, i) = Cut(col, i * m)
  <1>1. Len(col) = m + 1 /\ Head(col) = col[1] /\ Last(col) = col[m + 1]
    <2>1. col \in Seq(Nat) /\ Len(col) = m + 1
      BY SeqDef
    <2> QED
      BY <2>1 DEF Last
  <1>2. \A i \in 1..(m + 1) : col[i] \in Nat
    OBVIOUS
  <1>3. Cut(col, 0) = 100 * col[1]
    <2>1. 0 \div 100 = 0 /\ 0 % 100 = 0 /\ col[1] \in Nat
      BY <1>2
    <2> QED
      BY <2>1 DEF Cut
  <1>4. Cut(col, 100 * m) = 100 * col[m + 1]
    <2>1. (100 * m) \div 100 = m /\ (100 * m) % 100 = 0 /\ col[m + 1] \in Nat
      BY <1>2
    <2> QED
      BY <2>1 DEF Cut
  <1>5. Median(col) = Cut(col, 50 * m)
    <2> DEFINE q == m \div 2
    <2>1. q \in Nat /\ (m = 2 * q \/ m = 2 * q + 1)
      OBVIOUS
    <2> HIDE DEF q
    <2>2. CASE m = 2 * q
      <3>1. /\ (m + 1) % 2 = 1 /\ (m + 1) \div 2 = q
            /\ (50 * m) \div 100 = q /\ (50 * m) % 100 = 0
        BY <2>1, <2>2
      <3>2. col[q + 1] \in Nat
        BY <1>2, <2>1, <2>2
      <3>3. Median(col) = 100 * col[q + 1]
        BY <1>1, <3>1 DEF Median
      <3>4. Cut(col, 50 * m) = col[q + 1] * 100
        BY <3>1, <3>2 DEF Cut
      <3> QED
        BY <3>2, <3>3, <3>4
    <2>3. CASE m = 2 * q + 1
      <3>1. /\ (m + 1) % 2 = 0 /\ (m + 1) \div 2 = q + 1
            /\ (50 * m) \div 100 = q /\ (50 * m) % 100 = 50
        BY <2>1, <2>3
      <3>2. col[q + 1] \in Nat /\ col[q + 2] \in Nat /\ (q + 1) + 1 = q + 2
        BY <1>2, <2>1, <2>3
      <3>3. Median(col) = 50 * (col[q + 1] + col[q + 2])
        BY <1>1, <3>1, <3>2, SMTT(30) DEF Median
      <3>4. Cut(col, 50 * m) = col[q + 1] * 50 + col[q + 2] * 50
        <4> DEFINE x == 50 * m
        <4> HIDE DEF x
        <4>1. x \div 100 = q /\ x % 100 = 50
          BY <3>1 DEF x
        <4>2. Cut(col, x) = col[q + 1] * (100 - 50) + (IF 50 = 0 THEN 0 ELSE col[q + 1 + 1] * 50)
          <5>1. Cut(col, x) = LET j == q
                                  d == 50
                              IN  col[j + 1] * (100 - d)
                                    + (IF d = 0 THEN 0 ELSE col[j + 2] * d)
            BY <4>1, Zenon DEF Cut
          <5> QED
            BY <3>2, <5>1
        <4>3. 100 - 50 = 50 /\ 50 # 0
          OBVIOUS
        <4> QED
          BY <3>2, <4>2, <4>3 DEF x
      <3> QED
        BY <3>2, <3>3, <3>4
    <2> QED
      BY <2>1, <2>2, <2>3
  <1>6. ASSUME NEW i \in 1..99 PROVE Quantile(col, i) = Cut(col, i * m)
    <2>1. Len(col) - 1 = m
      BY <1>1
    <2> QED
      BY <2>1 DEF Quantile, Cut
  <1> QED
    BY <1>1, <1>3, <1>4, <1>5, <1>6

\* _summarize of a column that ascends.
LEMMA SummaryAscends ==
    ASSUME NEW m \in Nat, NEW col \in [1..(m + 1) -> Nat], Climbs(m + 1, col)
    PROVE Ascends(Summary(col))
  <1> DEFINE step == Step(Last(col))
             R(x) == Rounded(Cut(col, x), step)
             inner == << Median(col) >> \o
                        (IF Len(col) >= 2 THEN << Quantile(col, 90), Quantile(col, 99) >> ELSE <<>>)
             value == [k \in 1 .. Len(inner) + 2 |->
                         Rounded(IF k = 1 THEN 100 * Head(col)
                                 ELSE IF k = Len(inner) + 2 THEN 100 * Last(col) ELSE inner[k - 1], step)]
  <1>1. Summary(col) = value
    BY DEF Summary
  <1>2. /\ Len(col) = m + 1
        /\ 100 * Head(col) = Cut(col, 0) /\ 100 * Last(col) = Cut(col, 100 * m)
        /\ Median(col) = Cut(col, 50 * m)
        /\ Quantile(col, 90) = Cut(col, 90 * m) /\ Quantile(col, 99) = Cut(col, 99 * m)
    <2>1. \A i \in 1..99 : Quantile(col, i) = Cut(col, i * m)
      BY StatisticsAreCuts
    <2>2. Quantile(col, 90) = Cut(col, 90 * m) /\ Quantile(col, 99) = Cut(col, 99 * m)
      BY <2>1
    <2> QED
      BY <2>2, StatisticsAreCuts, ZenonT(60)
  <1>3. step \in Nat \ {0}
    BY StepIsPositive
  <1> HIDE DEF step
  <1>4. ASSUME NEW x \in 0..(100 * m), NEW y \in 0..(100 * m), x <= y PROVE R(x) <= R(y)
    <2>1. Cut(col, x) \in Nat /\ Cut(col, x) <= Cut(col, y)
      BY <1>4, CutsAscend
    <2>2. Cut(col, y) \in Nat
      <3>1. y <= y
        BY <1>4
      <3> QED
        BY <3>1, CutsAscend
    <2> QED
      BY <1>3, <2>1, <2>2, RoundingAscends
  <1>5. CASE m = 0
    <2>1. inner = << Cut(col, 0) >> \o << >>
      BY <1>2, <1>5
    <2>2. Len(inner) = 1 /\ inner[1] = Cut(col, 0)
      <3> DEFINE v == Cut(col, 0)
      <3> HIDE DEF v
      <3>1. << v >> \in Seq({v}) /\ << >> \in Seq({v})
        OBVIOUS
      <3>2. inner = << v >> \o << >>
        BY <2>1 DEF v
      <3> HIDE DEF inner
      <3>3. Len(inner) = 1 /\ inner[1] = v
        BY <3>1, <3>2, ConcatProperties
      <3> QED
        BY <3>3 DEF v
    <2> HIDE DEF inner
    <2>3. value = [k \in 1..3 |-> R(0)]
      BY <1>2, <1>5, <2>2
    <2> HIDE DEF value
    <2>4. R(0) <= R(0)
      BY <1>4
    <2> HIDE DEF R
    <2>5. Len(value) = 3 /\ \A k \in 1..3 : value[k] = R(0)
      BY <2>3
    <2> QED
      BY <1>1, <2>4, <2>5 DEF Ascends
  <1>6. CASE m # 0
    <2>1. inner = << Cut(col, 50 * m) >> \o << Cut(col, 90 * m), Cut(col, 99 * m) >>
      <3>1. Len(col) >= 2
        BY <1>2, <1>6
      <3> QED
        BY <1>2, <3>1
    <2>2. Len(inner) = 3 /\ inner[1] = Cut(col, 50 * m) /\ inner[2] = Cut(col, 90 * m) /\ inner[3] = Cut(col, 99 * m)
      <3> DEFINE u == Cut(col, 50 * m)
                 v == Cut(col, 90 * m)
                 w == Cut(col, 99 * m)
      <3>1. inner = << u >> \o << v, w >>
        BY <2>1
      <3> HIDE DEF u, v, w, inner
      <3>2. << u >> \in Seq({u, v, w}) /\ << v, w >> \in Seq({u, v, w})
        OBVIOUS
      <3>3. Len(inner) = 3 /\ inner[1] = u /\ inner[2] = v /\ inner[3] = w
        BY <3>1, <3>2, ConcatProperties
      <3> QED
        BY <3>3 DEF u, v, w
    <2> HIDE DEF inner
    <2>3. /\ Len(value) = 5
          /\ value[1] = R(0) /\ value[2] = R(50 * m) /\ value[3] = R(90 * m)
          /\ value[4] = R(99 * m) /\ value[5] = R(100 * m)
      BY <1>2, <2>2
    <2> HIDE DEF value
    <2>4. R(0) <= R(50 * m) /\ R(50 * m) <= R(90 * m) /\ R(90 * m) <= R(99 * m) /\ R(99 * m) <= R(100 * m)
      BY <1>4
    <2> HIDE DEF R
    <2>5. \A k \in 1..4 : value[k] <= value[k + 1]
      BY <2>3, <2>4
    <2> QED
      BY <1>1, <2>3, <2>5 DEF Ascends
  <1> QED
    BY <1>5, <1>6

\* The rows of a table, listed.
LEMMA RowsListed ==
    ASSUME NEW S, IsFiniteSet(S)
    PROVE Cardinality(S) \in Nat /\ SetToSeq(S) \in [1..Cardinality(S) -> S]
  <1>1. Cardinality(S) \in Nat /\ ExistsBijection(1..Cardinality(S), S)
    BY FS_CardinalityType
  <1>2. \E f \in [1..Cardinality(S) -> S] : IsInjective(f)
    BY <1>1 DEF ExistsBijection, Bijection, Injection
  <1> QED
    BY <1>1, <1>2 DEF SetToSeq

\* The summary of a metric of the rows of a table that has rows.
LEMMA ColumnsAscend ==
    ASSUME NEW S, IsFiniteSet(S), S # {}, NEW g \in [S -> Nat]
    PROVE Ascends(Summary(Column([k \in 1..Cardinality(S) |-> g[SetToSeq(S)[k]]])))
  <1> DEFINE n == Cardinality(S)
             h == [k \in 1..n |-> g[SetToSeq(S)[k]]]
  <1>1. n \in Nat /\ n # 0
    BY FS_CardinalityType, FS_EmptySet
  <1>2. h \in [1..n -> Nat]
    BY RowsListed
  <1> HIDE DEF n, h
  <1>3. PICK p : /\ OneToOne(n, p) /\ Onto(n, p) /\ Climbs(n, [k \in 1..n |-> h[p[k]]])
                 /\ Sorted(h) = [k \in 1..n |-> h[p[k]]]
    <2>1. h \in [1..n -> Int]
      BY <1>2
    <2> QED
      BY <1>1, <2>1, SortedAscends
  <1> DEFINE m == n - 1
             col == [k \in 1..n |-> h[p[k]]]
  <1>4. m \in Nat /\ m + 1 = n /\ col \in [1..n -> Nat]
    BY <1>1, <1>2, <1>3, SMTT(30) DEF OneToOne
  <1>5. Column(h) = col
    BY <1>3 DEF Column, Sorted
  <1>6. Climbs(n, col)
    BY <1>3
  <1> HIDE DEF m, col
  <1>7. Ascends(Summary(col))
    BY <1>4, <1>6, SummaryAscends
  <1> QED
    BY <1>5, <1>7 DEF h, n

\* stats_summary: whatever the filter.
LEMMA SummariesAlwaysAscend == ASSUME StatsTypes PROVE SummariesAscend
  <1> SUFFICES ASSUME NEW filter \in {{e} : e \in Combos} \cup {Combos}
               PROVE /\ Counted(filter) # {} => Ascends(Summary(Totals(Counted(filter))))
                     /\ CountedRegions(filter) # {} => Ascends(Summary(RegionTimes(CountedRegions(filter))))
    BY DEF SummariesAscend
  <1>1. ASSUME Counted(filter) # {} PROVE Ascends(Summary(Totals(Counted(filter))))
    <2> DEFINE S == Counted(filter)
               g == [p \in S |-> p.total_ms]
    <2>1. S \in SUBSET pageStats
      BY DEF Counted
    <2>2. IsFiniteSet(S)
      BY <2>1, FS_Subset DEF StatsTypes
    <2>3. g \in [S -> Nat]
      BY <2>1, StatsAssumption DEF StatsTypes, PageRows
    <2>4. S # {}
      BY <1>1
    <2> HIDE DEF S
    <2>5. [k \in 1..Cardinality(S) |-> g[SetToSeq(S)[k]]] = [k \in 1..Cardinality(S) |-> SetToSeq(S)[k].total_ms]
      BY <2>2, RowsListed
    <2>6. Totals(S) = Column([k \in 1..Cardinality(S) |-> g[SetToSeq(S)[k]]])
      BY <2>5 DEF Totals
    <2> HIDE DEF g
    <2>7. Ascends(Summary(Totals(S)))
      BY <2>2, <2>3, <2>4, <2>6, ColumnsAscend
    <2> QED
      BY <2>7 DEF S
  <1>2. ASSUME CountedRegions(filter) # {} PROVE Ascends(Summary(RegionTimes(CountedRegions(filter))))
    <2> DEFINE S == CountedRegions(filter)
               g == [r \in S |-> r.recognize_ms]
    <2>1. S \in SUBSET regionStats
      BY DEF CountedRegions
    <2>2. IsFiniteSet(S)
      BY <2>1, FS_Subset DEF StatsTypes
    <2>3. g \in [S -> Nat]
      BY <2>1, StatsAssumption DEF StatsTypes, RegionRows
    <2>4. S # {}
      BY <1>2
    <2> HIDE DEF S
    <2>5. [k \in 1..Cardinality(S) |-> g[SetToSeq(S)[k]]] = [k \in 1..Cardinality(S) |-> SetToSeq(S)[k].recognize_ms]
      BY <2>2, RowsListed
    <2>6. RegionTimes(S) = Column([k \in 1..Cardinality(S) |-> g[SetToSeq(S)[k]]])
      BY <2>5 DEF RegionTimes
    <2> HIDE DEF g
    <2>7. Ascends(Summary(RegionTimes(S)))
      BY <2>2, <2>3, <2>4, <2>6, ColumnsAscend
    <2> QED
      BY <2>7 DEF S
  <1> QED
    BY <1>1, <1>2
-----------------------------------------------------------------------------
(* PageStats: the picker.                                                  *)

Some(s) == CHOOSE x \in s : TRUE

\* it sums up the pages of the entries of each part of S.
SumsPages(S, it) ==
    it = [s \in SUBSET S |-> IF s = {} THEN 0 ELSE Some(s).pages + it[s \ {Some(s)}]]

\* The counted pages of the combos of some entries.
PagesOf(s) == {p \in Counted(Combos) : \E e \in s : e.engines = p.engines}

LEMMA PagesSplit ==
    ASSUME StatsTypes, NEW s \in SUBSET PickerEntries, NEW x \in s
    PROVE /\ x.pages = Cardinality(Counted({x.engines})) /\ x.pages \in Nat /\ x.pages > 0
          /\ Cardinality(PagesOf(s)) \in Nat
          /\ Cardinality(PagesOf(s)) = x.pages + Cardinality(PagesOf(s \ {x}))
  <1>1. x \in {[engines |-> e, pages |-> Cardinality(Counted({e}))] : e \in {p.engines : p \in Counted(Combos)}}
    BY DEF PickerEntries
  <1>2. PICK q \in Counted(Combos) : x = [engines |-> q.engines, pages |-> Cardinality(Counted({q.engines}))]
    BY <1>1
  <1> DEFINE A == Counted({x.engines})
             B == PagesOf(s \ {x})
  <1>3. IsFiniteSet(A) /\ IsFiniteSet(B)
    <2>1. A \in SUBSET pageStats /\ B \in SUBSET pageStats
      BY DEF Counted, PagesOf
    <2> QED
      BY <2>1, FS_Subset DEF StatsTypes
  <1>4. q \in A /\ x.engines = q.engines /\ x.pages = Cardinality(A)
    BY <1>2 DEF Counted
  <1>5. A \subseteq Counted(Combos)
    BY DEF Counted, StatsTypes, PageRows
  <1>6. \A e \in s : e.engines = x.engines => e = x
    <2> TAKE e \in s
    <2>1. e \in {[engines |-> v, pages |-> Cardinality(Counted({v}))] : v \in {p.engines : p \in Counted(Combos)}}
      BY DEF PickerEntries
    <2>2. e = [engines |-> e.engines, pages |-> Cardinality(Counted({e.engines}))]
      <3>1. PICK v : e = [engines |-> v, pages |-> Cardinality(Counted({v}))]
        BY <2>1
      <3>2. e.engines = v
        BY <3>1
      <3> QED
        BY <3>1, <3>2
    <2>3. x = [engines |-> x.engines, pages |-> Cardinality(Counted({x.engines}))]
      BY <1>2
    <2> QED
      BY <2>2, <2>3
  <1>7. PagesOf(s) = A \cup B
    <2>1. A \subseteq PagesOf(s)
      BY <1>5 DEF Counted, PagesOf
    <2>2. B \subseteq PagesOf(s)
      BY DEF PagesOf
    <2>3. ASSUME NEW p \in PagesOf(s) PROVE p \in A \cup B
      <3>1. PICK e \in s : e.engines = p.engines /\ p \in Counted(Combos)
        BY DEF PagesOf
      <3>2. CASE e = x
        BY <3>1, <3>2 DEF Counted
      <3>3. CASE e # x
        BY <3>1, <3>3 DEF PagesOf
      <3> QED
        BY <3>2, <3>3
    <2> QED
      BY <2>1, <2>2, <2>3
  <1>8. A \cap B = {}
    <2> SUFFICES ASSUME NEW p \in A, p \in B PROVE FALSE
      OBVIOUS
    <2>1. PICK e \in s \ {x} : e.engines = p.engines
      BY DEF PagesOf
    <2>2. p.engines = x.engines
      BY DEF Counted
    <2> QED
      BY <1>6, <2>1, <2>2
  <1> HIDE DEF A, B
  <1>9. Cardinality(A) \in Nat /\ Cardinality(B) \in Nat /\ Cardinality(A) # 0
    BY <1>3, <1>4, FS_CardinalityType, FS_EmptySet
  <1>10. Cardinality(A \cup B) = Cardinality(A) + Cardinality(B) - Cardinality(A \cap B)
    BY <1>3, FS_Union
  <1>11. Cardinality(A \cap B) = 0
    BY <1>8, FS_EmptySet
  <1>12. Cardinality(PagesOf(s)) = x.pages + Cardinality(B)
    BY <1>4, <1>7, <1>9, <1>10, <1>11
  <1> QED
    BY <1>4, <1>9, <1>12 DEF A, B

LEMMA NoPages == Cardinality(PagesOf({})) = 0
  <1>1. PagesOf({}) = {}
    BY DEF PagesOf
  <1> QED
    BY <1>1, FS_EmptySet

LEMMA EntriesFinite == ASSUME StatsTypes PROVE IsFiniteSet(PickerEntries)
  <1> DEFINE S == Counted(Combos)
             f == [p \in S |-> [engines |-> p.engines, pages |-> Cardinality(Counted({p.engines}))]]
  <1>1. S \in SUBSET pageStats
    BY DEF Counted
  <1>2. IsFiniteSet(S)
    BY <1>1, FS_Subset DEF StatsTypes
  <1> HIDE DEF S
  <1>3. PickerEntries = {f[p] : p \in S}
    BY DEF PickerEntries, S
  <1> HIDE DEF f
  <1>4. DOMAIN f = S
    BY DEF f
  <1>5. f \in Surjection(S, {f[p] : p \in S})
    <2>1. f \in [S -> {f[p] : p \in S}]
      BY DEF f
    <2> QED
      BY <2>1 DEF Surjection
  <1> QED
    BY <1>2, <1>3, <1>5, FS_Surjection

\* Whatever order the sum is taken in, it is the number of pages.
LEMMA SumsArePages ==
    ASSUME StatsTypes, NEW it, SumsPages(PickerEntries, it)
    PROVE it[PickerEntries] = Cardinality(PagesOf(PickerEntries))
  <1> DEFINE E == PickerEntries
             T == {n \in Nat : \E s \in SUBSET E : Cardinality(s) = n /\ it[s] # Cardinality(PagesOf(s))}
  <1>1. \A s \in SUBSET E : IsFiniteSet(s) /\ Cardinality(s) \in Nat
    BY EntriesFinite, FS_Subset, FS_CardinalityType
  <1>2. T = {}
    <2> SUFFICES ASSUME T # {} PROVE FALSE
      OBVIOUS
    <2>1. PICK n \in T : \A k \in T : n <= k
      <3>1. T \subseteq Nat
        OBVIOUS
      <3> HIDE DEF T
      <3> QED
        BY <3>1, LeastExists
    <2>2. PICK s \in SUBSET E : Cardinality(s) = n /\ it[s] # Cardinality(PagesOf(s))
      BY <2>1
    <2>3. it[s] = IF s = {} THEN 0 ELSE Some(s).pages + it[s \ {Some(s)}]
      BY DEF SumsPages
    <2>4. CASE s = {}
      BY <2>2, <2>3, <2>4, NoPages
    <2>5. CASE s # {}
      <3> DEFINE x == Some(s)
      <3>1. x \in s /\ it[s] = x.pages + it[s \ {x}]
        BY <2>3, <2>5 DEF Some
      <3> HIDE DEF x
      <3>2. Cardinality(s \ {x}) = n - 1 /\ n \in Nat /\ n - 1 \in Nat
        <4>1. Cardinality(s \ {x}) = Cardinality(s) - 1
          BY <1>1, <3>1, FS_RemoveElement
        <4>2. Cardinality(s \ {x}) \in Nat
          BY <1>1
        <4> QED
          BY <2>1, <2>2, <4>1, <4>2
      <3>3. n - 1 \notin T
        <4>1. ~(n <= n - 1)
          BY <3>2
        <4> HIDE DEF T
        <4> QED
          BY <2>1, <4>1
      <3>4. it[s \ {x}] = Cardinality(PagesOf(s \ {x}))
        BY <3>2, <3>3
      <3> QED
        BY <2>2, <3>1, <3>4, PagesSplit
    <2> QED
      BY <2>4, <2>5
  <1>3. E \in SUBSET E /\ Cardinality(E) \in Nat
    BY <1>1
  <1> QED
    BY <1>2, <1>3

LEMMA SumExists == ASSUME StatsTypes PROVE \E it : SumsPages(PickerEntries, it)
  <1> DEFINE it == [s \in SUBSET PickerEntries |-> Cardinality(PagesOf(s))]
  <1>1. ASSUME NEW s \in SUBSET PickerEntries
        PROVE it[s] = IF s = {} THEN 0 ELSE Some(s).pages + it[s \ {Some(s)}]
    <2>1. CASE s = {}
      BY <2>1, NoPages
    <2>2. CASE s # {}
      <3> DEFINE x == Some(s)
      <3>1. x \in s
        BY <2>2 DEF Some
      <3> HIDE DEF x
      <3>2. it[s] = Cardinality(PagesOf(s)) /\ it[s \ {x}] = Cardinality(PagesOf(s \ {x}))
        OBVIOUS
      <3> HIDE DEF it
      <3>3. it[s] = x.pages + it[s \ {x}]
        BY <3>1, <3>2, PagesSplit
      <3> QED
        BY <2>2, <3>3 DEF x
    <2> QED
      BY <2>1, <2>2
  <1>2. it = [s \in SUBSET PickerEntries |-> it[s]]
    OBVIOUS
  <1> HIDE DEF it
  <1> QED
    BY <1>1, <1>2 DEF SumsPages

\* The combos of the picker: together they have the pages translated.
LEMMA PickerAlwaysAddsUp == ASSUME StatsTypes PROVE PickerAddsUp
  <1>1. PICK it : /\ SumsPages(PickerEntries, it)
                  /\ MapThenSumSet(LAMBDA e : e.pages, PickerEntries) = it[PickerEntries]
    <2>1. \E it : SumsPages(PickerEntries, it)
      BY SumExists
    <2> QED
      BY <2>1 DEF MapThenSumSet, MapThenFoldSet, SumsPages, Some
  <1>2. PagesOf(PickerEntries) = Counted(Combos)
    <2> SUFFICES ASSUME NEW p \in Counted(Combos) PROVE \E e \in PickerEntries : e.engines = p.engines
      BY DEF PagesOf
    <2> DEFINE e == [engines |-> p.engines, pages |-> Cardinality(Counted({p.engines}))]
    <2>1. e \in PickerEntries /\ e.engines = p.engines
      BY DEF PickerEntries
    <2> QED
      BY <2>1
  <1>3. MapThenSumSet(LAMBDA e : e.pages, PickerEntries) = Cardinality(Counted(Combos))
    BY <1>1, <1>2, SumsArePages
  <1>4. \A e \in PickerEntries : e.pages > 0
    BY PagesSplit
  <1> QED
    BY <1>3, <1>4, Zenon DEF PickerAddsUp
-----------------------------------------------------------------------------
(* PageStats: the occupancy sweep.                                         *)

\* n crops start at a[i] and end at a[n + i], and p goes through both by time.
Sweep(n, a, b, p) ==
    /\ n \in Nat \ {0} /\ a \in [1..(2 * n) -> Nat]
    /\ \A i \in 1..n : a[i] < a[n + i] /\ b[i] = 1 /\ b[n + i] = -1
    /\ Sorts(2 * n, a, b, p)

Passed(p, k) == {p[j] : j \in 1..k}
Active(n, p, k) == {i \in 1..n : i \in Passed(p, k) /\ n + i \notin Passed(p, k)}
Running(n, a, t) == {i \in 1..n : a[i] <= t /\ t < a[n + i]}
Time(a, p, k) == IF k = 0 THEN a[p[1]] ELSE a[p[k]]
Spent(n, a, p, k, c) ==
    {t \in Time(a, p, 0)..(Time(a, p, k) - 1) : Cardinality(Running(n, a, t)) = c}

InTime(N, a, p) ==
    /\ N \in Nat /\ p \in [1..N -> 1..N]
    /\ \A k, l \in 1..N : k <= l => a[p[k]] <= a[p[l]]
    /\ \A k, l \in 1..N : p[k] = p[l] => k = l
    /\ \A i \in 1..N : \E k \in 1..N : p[k] = i
    /\ \A k \in 1..N : a[p[k]] \in Nat
    /\ \A k \in 0..N : Time(a, p, k) \in Nat

LEMMA TimesAscend ==
    ASSUME NEW n, NEW a, NEW b, NEW p, Sweep(n, a, b, p)
    PROVE InTime(2 * n, a, p)
  <1> DEFINE N == 2 * n
  <1>1. N \in Nat /\ a \in [1..N -> Nat] /\ Sorts(N, a, b, p) /\ 1 <= N
    BY DEF Sweep
  <1> HIDE DEF N
  <1>2. p \in [1..N -> 1..N] /\ OneToOne(N, p) /\ Onto(N, p)
    BY <1>1 DEF Sorts, OneToOne
  <1>3. \A k \in 1..N : a[p[k]] \in Nat
    BY <1>1, <1>2
  <1>4. \A k, l \in 1..N : k < l => a[p[k]] < a[p[l]] \/ a[p[k]] = a[p[l]]
    BY <1>1 DEF Sorts
  <1>5. \A k, l \in 1..N : k <= l => a[p[k]] <= a[p[l]]
    <2> TAKE k, l \in 1..N
    <2>1. HAVE k <= l
    <2>2. k = l \/ k < l
      BY <1>1, <2>1
    <2>3. a[p[k]] \in Nat /\ a[p[l]] \in Nat
      BY <1>3
    <2>4. k < l => a[p[k]] < a[p[l]] \/ a[p[k]] = a[p[l]]
      BY <1>4
    <2> QED
      BY <2>2, <2>3, <2>4
  <1>6. \A k \in 0..N : Time(a, p, k) \in Nat
    <2> TAKE k \in 0..N
    <2>1. 1 \in 1..N /\ (k # 0 => k \in 1..N)
      BY <1>1
    <2> QED
      BY <1>3, <2>1 DEF Time
  <1> QED
    BY <1>1, <1>2, <1>3, <1>5, <1>6 DEF OneToOne, Onto, N, InTime

\* A later time has been passed later.
LEMMA PassedIsBefore ==
    ASSUME NEW n, NEW a, NEW b, NEW p, Sweep(n, a, b, p), NEW k \in 1..(2 * n - 1),
           NEW t \in a[p[k]]..(a[p[k + 1]] - 1), NEW i \in 1..(2 * n)
    PROVE a[i] <= t <=> i \in Passed(p, k)
  <1> DEFINE N == 2 * n
  <1>0. InTime(N, a, p)
    BY TimesAscend
  <1> HIDE DEF N
  <1>1. /\ N \in Nat /\ p \in [1..N -> 1..N]
        /\ \A l, m \in 1..N : l <= m => a[p[l]] <= a[p[m]]
        /\ \A j \in 1..N : \E l \in 1..N : p[l] = j
        /\ \A l \in 1..N : a[p[l]] \in Nat
    BY <1>0 DEF InTime
  <1>2. k \in 1..N /\ k + 1 \in 1..N
    BY <1>1 DEF N
  <1>3. PICK j \in 1..N : p[j] = i
    <2>1. i \in 1..N
      BY DEF N
    <2> QED
      BY <1>1, <2>1
  <1>4. t \in Int /\ a[p[k]] <= t /\ t < a[p[k + 1]] /\ a[p[j]] \in Nat /\ a[p[k]] \in Nat /\ a[p[k + 1]] \in Nat
    <2>1. a[p[j]] \in Nat /\ a[p[k]] \in Nat /\ a[p[k + 1]] \in Nat
      BY <1>1, <1>2
    <2> QED
      BY <2>1
  <1>5. CASE j <= k
    <2>1. a[p[j]] <= a[p[k]] /\ j \in 1..k
      BY <1>1, <1>2, <1>5
    <2>2. i \in Passed(p, k)
      BY <1>3, <2>1 DEF Passed
    <2> QED
      BY <1>3, <1>4, <2>1, <2>2
  <1>6. CASE ~(j <= k)
    <2>1. a[p[k + 1]] <= a[p[j]]
      <3>1. k + 1 <= j
        BY <1>2, <1>6
      <3> QED
        BY <1>1, <1>2, <3>1
    <2>2. ~(a[i] <= t)
      BY <1>3, <1>4, <2>1
    <2>3. i \notin Passed(p, k)
      <3> SUFFICES ASSUME NEW l \in 1..k, p[l] = i PROVE FALSE
        BY DEF Passed
      <3>0. l \in 1..N /\ l <= k
        BY <1>1, <1>2
      <3>1. a[p[l]] <= a[p[k]]
        BY <1>1, <1>2, <3>0
      <3> QED
        BY <1>3, <1>4, <2>1, <3>1
    <2> QED
      BY <2>2, <2>3
  <1> QED
    BY <1>5, <1>6

\* Between two events, the crops running are those active at the first.
LEMMA ActiveRun ==
    ASSUME NEW n, NEW a, NEW b, NEW p, Sweep(n, a, b, p), NEW k \in 0..(2 * n - 1),
           NEW t \in Time(a, p, k)..(Time(a, p, k + 1) - 1)
    PROVE Running(n, a, t) = Active(n, p, k)
  <1>1. n \in Nat \ {0} /\ a \in [1..(2 * n) -> Nat]
    BY DEF Sweep
  <1>2. k \in 1..(2 * n - 1)
    <2>1. Time(a, p, 0) = Time(a, p, 1)
      BY DEF Time
    <2>2. Time(a, p, 0) \in Nat
      BY TimesAscend, <1>1 DEF InTime
    <2>3. k # 0
      BY <2>1, <2>2
    <2> QED
      BY <1>1, <2>3
  <1>3. t \in a[p[k]]..(a[p[k + 1]] - 1)
    BY <1>2 DEF Time
  <1>4. \A i \in 1..(2 * n) : a[i] <= t <=> i \in Passed(p, k)
    BY <1>2, <1>3, PassedIsBefore
  <1>5. t \in Int
    OBVIOUS
  <1>6. ASSUME NEW i \in 1..n PROVE (a[i] <= t /\ t < a[n + i]) <=> (i \in Passed(p, k) /\ n + i \notin Passed(p, k))
    <2>1. i \in 1..(2 * n) /\ n + i \in 1..(2 * n)
      BY <1>1
    <2>2. a[n + i] \in Nat
      BY <1>1, <2>1
    <2>3. t < a[n + i] <=> ~(a[n + i] <= t)
      BY <1>5, <2>2
    <2> QED
      BY <1>4, <2>1, <2>3
  <1> QED
    BY <1>6 DEF Running, Active

\* An event starts a crop that is not active, or ends one that is.
LEMMA EventsCount ==
    ASSUME NEW n, NEW a, NEW b, NEW p, Sweep(n, a, b, p), NEW k \in 0..(2 * n - 1)
    PROVE /\ Cardinality(Active(n, p, k)) \in 0..n
          /\ Cardinality(Active(n, p, k + 1)) = Cardinality(Active(n, p, k)) + b[p[k + 1]]
  <1> DEFINE A == Active(n, p, k)
             B == Active(n, p, k + 1)
             i == p[k + 1]
  <1>1. n \in Nat \ {0} /\ a \in [1..(2 * n) -> Nat] /\ k + 1 \in 1..(2 * n)
    BY DEF Sweep
  <1>2. /\ p \in [1..(2 * n) -> 1..(2 * n)]
        /\ \A l, m \in 1..(2 * n) : l <= m => a[p[l]] <= a[p[m]]
        /\ \A l, m \in 1..(2 * n) : p[l] = p[m] => l = m
        /\ \A j \in 1..(2 * n) : \E l \in 1..(2 * n) : p[l] = j
    BY TimesAscend DEF InTime
  <1>3. i \in 1..(2 * n)
    BY <1>1, <1>2
  <1>4. Passed(p, k + 1) = Passed(p, k) \cup {i}
    BY DEF Passed
  <1>5. i \notin Passed(p, k)
    <2> SUFFICES ASSUME NEW l \in 1..k, p[l] = i PROVE FALSE
      BY DEF Passed
    <2>1. l \in 1..(2 * n)
      BY <1>1
    <2>2. l = k + 1
      BY <1>1, <1>2, <2>1
    <2> QED
      BY <2>2
  <1>6. IsFiniteSet(A) /\ Cardinality(A) \in 0..n
    <2>1. A \in SUBSET (1..n) /\ IsFiniteSet(1..n) /\ Cardinality(1..n) = n
      BY <1>1, FS_Interval DEF Active
    <2>2. IsFiniteSet(A) /\ Cardinality(A) <= n
      BY <2>1, FS_Subset
    <2> QED
      BY <1>1, <2>2, FS_CardinalityType
  <1> HIDE DEF i
  <1>7. CASE i <= n
    <2>1. i \in 1..n /\ b[i] = 1 /\ a[i] < a[n + i] /\ n + i \in 1..(2 * n)
      BY <1>1, <1>3, <1>7 DEF Sweep
    <2>2. n + i \notin Passed(p, k)
      <3> SUFFICES ASSUME NEW l \in 1..k, p[l] = n + i PROVE FALSE
        BY DEF Passed
      <3>1. a[n + i] <= a[i]
        <4>1. l \in 1..(2 * n) /\ l <= k + 1
          BY <1>1
        <4>2. a[p[l]] <= a[p[k + 1]]
          BY <1>1, <1>2, <4>1
        <4> QED
          BY <4>2 DEF i
      <3> QED
        BY <1>1, <1>3, <2>1, <3>1
    <2>3. \A j \in 1..n : n + j # i
      BY <1>1, <1>7, <2>1
    <2>4. B = A \cup {i}
      BY <1>4, <2>1, <2>2, <2>3 DEF Active
    <2>5. i \notin A
      BY <1>5 DEF Active
    <2> HIDE DEF A, B
    <2>6. Cardinality(B) = Cardinality(A) + 1
      BY <1>6, <2>4, <2>5, FS_AddElement
    <2> QED
      BY <1>6, <2>1, <2>6 DEF A, B, i
  <1>8. CASE n < i
    <2> DEFINE m == i - n
    <2>1. m \in 1..n /\ i = n + m
      BY <1>1, <1>3, <1>8
    <2> HIDE DEF m
    <2>2. b[i] = -1 /\ a[m] < a[i] /\ m \in 1..(2 * n)
      BY <1>1, <2>1 DEF Sweep
    <2>3. m \in Passed(p, k)
      <3>1. PICK l \in 1..(2 * n) : p[l] = m
        BY <1>2, <2>2
      <3>2. CASE l <= k
        BY <1>1, <3>1, <3>2 DEF Passed
      <3>3. CASE k + 1 <= l
        <4>1. a[i] <= a[m]
          BY <1>1, <1>2, <3>1, <3>3 DEF i
        <4> QED
          BY <1>1, <1>3, <2>2, <4>1
      <3> QED
        BY <1>1, <3>2, <3>3
    <2>4. \A j \in 1..n : (n + j = i <=> j = m) /\ j # i
      BY <1>1, <2>1
    <2>5. B = A \ {m}
      BY <1>4, <2>1, <2>4 DEF Active
    <2>6. m \in A
      BY <1>5, <2>1, <2>3 DEF Active
    <2> HIDE DEF A, B
    <2>7. Cardinality(B) = Cardinality(A) - 1
      BY <1>6, <2>5, <2>6, FS_RemoveElement
    <2> QED
      BY <1>6, <2>2, <2>7 DEF A, B, i
  <1> QED
    BY <1>1, <1>3, <1>7, <1>8

\* Until the next event, the time goes to the number of crops active.
LEMMA TimeIsSpent ==
    ASSUME NEW n, NEW a, NEW b, NEW p, Sweep(n, a, b, p), NEW k \in 0..(2 * n - 1), NEW c \in 0..n
    PROVE /\ Cardinality(Spent(n, a, p, k, c)) \in Nat
          /\ Cardinality(Spent(n, a, p, k + 1, c)) =
               Cardinality(Spent(n, a, p, k, c)) +
                 (IF c = Cardinality(Active(n, p, k)) THEN Time(a, p, k + 1) - Time(a, p, k) ELSE 0)
  <1> DEFINE x == Time(a, p, 0)
             y == Time(a, p, k)
             z == Time(a, p, k + 1)
             S == Spent(n, a, p, k, c)
             T == Spent(n, a, p, k + 1, c)
             U == y..(z - 1)
  <1>1. n \in Nat \ {0} /\ k + 1 \in 1..(2 * n) /\ (k # 0 => k \in 1..(2 * n)) /\ 1 \in 1..(2 * n)
    BY DEF Sweep
  <1>2. x \in Nat /\ y \in Nat /\ z \in Nat
    <2>1. \A l \in 0..(2 * n) : Time(a, p, l) \in Nat
      BY TimesAscend DEF InTime
    <2>2. 0 \in 0..(2 * n) /\ k \in 0..(2 * n) /\ k + 1 \in 0..(2 * n)
      BY <1>1
    <2> QED
      BY <2>1, <2>2
  <1>3. x <= y /\ y <= z
    <2>1. \A l, m \in 1..(2 * n) : l <= m => a[p[l]] <= a[p[m]]
      BY TimesAscend DEF InTime
    <2>2. CASE k = 0
      BY <1>2, <2>2 DEF Time
    <2>3. CASE k # 0
      BY <1>1, <2>1, <2>3 DEF Time
    <2> QED
      BY <2>2, <2>3
  <1>4. \A t \in U : Cardinality(Running(n, a, t)) = Cardinality(Active(n, p, k))
    BY ActiveRun
  <1>5. S = {t \in x..(y - 1) : Cardinality(Running(n, a, t)) = c}
    BY DEF Spent
  <1>6. T = {t \in x..(z - 1) : Cardinality(Running(n, a, t)) = c}
    BY DEF Spent
  <1> HIDE DEF x, y, z, S, T
  <1>7. IsFiniteSet(S) /\ Cardinality(S) \in Nat
    <2>0. y - 1 \in Int /\ x \in Int
      BY <1>2
    <2>1. S \in SUBSET (x..(y - 1)) /\ IsFiniteSet(x..(y - 1))
      BY <1>5, <2>0, FS_Interval
    <2> QED
      BY <2>1, FS_Subset, FS_CardinalityType
  <1>8. x..(z - 1) = (x..(y - 1)) \cup U /\ (x..(y - 1)) \cap U = {}
    BY <1>2, <1>3
  <1>9. CASE c = Cardinality(Active(n, p, k))
    <2>1. T = S \cup U /\ S \cap U = {}
      BY <1>4, <1>5, <1>6, <1>8, <1>9
    <2>0. y \in Int /\ z - 1 \in Int /\ (y > z - 1 => z - y = 0) /\ (z - 1) - y + 1 = z - y
      BY <1>2, <1>3
    <2>2. IsFiniteSet(U) /\ Cardinality(U) = z - y
      BY <2>0, FS_Interval
    <2> HIDE DEF U
    <2>3. Cardinality(T) = Cardinality(S) + Cardinality(U) - Cardinality(S \cap U)
      BY <1>7, <2>1, <2>2, FS_Union
    <2>4. Cardinality(S \cap U) = 0
      BY <2>1, FS_EmptySet
    <2>5. Cardinality(T) = Cardinality(S) + (z - y)
      BY <1>2, <1>7, <2>2, <2>3, <2>4
    <2> QED
      BY <1>7, <1>9, <2>5 DEF S, T, y, z
  <1>10. CASE c # Cardinality(Active(n, p, k))
    <2>1. T = S
      BY <1>4, <1>5, <1>6, <1>8, <1>10
    <2> QED
      BY <1>7, <1>10, <2>1 DEF S, T
  <1> QED
    BY <1>9, <1>10
Tallied(n, a, p, k) ==
    [hist |-> [c \in 0..n |-> Cardinality(Spent(n, a, p, k, c))],
     cur |-> Cardinality(Active(n, p, k)), prev |-> Time(a, p, k)]

BeforeEvents(n, events) == [hist |-> [c \in 0..n |-> 0], cur |-> 0, prev |-> events[1][1]]
AfterEvent(events, k, s) ==
    [hist |-> Tally(s.hist, s.cur, events[k][1] - s.prev),
     cur |-> s.cur + events[k][2], prev |-> events[k][1]]
Sweeps(n, events, s) ==
    s = [k \in 0..Len(events) |-> IF k = 0 THEN BeforeEvents(n, events) ELSE AfterEvent(events, k, s[k - 1])]

\* Each step of the sweep tallies the time up to its event.
LEMMA TallyStep ==
    ASSUME NEW n, NEW a, NEW b, NEW p, Sweep(n, a, b, p), NEW events,
           \A k \in 1..(2 * n) : events[k] = <<a[p[k]], b[p[k]]>>
    PROVE /\ Tallied(n, a, p, 0) = BeforeEvents(n, events)
          /\ \A k \in 1..(2 * n) : Tallied(n, a, p, k) = AfterEvent(events, k, Tallied(n, a, p, k - 1))
  <1>1. n \in Nat \ {0} /\ 1 \in 1..(2 * n)
    BY DEF Sweep
  <1>2. \A k \in 1..(2 * n) : events[k][1] = a[p[k]] /\ events[k][2] = b[p[k]]
    OBVIOUS
  <1>3. Tallied(n, a, p, 0) = BeforeEvents(n, events)
    <2>1. \A c \in 0..n : Cardinality(Spent(n, a, p, 0, c)) = 0
      <3> TAKE c \in 0..n
      <3>1. Time(a, p, 0) \in Nat
        BY <1>1, TimesAscend DEF InTime
      <3>2. Spent(n, a, p, 0, c) = {}
        BY <3>1 DEF Spent
      <3> QED
        BY <3>2, FS_EmptySet
    <2>2. Cardinality(Active(n, p, 0)) = 0
      <3>1. Active(n, p, 0) = {}
        BY DEF Active, Passed
      <3> QED
        BY <3>1, FS_EmptySet
    <2>3. Time(a, p, 0) = events[1][1]
      BY <1>1, <1>2 DEF Time
    <2>4. [c \in 0..n |-> Cardinality(Spent(n, a, p, 0, c))] = [c \in 0..n |-> 0]
      BY <2>1
    <2> QED
      BY <2>2, <2>3, <2>4 DEF Tallied, BeforeEvents
  <1>4. ASSUME NEW k \in 1..(2 * n)
        PROVE Tallied(n, a, p, k) = AfterEvent(events, k, Tallied(n, a, p, k - 1))
    <2> DEFINE l == k - 1
               x == Cardinality(Active(n, p, l))
               d == Time(a, p, k) - Time(a, p, l)
               h == [c \in 0..n |-> Cardinality(Spent(n, a, p, l, c))]
               g == [c \in 0..n |-> Cardinality(Spent(n, a, p, k, c))]
    <2>1. l \in 0..(2 * n - 1) /\ l + 1 = k
      BY <1>1
    <2>2. Time(a, p, k) = events[k][1]
      BY <1>2 DEF Time
    <2> HIDE DEF l
    <2>3. x \in 0..n /\ Cardinality(Active(n, p, k)) = x + b[p[k]]
      BY <2>1, EventsCount
    <2>4. \A c \in 0..n : g[c] = h[c] + (IF c = x THEN d ELSE 0) /\ h[c] \in Nat
      BY <2>1, TimeIsSpent
    <2>5. g = Tally(h, x, d)
      <3> DEFINE f == Tally(h, x, d)
      <3>1. f = [h EXCEPT ![x] = @ + d]
        BY DEF Tally
      <3>2. DOMAIN h = 0..n /\ DOMAIN g = 0..n /\ g = [c \in 0..n |-> g[c]]
        OBVIOUS
      <3> HIDE DEF h, g, x, d, f
      <3>3. f = [c \in 0..n |-> f[c]]
        BY <3>1, <3>2
      <3>4. \A c \in 0..n : f[c] = IF c = x THEN h[x] + d ELSE h[c]
        BY <3>1, <3>2
      <3>5. \A c \in 0..n : f[c] = g[c]
        BY <2>4, <3>4
      <3>6. f = g
        BY <3>2, <3>3, <3>5
      <3> QED
        BY <3>6 DEF f
    <2>6. Tallied(n, a, p, k) = [hist |-> g, cur |-> x + b[p[k]], prev |-> events[k][1]]
      BY <2>2, <2>3 DEF Tallied
    <2>7. Tallied(n, a, p, l) = [hist |-> h, cur |-> x, prev |-> Time(a, p, l)]
      BY DEF Tallied
    <2>8. d = events[k][1] - Time(a, p, l) /\ events[k][2] = b[p[k]]
      BY <1>2, <2>2
    <2> HIDE DEF h, g, x, d
    <2>9. AfterEvent(events, k, Tallied(n, a, p, l)) =
            [hist |-> Tally(h, x, d), cur |-> x + b[p[k]], prev |-> events[k][1]]
      BY <2>7, <2>8 DEF AfterEvent
    <2> QED
      BY <2>5, <2>6, <2>9 DEF l
  <1> QED
    BY <1>3, <1>4

\* So the sweep's histogram is the time spent at each number of crops.
LEMMA SweepTallies ==
    ASSUME NEW n, NEW a, NEW b, NEW p, Sweep(n, a, b, p), NEW events,
           Len(events) = 2 * n, \A k \in 1..(2 * n) : events[k] = <<a[p[k]], b[p[k]]>>
    PROVE Swept(events, n)[2 * n] = Tallied(n, a, p, 2 * n)
  <1> DEFINE N == 2 * n
             w == [k \in 0..N |-> Tallied(n, a, p, k)]
  <1>1. n \in Nat \ {0} /\ N \in Nat
    BY DEF Sweep
  <1>2. /\ Tallied(n, a, p, 0) = BeforeEvents(n, events)
        /\ \A k \in 1..N : Tallied(n, a, p, k) = AfterEvent(events, k, Tallied(n, a, p, k - 1))
    BY TallyStep
  <1> HIDE DEF N
  <1>3. Sweeps(n, events, w)
    <2>1. ASSUME NEW k \in 0..N PROVE w[k] = IF k = 0 THEN BeforeEvents(n, events) ELSE AfterEvent(events, k, w[k - 1])
      <3>1. CASE k = 0
        BY <1>1, <1>2, <3>1
      <3>2. CASE k # 0
        <4>1. k \in 1..N /\ k - 1 \in 0..N
          BY <1>1, <3>2
        <4>2. w[k] = Tallied(n, a, p, k) /\ w[k - 1] = Tallied(n, a, p, k - 1)
          BY <4>1
        <4> HIDE DEF w
        <4> QED
          BY <1>2, <3>2, <4>1, <4>2
      <3> QED
        BY <3>1, <3>2
    <2>2. w = [k \in 0..N |-> w[k]] /\ Len(events) = N
      BY DEF N
    <2> HIDE DEF w
    <2> QED
      BY <2>1, <2>2 DEF Sweeps
  <1>4. PICK s : Sweeps(n, events, s) /\ Swept(events, n) = s
    BY <1>3 DEF Swept, Sweeps, BeforeEvents, AfterEvent
  <1>5. \A k \in 0..N : s[k] = IF k = 0 THEN BeforeEvents(n, events) ELSE AfterEvent(events, k, s[k - 1])
    <2>1. Len(events) = N
      BY DEF N
    <2> QED
      BY <1>4, <2>1 DEF Sweeps
  <1> DEFINE T == {k \in 0..N : s[k] # Tallied(n, a, p, k)}
  <1>6. T = {}
    <2> SUFFICES ASSUME T # {} PROVE FALSE
      OBVIOUS
    <2>1. PICK k \in T : \A l \in T : k <= l
      <3>1. T \subseteq Nat
        OBVIOUS
      <3> HIDE DEF T
      <3> QED
        BY <3>1, LeastExists
    <2>2. k \in 0..N /\ s[k] # Tallied(n, a, p, k)
      BY <2>1
    <2>3. k # 0
      BY <1>1, <1>2, <1>5, <2>2
    <2>4. k \in 1..N /\ k - 1 \in 0..N /\ ~(k <= k - 1)
      BY <1>1, <2>2, <2>3
    <2>5. k - 1 \notin T
      <3> HIDE DEF T
      <3> QED
        BY <2>1, <2>4
    <2>6. s[k - 1] = Tallied(n, a, p, k - 1)
      BY <2>4, <2>5
    <2> QED
      BY <1>2, <1>5, <2>2, <2>3, <2>4, <2>6
  <1>7. N \in 0..N
    BY <1>1
  <1> QED
    BY <1>4, <1>6, <1>7 DEF N

\* occupancy_stats' intervals: windows of the sink that have a length.
LEMMA IntervalsHaveLength ==
    ASSUME StatsTypes
    PROVE /\ Len(Intervals) \in Nat /\ DOMAIN Intervals = 1..Len(Intervals)
          /\ \A k \in 1..Len(Intervals) : /\ Intervals[k][1] \in Nat /\ Intervals[k][2] \in Nat
                                          /\ Intervals[k][1] < Intervals[k][2]
  <1> DEFINE N == Len(occ)
             kept == {i \in DOMAIN occ : occ[i][2] > occ[i][1]}
  <1>1. N \in Nat /\ DOMAIN occ = 1..N /\ \A i \in 1..N : occ[i] \in Windows
    BY DEF StatsTypes
  <1>2. Intervals = Pick(occ, kept)
    BY DEF Intervals, Where
  <1>3. kept \in SUBSET (1..N)
    BY <1>1
  <1>4. \A i \in kept : occ[i][1] \in Nat /\ occ[i][2] \in Nat /\ occ[i][1] < occ[i][2]
    BY <1>1, StatsAssumption
  <1> HIDE DEF N, kept
  <1> DEFINE n == Cardinality(kept)
  <1>5. n \in Nat /\ \E q : Enumerates(kept, q)
    BY <1>1, <1>3, PickLists
  <1>6. PICK q : Enumerates(kept, q)
    BY <1>5
  <1>7. q \in [1..n -> kept] /\ Intervals = [k \in 1..n |-> occ[q[k]]]
    <2>1. q \in [1..n -> kept]
      BY <1>6 DEF Enumerates, Lists
    <2>2. Pick(occ, kept) = [k \in 1..n |-> occ[q[k]]]
      BY <1>6 DEF Enumerates
    <2> QED
      BY <1>2, <2>1, <2>2
  <1> HIDE DEF n
  <1>8. Len(Intervals) = n /\ DOMAIN Intervals = 1..n
    BY <1>5, <1>7
  <1>9. \A k \in 1..n : Intervals[k] = occ[q[k]] /\ q[k] \in kept
    BY <1>7
  <1> QED
    BY <1>4, <1>5, <1>8, <1>9

Marks(n) == [k \in 1..(2 * n) |-> IF k <= n THEN Intervals[k][1] ELSE Intervals[k - n][2]]
Signs(n) == [k \in 1..(2 * n) |-> IF k <= n THEN 1 ELSE -1]

\* Its events are the starts and ends, by time.
LEMMA EventsSweep ==
    ASSUME StatsTypes, NEW n, n = Len(Intervals), n # 0
    PROVE \E p : /\ Sweep(n, Marks(n), Signs(n), p)
                 /\ Events = [k \in 1..(2 * n) |-> <<Marks(n)[p[k]], Signs(n)[p[k]]>>]
  <1> DEFINE N == 2 * n
             a == Marks(n)
             b == Signs(n)
             marks == [k \in 1 .. 2 * n |-> IF k <= n THEN << Intervals[k][1], 1 >>
                                          ELSE << Intervals[k - n][2], -1 >>]
             Rank(i) == {j \in DOMAIN marks :
                           \/ marks[j][1] < marks[i][1] \/ (marks[j][1] = marks[i][1] /\ marks[j][2] < marks[i][2])
                           \/ j <= i /\ ~(marks[i][1] < marks[j][1] \/ (marks[i][1] = marks[j][1] /\ marks[i][2] < marks[j][2]))}
             c(k) == CHOOSE i \in DOMAIN marks : Cardinality(Rank(i)) = k
  <1>1. n \in Nat \ {0} /\ \A k \in 1..n : /\ Intervals[k][1] \in Nat /\ Intervals[k][2] \in Nat
                                           /\ Intervals[k][1] < Intervals[k][2]
    BY IntervalsHaveLength
  <1>2. a \in [1..N -> Nat] /\ b \in [1..N -> Int]
    BY <1>1 DEF Marks, Signs
  <1>3. \A k \in 1..N : marks[k] = <<a[k], b[k]>>
    BY <1>1 DEF Marks, Signs
  <1>4. DOMAIN marks = 1..N
    OBVIOUS
  <1>5. Events = [k \in DOMAIN marks |-> marks[c(k)]]
    BY DEF Events, StableSort
  <1>6. \A i \in 1..n : a[i] < a[n + i] /\ b[i] = 1 /\ b[n + i] = -1
    <2> TAKE i \in 1..n
    <2>1. i \in 1..N /\ n + i \in 1..N /\ ~(n + i <= n) /\ (n + i) - n = i /\ i <= n
      BY <1>1
    <2>2. a[i] = Intervals[i][1] /\ a[n + i] = Intervals[i][2] /\ b[i] = 1 /\ b[n + i] = -1
      BY <2>1 DEF Marks, Signs
    <2> QED
      BY <1>1, <2>2
  <1> HIDE DEF marks, a, b
  <1>7. PICK p : Sorts(N, a, b, p)
    <2>1. N \in Nat /\ a \in [1..N -> Int]
      BY <1>1, <1>2
    <2> QED
      BY <1>2, <2>1, KeysSort
  <1>8. \A i \in 1..N : NoLater(N, a, b)[i] = Rank(i)
    <2> TAKE i \in 1..N
    <2>1. NoLater(N, a, b)[i] = {j \in 1..N : \/ a[j] < a[i]
                                              \/ a[j] = a[i] /\ b[j] < b[i]
                                              \/ a[j] = a[i] /\ b[j] = b[i] /\ j <= i}
      BY DEF NoLater
    <2>2. \A j \in 1..N : marks[j][1] = a[j] /\ marks[j][2] = b[j] /\ a[j] \in Int /\ b[j] \in Int
      BY <1>2, <1>3
    <2>3. ASSUME NEW j \in 1..N PROVE j \in NoLater(N, a, b)[i] <=> j \in Rank(i)
      <3>1. /\ marks[j][1] = a[j] /\ marks[j][2] = b[j] /\ a[j] \in Int /\ b[j] \in Int
            /\ marks[i][1] = a[i] /\ marks[i][2] = b[i] /\ a[i] \in Int /\ b[i] \in Int
        BY <2>2
      <3>2. j \in Rank(i) <=> \/ a[j] < a[i] \/ (a[j] = a[i] /\ b[j] < b[i])
                              \/ j <= i /\ ~(a[i] < a[j] \/ (a[i] = a[j] /\ b[i] < b[j]))
        BY <1>4, <3>1
      <3> HIDE DEF Rank, N
      <3> QED
        BY <2>1, <3>1, <3>2
    <2>4. NoLater(N, a, b)[i] \subseteq 1..N /\ Rank(i) \subseteq 1..N
      BY <1>4, <2>1
    <2> HIDE DEF Rank, N
    <2> QED
      BY <2>3, <2>4
  <1>9. \A k \in 1..N : p[k] = c(k)
    <2>1. \A k \in 1..N : p[k] = CHOOSE i \in 1..N : Cardinality(NoLater(N, a, b)[i]) = k
      BY <1>7 DEF Sorts
    <2>2. \A k : (CHOOSE i \in 1..N : Cardinality(NoLater(N, a, b)[i]) = k)
                   = CHOOSE i \in DOMAIN marks : Cardinality(Rank(i)) = k
      <3> HIDE DEF Rank, N
      <3> QED
        BY <1>4, <1>8
    <2> HIDE DEF Rank, N
    <2> QED
      BY <2>1, <2>2
  <1>10. p \in [1..N -> 1..N]
    BY <1>7 DEF Sorts, OneToOne
  <1> HIDE DEF c
  <1>11. Events = [k \in 1..N |-> <<a[p[k]], b[p[k]]>>]
    BY <1>3, <1>4, <1>5, <1>9, <1>10
  <1>12. Sweep(n, a, b, p)
    BY <1>1, <1>2, <1>6, <1>7 DEF Sweep
  <1> QED
    BY <1>11, <1>12 DEF a, b

\* The readout is the time during which exactly so many crops ran.
LEMMA OccupancyIsAlwaysTime == ASSUME StatsTypes PROVE OccupancyIsTime
  <1> DEFINE n == Len(Intervals)
             a == Marks(n)
             b == Signs(n)
             Busy(t) == {k \in DOMAIN Intervals : Intervals[k][1] <= t /\ t < Intervals[k][2]}
             ticks == Events[1][1] .. Last(Events)[1] - 1
  <1> SUFFICES ASSUME Intervals # <<>>
               PROVE \A c \in DOMAIN Histogram :
                       Histogram[c] = Cardinality({t \in ticks : Cardinality(Busy(t)) = c})
    BY DEF OccupancyIsTime
  <1>1. n \in Nat \ {0} /\ DOMAIN Intervals = 1..n
    BY IntervalsHaveLength
  <1>2. PICK p : /\ Sweep(n, a, b, p)
                 /\ Events = [k \in 1..(2 * n) |-> <<a[p[k]], b[p[k]]>>]
    BY <1>1, EventsSweep
  <1>3. Len(Events) = 2 * n /\ \A k \in 1..(2 * n) : Events[k] = <<a[p[k]], b[p[k]]>>
    BY <1>1, <1>2
  <1>4. Histogram = [c \in 0..n |-> Cardinality(Spent(n, a, p, 2 * n, c))]
    <2>1. Swept(Events, n)[2 * n] = Tallied(n, a, p, 2 * n)
      BY <1>2, <1>3, SweepTallies
    <2>2. Histogram = Swept(Events, n)[2 * n].hist
      BY <1>3 DEF Histogram
    <2> QED
      BY <2>1, <2>2 DEF Tallied
  <1>5. ticks = Time(a, p, 0)..(Time(a, p, 2 * n) - 1)
    <2>1. 1 \in 1..(2 * n) /\ 2 * n \in 1..(2 * n) /\ 2 * n # 0
      BY <1>1
    <2>2. Last(Events) = Events[2 * n]
      BY <1>3 DEF Last
    <2>3. Events[1][1] = a[p[1]] /\ Last(Events)[1] = a[p[2 * n]]
      BY <1>3, <2>1, <2>2
    <2> QED
      BY <2>1, <2>3 DEF Time
  <1>6. \A t : Running(n, a, t) = Busy(t)
    <2> TAKE t
    <2>1. ASSUME NEW i \in 1..n PROVE a[i] = Intervals[i][1] /\ a[n + i] = Intervals[i][2]
      <3>1. i \in 1..(2 * n) /\ n + i \in 1..(2 * n) /\ ~(n + i <= n) /\ (n + i) - n = i /\ i <= n
        BY <1>1
      <3> QED
        BY <3>1 DEF Marks
    <2> QED
      BY <1>1, <2>1 DEF Running
  <1> HIDE DEF n, a, b, ticks, Busy
  <1>7. \A c : Spent(n, a, p, 2 * n, c) = {t \in ticks : Cardinality(Busy(t)) = c}
    BY <1>5, <1>6 DEF Spent
  <1> QED
    BY <1>4, <1>7

\* What the admin page reports is what was measured.
THEOREM StatsAlwaysAddUp == StatsSpec => []StatsAddUp
  <1>1. StatsInv => StatsAddUp
    BY SummariesAlwaysAscend, PickerAlwaysAddsUp, OccupancyIsAlwaysTime DEF StatsInv, StatsAddUp
  <1> QED
    BY <1>1, StatsInvariant, PTL
=============================================================================
