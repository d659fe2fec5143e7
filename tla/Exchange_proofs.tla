-------------------------- MODULE Exchange_proofs --------------------------
(***************************************************************************)
(* For every number of ranks, size of an element, mpi_max_count and layout:*)
(* in the exchanges below scatter, align_as and sort both sides count      *)
(* alike and within an int, whatever chunks the bytes go in and whatever   *)
(* the speed of the ranks; and to its user a dvector is a vector, which    *)
(* scatter fills, align_as leaves, sort sorts, and put, head and tail      *)
(* treat as they say.                                                      *)
(*                                                                         *)
(* First what the operators of the model make of their data (a vector and  *)
(* its parts, sorting, partitioners, bytes), then the invariant and that   *)
(* the steps of the ranks keep it, what has arrived when they are through  *)
(* (merged, for sort), that every action keeps the invariant, and the      *)
(* theorems.                                                               *)
(***************************************************************************)
EXTENDS Exchange, Layouts_proofs, SequenceTheorems

---------------------------------------------------------------------------
(* A vector and its parts.  Global(d) is determined by its length and by   *)
(* where the elements of each rank are in it.                              *)

(* flatten, in FlattenSeq.                                                 *)
Flattens(d, f) ==
  f = [i \in 1 .. N |-> IF i = 1 THEN d[0] ELSE f[i - 1] \o d[i - 1]]

LEMMA FlattenExists ==
  ASSUME NEW d
  PROVE  \E f : Flattens(d, f)
<1> DEFINE Val(f, i) == IF i = 1 THEN d[0] ELSE f[i - 1] \o d[i - 1]
           T == {n \in Nat : \E f : f = [i \in 1 .. n |-> Val(f, i)]}
<1>1. 0 \in T
  <2>1. [i \in 1 .. 0 |-> 0] = [i \in 1 .. 0 |-> Val([j \in 1 .. 0 |-> 0], i)]
    OBVIOUS
  <2> HIDE DEF Val
  <2> QED
    BY <2>1
<1>2. ASSUME NEW n \in Nat, n \in T PROVE n + 1 \in T
  <2> HIDE DEF Val
  <2>1. PICK f : f = [i \in 1 .. n |-> Val(f, i)]
    BY <1>2
  <2> DEFINE g == [i \in 1 .. n + 1 |-> IF i <= n THEN f[i] ELSE Val(f, i)]
  <2>2. ASSUME NEW i \in 1 .. n + 1 PROVE g[i] = Val(g, i)
    <3>1. g[i] = Val(f, i)
      BY <2>1
    <3>2. i # 1 => i - 1 \in 1 .. n /\ g[i - 1] = f[i - 1]
      OBVIOUS
    <3> HIDE DEF g
    <3> QED
      BY <3>1, <3>2 DEF Val
  <2>3. g = [i \in 1 .. n + 1 |-> Val(g, i)]
    <3>1. g = [i \in 1 .. n + 1 |-> g[i]]
      OBVIOUS
    <3> HIDE DEF g
    <3> QED
      BY <2>2, <3>1
  <2> HIDE DEF g
  <2> QED
    BY <2>3
<1> HIDE DEF T
<1>3. N \in T
  BY <1>1, <1>2, NatSetInduction, NAssumption
<1> QED
  BY <1>3, Zenon DEF T, Flattens

LEMMA GlobalFlattens ==
  ASSUME NEW d
  PROVE  \E f : Flattens(d, f) /\ Global(d) = f[N]
<1> DEFINE seqs == [k \in 1 .. N |-> d[k - 1]]
           Def(f) == f = [i \in 1 .. Len(seqs) |-> IF i = 1 THEN seqs[i] ELSE f[i - 1] \o seqs[i]]
<1>1. N \in Nat /\ N # 0
  BY NAssumption
<1>2. Len(seqs) = N
  BY <1>1
<1>3. Global(d) = (CHOOSE f : Def(f))[N]
  BY <1>1, <1>2, Zenon DEF Global, FlattenSeq
<1>4. \A f : Def(f) <=> Flattens(d, f)
  <2>1. \A i \in 1 .. N : seqs[i] = d[i - 1] /\ (i = 1 => seqs[i] = d[0])
    BY <1>1
  <2> HIDE DEF seqs
  <2> QED
    BY <1>2, <2>1 DEF Flattens
<1> HIDE DEF Def
<1>5. Def(CHOOSE f : Def(f))
  BY <1>4, FlattenExists
<1> QED
  BY <1>3, <1>4, <1>5

LEMMA BeforeOrder ==
  ASSUME NEW v \in Layout, NEW a \in 0 .. N, NEW b \in 0 .. N, a <= b
  PROVE  Before(v, a) <= Before(v, b)
<1>1. /\ \A k \in 0 .. N : Before(v, k) \in Nat
      /\ \A k \in Rank : Before(v, k + 1) = Before(v, k) + v[k] /\ v[k] \in Nat
  BY BeforeFacts, BeforeGrows DEF Layout
<1> DEFINE T == {n \in Nat : a + n <= N => Before(v, a) <= Before(v, a + n)}
<1>2. 0 \in T
  BY <1>1
<1>3. ASSUME NEW n \in Nat, n \in T PROVE n + 1 \in T
  <2>1. SUFFICES ASSUME a + (n + 1) <= N PROVE Before(v, a) <= Before(v, a + (n + 1))
    OBVIOUS
  <2>2. /\ a + n \in Rank /\ (a + n) + 1 = a + (n + 1) /\ a + n \in 0 .. N
        /\ (a + n) + 1 \in 0 .. N
    BY <2>1, NAssumption DEF Rank
  <2>3. Before(v, a) <= Before(v, a + n)
    BY <1>3, <2>2
  <2>4. /\ Before(v, (a + n) + 1) = Before(v, a + n) + v[a + n] /\ v[a + n] \in Nat
        /\ Before(v, a) \in Nat /\ Before(v, a + n) \in Nat
    BY <1>1, <2>2
  <2> QED
    BY <2>2, <2>3, <2>4
<1> HIDE DEF T
<1>4. b - a \in T /\ a + (b - a) = b
  BY <1>2, <1>3, NatSetInduction
<1> QED
  BY <1>4, NAssumption DEF T

LEMMA LayoutType ==
  ASSUME NEW S, NEW d \in [Rank -> Seq(S)]
  PROVE  LayoutOf(d) \in Layout /\ \A r \in Rank : LayoutOf(d)[r] = Len(d[r])
BY DEF LayoutOf, Layout

(* a is made of the parts of the ranks before i.                           *)
Parts(S, v, d, i, a) ==
  /\ a \in Seq(S) /\ Len(a) = Before(v, i)
  /\ \A r \in 0 .. i - 1 : \A j \in 1 .. v[r] : a[Before(v, r) + j] = d[r][j]

LEMMA PartsExtend ==
  ASSUME NEW S, NEW v \in Layout, NEW d, NEW i \in Rank, NEW a, Parts(S, v, d, i, a),
         d[i] \in Seq(S), Len(d[i]) = v[i]
  PROVE  Parts(S, v, d, i + 1, a \o d[i])
<1>1. PICK b \in Seq(S) : b = d[i] /\ Len(b) = v[i]
  OBVIOUS
<1>a. /\ a \in Seq(S) /\ Len(a) = Before(v, i)
      /\ \A r \in 0 .. i - 1 : \A j \in 1 .. v[r] : a[Before(v, r) + j] = d[r][j]
  BY DEF Parts
<1>2. /\ \A k \in 0 .. N : Before(v, k) \in Nat
      /\ \A k \in Rank : Before(v, k + 1) = Before(v, k) + v[k] /\ v[k] \in Nat
  BY BeforeFacts, BeforeGrows DEF Layout
<1>3. /\ a \o b \in Seq(S) /\ Len(a \o b) = Len(a) + Len(b)
      /\ \A p \in 1 .. Len(a) + Len(b) : (a \o b)[p] =
           IF p <= Len(a) THEN a[p] ELSE b[p - Len(a)]
  BY <1>a, ConcatProperties
<1>4. Len(a \o b) = Before(v, i + 1)
  BY <1>a, <1>1, <1>2, <1>3
<1>5. Before(v, i) \in Nat /\ v[i] \in Nat
  <2>1. i \in 0 .. N
    BY NAssumption DEF Rank
  <2> QED
    BY <1>2, <2>1
<1>6. ASSUME NEW r \in 0 .. i, NEW j \in 1 .. v[r]
      PROVE  (a \o b)[Before(v, r) + j] = d[r][j]
  <2>1. /\ r \in Rank /\ r \in 0 .. N /\ i \in 0 .. N /\ r \in Nat /\ i \in Nat /\ r <= i
        /\ r # i => r + 1 \in 0 .. N /\ r + 1 <= i /\ r \in 0 .. i - 1
    BY NAssumption DEF Rank
  <2>2. Before(v, r) \in Nat /\ v[r] \in Nat
    BY <1>2, <2>1
  <2>3. CASE r = i
    <3>1. PICK p \in 1 .. Len(a) + Len(b) : p = Before(v, r) + j
      BY <1>a, <1>1, <1>5, <2>2, <2>3
    <3>2. ~ p <= Len(a) /\ p - Len(a) = j
      BY <1>a, <1>1, <1>5, <2>2, <2>3, <3>1
    <3> QED
      BY <1>1, <1>3, <2>3, <3>1, <3>2
  <2>4. CASE r # i
    <3>1. Before(v, r + 1) = Before(v, r) + v[r] /\ Before(v, r + 1) <= Before(v, i)
      BY <1>2, <2>1, <2>4, BeforeOrder
    <3>2. PICK p \in 1 .. Len(a) : p = Before(v, r) + j
      BY <1>a, <1>5, <2>2, <3>1
    <3>3. p \in 1 .. Len(a) + Len(b) /\ p <= Len(a)
      BY <1>a, <1>1, <1>5, <3>2
    <3>4. a[p] = d[r][j]
      BY <1>a, <2>1, <2>4, <3>2
    <3> QED
      BY <1>3, <3>2, <3>3, <3>4
  <2> QED
    BY <2>3, <2>4
<1>7. (i + 1) - 1 = i
  BY DEF Rank
<1> QED
  BY <1>1, <1>3, <1>4, <1>6, <1>7, Zenon DEF Parts

LEMMA GlobalFacts ==
  ASSUME NEW S, NEW d \in [Rank -> Seq(S)]
  PROVE  /\ Global(d) \in Seq(S)
         /\ Len(Global(d)) = Total(LayoutOf(d))
         /\ \A r \in Rank : \A j \in 1 .. Len(d[r]) :
              Global(d)[Before(LayoutOf(d), r) + j] = d[r][j]
<1>1. PICK f : Flattens(d, f) /\ Global(d) = f[N]
  BY GlobalFlattens
<1>2. PICK v \in Layout : v = LayoutOf(d) /\ \A r \in Rank : v[r] = Len(d[r])
  BY LayoutType
<1>3. Before(v, 0) = 0 /\ Before(v, N) = Total(v)
  BY BeforeFacts
<1> DEFINE Holds(i) == Parts(S, v, d, i, f[i])
           T == {i \in Nat : i \in 1 .. N => Holds(i)}
<1>4. 0 \in T
  OBVIOUS
<1>5. ASSUME NEW i \in Nat, i \in T PROVE i + 1 \in T
  <2>1. SUFFICES ASSUME i + 1 \in 1 .. N PROVE Holds(i + 1)
    OBVIOUS
  <2>2. /\ i \in Rank /\ (i + 1) - 1 = i /\ d[i] \in Seq(S) /\ Len(d[i]) = v[i]
        /\ i # 0 => i \in 1 .. N
    BY <1>2, <2>1, NAssumption DEF Rank
  <2>3. f[i + 1] = IF i + 1 = 1 THEN d[0] ELSE f[(i + 1) - 1] \o d[(i + 1) - 1]
    BY <1>1, <2>1 DEF Flattens
  <2>5. CASE i = 0
    <3>1. f[i + 1] = d[i] /\ d[i] \in Seq(S)
      BY <2>2, <2>3, <2>5
    <3>2. << >> \in Seq(S) /\ Len(<< >>) = 0 /\ << >> \o d[i] = d[i]
      BY <3>1, ConcatEmptySeq, EmptySeq
    <3>3. 0 .. i - 1 = {}
      BY <2>5
    <3>4. Parts(S, v, d, i, << >>)
      BY <1>3, <2>5, <3>2, <3>3 DEF Parts
    <3>5. Parts(S, v, d, i + 1, << >> \o d[i])
      BY <2>2, <3>4, PartsExtend
    <3> QED
      BY <3>1, <3>2, <3>5, Zenon
  <2>6. CASE i # 0
    <3>1. Holds(i)
      BY <1>5, <2>2, <2>6
    <3>2. i + 1 # 1
      BY <2>6
    <3>3. f[i + 1] = f[i] \o d[i]
      BY <2>2, <2>3, <3>2, Zenon
    <3>4. Parts(S, v, d, i + 1, f[i] \o d[i])
      BY <2>2, <3>1, PartsExtend
    <3> QED
      BY <3>3, <3>4, Zenon
  <2> QED
    BY <2>5, <2>6
<1> HIDE DEF T
<1>6. Nat \subseteq T
  BY <1>4, <1>5, NatSetInduction
<1>7. N \in T /\ N \in 1 .. N /\ Rank = 0 .. N - 1
  BY <1>6, NAssumption DEF Rank
<1>8. Parts(S, v, d, N, f[N])
  BY <1>7 DEF T
<1> QED
  BY <1>1, <1>2, <1>3, <1>7, <1>8 DEF Parts

(* Every place of the vector is at one rank.                               *)
LEMMA PlaceExists ==
  ASSUME NEW v \in Layout, NEW p \in 1 .. Total(v)
  PROVE  \E r \in Rank : \E j \in 1 .. v[r] : p = Before(v, r) + j
<1>1. /\ Before(v, 0) = 0 /\ Before(v, N) = Total(v) /\ N \in Nat
      /\ \A k \in 0 .. N : Before(v, k) \in Nat
      /\ \A k \in Rank : Before(v, k + 1) = Before(v, k) + v[k] /\ v[k] \in Nat
  BY BeforeFacts, BeforeGrows, NAssumption DEF Layout
<1> DEFINE A == {k \in 0 .. N : Before(v, k) >= p}
<1>2. N \in A /\ A \subseteq Nat
  BY <1>1
<1>3. PICK k \in A : \A i \in A : k <= i
  BY <1>2, LeastNat
<1>4. k # 0
  BY <1>1, <1>3
<1>5. k - 1 \in Rank /\ (k - 1) + 1 = k /\ k - 1 \notin A /\ k - 1 \in 0 .. N
  BY <1>1, <1>3, <1>4 DEF Rank
<1>6. /\ Before(v, k) = Before(v, k - 1) + v[k - 1]
      /\ Before(v, k - 1) < p /\ Before(v, k) >= p
      /\ Before(v, k - 1) \in Nat /\ v[k - 1] \in Nat
  BY <1>1, <1>3, <1>5
<1>7. p - Before(v, k - 1) \in 1 .. v[k - 1] /\ p = Before(v, k - 1) + (p - Before(v, k - 1))
  BY <1>6
<1> QED
  BY <1>5, <1>7

LEMMA PlaceUnique ==
  ASSUME NEW v \in Layout, NEW r \in Rank, NEW q \in Rank,
         NEW j \in 1 .. v[r], NEW k \in 1 .. v[q],
         Before(v, r) + j = Before(v, q) + k
  PROVE  r = q /\ j = k
<1>1. /\ \A i \in 0 .. N : Before(v, i) \in Nat
      /\ \A i \in Rank : Before(v, i + 1) = Before(v, i) + v[i] /\ v[i] \in Nat
  BY BeforeFacts, BeforeGrows DEF Layout
<1>2. /\ r \in 0 .. N /\ q \in 0 .. N /\ r + 1 \in 0 .. N /\ q + 1 \in 0 .. N
      /\ r \in Nat /\ q \in Nat
  BY NAssumption DEF Rank
<1>3. ~ r < q
  <2>1. r < q => Before(v, r + 1) <= Before(v, q)
    BY <1>2, BeforeOrder
  <2> QED
    BY <1>1, <1>2, <2>1
<1>4. ~ q < r
  <2>1. q < r => Before(v, q + 1) <= Before(v, r)
    BY <1>2, BeforeOrder
  <2> QED
    BY <1>1, <1>2, <2>1
<1> QED
  BY <1>1, <1>2, <1>3, <1>4

(* Such a sequence is the vector.                                          *)
(* Every element of every rank of d is where it belongs in x.              *)
LiesAs(x, d) ==
  \A r \in Rank : \A j \in 1 .. Len(d[r]) : x[Before(LayoutOf(d), r) + j] = d[r][j]

LEMMA IsGlobal ==
  ASSUME NEW S, NEW d \in [Rank -> Seq(S)], NEW R, NEW x \in Seq(R),
         Len(x) = Total(LayoutOf(d)), LiesAs(x, d)
  PROVE  x = Global(d)
<1>1. \A r \in Rank : \A j \in 1 .. Len(d[r]) : x[Before(LayoutOf(d), r) + j] = d[r][j]
  BY DEF LiesAs
<1>2. /\ Global(d) \in Seq(S) /\ Len(Global(d)) = Len(x)
      /\ \A r \in Rank : \A j \in 1 .. Len(d[r]) :
           Global(d)[Before(LayoutOf(d), r) + j] = d[r][j]
  BY GlobalFacts
<1>3. ASSUME NEW p \in 1 .. Len(x) PROVE x[p] = Global(d)[p]
  <2>1. PICK r \in Rank : \E j \in 1 .. Len(d[r]) : p = Before(LayoutOf(d), r) + j
    <3>1. /\ LayoutOf(d) \in Layout /\ p \in 1 .. Total(LayoutOf(d))
          /\ \A r \in Rank : LayoutOf(d)[r] = Len(d[r])
      BY LayoutType
    <3>2. \E r \in Rank : \E j \in 1 .. LayoutOf(d)[r] : p = Before(LayoutOf(d), r) + j
      BY <3>1, PlaceExists
    <3> QED
      BY <3>1, <3>2
  <2>2. PICK j \in 1 .. Len(d[r]) : p = Before(LayoutOf(d), r) + j
    BY <2>1
  <2> QED
    BY <1>1, <1>2, <2>2
<1>4. x = [p \in 1 .. Len(x) |-> x[p]] /\ Global(d) = [p \in 1 .. Len(x) |-> Global(d)[p]]
  BY <1>2
<1> QED
  BY <1>3, <1>4

---------------------------------------------------------------------------
(* Sorting.  lower_bound(s, x) says how many elements of s are below x; in *)
(* an ascending sequence that is where the x are.                          *)

Ascends(t) == \A i, j \in DOMAIN t : i < j => t[i] <= t[j]

LEMMA IntervalSize ==
  ASSUME NEW a \in Int, NEW b \in Int, a <= b + 1
  PROVE  IsFiniteSet(a .. b) /\ Cardinality(a .. b) = b - a + 1
<1>1. IsFiniteSet(a .. b)
  BY FS_Interval
<1>2. Cardinality(a .. b) = IF a > b THEN 0 ELSE b - a + 1
  BY FS_Interval
<1>3. a > b => b - a + 1 = 0
  OBVIOUS
<1> QED
  BY <1>1, <1>2, <1>3

LEMMA CountFacts ==
  ASSUME NEW s \in Seq(Nat), NEW x \in Nat
  PROVE  /\ lower_bound(s, x) \in Nat /\ Times(s, x) \in Nat
         /\ Len(s) \in Nat /\ lower_bound(s, x) <= Len(s)
         /\ lower_bound(s, x + 1) = lower_bound(s, x) + Times(s, x)
         /\ lower_bound(s, 0) = 0
<1> DEFINE A == {k \in DOMAIN s : s[k] < x}
           B == {k \in DOMAIN s : s[k] = x}
           C == {k \in DOMAIN s : s[k] < x + 1}
<1>1. DOMAIN s = 1 .. Len(s) /\ Len(s) \in Nat /\ \A k \in DOMAIN s : s[k] \in Nat
  OBVIOUS
<1>2. IsFiniteSet(1 .. Len(s)) /\ Cardinality(1 .. Len(s)) = Len(s)
  <2>1. PICK n \in Nat : n = Len(s)
    BY <1>1
  <2>2. IsFiniteSet(1 .. n) /\ Cardinality(1 .. n) = n - 1 + 1
    BY IntervalSize
  <2> QED
    BY <2>1, <2>2
<1>3. /\ IsFiniteSet(A) /\ Cardinality(A) <= Len(s) /\ IsFiniteSet(B)
  <2>1. A \in SUBSET (1 .. Len(s)) /\ B \in SUBSET (1 .. Len(s))
    BY <1>1
  <2> HIDE DEF A, B
  <2> QED
    BY <1>2, <2>1, FS_Subset
<1>4. C = A \cup B /\ A \cap B = {}
  BY <1>1
<1>5. {k \in DOMAIN s : s[k] < 0} = {}
  BY <1>1
<1>6. /\ lower_bound(s, x) = Cardinality(A) /\ Times(s, x) = Cardinality(B)
      /\ lower_bound(s, x + 1) = Cardinality(C)
      /\ lower_bound(s, 0) = Cardinality({})
  BY <1>5, Zenon DEF lower_bound, Times
<1> HIDE DEF A, B, C
<1>7. Cardinality(A) \in Nat /\ Cardinality(B) \in Nat /\ Cardinality({}) = 0
  BY <1>3, FS_CardinalityType, FS_EmptySet
<1>8. Cardinality(C) = Cardinality(A) + Cardinality(B) - Cardinality({})
  BY <1>3, <1>4, FS_Union
<1> QED
  BY <1>1, <1>3, <1>6, <1>7, <1>8

LEMMA BoundGrows ==
  ASSUME NEW s \in Seq(Nat), NEW x \in Nat, NEW y \in Nat, x <= y
  PROVE  lower_bound(s, x) <= lower_bound(s, y)
<1> DEFINE A == {k \in DOMAIN s : s[k] < x}
           B == {k \in DOMAIN s : s[k] < y}
<1>1. DOMAIN s = 1 .. Len(s) /\ Len(s) \in Nat /\ \A k \in DOMAIN s : s[k] \in Nat
  OBVIOUS
<1>2. IsFiniteSet(1 .. Len(s))
  BY <1>1, FS_Interval
<1>3. B \in SUBSET (1 .. Len(s)) /\ A \in SUBSET B
  BY <1>1
<1>4. lower_bound(s, x) = Cardinality(A) /\ lower_bound(s, y) = Cardinality(B)
  BY DEF lower_bound
<1> HIDE DEF A, B
<1>5. IsFiniteSet(B)
  BY <1>2, <1>3, FS_Subset
<1> QED
  BY <1>3, <1>4, <1>5, FS_Subset

(* Far enough up everything is below.                                      *)
LEMMA BoundReaches ==
  ASSUME NEW s \in Seq(Nat)
  PROVE  \E m \in Nat : lower_bound(s, m) = Len(s)
<1>1. DOMAIN s = 1 .. Len(s) /\ Len(s) \in Nat /\ \A k \in 1 .. Len(s) : s[k] \in Nat
  OBVIOUS
<1> DEFINE T == {n \in Nat : n <= Len(s) => \E m \in Nat : \A k \in 1 .. n : s[k] < m}
<1>2. 0 \in T
  <2>1. 0 \in Nat /\ \A k \in 1 .. 0 : s[k] < 0
    OBVIOUS
  <2> QED
    BY <2>1
<1>3. ASSUME NEW n \in Nat, n \in T PROVE n + 1 \in T
  <2>1. SUFFICES ASSUME n + 1 <= Len(s)
                 PROVE  \E m \in Nat : \A k \in 1 .. n + 1 : s[k] < m
    OBVIOUS
  <2>2. PICK m \in Nat : \A k \in 1 .. n : s[k] < m
    BY <1>1, <1>3, <2>1
  <2>3. PICK z \in Nat : z = s[n + 1]
    BY <1>1, <2>1
  <2>4. \A k \in 1 .. n + 1 : s[k] < m + z + 1
    <3>1. TAKE k \in 1 .. n + 1
    <3>2. s[k] \in Nat
      BY <1>1, <2>1
    <3>3. CASE k \in 1 .. n
      BY <2>2, <3>2, <3>3
    <3>4. CASE k = n + 1
      BY <2>3, <3>4
    <3> QED
      BY <3>3, <3>4
  <2>5. m + z + 1 \in Nat
    OBVIOUS
  <2> QED
    BY <2>4, <2>5
<1> HIDE DEF T
<1>4. Len(s) \in T
  BY <1>1, <1>2, <1>3, NatSetInduction
<1>5. PICK m \in Nat : \A k \in 1 .. Len(s) : s[k] < m
  BY <1>1, <1>4 DEF T
<1>6. {k \in DOMAIN s : s[k] < m} = 1 .. Len(s)
  BY <1>1, <1>5
<1>7. Cardinality(1 .. Len(s)) = Len(s)
  BY <1>1, FS_Interval
<1>8. lower_bound(s, m) = Len(s)
  BY <1>6, <1>7, Zenon DEF lower_bound
<1> QED
  BY <1>8

(* The x that belongs at place i.                                          *)
LEMMA PlaceOf ==
  ASSUME NEW s \in Seq(Nat), NEW i \in 1 .. Len(s)
  PROVE  \E x \in Nat : lower_bound(s, x) < i /\ i <= lower_bound(s, x + 1)
<1> DEFINE A == {x \in Nat : i <= lower_bound(s, x)}
<1>1. A # {} /\ A \subseteq Nat
  <2>1. PICK m \in Nat : lower_bound(s, m) = Len(s)
    BY BoundReaches
  <2>2. i <= lower_bound(s, m)
    BY <2>1
  <2> QED
    BY <2>2
<1>2. PICK y \in A : \A z \in A : y <= z
  BY <1>1, LeastNat
<1>3. lower_bound(s, 0) = 0 /\ \A x \in Nat : lower_bound(s, x) \in Nat
  BY CountFacts
<1>4. y # 0
  BY <1>2, <1>3
<1>5. y - 1 \in Nat /\ (y - 1) + 1 = y /\ y - 1 \notin A
  BY <1>2, <1>4
<1>6. lower_bound(s, y - 1) < i /\ i <= lower_bound(s, y)
  BY <1>2, <1>3, <1>5
<1> QED
  BY <1>5, <1>6

LEMMA PlaceOfOne ==
  ASSUME NEW s \in Seq(Nat), NEW i \in Int, NEW x \in Nat, NEW y \in Nat,
         lower_bound(s, x) < i, i <= lower_bound(s, x + 1),
         lower_bound(s, y) < i, i <= lower_bound(s, y + 1)
  PROVE  x = y
<1>1. ASSUME NEW a \in Nat, NEW b \in Nat, a < b PROVE lower_bound(s, a + 1) <= lower_bound(s, b)
  BY <1>1, BoundGrows
<1>2. /\ lower_bound(s, x) \in Nat /\ lower_bound(s, x + 1) \in Nat
      /\ lower_bound(s, y) \in Nat /\ lower_bound(s, y + 1) \in Nat
  BY CountFacts
<1>3. ~ x < y
  BY <1>1, <1>2
<1>4. ~ y < x
  BY <1>1, <1>2
<1> QED
  BY <1>3, <1>4

(* In an ascending sequence an x is where lower_bound says.                *)
LEMMA AscendingPlaces ==
  ASSUME NEW t \in Seq(Nat), Ascends(t), NEW i \in 1 .. Len(t)
  PROVE  lower_bound(t, t[i]) < i /\ i <= lower_bound(t, t[i] + 1)
<1>1. DOMAIN t = 1 .. Len(t) /\ Len(t) \in Nat /\ \A k \in 1 .. Len(t) : t[k] \in Nat
  OBVIOUS
<1> DEFINE A == {k \in DOMAIN t : t[k] < t[i]}
           B == {k \in DOMAIN t : t[k] < t[i] + 1}
<1>2. A \subseteq 1 .. i - 1
  BY <1>1 DEF Ascends
<1>3. 1 .. i \subseteq B /\ B \subseteq 1 .. Len(t)
  BY <1>1 DEF Ascends
<1>4. lower_bound(t, t[i]) = Cardinality(A) /\ lower_bound(t, t[i] + 1) = Cardinality(B)
  BY DEF lower_bound
<1> HIDE DEF A, B
<1>5. Cardinality(A) <= i - 1
  <2>1. IsFiniteSet(1 .. i - 1)
    BY FS_Interval
  <2>2. Cardinality(1 .. i - 1) = i - 1
    BY FS_Interval
  <2> QED
    BY <1>2, <2>1, <2>2, FS_Subset
<1>6. i <= Cardinality(B)
  <2>1. IsFiniteSet(1 .. Len(t))
    BY <1>1, FS_Interval
  <2>2. Cardinality(1 .. i) = i
    BY FS_Interval
  <2>3. IsFiniteSet(B)
    BY <1>3, <2>1, FS_Subset
  <2> QED
    BY <1>3, <2>2, <2>3, FS_Subset
<1>7. Cardinality(A) \in Nat
  <2>1. t[i] \in Nat
    BY <1>1
  <2> QED
    BY <1>1, <1>4, <2>1, CountFacts
<1> QED
  BY <1>4, <1>5, <1>6, <1>7

(* t is s in ascending order.                                              *)
Sorts(s, t) ==
  /\ t \in Seq(Nat) /\ Len(t) = Len(s) /\ Ascends(t)
  /\ \A x \in Nat : Times(t, x) = Times(s, x)

LEMMA SortsBounds ==
  ASSUME NEW s \in Seq(Nat), NEW t \in Seq(Nat), \A x \in Nat : Times(t, x) = Times(s, x)
  PROVE  \A x \in Nat : lower_bound(t, x) = lower_bound(s, x)
<1> DEFINE T == {x \in Nat : lower_bound(t, x) = lower_bound(s, x)}
<1>1. 0 \in T
  BY CountFacts
<1>2. ASSUME NEW x \in Nat, x \in T PROVE x + 1 \in T
  BY <1>2, CountFacts
<1> HIDE DEF T
<1>3. Nat \subseteq T
  BY <1>1, <1>2, NatSetInduction
<1> QED
  BY <1>3 DEF T

(* There is only one.                                                      *)
LEMMA SortsOnce ==
  ASSUME NEW s \in Seq(Nat), NEW t, NEW u, Sorts(s, t), Sorts(s, u)
  PROVE  t = u
<1>1. PICK a \in Seq(Nat) : a = t /\ Len(a) = Len(s) /\ Ascends(a)
                            /\ \A x \in Nat : Times(a, x) = Times(s, x)
  BY DEF Sorts
<1>2. PICK b \in Seq(Nat) : b = u /\ Len(b) = Len(s) /\ Ascends(b)
                            /\ \A x \in Nat : Times(b, x) = Times(s, x)
  BY DEF Sorts
<1>3. \A x \in Nat : lower_bound(a, x) = lower_bound(s, x) /\ lower_bound(b, x) = lower_bound(s, x)
  BY <1>1, <1>2, SortsBounds
<1>4. ASSUME NEW i \in 1 .. Len(s) PROVE a[i] = b[i]
  <2>1. a[i] \in Nat /\ b[i] \in Nat /\ i \in Int
    BY <1>1, <1>2
  <2>2. /\ lower_bound(a, a[i]) < i /\ i <= lower_bound(a, a[i] + 1)
        /\ lower_bound(b, b[i]) < i /\ i <= lower_bound(b, b[i] + 1)
    BY <1>1, <1>2, AscendingPlaces
  <2>3. /\ lower_bound(s, a[i]) < i /\ i <= lower_bound(s, a[i] + 1)
        /\ lower_bound(s, b[i]) < i /\ i <= lower_bound(s, b[i] + 1)
    BY <1>3, <2>1, <2>2
  <2> QED
    BY <2>1, <2>3, PlaceOfOne
<1>5. a = [i \in 1 .. Len(s) |-> a[i]] /\ b = [i \in 1 .. Len(s) |-> b[i]]
  BY <1>1, <1>2
<1> QED
  BY <1>1, <1>2, <1>4, <1>5

LEMMA SortsExists ==
  ASSUME NEW s \in Seq(Nat)
  PROVE  \E t : Sorts(s, t)
<1> DEFINE Here(i, x) == lower_bound(s, x) < i /\ i <= lower_bound(s, x + 1)
           t == [i \in 1 .. Len(s) |-> CHOOSE x \in Nat : Here(i, x)]
<1>1. Len(s) \in Nat
  OBVIOUS
<1>2. ASSUME NEW i \in 1 .. Len(s) PROVE t[i] \in Nat /\ Here(i, t[i])
  <2>1. \E x \in Nat : Here(i, x)
    BY PlaceOf
  <2>2. t[i] = CHOOSE x \in Nat : Here(i, x)
    OBVIOUS
  <2> HIDE DEF Here, t
  <2> QED
    BY <2>1, <2>2
<1>3. t \in [1 .. Len(s) -> Nat] /\ DOMAIN t = 1 .. Len(s)
  <2>1. t = [i \in 1 .. Len(s) |-> t[i]]
    OBVIOUS
  <2> HIDE DEF t
  <2> QED
    BY <1>2, <2>1
<1> HIDE DEF t
<1>4. t \in Seq(Nat) /\ Len(t) = Len(s)
  BY <1>1, <1>3
<1>5. \A x \in Nat :
        /\ lower_bound(s, x) \in Nat /\ Times(s, x) \in Nat
        /\ Len(s) \in Nat /\ lower_bound(s, x) <= Len(s)
        /\ lower_bound(s, x + 1) = lower_bound(s, x) + Times(s, x)
  BY CountFacts
<1>6. ASSUME NEW i \in 1 .. Len(s), NEW j \in 1 .. Len(s), i < j
      PROVE  t[i] <= t[j]
  <2>1. PICK x \in Nat : x = t[i] /\ Here(i, x)
    BY <1>2
  <2>2. PICK y \in Nat : y = t[j] /\ Here(j, y)
    BY <1>2
  <2>3. ~ y < x
    <3>1. y < x => lower_bound(s, y + 1) <= lower_bound(s, x)
      BY BoundGrows
    <3>2. lower_bound(s, y + 1) \in Nat /\ lower_bound(s, x) \in Nat
      <4>1. y + 1 \in Nat
        OBVIOUS
      <4> QED
        BY <4>1, CountFacts
    <3>3. lower_bound(s, x) < i /\ j <= lower_bound(s, y + 1)
      BY <2>1, <2>2
    <3> QED
      BY <1>6, <3>1, <3>2, <3>3
  <2> QED
    BY <2>1, <2>2, <2>3
<1>7. ASSUME NEW x \in Nat PROVE Times(t, x) = Times(s, x)
  <2>1. PICK a \in Nat : a = lower_bound(s, x) /\ a <= Len(s)
    BY <1>5
  <2>0. x + 1 \in Nat
    OBVIOUS
  <2>2. PICK b \in Nat : b = lower_bound(s, x + 1) /\ b <= Len(s)
    BY <1>5, <2>0
  <2>6. b = a + Times(s, x) /\ Times(s, x) \in Nat
    BY <1>5, <2>1, <2>2
  <2>3. ASSUME NEW i \in 1 .. Len(s) PROVE t[i] = x <=> i \in a + 1 .. b
    <3>1. t[i] = x => i \in a + 1 .. b
      BY <1>2, <2>1, <2>2, <2>3
    <3>2. i \in a + 1 .. b => Here(i, x)
      BY <2>1, <2>2
    <3>3. Here(i, x) => t[i] = x
      BY <1>2, PlaceOfOne
    <3> QED
      BY <3>1, <3>2, <3>3
  <2>4. {i \in DOMAIN t : t[i] = x} = a + 1 .. b
    BY <1>3, <2>1, <2>2, <2>3
  <2>5. Cardinality(a + 1 .. b) = b - a
    <3>1. a <= b
      BY <2>6
    <3>2. a + 1 <= b + 1 /\ b - (a + 1) + 1 = b - a
      BY <3>1
    <3> QED
      BY <3>2, IntervalSize
  <2>7. Times(t, x) = b - a
    BY <2>4, <2>5, Zenon DEF Times
  <2> QED
    BY <2>6, <2>7
<1> QED
  BY <1>3, <1>4, <1>6, <1>7 DEF Sorts, Ascends

THEOREM SortedSorts ==
  ASSUME NEW s \in Seq(Nat)
  PROVE  Sorts(s, Sorted(s)) /\ \A k \in 1 .. Len(s) : Sorted(s)[k] \in Range(s)
<1> DEFINE P(t) == /\ \A i, j \in DOMAIN s : i < j => t[i] <= t[j]
                   /\ \A x \in Range(s) : Times(t, x) = Times(s, x)
<1>1. DOMAIN s = 1 .. Len(s) /\ Len(s) \in Nat /\ \A k \in 1 .. Len(s) : s[k] \in Nat
  OBVIOUS
<1>2. PICK t : Sorts(s, t)
  BY SortsExists
<1>3. t \in Seq(Nat) /\ DOMAIN t = 1 .. Len(s)
  BY <1>2 DEF Sorts
<1>4. ASSUME NEW i \in DOMAIN s PROVE t[i] \in Range(s)
  <2>1. PICK x \in Nat : x = t[i]
    BY <1>1, <1>3
  <2>2. i \in {k \in DOMAIN t : t[k] = x}
    BY <1>1, <1>3, <2>1
  <2>3. Times(t, x) # 0
    <3>1. {k \in DOMAIN t : t[k] = x} \in SUBSET (1 .. Len(s))
      BY <1>3
    <3>2. IsFiniteSet({k \in DOMAIN t : t[k] = x})
      <4>1. IsFiniteSet(1 .. Len(s))
        BY <1>1, FS_Interval
      <4> QED
        BY <3>1, <4>1, FS_Subset
    <3> QED
      BY <2>2, <3>2, FS_EmptySet DEF Times
  <2>4. Times(s, x) # 0
    BY <1>2, <2>3 DEF Sorts
  <2>5. {k \in DOMAIN s : s[k] = x} # {}
    BY <2>4, FS_EmptySet DEF Times
  <2> QED
    BY <2>1, <2>5 DEF Range
<1>5. t \in [DOMAIN s -> Range(s)]
  BY <1>1, <1>3, <1>4
<1>6. P(t)
  <2>1. Range(s) \subseteq Nat
    BY <1>1 DEF Range
  <2> QED
    BY <1>1, <1>2, <1>3, <2>1 DEF Sorts, Ascends
<1>7. Sorted(s) = CHOOSE u \in [DOMAIN s -> Range(s)] : P(u)
  BY Zenon DEF Sorted
<1> HIDE DEF P
<1>8. Sorted(s) \in [DOMAIN s -> Range(s)] /\ P(Sorted(s))
  BY <1>5, <1>6, <1>7
<1>9. PICK u \in [DOMAIN s -> Range(s)] : u = Sorted(s) /\ P(u)
  BY <1>8
<1>10. u \in Seq(Nat) /\ Len(u) = Len(s) /\ DOMAIN u = 1 .. Len(s)
  BY <1>1 DEF Range
<1>11. Ascends(u)
  BY <1>1, <1>9, <1>10 DEF P, Ascends
<1>12. ASSUME NEW x \in Nat PROVE Times(u, x) = Times(s, x)
  <2>1. CASE x \in Range(s)
    BY <1>9, <2>1 DEF P
  <2>2. CASE x \notin Range(s)
    <3>1. {k \in DOMAIN s : s[k] = x} = {}
      BY <2>2 DEF Range
    <3>2. {k \in DOMAIN u : u[k] = x} = {}
      BY <2>2
    <3> QED
      BY <3>1, <3>2, Zenon DEF Times
  <2> QED
    BY <2>1, <2>2
<1> QED
  BY <1>1, <1>9, <1>10, <1>11, <1>12 DEF Sorts

---------------------------------------------------------------------------
(* What the partitioners make of a rank's elements.                        *)

LEMMA Enumerates ==
  ASSUME NEW S, IsFiniteSet(S)
  PROVE  SetToSeq(S) \in [1 .. Cardinality(S) -> S] /\ Cardinality(S) \in Nat
<1>1. Cardinality(S) \in Nat /\ ExistsBijection(1 .. Cardinality(S), S)
  BY FS_CardinalityType
<1>2. PICK f : f \in Bijection(1 .. Cardinality(S), S)
  BY <1>1 DEF ExistsBijection
<1>3. f \in [1 .. Cardinality(S) -> S] /\ IsInjective(f)
  BY <1>2 DEF Bijection, Injection, Surjection, IsInjective
<1> QED
  BY <1>1, <1>3 DEF SetToSeq

LEMMA OfferedType ==
  ASSUME NEW v \in Seq(Nat), NEW picked, picked \subseteq Every(v)
  PROVE  Offered(v, picked) \in Seq(Nat)
<1>1. picked \in SUBSET (1 .. Len(v)) /\ Len(v) \in Nat
  BY DEF Every
<1>2. IsFiniteSet(picked)
  <2>1. IsFiniteSet(1 .. Len(v))
    BY <1>1, FS_Interval
  <2> QED
    BY <1>1, <2>1, FS_Subset
<1>3. PICK n \in Nat : SetToSeq(picked) \in [1 .. n -> picked]
  BY <1>2, Enumerates
<1>4. PICK s \in Seq(Nat) : s = SetToSeq(picked) /\ Len(s) = n /\ Range(s) \subseteq picked
  <2>0. \A x \in picked : x \in Nat
    BY <1>1
  <2>1. SetToSeq(picked) \in [1 .. n -> Nat]
    BY <1>3, <2>0
  <2>2. SetToSeq(picked) \in Seq(Nat) /\ Len(SetToSeq(picked)) = n
    BY <2>1
  <2>3. Range(SetToSeq(picked)) \subseteq picked
    BY <1>3 DEF Range
  <2> QED
    BY <2>2, <2>3
<1>5. PICK t : t = Sorted(s)
  OBVIOUS
<1>6. t \in Seq(Nat) /\ Len(t) = n /\ \A k \in 1 .. n : t[k] \in Range(s)
  BY <1>4, <1>5, SortedSorts DEF Sorts
<1>7. DOMAIN t = 1 .. n /\ \A k \in 1 .. n : v[t[k]] \in Nat
  BY <1>1, <1>4, <1>6
<1>8. Offered(v, picked) = [k \in 1 .. n |-> v[t[k]]]
  BY <1>4, <1>5, <1>7 DEF Offered
<1> QED
  BY <1>7, <1>8

LEMMA Commutes ==
  ASSUME NEW a \in Nat, NEW b \in Nat
  PROVE  a * b = b * a
OBVIOUS

LEMMA Scaling ==
  ASSUME NEW a \in Nat, NEW b \in Nat, NEW c \in Nat, a <= b
  PROVE  a * c \in Nat /\ b * c \in Nat /\ a * c <= b * c
<1>1. PICK d \in Nat : b = a + d
  <2>1. b - a \in Nat /\ b = a + (b - a)
    OBVIOUS
  <2> QED
    BY <2>1
<1>2. a * c \in Nat /\ b * c \in Nat /\ d * c \in Nat
  OBVIOUS
<1>3. (a + d) * c = a * c + d * c
  OBVIOUS
<1> QED
  BY <1>1, <1>2, <1>3

(* Enough partitioners for the ranks, and not more, in ascending order.    *)
IsPart(part) == part \in Seq(Nat) /\ Len(part) <= N - 1 /\ Ascends(part)

LEMMA Partitioners ==
  ASSUME NEW cand \in Seq(Nat), Ascends(cand)
  PROVE  IsPart(partitioners(cand))
<1>1. N \in Nat /\ N >= 1
  BY NAssumption
<1>2. CASE cand = << >>
  <2>1. partitioners(cand) = [k \in 1 .. 0 |-> cand[k * ceil_div(Len(cand), N) + 1]]
    BY <1>2 DEF partitioners
  <2>2. partitioners(cand) = << >>
    BY <2>1
  <2> QED
    BY <1>1, <2>2 DEF IsPart, Ascends
<1>3. CASE cand # << >>
  <2>1. PICK L \in Nat : L = Len(cand) /\ L >= 1
    BY <1>3
  <2>2. PICK each \in Nat : each = ceil_div(Len(cand), N) /\ N * each >= L /\ each >= 1
    <3>1. (L + N - 1) \div N \in Nat /\ N * ((L + N - 1) \div N) > (L + N - 1) - N
      BY <1>1
    <3>2. PICK e \in Nat : e = (L + N - 1) \div N
      BY <3>1
    <3>3. N * e \in Nat /\ N * e >= L
      BY <1>1, <3>1, <3>2
    <3>4. e # 0
      <4>1. e = 0 => N * e = 0
        BY <1>1
      <4> QED
        BY <2>1, <3>3, <4>1
    <3> QED
      BY <2>1, <3>2, <3>3, <3>4 DEF ceil_div
  <2>3. PICK q \in Nat : q = (L - 1) \div each /\ q * each <= L - 1
    <3>1. (L - 1) \div each \in Nat /\ each * ((L - 1) \div each) <= L - 1
      <4>1. PICK m \in Nat : m = L - 1
        BY <2>1
      <4>2. each \in Nat /\ each > 0
        BY <2>2
      <4>3. m \div each \in Nat /\ each * (m \div each) <= m
        BY <4>2
      <4> QED
        BY <4>1, <4>3
    <3> QED
      BY <2>2, <3>1
  <2>4. q <= N - 1
    <3>1. q >= N => q * each >= N * each
      BY <1>1, Scaling
    <3>2. q * each \in Nat /\ N * each \in Nat
      BY <1>1, Scaling
    <3>3. N * each >= L
      BY <2>2
    <3> QED
      BY <1>1, <2>1, <2>3, <3>1, <3>2, <3>3, SMTT(20)
  <2>5. partitioners(cand) = [k \in 1 .. q |-> cand[k * each + 1]]
    BY <1>3, <2>1, <2>2, <2>3 DEF partitioners
  <2>6. ASSUME NEW k \in 1 .. q PROVE k * each + 1 \in 1 .. L /\ k * each \in Nat
    <3>1. k * each <= q * each /\ k * each \in Nat
      BY Scaling
    <3> QED
      BY <2>1, <2>3, <3>1
  <2>7. ASSUME NEW i \in 1 .. q, NEW j \in 1 .. q, i < j
        PROVE  cand[i * each + 1] <= cand[j * each + 1]
    <3>1. i * each + each <= j * each
      <4>1. (i + 1) * each <= j * each
        BY <2>7, Scaling
      <4>2. (i + 1) * each = i * each + each
        BY <2>2
      <4> QED
        BY <4>1, <4>2
    <3>2. i * each + 1 < j * each + 1
      BY <2>2, <2>6, <3>1
    <3>3. DOMAIN cand = 1 .. L
      BY <2>1
    <3> QED
      BY <2>6, <3>2, <3>3 DEF Ascends
  <2>8. \A k \in 1 .. q : cand[k * each + 1] \in Nat
    BY <2>1, <2>6
  <2>9. PICK p : p = partitioners(cand)
    OBVIOUS
  <2>10. p \in Seq(Nat) /\ Len(p) = q /\ DOMAIN p = 1 .. q
         /\ \A k \in 1 .. q : p[k] = cand[k * each + 1]
    BY <2>5, <2>8, <2>9
  <2>11. Ascends(p)
    BY <2>7, <2>10 DEF Ascends
  <2> QED
    BY <2>4, <2>9, <2>10, <2>11 DEF IsPart
<1> QED
  BY <1>2, <1>3

(* Where the elements for rank k begin, among the sorted v.                *)
CutAt(v, part, k) ==
  IF k = 0 THEN 0 ELSE IF k <= Len(part) THEN lower_bound(v, part[k]) ELSE Len(v)

LEMMA Cuts ==
  ASSUME NEW v \in Seq(Nat), NEW part, IsPart(part)
  PROVE  /\ CutAt(v, part, 0) = 0 /\ CutAt(v, part, N) = Len(v)
         /\ \A k \in 0 .. N : CutAt(v, part, k) \in Nat /\ CutAt(v, part, k) <= Len(v)
         /\ \A k \in Rank : /\ CutAt(v, part, k) <= CutAt(v, part, k + 1)
                            /\ part_size(v, part, k) = CutAt(v, part, k + 1) - CutAt(v, part, k)
<1>1. N \in Nat /\ N >= 1 /\ part \in Seq(Nat) /\ Len(part) <= N - 1 /\ Ascends(part)
  BY NAssumption DEF IsPart
<1>2. Len(part) \in Nat /\ DOMAIN part = 1 .. Len(part) /\ \A k \in 1 .. Len(part) : part[k] \in Nat
  BY <1>1
<1>3. \A x \in Nat : lower_bound(v, x) \in Nat /\ Len(v) \in Nat /\ lower_bound(v, x) <= Len(v)
  BY CountFacts
<1>4. \A k \in 0 .. N : CutAt(v, part, k) \in Nat /\ CutAt(v, part, k) <= Len(v)
  <2>1. TAKE k \in 0 .. N
  <2>2. Len(v) \in Nat
    OBVIOUS
  <2>3. CASE k # 0 /\ k <= Len(part)
    <3>1. PICK x \in Nat : x = part[k]
      BY <1>1, <1>2, <2>3
    <3> QED
      BY <1>3, <2>3, <3>1 DEF CutAt
  <2> QED
    BY <2>2, <2>3 DEF CutAt
<1>5. CutAt(v, part, 0) = 0 /\ CutAt(v, part, N) = Len(v)
  BY <1>1, <1>2 DEF CutAt
<1>6. ASSUME NEW k \in Rank PROVE CutAt(v, part, k) <= CutAt(v, part, k + 1)
  <2>1. k \in Nat /\ k + 1 \in 0 .. N /\ k \in 0 .. N /\ k + 1 # 0
    BY <1>1 DEF Rank
  <2>2. CASE k = 0
    BY <1>4, <1>5, <2>1, <2>2
  <2>3. CASE k # 0 /\ k + 1 <= Len(part)
    <3>1. PICK x \in Nat : x = part[k]
      BY <1>2, <2>1, <2>3
    <3>2. PICK y \in Nat : y = part[k + 1]
      BY <1>2, <2>1, <2>3
    <3>3. x <= y
      <4>1. k \in DOMAIN part /\ k + 1 \in DOMAIN part /\ k < k + 1
        BY <1>2, <2>1, <2>3
      <4>2. part[k] <= part[k + 1]
        BY <1>1, <4>1 DEF Ascends
      <4> QED
        BY <3>1, <3>2, <4>2
    <3>4. lower_bound(v, x) <= lower_bound(v, y)
      BY <3>3, BoundGrows
    <3>5. CutAt(v, part, k) = lower_bound(v, x) /\ CutAt(v, part, k + 1) = lower_bound(v, y)
      BY <1>2, <2>1, <2>3, <3>1, <3>2 DEF CutAt
    <3> QED
      BY <3>4, <3>5
  <2>4. CASE k # 0 /\ ~ k + 1 <= Len(part)
    <3>1. CutAt(v, part, k + 1) = Len(v)
      BY <2>1, <2>4 DEF CutAt
    <3> QED
      BY <1>4, <2>1, <3>1
  <2> QED
    BY <2>2, <2>3, <2>4
<1>7. \A k \in Rank : part_size(v, part, k) = CutAt(v, part, k + 1) - CutAt(v, part, k)
  BY DEF part_size, CutAt
<1> QED
  BY <1>4, <1>5, <1>6, <1>7

(* Sizes that are differences add up.                                      *)
LEMMA Telescope ==
  ASSUME NEW w \in Layout, NEW c, c[0] = 0, \A k \in Rank : c[k] + w[k] = c[k + 1]
  PROVE  \A k \in 0 .. N : Before(w, k) = c[k]
<1>1. /\ Before(w, 0) = 0 /\ N \in Nat
      /\ \A k \in 0 .. N : Before(w, k) \in Nat
      /\ \A k \in Rank : Before(w, k + 1) = Before(w, k) + w[k]
  BY BeforeFacts, BeforeGrows, NAssumption
<1> DEFINE T == {k \in Nat : k <= N => Before(w, k) = c[k]}
<1>2. 0 \in T
  BY <1>1
<1>3. ASSUME NEW k \in Nat, k \in T PROVE k + 1 \in T
  <2>1. SUFFICES ASSUME k + 1 <= N PROVE Before(w, k + 1) = c[k + 1]
    OBVIOUS
  <2>2. k \in Rank /\ k <= N
    BY <1>1, <2>1 DEF Rank
  <2>3. Before(w, k) = c[k]
    BY <1>3, <2>2
  <2> QED
    BY <1>1, <2>2, <2>3
<1> HIDE DEF T
<1>4. Nat \subseteq T
  BY <1>2, <1>3, NatSetInduction
<1> QED
  BY <1>4 DEF T
---------------------------------------------------------------------------
(* Elements and the bytes they go as.                                      *)

LEMMA DivMod ==
  ASSUME NEW e \in Nat \ {0}, NEW n \in Nat, NEW k \in Nat, NEW j \in 0 .. e - 1, k < n
  PROVE  /\ k * e + j \in Nat /\ k * e + j + 1 <= n * e
         /\ (k * e + j) \div e = k /\ (k * e + j) % e = j
<1>1. k * e \in Nat /\ n * e \in Nat /\ (k + 1) * e = k * e + e
  OBVIOUS
<1>2. (k + 1) * e <= n * e
  <2>1. PICK a \in Nat : a = n - (k + 1)
    OBVIOUS
  <2>2. n * e = (k + 1) * e + a * e /\ a * e \in Nat
    BY <2>1
  <2> QED
    BY <2>2, <1>1
<1>3. PICK x \in Nat : x = k * e + j
  BY <1>1
<1>4. PICK q \in Int : q = x \div e
  OBVIOUS
<1>5. PICK m \in 0 .. e - 1 : m = x % e /\ x = e * q + m
  BY <1>4
<1>6. q = k
  <2>1. ~ q < k
    <3>1. SUFFICES ASSUME q < k PROVE FALSE
      OBVIOUS
    <3>2. PICK a \in Nat : k = q + 1 + a
      <4>1. k - q - 1 \in Nat /\ k = q + 1 + (k - q - 1)
        BY <3>1
      <4> QED
        BY <4>1
    <3>3. k * e = e * q + e + a * e /\ a * e \in Nat
      BY <3>2
    <3>4. e * q \in Int
      OBVIOUS
    <3> QED
      BY <1>3, <1>5, <1>1, <3>3, <3>4
  <2>2. ~ q > k
    <3>1. SUFFICES ASSUME q > k PROVE FALSE
      OBVIOUS
    <3>2. PICK a \in Nat : q = k + 1 + a
      <4>1. q - k - 1 \in Nat /\ q = k + 1 + (q - k - 1)
        BY <3>1
      <4> QED
        BY <4>1
    <3>3. e * q = k * e + e + a * e /\ a * e \in Nat
      BY <3>2
    <3> QED
      BY <1>3, <1>5, <1>1, <3>3
  <2> QED
    BY <2>1, <2>2
<1>7. m = j
  <2>1. e * q = k * e
    BY <1>6
  <2> QED
    BY <1>1, <1>3, <1>5, <2>1
<1> QED
  BY <1>1, <1>2, <1>3, <1>4, <1>5, <1>6, <1>7

LEMMA InBytes ==
  ASSUME NEW e \in Nat \ {0}, NEW n \in Nat, NEW p \in 1 .. n * e
  PROVE  \E k \in Nat : \E j \in 0 .. e - 1 :
           /\ k < n /\ p = k * e + j + 1
           /\ k = (p - 1) \div e /\ j = (p - 1) % e
<1>1. PICK x \in Nat : p = x + 1
  <2>1. n * e \in Nat
    OBVIOUS
  <2> QED
    BY <2>1
<1>2. PICK k \in Int : k = x \div e
  OBVIOUS
<1>3. PICK j \in 0 .. e - 1 : j = x % e /\ x = e * k + j
  BY <1>2
<1>4. k \in Nat
  BY <1>2
<1>5. k < n
  <2>1. SUFFICES ASSUME k >= n PROVE FALSE
    BY <1>4
  <2>2. PICK a \in Nat : k = n + a
    <3>1. k - n \in Nat /\ k = n + (k - n)
      BY <1>4, <2>1
    <3> QED
      BY <3>1
  <2>3. e * k = n * e + a * e /\ a * e \in Nat /\ n * e \in Nat
    BY <2>2
  <2> QED
    BY <1>1, <1>3, <2>3
<1>6. p = k * e + j + 1
  BY <1>1, <1>3, <1>4
<1>7. p - 1 = x
  BY <1>1
<1>8. k = (p - 1) \div e /\ j = (p - 1) % e
  BY <1>2, <1>3, <1>7
<1> QED
  BY <1>4, <1>5, <1>6, <1>8

LEMMA BytesFacts ==
  ASSUME NEW S, NEW s \in Seq(S)
  PROVE  /\ Bytes(s) \in Seq(S \X Nat)
         /\ Len(Bytes(s)) = Len(s) * ElementSize
         /\ \A k \in Nat : \A j \in 0 .. ElementSize - 1 :
              k < Len(s) => Bytes(s)[k * ElementSize + j + 1] = <<s[k + 1], j>>
<1>1. ElementSize \in Nat \ {0} /\ Len(s) \in Nat
  BY SizesAssumption
<1>2. PICK n \in Nat : n = Len(s)
  BY <1>1
<1>3. PICK e \in Nat \ {0} : e = ElementSize
  BY <1>1
<1>4. n * e \in Nat
  OBVIOUS
<1>5. Bytes(s) = [p \in 1 .. n * e |-> <<s[((p - 1) \div e) + 1], (p - 1) % e>>]
  BY <1>2, <1>3 DEF Bytes
<1>6. ASSUME NEW p \in 1 .. n * e
      PROVE  <<s[((p - 1) \div e) + 1], (p - 1) % e>> \in S \X Nat
  <2>1. PICK k \in Nat : \E j \in 0 .. e - 1 : k < n /\ k = (p - 1) \div e /\ j = (p - 1) % e
    BY InBytes
  <2>2. s[k + 1] \in S
    BY <1>2, <2>1
  <2> QED
    BY <2>1, <2>2
<1>7. ASSUME NEW k \in Nat, NEW j \in 0 .. e - 1, k < n
      PROVE  Bytes(s)[k * e + j + 1] = <<s[k + 1], j>>
  <2>1. PICK x \in Nat : x = k * e + j /\ x + 1 <= n * e /\ x \div e = k /\ x % e = j
    BY <1>7, DivMod
  <2>2. x + 1 \in 1 .. n * e /\ (x + 1) - 1 = x
    BY <1>4, <2>1
  <2>3. PICK p \in 1 .. n * e : p = x + 1 /\ p - 1 = x
    BY <2>2
  <2>4. Bytes(s)[p] = <<s[k + 1], j>>
    BY <1>5, <2>1, <2>3
  <2> QED
    BY <2>1, <2>3, <2>4
<1>8. PICK b : b = Bytes(s)
  OBVIOUS
<1>9. b \in Seq(S \X Nat) /\ Len(b) = n * e
  <2>1. PICK m \in Nat : m = n * e
    BY <1>4
  <2>2. b \in [1 .. m -> S \X Nat]
    BY <1>5, <1>6, <1>8, <2>1
  <2> QED
    BY <2>1, <2>2
<1> QED
  BY <1>2, <1>3, <1>7, <1>8, <1>9

LEMMA ElementsOfBytes ==
  ASSUME NEW S, NEW s \in Seq(S)
  PROVE  Elements(Bytes(s)) = s
<1>1. ElementSize \in Nat \ {0} /\ Len(s) \in Nat
  BY SizesAssumption
<1>2. PICK n \in Nat : n = Len(s)
  BY <1>1
<1>3. PICK e \in Nat \ {0} : e = ElementSize
  BY <1>1
<1>4. PICK b \in Seq(S \X Nat) :
        /\ b = Bytes(s) /\ Len(b) = n * e
        /\ \A k \in Nat : \A j \in 0 .. e - 1 : k < n => b[k * e + j + 1] = <<s[k + 1], j>>
  <2>1. PICK b : b = Bytes(s)
    OBVIOUS
  <2>2. /\ b \in Seq(S \X Nat) /\ Len(b) = Len(s) * ElementSize
        /\ \A k \in Nat : \A j \in 0 .. ElementSize - 1 :
             k < Len(s) => b[k * ElementSize + j + 1] = <<s[k + 1], j>>
    BY <2>1, BytesFacts, Zenon
  <2> QED
    BY <1>2, <1>3, <2>1, <2>2
<1>5. (n * e) \div e = n
  <2>1. (n * e + 0) \div e = n
    BY DivMod, 0 \in 0 .. e - 1, n < n + 1, n + 1 \in Nat
  <2> QED
    BY <2>1
<1>6. Elements(b) = [k \in 1 .. n |-> b[(k - 1) * e + 1][1]]
  BY <1>3, <1>4, <1>5 DEF Elements
<1>7. ASSUME NEW k \in 1 .. n PROVE b[(k - 1) * e + 1][1] = s[k]
  <2>1. PICK m \in Nat : m = k - 1 /\ m < n /\ m + 1 = k
    <3>1. k - 1 \in Nat /\ k - 1 < n /\ (k - 1) + 1 = k
      OBVIOUS
    <3> QED
      BY <3>1
  <2>2. b[m * e + 0 + 1] = <<s[m + 1], 0>>
    BY <1>4, <2>1, 0 \in 0 .. e - 1
  <2>3. m * e + 0 + 1 = m * e + 1
    OBVIOUS
  <2> QED
    BY <2>1, <2>2, <2>3
<1>8. s = [k \in 1 .. n |-> s[k]]
  BY <1>2
<1> QED
  BY <1>4, <1>6, <1>7, <1>8

(* t is n places of s, from a + 1 on.                                      *)
IsSlice(S, t, s, a, n) == t \in Seq(S) /\ Len(t) = n /\ \A k \in 1 .. n : t[k] = s[a + k]

LEMMA SliceIs ==
  ASSUME NEW S, NEW s \in Seq(S), NEW a \in Nat, NEW b \in Nat, a <= b, NEW l \in Nat, l = Len(s),
         b <= l, NEW n \in Nat, a + n = b, NEW t, t = SubSeq(s, a + 1, b)
  PROVE  IsSlice(S, t, s, a, n)
<1>1. PICK m \in Nat : m = a + 1
  OBVIOUS
<1>2. \A i \in m .. b : s[i] \in S
  BY <1>1
<1>3. /\ SubSeq(s, m, b) \in Seq(S)
      /\ Len(SubSeq(s, m, b)) = IF m <= b THEN b - m + 1 ELSE 0
      /\ \A i \in 1 .. b - m + 1 : SubSeq(s, m, b)[i] = s[m + i - 1]
  BY <1>2, SubSeqProperties
<1>4. (IF m <= b THEN b - m + 1 ELSE 0) = n /\ b - m + 1 = n
  BY <1>1
<1>5. \A k \in 1 .. n : m + k - 1 = a + k
  BY <1>1
<1>6. t \in Seq(S) /\ Len(t) = n /\ \A k \in 1 .. n : t[k] = s[m + k - 1]
  BY <1>1, <1>3, <1>4, Zenon
<1> QED
  BY <1>5, <1>6 DEF IsSlice



(* b is the n elements of s in bytes.                                      *)
AreBytes(S, b, s, n, e) ==
  /\ b \in Seq(S \X Nat) /\ Len(b) = n * e
  /\ \A k \in Nat : \A j \in 0 .. e - 1 : k < n => b[k * e + j + 1] = <<s[k + 1], j>>

LEMMA BytesAre ==
  ASSUME NEW S, NEW s \in Seq(S), NEW n \in Nat, n = Len(s),
         NEW e \in Nat \ {0}, e = ElementSize, NEW b, b = Bytes(s)
  PROVE  AreBytes(S, b, s, n, e)
BY BytesFacts, Zenon DEF AreBytes

LEMMA EqualSeqs ==
  ASSUME NEW S, NEW T, NEW x \in Seq(S), NEW y \in Seq(T), Len(x) = Len(y),
         \A k \in 1 .. Len(x) : x[k] = y[k]
  PROVE  x = y
<1>1. x = [k \in 1 .. Len(x) |-> x[k]] /\ y = [k \in 1 .. Len(y) |-> y[k]]
  OBVIOUS
<1> QED
  BY <1>1

LEMMA BytesOfSlice ==
  ASSUME NEW S, NEW s \in Seq(S), NEW a \in Nat, NEW b \in Nat, a <= b, b <= Len(s)
  PROVE  SubSeq(Bytes(s), a * ElementSize + 1, b * ElementSize) = Bytes(SubSeq(s, a + 1, b))
<1>1. PICK e \in Nat \ {0} : e = ElementSize
  BY SizesAssumption
<1>2. PICK n \in Nat : n = b - a
  OBVIOUS
<1>3. PICK l \in Nat : l = Len(s) /\ b <= l /\ a + n = b
  BY <1>2
<1>4. PICK t : t = SubSeq(s, a + 1, b)
  OBVIOUS
<1>5. IsSlice(S, t, s, a, n)
  BY <1>3, <1>4, SliceIs
<1>6. t \in Seq(S) /\ Len(t) = n /\ \A k \in 1 .. n : t[k] = s[a + k]
  BY <1>5 DEF IsSlice
<1>7. PICK x : x = Bytes(s)
  OBVIOUS
<1>8. AreBytes(S, x, s, l, e)
  BY <1>3, <1>1, <1>7, BytesAre
<1>9. /\ x \in Seq(S \X Nat) /\ Len(x) = l * e
       /\ \A k \in Nat : \A j \in 0 .. e - 1 : k < l => x[k * e + j + 1] = <<s[k + 1], j>>
  BY <1>8 DEF AreBytes
<1>10. PICK y : y = Bytes(t)
  OBVIOUS
<1>11. AreBytes(S, y, t, n, e)
  BY <1>1, <1>6, <1>10, BytesAre
<1>12. /\ y \in Seq(S \X Nat) /\ Len(y) = n * e
       /\ \A k \in Nat : \A j \in 0 .. e - 1 : k < n => y[k * e + j + 1] = <<t[k + 1], j>>
  BY <1>11 DEF AreBytes
<1>13. PICK A \in Nat : A = a * e
  OBVIOUS
<1>14. PICK B \in Nat : B = b * e /\ B = A + n * e /\ B <= l * e /\ n * e \in Nat /\ l * e \in Nat
  <2>1. b = a + n /\ b * e = a * e + n * e /\ n * e \in Nat
    BY <1>3
  <2>2. PICK m \in Nat : l = b + m
    <3>1. l - b \in Nat /\ l = b + (l - b)
      BY <1>3
    <3> QED
      BY <3>1
  <2>3. l * e = b * e + m * e /\ m * e \in Nat
    BY <2>2
  <2> QED
    BY <1>13, <2>1, <2>3
<1>15. PICK z : z = SubSeq(x, A + 1, B)
  OBVIOUS
<1>16. z \in Seq(S \X Nat) /\ Len(z) = n * e /\ \A k \in 1 .. n * e : z[k] = x[A + k]
  <2>1. PICK m \in Nat, M \in Nat : m = n * e /\ M = l * e
    BY <1>14
  <2>3. IsSlice(S \X Nat, z, x, A, m)
    <3>0. Len(x) = l * e /\ B = A + n * e
      BY <1>9, <1>14
    <3>1. A <= B /\ M = Len(x) /\ B <= M /\ A + m = B
      BY <1>14, <2>1, <3>0
    <3> QED
      BY <1>9, <1>15, <3>1, SliceIs
  <2>2. z \in Seq(S \X Nat) /\ Len(z) = m /\ \A k \in 1 .. m : z[k] = x[A + k]
    BY <2>3 DEF IsSlice
  <2> QED
    BY <2>1, <2>2
<1>17. ASSUME NEW p \in 1 .. n * e PROVE z[p] = y[p]
  <2>1. PICK k \in Nat, j \in 0 .. e - 1 : k < n /\ p = k * e + j + 1
    BY InBytes, ZenonT(30)
  <2>2. y[p] = <<t[k + 1], j>> /\ t[k + 1] = s[a + k + 1]
    <3>1. y[p] = <<t[k + 1], j>>
      BY <1>12, <2>1
    <3>2. k + 1 \in 1 .. n
      BY <2>1
    <3>3. t[k + 1] = s[a + (k + 1)] /\ a + (k + 1) = a + k + 1
      BY <1>6, <3>2
    <3> QED
      BY <3>1, <3>3
  <2>3. PICK q \in Nat : q = a + k /\ q < l
    BY <1>3, <2>1
  <2>4. x[q * e + j + 1] = <<s[q + 1], j>>
    BY <1>9, <2>3
  <2>5. A + p = q * e + j + 1
    BY <1>13, <2>1, <2>3
  <2> QED
    BY <1>16, <2>2, <2>3, <2>4, <2>5
<1>18. z = y
  BY <1>12, <1>16, <1>17, EqualSeqs
<1> QED
  BY <1>1, <1>4, <1>7, <1>10, <1>13, <1>14, <1>15, <1>18

LEMMA Scaled ==
  ASSUME NEW v \in Layout, NEW w \in Layout, NEW e \in Nat, \A r \in Rank : w[r] = e * v[r]
  PROVE  \A k \in 0 .. N : Before(w, k) = e * Before(v, k)
<1> DEFINE c == [k \in 0 .. N |-> e * Before(v, k)]
<1>1. /\ Before(v, 0) = 0 /\ N \in Nat
      /\ \A k \in 0 .. N : Before(v, k) \in Nat
      /\ \A k \in Rank : Before(v, k + 1) = Before(v, k) + v[k]
  BY BeforeFacts, BeforeGrows, NAssumption
<1>2. c[0] = 0
  BY <1>1
<1>3. ASSUME NEW k \in Rank PROVE c[k] + w[k] = c[k + 1]
  <2>1. k \in 0 .. N /\ k + 1 \in 0 .. N
    BY <1>1 DEF Rank
  <2>2. PICK x \in Nat, y \in Nat : x = Before(v, k) /\ y = v[k]
    BY <1>1, <2>1 DEF Layout
  <2>3. Before(v, k + 1) = x + y
    BY <1>1, <2>2
  <2>4. e * (x + y) = e * x + e * y
    OBVIOUS
  <2> QED
    BY <2>1, <2>2, <2>3, <2>4
<1> HIDE DEF c
<1>4. \A k \in 0 .. N : Before(w, k) = c[k]
  BY <1>2, <1>3, Telescope
<1> QED
  BY <1>4 DEF c

LEMMA BytesOfGlobal ==
  ASSUME NEW S, NEW d \in [Rank -> Seq(S)]
  PROVE  Global([r \in Rank |-> Bytes(d[r])]) = Bytes(Global(d))
<1> DEFINE bd == [r \in Rank |-> Bytes(d[r])]
           v == LayoutOf(d)
           w == LayoutOf(bd)
<1>1. PICK e \in Nat \ {0} : e = ElementSize
  BY SizesAssumption
<1>2. \A r \in Rank :
        /\ bd[r] \in Seq(S \X Nat) /\ Len(bd[r]) = Len(d[r]) * e
        /\ \A k \in Nat : \A j \in 0 .. e - 1 :
             k < Len(d[r]) => bd[r][k * e + j + 1] = <<d[r][k + 1], j>>
  <2>1. TAKE r \in Rank
  <2>2. PICK n \in Nat : n = Len(d[r])
    OBVIOUS
  <2>3. bd[r] = Bytes(d[r]) /\ d[r] \in Seq(S)
    OBVIOUS
  <2>4. PICK b : b = bd[r]
    OBVIOUS
  <2> HIDE DEF bd
  <2>5. /\ b \in Seq(S \X Nat) /\ Len(b) = n * e
        /\ \A k \in Nat : \A j \in 0 .. e - 1 : k < n => b[k * e + j + 1] = <<d[r][k + 1], j>>
    <3>1. AreBytes(S, b, d[r], n, e)
      BY <1>1, <2>2, <2>3, <2>4, BytesAre
    <3> QED
      BY <3>1 DEF AreBytes
  <2> QED
    BY <2>2, <2>4, <2>5
<1>3. bd \in [Rank -> Seq(S \X Nat)]
  BY <1>2
<1>4. v \in Layout /\ \A r \in Rank : v[r] = Len(d[r])
  BY LayoutType
<1> HIDE DEF bd, v, w
<1>5. w \in Layout /\ \A r \in Rank : w[r] = Len(bd[r])
  BY <1>3, LayoutType DEF w
<1>6. \A k \in 0 .. N : Before(w, k) = e * Before(v, k)
  <2>1. \A r \in Rank : w[r] = e * v[r]
    <3>1. \A r \in Rank : v[r] \in Nat
      BY <1>4 DEF Layout
    <3>2. TAKE r \in Rank
    <3>3. PICK n \in Nat : n = v[r]
      BY <3>1
    <3>4. w[r] = Len(bd[r])
      BY <1>5
    <3>5. Len(bd[r]) = Len(d[r]) * e
      BY <1>2
    <3>6. Len(d[r]) = n
      BY <1>4, <3>3
    <3>7. n * e = e * n
      BY Commutes
    <3> QED
      BY <3>3, <3>4, <3>5, <3>6, <3>7
  <2> QED
    BY <1>4, <1>5, <2>1, Scaled
<1>7. PICK g \in Seq(S) : /\ g = Global(d) /\ Len(g) = Total(v)
                          /\ \A r \in Rank : \A j \in 1 .. Len(d[r]) : g[Before(v, r) + j] = d[r][j]
  BY GlobalFacts DEF v
<1>8. PICK l \in Nat : l = Len(g)
  OBVIOUS
<1>9. PICK x : x = Bytes(g)
  OBVIOUS
<1>10. AreBytes(S, x, g, l, e)
  BY <1>1, <1>8, <1>9, BytesAre
<1>11. /\ x \in Seq(S \X Nat) /\ Len(x) = l * e
      /\ \A k \in Nat : \A j \in 0 .. e - 1 : k < l => x[k * e + j + 1] = <<g[k + 1], j>>
  BY <1>10 DEF AreBytes
<1>12. N \in Nat /\ N \in 0 .. N /\ Rank \subseteq 0 .. N
  BY NAssumption DEF Rank
<1>13. Len(x) = Total(w)
  <2>1. Total(w) = Before(w, N) /\ Total(v) = Before(v, N)
    BY <1>4, <1>5, BeforeFacts
  <2>2. Total(w) = e * l
    BY <1>6, <1>7, <1>8, <1>12, <2>1
  <2> QED
    BY <1>11, <2>2
<1>14. ASSUME NEW r \in Rank, NEW p \in 1 .. Len(bd[r])
       PROVE  x[Before(w, r) + p] = bd[r][p]
  <2>1. PICK n \in Nat : n = Len(d[r]) /\ n = v[r] /\ Len(bd[r]) = n * e
    <3>1. Len(d[r]) \in Nat
      OBVIOUS
    <3> QED
      BY <1>2, <1>4, <3>1
  <2>2. PICK k \in Nat, j \in 0 .. e - 1 : k < n /\ p = k * e + j + 1
    <3>1. p \in 1 .. n * e
      BY <2>1
    <3> QED
      BY <3>1, InBytes, ZenonT(30)
  <2>3. bd[r][p] = <<d[r][k + 1], j>>
    BY <1>2, <2>1, <2>2
  <2>4. PICK b \in Nat : b = Before(v, r) /\ b + n <= Total(v)
    <3>1. r + 1 \in 0 .. N /\ r \in 0 .. N
      BY <1>12 DEF Rank
    <3>2. Before(v, r + 1) = Before(v, r) + v[r] /\ Before(v, r) \in Nat /\ Before(v, r + 1) <= Total(v)
      BY <1>4, <3>1, BeforeFacts, BeforeGrows
    <3> QED
      BY <2>1, <3>2
  <2>5. PICK q \in Nat : q = b + k /\ q < l
    BY <1>7, <1>8, <2>2, <2>4
  <2>6. x[q * e + j + 1] = <<g[q + 1], j>>
    BY <1>11, <2>5
  <2>7. g[q + 1] = d[r][k + 1]
    <3>1. k + 1 \in 1 .. Len(d[r]) /\ q + 1 = b + (k + 1)
      BY <2>1, <2>2, <2>5
    <3> QED
      BY <1>7, <2>4, <3>1
  <2>8. Before(w, r) + p = q * e + j + 1
    <3>1. Before(w, r) = e * b
      BY <1>6, <1>12, <2>4
    <3>2. q * e = e * b + k * e
      BY <2>5
    <3> QED
      BY <2>2, <3>1, <3>2
  <2> QED
    BY <2>3, <2>6, <2>7, <2>8
<1>15. x = Global(bd)
  <2>1. LiesAs(x, bd)
    BY <1>14 DEF LiesAs, w
  <2>2. Len(x) = Total(LayoutOf(bd))
    BY <1>13 DEF w
  <2> QED
    BY <1>3, <1>11, <2>1, <2>2, IsGlobal
<1> QED
  BY <1>7, <1>9, <1>15 DEF bd

---------------------------------------------------------------------------
(* The inductive invariant: an exchange follows its plan.                  *)

Share(s, i) ==
  CASE op.name = "scatter" -> IF s = 0 THEN op.sizes[i] ELSE 0
    [] op.name = "align" -> alltoall_size(op.old, op.sizes, s, i)
    [] op.name = "sort" -> part_size(data[s], op.part, i)
Shares(s) == [i \in Rank |-> Share(s, i)]
Held(s) == IF Scattering THEN op.src ELSE data[s]

(* What is for rank r: a piece of what each rank holds.                    *)
Mine(r) ==
  [i \in Rank |-> SubSeq(Held(i), Before(Shares(i), r) + 1, Before(Shares(i), r) + Share(i, r))]

(* Bytes from s to i in the first k rounds, and what is in rounds j+1 .. k.*)
Sent(s, i, k) == Smaller(SendCount(s, i), k * local_max_count)
Chunk(s, i, j, k) ==
  SubSeq(sendbuf(s), sdispl(s, i) + Sent(s, i, j) + 1, sdispl(s, i) + Sent(s, i, k))
AllSent(r, k) == \A i \in Rank : SendCount(r, i) = Sent(r, i, k)
AllHere(r, k) == \A i \in Awaited(r) : SendCount(i, r) = Sent(i, r, k)

DataInv == data \in [Rank -> Seq(Value)] /\ Total(LayoutOf(data)) <= MaxTotal

ScatterPlan ==
  \E src \in Seq(Value) : \E sizes \in Layout :
    /\ op = [name |-> "scatter", src |-> src, sizes |-> sizes]
    /\ Len(src) <= MaxTotal /\ Total(sizes) = Len(src) /\ data = Empty
AlignPlan ==
  \E sizes \in Layout :
    /\ op = [name |-> "align", old |-> LayoutOf(data), sizes |-> sizes]
    /\ Total(sizes) = Total(LayoutOf(data))
SortPlan ==
  \E part \in Seq(Nat) :
    /\ op = [name |-> "sort", part |-> part]
    /\ IsPart(part) /\ \A r \in Rank : Ascends(data[r])
Planned == ScatterPlan \/ AlignPlan \/ SortPlan

Clean == /\ dst = [r \in Rank |-> Waiting] /\ log = Empty /\ spos = NoCounts /\ rbuf = NoBytes

(* Entry k of the log of r: the rounds, and the votes after them.          *)
Entry == BOOLEAN \cup [Rank -> Seq(Value \X Nat)]
LogInv(r) ==
  /\ log[r] \in Seq(Entry)
  /\ \A m \in Nat :
       /\ 2 * m + 1 <= Len(log[r]) =>
            log[r][2 * m + 1] = [i \in Rank |-> Chunk(r, i, m, m + 1)]
       /\ 2 * m + 2 <= Len(log[r]) =>
            (log[r][2 * m + 2] => AllSent(r, m + 1) /\ (Scattering \/ AllHere(r, m + 1)))
SentInv(r) ==
  \E k \in Nat : k = (Len(log[r]) + 1) \div 2 /\ spos[r] = [i \in Rank |-> Sent(r, i, k)]
Here(r, k) == [i \in Rank |-> IF i \in Awaited(r) THEN Chunk(i, r, 0, k) ELSE <<>>]
HereInv(r) == \E k \in Nat : k = Len(log[r]) \div 2 /\ rbuf[r] = Here(r, k)
DoneInv(r) ==
  dst[r] # Waiting => \E k \in Nat : /\ k # 0 /\ Len(log[r]) = 2 * k
                                     /\ AllHere(r, k) /\ dst[r] = Arrived(r)
RankInv(r) == LogInv(r) /\ SentInv(r) /\ HereInv(r) /\ DoneInv(r)

ExchangeInv ==
  /\ DataInv
  /\ dst = [r \in Rank |-> dst[r]] /\ log = [r \in Rank |-> log[r]]
  /\ spos = [r \in Rank |-> spos[r]] /\ rbuf = [r \in Rank |-> rbuf[r]]
  /\ \/ op = Idle /\ Clean
     \/ Planned /\ \A r \in Rank : RankInv(r)

LEMMA Consts ==
  /\ N \in Nat /\ N >= 1 /\ 0 \in Rank /\ Rank \subseteq 0 .. N /\ N \in 0 .. N
  /\ \A r \in Rank : r + 1 \in 0 .. N
  /\ ElementSize \in Nat \ {0} /\ MaxTotal \in Nat /\ Value \subseteq Nat
  /\ local_max_count \in Nat \ {0}
  /\ N * local_max_count \in Nat /\ N * local_max_count <= mpi_max_count
<1>1. N \in Nat /\ N >= 1
  BY NAssumption
<1>2. PICK m \in Nat : m = mpi_max_count /\ m >= N
  BY MaxCountAssumption
<1>3. PICK q \in Int : q = m \div N
  BY <1>1
<1>4. PICK j \in 0 .. N - 1 : j = m % N /\ m = N * q + j
  BY <1>1, <1>3
<1>5. q >= 1
  <2>1. ~ q <= 0
    <3>1. SUFFICES ASSUME q <= 0 PROVE FALSE
      OBVIOUS
    <3>2. PICK a \in Nat : q = 0 - a
      <4>1. 0 - q \in Nat /\ q = 0 - (0 - q)
        BY <3>1
      <4> QED
        BY <4>1
    <3>3. N * q = 0 - N * a /\ N * a \in Nat
      BY <1>1, <3>2
    <3> QED
      BY <1>1, <1>2, <1>4, <3>3
  <2> QED
    BY <1>3, <2>1
<1>6. N * q \in Nat /\ N * q <= m
  BY <1>1, <1>4, <1>5
<1> QED
  BY <1>1, <1>2, <1>3, <1>5, <1>6, SizesAssumption, ValueAssumption DEF Rank, local_max_count

(* Nobody has more than there is.                                          *)
LEMMA RankLen ==
  ASSUME NEW d \in [Rank -> Seq(Value)], Total(LayoutOf(d)) <= MaxTotal, NEW r \in Rank
  PROVE  Len(d[r]) \in Nat /\ Len(d[r]) <= MaxTotal /\ LayoutOf(d)[r] = Len(d[r])
<1>1. LayoutOf(d) \in Layout /\ LayoutOf(d)[r] = Len(d[r])
  BY LayoutType
<1>2. PICK v \in Layout : v = LayoutOf(d)
  BY <1>1
<1>3. /\ Before(v, r) \in Nat /\ Before(v, r + 1) <= Total(v) /\ Total(v) \in Nat
      /\ Before(v, r + 1) = Before(v, r) + v[r]
  BY <1>2, Consts, BeforeFacts, BeforeGrows
<1> QED
  BY <1>1, <1>2, <1>3, Consts

LEMMA SeqMonotone ==
  ASSUME NEW S, NEW T, S \subseteq T, NEW s \in Seq(S)
  PROVE  s \in Seq(T)
<1>1. PICK n \in Nat : n = Len(s)
  OBVIOUS
<1>2. s \in [1 .. n -> T]
  BY <1>1
<1> QED
  BY <1>2

(* What s has suffices for what it sends.                                  *)
SharesOK(s) ==
  /\ Held(s) \in Seq(Value) /\ Len(Held(s)) \in Nat /\ Len(Held(s)) <= MaxTotal
  /\ Shares(s) \in Layout /\ Before(Shares(s), N) <= Len(Held(s))
  /\ \A i \in Rank : /\ Shares(s)[i] = Share(s, i)
                     /\ SendCount(s, i) = ElementSize * Share(s, i)
                     /\ Scattering /\ s # 0 => Share(s, i) = 0

LEMMA ScatterShares ==
  ASSUME ScatterPlan, NEW s \in Rank
  PROVE  SharesOK(s)
<1>1. PICK src \in Seq(Value), sizes \in Layout :
        /\ op = [name |-> "scatter", src |-> src, sizes |-> sizes]
        /\ Len(src) <= MaxTotal /\ Total(sizes) = Len(src)
  BY DEF ScatterPlan
<1>2. op.name = "scatter" /\ op.src = src /\ op.sizes = sizes /\ Scattering
  BY <1>1 DEF Scattering
<1>3. Held(s) = src /\ Len(src) \in Nat
  BY <1>2 DEF Held
<1>4. \A i \in Rank : Share(s, i) = IF s = 0 THEN sizes[i] ELSE 0
  BY <1>2 DEF Share
<1>5. \A i \in Rank : SendCount(s, i) = ElementSize * Share(s, i)
  BY <1>2 DEF Share, SendCount
<1>6. PICK w : w = Shares(s)
  OBVIOUS
<1>7. w \in Layout /\ \A i \in Rank : w[i] = Share(s, i)
  BY <1>4, <1>6 DEF Shares, Layout
<1>8. Before(w, N) <= Len(src)
  <2>1. CASE s = 0
    <3>1. w = sizes
      BY <1>4, <1>7, <2>1 DEF Layout
    <3> QED
      BY <1>1, <3>1, BeforeFacts
  <2>2. CASE s # 0
    <3>1. \A i \in Rank : w[i] = 0
      BY <1>4, <1>7, <2>2
    <3>2. w \in [Rank -> 0 .. 0]
      BY <1>7, <3>1 DEF Layout
    <3>3. Total(w) <= N * 0
      BY <3>2, TotalBound
    <3>4. Total(w) \in Nat /\ Before(w, N) = Total(w)
      BY <1>7, <3>2, BeforeFacts, TotalBound
    <3> QED
      BY <1>3, <3>3, <3>4, Consts
  <2> QED
    BY <2>1, <2>2
<1> QED
  BY <1>1, <1>2, <1>3, <1>4, <1>5, <1>6, <1>7, <1>8 DEF SharesOK

LEMMA AlignShares ==
  ASSUME DataInv, AlignPlan, NEW s \in Rank
  PROVE  SharesOK(s)
<1>1. PICK sizes \in Layout :
        /\ op = [name |-> "align", old |-> LayoutOf(data), sizes |-> sizes]
        /\ Total(sizes) = Total(LayoutOf(data))
  BY DEF AlignPlan
<1>2. PICK old \in Layout : old = LayoutOf(data) /\ old[s] = Len(data[s])
  BY LayoutType DEF DataInv
<1>3. op.name = "align" /\ op.old = old /\ op.sizes = sizes /\ ~Scattering
  BY <1>1, <1>2 DEF Scattering
<1>4. Held(s) = data[s] /\ data[s] \in Seq(Value) /\ Len(data[s]) \in Nat /\ Len(data[s]) <= MaxTotal
  BY <1>3, RankLen DEF Held, DataInv
<1>5. \A i \in Rank : Share(s, i) = alltoall_size(old, sizes, s, i)
  BY <1>3 DEF Share
<1>6. \A i \in Rank : SendCount(s, i) = ElementSize * Share(s, i)
  BY <1>3 DEF Share, SendCount
<1>7. PICK w : w = Shares(s)
  OBVIOUS
<1>8. w = [i \in Rank |-> alltoall_size(old, sizes, s, i)]
  BY <1>5, <1>7 DEF Shares
<1>9. w \in Layout /\ \A i \in Rank : w[i] = Share(s, i)
  <2>1. \A i \in Rank : alltoall_size(old, sizes, s, i) \in Nat
    BY AlltoallOverlap
  <2> QED
    BY <1>5, <1>8, <2>1 DEF Layout
<1>10. Total(w) = old[s]
  BY <1>1, <1>2, <1>8, AlignLeaves DEF Total
<1>11. Before(w, N) = Len(data[s])
  BY <1>2, <1>9, <1>10, BeforeFacts
<1> QED
  BY <1>3, <1>4, <1>6, <1>7, <1>9, <1>11 DEF SharesOK

LEMMA SortShares ==
  ASSUME DataInv, SortPlan, NEW s \in Rank
  PROVE  /\ SharesOK(s)
         /\ \A k \in 0 .. N : Before(Shares(s), k) = CutAt(data[s], op.part, k)
<1>1. PICK part \in Seq(Nat) :
        op = [name |-> "sort", part |-> part] /\ IsPart(part) /\ \A r \in Rank : Ascends(data[r])
  BY DEF SortPlan
<1>2. op.name = "sort" /\ op.part = part /\ ~Scattering
  BY <1>1 DEF Scattering
<1>3. Held(s) = data[s] /\ data[s] \in Seq(Value) /\ Len(data[s]) \in Nat /\ Len(data[s]) <= MaxTotal
  BY <1>2, RankLen DEF Held, DataInv
<1>4. PICK v \in Seq(Nat) : v = data[s]
  BY <1>3, Consts, SeqMonotone
<1>5. \A i \in Rank : Share(s, i) = part_size(v, part, i)
  BY <1>2, <1>4 DEF Share
<1>6. \A i \in Rank : SendCount(s, i) = ElementSize * Share(s, i)
  BY <1>2 DEF Share, SendCount
<1>7. /\ CutAt(v, part, 0) = 0 /\ CutAt(v, part, N) = Len(v)
      /\ \A k \in 0 .. N : CutAt(v, part, k) \in Nat
      /\ \A k \in Rank : /\ CutAt(v, part, k) <= CutAt(v, part, k + 1)
                         /\ part_size(v, part, k) = CutAt(v, part, k + 1) - CutAt(v, part, k)
  BY <1>1, Cuts
<1>8. PICK w : w = Shares(s)
  OBVIOUS
<1>9. w \in Layout /\ \A i \in Rank : w[i] = Share(s, i)
  <2>1. \A i \in Rank : part_size(v, part, i) \in Nat
    BY <1>7, Consts
  <2> QED
    BY <1>5, <1>8, <2>1 DEF Layout, Shares
<1>10. PICK c : c = [k \in 0 .. N |-> CutAt(v, part, k)]
  OBVIOUS
<1>11. c[0] = 0 /\ \A k \in Rank : c[k] + w[k] = c[k + 1]
  <2>1. c[0] = 0
    BY <1>7, <1>10, Consts
  <2>2. SUFFICES ASSUME NEW k \in Rank PROVE c[k] + w[k] = c[k + 1]
    BY <2>1
  <2>3. c[k] = CutAt(v, part, k) /\ c[k + 1] = CutAt(v, part, k + 1)
    BY <1>10, Consts
  <2>4. CutAt(v, part, k) \in Nat /\ CutAt(v, part, k + 1) \in Nat
    BY <1>7, Consts
  <2>5. w[k] = CutAt(v, part, k + 1) - CutAt(v, part, k)
    BY <1>5, <1>7, <1>9
  <2> QED
    BY <2>1, <2>3, <2>4, <2>5
<1>12. \A k \in 0 .. N : Before(w, k) = CutAt(v, part, k)
  <2>1. \A k \in 0 .. N : Before(w, k) = c[k]
    BY <1>9, <1>11, Telescope
  <2> QED
    BY <1>10, <2>1
<1>13. Before(w, N) = Len(v)
  BY <1>7, <1>12, Consts
<1> QED
  BY <1>2, <1>3, <1>4, <1>6, <1>8, <1>9, <1>12, <1>13 DEF SharesOK

LEMMA SharesFacts == DataInv /\ Planned => \A s \in Rank : SharesOK(s)
BY ScatterShares, AlignShares, SortShares DEF Planned

(* The same in bytes: what s has for i is a piece of its buffer.           *)
CountsOK(s, i) ==
  /\ sendbuf(s) \in Seq(Value \X Nat) /\ Len(sendbuf(s)) \in Nat
  /\ SendCount(s, i) \in Nat /\ sdispl(s, i) \in Nat
  /\ sdispl(s, i) + SendCount(s, i) <= Len(sendbuf(s))
  /\ sdispl(s, i) = Before(Shares(s), i) * ElementSize
  /\ SendCount(s, i) = Share(s, i) * ElementSize
  /\ Before(Shares(s), i) \in Nat /\ Share(s, i) \in Nat
  /\ Before(Shares(s), i) + Share(s, i) <= Len(Held(s))
  /\ sendbuf(s) = Bytes(Held(s)) /\ Held(s) \in Seq(Value)
  /\ Scattering /\ s # 0 => Share(s, i) = 0 /\ SendCount(s, i) = 0

LEMMA CountsFacts == DataInv /\ Planned => \A s, i \in Rank : CountsOK(s, i)
<1>1. SUFFICES ASSUME DataInv, Planned, NEW s \in Rank, NEW i \in Rank PROVE CountsOK(s, i)
  OBVIOUS
<1>2. SharesOK(s)
  BY <1>1, SharesFacts
<1>3. PICK e \in Nat \ {0} : e = ElementSize
  BY Consts
<1>4. PICK h \in Seq(Value) : h = Held(s)
  BY <1>2 DEF SharesOK
<1>5. PICK l \in Nat : l = Len(h)
  OBVIOUS
<1>6. PICK w \in Layout : w = Shares(s)
  BY <1>2 DEF SharesOK
<1>7. Before(w, N) <= l /\ \A k \in Rank : w[k] = Share(s, k) /\ SendCount(s, k) = e * w[k]
  BY <1>2, <1>3, <1>4, <1>5, <1>6 DEF SharesOK
<1>8. sendbuf(s) = Bytes(h)
  BY <1>4 DEF sendbuf, Held
<1>9. PICK b : b = sendbuf(s)
  OBVIOUS
<1>10. AreBytes(Value, b, h, l, e)
  BY <1>3, <1>5, <1>8, <1>9, BytesAre
<1>11. b \in Seq(Value \X Nat) /\ Len(b) = l * e
  BY <1>10 DEF AreBytes
<1>12. PICK x \in Nat : x = Before(w, i)
  BY Consts, BeforeGrows
<1>13. PICK y \in Nat : y = w[i]
  BY DEF Layout
<1>14. x + y <= l
  <2>1. /\ Before(w, i + 1) = Before(w, i) + w[i]
        /\ Before(w, i + 1) \in Nat /\ Before(w, N) \in Nat
        /\ Before(w, i + 1) <= Before(w, N)
    <3>1. i \in Nat /\ i + 1 \in 0 .. N /\ N \in 0 .. N /\ i + 1 <= N
      BY Consts DEF Rank
    <3> QED
      BY <3>1, BeforeFacts, BeforeGrows, BeforeOrder
  <2> QED
    BY <1>7, <1>12, <1>13, <2>1
<1>15. sdispl(s, i) = e * x
  <2>1. PICK c : c = [j \in Rank |-> SendCount(s, j)]
    OBVIOUS
  <2>2. c \in Layout /\ \A r \in Rank : c[r] = e * w[r]
    <3>1. \A r \in Rank : w[r] \in Nat /\ e * w[r] \in Nat
      BY DEF Layout
    <3> QED
      BY <1>7, <2>1, <3>1 DEF Layout
  <2>3. Before(c, i) = e * Before(w, i)
    BY <2>2, Scaled, Consts, SMTT(20)
  <2> QED
    BY <1>12, <2>1, <2>3 DEF sdispl, Before
<1>16. SendCount(s, i) = e * y
  BY <1>7, <1>13
<1>17. e * x \in Nat /\ e * y \in Nat /\ l * e \in Nat /\ e * x + e * y <= l * e
       /\ e * x = x * e /\ e * y = y * e
  <2>1. PICK z \in Nat : l = x + y + z
    <3>1. l - (x + y) \in Nat /\ l = x + y + (l - (x + y))
      BY <1>14
    <3> QED
      BY <3>1
  <2>2. l * e = e * x + e * y + z * e /\ z * e \in Nat /\ e * x \in Nat /\ e * y \in Nat
    BY <2>1
  <2> QED
    BY <2>2
<1>18. Scattering /\ s # 0 => y = 0 /\ e * y = 0
  BY <1>2, <1>7, <1>13 DEF SharesOK
<1>19. Share(s, i) = y /\ Before(Shares(s), i) = x
  BY <1>6, <1>7, <1>12, <1>13
<1> QED
  BY <1>3, <1>4, <1>5, <1>8, <1>9, <1>11, <1>14, <1>15, <1>16, <1>17, <1>18, <1>19 DEF CountsOK

LEMMA SentFacts ==
  ASSUME NEW s, NEW i, SendCount(s, i) \in Nat, NEW k \in Nat
  PROVE  /\ Sent(s, i, 0) = 0
         /\ Sent(s, i, k) \in 0 .. SendCount(s, i)
         /\ Sent(s, i, k + 1) \in 0 .. SendCount(s, i)
         /\ Sent(s, i, k) <= Sent(s, i, k + 1)
         /\ Sent(s, i, k + 1) - Sent(s, i, k) <= local_max_count
         /\ each_count(SendCount(s, i), Sent(s, i, k)) = Sent(s, i, k + 1) - Sent(s, i, k)
<1>1. PICK L \in Nat \ {0} : L = local_max_count
  BY Consts
<1>2. PICK c \in Nat : c = SendCount(s, i)
  OBVIOUS
<1>3. PICK a \in Nat : a = k * L
  OBVIOUS
<1>4. (k + 1) * L = a + L /\ 0 * L = 0
  BY <1>3
<1>5. /\ Sent(s, i, 0) = (IF c <= 0 THEN c ELSE 0) /\ Sent(s, i, k) = (IF c <= a THEN c ELSE a)
      /\ Sent(s, i, k + 1) = (IF c <= a + L THEN c ELSE a + L)
  <2>1. /\ Sent(s, i, 0) = Smaller(c, 0 * L) /\ Sent(s, i, k) = Smaller(c, k * L)
        /\ Sent(s, i, k + 1) = Smaller(c, (k + 1) * L)
    BY <1>1, <1>2, Zenon DEF Sent
  <2> QED
    BY <1>3, <1>4, <2>1 DEF Smaller
<1>6. PICK p \in Nat, q \in Nat : p = Sent(s, i, k) /\ q = Sent(s, i, k + 1)
  BY <1>5
<1>7. each_count(c, p) = IF c - p <= L THEN c - p ELSE L
  BY <1>1 DEF each_count, Smaller
<1>8. p <= q /\ q - p <= L /\ q <= c /\ p <= c
  BY <1>5, <1>6
<1>9. each_count(c, p) = q - p
  BY <1>5, <1>6, <1>7
<1> QED
  BY <1>1, <1>2, <1>5, <1>6, <1>8, <1>9

(* Rounds j + 1 to k, of what s has for i.                                 *)
LEMMA ChunkFacts ==
  ASSUME NEW s, NEW i, CountsOK(s, i), NEW k \in Nat
  PROVE  /\ Chunk(s, i, 0, 0) = <<>>
         /\ Chunk(s, i, k, k + 1) \in Seq(Value \X Nat)
         /\ Len(Chunk(s, i, k, k + 1)) = Sent(s, i, k + 1) - Sent(s, i, k)
         /\ Chunk(s, i, 0, k) \in Seq(Value \X Nat)
         /\ Len(Chunk(s, i, 0, k)) = Sent(s, i, k)
         /\ Chunk(s, i, 0, k) \o Chunk(s, i, k, k + 1) = Chunk(s, i, 0, k + 1)
<1>1. PICK b \in Seq(Value \X Nat) : b = sendbuf(s)
  BY DEF CountsOK
<1>2. PICK n \in Nat, c \in Nat, d \in Nat :
        n = Len(b) /\ c = SendCount(s, i) /\ d = sdispl(s, i) /\ d + c <= n
  BY <1>1 DEF CountsOK
<1>3. PICK p \in Nat, q \in Nat : /\ p = Sent(s, i, k) /\ q = Sent(s, i, k + 1) /\ p <= q
                                  /\ p <= c /\ q <= c /\ Sent(s, i, 0) = 0
  <2>1. SendCount(s, i) \in Nat
    BY <1>2
  <2>2. /\ Sent(s, i, 0) = 0
        /\ Sent(s, i, k) \in 0 .. SendCount(s, i)
        /\ Sent(s, i, k + 1) \in 0 .. SendCount(s, i)
        /\ Sent(s, i, k) <= Sent(s, i, k + 1)
    BY <2>1, SentFacts
  <2> QED
    BY <1>2, <2>2
<1>4. PICK x \in Nat, y \in Nat : x = d + p /\ y = d + q /\ x <= y /\ y <= n /\ d <= x
  <2>1. p <= q /\ p <= c /\ q <= c /\ d + c <= n
    BY <1>2, <1>3
  <2>2. d + p \in Nat /\ d + q \in Nat /\ d + p <= d + q /\ d + q <= n /\ d <= d + p
    BY <2>1
  <2> QED
    BY <2>2
<1>5. PICK t, u, w : /\ t = SubSeq(b, d + 1, x) /\ u = SubSeq(b, x + 1, y)
                     /\ w = SubSeq(b, d + 1, y)
  OBVIOUS
<1>6. /\ Chunk(s, i, 0, k) = t /\ Chunk(s, i, k, k + 1) = u /\ Chunk(s, i, 0, k + 1) = w
      /\ Chunk(s, i, 0, 0) = SubSeq(b, d + 1, d)
  <2>1. d + 0 = d
    OBVIOUS
  <2> QED
    BY <1>1, <1>2, <1>3, <1>4, <1>5, <2>1, Zenon DEF Chunk
<1>7. IsSlice(Value \X Nat, t, b, d, p)
  <2>1. d + p = x /\ x <= n
    BY <1>4
  <2> QED
    BY <1>2, <1>4, <1>5, <2>1, SliceIs
<1>8. PICK m \in Nat : m = q - p /\ x + m = y
  <2>1. q - p \in Nat /\ x + (q - p) = y
    BY <1>3, <1>4, SMTT(20)
  <2> QED
    BY <2>1
<1>9. IsSlice(Value \X Nat, u, b, x, m)
  BY <1>2, <1>4, <1>5, <1>8, SliceIs
<1>10. t \o u = w
  <2>1. PICK e \in 1 .. Len(b) + 1 : e = d + 1
    BY <1>2
  <2>2. x \in e - 1 .. Len(b) /\ y \in x .. Len(b)
    <3>1. e - 1 = d /\ Len(b) = n
      BY <1>2, <2>1
    <3> QED
      BY <1>4, <3>1
  <2>3. SubSeq(b, e, x) \o SubSeq(b, x + 1, y) = SubSeq(b, e, y)
    BY <2>2, ConcatAdjacentSubSeq
  <2> QED
    BY <1>5, <2>1, <2>3
<1>11. Chunk(s, i, 0, 0) = <<>>
  BY <1>6, SubSeqEmpty
<1> QED
  BY <1>3, <1>6, <1>7, <1>8, <1>9, <1>10, <1>11 DEF IsSlice

(* pos is what k rounds have taken of r.                                   *)
AtRound(r, pos, k) == \A i \in Rank : pos[i] = Sent(r, i, k)

(* What r brings to round k + 1 when k rounds are over.                    *)
LEMMA RoundFacts ==
  ASSUME NEW r, NEW pos, NEW k \in Nat, \A i \in Rank : CountsOK(r, i), AtRound(r, pos, k)
  PROVE  /\ Round(r, pos) = [i \in Rank |-> Chunk(r, i, k, k + 1)]
         /\ [i \in Rank |-> pos[i] + each_count(SendCount(r, i), pos[i])]
              = [i \in Rank |-> Sent(r, i, k + 1)]
<1>1. ASSUME NEW i \in Rank
      PROVE  /\ pos[i] = Sent(r, i, k)
             /\ pos[i] + each_count(SendCount(r, i), pos[i]) = Sent(r, i, k + 1)
             /\ sdispl(r, i) + pos[i] + each_count(SendCount(r, i), pos[i])
                  = sdispl(r, i) + Sent(r, i, k + 1)
  <2>1. PICK c \in Nat, d \in Nat : c = SendCount(r, i) /\ d = sdispl(r, i)
    BY DEF CountsOK
  <2>2. PICK p \in Nat, q \in Nat : p = Sent(r, i, k) /\ q = Sent(r, i, k + 1) /\ pos[i] = p
    <3>1. SendCount(r, i) \in Nat
      BY <2>1
    <3>2. Sent(r, i, k) \in 0 .. SendCount(r, i) /\ Sent(r, i, k + 1) \in 0 .. SendCount(r, i)
      BY <3>1, SentFacts
    <3> QED
      BY <2>1, <3>2 DEF AtRound
  <2>3. each_count(c, p) = q - p
    BY <2>1, <2>2, SentFacts
  <2>4. p + (q - p) = q /\ d + p + (q - p) = d + q
    OBVIOUS
  <2> QED
    BY <2>1, <2>2, <2>3, <2>4
<1> QED
  BY <1>1 DEF Round, Chunk

LEMMA Initially ==
  DataInv /\ Planned /\ Clean => \A r \in Rank : RankInv(r)
<1>1. SUFFICES ASSUME DataInv, Planned, Clean, NEW r \in Rank PROVE RankInv(r)
  OBVIOUS
<1>2. \A s, i \in Rank : CountsOK(s, i)
  BY <1>1, CountsFacts
<1>3. log[r] = <<>> /\ spos[r] = [i \in Rank |-> 0] /\ rbuf[r] = [i \in Rank |-> <<>>]
      /\ dst[r] = Waiting
  BY <1>1 DEF Clean, Empty, NoCounts, NoBytes
<1>4. Len(log[r]) = 0 /\ log[r] \in Seq(Entry)
  BY <1>3
<1>5. LogInv(r)
  BY <1>4 DEF LogInv
<1>6. SentInv(r)
  <2>1. \A i \in Rank : Sent(r, i, 0) = 0
    BY <1>2, SentFacts DEF CountsOK
  <2>2. (0 + 1) \div 2 = 0
    OBVIOUS
  <2> QED
    BY <1>3, <1>4, <2>1, <2>2 DEF SentInv, Sent
<1>7. HereInv(r)
  <2>1. \A i \in Rank : Chunk(i, r, 0, 0) = <<>>
    BY <1>2, ChunkFacts
  <2>2. 0 \div 2 = 0
    OBVIOUS
  <2> QED
    BY <1>3, <1>4, <2>1, <2>2 DEF HereInv, Here
<1>8. DoneInv(r)
  BY <1>3 DEF DoneInv
<1> QED
  BY <1>5, <1>6, <1>7, <1>8 DEF RankInv

(* While op and data stay, the plan stays.                                 *)
LEMMA SamePlan ==
  ASSUME op' = op, data' = data
  PROVE  /\ DataInv' = DataInv /\ Planned' = Planned /\ Scattering' = Scattering
         /\ \A s, i : SendCount(s, i)' = SendCount(s, i)
         /\ \A s : sendbuf(s)' = sendbuf(s)
         /\ \A s, i : sdispl(s, i)' = sdispl(s, i)
         /\ \A s, i, k : Sent(s, i, k)' = Sent(s, i, k)
         /\ \A s, i, j, k : Chunk(s, i, j, k)' = Chunk(s, i, j, k)
         /\ \A s : Awaited(s)' = Awaited(s)
         /\ \A s, k : AllSent(s, k)' = AllSent(s, k)
         /\ \A s, k : AllHere(s, k)' = AllHere(s, k)
         /\ \A s, k : Here(s, k)' = Here(s, k)
<1>1. DataInv' = DataInv
  BY DEF DataInv, LayoutOf
<1>2. Scattering' = Scattering
  BY DEF Scattering
<1>3. Planned' = Planned
  BY DEF Planned, ScatterPlan, AlignPlan, SortPlan, LayoutOf
<1>4. \A s, i : SendCount(s, i)' = SendCount(s, i)
  BY DEF SendCount
<1>5. \A s : sendbuf(s)' = sendbuf(s)
  BY <1>2 DEF sendbuf
<1>6. \A s, i : sdispl(s, i)' = sdispl(s, i)
  BY <1>4 DEF sdispl
<1>7. \A s, i, k : Sent(s, i, k)' = Sent(s, i, k)
  BY <1>4 DEF Sent
<1>8. \A s, i, j, k : Chunk(s, i, j, k)' = Chunk(s, i, j, k)
  BY <1>5, <1>6, <1>7 DEF Chunk
<1>9. \A s : Awaited(s)' = Awaited(s)
  BY <1>2 DEF Awaited
<1>10. \A s, k : AllSent(s, k)' = AllSent(s, k)
  BY <1>4, <1>7 DEF AllSent
<1>11. \A s, k : AllHere(s, k)' = AllHere(s, k)
  BY <1>4, <1>7, <1>9 DEF AllHere
<1>12. \A s, k : Here(s, k)' = Here(s, k)
  BY <1>8, <1>9 DEF Here
<1> QED
  BY <1>1, <1>2, <1>3, <1>4, <1>5, <1>6, <1>7, <1>8, <1>9, <1>10, <1>11, <1>12

(* A rank that does nothing.                                               *)
LEMMA OtherRanks ==
  ASSUME op' = op, data' = data, NEW q, RankInv(q),
         dst'[q] = dst[q], log'[q] = log[q], spos'[q] = spos[q], rbuf'[q] = rbuf[q]
  PROVE  RankInv(q)'
<1>1. LogInv(q)'
  <2>1. \A m : [i \in Rank |-> Chunk(q, i, m, m + 1)'] = [i \in Rank |-> Chunk(q, i, m, m + 1)]
    BY SamePlan
  <2>2. Scattering' = Scattering /\ \A m : /\ AllSent(q, m + 1)' = AllSent(q, m + 1)
                                           /\ AllHere(q, m + 1)' = AllHere(q, m + 1)
    BY SamePlan
  <2>3. LogInv(q)
    BY DEF RankInv
  <2>4. Entry' = Entry
    BY DEF Entry
  <2> QED
    BY <2>1, <2>2, <2>3, Zenon DEF LogInv
<1>2. SentInv(q)'
  <2>1. \A k : [i \in Rank |-> Sent(q, i, k)'] = [i \in Rank |-> Sent(q, i, k)]
    BY SamePlan
  <2>2. SentInv(q)
    BY DEF RankInv
  <2> QED
    BY <2>1, <2>2, Zenon DEF SentInv
<1>3. HereInv(q)'
  <2>1. \A k : Here(q, k)' = Here(q, k)
    BY SamePlan
  <2>2. HereInv(q)
    BY DEF RankInv
  <2> QED
    BY <2>1, <2>2, Zenon DEF HereInv
<1>4. DoneInv(q)'
  <2>1. Arrived(q)' = Arrived(q)
    BY DEF Arrived
  <2> QED
    BY <2>1, SamePlan DEF RankInv, DoneInv
<1> QED
  BY <1>1, <1>2, <1>3, <1>4 DEF RankInv

LEMMA Halves ==
  ASSUME NEW m \in Nat
  PROVE  /\ (2 * m) \div 2 = m /\ (2 * m + 1) \div 2 = m
         /\ (2 * m + 1 + 1) \div 2 = m + 1 /\ (2 * m + 2) \div 2 = m + 1
         /\ (2 * m + 2 + 1) \div 2 = m + 1
         /\ (2 * m) % 2 = 0 /\ (2 * m + 1) % 2 = 1 /\ (2 * m + 2) % 2 = 0
         /\ 2 * m \in Nat /\ 2 * m + 1 \in Nat /\ 2 * m + 2 \in Nat /\ m + 1 \in Nat
<1>1. PICK k \in Nat : k = m + 1
  OBVIOUS
<1>2. (2 * m) \div 2 = m /\ (2 * m + 1) \div 2 = m /\ (2 * m) % 2 = 0 /\ (2 * m + 1) % 2 = 1
  OBVIOUS
<1>3. (2 * k) \div 2 = k /\ (2 * k + 1) \div 2 = k /\ (2 * k) % 2 = 0
  OBVIOUS
<1>4. 2 * m + 1 + 1 = 2 * k /\ 2 * m + 2 = 2 * k /\ 2 * m + 2 + 1 = 2 * k + 1
  BY <1>1
<1> QED
  BY <1>1, <1>2, <1>3, <1>4

(* r enters a round.                                                       *)
LEMMA EnterRoundInv ==
  ASSUME op' = op, data' = data, dst' = dst, rbuf' = rbuf, NEW r \in Rank, RankInv(r),
         \A i \in Rank : CountsOK(r, i), NEW m \in Nat, Len(log[r]) = 2 * m, dst[r] = Waiting,
         log'[r] = Append(log[r], Round(r, spos[r])),
         spos'[r] = [i \in Rank |-> spos[r][i] + each_count(SendCount(r, i), spos[r][i])]
  PROVE  RankInv(r)'
<1>1. (2 * m + 1) \div 2 = m /\ (2 * m + 1 + 1) \div 2 = m + 1 /\ (2 * m) \div 2 = m
      /\ 2 * m \in Nat /\ m + 1 \in Nat
  BY Halves
<1>2. \A i \in Rank : spos[r][i] = Sent(r, i, m)
  BY <1>1 DEF RankInv, SentInv
<1>3. PICK c : c = Round(r, spos[r])
  OBVIOUS
<1>4. c = [i \in Rank |-> Chunk(r, i, m, m + 1)]
      /\ spos'[r] = [i \in Rank |-> Sent(r, i, m + 1)]
  <2>1. PICK pos : pos = spos[r]
    OBVIOUS
  <2>2. AtRound(r, pos, m)
    BY <1>2, <2>1 DEF AtRound
  <2>3. /\ Round(r, pos) = [i \in Rank |-> Chunk(r, i, m, m + 1)]
        /\ [i \in Rank |-> pos[i] + each_count(SendCount(r, i), pos[i])]
             = [i \in Rank |-> Sent(r, i, m + 1)]
    BY <2>2, RoundFacts
  <2> QED
    BY <1>3, <2>1, <2>3, Zenon
<1>5. PICK l, l2 : l = log[r] /\ l2 = log'[r]
  OBVIOUS
<1>6. /\ l2 \in Seq(Entry) /\ Len(l2) = 2 * m + 1 /\ l2[2 * m + 1] = c
      /\ \A k \in 1 .. 2 * m : l2[k] = l[k]
  <2>1. l2 = Append(l, c)
    BY <1>3, <1>5
  <2>2. Len(l) = 2 * m /\ l \in Seq(Entry)
    BY <1>5 DEF RankInv, LogInv
  <2>3. c \in Entry
    <3>1. \A i \in Rank : Chunk(r, i, m, m + 1) \in Seq(Value \X Nat)
      BY ChunkFacts
    <3> QED
      BY <1>4, <3>1 DEF Entry
  <2> QED
    BY <2>1, <2>2, <2>3, AppendProperties
<1>7. LogInv(r)'
  <2>1. \A k \in Nat : 2 * k + 1 <= 2 * m + 1 =>
           l2[2 * k + 1] = [i \in Rank |-> Chunk(r, i, k, k + 1)]
    <3>1. TAKE k \in Nat
    <3>2. HAVE 2 * k + 1 <= 2 * m + 1
    <3>3. CASE k = m
      BY <1>4, <1>6, <3>3
    <3>4. CASE k # m
      <4>1. 2 * k + 1 <= 2 * m /\ 2 * k + 1 \in 1 .. 2 * m
        BY <3>2, <3>4
      <4>2. l[2 * k + 1] = [i \in Rank |-> Chunk(r, i, k, k + 1)]
        BY <1>5, <4>1 DEF RankInv, LogInv
      <4> QED
        BY <1>6, <4>1, <4>2
    <3> QED
      BY <3>3, <3>4
  <2>2. \A k \in Nat : 2 * k + 2 <= 2 * m + 1 =>
           (l2[2 * k + 2] => AllSent(r, k + 1) /\ (Scattering \/ AllHere(r, k + 1)))
    <3>1. TAKE k \in Nat
    <3>2. HAVE 2 * k + 2 <= 2 * m + 1
    <3>3. 2 * k + 2 <= 2 * m /\ 2 * k + 2 \in 1 .. 2 * m
      BY <3>2
    <3>4. l[2 * k + 2] => AllSent(r, k + 1) /\ (Scattering \/ AllHere(r, k + 1))
      BY <1>5, <3>3 DEF RankInv, LogInv
    <3> QED
      BY <1>6, <3>3, <3>4
  <2>3. \A k : [i \in Rank |-> Chunk(r, i, k, k + 1)'] = [i \in Rank |-> Chunk(r, i, k, k + 1)]
    BY SamePlan
  <2>4. Scattering' = Scattering /\ \A k : /\ AllSent(r, k + 1)' = AllSent(r, k + 1)
                                           /\ AllHere(r, k + 1)' = AllHere(r, k + 1)
    BY SamePlan
  <2>5. Len(log'[r]) = 2 * m + 1 /\ log'[r] \in Seq(Entry) /\ Entry' = Entry
    BY <1>5, <1>6 DEF Entry
  <2> QED
    BY <1>5, <2>1, <2>2, <2>3, <2>4, <2>5, Zenon DEF LogInv
<1>8. SentInv(r)'
  <2>1. \A k : [i \in Rank |-> Sent(r, i, k)'] = [i \in Rank |-> Sent(r, i, k)]
    BY SamePlan
  <2>2. Len(log'[r]) = 2 * m + 1
    BY <1>5, <1>6
  <2> QED
    BY <1>1, <1>4, <2>1, <2>2, Zenon DEF SentInv
<1>9. HereInv(r)'
  <2>1. \A k : Here(r, k)' = Here(r, k)
    BY SamePlan
  <2>2. rbuf'[r] = Here(r, m)
    BY <1>1 DEF RankInv, HereInv
  <2>3. Len(log'[r]) \div 2 = m
    BY <1>1, <1>5, <1>6
  <2> QED
    BY <2>1, <2>2, <2>3, Zenon DEF HereInv
<1>10. DoneInv(r)'
  BY DEF DoneInv, Waiting
<1> QED
  BY <1>7, <1>8, <1>9, <1>10 DEF RankInv

(* r takes its pieces out of a round and votes.                            *)
LEMMA LeaveRoundInv ==
  ASSUME op' = op, data' = data, dst' = dst, spos' = spos, NEW r \in Rank,
         \A q \in Rank : RankInv(q), \A q, i \in Rank : CountsOK(q, i),
         NEW m \in Nat, Len(log[r]) = 2 * m + 1, MayLeave(r),
         NEW here, rbuf'[r] = here,
         here = [i \in Rank |-> IF i \in Awaited(r) THEN rbuf[r][i] \o Now(i, r)[r] ELSE rbuf[r][i]],
         NEW done \in BOOLEAN, log'[r] = Append(log[r], done),
         done => \A i \in Rank : SendCount(r, i) = spos[r][i]
                   /\ (Scattering \/ RecvCount(r, i) = Len(here[i]))
  PROVE  RankInv(r)'
<1>1. (2 * m + 1) \div 2 = m /\ (2 * m + 1 + 1) \div 2 = m + 1 /\ (2 * m + 2) \div 2 = m + 1
      /\ (2 * m + 2 + 1) \div 2 = m + 1
      /\ 2 * m + 1 \in Nat /\ 2 * m + 2 \in Nat /\ m + 1 \in Nat /\ (2 * m + 1) % 2 = 1
  BY Halves
<1>2. spos[r] = [i \in Rank |-> Sent(r, i, m + 1)]
  <2>1. SentInv(r)
    BY DEF RankInv
  <2>2. PICK k \in Nat : k = (Len(log[r]) + 1) \div 2 /\ spos[r] = [i \in Rank |-> Sent(r, i, k)]
    BY <2>1 DEF SentInv
  <2>3. k = m + 1
    BY <1>1, <2>2
  <2> QED
    BY <2>2, <2>3, Zenon
<1>3. here = [i \in Rank |-> IF i \in Awaited(r) THEN Chunk(i, r, 0, m + 1) ELSE <<>>]
  <2>0. rbuf[r] = Here(r, m)
    BY <1>1 DEF RankInv, HereInv
  <2>1. rbuf[r] = [i \in Rank |-> IF i \in Awaited(r) THEN Chunk(i, r, 0, m) ELSE <<>>]
    BY <2>0 DEF Here
  <2>2. ASSUME NEW i \in Rank, i \in Awaited(r)
        PROVE  rbuf[r][i] \o Now(i, r)[r] = Chunk(i, r, 0, m + 1)
    <3>1. Len(log[i]) >= 2 * m + 1
      BY <2>2 DEF MayLeave
    <3>2. log[i][2 * m + 1] = [j \in Rank |-> Chunk(i, j, m, m + 1)]
      BY <3>1 DEF RankInv, LogInv
    <3>3. Now(i, r)[r] = Chunk(i, r, m, m + 1)
      BY <3>2 DEF Now
    <3>4. Chunk(i, r, 0, m) \o Chunk(i, r, m, m + 1) = Chunk(i, r, 0, m + 1)
      BY ChunkFacts
    <3> QED
      BY <2>1, <2>2, <3>3, <3>4
  <2>3. \A i \in Rank : i \notin Awaited(r) => rbuf[r][i] = <<>>
    BY <2>1
  <2> QED
    BY <2>2, <2>3
<1>4. PICK l, l2 : l = log[r] /\ l2 = log'[r]
  OBVIOUS
<1>5. /\ l2 \in Seq(Entry) /\ Len(l2) = 2 * m + 2 /\ l2[2 * m + 2] = done
      /\ \A k \in 1 .. 2 * m + 1 : l2[k] = l[k]
  <2>1. l2 = Append(l, done)
    BY <1>4
  <2>2. Len(l) = 2 * m + 1 /\ l \in Seq(Entry) /\ 2 * m + 1 + 1 = 2 * m + 2
    BY <1>4 DEF RankInv, LogInv
  <2>3. done \in Entry
    BY DEF Entry
  <2>4. /\ l2 \in Seq(Entry) /\ Len(l2) = Len(l) + 1 /\ l2[Len(l) + 1] = done
        /\ \A k \in 1 .. Len(l) : l2[k] = l[k]
    BY <2>1, <2>2, <2>3, AppendProperties
  <2> QED
    BY <2>2, <2>4
<1>6. done => AllSent(r, m + 1) /\ (Scattering \/ AllHere(r, m + 1))
  <2>1. SUFFICES ASSUME done PROVE AllSent(r, m + 1) /\ (Scattering \/ AllHere(r, m + 1))
    OBVIOUS
  <2>2. AllSent(r, m + 1)
    BY <1>2, <2>1 DEF AllSent
  <2>3. ASSUME ~Scattering PROVE AllHere(r, m + 1)
    <3>1. \A i \in Rank : Len(Chunk(i, r, 0, m + 1)) = Sent(i, r, m + 1)
      BY <1>1, ChunkFacts
    <3>2. Awaited(r) = Rank
      BY <2>3 DEF Awaited
    <3> QED
      BY <1>3, <2>1, <2>3, <3>1, <3>2 DEF AllHere, RecvCount
  <2> QED
    BY <2>2, <2>3
<1>7. LogInv(r)'
  <2>1. \A k \in Nat : 2 * k + 1 <= 2 * m + 2 =>
           l2[2 * k + 1] = [i \in Rank |-> Chunk(r, i, k, k + 1)]
    <3>1. TAKE k \in Nat
    <3>2. HAVE 2 * k + 1 <= 2 * m + 2
    <3>3. 2 * k + 1 <= 2 * m + 1 /\ 2 * k + 1 \in 1 .. 2 * m + 1
      BY <3>2
    <3>4. l[2 * k + 1] = [i \in Rank |-> Chunk(r, i, k, k + 1)]
      BY <1>4, <3>3 DEF RankInv, LogInv
    <3> QED
      BY <1>5, <3>3, <3>4
  <2>2. \A k \in Nat : 2 * k + 2 <= 2 * m + 2 =>
           (l2[2 * k + 2] => AllSent(r, k + 1) /\ (Scattering \/ AllHere(r, k + 1)))
    <3>1. TAKE k \in Nat
    <3>2. HAVE 2 * k + 2 <= 2 * m + 2
    <3>3. CASE k = m
      BY <1>5, <1>6, <3>3, Zenon
    <3>4. CASE k # m
      <4>1. 2 * k + 2 <= 2 * m + 1 /\ 2 * k + 2 \in 1 .. 2 * m + 1
        BY <3>2, <3>4
      <4>2. l[2 * k + 2] => AllSent(r, k + 1) /\ (Scattering \/ AllHere(r, k + 1))
        BY <1>4, <4>1 DEF RankInv, LogInv
      <4> QED
        BY <1>5, <4>1, <4>2
    <3> QED
      BY <3>3, <3>4
  <2>3. \A k : [i \in Rank |-> Chunk(r, i, k, k + 1)'] = [i \in Rank |-> Chunk(r, i, k, k + 1)]
    BY SamePlan
  <2>4. Scattering' = Scattering /\ \A k : /\ AllSent(r, k + 1)' = AllSent(r, k + 1)
                                           /\ AllHere(r, k + 1)' = AllHere(r, k + 1)
    BY SamePlan
  <2>5. Len(log'[r]) = 2 * m + 2 /\ log'[r] \in Seq(Entry) /\ Entry' = Entry
    BY <1>4, <1>5 DEF Entry
  <2> QED
    BY <1>4, <2>1, <2>2, <2>3, <2>4, <2>5, Zenon DEF LogInv
<1>8. SentInv(r)'
  <2>1. \A k : [i \in Rank |-> Sent(r, i, k)'] = [i \in Rank |-> Sent(r, i, k)]
    BY SamePlan
  <2>2. Len(log'[r]) = 2 * m + 2
    BY <1>4, <1>5
  <2> QED
    BY <1>1, <1>2, <2>1, <2>2, Zenon DEF SentInv
<1>9. HereInv(r)'
  <2>1. \A k : Here(r, k)' = Here(r, k)
    BY SamePlan
  <2>2. rbuf'[r] = Here(r, m + 1)
    BY <1>3 DEF Here
  <2>3. Len(log'[r]) \div 2 = m + 1
    BY <1>1, <1>4, <1>5
  <2> QED
    BY <1>1, <2>1, <2>2, <2>3, Zenon DEF HereInv
<1>10. DoneInv(r)'
  <2>1. dst[r] = Waiting
    <3>1. \A k \in Nat : 2 * m + 1 # 2 * k
      OBVIOUS
    <3> QED
      BY <3>1 DEF RankInv, DoneInv
  <2> QED
    BY <2>1 DEF DoneInv, Waiting
<1> QED
  BY <1>7, <1>8, <1>9, <1>10 DEF RankInv

(* r is through.                                                           *)
LEMMA ThroughInv ==
  ASSUME op' = op, data' = data, log' = log, spos' = spos, rbuf' = rbuf, NEW r \in Rank,
         \A q \in Rank : RankInv(q), NEW m \in Nat, m # 0, Len(log[r]) = 2 * m, MayLeave(r),
         \A q \in Awaited(r) : Now(q, r), dst'[r] = Arrived(r)
  PROVE  RankInv(r)'
<1>1. RankInv(r)
  OBVIOUS
<1>2. LogInv(r)'
  <2>1. \A k : [i \in Rank |-> Chunk(r, i, k, k + 1)'] = [i \in Rank |-> Chunk(r, i, k, k + 1)]
    BY SamePlan
  <2>2. Scattering' = Scattering /\ \A k : /\ AllSent(r, k + 1)' = AllSent(r, k + 1)
                                           /\ AllHere(r, k + 1)' = AllHere(r, k + 1)
    BY SamePlan
  <2>3. LogInv(r)
    BY <1>1 DEF RankInv
  <2>4. Entry' = Entry
    BY DEF Entry
  <2> QED
    BY <2>1, <2>2, <2>3, <2>4, Zenon DEF LogInv
<1>3. SentInv(r)'
  <2>1. \A k : [i \in Rank |-> Sent(r, i, k)'] = [i \in Rank |-> Sent(r, i, k)]
    BY SamePlan
  <2>2. SentInv(r)
    BY <1>1 DEF RankInv
  <2> QED
    BY <2>1, <2>2, Zenon DEF SentInv
<1>4. HereInv(r)'
  <2>1. \A k : Here(r, k)' = Here(r, k)
    BY SamePlan
  <2>2. HereInv(r)
    BY <1>1 DEF RankInv
  <2> QED
    BY <2>1, <2>2, Zenon DEF HereInv
<1>5. AllHere(r, m)
  <2>1. PICK k \in Nat : m = k + 1 /\ 2 * m = 2 * k + 2
    <3>1. m - 1 \in Nat /\ m = (m - 1) + 1 /\ 2 * m = 2 * (m - 1) + 2
      OBVIOUS
    <3> QED
      BY <3>1
  <2>2. SUFFICES ASSUME NEW i \in Awaited(r) PROVE SendCount(i, r) = Sent(i, r, m)
    BY DEF AllHere
  <2>3. i \in Rank
    BY Consts DEF Awaited
  <2>4. Len(log[i]) >= 2 * k + 2
    BY <2>1, <2>2 DEF MayLeave
  <2>5. log[i][2 * k + 2]
    BY <2>1, <2>2 DEF Now
  <2>6. AllSent(i, k + 1)
    <3>1. LogInv(i)
      BY <2>3 DEF RankInv
    <3>2. Len(log[i]) \in Nat /\ 2 * k + 2 <= Len(log[i])
      BY <2>4, <3>1 DEF LogInv
    <3>3. log[i][2 * k + 2] => AllSent(i, k + 1) /\ (Scattering \/ AllHere(i, k + 1))
      BY <3>1, <3>2 DEF LogInv
    <3> QED
      BY <2>5, <3>3
  <2> QED
    BY <2>1, <2>3, <2>6 DEF AllSent
<1>6. DoneInv(r)'
  <2>1. Arrived(r)' = Arrived(r)
    BY DEF Arrived
  <2>2. AllHere(r, m)'
    BY <1>5, SamePlan
  <2> QED
    BY <2>1, <2>2 DEF DoneInv
<1> QED
  BY <1>2, <1>3, <1>4, <1>6 DEF RankInv

LEMMA Busy == Planned => op # Idle
BY DEF Planned, ScatterPlan, AlignPlan, SortPlan, Idle

(* Every step of a rank keeps the plan.                                    *)
LEMMA StepKeeps ==
  ASSUME ExchangeInv, NEW r \in Rank, Step(r)
  PROVE  ExchangeInv'
<1>1. Planned /\ \A q \in Rank : RankInv(q)
  <2>1. CASE Begin(r)
    BY <2>1 DEF ExchangeInv, Begin
  <2>2. CASE Begun(r)
    <3>1. ~Clean
      BY <2>2 DEF Clean, Begun, Empty
    <3> QED
      BY <3>1 DEF ExchangeInv
  <2> QED
    BY <2>1, <2>2 DEF Step, LeaveRound, LeaveVote
<1>2. DataInv /\ dst = [q \in Rank |-> dst[q]] /\ log = [q \in Rank |-> log[q]]
      /\ spos = [q \in Rank |-> spos[q]] /\ rbuf = [q \in Rank |-> rbuf[q]]
  BY DEF ExchangeInv
<1>3. \A s, i \in Rank : CountsOK(s, i)
  BY <1>1, <1>2, CountsFacts
<1>4. op' = op /\ data' = data
  BY DEF Step, Begin, LeaveRound, LeaveVote
<1>5. DataInv' /\ Planned'
  BY <1>1, <1>2, <1>4, SamePlan
<1>6. LogInv(r) /\ RankInv(r)
  BY <1>1 DEF RankInv
<1>7. PICK l \in Nat : l = Len(log[r])
  BY <1>6 DEF LogInv
<1>8. ASSUME /\ dst' = [q \in Rank |-> dst'[q]] /\ log' = [q \in Rank |-> log'[q]]
             /\ spos' = [q \in Rank |-> spos'[q]] /\ rbuf' = [q \in Rank |-> rbuf'[q]],
             \A q \in Rank : q # r => /\ dst'[q] = dst[q] /\ log'[q] = log[q]
                                      /\ spos'[q] = spos[q] /\ rbuf'[q] = rbuf[q],
             RankInv(r)'
      PROVE  ExchangeInv'
  <2>1. ASSUME NEW q \in Rank PROVE RankInv(q)'
    <3>1. CASE q = r
      BY <1>8, <3>1
    <3>2. CASE q # r
      <4>1. RankInv(q)
        BY <1>1
      <4> QED
        BY <1>4, <1>8, <3>2, <4>1, OtherRanks
    <3> QED
      BY <3>1, <3>2
  <2> QED
    BY <1>5, <1>8, <2>1 DEF ExchangeInv
<1>9. ASSUME EnterRound(r, spos[r]), UNCHANGED <<dst, rbuf>>, l % 2 = 0, dst[r] = Waiting
      PROVE  ExchangeInv'
  <2>1. PICK m \in Nat : l = 2 * m
    BY <1>9
  <2>2. /\ log'[r] = Append(log[r], Round(r, spos[r]))
        /\ spos'[r] = [i \in Rank |-> spos[r][i] + each_count(SendCount(r, i), spos[r][i])]
        /\ log' = [q \in Rank |-> log'[q]] /\ spos' = [q \in Rank |-> spos'[q]]
        /\ \A q \in Rank : q # r => log'[q] = log[q] /\ spos'[q] = spos[q]
    BY <1>2, <1>9 DEF EnterRound
  <2>3. RankInv(r)'
    <3>1. Len(log[r]) = 2 * m /\ \A i \in Rank : CountsOK(r, i)
      BY <1>3, <1>7, <2>1
    <3> QED
      BY <1>4, <1>6, <1>9, <2>2, <3>1, EnterRoundInv
  <2> QED
    BY <1>2, <1>8, <1>9, <2>2, <2>3
<1>10. CASE Begin(r)
  <2>1. log[r] = <<>>
    BY <1>10 DEF Begin, Begun
  <2>2. l = 0 /\ l % 2 = 0
    BY <1>7, <2>1
  <2> QED
    BY <1>9, <1>10, <2>2 DEF Begin
<1>11. CASE LeaveRound(r)
  <2>1. PICK m \in Nat : l = 2 * m + 1
    <3>1. InRound(r)
      BY <1>11, Zenon DEF LeaveRound
    <3>2. l % 2 = 1
      BY <1>7, <3>1 DEF InRound
    <3> QED
      BY <3>2
  <2>2. PICK here : here = [i \in Rank |-> IF i \in Awaited(r) THEN rbuf[r][i] \o Now(i, r)[r]
                                           ELSE rbuf[r][i]]
    OBVIOUS
  <2>3. rbuf' = [rbuf EXCEPT ![r] = here]
    BY <1>11, <2>2 DEF LeaveRound
  <2>4. rbuf'[r] = here /\ rbuf' = [q \in Rank |-> rbuf'[q]]
        /\ \A q \in Rank : q # r => rbuf'[q] = rbuf[q]
    BY <1>2, <2>3
  <2>5. PICK done \in BOOLEAN :
          done = (\A i \in Rank : SendCount(r, i) = spos[r][i]
                   /\ (Scattering \/ RecvCount(r, i) = Len(rbuf'[r][i])))
    OBVIOUS
  <2>6. log' = [log EXCEPT ![r] = Append(@, done)] /\ UNCHANGED <<dst, spos>>
    BY <1>11, <2>5 DEF LeaveRound
  <2>7. log'[r] = Append(log[r], done) /\ log' = [q \in Rank |-> log'[q]]
        /\ \A q \in Rank : q # r => log'[q] = log[q]
    BY <1>2, <2>6
  <2>8. done => \A i \in Rank : SendCount(r, i) = spos[r][i]
                  /\ (Scattering \/ RecvCount(r, i) = Len(here[i]))
    BY <2>4, <2>5
  <2>9. RankInv(r)'
    <3>1. Len(log[r]) = 2 * m + 1 /\ MayLeave(r) /\ dst' = dst /\ spos' = spos
      BY <1>7, <1>11, <2>1, <2>6 DEF LeaveRound
    <3> QED
      BY <1>1, <1>3, <1>4, <2>2, <2>4, <2>7, <2>8, <3>1, LeaveRoundInv
  <2> QED
    BY <1>2, <1>8, <2>4, <2>6, <2>7, <2>9
<1>12. CASE LeaveVote(r)
  <2>1. l % 2 = 0 /\ dst[r] = Waiting /\ rbuf' = rbuf /\ MayLeave(r)
    <3>1. ~InRound(r) /\ dst[r] = Waiting /\ rbuf' = rbuf /\ MayLeave(r)
      BY <1>12, Zenon DEF LeaveVote
    <3>2. l % 2 # 1
      BY <1>7, <3>1 DEF InRound
    <3> QED
      BY <3>1, <3>2
  <2>2. CASE EnterRound(r, spos[r]) /\ UNCHANGED dst
    BY <1>9, <2>1, <2>2
  <2>3. CASE /\ \A q \in Awaited(r) : Now(q, r)
             /\ dst' = [dst EXCEPT ![r] = Arrived(r)]
             /\ UNCHANGED <<log, spos>>
    <3>1. PICK m \in Nat : l = 2 * m
      BY <2>1
    <3>2. m # 0
      <4>1. log[r] # <<>>
        BY <1>12, Zenon DEF LeaveVote, Begun
      <4>2. log[r] \in Seq(Entry)
        BY <1>6 DEF LogInv
      <4>3. Len(log[r]) # 0
        BY <4>1, <4>2, EmptySeq
      <4> QED
        BY <1>7, <3>1, <4>3
    <3>3. dst'[r] = Arrived(r) /\ dst' = [q \in Rank |-> dst'[q]]
          /\ \A q \in Rank : q # r => dst'[q] = dst[q]
      BY <1>2, <2>3
    <3>4. RankInv(r)'
      <4>1. Len(log[r]) = 2 * m /\ log' = log /\ spos' = spos /\ \A q \in Awaited(r) : Now(q, r)
        BY <1>7, <2>3, <3>1
      <4> QED
        BY <1>1, <1>4, <2>1, <3>2, <3>3, <4>1, ThroughInv
    <3> QED
      BY <1>2, <1>8, <2>1, <2>3, <3>3, <3>4
  <2> QED
    BY <1>12, <2>2, <2>3 DEF LeaveVote
<1> QED
  BY <1>10, <1>11, <1>12 DEF Step

---------------------------------------------------------------------------
(* What has arrived when r is through.                                     *)

Column(r) == [i \in Rank |-> Share(i, r)]

LEMMA MineFacts ==
  ASSUME DataInv, Planned, NEW r \in Rank
  PROVE  /\ Mine(r) \in [Rank -> Seq(Value)]
         /\ Column(r) \in Layout /\ LayoutOf(Mine(r)) = Column(r)
         /\ \A i \in Rank : IsSlice(Value, Mine(r)[i], Held(i), Before(Shares(i), r), Share(i, r))
<1>1. \A i \in Rank : CountsOK(i, r)
  BY CountsFacts
<1>2. ASSUME NEW i \in Rank
      PROVE  IsSlice(Value, Mine(r)[i], Held(i), Before(Shares(i), r), Share(i, r))
  <2>1. PICK b \in Nat, n \in Nat : b = Before(Shares(i), r) /\ n = Share(i, r)
    BY <1>1 DEF CountsOK
  <2>2. PICK h \in Seq(Value) : h = Held(i)
    BY <1>1 DEF CountsOK
  <2>3. PICK l \in Nat : l = Len(h)
    OBVIOUS
  <2>4. b + n <= l
    BY <1>1, <2>1, <2>2, <2>3 DEF CountsOK
  <2>5. PICK e \in Nat : e = b + n /\ b <= e
    OBVIOUS
  <2>6. Mine(r)[i] = SubSeq(h, b + 1, e)
    BY <2>1, <2>2, <2>5 DEF Mine
  <2>7. PICK t : t = SubSeq(h, b + 1, e)
    OBVIOUS
  <2>8. IsSlice(Value, t, h, b, n)
    BY <2>3, <2>4, <2>5, <2>7, SliceIs
  <2> QED
    BY <2>1, <2>2, <2>6, <2>7, <2>8, Zenon
<1>3. Mine(r) \in [Rank -> Seq(Value)]
  BY <1>2 DEF Mine, IsSlice
<1>4. Column(r) \in Layout
  BY <1>1 DEF Column, CountsOK, Layout
<1>5. LayoutOf(Mine(r)) = Column(r)
  BY <1>2 DEF LayoutOf, Column, IsSlice
<1> QED
  BY <1>2, <1>3, <1>4, <1>5

LEMMA Received ==
  ASSUME DataInv, Planned, NEW r \in Rank, RankInv(r), dst[r] # Waiting
  PROVE  /\ rbuf[r] = [i \in Rank |-> Bytes(Mine(r)[i])]
         /\ dst[r] = Arrived(r)
<1>1. \A i \in Rank : CountsOK(i, r)
  BY CountsFacts
<1>2. PICK k \in Nat : k # 0 /\ Len(log[r]) = 2 * k /\ AllHere(r, k) /\ dst[r] = Arrived(r)
  BY DEF RankInv, DoneInv
<1>3. rbuf[r] = Here(r, k)
  <2>1. (2 * k) \div 2 = k
    OBVIOUS
  <2> QED
    BY <1>2, <2>1 DEF RankInv, HereInv
<1>4. ASSUME NEW i \in Rank PROVE Here(r, k)[i] = Bytes(Mine(r)[i])
  <2>1. PICK b \in Nat, n \in Nat : b = Before(Shares(i), r) /\ n = Share(i, r)
    BY <1>1 DEF CountsOK
  <2>2. PICK h \in Seq(Value) : h = Held(i)
    BY <1>1 DEF CountsOK
  <2>3. PICK l \in Nat : l = Len(h)
    OBVIOUS
  <2>4. b + n <= l
    BY <1>1, <2>1, <2>2, <2>3 DEF CountsOK
  <2>5. PICK e \in Nat : e = b + n /\ b <= e /\ e <= l
    <3>1. b + n \in Nat /\ b <= b + n
      OBVIOUS
    <3> QED
      BY <2>4, <3>1
  <2>6. Mine(r)[i] = SubSeq(h, b + 1, e)
    BY <2>1, <2>2, <2>5 DEF Mine
  <2>7. CASE i \in Awaited(r)
    <3>1. Here(r, k)[i] = Chunk(i, r, 0, k)
      BY <2>7 DEF Here
    <3>2. Sent(i, r, 0) = 0 /\ Sent(i, r, k) = SendCount(i, r)
      <4>1. SendCount(i, r) \in Nat
        BY <1>1 DEF CountsOK
      <4> QED
        BY <1>2, <2>7, <4>1, SentFacts DEF AllHere
    <3>3. Chunk(i, r, 0, k) = SubSeq(Bytes(h), b * ElementSize + 1, e * ElementSize)
      <4>1. sdispl(i, r) = b * ElementSize /\ SendCount(i, r) = n * ElementSize
            /\ sendbuf(i) = Bytes(h)
        BY <1>1, <2>1, <2>2 DEF CountsOK
      <4>2. b * ElementSize + 0 + 1 = b * ElementSize + 1
            /\ b * ElementSize + n * ElementSize = e * ElementSize
        <5>1. PICK z \in Nat : z = ElementSize
          BY Consts
        <5>2. b * z \in Nat /\ b * z + n * z = (b + n) * z
          OBVIOUS
        <5> QED
          BY <2>5, <5>1, <5>2
      <4> QED
        BY <3>2, <4>1, <4>2, Zenon DEF Chunk
    <3>4. SubSeq(Bytes(h), b * ElementSize + 1, e * ElementSize) = Bytes(SubSeq(h, b + 1, e))
      BY <2>3, <2>5, BytesOfSlice
    <3> QED
      BY <2>6, <3>1, <3>3, <3>4
  <2>8. CASE i \notin Awaited(r)
    <3>1. Here(r, k)[i] = <<>>
      BY <2>8 DEF Here
    <3>2. Scattering /\ i # 0
      BY <2>8 DEF Awaited
    <3>3. n = 0
      BY <1>1, <2>1, <3>2 DEF CountsOK
    <3>4. Mine(r)[i] = <<>>
      <4>1. e < b + 1 /\ b + 1 \in Nat
        BY <2>5, <3>3
      <4> QED
        BY <2>6, <4>1, SubSeqEmpty
    <3>5. Bytes(<<>>) = <<>>
      <4>1. 0 * ElementSize = 0
        BY Consts
      <4> QED
        BY <4>1 DEF Bytes
    <3> QED
      BY <3>1, <3>4, <3>5
  <2> QED
    BY <2>7, <2>8
<1>5. rbuf[r] = [i \in Rank |-> Bytes(Mine(r)[i])]
  BY <1>3, <1>4 DEF Here
<1> QED
  BY <1>2, <1>5

LEMMA ArrivedIs ==
  ASSUME DataInv, Planned, NEW r \in Rank, RankInv(r), dst[r] # Waiting
  PROVE  /\ dst[r] = IF op.name = "sort" THEN multimerge(Mine(r)) ELSE Global(Mine(r))
         /\ op.name # "sort" => Bytes(dst[r]) = Global(rbuf[r])
<1>1. PICK m : m = Mine(r)
  OBVIOUS
<1>2. m \in [Rank -> Seq(Value)]
  BY <1>1, MineFacts
<1>3. rbuf[r] = [i \in Rank |-> Bytes(m[i])] /\ dst[r] = Arrived(r)
  BY <1>1, Received
<1>4. CASE op.name = "sort"
  <2>1. \A i \in Rank : Elements(Bytes(m[i])) = m[i]
    BY <1>2, ElementsOfBytes
  <2>2. [i \in Rank |-> Elements(rbuf[r][i])] = m
    BY <1>2, <1>3, <2>1
  <2> QED
    BY <1>1, <1>3, <1>4, <2>2 DEF Arrived
<1>5. CASE op.name # "sort"
  <2>1. Global(rbuf[r]) = Bytes(Global(m))
    BY <1>2, <1>3, BytesOfGlobal
  <2>2. Global(m) \in Seq(Value)
    BY <1>2, GlobalFacts
  <2>3. Elements(Bytes(Global(m))) = Global(m)
    BY <2>2, ElementsOfBytes
  <2> QED
    BY <1>1, <1>3, <1>5, <2>1, <2>3 DEF Arrived
<1> QED
  BY <1>4, <1>5

LEMMA AskedFor ==
  ASSUME DataInv, Planned, op.name # "sort", NEW r \in Rank
  PROVE  op.sizes \in Layout /\ Total(op.sizes) \in Nat /\ Total(op.sizes) <= MaxTotal
         /\ Total(Column(r)) = op.sizes[r]
<1>1. CASE ScatterPlan
  <2>1. PICK src \in Seq(Value), sizes \in Layout :
          /\ op = [name |-> "scatter", src |-> src, sizes |-> sizes]
          /\ Len(src) <= MaxTotal /\ Total(sizes) = Len(src)
    BY <1>1 DEF ScatterPlan
  <2>2. op.name = "scatter" /\ op.sizes = sizes
    BY <2>1
  <2>3. PICK w \in Layout : w = Column(r)
    BY MineFacts
  <2>4. w[0] = sizes[r] /\ \A i \in Rank : i # 0 => w[i] = 0
    BY <2>2, <2>3, Consts DEF Column, Share
  <2>5. PICK c : c = [k \in 0 .. N |-> IF k = 0 THEN 0 ELSE sizes[r]]
    OBVIOUS
  <2>6. sizes[r] \in Nat
    BY DEF Layout
  <2>7. \A k \in Rank : c[k] + w[k] = c[k + 1]
    <3>1. TAKE k \in Rank
    <3>2. k \in Nat /\ k \in 0 .. N /\ k + 1 \in 0 .. N /\ k + 1 # 0
      BY Consts DEF Rank
    <3> QED
      BY <2>4, <2>5, <2>6, <3>2
  <2>8. c[0] = 0 /\ c[N] = sizes[r]
    BY <2>5, Consts
  <2>9. Before(w, N) = sizes[r]
    BY <2>3, <2>7, <2>8, Telescope, Consts
  <2>10. Total(w) = sizes[r] /\ Len(src) \in Nat
    BY <2>9, BeforeFacts
  <2> QED
    BY <2>1, <2>2, <2>3, <2>10
<1>2. CASE AlignPlan
  <2>1. PICK sizes \in Layout :
          /\ op = [name |-> "align", old |-> LayoutOf(data), sizes |-> sizes]
          /\ Total(sizes) = Total(LayoutOf(data))
    BY <1>2 DEF AlignPlan
  <2>2. PICK old \in Layout : old = LayoutOf(data)
    BY LayoutType DEF DataInv
  <2>3. op.name = "align" /\ op.old = old /\ op.sizes = sizes
    BY <2>1, <2>2
  <2>4. Column(r) = [s \in Rank |-> alltoall_size(old, sizes, s, r)]
    BY <2>3 DEF Column, Share
  <2>5. Total(Column(r)) = sizes[r]
    BY <2>1, <2>2, <2>4, AlignArrives DEF Total
  <2>6. Total(sizes) \in Nat
    BY BeforeFacts, BeforeGrows, Consts
  <2> QED
    BY <2>1, <2>3, <2>5, <2>6 DEF DataInv
<1>3. CASE SortPlan
  BY <1>3 DEF SortPlan
<1> QED
  BY <1>1, <1>2, <1>3 DEF Planned

---------------------------------------------------------------------------
(* multimerge.                                                             *)

Ahead(p, idx) == {i \in Rank : idx[i] < Len(p[i])}
Least(p, idx) ==
  CHOOSE i \in Ahead(p, idx) : \A j \in Ahead(p, idx) : p[i][idx[i] + 1] <= p[j][idx[j] + 1]
MergeStep(p, f, idx) ==
  IF Ahead(p, idx) = {} THEN <<>>
  ELSE <<p[Least(p, idx)][idx[Least(p, idx)] + 1]>>
         \o f[[idx EXCEPT ![Least(p, idx)] = @ + 1]]

Merges(p, f) == f = [idx \in [Rank -> 0 .. MaxTotal] |-> MergeStep(p, f, idx)]

(* How much is left to merge, at most.                                     *)
Ahead_bound(idx) == N * MaxTotal - Total(idx)
MergesUpTo(p, n, f) ==
  \A idx \in [Rank -> 0 .. MaxTotal] : Ahead_bound(idx) < n => f[idx] = MergeStep(p, f, idx)

Fits(p) == p \in [Rank -> Seq(Nat)] /\ \A i \in Rank : Len(p[i]) <= MaxTotal

(* There is a least head, and taking it brings idx further.                *)
LEMMA LeastFacts ==
  ASSUME NEW p, Fits(p), NEW idx \in [Rank -> 0 .. MaxTotal], Ahead(p, idx) # {}
  PROVE  /\ Least(p, idx) \in Rank /\ idx[Least(p, idx)] < Len(p[Least(p, idx)])
         /\ \A j \in Ahead(p, idx) :
              p[Least(p, idx)][idx[Least(p, idx)] + 1] <= p[j][idx[j] + 1]
         /\ [idx EXCEPT ![Least(p, idx)] = @ + 1] \in [Rank -> 0 .. MaxTotal]
<1> DEFINE A == Ahead(p, idx)
           T == {p[j][idx[j] + 1] : j \in A}
<1>1. \A j \in A : j \in Rank /\ p[j][idx[j] + 1] \in Nat
  <2>1. TAKE j \in A
  <2>2. j \in Rank /\ idx[j] < Len(p[j]) /\ idx[j] \in Nat
    BY Consts DEF Ahead
  <2>3. PICK s \in Seq(Nat) : s = p[j]
    BY <2>2 DEF Fits
  <2>4. idx[j] + 1 \in 1 .. Len(s)
    BY <2>2, <2>3
  <2> QED
    BY <2>2, <2>3, <2>4
<1>2. T \subseteq Nat /\ T # {}
  BY <1>1
<1> HIDE DEF T
<1>3. PICK m \in T : \A k \in T : m <= k
  BY <1>2, LeastNat
<1>4. \E i \in A : \A j \in A : p[i][idx[i] + 1] <= p[j][idx[j] + 1]
  BY <1>3 DEF T
<1>5. PICK i : i = Least(p, idx)
  OBVIOUS
<1>6. i \in A /\ \A j \in A : p[i][idx[i] + 1] <= p[j][idx[j] + 1]
  BY <1>4, <1>5 DEF Least
<1>7. i \in Rank /\ idx[i] < Len(p[i])
  BY <1>6 DEF Ahead
<1>8. idx[i] + 1 \in 0 .. MaxTotal
  <2>1. Len(p[i]) <= MaxTotal /\ Len(p[i]) \in Nat /\ MaxTotal \in Nat /\ idx[i] \in Nat
    BY <1>7, Consts DEF Fits
  <2> QED
    BY <1>7, <2>1
<1>9. [idx EXCEPT ![i] = @ + 1] \in [Rank -> 0 .. MaxTotal]
  BY <1>7, <1>8
<1> QED
  BY <1>5, <1>6, <1>7, <1>9

LEMMA TotalDiffers ==
  ASSUME NEW u \in Layout, NEW v \in Layout, NEW i \in Rank, \A j \in Rank : j # i => u[j] = v[j]
  PROVE  Total(u) + v[i] = Total(v) + u[i]
<1>1. IsFiniteSet(Rank) /\ DOMAIN u = Rank /\ DOMAIN v = Rank
  <2>1. 0 \in Int /\ N - 1 \in Int
    BY Consts
  <2> QED
    BY <2>1, FS_Interval DEF Rank, Layout
<1>2. \A j \in Rank : u[j] \in Int /\ v[j] \in Int
  BY DEF Layout
<1>3. Total(u) = SumFunctionOnSet(u, Rank) /\ Total(v) = SumFunctionOnSet(v, Rank)
  BY <1>1 DEF Total, SumFunction
<1>4. PICK R : R = Rank \ {i}
  OBVIOUS
<1>5. /\ SumFunctionOnSet(u, Rank) = u[i] + SumFunctionOnSet(u, R)
      /\ SumFunctionOnSet(v, Rank) = v[i] + SumFunctionOnSet(v, R)
  <2>1. Rank \in SUBSET Rank
    OBVIOUS
  <2>2. \A x \in Rank : SumFunctionOnSet(u, Rank) = u[x] + SumFunctionOnSet(u, Rank \ {x})
    BY <1>1, <1>2, <2>1, SumTakesOut
  <2>3. \A x \in Rank : SumFunctionOnSet(v, Rank) = v[x] + SumFunctionOnSet(v, Rank \ {x})
    BY <1>1, <1>2, <2>1, SumTakesOut
  <2> QED
    BY <1>4, <2>2, <2>3
<1>6. IsFiniteSet(R) /\ R \in SUBSET Rank
  BY <1>1, <1>4, FS_RemoveElement
<1>7. SumFunctionOnSet(u, R) = SumFunctionOnSet(v, R)
  <2>1. \A x \in R : u[x] = v[x]
    BY <1>4
  <2>2. R \in SUBSET R
    OBVIOUS
  <2> QED
    BY <1>6, <2>1, <2>2, SumAlike
<1>8. SumFunctionOnSet(u, R) \in Int
  BY <1>1, <1>2, <1>6, SumType
<1> QED
  BY <1>2, <1>3, <1>5, <1>7, <1>8

LEMMA TimesOne ==
  ASSUME NEW e \in Nat, NEW x \in Nat
  PROVE  Times(<<e>>, x) = IF e = x THEN 1 ELSE 0
<1>1. CASE e = x
  <2>1. {i \in DOMAIN <<e>> : <<e>>[i] = x} = {1}
    BY <1>1
  <2> QED
    BY <1>1, <2>1, FS_Singleton DEF Times
<1>2. CASE e # x
  <2>1. {i \in DOMAIN <<e>> : <<e>>[i] = x} = {}
    BY <1>2
  <2> QED
    BY <1>2, <2>1, FS_EmptySet DEF Times
<1> QED
  BY <1>1, <1>2

LEMMA TimesConcat ==
  ASSUME NEW a \in Seq(Nat), NEW b \in Seq(Nat), NEW x \in Nat
  PROVE  Times(a \o b, x) = Times(a, x) + Times(b, x)
<1>1. PICK n \in Nat, m \in Nat : n = Len(a) /\ m = Len(b)
  OBVIOUS
<1>2. PICK c : c = a \o b
  OBVIOUS
<1>3. /\ DOMAIN c = 1 .. n + m /\ DOMAIN a = 1 .. n /\ DOMAIN b = 1 .. m
      /\ \A i \in 1 .. n : c[i] = a[i]
      /\ \A i \in 1 .. m : c[n + i] = b[i]
  BY <1>1, <1>2
<1>4. PICK A, B, C, D :
        /\ A = {i \in DOMAIN a : a[i] = x} /\ B = {i \in DOMAIN b : b[i] = x}
        /\ C = {i \in DOMAIN c : c[i] = x} /\ D = {i \in n + 1 .. n + m : c[i] = x}
  OBVIOUS
<1>5. C = A \cup D
  <2>1. \A i \in DOMAIN c : i \in 1 .. n \/ i \in n + 1 .. n + m
    BY <1>3
  <2>2. \A i \in 1 .. n : i \in DOMAIN c
    BY <1>3
  <2>3. \A i \in n + 1 .. n + m : i \in DOMAIN c
    BY <1>3
  <2> QED
    BY <1>3, <1>4, <2>1, <2>2, <2>3
<1>6. A \cap D = {}
  <2>1. \A i \in 1 .. n : i \notin n + 1 .. n + m
    OBVIOUS
  <2> QED
    BY <1>3, <1>4, <2>1
<1>7. IsFiniteSet(A) /\ IsFiniteSet(B)
  <2>1. IsFiniteSet(1 .. n) /\ IsFiniteSet(1 .. m)
    BY FS_Interval
  <2>2. A \in SUBSET (1 .. n) /\ B \in SUBSET (1 .. m)
    BY <1>3, <1>4
  <2> QED
    BY <2>1, <2>2, FS_Subset
<1>8. IsFiniteSet(D) /\ Cardinality(D) = Cardinality(B)
  <2>1. PICK f : f = [k \in B |-> n + k]
    OBVIOUS
  <2>2. \A k \in B : k \in 1 .. m /\ c[n + k] = x
    BY <1>3, <1>4
  <2>3. f \in [B -> D]
    BY <1>4, <2>1, <2>2
  <2>4. \A k, l \in B : f[k] = f[l] => k = l
    BY <2>1, <2>2
  <2>5. \A d \in D : \E k \in B : f[k] = d
    <3>1. TAKE d \in D
    <3>2. d \in n + 1 .. n + m /\ c[d] = x
      BY <1>4
    <3>3. PICK k \in 1 .. m : d = n + k
      <4>1. d - n \in 1 .. m /\ d = n + (d - n)
        BY <3>2
      <4> QED
        BY <4>1
    <3>4. k \in B
      BY <1>3, <1>4, <3>2, <3>3
    <3> QED
      BY <2>1, <3>3, <3>4
  <2>6. f \in Bijection(B, D)
    BY <2>3, <2>4, <2>5 DEF Bijection, Injection, Surjection, IsInjective
  <2>7. ExistsBijection(B, D)
    BY <2>6 DEF ExistsBijection
  <2> QED
    BY <1>7, <2>7, FS_Bijection
<1>9. Cardinality(C) = Cardinality(A) + Cardinality(D)
  <2>1. Cardinality(A) \in Nat /\ Cardinality(D) \in Nat
    BY <1>7, <1>8, FS_CardinalityType
  <2>2. Cardinality(A \cup D) = Cardinality(A) + Cardinality(D) - Cardinality(A \cap D)
    BY <1>7, <1>8, FS_Union
  <2>3. Cardinality(A \cap D) = 0
    BY <1>6, FS_EmptySet
  <2> QED
    BY <1>5, <2>1, <2>2, <2>3
<1> QED
  BY <1>2, <1>4, <1>8, <1>9 DEF Times

(* s is what the sequences d make together, merged.                        *)
Ones(d, x) == [i \in Rank |-> Times(d[i], x)]
Merged(d, s) ==
  /\ s \in Seq(Nat) /\ Ascends(s) /\ Len(s) = Total(LayoutOf(d))
  /\ \A x \in Nat : Times(s, x) = Total(Ones(d, x))
  /\ \A k \in 1 .. Len(s) : \E i \in Rank : \E j \in 1 .. Len(d[i]) : s[k] = d[i][j]

LEMMA OnesType ==
  ASSUME NEW d \in [Rank -> Seq(Nat)], NEW x \in Nat
  PROVE  Ones(d, x) \in Layout /\ \A i \in Rank : Ones(d, x)[i] = Times(d[i], x)
<1>1. \A i \in Rank : Times(d[i], x) \in Nat
  BY CountFacts
<1> QED
  BY <1>1 DEF Ones, Layout

LEMMA MergeOne ==
  ASSUME NEW d \in [Rank -> Seq(Nat)], NEW d2 \in [Rank -> Seq(Nat)], NEW q \in Rank,
         NEW h \in Nat, d[q] = <<h>> \o d2[q], \A j \in Rank : j # q => d2[j] = d[j],
         \A i \in Rank : Ascends(d[i]), \A i \in Rank : d[i] # <<>> => h <= d[i][1],
         NEW s, Merged(d2, s)
  PROVE  Merged(d, <<h>> \o s)
<1>1. s \in Seq(Nat) /\ Ascends(s) /\ Len(s) = Total(LayoutOf(d2))
      /\ \A x \in Nat : Times(s, x) = Total(Ones(d2, x))
      /\ \A k \in 1 .. Len(s) : \E i \in Rank : \E j \in 1 .. Len(d2[i]) : s[k] = d2[i][j]
  BY DEF Merged
<1>2. PICK n \in Nat : n = Len(s)
  BY <1>1
<1>3. PICK t : t = <<h>> \o s
  OBVIOUS
<1>4. /\ t \in Seq(Nat) /\ Len(t) = n + 1 /\ DOMAIN t = 1 .. n + 1 /\ t[1] = h
      /\ \A k \in 1 .. n : t[k + 1] = s[k]
  BY <1>1, <1>2, <1>3
<1>5. PICK m \in Nat : m = Len(d2[q]) /\ Len(d[q]) = m + 1 /\ d[q][1] = h
                       /\ \A j \in 1 .. m : d[q][j + 1] = d2[q][j]
  OBVIOUS
<1>6. Len(t) = Total(LayoutOf(d))
  <2>1. PICK u \in Layout, v \in Layout :
          /\ u = LayoutOf(d) /\ v = LayoutOf(d2)
          /\ \A r \in Rank : u[r] = Len(d[r]) /\ v[r] = Len(d2[r])
    BY LayoutType
  <2>2. Total(u) + v[q] = Total(v) + u[q]
    <3>1. \A j \in Rank : j # q => u[j] = v[j]
      BY <2>1
    <3> QED
      BY <3>1, TotalDiffers
  <2>3. Total(u) \in Nat /\ Total(v) = n
    BY <1>1, <1>2, <2>1, BeforeFacts, BeforeGrows, Consts
  <2>4. v[q] = m /\ u[q] = m + 1
    BY <1>5, <2>1
  <2>5. Total(u) = n + 1
    BY <2>2, <2>3, <2>4, SMTT(20)
  <2> QED
    BY <1>4, <2>1, <2>5
<1>7. ASSUME NEW x \in Nat PROVE Times(t, x) = Total(Ones(d, x))
  <2>1. PICK u \in Layout, v \in Layout :
          /\ u = Ones(d, x) /\ v = Ones(d2, x)
          /\ \A i \in Rank : u[i] = Times(d[i], x) /\ v[i] = Times(d2[i], x)
    <3>1. /\ Ones(d, x) \in Layout /\ \A i \in Rank : Ones(d, x)[i] = Times(d[i], x)
          /\ Ones(d2, x) \in Layout /\ \A i \in Rank : Ones(d2, x)[i] = Times(d2[i], x)
      BY OnesType
    <3> QED
      BY <3>1
  <2>2. Total(u) + v[q] = Total(v) + u[q]
    <3>1. \A j \in Rank : j # q => u[j] = v[j]
      BY <2>1
    <3> QED
      BY <3>1, TotalDiffers
  <2>3. PICK o \in Nat : o = Times(<<h>>, x)
    BY TimesOne
  <2>4. u[q] = o + v[q] /\ u[q] \in Nat /\ v[q] \in Nat
    <3>1. PICK a, b : a = <<h>> /\ b = d2[q]
      OBVIOUS
    <3>0. a \in Seq(Nat) /\ b \in Seq(Nat)
      BY <3>1
    <3>2. Times(a \o b, x) = Times(a, x) + Times(b, x)
      BY <3>0, TimesConcat
    <3>3. u[q] \in Nat /\ v[q] \in Nat
      BY DEF Layout
    <3> QED
      BY <2>1, <2>3, <3>1, <3>2, <3>3
  <2>5. Times(t, x) = o + Total(v)
    <3>1. PICK a : a = <<h>>
      OBVIOUS
    <3>0. a \in Seq(Nat)
      BY <3>1
    <3>2. Times(a \o s, x) = Times(a, x) + Times(s, x)
      BY <1>1, <3>0, TimesConcat
    <3>3. Times(s, x) = Total(v)
      BY <1>1, <2>1
    <3> QED
      BY <1>3, <2>3, <3>1, <3>2, <3>3
  <2>6. Total(u) \in Nat /\ Total(v) \in Nat
    BY BeforeFacts, BeforeGrows, Consts
  <2>7. Total(u) = o + Total(v)
    <3>1. PICK a \in Nat, b \in Nat, y \in Nat, z \in Nat :
            a = Total(u) /\ b = Total(v) /\ y = u[q] /\ z = v[q]
      BY <2>4, <2>6
    <3>2. a + z = b + y /\ y = o + z
      BY <2>2, <2>4, <3>1
    <3>3. a = o + b
      BY <3>2
    <3> QED
      BY <3>1, <3>3
  <2> QED
    BY <2>1, <2>5, <2>7
<1>8. ASSUME NEW k \in 1 .. n
      PROVE  \E i \in Rank : \E j \in 1 .. Len(d[i]) : s[k] = d[i][j]
  <2>1. PICK i \in Rank : \E j \in 1 .. Len(d2[i]) : s[k] = d2[i][j]
    BY <1>1, <1>2
  <2>2. PICK j \in 1 .. Len(d2[i]) : s[k] = d2[i][j]
    BY <2>1
  <2>3. CASE i = q
    <3>1. j + 1 \in 1 .. Len(d[i]) /\ d[i][j + 1] = s[k]
      BY <1>5, <2>2, <2>3
    <3> QED
      BY <3>1
  <2>4. CASE i # q
    BY <2>2, <2>4
  <2> QED
    BY <2>3, <2>4
<1>9. ASSUME NEW k \in 1 .. n PROVE h <= s[k]
  <2>1. PICK i \in Rank : \E j \in 1 .. Len(d[i]) : s[k] = d[i][j]
    BY <1>8
  <2>2. PICK j \in 1 .. Len(d[i]) : s[k] = d[i][j]
    BY <2>1
  <2>3. PICK z \in Seq(Nat) : z = d[i]
    OBVIOUS
  <2>4. j \in 1 .. Len(z) /\ DOMAIN z = 1 .. Len(z) /\ 1 \in DOMAIN z /\ z[1] \in Nat /\ z[j] \in Nat
        /\ z # <<>>
    BY <2>2, <2>3
  <2>5. h <= z[1]
    BY <2>3, <2>4
  <2>6. z[1] <= z[j]
    <3>1. CASE j = 1
      BY <2>4, <3>1
    <3>2. CASE j # 1
      <4>1. 1 < j /\ j \in DOMAIN z /\ 1 \in DOMAIN z
        BY <2>4, <3>2
      <4>2. Ascends(z)
        BY <2>3
      <4> QED
        BY <4>1, <4>2 DEF Ascends
    <3> QED
      BY <3>1, <3>2
  <2> QED
    BY <2>2, <2>3, <2>4, <2>5, <2>6
<1>10. Ascends(t)
  <2>1. SUFFICES ASSUME NEW i \in 1 .. n + 1, NEW j \in 1 .. n + 1, i < j PROVE t[i] <= t[j]
    BY <1>4 DEF Ascends
  <2>2. PICK b \in 1 .. n : j = b + 1
    <3>1. j - 1 \in 1 .. n /\ j = (j - 1) + 1
      BY <2>1
    <3> QED
      BY <3>1
  <2>3. t[j] = s[b]
    BY <1>4, <2>2
  <2>4. CASE i = 1
    BY <1>4, <1>9, <2>3, <2>4
  <2>5. CASE i # 1
    <3>1. PICK a \in 1 .. n : i = a + 1
      <4>1. i - 1 \in 1 .. n /\ i = (i - 1) + 1
        BY <2>5
      <4> QED
        BY <4>1
    <3>2. t[i] = s[a] /\ a < b /\ DOMAIN s = 1 .. n
      BY <1>1, <1>2, <1>4, <2>1, <2>2, <3>1
    <3> QED
      BY <1>1, <2>3, <3>2 DEF Ascends
  <2> QED
    BY <2>4, <2>5
<1>11. \A k \in 1 .. Len(t) : \E i \in Rank : \E j \in 1 .. Len(d[i]) : t[k] = d[i][j]
  <2>1. TAKE k \in 1 .. Len(t)
  <2>2. CASE k = 1
    <3>1. 1 \in 1 .. Len(d[q]) /\ t[k] = d[q][1]
      BY <1>4, <1>5, <2>2
    <3> QED
      BY <3>1
  <2>3. CASE k # 1
    <3>1. PICK a \in 1 .. n : k = a + 1
      <4>1. k - 1 \in 1 .. n /\ k = (k - 1) + 1
        BY <1>4, <2>3
      <4> QED
        BY <4>1
    <3> QED
      BY <1>4, <1>8, <3>1
  <2> QED
    BY <2>2, <2>3
<1> QED
  BY <1>3, <1>4, <1>6, <1>7, <1>10, <1>11 DEF Merged

Places == [Rank -> 0 .. MaxTotal]
Next_place(p, idx) == [idx EXCEPT ![Least(p, idx)] = @ + 1]

LEMMA PlaceBound ==
  ASSUME NEW idx \in Places
  PROVE  Ahead_bound(idx) \in Nat /\ Ahead_bound(idx) <= N * MaxTotal /\ N * MaxTotal \in Nat
<1>1. Total(idx) \in Nat /\ Total(idx) <= N * MaxTotal
  BY Consts, TotalBound DEF Places
<1>2. PICK m \in Nat : m = N * MaxTotal
  BY Consts
<1> QED
  BY <1>1, <1>2 DEF Ahead_bound

LEMMA Forward ==
  ASSUME NEW p, Fits(p), NEW idx \in Places, Ahead(p, idx) # {}
  PROVE  Next_place(p, idx) \in Places /\ Ahead_bound(Next_place(p, idx)) < Ahead_bound(idx)
<1>1. PICK i \in Rank : i = Least(p, idx)
  BY LeastFacts DEF Places
<1>2. PICK u : u = [idx EXCEPT ![i] = @ + 1]
  OBVIOUS
<1>3. u \in Places /\ u = Next_place(p, idx)
  BY <1>1, <1>2, LeastFacts DEF Places, Next_place
<1>4. u \in Layout /\ idx \in Layout
  BY <1>3 DEF Places, Layout
<1>5. \A j \in Rank : j # i => u[j] = idx[j]
  BY <1>2 DEF Places
<1>6. u[i] = idx[i] + 1 /\ idx[i] \in Nat
  BY <1>2, Consts DEF Places
<1>7. Total(u) + idx[i] = Total(idx) + u[i]
  BY <1>4, <1>5, TotalDiffers
<1>8. PICK a \in Nat, b \in Nat : a = Total(u) /\ b = Total(idx)
  BY <1>4, BeforeFacts, BeforeGrows, Consts
<1>9. a = b + 1
  BY <1>6, <1>7, <1>8
<1>10. PICK m \in Nat : m = N * MaxTotal
  BY Consts
<1> QED
  BY <1>3, <1>8, <1>9, <1>10 DEF Ahead_bound

(* The recursion of multimerge has a solution.                             *)
LEMMA MergesExist ==
  ASSUME NEW p, Fits(p)
  PROVE  \E f : Merges(p, f)
<1> DEFINE T == {n \in Nat : \E f : MergesUpTo(p, n, f)}
<1>1. 0 \in T
  <2>1. \A idx \in Places : ~(Ahead_bound(idx) < 0)
    <3>1. TAKE idx \in Places
    <3>2. Ahead_bound(idx) \in Nat
      BY PlaceBound
    <3> QED
      BY <3>2
  <2>2. MergesUpTo(p, 0, p)
    BY <2>1 DEF MergesUpTo, Places
  <2> QED
    BY <2>2
<1>2. ASSUME NEW n \in Nat, n \in T PROVE n + 1 \in T
  <2>1. PICK f : MergesUpTo(p, n, f)
    BY <1>2
  <2>2. PICK g : g = [idx \in Places |-> MergeStep(p, f, idx)]
    OBVIOUS
  <2>3. ASSUME NEW idx \in Places, Ahead_bound(idx) < n + 1
        PROVE  g[idx] = MergeStep(p, g, idx)
    <3>1. g[idx] = MergeStep(p, f, idx)
      BY <2>2
    <3>2. CASE Ahead(p, idx) = {}
      BY <3>1, <3>2, Zenon DEF MergeStep
    <3>3. CASE Ahead(p, idx) # {}
      <4>1. PICK u \in Places : u = Next_place(p, idx) /\ Ahead_bound(u) < Ahead_bound(idx)
        BY <3>3, Forward
      <4>2. Ahead_bound(u) < n
        <5>1. Ahead_bound(u) \in Nat /\ Ahead_bound(idx) \in Nat
          BY PlaceBound
        <5> QED
          BY <2>3, <4>1, <5>1
      <4>3. f[u] = MergeStep(p, f, u)
        BY <2>1, <4>2 DEF MergesUpTo, Places
      <4>4. g[u] = f[u]
        BY <2>2, <4>3
      <4>5. g[Next_place(p, idx)] = f[Next_place(p, idx)]
        BY <4>1, <4>4
      <4> QED
        BY <3>1, <3>3, <4>5, Zenon DEF MergeStep, Next_place
    <3> QED
      BY <3>2, <3>3
  <2>4. MergesUpTo(p, n + 1, g)
    BY <2>3 DEF MergesUpTo, Places
  <2> QED
    BY <2>4
<1> HIDE DEF T
<1>3. Nat \subseteq T
  BY <1>1, <1>2, NatSetInduction
<1>4. PICK m \in Nat : m = N * MaxTotal
  BY Consts
<1>5. PICK f : MergesUpTo(p, m + 1, f)
  <2>1. m + 1 \in T
    BY <1>3
  <2> QED
    BY <2>1 DEF T
<1>6. PICK g : g = [idx \in Places |-> f[idx]]
  OBVIOUS
<1>7. ASSUME NEW idx \in Places PROVE f[idx] = MergeStep(p, f, idx)
  <2>1. Ahead_bound(idx) < m + 1
    BY <1>4, PlaceBound
  <2> QED
    BY <1>5, <2>1 DEF MergesUpTo, Places
<1>8. ASSUME NEW idx \in Places PROVE MergeStep(p, f, idx) = MergeStep(p, g, idx)
  <2>1. CASE Ahead(p, idx) = {}
    BY <2>1, Zenon DEF MergeStep
  <2>2. CASE Ahead(p, idx) # {}
    <3>1. g[Next_place(p, idx)] = f[Next_place(p, idx)]
      BY <1>6, <2>2, Forward
    <3> QED
      BY <3>1, Zenon DEF MergeStep, Next_place
  <2> QED
    BY <2>1, <2>2
<1>9. g = [idx \in Places |-> MergeStep(p, g, idx)]
  BY <1>6, <1>7, <1>8
<1> QED
  BY <1>9, Zenon DEF Merges, Places

LEMMA MultimergeIs ==
  ASSUME NEW p, Fits(p)
  PROVE  \E f : Merges(p, f) /\ multimerge(p) = f[[i \in Rank |-> 0]]
<1>1. multimerge(p) = (CHOOSE f : Merges(p, f))[[i \in Rank |-> 0]]
  BY Zenon DEF multimerge, Merges, MergeStep, Least, Ahead
<1>2. Merges(p, CHOOSE f : Merges(p, f))
  BY MergesExist, Zenon
<1> QED
  BY <1>1, <1>2, Zenon

Rest(p, idx) == [i \in Rank |-> SubSeq(p[i], idx[i] + 1, Len(p[i]))]
Within(p, idx) == idx \in Places /\ \A i \in Rank : idx[i] <= Len(p[i])

LEMMA RestFacts ==
  ASSUME NEW p, Fits(p), NEW idx, Within(p, idx), NEW i \in Rank
  PROVE  /\ Rest(p, idx)[i] \in Seq(Nat)
         /\ Len(Rest(p, idx)[i]) = Len(p[i]) - idx[i]
         /\ \A k \in 1 .. Len(p[i]) - idx[i] : Rest(p, idx)[i][k] = p[i][idx[i] + k]
         /\ Ascends(p[i]) => Ascends(Rest(p, idx)[i])
<1>1. PICK s \in Seq(Nat) : s = p[i]
  BY DEF Fits
<1>2. PICK l \in Nat : l = Len(s)
  OBVIOUS
<1>3. PICK a \in Nat : a = idx[i] /\ a <= l
  BY <1>1, <1>2, Consts DEF Within, Places
<1>4. PICK n \in Nat : a + n = l /\ n = l - a
  <2>1. l - a \in Nat /\ a + (l - a) = l
    BY <1>3
  <2> QED
    BY <2>1
<1>5. PICK t : t = SubSeq(s, a + 1, l)
  OBVIOUS
<1>6. IsSlice(Nat, t, s, a, n)
  <2>1. a <= l /\ l <= l /\ a + n = l /\ l = Len(s)
    BY <1>2, <1>3, <1>4
  <2> QED
    BY <1>5, <2>1, SliceIs
<1>7. t \in Seq(Nat) /\ Len(t) = n /\ \A k \in 1 .. n : t[k] = s[a + k]
  BY <1>6 DEF IsSlice
<1>8. Rest(p, idx)[i] = t
  BY <1>1, <1>2, <1>3, <1>5 DEF Rest
<1>9. ASSUME Ascends(s) PROVE Ascends(t)
  <2>1. SUFFICES ASSUME NEW j \in 1 .. n, NEW k \in 1 .. n, j < k PROVE t[j] <= t[k]
    BY <1>7 DEF Ascends
  <2>2. PICK x \in Nat, y \in Nat : x = a + j /\ y = a + k /\ x < y
    <3>1. a + j \in Nat /\ a + k \in Nat /\ a + j < a + k
      BY <2>1
    <3> QED
      BY <3>1
  <2>3. x \in DOMAIN s /\ y \in DOMAIN s
    BY <1>2, <1>4, <2>2
  <2> QED
    BY <1>7, <1>9, <2>2, <2>3 DEF Ascends
<1> QED
  BY <1>1, <1>2, <1>3, <1>4, <1>7, <1>8, <1>9

LEMMA MergedNone ==
  ASSUME NEW d \in [Rank -> Seq(Nat)], \A i \in Rank : d[i] = <<>>
  PROVE  Merged(d, <<>>)
<1>1. ASSUME NEW v \in Layout, \A i \in Rank : v[i] = 0 PROVE Total(v) = 0
  <2>1. v \in [Rank -> 0 .. 0]
    BY <1>1 DEF Layout
  <2>2. Total(v) \in Nat /\ Total(v) <= N * 0
    BY <2>1, TotalBound
  <2> QED
    BY <2>2, Consts
<1>2. Total(LayoutOf(d)) = 0
  BY <1>1, LayoutType
<1>3. ASSUME NEW x \in Nat PROVE Total(Ones(d, x)) = 0 /\ Times(<<>>, x) = 0
  <2>1. Times(<<>>, x) = 0
    <3>1. {k \in DOMAIN <<>> : <<>>[k] = x} = {}
      OBVIOUS
    <3> QED
      BY <3>1, FS_EmptySet DEF Times
  <2>2. Ones(d, x) \in Layout /\ \A i \in Rank : Ones(d, x)[i] = 0
    BY <2>1, OnesType
  <2> QED
    BY <1>1, <2>1, <2>2
<1>4. <<>> \in Seq(Nat) /\ Len(<<>>) = 0 /\ Ascends(<<>>)
  BY DEF Ascends
<1> QED
  BY <1>2, <1>3, <1>4 DEF Merged

(* multimerge merges.                                                      *)
LEMMA MergeFacts ==
  ASSUME NEW p, Fits(p), \A i \in Rank : Ascends(p[i])
  PROVE  Merged(p, multimerge(p))
<1>1. PICK f : Merges(p, f) /\ multimerge(p) = f[[i \in Rank |-> 0]]
  BY MultimergeIs
<1>2. \A idx \in Places : f[idx] = MergeStep(p, f, idx)
  BY <1>1 DEF Merges, Places
<1> DEFINE T == {n \in Nat : \A idx : Within(p, idx) /\ Ahead_bound(idx) < n =>
                                 Merged(Rest(p, idx), f[idx])}
<1>3. 0 \in T
  <2>1. ASSUME NEW idx, Within(p, idx) PROVE ~(Ahead_bound(idx) < 0)
    <3>1. Ahead_bound(idx) \in Nat
      BY <2>1, PlaceBound DEF Within
    <3> QED
      BY <3>1
  <2> QED
    BY <2>1
<1>4. ASSUME NEW n \in Nat, n \in T PROVE n + 1 \in T
  <2>1. SUFFICES ASSUME NEW idx, Within(p, idx), Ahead_bound(idx) < n + 1
                 PROVE  Merged(Rest(p, idx), f[idx])
    OBVIOUS
  <2>2. idx \in Places /\ f[idx] = MergeStep(p, f, idx)
    BY <1>2, <2>1 DEF Within
  <2>3. PICK d \in [Rank -> Seq(Nat)] : d = Rest(p, idx)
    BY <2>1, RestFacts DEF Rest
  <2>4. CASE Ahead(p, idx) = {}
    <3>1. f[idx] = <<>>
      BY <2>2, <2>4 DEF MergeStep
    <3>2. ASSUME NEW i \in Rank PROVE d[i] = <<>>
      <4>1. ~(idx[i] < Len(p[i])) /\ idx[i] <= Len(p[i])
        BY <2>1, <2>4 DEF Ahead, Within
      <4>2. idx[i] \in Nat /\ Len(p[i]) \in Nat
        BY <2>2, Consts DEF Places, Fits
      <4>3. Len(d[i]) = 0
        BY <2>1, <2>3, <4>1, <4>2, RestFacts
      <4> QED
        BY <4>3, EmptySeq
    <3> QED
      BY <2>3, <3>1, <3>2, MergedNone
  <2>5. CASE Ahead(p, idx) # {}
    <3>1. PICK q \in Rank : q = Least(p, idx) /\ idx[q] < Len(p[q])
      BY <2>2, <2>5, LeastFacts DEF Places
    <3>2. \A j \in Ahead(p, idx) : p[q][idx[q] + 1] <= p[j][idx[j] + 1]
      BY <2>2, <2>5, <3>1, LeastFacts DEF Places
    <3>3. PICK u \in Places : u = Next_place(p, idx) /\ Ahead_bound(u) < Ahead_bound(idx)
      BY <2>2, <2>5, Forward
    <3>4. u[q] = idx[q] + 1 /\ \A j \in Rank : j # q => u[j] = idx[j]
      BY <2>2, <3>1, <3>3 DEF Next_place, Places
    <3>5. PICK a \in Nat, l \in Nat : a = idx[q] /\ l = Len(p[q]) /\ a < l
      <4>1. idx[q] \in Nat /\ Len(p[q]) \in Nat
        BY <2>2, Consts DEF Places, Fits
      <4> QED
        BY <3>1, <4>1
    <3>6. Within(p, u)
      <4>1. \A i \in Rank : u[i] <= Len(p[i])
        <5>1. TAKE i \in Rank
        <5>2. CASE i = q
          BY <3>4, <3>5, <5>2
        <5>3. CASE i # q
          BY <2>1, <3>4, <5>3 DEF Within
        <5> QED
          BY <5>2, <5>3
      <4> QED
        BY <4>1 DEF Within
    <3>7. PICK d2 \in [Rank -> Seq(Nat)] : d2 = Rest(p, u)
      BY <3>6, RestFacts DEF Rest
    <3>8. PICK s : s = f[u]
      OBVIOUS
    <3>9. Merged(d2, s)
      <4>1. Ahead_bound(u) < n
        <5>1. Ahead_bound(u) \in Nat /\ Ahead_bound(idx) \in Nat
          BY <2>2, PlaceBound
        <5> QED
          BY <2>1, <3>3, <5>1
      <4> QED
        BY <1>4, <3>6, <3>7, <3>8, <4>1
    <3>10. PICK h \in Nat : h = p[q][a + 1]
      <4>1. p[q] \in Seq(Nat) /\ a + 1 \in 1 .. Len(p[q])
        BY <3>5 DEF Fits
      <4> QED
        BY <4>1
    <3>11. d[q] = <<h>> \o d2[q]
      <4>1. PICK t \in Seq(Nat) : t = p[q] /\ l = Len(t)
        BY <3>5 DEF Fits
      <4>2. PICK m \in 1 .. Len(t) : m = a + 1
        <5>1. a + 1 \in 1 .. Len(t)
          BY <3>5, <4>1
        <5> QED
          BY <5>1
      <4>3. l \in m .. Len(t)
        BY <4>1, <4>2
      <4>4. SubSeq(t, m, l) = <<t[m]>> \o SubSeq(t, m + 1, l)
        BY <4>3, SubSeqRecursiveFirst
      <4>5. d[q] = SubSeq(t, m, l) /\ d2[q] = SubSeq(t, m + 1, l) /\ t[m] = h
        BY <2>3, <3>4, <3>5, <3>7, <3>10, <4>1, <4>2 DEF Rest
      <4> QED
        BY <4>4, <4>5
    <3>12. \A j \in Rank : j # q => d2[j] = d[j]
      BY <2>3, <3>4, <3>7 DEF Rest
    <3>13. \A i \in Rank : Ascends(d[i])
      BY <2>1, <2>3, RestFacts
    <3>14. ASSUME NEW i \in Rank, d[i] # <<>> PROVE h <= d[i][1]
      <4>1. PICK b \in Nat, m \in Nat : b = idx[i] /\ m = Len(p[i])
        BY <2>2, Consts, SMTT(20) DEF Places, Fits
      <4>2. Len(d[i]) # 0
        BY <3>14, EmptySeq
      <4>3. Len(d[i]) = m - b /\ \A k \in 1 .. m - b : d[i][k] = p[i][b + k]
        BY <2>1, <2>3, <4>1, RestFacts
      <4>4. b < m
        BY <2>1, <4>1, <4>2, <4>3 DEF Within
      <4>5. i \in Ahead(p, idx)
        BY <4>1, <4>4 DEF Ahead
      <4>6. d[i][1] = p[i][b + 1]
        BY <4>3, <4>4
      <4> QED
        BY <3>2, <3>5, <3>10, <4>1, <4>5, <4>6
    <3>15. f[idx] = <<h>> \o s
      BY <2>2, <2>5, <3>1, <3>3, <3>5, <3>8, <3>10 DEF MergeStep, Next_place
    <3>16. Merged(d, <<h>> \o s)
      BY <3>9, <3>11, <3>12, <3>13, <3>14, MergeOne
    <3> QED
      BY <2>3, <3>15, <3>16
  <2> QED
    BY <2>4, <2>5
<1> HIDE DEF T
<1>5. Nat \subseteq T
  BY <1>3, <1>4, NatSetInduction
<1>6. PICK zero : zero = [i \in Rank |-> 0]
  OBVIOUS
<1>7. Within(p, zero)
  <2>1. \A i \in Rank : Len(p[i]) \in Nat
    BY DEF Fits
  <2> QED
    BY <1>6, <2>1, Consts DEF Within, Places
<1>8. PICK m \in Nat : m = Ahead_bound(zero)
  BY <1>7, PlaceBound DEF Within
<1>9. Merged(Rest(p, zero), f[zero])
  <2>1. m + 1 \in T /\ m < m + 1
    BY <1>5
  <2> QED
    BY <1>7, <1>8, <2>1 DEF T
<1>10. Rest(p, zero) = p
  <2>1. \A i \in Rank : SubSeq(p[i], 0 + 1, Len(p[i])) = p[i]
    <3>1. TAKE i \in Rank
    <3>2. p[i] \in Seq(Nat) /\ 0 + 1 = 1
      BY DEF Fits
    <3>3. SubSeq(p[i], 1, Len(p[i])) = p[i]
      BY <3>2, SubSeqFull
    <3> QED
      BY <3>2, <3>3
  <2> QED
    BY <1>6, <2>1 DEF Rest, Fits
<1> QED
  BY <1>1, <1>6, <1>9, <1>10

---------------------------------------------------------------------------
(* Sums over ranks.                                                        *)

LEMMA TotalAdd ==
  ASSUME NEW u \in Layout, NEW v \in Layout, NEW w \in Layout,
         \A i \in Rank : w[i] = u[i] + v[i]
  PROVE  Total(w) = Total(u) + Total(v)
<1>1. /\ \A k \in 0 .. N : Before(u, k) \in Nat /\ Before(v, k) \in Nat
      /\ Before(u, 0) = 0 /\ Before(v, 0) = 0
      /\ Before(u, N) = Total(u) /\ Before(v, N) = Total(v) /\ Before(w, N) = Total(w)
      /\ \A k \in Rank : /\ Before(u, k + 1) = Before(u, k) + u[k]
                         /\ Before(v, k + 1) = Before(v, k) + v[k]
  BY BeforeFacts, BeforeGrows
<1>2. PICK c : c = [k \in 0 .. N |-> Before(u, k) + Before(v, k)]
  OBVIOUS
<1>3. c[0] = 0 /\ c[N] = Total(u) + Total(v)
  BY <1>1, <1>2, Consts
<1>4. \A k \in Rank : c[k] + w[k] = c[k + 1]
  <2>1. TAKE k \in Rank
  <2>2. k \in 0 .. N /\ k + 1 \in 0 .. N
    BY Consts
  <2>3. PICK a \in Nat, b \in Nat : a = Before(u, k) /\ b = Before(v, k)
    BY <1>1, <2>2
  <2>4. PICK x \in Nat, y \in Nat : x = u[k] /\ y = v[k]
    BY DEF Layout
  <2>5. c[k] = a + b /\ c[k + 1] = (a + x) + (b + y) /\ w[k] = x + y
    BY <1>1, <1>2, <2>2, <2>3, <2>4
  <2> QED
    BY <2>5
<1>5. Before(w, N) = c[N]
  BY <1>3, <1>4, Telescope, Consts
<1> QED
  BY <1>1, <1>3, <1>5

(* A matrix of numbers, summed by rows and by columns.                     *)
LEMMA SumSwap ==
  ASSUME NEW M \in [Rank -> Layout], NEW u \in Layout, NEW v \in Layout,
         \A r \in Rank : u[r] = Total(M[r]),
         \A i \in Rank : v[i] = Total([r \in Rank |-> M[r][i]])
  PROVE  Total(u) = Total(v)
<1> DEFINE Col(i) == [r \in Rank |-> M[r][i]]
           Part(k) == [i \in Rank |-> Before(Col(i), k)]
           T == {k \in Nat : k <= N => Before(u, k) = Total(Part(k))}
<1>1. \A i \in Rank : Col(i) \in Layout /\ \A r \in Rank : Col(i)[r] = M[r][i]
  BY DEF Layout
<1> HIDE DEF Col
<1>2. \A i \in Rank : /\ Before(Col(i), 0) = 0 /\ Before(Col(i), N) = Total(Col(i))
                      /\ \A k \in 0 .. N : Before(Col(i), k) \in Nat
                      /\ \A k \in Rank : Before(Col(i), k + 1) = Before(Col(i), k) + M[k][i]
  BY <1>1, BeforeFacts, BeforeGrows
<1>3. \A k \in 0 .. N : Part(k) \in Layout /\ \A i \in Rank : Part(k)[i] = Before(Col(i), k)
  BY <1>2 DEF Layout
<1> HIDE DEF Part
<1>4. 0 \in T
  <2>1. PICK w \in Layout : w = Part(0) /\ \A i \in Rank : w[i] = 0
    BY <1>2, <1>3, Consts
  <2>2. w \in [Rank -> 0 .. 0]
    BY <2>1 DEF Layout
  <2>3. Total(w) \in Nat /\ Total(w) <= N * 0
    BY <2>2, TotalBound
  <2>4. Before(u, 0) = 0
    BY BeforeFacts
  <2> QED
    BY <2>1, <2>3, <2>4, Consts
<1>5. ASSUME NEW k \in Nat, k \in T PROVE k + 1 \in T
  <2>1. SUFFICES ASSUME k + 1 <= N PROVE Before(u, k + 1) = Total(Part(k + 1))
    OBVIOUS
  <2>2. k \in Rank /\ k \in 0 .. N /\ k + 1 \in 0 .. N /\ k <= N
    BY <2>1, Consts DEF Rank
  <2>3. Before(u, k) = Total(Part(k))
    BY <1>5, <2>2
  <2>4. PICK a \in Layout, b \in Layout, c \in Layout : a = Part(k) /\ b = M[k] /\ c = Part(k + 1)
    BY <1>3, <2>2
  <2>5. \A i \in Rank : c[i] = a[i] + b[i]
    BY <1>2, <1>3, <2>2, <2>4
  <2>6. Total(c) = Total(a) + Total(b)
    BY <2>5, TotalAdd
  <2>7. Before(u, k + 1) = Before(u, k) + u[k]
    BY <2>2, BeforeFacts
  <2> QED
    BY <2>2, <2>3, <2>4, <2>6, <2>7
<1> HIDE DEF T
<1>6. Nat \subseteq T
  BY <1>4, <1>5, NatSetInduction
<1>7. Before(u, N) = Total(Part(N))
  BY <1>6, Consts DEF T
<1>8. Part(N) = v
  <2>1. \A i \in Rank : Part(N)[i] = v[i]
    <3>1. TAKE i \in Rank
    <3>2. Part(N)[i] = Before(Col(i), N) /\ Before(Col(i), N) = Total(Col(i))
      BY <1>2, <1>3, Consts
    <3>3. v[i] = Total(Col(i))
      BY DEF Col
    <3> QED
      BY <3>2, <3>3
  <2>2. Part(N) \in Layout
    BY <1>3, Consts
  <2> QED
    BY <2>1, <2>2 DEF Layout
<1>9. Before(u, N) = Total(u)
  BY BeforeFacts
<1> QED
  BY <1>7, <1>8, <1>9

LEMMA GlobalTimes ==
  ASSUME NEW d \in [Rank -> Seq(Nat)], NEW x \in Nat
  PROVE  Times(Global(d), x) = Total(Ones(d, x))
<1>1. PICK f : Flattens(d, f) /\ Global(d) = f[N]
  BY GlobalFlattens
<1>2. \A i \in 1 .. N : f[i] = IF i = 1 THEN d[0] ELSE f[i - 1] \o d[i - 1]
  BY <1>1 DEF Flattens
<1>3. PICK o \in Layout : o = Ones(d, x) /\ \A i \in Rank : o[i] = Times(d[i], x)
  <2>1. Ones(d, x) \in Layout /\ \A i \in Rank : Ones(d, x)[i] = Times(d[i], x)
    BY OnesType
  <2> QED
    BY <2>1
<1> DEFINE T == {k \in Nat : k + 1 <= N => f[k + 1] \in Seq(Nat) /\ Times(f[k + 1], x) = Before(o, k + 1)}
<1>4. 0 \in T
  <2>1. f[1] = d[0] /\ d[0] \in Seq(Nat)
    BY <1>2, Consts
  <2>2. Before(o, 1) = Before(o, 0) + o[0] /\ Before(o, 0) = 0 /\ o[0] \in Nat
    <3>1. Before(o, 0 + 1) = Before(o, 0) + o[0]
      BY BeforeFacts, Consts
    <3>2. 0 + 1 = 1
      OBVIOUS
    <3> QED
      BY <3>1, <3>2, BeforeFacts, Consts DEF Layout
  <2>3. Times(f[1], x) = Before(o, 1)
    BY <1>3, <2>1, <2>2, Consts
  <2>4. 0 + 1 = 1
    OBVIOUS
  <2> QED
    BY <2>1, <2>3, <2>4
<1>5. ASSUME NEW k \in Nat, k \in T PROVE k + 1 \in T
  <2>1. PICK n \in Nat : n = k + 1
    OBVIOUS
  <2>2. SUFFICES ASSUME n + 1 <= N
                 PROVE  f[n + 1] \in Seq(Nat) /\ Times(f[n + 1], x) = Before(o, n + 1)
    BY <2>1
  <2>3. n \in Rank /\ n + 1 \in 1 .. N /\ n + 1 # 1 /\ (n + 1) - 1 = n /\ n <= N
    BY <2>1, <2>2, Consts DEF Rank
  <2>4. f[n] \in Seq(Nat) /\ Times(f[n], x) = Before(o, n)
    BY <1>5, <2>1, <2>3
  <2>5. PICK a \in Seq(Nat), b \in Seq(Nat) : a = f[n] /\ b = d[n]
    BY <2>3, <2>4
  <2>6. f[n + 1] = a \o b
    BY <1>2, <2>3, <2>5
  <2>7. Times(a \o b, x) = Times(a, x) + Times(b, x)
    BY TimesConcat
  <2>8. Before(o, n + 1) = Before(o, n) + o[n]
    BY <2>3, BeforeFacts
  <2> QED
    BY <1>3, <2>3, <2>4, <2>5, <2>6, <2>7, <2>8
<1> HIDE DEF T
<1>6. Nat \subseteq T
  BY <1>4, <1>5, NatSetInduction
<1>7. PICK m \in Nat : m + 1 = N
  <2>1. N - 1 \in Nat /\ (N - 1) + 1 = N
    BY Consts
  <2> QED
    BY <2>1
<1>8. Times(f[N], x) = Before(o, N)
  BY <1>6, <1>7 DEF T
<1> QED
  BY <1>1, <1>3, <1>8, BeforeFacts

---------------------------------------------------------------------------
(* What the result is, once every rank is through.                         *)

Through == DataInv /\ Planned /\ \A r \in Rank : RankInv(r) /\ dst[r] # Waiting

(* scatter and align_as: the result lies as asked.                         *)
LEMMA MovedAt ==
  ASSUME DataInv, Planned, NEW r \in Rank, RankInv(r), dst[r] # Waiting, op.name # "sort"
  PROVE  dst[r] = Global(Mine(r)) /\ dst[r] \in Seq(Value) /\ Len(dst[r]) = op.sizes[r]
<1>1. dst[r] = Global(Mine(r))
  BY ArrivedIs
<1>2. PICK m \in [Rank -> Seq(Value)] : m = Mine(r) /\ LayoutOf(m) = Column(r)
  BY MineFacts
<1>3. Global(m) \in Seq(Value) /\ Len(Global(m)) = Total(LayoutOf(m))
  BY GlobalFacts
<1>4. Total(Column(r)) = op.sizes[r]
  BY AskedFor
<1> QED
  BY <1>1, <1>2, <1>3, <1>4

LEMMA MovedType ==
  ASSUME Through, op.name # "sort"
  PROVE  \A r \in Rank : /\ dst[r] = Global(Mine(r)) /\ dst[r] \in Seq(Value)
                         /\ Len(dst[r]) = op.sizes[r]
BY MovedAt DEF Through

(* Where the elements of r come from.                                      *)
LEMMA MovedFrom ==
  ASSUME Through, NEW r \in Rank, op.name # "sort", NEW j \in 1 .. Len(dst[r])
  PROVE  \E i \in Rank : \E k \in 1 .. Share(i, r) :
           j = Before(Column(r), i) + k /\ dst[r][j] = Held(i)[Before(Shares(i), r) + k]
<1>1. DataInv /\ Planned
  BY DEF Through
<1>2. PICK m \in [Rank -> Seq(Value)] :
        /\ m = Mine(r) /\ LayoutOf(m) = Column(r)
        /\ \A i \in Rank : IsSlice(Value, m[i], Held(i), Before(Shares(i), r), Share(i, r))
  BY <1>1, MineFacts
<1>3. PICK w \in Layout : w = Column(r) /\ \A i \in Rank : w[i] = Share(i, r)
  BY <1>1, MineFacts DEF Column
<1>4. dst[r] = Global(m)
  BY <1>2, MovedType
<1>5. /\ Len(Global(m)) = Total(w)
      /\ \A i \in Rank : \A k \in 1 .. Len(m[i]) : Global(m)[Before(w, i) + k] = m[i][k]
  BY <1>2, <1>3, GlobalFacts
<1>6. PICK i \in Rank : \E k \in 1 .. w[i] : j = Before(w, i) + k
  BY <1>4, <1>5, PlaceExists
<1>7. PICK k \in 1 .. w[i] : j = Before(w, i) + k
  BY <1>6
<1>8. Len(m[i]) = w[i] /\ m[i][k] = Held(i)[Before(Shares(i), r) + k]
  BY <1>2, <1>3 DEF IsSlice
<1>9. dst[r][j] = Held(i)[Before(Shares(i), r) + k]
  BY <1>4, <1>5, <1>7, <1>8
<1> QED
  BY <1>3, <1>7, <1>9

(* make_dvector_scatter: what was given, on the ranks.                     *)
LEMMA ScatteredIs ==
  ASSUME Through, op.name = "scatter", dst \in [Rank -> Seq(Value)]
  PROVE  Global(dst) = op.src
<1>1. PICK src \in Seq(Value), sizes \in Layout :
        /\ op = [name |-> "scatter", src |-> src, sizes |-> sizes]
        /\ Total(sizes) = Len(src)
  BY DEF Through, Planned, ScatterPlan, AlignPlan, SortPlan
<1>2. op.name # "sort" /\ op.src = src /\ op.sizes = sizes /\ Held(0) = src
  BY <1>1 DEF Held, Scattering
<1>3. LayoutOf(dst) = sizes
  BY <1>2, MovedType DEF LayoutOf, Layout
<1>4. Shares(0) = sizes
  BY <1>1, <1>2 DEF Shares, Share, Layout
<1>5. ASSUME NEW r \in Rank, NEW j \in 1 .. Len(dst[r])
      PROVE  src[Before(sizes, r) + j] = dst[r][j]
  <2>1. PICK i \in Rank : \E k \in 1 .. Share(i, r) :
          j = Before(Column(r), i) + k /\ dst[r][j] = Held(i)[Before(Shares(i), r) + k]
    BY <1>2, MovedFrom
  <2>2. i = 0
    BY <1>1, <2>1 DEF Share
  <2>3. PICK k \in 1 .. Share(i, r) :
          j = Before(Column(r), i) + k /\ dst[r][j] = Held(i)[Before(Shares(i), r) + k]
    BY <2>1
  <2>4. Column(r) \in Layout
    BY MineFacts DEF Through
  <2>5. Before(Column(r), i) = 0 /\ k \in Int
    BY <2>2, <2>4, BeforeFacts, Consts DEF Column
  <2>6. j = k
    BY <2>3, <2>5
  <2> QED
    BY <1>2, <1>4, <2>2, <2>3, <2>6
<1>6. LiesAs(src, dst)
  BY <1>3, <1>5 DEF LiesAs
<1> QED
  BY <1>1, <1>2, <1>3, <1>6, IsGlobal

(* align_as: how the shares of one rank, and the shares for one rank, lie. *)
LEMMA AlignedAt ==
  ASSUME NEW old \in Layout, NEW sizes \in Layout, NEW i \in Rank, NEW r \in Rank,
         alltoall_size(old, sizes, i, r) # 0,
         NEW row \in Layout, \A q \in Rank : row[q] = alltoall_size(old, sizes, i, q),
         NEW col \in Layout, \A q \in Rank : col[q] = alltoall_size(old, sizes, q, r)
  PROVE  Before(sizes, r) + Before(col, i) = Before(old, i) + Before(row, r)
<1>1. PICK a \in Nat, b \in Nat, c \in Nat, d \in Nat :
        /\ a = Before(old, i) /\ b = Before(old, i + 1)
        /\ c = Before(sizes, r) /\ d = Before(sizes, r + 1) /\ a <= b /\ c <= d
  <2>1. /\ i \in Nat /\ i + 1 \in 0 .. N /\ i \in 0 .. N /\ i <= i + 1
        /\ r \in Nat /\ r + 1 \in 0 .. N /\ r \in 0 .. N /\ r <= r + 1
    BY Consts DEF Rank
  <2> QED
    BY <2>1, BeforeGrows, BeforeOrder
<1>2. PICK e : e = [k \in 0 .. N |-> Clamp(Before(sizes, k), a, b) - a]
  OBVIOUS
<1>3. \A k \in Rank : e[k] + row[k] = e[k + 1]
  <2>1. TAKE k \in Rank
  <2>2. row[k] = Clamp(Before(sizes, k + 1), a, b) - Clamp(Before(sizes, k), a, b)
    BY <1>1, AlltoallOverlap
  <2>3. k \in 0 .. N /\ k + 1 \in 0 .. N
    BY Consts
  <2>4. PICK p \in Nat, q \in Nat : p = Before(sizes, k) /\ q = Before(sizes, k + 1)
    BY <2>3, BeforeGrows
  <2>5. PICK x \in Int, y \in Int : x = Clamp(p, a, b) /\ y = Clamp(q, a, b)
    BY DEF Clamp
  <2>6. e[k] = x - a /\ e[k + 1] = y - a /\ row[k] = y - x
    BY <1>2, <2>2, <2>3, <2>4, <2>5
  <2> QED
    BY <2>6
<1>4. e[0] = 0
  <2>1. Before(sizes, 0) = 0 /\ 0 \in 0 .. N
    BY BeforeFacts, Consts
  <2> QED
    BY <1>1, <1>2, <2>1 DEF Clamp
<1>5. Before(row, r) = Clamp(c, a, b) - a
  <2>1. Before(row, r) = e[r]
    BY <1>3, <1>4, Telescope, Consts
  <2> QED
    BY <1>1, <1>2, <2>1, Consts
<1>6. PICK f : f = [k \in 0 .. N |-> Clamp(Before(old, k), c, d) - c]
  OBVIOUS
<1>7. \A k \in Rank : f[k] + col[k] = f[k + 1]
  <2>1. TAKE k \in Rank
  <2>2. col[k] = Clamp(Before(old, k + 1), c, d) - Clamp(Before(old, k), c, d)
    BY <1>1, AlltoallOverlap
  <2>3. k \in 0 .. N /\ k + 1 \in 0 .. N
    BY Consts
  <2>4. PICK p \in Nat, q \in Nat : p = Before(old, k) /\ q = Before(old, k + 1)
    BY <2>3, BeforeGrows
  <2>5. PICK x \in Int, y \in Int : x = Clamp(p, c, d) /\ y = Clamp(q, c, d)
    BY DEF Clamp
  <2>6. f[k] = x - c /\ f[k + 1] = y - c /\ col[k] = y - x
    BY <1>6, <2>2, <2>3, <2>4, <2>5
  <2> QED
    BY <2>6
<1>8. f[0] = 0
  <2>1. Before(old, 0) = 0 /\ 0 \in 0 .. N
    BY BeforeFacts, Consts
  <2> QED
    BY <1>1, <1>6, <2>1 DEF Clamp
<1>9. Before(col, i) = Clamp(a, c, d) - c
  <2>1. Before(col, i) = f[i]
    BY <1>7, <1>8, Telescope, Consts
  <2> QED
    BY <1>1, <1>6, <2>1, Consts
<1>10. Clamp(d, a, b) - Clamp(c, a, b) # 0
  BY <1>1, AlltoallOverlap
<1> QED
  BY <1>1, <1>5, <1>9, <1>10 DEF Clamp

(* align_as: the same vector, laid out anew.                               *)
LEMMA AlignedIs ==
  ASSUME Through, op.name = "align", dst \in [Rank -> Seq(Value)]
  PROVE  Global(dst) = Global(data)
<1>1. PICK sizes \in Layout, old \in Layout :
        /\ op = [name |-> "align", old |-> old, sizes |-> sizes] /\ old = LayoutOf(data)
        /\ Total(sizes) = Total(old)
  BY LayoutType DEF Through, Planned, ScatterPlan, AlignPlan, SortPlan, DataInv
<1>2. op.name # "sort" /\ op.old = old /\ op.sizes = sizes /\ ~Scattering
  BY <1>1 DEF Scattering
<1>3. LayoutOf(dst) = sizes
  BY <1>2, MovedType DEF LayoutOf, Layout
<1>4. data \in [Rank -> Seq(Value)] /\ DataInv /\ Planned
  BY DEF Through, DataInv
<1>5. PICK x \in Seq(Value) :
        /\ x = Global(data) /\ Len(x) = Total(old)
        /\ \A r \in Rank : \A j \in 1 .. Len(data[r]) : x[Before(old, r) + j] = data[r][j]
  BY <1>1, <1>4, GlobalFacts
<1>6. ASSUME NEW r \in Rank, NEW j \in 1 .. Len(dst[r])
      PROVE  x[Before(sizes, r) + j] = dst[r][j]
  <2>1. PICK i \in Rank : \E k \in 1 .. Share(i, r) :
          j = Before(Column(r), i) + k /\ dst[r][j] = Held(i)[Before(Shares(i), r) + k]
    BY <1>2, MovedFrom
  <2>2. PICK k \in 1 .. Share(i, r) :
          j = Before(Column(r), i) + k /\ dst[r][j] = Held(i)[Before(Shares(i), r) + k]
    BY <2>1
  <2>3. PICK row \in Layout, col \in Layout : row = Shares(i) /\ col = Column(r)
    BY <1>4, MineFacts, SharesFacts DEF SharesOK
  <2>4. /\ \A q \in Rank : row[q] = alltoall_size(old, sizes, i, q)
        /\ \A q \in Rank : col[q] = alltoall_size(old, sizes, q, r)
    BY <1>1, <1>2, <2>3 DEF Shares, Column, Share
  <2>5. alltoall_size(old, sizes, i, r) # 0
    BY <1>1, <1>2, <2>2 DEF Share
  <2>6. Before(sizes, r) + Before(col, i) = Before(old, i) + Before(row, r)
    BY <2>4, <2>5, AlignedAt
  <2>7. CountsOK(i, r)
    BY <1>4, CountsFacts
  <2>8. PICK b \in Nat, n \in Nat : b = Before(row, r) /\ n = Share(i, r) /\ b + n <= Len(data[i])
    BY <1>2, <2>3, <2>7 DEF CountsOK, Held
  <2>9. b + k \in 1 .. Len(data[i])
    <3>1. Len(data[i]) \in Nat
      BY <1>4, RankLen DEF DataInv
    <3> QED
      BY <2>2, <2>8, <3>1
  <2>10. x[Before(old, i) + (b + k)] = data[i][b + k]
    BY <1>5, <2>9
  <2>11. Before(sizes, r) + j = Before(old, i) + (b + k)
    <3>1. r \in 0 .. N /\ i \in 0 .. N /\ k \in Int
      BY Consts
    <3>2. PICK s \in Nat, c \in Nat, o \in Nat :
            s = Before(sizes, r) /\ c = Before(col, i) /\ o = Before(old, i)
      BY <3>1, BeforeGrows
    <3>3. s + c = o + b /\ j = c + k
      BY <2>2, <2>3, <2>6, <2>8, <3>2
    <3>4. ASSUME NEW z \in Int, s + c = o + b PROVE s + (c + z) = o + (b + z)
      BY <3>4
    <3>5. s + (c + k) = o + (b + k)
      BY <3>1, <3>3, <3>4
    <3> QED
      BY <3>2, <3>3, <3>5, Zenon
  <2>12. Held(i) = data[i]
    BY <1>2 DEF Held
  <2> QED
    BY <2>2, <2>3, <2>8, <2>10, <2>11, <2>12
<1>7. LiesAs(x, dst)
  BY <1>3, <1>6 DEF LiesAs
<1> QED
  BY <1>1, <1>3, <1>5, <1>7, IsGlobal

(* In an ascending sequence what is below x comes first.                   *)
LEMMA BelowCut ==
  ASSUME NEW v \in Seq(Nat), Ascends(v), NEW x \in Nat, NEW p \in 1 .. Len(v)
  PROVE  /\ p <= lower_bound(v, x) => v[p] < x
         /\ p > lower_bound(v, x) => v[p] >= x
<1>1. PICK y \in Nat : y = v[p]
  OBVIOUS
<1>2. lower_bound(v, y) < p /\ p <= lower_bound(v, y + 1)
  BY <1>1, AscendingPlaces
<1>3. lower_bound(v, x) \in Nat /\ lower_bound(v, y) \in Nat /\ lower_bound(v, y + 1) \in Nat
  <2>1. y + 1 \in Nat
    OBVIOUS
  <2> QED
    BY <2>1, CountFacts
<1>4. y < x => lower_bound(v, y + 1) <= lower_bound(v, x)
  <2>1. y + 1 \in Nat /\ (y < x => y + 1 <= x)
    OBVIOUS
  <2> QED
    BY <2>1, BoundGrows
<1>5. x <= y => lower_bound(v, x) <= lower_bound(v, y)
  BY BoundGrows
<1> QED
  BY <1>1, <1>2, <1>3, <1>4, <1>5

(* What a rank sends to all ranks, in the order of the ranks, is all it    *)
(* has.                                                                    *)
Pieces(i) == [r \in Rank |-> Mine(r)[i]]

LEMMA PiecesFacts ==
  ASSUME DataInv, SortPlan, NEW i \in Rank
  PROVE  /\ Pieces(i) \in [Rank -> Seq(Value)] /\ LayoutOf(Pieces(i)) = Shares(i)
         /\ Global(Pieces(i)) = data[i] /\ Total(Shares(i)) = Len(data[i])
<1>1. Planned /\ ~Scattering
  BY DEF Planned, SortPlan, Scattering
<1>2. PICK h \in Seq(Value) : h = data[i] /\ Held(i) = h
  BY <1>1 DEF DataInv, Held
<1>3. PICK w \in Layout : w = Shares(i) /\ \A r \in Rank : w[r] = Share(i, r)
  BY <1>1, SharesFacts DEF SharesOK
<1>4. \A r \in Rank : IsSlice(Value, Mine(r)[i], h, Before(w, r), w[r])
  BY <1>1, <1>2, <1>3, MineFacts
<1>5. PICK d : d = Pieces(i)
  OBVIOUS
<1>6. d \in [Rank -> Seq(Value)] /\ \A r \in Rank : d[r] = Mine(r)[i]
  BY <1>4, <1>5 DEF Pieces, IsSlice
<1>7. LayoutOf(d) = w
  BY <1>4, <1>6 DEF LayoutOf, IsSlice, Layout
<1>8. Total(w) = Len(h)
  <2>1. Before(w, N) = CutAt(data[i], op.part, N)
    BY <1>3, SortShares, Consts
  <2>2. CutAt(data[i], op.part, N) = Len(data[i])
    <3>1. IsPart(op.part)
      BY DEF SortPlan
    <3>2. data[i] \in Seq(Nat)
      BY <1>2, Consts, SeqMonotone
    <3> QED
      BY <3>1, <3>2, Cuts
  <2> QED
    BY <1>2, <2>1, <2>2, BeforeFacts
<1>9. LiesAs(h, d)
  BY <1>4, <1>6, <1>7 DEF LiesAs, IsSlice
<1> QED
  BY <1>2, <1>3, <1>5, <1>6, <1>7, <1>8, <1>9, IsGlobal

(* What rank r merges.                                                     *)
LEMMA MergedAt ==
  ASSUME DataInv, Planned, NEW r \in Rank, RankInv(r), dst[r] # Waiting, op.name = "sort"
  PROVE  /\ Merged(Mine(r), dst[r]) /\ Len(dst[r]) = Total(Column(r))
         /\ dst[r] \in Seq(Value) /\ Column(r) \in Layout
<1>1. DataInv /\ Planned /\ SortPlan /\ RankInv(r) /\ dst[r] # Waiting
  BY DEF Planned, ScatterPlan, AlignPlan
<1>2. ~Scattering /\ \A i \in Rank : Ascends(data[i])
  BY <1>1 DEF SortPlan, Scattering
<1>3. PICK m \in [Rank -> Seq(Value)] :
        /\ m = Mine(r) /\ LayoutOf(m) = Column(r)
        /\ \A i \in Rank : IsSlice(Value, m[i], Held(i), Before(Shares(i), r), Share(i, r))
  BY <1>1, MineFacts
<1>4. ASSUME NEW i \in Rank
      PROVE  m[i] \in Seq(Nat) /\ Len(m[i]) <= MaxTotal /\ Ascends(m[i])
  <2>1. PICK b \in Nat, n \in Nat : b = Before(Shares(i), r) /\ n = Share(i, r) /\ b + n <= Len(data[i])
    BY <1>1, <1>2, CountsFacts DEF CountsOK, Held
  <2>2. PICK h \in Seq(Value) : h = data[i] /\ Held(i) = h
    BY <1>1, <1>2 DEF DataInv, Held
  <2>3. PICK l \in Nat : l = Len(h) /\ l <= MaxTotal
    BY <1>1, <2>2, RankLen DEF DataInv
  <2>4. PICK t \in Seq(Value) : t = m[i] /\ Len(t) = n /\ \A k \in 1 .. n : t[k] = h[b + k]
    BY <1>3, <2>1, <2>2 DEF IsSlice
  <2>5. t \in Seq(Nat)
    BY Consts, SeqMonotone
  <2>6. n <= MaxTotal
    BY <2>1, <2>2, <2>3, Consts
  <2>7. ASSUME NEW j \in 1 .. n, NEW k \in 1 .. n, j < k PROVE t[j] <= t[k]
    <3>1. b + j \in 1 .. l /\ b + k \in 1 .. l /\ b + j < b + k
      BY <2>1, <2>2, <2>3, <2>7, SMTT(20)
    <3>2. h[b + j] <= h[b + k]
      BY <1>2, <2>2, <2>3, <3>1 DEF Ascends
    <3> QED
      BY <2>4, <3>2
  <2>8. Ascends(t)
    BY <2>4, <2>7 DEF Ascends
  <2> QED
    BY <2>4, <2>5, <2>6, <2>8
<1>5. Fits(m)
  BY <1>3, <1>4 DEF Fits
<1>6. dst[r] = multimerge(m)
  BY <1>1, <1>3, ArrivedIs
<1>7. Merged(m, dst[r])
  BY <1>4, <1>5, <1>6, MergeFacts
<1>8. PICK s \in Seq(Nat) : s = dst[r] /\ Len(s) = Total(Column(r))
  BY <1>3, <1>7 DEF Merged
<1>9. ASSUME NEW k \in 1 .. Len(s) PROVE s[k] \in Value
  <2>1. PICK i \in Rank : \E j \in 1 .. Len(m[i]) : s[k] = m[i][j]
    BY <1>7, <1>8 DEF Merged
  <2> QED
    BY <2>1
<1>10. s \in Seq(Value)
  <2>1. PICK n \in Nat : n = Len(s)
    OBVIOUS
  <2>2. s \in [1 .. n -> Value]
    BY <1>9, <2>1
  <2> QED
    BY <2>2
<1> QED
  BY <1>1, <1>3, <1>7, <1>8, <1>10, MineFacts

LEMMA MergedIs ==
  ASSUME Through, op.name = "sort", NEW r \in Rank
  PROVE  /\ Merged(Mine(r), dst[r]) /\ Len(dst[r]) = Total(Column(r))
         /\ dst[r] \in Seq(Value) /\ Column(r) \in Layout
BY MergedAt DEF Through

(* The pieces of the ranks, merged rank by rank: nothing lost, nothing     *)
(* twice.                                                                  *)
LEMMA SortedCounts ==
  ASSUME Through, op.name = "sort", dst \in [Rank -> Seq(Value)]
  PROVE  /\ Total(LayoutOf(dst)) = Total(LayoutOf(data))
         /\ \A x \in Nat : Times(Global(dst), x) = Times(Global(data), x)
<1>1. DataInv /\ SortPlan /\ Planned /\ data \in [Rank -> Seq(Value)]
  BY DEF Through, Planned, ScatterPlan, AlignPlan, DataInv
<1>2. PICK u \in Layout, v \in Layout :
        /\ u = LayoutOf(dst) /\ \A r \in Rank : u[r] = Len(dst[r])
        /\ v = LayoutOf(data) /\ \A r \in Rank : v[r] = Len(data[r])
  <2>1. /\ LayoutOf(dst) \in Layout /\ \A r \in Rank : LayoutOf(dst)[r] = Len(dst[r])
        /\ LayoutOf(data) \in Layout /\ \A r \in Rank : LayoutOf(data)[r] = Len(data[r])
    BY <1>1, LayoutType
  <2> QED
    BY <2>1
<1>3. Total(u) = Total(v)
  <2>1. PICK M : M = [r \in Rank |-> Column(r)]
    OBVIOUS
  <2>2. M \in [Rank -> Layout] /\ \A r \in Rank : u[r] = Total(M[r])
    BY <1>2, <2>1, MergedIs
  <2>3. ASSUME NEW i \in Rank PROVE v[i] = Total([r \in Rank |-> M[r][i]])
    <3>1. [r \in Rank |-> M[r][i]] = Shares(i)
      BY <2>1 DEF Column, Shares
    <3> QED
      BY <1>1, <1>2, <3>1, PiecesFacts
  <2> QED
    BY <2>2, <2>3, SumSwap
<1>4. ASSUME NEW x \in Nat PROVE Times(Global(dst), x) = Times(Global(data), x)
  <2>1. PICK d \in [Rank -> Seq(Nat)], e \in [Rank -> Seq(Nat)] : d = dst /\ e = data
    <3>1. \A r \in Rank : dst[r] \in Seq(Nat) /\ data[r] \in Seq(Nat)
      BY <1>1, Consts, SeqMonotone
    <3>2. dst \in [Rank -> Seq(Nat)] /\ data \in [Rank -> Seq(Nat)]
      BY <1>1, <3>1
    <3> QED
      BY <3>2
  <2>2. PICK a \in Layout, b \in Layout :
          /\ a = Ones(d, x) /\ \A r \in Rank : a[r] = Times(d[r], x)
          /\ b = Ones(e, x) /\ \A r \in Rank : b[r] = Times(e[r], x)
    <3>1. /\ Ones(d, x) \in Layout /\ \A r \in Rank : Ones(d, x)[r] = Times(d[r], x)
          /\ Ones(e, x) \in Layout /\ \A r \in Rank : Ones(e, x)[r] = Times(e[r], x)
      BY OnesType
    <3> QED
      BY <3>1
  <2>3. PICK M : M = [r \in Rank |-> Ones(Mine(r), x)]
    OBVIOUS
  <2>4. ASSUME NEW r \in Rank
        PROVE  /\ M[r] \in Layout /\ a[r] = Total(M[r])
               /\ \A i \in Rank : M[r][i] = Times(Mine(r)[i], x)
    <3>1. Mine(r) \in [Rank -> Seq(Value)]
      BY <1>1, MineFacts
    <3>2. \A i \in Rank : Mine(r)[i] \in Seq(Nat)
      BY <3>1, Consts, SeqMonotone
    <3>3. Mine(r) \in [Rank -> Seq(Nat)]
      BY <3>1, <3>2
    <3>4. Ones(Mine(r), x) \in Layout /\ \A i \in Rank : Ones(Mine(r), x)[i] = Times(Mine(r)[i], x)
      BY <3>3, OnesType
    <3>5. Merged(Mine(r), dst[r])
      BY MergedIs
    <3>6. Times(dst[r], x) = Total(Ones(Mine(r), x))
      BY <3>5 DEF Merged
    <3> QED
      BY <2>1, <2>2, <2>3, <3>4, <3>6
  <2>5. M \in [Rank -> Layout]
    BY <2>3, <2>4
  <2>6. ASSUME NEW i \in Rank PROVE b[i] = Total([r \in Rank |-> M[r][i]])
    <3>1. PICK p : p = Pieces(i)
      OBVIOUS
    <3>2. p \in [Rank -> Seq(Value)] /\ Global(p) = data[i]
      BY <1>1, <3>1, PiecesFacts
    <3>3. \A r \in Rank : p[r] \in Seq(Nat)
      BY <3>2, Consts, SeqMonotone
    <3>4. p \in [Rank -> Seq(Nat)]
      BY <3>2, <3>3
    <3>5. Times(Global(p), x) = Total(Ones(p, x))
      BY <3>4, GlobalTimes
    <3>6. Ones(p, x) = [r \in Rank |-> M[r][i]]
      BY <2>4, <3>1 DEF Ones, Pieces
    <3> QED
      BY <2>1, <2>2, <3>2, <3>5, <3>6
  <2>7. Total(a) = Total(b)
    <3>1. \A r \in Rank : a[r] = Total(M[r])
      BY <2>4
    <3> QED
      BY <2>5, <2>6, <3>1, SumSwap, ZenonT(30)
  <2>8. Times(Global(d), x) = Total(a) /\ Times(Global(e), x) = Total(b)
    BY <2>2, GlobalTimes
  <2> QED
    BY <2>1, <2>7, <2>8
<1> QED
  BY <1>2, <1>3, <1>4

(* Where the elements of r come from, and between which partitioners.      *)
LEMMA SortedFrom ==
  ASSUME Through, op.name = "sort", NEW r \in Rank, NEW j \in 1 .. Len(dst[r])
  PROVE  \E i \in Rank : \E p \in 1 .. Len(data[i]) :
           /\ dst[r][j] = data[i][p]
           /\ CutAt(data[i], op.part, r) < p /\ p <= CutAt(data[i], op.part, r + 1)
<1>1. DataInv /\ SortPlan /\ Planned
  BY DEF Through, Planned, ScatterPlan, AlignPlan
<1>2. ~Scattering
  BY <1>1 DEF SortPlan, Scattering
<1>3. PICK m \in [Rank -> Seq(Value)] :
        /\ m = Mine(r)
        /\ \A i \in Rank : IsSlice(Value, m[i], Held(i), Before(Shares(i), r), Share(i, r))
  BY <1>1, MineFacts
<1>4. Merged(m, dst[r])
  BY <1>3, MergedIs
<1>5. PICK i \in Rank : \E k \in 1 .. Len(m[i]) : dst[r][j] = m[i][k]
  BY <1>4 DEF Merged
<1>6. PICK k \in 1 .. Len(m[i]) : dst[r][j] = m[i][k]
  BY <1>5
<1>7. PICK w \in Layout : w = Shares(i) /\ \A q \in Rank : w[q] = Share(i, q)
  BY <1>1, SharesFacts DEF SharesOK
<1>8. PICK b \in Nat, n \in Nat : b = Before(w, r) /\ n = w[r] /\ b + n <= Len(data[i])
  BY <1>1, <1>2, <1>7, CountsFacts DEF CountsOK, Held
<1>9. Len(m[i]) = n /\ m[i][k] = data[i][b + k]
  BY <1>2, <1>3, <1>7, <1>8 DEF IsSlice, Held
<1>10. k \in Nat /\ 1 <= k /\ k <= n
  BY <1>9
<1>11. CutAt(data[i], op.part, r) = b /\ CutAt(data[i], op.part, r + 1) = b + n
  <2>1. r \in 0 .. N /\ r + 1 \in 0 .. N
    BY Consts
  <2>2. Before(w, r + 1) = b + n
    BY <1>8, BeforeFacts
  <2> QED
    BY <1>1, <1>7, <1>8, <2>1, <2>2, SortShares
<1>12. Len(data[i]) \in Nat
  BY <1>1, RankLen DEF DataInv
<1>13. b + k \in 1 .. Len(data[i]) /\ b < b + k /\ b + k <= b + n
  BY <1>8, <1>10, <1>12
<1> QED
  BY <1>6, <1>9, <1>11, <1>13

(* Ranks are in the order of the partitioners.                             *)
LEMMA RanksAscend ==
  ASSUME Through, op.name = "sort", NEW r \in Rank, NEW q \in Rank, r < q,
         NEW j \in 1 .. Len(dst[r]), NEW k \in 1 .. Len(dst[q])
  PROVE  dst[r][j] <= dst[q][k]
<1>1. DataInv /\ SortPlan
  BY DEF Through, Planned, ScatterPlan, AlignPlan
<1>2. PICK part \in Seq(Nat) : part = op.part /\ IsPart(part) /\ \A s \in Rank : Ascends(data[s])
  BY <1>1 DEF SortPlan, IsPart
<1>3. PICK i \in Rank : \E p \in 1 .. Len(data[i]) :
           /\ dst[r][j] = data[i][p]
           /\ CutAt(data[i], part, r) < p /\ p <= CutAt(data[i], part, r + 1)
  BY <1>2, SortedFrom
<1>4. PICK h \in Rank : \E p \in 1 .. Len(data[h]) :
           /\ dst[q][k] = data[h][p]
           /\ CutAt(data[h], part, q) < p /\ p <= CutAt(data[h], part, q + 1)
  BY <1>2, SortedFrom
<1>5. PICK v \in Seq(Nat), w \in Seq(Nat) : v = data[i] /\ w = data[h] /\ Ascends(v) /\ Ascends(w)
  <2>1. data[i] \in Seq(Nat) /\ data[h] \in Seq(Nat)
    BY <1>1, Consts, SeqMonotone DEF DataInv
  <2> QED
    BY <1>2, <2>1
<1>6. PICK a \in 1 .. Len(v) : dst[r][j] = v[a] /\ a <= CutAt(v, part, r + 1)
  BY <1>3, <1>5
<1>7. PICK b \in 1 .. Len(w) : dst[q][k] = w[b] /\ CutAt(w, part, q) < b
  BY <1>4, <1>5
<1>8. r \in Nat /\ q \in Nat /\ r + 1 <= q /\ r + 1 # 0 /\ q # 0 /\ Len(part) \in Nat
      /\ r + 1 \in Nat
  BY SMTT(20) DEF Rank
<1>9. q <= Len(part)
  <2>1. SUFFICES ASSUME ~ q <= Len(part) PROVE FALSE
    OBVIOUS
  <2>2. CutAt(w, part, q) = Len(w)
    BY <1>8, <2>1 DEF CutAt
  <2>3. Len(w) \in Nat
    OBVIOUS
  <2> QED
    BY <1>7, <2>2, <2>3
<1>10. r + 1 \in 1 .. Len(part) /\ q \in 1 .. Len(part)
  BY <1>8, <1>9
<1>11. PICK x \in Nat, y \in Nat : x = part[r + 1] /\ y = part[q] /\ x <= y
  <2>1. DOMAIN part = 1 .. Len(part) /\ \A z \in 1 .. Len(part) : part[z] \in Nat
    OBVIOUS
  <2>2. part[r + 1] <= part[q]
    <3>1. CASE r + 1 = q
      <4>1. part[r + 1] = part[q]
        BY <3>1, Zenon
      <4>2. part[q] \in Nat
        BY <1>10, <2>1
      <4> QED
        BY <4>1, <4>2
    <3>2. CASE r + 1 # q
      <4>1. r + 1 < q
        BY <1>8, <3>2
      <4> QED
        BY <1>2, <1>10, <2>1, <4>1 DEF IsPart, Ascends
    <3> QED
      BY <3>1, <3>2
  <2> QED
    BY <1>10, <2>1, <2>2
<1>12. CutAt(v, part, r + 1) = lower_bound(v, x) /\ CutAt(w, part, q) = lower_bound(w, y)
  BY <1>8, <1>10, <1>11 DEF CutAt
<1>13. PICK s \in Nat, t \in Nat : s = v[a] /\ t = w[b]
  BY SMTT(20)
<1>14. s < x
  BY <1>5, <1>6, <1>12, <1>13, BelowCut
<1>15. t >= y
  <2>1. b > lower_bound(w, y)
    <3>1. lower_bound(w, y) \in Nat /\ lower_bound(w, y) < b
      BY <1>7, <1>12, CountFacts
    <3> QED
      BY <3>1
  <2> QED
    BY <1>5, <1>13, <2>1, BelowCut
<1> QED
  BY <1>6, <1>7, <1>11, <1>13, <1>14, <1>15, SMTT(20)

LEMMA Crossed ==
  ASSUME NEW c \in Nat, NEW f \in Nat, NEW d \in Nat, NEW l \in Nat, NEW m \in Nat,
         c + f <= d, 1 <= l, m <= f
  PROVE  ~ d + l < c + m
OBVIOUS

(* sort sorts.                                                             *)
LEMMA SortedIs ==
  ASSUME Through, op.name = "sort", dst \in [Rank -> Seq(Value)]
  PROVE  Global(dst) = Sorted(Global(data))
<1>1. DataInv /\ data \in [Rank -> Seq(Value)]
  BY DEF Through, DataInv
<1>2. PICK g \in Seq(Value), x \in Seq(Value) :
        /\ g = Global(data) /\ Len(g) = Total(LayoutOf(data))
        /\ x = Global(dst) /\ Len(x) = Total(LayoutOf(dst))
        /\ \A r \in Rank : \A j \in 1 .. Len(dst[r]) : x[Before(LayoutOf(dst), r) + j] = dst[r][j]
  <2>1. /\ Global(data) \in Seq(Value) /\ Len(Global(data)) = Total(LayoutOf(data))
        /\ Global(dst) \in Seq(Value) /\ Len(Global(dst)) = Total(LayoutOf(dst))
        /\ \A r \in Rank : \A j \in 1 .. Len(dst[r]) :
             Global(dst)[Before(LayoutOf(dst), r) + j] = dst[r][j]
    BY <1>1, GlobalFacts
  <2> QED
    BY <2>1
<1>3. g \in Seq(Nat) /\ x \in Seq(Nat)
  BY Consts, SeqMonotone
<1>4. Len(x) = Len(g) /\ \A z \in Nat : Times(x, z) = Times(g, z)
  BY <1>2, SortedCounts
<1>5. PICK v \in Layout : v = LayoutOf(dst) /\ \A r \in Rank : v[r] = Len(dst[r])
  BY LayoutType
<1>6. ASSUME NEW a \in 1 .. Len(x), NEW b \in 1 .. Len(x), a < b
      PROVE  x[a] <= x[b]
  <2>1. PICK r \in Rank : \E j \in 1 .. v[r] : a = Before(v, r) + j
    BY <1>2, <1>5, PlaceExists
  <2>2. PICK j \in 1 .. v[r] : a = Before(v, r) + j
    BY <2>1
  <2>3. PICK q \in Rank : \E k \in 1 .. v[q] : b = Before(v, q) + k
    BY <1>2, <1>5, PlaceExists
  <2>4. PICK k \in 1 .. v[q] : b = Before(v, q) + k
    BY <2>3
  <2>5. x[a] = dst[r][j] /\ x[b] = dst[q][k] /\ j \in 1 .. Len(dst[r]) /\ k \in 1 .. Len(dst[q])
    BY <1>2, <1>5, <2>2, <2>4
  <2>6. CASE r = q
    <3>1. PICK s \in Seq(Nat) : s = dst[r] /\ Ascends(s)
      BY MergedIs DEF Merged
    <3>2. j < k
      <4>1. PICK c \in Nat : c = Before(v, r)
        BY Consts, BeforeGrows
      <4> QED
        BY <1>6, <2>2, <2>4, <2>6, <4>1
    <3> QED
      BY <2>5, <2>6, <3>1, <3>2 DEF Ascends
  <2>7. CASE r < q
    BY <2>5, <2>7, RanksAscend
  <2>8. ~ q < r
    <3>1. SUFFICES ASSUME q < r PROVE FALSE
      OBVIOUS
    <3>2. q + 1 \in 0 .. N /\ r \in 0 .. N /\ q + 1 <= r /\ q \in 0 .. N
      BY <3>1, Consts DEF Rank
    <3>3. PICK c \in Nat, d \in Nat, e \in Nat, f \in Nat :
            c = Before(v, q) /\ d = Before(v, r) /\ e = Before(v, q + 1) /\ f = v[q]
      BY <3>2, BeforeGrows DEF Layout
    <3>4. e = c + f /\ e <= d
      BY <3>2, <3>3, BeforeFacts, BeforeOrder
    <3>5. PICK l \in Nat, m \in Nat : 1 <= l /\ m <= f /\ a = d + l /\ b = c + m
      BY <2>2, <2>4, <3>3, SMTT(20)
    <3>6. d + l < c + m
      BY <1>6, <3>5
    <3> QED
      BY <3>4, <3>5, <3>6, Crossed
  <2>9. r \in Int /\ q \in Int
    BY DEF Rank
  <2>10. r = q \/ r < q
    BY <2>8, <2>9
  <2> QED
    BY <2>6, <2>7, <2>10
<1>7. Sorts(g, x)
  <2>1. DOMAIN x = 1 .. Len(x)
    OBVIOUS
  <2>2. Ascends(x)
    BY <1>6, <2>1 DEF Ascends
  <2> QED
    BY <1>3, <1>4, <2>2 DEF Sorts
<1>8. Sorts(g, Sorted(g))
  BY <1>3, SortedSorts
<1>9. x = Sorted(g)
  BY <1>3, <1>7, <1>8, SortsOnce
<1> QED
  BY <1>2, <1>9

---------------------------------------------------------------------------
(* Every action keeps the invariant.                                       *)

LEMMA TotalMono ==
  ASSUME NEW u \in Layout, NEW w \in Layout, \A i \in Rank : u[i] <= w[i]
  PROVE  Total(u) <= Total(w)
<1>1. PICK v : v = [i \in Rank |-> w[i] - u[i]]
  OBVIOUS
<1>2. v \in Layout /\ \A i \in Rank : w[i] = u[i] + v[i]
  <2>1. \A i \in Rank : u[i] \in Nat /\ w[i] \in Nat
    BY DEF Layout
  <2>2. \A i \in Rank : w[i] - u[i] \in Nat /\ w[i] = u[i] + (w[i] - u[i])
    BY <2>1
  <2> QED
    BY <1>1, <2>2 DEF Layout
<1>3. Total(w) = Total(u) + Total(v)
  BY <1>2, TotalAdd
<1>4. Total(u) \in Nat /\ Total(v) \in Nat
  BY <1>2, BeforeFacts, BeforeGrows, Consts
<1> QED
  BY <1>3, <1>4

(* A vector of which a piece is kept at every rank.                        *)
LEMMA Shorter ==
  ASSUME DataInv, NEW d \in [Rank -> Seq(Value)], \A r \in Rank : Len(d[r]) <= Len(data[r])
  PROVE  Total(LayoutOf(d)) <= MaxTotal
<1>1. PICK u \in Layout, w \in Layout :
        /\ u = LayoutOf(d) /\ \A r \in Rank : u[r] = Len(d[r])
        /\ w = LayoutOf(data) /\ \A r \in Rank : w[r] = Len(data[r])
  <2>1. /\ LayoutOf(d) \in Layout /\ \A r \in Rank : LayoutOf(d)[r] = Len(d[r])
        /\ LayoutOf(data) \in Layout /\ \A r \in Rank : LayoutOf(data)[r] = Len(data[r])
    BY LayoutType DEF DataInv
  <2> QED
    BY <2>1
<1>2. Total(u) <= Total(w)
  BY <1>1, TotalMono
<1>3. Total(u) \in Nat /\ Total(w) \in Nat /\ Total(w) <= MaxTotal /\ MaxTotal \in Nat
  BY <1>1, BeforeFacts, BeforeGrows, Consts DEF DataInv
<1> QED
  BY <1>1, <1>2, <1>3

LEMMA EmptyOK == Empty \in [Rank -> Seq(Value)] /\ Total(LayoutOf(Empty)) = 0
<1>1. Empty \in [Rank -> Seq(Value)] /\ \A r \in Rank : Len(Empty[r]) = 0
  <2>1. << >> \in Seq(Value) /\ Len(<< >>) = 0
    OBVIOUS
  <2> QED
    BY <2>1 DEF Empty
<1>2. LayoutOf(Empty) \in [Rank -> 0 .. 0]
  BY <1>1 DEF LayoutOf
<1>3. Total(LayoutOf(Empty)) \in Nat /\ Total(LayoutOf(Empty)) <= N * 0
  BY <1>2, TotalBound
<1> QED
  BY <1>1, <1>3, Consts

LEMMA AtRest ==
  ASSUME DataInv, op = Idle, Clean
  PROVE  ExchangeInv
<1>1. /\ dst = [r \in Rank |-> dst[r]] /\ log = [r \in Rank |-> log[r]]
      /\ spos = [r \in Rank |-> spos[r]] /\ rbuf = [r \in Rank |-> rbuf[r]]
  BY DEF Clean, Empty, NoCounts, NoBytes
<1> QED
  BY <1>1 DEF ExchangeInv

LEMMA AtStart == DataInv /\ Planned /\ Clean => ExchangeInv
<1>1. SUFFICES ASSUME DataInv, Planned, Clean PROVE ExchangeInv
  OBVIOUS
<1>2. /\ dst = [r \in Rank |-> dst[r]] /\ log = [r \in Rank |-> log[r]]
      /\ spos = [r \in Rank |-> spos[r]] /\ rbuf = [r \in Rank |-> rbuf[r]]
  BY <1>1 DEF Clean, Empty, NoCounts, NoBytes
<1>3. \A r \in Rank : RankInv(r)
  BY <1>1, Initially
<1> QED
  BY <1>1, <1>2, <1>3 DEF ExchangeInv

LEMMA InitInv == Init => ExchangeInv
<1>1. SUFFICES ASSUME Init PROVE ExchangeInv
  OBVIOUS
<1>2. DataInv
  BY <1>1, EmptyOK, Consts DEF Init, DataInv
<1> QED
  BY <1>1, <1>2, AtRest DEF Init, Clean

(* All ranks through: dst becomes the data.                                *)
LEMMA ThroughType ==
  ASSUME Through, dst = [r \in Rank |-> dst[r]]
  PROVE  dst \in [Rank -> Seq(Value)] /\ Total(LayoutOf(dst)) <= MaxTotal
<1>1. CASE op.name = "sort"
  <2>1. \A r \in Rank : dst[r] \in Seq(Value)
    BY <1>1, MergedIs
  <2>2. dst \in [Rank -> Seq(Value)]
    BY <2>1
  <2>3. Total(LayoutOf(dst)) = Total(LayoutOf(data))
    BY <1>1, <2>2, SortedCounts
  <2> QED
    BY <2>2, <2>3 DEF Through, DataInv
<1>2. CASE op.name # "sort"
  <2>1. \A r \in Rank : dst[r] \in Seq(Value) /\ Len(dst[r]) = op.sizes[r]
    BY <1>2, MovedType
  <2>2. dst \in [Rank -> Seq(Value)]
    BY <2>1
  <2>3. op.sizes \in Layout /\ Total(op.sizes) <= MaxTotal
    BY <1>2, AskedFor, Consts DEF Through
  <2>4. LayoutOf(dst) = op.sizes
    BY <2>1, <2>3 DEF LayoutOf, Layout
  <2> QED
    BY <2>2, <2>3, <2>4
<1> QED
  BY <1>1, <1>2

LEMMA AllThrough ==
  ASSUME ExchangeInv, op # Idle, \A r \in Rank : dst[r] # Waiting
  PROVE  Through /\ dst = [r \in Rank |-> dst[r]]
BY DEF ExchangeInv, Through

LEMMA FinishKeeps ==
  ASSUME ExchangeInv, Finish
  PROVE  ExchangeInv'
<1>1. /\ data' = dst /\ op' = Idle /\ dst' = [r \in Rank |-> Waiting]
      /\ log' = Empty /\ spos' = NoCounts /\ rbuf' = NoBytes
      /\ op # Idle /\ \A r \in Rank : dst[r] # Waiting
  BY Zenon DEF Finish
<1>2. dst \in [Rank -> Seq(Value)] /\ Total(LayoutOf(dst)) <= MaxTotal
  BY <1>1, AllThrough, ThroughType
<1>3. DataInv'
  BY <1>1, <1>2 DEF DataInv, LayoutOf
<1>4. Clean'
  BY <1>1, Zenon DEF Clean, Waiting, Empty, NoCounts, NoBytes
<1>5. (DataInv /\ op = Idle /\ Clean => ExchangeInv)'
  BY AtRest, PTL
<1> QED
  BY <1>1, <1>3, <1>4, <1>5, Zenon DEF Idle

LEMMA Resting == ExchangeInv /\ op = Idle => DataInv /\ Clean
BY Busy DEF ExchangeInv

LEMMA StartKeeps ==
  ASSUME ExchangeInv, op = Idle, NEW o, Start(o), DataInv', Planned'
  PROVE  ExchangeInv'
<1>1. Clean
  BY Resting
<1>2. Clean'
  BY <1>1 DEF Clean, Start, Waiting, Empty, NoCounts, NoBytes
<1>3. (DataInv /\ Planned /\ Clean => ExchangeInv)'
  BY AtStart, PTL
<1> QED
  BY <1>2, <1>3

LEMMA LocalKeeps ==
  ASSUME ExchangeInv, op = Idle, NEW d \in [Rank -> Seq(Value)], Local(d),
         Total(LayoutOf(d)) <= MaxTotal
  PROVE  ExchangeInv'
<1>1. Clean
  BY Resting
<1>2. data' = d /\ op' = op /\ dst' = dst /\ log' = log /\ spos' = spos /\ rbuf' = rbuf
  BY DEF Local
<1>3. DataInv'
  BY <1>2 DEF DataInv, LayoutOf
<1>4. Clean'
  BY <1>1, <1>2 DEF Clean, Waiting, Empty, NoCounts, NoBytes
<1>5. (DataInv /\ op = Idle /\ Clean => ExchangeInv)'
  BY AtRest, PTL
<1> QED
  BY <1>2, <1>3, <1>4, <1>5, Zenon DEF Idle

LEMMA LayoutsOfType ==
  ASSUME NEW n \in Nat, NEW v \in LayoutsOf(n)
  PROVE  v \in Layout /\ Total(v) = n
BY DEF LayoutsOf, Layout

LEMMA BoundedIs ==
  ASSUME NEW S, NEW n \in Nat, NEW s
  PROVE  s \in BoundedSeq(S, n) <=> s \in Seq(S) /\ Len(s) <= n
<1>1. BoundedSeq(S, n) = UNION {[1 .. m -> S] : m \in 0 .. n}
  BY DEF BoundedSeq, SeqOf
<1>2. ASSUME s \in BoundedSeq(S, n) PROVE s \in Seq(S) /\ Len(s) <= n
  <2>1. PICK m \in 0 .. n : s \in [1 .. m -> S]
    BY <1>1, <1>2
  <2> QED
    BY <2>1
<1>3. ASSUME s \in Seq(S), Len(s) <= n PROVE s \in BoundedSeq(S, n)
  <2>1. PICK m \in Nat : m = Len(s)
    BY <1>3
  <2>2. m \in 0 .. n /\ s \in [1 .. m -> S]
    BY <1>3, <2>1
  <2> QED
    BY <1>1, <2>2
<1> QED
  BY <1>2, <1>3

LEMMA ScatterKeeps ==
  ASSUME ExchangeInv, Scatter
  PROVE  ExchangeInv'
<1>1. op = Idle /\ data = Empty /\ data' = data /\ DataInv
  BY Resting DEF Scatter
<1>2. PICK src \in BoundedSeq(Value, MaxTotal) : \E sizes \in LayoutsOf(Len(src)) :
        Start([name |-> "scatter", src |-> src, sizes |-> sizes])
  BY DEF Scatter
<1>3. src \in Seq(Value) /\ Len(src) <= MaxTotal /\ Len(src) \in Nat
  BY <1>2, BoundedIs, Consts
<1>4. PICK sizes \in LayoutsOf(Len(src)) : Start([name |-> "scatter", src |-> src, sizes |-> sizes])
  BY <1>2
<1>5. sizes \in Layout /\ Total(sizes) = Len(src)
  BY <1>3, LayoutsOfType
<1>6. op' = [name |-> "scatter", src |-> src, sizes |-> sizes]
  BY <1>4 DEF Start
<1>7. Planned'
  BY <1>1, <1>3, <1>5, <1>6 DEF Planned, ScatterPlan, Empty
<1>8. DataInv'
  BY <1>1 DEF DataInv, LayoutOf
<1> QED
  BY <1>1, <1>4, <1>7, <1>8, StartKeeps

LEMMA AlignKeeps ==
  ASSUME ExchangeInv, Align
  PROVE  ExchangeInv'
<1>1. op = Idle /\ data' = data /\ DataInv
  BY Resting DEF Align
<1>2. PICK sizes \in LayoutsOf(Total(LayoutOf(data))) :
        Start([name |-> "align", old |-> LayoutOf(data), sizes |-> sizes])
  BY DEF Align
<1>3. Total(LayoutOf(data)) \in Nat
  <2>1. LayoutOf(data) \in Layout
    BY <1>1, LayoutType DEF DataInv
  <2> QED
    BY <2>1, BeforeFacts, BeforeGrows, Consts
<1>4. sizes \in Layout /\ Total(sizes) = Total(LayoutOf(data))
  BY <1>3, LayoutsOfType
<1>5. op' = [name |-> "align", old |-> LayoutOf(data), sizes |-> sizes]
  BY <1>2 DEF Start
<1>6. LayoutOf(data)' = LayoutOf(data)
  BY <1>1 DEF LayoutOf
<1>7. Planned'
  BY <1>4, <1>5, <1>6 DEF Planned, AlignPlan
<1>8. DataInv'
  BY <1>1, <1>6 DEF DataInv
<1> QED
  BY <1>1, <1>2, <1>7, <1>8, StartKeeps

(* sort: the partitioners are in order whatever is picked.                 *)
LEMMA SortStarts ==
  ASSUME DataInv, NEW d, d = [r \in Rank |-> Sorted(data[r])]
  PROVE  /\ d \in [Rank -> Seq(Value)] /\ LayoutOf(d) = LayoutOf(data)
         /\ \A r \in Rank : Ascends(d[r])
<1>1. ASSUME NEW r \in Rank
      PROVE  d[r] \in Seq(Value) /\ Len(d[r]) = Len(data[r]) /\ Ascends(d[r])
  <2>1. PICK v \in Seq(Value) : v = data[r]
    BY DEF DataInv
  <2>2. v \in Seq(Nat)
    BY Consts, SeqMonotone
  <2>3. PICK t : t = Sorted(v)
    OBVIOUS
  <2>4. Sorts(v, t) /\ \A k \in 1 .. Len(v) : t[k] \in Range(v)
    BY <2>2, <2>3, SortedSorts
  <2>5. t \in Seq(Nat) /\ Len(t) = Len(v) /\ Ascends(t)
    BY <2>4 DEF Sorts
  <2>6. Range(v) \subseteq Value
    BY DEF Range
  <2>7. PICK n \in Nat : n = Len(v)
    OBVIOUS
  <2>8. t \in [1 .. n -> Value]
    BY <2>4, <2>5, <2>6, <2>7
  <2> QED
    BY <2>1, <2>3, <2>5, <2>8
<1>2. d \in [Rank -> Seq(Value)]
  BY <1>1
<1>3. LayoutOf(d) = LayoutOf(data)
  BY <1>1 DEF LayoutOf
<1> QED
  BY <1>1, <1>2, <1>3

LEMMA PickedPart ==
  ASSUME NEW d \in [Rank -> Seq(Value)],
         NEW picked, picked \subseteq UNION {{r} \X Every(d[r]) : r \in Rank},
         NEW offers,
         offers = [r \in Rank |-> Offered(d[r], {p[2] : p \in {q \in picked : q[1] = r}})]
  PROVE  IsPart(partitioners(Sorted(Global(offers))))
<1>1. ASSUME NEW r \in Rank PROVE offers[r] \in Seq(Nat)
  <2>1. d[r] \in Seq(Nat)
    BY Consts, SeqMonotone
  <2>2. PICK some : some = {p[2] : p \in {q \in picked : q[1] = r}}
    OBVIOUS
  <2>3. ASSUME NEW z \in some PROVE z \in Every(d[r])
    <3>1. PICK p \in picked : p[1] = r /\ z = p[2]
      BY <2>2, <2>3
    <3>2. PICK s \in Rank : p \in {s} \X Every(d[s])
      BY <3>1
    <3> QED
      BY <3>1, <3>2
  <2>4. Offered(d[r], some) \in Seq(Nat)
    BY <2>1, <2>3, OfferedType
  <2> QED
    BY <2>2, <2>4
<1>2. offers \in [Rank -> Seq(Nat)]
  BY <1>1
<1>3. PICK s \in Seq(Nat) : s = Global(offers)
  BY <1>2, GlobalFacts
<1>4. PICK t \in Seq(Nat) : t = Sorted(s) /\ Ascends(t)
  BY SortedSorts DEF Sorts
<1> QED
  BY <1>3, <1>4, Partitioners

LEMMA SortKeeps ==
  ASSUME ExchangeInv, Sort
  PROVE  ExchangeInv'
<1>1. op = Idle /\ DataInv
  BY Resting DEF Sort
<1>2. PICK d : d = [r \in Rank |-> Sorted(data[r])] /\ data' = d
  BY DEF Sort
<1>3. /\ d \in [Rank -> Seq(Value)] /\ LayoutOf(d) = LayoutOf(data)
      /\ \A r \in Rank : Ascends(d[r])
  BY <1>1, <1>2, SortStarts
<1>4. PICK picked \in SUBSET UNION {{r} \X Every(data'[r]) : r \in Rank} :
        LET offers == [r \in Rank |-> Offered(data'[r], {p[2] : p \in {q \in picked : q[1] = r}})]
        IN Start([name |-> "sort", part |-> partitioners(Sorted(Global(offers)))])
  BY Zenon DEF Sort
<1>5. PICK offers :
        /\ offers = [r \in Rank |-> Offered(d[r], {p[2] : p \in {q \in picked : q[1] = r}})]
        /\ Start([name |-> "sort", part |-> partitioners(Sorted(Global(offers)))])
  BY <1>2, <1>4, Zenon
<1>6. PICK part : part = partitioners(Sorted(Global(offers)))
  OBVIOUS
<1>7. IsPart(part)
  <2>1. picked \subseteq UNION {{r} \X Every(d[r]) : r \in Rank}
    BY <1>2, Zenon
  <2> QED
    BY <1>3, <1>5, <1>6, <2>1, PickedPart
<1>8. op' = [name |-> "sort", part |-> part]
  BY <1>5, <1>6 DEF Start
<1>9. part \in Seq(Nat)
  BY <1>7 DEF IsPart
<1>10. Planned'
  <2>1. \A r \in Rank : Ascends(data[r])'
    BY <1>2, <1>3 DEF Ascends
  <2> QED
    BY <1>7, <1>8, <1>9, <2>1 DEF Planned, SortPlan, IsPart
<1>11. DataInv'
  BY <1>1, <1>2, <1>3 DEF DataInv, LayoutOf
<1> QED
  BY <1>1, <1>5, <1>10, <1>11, StartKeeps

LEMMA PutKeeps ==
  ASSUME ExchangeInv, put
  PROVE  ExchangeInv'
<1>1. op = Idle /\ DataInv
  BY Resting DEF put
<1>2. PICK x \in Value : \E at : Local([data EXCEPT ![at[1]][at[2] + 1] = x])
  BY DEF put
<1>3. PICK a, b : Local([data EXCEPT ![a][b] = x])
  BY <1>2
<1>4. PICK d : d = [data EXCEPT ![a][b] = x] /\ Local(d)
  BY <1>2, <1>3
<1>5. ASSUME NEW r \in Rank PROVE d[r] \in Seq(Value) /\ Len(d[r]) = Len(data[r])
  <2>1. PICK v \in Seq(Value) : v = data[r]
    BY <1>1 DEF DataInv
  <2>2. d[r] = v \/ d[r] = [v EXCEPT ![b] = x]
    BY <1>1, <1>4, <2>1 DEF DataInv
  <2>3. [v EXCEPT ![b] = x] \in Seq(Value) /\ Len([v EXCEPT ![b] = x]) = Len(v)
    <3>1. PICK n \in Nat : n = Len(v)
      OBVIOUS
    <3>2. v \in [1 .. n -> Value]
      BY <3>1
    <3>3. PICK w : w = [v EXCEPT ![b] = x]
      OBVIOUS
    <3>4. w \in [1 .. n -> Value]
      BY <1>2, <3>2, <3>3
    <3> QED
      BY <3>1, <3>3, <3>4
  <2> QED
    BY <2>1, <2>2, <2>3
<1>6. d \in [Rank -> Seq(Value)]
  BY <1>1, <1>4, <1>5 DEF DataInv
<1>7. LayoutOf(d) = LayoutOf(data)
  BY <1>5 DEF LayoutOf
<1> QED
  BY <1>1, <1>4, <1>6, <1>7, LocalKeeps DEF DataInv

(* A part of what each rank has.                                           *)
LEMMA PartKeeps ==
  ASSUME ExchangeInv, op = Idle, NEW d, Local(d), d = [r \in Rank |-> d[r]],
         \A r \in Rank : d[r] \in Seq(Value) /\ Len(d[r]) <= Len(data[r])
  PROVE  ExchangeInv'
<1>1. DataInv
  BY Resting
<1>2. d \in [Rank -> Seq(Value)]
  OBVIOUS
<1>3. Total(LayoutOf(d)) <= MaxTotal
  BY <1>1, <1>2, Shorter
<1> QED
  BY <1>2, <1>3, LocalKeeps

LEMMA HeadKeeps ==
  ASSUME ExchangeInv, head
  PROVE  ExchangeInv'
<1>1. op = Idle /\ DataInv
  BY Resting DEF head
<1>2. PICK n \in 0 .. MaxTotal + 1 : \E take :
        /\ take = head_sizes(LayoutOf(data), n)
        /\ Local([r \in Rank |-> SubSeq(data[r], 1, take[r])])
  BY DEF head
<1>3. PICK take :
        /\ take = head_sizes(LayoutOf(data), n)
        /\ Local([r \in Rank |-> SubSeq(data[r], 1, take[r])])
  BY <1>2
<1>4. PICK d : d = [r \in Rank |-> SubSeq(data[r], 1, take[r])]
  OBVIOUS
<1>5. \A r \in Rank : take[r] \in 0 .. Len(data[r])
  <2>1. LayoutOf(data) \in Layout /\ \A r \in Rank : LayoutOf(data)[r] = Len(data[r])
    BY <1>1, LayoutType DEF DataInv
  <2>2. n \in Nat
    BY <1>3, Consts
  <2> QED
    BY <1>3, <2>1, <2>2, HeadBounded
<1>6. ASSUME NEW r \in Rank PROVE d[r] \in Seq(Value) /\ Len(d[r]) <= Len(data[r])
  <2>1. PICK v \in Seq(Value) : v = data[r]
    BY <1>1 DEF DataInv
  <2>2. PICK l \in Nat, e \in Nat : l = Len(v) /\ e = take[r] /\ e <= l
    BY <1>5, <2>1
  <2>3. PICK t : t = SubSeq(v, 0 + 1, e)
    OBVIOUS
  <2>4. IsSlice(Value, t, v, 0, e)
    <3>1. 0 \in Nat /\ 0 <= e /\ 0 + e = e
      BY <2>2
    <3> QED
      BY <2>2, <2>3, <3>1, SliceIs
  <2>5. d[r] = t
    BY <1>4, <2>1, <2>2, <2>3
  <2> QED
    BY <2>1, <2>2, <2>4, <2>5 DEF IsSlice
<1> QED
  BY <1>1, <1>3, <1>4, <1>6, PartKeeps

LEMMA TailKeeps ==
  ASSUME ExchangeInv, tail
  PROVE  ExchangeInv'
<1>1. op = Idle /\ DataInv
  BY Resting DEF tail
<1>2. PICK n \in 0 .. MaxTotal + 1 : \E take :
        /\ take = tail_sizes(LayoutOf(data), n)
        /\ Local([r \in Rank |-> SubSeq(data[r], Len(data[r]) - take[r] + 1, Len(data[r]))])
  BY DEF tail
<1>3. PICK take :
        /\ take = tail_sizes(LayoutOf(data), n)
        /\ Local([r \in Rank |-> SubSeq(data[r], Len(data[r]) - take[r] + 1, Len(data[r]))])
  BY <1>2
<1>4. PICK d : d = [r \in Rank |-> SubSeq(data[r], Len(data[r]) - take[r] + 1, Len(data[r]))]
  OBVIOUS
<1>5. \A r \in Rank : take[r] \in 0 .. Len(data[r])
  <2>1. LayoutOf(data) \in Layout /\ \A r \in Rank : LayoutOf(data)[r] = Len(data[r])
    BY <1>1, LayoutType DEF DataInv
  <2>2. n \in Nat
    BY <1>3, Consts
  <2> QED
    BY <1>3, <2>1, <2>2, TailBounded
<1>6. ASSUME NEW r \in Rank PROVE d[r] \in Seq(Value) /\ Len(d[r]) <= Len(data[r])
  <2>1. PICK v \in Seq(Value) : v = data[r]
    BY <1>1 DEF DataInv
  <2>2. PICK l \in Nat, e \in Nat : l = Len(v) /\ e = take[r] /\ e <= l
    BY <1>5, <2>1
  <2>3. PICK a \in Nat : a = l - e /\ a + e = l /\ a <= l
    <3>1. l - e \in Nat /\ (l - e) + e = l /\ l - e <= l
      BY <2>2
    <3> QED
      BY <3>1
  <2>4. PICK t : t = SubSeq(v, a + 1, l)
    OBVIOUS
  <2>5. IsSlice(Value, t, v, a, e)
    <3>1. l <= l
      BY <2>2
    <3> QED
      BY <2>2, <2>3, <2>4, <3>1, SliceIs
  <2>6. d[r] = t
    BY <1>4, <2>1, <2>2, <2>3, <2>4
  <2> QED
    BY <2>1, <2>2, <2>5, <2>6 DEF IsSlice
<1> QED
  BY <1>1, <1>3, <1>4, <1>6, PartKeeps

LEMMA ClearKeeps ==
  ASSUME ExchangeInv, clear
  PROVE  ExchangeInv'
BY LocalKeeps, EmptyOK, Consts DEF clear

LEMMA StaysPut ==
  ASSUME ExchangeInv, UNCHANGED vars
  PROVE  ExchangeInv'
<1>1. /\ op' = op /\ data' = data /\ dst' = dst /\ log' = log /\ spos' = spos /\ rbuf' = rbuf
  BY DEF vars
<1>2. DataInv' = DataInv /\ Planned' = Planned
  BY <1>1, SamePlan
<1>3. Clean' = Clean
  BY <1>1 DEF Clean, Waiting, Empty, NoCounts, NoBytes
<1>4. ASSUME \A r \in Rank : RankInv(r) PROVE \A r \in Rank : RankInv(r)'
  BY <1>1, <1>4, OtherRanks
<1> QED
  BY <1>1, <1>2, <1>3, <1>4 DEF ExchangeInv, Idle

LEMMA NextKeeps ==
  ASSUME ExchangeInv, [Next]_vars
  PROVE  ExchangeInv'
BY StepKeeps, FinishKeeps, ScatterKeeps, AlignKeeps, SortKeeps, PutKeeps, HeadKeeps, TailKeeps,
   ClearKeeps, StaysPut DEF Next

(* Whatever the speed of the ranks, an exchange follows its plan: each rank*)
(* brought the pieces of the rounds it entered, and has those of the rounds*)
(* it left.                                                                *)
THEOREM Invariant == Spec => []ExchangeInv
<1>1. ExchangeInv /\ [Next]_vars => ExchangeInv'
  BY NextKeeps
<1> QED
  BY InitInv, <1>1, PTL DEF Spec

---------------------------------------------------------------------------
(* What the invariant says of the runs' properties.                        *)

(* In the middle of a call, or not.                                        *)
LEMMA IdleOrPlanned ==
  ASSUME ExchangeInv
  PROVE  /\ DataInv
         /\ op = Idle => Clean
         /\ op # Idle => Planned /\ \A r \in Rank : RankInv(r)
BY Busy DEF ExchangeInv

LEMMA BegunPlanned ==
  ASSUME ExchangeInv, NEW r \in Rank, Begun(r)
  PROVE  DataInv /\ Planned /\ \A q \in Rank : RankInv(q)
<1>1. op # Idle
  BY IdleOrPlanned DEF Begun, Clean, Empty
<1> QED
  BY <1>1, IdleOrPlanned

LEMMA TypeHolds == ExchangeInv => TypeOK
<1>1. SUFFICES ASSUME ExchangeInv PROVE TypeOK
  OBVIOUS
<1>2. DataInv
  BY <1>1, IdleOrPlanned
<1>3. \A r \in Rank : data[r] \in Seq(Value) /\ Len(data[r]) <= MaxTotal
  BY <1>2, RankLen DEF DataInv
<1>4. CASE op = Idle
  <2>1. \A r \in Rank : dst[r] = Waiting
    BY <1>1, <1>4, IdleOrPlanned DEF Clean
  <2>2. op.name = "none"
    BY <1>4 DEF Idle
  <2> QED
    BY <1>3, <1>4, <2>1, <2>2 DEF TypeOK
<1>5. CASE op # Idle
  <2>1. Planned /\ \A r \in Rank : RankInv(r)
    BY <1>1, <1>5, IdleOrPlanned
  <2>2. op.name \in {"none", "scatter", "align", "sort"}
    BY <2>1 DEF Planned, ScatterPlan, AlignPlan, SortPlan
  <2>3. \A r \in Rank : dst[r] = Waiting \/ dst[r] \in Seq(Value)
    BY <1>2, <2>1, MovedAt, MergedAt
  <2>4. ASSUME NEW r \in Rank, NEW i \in Rank PROVE spos[r][i] \in 0 .. SendCount(r, i)
    <3>1. PICK k \in Nat : spos[r] = [j \in Rank |-> Sent(r, j, k)]
      BY <2>1 DEF RankInv, SentInv
    <3>2. SendCount(r, i) \in Nat
      BY <1>2, <2>1, CountsFacts DEF CountsOK
    <3> QED
      BY <3>1, <3>2, SentFacts
  <2>5. \A r \in Rank : dst[r] # Waiting /\ op.name # "sort" => Bytes(dst[r]) = Global(rbuf[r])
    BY <1>2, <2>1, ArrivedIs
  <2> QED
    BY <1>3, <2>2, <2>3, <2>4, <2>5 DEF TypeOK
<1> QED
  BY <1>4, <1>5

(* A round of r, and the same round of those it waits for.                 *)
LEMMA RoundOf ==
  ASSUME ExchangeInv, NEW r \in Rank, Begun(r), InRound(r)
  PROVE  \E m \in Nat :
           /\ Len(log[r]) = 2 * m + 1
           /\ log[r][2 * m + 1] = [i \in Rank |-> Chunk(r, i, m, m + 1)]
           /\ MayLeave(r) => \A q \in Awaited(r) :
                /\ Now(q, r)[r] = Chunk(q, r, m, m + 1)
                /\ rbuf[r][q] = Chunk(q, r, 0, m)
<1>1. Planned /\ \A q \in Rank : RankInv(q)
  BY BegunPlanned
<1>2. PICK l \in Nat : l = Len(log[r])
  BY <1>1 DEF RankInv, LogInv
<1>3. PICK m \in Nat : l = 2 * m + 1
  <2>1. l % 2 = 1
    BY <1>2 DEF InRound
  <2> QED
    BY <2>1
<1>4. \A q \in Rank : 2 * m + 1 <= Len(log[q]) =>
        log[q][2 * m + 1] = [i \in Rank |-> Chunk(q, i, m, m + 1)]
  BY <1>1 DEF RankInv, LogInv
<1>5. log[r][2 * m + 1] = [i \in Rank |-> Chunk(r, i, m, m + 1)]
  <2>1. 2 * m + 1 <= Len(log[r])
    BY <1>2, <1>3
  <2> QED
    BY <1>4, <2>1
<1>6. rbuf[r] = Here(r, m)
  <2>1. (2 * m + 1) \div 2 = m
    OBVIOUS
  <2> QED
    BY <1>1, <1>2, <1>3, <2>1 DEF RankInv, HereInv
<1>7. ASSUME MayLeave(r), NEW q \in Awaited(r)
      PROVE  Now(q, r)[r] = Chunk(q, r, m, m + 1) /\ rbuf[r][q] = Chunk(q, r, 0, m)
  <2>1. q \in Rank
    BY <1>7, Consts DEF Awaited
  <2>2. 2 * m + 1 <= Len(log[q])
    <3>1. Len(log[q]) >= l /\ Len(log[q]) \in Nat
      BY <1>1, <1>2, <1>7, <2>1 DEF MayLeave, RankInv, LogInv
    <3> QED
      BY <1>3, <3>1
  <2>3. Now(q, r) = log[q][2 * m + 1]
    BY <1>2, <1>3 DEF Now
  <2>4. log[q][2 * m + 1][r] = Chunk(q, r, m, m + 1)
    BY <1>4, <2>1, <2>2
  <2>5. Here(r, m)[q] = Chunk(q, r, 0, m)
    BY <1>7, <2>1 DEF Here
  <2> QED
    BY <1>6, <2>3, <2>4, <2>5, Zenon
<1> QED
  BY <1>2, <1>3, <1>5, <1>7

LEMMA CountsHold == ExchangeInv => CountsMatch
<1>1. SUFFICES ASSUME ExchangeInv, NEW r \in Rank, Begun(r), InRound(r), MayLeave(r),
                      NEW i \in Awaited(r)
               PROVE  Len(Now(i, r)[r]) = each_count(RecvCount(r, i), Len(rbuf[r][i]))
  BY DEF CountsMatch
<1>2. PICK m \in Nat : Now(i, r)[r] = Chunk(i, r, m, m + 1) /\ rbuf[r][i] = Chunk(i, r, 0, m)
  BY <1>1, RoundOf
<1>3. i \in Rank
  BY <1>1, Consts DEF Awaited
<1>4. CountsOK(i, r)
  BY <1>1, <1>3, BegunPlanned, CountsFacts
<1>5. /\ Len(Chunk(i, r, m, m + 1)) = Sent(i, r, m + 1) - Sent(i, r, m)
      /\ Len(Chunk(i, r, 0, m)) = Sent(i, r, m)
  BY <1>4, ChunkFacts
<1>6. each_count(SendCount(i, r), Sent(i, r, m)) = Sent(i, r, m + 1) - Sent(i, r, m)
  BY <1>4, SentFacts DEF CountsOK
<1> QED
  BY <1>2, <1>5, <1>6 DEF RecvCount

(* No piece of a round is longer than its part of mpi_max_count.           *)
LEMMA PieceFits ==
  ASSUME NEW s, NEW i, CountsOK(s, i), NEW m \in Nat
  PROVE  Len(Chunk(s, i, m, m + 1)) \in 0 .. local_max_count
<1>1. PICK c \in Nat : c = SendCount(s, i)
  BY DEF CountsOK
<1>2. PICK p \in 0 .. c, q \in 0 .. c : /\ p = Sent(s, i, m) /\ q = Sent(s, i, m + 1)
                                        /\ p <= q /\ q - p <= local_max_count
  BY <1>1, SentFacts
<1>3. Len(Chunk(s, i, m, m + 1)) = q - p
  BY <1>2, ChunkFacts
<1> QED
  BY <1>2, <1>3, Consts

LEMMA SumsFit ==
  ASSUME NEW f \in [Rank -> 0 .. local_max_count]
  PROVE  SumFunction(f) <= mpi_max_count /\ SumFunctionOnSet(f, Rank) <= mpi_max_count
<1>1. PICK a \in Nat : a = local_max_count /\ N * a \in Nat /\ N * a <= mpi_max_count
  BY Consts
<1>2. Total(f) \in Nat /\ Total(f) <= N * a
  BY <1>1, TotalBound
<1>3. f \in Layout
  BY <1>1 DEF Layout
<1>4. SumFunctionOnSet(f, Rank) = Total(f) /\ SumFunction(f) = Total(f)
  BY <1>3, BeforeFacts, Zenon DEF Before, Rank, Total
<1> QED
  BY <1>1, <1>2, <1>4, MaxCountAssumption

LEMMA DisplsHold == ExchangeInv => DisplsFit
<1>1. SUFFICES ASSUME ExchangeInv, NEW r \in Rank, Begun(r), InRound(r)
               PROVE  /\ SumFunction([i \in Rank |-> Len(log[r][Len(log[r])][i])]) <= mpi_max_count
                      /\ MayLeave(r) =>
                           SumFunctionOnSet([i \in Rank |-> IF i \in Awaited(r)
                                                            THEN Len(Now(i, r)[r]) ELSE 0],
                                            Rank) <= mpi_max_count
  BY DEF DisplsFit
<1>2. PICK m \in Nat :
        /\ Len(log[r]) = 2 * m + 1
        /\ log[r][2 * m + 1] = [i \in Rank |-> Chunk(r, i, m, m + 1)]
        /\ MayLeave(r) => \A q \in Awaited(r) : Now(q, r)[r] = Chunk(q, r, m, m + 1)
  BY <1>1, RoundOf
<1>3. \A s, i \in Rank : CountsOK(s, i)
  BY <1>1, BegunPlanned, CountsFacts
<1>4. SumFunction([i \in Rank |-> Len(log[r][Len(log[r])][i])]) <= mpi_max_count
  <2>1. PICK f : f = [i \in Rank |-> Len(log[r][Len(log[r])][i])]
    OBVIOUS
  <2>2. \A i \in Rank : f[i] = Len(Chunk(r, i, m, m + 1))
    BY <1>2, <2>1
  <2>3. f \in [Rank -> 0 .. local_max_count]
    BY <1>3, <2>1, <2>2, PieceFits
  <2> QED
    BY <2>1, <2>3, SumsFit
<1>5. ASSUME MayLeave(r)
      PROVE  SumFunctionOnSet([i \in Rank |-> IF i \in Awaited(r) THEN Len(Now(i, r)[r]) ELSE 0],
                              Rank) <= mpi_max_count
  <2>1. PICK f : f = [i \in Rank |-> IF i \in Awaited(r) THEN Len(Now(i, r)[r]) ELSE 0]
    OBVIOUS
  <2>2. \A i \in Rank : f[i] = 0 \/ f[i] = Len(Chunk(i, r, m, m + 1))
    BY <1>2, <1>5, <2>1
  <2>3. f \in [Rank -> 0 .. local_max_count]
    <3>1. 0 \in 0 .. local_max_count
      BY Consts
    <3> QED
      BY <1>3, <2>1, <2>2, <3>1, PieceFits
  <2> QED
    BY <2>1, <2>3, SumsFit
<1> QED
  BY <1>4, <1>5

(* Only Finish ends what was begun.                                        *)
LEMMA Ends ==
  ASSUME ExchangeInv, Next, op # Idle, op' = Idle
  PROVE  Finish
BY DEF Next, Scatter, Align, Sort, put, head, tail, clear, Step, Begin, LeaveRound, LeaveVote

LEMMA LaidOut ==
  ASSUME ExchangeInv, Next, op' = Idle, op.name \in {"scatter", "align"}
  PROVE  LayoutOf(data') = op.sizes
<1>1. op # Idle /\ op.name # "sort"
  BY DEF Idle
<1>2. Finish
  BY <1>1, Ends
<1>3. data' = dst /\ Through
  BY <1>1, <1>2, AllThrough DEF Finish
<1>4. op.sizes \in Layout
  BY <1>1, <1>3, AskedFor, Consts DEF Through
<1>5. \A r \in Rank : Len(dst[r]) = op.sizes[r]
  BY <1>1, <1>3, MovedType
<1> QED
  BY <1>3, <1>4, <1>5 DEF LayoutOf, Layout

---------------------------------------------------------------------------
(* What each operation does to the vector.                                 *)

(* sort: that every rank sorts first makes no difference.                  *)
LEMMA SortedAlike ==
  ASSUME DataInv, NEW d, d = [r \in Rank |-> Sorted(data[r])]
  PROVE  Sorted(Global(d)) = Sorted(Global(data))
<1>1. /\ d \in [Rank -> Seq(Value)] /\ LayoutOf(d) = LayoutOf(data)
      /\ data \in [Rank -> Seq(Value)]
  BY SortStarts DEF DataInv
<1>2. PICK a \in [Rank -> Seq(Nat)], b \in [Rank -> Seq(Nat)] : a = d /\ b = data
  <2>1. \A r \in Rank : d[r] \in Seq(Nat) /\ data[r] \in Seq(Nat)
    BY <1>1, Consts, SeqMonotone
  <2>2. d \in [Rank -> Seq(Nat)] /\ data \in [Rank -> Seq(Nat)]
    BY <1>1, <2>1
  <2> QED
    BY <2>2
<1>3. PICK g \in Seq(Nat), h \in Seq(Nat) :
        /\ g = Global(a) /\ h = Global(b)
        /\ Len(g) = Total(LayoutOf(a)) /\ Len(h) = Total(LayoutOf(b))
  <2>1. /\ Global(a) \in Seq(Nat) /\ Len(Global(a)) = Total(LayoutOf(a))
        /\ Global(b) \in Seq(Nat) /\ Len(Global(b)) = Total(LayoutOf(b))
    BY GlobalFacts
  <2> QED
    BY <2>1
<1>4. ASSUME NEW x \in Nat PROVE Times(g, x) = Times(h, x)
  <2>1. \A r \in Rank : Times(a[r], x) = Times(b[r], x)
    <3>1. ASSUME NEW r \in Rank PROVE Times(a[r], x) = Times(b[r], x)
      <4>1. a[r] = Sorted(b[r]) /\ b[r] \in Seq(Nat)
        BY <1>2
      <4>2. Sorts(b[r], Sorted(b[r]))
        BY <4>1, SortedSorts
      <4> QED
        BY <4>1, <4>2 DEF Sorts
    <3> QED
      BY <3>1
  <2>2. Ones(a, x) = Ones(b, x)
    BY <2>1 DEF Ones
  <2>3. Times(g, x) = Total(Ones(a, x)) /\ Times(h, x) = Total(Ones(b, x))
    BY <1>3, GlobalTimes
  <2> QED
    BY <2>2, <2>3
<1>5. Len(g) = Len(h)
  BY <1>1, <1>2, <1>3
<1>6. Sorts(g, Sorted(g)) /\ Sorts(h, Sorted(h))
  BY SortedSorts
<1>7. Sorts(h, Sorted(g))
  BY <1>4, <1>5, <1>6 DEF Sorts
<1> QED
  BY <1>2, <1>3, <1>6, <1>7, SortsOnce

(* put finds the rank and the place.                                       *)
LEMMA Located ==
  ASSUME NEW v \in Layout, NEW pos \in 0 .. Total(v) - 1
  PROVE  \E r \in Rank : \E j \in 1 .. v[r] :
           locate(v, pos) = <<r, j - 1>> /\ pos + 1 = Before(v, r) + j
<1> DEFINE Val(rest, k) == IF k = 0 THEN pos ELSE rest[k - 1] - v[k - 1]
           Loop(rest) == rest = [k \in Rank |-> Val(rest, k)]
           rest == CHOOSE f : Loop(f)
           g == [k \in Rank |-> pos - Before(v, k)]
           Found(r) == rest[r] < v[r] /\ \A q \in 0 .. r - 1 : rest[q] >= v[q]
<1>1. pos \in Nat /\ \A k \in 0 .. N : Before(v, k) \in Nat
  BY BeforeGrows
<1>2. \A k \in Rank : /\ k \in 0 .. N /\ v[k] \in Nat /\ k \in Nat
                      /\ k # 0 => k - 1 \in Rank /\ (k - 1) + 1 = k /\ k - 1 \in 0 .. N
  BY NAssumption DEF Rank, Layout
<1>3. /\ Before(v, 0) = 0
      /\ \A k \in Rank : k # 0 => Before(v, k) = Before(v, k - 1) + v[k - 1]
  BY <1>2, BeforeFacts
<1>4. ASSUME NEW k \in Rank PROVE pos - Before(v, k) = Val(g, k)
  <2>1. CASE k = 0
    BY <1>1, <1>3, <2>1
  <2>2. CASE k # 0
    <3>1. g[k - 1] = pos - Before(v, k - 1)
      BY <1>2, <2>2
    <3> HIDE DEF g
    <3>2. PICK b \in Nat, c \in Nat : b = Before(v, k - 1) /\ c = v[k - 1] /\ Before(v, k) = b + c
      BY <1>1, <1>2, <1>3, <2>2
    <3>3. pos - (b + c) = (pos - b) - c
      BY <1>1
    <3> QED
      BY <2>2, <3>1, <3>2, <3>3
  <2> QED
    BY <2>1, <2>2
<1>5. Loop(g)
  BY <1>4
<1>6. Loop(rest)
  <2> HIDE DEF Loop
  <2> QED
    BY <1>5
<1>7. locate(v, pos) = <<CHOOSE r \in Rank : Found(r), rest[CHOOSE r \in Rank : Found(r)]>>
  BY DEF locate
<1> HIDE DEF rest, g
<1>8. \A k \in Rank : rest[k] = Val(rest, k)
  BY <1>6
<1> DEFINE T == {k \in Nat : k \in Rank => rest[k] = pos - Before(v, k)}
<1>9. 0 \in T
  BY <1>1, <1>3, <1>8
<1>10. ASSUME NEW k \in Nat, k \in T PROVE k + 1 \in T
  <2>1. SUFFICES ASSUME k + 1 \in Rank PROVE rest[k + 1] = pos - Before(v, k + 1)
    OBVIOUS
  <2>2. k \in Rank /\ (k + 1) - 1 = k /\ k + 1 # 0
    BY <2>1, NAssumption DEF Rank
  <2>3. PICK b \in Nat, c \in Nat : b = Before(v, k) /\ c = v[k] /\ Before(v, k + 1) = b + c
    BY <1>1, <1>2, <1>3, <2>1, <2>2
  <2>4. rest[k] = pos - b
    BY <1>10, <2>2, <2>3
  <2>5. rest[k + 1] = rest[k] - v[k]
    BY <1>8, <2>1, <2>2
  <2>6. (pos - b) - c = pos - (b + c)
    BY <1>1
  <2> QED
    BY <2>3, <2>4, <2>5, <2>6
<1> HIDE DEF T
<1>11. Nat \subseteq T
  BY <1>9, <1>10, NatSetInduction
<1>12. \A k \in Rank : rest[k] = pos - Before(v, k)
  BY <1>2, <1>11 DEF T
<1>13. PICK p \in 1 .. Total(v) : p = pos + 1
  <2>1. Total(v) \in Nat
    BY BeforeFacts, BeforeGrows, NAssumption
  <2> QED
    BY <2>1
<1>14. PICK r \in Rank : \E j \in 1 .. v[r] : p = Before(v, r) + j
  BY PlaceExists
<1>15. PICK j \in 1 .. v[r] : p = Before(v, r) + j
  BY <1>14
<1>16. PICK b \in Nat, c \in Nat, l \in Nat : b = Before(v, r) /\ c = v[r] /\ l = j /\ pos + 1 = b + l
  BY <1>1, <1>2, <1>13, <1>15
<1>17. rest[r] = j - 1 /\ rest[r] < v[r]
  BY <1>1, <1>12, <1>15, <1>16
<1>18. ASSUME NEW q \in Rank, q < r PROVE rest[q] >= v[q]
  <2>1. q + 1 \in 0 .. N /\ q + 1 <= r /\ r \in 0 .. N /\ q \in 0 .. N
    BY <1>2, <1>18, NAssumption DEF Rank
  <2>2. PICK d \in Nat, e \in Nat : d = Before(v, q) /\ e = v[q] /\ Before(v, q + 1) = d + e
    BY <1>1, <1>2, <2>1, BeforeFacts
  <2>3. d + e <= b
    BY <1>16, <2>1, <2>2, BeforeOrder
  <2>4. rest[q] = pos - d
    BY <1>12, <2>2
  <2>5. pos - d >= e
    BY <1>1, <1>15, <1>16, <2>3
  <2> QED
    BY <2>2, <2>4, <2>5
<1>19. \A q \in 0 .. r - 1 : q \in Rank /\ q < r
  BY <1>2, NAssumption DEF Rank
<1>20. Found(r)
  BY <1>17, <1>18, <1>19
<1>21. ASSUME NEW s \in Rank, Found(s) PROVE s = r
  <2>1. s \in Nat /\ r \in Nat
    BY <1>2
  <2>2. \A k \in Rank : rest[k] \in Int /\ v[k] \in Int
    BY <1>1, <1>2, <1>12
  <2>3. ~ s < r
    <3>1. s < r => s \in 0 .. r - 1
      BY <2>1
    <3> QED
      BY <1>18, <1>21, <2>2
  <2>4. ~ r < s
    <3>1. r < s => r \in 0 .. s - 1
      BY <2>1
    <3> QED
      BY <1>17, <1>21, <2>2, <3>1
  <2> QED
    BY <2>1, <2>3, <2>4
<1> HIDE DEF Found
<1>22. (CHOOSE s \in Rank : Found(s)) = r
  BY <1>20, <1>21
<1> QED
  BY <1>7, <1>13, <1>15, <1>17, <1>22

LEMMA FunctionSeq ==
  ASSUME NEW S, NEW n \in Nat, NEW t \in [1 .. n -> S]
  PROVE  t \in Seq(S) /\ Len(t) = n
OBVIOUS

LEMMA Inside ==
  ASSUME NEW v \in Layout, NEW r \in Rank, NEW j \in 1 .. v[r]
  PROVE  Before(v, r) + j \in 1 .. Total(v)
<1>1. r \in 0 .. N /\ r + 1 \in 0 .. N
  BY Consts
<1>2. PICK b \in Nat, c \in Nat, t \in Nat :
        b = Before(v, r) /\ c = v[r] /\ t = Total(v) /\ b + c <= t
  <2>1. /\ Before(v, r) \in Nat /\ Before(v, r + 1) <= Total(v) /\ Total(v) \in Nat
        /\ Before(v, r + 1) = Before(v, r) + v[r] /\ v[r] \in Nat
    BY <1>1, BeforeFacts, BeforeGrows, Consts DEF Layout
  <2> QED
    BY <2>1
<1>3. j \in Nat /\ 1 <= j /\ j <= c
  BY <1>2
<1>4. b + j \in 1 .. t
  BY <1>2, <1>3
<1> QED
  BY <1>2, <1>4

LEMMA PutIs ==
  ASSUME DataInv, NEW pos \in 0 .. Total(LayoutOf(data)) - 1, NEW x \in Value, NEW at,
         at = locate(LayoutOf(data), pos), NEW d, d = [data EXCEPT ![at[1]][at[2] + 1] = x]
  PROVE  pos + 1 \in DOMAIN Global(data) /\ Global(d) = [Global(data) EXCEPT ![pos + 1] = x]
<1>1. data \in [Rank -> Seq(Value)]
  BY DEF DataInv
<1>2. PICK v \in Layout : v = LayoutOf(data) /\ \A r \in Rank : v[r] = Len(data[r])
  BY <1>1, LayoutType
<1>3. PICK r \in Rank : \E j \in 1 .. v[r] : at = <<r, j - 1>> /\ pos + 1 = Before(v, r) + j
  BY <1>2, Located
<1>4. PICK j \in 1 .. v[r] : at = <<r, j - 1>> /\ pos + 1 = Before(v, r) + j
  BY <1>3
<1>5. at[1] = r /\ at[2] + 1 = j
  BY <1>4
<1>6. d = [data EXCEPT ![r] = [data[r] EXCEPT ![j] = x]]
  BY <1>5
<1>7. PICK g \in Seq(Value) :
        /\ g = Global(data) /\ Len(g) = Total(v)
        /\ \A q \in Rank : \A k \in 1 .. Len(data[q]) : g[Before(v, q) + k] = data[q][k]
  <2>1. /\ Global(data) \in Seq(Value) /\ Len(Global(data)) = Total(v)
        /\ \A q \in Rank : \A k \in 1 .. Len(data[q]) :
             Global(data)[Before(v, q) + k] = data[q][k]
    BY <1>1, <1>2, GlobalFacts
  <2> QED
    BY <2>1
<1>8. PICK p \in 1 .. Len(g) : p = pos + 1
  BY <1>4, <1>7, Inside
<1>9. PICK h \in Seq(Value) : h = [g EXCEPT ![p] = x] /\ Len(h) = Total(v)
  <2>1. PICK n \in Nat : n = Len(g)
    OBVIOUS
  <2>2. g \in [1 .. n -> Value]
    BY <2>1
  <2>3. PICK w : w = [g EXCEPT ![p] = x]
    OBVIOUS
  <2>4. w \in [1 .. n -> Value]
    BY <2>2, <2>3
  <2>5. w \in Seq(Value) /\ Len(w) = n
    BY <2>4
  <2> QED
    BY <1>7, <2>1, <2>3, <2>5
<1>10. ASSUME NEW q \in Rank
       PROVE  /\ d[q] \in Seq(Value) /\ Len(d[q]) = v[q]
              /\ \A k \in 1 .. v[q] : d[q][k] = IF q = r /\ k = j THEN x ELSE data[q][k]
  <2>0. PICK s \in Seq(Value) : s = data[q]
    BY <1>1
  <2>5. PICK n \in Nat : n = Len(s)
    OBVIOUS
  <2>2. s \in [1 .. n -> Value]
    BY <2>5
  <2>1. n = Len(s) /\ n = v[q]
    BY <1>2, <2>0, <2>5
  <2>3. CASE q = r
    <3>1. PICK t : t = [s EXCEPT ![j] = x]
      OBVIOUS
    <3>2. t \in [1 .. n -> Value] /\ \A k \in 1 .. n : t[k] = IF k = j THEN x ELSE s[k]
      BY <2>2, <3>1
    <3>3. d[q] = t
      BY <1>1, <1>6, <2>0, <2>3, <3>1
    <3>4. t \in Seq(Value) /\ Len(t) = n
      <4>1. t \in [1 .. n -> Value]
        BY <3>2
      <4> QED
        BY <4>1, FunctionSeq
    <3> QED
      BY <2>0, <2>1, <2>3, <3>2, <3>3, <3>4
  <2>4. CASE q # r
    <3>1. d[q] = s
      BY <1>1, <1>6, <2>0, <2>4
    <3>2. d[q] \in Seq(Value) /\ Len(d[q]) = v[q]
      BY <2>0, <2>1, <3>1
    <3>3. \A k \in 1 .. v[q] : d[q][k] = data[q][k]
      BY <2>0, <3>1, Zenon
    <3> QED
      BY <2>4, <3>2, <3>3
  <2> QED
    BY <2>3, <2>4
<1>11. d \in [Rank -> Seq(Value)]
  BY <1>1, <1>6, <1>10
<1>12. LayoutOf(d) = v
  BY <1>10 DEF LayoutOf, Layout
<1>13. ASSUME NEW q \in Rank, NEW k \in 1 .. v[q]
       PROVE  h[Before(v, q) + k] = d[q][k]
  <2>1. PICK z \in 1 .. Len(g) : z = Before(v, q) + k
    BY <1>7, Inside
  <2>2. h[z] = IF z = p THEN x ELSE g[z]
    BY <1>9
  <2>3. g[z] = data[q][k]
    BY <1>2, <1>7, <2>1
  <2>4. z = p <=> q = r /\ k = j
    <3>1. ASSUME z = p PROVE q = r /\ k = j
      <4>1. Before(v, q) + k = Before(v, r) + j
        BY <1>4, <1>8, <2>1, <3>1
      <4> QED
        BY <4>1, PlaceUnique
    <3>2. q = r /\ k = j => z = p
      BY <1>4, <1>8, <2>1
    <3> QED
      BY <3>1, <3>2
  <2> QED
    BY <1>10, <2>1, <2>2, <2>3, <2>4
<1>14. LiesAs(h, d)
  BY <1>10, <1>12, <1>13 DEF LiesAs
<1>15. h = Global(d)
  BY <1>9, <1>11, <1>12, <1>14, IsGlobal
<1>16. DOMAIN g = 1 .. Len(g)
  OBVIOUS
<1> QED
  BY <1>7, <1>8, <1>9, <1>15, <1>16

(* A part of the vector, from a + 1 on: what head and tail leave.          *)
Keeps(d, take, skip, a, r) ==
  take[r] # 0 =>
    /\ IsSlice(Value, d[r], data[r], skip[r], take[r])
    /\ skip[r] + take[r] <= Len(data[r])
    /\ a + Before(take, r) = Before(LayoutOf(data), r) + skip[r]

LEMMA PartIs ==
  ASSUME DataInv, NEW a \in Nat, NEW n \in Nat, NEW l \in Nat, l = Total(LayoutOf(data)),
         a + n <= l, NEW d \in [Rank -> Seq(Value)], NEW take \in Layout,
         \A r \in Rank : Len(d[r]) = take[r],
         NEW skip \in Layout, Total(take) = n, \A r \in Rank : Keeps(d, take, skip, a, r),
         NEW e \in Nat, e = a + n
  PROVE  Global(d) = SubSeq(Global(data), a + 1, e)
<1>1. PICK v \in Layout : v = LayoutOf(data) /\ \A r \in Rank : v[r] = Len(data[r])
  BY LayoutType DEF DataInv
<1>2. PICK g \in Seq(Value) :
        /\ g = Global(data) /\ Len(g) = l
        /\ \A q \in Rank : \A k \in 1 .. Len(data[q]) : g[Before(v, q) + k] = data[q][k]
  <2>1. /\ Global(data) \in Seq(Value) /\ Len(Global(data)) = Total(v)
        /\ \A q \in Rank : \A k \in 1 .. Len(data[q]) :
             Global(data)[Before(v, q) + k] = data[q][k]
    BY <1>1, GlobalFacts DEF DataInv
  <2> QED
    BY <1>1, <2>1
<1>3. PICK t : t = SubSeq(g, a + 1, e)
  OBVIOUS
<1>4. IsSlice(Value, t, g, a, n)
  <2>1. a <= e /\ e <= l
    OBVIOUS
  <2> QED
    BY <1>2, <1>3, <2>1, SliceIs
<1>5. t \in Seq(Value) /\ Len(t) = n /\ \A k \in 1 .. n : t[k] = g[a + k]
  BY <1>4 DEF IsSlice
<1>6. LayoutOf(d) = take
  BY DEF LayoutOf, Layout
<1>7. ASSUME NEW r \in Rank, NEW j \in 1 .. take[r]
      PROVE  t[Before(take, r) + j] = d[r][j]
  <2>1. take[r] # 0
    BY <1>7
  <2>2. PICK c \in Nat, s \in Nat, b \in Nat, o \in Nat :
          c = Before(take, r) /\ s = skip[r] /\ b = Before(v, r) /\ o = take[r]
    <3>1. Before(take, r) \in Nat /\ Before(v, r) \in Nat /\ skip[r] \in Nat /\ take[r] \in Nat
      BY BeforeGrows, Consts DEF Layout
    <3> QED
      BY <3>1
  <2>3. a + c = b + s /\ s + o <= v[r]
    BY <1>1, <2>1, <2>2 DEF Keeps
  <2>4. PICK i \in Nat : i = j /\ 1 <= i /\ i <= o
    BY <2>2
  <2>5. PICK z \in 1 .. n : z = c + i
    BY <2>2, <2>4, Inside
  <2>6. t[z] = g[a + z]
    BY <1>5
  <2>7. a + z = b + (s + i)
    BY <2>3, <2>5
  <2>8. s + i \in 1 .. v[r]
    <3>1. v[r] \in Nat
      BY DEF Layout
    <3> QED
      BY <2>3, <2>4, <3>1
  <2>9. g[b + (s + i)] = data[r][s + i]
    BY <1>1, <1>2, <2>2, <2>8
  <2>10. d[r][i] = data[r][s + i]
    BY <2>1, <2>2, <2>4 DEF Keeps, IsSlice
  <2> QED
    BY <2>2, <2>4, <2>5, <2>6, <2>7, <2>9, <2>10
<1>8. LiesAs(t, d)
  BY <1>6, <1>7 DEF LiesAs
<1>9. t = Global(d)
  BY <1>5, <1>6, <1>8, IsGlobal
<1> QED
  BY <1>2, <1>3, <1>9

LEMMA HeadBefore ==
  ASSUME NEW v \in Layout, NEW n \in Nat, NEW take, take = head_sizes(v, n)
  PROVE  /\ take \in Layout
         /\ \A k \in 0 .. N : Before(take, k) = Smaller(n, Before(v, k))
         /\ \A r \in Rank : take[r] \in 0 .. v[r] /\ (take[r] # 0 => n > Before(v, r))
<1>1. take \in Layout /\ \A r \in Rank : take[r] \in 0 .. v[r]
  <2>1. /\ take = [r \in Rank |-> take[r]]
        /\ \A r \in Rank : take[r] \in 0 .. v[r]
    <3>1. /\ DOMAIN head_sizes(v, n) = Rank
          /\ \A r \in Rank : head_sizes(v, n)[r] \in 0 .. v[r]
      BY HeadBounded
    <3>2. head_sizes(v, n) = [r \in Rank |-> head_sizes(v, n)[r]]
      BY DEF head_sizes
    <3> QED
      BY <3>1, <3>2
  <2>2. \A r \in Rank : take[r] \in Nat
    BY <2>1 DEF Layout
  <2> QED
    BY <2>1, <2>2 DEF Layout
<1>2. ASSUME NEW r \in Rank
      PROVE  \E b \in Nat, x \in Nat, t \in Nat :
               /\ b = Before(v, r) /\ x = v[r] /\ b + x = Before(v, r + 1) /\ t = take[r]
               /\ t = IF (IF n > b THEN n - b ELSE 0) <= x THEN (IF n > b THEN n - b ELSE 0) ELSE x
  <2>1. PICK b \in Nat, x \in Nat : b = Before(v, r) /\ x = v[r] /\ b + x = Before(v, r + 1)
    <3>1. /\ Before(v, r) \in Nat /\ v[r] \in Nat
          /\ Before(v, r + 1) = Before(v, r) + v[r]
      BY BeforeFacts, BeforeGrows, Consts DEF Layout
    <3> QED
      BY <3>1
  <2>2. take[r] = Smaller(Left(v, n, r), v[r])
    BY HeadSizes
  <2>3. Left(v, n, r) = IF n > b THEN n - b ELSE 0
    BY <2>1 DEF Left
  <2>4. take[r] \in Nat
    BY <1>1 DEF Layout
  <2> QED
    BY <2>1, <2>2, <2>3, <2>4 DEF Smaller
<1>3. PICK c : c = [k \in 0 .. N |-> Smaller(n, Before(v, k))]
  OBVIOUS
<1>4. c[0] = 0
  <2>1. Before(v, 0) = 0 /\ 0 \in 0 .. N
    BY BeforeFacts, Consts
  <2> QED
    BY <1>3, <2>1 DEF Smaller
<1>5. ASSUME NEW r \in Rank PROVE c[r] + take[r] = c[r + 1]
  <2>1. PICK b \in Nat, x \in Nat, t \in Nat :
               /\ b = Before(v, r) /\ x = v[r] /\ b + x = Before(v, r + 1) /\ t = take[r]
               /\ t = IF (IF n > b THEN n - b ELSE 0) <= x THEN (IF n > b THEN n - b ELSE 0) ELSE x
    BY <1>2
  <2>2. c[r] = (IF n <= b THEN n ELSE b) /\ c[r + 1] = IF n <= b + x THEN n ELSE b + x
    <3>1. r \in 0 .. N /\ r + 1 \in 0 .. N
      BY Consts
    <3> QED
      BY <1>3, <2>1, <3>1 DEF Smaller
  <2> QED
    BY <2>1, <2>2
<1>6. \A k \in 0 .. N : Before(take, k) = c[k]
  BY <1>1, <1>4, <1>5, Telescope
<1>7. ASSUME NEW r \in Rank, take[r] # 0 PROVE n > Before(v, r)
  BY <1>2, <1>7
<1> QED
  BY <1>1, <1>3, <1>6, <1>7

LEMMA ReverseBefore ==
  ASSUME NEW v \in Layout, NEW w, w = [r \in Rank |-> v[N - 1 - r]]
  PROVE  w \in Layout /\ \A k \in 0 .. N : Before(w, k) = Total(v) - Before(v, N - k)
<1>1. \A r \in Rank : N - 1 - r \in Rank
  BY Consts DEF Rank
<1>2. w \in Layout /\ \A r \in Rank : w[r] = v[N - 1 - r]
  BY <1>1 DEF Layout
<1>3. PICK c : c = [k \in 0 .. N |-> Total(v) - Before(v, N - k)]
  OBVIOUS
<1>4. PICK t \in Nat : t = Total(v) /\ Before(v, N) = t
  BY BeforeFacts, BeforeGrows, Consts
<1>5. c[0] = 0
  <2>1. N - 0 = N /\ 0 \in 0 .. N
    BY Consts
  <2> QED
    BY <1>3, <1>4, <2>1
<1>6. ASSUME NEW r \in Rank PROVE c[r] + w[r] = c[r + 1]
  <2>1. PICK q \in Rank : q = N - 1 - r /\ N - r = q + 1 /\ N - (r + 1) = q
    <3>1. N - 1 - r \in Rank /\ N - r = (N - 1 - r) + 1 /\ N - (r + 1) = N - 1 - r
      BY <1>1, Consts DEF Rank
    <3> QED
      BY <3>1
  <2>2. PICK b \in Nat, x \in Nat : b = Before(v, q) /\ x = v[q] /\ b + x = Before(v, q + 1)
    <3>1. /\ Before(v, q) \in Nat /\ v[q] \in Nat
          /\ Before(v, q + 1) = Before(v, q) + v[q]
      BY BeforeFacts, BeforeGrows, Consts DEF Layout
    <3> QED
      BY <3>1
  <2>3. r \in 0 .. N /\ r + 1 \in 0 .. N
    BY Consts
  <2>4. c[r] = t - (b + x) /\ c[r + 1] = t - b /\ w[r] = x
    BY <1>2, <1>3, <1>4, <2>1, <2>2, <2>3
  <2> QED
    BY <2>4
<1>7. \A k \in 0 .. N : Before(w, k) = c[k]
  BY <1>2, <1>5, <1>6, Telescope
<1> QED
  BY <1>2, <1>3, <1>7

(* tail leaves the first skip elements to the others.                      *)
Over(s, b) == IF b > s THEN b - s ELSE 0

LEMMA TailBefore ==
  ASSUME NEW v \in Layout, NEW n \in Nat, NEW take, take = tail_sizes(v, n),
         NEW l \in Nat, l = Total(v), NEW s \in Nat, s = Over(n, l)
  PROVE  /\ take \in Layout
         /\ \A k \in 0 .. N : Before(take, k) = Over(s, Before(v, k))
         /\ \A r \in Rank : take[r] \in 0 .. v[r]
<1>1. take \in Layout /\ \A r \in Rank : take[r] \in 0 .. v[r]
  <2>1. /\ take = [r \in Rank |-> take[r]]
        /\ \A r \in Rank : take[r] \in 0 .. v[r]
    <3>1. /\ DOMAIN tail_sizes(v, n) = Rank
          /\ \A r \in Rank : tail_sizes(v, n)[r] \in 0 .. v[r]
      BY TailBounded
    <3>2. tail_sizes(v, n) = [r \in Rank |-> tail_sizes(v, n)[r]]
      BY DEF tail_sizes
    <3> QED
      BY <3>1, <3>2
  <2>2. \A r \in Rank : take[r] \in Nat
    BY <2>1 DEF Layout
  <2> QED
    BY <2>1, <2>2 DEF Layout
<1>2. PICK w \in Layout : /\ w = [r \in Rank |-> v[N - 1 - r]]
                          /\ \A k \in 0 .. N : Before(w, k) = Total(v) - Before(v, N - k)
  BY ReverseBefore
<1>3. PICK c : c = [k \in 0 .. N |-> Over(s, Before(v, k))]
  OBVIOUS
<1>4. c[0] = 0
  <2>1. Before(v, 0) = 0 /\ 0 \in 0 .. N
    BY BeforeFacts, Consts
  <2> QED
    BY <1>3, <2>1 DEF Over
<1>5. ASSUME NEW r \in Rank PROVE c[r] + take[r] = c[r + 1]
  <2>1. PICK q \in Rank : q = N - 1 - r /\ N - q = r + 1 /\ N - 1 - q = r
    <3>1. N - 1 - r \in Rank /\ N - (N - 1 - r) = r + 1 /\ N - 1 - (N - 1 - r) = r
      BY Consts DEF Rank
    <3> QED
      BY <3>1
  <2>2. PICK b \in Nat, x \in Nat : /\ b = Before(v, r) /\ x = v[r] /\ b + x = Before(v, r + 1)
                                    /\ b + x <= l
    <3>1. /\ Before(v, r) \in Nat /\ v[r] \in Nat
          /\ Before(v, r + 1) = Before(v, r) + v[r] /\ Before(v, r + 1) <= Total(v)
      BY BeforeFacts, BeforeGrows, Consts DEF Layout
    <3> QED
      BY <3>1
  <2>3. Before(w, q) = l - (b + x) /\ w[q] = x
    BY <1>2, <2>1, <2>2, Consts
  <2>4. Left(w, n, q) = IF n > l - (b + x) THEN n - (l - (b + x)) ELSE 0
    BY <2>3 DEF Left
  <2>5. take[r] = head_sizes(w, n)[q]
    BY <1>2, <2>1 DEF tail_sizes
  <2>6. take[r] = Smaller(Left(w, n, q), x)
    BY <2>3, <2>5, HeadSizes
  <2>7. c[r] = (IF b > s THEN b - s ELSE 0) /\ c[r + 1] = IF b + x > s THEN b + x - s ELSE 0
    <3>1. r \in 0 .. N /\ r + 1 \in 0 .. N
      BY Consts
    <3> QED
      BY <1>3, <2>2, <3>1 DEF Over
  <2>8. take[r] = IF (IF n > l - (b + x) THEN n - (l - (b + x)) ELSE 0) <= x
                  THEN (IF n > l - (b + x) THEN n - (l - (b + x)) ELSE 0) ELSE x
    BY <2>4, <2>6 DEF Smaller
  <2>9. s = IF n > l THEN 0 ELSE l - n
    BY DEF Over
  <2> QED
    BY <2>2, <2>7, <2>8, <2>9
<1>6. \A k \in 0 .. N : Before(take, k) = c[k]
  BY <1>1, <1>4, <1>5, Telescope
<1> QED
  BY <1>1, <1>3, <1>6

(* What head and tail leave of the elements, when they take so many.       *)
HeadOf(d, take) == d = [r \in Rank |-> SubSeq(data[r], 1, take[r])]
TailOf(d, take) ==
  d = [r \in Rank |-> SubSeq(data[r], Len(data[r]) - take[r] + 1, Len(data[r]))]

LEMMA HeadIs ==
  ASSUME DataInv, NEW n \in Nat, NEW take, take = head_sizes(LayoutOf(data), n),
         NEW d, HeadOf(d, take),
         NEW l \in Nat, l = Total(LayoutOf(data)), NEW e \in Nat, e <= l, e = Smaller(n, l)
  PROVE  Global(d) = SubSeq(Global(data), 1, e)
<1>1. PICK v \in Layout : v = LayoutOf(data) /\ \A r \in Rank : v[r] = Len(data[r])
  BY LayoutType DEF DataInv
<1>2. l = Total(v)
  BY <1>1
<1>3. /\ take \in Layout
      /\ \A k \in 0 .. N : Before(take, k) = Smaller(n, Before(v, k))
      /\ \A r \in Rank : take[r] \in 0 .. v[r] /\ (take[r] # 0 => n > Before(v, r))
  BY <1>1, HeadBefore, ZenonT(30)
<1>4. ASSUME NEW r \in Rank
      PROVE  /\ d[r] \in Seq(Value) /\ Len(d[r]) = take[r]
             /\ IsSlice(Value, d[r], data[r], 0, take[r]) /\ 0 + take[r] <= Len(data[r])
  <2>1. PICK x \in Seq(Value) : x = data[r]
    BY DEF DataInv
  <2>2. PICK m \in Nat, t \in Nat : m = Len(x) /\ t = take[r] /\ t <= m
    BY <1>1, <1>3, <2>1
  <2>3. PICK y : y = SubSeq(x, 0 + 1, t)
    OBVIOUS
  <2>4. IsSlice(Value, y, x, 0, t)
    <3>1. 0 \in Nat /\ 0 <= t /\ 0 + t = t
      BY <2>2
    <3> QED
      BY <2>2, <2>3, <3>1, SliceIs
  <2>5. d[r] = y
    <3>1. 0 + 1 = 1
      OBVIOUS
    <3> QED
      BY <2>1, <2>2, <2>3, <3>1 DEF HeadOf
  <2> QED
    BY <2>1, <2>2, <2>4, <2>5 DEF IsSlice
<1>5. Total(take) = e
  <2>1. Total(take) = Smaller(n, Total(v))
    BY <1>3, BeforeFacts, Consts
  <2> QED
    BY <1>2, <2>1
<1>6. PICK skip \in Layout : \A r \in Rank : skip[r] = 0
  <2>1. [r \in Rank |-> 0] \in Layout
    BY DEF Layout
  <2> QED
    BY <2>1
<1>7. ASSUME NEW r \in Rank, take[r] # 0
      PROVE  /\ IsSlice(Value, d[r], data[r], skip[r], take[r])
             /\ skip[r] + take[r] <= Len(data[r])
             /\ 0 + Before(take, r) = Before(v, r) + skip[r]
  <2>1. r \in 0 .. N
    BY Consts
  <2>2. PICK b \in Nat : b = Before(v, r) /\ n > b
    BY <1>3, <1>7, <2>1, BeforeGrows
  <2>3. Before(take, r) = b
    BY <1>3, <2>1, <2>2 DEF Smaller
  <2> QED
    BY <1>4, <1>6, <2>2, <2>3
<1>8. d \in [Rank -> Seq(Value)]
  BY <1>4 DEF HeadOf
<1>9. 0 \in Nat /\ 0 + e = e /\ 0 + e <= l /\ e = 0 + e
  OBVIOUS
<1>10. \A r \in Rank : Keeps(d, take, skip, 0, r)
  BY <1>1, <1>7 DEF Keeps
<1>11. Global(d) = SubSeq(Global(data), 0 + 1, e)
  BY <1>3, <1>4, <1>5, <1>8, <1>9, <1>10, PartIs
<1>12. 0 + 1 = 1
  OBVIOUS
<1> QED
  BY <1>11, <1>12

LEMMA Overs ==
  ASSUME NEW s \in Nat, NEW e \in Nat
  PROVE  Over(s, s + e) = e
BY DEF Over

LEMMA Meets ==
  ASSUME NEW b \in Nat, NEW x \in Nat, NEW t \in Nat, NEW a \in Nat, NEW c \in Nat,
         NEW s \in Nat, a + t = x, t # 0,
         c = (IF b > s THEN b - s ELSE 0), c + t = IF b + x > s THEN b + x - s ELSE 0
  PROVE  s + c = b + a
OBVIOUS

LEMMA TailIs ==
  ASSUME DataInv, NEW n \in Nat, NEW take, take = tail_sizes(LayoutOf(data), n),
         NEW d, TailOf(d, take),
         NEW l \in Nat, l = Total(LayoutOf(data)), NEW s \in Nat, s = Over(n, l)
  PROVE  Global(d) = SubSeq(Global(data), s + 1, l)
<1>1. PICK v \in Layout : v = LayoutOf(data) /\ \A r \in Rank : v[r] = Len(data[r])
  BY LayoutType DEF DataInv
<1>2. l = Total(v)
  BY <1>1
<1>3. PICK e \in Nat : l = s + e
  <2>1. l - s \in Nat /\ l = s + (l - s)
    BY DEF Over
  <2> QED
    BY <2>1
<1>4. /\ take \in Layout
      /\ \A k \in 0 .. N : Before(take, k) = Over(s, Before(v, k))
      /\ \A r \in Rank : take[r] \in 0 .. v[r]
  BY <1>1, <1>2, TailBefore
<1>5. PICK skip : skip = [r \in Rank |-> v[r] - take[r]]
  OBVIOUS
<1>6. skip \in Layout /\ \A r \in Rank : skip[r] + take[r] = v[r] /\ skip[r] = v[r] - take[r]
  <2>1. ASSUME NEW r \in Rank
        PROVE  v[r] - take[r] \in Nat /\ (v[r] - take[r]) + take[r] = v[r]
    <3>1. v[r] \in Nat /\ take[r] \in 0 .. v[r]
      BY <1>4 DEF Layout
    <3> QED
      BY <3>1
  <2> QED
    BY <1>5, <2>1 DEF Layout
<1>7. ASSUME NEW r \in Rank
      PROVE  /\ d[r] \in Seq(Value) /\ Len(d[r]) = take[r]
             /\ IsSlice(Value, d[r], data[r], skip[r], take[r])
  <2>1. PICK x \in Seq(Value) : x = data[r]
    BY DEF DataInv
  <2>2. PICK m \in Nat, t \in Nat, a \in Nat : m = Len(x) /\ t = take[r] /\ a = skip[r] /\ a + t = m
    <3>1. take[r] \in Nat /\ skip[r] \in Nat
      BY <1>4, <1>6 DEF Layout
    <3>2. skip[r] + take[r] = Len(x) /\ Len(x) \in Nat
      BY <1>1, <1>6, <2>1
    <3> QED
      BY <3>1, <3>2
  <2>3. PICK y : y = SubSeq(x, a + 1, m)
    OBVIOUS
  <2>4. IsSlice(Value, y, x, a, t)
    <3>1. a <= m /\ m <= m
      BY <2>2
    <3> QED
      BY <2>2, <2>3, <3>1, SliceIs
  <2>5. d[r] = y
    <3>1. m - t = a
      BY <2>2
    <3>2. d[r] = SubSeq(x, m - t + 1, m)
      BY <2>1, <2>2 DEF TailOf
    <3> QED
      BY <2>3, <3>1, <3>2
  <2> QED
    BY <2>1, <2>2, <2>4, <2>5 DEF IsSlice
<1>8. Total(take) = e
  <2>1. Total(take) = Over(s, Total(v))
    BY <1>4, BeforeFacts, Consts
  <2> QED
    BY <1>2, <1>3, <2>1, Overs
<1>9. ASSUME NEW r \in Rank, take[r] # 0
      PROVE  /\ IsSlice(Value, d[r], data[r], skip[r], take[r])
             /\ skip[r] + take[r] <= Len(data[r])
             /\ s + Before(take, r) = Before(v, r) + skip[r]
  <2>1. r \in 0 .. N /\ r + 1 \in 0 .. N
    BY Consts
  <2>2. PICK b \in Nat, x \in Nat, t \in Nat, a \in Nat :
          /\ b = Before(v, r) /\ x = v[r] /\ b + x = Before(v, r + 1)
          /\ t = take[r] /\ a = skip[r] /\ a + t = x
    <3>1. /\ Before(v, r) \in Nat /\ v[r] \in Nat /\ take[r] \in Nat /\ skip[r] \in Nat
          /\ Before(v, r + 1) = Before(v, r) + v[r]
      BY <1>4, <1>6, <2>1, BeforeFacts, BeforeGrows DEF Layout
    <3> QED
      BY <1>6, <3>1
  <2>3. PICK c \in Nat : /\ c = Before(take, r) /\ c = (IF b > s THEN b - s ELSE 0)
                         /\ c + t = IF b + x > s THEN b + x - s ELSE 0
    <3>1. Before(take, r) = Over(s, b) /\ Before(take, r + 1) = Over(s, b + x)
      BY <1>4, <2>1, <2>2
    <3>2. Before(take, r + 1) = Before(take, r) + t
      BY <1>4, <2>2, BeforeFacts
    <3>3. Over(s, b) \in Nat
      BY <2>2 DEF Over
    <3> QED
      BY <3>1, <3>2, <3>3 DEF Over
  <2>4. s + c = b + a
    <3>1. t # 0
      BY <1>9, <2>2
    <3> QED
      BY <2>2, <2>3, <3>1, Meets
  <2>5. skip[r] + take[r] <= Len(data[r])
    <3>1. x = Len(data[r])
      BY <1>1, <2>2
    <3>2. a + t <= x
      BY <2>2
    <3> QED
      BY <2>2, <3>1, <3>2
  <2>6. s + Before(take, r) = Before(v, r) + skip[r]
    BY <2>2, <2>3, <2>4
  <2> QED
    BY <1>7, <2>5, <2>6
<1>10. d \in [Rank -> Seq(Value)]
  BY <1>7 DEF TailOf
<1>11. s + e <= l
  BY <1>3
<1>12. \A r \in Rank : Keeps(d, take, skip, s, r)
  BY <1>1, <1>9 DEF Keeps
<1>13. Global(d) = SubSeq(Global(data), s + 1, l)
  <2>1. take \in Layout /\ skip \in Layout /\ Total(take) = e
    BY <1>4, <1>6, <1>8
  <2>2. \A r \in Rank : Len(d[r]) = take[r]
    BY <1>7
  <2> QED
    BY <1>3, <1>10, <1>11, <1>12, <2>1, <2>2, PartIs, SMTT(20)
<1> QED
  BY <1>13

(* The words of GlobalVector mean what they mean here.                     *)
LEMMA CountedThere == ASSUME NEW S PROVE AsVector!Cardinality(S) = Cardinality(S)
BY DEF AsVector!Cardinality, Cardinality

LEMMA TimesThere == ASSUME NEW s, NEW x PROVE AsVector!Times(s, x) = Times(s, x)
BY CountedThere DEF AsVector!Times, Times

LEMMA RangeThere == ASSUME NEW s PROVE AsVector!Range(s) = Range(s)
BY DEF AsVector!Range, Range

LEMMA SortedThere == ASSUME NEW s PROVE AsVector!Sorted(s) = Sorted(s)
BY TimesThere, RangeThere DEF AsVector!Sorted, Sorted

LEMMA BoundedThere ==
  ASSUME NEW s \in Seq(Value), Len(s) <= MaxTotal
  PROVE  s \in AsVector!BoundedSeq(Value, MaxTotal)
<1>1. MaxTotal \in Nat
  BY Consts
<1>2. s \in BoundedSeq(Value, MaxTotal)
  BY <1>1, BoundedIs
<1> QED
  BY <1>2 DEF AsVector!BoundedSeq, AsVector!SeqOf, BoundedSeq, SeqOf

LEMMA GlobalEmpty == Global(Empty) = << >>
<1>1. Global(Empty) \in Seq(Value) /\ Len(Global(Empty)) = 0
  BY EmptyOK, GlobalFacts
<1> QED
  BY <1>1

(* Nobody sees how an exchange goes on.                                    *)
Alike == ToTheUser' = ToTheUser

LEMMA StepUnseen ==
  ASSUME ExchangeInv, NEW r \in Rank, Step(r)
  PROVE  Alike
<1>1. data' = data /\ op' = op
  BY DEF Step, Begin, LeaveRound, LeaveVote
<1> QED
  BY <1>1 DEF Alike, ToTheUser

LEMMA StayUnseen ==
  ASSUME UNCHANGED vars
  PROVE  Alike
<1>1. data' = data /\ op' = op
  BY DEF vars
<1> QED
  BY <1>1 DEF Alike, ToTheUser

LEMMA ScatterUnseen ==
  ASSUME ExchangeInv, Scatter
  PROVE  Alike
<1>1. data' = data /\ op = Idle /\ op'.name = "scatter"
  BY DEF Scatter, Start
<1>2. op.name # "sort" /\ op'.name # "sort"
  BY <1>1 DEF Idle
<1> QED
  BY <1>1, <1>2 DEF Alike, ToTheUser

LEMMA AlignUnseen ==
  ASSUME ExchangeInv, Align
  PROVE  Alike
<1>1. data' = data /\ op = Idle /\ op'.name = "align"
  BY DEF Align, Start
<1>2. op.name # "sort" /\ op'.name # "sort"
  BY <1>1 DEF Idle
<1> QED
  BY <1>1, <1>2 DEF Alike, ToTheUser

(* What the user sees between operations.                                  *)
LEMMA Plainly ==
  ASSUME ExchangeInv, op = Idle
  PROVE  /\ DataInv /\ ToTheUser = Global(data)
         /\ ToTheUser \in Seq(Value) /\ Len(ToTheUser) = Total(LayoutOf(data))
<1>1. DataInv
  BY IdleOrPlanned
<1>2. op.name # "sort"
  BY DEF Idle
<1>3. ToTheUser = Global(data)
  BY <1>2 DEF ToTheUser
<1>4. Global(data) \in Seq(Value) /\ Len(Global(data)) = Total(LayoutOf(data))
  BY <1>1, GlobalFacts DEF DataInv
<1> QED
  BY <1>1, <1>3, <1>4

LEMMA LocallySeen ==
  ASSUME op = Idle, NEW d, Local(d)
  PROVE  ToTheUser' = Global(d)
<1>1. data' = d /\ op' = Idle
  BY DEF Local
<1>2. op'.name # "sort"
  BY <1>1 DEF Idle
<1> QED
  BY <1>1, <1>2 DEF ToTheUser

LEMMA SortSeen ==
  ASSUME ExchangeInv, Sort
  PROVE  AsVector!Next
<1>1. op = Idle /\ op'.name = "sort" /\ data' = [r \in Rank |-> Sorted(data[r])]
  BY DEF Sort, Start
<1>2. DataInv /\ ToTheUser = Global(data)
  BY <1>1, Plainly
<1>3. PICK d : d = data'
  OBVIOUS
<1>4. Sorted(Global(d)) = Sorted(Global(data))
  BY <1>1, <1>2, <1>3, SortedAlike
<1>5. ToTheUser' = Sorted(Global(data'))
  BY <1>1 DEF ToTheUser
<1>6. ToTheUser' = Sorted(ToTheUser)
  BY <1>2, <1>3, <1>4, <1>5
<1>7. AsVector!Sort
  BY <1>6, SortedThere DEF AsVector!Sort
<1> QED
  BY <1>7 DEF AsVector!Next

LEMMA ClearSeen ==
  ASSUME ExchangeInv, clear
  PROVE  AsVector!Next
<1>1. ToTheUser' = << >>
  BY GlobalEmpty, LocallySeen DEF clear
<1> QED
  BY <1>1 DEF AsVector!Next, AsVector!Clear

LEMMA PutSeen ==
  ASSUME ExchangeInv, put
  PROVE  AsVector!Next
<1>1. op = Idle /\ DataInv /\ ToTheUser = Global(data)
  BY Plainly DEF put
<1>2. PICK pos \in 0 .. Total(LayoutOf(data)) - 1, x \in Value :
        LET at == locate(LayoutOf(data), pos)
        IN Local([data EXCEPT ![at[1]][at[2] + 1] = x])
  BY DEF put
<1>3. PICK at : at = locate(LayoutOf(data), pos)
  OBVIOUS
<1>4. PICK d : d = [data EXCEPT ![at[1]][at[2] + 1] = x]
  OBVIOUS
<1>5. Local(d)
  BY <1>2, <1>3, <1>4
<1>6. pos + 1 \in DOMAIN Global(data) /\ Global(d) = [Global(data) EXCEPT ![pos + 1] = x]
  BY <1>1, <1>3, <1>4, PutIs
<1>7. ToTheUser' = Global(d)
  BY <1>1, <1>5, LocallySeen
<1>8. pos + 1 \in DOMAIN ToTheUser /\ ToTheUser' = [ToTheUser EXCEPT ![pos + 1] = x]
  BY <1>1, <1>6, <1>7
<1>9. AsVector!Put
  BY <1>8 DEF AsVector!Put
<1> QED
  BY <1>9 DEF AsVector!Next

LEMMA HeadSeen ==
  ASSUME ExchangeInv, head
  PROVE  AsVector!Next
<1>1. /\ op = Idle /\ DataInv /\ ToTheUser = Global(data)
      /\ Len(ToTheUser) = Total(LayoutOf(data)) /\ ToTheUser \in Seq(Value)
  BY Plainly DEF head
<1>2. PICK n \in 0 .. MaxTotal + 1 :
        LET take == head_sizes(LayoutOf(data), n)
        IN Local([r \in Rank |-> SubSeq(data[r], 1, take[r])])
  BY DEF head
<1>3. n \in Nat
  BY Consts
<1>4. PICK take : take = head_sizes(LayoutOf(data), n)
  OBVIOUS
<1>5. PICK d : d = [r \in Rank |-> SubSeq(data[r], 1, take[r])]
  OBVIOUS
<1>6. Local(d) /\ HeadOf(d, take)
  BY <1>2, <1>4, <1>5 DEF HeadOf
<1>7. PICK l \in Nat : l = Len(ToTheUser) /\ l = Total(LayoutOf(data))
  BY <1>1
<1>8. PICK e \in Nat : e = Smaller(n, l) /\ e <= l /\ e = AsVector!Smallest(n, l)
  BY <1>3 DEF Smaller, AsVector!Smallest
<1>9. Global(d) = SubSeq(Global(data), 1, e)
  BY <1>1, <1>4, <1>6, <1>7, <1>8, <1>3, HeadIs
<1>10. ToTheUser' = SubSeq(ToTheUser, 1, AsVector!Smallest(n, Len(ToTheUser)))
  BY <1>1, <1>6, <1>7, <1>8, <1>9, LocallySeen
<1>11. AsVector!TakeHead
  BY <1>10 DEF AsVector!TakeHead
<1> QED
  BY <1>11 DEF AsVector!Next

LEMMA TailSeen ==
  ASSUME ExchangeInv, tail
  PROVE  AsVector!Next
<1>1. /\ op = Idle /\ DataInv /\ ToTheUser = Global(data)
      /\ Len(ToTheUser) = Total(LayoutOf(data)) /\ ToTheUser \in Seq(Value)
  BY Plainly DEF tail
<1>2. PICK n \in 0 .. MaxTotal + 1 :
        LET take == tail_sizes(LayoutOf(data), n)
        IN Local([r \in Rank |-> SubSeq(data[r], Len(data[r]) - take[r] + 1, Len(data[r]))])
  BY DEF tail
<1>3. n \in Nat
  BY Consts
<1>4. PICK take : take = tail_sizes(LayoutOf(data), n)
  OBVIOUS
<1>5. PICK d : d = [r \in Rank |-> SubSeq(data[r], Len(data[r]) - take[r] + 1, Len(data[r]))]
  OBVIOUS
<1>6. Local(d) /\ TailOf(d, take)
  BY <1>2, <1>4, <1>5 DEF TailOf
<1>7. PICK l \in Nat : l = Len(ToTheUser) /\ l = Total(LayoutOf(data))
  BY <1>1
<1>8. PICK e \in Nat, s \in Nat :
        e = AsVector!Smallest(n, l) /\ s = Over(n, l) /\ l = s + e /\ l - e + 1 = s + 1
  <2>1. PICK e \in Nat, s \in Nat :
          e = (IF n < l THEN n ELSE l) /\ s = (IF l > n THEN l - n ELSE 0)
    <3>1. (IF n < l THEN n ELSE l) \in Nat /\ (IF l > n THEN l - n ELSE 0) \in Nat
      BY <1>3
    <3> QED
      BY <3>1
  <2>2. l = s + e /\ l - e + 1 = s + 1
    BY <2>1
  <2> QED
    BY <2>1, <2>2 DEF Over, AsVector!Smallest
<1>9. Global(d) = SubSeq(Global(data), s + 1, l)
  <2>1. s = Over(n, l)
    BY <1>8
  <2>2. DataInv /\ TailOf(d, take) /\ l = Total(LayoutOf(data))
    BY <1>1, <1>6, <1>7
  <2> QED
    BY <1>4, <1>3, <2>1, <2>2, TailIs
<1>10. ToTheUser' = SubSeq(ToTheUser, Len(ToTheUser) - AsVector!Smallest(n, Len(ToTheUser)) + 1,
                          Len(ToTheUser))
  BY <1>1, <1>6, <1>7, <1>8, <1>9, LocallySeen
<1>11. AsVector!TakeTail
  BY <1>10 DEF AsVector!TakeTail
<1> QED
  BY <1>11 DEF AsVector!Next

(* The vector a scatter makes comes into being when all ranks are through; *)
(* what align_as and sort do was seen before.                              *)
LEMMA FinishSeen ==
  ASSUME ExchangeInv, Finish
  PROVE  AsVector!Next \/ Alike
<1>1. data' = dst /\ op' = Idle /\ op # Idle /\ \A r \in Rank : dst[r] # Waiting
  BY Zenon DEF Finish
<1>2. Through /\ dst = [r \in Rank |-> dst[r]]
  BY <1>1, AllThrough
<1>3. dst \in [Rank -> Seq(Value)] /\ Total(LayoutOf(dst)) <= MaxTotal
  BY <1>2, ThroughType
<1>4. ToTheUser' = Global(dst)
  <2>1. op'.name # "sort"
    BY <1>1 DEF Idle
  <2> QED
    BY <1>1, <2>1 DEF ToTheUser
<1>5. CASE op.name = "scatter"
  <2>1. data = Empty
    BY <1>2, <1>5 DEF Through, Planned, ScatterPlan, AlignPlan, SortPlan
  <2>2. ToTheUser = << >>
    BY <1>5, <2>1, GlobalEmpty DEF ToTheUser
  <2>3. Global(dst) \in Seq(Value) /\ Len(Global(dst)) <= MaxTotal
    BY <1>3, GlobalFacts
  <2>4. ToTheUser' \in AsVector!BoundedSeq(Value, MaxTotal)
    BY <1>4, <2>3, BoundedThere
  <2> QED
    BY <2>2, <2>4 DEF AsVector!Next, AsVector!Make
<1>6. CASE op.name = "align"
  <2>1. Global(dst) = Global(data)
    BY <1>2, <1>3, <1>6, AlignedIs
  <2> QED
    BY <1>4, <1>6, <2>1 DEF Alike, ToTheUser
<1>7. CASE op.name = "sort"
  <2>1. Global(dst) = Sorted(Global(data))
    BY <1>2, <1>3, <1>7, SortedIs
  <2> QED
    BY <1>4, <1>7, <2>1 DEF Alike, ToTheUser
<1>8. op.name \in {"scatter", "align", "sort"}
  BY <1>2 DEF Through, Planned, ScatterPlan, AlignPlan, SortPlan
<1> QED
  BY <1>5, <1>6, <1>7, <1>8

LEMMA StepSeen ==
  ASSUME ExchangeInv, [Next]_vars
  PROVE  AsVector!Next \/ Alike
BY StepUnseen, StayUnseen, ScatterUnseen, AlignUnseen, SortSeen, ClearSeen, PutSeen, HeadSeen,
   TailSeen, FinishSeen DEF Next

---------------------------------------------------------------------------
(* The variables keep their types; what a rank holds are whole elements,   *)
(* however the rounds cut them.                                            *)
THEOREM TypeCorrect == Spec => []TypeOK
BY Invariant, TypeHolds, PTL

(* In no round of large_alltoallv or large_scatterv do the two sides, which*)
(* count on their own, disagree about what goes from one to the other.     *)
THEOREM CountsAgree == Spec => []CountsMatch
BY Invariant, CountsHold, PTL

(* What a rank sends and what it receives in a round fits the ints that    *)
(* MPI counts displacements with.                                          *)
THEOREM DisplacementsFit == Spec => []DisplsFit
BY Invariant, DisplsHold, PTL

(* After scatter and align_as the ranks hold what the caller asked for.    *)
THEOREM AsAsked == Spec => LaidOutAsAsked
<1>1. ExchangeInv /\ [Next]_vars
        => [op' = Idle /\ op.name \in {"scatter", "align"} => LayoutOf(data') = op.sizes]_vars
  BY LaidOut
<1> QED
  BY <1>1, Invariant, PTL DEF Spec, LaidOutAsAsked

(* A dvector is a vector: every action of the ranks is an operation on it  *)
(* as GlobalVector has them, or nothing its user could see.                *)
THEOREM IsVector == Spec => ImplementsVector
<1>1. Init => AsVector!Init
  <2>1. SUFFICES ASSUME Init PROVE ToTheUser = << >>
    BY DEF AsVector!Init
  <2>2. op.name # "sort" /\ data = Empty
    BY <2>1 DEF Init, Idle
  <2> QED
    BY <2>2, GlobalEmpty DEF ToTheUser
<1>2. ExchangeInv /\ [Next]_vars => [AsVector!Next]_ToTheUser
  BY StepSeen DEF Alike
<1> QED
  BY <1>1, <1>2, Invariant, PTL DEF Spec, ImplementsVector, AsVector!Spec
============================================================================
