--------------------------- MODULE Layouts_proofs ---------------------------
(***************************************************************************)
(* For every number of ranks and all layouts: what align_as makes the      *)
(* ranks send adds up to the layout that was asked for, head and tail take *)
(* no more than there is, align_block's blocks are sizes.  These are sums  *)
(* over the ranks, so the laws of sums come first, by induction on finite  *)
(* sets and on natural numbers.                                            *)
(***************************************************************************)
EXTENDS Layouts, WellFoundedInduction, FiniteSetTheorems, TLAPS

---------------------------------------------------------------------------
(* Induction, in the form of a set that holds what has the property.       *)

(* A set of natural numbers has a least one.                               *)
LEMMA LeastNat ==
  ASSUME NEW T, T \subseteq Nat, T # {}
  PROVE  \E m \in T : \A k \in T : m <= k
<1> DEFINE R == {ss \in Nat \X Nat : ss[1] < ss[2]}
<1>1. IsWellFoundedOn(OpToRel(<, Nat), Nat)
  BY NatLessThanWellFounded, Zenon
<1>2. OpToRel(<, Nat) = R
  BY Zenon DEF OpToRel
<1>3. \A x, y \in Nat : <<y, x>> \in R <=> y < x
  OBVIOUS
<1> HIDE DEF R
<1>4. IsWellFoundedOn(R, Nat)
  BY <1>1, <1>2, Zenon
<1>5. PICK m \in T : \A k \in T : ~ (<<k, m>> \in R)
  BY <1>4, WFMin
<1>6. \A k \in T : k \in Nat
  OBVIOUS
<1>7. ASSUME NEW k \in T PROVE m <= k
  <2>1. ~ (k < m)
    BY <1>3, <1>5, <1>6, Zenon
  <2> QED
    BY <1>6, <2>1
<1> QED
  BY <1>7

LEMMA NatSetInduction ==
  ASSUME NEW T, 0 \in T, \A n \in Nat : n \in T => n + 1 \in T
  PROVE  Nat \subseteq T
<1> SUFFICES ASSUME Nat \ T # {} PROVE FALSE
  OBVIOUS
<1>1. PICK m \in Nat \ T : \A k \in Nat \ T : m <= k
  BY LeastNat
<1>2. m # 0 /\ m - 1 \in Nat /\ m - 1 \in T
  BY <1>1
<1> QED
  BY <1>1, <1>2

LEMMA FiniteSetInduction ==
  ASSUME NEW S, IsFiniteSet(S), NEW T,
         \A s \in SUBSET S : (\A t \in SUBSET s : t # s => t \in T) => s \in T
  PROVE  SUBSET S \subseteq T
<1> SUFFICES ASSUME (SUBSET S) \ T # {} PROVE FALSE
  OBVIOUS
<1> DEFINE B == (SUBSET S) \ T
<1>1. IsWellFoundedOn(StrictSubsetOrdering(S), SUBSET S)
  <2>1. FiniteSubsetsOf(S) = SUBSET S
    BY FS_FiniteSubsetsOfFinite
  <2>2. IsWellFoundedOn(StrictSubsetOrdering(S), FiniteSubsetsOf(S))
    BY FS_StrictSubsetOrderingWellFounded
  <2> QED
    BY <2>1, <2>2
<1>2. B \subseteq SUBSET S /\ B # {}
  OBVIOUS
<1>3. PICK s \in B : \A t \in B : ~ (<<t, s>> \in StrictSubsetOrdering(S))
  <2> HIDE DEF B
  <2> QED
    BY <1>1, <1>2, WFMin
<1>4. \A t \in SUBSET s : t # s => t \in T
  BY <1>3 DEF StrictSubsetOrdering
<1> QED
  BY <1>3, <1>4

---------------------------------------------------------------------------
(* Sums.                                                                   *)

OneOf(s) == CHOOSE x \in s : TRUE

(* What the fold behind SumFunctionOnSet builds on the way.                *)
Folded(f, S, it) ==
  it = [s \in SUBSET S |-> IF s = {} THEN 0 ELSE f[OneOf(s)] + it[s \ {OneOf(s)}]]

LEMMA SumFolds ==
  ASSUME NEW f, NEW S
  PROVE  SumFunctionOnSet(f, S) = (CHOOSE it : Folded(f, S, it))[S]
BY Zenon DEF SumFunctionOnSet, FoldFunctionOnSet, MapThenFoldSet, Folded, OneOf

LEMMA FoldedAt ==
  ASSUME NEW f, NEW S, NEW it, Folded(f, S, it), NEW s \in SUBSET S
  PROVE  it[s] = IF s = {} THEN 0 ELSE f[OneOf(s)] + it[s \ {OneOf(s)}]
<1> DEFINE Val(u) == IF u = {} THEN 0 ELSE f[OneOf(u)] + it[u \ {OneOf(u)}]
<1>1. it = [u \in SUBSET S |-> Val(u)]
  BY Zenon DEF Folded
<1> HIDE DEF Val
<1>2. it[s] = Val(s)
  BY <1>1
<1> QED
  BY <1>2 DEF Val

LEMMA FoldedAgree ==
  ASSUME NEW f, NEW S, IsFiniteSet(S), NEW A, NEW i, NEW j, S \subseteq A,
         Folded(f, S, i), Folded(f, A, j)
  PROVE  \A s \in SUBSET S : i[s] = j[s]
<1> DEFINE T == {s \in SUBSET S : i[s] = j[s]}
<1>1. ASSUME NEW s \in SUBSET S, \A t \in SUBSET s : t # s => t \in T
      PROVE  s \in T
  <2>1. s \in SUBSET A
    OBVIOUS
  <2>2. CASE s = {}
    BY <2>1, <2>2, FoldedAt
  <2>3. CASE s # {}
    <3>1. OneOf(s) \in s
      BY <2>3 DEF OneOf
    <3>2. s \ {OneOf(s)} \in T
      BY <1>1, <3>1
    <3>3. i[s] = f[OneOf(s)] + i[s \ {OneOf(s)}]
      BY <2>3, FoldedAt
    <3>4. j[s] = f[OneOf(s)] + j[s \ {OneOf(s)}]
      BY <2>1, <2>3, FoldedAt
    <3> QED
      BY <3>2, <3>3, <3>4
  <2> QED
    BY <2>2, <2>3
<1> HIDE DEF T
<1>2. SUBSET S \subseteq T
  BY <1>1, FiniteSetInduction
<1> QED
  BY <1>2 DEF T

(* Of the sum of some, the sum of fewer is a part.                         *)
LEMMA FoldedSum ==
  ASSUME NEW f, NEW S, IsFiniteSet(S), NEW A, NEW j, S \subseteq A, Folded(f, A, j),
         \E it : Folded(f, S, it)
  PROVE  j[S] = SumFunctionOnSet(f, S)
<1>1. Folded(f, S, CHOOSE it : Folded(f, S, it))
  OBVIOUS
<1> DEFINE c == CHOOSE it : Folded(f, S, it)
<1>2. Folded(f, S, c)
  BY <1>1
<1>3. SumFunctionOnSet(f, S) = c[S]
  BY SumFolds
<1> HIDE DEF c
<1>4. S \in SUBSET S
  OBVIOUS
<1> QED
  BY <1>2, <1>3, <1>4, FoldedAgree

LEMMA FoldExists ==
  ASSUME NEW f, NEW S, IsFiniteSet(S)
  PROVE  \A s \in SUBSET S : \E it : Folded(f, s, it)
<1> DEFINE T == {s \in SUBSET S : \E it : Folded(f, s, it)}
           Val(t) == IF t = {} THEN 0 ELSE f[OneOf(t)] + SumFunctionOnSet(f, t \ {OneOf(t)})
<1>1. ASSUME NEW s \in SUBSET S, \A t \in SUBSET s : t # s => t \in T
      PROVE  s \in T
  <2> DEFINE G == [t \in SUBSET s |-> Val(t)]
  <2>1. ASSUME NEW u \in SUBSET s, u # s PROVE Val(u) = SumFunctionOnSet(f, u)
    <3>1. PICK it : Folded(f, u, it)
      BY <1>1, <2>1
    <3>2. IsFiniteSet(u)
      BY FS_Subset
    <3>3. it[u] = SumFunctionOnSet(f, u)
      BY <3>1, <3>2, FoldedSum
    <3>4. CASE u = {}
      <4>1. it[u] = 0
        BY <3>1, <3>4, FoldedAt
      <4> QED
        BY <3>3, <3>4, <4>1
    <3>5. CASE u # {}
      <4>1. OneOf(u) \in u
        BY <3>5 DEF OneOf
      <4> DEFINE w == u \ {OneOf(u)}
      <4>2. w \in SUBSET s /\ w # s /\ w \subseteq u
        BY <2>1, <4>1
      <4> HIDE DEF w
      <4>3. \E k : Folded(f, w, k)
        BY <1>1, <4>2
      <4>4. IsFiniteSet(w)
        BY <3>2, <4>2, FS_Subset
      <4>5. it[w] = SumFunctionOnSet(f, w)
        BY <3>1, <4>2, <4>3, <4>4, FoldedSum
      <4>6. it[u] = f[OneOf(u)] + it[w]
        BY <3>1, <3>5, FoldedAt DEF w
      <4> QED
        BY <3>3, <3>5, <4>5, <4>6 DEF w
    <3> QED
      BY <3>4, <3>5
  <2> HIDE DEF Val
  <2>2. ASSUME NEW t \in SUBSET s
        PROVE  Val(t) = IF t = {} THEN 0 ELSE f[OneOf(t)] + G[t \ {OneOf(t)}]
    <3>1. CASE t = {}
      BY <3>1 DEF Val
    <3>2. CASE t # {}
      <4>1. OneOf(t) \in t
        BY <3>2 DEF OneOf
      <4> DEFINE w == t \ {OneOf(t)}
      <4>2. w \in SUBSET s /\ w # s
        BY <4>1
      <4>3. Val(t) = f[OneOf(t)] + SumFunctionOnSet(f, w)
        BY <3>2 DEF Val
      <4> HIDE DEF w
      <4>4. G[w] = SumFunctionOnSet(f, w)
        BY <2>1, <4>2
      <4> QED
        BY <3>2, <4>3, <4>4 DEF w
    <3> QED
      BY <3>1, <3>2
  <2>3. Folded(f, s, G)
    <3>1. \A t \in SUBSET s : G[t] = IF t = {} THEN 0 ELSE f[OneOf(t)] + G[t \ {OneOf(t)}]
      BY <2>2
    <3> HIDE DEF G
    <3>2. G = [t \in SUBSET s |-> G[t]]
      BY DEF G
    <3> QED
      BY <3>1, <3>2 DEF Folded
  <2> QED
    BY <2>3
<1> HIDE DEF T
<1>2. SUBSET S \subseteq T
  BY <1>1, FiniteSetInduction
<1> QED
  BY <1>2 DEF T

LEMMA SumEmpty == ASSUME NEW f PROVE SumFunctionOnSet(f, {}) = 0
<1>1. IsFiniteSet({}) /\ {} \in SUBSET {}
  BY FS_EmptySet
<1>2. PICK it : Folded(f, {}, it)
  BY <1>1, FoldExists
<1>3. it[{}] = 0
  BY <1>1, <1>2, FoldedAt
<1> QED
  BY <1>1, <1>2, <1>3, FoldedSum

LEMMA SumChosen ==
  ASSUME NEW f, NEW S, IsFiniteSet(S), S # {}
  PROVE  /\ OneOf(S) \in S
         /\ SumFunctionOnSet(f, S) = f[OneOf(S)] + SumFunctionOnSet(f, S \ {OneOf(S)})
<1>1. OneOf(S) \in S
  BY DEF OneOf
<1> DEFINE w == S \ {OneOf(S)}
<1>2. PICK it : Folded(f, S, it)
  BY FoldExists
<1>3. it[S] = SumFunctionOnSet(f, S)
  BY <1>2, FoldedSum
<1>4. it[S] = f[OneOf(S)] + it[w]
  BY <1>2, FoldedAt
<1>5. IsFiniteSet(w) /\ w \subseteq S
  BY FS_RemoveElement
<1> HIDE DEF w
<1>6. it[w] = SumFunctionOnSet(f, w)
  BY <1>2, <1>5, FoldExists, FoldedSum
<1> QED
  BY <1>1, <1>3, <1>4, <1>6 DEF w

LEMMA SumType ==
  ASSUME NEW S, IsFiniteSet(S), NEW f, \A x \in S : f[x] \in Int
  PROVE  \A s \in SUBSET S : SumFunctionOnSet(f, s) \in Int
<1> DEFINE T == {s \in SUBSET S : SumFunctionOnSet(f, s) \in Int}
<1>1. ASSUME NEW s \in SUBSET S, \A t \in SUBSET s : t # s => t \in T
      PROVE  s \in T
  <2>1. CASE s = {}
    BY <2>1, SumEmpty
  <2>2. CASE s # {}
    <3>1. IsFiniteSet(s)
      BY FS_Subset
    <3>2. OneOf(s) \in s /\ SumFunctionOnSet(f, s) = f[OneOf(s)] + SumFunctionOnSet(f, s \ {OneOf(s)})
      BY <2>2, <3>1, SumChosen
    <3>3. s \ {OneOf(s)} \in T
      BY <1>1, <3>2
    <3> QED
      BY <3>2, <3>3
  <2> QED
    BY <2>1, <2>2
<1> HIDE DEF T
<1>2. SUBSET S \subseteq T
  BY <1>1, FiniteSetInduction
<1> QED
  BY <1>2 DEF T

(* Whatever element the fold chooses, any may be taken out.                *)
LEMMA SumTakesOut ==
  ASSUME NEW S, IsFiniteSet(S), NEW f, \A x \in S : f[x] \in Int
  PROVE  \A s \in SUBSET S : \A x \in s :
           SumFunctionOnSet(f, s) = f[x] + SumFunctionOnSet(f, s \ {x})
<1> DEFINE Law(s) == \A x \in s : SumFunctionOnSet(f, s) = f[x] + SumFunctionOnSet(f, s \ {x})
           T == {s \in SUBSET S : Law(s)}
<1>1. ASSUME NEW s \in SUBSET S, \A t \in SUBSET s : t # s => t \in T, NEW x \in s
      PROVE  SumFunctionOnSet(f, s) = f[x] + SumFunctionOnSet(f, s \ {x})
  <2> DEFINE a == OneOf(s)
  <2>1. IsFiniteSet(s) /\ s # {}
    BY FS_Subset
  <2>2. a \in s /\ SumFunctionOnSet(f, s) = f[a] + SumFunctionOnSet(f, s \ {a})
    BY <2>1, SumChosen
  <2> HIDE DEF a
  <2>3. CASE x = a
    BY <2>2, <2>3
  <2>4. CASE x # a
    <3>1. s \ {a} \in T /\ s \ {x} \in T
      BY <1>1, <2>2
    <3>2. Law(s \ {a}) /\ Law(s \ {x})
      BY <3>1
    <3>3. SumFunctionOnSet(f, s \ {a}) = f[x] + SumFunctionOnSet(f, (s \ {a}) \ {x})
      BY <2>4, <3>2
    <3>4. SumFunctionOnSet(f, s \ {x}) = f[a] + SumFunctionOnSet(f, (s \ {x}) \ {a})
      BY <2>2, <2>4, <3>2
    <3>5. (s \ {a}) \ {x} = (s \ {x}) \ {a}
      OBVIOUS
    <3>6. f[a] \in Int /\ f[x] \in Int
      BY <2>2
    <3>7. SumFunctionOnSet(f, (s \ {x}) \ {a}) \in Int
      BY SumType
    <3> DEFINE rest == SumFunctionOnSet(f, (s \ {x}) \ {a})
    <3>8. /\ SumFunctionOnSet(f, s) = f[a] + (f[x] + rest)
          /\ SumFunctionOnSet(f, s \ {x}) = f[a] + rest
      BY <2>2, <3>3, <3>4, <3>5, Zenon
    <3>9. rest \in Int
      BY <3>7
    <3> HIDE DEF rest
    <3> QED
      BY <3>6, <3>8, <3>9
  <2> QED
    BY <2>3, <2>4
<1>2. ASSUME NEW s \in SUBSET S, \A t \in SUBSET s : t # s => t \in T PROVE s \in T
  BY <1>1, <1>2
<1> HIDE DEF T
<1>3. SUBSET S \subseteq T
  BY <1>2, FiniteSetInduction
<1> QED
  BY <1>3 DEF T

LEMMA SumAlike ==
  ASSUME NEW S, IsFiniteSet(S), NEW f, NEW g, \A x \in S : f[x] = g[x]
  PROVE  \A s \in SUBSET S : SumFunctionOnSet(f, s) = SumFunctionOnSet(g, s)
<1> DEFINE T == {s \in SUBSET S : SumFunctionOnSet(f, s) = SumFunctionOnSet(g, s)}
<1>1. ASSUME NEW s \in SUBSET S, \A t \in SUBSET s : t # s => t \in T
      PROVE  s \in T
  <2>1. CASE s = {}
    BY <2>1, SumEmpty
  <2>2. CASE s # {}
    <3>1. IsFiniteSet(s)
      BY FS_Subset
    <3>2. /\ OneOf(s) \in s
          /\ SumFunctionOnSet(f, s) = f[OneOf(s)] + SumFunctionOnSet(f, s \ {OneOf(s)})
          /\ SumFunctionOnSet(g, s) = g[OneOf(s)] + SumFunctionOnSet(g, s \ {OneOf(s)})
      BY <2>2, <3>1, SumChosen
    <3>3. s \ {OneOf(s)} \in T
      BY <1>1, <3>2
    <3> QED
      BY <3>2, <3>3
  <2> QED
    BY <2>1, <2>2
<1> HIDE DEF T
<1>2. SUBSET S \subseteq T
  BY <1>1, FiniteSetInduction
<1> QED
  BY <1>2 DEF T

---------------------------------------------------------------------------
(* Sums over the first ranks: Before and Total.                            *)

LEMMA PrefixSum ==
  ASSUME NEW f, NEW n \in Nat, \A r \in 0 .. n - 1 : f[r] \in Int
  PROVE  /\ SumFunctionOnSet(f, 0 .. -1) = 0
         /\ \A k \in 0 .. n : SumFunctionOnSet(f, 0 .. k - 1) \in Int
         /\ \A k \in 0 .. n - 1 :
              SumFunctionOnSet(f, 0 .. k) = SumFunctionOnSet(f, 0 .. k - 1) + f[k]
<1>1. 0 .. -1 = {}
  OBVIOUS
<1>2. IsFiniteSet(0 .. n - 1)
  BY FS_Interval
<1>3. ASSUME NEW k \in 0 .. n PROVE SumFunctionOnSet(f, 0 .. k - 1) \in Int
  <2>1. 0 .. k - 1 \in SUBSET (0 .. n - 1)
    OBVIOUS
  <2> QED
    BY <1>2, <2>1, SumType
<1>4. ASSUME NEW k \in 0 .. n - 1
      PROVE  SumFunctionOnSet(f, 0 .. k) = SumFunctionOnSet(f, 0 .. k - 1) + f[k]
  <2>1. 0 .. k \in SUBSET (0 .. n - 1) /\ k \in 0 .. k
    OBVIOUS
  <2>2. (0 .. k) \ {k} = 0 .. k - 1
    OBVIOUS
  <2>3. SumFunctionOnSet(f, 0 .. k) = f[k] + SumFunctionOnSet(f, (0 .. k) \ {k})
    BY <1>2, <2>1, SumTakesOut
  <2>4. f[k] \in Int /\ SumFunctionOnSet(f, 0 .. k - 1) \in Int
    BY <1>3
  <2>5. SumFunctionOnSet(f, 0 .. k) = f[k] + SumFunctionOnSet(f, 0 .. k - 1)
    BY <2>2, <2>3, Zenon
  <2> QED
    BY <2>4, <2>5
<1> QED
  BY <1>1, <1>3, <1>4, SumEmpty

Layout == [Rank -> Nat]

LEMMA BeforeFacts ==
  ASSUME NEW len \in Layout
  PROVE  /\ Before(len, 0) = 0
         /\ Before(len, N) = Total(len)
         /\ \A k \in 0 .. N : Before(len, k) \in Int
         /\ \A k \in Rank : Before(len, k + 1) = Before(len, k) + len[k]
<1>1. N \in Nat /\ 0 - 1 = -1 /\ \A k \in 0 .. N - 1 : len[k] \in Int /\ (k + 1) - 1 = k
  BY NAssumption DEF Layout, Rank
<1>2. DOMAIN len = 0 .. N - 1
  BY DEF Layout, Rank
<1>3. Before(len, N) = Total(len)
  BY <1>2, Zenon DEF Before, Total, SumFunction
<1>4. /\ SumFunctionOnSet(len, 0 .. -1) = 0
      /\ \A k \in 0 .. N : SumFunctionOnSet(len, 0 .. k - 1) \in Int
      /\ \A k \in 0 .. N - 1 :
           SumFunctionOnSet(len, 0 .. k) = SumFunctionOnSet(len, 0 .. k - 1) + len[k]
  BY <1>1, PrefixSum
<1>5. Before(len, 0) = 0
  BY <1>1, <1>4, Zenon DEF Before
<1>6. \A k \in Rank : Before(len, k + 1) = Before(len, k) + len[k]
  <2>1. TAKE k \in Rank
  <2>2. Before(len, k + 1) = SumFunctionOnSet(len, 0 .. (k + 1) - 1)
    BY DEF Before
  <2>3. (k + 1) - 1 = k /\ k \in 0 .. N - 1
    BY <1>1 DEF Rank
  <2>4. Before(len, k + 1) = SumFunctionOnSet(len, 0 .. k)
    BY <2>2, <2>3, Zenon
  <2>5. SumFunctionOnSet(len, 0 .. k) = SumFunctionOnSet(len, 0 .. k - 1) + len[k]
    BY <1>4, <2>3, Zenon
  <2> QED
    BY <2>4, <2>5, Zenon DEF Before
<1> QED
  BY <1>3, <1>4, <1>5, <1>6, Zenon DEF Before

LEMMA BeforeGrows ==
  ASSUME NEW len \in Layout
  PROVE  \A k \in 0 .. N : Before(len, k) \in Nat /\ Before(len, k) <= Total(len)
<1> USE NAssumption
<1>0. /\ \A k \in Rank : len[k] \in Nat
      /\ Before(len, 0) = 0
      /\ Before(len, N) = Total(len)
      /\ \A k \in 0 .. N : Before(len, k) \in Int
      /\ \A k \in Rank : Before(len, k + 1) = Before(len, k) + len[k]
  BY BeforeFacts DEF Layout
<1>1. \A k \in 0 .. N : Before(len, k) \in Nat
  <2> DEFINE T == {k \in Nat : k <= N => Before(len, k) \in Nat}
  <2>1. 0 \in T
    BY <1>0
  <2>2. ASSUME NEW k \in Nat, k \in T PROVE k + 1 \in T
    BY <1>0, <2>2 DEF Rank
  <2> HIDE DEF T
  <2>3. Nat \subseteq T
    BY <2>1, <2>2, NatSetInduction
  <2> QED
    BY <2>3 DEF T
<1>2. \A k \in 0 .. N : Before(len, k) <= Before(len, N)
  <2> DEFINE T == {k \in Nat : k <= N => Before(len, N - k) <= Before(len, N)}
  <2>1. 0 \in T
    BY <1>0
  <2>2. ASSUME NEW k \in Nat, k \in T PROVE k + 1 \in T
    <3>1. SUFFICES ASSUME k + 1 <= N PROVE Before(len, N - (k + 1)) <= Before(len, N)
      OBVIOUS
    <3>2. N - (k + 1) \in Rank /\ (N - (k + 1)) + 1 = N - k /\ N - k \in 0 .. N
      BY <3>1 DEF Rank
    <3>3. Before(len, N - k) <= Before(len, N)
      BY <2>2, <3>1
    <3>4. Before(len, N - k) = Before(len, N - (k + 1)) + len[N - (k + 1)]
      BY <1>0, <3>2
    <3>5. /\ Before(len, N - k) \in Int /\ Before(len, N - (k + 1)) \in Int
          /\ len[N - (k + 1)] \in Nat /\ Before(len, N) \in Int
      BY <1>0, <3>2 DEF Rank
    <3> QED
      BY <3>3, <3>4, <3>5
  <2> HIDE DEF T
  <2>3. Nat \subseteq T
    BY <2>1, <2>2, NatSetInduction
  <2>4. ASSUME NEW k \in 0 .. N PROVE Before(len, k) <= Before(len, N)
    <3>1. N - k \in T /\ N - k <= N /\ N - (N - k) = k
      BY <2>3
    <3> QED
      BY <3>1 DEF T
  <2> QED
    BY <2>4
<1> QED
  BY <1>0, <1>1, <1>2

(* Where x comes to lie when it must lie between a and b.                  *)
Clamp(x, a, b) == IF x < a THEN a ELSE IF x > b THEN b ELSE x

(* Rank s has the elements from Before(src, s) on, rank i gets those from  *)
(* Before(dst, i) on: s sends i what both intervals have, and no case of   *)
(* align_as_calc_alltoall_sizes is left out.                               *)
LEMMA AlltoallOverlap ==
  ASSUME NEW src \in Layout, NEW dst \in Layout, NEW s \in Rank, NEW i \in Rank
  PROVE  /\ alltoall_size(src, dst, s, i) \in Nat
         /\ alltoall_size(src, dst, s, i) =
              Clamp(Before(src, s + 1), Before(dst, i), Before(dst, i + 1))
              - Clamp(Before(src, s), Before(dst, i), Before(dst, i + 1))
         /\ alltoall_size(src, dst, s, i) =
              Clamp(Before(dst, i + 1), Before(src, s), Before(src, s + 1))
              - Clamp(Before(dst, i), Before(src, s), Before(src, s + 1))
<1> DEFINE a == Before(src, s)
           b == Before(dst, i)
           c == src[s]
           d == dst[i]
<1>1. Before(src, s + 1) = a + c /\ Before(dst, i + 1) = b + d
  BY BeforeFacts
<1>2. s \in 0 .. N /\ i \in 0 .. N
  BY NAssumption DEF Rank
<1>3. a \in Nat /\ b \in Nat /\ c \in Nat /\ d \in Nat
  BY <1>2, BeforeGrows DEF Layout
<1>4. alltoall_size(src, dst, s, i) =
        CASE b < a /\ b + d < a -> 0
          [] b < a /\ b + d >= a /\ b + d < a + c -> b + d - a
          [] b < a /\ b + d >= a /\ b + d >= a + c -> a + c - a
          [] b >= a /\ b < a + c /\ b + d < a + c -> b + d - b
          [] b >= a /\ b < a + c /\ b + d >= a + c -> a + c - b
          [] b >= a + c /\ b + d >= a + c -> 0
          [] OTHER -> internal_error
  BY DEF alltoall_size
<1> HIDE DEF a, b, c, d
<1>5. /\ alltoall_size(src, dst, s, i) \in Nat
      /\ alltoall_size(src, dst, s, i) = Clamp(a + c, b, b + d) - Clamp(a, b, b + d)
      /\ alltoall_size(src, dst, s, i) = Clamp(b + d, a, a + c) - Clamp(b, a, a + c)
  BY <1>3, <1>4 DEF Clamp
<1> QED
  BY <1>1, <1>5, Zenon DEF a, b

(* Pieces that follow each other make up what they cover.                  *)
LEMMA ClampSum ==
  ASSUME NEW f \in Layout, NEW v \in Layout, NEW a \in Nat, NEW b \in Nat, a <= b,
         \A k \in Rank : f[k] = Clamp(Before(v, k + 1), a, b) - Clamp(Before(v, k), a, b)
  PROVE  Total(f) = Clamp(Total(v), a, b) - a
<1>1. \A k \in 0 .. N : Before(v, k) \in Nat /\ Before(f, k) \in Int
  BY BeforeGrows
<1> DEFINE T == {k \in Nat : k <= N => Before(f, k) = Clamp(Before(v, k), a, b) - a}
<1>2. 0 \in T
  <2>1. Before(f, 0) = 0 /\ Before(v, 0) = 0
    BY BeforeFacts
  <2> QED
    BY <2>1 DEF Clamp
<1>3. ASSUME NEW k \in Nat, k \in T PROVE k + 1 \in T
  <2>1. SUFFICES ASSUME k + 1 <= N
                 PROVE  Before(f, k + 1) = Clamp(Before(v, k + 1), a, b) - a
    OBVIOUS
  <2>2. k \in Rank /\ k <= N /\ k \in 0 .. N /\ k + 1 \in 0 .. N
    BY <2>1, NAssumption DEF Rank
  <2>3. Before(f, k) = Clamp(Before(v, k), a, b) - a
    BY <1>3, <2>2
  <2>4. Before(f, k + 1) = Before(f, k) + f[k]
    BY <2>2, BeforeFacts
  <2>5. f[k] = Clamp(Before(v, k + 1), a, b) - Clamp(Before(v, k), a, b)
    BY <2>2
  <2>6. Clamp(Before(v, k), a, b) \in Int /\ Clamp(Before(v, k + 1), a, b) \in Int
    BY <1>1, <2>2 DEF Clamp
  <2> QED
    BY <2>3, <2>4, <2>5, <2>6
<1> HIDE DEF T
<1>4. Nat \subseteq T
  BY <1>2, <1>3, NatSetInduction
<1>5. Before(f, N) = Clamp(Before(v, N), a, b) - a
  <2>1. N \in T
    BY <1>4, NAssumption
  <2> QED
    BY <2>1, NAssumption DEF T
<1> QED
  BY <1>5, BeforeFacts

(* align_as loses nothing and doubles nothing, whatever the layouts: the   *)
(* pieces sent to a rank add up to what it is to have.                     *)
THEOREM AlignArrives ==
  ASSUME NEW src \in Layout, NEW dst \in Layout, Total(src) = Total(dst), NEW i \in Rank
  PROVE  SumFunction([s \in Rank |-> alltoall_size(src, dst, s, i)]) = dst[i]
<1> DEFINE f == [s \in Rank |-> alltoall_size(src, dst, s, i)]
           a == Before(dst, i)
           b == Before(dst, i + 1)
<1>1. f \in Layout
  BY AlltoallOverlap DEF Layout
<1>2. i \in 0 .. N /\ i + 1 \in 0 .. N
  BY NAssumption DEF Rank
<1>3. a \in Nat /\ b \in Nat /\ b = a + dst[i] /\ dst[i] \in Nat /\ b <= Total(src)
  BY <1>2, BeforeFacts, BeforeGrows DEF Layout
<1>4. \A k \in Rank : f[k] = Clamp(Before(src, k + 1), a, b) - Clamp(Before(src, k), a, b)
  BY AlltoallOverlap
<1>5. Total(src) \in Nat
  BY BeforeFacts, BeforeGrows, NAssumption
<1> HIDE DEF f, a, b
<1>6. Total(f) = Clamp(Total(src), a, b) - a
  BY <1>1, <1>3, <1>4, ClampSum
<1>7. Total(f) = dst[i]
  BY <1>3, <1>5, <1>6 DEF Clamp
<1> QED
  BY <1>7 DEF Total, f

(* And the pieces a rank sends add up to what it has.                      *)
THEOREM AlignLeaves ==
  ASSUME NEW src \in Layout, NEW dst \in Layout, Total(src) = Total(dst), NEW s \in Rank
  PROVE  SumFunction([i \in Rank |-> alltoall_size(src, dst, s, i)]) = src[s]
<1> DEFINE f == [i \in Rank |-> alltoall_size(src, dst, s, i)]
           a == Before(src, s)
           b == Before(src, s + 1)
<1>1. f \in Layout
  BY AlltoallOverlap DEF Layout
<1>2. s \in 0 .. N /\ s + 1 \in 0 .. N
  BY NAssumption DEF Rank
<1>3. a \in Nat /\ b \in Nat /\ b = a + src[s] /\ src[s] \in Nat /\ b <= Total(dst)
  BY <1>2, BeforeFacts, BeforeGrows DEF Layout
<1>4. \A k \in Rank : f[k] = Clamp(Before(dst, k + 1), a, b) - Clamp(Before(dst, k), a, b)
  BY AlltoallOverlap
<1>5. Total(dst) \in Nat
  BY BeforeFacts, BeforeGrows, NAssumption
<1> HIDE DEF f, a, b
<1>6. Total(f) = Clamp(Total(dst), a, b) - a
  BY <1>1, <1>3, <1>4, ClampSum
<1>7. Total(f) = src[s]
  BY <1>3, <1>5, <1>6 DEF Clamp
<1> QED
  BY <1>7 DEF Total, f

---------------------------------------------------------------------------
(* head and tail.                                                          *)

(* What is left to take when the ranks before r have given all they can.   *)
Left(v, n, r) == IF n > Before(v, r) THEN n - Before(v, r) ELSE 0

LEMMA HeadSizes ==
  ASSUME NEW v \in Layout, NEW n \in Nat, NEW r \in Rank
  PROVE  head_sizes(v, n)[r] = Smaller(Left(v, n, r), v[r])
<1> DEFINE Val(rest, k) == IF k = 0 THEN n
             ELSE IF rest[k - 1] > v[k - 1] THEN rest[k - 1] - v[k - 1] ELSE 0
           Loop(rest) == rest = [k \in Rank |-> Val(rest, k)]
           rest == CHOOSE f : Loop(f)
           g == [k \in Rank |-> Left(v, n, k)]
<1>1. \A k \in 0 .. N : Before(v, k) \in Nat
  BY BeforeGrows
<1>2. \A k \in Rank : k # 0 => /\ k - 1 \in Rank /\ (k - 1) + 1 = k /\ k \in 0 .. N
                               /\ k - 1 \in 0 .. N /\ v[k - 1] \in Nat
  BY NAssumption DEF Rank, Layout
<1>3. Before(v, 0) = 0 /\ \A k \in Rank : k # 0 => Before(v, k) = Before(v, k - 1) + v[k - 1]
  BY <1>2, BeforeFacts
<1>4. ASSUME NEW k \in Rank PROVE Left(v, n, k) = Val(g, k)
  <2>1. CASE k = 0
    BY <1>3, <2>1 DEF Left
  <2>2. CASE k # 0
    <3>1. g[k - 1] = Left(v, n, k - 1)
      BY <1>2, <2>2
    <3> HIDE DEF g
    <3>2. Before(v, k - 1) \in Nat /\ v[k - 1] \in Nat /\ Before(v, k) = Before(v, k - 1) + v[k - 1]
      BY <1>1, <1>2, <1>3, <2>2
    <3> QED
      BY <2>2, <3>1, <3>2 DEF Left
  <2> QED
    BY <2>1, <2>2
<1>5. Loop(g)
  BY <1>4
<1>6. Loop(rest)
  <2> HIDE DEF Loop
  <2> QED
    BY <1>5
<1>7. head_sizes(v, n) = [k \in Rank |-> Smaller(rest[k], v[k])]
  BY DEF head_sizes
<1> HIDE DEF rest, g
<1>8. \A k \in Rank : rest[k] = Val(rest, k)
  BY <1>6
<1> DEFINE T == {k \in Nat : k \in Rank => rest[k] = Left(v, n, k)}
<1>9. 0 \in T
  BY <1>3, <1>8 DEF Left
<1>10. ASSUME NEW k \in Nat, k \in T PROVE k + 1 \in T
  <2>1. SUFFICES ASSUME k + 1 \in Rank PROVE rest[k + 1] = Left(v, n, k + 1)
    OBVIOUS
  <2>2. k \in Rank /\ (k + 1) - 1 = k /\ k + 1 # 0
    BY <2>1, NAssumption DEF Rank
  <2>3. rest[k] = Left(v, n, k)
    BY <1>10, <2>2
  <2>4. rest[k + 1] = IF rest[k] > v[k] THEN rest[k] - v[k] ELSE 0
    BY <1>8, <2>1, <2>2
  <2>5. Before(v, k) \in Nat /\ v[k] \in Nat /\ Before(v, k + 1) = Before(v, k) + v[k]
    BY <1>1, <1>2, <1>3, <2>1, <2>2
  <2> QED
    BY <2>3, <2>4, <2>5 DEF Left
<1> HIDE DEF T
<1>11. Nat \subseteq T
  BY <1>9, <1>10, NatSetInduction
<1>12. rest[r] = Left(v, n, r)
  BY <1>11 DEF T, Rank
<1> QED
  BY <1>7, <1>12

LEMMA HeadBounded ==
  ASSUME NEW v \in Layout, NEW n \in Nat
  PROVE  /\ DOMAIN head_sizes(v, n) = Rank
         /\ \A r \in Rank : head_sizes(v, n)[r] \in 0 .. v[r]
<1>1. DOMAIN head_sizes(v, n) = Rank
  BY DEF head_sizes
<1>2. ASSUME NEW r \in Rank PROVE head_sizes(v, n)[r] \in 0 .. v[r]
  <2>1. v[r] \in Nat /\ r \in 0 .. N
    BY NAssumption DEF Layout, Rank
  <2>2. Before(v, r) \in Nat
    BY <2>1, BeforeGrows
  <2>3. Left(v, n, r) \in Nat
    BY <2>2 DEF Left
  <2> QED
    BY <2>1, <2>3, HeadSizes DEF Smaller
<1> QED
  BY <1>1, <1>2

LEMMA TailBounded ==
  ASSUME NEW v \in Layout, NEW n \in Nat
  PROVE  /\ DOMAIN tail_sizes(v, n) = Rank
         /\ \A r \in Rank : tail_sizes(v, n)[r] \in 0 .. v[r]
<1> DEFINE w == [r \in Rank |-> v[N - 1 - r]]
<1>1. \A r \in Rank : (N - 1) - r \in Rank /\ (N - 1) - ((N - 1) - r) = r
  BY NAssumption DEF Rank
<1>2. w \in Layout
  BY <1>1 DEF Layout
<1>3. \A r \in Rank : w[(N - 1) - r] = v[r]
  BY <1>1
<1>4. tail_sizes(v, n) = [r \in Rank |-> head_sizes(w, n)[N - 1 - r]]
  BY DEF tail_sizes
<1> HIDE DEF w
<1> QED
  BY <1>1, <1>2, <1>3, <1>4, HeadBounded

(* align_block's blocks are sizes, and a rank that is asked for no more    *)
(* than all could hold gets no more than a rank can hold.                  *)
LEMMA BlockSizes ==
  ASSUME NEW sz \in Nat, NEW m \in Nat, sz <= N * m
  PROVE  block_size(sz) \in [Rank -> 0 .. m]
<1> DEFINE each == (sz + N - 1) \div N
<1>1. N \in Nat /\ N > 0
  BY NAssumption
<1>2. each \in Nat
  BY <1>1
<1>3. N * each <= sz + N - 1
  BY <1>1
<1>4. each <= m
  BY <1>1, <1>2, <1>3
<1>5. block_size(sz) = [r \in Rank |-> IF sz < each * r THEN 0 ELSE Smaller(each, sz - each * r)]
  BY DEF block_size
<1> HIDE DEF each
<1>6. ASSUME NEW r \in Rank PROVE each * r \in Nat
  BY <1>2 DEF Rank
<1> QED
  BY <1>2, <1>4, <1>5, <1>6 DEF Smaller

LEMMA TotalBound ==
  ASSUME NEW m \in Nat, NEW v \in [Rank -> 0 .. m]
  PROVE  Total(v) \in Nat /\ Total(v) <= N * m
<1>1. v \in Layout /\ \A k \in Rank : v[k] \in Nat /\ v[k] <= m
  BY DEF Layout
<1>2. /\ Before(v, 0) = 0 /\ Before(v, N) = Total(v)
      /\ \A k \in 0 .. N : Before(v, k) \in Nat
      /\ \A k \in Rank : Before(v, k + 1) = Before(v, k) + v[k]
  BY <1>1, BeforeFacts, BeforeGrows
<1> DEFINE T == {k \in Nat : k <= N => Before(v, k) <= k * m}
<1>3. 0 \in T
  BY <1>2
<1>4. ASSUME NEW k \in Nat, k \in T PROVE k + 1 \in T
  <2>1. SUFFICES ASSUME k + 1 <= N PROVE Before(v, k + 1) <= (k + 1) * m
    OBVIOUS
  <2>2. k \in Rank /\ k \in 0 .. N /\ k <= N
    BY <2>1, NAssumption DEF Rank
  <2>3. Before(v, k) <= k * m /\ Before(v, k + 1) = Before(v, k) + v[k]
    BY <1>2, <1>4, <2>2
  <2>4. (k + 1) * m = k * m + m /\ k * m \in Nat
    OBVIOUS
  <2>5. Before(v, k) \in Nat /\ v[k] \in Nat /\ v[k] <= m
    BY <1>1, <1>2, <2>2
  <2> QED
    BY <2>3, <2>4, <2>5
<1> HIDE DEF T
<1>5. Nat \subseteq T
  BY <1>3, <1>4, NatSetInduction
<1>6. N \in Nat /\ N \in 0 .. N /\ N \in T
  BY <1>5, NAssumption
<1>7. Before(v, N) <= N * m
  BY <1>6 DEF T
<1> QED
  BY <1>2, <1>6, <1>7
=============================================================================
