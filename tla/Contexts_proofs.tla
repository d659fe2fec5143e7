-------------------------- MODULE Contexts_proofs --------------------------
(***************************************************************************)
(* For every number of ranks, bounds on what programs do and whoever       *)
(* throws: ranks in, out of and on their way between contexts never mix    *)
(* their collectives or their ids, an exception of a context comes out of  *)
(* the call that made it, nothing is left when all is over, and a          *)
(* split_context_broadcast reaches the ranks it is for.                    *)
(*                                                                         *)
(* First the log of one communicator, and what a rank that enters it makes *)
(* of it; then one communicator, its log with what its members know        *)
(* (CommOK), as an assertion on given values; then the state, in which all *)
(* communicators are as they should be (Inv), and that every action keeps  *)
(* it; the theorems that follow; and at the end what a broadcast through a *)
(* context needs beside that (BroadInv), kept by every action as well.     *)
(***************************************************************************)
EXTENDS Contexts, FiniteSetTheorems, SequenceTheorems, WellFoundedInduction, TLAPS

---------------------------------------------------------------------------
(* Logs.                                                                   *)

Proper(L) == L \in Seq({L[i] : i \in DOMAIN L})

EntryOK(L, M, k) ==
  /\ \E op \in {"hdr", "vote", "split"} : L[k].ops = {op}
  /\ L[k].in \subseteq M
  /\ k = 1 /\ L[k].ops # {"hdr"} => L[k].in = M
  /\ k = 2 => L[k].in # M

Served(L, ro, k) ==
  /\ ro \in L[k].in
  /\ L[k].val[ro].op # "finalize"
  /\ L[k + 1].ops = {IF L[k].val[ro].op = "split" THEN "split" ELSE "vote"}

Follows(L, M, ro, k) ==
  /\ L[k + 1].in \subseteq L[k].in
  /\ L[k].ops # {"hdr"} => L[k].in = M
  /\ L[k].ops = {"hdr"} => Served(L, ro, k)
  /\ L[k].ops = {"split"} => L[k + 1].ops = {"vote"}
  /\ L[k].ops = {"vote"} => L[k + 1].ops = {"hdr"}

Shape(L, M, ro) ==
  /\ Proper(L)
  /\ Len(L) <= 3
  /\ \A k \in 1 .. Len(L) : EntryOK(L, M, k)
  /\ \A k \in 1 .. 2 : k < Len(L) => Follows(L, M, ro, k)

(* The last entry s is in is the k-th.                                     *)
IsAt(L, s, k) == s \in L[k].in /\ (k < Len(L) => s \notin L[k + 1].in)
InOp(L, s, op) == \E k \in 1 .. Len(L) : IsAt(L, s, k) /\ L[k].ops = {op}
IsOut(L, s) == Len(L) > 0 => s \notin L[1].in

(* A request of ro is out, and s has not served it yet.                    *)
OwesAt(L, ro, s, k) ==
  /\ L[k].ops = {"hdr"} /\ ro \in L[k].in
  /\ k < Len(L) => s \notin L[k + 1].in
Owing(L, ro, s) == \E k \in 1 .. Len(L) : OwesAt(L, ro, s, k)

Sent(L, ro, q) ==
  \A k \in 1 .. Len(L) :
    (L[k].ops = {"hdr"} /\ ro \in L[k].in) => L[k].val[ro] = q

Starts(L, op) == Len(L) > 0 /\ L[1].ops = {op}

(* s has entered nothing, or is in a vote nothing was served after.        *)
Rested(L, s) == IsOut(L, s) \/ (Starts(L, "vote") /\ IsAt(L, s, 1))

BallotsAt(L, b, k) == \A s \in L[k].in : L[k].val[s] = Ballot(b[s])
Ballots(L, ro, b) ==
  \A k \in 1 .. Len(L) :
    (L[k].ops = {"vote"} /\ (k < Len(L) => ro \notin L[k + 1].in)) => BallotsAt(L, b, k)

Pos(L, s) == Cardinality({k \in DOMAIN L : s \in L[k].in})

LEMMA ProperLen ==
  ASSUME NEW L, Proper(L)
  PROVE  Len(L) \in Nat /\ DOMAIN L = 1 .. Len(L)
BY DEF Proper

LEMMA ShapeLen ==
  ASSUME NEW L, NEW M, NEW ro, Shape(L, M, ro)
  PROVE  Len(L) \in 0 .. 3 /\ DOMAIN L = 1 .. Len(L)
<1>1. Proper(L) /\ Len(L) <= 3
  BY DEF Shape
<1>2. Len(L) \in Nat /\ DOMAIN L = 1 .. Len(L)
  BY <1>1, ProperLen
<1> QED
  BY <1>1, <1>2

LEMMA Positions ==
  ASSUME NEW L, NEW M, NEW ro, Shape(L, M, ro), NEW s
  PROVE  /\ Pos(L, s) \in 0 .. Len(L)
         /\ \A k \in 1 .. Len(L) : s \in L[k].in <=> k <= Pos(L, s)
<1>1. Len(L) \in 0 .. 3 /\ DOMAIN L = 1 .. Len(L)
  BY ShapeLen
<1>2. \A k \in 1 .. 2 : k < Len(L) => (s \in L[k + 1].in => s \in L[k].in)
  BY DEF Shape, Follows
<1>3. PICK m \in 0 .. Len(L) : \A k \in 1 .. Len(L) : s \in L[k].in <=> k <= m
  <2>1. Len(L) >= 2 => (s \in L[2].in => s \in L[1].in)
    BY <1>1, <1>2
  <2>2. Len(L) >= 3 => (s \in L[3].in => s \in L[2].in)
    BY <1>1, <1>2
  <2> DEFINE m == IF Len(L) >= 3 /\ s \in L[3].in THEN 3
                  ELSE IF Len(L) >= 2 /\ s \in L[2].in THEN 2
                  ELSE IF Len(L) >= 1 /\ s \in L[1].in THEN 1 ELSE 0
  <2>3. m \in 0 .. Len(L)
    BY <1>1
  <2>4. \A k \in 1 .. Len(L) : k = 1 \/ k = 2 \/ k = 3
    BY <1>1
  <2>5. \A k \in 1 .. Len(L) : s \in L[k].in <=> k <= m
    BY <1>1, <2>1, <2>2, <2>4
  <2> QED
    BY <2>3, <2>5
<1>4. {k \in DOMAIN L : s \in L[k].in} = 1 .. m
  BY <1>1, <1>3
<1>5. Cardinality(1 .. m) = m
  BY FS_Interval, <1>1
<1>6. Pos(L, s) = m
  BY <1>4, <1>5 DEF Pos
<1> QED
  BY <1>3, <1>6

LEMMA PosOf ==
  ASSUME NEW L, NEW M, NEW ro, Shape(L, M, ro), NEW s, NEW k \in 1 .. Len(L), IsAt(L, s, k)
  PROVE  Pos(L, s) = k
<1>1. /\ Pos(L, s) \in 0 .. Len(L)
      /\ \A j \in 1 .. Len(L) : s \in L[j].in <=> j <= Pos(L, s)
  BY Positions
<1>2. Len(L) \in 0 .. 3
  BY ShapeLen
<1>3. k <= Pos(L, s)
  BY <1>1 DEF IsAt
<1>4. k < Len(L) => ~ (k + 1 <= Pos(L, s))
  BY <1>1, <1>2 DEF IsAt
<1> QED
  BY <1>1, <1>2, <1>3, <1>4

LEMMA PosIsAt ==
  ASSUME NEW L, NEW M, NEW ro, Shape(L, M, ro), NEW s, Pos(L, s) > 0
  PROVE  Pos(L, s) \in 1 .. Len(L) /\ IsAt(L, s, Pos(L, s))
<1>1. /\ Pos(L, s) \in 0 .. Len(L)
      /\ \A j \in 1 .. Len(L) : s \in L[j].in <=> j <= Pos(L, s)
  BY Positions
<1>2. Len(L) \in 0 .. 3
  BY ShapeLen
<1> QED
  BY <1>1, <1>2 DEF IsAt

LEMMA PosOut ==
  ASSUME NEW L, NEW M, NEW ro, Shape(L, M, ro), NEW s
  PROVE  Pos(L, s) = 0 <=> IsOut(L, s)
<1>1. /\ Pos(L, s) \in 0 .. Len(L)
      /\ \A j \in 1 .. Len(L) : s \in L[j].in <=> j <= Pos(L, s)
  BY Positions
<1>2. Len(L) \in 0 .. 3
  BY ShapeLen
<1> QED
  BY <1>1, <1>2 DEF IsOut

(* A rank enters the log.                                                  *)

Serving(L, ro, r, op) ==
  \E k \in 1 .. Len(L) :
    /\ IsAt(L, r, k) /\ L[k].ops = {"hdr"} /\ ro \in L[k].in
    /\ L[k].val[ro].op # "finalize"
    /\ op = IF L[k].val[ro].op = "split" THEN "split" ELSE "vote"

CanEnter(L, ro, r, op) ==
  \/ op = "hdr" /\ Rested(L, r)
  \/ Serving(L, ro, r, op)
  \/ op = "vote" /\ Starts(L, "split") /\ IsAt(L, r, 1)

Fresh(r, op, val) == [ops |-> {op}, in |-> {r}, val |-> [s \in {r} |-> val]]
With(e, r, op, val) ==
  [ops |-> e.ops \cup {op}, in |-> e.in \cup {r},
   val |-> [s \in e.in \cup {r} |-> IF s = r THEN val ELSE e.val[s]]]
Put(L, r, op, val) ==
  IF Pos(L, r) + 1 > Len(L) THEN Append(L, Fresh(r, op, val))
  ELSE [L EXCEPT ![Pos(L, r) + 1] = With(@, r, op, val)]
Trimmed(K, M) == IF Len(K) > 1 /\ M = K[2].in THEN Tail(K) ELSE K
Entered(L, M, r, op, val) == Trimmed(Put(L, r, op, val), M)

LEMMA EnterIs ==
  ASSUME NEW lg, NEW c \in DOMAIN lg, NEW r, NEW op, NEW val
  PROVE  Enter(lg, r, c, op, val) = [lg EXCEPT ![c] = Entered(lg[c], Members(c), r, op, val)]
BY DEF Enter, Entered, Trimmed, Put, Fresh, With, Pos

(* What Put makes of L when r is at p, entry by entry.                     *)
PutView(L, K, r, op, val, p) ==
  /\ Proper(K) /\ Len(K) = (IF p = Len(L) THEN Len(L) + 1 ELSE Len(L))
  /\ \A k \in 1 .. Len(K) : K[k].ops = IF k = p + 1 THEN {op} ELSE L[k].ops
  /\ \A k \in 1 .. Len(K) : r \in K[k].in <=> k <= p + 1
  /\ \A k \in 1 .. Len(K) : \A s : s # r => (s \in K[k].in <=> (k <= Len(L) /\ s \in L[k].in))
  /\ K[p + 1].val[r] = val
  /\ \A k \in 1 .. Len(L) : \A s \in L[k].in : K[k].val[s] = L[k].val[s]

(* The entry after the one r is at is one that r may enter.                *)
LEMMA NextEntry ==
  ASSUME NEW L, NEW M, NEW ro, Shape(L, M, ro), NEW r \in M, NEW op, CanEnter(L, ro, r, op)
  PROVE  /\ Pos(L, r) < Len(L) => L[Pos(L, r) + 1].ops = {op}
         /\ Pos(L, r) \in 0 .. 2
<1> DEFINE p == Pos(L, r)
<1>1. Len(L) \in 0 .. 3 /\ p \in 0 .. Len(L)
  BY ShapeLen, Positions
<1>2. \A k \in 1 .. Len(L) : EntryOK(L, M, k)
  BY DEF Shape
<1>3. \A k \in 1 .. 2 : k < Len(L) => Follows(L, M, ro, k)
  BY DEF Shape
<1>4. CASE op = "hdr" /\ Rested(L, r)
  <2>1. CASE IsOut(L, r)
    <3>1. p = 0
      BY <2>1, PosOut
    <3>2. Len(L) > 0 => r \notin L[1].in
      BY <2>1 DEF IsOut
    <3>3. Len(L) > 0 => L[1].ops = {"hdr"}
      BY <1>1, <1>2, <3>2 DEF EntryOK
    <3> QED
      BY <3>1, <3>3, <1>4
  <2>2. CASE Starts(L, "vote") /\ IsAt(L, r, 1)
    <3>1. p = 1
      BY <2>2, PosOf, <1>1 DEF Starts
    <3>2. Len(L) > 1 => L[2].ops = {"hdr"}
      BY <2>2, <1>3, <1>1 DEF Follows, Starts
    <3> QED
      BY <3>1, <3>2, <1>4
  <2> QED
    BY <1>4, <2>1, <2>2 DEF Rested
<1>5. CASE Serving(L, ro, r, op)
  <2>1. PICK k \in 1 .. Len(L) :
           /\ IsAt(L, r, k) /\ L[k].ops = {"hdr"} /\ ro \in L[k].in
           /\ L[k].val[ro].op # "finalize"
           /\ op = IF L[k].val[ro].op = "split" THEN "split" ELSE "vote"
    BY <1>5 DEF Serving
  <2>2. p = k
    BY <2>1, PosOf
  <2>3. k < Len(L) => L[k + 1].ops = {op}
    <3>1. SUFFICES ASSUME k < Len(L) PROVE L[k + 1].ops = {op}
      OBVIOUS
    <3>2. k \in 1 .. 2
      <4>1. Len(L) \in 0 .. 3
        BY <1>1
      <4>2. k \in Int /\ 1 <= k
        BY <2>1
      <4>3. \A n \in 0 .. 3, j \in Int : 1 <= j /\ j < n => j \in 1 .. 2
        OBVIOUS
      <4> QED
        BY <4>1, <4>2, <4>3, <3>1
    <3>3. Served(L, ro, k)
      BY <3>1, <3>2, <1>3, <2>1 DEF Follows
    <3> QED
      BY <3>3, <2>1 DEF Served
  <2>4. k # 3
    <3>1. SUFFICES ASSUME k = 3 PROVE FALSE
      OBVIOUS
    <3>2. L[2].ops = {"hdr"}
      <4>1. L[2].in # M
        BY <1>1, <1>2, <3>1 DEF EntryOK
      <4>2. Follows(L, M, ro, 2)
        BY <1>1, <1>3, <3>1
      <4> QED
        BY <4>1, <4>2 DEF Follows
    <3>3. Served(L, ro, 2)
      BY <3>2, <1>1, <1>3, <3>1 DEF Follows
    <3>4. L[3].ops = {"split"} \/ L[3].ops = {"vote"}
      BY <3>3 DEF Served
    <3>5. {"hdr"} # {"split"} /\ {"hdr"} # {"vote"}
      OBVIOUS
    <3> QED
      BY <3>1, <3>4, <3>5, <2>1
  <2>5. p < Len(L) => L[p + 1].ops = {op}
    BY <2>2, <2>3
  <2>6. k \in 1 .. 2
    <3>1. Len(L) \in 0 .. 3 /\ k # 3
      BY <1>1, <2>4
    <3> QED
      BY <3>1, <2>1
  <2> QED
    BY <2>5, <2>6, <2>2
<1>6. CASE op = "vote" /\ Starts(L, "split") /\ IsAt(L, r, 1)
  <2>1. p = 1
    BY <1>6, PosOf, <1>1 DEF Starts
  <2>2. Len(L) > 1 => L[2].ops = {"vote"}
    BY <1>6, <1>3, <1>1 DEF Follows, Starts
  <2> QED
    BY <2>1, <2>2, <1>6
<1> QED
  BY <1>4, <1>5, <1>6 DEF CanEnter

LEMMA PutIs ==
  ASSUME NEW L, NEW M, NEW ro, Shape(L, M, ro), NEW r \in M, NEW op, NEW val,
         CanEnter(L, ro, r, op)
  PROVE  PutView(L, Put(L, r, op, val), r, op, val, Pos(L, r))
<1> DEFINE p == Pos(L, r)  K == Put(L, r, op, val)
<1>1. Len(L) \in 0 .. 3 /\ DOMAIN L = 1 .. Len(L) /\ p \in 0 .. Len(L) /\ Proper(L)
  BY ShapeLen, Positions DEF Shape
<1>2. \A k \in 1 .. Len(L) : r \in L[k].in <=> k <= p
  BY Positions
<1>3. p < Len(L) => L[p + 1].ops = {op}
  BY NextEntry
<1>4. CASE p = Len(L)
  <2> DEFINE e == Fresh(r, op, val)  A == {L[i] : i \in DOMAIN L} \cup {e}
  <2>1. K = Append(L, e)
    <3>1. p + 1 > Len(L)
      BY <1>1, <1>4
    <3> QED
      BY <3>1, Zenon DEF Put
  <2>2. L \in Seq(A)
    BY <1>1 DEF Proper
  <2>3. K \in Seq(A) /\ Len(K) = Len(L) + 1 /\ DOMAIN K = 1 .. Len(L) + 1
    BY <2>1, <2>2
  <2>4. K[p + 1] = e /\ \A k \in 1 .. Len(L) : K[k] = L[k]
    BY <2>1, <2>2, <1>4
  <2>5. Proper(K)
    <3>1. \A k \in 1 .. Len(K) : K[k] \in {K[i] : i \in DOMAIN K}
      BY <2>3
    <3> QED
      BY <2>3, <3>1 DEF Proper
  <2>6. e.ops = {op} /\ e.in = {r} /\ e.val[r] = val
    BY DEF Fresh
  <2> HIDE DEF K, e
  <2>7. \A k \in 1 .. Len(K) : k = p + 1 \/ (k \in 1 .. Len(L) /\ K[k] = L[k] /\ k # p + 1)
    BY <2>3, <2>4, <1>1, <1>4
  <2>8. \A k \in 1 .. Len(K) : K[k].ops = IF k = p + 1 THEN {op} ELSE L[k].ops
    BY <2>7, <2>4, <2>6
  <2>9. \A k \in 1 .. Len(K) : r \in K[k].in <=> k <= p + 1
    BY <2>7, <2>4, <2>6, <1>2, <1>1
  <2>10. \A k \in 1 .. Len(K) : \A s : s # r => (s \in K[k].in <=> (k <= Len(L) /\ s \in L[k].in))
    BY <2>7, <2>4, <2>6, <1>1, <1>4
  <2> QED
    BY <2>3, <2>4, <2>5, <2>6, <2>8, <2>9, <2>10, <1>4 DEF PutView, K
<1>5. CASE p # Len(L)
  <2> DEFINE e == With(L[p + 1], r, op, val)  A == {L[i] : i \in DOMAIN L} \cup {e}
  <2>1. p + 1 \in 1 .. Len(L)
    BY <1>1, <1>5
  <2>2. K = [L EXCEPT ![p + 1] = e]
    <3>1. ~ (p + 1 > Len(L))
      BY <2>1, <1>1
    <3> QED
      BY <3>1, Zenon DEF Put
  <2>3. L \in Seq(A) /\ e \in A
    BY <1>1 DEF Proper
  <2>4. K \in Seq(A) /\ Len(K) = Len(L) /\ DOMAIN K = 1 .. Len(L)
    BY <2>1, <2>2, <2>3
  <2>5. K[p + 1] = e /\ \A k \in 1 .. Len(L) : k # p + 1 => K[k] = L[k]
    BY <2>1, <2>2, <1>1
  <2>6. Proper(K)
    <3>1. \A k \in 1 .. Len(K) : K[k] \in {K[i] : i \in DOMAIN K}
      BY <2>4
    <3> QED
      BY <2>4, <3>1 DEF Proper
  <2>7. /\ e.ops = {op} /\ e.in = L[p + 1].in \cup {r} /\ e.val[r] = val
        /\ \A s \in L[p + 1].in : s # r => e.val[s] = L[p + 1].val[s]
    BY <1>3, <2>1, <1>1 DEF With
  <2>8. r \notin L[p + 1].in
    BY <1>2, <2>1, <1>1
  <2> HIDE DEF K, e
  <2>9. \A k \in 1 .. Len(K) : K[k].ops = IF k = p + 1 THEN {op} ELSE L[k].ops
    BY <2>4, <2>5, <2>7
  <2>10. \A k \in 1 .. Len(K) : r \in K[k].in <=> k <= p + 1
    BY <2>4, <2>5, <2>7, <1>2, <1>1
  <2>11. \A k \in 1 .. Len(K) : \A s : s # r => (s \in K[k].in <=> (k <= Len(L) /\ s \in L[k].in))
    BY <2>4, <2>5, <2>7, <1>1
  <2>12. \A k \in 1 .. Len(L) : \A s \in L[k].in : K[k].val[s] = L[k].val[s]
    BY <2>5, <2>7, <2>8
  <2> QED
    BY <2>4, <2>5, <2>6, <2>7, <2>9, <2>10, <2>11, <2>12, <1>5 DEF PutView, K
<1> QED
  BY <1>4, <1>5

(* What the log of c is before an entry everyone has gone past is dropped. *)
AlmostEntry(L, M, k) ==
  /\ \E op \in {"hdr", "vote", "split"} : L[k].ops = {op}
  /\ L[k].in \subseteq M
  /\ k = 1 /\ L[k].ops # {"hdr"} => L[k].in = M
  /\ k = 3 => L[k].in # M
Almost(L, M, ro) ==
  /\ Proper(L)
  /\ Len(L) <= 3
  /\ \A k \in 1 .. Len(L) : AlmostEntry(L, M, k)
  /\ \A k \in 1 .. 2 : k < Len(L) => Follows(L, M, ro, k)

(* What r enters is what follows the entry r is at.                        *)
LEMMA EnteredFollows ==
  ASSUME NEW L, NEW M, NEW ro, Shape(L, M, ro), NEW r \in M, NEW op, NEW val,
         CanEnter(L, ro, r, op), op = "hdr" => r = ro \/ r # ro,
         NEW K, NEW p, p = Pos(L, r), PutView(L, K, r, op, val, p), p > 0
  PROVE  Follows(K, M, ro, p)
<1>1. Len(L) \in 0 .. 3 /\ p \in 1 .. 2 /\ p <= Len(L)
  BY ShapeLen, Positions, NextEntry
<1>2. /\ p + 1 \in 1 .. Len(K) /\ p \in 1 .. Len(K)
      /\ K[p + 1].ops = {op} /\ K[p].ops = L[p].ops
      /\ p # p + 1
  BY <1>1 DEF PutView
<1>3. IsAt(L, r, p)
  BY PosIsAt, <1>1
<1>4. \A s : s \in K[p].in <=> s \in L[p].in
  <2>1. r \in K[p].in /\ r \in L[p].in
    BY <1>1, <1>2, <1>3 DEF PutView, IsAt
  <2>2. \A s : s # r => (s \in K[p].in <=> s \in L[p].in)
    BY <1>1, <1>2 DEF PutView
  <2> QED
    BY <2>1, <2>2
<1>5. L[p].ops \subseteq {"hdr", "vote", "split"} /\ L[p].in \subseteq M
  BY <1>1 DEF Shape, EntryOK
<1>6. p < Len(L) => Follows(L, M, ro, p)
  BY <1>1 DEF Shape
<1>7. K[p + 1].in \subseteq K[p].in
  <2>1. SUFFICES ASSUME NEW s \in K[p + 1].in, s # r PROVE s \in K[p].in
    BY <1>1, <1>2 DEF PutView
  <2>2. p + 1 <= Len(L) /\ s \in L[p + 1].in
    BY <2>1, <1>2 DEF PutView
  <2> QED
    BY <2>2, <1>1, <1>6, <1>4 DEF Follows
<1>8. \A s \in L[p].in : K[p].val[s] = L[p].val[s]
  BY <1>1 DEF PutView
<1>9. CASE op = "hdr" /\ Rested(L, r)
  <2>1. ~ IsOut(L, r)
    BY PosOut, <1>1
  <2>2. Starts(L, "vote") /\ IsAt(L, r, 1)
    BY <1>9, <2>1 DEF Rested
  <2>3. p = 1
    BY <2>2, PosOf, <1>1
  <2>4. L[1].ops = {"vote"} /\ L[1].in = M
    <3>1. L[1].ops = {"vote"} /\ EntryOK(L, M, 1)
      BY <2>2, <1>1 DEF Starts, Shape
    <3>2. {"vote"} # {"hdr"}
      OBVIOUS
    <3> QED
      BY <3>1, <3>2 DEF EntryOK
  <2>5. K[1].ops = {"vote"} /\ K[1].in = M /\ K[2].ops = {"hdr"}
    <3>1. \A s : s \in K[1].in <=> s \in L[1].in
      BY <2>3, <1>4
    <3>2. K[1].in = M
      BY <3>1, <2>4, SetExtensionality
    <3>3. K[1].ops = {"vote"}
      BY <2>3, <2>4, <1>2
    <3>4. K[2].ops = {"hdr"}
      BY <2>3, <1>2, <1>9
    <3> QED
      BY <3>2, <3>3, <3>4
  <2> QED
    BY <2>3, <2>5, <1>7 DEF Follows
<1>10. CASE Serving(L, ro, r, op)
  <2>1. PICK k \in 1 .. Len(L) :
           /\ IsAt(L, r, k) /\ L[k].ops = {"hdr"} /\ ro \in L[k].in
           /\ L[k].val[ro].op # "finalize"
           /\ op = IF L[k].val[ro].op = "split" THEN "split" ELSE "vote"
    BY <1>10 DEF Serving
  <2>2. p = k
    BY <2>1, PosOf
  <2>3. K[p].ops = {"hdr"} /\ ro \in K[p].in /\ K[p].val[ro] = L[p].val[ro]
    BY <2>1, <2>2, <1>2, <1>4, <1>8
  <2>4. Served(K, ro, p)
    BY <2>1, <2>2, <2>3, <1>2 DEF Served
  <2> QED
    BY <2>3, <2>4, <1>7 DEF Follows
<1>11. CASE op = "vote" /\ Starts(L, "split") /\ IsAt(L, r, 1)
  <2>1. p = 1
    BY <1>11, PosOf, <1>1
  <2>2. L[1].ops = {"split"} /\ L[1].in = M
    <3>1. L[1].ops = {"split"} /\ EntryOK(L, M, 1)
      BY <1>11, <1>1 DEF Starts, Shape
    <3>2. {"split"} # {"hdr"}
      OBVIOUS
    <3> QED
      BY <3>1, <3>2 DEF EntryOK
  <2>3. K[1].ops = {"split"} /\ K[1].in = M /\ K[2].ops = {"vote"}
    <3>1. \A s : s \in K[1].in <=> s \in L[1].in
      BY <2>1, <1>4
    <3>2. K[1].in = M
      BY <3>1, <2>2, SetExtensionality
    <3>3. K[1].ops = {"split"}
      BY <2>1, <2>2, <1>2
    <3>4. K[2].ops = {"vote"}
      BY <2>1, <1>2, <1>11
    <3> QED
      BY <3>2, <3>3, <3>4
  <2> QED
    BY <2>1, <2>3, <1>7 DEF Follows
<1> QED
  BY <1>9, <1>10, <1>11 DEF CanEnter

LEMMA PutShape ==
  ASSUME NEW L, NEW M, NEW ro, Shape(L, M, ro), NEW r \in M, NEW op, NEW val,
         CanEnter(L, ro, r, op), NEW K, PutView(L, K, r, op, val, Pos(L, r))
  PROVE  Almost(K, M, ro)
<1> DEFINE p == Pos(L, r)
<1>1. Len(L) \in 0 .. 3 /\ p \in 0 .. 2 /\ p <= Len(L)
  BY ShapeLen, Positions, NextEntry
<1>2. Len(K) \in 0 .. 3 /\ p + 1 \in 1 .. Len(K) /\ Len(K) >= Len(L)
  BY <1>1, ProperLen DEF PutView
<1>3. \A k \in 1 .. Len(L) : EntryOK(L, M, k)
  BY DEF Shape
<1>4. op \in {"hdr", "vote", "split"}
  BY DEF CanEnter, Serving
<1>5. ASSUME NEW k \in 1 .. Len(K) PROVE AlmostEntry(K, M, k)
  <2>1. k = p + 1 \/ (k \in 1 .. Len(L) /\ k # p + 1)
    BY <1>1, <1>2 DEF PutView
  <2>2. \E o \in {"hdr", "vote", "split"} : K[k].ops = {o}
    BY <2>1, <1>3, <1>4 DEF PutView, EntryOK
  <2>3. K[k].in \subseteq M
    <3>1. SUFFICES ASSUME NEW s \in K[k].in, s # r PROVE s \in M
      OBVIOUS
    <3>2. k \in 1 .. Len(L) /\ s \in L[k].in
      BY <3>1, <1>1 DEF PutView
    <3> QED
      BY <3>2, <1>3 DEF EntryOK
  <2>4. k = 1 /\ K[k].ops # {"hdr"} => K[k].in = M
    <3>1. SUFFICES ASSUME k = 1, K[k].ops # {"hdr"} PROVE K[k].in = M
      OBVIOUS
    <3>2. CASE p = 0
      <4>1. op # "hdr"
        BY <3>1, <3>2 DEF PutView
      <4>2. IsOut(L, r)
        BY <3>2, PosOut
      <4>3. \A j \in 1 .. Len(L) : ~ IsAt(L, r, j)
        BY <3>2, PosOf
      <4> QED
        BY <4>1, <4>3, <1>1 DEF CanEnter, Serving, Starts
    <3>3. CASE p > 0
      <4>1. 1 \in 1 .. Len(L) /\ 1 # p + 1
        BY <1>1, <3>3
      <4>2. K[1].ops = L[1].ops
        BY <4>1, <3>1 DEF PutView
      <4>3. L[1].in = M
        BY <4>1, <4>2, <3>1, <1>3 DEF EntryOK
      <4>4. \A s \in M : s \in K[1].in
        <5>1. r \in K[1].in
          BY <3>1, <1>1, <3>3 DEF PutView
        <5> QED
          BY <5>1, <4>1, <4>3, <3>1 DEF PutView
      <4> QED
        BY <4>4, <2>3, <3>1
    <3> QED
      BY <3>2, <3>3, <1>1
  <2>5. k = 3 => K[k].in # M
    <3>1. SUFFICES ASSUME k = 3, K[3].in = M PROVE FALSE
      OBVIOUS
    <3>2. CASE p = 2
      \* the second entry is not full, and r is in it already
      <4>1. 2 \in 1 .. Len(L) /\ L[2].in # M /\ L[2].in \subseteq M
        BY <3>2, <1>1, <1>3 DEF EntryOK
      <4>2. IsAt(L, r, 2)
        BY <3>2, PosIsAt
      <4>3. PICK s \in M : s \notin L[2].in
        BY <4>1
      <4>4. s # r
        BY <4>2, <4>3 DEF IsAt
      <4>5. 3 <= Len(L) /\ s \in L[3].in
        BY <3>1, <4>4 DEF PutView
      <4>6. Follows(L, M, ro, 2)
        BY <4>5, <1>1 DEF Shape
      <4> QED
        BY <4>3, <4>5, <4>6 DEF Follows
    <3>3. CASE p # 2
      <4>1. 3 > p + 1
        BY <1>1, <3>3
      <4>2. r \notin K[3].in
        BY <4>1, <3>1, <1>1 DEF PutView
      <4> QED
        BY <4>2, <3>1
    <3> QED
      BY <3>2, <3>3
  <2> QED
    BY <2>2, <2>3, <2>4, <2>5 DEF AlmostEntry
<1>6. ASSUME NEW k \in 1 .. 2, k < Len(K) PROVE Follows(K, M, ro, k)
  <2>1. k \in 1 .. Len(K) /\ k + 1 \in 1 .. Len(K)
    BY <1>2, <1>6
  <2>2. CASE k = p
    BY <2>2, <2>1, EnteredFollows
  <2>3. CASE k # p
    <3>1. k \in 1 .. Len(L) /\ k < Len(L)
      BY <2>1, <2>3, <1>1 DEF PutView
    <3>2. Follows(L, M, ro, k)
      BY <3>1 DEF Shape
    <3>3. k # p + 1 => K[k].ops = L[k].ops
      BY <2>1 DEF PutView
    <3>4. K[k + 1].ops = L[k + 1].ops
      BY <2>1, <2>3, <1>1 DEF PutView
    <3>5. k = p + 1 => K[k].ops = L[k].ops
      <4>1. p < Len(L) => L[p + 1].ops = {op}
        BY NextEntry
      <4>2. k = p + 1 => L[k].ops = {op}
        BY <4>1, <3>1, <1>1
      <4>3. k = p + 1 => K[k].ops = {op}
        BY <2>1 DEF PutView
      <4> QED
        BY <4>2, <4>3
    <3>6. \A s : s \in L[k].in => s \in K[k].in
      <4>1. \A s : s # r => (s \in K[k].in <=> (k <= Len(L) /\ s \in L[k].in))
        BY <2>1 DEF PutView
      <4>2. r \in L[k].in => k <= p
        BY Positions, <3>1, <1>1
      <4>3. r \in L[k].in => r \in K[k].in
        BY <4>2, <2>1, <1>1 DEF PutView
      <4> QED
        BY <4>1, <4>3, <3>1, <1>1
    <3>7. L[k].in = M => K[k].in = M
      <4>1. K[k].in \subseteq M
        BY <1>5, <2>1 DEF AlmostEntry
      <4> QED
        BY <3>6, <4>1
    <3>8. K[k + 1].in \subseteq K[k].in
      <4>1. SUFFICES ASSUME NEW s \in K[k + 1].in PROVE s \in K[k].in
        OBVIOUS
      <4>2. CASE s = r
        <5>1. k + 1 <= p + 1
          BY <4>2, <4>1, <2>1 DEF PutView
        <5> QED
          BY <5>1, <4>2, <2>1, <1>1 DEF PutView
      <4>3. CASE s # r
        BY <4>3, <4>1, <2>1, <3>2, <3>6 DEF PutView, Follows
      <4> QED
        BY <4>2, <4>3
    <3>9. \A s \in L[k].in : K[k].val[s] = L[k].val[s]
      BY <3>1, <1>1 DEF PutView
    <3>10. Served(L, ro, k) => Served(K, ro, k)
      BY <3>4, <3>6, <3>9 DEF Served
    <3>11. K[k].ops = L[k].ops
      BY <3>3, <3>5
    <3> QED
      BY <3>2, <3>4, <3>7, <3>8, <3>10, <3>11 DEF Follows
  <2> QED
    BY <2>2, <2>3
<1>7. Len(K) <= 3 /\ Proper(K)
  BY <1>2 DEF PutView
<1> QED
  BY <1>5, <1>6, <1>7 DEF Almost

LEMMA TailProper ==
  ASSUME NEW K, Proper(K), Len(K) > 1
  PROVE  /\ Len(Tail(K)) = Len(K) - 1 /\ Proper(Tail(K))
         /\ \A k \in 1 .. Len(K) - 1 : Tail(K)[k] = K[k + 1]
         /\ \A k \in 1 .. Len(Tail(K)) : Tail(K)[k] = K[k + 1]
<1> DEFINE A == {K[i] : i \in DOMAIN K}
<1>1. K \in Seq(A) /\ Len(K) \in Nat /\ Len(K) > 1
  BY ProperLen DEF Proper
<1> HIDE DEF A
<1>2. K # <<>>
  BY <1>1
<1>3. /\ Tail(K) \in Seq(A) /\ Len(Tail(K)) = Len(K) - 1
      /\ \A k \in 1 .. Len(K) - 1 : Tail(K)[k] = K[k + 1]
  BY <1>1, <1>2
<1>4. Proper(Tail(K))
  <2>1. SUFFICES ASSUME NEW T, T = Tail(K) PROVE Proper(T)
    OBVIOUS
  <2>2. T \in Seq(A)
    BY <1>3, <2>1
  <2>3. \A k \in 1 .. Len(T) : T[k] \in {T[i] : i \in DOMAIN T}
    BY <2>2
  <2> QED
    BY <2>2, <2>3 DEF Proper
<1> QED
  BY <1>3, <1>4

LEMMA TrimShape ==
  ASSUME NEW K, NEW M, NEW ro, Almost(K, M, ro)
  PROVE  Shape(Trimmed(K, M), M, ro)
<1>1. Len(K) \in 0 .. 3 /\ Proper(K) /\ DOMAIN K = 1 .. Len(K)
  <2>1. Proper(K) /\ Len(K) <= 3
    BY DEF Almost
  <2>2. Len(K) \in Nat /\ DOMAIN K = 1 .. Len(K)
    BY <2>1, ProperLen
  <2> QED
    BY <2>1, <2>2
<1>2. \A k \in 1 .. Len(K) : AlmostEntry(K, M, k)
  BY DEF Almost
<1>3. \A k \in 1 .. 2 : k < Len(K) => Follows(K, M, ro, k)
  BY DEF Almost
<1>4. CASE Len(K) > 1 /\ M = K[2].in
  <2> DEFINE T == Tail(K)
  <2>1. Trimmed(K, M) = T
    BY <1>4, Zenon DEF Trimmed
  <2>2. /\ Len(T) = Len(K) - 1 /\ Proper(T)
        /\ \A k \in 1 .. Len(T) : T[k] = K[k + 1]
    BY <1>1, <1>4, TailProper
  <2>3. Len(T) \in 1 .. 2
    BY <2>2, <1>1, <1>4
  <2> HIDE DEF T
  <2>4. \A k \in 1 .. Len(T) : EntryOK(T, M, k)
    <3>1. SUFFICES ASSUME NEW k \in 1 .. Len(T) PROVE EntryOK(T, M, k)
      OBVIOUS
    <3>2. T[k] = K[k + 1] /\ k + 1 \in 1 .. Len(K) /\ AlmostEntry(K, M, k + 1)
      BY <3>1, <2>2, <2>3, <1>2, <1>1
    <3>3. k = 2 => T[k].in # M
      BY <3>2 DEF AlmostEntry
    <3>4. k = 1 => T[k].in = M
      BY <3>2, <1>4
    <3> QED
      BY <3>2, <3>3, <3>4 DEF EntryOK, AlmostEntry
  <2>5. Len(T) > 1 => Follows(T, M, ro, 1)
    <3>1. SUFFICES ASSUME Len(T) > 1 PROVE Follows(T, M, ro, 1)
      OBVIOUS
    <3>2. T[1] = K[2] /\ T[2] = K[3] /\ Follows(K, M, ro, 2)
      BY <3>1, <2>2, <2>3, <1>1, <1>3
    <3> QED
      BY <3>2 DEF Follows, Served
  <2>6. ASSUME NEW k \in 1 .. 2, k < Len(T) PROVE Follows(T, M, ro, k)
    <3>1. k = 1 /\ Len(T) > 1
      BY <2>3, <2>6
    <3> QED
      BY <2>5, <3>1
  <2>7. Len(T) <= 3
    <3>1. \A n \in 1 .. 2 : n <= 3
      OBVIOUS
    <3> QED
      BY <2>3, <3>1
  <2> QED
    BY <2>1, <2>2, <2>4, <2>6, <2>7 DEF Shape
<1>5. CASE ~ (Len(K) > 1 /\ M = K[2].in)
  <2>1. Trimmed(K, M) = K
    BY <1>5, Zenon DEF Trimmed
  <2>2. \A k \in 1 .. Len(K) : EntryOK(K, M, k)
    <3>1. SUFFICES ASSUME NEW k \in 1 .. Len(K) PROVE EntryOK(K, M, k)
      OBVIOUS
    <3>2. k = 2 => K[k].in # M
      BY <1>5, <1>1
    <3> QED
      BY <3>2, <1>2 DEF EntryOK, AlmostEntry
  <2> QED
    BY <2>1, <2>2, <1>1, <1>3 DEF Shape
<1> QED
  BY <1>4, <1>5

(* The log after r has entered: what was true of the others still is.      *)
LEMMA EnterShape ==
  ASSUME NEW L, NEW M, NEW ro, Shape(L, M, ro), NEW r \in M, NEW op, NEW val,
         CanEnter(L, ro, r, op)
  PROVE  Shape(Entered(L, M, r, op, val), M, ro)
BY PutIs, PutShape, TrimShape DEF Entered

(* Dropping the first entry when everyone is in the second loses nothing.  *)
TrimView(K, T, M) ==
  \/ T = K /\ ~ (Len(K) > 1 /\ M = K[2].in)
  \/ /\ Len(K) > 1 /\ K[2].in = M
     /\ Len(T) = Len(K) - 1
     /\ \A k \in 1 .. Len(T) : T[k] = K[k + 1]

(* Where every rank is once r has entered.                                 *)
AtView(L, K, r, op) ==
  /\ Pos(L, r) + 1 \in 1 .. Len(K) /\ IsAt(K, r, Pos(L, r) + 1)
  /\ K[Pos(L, r) + 1].ops = {op}
  /\ Len(L) <= Len(K) /\ Len(K) \in 1 .. 3
  /\ \A s : s # r => \A k \in 1 .. Len(K) : IsAt(K, s, k) <=> (k <= Len(L) /\ IsAt(L, s, k))
  /\ \A k \in 1 .. Len(L) : K[k].ops = L[k].ops

LEMMA PutAt ==
  ASSUME NEW L, NEW M, NEW ro, Shape(L, M, ro), NEW r \in M, NEW op, NEW val,
         CanEnter(L, ro, r, op), NEW K, PutView(L, K, r, op, val, Pos(L, r))
  PROVE  AtView(L, K, r, op)
<1> DEFINE p == Pos(L, r)
<1>1. Len(L) \in 0 .. 3 /\ p \in 0 .. 2 /\ p <= Len(L)
  BY ShapeLen, Positions, NextEntry
<1>2. Len(K) \in 1 .. 3 /\ p + 1 \in 1 .. Len(K) /\ Len(K) >= Len(L)
  BY <1>1, PutShape DEF PutView
<1>3. IsAt(K, r, p + 1)
  <2>1. r \in K[p + 1].in
    BY <1>1, <1>2 DEF PutView
  <2>2. p + 1 < Len(K) => r \notin K[p + 1 + 1].in
    <3>1. SUFFICES ASSUME p + 1 < Len(K) PROVE r \notin K[p + 2].in
      BY <1>1
    <3>2. p + 2 \in 1 .. Len(K) /\ ~ (p + 2 <= p + 1)
      BY <3>1, <1>1, <1>2
    <3> QED
      BY <3>2 DEF PutView
  <2> QED
    BY <2>1, <2>2 DEF IsAt
<1>4. K[p + 1].ops = {op}
  BY <1>2 DEF PutView
<1>5. ASSUME NEW s, s # r, NEW k \in 1 .. Len(K)
      PROVE  IsAt(K, s, k) <=> (k <= Len(L) /\ IsAt(L, s, k))
  <2>1. s \in K[k].in <=> (k <= Len(L) /\ s \in L[k].in)
    BY <1>5 DEF PutView
  <2>2. k < Len(K) => (s \in K[k + 1].in <=> (k + 1 <= Len(L) /\ s \in L[k + 1].in))
    <3>1. SUFFICES ASSUME k < Len(K)
          PROVE  s \in K[k + 1].in <=> (k + 1 <= Len(L) /\ s \in L[k + 1].in)
      OBVIOUS
    <3>2. k + 1 \in 1 .. Len(K)
      BY <3>1, <1>2, <1>5
    <3> QED
      BY <3>2, <1>5 DEF PutView
  <2>3. k + 1 <= Len(L) <=> k < Len(L)
    BY <1>1, <1>2, <1>5
  <2>4. k < Len(L) => k < Len(K)
    BY <1>1, <1>2, <1>5
  <2> QED
    BY <2>1, <2>2, <2>3, <2>4 DEF IsAt
<1>6. ASSUME NEW k \in 1 .. Len(L) PROVE K[k].ops = L[k].ops
  <2>1. k \in 1 .. Len(K)
    BY <1>6, <1>1, <1>2
  <2>2. k = p + 1 => L[k].ops = {op}
    BY <1>6, <1>1, NextEntry
  <2> QED
    BY <2>1, <2>2 DEF PutView
<1> QED
  BY <1>2, <1>3, <1>4, <1>5, <1>6 DEF AtView

LEMMA PutPlaces ==
  ASSUME NEW L, NEW M, NEW ro, Shape(L, M, ro), NEW r \in M, NEW op, NEW val,
         CanEnter(L, ro, r, op), NEW K, PutView(L, K, r, op, val, Pos(L, r))
  PROVE  /\ InOp(K, r, op)
         /\ \A s : s # r => /\ \A o : InOp(K, s, o) <=> InOp(L, s, o)
                            /\ IsOut(K, s) <=> IsOut(L, s)
                            /\ Rested(L, s) => Rested(K, s)
<1>1. AtView(L, K, r, op)
  BY PutAt
<1>2. /\ Pos(L, r) + 1 \in 1 .. Len(K) /\ IsAt(K, r, Pos(L, r) + 1)
      /\ K[Pos(L, r) + 1].ops = {op}
      /\ Len(L) <= Len(K) /\ Len(K) \in 1 .. 3
      /\ \A s : s # r => \A k \in 1 .. Len(K) : IsAt(K, s, k) <=> (k <= Len(L) /\ IsAt(L, s, k))
      /\ \A k \in 1 .. Len(L) : K[k].ops = L[k].ops
  BY <1>1 DEF AtView
<1>3. Len(L) \in 0 .. 3
  BY ShapeLen
<1>4. InOp(K, r, op)
  BY <1>2 DEF InOp
<1>5. ASSUME NEW s, s # r
      PROVE  /\ \A o : InOp(K, s, o) <=> InOp(L, s, o)
             /\ IsOut(K, s) <=> IsOut(L, s)
             /\ Rested(L, s) => Rested(K, s)
  <2>1. \A k \in 1 .. Len(K) : IsAt(K, s, k) => k \in 1 .. Len(L) /\ IsAt(L, s, k)
    BY <1>2, <1>3, <1>5
  <2>2. \A k \in 1 .. Len(L) : IsAt(L, s, k) => k \in 1 .. Len(K) /\ IsAt(K, s, k)
    BY <1>2, <1>3, <1>5
  <2>3. \A o : InOp(K, s, o) <=> InOp(L, s, o)
    BY <2>1, <2>2, <1>2 DEF InOp
  <2>4. s \in K[1].in <=> (1 <= Len(L) /\ s \in L[1].in)
    BY <1>2, <1>5 DEF PutView
  <2>5. IsOut(K, s) <=> IsOut(L, s)
    BY <2>4, <1>2, <1>3 DEF IsOut
  <2>6. Starts(L, "vote") => Starts(K, "vote")
    BY <1>2, <1>3 DEF Starts
  <2>7. Starts(L, "vote") /\ IsAt(L, s, 1) => IsAt(K, s, 1)
    BY <2>2, <1>3 DEF Starts
  <2> QED
    BY <2>3, <2>5, <2>6, <2>7 DEF Rested
<1> QED
  BY <1>4, <1>5

LEMMA PutOwing ==
  ASSUME NEW L, NEW M, NEW ro, Shape(L, M, ro), NEW r \in M, NEW op, NEW val,
         CanEnter(L, ro, r, op), NEW K, PutView(L, K, r, op, val, Pos(L, r)),
         r # ro \/ op # "hdr"
  PROVE  /\ \A s : s # r => (Owing(K, ro, s) <=> Owing(L, ro, s))
         /\ op = "hdr" => (Owing(K, ro, r) <=> Owing(L, ro, r))
         /\ op # "hdr" => ~ Owing(K, ro, r)
<1> DEFINE p == Pos(L, r)
<1>1. AtView(L, K, r, op)
  BY PutAt
<1>2. /\ Len(L) \in 0 .. 3 /\ Len(K) \in 1 .. 3 /\ Len(L) <= Len(K)
      /\ p \in 0 .. 2 /\ p <= Len(L) /\ p + 1 \in 1 .. Len(K)
  BY <1>1, ShapeLen, Positions, NextEntry DEF AtView
<1>3. \A k \in 1 .. Len(L) : K[k].ops = L[k].ops
  BY <1>1 DEF AtView
<1>4. \A k \in 1 .. Len(K) : k \notin 1 .. Len(L) => k = p + 1 /\ p = Len(L)
  BY <1>2 DEF PutView
\* the headers the root is in are the same
<1>5. \A k \in 1 .. Len(K) :
        (K[k].ops = {"hdr"} /\ ro \in K[k].in) <=>
        (k \in 1 .. Len(L) /\ L[k].ops = {"hdr"} /\ ro \in L[k].in)
  <2>1. SUFFICES ASSUME NEW k \in 1 .. Len(K), K[k].ops = {"hdr"} \/ k \in 1 .. Len(L)
        PROVE  (K[k].ops = {"hdr"} /\ ro \in K[k].in) <=>
               (k \in 1 .. Len(L) /\ L[k].ops = {"hdr"} /\ ro \in L[k].in)
    OBVIOUS
  <2>2. CASE r # ro
    <3>1. ro \in K[k].in <=> (k <= Len(L) /\ ro \in L[k].in)
      BY <2>2 DEF PutView
    <3> QED
      BY <3>1, <1>3, <1>2, <2>1
  <2>3. CASE r = ro
    <3>1. ro \in K[k].in <=> k <= p + 1
      BY <2>3 DEF PutView
    <3>2. op # "hdr" /\ {op} # {"hdr"}
      BY <2>3
    <3>3. K[k].ops = {"hdr"} => k # p + 1
      BY <1>1, <3>2 DEF AtView
    <3>4. k \in 1 .. Len(L) => (ro \in L[k].in <=> k <= p)
      BY <2>3, Positions
    <3>5. k # p + 1 => k \in 1 .. Len(L)
      BY <1>4
    <3>6. k <= p + 1 /\ k # p + 1 <=> k <= p
      BY <1>2
    <3>7. k \in 1 .. Len(L) => K[k].ops = L[k].ops
      BY <1>3
    <3> QED
      BY <3>1, <3>3, <3>4, <3>5, <3>6, <3>7, <1>2
  <2> QED
    BY <2>2, <2>3
<1>6. ASSUME NEW s, s # r, NEW k \in 1 .. Len(L), L[k].ops = {"hdr"}, ro \in L[k].in
      PROVE  OwesAt(K, ro, s, k) <=> OwesAt(L, ro, s, k)
  <2>1. k \in 1 .. Len(K)
    BY <1>2, <1>6
  <2>2. K[k].ops = {"hdr"} /\ ro \in K[k].in
    BY <2>1, <1>5, <1>6
  <2>3. k < Len(K) => (s \in K[k + 1].in <=> (k + 1 <= Len(L) /\ s \in L[k + 1].in))
    <3>1. SUFFICES ASSUME k < Len(K)
          PROVE  s \in K[k + 1].in <=> (k + 1 <= Len(L) /\ s \in L[k + 1].in)
      OBVIOUS
    <3>2. k + 1 \in 1 .. Len(K)
      BY <3>1, <1>2, <2>1
    <3> QED
      BY <3>2, <1>6 DEF PutView
  <2>4. (k + 1 <= Len(L) <=> k < Len(L)) /\ (k < Len(L) => k < Len(K))
    BY <1>2, <1>6
  <2> QED
    BY <2>2, <2>3, <2>4, <1>6 DEF OwesAt
<1>7. ASSUME NEW s, s # r PROVE Owing(K, ro, s) <=> Owing(L, ro, s)
  <2>1. Owing(K, ro, s) => Owing(L, ro, s)
    <3>1. SUFFICES ASSUME NEW k \in 1 .. Len(K), OwesAt(K, ro, s, k) PROVE Owing(L, ro, s)
      BY DEF Owing
    <3>2. k \in 1 .. Len(L) /\ L[k].ops = {"hdr"} /\ ro \in L[k].in
      BY <3>1, <1>5 DEF OwesAt
    <3> QED
      BY <3>1, <3>2, <1>6, <1>7 DEF Owing
  <2>2. Owing(L, ro, s) => Owing(K, ro, s)
    <3>1. SUFFICES ASSUME NEW k \in 1 .. Len(L), OwesAt(L, ro, s, k) PROVE Owing(K, ro, s)
      BY DEF Owing
    <3>2. k \in 1 .. Len(K) /\ L[k].ops = {"hdr"} /\ ro \in L[k].in
      BY <3>1, <1>2 DEF OwesAt
    <3> QED
      BY <3>1, <3>2, <1>6, <1>7 DEF Owing
  <2> QED
    BY <2>1, <2>2
<1>8. ASSUME op = "hdr" PROVE Owing(K, ro, r) <=> Owing(L, ro, r)
  <2>1. r # ro
    BY <1>8
  <2>2. ~ Serving(L, ro, r, op) /\ op # "vote"
    BY <1>8 DEF Serving
  <2>3. Rested(L, r)
    BY <2>2 DEF CanEnter
  <2>4. p = 0 \/ (p = 1 /\ L[1].ops = {"vote"} /\ Len(L) > 0)
    BY <2>3, PosOut, PosOf, <1>2 DEF Rested, Starts
  <2>5. \A k \in 1 .. Len(L) : L[k].ops = {"hdr"} => k >= p + 1
    <3>1. {"vote"} # {"hdr"}
      OBVIOUS
    <3>2. SUFFICES ASSUME NEW k \in 1 .. Len(L), L[k].ops = {"hdr"} PROVE k >= p + 1
      OBVIOUS
    <3>3. k \in Nat /\ k >= 1
      BY <1>2
    <3>4. CASE p = 0
      BY <3>3, <3>4
    <3>5. CASE p = 1 /\ L[1].ops = {"vote"}
      <4>1. k # 1
        BY <3>1, <3>2, <3>5
      <4> QED
        BY <3>3, <3>5, <4>1
    <3> QED
      BY <2>4, <3>4, <3>5
  <2>6. ASSUME NEW k \in 1 .. Len(L), k >= p + 1
        PROVE  /\ k < Len(L) => r \notin L[k + 1].in
               /\ k < Len(K) => r \notin K[k + 1].in
    <3>1. k < Len(L) => r \notin L[k + 1].in
      <4>1. k < Len(L) => k + 1 \in 1 .. Len(L) /\ ~ (k + 1 <= p)
        BY <2>6, <1>2
      <4> QED
        BY <4>1, Positions
    <3>2. k < Len(K) => r \notin K[k + 1].in
      <4>1. k < Len(K) => k + 1 \in 1 .. Len(K) /\ ~ (k + 1 <= p + 1)
        BY <2>6, <1>2
      <4> QED
        BY <4>1 DEF PutView
    <3> QED
      BY <3>1, <3>2
  <2>7. ASSUME NEW k \in 1 .. Len(L) PROVE OwesAt(K, ro, r, k) <=> OwesAt(L, ro, r, k)
    <3>1. k \in 1 .. Len(K)
      BY <2>7, <1>2
    <3>2. (K[k].ops = {"hdr"} /\ ro \in K[k].in) <=> (L[k].ops = {"hdr"} /\ ro \in L[k].in)
      BY <3>1, <1>5, <2>7
    <3> QED
      BY <3>2, <2>5, <2>6, <2>7 DEF OwesAt
  <2>8. \A k \in 1 .. Len(K) : OwesAt(K, ro, r, k) => k \in 1 .. Len(L)
    BY <1>5 DEF OwesAt
  <2>9. \A k \in 1 .. Len(L) : k \in 1 .. Len(K)
    BY <1>2
  <2> QED
    BY <2>7, <2>8, <2>9 DEF Owing
<1>9. ASSUME op # "hdr" PROVE ~ Owing(K, ro, r)
  <2>1. SUFFICES ASSUME NEW k \in 1 .. Len(K), OwesAt(K, ro, r, k) PROVE FALSE
    BY DEF Owing
  <2>2. k \in 1 .. Len(L) /\ L[k].ops = {"hdr"} /\ ro \in L[k].in
    BY <2>1, <1>5 DEF OwesAt
  <2>3. k >= p + 1
    <3>1. SUFFICES ASSUME k < p + 1 PROVE FALSE
      BY <1>2, <2>1
    <3>2. k < Len(K) /\ k + 1 \in 1 .. Len(K) /\ k + 1 <= p + 1
      BY <3>1, <1>2, <2>1
    <3> QED
      BY <3>2, <2>1 DEF OwesAt, PutView
  <2>4. k # p + 1
    <3>1. {op} # {"hdr"}
      BY <1>9
    <3> QED
      BY <3>1, <2>2, <1>1, <1>3, <1>2 DEF AtView
  <2>5. k >= p + 2 /\ p + 1 \in 1 .. Len(L) /\ p + 1 < Len(L)
    BY <2>2, <2>3, <2>4, <1>2
  <2>6. L[p + 1].ops = {op}
    BY <2>5, <1>2, NextEntry
  <2>7. r \notin L[p + 1].in
    BY <2>5, Positions, <1>2
  <2>8. Follows(L, M, ro, p + 1)
    BY <2>5, <1>2 DEF Shape
  <2>9. L[p + 1].in = M
    BY <2>6, <2>8, <1>9 DEF Follows
  <2> QED
    BY <2>7, <2>9
<1> QED
  BY <1>7, <1>8, <1>9

LEMMA PutSent ==
  ASSUME NEW L, NEW M, NEW ro, Shape(L, M, ro), NEW r \in M, NEW op, NEW val,
         CanEnter(L, ro, r, op), NEW K, PutView(L, K, r, op, val, Pos(L, r)),
         r # ro \/ op # "hdr", NEW q, Sent(L, ro, q)
  PROVE  Sent(K, ro, q)
<1> DEFINE p == Pos(L, r)
<1>1. AtView(L, K, r, op)
  BY PutAt
<1>2. /\ Len(L) \in 0 .. 3 /\ Len(K) \in 1 .. 3 /\ Len(L) <= Len(K)
      /\ p \in 0 .. 2 /\ p <= Len(L) /\ p + 1 \in 1 .. Len(K)
  BY <1>1, ShapeLen, Positions, NextEntry DEF AtView
<1>3. SUFFICES ASSUME NEW k \in 1 .. Len(K), K[k].ops = {"hdr"}, ro \in K[k].in
      PROVE  K[k].val[ro] = q
  BY DEF Sent
<1>4. k \in 1 .. Len(L) /\ ro \in L[k].in
  <2>1. CASE r # ro
    BY <2>1, <1>2, <1>3 DEF PutView
  <2>2. CASE r = ro
    <3>1. {op} # {"hdr"}
      BY <2>2
    <3>2. k # p + 1
      BY <3>1, <1>1, <1>3 DEF AtView
    <3>3. k <= p + 1
      BY <2>2, <1>3 DEF PutView
    <3>4. k \in 1 .. Len(L) /\ k <= p
      BY <3>2, <3>3, <1>2
    <3> QED
      BY <3>4, <2>2, Positions
  <2> QED
    BY <2>1, <2>2
<1>5. L[k].ops = {"hdr"}
  BY <1>1, <1>3, <1>4 DEF AtView
<1>6. K[k].val[ro] = L[k].val[ro]
  BY <1>4 DEF PutView
<1> QED
  BY <1>4, <1>5, <1>6 DEF Sent

(* Only a header comes after a vote, and only a vote after a split.        *)
LEMMA StartsFacts ==
  ASSUME NEW L, NEW M, NEW ro, Shape(L, M, ro)
  PROVE  /\ Starts(L, "split") => /\ L[1].in = M
                                  /\ \A k \in 1 .. Len(L) : L[k].ops # {"hdr"}
                                  /\ Len(L) \in 1 .. 2
                                  /\ Len(L) > 1 => L[2].ops = {"vote"}
                                  /\ \A s : ~ Owing(L, ro, s)
         /\ Starts(L, "vote") => L[1].in = M /\ (Len(L) > 1 => L[2].ops = {"hdr"})
<1>1. Len(L) \in 0 .. 3
  BY ShapeLen
<1>2. {"split"} # {"hdr"} /\ {"vote"} # {"hdr"}
  OBVIOUS
<1>3. Len(L) > 0 => EntryOK(L, M, 1)
  BY <1>1 DEF Shape
<1>4. \A k \in 1 .. 2 : k < Len(L) => Follows(L, M, ro, k)
  BY DEF Shape
<1>5. ASSUME Starts(L, "vote")
      PROVE  L[1].in = M /\ (Len(L) > 1 => L[2].ops = {"hdr"})
  BY <1>1, <1>2, <1>3, <1>4, <1>5 DEF Starts, EntryOK, Follows
<1>6. ASSUME Starts(L, "split")
      PROVE  /\ L[1].in = M
             /\ \A k \in 1 .. Len(L) : L[k].ops # {"hdr"}
             /\ Len(L) \in 1 .. 2
             /\ Len(L) > 1 => L[2].ops = {"vote"}
             /\ \A s : ~ Owing(L, ro, s)
  <2>1. L[1].in = M /\ L[1].ops = {"split"} /\ Len(L) > 0
    BY <1>2, <1>3, <1>6 DEF Starts, EntryOK
  <2>2. Len(L) > 1 => L[2].ops = {"vote"}
    BY <2>1, <1>4 DEF Follows
  <2>3. Len(L) # 3
    <3>1. SUFFICES ASSUME Len(L) = 3 PROVE FALSE
      OBVIOUS
    <3>2. EntryOK(L, M, 2) /\ Follows(L, M, ro, 2) /\ L[2].ops = {"vote"}
      BY <3>1, <2>2, <1>4 DEF Shape
    <3> QED
      BY <3>2, <1>2 DEF EntryOK, Follows
  <2>4. Len(L) \in 1 .. 2
    BY <1>1, <2>1, <2>3
  <2>5. \A k \in 1 .. Len(L) : L[k].ops # {"hdr"}
    BY <1>2, <2>1, <2>2, <2>4
  <2>6. \A s : ~ Owing(L, ro, s)
    BY <2>5 DEF Owing, OwesAt
  <2> QED
    BY <2>1, <2>2, <2>4, <2>5, <2>6
<1> QED
  BY <1>5, <1>6

(* The root at rest has sent nothing, and puts a new request before all.   *)
LEMMA RestedRoot ==
  ASSUME NEW L, NEW M, NEW ro \in M, Shape(L, M, ro), Rested(L, ro)
  PROVE  /\ \A k \in 1 .. Len(L) : L[k].ops = {"hdr"} => ro \notin L[k].in
         /\ Len(L) \in 0 .. 2 /\ \A s : ~ Owing(L, ro, s)
         /\ Len(L) = 2 => L[1].ops = {"vote"}
         /\ Len(L) > 0 => Starts(L, "vote") \/ L[1].ops = {"hdr"}
<1>1. Len(L) \in 0 .. 3
  BY ShapeLen
<1>2. {"split"} # {"hdr"} /\ {"vote"} # {"hdr"}
  OBVIOUS
<1>3. Pos(L, ro) = 0 \/ (Pos(L, ro) = 1 /\ Starts(L, "vote"))
  BY PosOut, PosOf DEF Rested, Starts
<1>4. \A k \in 1 .. Len(L) : ro \in L[k].in <=> k <= Pos(L, ro)
  BY Positions
<1>5. ASSUME NEW k \in 1 .. Len(L), L[k].ops = {"hdr"} PROVE ro \notin L[k].in
  BY <1>1, <1>2, <1>3, <1>4, <1>5 DEF Starts
<1>6. \A s : ~ Owing(L, ro, s)
  BY <1>5 DEF Owing, OwesAt
<1>7. Len(L) > 0 => Starts(L, "vote") \/ L[1].ops = {"hdr"}
  <2>1. SUFFICES ASSUME Len(L) > 0, Pos(L, ro) = 0 PROVE L[1].ops = {"hdr"}
    BY <1>3
  <2>2. 1 \in 1 .. Len(L) /\ EntryOK(L, M, 1)
    BY <2>1, <1>1 DEF Shape
  <2>3. ro \notin L[1].in
    BY <2>1, <2>2, <1>4
  <2> QED
    BY <2>2, <2>3 DEF EntryOK
<1>8. \A k \in 1 .. 2 : k < Len(L) => Follows(L, M, ro, k)
  BY DEF Shape
<1>9. Len(L) > 1 => Starts(L, "vote")
  <2>1. SUFFICES ASSUME Len(L) > 1, L[1].ops = {"hdr"} PROVE FALSE
    BY <1>7, <1>1
  <2>2. Served(L, ro, 1)
    BY <2>1, <1>8 DEF Follows
  <2> QED
    BY <2>1, <2>2, <1>5, <1>1 DEF Served
<1>10. Len(L) # 3
  <2>1. SUFFICES ASSUME Len(L) = 3 PROVE FALSE
    OBVIOUS
  <2>2. L[2].ops = {"hdr"} /\ Follows(L, M, ro, 2)
    BY <2>1, <1>9, <1>8, StartsFacts
  <2> QED
    BY <2>1, <2>2, <1>5 DEF Follows, Served
<1> QED
  BY <1>1, <1>5, <1>6, <1>7, <1>9, <1>10 DEF Starts

LEMMA PutRequest ==
  ASSUME NEW L, NEW M, NEW ro \in M, Shape(L, M, ro), Rested(L, ro), NEW val,
         NEW K, PutView(L, K, ro, "hdr", val, Pos(L, ro))
  PROVE  /\ Sent(K, ro, val) /\ \A s \in M : Owing(K, ro, s)
         /\ \A b : Ballots(K, ro, b)
         /\ ~ Starts(K, "split")
<1> DEFINE p == Pos(L, ro)
<1>1. CanEnter(L, ro, ro, "hdr")
  BY DEF CanEnter
<1>2. AtView(L, K, ro, "hdr")
  BY <1>1, PutAt
<1>3. /\ Len(L) \in 0 .. 2 /\ Len(K) \in 1 .. 3
      /\ p \in 0 .. 2 /\ p <= Len(L) /\ p + 1 \in 1 .. Len(K)
      /\ Len(K) = IF p = Len(L) THEN Len(L) + 1 ELSE Len(L)
  BY <1>1, <1>2, RestedRoot, Positions, NextEntry DEF AtView, PutView
<1>4. p = 0 \/ (p = 1 /\ Starts(L, "vote"))
  BY PosOut, PosOf DEF Rested, Starts
<1>5. Len(K) = p + 1
  <2>1. Len(L) = 2 => Starts(L, "vote")
    BY RestedRoot DEF Starts
  <2>2. Starts(L, "vote") => ro \in L[1].in /\ Len(L) > 0
    BY StartsFacts DEF Starts
  <2>3. Starts(L, "vote") => p # 0
    BY <2>2, Positions, <1>3
  <2>4. CASE p = 0
    <3>1. Len(L) # 2
      BY <2>1, <2>3, <2>4
    <3> QED
      BY <3>1, <2>4, <1>3
  <2>5. CASE p = 1
    <3>1. Len(L) = 1 \/ Len(L) = 2
      BY <2>5, <1>3
    <3>2. Len(L) = 1 => Len(K) = 2
      BY <2>5, <1>3
    <3>3. Len(L) = 2 => Len(K) = 2
      BY <2>5, <1>3
    <3> QED
      BY <3>1, <3>2, <3>3, <2>5
  <2> QED
    BY <1>4, <2>4, <2>5
<1>6. /\ \A k \in 1 .. Len(K) : ro \in K[k].in <=> k <= p + 1
      /\ K[p + 1].val[ro] = val /\ K[p + 1].ops = {"hdr"}
  BY <1>2 DEF PutView, AtView
<1>7. p = 1 => K[1].ops = {"vote"}
  BY <1>2, <1>3, <1>4 DEF AtView, Starts
<1>8. {"vote"} # {"hdr"} /\ {"split"} # {"hdr"} /\ {"split"} # {"vote"}
  OBVIOUS
<1>9. \A k \in 1 .. Len(K) : k = p + 1 \/ (k = 1 /\ p = 1)
  BY <1>3, <1>4, <1>5
<1>10. Sent(K, ro, val)
  BY <1>6, <1>7, <1>8, <1>9 DEF Sent
<1>11. ASSUME NEW s \in M PROVE Owing(K, ro, s)
  <2>1. OwesAt(K, ro, s, p + 1)
    BY <1>3, <1>5, <1>6 DEF OwesAt
  <2> QED
    BY <2>1, <1>3 DEF Owing
<1>12. ASSUME NEW b PROVE Ballots(K, ro, b)
  <2>1. SUFFICES ASSUME NEW k \in 1 .. Len(K), K[k].ops = {"vote"},
                        k < Len(K) => ro \notin K[k + 1].in
        PROVE  FALSE
    BY DEF Ballots
  <2>2. k = 1 /\ p = 1
    BY <2>1, <1>6, <1>8, <1>9
  <2>3. ro \in K[2].in /\ Len(K) = 2
    BY <2>2, <1>5, <1>6
  <2> QED
    BY <2>1, <2>2, <2>3
<1>13. ~ Starts(K, "split")
  <2>1. K[1].ops = {"hdr"} \/ K[1].ops = {"vote"}
    BY <1>4, <1>6, <1>7
  <2> QED
    BY <2>1, <1>8 DEF Starts
<1> QED
  BY <1>10, <1>11, <1>12, <1>13

(* Which votes count: those after which the root has entered nothing.      *)
LEMMA PutBallots ==
  ASSUME NEW L, NEW M, NEW ro, Shape(L, M, ro), NEW r \in M, NEW op, NEW val,
         CanEnter(L, ro, r, op), NEW K, PutView(L, K, r, op, val, Pos(L, r)),
         NEW b, Ballots(L, ro, b), op = "vote" => val = Ballot(b[r])
  PROVE  Ballots(K, ro, b)
<1> DEFINE p == Pos(L, r)
<1>1. AtView(L, K, r, op)
  BY PutAt
<1>2. /\ Len(L) \in 0 .. 3 /\ Len(K) \in 1 .. 3 /\ Len(L) <= Len(K)
      /\ p \in 0 .. 2 /\ p <= Len(L) /\ p + 1 \in 1 .. Len(K)
  BY <1>1, ShapeLen, Positions, NextEntry DEF AtView
<1>3. SUFFICES ASSUME NEW k \in 1 .. Len(K), K[k].ops = {"vote"},
                      k < Len(K) => ro \notin K[k + 1].in,
                      NEW s \in K[k].in
      PROVE  K[k].val[s] = Ballot(b[s])
  BY DEF Ballots, BallotsAt
<1>4. CASE k = p + 1 /\ s = r
  <2>1. op = "vote"
    BY <1>4, <1>1, <1>3 DEF AtView
  <2> QED
    BY <2>1, <1>4 DEF PutView
<1>5. CASE ~ (k = p + 1 /\ s = r)
  <2>1. k \in 1 .. Len(L) /\ s \in L[k].in
    <3>1. CASE s = r
      <4>1. k <= p + 1
        BY <3>1, <1>3 DEF PutView
      <4>2. k \in 1 .. Len(L) /\ k <= p
        BY <4>1, <3>1, <1>5, <1>2
      <4> QED
        BY <4>2, <3>1, Positions
    <3>2. CASE s # r
      BY <3>2, <1>2, <1>3 DEF PutView
    <3> QED
      BY <3>1, <3>2
  <2>2. L[k].ops = {"vote"}
    BY <2>1, <1>1, <1>3 DEF AtView
  <2>3. k < Len(L) => ro \notin L[k + 1].in
    <3>1. SUFFICES ASSUME k < Len(L), ro \in L[k + 1].in PROVE FALSE
      OBVIOUS
    <3>2. k < Len(K) /\ k + 1 \in 1 .. Len(K) /\ k + 1 \in 1 .. Len(L)
      BY <3>1, <2>1, <1>2
    <3>3. ro \in K[k + 1].in
      <4>1. CASE ro = r
        <5>1. k + 1 <= p
          BY <4>1, <3>1, <3>2, Positions
        <5> QED
          BY <5>1, <4>1, <3>2, <1>2 DEF PutView
      <4>2. CASE ro # r
        BY <4>2, <3>1, <3>2 DEF PutView
      <4> QED
        BY <4>1, <4>2
    <3> QED
      BY <3>2, <3>3, <1>3
  <2>4. L[k].val[s] = Ballot(b[s])
    BY <2>1, <2>2, <2>3 DEF Ballots, BallotsAt
  <2> QED
    BY <2>1, <2>4 DEF PutView
<1> QED
  BY <1>4, <1>5

(* While a request to split is being served there are none.                *)
LEMMA PutSplitBallots ==
  ASSUME NEW L, NEW M, NEW ro, Shape(L, M, ro), NEW r \in M, NEW val,
         Serving(L, ro, r, "split"), NEW K, PutView(L, K, r, "split", val, Pos(L, r)),
         NEW b
  PROVE  Ballots(K, ro, b)
<1> DEFINE p == Pos(L, r)
<1>1. CanEnter(L, ro, r, "split")
  BY DEF CanEnter
<1>2. AtView(L, K, r, "split")
  BY <1>1, PutAt
<1>3. /\ Len(L) \in 0 .. 3 /\ Len(K) \in 1 .. 3 /\ Len(L) <= Len(K)
      /\ p \in 0 .. 2 /\ p <= Len(L) /\ p + 1 \in 1 .. Len(K)
  BY <1>1, <1>2, ShapeLen, Positions, NextEntry DEF AtView
<1>4. PICK j \in 1 .. Len(L) :
        IsAt(L, r, j) /\ L[j].ops = {"hdr"} /\ ro \in L[j].in
  BY DEF Serving
<1>5. p = j /\ p \in 1 .. 2
  BY <1>3, <1>4, PosOf
<1>6. K[p + 1].ops = {"split"} /\ K[p].ops = {"hdr"} /\ ro \in K[p].in
  <2>1. K[p].ops = {"hdr"} /\ K[p + 1].ops = {"split"}
    BY <1>2, <1>4, <1>5 DEF AtView
  <2>2. ro \in K[p].in
    <3>1. p \in 1 .. Len(K) /\ p <= p + 1 /\ p <= Len(L)
      BY <1>3, <1>5
    <3> QED
      BY <3>1, <1>4, <1>5 DEF PutView
  <2> QED
    BY <2>1, <2>2
<1>7. {"vote"} # {"hdr"} /\ {"split"} # {"vote"}
  OBVIOUS
<1>8. SUFFICES ASSUME NEW k \in 1 .. Len(K), K[k].ops = {"vote"},
                      k < Len(K) => ro \notin K[k + 1].in
      PROVE  FALSE
  BY DEF Ballots
<1>9. k # p /\ k # p + 1
  BY <1>6, <1>7, <1>8
<1>10. CASE k < p
  <2>1. k = 1 /\ p = 2
    BY <1>10, <1>5, <1>8
  <2> QED
    BY <2>1, <1>3, <1>6, <1>8
<1>11. CASE k > p + 1
  <2>1. k = 3 /\ p = 1
    BY <1>3, <1>5, <1>11, <1>8
  <2>2. Follows(K, M, ro, 2)
    <3>1. Almost(K, M, ro)
      BY <1>1, PutShape
    <3> QED
      BY <3>1, <2>1, <1>3, <1>8 DEF Almost
  <2>3. K[2].in = M
    <3>1. {"split"} # {"hdr"}
      OBVIOUS
    <3> QED
      BY <2>1, <2>2, <3>1, <1>6 DEF Follows
  <2>4. Len(L) = 3
    BY <2>1, <1>3, <1>8 DEF PutView
  <2>5. L[2].ops = {"split"} /\ Follows(L, M, ro, 2) /\ EntryOK(L, M, 2)
    BY <2>1, <2>4, <1>2, <1>6 DEF Shape, AtView
  <2>6. {"split"} # {"hdr"}
    OBVIOUS
  <2> QED
    BY <2>5, <2>6 DEF Follows, EntryOK
<1> QED
  BY <1>3, <1>5, <1>8, <1>9, <1>10, <1>11

(* Of who starts the log.                                                  *)
LEMMA PutStarts ==
  ASSUME NEW L, NEW M, NEW ro, Shape(L, M, ro), NEW r \in M, NEW op, NEW val,
         CanEnter(L, ro, r, op), NEW K, PutView(L, K, r, op, val, Pos(L, r)), NEW o
  PROVE  /\ Starts(K, o) => Starts(L, o) \/ o = op
         /\ (Len(K) > 1 /\ K[2].in = M /\ K[2].ops = {o}) => o = op
         /\ Starts(L, o) => Starts(K, o)
<1> DEFINE p == Pos(L, r)
<1>1. AtView(L, K, r, op)
  BY PutAt
<1>2. /\ Len(L) \in 0 .. 3 /\ Len(K) \in 1 .. 3 /\ Len(L) <= Len(K)
      /\ p \in 0 .. 2 /\ p <= Len(L) /\ p + 1 \in 1 .. Len(K)
  BY <1>1, ShapeLen, Positions, NextEntry DEF AtView
<1>3. \A k \in 1 .. Len(L) : K[k].ops = L[k].ops
  BY <1>1 DEF AtView
<1>4. Starts(L, o) => Starts(K, o)
  BY <1>2, <1>3 DEF Starts
<1>5. Starts(K, o) => Starts(L, o) \/ o = op
  <2>1. CASE Len(L) > 0
    BY <2>1, <1>2, <1>3 DEF Starts
  <2>2. CASE Len(L) = 0
    <3>1. p + 1 = 1
      BY <2>2, <1>2
    <3> QED
      BY <3>1, <1>1 DEF AtView, Starts
  <2> QED
    BY <2>1, <2>2, <1>2
<1>6. ASSUME Len(K) > 1, K[2].in = M, K[2].ops = {o} PROVE o = op
  <2>1. CASE p + 1 = 2
    BY <2>1, <1>6, <1>1 DEF AtView
  <2>2. CASE p = 0
    <3>1. r \notin K[2].in
      BY <2>2, <1>2, <1>6 DEF PutView
    <3> QED
      BY <3>1, <1>6
  <2>3. CASE p = 2
    <3>1. 2 \in 1 .. Len(L) /\ EntryOK(L, M, 2)
      BY <2>3, <1>2 DEF Shape
    <3>2. \A s \in M : s \in L[2].in
      <4>1. r \in L[2].in
        BY <2>3, <3>1, Positions
      <4>2. \A s \in M : s # r => s \in L[2].in
        BY <3>1, <1>2, <1>6 DEF PutView
      <4> QED
        BY <4>1, <4>2
    <3> QED
      BY <3>1, <3>2 DEF EntryOK
  <2> QED
    BY <2>1, <2>2, <2>3, <1>2
<1> QED
  BY <1>4, <1>5, <1>6

LEMMA TrimIs ==
  ASSUME NEW K, NEW M, NEW ro, Almost(K, M, ro)
  PROVE  TrimView(K, Trimmed(K, M), M)
<1>1. Proper(K)
  BY DEF Almost
<1>2. CASE Len(K) > 1 /\ M = K[2].in
  <2>1. Trimmed(K, M) = Tail(K)
    BY <1>2, Zenon DEF Trimmed
  <2>2. /\ Len(Tail(K)) = Len(K) - 1
        /\ \A k \in 1 .. Len(Tail(K)) : Tail(K)[k] = K[k + 1]
    BY <1>1, <1>2, TailProper
  <2> QED
    BY <1>2, <2>1, <2>2 DEF TrimView
<1>3. CASE ~ (Len(K) > 1 /\ M = K[2].in)
  <2>1. Trimmed(K, M) = K
    BY <1>3, Zenon DEF Trimmed
  <2> QED
    BY <1>3, <2>1 DEF TrimView
<1> QED
  BY <1>2, <1>3

(* What holds of the log holds of it when it is trimmed.                   *)
LEMMA TrimPlaces ==
  ASSUME NEW K, NEW M, NEW ro \in M, Almost(K, M, ro), NEW T, TrimView(K, T, M), NEW s \in M
  PROVE  /\ \A o : InOp(T, s, o) <=> InOp(K, s, o)
         /\ IsOut(T, s) <=> IsOut(K, s)
         /\ Rested(K, s) => Rested(T, s)
         /\ Owing(T, ro, s) <=> Owing(K, ro, s)
         /\ Starts(K, "vote") /\ IsAt(K, s, 1) => T = K
<1>1. CASE T = K
  BY <1>1
<1>2. CASE T # K
  <2>1. /\ Len(K) > 1 /\ K[2].in = M /\ Len(T) = Len(K) - 1
        /\ \A k \in 1 .. Len(T) : T[k] = K[k + 1]
    BY <1>2 DEF TrimView
  <2>2. Len(K) \in 2 .. 3
    <3>1. Proper(K) /\ Len(K) <= 3
      BY DEF Almost
    <3>2. Len(K) \in Nat
      BY <3>1, ProperLen
    <3> QED
      BY <3>1, <3>2, <2>1
  <2>3. K[2].in \subseteq K[1].in
    <3>1. Follows(K, M, ro, 1)
      BY <2>1 DEF Almost
    <3> QED
      BY <3>1 DEF Follows
  <2>4. s \in K[2].in /\ s \in K[1].in
    BY <2>1, <2>3
  <2>5. \A k \in 1 .. Len(T) : IsAt(T, s, k) <=> IsAt(K, s, k + 1)
    <3>1. SUFFICES ASSUME NEW k \in 1 .. Len(T)
          PROVE  IsAt(T, s, k) <=> IsAt(K, s, k + 1)
      OBVIOUS
    <3>2. T[k] = K[k + 1] /\ (k < Len(T) <=> k + 1 < Len(K))
      BY <2>1, <2>2, <3>1
    <3>3. k < Len(T) => T[k + 1] = K[k + 1 + 1]
      BY <2>1, <2>2, <3>1
    <3> QED
      BY <3>2, <3>3 DEF IsAt
  <2>6. ~ IsAt(K, s, 1)
    BY <2>1, <2>4 DEF IsAt
  <2>7. \A k \in 1 .. Len(K) : k # 1 => k - 1 \in 1 .. Len(T) /\ k - 1 + 1 = k
    BY <2>1, <2>2
  <2>8. \A k \in 1 .. Len(T) : k + 1 \in 1 .. Len(K) /\ k + 1 # 1
    BY <2>1, <2>2
  <2>9. ASSUME NEW o PROVE InOp(T, s, o) <=> InOp(K, s, o)
    <3>1. InOp(T, s, o) => InOp(K, s, o)
      <4>1. SUFFICES ASSUME NEW k \in 1 .. Len(T), IsAt(T, s, k), T[k].ops = {o}
            PROVE  InOp(K, s, o)
        BY DEF InOp
      <4>2. IsAt(K, s, k + 1) /\ K[k + 1].ops = {o} /\ k + 1 \in 1 .. Len(K)
        BY <4>1, <2>1, <2>5, <2>8
      <4> QED
        BY <4>2 DEF InOp
    <3>2. InOp(K, s, o) => InOp(T, s, o)
      <4>1. SUFFICES ASSUME NEW k \in 1 .. Len(K), IsAt(K, s, k), K[k].ops = {o}
            PROVE  InOp(T, s, o)
        BY DEF InOp
      <4>2. PICK j \in 1 .. Len(T) : j + 1 = k
        BY <4>1, <2>6, <2>7
      <4>3. IsAt(T, s, j) /\ T[j].ops = {o}
        BY <4>1, <4>2, <2>1, <2>5
      <4> QED
        BY <4>2, <4>3 DEF InOp
    <3> QED
      BY <3>1, <3>2
  <2>10. ~ IsOut(K, s) /\ ~ IsOut(T, s)
    BY <2>1, <2>2, <2>4 DEF IsOut
  <2>11. ~ Rested(K, s)
    BY <2>6, <2>10 DEF Rested
  <2>12. ~ OwesAt(K, ro, s, 1)
    BY <2>1, <2>4 DEF OwesAt
  <2>13. \A k \in 1 .. Len(T) : OwesAt(T, ro, s, k) <=> OwesAt(K, ro, s, k + 1)
    <3>1. SUFFICES ASSUME NEW k \in 1 .. Len(T)
          PROVE  OwesAt(T, ro, s, k) <=> OwesAt(K, ro, s, k + 1)
      OBVIOUS
    <3>2. T[k] = K[k + 1] /\ (k < Len(T) <=> k + 1 < Len(K))
      BY <2>1, <2>2, <3>1
    <3>3. k < Len(T) => T[k + 1] = K[k + 1 + 1]
      BY <2>1, <2>2, <3>1
    <3> QED
      BY <3>2, <3>3 DEF OwesAt
  <2>14. Owing(T, ro, s) <=> Owing(K, ro, s)
    <3>1. Owing(T, ro, s) => Owing(K, ro, s)
      BY <2>8, <2>13 DEF Owing
    <3>2. Owing(K, ro, s) => Owing(T, ro, s)
      <4>1. SUFFICES ASSUME NEW k \in 1 .. Len(K), OwesAt(K, ro, s, k) PROVE Owing(T, ro, s)
        BY DEF Owing
      <4>2. PICK j \in 1 .. Len(T) : j + 1 = k
        BY <4>1, <2>12, <2>7
      <4> QED
        BY <4>1, <4>2, <2>13 DEF Owing
    <3> QED
      BY <3>1, <3>2
  <2> QED
    BY <2>6, <2>9, <2>10, <2>11, <2>14
<1> QED
  BY <1>1, <1>2

LEMMA TrimValues ==
  ASSUME NEW K, NEW M, NEW ro \in M, Almost(K, M, ro), NEW T, TrimView(K, T, M)
  PROVE  /\ \A q : Sent(K, ro, q) => Sent(T, ro, q)
         /\ \A b : Ballots(K, ro, b) => Ballots(T, ro, b)
         /\ \A o : Starts(T, o) => Starts(K, o) \/ (Len(K) > 1 /\ K[2].in = M /\ K[2].ops = {o})
<1>1. CASE T = K
  BY <1>1
<1>2. CASE T # K
  <2>1. /\ Len(K) > 1 /\ K[2].in = M /\ Len(T) = Len(K) - 1
        /\ \A k \in 1 .. Len(T) : T[k] = K[k + 1]
    BY <1>2 DEF TrimView
  <2>2. Len(K) \in 2 .. 3
    <3>1. Proper(K) /\ Len(K) <= 3
      BY DEF Almost
    <3>2. Len(K) \in Nat
      BY <3>1, ProperLen
    <3> QED
      BY <3>1, <3>2, <2>1
  <2>3. \A k \in 1 .. Len(T) : k + 1 \in 1 .. Len(K) /\ (k < Len(T) <=> k + 1 < Len(K))
    BY <2>1, <2>2
  <2>4. \A k \in 1 .. Len(T) : k < Len(T) => T[k + 1] = K[k + 1 + 1]
    BY <2>1, <2>2
  <2>5. ASSUME NEW q, Sent(K, ro, q) PROVE Sent(T, ro, q)
    BY <2>1, <2>3, <2>5 DEF Sent
  <2>6. ASSUME NEW b, Ballots(K, ro, b) PROVE Ballots(T, ro, b)
    <3>1. SUFFICES ASSUME NEW k \in 1 .. Len(T), T[k].ops = {"vote"},
                          k < Len(T) => ro \notin T[k + 1].in
          PROVE  BallotsAt(T, b, k)
      BY DEF Ballots
    <3>2. /\ k + 1 \in 1 .. Len(K) /\ K[k + 1].ops = {"vote"} /\ T[k] = K[k + 1]
          /\ k + 1 < Len(K) => ro \notin K[k + 1 + 1].in
      BY <3>1, <2>1, <2>3, <2>4
    <3>3. BallotsAt(K, b, k + 1)
      BY <3>2, <2>6 DEF Ballots
    <3> QED
      BY <3>2, <3>3 DEF BallotsAt
  <2>7. ASSUME NEW o, Starts(T, o) PROVE K[2].ops = {o}
    <3>1. T[1] = K[2]
      BY <2>1, <2>2
    <3> QED
      BY <2>7, <3>1 DEF Starts
  <2> QED
    BY <2>1, <2>5, <2>6, <2>7
<1> QED
  BY <1>1, <1>2

(* Together: what the log of a communicator is after r has entered.        *)
LEMMA EnterTwice ==
  ASSUME NEW L, NEW M, NEW ro, Shape(L, M, ro), NEW r \in M, NEW op, NEW val,
         CanEnter(L, ro, r, op)
  PROVE  \E K : /\ PutView(L, K, r, op, val, Pos(L, r)) /\ Almost(K, M, ro)
                /\ TrimView(K, Entered(L, M, r, op, val), M)
<1> DEFINE K == Put(L, r, op, val)
<1>1. PutView(L, K, r, op, val, Pos(L, r))
  BY PutIs
<1> HIDE DEF K
<1>2. Almost(K, M, ro)
  BY <1>1, PutShape
<1>3. TrimView(K, Trimmed(K, M), M)
  BY <1>2, TrimIs
<1> QED
  BY <1>1, <1>2, <1>3 DEF Entered, K

EnterView(L, E, M, ro, r, op) ==
  /\ Shape(E, M, ro) /\ InOp(E, r, op)
  /\ \A s \in M \ {r} : /\ \A o : InOp(E, s, o) <=> InOp(L, s, o)
                        /\ IsOut(E, s) <=> IsOut(L, s)
                        /\ Rested(L, s) => Rested(E, s)
  /\ \A o : Starts(E, o) => Starts(L, o) \/ o = op

LEMMA EnterAny ==
  ASSUME NEW L, NEW M, NEW ro \in M, Shape(L, M, ro), NEW r \in M, NEW op, NEW val,
         CanEnter(L, ro, r, op), NEW E, E = Entered(L, M, r, op, val)
  PROVE  EnterView(L, E, M, ro, r, op)
<1>1. PICK K : /\ PutView(L, K, r, op, val, Pos(L, r)) /\ Almost(K, M, ro)
               /\ TrimView(K, E, M)
  BY EnterTwice
<1>2. Shape(E, M, ro)
  BY EnterShape
<1>3. InOp(E, r, op)
  <2>1. InOp(K, r, op)
    BY <1>1, PutPlaces
  <2> QED
    BY <2>1, <1>1, TrimPlaces
<1>4. ASSUME NEW s \in M \ {r}
      PROVE  /\ \A o : InOp(E, s, o) <=> InOp(L, s, o)
             /\ IsOut(E, s) <=> IsOut(L, s)
             /\ Rested(L, s) => Rested(E, s)
  <2>1. /\ \A o : InOp(K, s, o) <=> InOp(L, s, o)
        /\ IsOut(K, s) <=> IsOut(L, s)
        /\ Rested(L, s) => Rested(K, s)
    BY <1>1, PutPlaces
  <2>2. /\ \A o : InOp(E, s, o) <=> InOp(K, s, o)
        /\ IsOut(E, s) <=> IsOut(K, s)
        /\ Rested(K, s) => Rested(E, s)
    BY <1>1, TrimPlaces
  <2> QED
    BY <2>1, <2>2
<1>5. ASSUME NEW o, Starts(E, o) PROVE Starts(L, o) \/ o = op
  <2>1. Starts(K, o) \/ (Len(K) > 1 /\ K[2].in = M /\ K[2].ops = {o})
    BY <1>1, <1>5, TrimValues
  <2>2. Starts(K, o) => Starts(L, o) \/ o = op
    BY <1>1, PutStarts
  <2>3. (Len(K) > 1 /\ K[2].in = M /\ K[2].ops = {o}) => o = op
    BY <1>1, PutStarts
  <2> QED
    BY <2>1, <2>2, <2>3
<1> QED
  BY <1>2, <1>3, <1>4, <1>5 DEF EnterView

LEMMA EnterOwing ==
  ASSUME NEW L, NEW M, NEW ro \in M, Shape(L, M, ro), NEW r \in M, NEW op, NEW val,
         CanEnter(L, ro, r, op), NEW E, E = Entered(L, M, r, op, val),
         r # ro \/ op # "hdr"
  PROVE  /\ \A s \in M : s # r \/ op = "hdr" => (Owing(E, ro, s) <=> Owing(L, ro, s))
         /\ op # "hdr" => ~ Owing(E, ro, r)
         /\ \A q : Sent(L, ro, q) => Sent(E, ro, q)
<1>1. PICK K : /\ PutView(L, K, r, op, val, Pos(L, r)) /\ Almost(K, M, ro)
               /\ TrimView(K, E, M)
  BY EnterTwice
<1>2. /\ \A s : s # r => (Owing(K, ro, s) <=> Owing(L, ro, s))
      /\ op = "hdr" => (Owing(K, ro, r) <=> Owing(L, ro, r))
      /\ op # "hdr" => ~ Owing(K, ro, r)
  BY <1>1, PutOwing
<1>3. \A s \in M : Owing(E, ro, s) <=> Owing(K, ro, s)
  BY <1>1, TrimPlaces
<1>4. ASSUME NEW q, Sent(L, ro, q) PROVE Sent(E, ro, q)
  <2>1. Sent(K, ro, q)
    BY <1>1, <1>4, PutSent
  <2> QED
    BY <2>1, <1>1, TrimValues
<1> QED
  BY <1>2, <1>3, <1>4

LEMMA EnterRequest ==
  ASSUME NEW L, NEW M, NEW ro \in M, Shape(L, M, ro), Rested(L, ro), NEW val,
         NEW E, E = Entered(L, M, ro, "hdr", val)
  PROVE  /\ \A s \in M : Owing(E, ro, s)
         /\ Sent(E, ro, val)
         /\ \A b : Ballots(E, ro, b)
         /\ ~ Starts(E, "split")
<1>1. CanEnter(L, ro, ro, "hdr")
  BY DEF CanEnter
<1>2. PICK K : /\ PutView(L, K, ro, "hdr", val, Pos(L, ro)) /\ Almost(K, M, ro)
               /\ TrimView(K, E, M)
  BY <1>1, EnterTwice
<1>3. /\ Sent(K, ro, val) /\ \A s \in M : Owing(K, ro, s)
      /\ \A b : Ballots(K, ro, b)
      /\ ~ Starts(K, "split")
  BY <1>2, PutRequest
<1>4. \A s \in M : Owing(E, ro, s)
  BY <1>2, <1>3, TrimPlaces
<1>5. Sent(E, ro, val) /\ \A b : Ballots(E, ro, b)
  BY <1>2, <1>3, TrimValues
<1>6. Starts(E, "split") => Len(K) > 1 /\ K[2].in = M /\ K[2].ops = {"split"}
  BY <1>2, <1>3, TrimValues
<1>7. ASSUME NEW o, Len(K) > 1, K[2].in = M, K[2].ops = {o} PROVE o = "hdr"
  <2>1. PutView(L, K, ro, "hdr", val, Pos(L, ro))
    BY <1>2
  <2>2. (Len(K) > 1 /\ K[2].in = M /\ K[2].ops = {o}) => o = "hdr"
    BY <1>1, <2>1, PutStarts
  <2> QED
    BY <2>2, <1>7
<1> QED
  BY <1>4, <1>5, <1>6, <1>7

LEMMA EnterBallots ==
  ASSUME NEW L, NEW M, NEW ro \in M, Shape(L, M, ro), NEW r \in M, NEW op, NEW val,
         CanEnter(L, ro, r, op), NEW E, E = Entered(L, M, r, op, val), NEW b
  PROVE  /\ (Ballots(L, ro, b) /\ (op = "vote" => val = Ballot(b[r]))) => Ballots(E, ro, b)
         /\ Serving(L, ro, r, "split") /\ op = "split" => Ballots(E, ro, b)
<1>1. PICK K : /\ PutView(L, K, r, op, val, Pos(L, r)) /\ Almost(K, M, ro)
               /\ TrimView(K, E, M)
  BY EnterTwice
<1>2. (Ballots(L, ro, b) /\ (op = "vote" => val = Ballot(b[r]))) => Ballots(K, ro, b)
  BY <1>1, PutBallots
<1>3. Serving(L, ro, r, "split") /\ op = "split" => Ballots(K, ro, b)
  BY <1>1, PutSplitBallots
<1>4. Ballots(K, ro, b) => Ballots(E, ro, b)
  BY <1>1, TrimValues
<1> QED
  BY <1>2, <1>3, <1>4

(* A vote the root has not gone on from stays as it is when others do.     *)
LEMMA EnterFirst ==
  ASSUME NEW L, NEW M, NEW ro \in M, Shape(L, M, ro), NEW r \in M, NEW op, NEW val,
         CanEnter(L, ro, r, op), NEW E, E = Entered(L, M, r, op, val), r # ro,
         Starts(L, "vote"), IsAt(L, ro, 1)
  PROVE  /\ Starts(E, "vote") /\ IsAt(E, ro, 1)
         /\ \A s \in M : E[1].val[s] = L[1].val[s]
<1>1. PICK K : /\ PutView(L, K, r, op, val, Pos(L, r)) /\ Almost(K, M, ro)
               /\ TrimView(K, E, M)
  BY EnterTwice
<1>2. Len(L) \in 1 .. 3 /\ L[1].in = M
  BY ShapeLen, StartsFacts DEF Starts
<1>3. AtView(L, K, r, op)
  BY <1>1, PutAt
<1>4. Starts(K, "vote") /\ IsAt(K, ro, 1)
  BY <1>2, <1>3 DEF AtView, Starts
<1>5. E = K
  BY <1>1, <1>4, TrimPlaces
<1>6. \A s \in M : K[1].val[s] = L[1].val[s]
  BY <1>1, <1>2 DEF PutView
<1> QED
  BY <1>4, <1>5, <1>6

LEMMA EnterVote ==
  ASSUME NEW L, NEW M, NEW ro \in M, Shape(L, M, ro), NEW r \in M, NEW val,
         Starts(L, "split"), IsAt(L, r, 1), NEW E, E = Entered(L, M, r, "vote", val)
  PROVE  Starts(E, "split") \/ \A s \in M : InOp(E, s, "vote")
<1>1. CanEnter(L, ro, r, "vote")
  BY DEF CanEnter
<1>2. PICK K : /\ PutView(L, K, r, "vote", val, Pos(L, r)) /\ Almost(K, M, ro)
               /\ TrimView(K, E, M)
  BY <1>1, EnterTwice
<1>3. Len(L) \in 1 .. 2
  BY StartsFacts
<1>4. Pos(L, r) = 1
  BY PosOf, <1>3
<1>5. Starts(K, "split")
  BY <1>1, <1>2, PutStarts
<1>6. CASE E = K
  BY <1>5, <1>6
<1>7. CASE E # K
  <2>1. /\ Len(K) > 1 /\ K[2].in = M /\ Len(E) = Len(K) - 1
        /\ \A k \in 1 .. Len(E) : E[k] = K[k + 1]
    BY <1>2, <1>7 DEF TrimView
  <2>2. Len(K) = 2
    BY <1>2, <1>3, <1>4, <2>1 DEF PutView
  <2>3. Len(E) = 1 /\ E[1] = K[2]
    BY <2>1, <2>2
  <2>4. K[2].ops = {"vote"}
    <3>1. AtView(L, K, r, "vote")
      BY <1>1, <1>2, PutAt
    <3> QED
      BY <3>1, <1>4 DEF AtView
  <2> QED
    BY <2>1, <2>3, <2>4 DEF InOp, IsAt
<1> QED
  BY <1>6, <1>7

---------------------------------------------------------------------------
(* One communicator.                                                       *)

(* What r entered is a header its root is in: it is served next.           *)
LEMMA HeaderFacts ==
  ASSUME NEW L, NEW M, NEW ro, Shape(L, M, ro), NEW r, InOp(L, r, "hdr"),
         ro \in L[Pos(L, r)].in, NEW q, Sent(L, ro, q)
  PROVE  /\ Owing(L, ro, r)
         /\ L[Pos(L, r)].val[ro] = q
         /\ q.op # "finalize" => Serving(L, ro, r, IF q.op = "split" THEN "split" ELSE "vote")
<1>1. PICK k \in 1 .. Len(L) : IsAt(L, r, k) /\ L[k].ops = {"hdr"}
  BY DEF InOp
<1>2. Pos(L, r) = k
  BY <1>1, PosOf
<1>3. ro \in L[k].in
  BY <1>2
<1>4. L[k].val[ro] = q
  BY <1>1, <1>3 DEF Sent
<1>5. Owing(L, ro, r)
  BY <1>1, <1>3 DEF Owing, OwesAt, IsAt
<1>6. ASSUME q.op # "finalize"
      PROVE  Serving(L, ro, r, IF q.op = "split" THEN "split" ELSE "vote")
  BY <1>1, <1>3, <1>4, <1>6 DEF Serving
<1> QED
  BY <1>2, <1>4, <1>5, <1>6

(* A vote or a split everyone is in is the first entry of the log.         *)
LEMMA FullFacts ==
  ASSUME NEW L, NEW M, NEW ro, Shape(L, M, ro), NEW r, NEW op \in {"vote", "split"},
         InOp(L, r, op), M \subseteq L[Pos(L, r)].in
  PROVE  Starts(L, op) /\ IsAt(L, r, 1) /\ Pos(L, r) = 1
<1>1. PICK k \in 1 .. Len(L) : IsAt(L, r, k) /\ L[k].ops = {op}
  BY DEF InOp
<1>2. Pos(L, r) = k /\ Len(L) \in 1 .. 3
  BY <1>1, PosOf, ShapeLen
<1>3. EntryOK(L, M, k)
  BY <1>1 DEF Shape
<1>4. L[k].in = M
  BY <1>2, <1>3 DEF EntryOK
<1>5. k # 2
  BY <1>3, <1>4 DEF EntryOK
<1>6. k # 3
  <2>1. SUFFICES ASSUME k = 3 PROVE FALSE
    OBVIOUS
  <2>2. Follows(L, M, ro, 2) /\ EntryOK(L, M, 2)
    BY <2>1, <1>1, <1>2 DEF Shape
  <2>3. M \subseteq L[2].in /\ L[2].in \subseteq M
    BY <2>1, <2>2, <1>4 DEF Follows, EntryOK
  <2> QED
    BY <2>2, <2>3 DEF EntryOK
<1>7. k = 1
  BY <1>1, <1>2, <1>5, <1>6
<1> QED
  BY <1>1, <1>2, <1>7 DEF Starts

(* How a member s of communicator c stands to it: inside its engine at the *)
(* level of c, about to start it, or back in the vote of the request that  *)
(* made c; that request and the communicator it was made on; its engine    *)
(* and its globals.                                                        *)
lvl(c) == Len(c.id) + 1
Globals(r, k) == IF k <= Len(saved[r]) THEN saved[r][k] ELSE ctx[r]
View(s, k) ==
  [where |-> IF Depth(s) >= k THEN "in"
             ELSE IF Depth(s) = k - 1 THEN act[s][k - 1].at ELSE "none",
   req |-> IF k > 1 /\ Depth(s) >= k - 1 THEN act[s][k - 1].req ELSE NoReq,
   up |-> IF k > 1 /\ Depth(s) >= k - 1 THEN Globals(s, k - 1).comm ELSE NoReq,
   e |-> IF Depth(s) >= k THEN act[s][k] ELSE NoReq,
   g |-> IF Depth(s) >= k THEN Globals(s, k) ELSE NoReq]
Views(c) == [s \in c.ranks |-> View(s, lvl(c))]

(* The views a context starts with, and the variables its root knows of.   *)
Given(c, a) ==
  IF c = World THEN {} ELSE {[id |-> i, obj |-> a.args[i].obj] : i \in DOMAIN a.args}
Owned(w, V) == IF w.where = "in" THEN w.e.own \cup w.e.views ELSE V

(* What the tables hold before request q is served, if O is held after it. *)
Before(O, q) ==
  IF q.op = "make" THEN O \ {q.v} ELSE IF q.op = "drop" THEN O \cup {q.v} ELSE O
Expect(L, ro, s, O, q) == IF Owing(L, ro, s) THEN Before(O, q) ELSE O
IsTable(t, E) == DOMAIN t = {v.id : v \in E} /\ \A v \in E : t[v.id] = v.obj

Distinct(K) == (\A v \in K : v.id \in Nat \ {0}) /\ \A v, w \in K : v.id = w.id => v = w

(* Requests.                                                               *)
BcastOK(q, m) ==
  q.f = "bcast" => /\ Len(q.args) = 1 /\ q.color = heads_color(q.of)
                   /\ q.of \in [1 .. m -> Nat]
SplitOK(q, O, m) ==
  /\ Proper(q.args) /\ \A i \in DOMAIN q.args : q.args[i] \in O
  /\ q.color \in [1 .. m -> Nat]
  /\ BcastOK(q, m)
Valid(q, O, V, m) ==
  /\ q.op \in {"none", "make", "use", "move", "drop", "split", "finalize"}
  /\ q.op \in {"use", "move", "make"} => q.v \in O
  /\ q.op = "drop" => q.v \notin O
  /\ q.op = "split" => SplitOK(q, O, m)
  /\ q.op = "finalize" => O = V

Serves(L, ro, e, s, q) ==
  /\ e.at \in {"hdr", "vote", "split", "user", "gone"}
  /\ e.at \in {"hdr", "vote", "split"} => InOp(L, s, e.at)
  /\ e.at = "user" => s = ro /\ Rested(L, ro)
  /\ e.at = "gone" => Owing(L, ro, s) /\ q.op = "finalize" /\ InOp(L, s, "hdr")
  /\ (e.at \in {"vote", "split"} /\ ~ Owing(L, ro, s)) => e.req = q

MemberOK(c, L, w, s, O, V, q) ==
  /\ w.where \in {"in", "split", "vote"}
  /\ w.where = "split" => IsOut(L, s) /\ Expect(L, RootOf(c), s, O, q) = V
  /\ w.where = "vote" => Owing(L, RootOf(c), s) /\ q.op = "finalize" /\ InOp(L, s, "hdr")
  /\ w.where = "in" => /\ w.g.comm = c /\ Serves(L, RootOf(c), w.e, s, q)
                       /\ IsTable(w.g.table, Expect(L, RootOf(c), s, O, q))

Returned(L, ro, e, q, M) ==
  (e.at = "user" /\ e.last # NoReq) =>
     /\ e.last.req = q /\ Starts(L, "vote") /\ IsAt(L, ro, 1)
     /\ e.last.ok => \A s \in M : ~ L[1].val[s].exc
RootOK(L, ro, w, V, q, M) ==
  /\ w.where = "in" =>
       /\ w.e.views = V /\ w.e.own \cap V = {}
       /\ \A v \in Owned(w, V) \cup Before(Owned(w, V), q) : v.id < w.g.current_dvid
       /\ Returned(L, ro, w.e, q, M)
  /\ w.where = "split" => q = NoReq

Tree(c, W, a) ==
  c # World => /\ a.op = "split" /\ Proper(a.args)
               /\ \A s \in c.ranks : W[s].req = a /\ c = SubComm(W[s].up, a.color, s)
Alive(c, W) == \E s \in c.ranks : W[s].where # "vote"
LogOK(c, L, W, q) ==
  /\ Shape(L, c.ranks, RootOf(c)) /\ Sent(L, RootOf(c), q)
  /\ Starts(L, "split") => q.op = "split"
  /\ q.op = "split" => Ballots(L, RootOf(c), [s \in c.ranks |-> W[s].e.inner])
KnownOK(w, V, q, m) ==
  /\ Distinct(Owned(w, V) \cup Before(Owned(w, V), q))
  /\ Valid(q, Owned(w, V), V, m)

CommOK(c, L, W, a, q) ==
  /\ Tree(c, W, a) /\ Alive(c, W) /\ LogOK(c, L, W, q)
  /\ \A s \in c.ranks : MemberOK(c, L, W[s], s, Owned(W[RootOf(c)], Given(c, a)), Given(c, a), q)
  /\ RootOK(L, RootOf(c), W[RootOf(c)], Given(c, a), q, c.ranks)
  /\ KnownOK(W[RootOf(c)], Given(c, a), q, Cardinality(c.ranks))

IsComm(c) ==
  /\ c = [id |-> c.id, ranks |-> c.ranks] /\ Proper(c.id)
  /\ c.ranks \subseteq Rank /\ RootOf(c) \in c.ranks

(* Only r's part of the communicator changes, and r stays inside.          *)
Moved(c, W, X, r) ==
  /\ \A s \in c.ranks \ {r} : X[s] = W[s]
  /\ W[r].where = "in" /\ X[r].where = "in"
  /\ X[r].req = W[r].req /\ X[r].up = W[r].up

LEMMA MovedTree ==
  ASSUME NEW c, NEW W, NEW X, NEW a, NEW r \in c.ranks, Moved(c, W, X, r), Tree(c, W, a)
  PROVE  Tree(c, X, a) /\ Alive(c, X)
<1>1. Alive(c, X)
  BY DEF Moved, Alive
<1>2. ASSUME NEW s \in c.ranks PROVE X[s].req = W[s].req /\ X[s].up = W[s].up
  BY DEF Moved
<1>3. Tree(c, X, a)
  BY <1>2 DEF Tree
<1> QED
  BY <1>1, <1>3

(* A member that does nothing, while r enters its next collective.         *)
Unmoved(c, L, E, s) ==
  /\ \A o : InOp(E, s, o) <=> InOp(L, s, o)
  /\ IsOut(E, s) <=> IsOut(L, s)
  /\ Rested(L, s) => Rested(E, s)
  /\ Owing(E, RootOf(c), s) <=> Owing(L, RootOf(c), s)

LEMMA OtherMember ==
  ASSUME NEW c, NEW L, NEW E, NEW s, Unmoved(c, L, E, s),
         NEW w, NEW O, NEW V, NEW q, MemberOK(c, L, w, s, O, V, q)
  PROVE  MemberOK(c, E, w, s, O, V, q)
<1>1. Expect(E, RootOf(c), s, O, q) = Expect(L, RootOf(c), s, O, q)
  BY DEF Expect, Unmoved
<1>2. Serves(L, RootOf(c), w.e, s, q) => Serves(E, RootOf(c), w.e, s, q)
  BY DEF Serves, Unmoved
<1> QED
  BY <1>1, <1>2 DEF MemberOK, Unmoved

(* r, with the same variables, enters what q has it enter.                 *)
SameVars(w, x) ==
  /\ x.e.own = w.e.own /\ x.e.views = w.e.views
  /\ x.g.comm = w.g.comm /\ x.g.current_dvid = w.g.current_dvid

LEMMA SameOwned ==
  ASSUME NEW c, NEW W, NEW X, NEW r \in c.ranks, Moved(c, W, X, r), SameVars(W[r], X[r]),
         RootOf(c) \in c.ranks, NEW V
  PROVE  Owned(X[RootOf(c)], V) = Owned(W[RootOf(c)], V)
<1>1. CASE RootOf(c) = r
  BY <1>1 DEF Owned, Moved, SameVars
<1>2. CASE RootOf(c) # r
  BY <1>2 DEF Owned, Moved
<1> QED
  BY <1>1, <1>2

(* The step of r from one collective of c to the next.                     *)
LEMMA EnterOK ==
  ASSUME NEW c, IsComm(c), NEW L, NEW W, NEW a, NEW q, CommOK(c, L, W, a, q),
         NEW r \in c.ranks, NEW op, NEW val, CanEnter(L, RootOf(c), r, op),
         r # RootOf(c) \/ op # "hdr",
         NEW E, E = Entered(L, c.ranks, r, op, val),
         NEW X, Moved(c, W, X, r), SameVars(W[r], X[r]),
         X[r].e.at = op, op \in {"hdr", "vote", "split"}, op # "hdr" => X[r].e.req = q,
         IsTable(X[r].g.table, Expect(E, RootOf(c), r, Owned(W[RootOf(c)], Given(c, a)), q)),
         Starts(E, "split") => q.op = "split",
         q.op = "split" => Ballots(E, RootOf(c), [s \in c.ranks |-> X[s].e.inner])
  PROVE  CommOK(c, E, X, a, q)
<1> DEFINE M == c.ranks  ro == RootOf(c)  V == Given(c, a)  O == Owned(W[ro], V)
<1>1. ro \in M /\ Shape(L, M, ro) /\ Sent(L, ro, q)
  BY DEF IsComm, CommOK, LogOK
<1>2. EnterView(L, E, M, ro, r, op)
  BY <1>1, EnterAny
<1>3. /\ \A s \in M : s # r \/ op = "hdr" => (Owing(E, ro, s) <=> Owing(L, ro, s))
      /\ op # "hdr" => ~ Owing(E, ro, r)
      /\ Sent(E, ro, q)
  BY <1>1, EnterOwing
<1>4. Tree(c, X, a) /\ Alive(c, X)
  BY MovedTree DEF CommOK
<1>5. Owned(X[ro], V) = O
  BY <1>1, SameOwned
<1>6. LogOK(c, E, X, q)
  BY <1>2, <1>3 DEF LogOK, EnterView
<1>7. ASSUME NEW s \in M PROVE MemberOK(c, E, X[s], s, O, V, q)
  <2>1. CASE s # r
    <3>1. X[s] = W[s]
      BY <2>1, <1>7 DEF Moved
    <3>2. MemberOK(c, L, W[s], s, O, V, q)
      BY <1>7 DEF CommOK
    <3>3. Unmoved(c, L, E, s)
      BY <2>1, <1>2, <1>3, <1>7 DEF Unmoved, EnterView
    <3>4. MemberOK(c, E, W[s], s, O, V, q)
      BY <3>2, <3>3, OtherMember
    <3> QED
      BY <3>1, <3>4
  <2>2. CASE s = r
    <3>1. InOp(E, r, op)
      BY <1>2 DEF EnterView
    <3>2. Serves(E, ro, X[r].e, r, q)
      BY <3>1 DEF Serves
    <3>3. X[r].g.comm = c
      <4>1. MemberOK(c, L, W[r], r, O, V, q)
        BY DEF CommOK
      <4> QED
        BY <4>1 DEF MemberOK, Moved, SameVars
    <3> QED
      BY <2>2, <3>2, <3>3 DEF MemberOK, Moved
  <2> QED
    BY <2>1, <2>2
<1>8. RootOK(E, ro, X[ro], V, q, M)
  <2>0. RootOK(L, ro, W[ro], V, q, M)
    BY DEF CommOK
  <2>1. CASE ro = r
    <3>1. Returned(E, ro, X[ro].e, q, M)
      BY <2>1 DEF Returned
    <3>2. /\ X[ro].where = "in" /\ W[ro].where = "in"
          /\ X[ro].e.views = W[ro].e.views /\ X[ro].e.own = W[ro].e.own
          /\ X[ro].g.current_dvid = W[ro].g.current_dvid
      BY <2>1 DEF Moved, SameVars
    <3> QED
      BY <3>1, <3>2, <2>0, <1>5 DEF RootOK
  <2>2. CASE ro # r
    <3>1. X[ro] = W[ro]
      BY <2>2, <1>1 DEF Moved
    <3>2. Starts(L, "vote") /\ IsAt(L, ro, 1) =>
             /\ Starts(E, "vote") /\ IsAt(E, ro, 1)
             /\ \A s \in M : E[1].val[s] = L[1].val[s]
      BY <2>2, <1>1, EnterFirst
    <3>3. Returned(L, ro, W[ro].e, q, M) => Returned(E, ro, W[ro].e, q, M)
      BY <3>2 DEF Returned
    <3> QED
      BY <3>1, <3>3, <2>0 DEF RootOK
  <2> QED
    BY <2>1, <2>2
<1>9. KnownOK(X[ro], V, q, Cardinality(M))
  BY <1>5 DEF KnownOK, CommOK
<1> QED
  BY <1>4, <1>5, <1>6, <1>7, <1>8, <1>9 DEF CommOK

(* What r knows when it leaves a header.                                   *)
LEMMA MemberOf ==
  ASSUME NEW c, NEW L, NEW W, NEW a, NEW q, CommOK(c, L, W, a, q), NEW r \in c.ranks,
         W[r].where = "in"
  PROVE  /\ W[r].g.comm = c /\ Serves(L, RootOf(c), W[r].e, r, q)
         /\ IsTable(W[r].g.table,
                    Expect(L, RootOf(c), r, Owned(W[RootOf(c)], Given(c, a)), q))
BY DEF CommOK, MemberOK

(* The table once the request is served.                                   *)
Added(t, id, obj) == [i \in DOMAIN t \cup {id} |-> IF i = id THEN obj ELSE t[i]]
Removed(t, id) == [i \in DOMAIN t \ {id} |-> t[i]]

LEMMA TableAfter ==
  ASSUME NEW t, NEW O, NEW q, Distinct(O \cup Before(O, q)), IsTable(t, Before(O, q)),
         q.op \in {"make", "drop"}, q.op = "make" => q.v \in O, q.op = "drop" => q.v \notin O
  PROVE  /\ q.op = "make" => IsTable(Added(t, q.v.id, q.v.obj), O)
         /\ q.op = "drop" => IsTable(Removed(t, q.v.id), O)
<1>1. ASSUME q.op = "make"
      PROVE  IsTable(Added(t, q.v.id, q.v.obj), O)
  <2>0. PICK u : u = Added(t, q.v.id, q.v.obj)
    OBVIOUS
  <2>1. Before(O, q) = O \ {q.v} /\ q.v \in O
    BY <1>1 DEF Before
  <2>2. \A v, w \in O : v.id = w.id => v = w
    BY DEF Distinct
  <2>3. DOMAIN t = {v.id : v \in O \ {q.v}} /\ \A v \in O \ {q.v} : t[v.id] = v.obj
    BY <2>1 DEF IsTable
  <2>4. DOMAIN u = {v.id : v \in O}
    BY <2>0, <2>1, <2>3 DEF Added
  <2>5. ASSUME NEW v \in O PROVE u[v.id] = v.obj
    <3>1. CASE v = q.v
      BY <3>1, <2>0 DEF Added
    <3>2. CASE v # q.v
      <4>1. v.id # q.v.id
        BY <3>2, <2>1, <2>2
      <4>2. v.id \in DOMAIN t
        BY <3>2, <2>3
      <4> QED
        BY <4>1, <4>2, <3>2, <2>0, <2>3 DEF Added
    <3> QED
      BY <3>1, <3>2
  <2> QED
    BY <2>0, <2>4, <2>5 DEF IsTable
<1>2. ASSUME q.op = "drop"
      PROVE  IsTable(Removed(t, q.v.id), O)
  <2>0. PICK u : u = Removed(t, q.v.id)
    OBVIOUS
  <2>1. Before(O, q) = O \cup {q.v} /\ q.v \notin O
    BY <1>2 DEF Before
  <2>2. \A v, w \in O \cup {q.v} : v.id = w.id => v = w
    BY <2>1 DEF Distinct
  <2>3. DOMAIN t = {v.id : v \in O \cup {q.v}} /\ \A v \in O \cup {q.v} : t[v.id] = v.obj
    BY <2>1 DEF IsTable
  <2>4. \A v \in O : v.id # q.v.id
    BY <2>1, <2>2
  <2>5. DOMAIN u = {v.id : v \in O}
    BY <2>0, <2>3, <2>4 DEF Removed
  <2>6. ASSUME NEW v \in O PROVE u[v.id] = v.obj
    BY <2>0, <2>3, <2>4 DEF Removed
  <2> QED
    BY <2>0, <2>5, <2>6 DEF IsTable
<1> QED
  BY <1>1, <1>2

(* A request is served that makes no context: into the vote.               *)
LEMMA ServeOK ==
  ASSUME NEW c, IsComm(c), NEW L, NEW W, NEW a, NEW q, CommOK(c, L, W, a, q),
         NEW r \in c.ranks, W[r].where = "in", W[r].e.at = "hdr",
         RootOf(c) \in L[Pos(L, r)].in, q.op \notin {"split", "finalize"}, NEW val,
         NEW E, E = Entered(L, c.ranks, r, "vote", val),
         NEW X, Moved(c, W, X, r), SameVars(W[r], X[r]),
         X[r].e.at = "vote", X[r].e.req = q,
         IsTable(X[r].g.table, Owned(W[RootOf(c)], Given(c, a)))
  PROVE  CommOK(c, E, X, a, q)
<1>1. RootOf(c) \in c.ranks /\ Shape(L, c.ranks, RootOf(c)) /\ Sent(L, RootOf(c), q)
  BY DEF IsComm, CommOK, LogOK
<1>2. InOp(L, r, "hdr")
  BY MemberOf DEF Serves
<1>3. Owing(L, RootOf(c), r) /\ Serving(L, RootOf(c), r, "vote")
  BY <1>1, <1>2, HeaderFacts
<1>4. CanEnter(L, RootOf(c), r, "vote")
  BY <1>3 DEF CanEnter
<1>5. ~ Owing(E, RootOf(c), r)
  BY <1>1, <1>4, EnterOwing
<1>6. IsTable(X[r].g.table, Expect(E, RootOf(c), r, Owned(W[RootOf(c)], Given(c, a)), q))
  BY <1>5 DEF Expect
<1>7. ~ Starts(E, "split")
  <2>1. EnterView(L, E, c.ranks, RootOf(c), r, "vote")
    BY <1>1, <1>4, EnterAny
  <2>2. ~ Starts(L, "split")
    BY <1>1, <1>3, StartsFacts
  <2>3. Starts(E, "split") => Starts(L, "split") \/ "split" = "vote"
    BY <2>1 DEF EnterView
  <2> QED
    BY <2>2, <2>3
<1> QED
  BY <1>4, <1>6, <1>7, EnterOK

(* A request to split: into MPI_Comm_split.                                *)
LEMMA ServeSplitOK ==
  ASSUME NEW c, IsComm(c), NEW L, NEW W, NEW a, NEW q, CommOK(c, L, W, a, q),
         NEW r \in c.ranks, W[r].where = "in", W[r].e.at = "hdr",
         RootOf(c) \in L[Pos(L, r)].in, q.op = "split", NEW val,
         NEW E, E = Entered(L, c.ranks, r, "split", val),
         NEW X, Moved(c, W, X, r), SameVars(W[r], X[r]),
         X[r].e.at = "split", X[r].e.req = q, X[r].g.table = W[r].g.table
  PROVE  CommOK(c, E, X, a, q)
<1>1. RootOf(c) \in c.ranks /\ Shape(L, c.ranks, RootOf(c)) /\ Sent(L, RootOf(c), q)
  BY DEF IsComm, CommOK, LogOK
<1>2. InOp(L, r, "hdr")
  BY MemberOf DEF Serves
<1>3. Owing(L, RootOf(c), r) /\ Serving(L, RootOf(c), r, "split")
  BY <1>1, <1>2, HeaderFacts
<1>4. CanEnter(L, RootOf(c), r, "split")
  BY <1>3 DEF CanEnter
<1>5. IsTable(X[r].g.table, Expect(E, RootOf(c), r, Owned(W[RootOf(c)], Given(c, a)), q))
  <2>1. \A O, K : Expect(K, RootOf(c), r, O, q) = O
    BY DEF Expect, Before
  <2> QED
    BY <2>1, MemberOf
<1>6. Ballots(E, RootOf(c), [s \in c.ranks |-> X[s].e.inner])
  BY <1>1, <1>3, <1>4, EnterBallots
<1> QED
  BY <1>4, <1>5, <1>6, EnterOK

(* A worker goes on from the vote to the next header.                      *)
LEMMA NextHeaderOK ==
  ASSUME NEW c, IsComm(c), NEW L, NEW W, NEW a, NEW q, CommOK(c, L, W, a, q),
         NEW r \in c.ranks, W[r].where = "in", W[r].e.at = "vote", r # RootOf(c),
         c.ranks \subseteq L[Pos(L, r)].in, NEW val,
         NEW E, E = Entered(L, c.ranks, r, "hdr", val),
         NEW X, Moved(c, W, X, r), SameVars(W[r], X[r]),
         X[r].e.at = "hdr", X[r].e.inner = W[r].e.inner, X[r].g.table = W[r].g.table
  PROVE  CommOK(c, E, X, a, q)
<1>1. RootOf(c) \in c.ranks /\ Shape(L, c.ranks, RootOf(c)) /\ Sent(L, RootOf(c), q)
  BY DEF IsComm, CommOK, LogOK
<1>2. InOp(L, r, "vote")
  BY MemberOf DEF Serves
<1>3. Starts(L, "vote") /\ IsAt(L, r, 1)
  BY <1>1, <1>2, FullFacts
<1>4. CanEnter(L, RootOf(c), r, "hdr")
  BY <1>3 DEF CanEnter, Rested
<1>5. Owing(E, RootOf(c), r) <=> Owing(L, RootOf(c), r)
  BY <1>1, <1>4, EnterOwing
<1>6. IsTable(X[r].g.table, Expect(E, RootOf(c), r, Owned(W[RootOf(c)], Given(c, a)), q))
  BY <1>5, MemberOf DEF Expect
<1>7. ~ Starts(E, "split")
  <2>1. EnterView(L, E, c.ranks, RootOf(c), r, "hdr")
    BY <1>1, <1>4, EnterAny
  <2>2. ~ Starts(L, "split")
    <3>1. {"vote"} # {"split"}
      OBVIOUS
    <3> QED
      BY <3>1, <1>3 DEF Starts
  <2>3. Starts(E, "split") => Starts(L, "split") \/ "split" = "hdr"
    BY <2>1 DEF EnterView
  <2> QED
    BY <2>2, <2>3
<1>8. ASSUME q.op = "split"
      PROVE  Ballots(E, RootOf(c), [s \in c.ranks |-> X[s].e.inner])
  <2>1. [s \in c.ranks |-> X[s].e.inner] = [s \in c.ranks |-> W[s].e.inner]
    BY DEF Moved
  <2>2. Ballots(L, RootOf(c), [s \in c.ranks |-> X[s].e.inner])
    BY <1>8, <2>1 DEF CommOK, LogOK
  <2> QED
    BY <2>2, <1>1, <1>4, EnterBallots
<1> QED
  BY <1>4, <1>6, <1>7, <1>8, EnterOK

(* r moves on without entering anything.                                   *)
LEMMA StayOK ==
  ASSUME NEW c, IsComm(c), NEW L, NEW W, NEW a, NEW q, CommOK(c, L, W, a, q),
         NEW r \in c.ranks,
         NEW X, Moved(c, W, X, r), SameVars(W[r], X[r]), X[r].g.table = W[r].g.table,
         Serves(L, RootOf(c), X[r].e, r, q), X[r].e.inner = W[r].e.inner,
         r = RootOf(c) => Returned(L, r, X[r].e, q, c.ranks)
  PROVE  CommOK(c, L, X, a, q)
<1> DEFINE M == c.ranks  ro == RootOf(c)  V == Given(c, a)  O == Owned(W[ro], V)
<1>1. ro \in M
  BY DEF IsComm
<1>2. Tree(c, X, a) /\ Alive(c, X)
  BY MovedTree DEF CommOK
<1>3. Owned(X[ro], V) = O
  BY <1>1, SameOwned
<1>4. LogOK(c, L, X, q)
  <2>1. [s \in c.ranks |-> X[s].e.inner] = [s \in c.ranks |-> W[s].e.inner]
    BY DEF Moved
  <2> QED
    BY <2>1 DEF CommOK, LogOK
<1>5. ASSUME NEW s \in M PROVE MemberOK(c, L, X[s], s, O, V, q)
  <2>0. MemberOK(c, L, W[s], s, O, V, q)
    BY <1>5 DEF CommOK
  <2>1. CASE s # r
    BY <2>0, <2>1 DEF Moved
  <2>2. CASE s = r
    BY <2>0, <2>2 DEF MemberOK, Moved, SameVars
  <2> QED
    BY <2>1, <2>2
<1>6. RootOK(L, ro, X[ro], V, q, M)
  <2>0. RootOK(L, ro, W[ro], V, q, M)
    BY DEF CommOK
  <2>1. CASE ro = r
    BY <2>0, <2>1, <1>3 DEF RootOK, Moved, SameVars
  <2>2. CASE ro # r
    BY <2>0, <2>2, <1>1 DEF Moved
  <2> QED
    BY <2>1, <2>2
<1>7. KnownOK(X[ro], V, q, Cardinality(M))
  BY <1>3 DEF KnownOK, CommOK
<1> QED
  BY <1>2, <1>3, <1>4, <1>5, <1>6, <1>7 DEF CommOK

(* The root sends its next request.                                        *)
LEMMA SendOK ==
  ASSUME NEW c, IsComm(c), NEW L, NEW W, NEW a, NEW q, CommOK(c, L, W, a, q),
         NEW r \in c.ranks, r = RootOf(c), W[r].where = "in", W[r].e.at = "user", NEW p,
         NEW E, E = Entered(L, c.ranks, r, "hdr", p),
         NEW X, Moved(c, W, X, r), X[r].e.at = "hdr", X[r].e.views = W[r].e.views,
         X[r].g.comm = W[r].g.comm, X[r].g.table = W[r].g.table,
         Before(Owned(X[r], Given(c, a)), p) = Owned(W[r], Given(c, a)),
         X[r].e.own \cap Given(c, a) = {},
         \A v \in Owned(X[r], Given(c, a)) \cup Owned(W[r], Given(c, a)) :
            v.id < X[r].g.current_dvid,
         KnownOK(X[r], Given(c, a), p, Cardinality(c.ranks))
  PROVE  CommOK(c, E, X, a, p)
<1> DEFINE M == c.ranks  V == Given(c, a)  O == Owned(W[r], V)  P == Owned(X[r], V)
<1>1. Shape(L, M, r)
  BY DEF CommOK, LogOK
<1>2. Serves(L, r, W[r].e, r, q)
  BY MemberOf
<1>3. Rested(L, r) /\ \A s : ~ Owing(L, r, s)
  BY <1>1, <1>2, RestedRoot DEF Serves
<1>4. CanEnter(L, r, r, "hdr")
  BY <1>3 DEF CanEnter
<1>5. EnterView(L, E, M, r, r, "hdr")
  BY <1>1, <1>4, EnterAny
<1>6. /\ \A s \in M : Owing(E, r, s)
      /\ Sent(E, r, p) /\ ~ Starts(E, "split")
      /\ \A b : Ballots(E, r, b)
  BY <1>1, <1>3, EnterRequest
<1>7. Tree(c, X, a) /\ Alive(c, X)
  BY MovedTree DEF CommOK
<1>8. LogOK(c, E, X, p)
  BY <1>5, <1>6 DEF LogOK, EnterView
<1>9. ASSUME NEW s \in M PROVE MemberOK(c, E, X[s], s, P, V, p)
  <2>0. MemberOK(c, L, W[s], s, O, V, q)
    BY <1>9 DEF CommOK
  <2>1. Expect(E, r, s, P, p) = O /\ Expect(L, r, s, O, q) = O
    BY <1>3, <1>6, <1>9 DEF Expect
  <2>2. CASE s # r
    <3>1. X[s] = W[s]
      BY <2>2, <1>9 DEF Moved
    <3>2. /\ \A o : InOp(E, s, o) <=> InOp(L, s, o)
          /\ IsOut(E, s) <=> IsOut(L, s)
      BY <2>2, <1>5, <1>9 DEF EnterView
    <3>3. Serves(L, r, W[s].e, s, q) => Serves(E, r, W[s].e, s, p)
      BY <2>2, <3>2, <1>3, <1>6, <1>9 DEF Serves
    <3> QED
      BY <2>0, <2>1, <3>1, <3>2, <3>3, <1>3 DEF MemberOK
  <2>3. CASE s = r
    <3>1. Serves(E, r, X[r].e, r, p)
      BY <1>5 DEF Serves, EnterView
    <3> QED
      BY <2>0, <2>1, <2>3, <3>1 DEF MemberOK, Moved
  <2> QED
    BY <2>2, <2>3
<1>10. RootOK(E, r, X[r], V, p, M)
  <2>1. W[r].e.views = V
    BY DEF CommOK, RootOK
  <2>2. Returned(E, r, X[r].e, p, M)
    BY DEF Returned
  <2> QED
    BY <2>1, <2>2 DEF RootOK, Moved
<1> QED
  BY <1>7, <1>8, <1>9, <1>10 DEF CommOK

(* The last request of the outermost program ends the loop.                *)
LEMMA GoneOK ==
  ASSUME NEW c, IsComm(c), NEW L, NEW W, NEW a, NEW q, CommOK(c, L, W, a, q),
         NEW r \in c.ranks, W[r].where = "in", W[r].e.at = "hdr",
         RootOf(c) \in L[Pos(L, r)].in, q.op = "finalize",
         NEW X, Moved(c, W, X, r), SameVars(W[r], X[r]), X[r].g.table = W[r].g.table,
         X[r].e.at = "gone", X[r].e.inner = W[r].e.inner
  PROVE  CommOK(c, L, X, a, q)
<1>1. Shape(L, c.ranks, RootOf(c)) /\ Sent(L, RootOf(c), q)
  BY DEF CommOK, LogOK
<1>2. InOp(L, r, "hdr")
  BY MemberOf DEF Serves
<1>3. Owing(L, RootOf(c), r)
  BY <1>1, <1>2, HeaderFacts
<1>4. Serves(L, RootOf(c), X[r].e, r, q)
  BY <1>2, <1>3 DEF Serves
<1>5. Returned(L, r, X[r].e, q, c.ranks)
  BY DEF Returned
<1> QED
  BY <1>4, <1>5, StayOK

(* The call of the root returns.                                           *)
LEMMA VoteRootOK ==
  ASSUME NEW c, IsComm(c), NEW L, NEW W, NEW a, NEW q, CommOK(c, L, W, a, q),
         NEW r \in c.ranks, r = RootOf(c), W[r].where = "in", W[r].e.at = "vote",
         c.ranks \subseteq L[Pos(L, r)].in,
         NEW X, Moved(c, W, X, r), SameVars(W[r], X[r]), X[r].g.table = W[r].g.table,
         X[r].e.at = "user", X[r].e.inner = W[r].e.inner, NEW ok,
         X[r].e.last = [req |-> W[r].e.req, ok |-> ok],
         ok => \A s \in c.ranks : ~ L[Pos(L, r)].val[s].exc
  PROVE  CommOK(c, L, X, a, q)
<1>1. Shape(L, c.ranks, r)
  BY DEF CommOK, LogOK
<1>2. InOp(L, r, "vote") /\ Serves(L, r, W[r].e, r, q)
  BY MemberOf DEF Serves
<1>3. Starts(L, "vote") /\ IsAt(L, r, 1) /\ Pos(L, r) = 1
  BY <1>1, <1>2, FullFacts
<1>4. Rested(L, r)
  BY <1>3 DEF Rested
<1>5. W[r].e.req = q
  BY <1>1, <1>2, <1>4, RestedRoot DEF Serves
<1>6. Serves(L, r, X[r].e, r, q)
  BY <1>4 DEF Serves
<1>7. Returned(L, r, X[r].e, q, c.ranks)
  BY <1>3, <1>5 DEF Returned
<1> QED
  BY <1>6, <1>7, StayOK

(* A member is out of its engine, and not the last.                        *)
LEMMA DepartOK ==
  ASSUME NEW c, IsComm(c), NEW L, NEW W, NEW a, NEW q, CommOK(c, L, W, a, q),
         NEW r \in c.ranks, W[r].where = "in", W[r].e.at = "hdr",
         RootOf(c) \in L[Pos(L, r)].in, q.op = "finalize",
         NEW X, \A s \in c.ranks \ {r} : X[s] = W[s],
         X[r].where = "vote", X[r].req = W[r].req, X[r].up = W[r].up, Alive(c, X)
  PROVE  CommOK(c, L, X, a, q)
<1> DEFINE M == c.ranks  ro == RootOf(c)  V == Given(c, a)  O == Owned(W[ro], V)
<1>1. ro \in M /\ Shape(L, c.ranks, RootOf(c)) /\ Sent(L, RootOf(c), q)
  BY DEF IsComm, CommOK, LogOK
<1>2. InOp(L, r, "hdr")
  BY MemberOf DEF Serves
<1>3. Owing(L, RootOf(c), r)
  BY <1>1, <1>2, HeaderFacts
<1>4. Tree(c, X, a)
  BY DEF CommOK, Tree
<1>5. Owned(X[ro], V) = O
  <2>1. O = V
    BY DEF CommOK, KnownOK, Valid
  <2> QED
    BY <2>1, <1>1 DEF Owned
<1>6. LogOK(c, L, X, q)
  BY DEF CommOK, LogOK
<1>7. ASSUME NEW s \in M PROVE MemberOK(c, L, X[s], s, O, V, q)
  <2>0. MemberOK(c, L, W[s], s, O, V, q)
    BY <1>7 DEF CommOK
  <2>1. CASE s # r
    BY <2>0, <2>1
  <2>2. CASE s = r
    BY <2>2, <1>2, <1>3 DEF MemberOK
  <2> QED
    BY <2>1, <2>2
<1>8. RootOK(L, ro, X[ro], V, q, M)
  <2>0. RootOK(L, ro, W[ro], V, q, M)
    BY DEF CommOK
  <2>1. CASE ro = r
    BY <2>1 DEF RootOK
  <2>2. CASE ro # r
    BY <2>0, <2>2, <1>1
  <2> QED
    BY <2>1, <2>2
<1>9. KnownOK(X[ro], V, q, Cardinality(M))
  BY <1>5 DEF KnownOK, CommOK
<1> QED
  BY <1>4, <1>5, <1>6, <1>7, <1>8, <1>9 DEF CommOK

LEMMA OneOrTwo ==
  ASSUME NEW n \in 1 .. 2, NEW k \in 1 .. n
  PROVE  k = 1 \/ (k = 2 /\ n = 2)
OBVIOUS

(* Back in the request that made the context.                              *)
LEMMA ResumeOK ==
  ASSUME NEW c, IsComm(c), NEW L, NEW W, NEW a, NEW q, CommOK(c, L, W, a, q),
         NEW r \in c.ranks, W[r].where = "in", W[r].e.at = "split", Starts(L, "split"),
         NEW b, NEW E, E = Entered(L, c.ranks, r, "vote", Ballot(b)),
         NEW X, Moved(c, W, X, r), SameVars(W[r], X[r]), X[r].g.table = W[r].g.table,
         X[r].e.at = "vote", X[r].e.req = W[r].e.req, X[r].e.inner = b
  PROVE  CommOK(c, E, X, a, q)
<1> DEFINE M == c.ranks  ro == RootOf(c)
           f == [s \in M |-> W[s].e.inner]  g == [s \in M |-> X[s].e.inner]
<1>1. /\ ro \in M /\ Shape(L, M, ro) /\ Sent(L, ro, q)
      /\ q.op = "split" /\ Ballots(L, ro, f)
  BY DEF IsComm, CommOK, LogOK
<1>2. Serves(L, ro, W[r].e, r, q) /\ InOp(L, r, "split")
  BY MemberOf DEF Serves
<1>3. /\ Len(L) \in 1 .. 2
      /\ Len(L) > 1 => L[2].ops = {"vote"}
      /\ \A s : ~ Owing(L, ro, s)
  BY <1>1, StartsFacts
<1>4. IsAt(L, r, 1) /\ L[1].ops = {"split"}
  <2>1. PICK k \in 1 .. Len(L) : IsAt(L, r, k) /\ L[k].ops = {"split"}
    BY <1>2 DEF InOp
  <2>2. {"vote"} # {"split"}
    OBVIOUS
  <2>3. k = 1 \/ (k = 2 /\ Len(L) = 2)
    BY <2>1, <1>3, OneOrTwo
  <2>4. Len(L) = 2 => L[2].ops # {"split"}
    BY <2>2, <1>3
  <2>5. k # 2
    BY <2>1, <2>3, <2>4
  <2>6. k = 1
    BY <2>3, <2>5
  <2> QED
    BY <2>1, <2>6
<1>5. CanEnter(L, ro, r, "vote")
  BY <1>4 DEF CanEnter
<1>6. X[r].e.req = q
  BY <1>2, <1>3 DEF Serves
<1>7. IsTable(X[r].g.table, Expect(E, ro, r, Owned(W[ro], Given(c, a)), q))
  <2>1. \A O, K : Expect(K, ro, r, O, q) = O
    BY <1>1 DEF Expect, Before
  <2> QED
    BY <2>1, MemberOf
<1>8. Ballots(L, ro, g)
  <2>1. \A s \in M \ {r} : g[s] = f[s]
    BY DEF Moved
  <2>2. ASSUME NEW k \in 1 .. Len(L), L[k].ops = {"vote"} PROVE r \notin L[k].in
    <3>1. {"vote"} # {"split"}
      OBVIOUS
    <3>2. k = 1 \/ (k = 2 /\ Len(L) = 2)
      BY <1>3, OneOrTwo
    <3>3. k # 1
      BY <2>2, <3>1, <1>4
    <3>4. 1 < Len(L) => r \notin L[1 + 1].in
      BY <1>4 DEF IsAt
    <3>5. 1 + 1 = 2 /\ 1 < 2
      OBVIOUS
    <3> QED
      BY <3>2, <3>3, <3>4, <3>5
  <2>3. \A k \in 1 .. Len(L) : L[k].in \subseteq M
    BY <1>1 DEF Shape, EntryOK
  <2>4. ASSUME NEW k \in 1 .. Len(L), L[k].ops = {"vote"}, BallotsAt(L, f, k)
        PROVE  BallotsAt(L, g, k)
    BY <2>1, <2>2, <2>3, <2>4 DEF BallotsAt
  <2> QED
    BY <2>4, <1>1 DEF Ballots
<1>9. Ballots(E, ro, g)
  <2>1. g[r] = b
    OBVIOUS
  <2> QED
    BY <2>1, <1>1, <1>5, <1>8, EnterBallots
<1> QED
  BY <1>1, <1>5, <1>6, <1>7, <1>9, EnterOK

(* A communicator is new, and all its ranks are on their way into it.      *)
LEMMA CreateOK ==
  ASSUME NEW c, IsComm(c), c # World, NEW W, NEW a, a.op = "split", Proper(a.args),
         \A s \in c.ranks : /\ W[s].where = "split" /\ W[s].req = a
                            /\ c = SubComm(W[s].up, a.color, s)
  PROVE  CommOK(c, <<>>, W, a, NoReq)
<1> DEFINE M == c.ranks  ro == RootOf(c)  V == Given(c, a)
<1>1. ro \in M
  BY DEF IsComm
<1>2. Tree(c, W, a) /\ Alive(c, W)
  BY <1>1 DEF Tree, Alive
<1>3. Len(<<>>) = 0 /\ \A s : ~ Owing(<<>>, ro, s) /\ IsOut(<<>>, s)
  BY DEF Owing, IsOut
<1>4. Shape(<<>>, M, ro)
  BY <1>3 DEF Shape, Proper
<1>5. LogOK(c, <<>>, W, NoReq)
  BY <1>3, <1>4 DEF LogOK, Sent, Starts, NoReq
<1>6. Owned(W[ro], V) = V
  BY <1>1 DEF Owned
<1>7. ASSUME NEW s \in M PROVE MemberOK(c, <<>>, W[s], s, V, V, NoReq)
  BY <1>3, <1>7 DEF MemberOK, Expect
<1>8. RootOK(<<>>, ro, W[ro], V, NoReq, M)
  BY <1>1 DEF RootOK
<1>9. KnownOK(W[ro], V, NoReq, Cardinality(M))
  <2>1. Before(V, NoReq) = V
    BY DEF Before, NoReq
  <2>2. Distinct(V)
    <3>1. Len(a.args) \in Nat /\ DOMAIN a.args = 1 .. Len(a.args)
      BY ProperLen
    <3>2. V = {[id |-> i, obj |-> a.args[i].obj] : i \in DOMAIN a.args}
      BY DEF Given
    <3> QED
      BY <3>1, <3>2 DEF Distinct
  <2>3. Valid(NoReq, V, V, Cardinality(M))
    BY DEF Valid, NoReq
  <2> QED
    BY <2>1, <2>2, <2>3, <1>6 DEF KnownOK
<1> QED
  BY <1>2, <1>5, <1>6, <1>7, <1>8, <1>9 DEF CommOK

(* A member starts its engine on the communicator it was given.            *)
LEMMA ArriveOK ==
  ASSUME NEW c, IsComm(c), NEW L, NEW W, NEW a, NEW q, CommOK(c, L, W, a, q),
         NEW r \in c.ranks, W[r].where = "split",
         NEW X, \A s \in c.ranks \ {r} : X[s] = W[s],
         X[r].where = "in", X[r].req = W[r].req, X[r].up = W[r].up,
         X[r].e.own = {}, X[r].e.views = Given(c, a), X[r].e.last = NoReq,
         X[r].e.at = (IF r = RootOf(c) THEN "user" ELSE "hdr"),
         X[r].g.comm = c, IsTable(X[r].g.table, Given(c, a)),
         \A v \in Given(c, a) : v.id < X[r].g.current_dvid,
         NEW val,
         NEW E, E = IF r = RootOf(c) THEN L ELSE Entered(L, c.ranks, r, "hdr", val)
  PROVE  CommOK(c, E, X, a, q) /\ ~ Starts(L, "split") /\ ~ Starts(E, "split")
<1> DEFINE M == c.ranks  ro == RootOf(c)  V == Given(c, a)  O == Owned(W[ro], V)
<1>1. ro \in M /\ Shape(L, M, ro) /\ Sent(L, ro, q)
  BY DEF IsComm, CommOK, LogOK
<1>2. MemberOK(c, L, W[r], r, O, V, q)
  BY DEF CommOK
<1>3. IsOut(L, r) /\ Expect(L, ro, r, O, q) = V
  BY <1>2 DEF MemberOK
<1>4. CanEnter(L, ro, r, "hdr")
  BY <1>3 DEF CanEnter, Rested
<1>5. ~ Starts(L, "split")
  BY <1>1, <1>3, StartsFacts DEF Starts, IsOut
<1>6. r # ro => EnterView(L, E, M, ro, r, "hdr")
  BY <1>1, <1>4, EnterAny
<1>7. /\ \A s \in M : Owing(E, ro, s) <=> Owing(L, ro, s)
      /\ Sent(E, ro, q)
  <2>1. CASE r = ro
    BY <2>1, <1>1
  <2>2. CASE r # ro
    BY <2>2, <1>1, <1>4, EnterOwing
  <2> QED
    BY <2>1, <2>2
<1>8. ~ Starts(E, "split") /\ Shape(E, M, ro)
  BY <1>1, <1>5, <1>6 DEF EnterView
<1>9. Tree(c, X, a) /\ Alive(c, X)
  BY DEF CommOK, Tree, Alive
<1>10. Owned(X[ro], V) = O
  BY <1>1 DEF Owned
<1>11. LogOK(c, E, X, q)
  <2>1. ASSUME q.op = "split" PROVE Ballots(E, ro, [s \in M |-> X[s].e.inner])
    <3> DEFINE f == [s \in M |-> W[s].e.inner]  g == [s \in M |-> X[s].e.inner]
    <3>1. Ballots(L, ro, f)
      BY <2>1 DEF CommOK, LogOK
    <3>2. \A s \in M \ {r} : g[s] = f[s]
      OBVIOUS
    <3>3. \A k \in 1 .. Len(L) : L[k].in \subseteq M /\ r \notin L[k].in
      <4>1. Pos(L, r) = 0
        BY <1>1, <1>3, PosOut
      <4>2. \A k \in 1 .. Len(L) : r \in L[k].in <=> k <= Pos(L, r)
        BY <1>1, Positions
      <4>3. Len(L) \in 0 .. 3
        BY <1>1, ShapeLen
      <4>4. \A k \in 1 .. Len(L) : r \notin L[k].in
        BY <4>1, <4>2, <4>3
      <4> QED
        BY <4>4, <1>1 DEF Shape, EntryOK
    <3>4. ASSUME NEW k \in 1 .. Len(L), BallotsAt(L, f, k) PROVE BallotsAt(L, g, k)
      BY <3>2, <3>3, <3>4 DEF BallotsAt
    <3>5. Ballots(L, ro, g)
      BY <3>1, <3>4 DEF Ballots
    <3> QED
      BY <3>5, <1>1, <1>4, EnterBallots
  <2> QED
    BY <2>1, <1>7, <1>8 DEF LogOK
<1>12. ASSUME NEW s \in M PROVE MemberOK(c, E, X[s], s, O, V, q)
  <2>0. MemberOK(c, L, W[s], s, O, V, q)
    BY <1>12 DEF CommOK
  <2>1. CASE s # r
    <3>1. Unmoved(c, L, E, s)
      BY <2>1, <1>6, <1>7, <1>12 DEF Unmoved, EnterView
    <3> QED
      BY <2>0, <2>1, <3>1, <1>12, OtherMember
  <2>2. CASE s = r
    <3>1. Expect(E, ro, r, O, q) = V
      BY <1>3, <1>7 DEF Expect
    <3>2. Serves(E, ro, X[r].e, r, q)
      <4>1. CASE r = ro
        BY <4>1, <1>3 DEF Serves, Rested
      <4>2. CASE r # ro
        <5>1. InOp(E, r, "hdr")
          BY <4>2, <1>6 DEF EnterView
        <5> QED
          BY <4>2, <5>1 DEF Serves
      <4> QED
        BY <4>1, <4>2
    <3> QED
      BY <2>2, <3>1, <3>2 DEF MemberOK
  <2> QED
    BY <2>1, <2>2
<1>13. RootOK(E, ro, X[ro], V, q, M)
  <2>0. RootOK(L, ro, W[ro], V, q, M)
    BY DEF CommOK
  <2>1. CASE r = ro
    <3>1. q = NoReq
      BY <2>0, <2>1 DEF RootOK
    <3>2. Before(V, q) = V
      BY <3>1 DEF Before, NoReq
    <3>3. Owned(X[ro], V) = V
      BY <2>1 DEF Owned
    <3>4. Returned(E, ro, X[ro].e, q, M)
      BY <2>1 DEF Returned
    <3> QED
      BY <2>1, <3>2, <3>3, <3>4 DEF RootOK
  <2>2. CASE r # ro
    <3>1. X[ro] = W[ro]
      BY <2>2, <1>1
    <3>2. Starts(L, "vote") /\ IsAt(L, ro, 1) =>
             /\ Starts(E, "vote") /\ IsAt(E, ro, 1)
             /\ \A s \in M : E[1].val[s] = L[1].val[s]
      BY <2>2, <1>1, <1>4, EnterFirst
    <3>3. Returned(L, ro, W[ro].e, q, M) => Returned(E, ro, W[ro].e, q, M)
      BY <3>2 DEF Returned
    <3> QED
      BY <3>1, <3>3, <2>0 DEF RootOK
  <2> QED
    BY <2>1, <2>2
<1>14. KnownOK(X[ro], V, q, Cardinality(M))
  BY <1>10 DEF KnownOK, CommOK
<1> QED
  BY <1>5, <1>8, <1>9, <1>10, <1>11, <1>12, <1>13, <1>14 DEF CommOK

(* Who may act on a communicator is not waiting for a context of it.       *)
LEMMA NotSplitting ==
  ASSUME NEW c, IsComm(c), NEW L, NEW W, NEW a, NEW q, CommOK(c, L, W, a, q),
         NEW r \in c.ranks, W[r].where = "in",
         \/ W[r].e.at \in {"hdr", "user"}
         \/ W[r].e.at = "vote" /\ c.ranks \subseteq L[Pos(L, r)].in
  PROVE  ~ Starts(L, "split")
<1>1. SUFFICES ASSUME Starts(L, "split") PROVE FALSE
  OBVIOUS
<1>2. RootOf(c) \in c.ranks /\ Shape(L, c.ranks, RootOf(c))
  BY DEF IsComm, CommOK, LogOK
<1>3. Serves(L, RootOf(c), W[r].e, r, q)
  BY MemberOf
<1>4. {"split"} # {"vote"} /\ L[1].ops = {"split"} /\ L[1].in = c.ranks
  BY <1>1, <1>2, StartsFacts DEF Starts
<1>5. CASE W[r].e.at = "hdr"
  BY <1>1, <1>2, <1>3, <1>5, StartsFacts DEF Serves, InOp
<1>6. CASE W[r].e.at = "user"
  BY <1>1, <1>2, <1>3, <1>4, <1>6, StartsFacts DEF Serves, Rested, IsOut, Starts
<1>7. CASE W[r].e.at = "vote" /\ c.ranks \subseteq L[Pos(L, r)].in
  BY <1>2, <1>3, <1>4, <1>7, FullFacts DEF Serves, Starts
<1> QED
  BY <1>5, <1>6, <1>7

(* When the split is the first entry, the last rank has just entered it.   *)
LEMMA EnterSplit ==
  ASSUME NEW L, NEW M, NEW ro \in M, Shape(L, M, ro), NEW r \in M, NEW val,
         Serving(L, ro, r, "split"), NEW E, E = Entered(L, M, r, "split", val),
         Starts(E, "split")
  PROVE  \A s \in M : InOp(E, s, "split")
<1>1. CanEnter(L, ro, r, "split")
  BY DEF CanEnter
<1>2. EnterView(L, E, M, ro, r, "split")
  BY <1>1, EnterAny
<1>3. Shape(E, M, ro)
  BY <1>2 DEF EnterView
<1>4. /\ E[1].in = M /\ Len(E) \in 1 .. 2 /\ E[1].ops = {"split"}
      /\ Len(E) > 1 => E[2].ops = {"vote"}
      /\ \A s : ~ Owing(E, ro, s)
  BY <1>3, StartsFacts DEF Starts
<1>5. \A s \in M \ {r} : ~ Owing(L, ro, s)
  BY <1>1, <1>4, EnterOwing
<1>6. PICK k \in 1 .. Len(L) : /\ IsAt(L, r, k) /\ L[k].ops = {"hdr"} /\ ro \in L[k].in
                               /\ L[k].val[ro].op # "finalize"
                               /\ "split" = IF L[k].val[ro].op = "split" THEN "split" ELSE "vote"
  BY DEF Serving
<1>7. Len(L) \in 0 .. 3
  BY ShapeLen
<1>8. ASSUME NEW s \in M, s # r PROVE ~ InOp(L, s, "vote")
  <2>1. SUFFICES ASSUME NEW j \in 1 .. Len(L), IsAt(L, s, j), L[j].ops = {"vote"} PROVE FALSE
    BY DEF InOp
  <2>2. ~ OwesAt(L, ro, s, k)
    BY <1>5, <1>6, <1>8 DEF Owing
  <2>3. k < Len(L) /\ s \in L[k + 1].in
    BY <1>6, <2>2 DEF OwesAt
  <2>4. Follows(L, M, ro, k)
    BY <1>6, <1>7, <2>3 DEF Shape
  <2>5. L[k + 1].ops = {"split"} /\ r \notin L[k + 1].in
    BY <1>6, <2>3, <2>4 DEF Follows, Served, IsAt
  <2>6. Pos(L, s) = j
    BY <2>1, PosOf
  <2>7. k + 1 \in 1 .. Len(L)
    BY <1>6, <1>7, <2>3
  <2>8. k + 1 <= j
    BY <2>3, <2>6, <2>7, Positions
  <2>9. {"split"} # {"hdr"} /\ {"split"} # {"vote"}
    OBVIOUS
  <2>10. k + 1 # j
    BY <2>1, <2>5, <2>9
  <2>11. k = 1 /\ j = 3 /\ Len(L) = 3
    BY <1>6, <1>7, <2>1, <2>8, <2>10
  <2>12. Follows(L, M, ro, 2)
    BY <2>11 DEF Shape
  <2>13. L[2].in = M
    BY <2>5, <2>9, <2>11, <2>12 DEF Follows
  <2> QED
    BY <2>5, <2>11, <2>13
<1>9. ASSUME NEW s \in M PROVE InOp(E, s, "split")
  <2>1. CASE s = r
    BY <2>1, <1>2 DEF EnterView
  <2>2. CASE s # r
    <3>1. ~ InOp(E, s, "vote")
      BY <1>2, <1>8, <1>9, <2>2 DEF EnterView
    <3>2. Len(E) > 1 => s \notin E[2].in
      <4>1. SUFFICES ASSUME Len(E) = 2, s \in E[2].in PROVE FALSE
        BY <1>4
      <4>2. IsAt(E, s, 2)
        BY <4>1 DEF IsAt
      <4> QED
        BY <4>1, <4>2, <3>1, <1>4 DEF InOp
    <3>3. IsAt(E, s, 1)
      BY <1>4, <1>9, <3>2 DEF IsAt
    <3> QED
      BY <3>3, <1>4 DEF InOp
  <2> QED
    BY <2>1, <2>2
<1> QED
  BY <1>9

(* A rank is in one collective of a communicator at a time.                *)
LEMMA OneOp ==
  ASSUME NEW L, NEW M, NEW ro, Shape(L, M, ro), NEW s, NEW o, NEW p,
         InOp(L, s, o), InOp(L, s, p)
  PROVE  o = p
<1>1. PICK k \in 1 .. Len(L) : IsAt(L, s, k) /\ L[k].ops = {o}
  BY DEF InOp
<1>2. PICK j \in 1 .. Len(L) : IsAt(L, s, j) /\ L[j].ops = {p}
  BY DEF InOp
<1>3. k = j
  BY <1>1, <1>2, PosOf
<1> QED
  BY <1>1, <1>2, <1>3

---------------------------------------------------------------------------
(* The state.                                                              *)

IsEngine(e) ==
  /\ DOMAIN e = {"at", "f", "req", "own", "views", "exc", "inner", "n", "last"}
  /\ IsFiniteSet(e.own) /\ IsFiniteSet(e.views)
  /\ e.at \in {"user", "hdr", "split", "vote", "gone"} /\ e.exc \in BOOLEAN
IsGlobals(g) ==
  /\ DOMAIN g = {"comm", "table", "current_dvid"}
  /\ g.current_dvid \in Nat \ {0}
  /\ DOMAIN g.table \subseteq Nat \ {0} /\ g.table = [i \in DOMAIN g.table |-> g.table[i]]

LevelOK(r, k) ==
  /\ IsEngine(act[r][k]) /\ IsGlobals(Globals(r, k))
  /\ Globals(r, k).comm \in DOMAIN log /\ r \in Globals(r, k).comm.ranks
  /\ lvl(Globals(r, k).comm) = k
  /\ k < Depth(r) => act[r][k].at = "split"
TopOK(r) ==
  /\ Top(r).at = "gone" => Depth(r) = 1
  /\ Top(r).at = "split" => ctx[r] = push_context(saved[r][Depth(r)])
RankOK(r) ==
  /\ Proper(act[r]) /\ Proper(saved[r]) /\ Depth(r) >= 1
  /\ Len(saved[r]) = Depth(r) - 1 + (IF Top(r).at = "split" THEN 1 ELSE 0)
  /\ \A k \in 1 .. Depth(r) : LevelOK(r, k)
  /\ TopOK(r) /\ Globals(r, 1).comm = World

TypeInv ==
  /\ act = [r \in Rank |-> act[r]] /\ ctx = [r \in Rank |-> ctx[r]]
  /\ saved = [r \in Rank |-> saved[r]] /\ log = [c \in DOMAIN log |-> log[c]]
  /\ has = [r \in Rank |-> has[r]]

(* The communicator another was split from is in the split, or past it.    *)
UpOK(c) ==
  c # World => \A s \in c.ranks : LET up == View(s, lvl(c)).up IN
                 up \in DOMAIN log /\ Starts(log[up], "split")

(* Whoever is to make a communicator makes it with all its ranks.          *)
Coming(s, c) == View(s, lvl(c) + 1).where = "split"
Child(s, c) == SubComm(c, View(s, lvl(c)).e.req.color, s)
Orphans(c) ==
  Starts(log[c], "split") =>
    \A s \in c.ranks : Coming(s, c) /\ Child(s, c) \notin DOMAIN log =>
      \A t \in Child(s, c).ranks : View(t, lvl(c)).e.at = "split"

CommInv(c) == IsComm(c) /\ \E a, q : CommOK(c, log[c], Views(c), a, q)
Inv ==
  /\ TypeInv
  /\ \A r \in Rank : RankOK(r)
  /\ \A c \in DOMAIN log : CommInv(c) /\ UpOK(c) /\ Orphans(c)

LEMMA RankFacts ==
  ASSUME NEW r \in Rank, RankOK(r)
  PROVE  /\ Depth(r) \in Nat /\ Depth(r) >= 1 /\ DOMAIN act[r] = 1 .. Depth(r)
         /\ Len(saved[r]) \in Nat /\ DOMAIN saved[r] = 1 .. Len(saved[r])
         /\ \A k \in 1 .. Depth(r) - 1 : Globals(r, k) = saved[r][k]
         /\ Top(r).at # "split" => Len(saved[r]) = Depth(r) - 1 /\ Globals(r, Depth(r)) = ctx[r]
         /\ Top(r).at = "split" => /\ Len(saved[r]) = Depth(r)
                                   /\ Globals(r, Depth(r)) = saved[r][Depth(r)]
                                   /\ ctx[r] = push_context(saved[r][Depth(r)])
         /\ comm(r) = Globals(r, Depth(r)).comm
         /\ IsEngine(Top(r)) /\ IsGlobals(Globals(r, Depth(r)))
         /\ comm(r) \in DOMAIN log /\ r \in comm(r).ranks /\ lvl(comm(r)) = Depth(r)
<1> DEFINE d == Depth(r)
<1>1. /\ Proper(act[r]) /\ Proper(saved[r]) /\ d >= 1 /\ TopOK(r)
      /\ Len(saved[r]) = d - 1 + (IF Top(r).at = "split" THEN 1 ELSE 0)
  BY DEF RankOK
<1>2. d \in Nat /\ DOMAIN act[r] = 1 .. d
  BY <1>1, ProperLen DEF Depth
<1>3. Len(saved[r]) \in Nat /\ DOMAIN saved[r] = 1 .. Len(saved[r])
  BY <1>1, ProperLen
<1>4. LevelOK(r, d)
  BY <1>1, <1>2 DEF RankOK
<1>5. \A k \in 1 .. d - 1 : Globals(r, k) = saved[r][k]
  BY <1>1, <1>2, <1>3 DEF Globals
<1>6. Top(r).at # "split" => Len(saved[r]) = d - 1 /\ Globals(r, d) = ctx[r]
  BY <1>1, <1>2, <1>3 DEF Globals
<1>7. Top(r).at = "split" => /\ Len(saved[r]) = d
                             /\ Globals(r, d) = saved[r][d]
                             /\ ctx[r] = push_context(saved[r][d])
  BY <1>1, <1>2, <1>3 DEF Globals, TopOK
<1>8. comm(r) = Globals(r, d).comm
  <2>1. CASE Top(r).at # "split"
    BY <2>1, <1>6 DEF comm
  <2>2. CASE Top(r).at = "split"
    <3>1. IsGlobals(saved[r][d])
      BY <2>2, <1>7, <1>4 DEF LevelOK
    <3>2. push_context(saved[r][d]).comm = saved[r][d].comm
      BY <3>1 DEF push_context, IsGlobals
    <3> QED
      BY <2>2, <3>2, <1>7 DEF comm
  <2> QED
    BY <2>1, <2>2
<1> HIDE DEF d
<1>9. /\ IsEngine(Top(r)) /\ IsGlobals(Globals(r, d))
      /\ comm(r) \in DOMAIN log /\ r \in comm(r).ranks /\ lvl(comm(r)) = d
  BY <1>4, <1>8 DEF LevelOK, Top, d
<1> QED
  BY <1>1, <1>2, <1>3, <1>5, <1>6, <1>7, <1>8, <1>9 DEF d

(* A view from inside, and from the request a context was made by.         *)
LEMMA ViewIn ==
  ASSUME NEW s, Depth(s) \in Nat, NEW k \in Nat, k <= Depth(s)
  PROVE  /\ View(s, k).where = "in" /\ View(s, k).e = act[s][k] /\ View(s, k).g = Globals(s, k)
         /\ View(s, k).req = (IF k > 1 THEN act[s][k - 1].req ELSE NoReq)
         /\ View(s, k).up = (IF k > 1 THEN Globals(s, k - 1).comm ELSE NoReq)
BY DEF View

LEMMA ViewBelow ==
  ASSUME NEW s, Depth(s) \in Nat, Depth(s) >= 1, NEW k, k = Depth(s) + 1
  PROVE  /\ View(s, k).where = Top(s).at
         /\ View(s, k).req = Top(s).req /\ View(s, k).up = Globals(s, Depth(s)).comm
<1>1. k - 1 = Depth(s) /\ k > 1 /\ ~ (Depth(s) >= k) /\ Depth(s) >= k - 1
  OBVIOUS
<1> QED
  BY <1>1 DEF View, Top

LEMMA ViewNone ==
  ASSUME NEW s, Depth(s) \in Nat, NEW k \in Nat, k > Depth(s) + 1
  PROVE  View(s, k).where = "none"
BY DEF View

(* A step of r that leaves it inside the same engines: its innermost       *)
(* engine becomes e, its globals g.                                        *)
Stay(r, e, g) ==
  /\ act' = SetTop(r, e)
  /\ IsEngine(e) /\ IsGlobals(g) /\ g.comm = comm(r)
  /\ e.at = "gone" => Depth(r) = 1
  /\ \/ e.at # "split" /\ saved' = saved /\ ctx' = [ctx EXCEPT ![r] = g]
     \/ /\ e.at = "split" /\ g = ctx[r]
        /\ saved' = [saved EXCEPT ![r] = Append(@, ctx[r])]
        /\ ctx' = [ctx EXCEPT ![r] = push_context(@)]

LEMMA ProperExcept ==
  ASSUME NEW L, Proper(L), NEW k \in 1 .. Len(L), NEW x
  PROVE  Proper([L EXCEPT ![k] = x]) /\ Len([L EXCEPT ![k] = x]) = Len(L)
<1> DEFINE A == {L[i] : i \in DOMAIN L} \cup {x}
<1>1. SUFFICES ASSUME NEW K, K = [L EXCEPT ![k] = x] PROVE Proper(K) /\ Len(K) = Len(L)
  OBVIOUS
<1>2. L \in Seq(A) /\ x \in A
  BY DEF Proper
<1> HIDE DEF A
<1>3. K \in Seq(A) /\ Len(K) = Len(L)
  BY <1>1, <1>2
<1>4. \A i \in 1 .. Len(K) : K[i] \in {K[m] : m \in DOMAIN K}
  BY <1>3
<1> QED
  BY <1>3, <1>4 DEF Proper

LEMMA StayRank ==
  ASSUME TypeInv, NEW r \in Rank, RankOK(r), Top(r).at # "split", NEW e, NEW g, Stay(r, e, g),
         DOMAIN log' = DOMAIN log, has' = [s \in Rank |-> has'[s]],
         log' = [x \in DOMAIN log' |-> log'[x]]
  PROVE  /\ TypeInv' /\ Depth(r)' = Depth(r) /\ Top(r)' = e
         /\ \A k \in 1 .. Depth(r) - 1 : act'[r][k] = act[r][k] /\ Globals(r, k)' = Globals(r, k)
         /\ act'[r][Depth(r)] = e
         /\ \A k : k = Depth(r) => Globals(r, k)' = g
         /\ RankOK(r)'
         /\ \A s \in Rank \ {r} : act'[s] = act[s] /\ saved'[s] = saved[s] /\ ctx'[s] = ctx[s]
<1> DEFINE d == Depth(r)
<1>1. /\ d \in Nat /\ d >= 1 /\ DOMAIN act[r] = 1 .. d
      /\ Len(saved[r]) = d - 1 /\ DOMAIN saved[r] = 1 .. d - 1
      /\ \A k \in 1 .. d - 1 : Globals(r, k) = saved[r][k]
      /\ Globals(r, d) = ctx[r] /\ lvl(comm(r)) = d /\ comm(r) = Globals(r, d).comm
      /\ comm(r) \in DOMAIN log /\ r \in comm(r).ranks
  BY RankFacts
<1>2. /\ act' = [act EXCEPT ![r] = [act[r] EXCEPT ![d] = e]]
      /\ IsEngine(e) /\ IsGlobals(g) /\ g.comm = comm(r)
      /\ e.at = "gone" => d = 1
  BY DEF Stay, SetTop, Depth
<1>3. /\ DOMAIN act = Rank /\ DOMAIN saved = Rank /\ DOMAIN ctx = Rank
  BY DEF TypeInv
<1>4. act' = [s \in Rank |-> act'[s]] /\ act'[r] = [act[r] EXCEPT ![d] = e]
  BY <1>2, <1>3
<1>5. saved' = [s \in Rank |-> saved'[s]] /\ ctx' = [s \in Rank |-> ctx'[s]]
  BY <1>3 DEF Stay, TypeInv
<1>6. TypeInv'
  BY <1>4, <1>5 DEF TypeInv
<1>7. \A s \in Rank \ {r} : act'[s] = act[s] /\ saved'[s] = saved[s] /\ ctx'[s] = ctx[s]
  BY <1>2, <1>3 DEF Stay
<1>8. Proper(act[r]) /\ Proper(saved[r])
  BY DEF RankOK
<1>9. Proper(act'[r]) /\ Len(act'[r]) = d
  <2>1. SUFFICES ASSUME NEW L, L = act[r], NEW k \in 1 .. Len(L), k = d, Len(L) = d
                 PROVE  Proper([L EXCEPT ![k] = e]) /\ Len([L EXCEPT ![k] = e]) = Len(L)
    BY <1>1, <1>4 DEF Depth
  <2> QED
    BY <2>1, <1>8, ProperExcept
<1>10. \A k \in 1 .. d - 1 : act'[r][k] = act[r][k]
  BY <1>1, <1>4
<1>11. act'[r][d] = e
  BY <1>1, <1>4
<1>12. Depth(r)' = d /\ Top(r)' = e
  BY <1>9, <1>11 DEF Depth, Top
<1> HIDE DEF d
<1>13. /\ \A k \in 1 .. d - 1 : Globals(r, k)' = Globals(r, k)
       /\ \A k : k = d => Globals(r, k)' = g
       /\ Proper(saved'[r]) /\ TopOK(r)'
       /\ Len(saved'[r]) = d - 1 + (IF Top(r)'.at = "split" THEN 1 ELSE 0)
  <2>1. CASE e.at # "split"
    <3>1. saved' = saved /\ ctx'[r] = g
      BY <1>3, <2>1 DEF Stay
    <3>2. \A k \in 1 .. d - 1 : Globals(r, k)' = Globals(r, k)
      BY <3>1, <1>1 DEF Globals
    <3>3. \A k : k = d => Globals(r, k)' = g
      BY <3>1, <1>1 DEF Globals
    <3>4. Proper(saved'[r]) /\ Len(saved'[r]) = d - 1 + (IF Top(r)'.at = "split" THEN 1 ELSE 0)
      BY <3>1, <1>1, <1>8, <1>12, <2>1
    <3>5. TopOK(r)'
      BY <1>2, <1>12, <2>1 DEF TopOK
    <3> QED
      BY <3>2, <3>3, <3>4, <3>5
  <2>2. CASE e.at = "split"
    <3>1. /\ saved'[r] = Append(saved[r], ctx[r]) /\ ctx'[r] = push_context(ctx[r]) /\ g = ctx[r]
      BY <1>3, <2>2 DEF Stay
    <3>2. Proper(saved'[r]) /\ Len(saved'[r]) = d
      BY <3>1, <1>1, <1>8 DEF Proper
    <3>3. saved'[r][d] = ctx[r] /\ \A k \in 1 .. d - 1 : saved'[r][k] = saved[r][k]
      BY <3>1, <1>1, <1>8 DEF Proper
    <3>4. \A k \in 1 .. d - 1 : Globals(r, k)' = Globals(r, k)
      BY <3>2, <3>3, <1>1 DEF Globals
    <3>5. \A k : k = d => Globals(r, k)' = g
      BY <3>1, <3>2, <3>3, <1>1 DEF Globals
    <3>6. Len(saved'[r]) = d - 1 + (IF Top(r)'.at = "split" THEN 1 ELSE 0)
      BY <3>2, <1>1, <1>12, <2>2
    <3>7. TopOK(r)'
      BY <3>1, <3>3, <1>2, <1>12, <2>2 DEF TopOK
    <3> QED
      BY <3>2, <3>4, <3>5, <3>6, <3>7
  <2> QED
    BY <2>1, <2>2
<1>14. ASSUME NEW k \in 1 .. d PROVE LevelOK(r, k)'
  <2>1. LevelOK(r, k)
    BY <1>14 DEF RankOK, d
  <2>2. CASE k < d
    <3>1. k \in 1 .. d - 1
      BY <2>2, <1>1
    <3> QED
      BY <2>1, <2>2, <3>1, <1>10, <1>12, <1>13 DEF LevelOK, d
  <2>3. CASE k = d
    BY <2>3, <1>1, <1>2, <1>11, <1>12, <1>13 DEF LevelOK
  <2> QED
    BY <2>2, <2>3, <1>1
<1>15. Globals(r, 1)'.comm = World
  <2>1. Globals(r, 1).comm = World
    BY DEF RankOK
  <2>2. CASE d = 1
    BY <2>1, <2>2, <1>1, <1>2, <1>13 DEF d
  <2>3. CASE d # 1
    BY <2>1, <2>3, <1>1, <1>13
  <2> QED
    BY <2>2, <2>3
<1>16. RankOK(r)'
  BY <1>1, <1>9, <1>12, <1>13, <1>14, <1>15 DEF RankOK
<1> QED
  BY <1>1, <1>6, <1>7, <1>10, <1>11, <1>12, <1>13, <1>16 DEF d

(* Which communicators r is a member of, and at what level.                *)
LEMMA LevelOf ==
  ASSUME Inv, NEW r \in Rank, NEW c \in DOMAIN log, r \in c.ranks
  PROVE  /\ lvl(c) \in 1 .. Depth(r) + 1
         /\ lvl(c) <= Depth(r) => c = Globals(r, lvl(c)).comm
         /\ lvl(c) = Depth(r) + 1 => /\ Top(r).at \in {"split", "vote"} /\ c # World
                                     /\ Starts(log[comm(r)], "split")
                                     /\ c = SubComm(comm(r), Top(r).req.color, r)
<1> DEFINE k == lvl(c)  d == Depth(r)
<1>1. RankOK(r) /\ CommInv(c) /\ UpOK(c)
  BY DEF Inv
<1>2. d \in Nat /\ d >= 1 /\ comm(r) = Globals(r, d).comm
  BY <1>1, RankFacts
<1>3. PICK a, q : CommOK(c, log[c], Views(c), a, q)
  BY <1>1 DEF CommInv
<1>4. IsComm(c) /\ k \in Nat /\ k >= 1
  BY <1>1, ProperLen DEF CommInv, IsComm, lvl
<1>5. Views(c)[r] = View(r, k)
  BY DEF Views
<1>6. /\ View(r, k).where \in {"in", "split", "vote"}
      /\ View(r, k).where = "in" => View(r, k).g.comm = c
  BY <1>3, <1>5 DEF CommOK, MemberOK
<1> HIDE DEF k, d
<1>7. k <= d + 1
  BY <1>2, <1>4, <1>6, ViewNone DEF d
<1>8. k <= d => c = Globals(r, k).comm
  BY <1>2, <1>4, <1>6, ViewIn DEF d
<1>9. ASSUME k = d + 1
      PROVE  /\ Top(r).at \in {"split", "vote"} /\ c # World
             /\ Starts(log[comm(r)], "split")
             /\ c = SubComm(comm(r), Top(r).req.color, r)
  <2>1. /\ View(r, k).where = Top(r).at
        /\ View(r, k).req = Top(r).req /\ View(r, k).up = comm(r)
    BY <1>2, <1>9, ViewBelow DEF d
  <2>2. Top(r).at \in {"split", "vote"}
    <3>1. Top(r).at # "in"
      BY <1>1, RankFacts DEF IsEngine
    <3> QED
      BY <2>1, <3>1, <1>6
  <2>3. c # World
    <3>1. lvl(World) = 1
      BY DEF lvl, World
    <3> QED
      BY <3>1, <1>2, <1>9 DEF k
  <2>4. Starts(log[comm(r)], "split")
    BY <2>1, <2>3, <1>1 DEF UpOK, k
  <2>5. c = SubComm(comm(r), Top(r).req.color, r)
    <3>1. View(r, k).req = a /\ c = SubComm(View(r, k).up, a.color, r)
      BY <1>3, <1>5, <2>3 DEF CommOK, Tree
    <3> QED
      BY <2>1, <3>1
  <2> QED
    BY <2>2, <2>3, <2>4, <2>5
<1> QED
  BY <1>2, <1>4, <1>7, <1>8, <1>9 DEF k, d

Became(x, w, e, g) ==
  x.where = "in" /\ x.e = e /\ x.g = g /\ x.req = w.req /\ x.up = w.up

LEMMA StayViews ==
  ASSUME TypeInv, NEW r \in Rank, RankOK(r), Top(r).at # "split", NEW e, NEW g, Stay(r, e, g),
         DOMAIN log' = DOMAIN log, has' = [s \in Rank |-> has'[s]],
         log' = [x \in DOMAIN log' |-> log'[x]]
  PROVE  /\ \A s \in Rank \ {r} : \A k : View(s, k)' = View(s, k)
         /\ \A k \in 1 .. Depth(r) - 1 : View(r, k)' = View(r, k)
         /\ \A k : k = Depth(r) => Became(View(r, k)', View(r, k), e, g)
<1>1. PICK d : d = Depth(r)
  OBVIOUS
<1>2. /\ Depth(r)' = d
      /\ \A k \in 1 .. d - 1 : act'[r][k] = act[r][k] /\ Globals(r, k)' = Globals(r, k)
      /\ act'[r][d] = e
      /\ Globals(r, d)' = g
      /\ \A s \in Rank \ {r} : act'[s] = act[s] /\ saved'[s] = saved[s] /\ ctx'[s] = ctx[s]
  BY <1>1, StayRank
<1>3. d \in Nat /\ d >= 1
  BY <1>1, RankFacts
<1>4. ASSUME NEW s \in Rank \ {r}, NEW k PROVE View(s, k)' = View(s, k)
  <2>1. act'[s] = act[s] /\ saved'[s] = saved[s] /\ ctx'[s] = ctx[s]
    BY <1>2, <1>4
  <2> QED
    BY <2>1 DEF View, Depth, Globals
<1>5. ASSUME NEW k \in 1 .. d - 1 PROVE View(r, k)' = View(r, k)
  <2>1. Depth(r)' = Depth(r) /\ act'[r][k] = act[r][k] /\ Globals(r, k)' = Globals(r, k)
    BY <1>1, <1>2, <1>5
  <2>2. k > 1 => act'[r][k - 1] = act[r][k - 1] /\ Globals(r, k - 1)' = Globals(r, k - 1)
    BY <1>1, <1>2, <1>3, <1>5
  <2>3. k \in Nat /\ Depth(r) >= k /\ Depth(r)' >= k
    BY <1>1, <1>2, <1>3, <1>5
  <2> QED
    BY <2>1, <2>2, <2>3 DEF View
<1>6. /\ View(r, d)'.where = "in" /\ View(r, d)'.e = e /\ View(r, d)'.g = g
      /\ View(r, d)'.req = View(r, d).req /\ View(r, d)'.up = View(r, d).up
  <2>1. d > 1 => act'[r][d - 1] = act[r][d - 1] /\ Globals(r, d - 1)' = Globals(r, d - 1)
    BY <1>1, <1>2, <1>3
  <2>2. Depth(r)' >= d /\ Depth(r) >= d /\ Depth(r)' >= d - 1 /\ Depth(r) >= d - 1
    BY <1>1, <1>2, <1>3
  <2> QED
    BY <2>1, <2>2, <1>2 DEF View
<1>7. \A k : k = d => Became(View(r, k)', View(r, k), e, g)
  BY <1>6 DEF Became
<1> QED
  BY <1>1, <1>4, <1>5, <1>7

LEMMA StayInv ==
  ASSUME Inv, NEW r \in Rank, Top(r).at # "split", NEW e, NEW g, Stay(r, e, g),
         NEW d, d = Depth(r), NEW c, c = comm(r), ~ Starts(log[c], "split"),
         NEW E, log' = [log EXCEPT ![c] = E], has' = [s \in Rank |-> has'[s]],
         NEW X, X = Views(c)', \E a, q : CommOK(c, E, X, a, q),
         Starts(E, "split") => \A s \in c.ranks : X[s].e.at = "split"
  PROVE  Inv'
<1>1. TypeInv /\ RankOK(r)
  BY DEF Inv
<1>2. /\ d \in Nat /\ d >= 1 /\ c = Globals(r, d).comm
      /\ c \in DOMAIN log /\ r \in c.ranks /\ lvl(c) = d
  BY <1>1, RankFacts
<1>3. DOMAIN log' = DOMAIN log /\ log' = [x \in DOMAIN log' |-> log'[x]]
  BY <1>1 DEF TypeInv
<1>4. log'[c] = E /\ \A x \in DOMAIN log : x # c => log'[x] = log[x]
  BY <1>1, <1>2
<1>5. /\ TypeInv' /\ RankOK(r)'
      /\ \A s \in Rank \ {r} : act'[s] = act[s] /\ saved'[s] = saved[s] /\ ctx'[s] = ctx[s]
  BY <1>1, <1>3, StayRank
<1>6. /\ \A s \in Rank \ {r} : \A k : View(s, k)' = View(s, k)
      /\ \A k \in 1 .. d - 1 : View(r, k)' = View(r, k)
      /\ View(r, d)'.where = "in"
      /\ View(r, d)'.req = View(r, d).req /\ View(r, d)'.up = View(r, d).up
  <2>1. \A s \in Rank \ {r} : \A k : View(s, k)' = View(s, k)
    BY <1>1, <1>3, StayViews
  <2>2. \A k \in 1 .. d - 1 : View(r, k)' = View(r, k)
    BY <1>1, <1>3, StayViews
  <2>3. \A k : k = d => Became(View(r, k)', View(r, k), e, g)
    BY <1>1, <1>3, StayViews
  <2>4. /\ View(r, d)'.where = "in"
        /\ View(r, d)'.req = View(r, d).req /\ View(r, d)'.up = View(r, d).up
    BY <2>3 DEF Became
  <2> QED
    BY <2>1, <2>2, <2>3, <2>4
<1>7. ASSUME NEW s \in Rank PROVE RankOK(s)'
  <2>1. CASE s = r
    BY <2>1, <1>5
  <2>2. CASE s # r
    <3>1. RankOK(s)
      BY <1>7 DEF Inv
    <3>2. act'[s] = act[s] /\ saved'[s] = saved[s] /\ ctx'[s] = ctx[s]
      BY <2>2, <1>5, <1>7
    <3>3. /\ Depth(s)' = Depth(s) /\ Top(s)' = Top(s)
          /\ \A k : Globals(s, k)' = Globals(s, k)
      BY <3>2 DEF Depth, Top, Globals
    <3>4. ASSUME NEW k \in 1 .. Depth(s) PROVE LevelOK(s, k)'
      <4>1. LevelOK(s, k)
        BY <3>1, <3>4 DEF RankOK
      <4> QED
        BY <4>1, <3>2, <3>3, <1>3 DEF LevelOK
    <3>5. TopOK(s)'
      <4>1. TopOK(s)
        BY <3>1 DEF RankOK
      <4> QED
        BY <4>1, <3>2, <3>3 DEF TopOK
    <3> QED
      BY <3>1, <3>2, <3>3, <3>4, <3>5 DEF RankOK
  <2> QED
    BY <2>1, <2>2
<1>8. ASSUME NEW x \in DOMAIN log, r \in x.ranks, x # c PROVE lvl(x) \in 1 .. d - 1
  <2>1. /\ lvl(x) \in 1 .. d + 1
        /\ lvl(x) <= d => x = Globals(r, lvl(x)).comm
        /\ lvl(x) = d + 1 => Starts(log[comm(r)], "split")
    BY <1>8, LevelOf
  <2>2. lvl(x) # d + 1
    BY <2>1
  <2>3. lvl(x) # d
    BY <2>1, <1>2, <1>8
  <2> QED
    BY <2>1, <2>2, <2>3, <1>2
<1>9. ASSUME NEW x \in DOMAIN log PROVE IsComm(x) /\ UpOK(x) /\ Orphans(x) /\ CommInv(x)
  BY <1>9 DEF Inv, CommInv
<1>10. ASSUME NEW x \in DOMAIN log, x # c, NEW s \in x.ranks
       PROVE  View(s, lvl(x))' = View(s, lvl(x))
  <2>1. s \in Rank
    BY <1>9, <1>10 DEF IsComm
  <2>2. CASE s = r
    BY <2>2, <1>6, <1>8, <1>10
  <2>3. CASE s # r
    BY <2>1, <2>3, <1>6
  <2> QED
    BY <2>2, <2>3
<1>11. ASSUME NEW x \in DOMAIN log, x # c PROVE Views(x)' = Views(x)
  BY <1>10, <1>11 DEF Views
<1>12. ASSUME NEW x \in DOMAIN log PROVE CommInv(x)'
  <2>1. CASE x = c
    <3>1. CommOK(x, E, X, CHOOSE a : \E q : CommOK(c, E, X, a, q),
                 CHOOSE q : CommOK(c, E, X, CHOOSE a : \E p : CommOK(c, E, X, a, p), q))
      BY <2>1
    <3> QED
      BY <2>1, <3>1, <1>4, <1>9, <1>12 DEF CommInv
  <2>2. CASE x # c
    <3>1. PICK a, q : CommOK(x, log[x], Views(x), a, q)
      BY <1>9, <1>12 DEF CommInv
    <3>2. CommOK(x, log'[x], Views(x)', a, q)
      BY <2>2, <3>1, <1>4, <1>11, <1>12
    <3> QED
      BY <3>2, <1>9, <1>12 DEF CommInv
  <2> QED
    BY <2>1, <2>2
<1>13. ASSUME NEW x \in DOMAIN log PROVE UpOK(x)'
  <2>1. SUFFICES ASSUME x # World, NEW s \in x.ranks
                 PROVE  /\ View(s, lvl(x))'.up \in DOMAIN log'
                        /\ Starts(log'[View(s, lvl(x))'.up], "split")
    BY DEF UpOK
  <2>2. View(s, lvl(x)).up \in DOMAIN log /\ Starts(log[View(s, lvl(x)).up], "split")
    BY <2>1, <1>9, <1>13 DEF UpOK
  <2>3. View(s, lvl(x))'.up = View(s, lvl(x)).up
    <3>1. CASE x # c
      BY <3>1, <2>1, <1>10, <1>13
    <3>2. CASE x = c /\ s = r
      <4>1. lvl(x) = d
        BY <3>2, <1>2
      <4> QED
        BY <4>1, <3>2, <1>6
    <3>3. CASE x = c /\ s # r
      <4>1. s \in Rank
        BY <2>1, <1>9, <1>13 DEF IsComm
      <4> QED
        BY <4>1, <3>3, <1>6
    <3> QED
      BY <3>1, <3>2, <3>3
  <2>4. View(s, lvl(x)).up # c
    BY <2>2
  <2> QED
    BY <2>2, <2>3, <2>4, <1>3, <1>4
<1>14. ASSUME NEW x \in DOMAIN log PROVE Orphans(x)'
  <2>1. CASE x = c
    <3>1. SUFFICES ASSUME Starts(E, "split"), NEW s \in x.ranks, NEW t \in Child(s, x)'.ranks
                   PROVE  View(t, lvl(x))'.e.at = "split"
      BY <2>1, <1>4 DEF Orphans
    <3>2. t \in c.ranks
      BY <2>1, <3>1 DEF Child, SubComm
    <3>3. Views(c)'[t] = View(t, lvl(c))'
      BY <3>2 DEF Views
    <3> QED
      BY <2>1, <3>1, <3>2, <3>3
  <2>2. CASE x # c
    <3>1. SUFFICES ASSUME Starts(log[x], "split"), NEW s \in x.ranks, Coming(s, x)',
                          Child(s, x)' \notin DOMAIN log, NEW t \in Child(s, x)'.ranks
                   PROVE  View(t, lvl(x))'.e.at = "split"
      BY <2>2, <1>3, <1>4, <1>14 DEF Orphans
    <3>2. Child(s, x)' = Child(s, x)
      BY <2>2, <3>1, <1>10, <1>14 DEF Child
    <3>3. Coming(s, x)
      <4>1. CASE s # r
        <5>1. s \in Rank
          BY <3>1, <1>9, <1>14 DEF IsComm
        <5> QED
          BY <4>1, <5>1, <3>1, <1>6 DEF Coming
      <4>2. CASE s = r
        <5>1. lvl(x) \in 1 .. d - 1
          BY <4>2, <2>2, <3>1, <1>8, <1>14
        <5>2. View(r, lvl(x) + 1)'.where = "in"
          <6>1. Depth(r)' = d
            BY <1>1, <1>3, StayRank
          <6>2. lvl(x) + 1 \in Nat /\ lvl(x) + 1 <= d
            BY <5>1, <1>2
          <6> QED
            BY <6>1, <6>2, <1>2 DEF View
        <5> QED
          BY <4>2, <5>2, <3>1 DEF Coming
      <4> QED
        BY <4>1, <4>2
    <3>4. View(t, lvl(x)).e.at = "split"
      BY <3>1, <3>2, <3>3, <1>9, <1>14 DEF Orphans
    <3>5. t \in x.ranks
      BY <3>1 DEF Child, SubComm
    <3> QED
      BY <2>2, <3>4, <3>5, <1>10, <1>14
  <2> QED
    BY <2>1, <2>2
<1> QED
  BY <1>3, <1>5, <1>7, <1>12, <1>13, <1>14 DEF Inv

LEMMA PushGlobals ==
  ASSUME NEW g, IsGlobals(g)
  PROVE  IsGlobals(push_context(g)) /\ push_context(g).comm = g.comm
<1> DEFINE h == push_context(g)
<1>1. /\ DOMAIN h = {"comm", "table", "current_dvid"}
      /\ h.comm = g.comm /\ h.table = <<>> /\ h.current_dvid = 1
  BY DEF IsGlobals, push_context
<1>2. DOMAIN <<>> = {} /\ <<>> = [i \in DOMAIN <<>> |-> <<>>[i]]
  OBVIOUS
<1> HIDE DEF h
<1>3. DOMAIN h.table = {} /\ h.table = [i \in DOMAIN h.table |-> h.table[i]]
  BY <1>1, <1>2
<1>4. IsGlobals(h)
  BY <1>1, <1>3 DEF IsGlobals
<1> QED
  BY <1>1, <1>4 DEF h

(* What the step is to the communicator r is on.                           *)
LEMMA Here0 ==
  ASSUME Inv, NEW r \in Rank, NEW c, c = comm(r), NEW W, W = Views(c)
  PROVE  /\ c \in DOMAIN log /\ r \in c.ranks /\ IsComm(c) /\ UpOK(c)
         /\ W[r].where = "in" /\ W[r].e = Top(r) /\ W[r].g.comm = c
         /\ Top(r).at # "split" => W[r].g = ctx[r]
         /\ IsEngine(Top(r)) /\ IsGlobals(ctx[r])
         /\ \E a, q : CommOK(c, log[c], W, a, q)
<1>1. RankOK(r)
  BY DEF Inv
<1>2. /\ Depth(r) \in Nat /\ c \in DOMAIN log /\ r \in c.ranks /\ lvl(c) = Depth(r)
      /\ c = Globals(r, Depth(r)).comm /\ IsEngine(Top(r))
      /\ Top(r).at # "split" => Globals(r, Depth(r)) = ctx[r]
  BY <1>1, RankFacts
<1>3. W[r] = View(r, Depth(r))
  BY <1>2 DEF Views
<1>4. /\ W[r].where = "in" /\ W[r].e = act[r][Depth(r)] /\ W[r].g = Globals(r, Depth(r))
  BY <1>2, <1>3, ViewIn
<1>5. IsComm(c) /\ UpOK(c) /\ \E a, q : CommOK(c, log[c], W, a, q)
  BY <1>2 DEF Inv, CommInv
<1>6. IsGlobals(ctx[r])
  <2>1. CASE Top(r).at # "split"
    BY <2>1, <1>1, RankFacts
  <2>2. CASE Top(r).at = "split"
    <3>1. ctx[r] = push_context(saved[r][Depth(r)]) /\ IsGlobals(saved[r][Depth(r)])
      BY <2>2, <1>1, RankFacts
    <3> QED
      BY <3>1, PushGlobals
  <2> QED
    BY <2>1, <2>2
<1> QED
  BY <1>2, <1>4, <1>5, <1>6 DEF Top

LEMMA StayMoved ==
  ASSUME Inv, NEW r \in Rank, Top(r).at # "split", NEW e, NEW g, Stay(r, e, g),
         NEW c, c = comm(r), NEW E, log' = [log EXCEPT ![c] = E],
         has' = [s \in Rank |-> has'[s]], NEW W, W = Views(c), NEW X, X = Views(c)'
  PROVE  Moved(c, W, X, r) /\ Became(X[r], W[r], e, g)
<1>1. TypeInv /\ RankOK(r) /\ c \in DOMAIN log /\ IsComm(c) /\ W[r].where = "in"
  BY Here0 DEF Inv
<1>2. DOMAIN log' = DOMAIN log /\ log' = [x \in DOMAIN log' |-> log'[x]]
  BY <1>1 DEF TypeInv
<1>3. PICK d : d = Depth(r)
  OBVIOUS
<1>4. /\ \A s \in Rank \ {r} : \A k : View(s, k)' = View(s, k)
      /\ \A k : k = d => Became(View(r, k)', View(r, k), e, g)
  BY <1>1, <1>2, <1>3, StayViews
<1>5. lvl(c) = d /\ r \in c.ranks
  BY <1>1, <1>3, RankFacts
<1>6. ASSUME NEW s \in c.ranks \ {r} PROVE X[s] = W[s]
  <2>1. s \in Rank \ {r}
    BY <1>1, <1>6 DEF IsComm
  <2> QED
    BY <2>1, <1>4 DEF Views
<1>7. X[r] = View(r, d)' /\ W[r] = View(r, d)
  BY <1>5 DEF Views
<1>8. Became(X[r], W[r], e, g)
  BY <1>4, <1>7
<1> QED
  BY <1>1, <1>6, <1>8 DEF Moved, Became

(* The variables the root of a communicator knows of between requests.     *)
LEMMA UserFacts ==
  ASSUME Inv, NEW r \in Rank, IsRoot(r), Top(r).at = "user"
  PROVE  /\ Top(r).own \cap Top(r).views = {}
         /\ \A v \in Top(r).own \cup Top(r).views : v.id < ctx[r].current_dvid
         /\ Distinct(Top(r).own \cup Top(r).views)
<1>1. PICK c, W : c = comm(r) /\ W = Views(c)
  OBVIOUS
<1>2. /\ r \in c.ranks /\ W[r].where = "in" /\ W[r].e = Top(r) /\ W[r].g = ctx[r]
      /\ \E a, q : CommOK(c, log[c], W, a, q)
  BY <1>1, Here0
<1>3. PICK a, q : CommOK(c, log[c], W, a, q)
  BY <1>2
<1>4. r = RootOf(c)
  BY <1>1 DEF IsRoot
<1>5. RootOK(log[c], r, W[r], Given(c, a), q, c.ranks) /\ KnownOK(W[r], Given(c, a), q, Cardinality(c.ranks))
  BY <1>3, <1>4 DEF CommOK
<1>6. Owned(W[r], Given(c, a)) = Top(r).own \cup Top(r).views
  BY <1>2 DEF Owned
<1> QED
  BY <1>2, <1>5, <1>6 DEF RootOK, KnownOK, Distinct

LEMMA SendInv ==
  ASSUME Inv, NEW r \in Rank, IsRoot(r), Top(r).at = "user", NEW p, NEW e, Send(r, p, e),
         NEW g, ctx' = [ctx EXCEPT ![r] = g], IsGlobals(g), g.comm = ctx[r].comm,
         g.table = ctx[r].table, has' = [s \in Rank |-> has'[s]],
         IsEngine(e), e.views = Top(r).views,
         NEW O, O = Top(r).own \cup Top(r).views, NEW P, P = e.own \cup e.views,
         Before(P, p) = O, e.own \cap e.views = {},
         \A v \in P \cup O : v.id < g.current_dvid, Distinct(P \cup O),
         Valid(p, P, e.views, Cardinality(comm(r).ranks))
  PROVE  Inv'
<1>1. PICK c, W : c = comm(r) /\ W = Views(c)
  OBVIOUS
<1>2. PICK X : X = Views(c)'
  OBVIOUS
<1>3. PICK d : d = Depth(r)
  OBVIOUS
<1> DEFINE f == [e EXCEPT !.at = "hdr", !.last = NoReq]  E == Entered(log[c], c.ranks, r, "hdr", p)
<1>4. /\ c \in DOMAIN log /\ r \in c.ranks /\ IsComm(c)
      /\ W[r].where = "in" /\ W[r].e = Top(r) /\ W[r].g = ctx[r]
      /\ \E a, q : CommOK(c, log[c], W, a, q)
  BY <1>1, Here0
<1>5. PICK a, q : CommOK(c, log[c], W, a, q)
  BY <1>4
<1>6. r = RootOf(c)
  BY <1>1 DEF IsRoot
<1>7. IsEngine(f) /\ f.at = "hdr" /\ f.own = e.own /\ f.views = e.views /\ f.last = NoReq
  BY DEF IsEngine
<1> HIDE DEF f
<1>8. Stay(r, f, g)
  <2>1. g.comm = comm(r)
    BY DEF comm
  <2>2. act' = SetTop(r, f) /\ saved' = saved
    BY DEF Send, f
  <2> QED
    BY <2>1, <2>2, <1>7 DEF Stay
<1>9. log' = [log EXCEPT ![c] = E]
  BY <1>1, <1>4, EnterIs DEF Send, Members
<1> HIDE DEF E
<1>10. Moved(c, W, X, r) /\ X[r].e = f /\ X[r].g = g
  <2>1. Top(r).at # "split"
    OBVIOUS
  <2> QED
    <3>1. Moved(c, W, X, r) /\ Became(X[r], W[r], f, g)
      BY <2>1, <1>1, <1>2, <1>8, <1>9, StayMoved
    <3> QED
      BY <3>1 DEF Became
<1>11. ~ Starts(log[c], "split")
  BY <1>4, <1>5, NotSplitting
<1>12. W[r].e.views = Given(c, a)
  BY <1>4, <1>5, <1>6 DEF CommOK, RootOK
<1>13. Owned(X[r], Given(c, a)) = P /\ Owned(W[r], Given(c, a)) = O
  BY <1>4, <1>7, <1>10 DEF Owned, Moved
<1>14. KnownOK(X[r], Given(c, a), p, Cardinality(c.ranks))
  BY <1>1, <1>4, <1>12, <1>13 DEF KnownOK
<1>15. CommOK(c, E, X, a, p)
  <2>1. /\ X[r].e.at = "hdr" /\ X[r].e.views = W[r].e.views
        /\ X[r].g.comm = W[r].g.comm /\ X[r].g.table = W[r].g.table
    BY <1>4, <1>7, <1>10
  <2>2. /\ Before(Owned(X[r], Given(c, a)), p) = Owned(W[r], Given(c, a))
        /\ X[r].e.own \cap Given(c, a) = {}
        /\ \A v \in Owned(X[r], Given(c, a)) \cup Owned(W[r], Given(c, a)) : v.id < X[r].g.current_dvid
    BY <1>4, <1>7, <1>10, <1>12, <1>13
  <2>3. E = Entered(log[c], c.ranks, r, "hdr", p)
    BY DEF E
  <2> QED
    BY <2>1, <2>2, <2>3, <1>4, <1>5, <1>6, <1>10, <1>14, SendOK
<1>16. ~ Starts(E, "split")
  <2>1. InOp(E, r, "hdr") /\ Shape(E, c.ranks, RootOf(c))
    <3>1. X[r].where = "in" /\ X[r].e.at = "hdr"
      BY <1>7, <1>10 DEF Moved
    <3>2. Serves(E, RootOf(c), X[r].e, r, p)
      BY <1>4, <1>15, <3>1, MemberOf
    <3> QED
      BY <3>1, <3>2, <1>15 DEF Serves, CommOK, LogOK
  <2> QED
    BY <2>1, StartsFacts DEF InOp
<1> QED
  BY <1>1, <1>2, <1>3, <1>8, <1>9, <1>11, <1>15, <1>16, StayInv

---------------------------------------------------------------------------
(* The requests of a program.                                              *)
LEMMA SeqOfSet ==
  ASSUME NEW S, IsFiniteSet(S)
  PROVE  /\ Proper(SetToSeq(S)) /\ \A i \in DOMAIN SetToSeq(S) : SetToSeq(S)[i] \in S
<1> DEFINE n == Cardinality(S)
<1>1. n \in Nat /\ ExistsBijection(1 .. n, S)
  BY FS_CardinalityType
<1> HIDE DEF n
<1>2. PICK b \in [1 .. n -> S] : \A i, j \in 1 .. n : b[i] = b[j] => i = j
  BY <1>1 DEF ExistsBijection, Bijection, Injection, Surjection, IsInjective
<1>3. IsInjective(b)
  BY <1>2 DEF IsInjective
<1>4. SetToSeq(S) \in [1 .. n -> S]
  BY <1>2, <1>3 DEF SetToSeq, n
<1>5. SUFFICES ASSUME NEW q \in [1 .. n -> S] PROVE Proper(q) /\ \A i \in DOMAIN q : q[i] \in S
  BY <1>4
<1>6. q \in Seq(S) /\ Len(q) = n
  BY <1>1, <1>5
<1>7. q \in Seq({q[i] : i \in DOMAIN q})
  <2>1. \A i \in 1 .. Len(q) : q[i] \in {q[j] : j \in DOMAIN q}
    BY <1>6
  <2> QED
    BY <1>6, <2>1
<1> QED
  BY <1>6, <1>7 DEF Proper

LEMMA ColorTypes ==
  ASSUME NEW n \in Nat, n > 1, NEW color \in {make_color(n, 2), striped(n)}
  PROVE  color \in [1 .. n -> Nat] /\ heads_color(color) \in [1 .. n -> Nat]
<1>1. make_color(n, 2) \in [1 .. n -> Nat]
  <2>1. ASSUME NEW i \in 1 .. n
        PROVE  (LET block == (i - 1) \div (n \div 2) IN IF block < 2 THEN block ELSE 2 - 1) \in Nat
    <3>1. n \div 2 \in Nat /\ n \div 2 >= 1
      OBVIOUS
    <3>2. (i - 1) \div (n \div 2) \in Nat
      <4>1. SUFFICES ASSUME NEW k \in Nat, k >= 1, NEW j \in Nat PROVE j \div k \in Nat
        BY <3>1
      <4> QED
        BY <4>1
    <3> QED
      BY <3>2
  <2> QED
    BY <2>1 DEF make_color
<1>2. striped(n) \in [1 .. n -> Nat]
  BY DEF striped
<1>3. color \in [1 .. n -> Nat]
  BY <1>1, <1>2
<1>4. heads_color(color) \in [1 .. n -> Nat]
  BY <1>3 DEF heads_color
<1> QED
  BY <1>3, <1>4

(* The case of a request that leaves the variables of the program alone.   *)
LEMMA AskInv ==
  ASSUME Inv, NEW r \in Rank, IsRoot(r), Top(r).at = "user", NEW p, NEW e, Send(r, p, e),
         ctx' = ctx, has' = [s \in Rank |-> has'[s]],
         IsEngine(e), e.own = Top(r).own, e.views = Top(r).views,
         p.op \in {"use", "move", "split", "finalize"},
         Valid(p, e.own \cup e.views, e.views, Cardinality(comm(r).ranks))
  PROVE  Inv'
<1> DEFINE O == Top(r).own \cup Top(r).views
<1>1. /\ Top(r).own \cap Top(r).views = {}
      /\ \A v \in O : v.id < ctx[r].current_dvid
      /\ Distinct(O)
  BY UserFacts
<1>2. IsGlobals(ctx[r])
  <2>1. PICK c, W : c = comm(r) /\ W = Views(c)
    OBVIOUS
  <2> QED
    BY <2>1, Here0
<1>3. ctx' = [ctx EXCEPT ![r] = ctx[r]]
  BY DEF Inv, TypeInv
<1>4. Before(O, p) = O
  BY DEF Before
<1>5. /\ O = Top(r).own \cup Top(r).views /\ O = e.own \cup e.views /\ O \cup O = O
      /\ e.own \cap e.views = {}
  BY <1>1
<1> HIDE DEF O
<1>6. /\ \A v \in O \cup O : v.id < ctx[r].current_dvid
      /\ Distinct(O \cup O) /\ Valid(p, O, e.views, Cardinality(comm(r).ranks))
  BY <1>1, <1>5
<1> QED
  BY <1>2, <1>3, <1>4, <1>5, <1>6, SendInv

LEMMA UseInv ==
  ASSUME Inv, NEW r \in Rank, IsRoot(r), Top(r).at = "user", NEW op \in {"use", "move"},
         NEW v \in Top(r).own \cup Top(r).views,
         Send(r, [op |-> op, v |-> v], Counted(Top(r))), UNCHANGED <<ctx, has>>
  PROVE  Inv'
<1> DEFINE p == [op |-> op, v |-> v]  e == Counted(Top(r))
<1>1. IsEngine(Top(r))
  <2>1. PICK c, W : c = comm(r) /\ W = Views(c)
    OBVIOUS
  <2> QED
    BY <2>1, Here0
<1>2. IsEngine(e) /\ e.own = Top(r).own /\ e.views = Top(r).views
  BY <1>1 DEF IsEngine, Counted
<1>3. Valid(p, e.own \cup e.views, e.views, Cardinality(comm(r).ranks))
  BY <1>2 DEF Valid
<1>4. has' = [s \in Rank |-> has'[s]] /\ ctx' = ctx
  BY DEF Inv, TypeInv
<1>5. p.op \in {"use", "move", "split", "finalize"}
  OBVIOUS
<1>6. Send(r, p, e)
  OBVIOUS
<1> HIDE DEF p, e
<1> QED
  BY <1>2, <1>3, <1>4, <1>5, <1>6, AskInv

LEMMA EndInv ==
  ASSUME Inv, NEW r \in Rank, UserEnds(r)
  PROVE  Inv'
<1> DEFINE p == [op |-> "finalize"]  e == Top(r)
<1>1. IsEngine(e)
  <2>1. PICK c, W : c = comm(r) /\ W = Views(c)
    OBVIOUS
  <2> QED
    BY <2>1, Here0
<1>2. /\ IsRoot(r) /\ Top(r).at = "user" /\ e.own = {} /\ Send(r, p, e)
      /\ ctx' = ctx /\ has' = has
  BY DEF UserEnds
<1>3. Valid(p, e.own \cup e.views, e.views, Cardinality(comm(r).ranks))
  BY <1>2 DEF Valid
<1>4. has' = [s \in Rank |-> has'[s]]
  BY <1>2 DEF Inv, TypeInv
<1>5. p.op \in {"use", "move", "split", "finalize"}
  OBVIOUS
<1>6. e.own = Top(r).own /\ e.views = Top(r).views
  OBVIOUS
<1> HIDE DEF p, e
<1> QED
  BY <1>1, <1>2, <1>3, <1>4, <1>5, <1>6, AskInv

LEMMA FiniteRanks ==
  ASSUME NEW c, IsComm(c)
  PROVE  IsFiniteSet(c.ranks)
<1>1. 0 \in Int /\ N - 1 \in Int
  BY NAssumption
<1>2. IsFiniteSet(Rank)
  BY <1>1, FS_Interval DEF Rank
<1>3. c.ranks \in SUBSET Rank
  BY DEF IsComm
<1> QED
  BY <1>2, <1>3, FS_Subset

LEMMA RootEngine ==
  ASSUME Inv, NEW r \in Rank
  PROVE  IsEngine(Top(r)) /\ IsGlobals(ctx[r]) /\ IsComm(comm(r)) /\ has = [s \in Rank |-> has[s]]
<1>1. PICK c, W : c = comm(r) /\ W = Views(c)
  OBVIOUS
<1> QED
  BY <1>1, Here0 DEF Inv, TypeInv

LEMMA SplitInv ==
  ASSUME Inv, NEW r \in Rank, IsRoot(r), Top(r).at = "user", NEW color, NEW f, NEW args, NEW of,
         Split(r, color, f, args, of), ctx' = ctx, has' = [s \in Rank |-> has'[s]],
         Proper(args), \A i \in DOMAIN args : args[i] \in Top(r).own \cup Top(r).views,
         color \in [1 .. Cardinality(comm(r).ranks) -> Nat],
         f = "bcast" => /\ Len(args) = 1 /\ color = heads_color(of)
                        /\ of \in [1 .. Cardinality(comm(r).ranks) -> Nat]
  PROVE  Inv'
<1> DEFINE p == [op |-> "split", color |-> color, f |-> f, args |-> args, of |-> of]
           e == Counted(Top(r))
<1>1. IsEngine(e) /\ e.own = Top(r).own /\ e.views = Top(r).views
  BY RootEngine DEF IsEngine, Counted
<1>2. Valid(p, e.own \cup e.views, e.views, Cardinality(comm(r).ranks))
  BY <1>1 DEF Valid, SplitOK, BcastOK
<1>3. p.op \in {"use", "move", "split", "finalize"}
  OBVIOUS
<1>4. Send(r, p, e)
  BY DEF Split
<1> HIDE DEF p, e
<1> QED
  BY <1>1, <1>2, <1>3, <1>4, AskInv

LEMMA SplitUserInv ==
  ASSUME Inv, NEW r \in Rank, IsRoot(r), Top(r).at = "user", NEW n, n = Cardinality(Members(comm(r))),
         n > 1, NEW color \in {make_color(n, 2), striped(n)}, SplitUser(r, color)
  PROVE  Inv'
<1>1. n = Cardinality(comm(r).ranks) /\ n \in Nat
  <2>1. IsFiniteSet(comm(r).ranks)
    BY RootEngine, FiniteRanks
  <2> QED
    BY <2>1, FS_CardinalityType DEF Members
<1>2. color \in [1 .. n -> Nat]
  BY <1>1, ColorTypes
<1>3. IsFiniteSet(Top(r).own \cup Top(r).views)
  BY RootEngine, FS_Union DEF IsEngine
<1>4. PICK args : args = SetToSeq(Top(r).own \cup Top(r).views)
  OBVIOUS
<1>5. Proper(args) /\ \A i \in DOMAIN args : args[i] \in Top(r).own \cup Top(r).views
  BY <1>3, <1>4, SeqOfSet
<1>6. Split(r, color, "user", args, color) /\ ctx' = ctx /\ has' = [s \in Rank |-> has'[s]]
  BY <1>4, RootEngine DEF SplitUser
<1> QED
  BY <1>1, <1>2, <1>5, <1>6, SplitInv

LEMMA SplitBroadcastInv ==
  ASSUME Inv, NEW r \in Rank, IsRoot(r), Top(r).at = "user", NEW n, n = Cardinality(Members(comm(r))),
         n > 1, NEW color \in {make_color(n, 2), striped(n)}, NEW v \in Top(r).own,
         SplitBroadcast(r, color, v)
  PROVE  Inv'
<1>1. n = Cardinality(comm(r).ranks) /\ n \in Nat
  <2>1. IsFiniteSet(comm(r).ranks)
    BY RootEngine, FiniteRanks
  <2> QED
    BY <2>1, FS_CardinalityType DEF Members
<1>2. color \in [1 .. n -> Nat] /\ heads_color(color) \in [1 .. n -> Nat]
  BY <1>1, ColorTypes
<1>3. PICK args : args = <<v>>
  OBVIOUS
<1>4. /\ Proper(args) /\ Len(args) = 1
      /\ \A i \in DOMAIN args : args[i] \in Top(r).own \cup Top(r).views
  BY <1>3 DEF Proper
<1>5. PICK heads : heads = heads_color(color)
  OBVIOUS
<1>6. /\ Split(r, heads, "bcast", args, color) /\ ctx' = ctx
      /\ has' = [s \in Rank |-> has'[s]]
  BY <1>3, <1>5, RootEngine DEF SplitBroadcast
<1>7. heads \in [1 .. n -> Nat]
  BY <1>2, <1>5
<1> QED
  BY <1>1, <1>2, <1>4, <1>5, <1>6, <1>7, SplitInv

LEMMA MakeInv ==
  ASSUME Inv, NEW r \in Rank, IsRoot(r), Top(r).at = "user", Make(r), has' = has
  PROVE  Inv'
<1>1. PICK v : v = [id |-> ctx[r].current_dvid, obj |-> <<comm(r).id, Top(r).n>>]
  OBVIOUS
<1>2. PICK p : p = [op |-> "make", v |-> v]
  OBVIOUS
<1>3. PICK e : e = [Counted(Top(r)) EXCEPT !.own = @ \cup {v}]
  OBVIOUS
<1>4. PICK g : g = [ctx[r] EXCEPT !.current_dvid = @ + 1]
  OBVIOUS
<1>5. PICK O, P : O = Top(r).own \cup Top(r).views /\ P = e.own \cup e.views
  OBVIOUS
<1>6. Send(r, p, e) /\ ctx' = [ctx EXCEPT ![r] = g]
  BY <1>1, <1>2, <1>3, <1>4 DEF Make
<1>7. /\ Top(r).own \cap Top(r).views = {}
      /\ \A w \in O : w.id < ctx[r].current_dvid
      /\ Distinct(O)
  BY <1>5, UserFacts
<1>8. IsEngine(Top(r)) /\ IsGlobals(ctx[r])
  BY RootEngine
<1>9. /\ IsGlobals(g) /\ g.comm = ctx[r].comm /\ g.table = ctx[r].table
      /\ g.current_dvid = ctx[r].current_dvid + 1
  BY <1>4, <1>8 DEF IsGlobals
<1>10. e.own = Top(r).own \cup {v} /\ e.views = Top(r).views
  BY <1>3, <1>8 DEF IsEngine, Counted
<1>11. IsEngine(e)
  <2>1. IsFiniteSet(e.own)
    BY <1>8, <1>10, FS_AddElement DEF IsEngine
  <2> QED
    BY <2>1, <1>3, <1>8, <1>10 DEF IsEngine, Counted
<1>12. v.id = ctx[r].current_dvid /\ ctx[r].current_dvid \in Nat \ {0}
  BY <1>1, <1>8 DEF IsGlobals
<1>13. \A w \in O : w.id \in Nat \ {0} /\ w.id # v.id
  BY <1>7, <1>12 DEF Distinct
<1>14. v \notin O
  BY <1>13
<1>15. P = O \cup {v} /\ P \cup O = O \cup {v}
  BY <1>5, <1>10
<1>16. p.op = "make" /\ p.v = v
  BY <1>2
<1>17. Before(P, p) = O
  BY <1>14, <1>15, <1>16 DEF Before
<1>18. e.own \cap e.views = {}
  BY <1>5, <1>7, <1>10, <1>14
<1>19. \A w \in P \cup O : w.id < g.current_dvid
  BY <1>7, <1>9, <1>12, <1>13, <1>15
<1>20. Distinct(P \cup O)
  BY <1>7, <1>12, <1>13, <1>15 DEF Distinct
<1>21. Valid(p, P, e.views, Cardinality(comm(r).ranks))
  BY <1>15, <1>16 DEF Valid
<1>22. has' = [s \in Rank |-> has'[s]]
  BY RootEngine
<1> QED
  BY <1>5, <1>6, <1>9, <1>10, <1>11, <1>17, <1>18, <1>19, <1>20, <1>21, <1>22, SendInv

LEMMA DropInv ==
  ASSUME Inv, NEW r \in Rank, IsRoot(r), Top(r).at = "user", NEW v \in Top(r).own, Drop(r, v)
  PROVE  Inv'
<1>1. PICK p : p = [op |-> "drop", v |-> v]
  OBVIOUS
<1>2. PICK e : e = [Top(r) EXCEPT !.own = @ \ {v}]
  OBVIOUS
<1>3. PICK O, P : O = Top(r).own \cup Top(r).views /\ P = e.own \cup e.views
  OBVIOUS
<1>4. PICK g : g = ctx[r]
  OBVIOUS
<1>5. Send(r, p, e) /\ ctx' = [ctx EXCEPT ![r] = g] /\ has' = [s \in Rank |-> has'[s]]
  BY <1>1, <1>2, <1>4, RootEngine DEF Drop, Inv, TypeInv
<1>6. /\ Top(r).own \cap Top(r).views = {}
      /\ \A w \in O : w.id < ctx[r].current_dvid
      /\ Distinct(O)
  BY <1>3, UserFacts
<1>7. IsEngine(Top(r)) /\ IsGlobals(ctx[r])
  BY RootEngine
<1>8. e.own = Top(r).own \ {v} /\ e.views = Top(r).views
  BY <1>2, <1>7 DEF IsEngine
<1>9. IsEngine(e)
  <2>1. IsFiniteSet(e.own)
    BY <1>7, <1>8, FS_RemoveElement DEF IsEngine
  <2> QED
    BY <2>1, <1>2, <1>7, <1>8 DEF IsEngine
<1>10. P = O \ {v} /\ P \cup O = O /\ v \in O /\ e.own \cap e.views = {}
  BY <1>3, <1>6, <1>8
<1>11. p.op = "drop" /\ p.v = v
  BY <1>1
<1>12. Before(P, p) = O
  BY <1>10, <1>11 DEF Before
<1>13. Valid(p, P, e.views, Cardinality(comm(r).ranks))
  BY <1>10, <1>11 DEF Valid
<1>14. /\ \A w \in P \cup O : w.id < g.current_dvid
       /\ Distinct(P \cup O)
  BY <1>4, <1>6, <1>10
<1>15. IsGlobals(g) /\ g.comm = ctx[r].comm /\ g.table = ctx[r].table
  BY <1>4, <1>7
<1> QED
  BY <1>3, <1>5, <1>8, <1>9, <1>10, <1>12, <1>13, <1>14, <1>15, SendInv

LEMMA ThrowInv ==
  ASSUME Inv, NEW r \in Rank, UserThrows(r)
  PROVE  Inv'
<1>1. PICK c, W : c = comm(r) /\ W = Views(c)
  OBVIOUS
<1>2. PICK X : X = Views(c)'
  OBVIOUS
<1>3. PICK d : d = Depth(r)
  OBVIOUS
<1>4. PICK e, g : e = [Top(r) EXCEPT !.exc = TRUE] /\ g = ctx[r]
  OBVIOUS
<1>5. PICK E : E = log[c]
  OBVIOUS
<1>6. /\ IsRoot(r) /\ Top(r).at = "user" /\ act' = SetTop(r, e)
      /\ ctx' = ctx /\ saved' = saved /\ log' = log /\ has' = has
  BY <1>4 DEF UserThrows, InProgram
<1>7. /\ IsEngine(Top(r)) /\ IsGlobals(ctx[r]) /\ has' = [s \in Rank |-> has'[s]]
  BY <1>6, RootEngine
<1>8. /\ IsEngine(e) /\ e.at = "user" /\ e.own = Top(r).own /\ e.views = Top(r).views
      /\ e.last = Top(r).last /\ e.inner = Top(r).inner /\ e.req = Top(r).req
  BY <1>4, <1>6, <1>7 DEF IsEngine
<1>9. Stay(r, e, g)
  <2>1. ctx' = [ctx EXCEPT ![r] = g] /\ g.comm = comm(r)
    BY <1>4, <1>6 DEF Inv, TypeInv, comm
  <2> QED
    BY <2>1, <1>4, <1>6, <1>7, <1>8 DEF Stay
<1>10. log' = [log EXCEPT ![c] = E]
  BY <1>5, <1>6 DEF Inv, TypeInv
<1>11. Moved(c, W, X, r) /\ Became(X[r], W[r], e, g)
  <2>1. Top(r).at # "split"
    BY <1>6
  <2> QED
    BY <2>1, <1>1, <1>2, <1>7, <1>9, <1>10, StayMoved
<1>12. /\ r \in c.ranks /\ IsComm(c) /\ W[r].where = "in" /\ W[r].e = Top(r) /\ W[r].g = ctx[r]
       /\ \E a, q : CommOK(c, E, W, a, q)
  BY <1>1, <1>5, <1>6, Here0
<1>13. PICK a, q : CommOK(c, E, W, a, q)
  BY <1>12
<1>14. r = RootOf(c)
  BY <1>1, <1>6 DEF IsRoot
<1>15. ~ Starts(E, "split")
  BY <1>6, <1>12, <1>13, NotSplitting
<1>16. CommOK(c, E, X, a, q)
  <2>1. SameVars(W[r], X[r]) /\ X[r].g.table = W[r].g.table /\ X[r].e = e
    BY <1>4, <1>8, <1>11, <1>12 DEF Became, SameVars
  <2>2. Serves(E, r, Top(r), r, q) /\ Returned(E, r, Top(r), q, c.ranks)
    BY <1>12, <1>13, <1>14, MemberOf DEF CommOK, RootOK
  <2>3. Serves(E, r, e, r, q) /\ Returned(E, r, e, q, c.ranks)
    BY <2>2, <1>6, <1>8 DEF Serves, Returned
  <2> QED
    BY <2>1, <2>3, <1>8, <1>11, <1>12, <1>13, <1>14, StayOK
<1> QED
  BY <1>1, <1>2, <1>3, <1>5, <1>6, <1>7, <1>9, <1>10, <1>15, <1>16, StayInv

LEMMA ProgramInv ==
  ASSUME Inv, NEW r \in Rank, Program(r)
  PROVE  Inv'
<1>1. CASE UserAsks(r)
  <2>1. IsRoot(r) /\ Top(r).at = "user"
    BY <1>1 DEF UserAsks, InProgram
  <2>2. PICK n : n = Cardinality(Members(comm(r)))
    OBVIOUS
  <2>3. CASE Make(r) /\ has' = has
    BY <2>1, <2>3, MakeInv
  <2>4. CASE \E v \in Top(r).own \cup Top(r).views : Use(r, v)
    <3>1. PICK v \in Top(r).own \cup Top(r).views : Use(r, v)
      BY <2>4
    <3>2. Send(r, [op |-> "use", v |-> v], Counted(Top(r))) /\ UNCHANGED <<ctx, has>>
      BY <3>1 DEF Use
    <3> QED
      BY <2>1, <3>2, UseInv
  <2>5. CASE n > 1 /\ \E color \in {make_color(n, 2), striped(n)} :
               \/ SplitUser(r, color)
               \/ \E v \in Top(r).own : SplitBroadcast(r, color, v)
    BY <2>1, <2>2, <2>5, SplitUserInv, SplitBroadcastInv
  <2> QED
    BY <1>1, <2>2, <2>3, <2>4, <2>5 DEF UserAsks, Make
<1>2. CASE UserDrops(r)
  BY <1>2, DropInv DEF UserDrops, InProgram
<1>3. CASE HelperAsks(r)
  <2>1. IsRoot(r) /\ Top(r).at = "user"
    BY <1>3 DEF HelperAsks, InProgram
  <2>2. CASE Make(r)
    BY <2>1, <2>2, MakeInv DEF Make
  <2>3. CASE \E v \in Top(r).views :
               Send(r, [op |-> "move", v |-> v], Counted(Top(r))) /\ UNCHANGED <<ctx, has>>
    <3>1. PICK v \in Top(r).views :
               Send(r, [op |-> "move", v |-> v], Counted(Top(r))) /\ UNCHANGED <<ctx, has>>
      BY <2>3
    <3> QED
      BY <2>1, <3>1, UseInv
  <2>4. CASE \E v \in Top(r).own : Drop(r, v)
    BY <2>1, <2>4, DropInv
  <2> QED
    BY <1>3, <2>2, <2>3, <2>4 DEF HelperAsks
<1>4. CASE UserThrows(r)
  BY <1>4, ThrowInv
<1>5. CASE UserEnds(r)
  BY <1>5, EndInv
<1> QED
  BY <1>1, <1>2, <1>3, <1>4, <1>5 DEF Program

---------------------------------------------------------------------------
(* A request is served.                                                    *)
AtHdr(r, c, W, a, q) ==
  /\ c = comm(r) /\ W = Views(c) /\ CommOK(c, log[c], W, a, q)
  /\ Top(r).at = "hdr" /\ RootOf(c) \in log[c][Pos(log[c], r)].in /\ Pending(r) = q

LEMMA CurIs ==
  ASSUME NEW r, NEW c
  PROVE  Cur(r, c) = Pos(log[c], r)
BY DEF Cur, Pos

LEMMA AtHdrFacts ==
  ASSUME Inv, NEW r \in Rank, Leaves(r, "hdr"), NEW c, c = comm(r), NEW W, W = Views(c)
  PROVE  \E a, q : AtHdr(r, c, W, a, q)
<1>1. /\ r \in c.ranks /\ IsComm(c) /\ W[r].where = "in" /\ W[r].e = Top(r)
      /\ \E a, q : CommOK(c, log[c], W, a, q)
  BY Here0
<1>2. PICK a, q : CommOK(c, log[c], W, a, q)
  BY <1>1
<1>3. Top(r).at = "hdr" /\ RootOf(c) \in log[c][Pos(log[c], r)].in
  BY CurIs DEF Leaves, Here
<1>4. Pending(r) = log[c][Pos(log[c], r)].val[RootOf(c)]
  BY CurIs DEF Pending, Here
<1>5. InOp(log[c], r, "hdr") /\ Shape(log[c], c.ranks, RootOf(c)) /\ Sent(log[c], RootOf(c), q)
  <2>1. Serves(log[c], RootOf(c), W[r].e, r, q)
    BY <1>1, <1>2, MemberOf
  <2>2. InOp(log[c], r, "hdr")
    BY <2>1, <1>1, <1>3 DEF Serves
  <2>3. Shape(log[c], c.ranks, RootOf(c)) /\ Sent(log[c], RootOf(c), q)
    BY <1>2 DEF CommOK, LogOK
  <2> QED
    BY <2>2, <2>3
<1>6. log[c][Pos(log[c], r)].val[RootOf(c)] = q
  BY <1>3, <1>5, HeaderFacts
<1> QED
  BY <1>2, <1>3, <1>4, <1>6 DEF AtHdr

(* What the table of r has for the request.                                *)
LEMMA HdrTable ==
  ASSUME Inv, NEW r \in Rank, NEW c, NEW W, NEW a, NEW q, AtHdr(r, c, W, a, q),
         NEW O, O = Owned(W[RootOf(c)], Given(c, a))
  PROVE  /\ Owing(log[c], RootOf(c), r) /\ IsTable(ctx[r].table, Before(O, q))
         /\ Distinct(O \cup Before(O, q))
         /\ Valid(q, O, Given(c, a), Cardinality(c.ranks))
<1>1. c = comm(r) /\ W = Views(c) /\ CommOK(c, log[c], W, a, q) /\ Top(r).at = "hdr"
      /\ RootOf(c) \in log[c][Pos(log[c], r)].in
  BY DEF AtHdr
<1>2. r \in c.ranks /\ W[r].where = "in" /\ W[r].e = Top(r) /\ W[r].g = ctx[r]
  BY <1>1, Here0
<1>3. /\ Serves(log[c], RootOf(c), Top(r), r, q)
      /\ IsTable(ctx[r].table, Expect(log[c], RootOf(c), r, O, q))
  BY <1>1, <1>2, MemberOf
<1>4. InOp(log[c], r, "hdr") /\ Shape(log[c], c.ranks, RootOf(c)) /\ Sent(log[c], RootOf(c), q)
  BY <1>1, <1>3 DEF Serves, CommOK, LogOK
<1>5. Owing(log[c], RootOf(c), r)
  BY <1>1, <1>4, HeaderFacts
<1> QED
  BY <1>1, <1>3, <1>5 DEF Expect, CommOK, KnownOK

LEMMA ServeInv ==
  ASSUME Inv, NEW r \in Rank, NEW c, NEW W, NEW a, NEW q, AtHdr(r, c, W, a, q),
         q.op \notin {"split", "finalize"},
         NEW e, e = [Top(r) EXCEPT !.at = "vote", !.req = q, !.inner = FALSE],
         act' = SetTop(r, e), NEW exc, Vote(r, exc), has' = [s \in Rank |-> has'[s]],
         NEW g, ctx' = [ctx EXCEPT ![r] = g], IsGlobals(g), g.comm = ctx[r].comm,
         g.current_dvid = ctx[r].current_dvid,
         IsTable(g.table, Owned(W[RootOf(c)], Given(c, a)))
  PROVE  Inv'
<1>1. /\ c = comm(r) /\ W = Views(c) /\ CommOK(c, log[c], W, a, q) /\ Top(r).at = "hdr"
      /\ RootOf(c) \in log[c][Pos(log[c], r)].in
  BY DEF AtHdr
<1>2. PICK X : X = Views(c)'
  OBVIOUS
<1>3. PICK d : d = Depth(r)
  OBVIOUS
<1>4. PICK E : E = Entered(log[c], c.ranks, r, "vote", Ballot(exc))
  OBVIOUS
<1>5. /\ c \in DOMAIN log /\ r \in c.ranks /\ IsComm(c)
      /\ W[r].where = "in" /\ W[r].e = Top(r) /\ W[r].g = ctx[r]
      /\ IsEngine(Top(r))
  BY <1>1, Here0
<1>6. /\ IsEngine(e) /\ e.at = "vote" /\ e.own = Top(r).own /\ e.views = Top(r).views
      /\ e.req = q
  BY <1>5 DEF IsEngine
<1>7. Stay(r, e, g)
  BY <1>1, <1>6 DEF Stay, Vote, comm
<1>8. log' = [log EXCEPT ![c] = E]
  BY <1>1, <1>4, <1>5, EnterIs DEF Vote, Members
<1>9. Moved(c, W, X, r) /\ Became(X[r], W[r], e, g)
  <2>1. Top(r).at # "split"
    BY <1>1
  <2> QED
    BY <2>1, <1>1, <1>2, <1>7, <1>8, StayMoved
<1>10. ~ Starts(log[c], "split")
  BY <1>1, <1>5, NotSplitting
<1>11. CommOK(c, E, X, a, q)
  <2>1. /\ SameVars(W[r], X[r]) /\ X[r].e = e /\ X[r].g = g
    BY <1>5, <1>6, <1>9 DEF Became, SameVars
  <2>2. X[r].e.at = "vote" /\ X[r].e.req = q
    BY <2>1, <1>6
  <2>3. IsTable(X[r].g.table, Owned(W[RootOf(c)], Given(c, a)))
    BY <2>1
  <2> QED
    BY <2>1, <2>2, <2>3, <1>1, <1>4, <1>5, <1>9, ServeOK
<1>12. ~ Starts(E, "split")
  <2>1. Shape(log[c], c.ranks, RootOf(c)) /\ Sent(log[c], RootOf(c), q) /\ RootOf(c) \in c.ranks
    BY <1>1, <1>5 DEF CommOK, LogOK, IsComm
  <2>2. InOp(log[c], r, "hdr")
    BY <1>1, <1>5, MemberOf DEF Serves
  <2>3. Serving(log[c], RootOf(c), r, "vote")
    BY <1>1, <2>1, <2>2, HeaderFacts
  <2>4. EnterView(log[c], E, c.ranks, RootOf(c), r, "vote")
    BY <1>4, <1>5, <2>1, <2>3, EnterAny DEF CanEnter
  <2>5. Starts(E, "split") => Starts(log[c], "split") \/ "split" = "vote"
    BY <2>4 DEF EnterView
  <2> QED
    BY <2>5, <1>10
<1> QED
  BY <1>1, <1>2, <1>3, <1>7, <1>8, <1>10, <1>11, <1>12, StayInv

LEMMA GoneInv ==
  ASSUME Inv, NEW r \in Rank, NEW c, NEW W, NEW a, NEW q, AtHdr(r, c, W, a, q),
         q.op = "finalize", Depth(r) = 1, act' = SetTop(r, [Top(r) EXCEPT !.at = "gone"]),
         UNCHANGED <<ctx, saved, log, has>>
  PROVE  Inv'
<1>1. /\ c = comm(r) /\ W = Views(c) /\ CommOK(c, log[c], W, a, q) /\ Top(r).at = "hdr"
      /\ RootOf(c) \in log[c][Pos(log[c], r)].in
  BY DEF AtHdr
<1>2. PICK X : X = Views(c)'
  OBVIOUS
<1>3. PICK d : d = Depth(r)
  OBVIOUS
<1>4. PICK E : E = log[c]
  OBVIOUS
<1>5. PICK e, g : e = [Top(r) EXCEPT !.at = "gone"] /\ g = ctx[r]
  OBVIOUS
<1>6. /\ c \in DOMAIN log /\ r \in c.ranks /\ IsComm(c)
      /\ W[r].where = "in" /\ W[r].e = Top(r) /\ W[r].g = ctx[r]
      /\ IsEngine(Top(r)) /\ IsGlobals(ctx[r])
  BY <1>1, Here0
<1>7. /\ IsEngine(e) /\ e.at = "gone" /\ e.own = Top(r).own /\ e.views = Top(r).views
      /\ e.inner = Top(r).inner
  BY <1>5, <1>6 DEF IsEngine
<1>8. Stay(r, e, g) /\ log' = [log EXCEPT ![c] = E] /\ has' = [s \in Rank |-> has'[s]]
  <2>1. ctx' = [ctx EXCEPT ![r] = g]
    BY <1>5 DEF Inv, TypeInv
  <2>2. log' = [log EXCEPT ![c] = E]
    BY <1>4 DEF Inv, TypeInv
  <2>3. has' = [s \in Rank |-> has'[s]]
    BY DEF Inv, TypeInv
  <2> QED
    BY <2>1, <2>2, <2>3, <1>5, <1>6, <1>7 DEF Stay, comm
<1>9. Moved(c, W, X, r) /\ Became(X[r], W[r], e, g)
  <2>1. Top(r).at # "split"
    BY <1>1
  <2> QED
    BY <2>1, <1>1, <1>2, <1>8, StayMoved
<1>10. ~ Starts(E, "split")
  BY <1>1, <1>4, <1>6, NotSplitting
<1>11. CommOK(c, E, X, a, q)
  <2>1. /\ SameVars(W[r], X[r]) /\ X[r].e = e /\ X[r].g = g
    BY <1>5, <1>6, <1>7, <1>9 DEF Became, SameVars
  <2>2. X[r].e.at = "gone" /\ X[r].e.inner = W[r].e.inner /\ X[r].g.table = W[r].g.table
    BY <2>1, <1>5, <1>6, <1>7
  <2> QED
    BY <2>1, <2>2, <1>1, <1>4, <1>6, <1>9, GoneOK
<1> QED
  BY <1>1, <1>2, <1>3, <1>4, <1>8, <1>10, <1>11, StayInv

(* Into MPI_Comm_split.                                                    *)
LEMMA IntoSplitInv ==
  ASSUME Inv, NEW r \in Rank, NEW c, NEW W, NEW a, NEW q, AtHdr(r, c, W, a, q),
         q.op = "split", NEW e, e = [Top(r) EXCEPT !.at = "split", !.req = q, !.inner = FALSE],
         act' = SetTop(r, e), has' = has, saved' = [saved EXCEPT ![r] = Append(@, ctx[r])],
         ctx' = [ctx EXCEPT ![r] = push_context(@)],
         log' = Enter(log, r, comm(r), "split", NoReq)
  PROVE  Inv'
<1>1. /\ c = comm(r) /\ W = Views(c) /\ CommOK(c, log[c], W, a, q) /\ Top(r).at = "hdr"
      /\ RootOf(c) \in log[c][Pos(log[c], r)].in
  BY DEF AtHdr
<1>2. PICK X : X = Views(c)'
  OBVIOUS
<1>3. PICK d : d = Depth(r)
  OBVIOUS
<1>4. PICK E : E = Entered(log[c], c.ranks, r, "split", NoReq)
  OBVIOUS
<1>5. PICK g : g = ctx[r]
  OBVIOUS
<1>6. /\ c \in DOMAIN log /\ r \in c.ranks /\ IsComm(c)
      /\ W[r].where = "in" /\ W[r].e = Top(r) /\ W[r].g = ctx[r]
      /\ IsEngine(Top(r)) /\ IsGlobals(ctx[r]) /\ has' = [s \in Rank |-> has'[s]]
  BY <1>1, Here0 DEF Inv, TypeInv
<1>7. /\ IsEngine(e) /\ e.at = "split" /\ e.own = Top(r).own /\ e.views = Top(r).views
      /\ e.req = q
  BY <1>6 DEF IsEngine
<1>8. Stay(r, e, g)
  BY <1>5, <1>6, <1>7 DEF Stay, comm
<1>9. log' = [log EXCEPT ![c] = E]
  BY <1>1, <1>4, <1>6, EnterIs DEF Members
<1>10. Moved(c, W, X, r) /\ Became(X[r], W[r], e, g)
  <2>1. Top(r).at # "split"
    BY <1>1
  <2> QED
    BY <2>1, <1>1, <1>2, <1>6, <1>8, <1>9, StayMoved
<1>11. ~ Starts(log[c], "split")
  BY <1>1, <1>6, NotSplitting
<1>12. CommOK(c, E, X, a, q)
  <2>1. /\ SameVars(W[r], X[r]) /\ X[r].e = e /\ X[r].g = g
    BY <1>5, <1>6, <1>7, <1>10 DEF Became, SameVars
  <2>2. X[r].e.at = "split" /\ X[r].e.req = q /\ X[r].g.table = W[r].g.table
    BY <2>1, <1>5, <1>6, <1>7
  <2> QED
    BY <2>1, <2>2, <1>1, <1>4, <1>6, <1>10, ServeSplitOK
<1>13. ASSUME Starts(E, "split"), NEW s \in c.ranks PROVE X[s].e.at = "split"
  <2>1. /\ Shape(log[c], c.ranks, RootOf(c)) /\ Sent(log[c], RootOf(c), q) /\ RootOf(c) \in c.ranks
        /\ Shape(E, c.ranks, RootOf(c))
    BY <1>1, <1>6, <1>12 DEF CommOK, LogOK, IsComm
  <2>2. InOp(log[c], r, "hdr")
    BY <1>1, <1>6, MemberOf DEF Serves
  <2>3. Serving(log[c], RootOf(c), r, "split")
    BY <1>1, <2>1, <2>2, HeaderFacts
  <2>4. InOp(E, s, "split")
    BY <1>4, <1>6, <1>13, <2>1, <2>3, EnterSplit
  <2>5. MemberOK(c, E, X[s], s, Owned(X[RootOf(c)], Given(c, a)), Given(c, a), q)
    BY <1>12, <1>13 DEF CommOK
  <2>6. ~ InOp(E, s, "hdr") /\ ~ InOp(E, s, "vote")
    BY <2>1, <2>4, OneOp
  <2>7. ~ IsOut(E, s) /\ ~ Rested(E, s)
    <3>1. E[1].in = c.ranks /\ Len(E) > 0
      BY <1>13, <2>1, StartsFacts DEF Starts
    <3>2. ~ Starts(E, "vote")
      <4>1. {"split"} # {"vote"}
        OBVIOUS
      <4> QED
        BY <4>1, <1>13 DEF Starts
    <3> QED
      BY <3>1, <3>2, <1>13 DEF IsOut, Rested
  <2> QED
    BY <2>5, <2>6, <2>7 DEF MemberOK, Serves
<1> QED
  BY <1>1, <1>2, <1>3, <1>6, <1>8, <1>9, <1>11, <1>12, <1>13, StayInv

(* A worker goes on to the next header.                                    *)
LEMMA NextHeaderInv ==
  ASSUME Inv, NEW r \in Rank, Leaves(r, "vote"), ~ IsRoot(r),
         act' = SetTop(r, [Top(r) EXCEPT !.at = "hdr", !.req = NoReq]),
         log' = Enter(log, r, comm(r), "hdr", NoReq), UNCHANGED <<ctx, saved, has>>
  PROVE  Inv'
<1>1. PICK c, W : c = comm(r) /\ W = Views(c)
  OBVIOUS
<1>2. PICK X : X = Views(c)'
  OBVIOUS
<1>3. PICK d : d = Depth(r)
  OBVIOUS
<1>4. PICK E : E = Entered(log[c], c.ranks, r, "hdr", NoReq)
  OBVIOUS
<1>5. PICK e, g : e = [Top(r) EXCEPT !.at = "hdr", !.req = NoReq] /\ g = ctx[r]
  OBVIOUS
<1>6. /\ c \in DOMAIN log /\ r \in c.ranks /\ IsComm(c)
      /\ W[r].where = "in" /\ W[r].e = Top(r) /\ W[r].g.comm = c
      /\ IsEngine(Top(r)) /\ IsGlobals(ctx[r])
      /\ \E a, q : CommOK(c, log[c], W, a, q)
  BY <1>1, Here0
<1>7. Top(r).at = "vote" /\ c.ranks \subseteq log[c][Pos(log[c], r)].in
  BY <1>1, CurIs DEF Leaves, Here, Members
<1>8. W[r].g = ctx[r] /\ Top(r).at # "split"
  BY <1>1, <1>7, Here0
<1>9. PICK a, q : CommOK(c, log[c], W, a, q)
  BY <1>6
<1>10. /\ IsEngine(e) /\ e.at = "hdr" /\ e.own = Top(r).own /\ e.views = Top(r).views
       /\ e.inner = Top(r).inner
  BY <1>5, <1>6 DEF IsEngine
<1>11. Stay(r, e, g) /\ has' = [s \in Rank |-> has'[s]]
  <2>1. ctx' = [ctx EXCEPT ![r] = g]
    BY <1>5 DEF Inv, TypeInv
  <2>2. has' = [s \in Rank |-> has'[s]]
    BY DEF Inv, TypeInv
  <2> QED
    BY <2>1, <2>2, <1>5, <1>6, <1>10 DEF Stay, comm
<1>12. log' = [log EXCEPT ![c] = E]
  BY <1>1, <1>4, <1>6, EnterIs DEF Members
<1>13. Moved(c, W, X, r) /\ Became(X[r], W[r], e, g)
  BY <1>1, <1>2, <1>8, <1>11, <1>12, StayMoved
<1>14. ~ Starts(log[c], "split")
  BY <1>6, <1>7, <1>9, NotSplitting
<1>15. r # RootOf(c)
  BY <1>1 DEF IsRoot
<1>16. CommOK(c, E, X, a, q)
  <2>1. /\ SameVars(W[r], X[r]) /\ X[r].e = e /\ X[r].g = g
    BY <1>5, <1>6, <1>8, <1>10, <1>13 DEF Became, SameVars
  <2>2. /\ X[r].e.at = "hdr" /\ X[r].e.inner = W[r].e.inner /\ X[r].g.table = W[r].g.table
        /\ W[r].e.at = "vote"
    BY <2>1, <1>5, <1>6, <1>7, <1>8, <1>10
  <2> QED
    BY <2>1, <2>2, <1>4, <1>6, <1>7, <1>9, <1>13, <1>15, NextHeaderOK
<1>17. ~ Starts(E, "split")
  <2>1. Shape(log[c], c.ranks, RootOf(c)) /\ RootOf(c) \in c.ranks
    BY <1>6, <1>9 DEF CommOK, LogOK, IsComm
  <2>2. InOp(log[c], r, "vote")
    <3>1. Serves(log[c], RootOf(c), W[r].e, r, q)
      BY <1>6, <1>9, MemberOf
    <3> QED
      BY <3>1, <1>6, <1>7 DEF Serves
  <2>3. CanEnter(log[c], RootOf(c), r, "hdr")
    BY <1>6, <1>7, <2>1, <2>2, FullFacts DEF CanEnter, Rested
  <2>4. EnterView(log[c], E, c.ranks, RootOf(c), r, "hdr")
    BY <1>4, <1>6, <2>1, <2>3, EnterAny
  <2>5. Starts(E, "split") => Starts(log[c], "split") \/ "split" = "hdr"
    BY <2>4 DEF EnterView
  <2> QED
    BY <2>5, <1>14
<1> QED
  BY <1>1, <1>2, <1>3, <1>8, <1>11, <1>12, <1>14, <1>16, <1>17, StayInv

(* The root's call returns, or throws.                                     *)
LEMMA ReturnInv ==
  ASSUME Inv, NEW r \in Rank, Leaves(r, "vote"), IsRoot(r), NEW exc \in BOOLEAN,
         act' = SetTop(r, [Top(r) EXCEPT !.at = "user", !.exc = exc, !.req = NoReq,
                             !.last = [req |-> Top(r).req, ok |-> ~ Voted(r)]]),
         UNCHANGED <<log, ctx, saved, has>>
  PROVE  Inv'
<1>1. PICK c, W : c = comm(r) /\ W = Views(c)
  OBVIOUS
<1>2. PICK X : X = Views(c)'
  OBVIOUS
<1>3. PICK d : d = Depth(r)
  OBVIOUS
<1>4. PICK E : E = log[c]
  OBVIOUS
<1>5. PICK e, g, ok :
         /\ ok = ~ Voted(r) /\ g = ctx[r]
         /\ e = [Top(r) EXCEPT !.at = "user", !.exc = exc, !.req = NoReq,
                   !.last = [req |-> Top(r).req, ok |-> ok]]
  OBVIOUS
<1>6. /\ c \in DOMAIN log /\ r \in c.ranks /\ IsComm(c)
      /\ W[r].where = "in" /\ W[r].e = Top(r) /\ W[r].g.comm = c
      /\ IsEngine(Top(r)) /\ IsGlobals(ctx[r])
      /\ \E a, q : CommOK(c, log[c], W, a, q)
  BY <1>1, Here0
<1>7. Top(r).at = "vote" /\ c.ranks \subseteq log[c][Pos(log[c], r)].in
  BY <1>1, CurIs DEF Leaves, Here, Members
<1>8. W[r].g = ctx[r] /\ Top(r).at # "split"
  BY <1>1, <1>7, Here0
<1>9. PICK a, q : CommOK(c, log[c], W, a, q)
  BY <1>6
<1>10. /\ IsEngine(e) /\ e.at = "user" /\ e.own = Top(r).own /\ e.views = Top(r).views
       /\ e.inner = Top(r).inner /\ e.last = [req |-> Top(r).req, ok |-> ok]
  BY <1>5, <1>6 DEF IsEngine
<1>11. Stay(r, e, g) /\ has' = [s \in Rank |-> has'[s]]
  <2>1. ctx' = [ctx EXCEPT ![r] = g]
    BY <1>5 DEF Inv, TypeInv
  <2>2. has' = [s \in Rank |-> has'[s]]
    BY DEF Inv, TypeInv
  <2> QED
    BY <2>1, <2>2, <1>5, <1>6, <1>10 DEF Stay, comm
<1>12. log' = [log EXCEPT ![c] = E]
  BY <1>4 DEF Inv, TypeInv
<1>13. Moved(c, W, X, r) /\ Became(X[r], W[r], e, g)
  BY <1>1, <1>2, <1>8, <1>11, <1>12, StayMoved
<1>14. ~ Starts(log[c], "split")
  BY <1>6, <1>7, <1>9, NotSplitting
<1>15. r = RootOf(c)
  BY <1>1 DEF IsRoot
<1>16. ok => \A s \in c.ranks : ~ log[c][Pos(log[c], r)].val[s].exc
  BY <1>1, <1>5, CurIs DEF Voted, Here, Members
<1>17. CommOK(c, E, X, a, q)
  <2>1. /\ SameVars(W[r], X[r]) /\ X[r].e = e /\ X[r].g = g
    BY <1>5, <1>6, <1>8, <1>10, <1>13 DEF Became, SameVars
  <2>2. /\ X[r].e.at = "user" /\ X[r].e.inner = W[r].e.inner /\ X[r].g.table = W[r].g.table
        /\ W[r].e.at = "vote" /\ X[r].e.last = [req |-> W[r].e.req, ok |-> ok]
    BY <2>1, <1>5, <1>6, <1>7, <1>8, <1>10
  <2> QED
    BY <2>1, <2>2, <1>4, <1>6, <1>7, <1>9, <1>13, <1>15, <1>16, VoteRootOK
<1> QED
  BY <1>1, <1>2, <1>3, <1>4, <1>8, <1>11, <1>12, <1>14, <1>17, StayInv

LEMMA LeaveVoteInv ==
  ASSUME Inv, NEW r \in Rank, LeaveVote(r)
  PROVE  Inv'
<1>1. CASE ~ IsRoot(r)
  BY <1>1, NextHeaderInv DEF LeaveVote
<1>2. CASE IsRoot(r)
  <2>1. PICK caught \in {Depth(r) = 1, Top(r).f = "user"} :
          act' = SetTop(r, [Top(r) EXCEPT !.at = "user",
                          !.exc = @ \/ (Voted(r) /\ ~ caught),
                          !.req = NoReq, !.last = [req |-> Top(r).req, ok |-> ~ Voted(r)]])
    BY <1>2 DEF LeaveVote
  <2>2. PICK exc \in BOOLEAN : exc = (Top(r).exc \/ (Voted(r) /\ ~ caught))
    OBVIOUS
  <2>3. act' = SetTop(r, [Top(r) EXCEPT !.at = "user", !.exc = exc,
                          !.req = NoReq, !.last = [req |-> Top(r).req, ok |-> ~ Voted(r)]])
    <3>1. \A f : [f EXCEPT !.at = "user", !.exc = @ \/ (Voted(r) /\ ~ caught),
                    !.req = NoReq, !.last = [req |-> Top(r).req, ok |-> ~ Voted(r)]]
                 = [f EXCEPT !.at = "user", !.exc = f.exc \/ (Voted(r) /\ ~ caught),
                    !.req = NoReq, !.last = [req |-> Top(r).req, ok |-> ~ Voted(r)]]
      OBVIOUS
    <3> QED
      BY <2>1, <2>2, <3>1
  <2>4. Leaves(r, "vote") /\ UNCHANGED <<log, ctx, saved, has>>
    BY <1>2 DEF LeaveVote
  <2> QED
    BY <1>2, <2>3, <2>4, ReturnInv
<1> QED
  BY <1>1, <1>2

(* The id of a request is in the table, for the variable the caller means. *)
Means(r, v) == v.id \in DOMAIN ctx[r].table /\ ctx[r].table[v.id] = v.obj

LEMMA HdrMeans ==
  ASSUME Inv, NEW r \in Rank, NEW c, NEW W, NEW a, NEW q, AtHdr(r, c, W, a, q)
  PROVE  /\ q.op \in {"use", "move", "drop"} => Means(r, q.v)
         /\ q.op = "split" => \A i \in DOMAIN q.args : Means(r, q.args[i])
         /\ q.op = "make" => q.v.id \notin DOMAIN ctx[r].table
         /\ q.op \in {"make", "drop"} => q.v.id \in Nat \ {0}
<1>1. PICK O : O = Owned(W[RootOf(c)], Given(c, a))
  OBVIOUS
<1>2. /\ IsTable(ctx[r].table, Before(O, q)) /\ Distinct(O \cup Before(O, q))
      /\ Valid(q, O, Given(c, a), Cardinality(c.ranks))
  BY <1>1, HdrTable
<1>3. \A v \in Before(O, q) : Means(r, v)
  BY <1>2 DEF IsTable, Means
<1>4. q.op \in {"use", "move", "drop"} => q.v \in Before(O, q)
  BY <1>2 DEF Valid, Before
<1>5. q.op = "split" => \A i \in DOMAIN q.args : q.args[i] \in Before(O, q)
  BY <1>2 DEF Valid, SplitOK, Before
<1>6. q.op = "make" => q.v.id \notin DOMAIN ctx[r].table
  <2>1. SUFFICES ASSUME q.op = "make", q.v.id \in DOMAIN ctx[r].table PROVE FALSE
    OBVIOUS
  <2>2. Before(O, q) = O \ {q.v} /\ q.v \in O
    BY <1>2, <2>1 DEF Valid, Before
  <2>3. PICK v \in O \ {q.v} : v.id = q.v.id
    BY <1>2, <2>1, <2>2 DEF IsTable
  <2> QED
    BY <1>2, <2>2, <2>3 DEF Distinct
<1>7. q.op \in {"make", "drop"} => q.v.id \in Nat \ {0}
  <2>1. q.op \in {"make", "drop"} => q.v \in O \cup Before(O, q)
    BY <1>2 DEF Valid, Before
  <2> QED
    BY <1>2, <2>1 DEF Distinct
<1> QED
  BY <1>3, <1>4, <1>5, <1>6, <1>7

LEMMA EntryGlobals ==
  ASSUME NEW g, IsGlobals(g), NEW id \in Nat \ {0}, NEW obj
  PROVE  /\ IsGlobals(with_entry(g, id, obj))
         /\ with_entry(g, id, obj).comm = g.comm
         /\ with_entry(g, id, obj).current_dvid = g.current_dvid
         /\ with_entry(g, id, obj).table = Added(g.table, id, obj)
         /\ IsGlobals(without_entry(g, id))
         /\ without_entry(g, id).comm = g.comm
         /\ without_entry(g, id).current_dvid = g.current_dvid
         /\ without_entry(g, id).table = Removed(g.table, id)
<1>1. PICK t : t = Added(g.table, id, obj)
  OBVIOUS
<1>2. PICK u : u = Removed(g.table, id)
  OBVIOUS
<1>3. PICK h : h = [g EXCEPT !.table = t]
  OBVIOUS
<1>4. PICK k : k = [g EXCEPT !.table = u]
  OBVIOUS
<1>5. with_entry(g, id, obj) = h
  BY <1>1, <1>3 DEF with_entry, Added
<1>6. without_entry(g, id) = k
  BY <1>2, <1>4 DEF without_entry, Removed
<1>7. /\ h.table = t /\ h.comm = g.comm /\ h.current_dvid = g.current_dvid
      /\ DOMAIN h = {"comm", "table", "current_dvid"}
  BY <1>3 DEF IsGlobals
<1>8. /\ k.table = u /\ k.comm = g.comm /\ k.current_dvid = g.current_dvid
      /\ DOMAIN k = {"comm", "table", "current_dvid"}
  BY <1>4 DEF IsGlobals
<1>9. DOMAIN t \subseteq Nat \ {0} /\ t = [i \in DOMAIN t |-> t[i]]
  BY <1>1 DEF IsGlobals, Added
<1>10. DOMAIN u \subseteq Nat \ {0} /\ u = [i \in DOMAIN u |-> u[i]]
  BY <1>2 DEF IsGlobals, Removed
<1>11. IsGlobals(h)
  BY <1>7, <1>9 DEF IsGlobals
<1>12. IsGlobals(k)
  BY <1>8, <1>10 DEF IsGlobals
<1> QED
  BY <1>1, <1>2, <1>5, <1>6, <1>7, <1>8, <1>11, <1>12

(* The requests that work on a variable.                                   *)
LEMMA ServeVarInv ==
  ASSUME Inv, NEW r \in Rank, NEW c, NEW W, NEW a, NEW q, AtHdr(r, c, W, a, q),
         NEW e, e = [Top(r) EXCEPT !.at = "vote", !.req = q, !.inner = FALSE],
         act' = SetTop(r, e), NEW exc, Vote(r, exc), has' = [s \in Rank |-> has'[s]],
         \/ q.op \in {"use", "move"} /\ ctx' = ctx
         \/ q.op = "make" /\ ctx' = [ctx EXCEPT ![r] = with_entry(@, q.v.id, q.v.obj)]
         \/ q.op = "drop" /\ ctx' = [ctx EXCEPT ![r] = without_entry(@, q.v.id)]
  PROVE  Inv'
<1>1. PICK O : O = Owned(W[RootOf(c)], Given(c, a))
  OBVIOUS
<1>2. /\ IsTable(ctx[r].table, Before(O, q)) /\ Distinct(O \cup Before(O, q))
      /\ Valid(q, O, Given(c, a), Cardinality(c.ranks))
  BY <1>1, HdrTable
<1>3. IsGlobals(ctx[r])
  BY Here0
<1>4. CASE q.op \in {"use", "move"} /\ ctx' = ctx
  <2>1. ctx' = [ctx EXCEPT ![r] = ctx[r]]
    BY <1>4 DEF Inv, TypeInv
  <2>2. IsTable(ctx[r].table, O) /\ q.op \notin {"split", "finalize"}
    BY <1>2, <1>4 DEF Before
  <2> QED
    BY <2>1, <2>2, <1>1, <1>3, ServeInv
<1>5. CASE q.op = "make" /\ ctx' = [ctx EXCEPT ![r] = with_entry(@, q.v.id, q.v.obj)]
  <2>1. PICK g : g = with_entry(ctx[r], q.v.id, q.v.obj)
    OBVIOUS
  <2>2. q.v.id \in Nat \ {0}
    BY <1>5, HdrMeans
  <2>3. /\ IsGlobals(g) /\ g.comm = ctx[r].comm /\ g.current_dvid = ctx[r].current_dvid
        /\ g.table = Added(ctx[r].table, q.v.id, q.v.obj)
    BY <1>3, <2>1, <2>2, EntryGlobals
  <2>4. q.v \in O
    BY <1>2, <1>5 DEF Valid
  <2>5. IsTable(g.table, O)
    BY <1>2, <1>5, <2>3, <2>4, TableAfter
  <2>6. ctx' = [ctx EXCEPT ![r] = g] /\ q.op \notin {"split", "finalize"}
    BY <1>5, <2>1
  <2> QED
    BY <2>3, <2>5, <2>6, <1>1, ServeInv
<1>6. CASE q.op = "drop" /\ ctx' = [ctx EXCEPT ![r] = without_entry(@, q.v.id)]
  <2>1. PICK g : g = without_entry(ctx[r], q.v.id)
    OBVIOUS
  <2>2. q.v.id \in Nat \ {0}
    BY <1>6, HdrMeans
  <2>3. /\ IsGlobals(g) /\ g.comm = ctx[r].comm /\ g.current_dvid = ctx[r].current_dvid
        /\ g.table = Removed(ctx[r].table, q.v.id)
    BY <1>3, <2>1, <2>2, EntryGlobals
  <2>4. q.v \notin O
    BY <1>2, <1>6 DEF Valid
  <2>5. IsTable(g.table, O)
    BY <1>2, <1>6, <2>3, <2>4, TableAfter
  <2>6. ctx' = [ctx EXCEPT ![r] = g] /\ q.op \notin {"split", "finalize"}
    BY <1>6, <2>1
  <2> QED
    BY <2>3, <2>5, <2>6, <1>1, ServeInv
<1> QED
  BY <1>4, <1>5, <1>6

---------------------------------------------------------------------------
(* A new communicator.                                                     *)

(* What the members of a communicator in a split are there for.            *)
Splitting(c, p) ==
  /\ p.op = "split" /\ Proper(p.args)
  /\ \A s \in c.ranks : LET w == View(s, lvl(c)) IN
       /\ w.where = "in"
       /\ w.e.at = "split" => /\ w.e.req = p
                              /\ \A i \in DOMAIN p.args : w.g.table[p.args[i].id] = p.args[i].obj

LEMMA SplittingFacts ==
  ASSUME Inv, NEW c \in DOMAIN log, Starts(log[c], "split")
  PROVE  \E p : Splitting(c, p)
<1>1. PICK W : W = Views(c)
  OBVIOUS
<1>2. PICK L : L = log[c]
  OBVIOUS
<1>3. PICK a, p : CommOK(c, L, W, a, p)
  BY <1>1, <1>2 DEF Inv, CommInv
<1>4. PICK O : O = Owned(W[RootOf(c)], Given(c, a))
  OBVIOUS
<1>5. Shape(L, c.ranks, RootOf(c)) /\ p.op = "split"
  BY <1>2, <1>3 DEF CommOK, LogOK
<1>6. Valid(p, O, Given(c, a), Cardinality(c.ranks))
  BY <1>3, <1>4 DEF CommOK, KnownOK
<1>7. Proper(p.args) /\ \A i \in DOMAIN p.args : p.args[i] \in O
  BY <1>5, <1>6 DEF Valid, SplitOK
<1>8. L[1].in = c.ranks /\ Len(L) > 0 /\ \A s : ~ Owing(L, RootOf(c), s)
  BY <1>2, <1>5, StartsFacts DEF Starts
<1>9. ASSUME NEW s \in c.ranks
      PROVE  /\ W[s].where = "in"
             /\ W[s].e.at = "split" =>
                  /\ W[s].e.req = p
                  /\ \A i \in DOMAIN p.args : W[s].g.table[p.args[i].id] = p.args[i].obj
  <2>1. MemberOK(c, L, W[s], s, O, Given(c, a), p)
    BY <1>3, <1>4, <1>9 DEF CommOK
  <2>2. W[s].where = "in"
    BY <2>1, <1>8, <1>9 DEF MemberOK, IsOut
  <2>3. Serves(L, RootOf(c), W[s].e, s, p) /\ IsTable(W[s].g.table, Expect(L, RootOf(c), s, O, p))
    BY <2>1, <2>2 DEF MemberOK
  <2>4. IsTable(W[s].g.table, O)
    BY <2>3, <1>8 DEF Expect
  <2>5. W[s].e.at = "split" => W[s].e.req = p
    BY <2>3, <1>8 DEF Serves
  <2> QED
    BY <2>2, <2>4, <2>5, <1>7 DEF IsTable
<1>10. \A s \in c.ranks : W[s] = View(s, lvl(c))
  BY <1>1 DEF Views
<1> QED
  BY <1>5, <1>7, <1>9, <1>10 DEF Splitting

LEMMA RootIn ==
  ASSUME NEW S, S \subseteq Nat, S # {}
  PROVE  Min(S) \in S /\ \A k \in S : Min(S) <= k
<1> DEFINE R == {ss \in Nat \X Nat : ss[1] < ss[2]}
<1>1. IsWellFoundedOn(OpToRel(<, Nat), Nat)
  BY NatLessThanWellFounded, Zenon
<1>2. OpToRel(<, Nat) = R
  BY Zenon DEF OpToRel
<1>3. \A x, y \in Nat : <<y, x>> \in R <=> y < x
  OBVIOUS
<1> HIDE DEF R
<1>4. IsWellFoundedOn(R, Nat)
  BY <1>1, <1>2, Zenon
<1>5. PICK m \in S : \A k \in S : ~ (<<k, m>> \in R)
  BY <1>4, WFMin
<1>6. \A k \in S : k \in Nat
  OBVIOUS
<1>7. ASSUME NEW k \in S PROVE m <= k
  <2>1. ~ (k < m)
    BY <1>3, <1>5, <1>6, Zenon
  <2> QED
    BY <2>1, <1>6
<1> QED
  BY <1>7 DEF Min

LEMMA SubCommOK ==
  ASSUME NEW c, IsComm(c), NEW color, NEW r \in c.ranks, NEW x, x = SubComm(c, color, r)
  PROVE  /\ IsComm(x) /\ r \in x.ranks /\ x.ranks \subseteq c.ranks
         /\ lvl(x) = lvl(c) + 1 /\ x # World
         /\ \A t \in x.ranks : SubComm(c, color, t) = x
<1>1. PICK mine : mine = color[Place(c, r)]
  OBVIOUS
<1>2. /\ x = [id |-> Append(c.id, mine), ranks |-> {s \in c.ranks : color[Place(c, s)] = mine}]
      /\ x.id = Append(c.id, mine) /\ x.ranks = {s \in c.ranks : color[Place(c, s)] = mine}
  BY <1>1 DEF SubComm
<1>3. r \in x.ranks /\ x.ranks \subseteq c.ranks
  BY <1>1, <1>2
<1>4. Proper(c.id) /\ Len(c.id) \in Nat
  BY ProperLen DEF IsComm
<1>5. Proper(x.id) /\ Len(x.id) = Len(c.id) + 1
  <2>1. PICK A : A = {c.id[i] : i \in DOMAIN c.id} \cup {mine}
    OBVIOUS
  <2>2. c.id \in Seq(A) /\ mine \in A
    BY <2>1, <1>4 DEF Proper
  <2>3. x.id \in Seq(A) /\ Len(x.id) = Len(c.id) + 1
    BY <1>2, <2>2
  <2>4. \A i \in 1 .. Len(x.id) : x.id[i] \in {x.id[m] : m \in DOMAIN x.id}
    BY <2>3
  <2> QED
    BY <2>3, <2>4 DEF Proper
<1>6. x.ranks \subseteq Nat /\ x.ranks # {} /\ x.ranks \subseteq Rank
  <2>1. Rank \subseteq Nat
    BY NAssumption DEF Rank
  <2> QED
    BY <2>1, <1>3 DEF IsComm
<1>7. RootOf(x) \in x.ranks
  BY <1>6, RootIn DEF RootOf
<1>8. IsComm(x)
  BY <1>2, <1>5, <1>6, <1>7 DEF IsComm
<1>9. lvl(x) = lvl(c) + 1
  BY <1>4, <1>5 DEF lvl
<1>10. x # World
  BY <1>4, <1>5 DEF World
<1>11. ASSUME NEW t \in x.ranks PROVE SubComm(c, color, t) = x
  <2>1. color[Place(c, t)] = mine
    BY <1>2, <1>11
  <2> QED
    BY <2>1, <1>2 DEF SubComm
<1> QED
  BY <1>3, <1>8, <1>9, <1>10, <1>11

(* Nobody has made the communicator of r: its ranks are all about to.      *)
Awaited(w, p, c) == w.where = "split" /\ w.req = p /\ w.up = c

LEMMA AllComing ==
  ASSUME Inv, NEW r \in Rank, NEW c, c = comm(r), Top(r).at = "split", Starts(log[c], "split"),
         NEW p, Splitting(c, p), NEW x, x = SubComm(c, p.color, r), x \notin DOMAIN log
  PROVE  \A t \in x.ranks : Awaited(View(t, lvl(x)), p, c)
<1>1. /\ c \in DOMAIN log /\ r \in c.ranks /\ IsComm(c) /\ Orphans(c)
  BY Here0 DEF Inv
<1>2. PICK k : k = lvl(c)
  OBVIOUS
<1>3. RankOK(r) /\ Depth(r) \in Nat /\ Depth(r) >= 1 /\ k = Depth(r) /\ c = Globals(r, Depth(r)).comm
  BY <1>2, RankFacts DEF Inv
<1>4. /\ x.ranks \subseteq c.ranks /\ lvl(x) = k + 1 /\ r \in x.ranks
      /\ \A t \in x.ranks : SubComm(c, p.color, t) = x
  BY <1>1, <1>2, SubCommOK
<1>5. View(r, k + 1).where = "split" /\ View(r, k).e.at = "split"
  <2>1. View(r, Depth(r)).e = Top(r)
    BY <1>3, ViewIn DEF Top
  <2> QED
    BY <2>1, <1>3, ViewBelow
<1>6. View(r, k).e.req = p
  BY <1>1, <1>2, <1>5 DEF Splitting
<1>7. Coming(r, c) /\ Child(r, c) = x
  BY <1>2, <1>5, <1>6 DEF Coming, Child
<1>8. ASSUME NEW t \in x.ranks
      PROVE  Awaited(View(t, k + 1), p, c)
  <2>1. t \in c.ranks /\ t \in Rank /\ RankOK(t)
    BY <1>1, <1>4, <1>8 DEF IsComm, Inv
  <2>2. View(t, k).e.at = "split" /\ View(t, k).where = "in" /\ View(t, k).e.req = p
    BY <1>1, <1>2, <1>7, <1>8, <2>1 DEF Orphans, Splitting
  <2>3. PICK n : n = Depth(t)
    OBVIOUS
  <2>4. n \in Nat /\ n >= 1
    BY <2>1, <2>3, RankFacts
  <2>5. k \in 1 .. n + 1 /\ (k <= n => c = Globals(t, k).comm)
    BY <1>1, <1>2, <2>1, <2>3, LevelOf
  <2>6. k <= n
    <3>1. SUFFICES ASSUME k = n + 1 PROVE FALSE
      BY <2>4, <2>5
    <3>2. View(t, k).where = Top(t).at
      BY <3>1, <2>3, <2>4, ViewBelow
    <3>3. IsEngine(Top(t))
      BY <2>1, RankFacts
    <3> QED
      BY <2>2, <3>2, <3>3 DEF IsEngine
  <2>7. View(t, k).e = act[t][k]
    BY <2>3, <2>4, <2>5, <2>6, ViewIn
  <2>8. k = n
    <3>1. SUFFICES ASSUME k < n PROVE FALSE
      BY <2>4, <2>5, <2>6
    <3>2. k + 1 \in 1 .. n /\ k + 1 \in Nat /\ k + 1 > 1 /\ (k + 1) - 1 = k
      BY <3>1, <2>4, <2>5
    <3>3. LevelOK(t, k + 1)
      BY <2>1, <2>3, <3>2 DEF RankOK
    <3>4. PICK y : y = Globals(t, k + 1).comm
      OBVIOUS
    <3>5. y \in DOMAIN log /\ t \in y.ranks /\ lvl(y) = k + 1
      BY <3>3, <3>4 DEF LevelOK
    <3>6. PICK a, q : CommOK(y, log[y], Views(y), a, q)
      BY <3>5 DEF Inv, CommInv
    <3>7. y # World
      <4>1. lvl(World) = 1
        BY DEF lvl, World
      <4> QED
        BY <4>1, <3>2, <3>5, <2>4, <2>5
    <3>8. Views(y)[t].req = a /\ y = SubComm(Views(y)[t].up, a.color, t)
      BY <3>5, <3>6, <3>7 DEF CommOK, Tree
    <3>9. Views(y)[t] = View(t, k + 1)
      BY <3>5 DEF Views
    <3>10. View(t, k + 1).req = act[t][k].req /\ View(t, k + 1).up = Globals(t, k).comm
      <4>1. Depth(t) \in Nat /\ k + 1 <= Depth(t)
        BY <2>3, <2>4, <3>2
      <4> QED
        BY <4>1, <3>2, ViewIn
    <3>11. y = SubComm(c, p.color, t)
      BY <3>8, <3>9, <3>10, <2>2, <2>5, <2>6, <2>7
    <3>12. y = x
      BY <3>11, <1>4, <1>8
    <3> QED
      BY <3>5, <3>12
  <2>9. /\ View(t, k + 1).where = Top(t).at
        /\ View(t, k + 1).req = Top(t).req /\ View(t, k + 1).up = Globals(t, k).comm
    BY <2>3, <2>4, <2>8, ViewBelow
  <2>10. Top(t) = act[t][k]
    BY <2>3, <2>8 DEF Top
  <2> QED
    BY <2>2, <2>5, <2>6, <2>7, <2>9, <2>10 DEF Awaited
<1> QED
  BY <1>4, <1>8

(* A rank that does nothing, whose communicators stay.                     *)
LEMMA RankSame ==
  ASSUME NEW s \in Rank, RankOK(s), act'[s] = act[s], saved'[s] = saved[s], ctx'[s] = ctx[s],
         \A k \in 1 .. Depth(s) : Globals(s, k).comm \in DOMAIN log => Globals(s, k).comm \in DOMAIN log'
  PROVE  RankOK(s)' /\ \A k : View(s, k)' = View(s, k)
<1>1. /\ Depth(s)' = Depth(s) /\ Top(s)' = Top(s)
      /\ \A k : Globals(s, k)' = Globals(s, k)
  BY DEF Depth, Top, Globals
<1>2. ASSUME NEW k \in 1 .. Depth(s) PROVE LevelOK(s, k)'
  <2>1. LevelOK(s, k)
    BY <1>2 DEF RankOK
  <2> QED
    BY <2>1, <1>1, <1>2 DEF LevelOK
<1>3. TopOK(s)'
  <2>1. TopOK(s)
    BY DEF RankOK
  <2> QED
    BY <2>1, <1>1 DEF TopOK
<1>4. RankOK(s)'
  BY <1>1, <1>2, <1>3 DEF RankOK
<1>5. \A k : View(s, k)' = View(s, k)
  BY <1>1 DEF View
<1> QED
  BY <1>4, <1>5

(* r starts an engine e on communicator x, with globals g.                 *)
Arrive(r, x, e, g) ==
  /\ act' = [act EXCEPT ![r] = Append(@, e)] /\ saved' = saved
  /\ ctx' = [ctx EXCEPT ![r] = g] /\ has' = has
  /\ IsEngine(e) /\ e.at \in {"user", "hdr"} /\ IsGlobals(g) /\ g.comm = x
  /\ log' = [c \in DOMAIN log' |-> log'[c]] /\ DOMAIN log' = DOMAIN log \cup {x}

LEMMA ArriveRank ==
  ASSUME TypeInv, NEW r \in Rank, RankOK(r), Top(r).at = "split", NEW x, NEW e, NEW g,
         Arrive(r, x, e, g), r \in x.ranks, NEW d, d = Depth(r), lvl(x) = d + 1
  PROVE  /\ TypeInv' /\ RankOK(r)' /\ Depth(r)' = d + 1
         /\ \A s \in Rank \ {r} : act'[s] = act[s] /\ saved'[s] = saved[s] /\ ctx'[s] = ctx[s]
         /\ \A k \in 1 .. d : View(r, k)' = View(r, k)
         /\ \A k : k = d + 1 => Became(View(r, k)', View(r, k), e, g)
<1>1. /\ d \in Nat /\ d >= 1 /\ DOMAIN act[r] = 1 .. d
      /\ Len(saved[r]) = d /\ DOMAIN saved[r] = 1 .. d
      /\ \A k \in 1 .. d - 1 : Globals(r, k) = saved[r][k]
      /\ Globals(r, d) = saved[r][d]
  BY RankFacts
<1>2. DOMAIN act = Rank /\ DOMAIN ctx = Rank
  BY DEF TypeInv
<1>3. act'[r] = Append(act[r], e) /\ saved'[r] = saved[r] /\ ctx'[r] = g
  BY <1>2 DEF Arrive
<1>4. TypeInv'
  BY <1>2 DEF Arrive, TypeInv
<1>5. \A s \in Rank \ {r} : act'[s] = act[s] /\ saved'[s] = saved[s] /\ ctx'[s] = ctx[s]
  BY <1>2 DEF Arrive
<1>6. Proper(act[r]) /\ Proper(saved[r])
  BY DEF RankOK
<1>7. Proper(act'[r]) /\ Len(act'[r]) = d + 1
  <2>1. PICK A : A = {act[r][i] : i \in DOMAIN act[r]} \cup {e}
    OBVIOUS
  <2>2. act[r] \in Seq(A) /\ e \in A /\ Len(act[r]) = d
    BY <2>1, <1>6 DEF Proper, Depth
  <2>3. act'[r] \in Seq(A) /\ Len(act'[r]) = d + 1
    BY <1>3, <2>2
  <2>4. \A i \in 1 .. Len(act'[r]) : act'[r][i] \in {act'[r][m] : m \in DOMAIN act'[r]}
    BY <2>3
  <2> QED
    BY <2>3, <2>4 DEF Proper
<1>8. (\A k \in 1 .. d : act'[r][k] = act[r][k]) /\ act'[r][d + 1] = e
  BY <1>1, <1>3, <1>6 DEF Proper, Depth
<1>9. Depth(r)' = d + 1 /\ Top(r)' = e
  BY <1>7, <1>8 DEF Depth, Top
<1>10. /\ \A k \in 1 .. d : Globals(r, k)' = Globals(r, k)
       /\ \A k : k = d + 1 => Globals(r, k)' = g
  BY <1>1, <1>3 DEF Globals
<1>11. ASSUME NEW k \in 1 .. d + 1 PROVE LevelOK(r, k)'
  <2>1. CASE k <= d
    <3>1. k \in 1 .. d
      BY <2>1, <1>1
    <3>2. LevelOK(r, k)
      BY <3>1 DEF RankOK
    <3>3. k < Depth(r)' /\ (k < d \/ k = d)
      BY <2>1, <1>1, <1>9
    <3>4. act[r][k].at = "split"
      <4>1. CASE k < d
        BY <4>1, <3>2 DEF LevelOK
      <4>2. CASE k = d
        BY <4>2 DEF Top
      <4> QED
        BY <4>1, <4>2, <3>3
    <3>5. DOMAIN log \subseteq DOMAIN log'
      BY DEF Arrive
    <3> QED
      BY <3>1, <3>2, <3>4, <3>5, <1>8, <1>10 DEF LevelOK
  <2>2. CASE k = d + 1
    <3>1. act'[r][k] = e /\ Globals(r, k)' = g /\ ~ (k < Depth(r)')
      BY <2>2, <1>1, <1>8, <1>9, <1>10
    <3> QED
      BY <2>2, <3>1 DEF LevelOK, Arrive
  <2> QED
    BY <2>1, <2>2, <1>1
<1>12. TopOK(r)'
  BY <1>9 DEF TopOK, Arrive
<1>13. Globals(r, 1)'.comm = World
  BY <1>1, <1>10 DEF RankOK
<1>14. Len(saved'[r]) = Depth(r)' - 1 + (IF Top(r)'.at = "split" THEN 1 ELSE 0)
  BY <1>1, <1>3, <1>9 DEF Arrive
<1>15. RankOK(r)'
  BY <1>1, <1>3, <1>6, <1>7, <1>9, <1>11, <1>12, <1>13, <1>14 DEF RankOK
<1>16. ASSUME NEW k \in 1 .. d PROVE View(r, k)' = View(r, k)
  <2>1. act'[r][k] = act[r][k] /\ Globals(r, k)' = Globals(r, k)
    BY <1>8, <1>10, <1>16
  <2>2. k > 1 => act'[r][k - 1] = act[r][k - 1] /\ Globals(r, k - 1)' = Globals(r, k - 1)
    BY <1>1, <1>8, <1>10, <1>16
  <2>3. /\ k \in Nat /\ Depth(r) >= k /\ Depth(r)' >= k
        /\ Depth(r) >= k - 1 /\ Depth(r)' >= k - 1
    BY <1>1, <1>9, <1>16
  <2> QED
    BY <2>1, <2>2, <2>3 DEF View
<1>17. ASSUME NEW k, k = d + 1 PROVE Became(View(r, k)', View(r, k), e, g)
  <2>1. act'[r][k - 1] = act[r][k - 1] /\ Globals(r, k - 1)' = Globals(r, k - 1)
    BY <1>1, <1>8, <1>10, <1>17
  <2>2. /\ k > 1 /\ Depth(r)' >= k /\ Depth(r)' >= k - 1 /\ Depth(r) >= k - 1
        /\ act'[r][k] = e /\ Globals(r, k)' = g
    BY <1>1, <1>8, <1>9, <1>10, <1>17
  <2>3. /\ View(r, k)'.where = "in" /\ View(r, k)'.e = e /\ View(r, k)'.g = g
        /\ View(r, k)'.req = View(r, k).req /\ View(r, k)'.up = View(r, k).up
    BY <2>1, <2>2 DEF View
  <2> QED
    BY <2>3 DEF Became
<1> QED
  BY <1>4, <1>5, <1>9, <1>15, <1>16, <1>17

(* What the step is to the invariant.                                      *)
(* Communicator x, with log L, takes r in, and the log is E.               *)
Welcomes(x, r, L, E, p, e, g) ==
  \A a, q, W, X :
    (/\ CommOK(x, L, W, a, q) /\ W[r].where = "split" /\ W[r].req = p /\ a = p
     /\ \A s \in x.ranks \ {r} : X[s] = W[s]
     /\ Became(X[r], W[r], e, g)) =>
       CommOK(x, E, X, a, q) /\ ~ Starts(L, "split") /\ ~ Starts(E, "split")

LEMMA ArriveInv ==
  ASSUME Inv, NEW r \in Rank, NEW c, c = comm(r), Top(r).at = "split", Starts(log[c], "split"),
         NEW p, Splitting(c, p), NEW x, x = SubComm(c, p.color, r), NEW e, NEW g,
         Arrive(r, x, e, g), NEW L, L = (IF x \in DOMAIN log THEN log[x] ELSE <<>>),
         NEW E, log'[x] = E, \A y \in DOMAIN log : y # x => log'[y] = log[y],
         Welcomes(x, r, L, E, p, e, g)
  PROVE  Inv'
<1>1. /\ c \in DOMAIN log /\ r \in c.ranks /\ IsComm(c) /\ TypeInv /\ RankOK(r)
  BY Here0 DEF Inv
<1>2. PICK d : d = Depth(r)
  OBVIOUS
<1>3. d \in Nat /\ d >= 1 /\ lvl(c) = d /\ c = Globals(r, d).comm
  BY <1>1, <1>2, RankFacts
<1>4. /\ IsComm(x) /\ r \in x.ranks /\ x.ranks \subseteq c.ranks
      /\ lvl(x) = d + 1 /\ x # World /\ \A t \in x.ranks : SubComm(c, p.color, t) = x
  BY <1>1, <1>3, SubCommOK
<1>5. x # c
  BY <1>3, <1>4
<1>6. /\ DOMAIN log' = DOMAIN log \cup {x} /\ log'[x] = E
      /\ \A y \in DOMAIN log : y # x => log'[y] = log[y]
  BY DEF Arrive
<1>7. /\ TypeInv' /\ RankOK(r)' /\ Depth(r)' = d + 1
      /\ \A s \in Rank \ {r} : act'[s] = act[s] /\ saved'[s] = saved[s] /\ ctx'[s] = ctx[s]
      /\ \A k \in 1 .. d : View(r, k)' = View(r, k)
      /\ \A k : k = d + 1 => Became(View(r, k)', View(r, k), e, g)
  BY <1>1, <1>2, <1>4, ArriveRank
<1>8. ASSUME NEW s \in Rank \ {r} PROVE RankOK(s)' /\ \A k : View(s, k)' = View(s, k)
  <2>1. RankOK(s) /\ DOMAIN log \subseteq DOMAIN log'
    BY <1>6, <1>8 DEF Inv
  <2> QED
    BY <2>1, <1>7, <1>8, RankSame
<1>9. ASSUME NEW s \in Rank PROVE RankOK(s)'
  BY <1>7, <1>8, <1>9
<1>10. ASSUME NEW y \in DOMAIN log PROVE IsComm(y) /\ UpOK(y) /\ Orphans(y) /\ CommInv(y)
  BY <1>10 DEF Inv, CommInv
<1>11. View(r, d + 1).where = "split" /\ View(r, d + 1).req = p /\ View(r, d + 1).up = c
  <2>1. View(r, d).e = Top(r)
    BY <1>2, <1>3, ViewIn DEF Top
  <2>2. Top(r).req = p
    BY <2>1, <1>1, <1>3 DEF Splitting
  <2> QED
    BY <2>2, <1>2, <1>3, ViewBelow
<1>12. ASSUME NEW y \in DOMAIN log, r \in y.ranks, y # x PROVE lvl(y) \in 1 .. d
  <2>1. /\ lvl(y) \in 1 .. d + 1
        /\ lvl(y) = d + 1 => y = SubComm(c, Top(r).req.color, r)
    BY <1>2, <1>12, LevelOf
  <2>2. View(r, d + 1).req = Top(r).req
    BY <1>2, <1>3, ViewBelow
  <2>3. lvl(y) # d + 1
    BY <2>1, <2>2, <1>11, <1>12
  <2> QED
    BY <2>1, <2>3, <1>3
<1>13. ASSUME NEW y \in DOMAIN log, y # x, NEW s \in y.ranks
       PROVE  View(s, lvl(y))' = View(s, lvl(y))
  <2>1. s \in Rank
    BY <1>10, <1>13 DEF IsComm
  <2> QED
    BY <2>1, <1>7, <1>8, <1>12, <1>13
<1>14. ASSUME NEW y \in DOMAIN log, y # x PROVE Views(y)' = Views(y)
  BY <1>13, <1>14 DEF Views
<1>15. PICK W, X : W = Views(x) /\ X = Views(x)'
  OBVIOUS
<1>16. /\ \A s \in x.ranks \ {r} : X[s] = W[s]
       /\ Became(X[r], W[r], e, g) /\ W[r] = View(r, d + 1)
  <2>1. \A s \in x.ranks \ {r} : s \in Rank \ {r}
    BY <1>4 DEF IsComm
  <2>2. \A s \in x.ranks \ {r} : View(s, lvl(x))' = View(s, lvl(x))
    BY <2>1, <1>8
  <2>3. W[r] = View(r, lvl(x)) /\ X[r] = View(r, lvl(x))'
    BY <1>4, <1>15 DEF Views
  <2> QED
    BY <2>2, <2>3, <1>4, <1>7, <1>15 DEF Views
<1>17. \E a, q : CommOK(x, L, W, a, q) /\ a = p
  <2>1. CASE x \in DOMAIN log
    <3>1. PICK a, q : CommOK(x, log[x], W, a, q)
      BY <2>1, <1>10, <1>15 DEF CommInv
    <3>2. W[r].req = a
      BY <3>1, <1>4 DEF CommOK, Tree
    <3> QED
      BY <2>1, <3>1, <3>2, <1>11, <1>16
  <2>2. CASE x \notin DOMAIN log
    <3>1. \A t \in x.ranks : Awaited(View(t, lvl(x)), p, c)
      BY <2>2, AllComing
    <3>2. \A t \in x.ranks : /\ W[t].where = "split" /\ W[t].req = p
                             /\ x = SubComm(W[t].up, p.color, t)
      BY <3>1, <1>4, <1>15 DEF Views, Awaited
    <3>3. p.op = "split" /\ Proper(p.args)
      BY DEF Splitting
    <3>4. CommOK(x, <<>>, W, p, NoReq)
      BY <3>2, <3>3, <1>4, CreateOK
    <3> QED
      BY <2>2, <3>4
  <2> QED
    BY <2>1, <2>2
<1>18. PICK a, q : CommOK(x, L, W, a, q) /\ a = p
  BY <1>17
<1>19. CommOK(x, E, X, a, q) /\ ~ Starts(L, "split") /\ ~ Starts(E, "split")
  BY <1>11, <1>16, <1>18 DEF Welcomes
<1>20. ASSUME NEW y \in DOMAIN log' PROVE CommInv(y)'
  <2>1. CASE y = x
    BY <2>1, <1>4, <1>6, <1>15, <1>19 DEF CommInv
  <2>2. CASE y # x
    <3>1. y \in DOMAIN log /\ CommInv(y)
      BY <2>2, <1>6, <1>10, <1>20
    <3> QED
      BY <2>2, <3>1, <1>6, <1>14 DEF CommInv
  <2> QED
    BY <2>1, <2>2
<1>21. \A y \in DOMAIN log : Starts(log[y], "split") => y # x
  BY <1>19
<1>22. ASSUME NEW y \in DOMAIN log' PROVE UpOK(y)'
  <2>1. SUFFICES ASSUME y # World, NEW s \in y.ranks
                 PROVE  /\ View(s, lvl(y))'.up \in DOMAIN log'
                        /\ Starts(log'[View(s, lvl(y))'.up], "split")
    BY DEF UpOK
  <2>2. /\ View(s, lvl(y))'.up \in DOMAIN log
        /\ Starts(log[View(s, lvl(y))'.up], "split")
    <3>1. View(s, lvl(y))'.up = View(s, lvl(y)).up
      <4>1. CASE y # x
        BY <4>1, <2>1, <1>6, <1>13, <1>22
      <4>2. CASE y = x
        <5>1. X[s].up = W[s].up
          BY <4>2, <2>1, <1>16 DEF Became
        <5>2. X[s] = View(s, lvl(y))' /\ W[s] = View(s, lvl(y))
          BY <4>2, <2>1, <1>15 DEF Views
        <5> QED
          BY <5>1, <5>2
      <4> QED
        BY <4>1, <4>2
    <3>2. CASE y \in DOMAIN log
      BY <3>1, <3>2, <2>1, <1>10 DEF UpOK
    <3>3. CASE y \notin DOMAIN log
      <4>1. y = x
        BY <3>3, <1>6, <1>22
      <4>2. View(s, lvl(y)).up = c
        <5>1. \A t \in x.ranks : Awaited(View(t, lvl(x)), p, c)
          BY <3>3, <4>1, AllComing
        <5> QED
          BY <5>1, <4>1, <2>1 DEF Awaited
      <4> QED
        BY <4>2, <3>1, <1>1
    <3> QED
      BY <3>2, <3>3
  <2> QED
    BY <2>2, <1>6, <1>21
<1>23. ASSUME NEW y \in DOMAIN log' PROVE Orphans(y)'
  <2>1. CASE y = x
    BY <2>1, <1>6, <1>19 DEF Orphans
  <2>2. CASE y # x
    <3>0. y \in DOMAIN log /\ log'[y] = log[y]
      BY <2>2, <1>6, <1>23
    <3>1. SUFFICES ASSUME Starts(log[y], "split"), NEW s \in y.ranks, Coming(s, y)',
                          Child(s, y)' \notin DOMAIN log', NEW t \in Child(s, y)'.ranks
                   PROVE  View(t, lvl(y))'.e.at = "split"
      BY <3>0 DEF Orphans
    <3>2. Child(s, y)' = Child(s, y)
      BY <2>2, <3>0, <3>1, <1>13 DEF Child
    <3>3. Coming(s, y)
      <4>1. CASE s # r
        <5>1. s \in Rank \ {r}
          BY <3>0, <3>1, <4>1, <1>10 DEF IsComm
        <5> QED
          BY <5>1, <3>1, <1>8 DEF Coming
      <4>2. CASE s = r
        <5>1. lvl(y) \in 1 .. d
          BY <4>2, <2>2, <3>0, <3>1, <1>12
        <5>2. View(r, lvl(y) + 1)'.where = "in"
          <6>1. lvl(y) + 1 \in Nat /\ lvl(y) + 1 <= Depth(r)'
            BY <5>1, <1>3, <1>7
          <6> QED
            BY <6>1, <1>3, <1>7 DEF View
        <5> QED
          BY <4>2, <5>2, <3>1 DEF Coming
      <4> QED
        BY <4>1, <4>2
    <3>4. View(t, lvl(y)).e.at = "split"
      BY <3>0, <3>1, <3>2, <3>3, <1>6, <1>10 DEF Orphans
    <3>5. t \in y.ranks
      BY <3>1 DEF Child, SubComm
    <3> QED
      BY <2>2, <3>0, <3>4, <3>5, <1>13
  <2> QED
    BY <2>1, <2>2
<1> QED
  BY <1>7, <1>9, <1>20, <1>22, <1>23 DEF Inv

(* The globals of a rank in its new context.                               *)
IsNew(g, h, x, q, old, first, ids) ==
  /\ ids = [i \in DOMAIN q.args |-> first + i - 1]
  /\ g = [h EXCEPT !.comm = x, !.current_dvid = first + Len(q.args),
            !.table = [id \in DOMAIN @ \cup ToSet(ids) |->
              IF id \in ToSet(ids) THEN old[q.args[id - first + 1].id] ELSE @[id]]]
AreViews(V, q, ids) == V = {[id |-> ids[i], obj |-> q.args[i].obj] : i \in DOMAIN q.args}

LEMMA NewGlobals ==
  ASSUME NEW h, IsGlobals(h), h.table = <<>>, NEW first, first = 1, NEW x, NEW p, NEW old,
         Proper(p.args), \A i \in DOMAIN p.args : old[p.args[i].id] = p.args[i].obj,
         NEW ids, NEW g, IsNew(g, h, x, p, old, first, ids), NEW V, AreViews(V, p, ids)
  PROVE  /\ IsGlobals(g) /\ g.comm = x /\ IsTable(g.table, V)
         /\ \A v \in V : v.id < g.current_dvid
         /\ V = {[id |-> i, obj |-> p.args[i].obj] : i \in DOMAIN p.args}
         /\ IsFiniteSet(V)
<1>1. PICK n : n = Len(p.args)
  OBVIOUS
<1>2. n \in Nat /\ DOMAIN p.args = 1 .. n
  BY <1>1, ProperLen
<1>3. ids = [i \in 1 .. n |-> i]
  BY <1>2 DEF IsNew
<1>4. ToSet(ids) = 1 .. n
  BY <1>3 DEF ToSet
<1>5. PICK t : t = [id \in 1 .. n |-> old[p.args[id].id]]
  OBVIOUS
<1>6. DOMAIN h.table = {}
  OBVIOUS
<1>7. t = [id \in DOMAIN h.table \cup ToSet(ids) |->
             IF id \in ToSet(ids) THEN old[p.args[id - first + 1].id] ELSE h.table[id]]
  <2>1. \A id \in 1 .. n : id - first + 1 = id
    BY <1>2
  <2> QED
    BY <2>1, <1>4, <1>5, <1>6
<1>8. g = [h EXCEPT !.comm = x, !.current_dvid = 1 + n, !.table = t]
  BY <1>1, <1>7 DEF IsNew
<1>9. /\ DOMAIN g = {"comm", "table", "current_dvid"}
      /\ g.comm = x /\ g.current_dvid = 1 + n /\ g.table = t
  BY <1>8 DEF IsGlobals
<1>10. IsGlobals(g)
  <2>1. t = [i \in DOMAIN t |-> t[i]] /\ DOMAIN t = 1 .. n
    BY <1>5
  <2>2. 1 .. n \subseteq Nat \ {0} /\ 1 + n \in Nat \ {0}
    BY <1>2
  <2>3. DOMAIN g.table \subseteq Nat \ {0} /\ g.table = [i \in DOMAIN g.table |-> g.table[i]]
    BY <2>1, <2>2, <1>9
  <2>4. g.current_dvid \in Nat \ {0}
    BY <2>2, <1>9
  <2> QED
    BY <2>3, <2>4, <1>9 DEF IsGlobals
<1>11. V = {[id |-> i, obj |-> p.args[i].obj] : i \in 1 .. n}
  BY <1>2, <1>3 DEF AreViews
<1>12. IsTable(t, V)
  <2>1. ASSUME NEW i \in 1 .. n PROVE \E v \in V : v.id = i
    <3>1. PICK v : v = [id |-> i, obj |-> p.args[i].obj]
      OBVIOUS
    <3>2. v \in V /\ v.id = i
      BY <3>1, <1>11
    <3> QED
      BY <3>2
  <2>2. \A v \in V : v.id \in 1 .. n /\ t[v.id] = v.obj
    BY <1>2, <1>5, <1>11
  <2>3. DOMAIN t = 1 .. n
    BY <1>5
  <2>4. DOMAIN t = {v.id : v \in V}
    BY <2>1, <2>2, <2>3
  <2> QED
    BY <2>2, <2>4 DEF IsTable
<1>13. \A v \in V : v.id < 1 + n
  BY <1>2, <1>11
<1>14. V = {[id |-> i, obj |-> p.args[i].obj] : i \in DOMAIN p.args}
  BY <1>2, <1>11
<1>15. IsFiniteSet(V)
  <2>1. PICK f : f = [i \in 1 .. n |-> [id |-> i, obj |-> p.args[i].obj]]
    OBVIOUS
  <2>2. IsFiniteSet(1 .. n)
    <3>1. 1 \in Int /\ n \in Int
      BY <1>2
    <3> QED
      BY <3>1, FS_Interval
  <2>3. \A v \in V : \E i \in 1 .. n : f[i] = v
    BY <2>1, <1>11
  <2>4. f \in [1 .. n -> V]
    BY <2>1, <1>11
  <2>5. f \in Surjection(1 .. n, V)
    BY <2>3, <2>4 DEF Surjection
  <2> QED
    BY <2>2, <2>5, FS_Surjection
<1> QED
  BY <1>9, <1>10, <1>12, <1>13, <1>14, <1>15

Opened(lg, x) == [y \in DOMAIN lg \cup {x} |-> IF y \in DOMAIN lg THEN lg[y] ELSE <<>>]

Splits(r, q, x, first, ids, old, g, V) ==
  /\ q = Top(r).req /\ x = SubComm(comm(r), q.color, r) /\ first = ctx[r].current_dvid
  /\ old = saved[r][Len(saved[r])].table
  /\ IsNew(g, ctx[r], x, q, old, first, ids) /\ AreViews(V, q, ids)
  /\ ctx' = [ctx EXCEPT ![r] = g]
  /\ act' = [act EXCEPT ![r] =
               Append(@, Engine(IF r = RootOf(x) THEN "user" ELSE "hdr", q.f, V))]
  /\ log' = (IF r = RootOf(x) THEN Opened(log, x)
             ELSE Enter(Opened(log, x), r, x, "hdr", NoReq))
  /\ UNCHANGED <<saved, has>>

LEMMA LeaveSplitIs ==
  ASSUME NEW r, LeaveSplit(r)
  PROVE  Leaves(r, "split") /\ \E q, x, first, ids, old, g, V : Splits(r, q, x, first, ids, old, g, V)
<1> DEFINE q == Top(r).req
           x == SubComm(comm(r), q.color, r)
           first == ctx[r].current_dvid
           ids == [i \in DOMAIN q.args |-> first + i - 1]
           old == saved[r][Len(saved[r])].table
           g == [ctx[r] EXCEPT !.comm = x, !.current_dvid = first + Len(q.args),
                   !.table = [id \in DOMAIN @ \cup ToSet(ids) |->
                     IF id \in ToSet(ids) THEN old[q.args[id - first + 1].id] ELSE @[id]]]
           V == {[id |-> ids[i], obj |-> q.args[i].obj] : i \in DOMAIN q.args}
<1>1. IsNew(g, ctx[r], x, q, old, first, ids) /\ AreViews(V, q, ids)
  BY DEF IsNew, AreViews
<1>2. /\ ctx' = [ctx EXCEPT ![r] = g]
      /\ act' = [act EXCEPT ![r] =
               Append(@, Engine(IF r = RootOf(x) THEN "user" ELSE "hdr", q.f, V))]
      /\ log' = (IF r = RootOf(x) THEN Opened(log, x)
                 ELSE Enter(Opened(log, x), r, x, "hdr", NoReq))
      /\ UNCHANGED <<saved, has>> /\ Leaves(r, "split")
  BY Zenon DEF LeaveSplit, Opened
<1>3. /\ q = Top(r).req /\ x = SubComm(comm(r), q.color, r) /\ first = ctx[r].current_dvid
      /\ old = saved[r][Len(saved[r])].table
  OBVIOUS
<1> HIDE DEF q, x, first, ids, old, g, V
<1>4. Splits(r, q, x, first, ids, old, g, V)
  BY <1>1, <1>2, <1>3 DEF Splits
<1> QED
  BY <1>2, <1>4

(* r comes out of the split of request p on c with communicator x, whose   *)
(* log was L and is E, and starts engine e there with views V, globals g.  *)
Comes(r, c, p, x, V, e, g, L, E) ==
  /\ c = comm(r) /\ Top(r).at = "split" /\ Top(r).req = p /\ Starts(log[c], "split")
  /\ Splitting(c, p) /\ x = SubComm(c, p.color, r)
  /\ V = {[id |-> i, obj |-> p.args[i].obj] : i \in DOMAIN p.args}
  /\ IsTable(g.table, V) /\ \A v \in V : v.id < g.current_dvid
  /\ e = Engine(IF r = RootOf(x) THEN "user" ELSE "hdr", p.f, V) /\ Arrive(r, x, e, g)
  /\ L = (IF x \in DOMAIN log THEN log[x] ELSE <<>>)
  /\ E = (IF r = RootOf(x) THEN L ELSE Entered(L, x.ranks, r, "hdr", NoReq))
  /\ log'[x] = E /\ \A y \in DOMAIN log : y # x => log'[y] = log[y]

LEMMA LeaveSplitComes ==
  ASSUME Inv, NEW r \in Rank, LeaveSplit(r)
  PROVE  \E c, p, x, V, e, g, L, E : Comes(r, c, p, x, V, e, g, L, E)
<1>1. PICK c, W : c = comm(r) /\ W = Views(c)
  OBVIOUS
<1>2. /\ c \in DOMAIN log /\ r \in c.ranks /\ IsComm(c)
      /\ W[r].where = "in" /\ W[r].e = Top(r) /\ IsGlobals(ctx[r])
      /\ TypeInv /\ RankOK(r) /\ \E a, q : CommOK(c, log[c], W, a, q)
  BY <1>1, Here0 DEF Inv
<1>3. Top(r).at = "split" /\ c.ranks \subseteq log[c][Pos(log[c], r)].in
  BY <1>1, CurIs DEF LeaveSplit, Leaves, Here, Members
<1>4. Starts(log[c], "split")
  <2>1. PICK a, q : CommOK(c, log[c], W, a, q)
    BY <1>2
  <2>2. Shape(log[c], c.ranks, RootOf(c))
    BY <2>1 DEF CommOK, LogOK
  <2>3. Serves(log[c], RootOf(c), W[r].e, r, q)
    BY <2>1, <1>2, MemberOf
  <2>4. InOp(log[c], r, "split")
    BY <2>3, <1>2, <1>3 DEF Serves
  <2> QED
    BY <2>2, <2>4, <1>3, FullFacts
<1>5. PICK p : Splitting(c, p)
  BY <1>2, <1>4, SplittingFacts
<1>6. PICK d : d = Depth(r)
  OBVIOUS
<1>7. /\ d \in Nat /\ d >= 1 /\ lvl(c) = d /\ Len(saved[r]) = d
      /\ Globals(r, d) = saved[r][d] /\ ctx[r] = push_context(saved[r][d])
      /\ IsGlobals(Globals(r, d))
  BY <1>1, <1>2, <1>3, <1>6, RankFacts
<1>8. PICK q, x, first, ids, old, g, V : Splits(r, q, x, first, ids, old, g, V)
  BY LeaveSplitIs
<1>9. /\ q = p /\ p.op = "split" /\ Proper(p.args)
      /\ \A i \in DOMAIN p.args : old[p.args[i].id] = p.args[i].obj
  <2>1. View(r, d).e = Top(r) /\ View(r, d).g = saved[r][d]
    BY <1>6, <1>7, ViewIn DEF Top
  <2>2. q = Top(r).req /\ old = saved[r][d].table
    BY <1>7, <1>8 DEF Splits
  <2> QED
    BY <2>1, <2>2, <1>2, <1>3, <1>5, <1>7 DEF Splitting
<1>10. ctx[r].table = <<>> /\ first = 1
  BY <1>7, <1>8 DEF push_context, IsGlobals, Splits
<1>11. IsNew(g, ctx[r], x, p, old, first, ids) /\ AreViews(V, p, ids)
  BY <1>8, <1>9 DEF Splits
<1>12. /\ IsGlobals(g) /\ g.comm = x /\ IsTable(g.table, V)
       /\ \A v \in V : v.id < g.current_dvid
       /\ V = {[id |-> i, obj |-> p.args[i].obj] : i \in DOMAIN p.args}
       /\ IsFiniteSet(V)
  BY <1>2, <1>9, <1>10, <1>11, NewGlobals
<1>13. x = SubComm(c, p.color, r)
  BY <1>1, <1>8, <1>9 DEF Splits
<1>14. PICK e : e = Engine(IF r = RootOf(x) THEN "user" ELSE "hdr", p.f, V)
  OBVIOUS
<1>15. /\ IsEngine(e) /\ e.own = {} /\ e.views = V /\ e.last = NoReq
       /\ e.at = (IF r = RootOf(x) THEN "user" ELSE "hdr")
  <2>1. IsFiniteSet({})
    BY FS_EmptySet
  <2> QED
    BY <2>1, <1>12, <1>14 DEF Engine, IsEngine
<1>16. /\ ctx' = [ctx EXCEPT ![r] = g] /\ act' = [act EXCEPT ![r] = Append(@, e)]
       /\ log' = (IF r = RootOf(x) THEN Opened(log, x)
                  ELSE Enter(Opened(log, x), r, x, "hdr", NoReq))
       /\ UNCHANGED <<saved, has>>
  BY <1>8, <1>9, <1>14 DEF Splits
<1>17. PICK L : L = (IF x \in DOMAIN log THEN log[x] ELSE <<>>)
  OBVIOUS
<1>18. PICK E : E = (IF r = RootOf(x) THEN L ELSE Entered(L, x.ranks, r, "hdr", NoReq))
  OBVIOUS
<1>19. /\ log' = [y \in DOMAIN log' |-> log'[y]] /\ DOMAIN log' = DOMAIN log \cup {x}
       /\ log'[x] = E /\ \A y \in DOMAIN log : y # x => log'[y] = log[y]
  <2>1. PICK lg : lg = Opened(log, x)
    OBVIOUS
  <2>2. /\ DOMAIN lg = DOMAIN log \cup {x} /\ lg[x] = L /\ lg = [y \in DOMAIN lg |-> lg[y]]
        /\ \A y \in DOMAIN log : y # x => lg[y] = log[y]
    BY <2>1, <1>17 DEF Opened
  <2>3. CASE r = RootOf(x)
    BY <2>1, <2>2, <2>3, <1>16, <1>18
  <2>4. CASE r # RootOf(x)
    <3>1. x \in DOMAIN lg
      BY <2>2
    <3>2. Enter(lg, r, x, "hdr", NoReq) = [lg EXCEPT ![x] = Entered(lg[x], Members(x), r, "hdr", NoReq)]
      BY <3>1, EnterIs
    <3>3. log' = [lg EXCEPT ![x] = E]
      BY <2>1, <2>2, <2>4, <3>2, <1>16, <1>18 DEF Members
    <3> QED
      BY <3>3, <2>2
  <2> QED
    BY <2>3, <2>4
<1>20. Arrive(r, x, e, g)
  BY <1>12, <1>15, <1>16, <1>19 DEF Arrive
<1>21. /\ c = comm(r) /\ Top(r).at = "split" /\ Top(r).req = p /\ Starts(log[c], "split")
       /\ Splitting(c, p) /\ x = SubComm(c, p.color, r)
       /\ V = {[id |-> i, obj |-> p.args[i].obj] : i \in DOMAIN p.args}
       /\ IsTable(g.table, V) /\ \A v \in V : v.id < g.current_dvid
  BY <1>1, <1>3, <1>4, <1>5, <1>8, <1>9, <1>12, <1>13 DEF Splits
<1>22. Comes(r, c, p, x, V, e, g, L, E)
  BY <1>14, <1>17, <1>18, <1>19, <1>20, <1>21 DEF Comes
<1> QED
  BY <1>22

LEMMA LeaveSplitInv ==
  ASSUME Inv, NEW r \in Rank, LeaveSplit(r)
  PROVE  Inv'
<1>1. PICK c, p, x, V, e, g, L, E : Comes(r, c, p, x, V, e, g, L, E)
  BY LeaveSplitComes
<1>2. /\ c = comm(r) /\ Top(r).at = "split" /\ Starts(log[c], "split")
      /\ Splitting(c, p) /\ x = SubComm(c, p.color, r) /\ Arrive(r, x, e, g)
      /\ L = (IF x \in DOMAIN log THEN log[x] ELSE <<>>)
      /\ log'[x] = E /\ \A y \in DOMAIN log : y # x => log'[y] = log[y]
  BY <1>1 DEF Comes
<1>3. /\ V = {[id |-> i, obj |-> p.args[i].obj] : i \in DOMAIN p.args}
      /\ IsTable(g.table, V) /\ \A v \in V : v.id < g.current_dvid
      /\ E = (IF r = RootOf(x) THEN L ELSE Entered(L, x.ranks, r, "hdr", NoReq))
  BY <1>1 DEF Comes
<1>4. /\ e.own = {} /\ e.views = V /\ e.last = NoReq
      /\ e.at = (IF r = RootOf(x) THEN "user" ELSE "hdr")
  BY <1>1 DEF Comes, Engine
<1>5. g.comm = x
  BY <1>2 DEF Arrive
<1>6. IsComm(x) /\ r \in x.ranks /\ x # World
  <2>1. r \in c.ranks /\ IsComm(c)
    BY <1>2, Here0
  <2> QED
    BY <2>1, <1>2, SubCommOK
<1>7. ASSUME NEW a, NEW s0, NEW Y, NEW X, CommOK(x, L, Y, a, s0), Y[r].where = "split",
              Y[r].req = p, a = p, \A s \in x.ranks \ {r} : X[s] = Y[s],
              Became(X[r], Y[r], e, g)
       PROVE  CommOK(x, E, X, a, s0) /\ ~ Starts(L, "split") /\ ~ Starts(E, "split")
  <2>1. Given(x, a) = V
    BY <1>3, <1>6, <1>7 DEF Given
  <2>2. /\ X[r].where = "in" /\ X[r].req = Y[r].req /\ X[r].up = Y[r].up
        /\ X[r].e = e /\ X[r].g = g
    BY <1>7 DEF Became
  <2>3. /\ X[r].e.own = {} /\ X[r].e.views = Given(x, a) /\ X[r].e.last = NoReq
        /\ X[r].e.at = (IF r = RootOf(x) THEN "user" ELSE "hdr")
        /\ X[r].g.comm = x /\ IsTable(X[r].g.table, Given(x, a))
        /\ \A v \in Given(x, a) : v.id < X[r].g.current_dvid
    BY <2>1, <2>2, <1>3, <1>4, <1>5
  <2> QED
    BY <2>2, <2>3, <1>3, <1>6, <1>7, ArriveOK
<1>8. Welcomes(x, r, L, E, p, e, g)
  BY <1>7 DEF Welcomes
<1> QED
  BY <1>2, <1>8, ArriveInv

---------------------------------------------------------------------------
(* A rank leaves a context.                                                *)
Departed(x, w) == x.where = "vote" /\ x.req = w.req /\ x.up = w.up

(* The innermost engine of r is over.                                      *)
Depart(r, d, f) ==
  /\ d = Depth(r) /\ d > 1 /\ f = [act[r][d - 1] EXCEPT !.at = "vote", !.inner = Top(r).exc]
  /\ ctx' = [ctx EXCEPT ![r] = pop_context(r)]
  /\ saved' = [saved EXCEPT ![r] = Front(@)]
  /\ act' = [act EXCEPT ![r] = Resumed(r)] /\ has' = has
  /\ log' = [y \in DOMAIN log' |-> log'[y]]
  /\ \A k \in 1 .. d - 1 : Globals(r, k).comm \in DOMAIN log'

LEMMA FrontIs ==
  ASSUME NEW L, Proper(L), NEW n, n = Len(L), n > 0, NEW K, K = Front(L)
  PROVE  Proper(K) /\ Len(K) = n - 1 /\ \A k \in 1 .. n - 1 : K[k] = L[k]
<1>1. PICK A : A = {L[i] : i \in DOMAIN L}
  OBVIOUS
<1>2. n \in Nat /\ DOMAIN L = 1 .. n
  BY ProperLen
<1>3. PICK m \in Int : m = n - 1
  BY <1>2
<1>4. \A i \in 1 .. m : L[i] \in A
  BY <1>1, <1>2, <1>3
<1>5. /\ SubSeq(L, 1, m) \in Seq(A)
      /\ Len(SubSeq(L, 1, m)) = IF 1 <= m THEN m - 1 + 1 ELSE 0
      /\ \A i \in 1 .. m - 1 + 1 : SubSeq(L, 1, m)[i] = L[1 + i - 1]
  BY <1>4, SubSeqProperties
<1>6. K = SubSeq(L, 1, m)
  BY <1>3 DEF Front
<1>7. K \in Seq(A) /\ Len(K) = n - 1
  BY <1>2, <1>3, <1>5, <1>6
<1>8. ASSUME NEW k \in 1 .. n - 1 PROVE K[k] = L[k]
  <2>1. k \in 1 .. m - 1 + 1 /\ 1 + k - 1 = k
    BY <1>2, <1>3
  <2> QED
    BY <2>1, <1>5, <1>6
<1>9. \A i \in 1 .. Len(K) : K[i] \in {K[j] : j \in DOMAIN K}
  BY <1>7
<1> QED
  BY <1>7, <1>8, <1>9 DEF Proper

LEMMA DepartRank ==
  ASSUME TypeInv, NEW r \in Rank, RankOK(r), Top(r).at = "hdr", NEW d, NEW f, Depart(r, d, f)
  PROVE  /\ TypeInv' /\ RankOK(r)' /\ Depth(r)' = d - 1
         /\ \A s \in Rank \ {r} : act'[s] = act[s] /\ saved'[s] = saved[s] /\ ctx'[s] = ctx[s]
         /\ \A k \in 1 .. d - 2 : View(r, k)' = View(r, k)
         /\ \A k : k = d - 1 => Became(View(r, k)', View(r, k), f, Globals(r, k))
         /\ \A k : k = d => Departed(View(r, k)', View(r, k))
<1>1. /\ d = Depth(r) /\ d \in Nat /\ d > 1 /\ DOMAIN act[r] = 1 .. d
      /\ Len(saved[r]) = d - 1 /\ DOMAIN saved[r] = 1 .. d - 1
      /\ \A k \in 1 .. d - 1 : Globals(r, k) = saved[r][k]
  BY RankFacts DEF Depart
<1>2. DOMAIN act = Rank /\ DOMAIN ctx = Rank /\ DOMAIN saved = Rank
  BY DEF TypeInv
<1>3. /\ act'[r] = Resumed(r) /\ saved'[r] = Front(saved[r]) /\ ctx'[r] = saved[r][d - 1]
  BY <1>1, <1>2 DEF Depart, pop_context
<1>4. TypeInv'
  <2>1. act' = [s \in Rank |-> act'[s]] /\ saved' = [s \in Rank |-> saved'[s]]
        /\ ctx' = [s \in Rank |-> ctx'[s]]
    BY <1>2 DEF Depart
  <2>2. has' = [s \in Rank |-> has'[s]]
    BY DEF Depart, TypeInv
  <2> QED
    BY <2>1, <2>2 DEF Depart, TypeInv
<1>5. \A s \in Rank \ {r} : act'[s] = act[s] /\ saved'[s] = saved[s] /\ ctx'[s] = ctx[s]
  BY <1>2 DEF Depart
<1>6. Proper(act[r]) /\ Proper(saved[r]) /\ Len(act[r]) = d
  BY <1>1 DEF RankOK, Depth
<1>7. PICK A, F : A = act[r] /\ F = Front(A)
  OBVIOUS
<1>8. Proper(F) /\ Len(F) = d - 1 /\ \A k \in 1 .. d - 1 : F[k] = act[r][k]
  <2>1. Proper(A) /\ d = Len(A) /\ d > 0
    BY <1>1, <1>6, <1>7
  <2>2. Proper(F) /\ Len(F) = d - 1 /\ \A k \in 1 .. d - 1 : F[k] = A[k]
    BY <2>1, <1>7, FrontIs
  <2> QED
    BY <2>2, <1>7
<1>9. act'[r] = [F EXCEPT ![d - 1] = f]
  <2>1. act'[r] = [F EXCEPT ![d - 1].at = "vote", ![d - 1].inner = Top(r).exc]
    BY <1>1, <1>3, <1>7 DEF Resumed
  <2>2. d - 1 \in DOMAIN F
    BY <1>1, <1>8, ProperLen
  <2>3. F[d - 1] = act[r][d - 1]
    BY <1>1, <1>8
  <2>4. f = [F[d - 1] EXCEPT !.at = "vote", !.inner = Top(r).exc]
    BY <2>3 DEF Depart
  <2>5. [F EXCEPT ![d - 1].at = "vote", ![d - 1].inner = Top(r).exc]
          = [F EXCEPT ![d - 1] = [F[d - 1] EXCEPT !.at = "vote", !.inner = Top(r).exc]]
    BY <2>2
  <2> QED
    BY <2>1, <2>4, <2>5
<1>10. Proper(act'[r]) /\ Len(act'[r]) = d - 1
  <2>1. PICK k : k = d - 1
    OBVIOUS
  <2>2. k \in 1 .. Len(F)
    BY <2>1, <1>1, <1>8
  <2>3. Proper([F EXCEPT ![k] = f]) /\ Len([F EXCEPT ![k] = f]) = Len(F)
    BY <2>2, <1>8, ProperExcept
  <2> QED
    BY <2>1, <2>3, <1>8, <1>9
<1>11. (\A k \in 1 .. d - 2 : act'[r][k] = act[r][k]) /\ act'[r][d - 1] = f
  <2>1. DOMAIN F = 1 .. d - 1
    BY <1>8, ProperLen
  <2> QED
    BY <2>1, <1>1, <1>8, <1>9
<1>12. Depth(r)' = d - 1 /\ Top(r)' = f
  BY <1>10, <1>11 DEF Depth, Top
<1>13. /\ Proper(saved'[r]) /\ Len(saved'[r]) = d - 2
       /\ \A k \in 1 .. d - 2 : saved'[r][k] = saved[r][k]
  <2>1. PICK A1, F1, n : A1 = saved[r] /\ F1 = Front(A1) /\ n = Len(A1)
    OBVIOUS
  <2>2. Proper(A1) /\ n > 0
    BY <2>1, <1>1, <1>6
  <2>3. Proper(F1) /\ Len(F1) = n - 1 /\ \A k \in 1 .. n - 1 : F1[k] = A1[k]
    BY <2>1, <2>2, FrontIs
  <2>4. n = d - 1 /\ F1 = saved'[r]
    BY <2>1, <1>1, <1>3
  <2> QED
    BY <2>1, <2>3, <2>4, <1>1
<1>14. \A k \in 1 .. d - 1 : Globals(r, k)' = Globals(r, k)
  BY <1>1, <1>3, <1>13 DEF Globals
<1>15. \A k \in 1 .. d - 1 : LevelOK(r, k)
  BY <1>1 DEF RankOK
<1>16. IsEngine(f) /\ f.at = "vote" /\ f.req = act[r][d - 1].req
  <2>1. IsEngine(act[r][d - 1])
    BY <1>1, <1>15 DEF LevelOK
  <2> QED
    BY <2>1 DEF Depart, IsEngine
<1>17. ASSUME NEW k \in 1 .. d - 1 PROVE LevelOK(r, k)'
  <2>1. LevelOK(r, k) /\ Globals(r, k)' = Globals(r, k)
    BY <1>14, <1>15, <1>17
  <2>2. Globals(r, k).comm \in DOMAIN log'
    BY <1>17 DEF Depart
  <2>3. IsEngine(act'[r][k]) /\ (k < Depth(r)' => act'[r][k].at = "split")
    <3>1. CASE k = d - 1
      BY <3>1, <1>1, <1>11, <1>12, <1>16
    <3>2. CASE k # d - 1
      <4>1. k \in 1 .. d - 2 /\ k < Depth(r)
        BY <3>2, <1>1, <1>17
      <4> QED
        BY <4>1, <2>1, <1>11 DEF LevelOK
    <3> QED
      BY <3>1, <3>2
  <2> QED
    BY <2>1, <2>2, <2>3 DEF LevelOK
<1>18. Globals(r, 1)'.comm = World
  BY <1>1, <1>14 DEF RankOK
<1>19. RankOK(r)'
  <2>1. TopOK(r)'
    BY <1>12, <1>16 DEF TopOK
  <2>2. Len(saved'[r]) = Depth(r)' - 1 + (IF Top(r)'.at = "split" THEN 1 ELSE 0)
    BY <1>1, <1>12, <1>13, <1>16
  <2>3. Depth(r)' >= 1
    BY <1>1, <1>12
  <2>4. \A k \in 1 .. Depth(r)' : LevelOK(r, k)'
    BY <1>12, <1>17
  <2> QED
    BY <2>1, <2>2, <2>3, <2>4, <1>10, <1>13, <1>18 DEF RankOK
<1>20. ASSUME NEW k \in 1 .. d - 2 PROVE View(r, k)' = View(r, k)
  <2>1. act'[r][k] = act[r][k] /\ Globals(r, k)' = Globals(r, k)
    BY <1>1, <1>11, <1>14, <1>20
  <2>2. k > 1 => act'[r][k - 1] = act[r][k - 1] /\ Globals(r, k - 1)' = Globals(r, k - 1)
    <3>1. k > 1 => k - 1 \in 1 .. d - 2 /\ k - 1 \in 1 .. d - 1
      BY <1>1, <1>20
    <3> QED
      BY <3>1, <1>11, <1>14
  <2>3. /\ k \in Nat /\ Depth(r) >= k /\ Depth(r)' >= k
        /\ Depth(r) >= k - 1 /\ Depth(r)' >= k - 1
    BY <1>1, <1>12, <1>20
  <2> QED
    BY <2>1, <2>2, <2>3 DEF View
<1>21. ASSUME NEW k, k = d - 1 PROVE Became(View(r, k)', View(r, k), f, Globals(r, k))
  <2>1. act'[r][k] = f /\ Globals(r, k)' = Globals(r, k)
    BY <1>1, <1>11, <1>14, <1>21
  <2>2. k > 1 => act'[r][k - 1] = act[r][k - 1] /\ Globals(r, k - 1)' = Globals(r, k - 1)
    <3>1. k > 1 => k - 1 \in 1 .. d - 2 /\ k - 1 \in 1 .. d - 1
      BY <1>1, <1>21
    <3> QED
      BY <3>1, <1>11, <1>14
  <2>3. /\ k \in Nat /\ Depth(r) >= k /\ Depth(r)' >= k
        /\ Depth(r) >= k - 1 /\ Depth(r)' >= k - 1
    BY <1>1, <1>12, <1>21
  <2>4. /\ View(r, k)'.where = "in" /\ View(r, k)'.e = f /\ View(r, k)'.g = Globals(r, k)
        /\ View(r, k)'.req = View(r, k).req /\ View(r, k)'.up = View(r, k).up
    BY <2>1, <2>2, <2>3 DEF View
  <2> QED
    BY <2>4 DEF Became
<1>22. ASSUME NEW k, k = d PROVE Departed(View(r, k)', View(r, k))
  <2>1. act'[r][k - 1] = f /\ Globals(r, k - 1)' = Globals(r, k - 1)
    BY <1>1, <1>11, <1>14, <1>22
  <2>2. /\ k > 1 /\ ~ (Depth(r)' >= k) /\ Depth(r)' = k - 1 /\ Depth(r)' >= k - 1
        /\ Depth(r) >= k /\ Depth(r) >= k - 1
    BY <1>1, <1>12, <1>22
  <2>3. f.req = act[r][k - 1].req /\ f.at = "vote"
    BY <1>16, <1>22
  <2>4. /\ View(r, k)'.where = "vote"
        /\ View(r, k)'.req = View(r, k).req /\ View(r, k)'.up = View(r, k).up
    BY <2>1, <2>2, <2>3 DEF View
  <2> QED
    BY <2>4 DEF Departed
<1> QED
  BY <1>4, <1>5, <1>12, <1>19, <1>20, <1>21, <1>22

(* Whoever is inside a context, or on its way there, is in the split.      *)
AtSplit(w) == w.where = "in" /\ w.e.at = "split"

LEMMA InChild ==
  ASSUME NEW t \in Rank, RankOK(t), NEW k \in Nat, k >= 1, View(t, k + 1).where \in {"in", "split"}
  PROVE  AtSplit(View(t, k))
<1>1. PICK n : n = Depth(t)
  OBVIOUS
<1>2. n \in Nat /\ n >= 1 /\ Top(t) = act[t][n] /\ IsEngine(Top(t))
  BY <1>1, RankFacts DEF Top
<1>3. CASE k + 1 <= n
  <2>1. k \in 1 .. n /\ k < n
    BY <1>2, <1>3
  <2>2. LevelOK(t, k)
    BY <2>1, <1>1 DEF RankOK
  <2>3. act[t][k].at = "split"
    BY <2>1, <2>2, <1>1 DEF LevelOK
  <2>4. View(t, k).where = "in" /\ View(t, k).e = act[t][k]
    BY <2>1, <1>1, <1>2, ViewIn
  <2> QED
    BY <2>3, <2>4 DEF AtSplit
<1>4. CASE k + 1 = n + 1
  <2>1. View(t, k + 1).where = Top(t).at
    BY <1>1, <1>2, <1>4, ViewBelow
  <2>2. k = n /\ k <= n
    BY <1>2, <1>4
  <2>3. View(t, k).where = "in" /\ View(t, k).e = act[t][k]
    BY <2>2, <1>1, <1>2, ViewIn
  <2> QED
    BY <2>1, <2>2, <2>3, <1>2 DEF AtSplit, IsEngine
<1>5. CASE k + 1 > n + 1
  BY <1>1, <1>2, <1>5, ViewNone
<1> QED
  BY <1>2, <1>3, <1>4, <1>5

(* MPI_Comm_free: the communicator ends when everyone else is out of it.   *)
Voting(s, c) == View(s, lvl(c)).where = "vote"

LEMMA OutIs ==
  ASSUME Inv, NEW r \in Rank, NEW c, NEW W, NEW a, NEW q, AtHdr(r, c, W, a, q), NEW s \in c.ranks
  PROVE  (/\ Cur(s, c) > 0 /\ ctx[s].comm # c
          /\ \A i \in DOMAIN saved[s] : saved[s][i].comm # c) <=> Voting(s, c)
<1>1. /\ c = comm(r) /\ W = Views(c) /\ CommOK(c, log[c], W, a, q)
  BY DEF AtHdr
<1>2. c \in DOMAIN log /\ IsComm(c)
  BY <1>1, Here0
<1>3. s \in Rank /\ RankOK(s)
  BY <1>2 DEF IsComm, Inv
<1>4. PICK k, n : k = lvl(c) /\ n = Depth(s)
  OBVIOUS
<1>5. W[s] = View(s, k)
  BY <1>1, <1>4 DEF Views
<1>6. MemberOK(c, log[c], W[s], s, Owned(W[RootOf(c)], Given(c, a)), Given(c, a), q)
  BY <1>1 DEF CommOK
<1>7. Shape(log[c], c.ranks, RootOf(c))
  BY <1>1 DEF CommOK, LogOK
<1>8. k \in Nat /\ k >= 1 /\ n \in Nat /\ n >= 1
  BY <1>2, <1>3, <1>4, ProperLen, RankFacts DEF IsComm, lvl
<1>9. /\ \A i \in 1 .. n - 1 : Globals(s, i) = saved[s][i]
      /\ Top(s).at # "split" => Len(saved[s]) = n - 1 /\ Globals(s, n) = ctx[s]
      /\ Top(s).at = "split" => Len(saved[s]) = n /\ Globals(s, n) = saved[s][n]
      /\ DOMAIN saved[s] = 1 .. Len(saved[s]) /\ comm(s) = Globals(s, n).comm
      /\ lvl(comm(s)) = n
  BY <1>3, <1>4, RankFacts
<1>10. ASSUME Cur(s, c) > 0, ctx[s].comm # c, \A i \in DOMAIN saved[s] : saved[s][i].comm # c
       PROVE  Voting(s, c)
  <2>1. ~ IsOut(log[c], s)
    BY <1>7, <1>10, PosOut, CurIs
  <2>2. W[s].where # "split"
    BY <2>1, <1>6 DEF MemberOK
  <2>3. W[s].where # "in"
    <3>1. SUFFICES ASSUME W[s].where = "in" PROVE FALSE
      OBVIOUS
    <3>2. k <= n
      <4>1. SUFFICES ASSUME ~ (k <= n) PROVE FALSE
        OBVIOUS
      <4>2. CASE k = n + 1
        <5>1. View(s, k).where = Top(s).at /\ IsEngine(Top(s))
          BY <4>2, <1>3, <1>4, <1>8, RankFacts, ViewBelow
        <5> QED
          BY <5>1, <3>1, <1>5 DEF IsEngine
      <4>3. CASE k > n + 1
        <5>1. View(s, k).where = "none"
          BY <4>3, <1>4, <1>8, ViewNone
        <5> QED
          BY <5>1, <3>1, <1>5
      <4> QED
        BY <4>1, <4>2, <4>3, <1>8
    <3>3. Globals(s, k).comm = c
      <4>1. View(s, k).g = Globals(s, k)
        BY <3>2, <1>4, <1>8, ViewIn
      <4> QED
        BY <4>1, <3>1, <1>5, <1>6 DEF MemberOK
    <3>4. CASE k < n
      <4>1. k \in 1 .. n - 1 /\ k \in 1 .. Len(saved[s])
        BY <3>4, <1>3, <1>8, <1>9
      <4> QED
        BY <4>1, <3>3, <1>9, <1>10
    <3>5. CASE k = n
      BY <3>3, <3>5, <1>9, <1>10 DEF comm
    <3> QED
      BY <3>2, <3>4, <3>5, <1>8
  <2>4. W[s].where = "vote"
    BY <2>2, <2>3, <1>6 DEF MemberOK
  <2> QED
    BY <2>4, <1>4, <1>5 DEF Voting
<1>11. ASSUME Voting(s, c)
       PROVE  /\ Cur(s, c) > 0 /\ ctx[s].comm # c
              /\ \A i \in DOMAIN saved[s] : saved[s][i].comm # c
  <2>1. W[s].where = "vote"
    BY <1>4, <1>5, <1>11 DEF Voting
  <2>2. InOp(log[c], s, "hdr")
    BY <2>1, <1>6 DEF MemberOK
  <2>3. Cur(s, c) > 0
    <3>1. PICK j \in 1 .. Len(log[c]) : IsAt(log[c], s, j)
      BY <2>2 DEF InOp
    <3>2. Pos(log[c], s) = j /\ Len(log[c]) \in Nat
      BY <3>1, <1>7, PosOf, ShapeLen
    <3> QED
      BY <3>2, CurIs
  <2>4. k = n + 1 /\ Top(s).at = "vote"
    <3>1. CASE k <= n
      <4>1. View(s, k).where = "in"
        BY <3>1, <1>4, <1>8, ViewIn
      <4> QED
        BY <4>1, <2>1, <1>5
    <3>2. CASE k = n + 1
      BY <3>2, <2>1, <1>4, <1>5, <1>8, ViewBelow
    <3>3. CASE k > n + 1
      <4>1. View(s, k).where = "none"
        BY <3>3, <1>4, <1>8, ViewNone
      <4> QED
        BY <4>1, <2>1, <1>5
    <3> QED
      BY <3>1, <3>2, <3>3, <1>8
  <2>5. ctx[s].comm # c
    BY <2>4, <1>4, <1>8, <1>9 DEF comm
  <2>6. ASSUME NEW i \in DOMAIN saved[s] PROVE saved[s][i].comm # c
    <3>1. i \in 1 .. n - 1 /\ i \in 1 .. n
      BY <2>4, <2>6, <1>8, <1>9
    <3>2. LevelOK(s, i)
      BY <3>1, <1>3, <1>4 DEF RankOK
    <3>3. lvl(saved[s][i].comm) = i
      BY <3>1, <3>2, <1>9 DEF LevelOK
    <3> QED
      BY <3>1, <3>3, <2>4, <1>4, <1>8
  <2> QED
    BY <2>3, <2>5, <2>6
<1> QED
  BY <1>10, <1>11

LEMMA FreedIs ==
  ASSUME Inv, NEW r \in Rank, NEW c, NEW W, NEW a, NEW q, AtHdr(r, c, W, a, q),
         NEW lg, lg = Freed(r, c)
  PROVE  /\ lg = [y \in DOMAIN lg |-> lg[y]] /\ DOMAIN lg \subseteq DOMAIN log
         /\ \A y \in DOMAIN lg : lg[y] = log[y]
         /\ \A y \in DOMAIN log : y # c => y \in DOMAIN lg
         /\ c \notin DOMAIN lg => \A s \in c.ranks \ {r} : Voting(s, c)
         /\ c \in DOMAIN lg => \E s \in c.ranks \ {r} : ~ Voting(s, c)
<1>1. c \in DOMAIN log /\ log = [y \in DOMAIN log |-> log[y]]
  BY Here0 DEF AtHdr, Inv, TypeInv
<1>2. \A s \in c.ranks \ {r} :
        (/\ Cur(s, c) > 0 /\ ctx[s].comm # c
         /\ \A i \in DOMAIN saved[s] : saved[s][i].comm # c) <=> Voting(s, c)
  BY OutIs
<1>3. CASE \A s \in c.ranks \ {r} : Voting(s, c)
  <2>1. lg = [y \in DOMAIN log \ {c} |-> log[y]]
    BY <1>2, <1>3 DEF Freed, Members
  <2> QED
    BY <2>1, <1>3
<1>4. CASE ~ \A s \in c.ranks \ {r} : Voting(s, c)
  <2>1. lg = log
    BY <1>2, <1>4 DEF Freed, Members
  <2> QED
    BY <2>1, <1>1, <1>4
<1> QED
  BY <1>3, <1>4

(* r leaves c for the communicator p of its k-th engine, which becomes f;  *)
(* lg is what the end of c leaves, L the log of p and E what it becomes.   *)
Goes(r, c, p, k, b, f, lg, L, E) ==
  /\ k = Depth(r) - 1 /\ p = Globals(r, k).comm /\ p \in DOMAIN log /\ r \in p.ranks
  /\ lvl(p) = k /\ p # c /\ act[r][k].at = "split" /\ IsEngine(act[r][k])
  /\ Starts(log[p], "split") /\ lg = Freed(r, c)
  /\ b = Top(r).exc /\ f = [act[r][k] EXCEPT !.at = "vote", !.inner = Top(r).exc]
  /\ L = log[p] /\ E = Entered(L, p.ranks, r, "vote", Ballot(b))
  /\ DOMAIN log' = DOMAIN lg /\ log' = [y \in DOMAIN log' |-> log'[y]]
  /\ log'[p] = E /\ \A y \in DOMAIN lg : y # p => log'[y] = log[y]
  /\ Depart(r, k + 1, f)

LEMMA EndContextGoes ==
  ASSUME Inv, NEW r \in Rank, NEW c, NEW W, NEW a, NEW q, AtHdr(r, c, W, a, q),
         q.op = "finalize", Depth(r) > 1, EndContext(r), has' = has
  PROVE  \E p, k, b, f, lg, L, E : Goes(r, c, p, k, b, f, lg, L, E)
<1>1. /\ c = comm(r) /\ W = Views(c) /\ CommOK(c, log[c], W, a, q) /\ Top(r).at = "hdr"
      /\ RootOf(c) \in log[c][Pos(log[c], r)].in
  BY DEF AtHdr
<1>2. /\ c \in DOMAIN log /\ r \in c.ranks /\ UpOK(c)
      /\ W[r].where = "in" /\ W[r].e = Top(r) /\ IsEngine(Top(r))
      /\ TypeInv /\ RankOK(r)
  BY <1>1, Here0 DEF Inv
<1>3. PICK d : d = Depth(r)
  OBVIOUS
<1>4. /\ d \in Nat /\ d > 1 /\ lvl(c) = d /\ Len(saved[r]) = d - 1
      /\ Globals(r, d - 1) = saved[r][d - 1]
      /\ \A k \in 1 .. d : LevelOK(r, k)
  BY <1>1, <1>2, <1>3, RankFacts DEF RankOK
<1>5. PICK p, k : p = Globals(r, d - 1).comm /\ k = d - 1
  OBVIOUS
<1>6. k \in 1 .. d /\ k \in Nat /\ k >= 1 /\ k < d /\ d = k + 1
  BY <1>4, <1>5
<1>7. /\ p \in DOMAIN log /\ r \in p.ranks /\ lvl(p) = k /\ p # c
      /\ IsEngine(act[r][k]) /\ act[r][k].at = "split"
  BY <1>3, <1>4, <1>5, <1>6 DEF LevelOK
<1>8. /\ View(r, k).where = "in" /\ View(r, k).e = act[r][k] /\ View(r, k).g = Globals(r, k)
       /\ View(r, d).req = act[r][k].req /\ View(r, d).up = p
  <2>1. k <= Depth(r) /\ d <= Depth(r) /\ d > 1
    BY <1>3, <1>4, <1>6
  <2> QED
    BY <2>1, <1>3, <1>4, <1>5, <1>6, ViewIn
<1>9. Starts(log[p], "split")
  <2>1. c # World
    <3>1. lvl(World) = 1
      BY DEF lvl, World
    <3> QED
      BY <3>1, <1>4
  <2> QED
    BY <2>1, <1>2, <1>4, <1>8 DEF UpOK
<1>10. PICK lg : lg = Freed(r, c)
  OBVIOUS
<1>11. /\ lg = [y \in DOMAIN lg |-> lg[y]] /\ DOMAIN lg \subseteq DOMAIN log
       /\ \A y \in DOMAIN lg : lg[y] = log[y]
       /\ \A y \in DOMAIN log : y # c => y \in DOMAIN lg
       /\ c \notin DOMAIN lg => \A s \in c.ranks \ {r} : Voting(s, c)
       /\ c \in DOMAIN lg => \E s \in c.ranks \ {r} : ~ Voting(s, c)
  BY <1>10, FreedIs
<1>12. PICK b, L, E : /\ b = Top(r).exc /\ L = log[p]
                      /\ E = Entered(L, p.ranks, r, "vote", Ballot(b))
  OBVIOUS
<1>13. /\ DOMAIN log' = DOMAIN lg /\ log' = [y \in DOMAIN log' |-> log'[y]]
       /\ log'[p] = E /\ \A y \in DOMAIN lg : y # p => log'[y] = log[y]
  <2>1. p \in DOMAIN lg /\ lg[p] = L
    BY <1>7, <1>11, <1>12
  <2>2. log' = Enter(lg, r, p, "vote", Ballot(b))
    BY <1>1, <1>4, <1>5, <1>10, <1>12 DEF EndContext, pop_context
  <2>3. log' = [lg EXCEPT ![p] = E]
    BY <2>1, <2>2, <1>12, EnterIs DEF Members
  <2> QED
    BY <2>1, <2>3, <1>11
<1>14. PICK f : f = [act[r][d - 1] EXCEPT !.at = "vote", !.inner = Top(r).exc]
  OBVIOUS
<1>15. Depart(r, d, f)
  <2>1. ASSUME NEW j \in 1 .. d - 1 PROVE Globals(r, j).comm \in DOMAIN log'
    <3>1. j \in 1 .. d /\ j # d
      BY <2>1, <1>4
    <3>2. Globals(r, j).comm \in DOMAIN log /\ lvl(Globals(r, j).comm) = j
      BY <3>1, <1>4 DEF LevelOK
    <3>3. Globals(r, j).comm # c
      BY <3>1, <3>2, <1>4
    <3> QED
      BY <3>2, <3>3, <1>11, <1>13
  <2> QED
    BY <2>1, <1>3, <1>4, <1>13, <1>14 DEF Depart, EndContext
<1>16. Goes(r, c, p, k, b, f, lg, L, E)
  <2>1. k = Depth(r) - 1 /\ k + 1 = d /\ d - 1 = k
    BY <1>3, <1>5, <1>6
  <2> QED
    BY <2>1, <1>5, <1>7, <1>9, <1>10, <1>12, <1>13, <1>14, <1>15 DEF Goes
<1> QED
  BY <1>16

LEMMA EndContextInv ==
  ASSUME Inv, NEW r \in Rank, NEW c, NEW W, NEW a, NEW q, AtHdr(r, c, W, a, q),
         q.op = "finalize", Depth(r) > 1, EndContext(r), has' = has
  PROVE  Inv'
<1>1. /\ c = comm(r) /\ W = Views(c) /\ CommOK(c, log[c], W, a, q) /\ Top(r).at = "hdr"
      /\ RootOf(c) \in log[c][Pos(log[c], r)].in
  BY DEF AtHdr
<1>2. /\ c \in DOMAIN log /\ r \in c.ranks /\ IsComm(c) /\ UpOK(c)
      /\ W[r].where = "in" /\ W[r].e = Top(r) /\ IsEngine(Top(r))
      /\ TypeInv /\ RankOK(r)
  BY <1>1, Here0 DEF Inv
<1>3. PICK d : d = Depth(r)
  OBVIOUS
<1>4. /\ d \in Nat /\ d > 1 /\ lvl(c) = d /\ Len(saved[r]) = d - 1
      /\ Globals(r, d - 1) = saved[r][d - 1]
      /\ \A k \in 1 .. d : LevelOK(r, k)
  BY <1>1, <1>2, <1>3, RankFacts DEF RankOK
<1>5. PICK p, k, b, f, lg, L, E : Goes(r, c, p, k, b, f, lg, L, E)
  BY EndContextGoes
<1>6. /\ k = d - 1 /\ p = Globals(r, k).comm
      /\ k \in 1 .. d /\ k \in Nat /\ k >= 1 /\ k < d /\ d = k + 1
  <2>1. k = d - 1 /\ p = Globals(r, k).comm
    BY <1>3, <1>5 DEF Goes
  <2> QED
    BY <2>1, <1>4
<1>7. /\ p \in DOMAIN log /\ r \in p.ranks /\ lvl(p) = k /\ p # c
      /\ IsEngine(act[r][k]) /\ act[r][k].at = "split"
  BY <1>5 DEF Goes
<1>8. ASSUME NEW y \in DOMAIN log PROVE IsComm(y) /\ UpOK(y) /\ Orphans(y) /\ CommInv(y)
  BY <1>8 DEF Inv, CommInv
<1>9. ~ Starts(log[c], "split")
  BY <1>1, <1>2, NotSplitting
<1>10. /\ View(r, k).where = "in" /\ View(r, k).e = act[r][k] /\ View(r, k).g = Globals(r, k)
       /\ View(r, d).req = act[r][k].req /\ View(r, d).up = p
  <2>1. k <= Depth(r) /\ d <= Depth(r) /\ d > 1
    BY <1>3, <1>4, <1>6
  <2> QED
    BY <2>1, <1>3, <1>4, <1>6, ViewIn
<1>11. Starts(log[p], "split")
  BY <1>5 DEF Goes
<1>12. PICK z : Splitting(p, z)
  BY <1>7, <1>11, SplittingFacts
<1>13. View(r, d).req = z /\ c = SubComm(p, z.color, r)
  <2>1. View(r, k).e.req = z
    BY <1>7, <1>10, <1>12 DEF Splitting
  <2>2. c # World
    BY <1>9, <1>11, <1>4 DEF lvl, World
  <2>3. W[r].req = a /\ c = SubComm(W[r].up, a.color, r)
    BY <2>2, <1>1, <1>2 DEF CommOK, Tree
  <2>4. W[r] = View(r, d)
    BY <1>1, <1>2, <1>4 DEF Views
  <2> QED
    BY <2>1, <2>3, <2>4, <1>10
<1>14. /\ lg = [y \in DOMAIN lg |-> lg[y]] /\ DOMAIN lg \subseteq DOMAIN log
       /\ \A y \in DOMAIN lg : lg[y] = log[y]
       /\ \A y \in DOMAIN log : y # c => y \in DOMAIN lg
       /\ c \notin DOMAIN lg => \A s \in c.ranks \ {r} : Voting(s, c)
       /\ c \in DOMAIN lg => \E s \in c.ranks \ {r} : ~ Voting(s, c)
  BY <1>5, FreedIs DEF Goes
<1>15. /\ b = Top(r).exc /\ L = log[p] /\ E = Entered(L, p.ranks, r, "vote", Ballot(b))
  BY <1>5 DEF Goes
<1>16. /\ DOMAIN log' = DOMAIN lg /\ log' = [y \in DOMAIN log' |-> log'[y]]
       /\ log'[p] = E /\ \A y \in DOMAIN lg : y # p => log'[y] = log[y]
  BY <1>5 DEF Goes
<1>17. f = [act[r][k] EXCEPT !.at = "vote", !.inner = Top(r).exc]
  BY <1>5 DEF Goes
<1>18. Depart(r, d, f)
  <2>1. k + 1 = d
    BY <1>6
  <2> QED
    BY <2>1, <1>5 DEF Goes
<1>19. /\ TypeInv' /\ RankOK(r)' /\ Depth(r)' = k
       /\ \A s \in Rank \ {r} : act'[s] = act[s] /\ saved'[s] = saved[s] /\ ctx'[s] = ctx[s]
       /\ \A j \in 1 .. k - 1 : View(r, j)' = View(r, j)
       /\ \A j : j = k => Became(View(r, j)', View(r, j), f, Globals(r, j))
       /\ \A j : j = d => Departed(View(r, j)', View(r, j))
  <2>1. d - 1 = k /\ d - 2 = k - 1
    BY <1>4, <1>6
  <2>2. /\ TypeInv' /\ RankOK(r)' /\ Depth(r)' = d - 1
        /\ \A s \in Rank \ {r} : act'[s] = act[s] /\ saved'[s] = saved[s] /\ ctx'[s] = ctx[s]
        /\ \A j \in 1 .. d - 2 : View(r, j)' = View(r, j)
        /\ \A j : j = d - 1 => Became(View(r, j)', View(r, j), f, Globals(r, j))
        /\ \A j : j = d => Departed(View(r, j)', View(r, j))
    BY <1>1, <1>2, <1>18, DepartRank
  <2> QED
    BY <2>1, <2>2
<1>20. ASSUME NEW s \in c.ranks \ {r}, View(s, d).where = "vote", NEW j \in 1 .. Depth(s)
       PROVE  Globals(s, j).comm # c
  <2>1. s \in Rank /\ RankOK(s) /\ Depth(s) \in Nat
    BY <1>2, <1>20, RankFacts DEF IsComm, Inv
  <2>2. SUFFICES ASSUME Globals(s, j).comm = c PROVE FALSE
    OBVIOUS
  <2>3. j = d
    BY <2>1, <2>2, <1>4, <1>20 DEF RankOK, LevelOK
  <2>4. View(s, d).where = "in"
    BY <2>1, <2>3, <1>4, <1>20, ViewIn
  <2> QED
    BY <2>4, <1>20
<1>21. ASSUME NEW s \in Rank \ {r} PROVE RankOK(s)' /\ \A j : View(s, j)' = View(s, j)
  <2>1. RankOK(s)
    BY <1>21 DEF Inv
  <2>2. ASSUME NEW j \in 1 .. Depth(s), Globals(s, j).comm \in DOMAIN log
        PROVE  Globals(s, j).comm \in DOMAIN log'
    <3>1. SUFFICES ASSUME Globals(s, j).comm = c, c \notin DOMAIN lg PROVE FALSE
      BY <2>2, <1>14, <1>16
    <3>2. s \in c.ranks \ {r}
      BY <2>1, <2>2, <3>1, <1>21 DEF RankOK, LevelOK
    <3>3. View(s, d).where = "vote"
      BY <3>1, <3>2, <1>4, <1>14 DEF Voting
    <3> QED
      BY <2>2, <3>1, <3>2, <3>3, <1>20
  <2> QED
    BY <2>1, <2>2, <1>19, <1>21, RankSame
<1>22. ASSUME NEW s \in Rank PROVE RankOK(s)'
  BY <1>19, <1>21, <1>22
<1>23. ASSUME NEW y \in DOMAIN log, r \in y.ranks, y # c, y # p PROVE lvl(y) \in 1 .. k - 1
  <2>1. /\ lvl(y) \in 1 .. d + 1
        /\ lvl(y) <= d => y = Globals(r, lvl(y)).comm
        /\ lvl(y) = d + 1 => Starts(log[comm(r)], "split")
    BY <1>3, <1>23, LevelOf
  <2>2. lvl(y) # d + 1
    BY <2>1, <1>1, <1>9
  <2>3. lvl(y) # d
    <3>1. c = Globals(r, d).comm
      BY <1>1, <1>2, <1>3, RankFacts
    <3> QED
      BY <3>1, <2>1, <1>4, <1>23
  <2>4. lvl(y) # k
    BY <2>1, <1>4, <1>6, <1>23
  <2> QED
    BY <2>1, <2>2, <2>3, <2>4, <1>4, <1>6
<1>24. ASSUME NEW y \in DOMAIN log, y # c, y # p, NEW s \in y.ranks
       PROVE  View(s, lvl(y))' = View(s, lvl(y))
  <2>1. s \in Rank
    BY <1>8, <1>24 DEF IsComm
  <2> QED
    BY <2>1, <1>19, <1>21, <1>23, <1>24
<1>25. PICK X, P, Q : X = Views(c)' /\ P = Views(p) /\ Q = Views(p)'
  OBVIOUS
<1>26. /\ \A s \in c.ranks \ {r} : X[s] = W[s]
       /\ Departed(X[r], W[r])
  <2>1. ASSUME NEW s \in c.ranks \ {r} PROVE X[s] = W[s]
    <3>1. s \in Rank \ {r}
      BY <2>1, <1>2 DEF IsComm
    <3>2. View(s, lvl(c))' = View(s, lvl(c))
      BY <3>1, <1>21
    <3> QED
      BY <3>2, <2>1, <1>1, <1>25 DEF Views
  <2>2. X[r] = View(r, lvl(c))' /\ W[r] = View(r, lvl(c))
    BY <1>1, <1>2, <1>25 DEF Views
  <2>3. Departed(View(r, lvl(c))', View(r, lvl(c)))
    BY <1>4, <1>19
  <2> QED
    BY <2>1, <2>2, <2>3
<1>27. /\ \A s \in p.ranks \ {r} : Q[s] = P[s]
       /\ Became(Q[r], P[r], f, Globals(r, k)) /\ P[r] = View(r, k)
  <2>1. ASSUME NEW s \in p.ranks \ {r} PROVE Q[s] = P[s]
    <3>1. s \in Rank \ {r}
      BY <2>1, <1>7, <1>8 DEF IsComm
    <3>2. View(s, lvl(p))' = View(s, lvl(p))
      BY <3>1, <1>21
    <3> QED
      BY <3>2, <2>1, <1>25 DEF Views
  <2>2. Q[r] = View(r, lvl(p))' /\ P[r] = View(r, lvl(p))
    BY <1>7, <1>25 DEF Views
  <2>3. Became(View(r, lvl(p))', View(r, lvl(p)), f, Globals(r, lvl(p)))
    BY <1>7, <1>19
  <2> QED
    BY <2>1, <2>2, <2>3, <1>7
<1>28. ASSUME c \in DOMAIN lg PROVE CommOK(c, log[c], X, a, q)
  <2>1. PICK s \in c.ranks \ {r} : ~ Voting(s, c)
    BY <1>14, <1>28
  <2>2. X[s].where # "vote"
    BY <2>1, <1>1, <1>26 DEF Voting, Views
  <2>3. Alive(c, X)
    BY <2>1, <2>2 DEF Alive
  <2>4. X[r].where = "vote" /\ X[r].req = W[r].req /\ X[r].up = W[r].up
    BY <1>26 DEF Departed
  <2>5. W[r].e.at = "hdr"
    BY <1>1, <1>2
  <2> QED
    BY <2>3, <2>4, <2>5, <1>1, <1>2, <1>26, DepartOK
<1>29. PICK a1, q1 : CommOK(p, E, Q, a1, q1)
  <2>1. PICK a1, q1 : CommOK(p, L, P, a1, q1)
    BY <1>7, <1>8, <1>15, <1>25 DEF CommInv
  <2>2. /\ Q[r].where = "in" /\ Q[r].e = f /\ Q[r].g = P[r].g
        /\ Q[r].req = P[r].req /\ Q[r].up = P[r].up
        /\ P[r].where = "in" /\ P[r].e = act[r][k] /\ P[r].e.at = "split"
    BY <1>7, <1>10, <1>27 DEF Became
  <2>3. /\ f.own = act[r][k].own /\ f.views = act[r][k].views /\ f.at = "vote" /\ f.inner = b
        /\ f.req = act[r][k].req
    BY <1>6, <1>7, <1>15, <1>17 DEF IsEngine
  <2>4. Moved(p, P, Q, r) /\ SameVars(P[r], Q[r]) /\ Q[r].g.table = P[r].g.table
    BY <2>2, <2>3, <1>27 DEF Moved, SameVars
  <2>5. Q[r].e.at = "vote" /\ Q[r].e.req = P[r].e.req /\ Q[r].e.inner = b
    BY <2>2, <2>3
  <2>6. CommOK(p, E, Q, a1, q1)
    BY <2>1, <2>2, <2>4, <2>5, <1>7, <1>8, <1>11, <1>15, ResumeOK
  <2> QED
    BY <2>6
<1>30. ASSUME NEW y \in DOMAIN log' PROVE CommInv(y)'
  <2>1. y \in DOMAIN log /\ y \in DOMAIN lg /\ CommInv(y) /\ IsComm(y)
    BY <1>8, <1>14, <1>16, <1>30
  <2>2. CASE y = c
    BY <2>1, <2>2, <1>7, <1>16, <1>25, <1>28 DEF CommInv
  <2>3. CASE y = p
    BY <2>1, <2>3, <1>16, <1>25, <1>29 DEF CommInv
  <2>4. CASE y # c /\ y # p
    <3>1. Views(y)' = Views(y)
      BY <2>1, <2>4, <1>24 DEF Views
    <3> QED
      BY <2>1, <2>4, <3>1, <1>16 DEF CommInv
  <2> QED
    BY <2>2, <2>3, <2>4
<1>31. ASSUME NEW y \in DOMAIN log, NEW s \in y.ranks
       PROVE  View(s, lvl(y))'.up = View(s, lvl(y)).up
  <2>1. CASE y = c
    <3>1. X[s].up = W[s].up
      BY <2>1, <1>26, <1>31 DEF Departed
    <3> QED
      BY <2>1, <3>1, <1>1, <1>25, <1>31 DEF Views
  <2>2. CASE y = p
    <3>1. Q[s].up = P[s].up
      BY <2>2, <1>27, <1>31 DEF Became
    <3> QED
      BY <2>2, <3>1, <1>25, <1>31 DEF Views
  <2>3. CASE y # c /\ y # p
    BY <2>3, <1>24, <1>31
  <2> QED
    BY <2>1, <2>2, <2>3
<1>32. ASSUME NEW y \in DOMAIN log', y # World, NEW s \in y.ranks, View(s, lvl(y)).up = p
       PROVE  Starts(E, "split")
  <2>1. SUFFICES ASSUME ~ Starts(E, "split") PROVE FALSE
    OBVIOUS
  <2>2. PICK Y : Y = Views(y)'
    OBVIOUS
  <2>3. PICK a2, q2 : CommOK(y, log'[y], Y, a2, q2)
    BY <2>2, <1>30, <1>32 DEF CommInv
  <2>4. PICK t \in y.ranks : Y[t].where # "vote"
    BY <2>3 DEF CommOK, Alive
  <2>5. Y[t].where \in {"in", "split"}
    BY <2>3, <2>4 DEF CommOK, MemberOK
  <2>6. y = SubComm(p, a2.color, s)
    <3>1. y = SubComm(Y[s].up, a2.color, s)
      BY <2>3, <1>32 DEF CommOK, Tree
    <3>2. Y[s] = View(s, lvl(y))'
      BY <2>2, <1>32 DEF Views
    <3>3. View(s, lvl(y))'.up = p
      BY <1>14, <1>16, <1>31, <1>32
    <3> QED
      BY <3>1, <3>2, <3>3
  <2>7. s \in p.ranks
    BY <2>6, <1>32 DEF SubComm
  <2>8. t \in p.ranks /\ lvl(y) = d
    BY <2>4, <2>6, <2>7, <1>6, <1>7, <1>8, SubCommOK
  <2>9. Y[t] = View(t, d)'
    BY <2>2, <2>4, <2>8 DEF Views
  <2>10. t # r
    <3>1. SUFFICES ASSUME t = r PROVE FALSE
      OBVIOUS
    <3>2. Departed(View(r, d)', View(r, d))
      BY <1>19
    <3> QED
      BY <3>1, <3>2, <2>5, <2>9 DEF Departed
  <2>11. t \in Rank \ {r} /\ RankOK(t)
    BY <2>8, <2>10, <1>7, <1>8 DEF IsComm, Inv
  <2>12. AtSplit(View(t, k))
    <3>1. View(t, k + 1).where \in {"in", "split"}
      BY <2>5, <2>9, <2>11, <1>6, <1>21
    <3> QED
      BY <3>1, <2>11, <1>6, InChild
  <2>13. Q[t].where = "in" /\ Q[t].e.at = "split"
    <3>1. P[t] = View(t, k)
      BY <2>8, <1>7, <1>25 DEF Views
    <3> QED
      BY <3>1, <2>8, <2>10, <2>12, <1>27 DEF AtSplit
  <2>14. InOp(E, t, "split") /\ Shape(E, p.ranks, RootOf(p))
    <3>1. Serves(E, RootOf(p), Q[t].e, t, q1)
      BY <2>8, <2>13, <1>29, MemberOf
    <3> QED
      BY <3>1, <2>13, <1>29 DEF Serves, CommOK, LogOK
  <2>15. PICK a3, q3 : CommOK(p, L, P, a3, q3)
    BY <1>7, <1>8, <1>15, <1>25 DEF CommInv
  <2>16. Shape(L, p.ranks, RootOf(p)) /\ RootOf(p) \in p.ranks
    BY <2>15, <1>7, <1>8 DEF CommOK, LogOK, IsComm
  <2>17. IsAt(L, r, 1)
    <3>1. P[r].where = "in" /\ P[r].e.at = "split"
      BY <1>7, <1>10, <1>27
    <3>2. Serves(L, RootOf(p), P[r].e, r, q3)
      BY <3>1, <2>15, <1>7, MemberOf
    <3>3. InOp(L, r, "split")
      BY <3>1, <3>2 DEF Serves
    <3>4. Len(L) \in 1 .. 2 /\ (Len(L) > 1 => L[2].ops = {"vote"})
      BY <2>16, <1>11, <1>15, StartsFacts
    <3>5. PICK j \in 1 .. Len(L) : IsAt(L, r, j) /\ L[j].ops = {"split"}
      BY <3>3 DEF InOp
    <3>6. {"split"} # {"vote"}
      OBVIOUS
    <3>7. j # 2
      BY <3>4, <3>5, <3>6
    <3>8. j = 1
      BY <3>4, <3>5, <3>7
    <3> QED
      BY <3>5, <3>8
  <2>18. InOp(E, t, "vote")
    BY <2>1, <2>8, <2>16, <2>17, <1>7, <1>11, <1>15, EnterVote
  <2>19. "split" = "vote"
    BY <2>14, <2>18, OneOp
  <2> QED
    BY <2>19
<1>33. ASSUME NEW y \in DOMAIN log' PROVE UpOK(y)'
  <2>1. SUFFICES ASSUME y # World, NEW s \in y.ranks
                 PROVE  /\ View(s, lvl(y))'.up \in DOMAIN log'
                        /\ Starts(log'[View(s, lvl(y))'.up], "split")
    BY DEF UpOK
  <2>2. PICK u : u = View(s, lvl(y)).up
    OBVIOUS
  <2>3. y \in DOMAIN log
    BY <1>14, <1>16, <1>33
  <2>4. View(s, lvl(y))'.up = u /\ u \in DOMAIN log /\ Starts(log[u], "split")
    BY <2>1, <2>2, <2>3, <1>8, <1>31 DEF UpOK
  <2>5. u # c /\ u \in DOMAIN log'
    BY <2>4, <1>9, <1>14, <1>16
  <2>6. Starts(log'[u], "split")
    <3>1. CASE u = p
      BY <3>1, <2>1, <2>2, <1>16, <1>32, <1>33
    <3>2. CASE u # p
      BY <3>2, <2>4, <2>5, <1>16
    <3> QED
      BY <3>1, <3>2
  <2> QED
    BY <2>4, <2>5, <2>6
<1>34. ASSUME NEW y \in DOMAIN log', y # p PROVE Orphans(y)'
  <2>0. y \in DOMAIN log /\ log'[y] = log[y]
    BY <1>14, <1>16, <1>34
  <2>1. SUFFICES ASSUME Starts(log[y], "split"), NEW s \in y.ranks, Coming(s, y)',
                        Child(s, y)' \notin DOMAIN log', NEW t \in Child(s, y)'.ranks
                 PROVE  View(t, lvl(y))'.e.at = "split"
    BY <2>0 DEF Orphans
  <2>2. y # c
    BY <2>1, <1>9
  <2>3. Child(s, y)' = Child(s, y)
    BY <2>0, <2>1, <2>2, <1>24, <1>34 DEF Child
  <2>4. s # r
    <3>1. SUFFICES ASSUME s = r PROVE FALSE
      OBVIOUS
    <3>2. lvl(y) \in 1 .. k - 1
      BY <3>1, <2>0, <2>1, <2>2, <1>23, <1>34
    <3>3. lvl(y) + 1 \in Nat /\ lvl(y) + 1 <= Depth(r)'
      <4>1. k \in Nat /\ Depth(r)' = k
        BY <1>6, <1>19
      <4> QED
        BY <3>2, <4>1
    <3>4. View(r, lvl(y) + 1)'.where = "in"
      BY <3>3, <1>6, <1>19 DEF View
    <3> QED
      BY <3>1, <3>4, <2>1 DEF Coming
  <2>5. s \in Rank \ {r} /\ Coming(s, y)
    <3>1. s \in Rank \ {r}
      BY <2>0, <2>1, <2>4, <1>8 DEF IsComm
    <3> QED
      BY <3>1, <2>1, <1>21 DEF Coming
  <2>6. Child(s, y) # c \/ c \in DOMAIN lg
    <3>1. SUFFICES ASSUME Child(s, y) = c, c \notin DOMAIN lg PROVE FALSE
      OBVIOUS
    <3>2. s \in c.ranks /\ lvl(c) = lvl(y) + 1
      BY <2>0, <2>1, <3>1, <1>8, SubCommOK DEF Child
    <3>3. View(s, lvl(c)).where = "vote"
      BY <3>1, <3>2, <2>4, <1>14 DEF Voting
    <3> QED
      BY <3>2, <3>3, <2>5 DEF Coming
  <2>7. Child(s, y) \notin DOMAIN log
    BY <2>1, <2>3, <2>6, <1>14, <1>16
  <2>8. View(t, lvl(y)).e.at = "split"
    BY <2>0, <2>1, <2>3, <2>5, <2>7, <1>8 DEF Orphans
  <2>9. t \in y.ranks
    BY <2>1 DEF Child, SubComm
  <2> QED
    BY <2>0, <2>2, <2>8, <2>9, <1>24, <1>34
<1>35. Orphans(p)'
  <2>1. SUFFICES ASSUME NEW s \in p.ranks, Coming(s, p)',
                        Child(s, p)' \notin DOMAIN log', NEW t \in Child(s, p)'.ranks
                 PROVE  View(t, lvl(p))'.e.at = "split"
    BY DEF Orphans
  <2>2. s # r
    <3>1. SUFFICES ASSUME s = r PROVE FALSE
      OBVIOUS
    <3>2. Departed(View(r, d)', View(r, d))
      BY <1>19
    <3> QED
      BY <3>1, <3>2, <2>1, <1>6, <1>7 DEF Coming, Departed
  <2>3. s \in Rank \ {r}
    BY <2>1, <2>2, <1>7, <1>8 DEF IsComm
  <2>4. PICK y : y = Child(s, p)
    OBVIOUS
  <2>5. Child(s, p)' = y /\ Coming(s, p)
    <3>1. \A j : View(s, j)' = View(s, j)
      BY <2>3, <1>21
    <3> QED
      BY <3>1, <2>1, <2>4 DEF Child, Coming
  <2>6. /\ s \in y.ranks /\ y.ranks \subseteq p.ranks
        /\ \A x \in y.ranks : SubComm(p, View(s, k).e.req.color, x) = y
    <3>1. y = SubComm(p, View(s, k).e.req.color, s)
      BY <2>4, <1>7 DEF Child
    <3> QED
      BY <3>1, <2>1, <1>7, <1>8, SubCommOK
  <2>7. y # c \/ c \in DOMAIN lg
    <3>1. SUFFICES ASSUME y = c, c \notin DOMAIN lg PROVE FALSE
      OBVIOUS
    <3>2. View(s, d).where = "vote"
      BY <3>1, <2>2, <2>6, <1>4, <1>14 DEF Voting
    <3> QED
      BY <3>2, <2>5, <1>6, <1>7 DEF Coming
  <2>8. y \notin DOMAIN log
    BY <2>1, <2>5, <2>7, <1>14, <1>16
  <2>9. \A x \in y.ranks : View(x, k).e.at = "split"
    BY <2>1, <2>4, <2>5, <2>8, <1>7, <1>8, <1>11 DEF Orphans
  <2>10. t \in y.ranks
    BY <2>1, <2>5
  <2>11. t # r
    <3>1. SUFFICES ASSUME t = r PROVE FALSE
      OBVIOUS
    <3>2. View(s, k).e.req = z
      BY <2>1, <2>6, <2>9, <1>7, <1>12 DEF Splitting
    <3>3. c = y
      BY <3>1, <3>2, <2>6, <2>10, <1>13
    <3> QED
      BY <3>3, <2>8, <1>2
  <2>12. t \in Rank \ {r}
    BY <2>6, <2>10, <2>11, <1>7, <1>8 DEF IsComm
  <2> QED
    BY <2>9, <2>10, <2>12, <1>7, <1>21
<1> QED
  BY <1>19, <1>22, <1>30, <1>33, <1>34, <1>35 DEF Inv

(* What LeaveHdr does with request q, whose ids are known.                 *)
Known(r, q) ==
  IF q.op = "split" THEN \A i \in DOMAIN q.args : q.args[i].id \in DOMAIN ctx[r].table
  ELSE q.op \in {"use", "move", "drop"} => q.v.id \in DOMAIN ctx[r].table
ServesBy(r, q, e) ==
  /\ act' = SetTop(r, e) /\ \E exc : Vote(r, exc)
  /\ has' = [s \in Rank |-> has'[s]]
  /\ \/ q.op = "use" /\ ctx' = ctx /\ has' = has
     \/ /\ q.op = "move" /\ ctx' = ctx
        /\ has' = [has EXCEPT ![r] = @ \cup {ctx[r].table[q.v.id]}]
     \/ /\ q.op = "make" /\ ctx' = [ctx EXCEPT ![r] = with_entry(@, q.v.id, q.v.obj)]
        /\ has' = has
     \/ /\ q.op = "drop" /\ ctx' = [ctx EXCEPT ![r] = without_entry(@, q.v.id)]
        /\ has' = [has EXCEPT ![r] = @ \ {ctx[r].table[q.v.id]}]
SplitsBy(r, q, e) ==
  /\ q.op = "split" /\ act' = SetTop(r, e) /\ has' = has
  /\ saved' = [saved EXCEPT ![r] = Append(@, ctx[r])]
  /\ ctx' = [ctx EXCEPT ![r] = push_context(@)]
  /\ log' = Enter(log, r, comm(r), "split", NoReq)
Ends(r, q) ==
  /\ q.op = "finalize"
  /\ \/ /\ Depth(r) = 1
        /\ act' = SetTop(r, [Top(r) EXCEPT !.at = "gone"])
        /\ UNCHANGED <<ctx, saved, log, has>>
     \/ Depth(r) > 1 /\ EndContext(r) /\ has' = has

LEMMA LeaveHdrIs ==
  ASSUME TypeInv, NEW r \in Rank, LeaveHdr(r), NEW q, q = Pending(r), Known(r, q),
         NEW e, e = [Top(r) EXCEPT !.at = "vote", !.req = q, !.inner = FALSE],
         NEW f, f = [Top(r) EXCEPT !.at = "split", !.req = q, !.inner = FALSE]
  PROVE  ServesBy(r, q, e) \/ SplitsBy(r, q, f) \/ Ends(r, q)
<1>1. has = [s \in Rank |-> has[s]]
  BY DEF TypeInv
<1>2. \A z : [has EXCEPT ![r] = z] = [s \in Rank |-> [has EXCEPT ![r] = z][s]]
  BY <1>1
<1>3. CASE Ends(r, q)
  BY <1>3
<1>4. CASE /\ q.op = "make"
           /\ ctx' = [ctx EXCEPT ![r] = with_entry(@, q.v.id, q.v.obj)]
           /\ act' = SetTop(r, e) /\ Vote(r, FALSE) /\ has' = has
  BY <1>1, <1>4 DEF ServesBy
<1>5. CASE /\ q.op = "use" /\ \E exc : Vote(r, exc)
           /\ act' = SetTop(r, e) /\ ctx' = ctx /\ has' = has
  BY <1>1, <1>5 DEF ServesBy
<1>6. CASE /\ q.op = "move" /\ has' = [has EXCEPT ![r] = @ \cup {ctx[r].table[q.v.id]}]
           /\ act' = SetTop(r, e) /\ Vote(r, FALSE) /\ ctx' = ctx
  BY <1>2, <1>6 DEF ServesBy
<1>7. CASE /\ q.op = "drop" /\ ctx' = [ctx EXCEPT ![r] = without_entry(@, q.v.id)]
           /\ has' = [has EXCEPT ![r] = @ \ {ctx[r].table[q.v.id]}]
           /\ act' = SetTop(r, e) /\ Vote(r, FALSE)
  BY <1>2, <1>7 DEF ServesBy
<1>8. CASE SplitsBy(r, q, f)
  BY <1>8
<1>9. \/ Ends(r, q)
      \/ /\ q.op = "make"
         /\ ctx' = [ctx EXCEPT ![r] = with_entry(@, q.v.id, q.v.obj)]
         /\ act' = SetTop(r, e) /\ Vote(r, FALSE) /\ has' = has
      \/ /\ q.op = "use" /\ \E exc : Vote(r, exc)
         /\ act' = SetTop(r, e) /\ ctx' = ctx /\ has' = has
      \/ /\ q.op = "move" /\ has' = [has EXCEPT ![r] = @ \cup {ctx[r].table[q.v.id]}]
         /\ act' = SetTop(r, e) /\ Vote(r, FALSE) /\ ctx' = ctx
      \/ /\ q.op = "drop" /\ ctx' = [ctx EXCEPT ![r] = without_entry(@, q.v.id)]
         /\ has' = [has EXCEPT ![r] = @ \ {ctx[r].table[q.v.id]}]
         /\ act' = SetTop(r, e) /\ Vote(r, FALSE)
      \/ SplitsBy(r, q, f)
  BY DEF LeaveHdr, Known, Ends, SplitsBy
<1> QED
  BY <1>3, <1>4, <1>5, <1>6, <1>7, <1>8, <1>9

LEMMA LeaveHdrInv ==
  ASSUME Inv, NEW r \in Rank, LeaveHdr(r)
  PROVE  Inv'
<1>1. PICK c, W, q : c = comm(r) /\ W = Views(c) /\ q = Pending(r)
  OBVIOUS
<1>2. PICK a, q0 : AtHdr(r, c, W, a, q0)
  BY <1>1, AtHdrFacts DEF LeaveHdr
<1>3. AtHdr(r, c, W, a, q)
  BY <1>1, <1>2 DEF AtHdr
<1>4. Known(r, q)
  BY <1>3, HdrMeans DEF Known, Means
<1>5. PICK e, f : /\ e = [Top(r) EXCEPT !.at = "vote", !.req = q, !.inner = FALSE]
                  /\ f = [Top(r) EXCEPT !.at = "split", !.req = q, !.inner = FALSE]
  OBVIOUS
<1>6. ServesBy(r, q, e) \/ SplitsBy(r, q, f) \/ Ends(r, q)
  BY <1>1, <1>4, <1>5, LeaveHdrIs DEF Inv
<1>7. CASE ServesBy(r, q, e)
  <2>1. PICK exc : Vote(r, exc)
    BY <1>7 DEF ServesBy
  <2>2. /\ act' = SetTop(r, e) /\ has' = [s \in Rank |-> has'[s]]
        /\ \/ q.op \in {"use", "move"} /\ ctx' = ctx
           \/ q.op = "make" /\ ctx' = [ctx EXCEPT ![r] = with_entry(@, q.v.id, q.v.obj)]
           \/ q.op = "drop" /\ ctx' = [ctx EXCEPT ![r] = without_entry(@, q.v.id)]
    BY <1>7 DEF ServesBy
  <2> QED
    BY <2>1, <2>2, <1>3, <1>5, ServeVarInv
<1>8. CASE SplitsBy(r, q, f)
  BY <1>3, <1>5, <1>8, IntoSplitInv DEF SplitsBy
<1>9. CASE Ends(r, q) /\ Depth(r) = 1
  BY <1>3, <1>9, GoneInv DEF Ends
<1>10. CASE Ends(r, q) /\ Depth(r) > 1
  BY <1>3, <1>10, EndContextInv DEF Ends
<1> QED
  BY <1>6, <1>7, <1>8, <1>9, <1>10 DEF Ends

---------------------------------------------------------------------------
(* The initial state.                                                      *)
LEMMA WorldIs ==
  /\ World.id = <<>> /\ World.ranks = Rank /\ lvl(World) = 1
  /\ RootOf(World) = 0 /\ 0 \in Rank /\ IsComm(World)
<1>1. Rank \subseteq Nat /\ 0 \in Rank
  BY NAssumption DEF Rank
<1>2. World.id = <<>> /\ World.ranks = Rank /\ World = [id |-> World.id, ranks |-> World.ranks]
  BY DEF World
<1>3. lvl(World) = 1
  BY <1>2 DEF lvl
<1>4. RootOf(World) = 0
  <2>1. \A k \in Rank : 0 <= k
    BY <1>1
  <2>2. \A m \in Rank : (\A k \in Rank : m <= k) => m = 0
    BY <1>1
  <2>3. Min(Rank) = 0
    BY <1>1, <2>1, <2>2 DEF Min
  <2> QED
    BY <2>3, <1>2 DEF RootOf
<1>5. Proper(<<>>)
  BY DEF Proper
<1> QED
  BY <1>1, <1>2, <1>3, <1>4, <1>5 DEF IsComm

(* Where each rank starts.                                                 *)
StartsAt(r, e, g) ==
  /\ act[r] = <<e>> /\ ctx[r] = g /\ saved[r] = <<>>
  /\ IsEngine(e) /\ e.at = (IF r = 0 THEN "user" ELSE "hdr")
  /\ e.own = {} /\ e.views = {} /\ e.last = NoReq
  /\ IsGlobals(g) /\ g.comm = World /\ g.table = <<>>

LEMMA InitRank ==
  ASSUME Init, NEW r \in Rank
  PROVE  \E e, g : StartsAt(r, e, g)
<1>1. PICK at : at = (IF r = 0 THEN "user" ELSE "hdr")
  OBVIOUS
<1>2. PICK e : e = Engine(at, "user", {})
  OBVIOUS
<1>3. PICK g : g = [comm |-> World, table |-> <<>>, current_dvid |-> 1]
  OBVIOUS
<1>4. act[r] = <<e>> /\ ctx[r] = g /\ saved[r] = <<>>
  BY <1>1, <1>2, <1>3 DEF Init
<1>5. IsFiniteSet({})
  BY FS_EmptySet
<1>6. /\ IsEngine(e) /\ e.at = at /\ e.own = {} /\ e.views = {} /\ e.last = NoReq
  BY <1>1, <1>2, <1>5 DEF Engine, IsEngine
<1>7. /\ IsGlobals(g) /\ g.comm = World /\ g.table = <<>>
  BY <1>3 DEF IsGlobals
<1> QED
  BY <1>1, <1>4, <1>6, <1>7 DEF StartsAt

LEMMA StartsFrom ==
  ASSUME NEW r \in Rank, NEW e, NEW g, StartsAt(r, e, g)
  PROVE  /\ Depth(r) = 1 /\ Top(r) = e /\ Globals(r, 1) = g
         /\ View(r, 1).where = "in" /\ View(r, 1).e = e /\ View(r, 1).g = g
         /\ View(r, 2).where # "split"
<1>1. Depth(r) = 1 /\ act[r][1] = e /\ Globals(r, 1) = g
  BY DEF StartsAt, Depth, Globals
<1>2. View(r, 1).where = "in" /\ View(r, 1).e = e /\ View(r, 1).g = g
  BY <1>1, ViewIn
<1>3. View(r, 2).where = Top(r).at
  BY <1>1, ViewBelow
<1>4. Top(r) = e
  BY <1>1 DEF Top
<1>5. e.at # "split"
  BY DEF StartsAt
<1> QED
  BY <1>1, <1>2, <1>3, <1>4, <1>5

LEMMA InitRankOK ==
  ASSUME NEW r \in Rank, NEW e, NEW g, StartsAt(r, e, g), World \in DOMAIN log
  PROVE  RankOK(r)
<1>1. Depth(r) = 1 /\ Top(r) = e /\ Globals(r, 1) = g
  BY StartsFrom
<1>2. Proper(act[r]) /\ Proper(saved[r]) /\ Len(saved[r]) = 0
  BY DEF StartsAt, Proper
<1>3. e.at # "split" /\ e.at # "gone"
  BY DEF StartsAt
<1>4. LevelOK(r, 1)
  <2>1. act[r][1] = e /\ IsEngine(e) /\ IsGlobals(g) /\ g.comm = World
    BY DEF StartsAt
  <2>2. r \in World.ranks /\ lvl(World) = 1
    BY WorldIs
  <2> QED
    BY <2>1, <2>2, <1>1 DEF LevelOK
<1>5. Globals(r, 1).comm = World
  BY <1>1 DEF StartsAt
<1> QED
  BY <1>1, <1>2, <1>3, <1>4, <1>5 DEF RankOK, TopOK

(* The workers are in the first header.                                    *)
FirstLog(L) ==
  /\ Proper(L) /\ Len(L) = 1 /\ L[1].ops = {"hdr"} /\ L[1].in = Rank \ {0}

LEMMA FreshFacts ==
  ASSUME NEW L, FirstLog(L)
  PROVE  /\ Shape(L, Rank, 0) /\ Sent(L, 0, NoReq) /\ IsOut(L, 0)
         /\ \A s \in Rank \ {0} : InOp(L, s, "hdr")
         /\ \A s : ~ Owing(L, 0, s)
         /\ ~ Starts(L, "split")
<1>1. Proper(L) /\ Len(L) = 1 /\ L[1].ops = {"hdr"} /\ L[1].in = Rank \ {0} /\ 0 \in Rank
  BY WorldIs DEF FirstLog
<1>2. {"hdr"} # {"split"}
  OBVIOUS
<1>3. \A k \in 1 .. Len(L) : k = 1
  BY <1>1
<1>4. EntryOK(L, Rank, 1)
  BY <1>1 DEF EntryOK
<1>5. Shape(L, Rank, 0)
  <2>1. \A k \in 1 .. 2 : ~ (k < Len(L))
    BY <1>1
  <2>2. Len(L) <= 3
    BY <1>1
  <2> QED
    BY <1>1, <1>3, <1>4, <2>1, <2>2 DEF Shape
<1>6. Sent(L, 0, NoReq) /\ \A s : ~ Owing(L, 0, s)
  BY <1>1, <1>3 DEF Sent, Owing, OwesAt
<1>7. IsOut(L, 0)
  BY <1>1 DEF IsOut
<1>8. ASSUME NEW s \in Rank \ {0} PROVE InOp(L, s, "hdr")
  <2>1. IsAt(L, s, 1) /\ 1 \in 1 .. Len(L)
    BY <1>1 DEF IsAt
  <2> QED
    BY <2>1, <1>1 DEF InOp
<1>9. ~ Starts(L, "split")
  BY <1>1, <1>2 DEF Starts
<1> QED
  BY <1>5, <1>6, <1>7, <1>8, <1>9

LEMMA InitComm ==
  ASSUME NEW L, FirstLog(L), \A r \in Rank : \E e, g : StartsAt(r, e, g),
         NEW W, W = Views(World)
  PROVE  CommOK(World, L, W, NoReq, NoReq)
<1>1. /\ World.ranks = Rank /\ lvl(World) = 1 /\ RootOf(World) = 0 /\ 0 \in Rank
  BY WorldIs
<1>2. /\ Shape(L, Rank, 0) /\ Sent(L, 0, NoReq) /\ IsOut(L, 0)
      /\ \A s \in Rank \ {0} : InOp(L, s, "hdr")
      /\ \A s : ~ Owing(L, 0, s)
      /\ ~ Starts(L, "split")
  BY FreshFacts
<1>3. Given(World, NoReq) = {} /\ NoReq.op = "none"
  BY DEF Given, NoReq
<1>4. ASSUME NEW s \in Rank
      PROVE \E e, g : StartsAt(s, e, g) /\ W[s].where = "in" /\ W[s].e = e /\ W[s].g = g
  <2>1. PICK e, g : StartsAt(s, e, g)
    OBVIOUS
  <2>2. W[s] = View(s, 1)
    BY <1>1, <1>4 DEF Views
  <2> QED
    BY <2>1, <2>2, StartsFrom
<1>5. Owned(W[0], {}) = {} /\ Before({}, NoReq) = {}
  BY <1>1, <1>3, <1>4 DEF Owned, StartsAt, Before
<1>6. Alive(World, W)
  BY <1>1, <1>4 DEF Alive
<1>7. LogOK(World, L, W, NoReq)
  BY <1>1, <1>2, <1>3 DEF LogOK
<1>8. ASSUME NEW s \in Rank PROVE MemberOK(World, L, W[s], s, {}, {}, NoReq)
  <2>1. PICK e, g : StartsAt(s, e, g) /\ W[s].where = "in" /\ W[s].e = e /\ W[s].g = g
    BY <1>4
  <2>2. Serves(L, 0, e, s, NoReq)
    <3>1. e.at = (IF s = 0 THEN "user" ELSE "hdr")
      BY <2>1 DEF StartsAt
    <3>2. e.at = "user" => s = 0 /\ Rested(L, 0)
      BY <3>1, <1>2 DEF Rested
    <3>3. e.at = "hdr" => InOp(L, s, e.at)
      BY <3>1, <1>2
    <3> QED
      BY <3>1, <3>2, <3>3 DEF Serves
  <2>3. IsTable(g.table, {}) /\ g.comm = World
    BY <2>1 DEF IsTable, StartsAt
  <2>4. Expect(L, 0, s, {}, NoReq) = {}
    BY <1>2 DEF Expect
  <2> QED
    BY <2>1, <2>2, <2>3, <2>4, <1>1 DEF MemberOK
<1>9. RootOK(L, 0, W[0], {}, NoReq, Rank)
  <2>1. PICK e, g : StartsAt(0, e, g) /\ W[0].where = "in" /\ W[0].e = e /\ W[0].g = g
    BY <1>1, <1>4
  <2>2. e.views = {} /\ e.own = {} /\ Returned(L, 0, e, NoReq, Rank)
    BY <2>1 DEF StartsAt, Returned
  <2> QED
    BY <2>1, <2>2, <1>5 DEF RootOK
<1>10. KnownOK(W[0], {}, NoReq, Cardinality(Rank))
  BY <1>3, <1>5 DEF KnownOK, Distinct, Valid
<1>11. Tree(World, W, NoReq)
  BY DEF Tree
<1> QED
  BY <1>1, <1>3, <1>5, <1>6, <1>7, <1>8, <1>9, <1>10, <1>11 DEF CommOK

LEMMA InitInv ==
  ASSUME Init
  PROVE  Inv
<1>1. \A r \in Rank : \E e, g : StartsAt(r, e, g)
  BY InitRank
<1>2. PICK x : x = [ops |-> {"hdr"}, in |-> Rank \ {0}, val |-> [s \in Rank \ {0} |-> NoReq]]
  OBVIOUS
<1>3. PICK L : L = <<x>>
  OBVIOUS
<1>4. log = [c \in {World} |-> L]
  BY <1>2, <1>3 DEF Init
<1>5. DOMAIN log = {World} /\ log[World] = L
  BY <1>4
<1>6. FirstLog(L)
  <2>1. Len(L) = 1 /\ L[1] = x /\ Proper(L)
    BY <1>3 DEF Proper
  <2>2. x.ops = {"hdr"} /\ x.in = Rank \ {0}
    BY <1>2
  <2> QED
    BY <2>1, <2>2 DEF FirstLog
<1>7. TypeInv
  <2>1. act = [r \in Rank |-> act[r]] /\ ctx = [r \in Rank |-> ctx[r]]
    BY DEF Init
  <2>2. saved = [r \in Rank |-> saved[r]] /\ has = [r \in Rank |-> has[r]]
    BY DEF Init
  <2>3. log = [c \in DOMAIN log |-> log[c]]
    BY <1>4, <1>5
  <2> QED
    BY <2>1, <2>2, <2>3 DEF TypeInv
<1>8. \A r \in Rank : RankOK(r)
  BY <1>1, <1>5, InitRankOK
<1>9. CommInv(World)
  <2>1. CommOK(World, L, Views(World), NoReq, NoReq)
    BY <1>1, <1>6, InitComm
  <2>2. IsComm(World)
    BY WorldIs
  <2> QED
    BY <2>1, <2>2, <1>5 DEF CommInv
<1>10. UpOK(World)
  BY DEF UpOK
<1>11. ~ Starts(L, "split")
  BY <1>6, FreshFacts
<1>12. Orphans(World)
  BY <1>5, <1>11 DEF Orphans
<1> QED
  BY <1>5, <1>7, <1>8, <1>9, <1>10, <1>12 DEF Inv

(* The invariant of the nested engines (the actions are ProgramInv,        *)
(* LeaveHdrInv, LeaveSplitInv and LeaveVoteInv): the members of every      *)
(* communicator stand where its log says, serve the requests its root      *)
(* sends, and know the variables that root knows of; it was split from one *)
(* that waits for it, and each rank's stacks hold what it goes back to.    *)
THEOREM InvInvariant == Spec => []Inv
<1>1. Init => Inv
  BY InitInv
<1>2. Inv /\ [Next]_vars => Inv'
  <2>1. SUFFICES ASSUME Inv, [Next]_vars PROVE Inv'
    OBVIOUS
  <2>2. ASSUME NEW r \in Rank, Step(r) PROVE Inv'
    BY <2>1, <2>2, LeaveHdrInv, LeaveSplitInv, LeaveVoteInv DEF Step
  <2>3. ASSUME NEW r \in Rank, Program(r) PROVE Inv'
    BY <2>1, <2>3, ProgramInv
  <2>4. CASE UNCHANGED vars
    <3>1. ctx' = ctx /\ saved' = saved /\ act' = act /\ log' = log /\ has' = has
      BY <2>4 DEF vars
    <3>2. \A r, k : Globals(r, k)' = Globals(r, k)
      BY <3>1 DEF Globals
    <3>3. \A r, k : View(r, k)' = View(r, k)
      BY <3>1, <3>2 DEF View, Depth
    <3>4. \A c : Views(c)' = Views(c)
      BY <3>3 DEF Views
    <3>5. ASSUME NEW r \in Rank PROVE RankOK(r)'
      <4>1. RankOK(r)
        BY <2>1 DEF Inv
      <4>2. \A k : LevelOK(r, k)' = LevelOK(r, k)
        BY <3>1, <3>2 DEF LevelOK, Depth
      <4> QED
        BY <4>1, <4>2, <3>1, <3>2 DEF RankOK, TopOK, Depth, Top
    <3>6. ASSUME NEW c \in DOMAIN log PROVE (CommInv(c) /\ UpOK(c) /\ Orphans(c))'
      <4>1. CommInv(c) /\ UpOK(c) /\ Orphans(c)
        BY <2>1 DEF Inv
      <4>2. CommInv(c)'
        BY <4>1, <3>1, <3>4 DEF CommInv
      <4>3. UpOK(c)'
        BY <4>1, <3>1, <3>3 DEF UpOK
      <4>4. Orphans(c)'
        BY <4>1, <3>1, <3>3 DEF Orphans, Coming, Child
      <4> QED
        BY <4>2, <4>3, <4>4
    <3>7. TypeInv'
      BY <2>1, <3>1 DEF Inv, TypeInv
    <3> QED
      BY <3>1, <3>5, <3>6, <3>7 DEF Inv
  <2> QED
    BY <2>1, <2>2, <2>3, <2>4 DEF Next, Exited
<1> QED
  BY <1>1, <1>2, PTL DEF Spec

---------------------------------------------------------------------------
(* What the runs check.                                                    *)

(* TypeOK: the globals of a rank keep their types, and its stacks fit the  *)
(* engines it is inside of.                                                *)
THEOREM TypeOKHolds == Spec => []TypeOK
<1>1. Inv => TypeOK
  <2>1. SUFFICES ASSUME Inv, NEW r \in Rank
                 PROVE  /\ comm(r) \in DOMAIN log /\ r \in Members(comm(r))
                        /\ ctx[r].current_dvid \in Nat \ {0}
                        /\ DOMAIN ctx[r].table \subseteq Nat \ {0}
                        /\ Top(r).at \in {"user", "hdr", "split", "vote", "gone"}
                        /\ Top(r).exc \in BOOLEAN
                        /\ Len(saved[r]) = Depth(r) - 1 + (IF Top(r).at = "split" THEN 1 ELSE 0)
    BY DEF TypeOK
  <2>2. IsGlobals(ctx[r]) /\ comm(r) \in DOMAIN log /\ r \in comm(r).ranks /\ IsEngine(Top(r))
    BY <2>1, Here0
  <2>3. Len(saved[r]) = Depth(r) - 1 + (IF Top(r).at = "split" THEN 1 ELSE 0)
    BY <2>1 DEF Inv, RankOK
  <2> QED
    BY <2>2, <2>3 DEF IsGlobals, IsEngine, Members
<1> QED
  BY <1>1, InvInvariant, PTL

(* CollectivesPair: the k-th collective of a communicator is the same call *)
(* on all its ranks, and on no other.                                      *)
THEOREM CollectivesPairHolds == Spec => []CollectivesPair
<1>1. Inv => CollectivesPair
  <2>1. SUFFICES ASSUME Inv, NEW c \in DOMAIN log, NEW k \in DOMAIN log[c]
                 PROVE  Cardinality(log[c][k].ops) = 1 /\ log[c][k].in \subseteq Members(c)
    BY DEF CollectivesPair
  <2>2. PICK a, q : CommOK(c, log[c], Views(c), a, q)
    BY <2>1 DEF Inv, CommInv
  <2>3. Shape(log[c], c.ranks, RootOf(c))
    BY <2>2 DEF CommOK, LogOK
  <2>4. k \in 1 .. Len(log[c])
    BY <2>1, <2>3, ProperLen DEF Shape
  <2>5. EntryOK(log[c], c.ranks, k)
    BY <2>3, <2>4 DEF Shape
  <2>6. PICK op : log[c][k].ops = {op}
    BY <2>5 DEF EntryOK
  <2>7. Cardinality({op}) = 1
    BY FS_Singleton
  <2> QED
    BY <2>5, <2>6, <2>7 DEF EntryOK, Members
<1> QED
  BY <1>1, InvInvariant, PTL

(* IdsMeanOneVariable: the table of a rank has the ids of the request it   *)
(* serves, for the variables the caller means, and an id given is free.    *)
THEOREM IdsMeanOneVariableHolds == Spec => []IdsMeanOneVariable
<1>1. Inv => IdsMeanOneVariable
  <2>1. SUFFICES ASSUME Inv, NEW r \in Rank, Leaves(r, "hdr"), NEW q, q = Pending(r)
                 PROVE  /\ q.op \in {"use", "move", "drop"} => Means(r, q.v)
                        /\ q.op = "split" => \A i \in DOMAIN q.args : Means(r, q.args[i])
                        /\ q.op = "make" => q.v.id \notin DOMAIN ctx[r].table
    BY DEF IdsMeanOneVariable, Means
  <2>2. PICK c, W : c = comm(r) /\ W = Views(c)
    OBVIOUS
  <2>3. PICK a, q0 : AtHdr(r, c, W, a, q0)
    BY <2>1, <2>2, AtHdrFacts
  <2>4. AtHdr(r, c, W, a, q)
    BY <2>1, <2>3 DEF AtHdr
  <2> QED
    BY <2>1, <2>4, HdrMeans
<1> QED
  BY <1>1, InvInvariant, PTL

(* ExceptionsSurface: a split_context_execution that returns has ended     *)
(* without an exception in every group, of every rank.                     *)
THEOREM ExceptionsSurfaceHolds == Spec => []ExceptionsSurface
<1>1. Inv => ExceptionsSurface
  <2>1. SUFFICES ASSUME Inv, NEW r \in Rank, NEW l, l = Top(r).last, IsRoot(r),
                        Top(r).at = "user", l # NoReq, l.ok, l.req.op = "split",
                        NEW s \in Members(comm(r))
                 PROVE  ~ act[s][Depth(r)].inner
    BY DEF ExceptionsSurface
  <2>2. PICK c, W : c = comm(r) /\ W = Views(c)
    OBVIOUS
  <2>3. /\ c \in DOMAIN log /\ r \in c.ranks /\ IsComm(c)
        /\ W[r].where = "in" /\ W[r].e = Top(r) /\ lvl(c) = Depth(r) /\ Depth(r) \in Nat
    <3>1. RankOK(r)
      BY <2>1 DEF Inv
    <3> QED
      BY <2>1, <2>2, <3>1, Here0, RankFacts
  <2>4. PICK a, q : CommOK(c, log[c], W, a, q)
    BY <2>1, <2>2, Here0
  <2>5. r = RootOf(c)
    BY <2>1, <2>2 DEF IsRoot
  <2>6. /\ l.req = q /\ Starts(log[c], "vote") /\ IsAt(log[c], r, 1)
        /\ \A t \in c.ranks : ~ log[c][1].val[t].exc
    <3>1. Returned(log[c], r, Top(r), q, c.ranks)
      BY <2>3, <2>4, <2>5 DEF CommOK, RootOK
    <3> QED
      BY <3>1, <2>1 DEF Returned
  <2>7. PICK b : b = [t \in c.ranks |-> W[t].e.inner]
    OBVIOUS
  <2>8. Ballots(log[c], r, b) /\ Shape(log[c], c.ranks, r) /\ q.op = "split"
    BY <2>1, <2>4, <2>5, <2>6, <2>7 DEF CommOK, LogOK
  <2>9. /\ 1 \in 1 .. Len(log[c]) /\ log[c][1].ops = {"vote"}
        /\ (1 < Len(log[c]) => r \notin log[c][2].in) /\ log[c][1].in = c.ranks
    <3>1. Len(log[c]) \in Nat /\ Len(log[c]) > 0 /\ log[c][1].ops = {"vote"}
      BY <2>6, <2>8, ProperLen DEF Starts, Shape
    <3>2. EntryOK(log[c], c.ranks, 1)
      BY <3>1, <2>8 DEF Shape
    <3>3. {"vote"} # {"hdr"}
      OBVIOUS
    <3> QED
      BY <3>1, <3>2, <3>3, <2>6 DEF IsAt, EntryOK
  <2>10. s \in c.ranks /\ s \in Rank
    BY <2>1, <2>2, <2>3 DEF Members, IsComm
  <2>11. log[c][1].val[s] = Ballot(W[s].e.inner)
    <3>1. BallotsAt(log[c], b, 1)
      BY <2>8, <2>9 DEF Ballots
    <3> QED
      BY <3>1, <2>7, <2>9, <2>10 DEF BallotsAt
  <2>12. ~ W[s].e.inner
    BY <2>6, <2>10, <2>11 DEF Ballot
  <2>13. W[s].where = "in"
    <3>1. MemberOK(c, log[c], W[s], s, Owned(W[RootOf(c)], Given(c, a)), Given(c, a), q)
      BY <2>4, <2>10 DEF CommOK
    <3>2. ~ IsOut(log[c], s)
      BY <2>6, <2>9, <2>10 DEF IsOut, Starts
    <3> QED
      BY <3>1, <3>2, <2>8 DEF MemberOK
  <2>14. W[s] = View(s, lvl(c)) /\ lvl(c) <= Depth(s) /\ Depth(s) \in Nat
    <3>1. RankOK(s)
      BY <2>1, <2>10 DEF Inv
    <3>2. Depth(s) \in Nat /\ Depth(s) >= 1
      BY <3>1, <2>10, RankFacts
    <3>3. lvl(c) \in 1 .. Depth(s) + 1
          /\ (lvl(c) = Depth(s) + 1 => Top(s).at \in {"split", "vote"})
      BY <2>1, <2>3, <2>10, LevelOf
    <3>4. W[s] = View(s, lvl(c))
      BY <2>2, <2>10 DEF Views
    <3>5. lvl(c) = Depth(s) + 1 => View(s, lvl(c)).where = Top(s).at
      BY <3>2, ViewBelow
    <3> QED
      BY <3>2, <3>3, <3>4, <3>5, <2>13
  <2>15. W[s].e = act[s][Depth(r)]
    BY <2>14, <2>3, ViewIn
  <2> QED
    BY <2>12, <2>15
<1> QED
  BY <1>1, InvInvariant, PTL

(* NothingLeftOver: once all processes are gone, every communicator but    *)
(* the first has been freed, and every stack and every table is empty.     *)
THEOREM NothingLeftOverHolds == Spec => []NothingLeftOver
<1>1. Inv => NothingLeftOver
  <2>1. SUFFICES ASSUME Inv, AllGone
                 PROVE  /\ DOMAIN log = {World}
                        /\ \A r \in Rank : saved[r] = <<>> /\ ctx[r].table = <<>>
    BY DEF NothingLeftOver
  <2>2. ASSUME NEW r \in Rank
        PROVE  /\ Top(r).at = "gone" /\ Depth(r) = 1 /\ Proper(saved[r]) /\ Len(saved[r]) = 0
               /\ comm(r) = World /\ Globals(r, 1).comm = World
    <3>1. RankOK(r) /\ Top(r).at = "gone"
      BY <2>1, <2>2 DEF Inv, AllGone
    <3>2. Depth(r) = 1 /\ Globals(r, 1).comm = World /\ Proper(saved[r]) /\ Len(saved[r]) = 0
      BY <3>1 DEF RankOK, TopOK
    <3>3. comm(r) = Globals(r, Depth(r)).comm
      BY <3>1, <2>2, RankFacts
    <3> QED
      BY <3>1, <3>2, <3>3
  <2>3. ASSUME NEW c \in DOMAIN log PROVE c = World
    <3>1. PICK r \in Rank : r \in c.ranks
      BY <2>1, <2>3 DEF Inv, CommInv, IsComm
    <3>2. /\ lvl(c) \in 1 .. Depth(r) + 1
          /\ lvl(c) <= Depth(r) => c = Globals(r, lvl(c)).comm
          /\ lvl(c) = Depth(r) + 1 => Top(r).at \in {"split", "vote"}
      BY <2>1, <2>3, <3>1, LevelOf
    <3>3. lvl(c) = 1
      BY <3>1, <3>2, <2>2
    <3> QED
      BY <3>1, <3>2, <3>3, <2>2
  <2>4. World \in DOMAIN log
    <3>1. 0 \in Rank
      BY WorldIs
    <3> QED
      BY <3>1, <2>1, <2>2, Here0
  <2>5. ASSUME NEW r \in Rank PROVE saved[r] = <<>> /\ ctx[r].table = <<>>
    <3>1. saved[r] = <<>>
      <4>1. Proper(saved[r]) /\ Len(saved[r]) = 0
        BY <2>2, <2>5
      <4> QED
        BY <4>1 DEF Proper
    <3>2. PICK W : W = Views(World)
      OBVIOUS
    <3>3. /\ W[r].where = "in" /\ W[r].e = Top(r) /\ W[r].g = ctx[r] /\ IsGlobals(ctx[r])
          /\ r \in World.ranks /\ Top(r).at = "gone"
      BY <2>1, <2>2, <2>5, <3>2, Here0
    <3>4. PICK a, q : CommOK(World, log[World], W, a, q)
      BY <2>1, <2>4, <3>2 DEF Inv, CommInv
    <3>5. PICK O : O = Owned(W[RootOf(World)], Given(World, a))
      OBVIOUS
    <3>6. /\ Serves(log[World], RootOf(World), Top(r), r, q)
          /\ IsTable(ctx[r].table, Expect(log[World], RootOf(World), r, O, q))
      BY <3>3, <3>4, <3>5, MemberOf
    <3>7. q.op = "finalize"
      BY <3>3, <3>6 DEF Serves
    <3>8. O = Given(World, a) /\ Given(World, a) = {}
      BY <3>4, <3>5, <3>7 DEF CommOK, KnownOK, Valid, Given
    <3>9. Expect(log[World], RootOf(World), r, O, q) = {}
      BY <3>7, <3>8 DEF Expect, Before
    <3>10. DOMAIN ctx[r].table = {} /\ ctx[r].table = [i \in DOMAIN ctx[r].table |-> ctx[r].table[i]]
      BY <3>3, <3>6, <3>9 DEF IsTable, IsGlobals
    <3>11. ctx[r].table = <<>>
      BY <3>10
    <3> QED
      BY <3>1, <3>11
  <2> QED
    BY <2>3, <2>4, <2>5
<1> QED
  BY <1>1, InvInvariant, PTL

---------------------------------------------------------------------------
(* Broadcasts.  A payload is known by the communicator its variable was    *)
(* made on: what the contexts below drop is theirs, never the argument of  *)
(* a split_context_broadcast of the outermost program.                     *)

IsBcast(q) == q.op = "split" /\ q.f = "bcast"
Fine(c, q) ==
  /\ q.op = "drop" => q.v.obj[1] = c.id
  /\ IsBcast(q) => q.args[1].obj[1] = c.id
Home(r, k) == \A v \in act[r][k].own : v.obj[1] = Globals(r, k).comm.id
Clean(c, L) == \E q : Sent(L, RootOf(c), q) /\ Fine(c, q)

(* The context of q, which rank 0 is the root of; its argument is there.   *)
Heads(q) == SubComm(World, q.color, 0)
Brought(q) == IsBcast(q) => \A s \in Heads(q).ranks : q.args[1].obj \in has[s]

(* The helper, in engine e of rank 0 on communicator c with log L: once it *)
(* has moved the variable, who has not served that yet is the only one     *)
(* without.                                                                *)
Helper(c, L, e, q, p) ==
  /\ Sent(L, 0, p) /\ (p.op = "move" => p.v.obj = q.args[1].obj)
  /\ p.op = "finalize" => e.n = 2
  /\ e.n = 2 => \A s \in c.ranks : (Owing(L, 0, s) /\ p.op = "move") \/ q.args[1].obj \in has[s]
Working(c, L, e, q) ==
  IsBcast(q) => /\ e.f = "bcast" /\ e.n \in 0 .. 2
                /\ \E p : Helper(c, L, e, q, p)

Outer(e) ==
  /\ Fine(World, e.req) /\ (e.last # NoReq => Fine(World, e.last.req))
  /\ e.at = "vote" => Brought(e.req)
  /\ e.at = "user" /\ e.last # NoReq => Brought(e.last.req)
OnInner(c) == Depth(0) >= 2 /\ c = Globals(0, 2).comm
Inner(q) == \A c \in DOMAIN log : OnInner(c) => Working(c, log[c], act[0][2], q)

BroadInv ==
  /\ \A r \in Rank : \A k \in 1 .. Depth(r) : Home(r, k)
  /\ \A c \in DOMAIN log : Clean(c, log[c])
  /\ Outer(act[0][1]) /\ Inner(act[0][1].req)

(* What a step of r that sends nothing does to a log.                      *)
Onward(c, L, E, r, H) ==
  /\ \A q : Sent(L, RootOf(c), q) => Sent(E, RootOf(c), q)
  /\ \A s \in c.ranks \ {r} : Owing(L, RootOf(c), s) => Owing(E, RootOf(c), s)
  /\ r \in c.ranks /\ Owing(L, RootOf(c), r) =>
       \/ Owing(E, RootOf(c), r)
       \/ \A q : Sent(L, RootOf(c), q) /\ q.op = "move" => q.v.obj \in H

LEMMA OnwardSame ==
  ASSUME NEW c, NEW L, NEW r, NEW H
  PROVE  Onward(c, L, L, r, H)
BY DEF Onward

LEMMA OnwardEnter ==
  ASSUME NEW c, RootOf(c) \in c.ranks, NEW L, Shape(L, c.ranks, RootOf(c)), NEW r \in c.ranks,
         NEW op, NEW val, CanEnter(L, RootOf(c), r, op), r # RootOf(c) \/ op # "hdr",
         NEW E, E = Entered(L, c.ranks, r, op, val), NEW H,
         op # "hdr" /\ Owing(L, RootOf(c), r) =>
           \A q : Sent(L, RootOf(c), q) /\ q.op = "move" => q.v.obj \in H
  PROVE  Onward(c, L, E, r, H)
<1>1. PICK ro : ro = RootOf(c)
  OBVIOUS
<1>2. /\ \A s \in c.ranks : s # r \/ op = "hdr" => (Owing(E, ro, s) <=> Owing(L, ro, s))
      /\ \A q : Sent(L, ro, q) => Sent(E, ro, q)
  BY <1>1, EnterOwing
<1> QED
  BY <1>1, <1>2 DEF Onward

LEMMA OnwardClean ==
  ASSUME NEW c, NEW L, NEW E, NEW r, NEW H, Onward(c, L, E, r, H), Clean(c, L)
  PROVE  Clean(c, E)
BY DEF Onward, Clean

(* What everyone but the ranks that drop on World keeps.                   *)
Keeps(r) == \A o \in has[r] : o[1] = <<>> => o \in has'[r]
Alone(r) == \A s \in Rank \ {r} : has'[s] = has[s]

LEMMA KeepsBrought ==
  ASSUME NEW r \in Rank, Alone(r), Keeps(r), NEW q, Fine(World, q), Brought(q)
  PROVE  Brought(q)'
<1>1. SUFFICES ASSUME IsBcast(q), NEW s \in Heads(q).ranks PROVE q.args[1].obj \in has'[s]
  BY DEF Brought
<1>2. q.args[1].obj \in has[s] /\ q.args[1].obj[1] = <<>>
  BY <1>1, WorldIs DEF Brought, Fine
<1>3. s \in Rank
  BY <1>1, WorldIs DEF Heads, SubComm
<1> QED
  BY <1>2, <1>3 DEF Keeps, Alone

LEMMA OnwardWorking ==
  ASSUME NEW r \in Rank, Alone(r), Keeps(r), NEW q, Fine(World, q),
         NEW c, c.ranks \subseteq Rank, RootOf(c) = 0, NEW L, NEW e, Working(c, L, e, q),
         NEW E, NEW H, H = has'[r], Onward(c, L, E, r, H), NEW f, f.f = e.f, f.n = e.n
  PROVE  Working(c, E, f, q)'
<1>1. SUFFICES ASSUME IsBcast(q)
               PROVE  /\ f.f = "bcast" /\ f.n \in 0 .. 2
                      /\ \E p : Helper(c, E, f, q, p)'
  BY DEF Working
<1>2. PICK p : Helper(c, L, e, q, p)
  BY <1>1 DEF Working
<1>3. e.f = "bcast" /\ e.n \in 0 .. 2
  BY <1>1 DEF Working
<1>4. PICK o : o = q.args[1].obj
  OBVIOUS
<1>5. o[1] = <<>>
  BY <1>1, <1>4, WorldIs DEF Fine
<1>6. /\ Sent(L, 0, p) /\ (p.op = "move" => p.v.obj = o)
      /\ p.op = "finalize" => e.n = 2
      /\ e.n = 2 => \A s \in c.ranks : (Owing(L, 0, s) /\ p.op = "move") \/ o \in has[s]
  BY <1>2, <1>4 DEF Helper
<1>7. Sent(E, 0, p)
  BY <1>6 DEF Onward
<1>8. ASSUME e.n = 2, NEW s \in c.ranks
      PROVE  (Owing(E, 0, s) /\ p.op = "move") \/ o \in has'[s]
  <2>1. CASE o \in has[s]
    BY <2>1, <1>5, <1>8 DEF Keeps, Alone
  <2>2. CASE Owing(L, 0, s) /\ p.op = "move" /\ s # r
    BY <2>2, <1>8 DEF Onward
  <2>3. CASE Owing(L, 0, s) /\ p.op = "move" /\ s = r
    <3>1. Owing(E, 0, r) \/ p.v.obj \in H
      BY <2>3, <1>6, <1>8 DEF Onward
    <3> QED
      BY <3>1, <2>3, <1>6
  <2> QED
    BY <2>1, <2>2, <2>3, <1>6, <1>8
<1>9. Helper(c, E, f, q, p)'
  BY <1>4, <1>6, <1>7, <1>8 DEF Helper
<1> QED
  BY <1>3, <1>9

(* The outermost call of rank 0 is over with no broadcast.                 *)
Unbroadcast(z) ==
  /\ z.at \in {"vote", "split"} => ~ IsBcast(z.req)
  /\ z.at = "user" /\ z.last # NoReq => ~ IsBcast(z.last.req)
Kept(r, z) == Alone(r) /\ (Keeps(r) \/ Unbroadcast(z))

LEMMA RootZero ==
  ASSUME NEW x, x.ranks \subseteq Rank, 0 \in x.ranks
  PROVE  RootOf(x) = 0
<1>1. \A k \in x.ranks : k \in Nat /\ 0 <= k
  BY NAssumption DEF Rank
<1>2. \A m \in x.ranks : (\A k \in x.ranks : m <= k) => m = 0
  BY <1>1
<1>3. Min(x.ranks) = 0
  BY <1>1, <1>2 DEF Min
<1> QED
  BY <1>3 DEF RootOf

(* Rank 0 inside a context of the outermost communicator: its root, and    *)
(* there for the request its first engine is in.                           *)
LEMMA InnerFacts ==
  ASSUME Inv, NEW c, OnInner(c), NEW z, z = act[0][1]
  PROVE  /\ c \in DOMAIN log /\ IsComm(c) /\ c.ranks \subseteq Rank /\ 0 \in c.ranks
         /\ RootOf(c) = 0 /\ lvl(c) = 2
         /\ z.at = "split" /\ z.req.op = "split" /\ c = Heads(z.req)
         /\ \E q : CommOK(c, log[c], Views(c), z.req, q)
<1>1. 0 \in Rank /\ World.ranks = Rank /\ RankOK(0)
  BY WorldIs DEF Inv
<1>2. Depth(0) \in Nat /\ Depth(0) >= 2 /\ c = Globals(0, 2).comm
  BY <1>1, RankFacts DEF OnInner
<1>3. LevelOK(0, 1) /\ LevelOK(0, 2) /\ Globals(0, 1).comm = World
  <2>1. 1 \in 1 .. Depth(0) /\ 2 \in 1 .. Depth(0)
    BY <1>2
  <2> QED
    BY <2>1, <1>1 DEF RankOK
<1>4. c \in DOMAIN log /\ 0 \in c.ranks /\ lvl(c) = 2 /\ z.at = "split"
  <2>1. c \in DOMAIN log /\ 0 \in c.ranks /\ lvl(c) = 2
    BY <1>2, <1>3 DEF LevelOK
  <2>2. 1 < Depth(0)
    BY <1>2
  <2> QED
    BY <2>1, <2>2, <1>3 DEF LevelOK
<1>5. IsComm(c) /\ CommInv(c)
  BY <1>4 DEF Inv, CommInv
<1>6. c.ranks \subseteq Rank
  BY <1>5 DEF IsComm
<1>7. RootOf(c) = 0
  BY <1>4, <1>6, RootZero
<1>8. PICK a, q : CommOK(c, log[c], Views(c), a, q)
  BY <1>5 DEF CommInv
<1>9. Views(c)[0] = View(0, 2) /\ View(0, 2).req = z.req /\ View(0, 2).up = World
  <2>1. Views(c)[0] = View(0, 2)
    BY <1>4 DEF Views
  <2>2. View(0, 2).req = act[0][1].req /\ View(0, 2).up = Globals(0, 1).comm
    BY <1>2, ViewIn
  <2> QED
    BY <2>1, <2>2, <1>3
<1>10. c # World
  BY <1>4, WorldIs
<1>11. a = z.req /\ a.op = "split" /\ c = SubComm(World, a.color, 0)
  BY <1>4, <1>8, <1>9, <1>10 DEF CommOK, Tree
<1> QED
  BY <1>4, <1>5, <1>6, <1>7, <1>8, <1>11 DEF Heads

(* The outermost engine of rank 0.                                         *)
LEMMA OuterServes ==
  ASSUME Inv, NEW a, NEW q, CommOK(World, log[World], Views(World), a, q), NEW z, z = act[0][1]
  PROVE  Serves(log[World], 0, z, 0, q) /\ Returned(log[World], 0, z, q, Rank)
<1>1. 0 \in Rank /\ World.ranks = Rank /\ RankOK(0) /\ RootOf(World) = 0 /\ lvl(World) = 1
  BY WorldIs DEF Inv
<1>2. Depth(0) \in Nat /\ Depth(0) >= 1
  BY <1>1, RankFacts
<1>3. PICK W : W = Views(World)
  OBVIOUS
<1>4. W[0].where = "in" /\ W[0].e = z
  <2>1. W[0] = View(0, 1)
    BY <1>1, <1>3 DEF Views
  <2> QED
    BY <2>1, <1>2, ViewIn
<1> QED
  BY <1>1, <1>3, <1>4, MemberOf DEF CommOK, RootOK

(* While the request on World is to drop a variable, it is no broadcast.   *)
LEMMA NoDrop ==
  ASSUME Inv, NEW r \in Rank, NEW W, NEW a, NEW q, AtHdr(r, World, W, a, q), q.op = "drop",
         NEW z, z = act[0][1]
  PROVE  Unbroadcast(z)
<1>1. PICK L : L = log[World]
  OBVIOUS
<1>2. CommOK(World, L, Views(World), a, q)
  BY <1>1 DEF AtHdr
<1>3. Serves(L, 0, z, 0, q) /\ Returned(L, 0, z, q, Rank)
  BY <1>1, <1>2, OuterServes
<1>4. Shape(L, Rank, 0)
  BY <1>2, WorldIs DEF CommOK, LogOK
<1>5. ~ IsBcast(q)
  BY DEF IsBcast
<1>6. z.at = "user" /\ z.last # NoReq => ~ IsBcast(z.last.req)
  BY <1>3, <1>5 DEF Returned
<1>7. ASSUME z.at \in {"vote", "split"} PROVE ~ IsBcast(z.req)
  <2>1. InOp(L, 0, z.at)
    BY <1>3, <1>7 DEF Serves
  <2>2. ~ Owing(L, 0, 0)
    <3>1. SUFFICES ASSUME Owing(L, 0, 0) PROVE FALSE
      OBVIOUS
    <3>2. InOp(L, 0, "hdr")
      BY <3>1 DEF Owing, OwesAt, InOp, IsAt
    <3>3. z.at = "hdr"
      BY <2>1, <3>2, <1>4, OneOp
    <3> QED
      BY <3>3, <1>7
  <2> QED
    BY <2>2, <1>3, <1>5, <1>7 DEF Serves
<1> QED
  BY <1>6, <1>7 DEF Unbroadcast

LEMMA OuterKept ==
  ASSUME NEW r \in Rank, NEW z, Kept(r, z), Outer(z)
  PROVE  Outer(z)'
<1>1. Fine(World, z.req) /\ (z.last # NoReq => Fine(World, z.last.req))
  BY DEF Outer
<1>2. ASSUME NEW q, Fine(World, q), Brought(q), Keeps(r) \/ ~ IsBcast(q) PROVE Brought(q)'
  <2>1. CASE Keeps(r)
    BY <2>1, <1>2, KeepsBrought DEF Kept
  <2>2. CASE ~ IsBcast(q)
    BY <2>2 DEF Brought
  <2> QED
    BY <2>1, <2>2, <1>2
<1>3. ASSUME z.at = "vote" PROVE Brought(z.req)'
  <2>1. Brought(z.req) /\ (Keeps(r) \/ ~ IsBcast(z.req))
    BY <1>3 DEF Outer, Kept, Unbroadcast
  <2> QED
    BY <2>1, <1>1, <1>2
<1>4. ASSUME z.at = "user", z.last # NoReq PROVE Brought(z.last.req)'
  <2>1. Brought(z.last.req) /\ (Keeps(r) \/ ~ IsBcast(z.last.req))
    BY <1>4 DEF Outer, Kept, Unbroadcast
  <2> QED
    BY <2>1, <1>1, <1>2, <1>4
<1> QED
  BY <1>1, <1>3, <1>4 DEF Outer

LEMMA WorkingKept ==
  ASSUME NEW r \in Rank, NEW z, Kept(r, z), z.at = "split", Outer(z),
         NEW c, c.ranks \subseteq Rank, RootOf(c) = 0, NEW L, NEW e, NEW q, q = z.req,
         Working(c, L, e, q), NEW E, NEW H, H = has'[r], Onward(c, L, E, r, H),
         NEW f, f.f = e.f, f.n = e.n
  PROVE  Working(c, E, f, q)'
<1>1. CASE ~ IsBcast(q)
  BY <1>1 DEF Working
<1>2. CASE Keeps(r)
  BY <1>2, OnwardWorking DEF Kept, Outer
<1> QED
  BY <1>1, <1>2 DEF Kept, Unbroadcast

(* A step of r that leaves it inside the same engines, with log E on its   *)
(* communicator c.                                                         *)
Stays(r, e, g, c, E) ==
  /\ Top(r).at # "split" /\ Stay(r, e, g) /\ c = comm(r)
  /\ log' = [log EXCEPT ![c] = E] /\ has' = [s \in Rank |-> has'[s]]

LEMMA StayBroad ==
  ASSUME Inv, BroadInv, NEW r \in Rank, NEW e, NEW g, NEW c, NEW E, Stays(r, e, g, c, E),
         NEW z, z = act[0][1], Kept(r, z), Clean(c, E),
         \A v \in e.own : v \in Top(r).own \/ v.obj[1] = c.id,
         r = 0 /\ Depth(r) = 1 => Outer(e)',
         NEW f, f = (IF r = 0 THEN e ELSE act[0][2]), NEW q, q = z.req,
         OnInner(c) => Working(c, E, f, q)'
  PROVE  BroadInv'
<1>1. TypeInv /\ RankOK(r) /\ RankOK(0) /\ 0 \in Rank
  BY WorldIs DEF Inv
<1>2. PICK d : d = Depth(r)
  OBVIOUS
<1>3. /\ d \in Nat /\ d >= 1 /\ c \in DOMAIN log /\ lvl(c) = d /\ c = Globals(r, d).comm
      /\ Depth(0) \in Nat /\ Depth(0) >= 1
  BY <1>1, <1>2, RankFacts DEF Stays
<1>4. /\ DOMAIN log' = DOMAIN log /\ log' = [x \in DOMAIN log' |-> log'[x]]
      /\ log'[c] = E /\ \A x \in DOMAIN log : x # c => log'[x] = log[x]
  BY <1>1, <1>3 DEF TypeInv, Stays
<1>5. /\ Depth(r)' = d
      /\ \A k \in 1 .. d - 1 : act'[r][k] = act[r][k] /\ Globals(r, k)' = Globals(r, k)
      /\ act'[r][d] = e
      /\ \A k : k = d => Globals(r, k)' = g
      /\ \A s \in Rank \ {r} : act'[s] = act[s] /\ saved'[s] = saved[s] /\ ctx'[s] = ctx[s]
  <2>1. Top(r).at # "split" /\ Stay(r, e, g) /\ has' = [s \in Rank |-> has'[s]]
    BY DEF Stays
  <2> QED
    BY <2>1, <1>1, <1>2, <1>4, StayRank
<1>6. ASSUME NEW s \in Rank \ {r} PROVE Depth(s)' = Depth(s) /\ \A k : Globals(s, k)' = Globals(s, k)
  BY <1>5, <1>6 DEF Depth, Globals
<1>7. g.comm = c
  BY DEF Stays, Stay
<1>8. ASSUME NEW s \in Rank, NEW k \in 1 .. Depth(s)' PROVE Home(s, k)'
  <2>1. CASE s # r
    <3>1. k \in 1 .. Depth(s) /\ act'[s] = act[s] /\ Globals(s, k)' = Globals(s, k)
      BY <2>1, <1>5, <1>6, <1>8
    <3>2. Home(s, k)
      BY <3>1, <1>8 DEF BroadInv
    <3> QED
      BY <3>1, <3>2 DEF Home
  <2>2. CASE s = r /\ k # d
    <3>1. k \in 1 .. d - 1 /\ k \in 1 .. Depth(r)
      BY <2>2, <1>2, <1>3, <1>5, <1>8
    <3>2. act'[r][k] = act[r][k] /\ Globals(r, k)' = Globals(r, k) /\ Home(r, k)
      BY <3>1, <1>5 DEF BroadInv
    <3> QED
      BY <2>2, <3>2 DEF Home
  <2>3. CASE s = r /\ k = d
    <3>1. d \in 1 .. Depth(r)
      BY <1>2, <1>3
    <3>2. \A v \in Top(r).own : v.obj[1] = c.id
      BY <3>1, <1>2, <1>3 DEF BroadInv, Home, Top
    <3>3. act'[r][k] = e /\ Globals(r, k)'.comm = c
      BY <2>3, <1>5, <1>7
    <3> QED
      BY <2>3, <3>2, <3>3 DEF Home
  <2> QED
    BY <2>1, <2>2, <2>3
<1>9. ASSUME NEW x \in DOMAIN log' PROVE Clean(x, log'[x])
  BY <1>4, <1>9 DEF BroadInv
<1>10. act'[0][1] = IF r = 0 /\ d = 1 THEN e ELSE z
  <2>1. CASE r # 0
    BY <2>1, <1>1, <1>5
  <2>2. CASE r = 0 /\ d # 1
    <3>1. 1 \in 1 .. d - 1
      BY <2>2, <1>3
    <3> QED
      BY <2>2, <3>1, <1>5
  <2>3. CASE r = 0 /\ d = 1
    BY <2>3, <1>5
  <2> QED
    BY <2>1, <2>2, <2>3
<1>11. Outer(z) /\ Inner(q)
  BY DEF BroadInv
<1>12. PICK y : y = act'[0][1]
  OBVIOUS
<1>13. Outer(y)'
  <2>1. Outer(z)'
    BY <1>11, OuterKept
  <2> QED
    BY <2>1, <1>2, <1>10, <1>12
<1>14. ASSUME NEW x \in DOMAIN log', OnInner(x)', NEW K, K = log'[x], NEW h, h = act'[0][2]
       PROVE  Working(x, K, h, y.req)'
  <2>1. Depth(0)' = Depth(0) /\ Depth(0) >= 2
    BY <1>1, <1>2, <1>5, <1>6, <1>14 DEF OnInner
  <2>2. Globals(0, 2)'.comm = Globals(0, 2).comm
    <3>1. CASE r # 0
      BY <3>1, <1>1, <1>6
    <3>2. CASE r = 0 /\ d = 2
      BY <3>2, <1>3, <1>5, <1>7
    <3>3. CASE r = 0 /\ d # 2
      <4>1. 2 \in 1 .. d - 1
        BY <2>1, <3>3, <1>2, <1>3
      <4> QED
        BY <3>3, <4>1, <1>5
    <3> QED
      BY <3>1, <3>2, <3>3
  <2>3. OnInner(x) /\ x \in DOMAIN log
    BY <2>1, <2>2, <1>4, <1>14 DEF OnInner
  <2>4. /\ x.ranks \subseteq Rank /\ RootOf(x) = 0 /\ lvl(x) = 2 /\ z.at = "split"
    BY <2>3, InnerFacts
  <2>5. y = z
    BY <2>1, <1>2, <1>10, <1>12
  <2>6. CASE x = c
    <3>1. h = f /\ K = E
      <4>1. CASE r = 0
        BY <4>1, <2>4, <2>6, <1>3, <1>4, <1>5, <1>14
      <4>2. CASE r # 0
        BY <4>2, <2>6, <1>1, <1>4, <1>5, <1>14
      <4> QED
        BY <4>1, <4>2
    <3>2. Working(c, E, f, q)'
      BY <2>3, <2>6
    <3> QED
      BY <2>5, <2>6, <3>1, <3>2
  <2>7. CASE x # c
    <3>1. h = act[0][2] /\ K = log[x]
      <4>1. CASE r # 0
        BY <4>1, <2>3, <2>7, <1>1, <1>4, <1>5, <1>14
      <4>2. CASE r = 0
        <5>1. d # 2
          BY <4>2, <2>3, <2>7, <1>3 DEF OnInner
        <5>2. 2 \in 1 .. d - 1
          BY <4>2, <5>1, <2>1, <1>2, <1>3
        <5> QED
          BY <4>2, <5>2, <2>3, <2>7, <1>4, <1>5, <1>14
      <4> QED
        BY <4>1, <4>2
    <3>2. PICK H : H = has'[r]
      OBVIOUS
    <3>3. Working(x, K, h, q)
      BY <2>3, <3>1, <1>11 DEF Inner
    <3>4. Onward(x, K, K, r, H)
      BY OnwardSame
    <3>5. Working(x, K, h, q)'
      BY <2>4, <3>2, <3>3, <3>4, <1>11, WorkingKept
    <3> QED
      BY <2>5, <3>5
  <2> QED
    BY <2>6, <2>7
<1>15. Inner(act[0][1].req)'
  <2>1. SUFFICES ASSUME NEW x \in DOMAIN log', OnInner(x)'
                 PROVE  Working(x, log[x], act[0][2], act[0][1].req)'
    BY DEF Inner
  <2>2. PICK K, h : K = log'[x] /\ h = act'[0][2]
    OBVIOUS
  <2>3. Working(x, K, h, y.req)'
    BY <2>1, <2>2, <1>14
  <2> QED
    BY <2>2, <2>3, <1>12 DEF Working, Helper
<1>16. Outer(act[0][1])'
  BY <1>12, <1>13 DEF Outer, Brought
<1> QED
  BY <1>8, <1>9, <1>15, <1>16 DEF BroadInv

LEMMA StayOnward ==
  ASSUME Inv, BroadInv, NEW r \in Rank, NEW e, NEW g, NEW c, NEW E, Stays(r, e, g, c, E),
         NEW z, z = act[0][1], Kept(r, z), e.own \subseteq Top(r).own,
         e.f = Top(r).f, e.n = Top(r).n, r = 0 /\ Depth(r) = 1 => Outer(e)',
         NEW H, H = has'[r], Onward(c, log[c], E, r, H)
  PROVE  BroadInv'
<1>1. PICK f, q, L : f = (IF r = 0 THEN e ELSE act[0][2]) /\ q = z.req /\ L = log[c]
  OBVIOUS
<1>2. RankOK(r) /\ c = comm(r)
  BY DEF Inv, Stays
<1>3. c \in DOMAIN log /\ lvl(c) = Depth(r)
  BY <1>2, RankFacts
<1>4. Clean(c, E)
  BY <1>3, OnwardClean DEF BroadInv
<1>5. ASSUME OnInner(c) PROVE Working(c, E, f, q)'
  <2>1. c.ranks \subseteq Rank /\ RootOf(c) = 0 /\ lvl(c) = 2 /\ z.at = "split"
    BY <1>5, InnerFacts
  <2>2. PICK h : h = act[0][2]
    OBVIOUS
  <2>3. Working(c, L, h, q) /\ Outer(z)
    BY <2>2, <1>1, <1>3, <1>5 DEF BroadInv, Inner
  <2>4. f.f = h.f /\ f.n = h.n
    <3>1. CASE r = 0
      <4>1. Top(r) = h
        BY <2>1, <2>2, <3>1, <1>3 DEF Top
      <4> QED
        BY <3>1, <4>1, <1>1
    <3>2. CASE r # 0
      BY <2>2, <3>2, <1>1
    <3> QED
      BY <3>1, <3>2
  <2> QED
    BY <2>1, <2>3, <2>4, <1>1, WorkingKept
<1>6. \A v \in e.own : v \in Top(r).own \/ v.obj[1] = c.id
  OBVIOUS
<1> QED
  BY <1>1, <1>4, <1>5, <1>6, StayBroad

LEMMA ThrowBroad ==
  ASSUME Inv, BroadInv, NEW r \in Rank, UserThrows(r)
  PROVE  BroadInv'
<1>1. PICK c, z, E, H : c = comm(r) /\ z = act[0][1] /\ E = log[c] /\ H = has'[r]
  OBVIOUS
<1>2. PICK e, g : e = [Top(r) EXCEPT !.exc = TRUE] /\ g = ctx[r]
  OBVIOUS
<1>3. /\ Top(r).at = "user" /\ act' = SetTop(r, e) /\ Depth(r) > 1
      /\ ctx' = ctx /\ saved' = saved /\ log' = log /\ has' = has
  BY <1>2 DEF UserThrows, InProgram
<1>4. IsEngine(Top(r)) /\ IsGlobals(ctx[r]) /\ RankOK(r) /\ Depth(r) \in Nat
  BY RootEngine, RankFacts DEF Inv
<1>5. IsEngine(e) /\ e.at = "user" /\ e.own = Top(r).own /\ e.f = Top(r).f /\ e.n = Top(r).n
  BY <1>2, <1>3, <1>4 DEF IsEngine
<1>6. Stays(r, e, g, c, E)
  <2>1. ctx' = [ctx EXCEPT ![r] = g] /\ log' = [log EXCEPT ![c] = E] /\ has' = [s \in Rank |-> has'[s]]
    BY <1>1, <1>2, <1>3 DEF Inv, TypeInv
  <2> QED
    BY <2>1, <1>1, <1>2, <1>3, <1>4, <1>5 DEF Stays, Stay, comm
<1>7. Kept(r, z)
  BY <1>3 DEF Kept, Alone, Keeps
<1>8. Onward(c, log[c], E, r, H)
  BY <1>1, OnwardSame
<1>9. ~ (r = 0 /\ Depth(r) = 1)
  BY <1>3, <1>4
<1> QED
  BY <1>1, <1>5, <1>6, <1>7, <1>8, <1>9, StayOnward

(* What the engine of r may enter when it leaves a header.                 *)
LEMMA AtHdrEnters ==
  ASSUME Inv, NEW r \in Rank, NEW c, NEW W, NEW a, NEW q, AtHdr(r, c, W, a, q)
  PROVE  /\ c \in DOMAIN log /\ r \in c.ranks /\ IsComm(c) /\ lvl(c) = Depth(r)
         /\ Shape(log[c], c.ranks, RootOf(c)) /\ Owing(log[c], RootOf(c), r)
         /\ \A p : Sent(log[c], RootOf(c), p) => p = q
         /\ Sent(log[c], RootOf(c), q)
         /\ q.op # "finalize" =>
              CanEnter(log[c], RootOf(c), r, IF q.op = "split" THEN "split" ELSE "vote")
<1>1. /\ c = comm(r) /\ W = Views(c) /\ CommOK(c, log[c], W, a, q) /\ Top(r).at = "hdr"
      /\ RootOf(c) \in log[c][Pos(log[c], r)].in
  BY DEF AtHdr
<1>2. /\ c \in DOMAIN log /\ r \in c.ranks /\ IsComm(c) /\ W[r].where = "in" /\ W[r].e = Top(r)
  BY <1>1, Here0
<1>3. lvl(c) = Depth(r)
  BY <1>1, RankFacts DEF Inv
<1>4. Shape(log[c], c.ranks, RootOf(c)) /\ Sent(log[c], RootOf(c), q)
  BY <1>1 DEF CommOK, LogOK
<1>5. InOp(log[c], r, "hdr")
  BY <1>1, <1>2, MemberOf DEF Serves
<1>6. /\ Owing(log[c], RootOf(c), r) /\ log[c][Pos(log[c], r)].val[RootOf(c)] = q
      /\ q.op # "finalize" =>
           Serving(log[c], RootOf(c), r, IF q.op = "split" THEN "split" ELSE "vote")
  BY <1>1, <1>4, <1>5, HeaderFacts
<1>7. ASSUME NEW p, Sent(log[c], RootOf(c), p) PROVE p = q
  <2>1. log[c][Pos(log[c], r)].val[RootOf(c)] = p
    BY <1>1, <1>4, <1>5, <1>7, HeaderFacts
  <2> QED
    BY <2>1, <1>6
<1> QED
  BY <1>2, <1>3, <1>4, <1>6, <1>7 DEF CanEnter

LEMMA FinePending ==
  ASSUME Inv, BroadInv, NEW r \in Rank, NEW c, NEW W, NEW a, NEW q, AtHdr(r, c, W, a, q)
  PROVE  Fine(c, q)
<1>1. c \in DOMAIN log /\ \A p : Sent(log[c], RootOf(c), p) => p = q
  BY AtHdrEnters
<1>2. Clean(c, log[c])
  BY <1>1 DEF BroadInv
<1> QED
  BY <1>1, <1>2 DEF Clean

(* r serves request q, and enters what comes of it.                        *)
LEMMA EnterBroad ==
  ASSUME Inv, BroadInv, NEW r \in Rank, NEW c, NEW W, NEW a, NEW q, AtHdr(r, c, W, a, q),
         q.op # "finalize", NEW op, op = (IF q.op = "split" THEN "split" ELSE "vote"),
         NEW e, e = [Top(r) EXCEPT !.at = op, !.req = q, !.inner = FALSE],
         NEW g, NEW val, NEW E, E = Entered(log[c], c.ranks, r, op, val), Stays(r, e, g, c, E),
         NEW z, z = act[0][1], Kept(r, z), NEW H, H = has'[r], q.op = "move" => q.v.obj \in H
  PROVE  BroadInv'
<1>1. IsEngine(Top(r)) /\ Top(r).at = "hdr"
  BY RootEngine DEF AtHdr
<1>2. /\ e.own = Top(r).own /\ e.f = Top(r).f /\ e.n = Top(r).n
      /\ e.at = op /\ e.req = q /\ e.last = Top(r).last
  BY <1>1 DEF IsEngine
<1>3. /\ c \in DOMAIN log /\ r \in c.ranks /\ IsComm(c) /\ lvl(c) = Depth(r)
      /\ Shape(log[c], c.ranks, RootOf(c))
      /\ \A p : Sent(log[c], RootOf(c), p) => p = q
      /\ CanEnter(log[c], RootOf(c), r, op)
  BY AtHdrEnters
<1>4. Onward(c, log[c], E, r, H)
  <2>1. RootOf(c) \in c.ranks /\ op # "hdr"
    BY <1>3 DEF IsComm
  <2>2. \A p : Sent(log[c], RootOf(c), p) /\ p.op = "move" => p.v.obj \in H
    BY <1>3
  <2> QED
    BY <2>1, <2>2, <1>3, OnwardEnter
<1>5. ASSUME r = 0 /\ Depth(r) = 1 PROVE Outer(e)'
  <2>1. c = World
    <3>1. RankOK(r) /\ comm(r) = c
      BY DEF Inv, AtHdr
    <3> QED
      BY <3>1, <1>5, RankFacts DEF RankOK
  <2>2. Fine(World, q)
    BY <2>1, FinePending
  <2>3. Top(r) = z /\ Outer(z)
    BY <1>5 DEF Top, BroadInv
  <2>4. e.at = "vote" => ~ IsBcast(q)
    BY <1>2 DEF IsBcast
  <2>5. e.last # NoReq => Fine(World, e.last.req)
    BY <2>3, <1>2 DEF Outer
  <2>6. e.at # "user" /\ (e.at = "vote" => Brought(e.req)')
    BY <2>4, <1>2 DEF Brought
  <2> QED
    BY <2>2, <2>5, <2>6, <1>2 DEF Outer
<1> QED
  BY <1>2, <1>4, <1>5, StayOnward

(* What a rank drops below World is not the argument of a broadcast.       *)
LEMMA DropKept ==
  ASSUME Inv, BroadInv, NEW r \in Rank, NEW c, NEW W, NEW a, NEW q, AtHdr(r, c, W, a, q),
         q.op = "drop", NEW o, o = q.v.obj, has' = [has EXCEPT ![r] = @ \ {o}], NEW z, z = act[0][1]
  PROVE  Kept(r, z)
<1>1. has'[r] = has[r] \ {o} /\ Alone(r)
  BY DEF Inv, TypeInv, Alone
<1>2. CASE c = World
  BY <1>1, <1>2, NoDrop DEF Kept
<1>3. CASE c # World
  <2>1. o[1] = c.id
    BY FinePending DEF Fine
  <2>2. c.id # <<>>
    <3>1. SUFFICES ASSUME c.id = <<>> PROVE FALSE
      OBVIOUS
    <3>2. lvl(c) = 1
      BY <3>1 DEF lvl
    <3>3. RankOK(r) /\ comm(r) = c
      BY DEF Inv, AtHdr
    <3>4. Depth(r) = 1 /\ c = Globals(r, 1).comm
      BY <3>2, <3>3, RankFacts
    <3> QED
      BY <3>3, <3>4, <1>3 DEF RankOK
  <2> QED
    BY <2>1, <2>2, <1>1 DEF Kept, Keeps
<1> QED
  BY <1>2, <1>3

LEMMA ServeBroad ==
  ASSUME Inv, BroadInv, NEW r \in Rank, NEW c, NEW W, NEW a, NEW q, AtHdr(r, c, W, a, q),
         NEW e, e = [Top(r) EXCEPT !.at = "vote", !.req = q, !.inner = FALSE], ServesBy(r, q, e)
  PROVE  BroadInv'
<1>1. c = comm(r) /\ W = Views(c) /\ Top(r).at = "hdr"
  BY DEF AtHdr
<1>2. /\ c \in DOMAIN log /\ IsEngine(Top(r)) /\ IsGlobals(ctx[r]) /\ ctx[r].comm = c
  BY <1>1, Here0 DEF comm
<1>3. PICK exc : Vote(r, exc)
  BY DEF ServesBy
<1>4. PICK E, val : E = Entered(log[c], c.ranks, r, "vote", val) /\ val = Ballot(exc)
  OBVIOUS
<1>5. log' = [log EXCEPT ![c] = E] /\ saved' = saved
  BY <1>1, <1>2, <1>3, <1>4, EnterIs DEF Vote, Members
<1>6. q.op \in {"use", "move", "make", "drop"}
  BY DEF ServesBy
<1>7. PICK g : ctx' = [ctx EXCEPT ![r] = g] /\ IsGlobals(g) /\ g.comm = c
  <2>1. CASE ctx' = ctx
    <3>1. ctx' = [ctx EXCEPT ![r] = ctx[r]]
      BY <2>1 DEF Inv, TypeInv
    <3> QED
      BY <3>1, <1>2
  <2>2. CASE q.op = "make" /\ ctx' = [ctx EXCEPT ![r] = with_entry(@, q.v.id, q.v.obj)]
    <3>1. q.v.id \in Nat \ {0}
      BY <2>2, HdrMeans
    <3>2. IsGlobals(with_entry(ctx[r], q.v.id, q.v.obj)) /\ with_entry(ctx[r], q.v.id, q.v.obj).comm = c
      BY <1>2, <3>1, EntryGlobals
    <3> QED
      BY <2>2, <3>2
  <2>3. CASE q.op = "drop" /\ ctx' = [ctx EXCEPT ![r] = without_entry(@, q.v.id)]
    <3>1. q.v.id \in Nat \ {0}
      BY <2>3, HdrMeans
    <3>2. IsGlobals(without_entry(ctx[r], q.v.id)) /\ without_entry(ctx[r], q.v.id).comm = c
      BY <1>2, <3>1, EntryGlobals
    <3> QED
      BY <2>3, <3>2
  <2> QED
    BY <2>1, <2>2, <2>3 DEF ServesBy
<1>8. IsEngine(e) /\ e.at = "vote"
  BY <1>2 DEF IsEngine
<1>9. Stays(r, e, g, c, E)
  BY <1>1, <1>5, <1>7, <1>8 DEF Stays, Stay, ServesBy
<1>10. PICK z : z = act[0][1]
  OBVIOUS
<1>11. Kept(r, z) /\ (q.op = "move" => q.v.obj \in has'[r])
  <2>0. has = [s \in Rank |-> has[s]]
    BY DEF Inv, TypeInv
  <2>1. CASE has' = has /\ q.op \in {"use", "make"}
    BY <2>1 DEF Kept, Alone, Keeps
  <2>2. CASE q.op = "move" /\ has' = [has EXCEPT ![r] = @ \cup {ctx[r].table[q.v.id]}]
    <3>1. ctx[r].table[q.v.id] = q.v.obj
      BY <2>2, HdrMeans DEF Means
    <3>2. has'[r] = has[r] \cup {q.v.obj} /\ \A s \in Rank \ {r} : has'[s] = has[s]
      BY <2>0, <2>2, <3>1
    <3> QED
      BY <3>2 DEF Kept, Alone, Keeps
  <2>3. CASE q.op = "drop" /\ has' = [has EXCEPT ![r] = @ \ {ctx[r].table[q.v.id]}]
    <3>1. ctx[r].table[q.v.id] = q.v.obj
      BY <2>3, HdrMeans DEF Means
    <3> QED
      BY <2>3, <3>1, <1>10, DropKept
  <2> QED
    BY <2>1, <2>2, <2>3 DEF ServesBy
<1>12. PICK op, H : op = (IF q.op = "split" THEN "split" ELSE "vote") /\ H = has'[r]
  OBVIOUS
<1>13. op = "vote" /\ q.op # "finalize"
  BY <1>6, <1>12
<1>14. e = [Top(r) EXCEPT !.at = op, !.req = q, !.inner = FALSE]
  BY <1>13
<1>15. E = Entered(log[c], c.ranks, r, op, val)
  BY <1>4, <1>13
<1> QED
  BY <1>9, <1>10, <1>11, <1>12, <1>13, <1>14, <1>15, EnterBroad

(* Into MPI_Comm_split.                                                    *)
LEMMA IntoSplitBroad ==
  ASSUME Inv, BroadInv, NEW r \in Rank, NEW c, NEW W, NEW a, NEW q, AtHdr(r, c, W, a, q),
         NEW e, e = [Top(r) EXCEPT !.at = "split", !.req = q, !.inner = FALSE], SplitsBy(r, q, e)
  PROVE  BroadInv'
<1>1. c = comm(r) /\ W = Views(c) /\ Top(r).at = "hdr"
  BY DEF AtHdr
<1>2. /\ c \in DOMAIN log /\ IsEngine(Top(r)) /\ IsGlobals(ctx[r])
  BY <1>1, Here0
<1>3. PICK E, val, g, z, op, H :
        /\ E = Entered(log[c], c.ranks, r, "split", val) /\ val = NoReq /\ g = ctx[r]
        /\ z = act[0][1] /\ op = (IF q.op = "split" THEN "split" ELSE "vote") /\ H = has'[r]
  OBVIOUS
<1>4. log' = [log EXCEPT ![c] = E]
  BY <1>1, <1>2, <1>3, EnterIs DEF SplitsBy, Members
<1>5. IsEngine(e) /\ e.at = "split"
  BY <1>2 DEF IsEngine
<1>6. has' = has /\ has' = [s \in Rank |-> has'[s]]
  BY DEF Inv, TypeInv, SplitsBy
<1>7. Stays(r, e, g, c, E)
  BY <1>1, <1>2, <1>3, <1>4, <1>5, <1>6 DEF Stays, Stay, SplitsBy, comm
<1>8. Kept(r, z)
  BY <1>6 DEF Kept, Alone, Keeps
<1>9. q.op = "split" /\ op = "split"
  BY <1>3 DEF SplitsBy
<1> QED
  BY <1>3, <1>7, <1>8, <1>9, EnterBroad

(* The outermost loop ends.                                                *)
LEMMA GoneBroad ==
  ASSUME Inv, BroadInv, NEW r \in Rank, NEW c, NEW W, NEW a, NEW q, AtHdr(r, c, W, a, q),
         Depth(r) = 1, act' = SetTop(r, [Top(r) EXCEPT !.at = "gone"]),
         UNCHANGED <<ctx, saved, log, has>>
  PROVE  BroadInv'
<1>1. c = comm(r) /\ W = Views(c) /\ Top(r).at = "hdr"
  BY DEF AtHdr
<1>2. /\ c \in DOMAIN log /\ IsEngine(Top(r)) /\ IsGlobals(ctx[r])
  BY <1>1, Here0
<1>3. PICK E, e, g, z, H : /\ E = log[c] /\ e = [Top(r) EXCEPT !.at = "gone"] /\ g = ctx[r]
                           /\ z = act[0][1] /\ H = has'[r]
  OBVIOUS
<1>4. /\ IsEngine(e) /\ e.at = "gone" /\ e.own = Top(r).own /\ e.f = Top(r).f /\ e.n = Top(r).n
      /\ e.req = Top(r).req /\ e.last = Top(r).last
  BY <1>2, <1>3 DEF IsEngine
<1>5. /\ has' = has /\ has' = [s \in Rank |-> has'[s]] /\ log' = [log EXCEPT ![c] = E]
      /\ ctx' = [ctx EXCEPT ![r] = g]
  BY <1>3 DEF Inv, TypeInv
<1>6. Stays(r, e, g, c, E)
  BY <1>1, <1>2, <1>3, <1>4, <1>5 DEF Stays, Stay, comm
<1>7. Kept(r, z)
  BY <1>5 DEF Kept, Alone, Keeps
<1>8. ASSUME r = 0 PROVE Outer(e)'
  <2>1. Top(r) = z /\ Outer(z)
    BY <1>3, <1>8 DEF Top, BroadInv
  <2> QED
    BY <2>1, <1>4 DEF Outer
<1>9. Onward(c, log[c], E, r, H)
  BY <1>3, OnwardSame
<1> QED
  BY <1>3, <1>4, <1>6, <1>7, <1>8, <1>9, StayOnward

(* A worker goes on to the next header.                                    *)
LEMMA NextHeaderBroad ==
  ASSUME Inv, BroadInv, NEW r \in Rank, Leaves(r, "vote"), ~ IsRoot(r),
         act' = SetTop(r, [Top(r) EXCEPT !.at = "hdr", !.req = NoReq]),
         log' = Enter(log, r, comm(r), "hdr", NoReq), UNCHANGED <<ctx, saved, has>>
  PROVE  BroadInv'
<1>1. PICK c, W : c = comm(r) /\ W = Views(c)
  OBVIOUS
<1>2. /\ c \in DOMAIN log /\ r \in c.ranks /\ IsComm(c)
      /\ W[r].where = "in" /\ W[r].e = Top(r)
      /\ IsEngine(Top(r)) /\ IsGlobals(ctx[r])
      /\ \E a, q : CommOK(c, log[c], W, a, q)
  BY <1>1, Here0
<1>3. PICK E, e, g, z, H, val :
        /\ E = Entered(log[c], c.ranks, r, "hdr", val) /\ val = NoReq
        /\ e = [Top(r) EXCEPT !.at = "hdr", !.req = NoReq] /\ g = ctx[r]
        /\ z = act[0][1] /\ H = has'[r]
  OBVIOUS
<1>4. Top(r).at = "vote" /\ c.ranks \subseteq log[c][Pos(log[c], r)].in
  BY <1>1, CurIs DEF Leaves, Here, Members
<1>5. PICK a, q : CommOK(c, log[c], W, a, q)
  BY <1>2
<1>6. /\ IsEngine(e) /\ e.at = "hdr" /\ e.own = Top(r).own /\ e.f = Top(r).f /\ e.n = Top(r).n
  BY <1>2, <1>3 DEF IsEngine
<1>7. /\ has' = has /\ has' = [s \in Rank |-> has'[s]] /\ ctx' = [ctx EXCEPT ![r] = g]
  BY <1>3 DEF Inv, TypeInv
<1>8. log' = [log EXCEPT ![c] = E]
  BY <1>1, <1>2, <1>3, EnterIs DEF Members
<1>9. Stays(r, e, g, c, E)
  BY <1>1, <1>2, <1>3, <1>4, <1>6, <1>7, <1>8 DEF Stays, Stay, comm
<1>10. Kept(r, z)
  BY <1>7 DEF Kept, Alone, Keeps
<1>11. r # RootOf(c)
  BY <1>1 DEF IsRoot
<1>12. ~ (r = 0 /\ Depth(r) = 1)
  <2>1. SUFFICES ASSUME r = 0, Depth(r) = 1 PROVE FALSE
    OBVIOUS
  <2>2. RankOK(r)
    BY DEF Inv
  <2>3. c = World
    BY <2>1, <2>2, <1>1, RankFacts DEF RankOK
  <2> QED
    BY <2>1, <2>3, <1>11, WorldIs
<1>13. Onward(c, log[c], E, r, H)
  <2>1. Shape(log[c], c.ranks, RootOf(c)) /\ RootOf(c) \in c.ranks
    BY <1>2, <1>5 DEF CommOK, LogOK, IsComm
  <2>2. InOp(log[c], r, "vote")
    <3>1. Serves(log[c], RootOf(c), W[r].e, r, q)
      BY <1>2, <1>5, MemberOf
    <3> QED
      BY <3>1, <1>2, <1>4 DEF Serves
  <2>3. CanEnter(log[c], RootOf(c), r, "hdr")
    BY <1>2, <1>4, <2>1, <2>2, FullFacts DEF CanEnter, Rested
  <2> QED
    BY <2>1, <2>3, <1>2, <1>3, <1>11, OnwardEnter
<1> QED
  BY <1>3, <1>6, <1>9, <1>10, <1>12, <1>13, StayOnward

(* The root's call returns, or throws.                                     *)
LEMMA ReturnBroad ==
  ASSUME Inv, BroadInv, NEW r \in Rank, Leaves(r, "vote"), NEW exc \in BOOLEAN,
         act' = SetTop(r, [Top(r) EXCEPT !.at = "user", !.exc = exc, !.req = NoReq,
                             !.last = [req |-> Top(r).req, ok |-> ~ Voted(r)]]),
         UNCHANGED <<log, ctx, saved, has>>
  PROVE  BroadInv'
<1>1. PICK c, W : c = comm(r) /\ W = Views(c)
  OBVIOUS
<1>2. c \in DOMAIN log /\ IsEngine(Top(r)) /\ IsGlobals(ctx[r])
  BY <1>1, Here0
<1>3. PICK E, e, g, z, H, ok :
        /\ E = log[c] /\ ok = ~ Voted(r) /\ g = ctx[r] /\ z = act[0][1] /\ H = has'[r]
        /\ e = [Top(r) EXCEPT !.at = "user", !.exc = exc, !.req = NoReq,
                  !.last = [req |-> Top(r).req, ok |-> ok]]
  OBVIOUS
<1>4. Top(r).at = "vote"
  BY DEF Leaves
<1>5. /\ IsEngine(e) /\ e.at = "user" /\ e.own = Top(r).own /\ e.f = Top(r).f /\ e.n = Top(r).n
      /\ e.req = NoReq /\ e.last.req = Top(r).req
  BY <1>2, <1>3 DEF IsEngine
<1>6. /\ has' = has /\ has' = [s \in Rank |-> has'[s]] /\ log' = [log EXCEPT ![c] = E]
      /\ ctx' = [ctx EXCEPT ![r] = g]
  BY <1>3 DEF Inv, TypeInv
<1>7. Stays(r, e, g, c, E)
  BY <1>1, <1>2, <1>3, <1>4, <1>5, <1>6 DEF Stays, Stay, comm
<1>8. Kept(r, z)
  BY <1>6 DEF Kept, Alone, Keeps
<1>9. ASSUME r = 0, Depth(r) = 1 PROVE Outer(e)'
  <2>1. Top(r) = z /\ Outer(z)
    BY <1>3, <1>9 DEF Top, BroadInv
  <2>2. Fine(World, z.req) /\ Brought(z.req)
    BY <2>1, <1>4 DEF Outer
  <2>3. Brought(z.req)'
    BY <2>2, <1>6 DEF Brought
  <2>4. Fine(World, NoReq)
    BY DEF Fine, IsBcast, NoReq
  <2> QED
    BY <2>1, <2>2, <2>3, <2>4, <1>5 DEF Outer
<1>10. Onward(c, log[c], E, r, H)
  BY <1>3, OnwardSame
<1> QED
  BY <1>3, <1>5, <1>7, <1>8, <1>9, <1>10, StayOnward

LEMMA LeaveVoteBroad ==
  ASSUME Inv, BroadInv, NEW r \in Rank, LeaveVote(r)
  PROVE  BroadInv'
<1>1. CASE ~ IsRoot(r)
  BY <1>1, NextHeaderBroad DEF LeaveVote
<1>2. CASE IsRoot(r)
  <2>1. PICK caught \in {Depth(r) = 1, Top(r).f = "user"} :
          act' = SetTop(r, [Top(r) EXCEPT !.at = "user",
                          !.exc = @ \/ (Voted(r) /\ ~ caught),
                          !.req = NoReq, !.last = [req |-> Top(r).req, ok |-> ~ Voted(r)]])
    BY <1>2 DEF LeaveVote
  <2>2. PICK exc \in BOOLEAN : exc = (Top(r).exc \/ (Voted(r) /\ ~ caught))
    OBVIOUS
  <2>3. act' = SetTop(r, [Top(r) EXCEPT !.at = "user", !.exc = exc,
                          !.req = NoReq, !.last = [req |-> Top(r).req, ok |-> ~ Voted(r)]])
    <3>1. \A f : [f EXCEPT !.at = "user", !.exc = @ \/ (Voted(r) /\ ~ caught),
                    !.req = NoReq, !.last = [req |-> Top(r).req, ok |-> ~ Voted(r)]]
                 = [f EXCEPT !.at = "user", !.exc = f.exc \/ (Voted(r) /\ ~ caught),
                    !.req = NoReq, !.last = [req |-> Top(r).req, ok |-> ~ Voted(r)]]
      OBVIOUS
    <3> QED
      BY <2>1, <2>2, <3>1
  <2>4. Leaves(r, "vote") /\ UNCHANGED <<log, ctx, saved, has>>
    BY <1>2 DEF LeaveVote
  <2> QED
    BY <2>3, <2>4, ReturnBroad
<1> QED
  BY <1>1, <1>2

(* The root at its program: nothing it sent is still to be served.         *)
LEMMA UserRested ==
  ASSUME Inv, NEW r \in Rank, IsRoot(r), Top(r).at = "user", NEW c, c = comm(r), NEW L, L = log[c]
  PROVE  /\ c \in DOMAIN log /\ IsComm(c) /\ r = RootOf(c) /\ r \in c.ranks
         /\ Shape(L, c.ranks, r) /\ Rested(L, r) /\ \A s : ~ Owing(L, r, s)
         /\ IsEngine(Top(r)) /\ lvl(c) = Depth(r)
<1>1. PICK W : W = Views(c)
  OBVIOUS
<1>2. /\ c \in DOMAIN log /\ r \in c.ranks /\ IsComm(c) /\ IsEngine(Top(r))
      /\ W[r].where = "in" /\ W[r].e = Top(r) /\ \E a, q : CommOK(c, log[c], W, a, q)
  BY <1>1, Here0
<1>3. PICK a, q : CommOK(c, log[c], W, a, q)
  BY <1>2
<1>4. r = RootOf(c)
  BY DEF IsRoot
<1>5. Shape(L, c.ranks, r)
  BY <1>3, <1>4 DEF CommOK, LogOK
<1>6. Rested(L, r)
  BY <1>2, <1>3, <1>4, MemberOf DEF Serves
<1>7. lvl(c) = Depth(r)
  BY RankFacts DEF Inv
<1> QED
  BY <1>2, <1>4, <1>5, <1>6, <1>7, RestedRoot

(* What the helper may send: n counts its requests, this one included.     *)
Asks(c, q, p, n) ==
  /\ n \in 0 .. 2 /\ (p.op = "move" => p.v.obj = q.args[1].obj) /\ (p.op = "finalize" => n = 2)
  /\ n = 2 => \A s \in c.ranks : p.op = "move" \/ q.args[1].obj \in has'[s]

LEMMA SendBroad ==
  ASSUME Inv, BroadInv, NEW r \in Rank, IsRoot(r), Top(r).at = "user", NEW p, NEW e, Send(r, p, e),
         NEW g, ctx' = [ctx EXCEPT ![r] = g], IsGlobals(g), g.comm = ctx[r].comm,
         has' = [s \in Rank |-> has'[s]], Alone(r), Keeps(r), IsEngine(e),
         e.req = Top(r).req, e.f = Top(r).f, NEW c, c = comm(r), Fine(c, p),
         \A v \in e.own : v \in Top(r).own \/ v.obj[1] = c.id, NEW q, q = act[0][1].req,
         OnInner(c) /\ IsBcast(q) => Asks(c, q, p, e.n)
  PROVE  BroadInv'
<1>1. PICK f, E, L, z : /\ f = [e EXCEPT !.at = "hdr", !.last = NoReq] /\ L = log[c]
                        /\ E = Entered(L, c.ranks, r, "hdr", p) /\ z = act[0][1]
  OBVIOUS
<1>2. /\ c \in DOMAIN log /\ IsComm(c) /\ r = RootOf(c) /\ r \in c.ranks
      /\ Shape(L, c.ranks, r) /\ Rested(L, r) /\ lvl(c) = Depth(r)
  BY <1>1, UserRested
<1>3. /\ IsEngine(f) /\ f.at = "hdr" /\ f.own = e.own /\ f.last = NoReq
      /\ f.req = e.req /\ f.f = e.f /\ f.n = e.n
  BY <1>1 DEF IsEngine
<1>4. log' = [log EXCEPT ![c] = E]
  BY <1>1, <1>2, EnterIs DEF Send, Members
<1>5. Stays(r, f, g, c, E)
  <2>1. act' = SetTop(r, f) /\ saved' = saved
    BY <1>1 DEF Send
  <2> QED
    BY <2>1, <1>3, <1>4 DEF Stays, Stay, comm
<1>6. Sent(E, r, p) /\ \A s \in c.ranks : Owing(E, r, s)
  BY <1>1, <1>2, EnterRequest
<1>7. Clean(c, E)
  BY <1>2, <1>6 DEF Clean
<1>8. Kept(r, z)
  BY DEF Kept
<1>9. ASSUME r = 0, Depth(r) = 1 PROVE Outer(f)'
  <2>1. Top(r) = z /\ Outer(z)
    BY <1>1, <1>9 DEF Top, BroadInv
  <2>2. Fine(World, f.req)
    BY <2>1, <1>3 DEF Outer
  <2> QED
    BY <2>2, <1>3 DEF Outer
<1>10. PICK x : x = (IF r = 0 THEN f ELSE act[0][2])
  OBVIOUS
<1>11. ASSUME OnInner(c) PROVE Working(c, E, x, q)'
  <2>1. RootOf(c) = 0 /\ lvl(c) = 2
    BY <1>11, InnerFacts
  <2>2. r = 0 /\ x = f
    BY <2>1, <1>2, <1>10
  <2>3. SUFFICES ASSUME IsBcast(q)
                 PROVE  /\ x.f = "bcast" /\ x.n \in 0 .. 2
                        /\ \E o : Helper(c, E, x, q, o)'
    BY DEF Working
  <2>4. Working(c, L, act[0][2], q)
    BY <1>1, <1>2, <1>11 DEF BroadInv, Inner
  <2>5. Top(r) = act[0][2]
    BY <2>1, <2>2, <1>2 DEF Top
  <2>6. x.f = "bcast"
    BY <2>2, <2>3, <2>4, <2>5, <1>3 DEF Working
  <2>7. Asks(c, q, p, x.n)
    BY <2>2, <2>3, <1>3, <1>11
  <2>8. Helper(c, E, x, q, p)'
    BY <2>2, <2>7, <1>6 DEF Helper, Asks
  <2>9. x.n \in 0 .. 2
    BY <2>7 DEF Asks
  <2> QED
    BY <2>6, <2>8, <2>9
<1>12. \A v \in f.own : v \in Top(r).own \/ v.obj[1] = c.id
  BY <1>3
<1> QED
  BY <1>1, <1>5, <1>7, <1>8, <1>9, <1>10, <1>11, <1>12, StayBroad

(* The helper at its program, having moved the variable: everyone has it.  *)
LEMMA HelperHas ==
  ASSUME Inv, BroadInv, NEW r \in Rank, IsRoot(r), Top(r).at = "user", NEW c, c = comm(r),
         OnInner(c), NEW q, q = act[0][1].req, IsBcast(q)
  PROVE  /\ r = 0 /\ Top(r).f = "bcast" /\ Top(r).n \in 0 .. 2
         /\ Top(r).n = 2 => \A s \in c.ranks : q.args[1].obj \in has[s]
<1>1. PICK L, e : L = log[c] /\ e = Top(r)
  OBVIOUS
<1>2. /\ c \in DOMAIN log /\ r = RootOf(c) /\ \A s : ~ Owing(L, r, s) /\ lvl(c) = Depth(r)
  BY <1>1, UserRested
<1>3. RootOf(c) = 0 /\ lvl(c) = 2
  BY InnerFacts
<1>4. e = act[0][2]
  BY <1>1, <1>2, <1>3 DEF Top
<1>5. Working(c, L, e, q)
  BY <1>1, <1>2, <1>4 DEF BroadInv, Inner
<1>6. PICK p : Helper(c, L, e, q, p)
  BY <1>5 DEF Working
<1>7. e.n = 2 => \A s \in c.ranks : q.args[1].obj \in has[s]
  BY <1>2, <1>3, <1>6 DEF Helper
<1> QED
  BY <1>1, <1>2, <1>3, <1>5, <1>7 DEF Working

(* What the outermost engine of rank 0 is in is the request on World.      *)
LEMMA OuterRequest ==
  ASSUME Inv, NEW z, z = act[0][1], z.at \in {"vote", "split"}
  PROVE  \E a : CommOK(World, log[World], Views(World), a, z.req)
<1>1. World \in DOMAIN log
  <2>1. RankOK(0)
    BY WorldIs DEF Inv
  <2>2. Depth(0) \in Nat /\ Depth(0) >= 1
    BY <2>1, WorldIs, RankFacts
  <2>3. 1 \in 1 .. Depth(0)
    BY <2>2
  <2> QED
    BY <2>1, <2>3 DEF RankOK, LevelOK
<1>2. PICK a, q : CommOK(World, log[World], Views(World), a, q)
  BY <1>1 DEF Inv, CommInv
<1>3. PICK L : L = log[World]
  OBVIOUS
<1>4. Serves(L, 0, z, 0, q)
  BY <1>2, <1>3, OuterServes
<1>5. Shape(L, Rank, 0)
  BY <1>2, <1>3, WorldIs DEF CommOK, LogOK
<1>6. InOp(L, 0, z.at)
  BY <1>4 DEF Serves
<1>7. ~ Owing(L, 0, 0)
  <2>1. SUFFICES ASSUME Owing(L, 0, 0) PROVE FALSE
    OBVIOUS
  <2>2. InOp(L, 0, "hdr")
    BY <2>1 DEF Owing, OwesAt, InOp, IsAt
  <2>3. z.at = "hdr"
    BY <1>5, <1>6, <2>2, OneOp
  <2> QED
    BY <2>3
<1>8. z.req = q
  BY <1>4, <1>7 DEF Serves
<1> QED
  BY <1>2, <1>8

(* The context of a broadcast is given the one variable.                   *)
LEMMA HelperViews ==
  ASSUME Inv, NEW c, c = comm(0), OnInner(c), NEW q, q = act[0][1].req, IsBcast(q),
         Top(0).at = "user", NEW v \in Top(0).views
  PROVE  v.obj = q.args[1].obj
<1>1. PICK z, L, W : z = act[0][1] /\ L = log[c] /\ W = Views(c)
  OBVIOUS
<1>2. /\ RootOf(c) = 0 /\ lvl(c) = 2 /\ z.at = "split"
      /\ \E p : CommOK(c, L, W, z.req, p)
  BY <1>1, InnerFacts
<1>3. PICK p : CommOK(c, L, W, q, p)
  BY <1>1, <1>2
<1>4. W[0].where = "in" /\ W[0].e = Top(0)
  BY <1>1, WorldIs, Here0
<1>5. Top(0).views = Given(c, q)
  BY <1>2, <1>3, <1>4 DEF CommOK, RootOK
<1>6. c # World
  BY <1>2, WorldIs
<1>7. \E a : CommOK(World, log[World], Views(World), a, q)
  BY <1>1, <1>2, OuterRequest
<1>8. Len(q.args) = 1 /\ Proper(q.args)
  BY <1>7 DEF CommOK, KnownOK, Valid, SplitOK, BcastOK, IsBcast
<1>9. DOMAIN q.args = {1}
  BY <1>8 DEF Proper
<1> QED
  BY <1>5, <1>6, <1>9 DEF Given

(* The root's own variables were made on its communicator.                 *)
LEMMA TopHome ==
  ASSUME Inv, BroadInv, NEW r \in Rank, Top(r).at # "split", NEW v \in Top(r).own
  PROVE  v.obj[1] = comm(r).id
<1>1. PICK d : d = Depth(r)
  OBVIOUS
<1>2. d \in 1 .. Depth(r) /\ comm(r) = Globals(r, d).comm
  BY <1>1, RankFacts DEF Inv
<1>3. Home(r, d)
  BY <1>2 DEF BroadInv
<1> QED
  BY <1>1, <1>2, <1>3 DEF Home, Top

LEMMA MakeBroad ==
  ASSUME Inv, BroadInv, NEW r \in Rank, IsRoot(r), Top(r).at = "user", Make(r), has' = has,
         Top(r).f = "bcast" => Top(r).n = 0
  PROVE  BroadInv'
<1>1. PICK c, q, v : /\ c = comm(r) /\ q = act[0][1].req
                     /\ v = [id |-> ctx[r].current_dvid, obj |-> <<comm(r).id, Top(r).n>>]
  OBVIOUS
<1>2. PICK p, e, g : /\ p = [op |-> "make", v |-> v]
                     /\ e = [Counted(Top(r)) EXCEPT !.own = @ \cup {v}]
                     /\ g = [ctx[r] EXCEPT !.current_dvid = @ + 1]
  OBVIOUS
<1>3. Send(r, p, e) /\ ctx' = [ctx EXCEPT ![r] = g]
  BY <1>1, <1>2 DEF Make
<1>4. IsEngine(Top(r)) /\ IsGlobals(ctx[r]) /\ has' = [s \in Rank |-> has'[s]]
  BY RootEngine
<1>5. IsGlobals(g) /\ g.comm = ctx[r].comm
  BY <1>2, <1>4 DEF IsGlobals
<1>6. /\ e.own = Top(r).own \cup {v} /\ e.views = Top(r).views /\ e.at = Top(r).at
      /\ e.exc = Top(r).exc /\ e.req = Top(r).req /\ e.f = Top(r).f /\ e.n = Top(r).n + 1
      /\ DOMAIN e = DOMAIN Top(r)
  BY <1>2, <1>4 DEF IsEngine, Counted
<1>7. IsEngine(e)
  <2>1. IsFiniteSet(e.own)
    BY <1>4, <1>6, FS_AddElement DEF IsEngine
  <2> QED
    BY <2>1, <1>4, <1>6 DEF IsEngine
<1>8. v.obj[1] = c.id
  BY <1>1
<1>9. Fine(c, p) /\ p.op = "make"
  BY <1>2 DEF Fine, IsBcast
<1>10. ASSUME OnInner(c), IsBcast(q) PROVE Asks(c, q, p, e.n)
  <2>1. Top(r).f = "bcast"
    BY <1>1, <1>10, HelperHas
  <2>2. e.n = 1
    BY <2>1, <1>6
  <2> QED
    BY <2>2, <1>9 DEF Asks
<1>11. Alone(r) /\ Keeps(r)
  BY DEF Alone, Keeps
<1>12. \A w \in e.own : w \in Top(r).own \/ w.obj[1] = c.id
  BY <1>6, <1>8
<1> QED
  BY <1>1, <1>3, <1>4, <1>5, <1>6, <1>7, <1>9, <1>10, <1>11, <1>12, SendBroad

(* The requests that leave the variables of the program alone.             *)
LEMMA AskBroad ==
  ASSUME Inv, BroadInv, NEW r \in Rank, IsRoot(r), Top(r).at = "user", NEW p, NEW e, Send(r, p, e),
         ctx' = ctx, has' = [s \in Rank |-> has'[s]], Alone(r), Keeps(r),
         IsEngine(e), e.own \subseteq Top(r).own, e.req = Top(r).req, e.f = Top(r).f,
         NEW c, c = comm(r), Fine(c, p), NEW q, q = act[0][1].req,
         OnInner(c) /\ IsBcast(q) => Asks(c, q, p, e.n)
  PROVE  BroadInv'
<1>1. PICK g : g = ctx[r]
  OBVIOUS
<1>2. ctx' = [ctx EXCEPT ![r] = g] /\ IsGlobals(g)
  BY <1>1, RootEngine DEF Inv, TypeInv
<1>3. \A w \in e.own : w \in Top(r).own \/ w.obj[1] = c.id
  OBVIOUS
<1> QED
  BY <1>1, <1>2, <1>3, SendBroad

LEMMA UseBroad ==
  ASSUME Inv, BroadInv, NEW r \in Rank, IsRoot(r), Top(r).at = "user", NEW op \in {"use", "move"},
         NEW v, Send(r, [op |-> op, v |-> v], Counted(Top(r))), UNCHANGED <<ctx, has>>,
         Top(r).f = "bcast" => /\ op = "move" /\ r = 0 /\ Top(r).n = 1 /\ v \in Top(r).views
  PROVE  BroadInv'
<1>1. PICK c, q, p, e : /\ c = comm(r) /\ q = act[0][1].req
                        /\ p = [op |-> op, v |-> v] /\ e = Counted(Top(r))
  OBVIOUS
<1>2. IsEngine(Top(r)) /\ has' = [s \in Rank |-> has'[s]]
  BY RootEngine
<1>3. /\ IsEngine(e) /\ e.own = Top(r).own /\ e.req = Top(r).req /\ e.f = Top(r).f
      /\ e.n = Top(r).n + 1
  BY <1>1, <1>2 DEF IsEngine, Counted
<1>4. p.op = op /\ p.v = v /\ Fine(c, p)
  BY <1>1 DEF Fine, IsBcast
<1>5. ASSUME OnInner(c), IsBcast(q) PROVE Asks(c, q, p, e.n)
  <2>1. Top(r).f = "bcast"
    BY <1>1, <1>5, HelperHas
  <2>2. v.obj = q.args[1].obj
    BY <2>1, <1>1, <1>5, HelperViews
  <2>3. e.n = 2 /\ op = "move"
    BY <2>1, <1>3
  <2> QED
    BY <2>2, <2>3, <1>4 DEF Asks
<1>6. Alone(r) /\ Keeps(r)
  BY DEF Alone, Keeps
<1> QED
  BY <1>1, <1>2, <1>3, <1>4, <1>5, <1>6, AskBroad

LEMMA DropBroad ==
  ASSUME Inv, BroadInv, NEW r \in Rank, IsRoot(r), Top(r).at = "user", NEW v \in Top(r).own,
         Drop(r, v), Top(r).f = "bcast" => Top(r).n = 2
  PROVE  BroadInv'
<1>1. PICK c, q, p, e : /\ c = comm(r) /\ q = act[0][1].req
                        /\ p = [op |-> "drop", v |-> v] /\ e = [Top(r) EXCEPT !.own = @ \ {v}]
  OBVIOUS
<1>2. IsEngine(Top(r)) /\ has = [s \in Rank |-> has[s]]
  BY RootEngine
<1>3. Send(r, p, e) /\ ctx' = ctx /\ has' = has
  BY <1>1 DEF Drop
<1>4. /\ e.own = Top(r).own \ {v} /\ e.views = Top(r).views /\ e.req = Top(r).req
      /\ e.f = Top(r).f /\ e.n = Top(r).n /\ e.at = Top(r).at /\ e.exc = Top(r).exc
      /\ DOMAIN e = DOMAIN Top(r)
  BY <1>1, <1>2 DEF IsEngine
<1>5. IsEngine(e)
  <2>1. IsFiniteSet(e.own)
    BY <1>2, <1>4, FS_RemoveElement DEF IsEngine
  <2> QED
    BY <2>1, <1>2, <1>4 DEF IsEngine
<1>6. p.op = "drop" /\ p.v = v
  BY <1>1
<1>7. Fine(c, p)
  <2>1. v.obj[1] = c.id
    BY <1>1, TopHome
  <2> QED
    BY <2>1, <1>6 DEF Fine, IsBcast
<1>8. ASSUME OnInner(c), IsBcast(q) PROVE Asks(c, q, p, e.n)
  <2>1. Top(r).f = "bcast" /\ (Top(r).n = 2 => \A s \in c.ranks : q.args[1].obj \in has[s])
    BY <1>1, <1>8, HelperHas
  <2> QED
    BY <2>1, <1>3, <1>4, <1>6 DEF Asks
<1>9. has' = [s \in Rank |-> has'[s]] /\ Alone(r) /\ Keeps(r)
  BY <1>2, <1>3 DEF Alone, Keeps
<1> QED
  BY <1>1, <1>3, <1>4, <1>5, <1>7, <1>8, <1>9, AskBroad

LEMMA EndsBroad ==
  ASSUME Inv, BroadInv, NEW r \in Rank, UserEnds(r)
  PROVE  BroadInv'
<1>1. PICK c, q, p, e : /\ c = comm(r) /\ q = act[0][1].req
                        /\ p = [op |-> "finalize"] /\ e = Top(r)
  OBVIOUS
<1>2. IsEngine(e) /\ has = [s \in Rank |-> has[s]]
  BY <1>1, RootEngine
<1>3. /\ IsRoot(r) /\ Top(r).at = "user" /\ Send(r, p, e) /\ ctx' = ctx /\ has' = has
      /\ (Top(r).f = "bcast" /\ r = 0) => Top(r).n = 2
  BY <1>1 DEF UserEnds
<1>4. p.op = "finalize" /\ Fine(c, p)
  BY <1>1 DEF Fine, IsBcast
<1>5. ASSUME OnInner(c), IsBcast(q) PROVE Asks(c, q, p, e.n)
  <2>1. /\ r = 0 /\ Top(r).f = "bcast"
        /\ Top(r).n = 2 => \A s \in c.ranks : q.args[1].obj \in has[s]
    BY <1>1, <1>3, <1>5, HelperHas
  <2> QED
    BY <2>1, <1>1, <1>3, <1>4 DEF Asks
<1>6. has' = [s \in Rank |-> has'[s]] /\ Alone(r) /\ Keeps(r)
  BY <1>2, <1>3 DEF Alone, Keeps
<1> QED
  BY <1>1, <1>2, <1>3, <1>4, <1>5, <1>6, AskBroad

LEMMA SplitBroad ==
  ASSUME Inv, BroadInv, NEW r \in Rank, IsRoot(r), Top(r).at = "user", Top(r).f # "bcast",
         NEW color, NEW f, NEW args, NEW of, Split(r, color, f, args, of), ctx' = ctx,
         has' = [s \in Rank |-> has'[s]], Alone(r), Keeps(r),
         f = "bcast" => args[1].obj[1] = comm(r).id
  PROVE  BroadInv'
<1>1. PICK c, q, p, e :
        /\ c = comm(r) /\ q = act[0][1].req /\ e = Counted(Top(r))
        /\ p = [op |-> "split", color |-> color, f |-> f, args |-> args, of |-> of]
  OBVIOUS
<1>2. IsEngine(Top(r))
  BY RootEngine
<1>3. IsEngine(e) /\ e.own = Top(r).own /\ e.req = Top(r).req /\ e.f = Top(r).f
  BY <1>1, <1>2 DEF IsEngine, Counted
<1>4. Fine(c, p)
  <2>1. p.op = "split" /\ p.f = f /\ p.args = args
    BY <1>1
  <2> QED
    BY <2>1, <1>1 DEF Fine, IsBcast
<1>5. ~ (OnInner(c) /\ IsBcast(q))
  BY <1>1, HelperHas
<1>6. Send(r, p, e)
  BY <1>1 DEF Split
<1> QED
  BY <1>1, <1>3, <1>4, <1>5, <1>6, AskBroad

LEMMA ProgramBroad ==
  ASSUME Inv, BroadInv, NEW r \in Rank, Program(r)
  PROVE  BroadInv'
<1>0. has = [s \in Rank |-> has[s]]
  BY DEF Inv, TypeInv
<1>1. CASE UserAsks(r)
  <2>1. IsRoot(r) /\ Top(r).at = "user" /\ Top(r).f = "user" /\ Top(r).f # "bcast"
    BY <1>1 DEF UserAsks, InProgram
  <2>2. CASE Make(r) /\ has' = has
    BY <2>1, <2>2, MakeBroad
  <2>3. CASE \E v \in Top(r).own \cup Top(r).views : Use(r, v)
    <3>1. PICK v \in Top(r).own \cup Top(r).views : Use(r, v)
      BY <2>3
    <3>2. Send(r, [op |-> "use", v |-> v], Counted(Top(r))) /\ UNCHANGED <<ctx, has>>
      BY <3>1 DEF Use
    <3> QED
      BY <2>1, <3>2, UseBroad
  <2>4. CASE \E color : SplitUser(r, color)
    <3>1. PICK color : SplitUser(r, color)
      BY <2>4
    <3>2. PICK args : args = SetToSeq(Top(r).own \cup Top(r).views)
      OBVIOUS
    <3>3. Split(r, color, "user", args, color) /\ ctx' = ctx /\ has' = has
      BY <3>1, <3>2 DEF SplitUser
    <3>4. has' = [s \in Rank |-> has'[s]] /\ Alone(r) /\ Keeps(r)
      BY <1>0, <3>3 DEF Alone, Keeps
    <3>5. "user" # "bcast"
      OBVIOUS
    <3> QED
      BY <2>1, <3>3, <3>4, <3>5, SplitBroad
  <2>5. CASE \E color : \E v \in Top(r).own : SplitBroadcast(r, color, v)
    <3>0. PICK color : \E v \in Top(r).own : SplitBroadcast(r, color, v)
      BY <2>5
    <3>1. PICK v \in Top(r).own : SplitBroadcast(r, color, v)
      BY <3>0
    <3>2. PICK args, heads : args = <<v>> /\ heads = heads_color(color)
      OBVIOUS
    <3>3. /\ Split(r, heads, "bcast", args, color) /\ ctx' = ctx
          /\ has' = [has EXCEPT ![r] = @ \cup {v.obj}]
      BY <3>1, <3>2 DEF SplitBroadcast
    <3>4. has' = [s \in Rank |-> has'[s]] /\ Alone(r) /\ Keeps(r)
      BY <1>0, <3>3 DEF Alone, Keeps
    <3>5. args[1].obj[1] = comm(r).id
      BY <2>1, <3>1, <3>2, TopHome
    <3> QED
      BY <2>1, <3>3, <3>4, <3>5, SplitBroad
  <2> QED
    BY <1>1, <2>2, <2>3, <2>4, <2>5 DEF UserAsks, Make
<1>2. CASE UserDrops(r)
  <2>1. PICK v \in Top(r).own : Drop(r, v)
    BY <1>2 DEF UserDrops
  <2>2. IsRoot(r) /\ Top(r).at = "user" /\ Top(r).f # "bcast"
    BY <1>2 DEF UserDrops, InProgram
  <2> QED
    BY <2>1, <2>2, DropBroad
<1>3. CASE HelperAsks(r)
  <2>1. IsRoot(r) /\ Top(r).at = "user" /\ r = 0
    BY <1>3 DEF HelperAsks, InProgram
  <2>2. CASE Top(r).n = 0 /\ Make(r)
    BY <2>1, <2>2, MakeBroad DEF Make
  <2>3. CASE Top(r).n = 1 /\ \E v \in Top(r).views :
               Send(r, [op |-> "move", v |-> v], Counted(Top(r))) /\ UNCHANGED <<ctx, has>>
    <3>1. PICK v \in Top(r).views :
               Send(r, [op |-> "move", v |-> v], Counted(Top(r))) /\ UNCHANGED <<ctx, has>>
      BY <2>3
    <3> QED
      BY <2>1, <2>3, <3>1, UseBroad
  <2>4. CASE Top(r).n = 2 /\ \E v \in Top(r).own : Drop(r, v)
    BY <2>1, <2>4, DropBroad
  <2> QED
    BY <1>3, <2>2, <2>3, <2>4 DEF HelperAsks
<1>4. CASE UserThrows(r)
  BY <1>4, ThrowBroad
<1>5. CASE UserEnds(r)
  BY <1>5, EndsBroad
<1> QED
  BY <1>1, <1>2, <1>3, <1>4, <1>5 DEF Program

(* r starts the engine of its part x of the communicator.                  *)
LEMMA ArriveClean ==
  ASSUME Inv, BroadInv, NEW r \in Rank, NEW c, NEW p, NEW x, NEW V, NEW e, NEW g, NEW L, NEW E,
         Comes(r, c, p, x, V, e, g, L, E), NEW H
  PROVE  /\ IsComm(x) /\ r \in x.ranks /\ x.ranks \subseteq c.ranks /\ lvl(x) = Depth(r) + 1
         /\ x # World /\ c \in DOMAIN log /\ Clean(x, E)
         /\ r = RootOf(x) => E = L /\ Sent(L, r, NoReq)
         /\ x \in DOMAIN log /\ r # RootOf(x) => Onward(x, L, E, r, H)
<1>1. /\ c = comm(r) /\ Top(r).at = "split" /\ Top(r).req = p /\ x = SubComm(c, p.color, r)
      /\ L = (IF x \in DOMAIN log THEN log[x] ELSE <<>>)
      /\ E = (IF r = RootOf(x) THEN L ELSE Entered(L, x.ranks, r, "hdr", NoReq))
  BY DEF Comes
<1>2. c \in DOMAIN log /\ r \in c.ranks /\ IsComm(c) /\ RankOK(r)
  BY <1>1, Here0 DEF Inv
<1>3. PICK d : d = Depth(r)
  OBVIOUS
<1>4. d \in Nat /\ d >= 1 /\ lvl(c) = d
  BY <1>1, <1>2, <1>3, RankFacts
<1>5. IsComm(x) /\ r \in x.ranks /\ x.ranks \subseteq c.ranks /\ lvl(x) = d + 1 /\ x # World
  BY <1>1, <1>2, <1>4, SubCommOK
<1>6. PICK ro : ro = RootOf(x) /\ ro \in x.ranks
  BY <1>5 DEF IsComm
<1>7. CASE x \in DOMAIN log
  <2>1. CommInv(x)
    BY <1>7 DEF Inv
  <2>2. PICK a, q : CommOK(x, L, Views(x), a, q)
    BY <2>1, <1>1, <1>7 DEF CommInv
  <2>3. PICK w : w = Views(x)[r]
    OBVIOUS
  <2>4. w.where = "split"
    <3>1. w = View(r, d + 1)
      BY <2>3, <1>5 DEF Views
    <3> QED
      BY <3>1, <1>1, <1>3, <1>4, ViewBelow
  <2>5. Shape(L, x.ranks, ro) /\ Sent(L, ro, q)
    BY <2>2, <1>6 DEF CommOK, LogOK
  <2>6. IsOut(L, r)
    BY <2>2, <2>3, <2>4, <1>5 DEF CommOK, MemberOK
  <2>7. ro = r => q = NoReq
    BY <2>2, <2>3, <2>4, <1>6 DEF CommOK, RootOK
  <2>8. CanEnter(L, ro, r, "hdr")
    BY <2>6 DEF CanEnter, Rested
  <2>9. r # ro => Onward(x, L, E, r, H)
    BY <2>5, <2>8, <1>1, <1>5, <1>6, OnwardEnter
  <2>10. Clean(x, L)
    BY <1>1, <1>7 DEF BroadInv
  <2>11. Clean(x, E)
    <3>1. CASE r = ro
      BY <3>1, <2>10, <1>1, <1>6
    <3>2. CASE r # ro
      BY <3>2, <2>9, <2>10, OnwardClean
    <3> QED
      BY <3>1, <3>2
  <2>12. r = ro => E = L /\ Sent(L, r, NoReq)
    BY <2>5, <2>7, <1>1, <1>6
  <2> QED
    BY <2>9, <2>11, <2>12, <1>2, <1>3, <1>5, <1>6
<1>8. CASE x \notin DOMAIN log
  <2>1. L = <<>>
    BY <1>1, <1>8
  <2>2. Sent(L, ro, NoReq) /\ NoReq.op = "none"
    BY <2>1 DEF Sent, NoReq
  <2>3. Fine(x, NoReq)
    BY <2>2 DEF Fine, IsBcast
  <2>4. CASE r = ro
    BY <2>2, <2>3, <2>4, <1>1, <1>2, <1>3, <1>5, <1>6, <1>8 DEF Clean
  <2>5. CASE r # ro
    <3>1. Shape(L, x.ranks, ro)
      BY <2>1 DEF Shape, Proper
    <3>2. CanEnter(L, ro, r, "hdr")
      BY <2>1 DEF CanEnter, Rested, IsOut
    <3>3. Onward(x, L, E, r, H)
      BY <2>5, <3>1, <3>2, <1>1, <1>5, <1>6, OnwardEnter
    <3>4. Clean(x, L)
      BY <2>2, <2>3, <1>6 DEF Clean
    <3>5. Clean(x, E)
      BY <3>3, <3>4, OnwardClean
    <3> QED
      BY <2>5, <3>5, <1>2, <1>3, <1>5, <1>6, <1>8
  <2> QED
    BY <2>4, <2>5
<1> QED
  BY <1>7, <1>8

LEMMA LeaveSplitBroad ==
  ASSUME Inv, BroadInv, NEW r \in Rank, LeaveSplit(r)
  PROVE  BroadInv'
<1>1. PICK c, p, x, V, e, g, L, E : Comes(r, c, p, x, V, e, g, L, E)
  BY LeaveSplitComes
<1>2. PICK d, z, q, H : d = Depth(r) /\ z = act[0][1] /\ q = z.req /\ H = has'[r]
  OBVIOUS
<1>3. /\ Top(r).at = "split" /\ Top(r).req = p /\ Arrive(r, x, e, g)
      /\ L = (IF x \in DOMAIN log THEN log[x] ELSE <<>>)
      /\ log'[x] = E /\ \A y \in DOMAIN log : y # x => log'[y] = log[y]
  BY <1>1 DEF Comes
<1>4. /\ r \in x.ranks /\ x.ranks \subseteq Rank /\ lvl(x) = d + 1 /\ Clean(x, E)
      /\ r = RootOf(x) => E = L /\ Sent(L, r, NoReq)
      /\ x \in DOMAIN log /\ r # RootOf(x) => Onward(x, L, E, r, H)
  BY <1>1, <1>2, ArriveClean DEF IsComm
<1>5. TypeInv /\ RankOK(r) /\ RankOK(0) /\ 0 \in Rank
  BY WorldIs DEF Inv
<1>6. /\ d \in Nat /\ d >= 1 /\ Len(saved[r]) = d /\ DOMAIN act[r] = 1 .. d
      /\ Depth(0) \in Nat /\ Depth(0) >= 1 /\ Proper(act[r])
  BY <1>2, <1>3, <1>5, RankFacts DEF RankOK
<1>7. /\ act' = [act EXCEPT ![r] = Append(@, e)] /\ saved' = saved /\ ctx' = [ctx EXCEPT ![r] = g]
      /\ has' = has /\ g.comm = x /\ DOMAIN log' = DOMAIN log \cup {x}
  BY <1>3 DEF Arrive
<1>8. e.own = {} /\ e.f = p.f /\ e.n = 0
  BY <1>1 DEF Comes, Engine
<1>9. act'[r] = Append(act[r], e) /\ ctx'[r] = g
  BY <1>5, <1>7 DEF TypeInv
<1>10. /\ Depth(r)' = d + 1 /\ act'[r][d + 1] = e /\ \A k \in 1 .. d : act'[r][k] = act[r][k]
  <2>1. PICK S : S = {act[r][i] : i \in DOMAIN act[r]} /\ act[r] \in Seq(S)
    BY <1>6 DEF Proper
  <2>2. Len(act[r]) = d
    BY <1>2 DEF Depth
  <2> QED
    BY <1>6, <1>9, <2>1, <2>2 DEF Depth
<1>11. ASSUME NEW k \in 1 .. d PROVE Globals(r, k)' = Globals(r, k)
  BY <1>6, <1>7, <1>11 DEF Globals
<1>12. \A k : k = d + 1 => Globals(r, k)' = g
  BY <1>6, <1>7, <1>9 DEF Globals
<1>13. ASSUME NEW s \in Rank \ {r}
       PROVE  /\ act'[s] = act[s] /\ Depth(s)' = Depth(s)
              /\ \A k : Globals(s, k)' = Globals(s, k)
  <2>1. act'[s] = act[s] /\ ctx'[s] = ctx[s]
    BY <1>5, <1>7, <1>13 DEF TypeInv
  <2> QED
    BY <2>1, <1>7 DEF Depth, Globals
<1>14. ASSUME NEW s \in Rank, NEW k \in 1 .. Depth(s)' PROVE Home(s, k)'
  <2>1. CASE s # r
    <3>1. k \in 1 .. Depth(s) /\ act'[s] = act[s] /\ Globals(s, k)' = Globals(s, k)
      BY <2>1, <1>13, <1>14
    <3>2. Home(s, k)
      BY <3>1, <1>14 DEF BroadInv
    <3> QED
      BY <3>1, <3>2 DEF Home
  <2>2. CASE s = r /\ k \in 1 .. d
    <3>1. act'[r][k] = act[r][k] /\ Globals(r, k)' = Globals(r, k) /\ Home(r, k)
      BY <2>2, <1>2, <1>10, <1>11 DEF BroadInv
    <3> QED
      BY <2>2, <3>1 DEF Home
  <2>3. CASE s = r /\ k \notin 1 .. d
    <3>1. k = d + 1
      BY <2>3, <1>6, <1>10, <1>14
    <3>2. act'[r][k] = e
      BY <3>1, <1>10
    <3> QED
      BY <2>3, <3>2, <1>8 DEF Home
  <2> QED
    BY <2>1, <2>2, <2>3
<1>15. ASSUME NEW y \in DOMAIN log' PROVE Clean(y, log'[y])
  BY <1>3, <1>4, <1>7, <1>15 DEF BroadInv
<1>16. act'[0][1] = z
  <2>1. CASE r # 0
    BY <2>1, <1>2, <1>5, <1>13
  <2>2. CASE r = 0
    <3>1. 1 \in 1 .. d
      BY <1>6
    <3> QED
      BY <2>2, <3>1, <1>2, <1>10
  <2> QED
    BY <2>1, <2>2
<1>17. Outer(z) /\ Inner(q)
  BY <1>2 DEF BroadInv
<1>18. Outer(act[0][1])'
  BY <1>7, <1>16, <1>17 DEF Outer, Brought
<1>19. Kept(r, z)
  BY <1>7 DEF Kept, Alone, Keeps
<1>20. ASSUME NEW y \in DOMAIN log', OnInner(y)', NEW K, K = log'[y], NEW h, h = act'[0][2]
       PROVE  Working(y, K, h, q)'
  <2>1. CASE r = 0 /\ d = 1
    <3>1. Globals(0, 2)' = g
      BY <2>1, <1>12
    <3>2. y = x /\ RootOf(x) = 0
      BY <2>1, <3>1, <1>4, <1>7, <1>20, RootZero DEF OnInner
    <3>3. h = e /\ K = L /\ Sent(L, 0, NoReq)
      BY <2>1, <3>2, <1>3, <1>4, <1>10, <1>20
    <3>4. p = q
      BY <2>1, <1>2, <1>3 DEF Top
    <3>5. NoReq.op \notin {"move", "finalize"}
      BY DEF NoReq
    <3>6. Helper(y, K, h, q, NoReq)'
      BY <3>3, <3>5, <1>8 DEF Helper
    <3> QED
      BY <3>3, <3>4, <3>6, <1>8 DEF Working, IsBcast
  <2>2. CASE ~ (r = 0 /\ d = 1)
    <3>1. Depth(0) >= 2 /\ Globals(0, 2)' = Globals(0, 2) /\ act'[0][2] = act[0][2]
      <4>1. CASE r # 0
        BY <4>1, <1>5, <1>13, <1>20 DEF OnInner
      <4>2. CASE r = 0
        <5>1. 2 \in 1 .. d /\ Depth(0) = d /\ d >= 2
          BY <2>2, <4>2, <1>2, <1>6
        <5> QED
          BY <4>2, <5>1, <1>10, <1>11
      <4> QED
        BY <4>1, <4>2
    <3>2. OnInner(y)
      BY <3>1, <1>20 DEF OnInner
    <3>3. /\ y \in DOMAIN log /\ y.ranks \subseteq Rank /\ RootOf(y) = 0 /\ lvl(y) = 2
          /\ z.at = "split"
      BY <3>2, <1>2, InnerFacts
    <3>4. PICK M : M = log[y]
      OBVIOUS
    <3>5. Working(y, M, h, q)
      BY <3>1, <3>2, <3>3, <3>4, <1>17, <1>20 DEF Inner
    <3>6. Onward(y, M, K, r, H)
      <4>1. CASE y # x
        <5>1. K = M
          BY <4>1, <3>3, <3>4, <1>3, <1>20
        <5> QED
          BY <5>1, OnwardSame
      <4>2. CASE y = x
        <5>1. r # 0
          <6>1. d = 1
            BY <4>2, <3>3, <1>4, <1>6
          <6> QED
            BY <6>1, <2>2
        <5>2. M = L /\ K = E
          BY <4>2, <3>3, <3>4, <1>3, <1>20
        <5> QED
          BY <4>2, <5>1, <5>2, <3>3, <1>4
      <4> QED
        BY <4>1, <4>2
    <3> QED
      BY <3>3, <3>5, <3>6, <1>2, <1>17, <1>19, WorkingKept
  <2> QED
    BY <2>1, <2>2
<1>21. Inner(act[0][1].req)'
  <2>1. SUFFICES ASSUME NEW y \in DOMAIN log', OnInner(y)'
                 PROVE  Working(y, log[y], act[0][2], act[0][1].req)'
    BY DEF Inner
  <2>2. PICK K, h : K = log'[y] /\ h = act'[0][2]
    OBVIOUS
  <2>3. Working(y, K, h, q)'
    BY <2>1, <2>2, <1>20
  <2> QED
    BY <2>2, <2>3, <1>2, <1>16 DEF Working, Helper
<1> QED
  BY <1>14, <1>15, <1>18, <1>21 DEF BroadInv

(* A rank in a split that the log starts with is at its first entry.       *)
LEMMA AtSplitEnters ==
  ASSUME NEW L, NEW M, NEW ro, Shape(L, M, ro), NEW r, Starts(L, "split"), InOp(L, r, "split")
  PROVE  CanEnter(L, ro, r, "vote") /\ \A s : ~ Owing(L, ro, s)
<1>1. /\ Len(L) \in 1 .. 2 /\ (Len(L) > 1 => L[2].ops = {"vote"}) /\ \A s : ~ Owing(L, ro, s)
  BY StartsFacts
<1>2. PICK k \in 1 .. Len(L) : IsAt(L, r, k) /\ L[k].ops = {"split"}
  BY DEF InOp
<1>3. {"vote"} # {"split"}
  OBVIOUS
<1>4. k = 1 \/ (k = 2 /\ Len(L) = 2)
  BY <1>1, <1>2, OneOrTwo
<1>5. Len(L) = 2 => L[2].ops # {"split"}
  BY <1>1, <1>3
<1>6. k # 2
  BY <1>2, <1>4, <1>5
<1>7. k = 1
  BY <1>4, <1>6
<1> QED
  BY <1>1, <1>2, <1>7 DEF CanEnter

(* r votes on the request of the context it leaves.                        *)
LEMMA GoesOnward ==
  ASSUME Inv, BroadInv, NEW r \in Rank, NEW c, NEW p, NEW k, NEW b, NEW f, NEW lg, NEW L, NEW E,
         Goes(r, c, p, k, b, f, lg, L, E), k \in Nat, k < Depth(r), NEW H
  PROVE  Onward(p, L, E, r, H) /\ Clean(p, E)
<1>1. /\ p = Globals(r, k).comm /\ p \in DOMAIN log /\ r \in p.ranks /\ lvl(p) = k
      /\ act[r][k].at = "split" /\ Starts(L, "split")
      /\ L = log[p] /\ E = Entered(L, p.ranks, r, "vote", Ballot(b))
  BY DEF Goes
<1>2. CommInv(p) /\ IsComm(p) /\ RankOK(r)
  BY <1>1 DEF Inv, CommInv
<1>3. PICK W : W = Views(p)
  OBVIOUS
<1>4. PICK a, q : CommOK(p, L, W, a, q)
  BY <1>1, <1>2, <1>3 DEF CommInv
<1>5. W[r].where = "in" /\ W[r].e = act[r][k]
  <2>1. W[r] = View(r, k)
    BY <1>1, <1>3 DEF Views
  <2>2. Depth(r) \in Nat
    BY <1>2, RankFacts
  <2> QED
    BY <2>1, <2>2, ViewIn
<1>6. PICK ro : ro = RootOf(p) /\ ro \in p.ranks
  BY <1>2 DEF IsComm
<1>7. Shape(L, p.ranks, ro)
  BY <1>4, <1>6 DEF CommOK, LogOK
<1>8. Serves(L, ro, W[r].e, r, q)
  BY <1>1, <1>4, <1>5, <1>6, MemberOf
<1>9. InOp(L, r, "split")
  BY <1>1, <1>5, <1>8 DEF Serves
<1>10. CanEnter(L, ro, r, "vote") /\ ~ Owing(L, ro, r)
  BY <1>1, <1>7, <1>9, AtSplitEnters
<1>11. PICK val : val = Ballot(b)
  OBVIOUS
<1>12. Onward(p, L, E, r, H)
  BY <1>1, <1>6, <1>7, <1>10, <1>11, OnwardEnter
<1>13. Clean(p, L)
  BY <1>1 DEF BroadInv
<1> QED
  BY <1>12, <1>13, OnwardClean

(* The helper is over, and what it moved is on all ranks of its context.   *)
LEMMA HelperOver ==
  ASSUME Inv, BroadInv, NEW c, NEW W, NEW a, NEW q, AtHdr(0, c, W, a, q), q.op = "finalize",
         Depth(0) = 2, NEW z, z = act[0][1]
  PROVE  Brought(z.req)
<1>1. SUFFICES ASSUME IsBcast(z.req), NEW s \in Heads(z.req).ranks
               PROVE  z.req.args[1].obj \in has[s]
  BY DEF Brought
<1>2. 0 \in Rank /\ RankOK(0) /\ c = comm(0)
  BY WorldIs DEF Inv, AtHdr
<1>3. OnInner(c)
  BY <1>2, RankFacts DEF OnInner
<1>4. c \in DOMAIN log /\ RootOf(c) = 0 /\ c = Heads(z.req)
  BY <1>3, InnerFacts
<1>5. PICK L, e, o : L = log[c] /\ e = act[0][2] /\ o = z.req
  OBVIOUS
<1>6. Working(c, L, e, o)
  BY <1>3, <1>4, <1>5 DEF BroadInv, Inner
<1>7. PICK p : Helper(c, L, e, o, p)
  BY <1>1, <1>5, <1>6 DEF Working
<1>8. \A m : Sent(log[c], RootOf(c), m) => m = q
  BY <1>2, AtHdrEnters
<1>9. p = q
  BY <1>4, <1>5, <1>7, <1>8 DEF Helper
<1>10. e.n = 2 /\ p.op # "move"
  BY <1>7, <1>9 DEF Helper
<1> QED
  BY <1>1, <1>4, <1>5, <1>7, <1>10 DEF Helper

LEMMA EndContextBroad ==
  ASSUME Inv, BroadInv, NEW r \in Rank, NEW c, NEW W, NEW a, NEW q, AtHdr(r, c, W, a, q),
         q.op = "finalize", Depth(r) > 1, EndContext(r), has' = has
  PROVE  BroadInv'
<1>1. PICK p, k, b, f, lg, L, E : Goes(r, c, p, k, b, f, lg, L, E)
  BY EndContextGoes
<1>2. PICK d, z, H : d = Depth(r) /\ z = act[0][1] /\ H = has'[r]
  OBVIOUS
<1>3. /\ k = d - 1 /\ p \in DOMAIN log /\ lvl(p) = k /\ IsEngine(act[r][k])
      /\ f = [act[r][k] EXCEPT !.at = "vote", !.inner = Top(r).exc]
      /\ lg = Freed(r, c) /\ L = log[p] /\ DOMAIN log' = DOMAIN lg
      /\ log'[p] = E /\ \A y \in DOMAIN lg : y # p => log'[y] = log[y]
      /\ Depart(r, k + 1, f)
  BY <1>1, <1>2 DEF Goes
<1>4. TypeInv /\ RankOK(r) /\ RankOK(0) /\ 0 \in Rank /\ Top(r).at = "hdr"
  BY WorldIs DEF Inv, AtHdr
<1>5. /\ d \in Nat /\ d > 1 /\ k \in Nat /\ k >= 1 /\ k + 1 = d /\ k < d
      /\ Depth(0) \in Nat /\ Depth(0) >= 1
  BY <1>2, <1>3, <1>4, RankFacts
<1>6. /\ Depth(r)' = k
      /\ \A s \in Rank \ {r} : act'[s] = act[s] /\ saved'[s] = saved[s] /\ ctx'[s] = ctx[s]
      /\ \A j \in 1 .. k - 1 : View(r, j)' = View(r, j)
      /\ Became(View(r, k)', View(r, k), f, Globals(r, k))
  <2>1. PICK m : m = k + 1
    OBVIOUS
  <2>2. m - 1 = k /\ m - 2 = k - 1
    BY <2>1, <1>5
  <2>3. Depart(r, m, f)
    BY <2>1, <1>3
  <2>4. /\ Depth(r)' = m - 1
        /\ \A s \in Rank \ {r} : act'[s] = act[s] /\ saved'[s] = saved[s] /\ ctx'[s] = ctx[s]
        /\ \A j \in 1 .. m - 2 : View(r, j)' = View(r, j)
        /\ \A j : j = m - 1 => Became(View(r, j)', View(r, j), f, Globals(r, j))
    BY <2>3, <1>4, DepartRank
  <2> QED
    BY <2>2, <2>4
<1>7. ASSUME NEW j \in 1 .. k - 1 PROVE act'[r][j] = act[r][j] /\ Globals(r, j)' = Globals(r, j)
  <2>1. j <= Depth(r) /\ j <= Depth(r)'
    BY <1>2, <1>5, <1>6, <1>7
  <2>2. View(r, j)'.e = act'[r][j] /\ View(r, j)'.g = Globals(r, j)'
    BY <2>1, <1>5, <1>6 DEF View
  <2>3. View(r, j).e = act[r][j] /\ View(r, j).g = Globals(r, j)
    BY <2>1, <1>2, <1>5 DEF View
  <2> QED
    BY <2>2, <2>3, <1>6, <1>7
<1>8. act'[r][k] = f /\ Globals(r, k)' = Globals(r, k)
  <2>1. View(r, k)'.e = act'[r][k] /\ View(r, k)'.g = Globals(r, k)'
    BY <1>5, <1>6 DEF View
  <2> QED
    BY <2>1, <1>6 DEF Became
<1>9. ASSUME NEW s \in Rank \ {r}
      PROVE  /\ act'[s] = act[s] /\ Depth(s)' = Depth(s)
             /\ \A j : Globals(s, j)' = Globals(s, j)
  BY <1>6, <1>9 DEF Depth, Globals
<1>10. f.own = act[r][k].own /\ f.f = act[r][k].f /\ f.n = act[r][k].n
       /\ f.req = act[r][k].req /\ f.last = act[r][k].last /\ f.at = "vote"
  BY <1>3 DEF IsEngine
<1>11. ASSUME NEW s \in Rank, NEW j \in 1 .. Depth(s)' PROVE Home(s, j)'
  <2>1. CASE s # r
    <3>1. j \in 1 .. Depth(s) /\ act'[s] = act[s] /\ Globals(s, j)' = Globals(s, j)
      BY <2>1, <1>9, <1>11
    <3>2. Home(s, j)
      BY <3>1, <1>11 DEF BroadInv
    <3> QED
      BY <3>1, <3>2 DEF Home
  <2>2. CASE s = r
    <3>1. j \in 1 .. k /\ j \in 1 .. Depth(r)
      BY <2>2, <1>2, <1>5, <1>6, <1>11
    <3>2. Home(r, j)
      BY <3>1 DEF BroadInv
    <3>3. CASE j = k
      BY <2>2, <3>2, <3>3, <1>8, <1>10 DEF Home
    <3>4. CASE j # k
      <4>1. j \in 1 .. k - 1
        BY <3>1, <3>4, <1>5
      <4> QED
        BY <2>2, <3>2, <4>1, <1>7 DEF Home
    <3> QED
      BY <3>3, <3>4
  <2> QED
    BY <2>1, <2>2
<1>12. Onward(p, L, E, r, H) /\ Clean(p, E)
  BY <1>1, <1>2, <1>5, GoesOnward
<1>13. DOMAIN lg \subseteq DOMAIN log
  BY <1>3, FreedIs
<1>14. ASSUME NEW y \in DOMAIN log' PROVE Clean(y, log'[y])
  BY <1>3, <1>12, <1>13, <1>14 DEF BroadInv
<1>15. Outer(z) /\ Inner(z.req)
  BY <1>2 DEF BroadInv
<1>16. act'[0][1] = (IF r = 0 /\ k = 1 THEN f ELSE z)
  <2>1. CASE r # 0
    BY <2>1, <1>2, <1>4, <1>9
  <2>2. CASE r = 0 /\ k = 1
    BY <2>2, <1>8
  <2>3. CASE r = 0 /\ k # 1
    <3>1. 1 \in 1 .. k - 1
      BY <2>3, <1>5
    <3> QED
      BY <2>3, <3>1, <1>2, <1>7
  <2> QED
    BY <2>1, <2>2, <2>3
<1>17. Outer(act[0][1])'
  <2>1. CASE r = 0 /\ k = 1
    <3>1. Depth(0) = 2
      BY <2>1, <1>2, <1>5
    <3>2. Brought(z.req)
      BY <2>1, <3>1, <1>2, HelperOver
    <3>3. f.req = z.req /\ f.last = z.last /\ f.at = "vote"
      BY <2>1, <1>2, <1>10
    <3> QED
      BY <2>1, <3>2, <3>3, <1>15, <1>16 DEF Outer, Brought
  <2>2. CASE ~ (r = 0 /\ k = 1)
    BY <2>2, <1>15, <1>16 DEF Outer, Brought
  <2> QED
    BY <2>1, <2>2
<1>18. Kept(r, z)
  BY DEF Kept, Alone, Keeps
<1>19. PICK q0 : q0 = z.req
  OBVIOUS
<1>20. ASSUME NEW y \in DOMAIN log', OnInner(y)', NEW K, K = log'[y], NEW h, h = act'[0][2]
       PROVE  Working(y, K, h, q0)' /\ ~ (r = 0 /\ k = 1)
  <2>1. ~ (r = 0 /\ k = 1)
    BY <1>6, <1>20 DEF OnInner
  <2>2. /\ Depth(0) >= 2 /\ Globals(0, 2)' = Globals(0, 2)
        /\ h.f = act[0][2].f /\ h.n = act[0][2].n
    <3>1. CASE r # 0
      BY <3>1, <1>4, <1>9, <1>20 DEF OnInner
    <3>2. CASE r = 0 /\ k = 2
      BY <3>2, <1>2, <1>5, <1>8, <1>10, <1>20
    <3>3. CASE r = 0 /\ k # 2
      <4>1. 2 \in 1 .. k - 1 /\ Depth(0) = d /\ d >= 2
        BY <2>1, <3>3, <1>2, <1>5
      <4> QED
        BY <3>3, <4>1, <1>7, <1>20
    <3> QED
      BY <3>1, <3>2, <3>3
  <2>3. OnInner(y)
    BY <2>2, <1>20 DEF OnInner
  <2>4. /\ y \in DOMAIN log /\ y.ranks \subseteq Rank /\ RootOf(y) = 0 /\ z.at = "split"
    BY <2>3, <1>2, InnerFacts
  <2>5. PICK M, e : M = log[y] /\ e = act[0][2]
    OBVIOUS
  <2>6. Working(y, M, e, q0)
    BY <2>3, <2>4, <2>5, <1>15, <1>19 DEF Inner
  <2>7. Onward(y, M, K, r, H)
    <3>1. CASE y = p
      BY <3>1, <2>5, <1>3, <1>12, <1>20
    <3>2. CASE y # p
      <4>1. K = M
        BY <3>2, <2>5, <1>3, <1>20
      <4> QED
        BY <4>1, OnwardSame
    <3> QED
      BY <3>1, <3>2
  <2>8. h.f = e.f /\ h.n = e.n
    BY <2>2, <2>5
  <2>9. Working(y, K, h, q0)'
    BY <2>4, <2>6, <2>7, <2>8, <1>2, <1>15, <1>18, <1>19, WorkingKept
  <2> QED
    BY <2>1, <2>9
<1>21. Inner(act[0][1].req)'
  <2>1. SUFFICES ASSUME NEW y \in DOMAIN log', OnInner(y)'
                 PROVE  Working(y, log[y], act[0][2], act[0][1].req)'
    BY DEF Inner
  <2>2. PICK K, h : K = log'[y] /\ h = act'[0][2]
    OBVIOUS
  <2>3. Working(y, K, h, q0)' /\ ~ (r = 0 /\ k = 1)
    BY <2>1, <2>2, <1>20
  <2> QED
    BY <2>2, <2>3, <1>16, <1>19 DEF Working, Helper
<1> QED
  BY <1>11, <1>14, <1>17, <1>21 DEF BroadInv

LEMMA LeaveHdrBroad ==
  ASSUME Inv, BroadInv, NEW r \in Rank, LeaveHdr(r)
  PROVE  BroadInv'
<1>1. PICK c, W, q : c = comm(r) /\ W = Views(c) /\ q = Pending(r)
  OBVIOUS
<1>2. PICK a, q0 : AtHdr(r, c, W, a, q0)
  BY <1>1, AtHdrFacts DEF LeaveHdr
<1>3. AtHdr(r, c, W, a, q)
  BY <1>1, <1>2 DEF AtHdr
<1>4. Known(r, q)
  BY <1>3, HdrMeans DEF Known, Means
<1>5. PICK e, f : /\ e = [Top(r) EXCEPT !.at = "vote", !.req = q, !.inner = FALSE]
                  /\ f = [Top(r) EXCEPT !.at = "split", !.req = q, !.inner = FALSE]
  OBVIOUS
<1>6. ServesBy(r, q, e) \/ SplitsBy(r, q, f) \/ Ends(r, q)
  BY <1>1, <1>4, <1>5, LeaveHdrIs DEF Inv
<1>7. CASE ServesBy(r, q, e)
  BY <1>3, <1>5, <1>7, ServeBroad
<1>8. CASE SplitsBy(r, q, f)
  BY <1>3, <1>5, <1>8, IntoSplitBroad
<1>9. CASE Ends(r, q) /\ Depth(r) = 1
  BY <1>3, <1>9, GoneBroad DEF Ends
<1>10. CASE Ends(r, q) /\ Depth(r) > 1
  BY <1>3, <1>10, EndContextBroad DEF Ends
<1> QED
  BY <1>6, <1>7, <1>8, <1>9, <1>10 DEF Ends

LEMMA InitBroad ==
  ASSUME Init
  PROVE  BroadInv
<1>1. 0 \in Rank /\ RootOf(World) = 0
  BY WorldIs
<1>2. ASSUME NEW r \in Rank
      PROVE  /\ Depth(r) = 1 /\ act[r][1].own = {}
             /\ act[r][1].req = NoReq /\ act[r][1].last = NoReq
             /\ act[r][1].at \in {"user", "hdr"}
  <2>1. PICK e : e = Engine(IF r = 0 THEN "user" ELSE "hdr", "user", {})
    OBVIOUS
  <2>2. act[r] = <<e>>
    BY <2>1 DEF Init
  <2>3. /\ e.own = {} /\ e.req = NoReq /\ e.last = NoReq /\ e.at \in {"user", "hdr"}
    BY <2>1 DEF Engine
  <2> QED
    BY <2>2, <2>3 DEF Depth
<1>3. \A r \in Rank : \A k \in 1 .. Depth(r) : Home(r, k)
  BY <1>2 DEF Home
<1>4. NoReq.op = "none"
  BY DEF NoReq
<1>5. \A c : Fine(c, NoReq)
  BY <1>4 DEF Fine, IsBcast
<1>6. PICK x : x = [ops |-> {"hdr"}, in |-> Rank \ {0}, val |-> [s \in Rank \ {0} |-> NoReq]]
  OBVIOUS
<1>7. DOMAIN log = {World} /\ log[World] = <<x>>
  BY <1>6 DEF Init
<1>8. Sent(log[World], 0, NoReq)
  <2>1. x.in = Rank \ {0}
    BY <1>6
  <2> QED
    BY <2>1, <1>7 DEF Sent
<1>9. \A c \in DOMAIN log : Clean(c, log[c])
  BY <1>1, <1>5, <1>7, <1>8 DEF Clean
<1>10. Outer(act[0][1])
  BY <1>1, <1>2, <1>5 DEF Outer
<1>11. Inner(act[0][1].req)
  BY <1>1, <1>2 DEF Inner, OnInner
<1> QED
  BY <1>3, <1>9, <1>10, <1>11 DEF BroadInv

(* The invariant of split_context_broadcast (the actions are ProgramBroad, *)
(* LeaveHdrBroad, LeaveSplitBroad and LeaveVoteBroad): a program owns what *)
(* was made on its communicator and drops nothing else, so that the helper *)
(* of the outermost broadcast brings its argument to its ranks for good.   *)
THEOREM BroadInvariant == Spec => []BroadInv
<1>1. Init => BroadInv
  BY InitBroad
<1>2. Inv /\ BroadInv /\ [Next]_vars => BroadInv'
  <2>1. SUFFICES ASSUME Inv, BroadInv, [Next]_vars PROVE BroadInv'
    OBVIOUS
  <2>2. ASSUME NEW r \in Rank, Step(r) PROVE BroadInv'
    BY <2>1, <2>2, LeaveHdrBroad, LeaveSplitBroad, LeaveVoteBroad DEF Step
  <2>3. ASSUME NEW r \in Rank, Program(r) PROVE BroadInv'
    BY <2>1, <2>3, ProgramBroad
  <2>4. CASE UNCHANGED vars
    <3>1. ctx' = ctx /\ saved' = saved /\ act' = act /\ log' = log /\ has' = has
      BY <2>4 DEF vars
    <3>2. \A r : Depth(r)' = Depth(r) /\ \A k : Globals(r, k)' = Globals(r, k)
      BY <3>1 DEF Globals, Depth
    <3>3. \A r \in Rank : \A k \in 1 .. Depth(r)' : Home(r, k)'
      BY <2>1, <3>1, <3>2 DEF BroadInv, Home
    <3>4. \A c \in DOMAIN log' : Clean(c, log'[c])
      BY <2>1, <3>1 DEF BroadInv
    <3>5. Outer(act[0][1])'
      BY <2>1, <3>1 DEF BroadInv, Outer, Brought
    <3>6. Inner(act[0][1].req)'
      BY <2>1, <3>1, <3>2 DEF BroadInv, Inner, OnInner, Working, Helper
    <3> QED
      BY <3>3, <3>4, <3>5, <3>6 DEF BroadInv
  <2> QED
    BY <2>1, <2>2, <2>3, <2>4 DEF Next, Exited
<1> QED
  BY <1>1, <1>2, InvInvariant, PTL DEF Spec

(* The lowest rank of each colour is in the context of the heads.          *)
LEMMA HeadsRoots ==
  ASSUME NEW q, NEW of \in [1 .. N -> Nat], q.color = heads_color(of), NEW r \in Rank,
         NEW x, x = SubComm(World, of, r)
  PROVE  RootOf(x) \in Heads(q).ranks
<1>1. /\ IsComm(World) /\ World.ranks = Rank /\ 0 \in Rank /\ N \in Nat \ {0}
  BY WorldIs, NAssumption
<1>2. ASSUME NEW s \in Rank PROVE Place(World, s) = s + 1 /\ s \in Nat /\ s + 1 \in 1 .. N
  <2>1. s \in Nat /\ s <= N - 1 /\ s + 1 \in 1 .. N
    BY <1>1 DEF Rank
  <2>2. {t \in World.ranks : t <= s} = 0 .. s
    BY <2>1, <1>1 DEF Rank
  <2>3. Cardinality(0 .. s) = s + 1
    BY <2>1, FS_Interval
  <2> QED
    BY <2>1, <2>2, <2>3 DEF Place
<1>3. x.ranks = {s \in Rank : of[s + 1] = of[r + 1]}
  BY <1>1, <1>2 DEF SubComm
<1>4. PICK m : m = RootOf(x)
  OBVIOUS
<1>5. m \in x.ranks /\ \A s \in x.ranks : m <= s
  <2>1. r \in x.ranks /\ x.ranks \subseteq Nat
    BY <1>2, <1>3
  <2> QED
    BY <2>1, <1>4, RootIn DEF RootOf
<1>6. m \in Rank /\ of[m + 1] = of[r + 1]
  BY <1>3, <1>5
<1>7. PICK color : color = heads_color(of)
  OBVIOUS
<1>8. DOMAIN of = 1 .. N
  OBVIOUS
<1>9. \A i \in 1 .. N : color[i] = (IF \E j \in 1 .. N : j < i /\ of[j] = of[i] THEN 1 ELSE 0)
  BY <1>7, <1>8 DEF heads_color
<1>10. color[m + 1] = 0
  <2>1. SUFFICES ASSUME NEW j \in 1 .. N, j < m + 1, of[j] = of[m + 1] PROVE FALSE
    BY <1>2, <1>6, <1>9
  <2>2. PICK s \in Nat : s + 1 = j /\ s < m /\ s \in Rank
    <3>1. m \in Nat /\ m \in 0 .. N - 1
      BY <1>2, <1>6 DEF Rank
    <3>2. j - 1 \in Nat /\ (j - 1) + 1 = j /\ j - 1 < m /\ j - 1 \in 0 .. N - 1
      BY <2>1, <3>1, <1>1
    <3> QED
      BY <3>2 DEF Rank
  <2>3. s \in x.ranks
    BY <2>1, <2>2, <1>3, <1>6
  <2>4. m <= s /\ m \in Nat
    BY <2>3, <1>2, <1>5, <1>6
  <2> QED
    BY <2>2, <2>4
<1>11. color[0 + 1] = 0
  BY <1>1, <1>9
<1>12. Heads(q).ranks = {s \in Rank : color[s + 1] = color[0 + 1]}
  BY <1>1, <1>2, <1>7 DEF Heads, SubComm
<1> QED
  BY <1>4, <1>6, <1>10, <1>11, <1>12

(* BroadcastReachesRoots: a split_context_broadcast of the outermost       *)
(* program that returns has brought its argument to the rank that will be  *)
(* the root of each colour.                                                *)
THEOREM BroadcastReachesRootsHolds == Spec => []BroadcastReachesRoots
<1>1. Inv /\ BroadInv => BroadcastReachesRoots
  <2>1. SUFFICES ASSUME Inv, BroadInv, Depth(0) = 1, NEW l, l = Top(0).last, Top(0).at = "user",
                        l # NoReq, l.req.op = "split", l.req.f = "bcast", NEW r \in Rank
                 PROVE  l.req.args[1].obj \in has[RootOf(SubComm(World, l.req.of, r))]
    BY DEF BroadcastReachesRoots
  <2>2. PICK z, m : z = act[0][1] /\ m = l.req
    OBVIOUS
  <2>3. Top(0) = z
    BY <2>1, <2>2 DEF Top
  <2>4. Brought(m) /\ IsBcast(m)
    BY <2>1, <2>2, <2>3 DEF BroadInv, Outer, IsBcast
  <2>5. World \in DOMAIN log
    <3>1. RankOK(0) /\ 1 \in 1 .. Depth(0)
      BY <2>1, WorldIs DEF Inv
    <3> QED
      BY <3>1 DEF RankOK, LevelOK
  <2>6. PICK a, q : CommOK(World, log[World], Views(World), a, q)
    BY <2>1, <2>5 DEF Inv, CommInv
  <2>7. Returned(log[World], 0, z, q, Rank)
    BY <2>1, <2>2, <2>6, OuterServes
  <2>8. m = q
    BY <2>1, <2>2, <2>3, <2>7 DEF Returned
  <2>9. BcastOK(m, Cardinality(World.ranks))
    BY <2>4, <2>6, <2>8 DEF CommOK, KnownOK, Valid, SplitOK, IsBcast
  <2>10. World.ranks = 0 .. N - 1 /\ Cardinality(0 .. N - 1) = N
    <3>1. N \in Nat \ {0}
      BY NAssumption
    <3>2. 0 \in Int /\ N - 1 \in Int /\ ~ (0 > N - 1) /\ N - 1 - 0 + 1 = N
      BY <3>1
    <3> QED
      BY <3>2, FS_Interval DEF World, Rank
  <2>11. m.color = heads_color(m.of) /\ m.of \in [1 .. N -> Nat]
    BY <2>4, <2>9, <2>10 DEF BcastOK, IsBcast
  <2>12. RootOf(SubComm(World, m.of, r)) \in Heads(m).ranks
    BY <2>1, <2>11, HeadsRoots
  <2> QED
    BY <2>2, <2>4, <2>12 DEF Brought
<1> QED
  BY <1>1, InvInvariant, BroadInvariant, PTL

=============================================================================
