--------------------------- MODULE MpiRpc_proofs ---------------------------
(***************************************************************************)
(* For every number of ranks, chunk size, argument and result length: the  *)
(* workers' loop and the root's call walk through the same collectives.    *)
(***************************************************************************)
EXTENDS MpiRpc, TLAPS

(* Appending to one rank's history leaves the past of every rank alone.    *)
LEMMA AppendCalls ==
  ASSUME calls \in [Rank -> Seq(Call)], NEW r \in Rank, NEW c \in Call,
         calls' = [calls EXCEPT ![r] = Append(@, c)]
  PROVE  /\ calls' \in [Rank -> Seq(Call)]
         /\ Len(calls'[r]) = Len(calls[r]) + 1
         /\ calls'[r][Len(calls[r]) + 1] = c
         /\ \A s \in Rank : s # r => calls'[s] = calls[s]
         /\ \A s \in Rank : Len(calls[s]) <= Len(calls'[s])
         /\ \A s \in Rank : \A k \in 1 .. Len(calls[s]) : calls'[s][k] = calls[s][k]
<1>1. calls[r] \in Seq(Call) /\ Len(calls[r]) \in Nat
  OBVIOUS
<1>2. calls'[r] = Append(calls[r], c) /\ \A s \in Rank : s # r => calls'[s] = calls[s]
  OBVIOUS
<1>3. \A s \in Rank : Len(calls[s]) \in Nat
  OBVIOUS
<1> QED
  BY <1>1, <1>2, <1>3

(* The request a passed header, argument or vote belongs to was issued.    *)
LEMMA PassedIssued ==
  ASSUME TypeOK, CollectivesAgree, RootCalls,
         NEW s \in Rank, NEW k \in 1 .. Len(calls[s]), Passed(s, k),
         calls[s][k].op \in {"hdr", "arg", "allreduce"}
  PROVE  calls[s][k].req \in 1 .. Len(reqs)
<1>1. root \in Rank
  BY NAssumption DEF root, Rank
<1>2. Len(calls[root]) \in Nat /\ Len(calls[s]) \in Nat /\ calls[s][k] \in Call
  BY <1>1 DEF TypeOK
<1>3. k \in 1 .. Len(calls[root])
  BY <1>1, <1>2 DEF Passed, Bcasts
<1>4. calls[s][k].req = calls[root][k].req
  BY <1>1, <1>2, <1>3 DEF CollectivesAgree, TypeOK
<1>5. calls[s][k].req \in Nat \ {0}
  BY <1>2 DEF Call, Called
<1>6. Len(reqs) \in Nat
  BY DEF TypeOK
<1> QED
  BY <1>3, <1>4, <1>5, <1>6 DEF RootCalls

(* What comes next is the same for every rank that has passed k.           *)
LEMMA NextAgrees ==
  ASSUME TypeOK, CollectivesAgree, NEW s \in Rank, NEW t \in Rank,
         NEW k \in 1 .. Len(calls[s]), k \in 1 .. Len(calls[t])
  PROVE  NextLabel(s, k) = NextLabel(t, k)
<1>1. /\ calls[s][k].op = calls[t][k].op
      /\ calls[s][k].req = calls[t][k].req
      /\ calls[s][k].pos = calls[t][k].pos
  BY DEF CollectivesAgree, TypeOK
<1> QED
  BY <1>1 DEF NextLabel

(* A step that only adds to the histories, calls and reqs.                 *)
PastKept ==
  /\ calls' \in [Rank -> Seq(Call)]
  /\ \A t \in Rank : Len(calls[t]) <= Len(calls'[t])
  /\ \A t \in Rank : \A i \in 1 .. Len(calls[t]) : calls'[t][i] = calls[t][i]
  /\ \A i \in 1 .. Len(reqs) : reqs'[i] = reqs[i]
  /\ Len(reqs) <= Len(reqs') /\ Len(reqs') \in Nat

(* ... and such a step does not change it.                                 *)
LEMMA NextStable ==
  ASSUME TypeOK, CollectivesAgree, RootCalls, PastKept,
         NEW s \in Rank, NEW k \in 1 .. Len(calls[s]), Passed(s, k)
  PROVE  Passed(s, k)' /\ NextLabel(s, k)' = NextLabel(s, k)
<1>0. root \in Rank
  BY NAssumption DEF root, Rank
<1>1. calls \in [Rank -> Seq(Call)]
  BY DEF TypeOK
<1>3. \A t \in Rank : /\ Len(calls[t]) \in Nat /\ Len(calls'[t]) \in Nat
                       /\ Len(calls[t]) <= Len(calls'[t])
  BY <1>1 DEF PastKept
<1>4. calls'[s][k] = calls[s][k] /\ calls[s][k] \in Call
  BY <1>1 DEF PastKept
<1>5. Passed(s, k)'
  BY <1>0, <1>3, <1>4 DEF Passed
<1>6. calls[s][k].op \in {"hdr", "arg", "allreduce"} =>
        reqs'[calls[s][k].req] = reqs[calls[s][k].req]
  BY PassedIssued DEF PastKept
<1>7. calls[s][k].op = "allreduce" => (AnyVote(k))' = AnyVote(k)
  <2> SUFFICES ASSUME calls[s][k].op = "allreduce"
               PROVE  \A t \in Rank : calls'[t][k] = calls[t][k]
    BY DEF AnyVote
  <2> QED
    BY <1>3 DEF Passed, PastKept
<1>8. calls[s][k].op = "done" => calls'[root][k] = calls[root][k]
  BY <1>0, <1>3 DEF Passed, Bcasts, PastKept
<1>9. calls[s][k].op \in {"hdr", "arg", "allreduce", "gather", "gatherv", "done"}
  BY <1>4 DEF Call, Called
<1>10. CASE calls[s][k].op \in {"hdr", "arg"}
  BY <1>4, <1>5, <1>6, <1>10 DEF NextLabel, ArgOrVote
<1>11. CASE calls[s][k].op = "allreduce"
  BY <1>4, <1>5, <1>6, <1>7, <1>11 DEF NextLabel
<1>12. CASE calls[s][k].op \in {"gather", "gatherv"}
  BY <1>4, <1>5, <1>12 DEF NextLabel
<1>13. CASE calls[s][k].op = "done"
  BY <1>4, <1>5, <1>8, <1>13 DEF NextLabel
<1> QED
  BY <1>9, <1>10, <1>11, <1>12, <1>13

(* A rank may enter collective c after what it has passed.                 *)
Due(r, c) ==
  IF Cur(r) = 0 THEN Label(c) = <<"hdr", 1, 0>>
                ELSE Passed(r, Cur(r)) /\ Label(c) = NextLabel(r, Cur(r))

(* r enters c, and at most new requests are added.                         *)
Adds(r, c) ==
  /\ calls' = [calls EXCEPT ![r] = Append(@, c)]
  /\ \A i \in 1 .. Len(reqs) : reqs'[i] = reqs[i]
  /\ Len(reqs) <= Len(reqs') /\ Len(reqs') \in Nat

(* What Adds says, rank by rank.                                           *)
LEMMA AddsFacts ==
  ASSUME TypeOK, NEW r \in Rank, NEW c \in Call, Adds(r, c)
  PROVE  /\ PastKept
         /\ Len(calls[r]) \in Nat
         /\ Len(calls'[r]) = Len(calls[r]) + 1
         /\ calls'[r][Len(calls[r]) + 1] = c
         /\ \A s \in Rank : s # r => calls'[s] = calls[s]
<1>1. calls \in [Rank -> Seq(Call)]
  BY DEF TypeOK
<1>2. calls' = [calls EXCEPT ![r] = Append(@, c)]
  BY DEF Adds
<1>3. /\ calls' \in [Rank -> Seq(Call)]
      /\ Len(calls'[r]) = Len(calls[r]) + 1
      /\ calls'[r][Len(calls[r]) + 1] = c
      /\ \A s \in Rank : s # r => calls'[s] = calls[s]
      /\ \A s \in Rank : Len(calls[s]) <= Len(calls'[s])
      /\ \A s \in Rank : \A k \in 1 .. Len(calls[s]) : calls'[s][k] = calls[s][k]
  BY <1>1, <1>2, AppendCalls
<1>4. PastKept
  BY <1>3 DEF Adds, PastKept
<1>5. Len(calls[r]) \in Nat
  BY <1>1
<1> QED
  BY <1>3, <1>4, <1>5

(* Entering what is due keeps the histories in step: whoever was there     *)
(* first entered the same, because it too entered what was due.            *)
LEMMA EnterAgrees ==
  ASSUME TypeOK, CollectivesAgree, Chained, RootCalls,
         NEW r \in Rank, NEW c \in Call, Adds(r, c), Due(r, c)
  PROVE  CollectivesAgree' /\ Chained'
<1> DEFINE K == Len(calls[r]) + 1
<1>1. /\ PastKept /\ K \in Nat \ {0} /\ Len(calls'[r]) = K /\ calls'[r][K] = c
      /\ \A s \in Rank : s # r => calls'[s] = calls[s]
  BY AddsFacts
<1>2. \A s \in Rank : /\ Len(calls[s]) \in Nat /\ Len(calls'[s]) \in Nat
                       /\ DOMAIN calls[s] = 1 .. Len(calls[s])
                       /\ DOMAIN calls'[s] = 1 .. Len(calls'[s])
  BY <1>1 DEF TypeOK, PastKept
<1>3. ASSUME NEW t \in Rank, K <= Len(calls[t])
      PROVE  Label(calls[t][K]) = Label(c)
  <2>1. CASE K = 1
    BY <1>2, <1>3, <2>1 DEF Due, Cur, Chained
  <2>2. CASE K # 1
    <3>1. K - 1 \in 1 .. Len(calls[r]) /\ K - 1 \in 1 .. Len(calls[t]) - 1
      BY <1>1, <1>2, <1>3, <2>2
    <3>2. Label(calls[t][K - 1 + 1]) = NextLabel(t, K - 1)
      BY <3>1 DEF Chained
    <3>3. NextLabel(t, K - 1) = NextLabel(r, K - 1)
      BY <1>2, <1>3, <3>1, NextAgrees
    <3>4. Label(c) = NextLabel(r, K - 1)
      BY <1>2, <2>2 DEF Due, Cur
    <3> QED
      BY <1>1, <3>2, <3>3, <3>4
  <2> QED
    BY <2>1, <2>2
<1>4. CollectivesAgree'
  <2> SUFFICES ASSUME NEW s \in Rank, NEW t \in Rank,
                      NEW k \in DOMAIN calls'[s], k \in DOMAIN calls'[t]
               PROVE  Label(calls'[s][k]) = Label(calls'[t][k])
    BY DEF CollectivesAgree, Label
  <2>1. CASE k \in DOMAIN calls[s] /\ k \in DOMAIN calls[t]
    <3>1. calls'[s][k] = calls[s][k] /\ calls'[t][k] = calls[t][k]
      BY <1>1, <1>2, <2>1 DEF PastKept
    <3>2. Label(calls[s][k]) = Label(calls[t][k])
      BY <2>1 DEF CollectivesAgree, Label
    <3> QED
      BY <3>1, <3>2
  <2>2. CASE s = r /\ k = K /\ t # r
    <3>1. K <= Len(calls[t]) /\ calls'[t][k] = calls[t][k]
      BY <1>1, <1>2, <2>2
    <3> QED
      BY <1>1, <1>3, <2>2, <3>1
  <2>3. CASE t = r /\ k = K /\ s # r
    <3>1. K <= Len(calls[s]) /\ calls'[s][k] = calls[s][k]
      BY <1>1, <1>2, <2>3
    <3> QED
      BY <1>1, <1>3, <2>3, <3>1
  <2>4. CASE s = r /\ t = r
    BY <2>4
  <2>5. \A u \in Rank : k \in DOMAIN calls'[u] => k \in DOMAIN calls[u] \/ (u = r /\ k = K)
    BY <1>1, <1>2
  <2> QED
    BY <2>1, <2>2, <2>3, <2>4, <2>5
<1>5. ASSUME NEW s \in Rank, NEW k \in 1 .. Len(calls'[s]) - 1
      PROVE  Passed(s, k)' /\ Label(calls'[s][k + 1]) = NextLabel(s, k)'
  <2>1. CASE k \in 1 .. Len(calls[s]) - 1
    <3>1. Passed(s, k) /\ Label(calls[s][k + 1]) = NextLabel(s, k)
      BY <2>1 DEF Chained
    <3>2. k \in 1 .. Len(calls[s]) /\ k + 1 \in 1 .. Len(calls[s])
      BY <1>2, <2>1
    <3>3. Passed(s, k)' /\ NextLabel(s, k)' = NextLabel(s, k)
      BY <1>1, <3>1, <3>2, NextStable
    <3>4. calls'[s][k + 1] = calls[s][k + 1]
      BY <1>1, <3>2 DEF PastKept
    <3> QED
      BY <3>1, <3>3, <3>4
  <2>2. CASE s = r /\ k = Len(calls[r]) /\ k \in 1 .. Len(calls[r])
    <3>1. Passed(r, k) /\ Label(c) = NextLabel(r, k)
      BY <2>2 DEF Due, Cur
    <3>2. Passed(r, k)' /\ NextLabel(r, k)' = NextLabel(r, k)
      BY <1>1, <2>2, <3>1, NextStable
    <3> QED
      BY <1>1, <2>2, <3>1, <3>2
  <2> QED
    BY <1>1, <1>2, <2>1, <2>2
<1>6. ASSUME NEW s \in Rank, Len(calls'[s]) > 0
      PROVE  Label(calls'[s][1]) = <<"hdr", 1, 0>>
  <2>1. CASE Len(calls[s]) > 0
    <3>1. 1 \in 1 .. Len(calls[s])
      BY <1>2, <2>1
    <3>2. calls'[s][1] = calls[s][1]
      BY <1>1, <3>1 DEF PastKept
    <3>3. Label(calls[s][1]) = <<"hdr", 1, 0>>
      BY <2>1 DEF Chained
    <3> QED
      BY <3>2, <3>3
  <2>2. CASE Len(calls[s]) = 0
    <3>1. s = r
      BY <1>1, <1>6, <2>2
    <3>2. K = 1 /\ Label(c) = <<"hdr", 1, 0>>
      BY <2>2, <3>1 DEF Due, Cur
    <3> QED
      BY <1>1, <3>1, <3>2
  <2> QED
    BY <1>2, <2>1, <2>2
<1>7. Chained'
  BY <1>5, <1>6 DEF Chained, Label
<1> QED
  BY <1>4, <1>7

(* r goes from its last collective straight into c, inside the engine.     *)
LEMMA EnterStep ==
  ASSUME TypeOK, AgreeInv, NEW r \in Rank, NEW c \in Call,
         mode[r] = "in", Passed(r, Cur(r)), Label(c) = NextLabel(r, Cur(r)),
         calls' = [calls EXCEPT ![r] = Append(@, c)], reqs' = reqs, mode' = mode,
         r = root => c.op # "hdr" /\ c.req = At(r).req,
         c.op # "hdr" => c.req <= Len(reqs) /\ hdr'[r] = reqs[c.req],
         Len(ran'[r]) = IF c.op \in {"hdr", "arg"} THEN c.req - 1 ELSE c.req,
         \A s \in Rank \ {r} : hdr'[s] = hdr[s] /\ ran'[s] = ran[s]
  PROVE  AgreeInv'
<1>0. root \in Rank
  BY NAssumption DEF root, Rank
<1>1. Adds(r, c)
  BY DEF Adds, TypeOK
<1>2. Due(r, c)
  BY DEF Due, AgreeInv, Serving
<1>3. CollectivesAgree' /\ Chained'
  BY <1>1, <1>2, EnterAgrees DEF AgreeInv
<1>4. /\ PastKept /\ Len(calls[r]) \in Nat
      /\ Len(calls'[r]) = Len(calls[r]) + 1
      /\ calls'[r][Len(calls[r]) + 1] = c
      /\ \A s \in Rank : s # r => calls'[s] = calls[s]
  BY <1>1, AddsFacts
<1>5. RootCalls'
  <2>1. CASE r = root
    <3>1. c.op # "hdr" /\ c.req <= Len(reqs)
      BY <2>1
    <3>2. \A k \in 1 .. Len(calls[root]) : calls'[root][k] = calls[root][k]
      BY <1>0, <1>4 DEF PastKept
    <3> QED
      BY <1>4, <2>1, <3>1, <3>2 DEF RootCalls, AgreeInv
  <2>2. CASE r # root
    BY <1>0, <1>4, <2>2 DEF RootCalls, AgreeInv
  <2> QED
    BY <2>1, <2>2
<1>6. Cur(r)' = Len(calls[r]) + 1 /\ At(r)' = c
  BY <1>4 DEF Cur, At
<1>7. \A s \in Rank : s # r => Cur(s)' = Cur(s) /\ At(s)' = At(s)
  BY <1>4 DEF Cur, At
<1>8. Serving'
  BY <1>4, <1>6, <1>7 DEF Serving, AgreeInv
<1>9. RootTurn'
  <2>1. CASE r = root
    BY <1>6, <2>1 DEF RootTurn, AgreeInv
  <2>2. CASE r # root
    <3>1. Cur(root) \in Nat
      BY <1>0 DEF Cur, TypeOK
    <3>2. ASSUME mode[root] = "user", Cur(root) # 0
          PROVE  Passed(root, Cur(root))' /\ NextLabel(root, Cur(root))' = NextLabel(root, Cur(root))
      <4>1. Passed(root, Cur(root)) /\ Cur(root) \in 1 .. Len(calls[root])
        BY <3>1, <3>2 DEF RootTurn, AgreeInv, Cur
      <4>2. ASSUME NEW k \in 1 .. Len(calls[root]), Passed(root, k)
            PROVE  Passed(root, k)' /\ NextLabel(root, k)' = NextLabel(root, k)
        BY <1>0, <1>4, <4>2, NextStable DEF AgreeInv
      <4>3. calls'[root] = calls[root]
        BY <1>0, <1>4, <2>2
      <4> QED
        BY <4>1, <4>2, <4>3 DEF Cur
    <3> QED
      BY <1>0, <1>7, <2>2, <3>2 DEF RootTurn, AgreeInv
  <2> QED
    BY <2>1, <2>2
<1> QED
  BY <1>3, <1>5, <1>8, <1>9 DEF AgreeInv

(* No collective entered, no request issued: nothing is due anew.          *)
LEMMA StillStep ==
  ASSUME TypeOK, AgreeInv, calls' = calls, reqs' = reqs
  PROVE  /\ CollectivesAgree' /\ Chained' /\ RootCalls'
         /\ \A r \in Rank : Cur(r)' = Cur(r) /\ At(r)' = At(r)
         /\ \A r \in Rank, k \in Nat : Passed(r, k)' = Passed(r, k)
         /\ \A r \in Rank, k \in Nat : NextLabel(r, k)' = NextLabel(r, k)
<1>1. \A k \in Nat : AnyVote(k)' = AnyVote(k)
  BY DEF AnyVote
<1>2. \A q \in Nat, p \in Nat : ArgOrVote(q, p)' = ArgOrVote(q, p)
  BY DEF ArgOrVote
<1>3. \A r \in Rank, k \in Nat : NextLabel(r, k)' = NextLabel(r, k)
  BY <1>1 DEF NextLabel, ArgOrVote
<1>4. \A r \in Rank, k \in Nat : Passed(r, k)' = Passed(r, k)
  BY DEF Passed
<1>5. \A r \in Rank : Len(calls[r]) \in Nat
  BY DEF TypeOK
<1>6. Chained'
  BY <1>3, <1>4, <1>5 DEF Chained, Label, AgreeInv
<1>7. CollectivesAgree' /\ RootCalls'
  BY DEF CollectivesAgree, RootCalls, AgreeInv
<1> QED
  BY <1>3, <1>4, <1>6, <1>7 DEF Cur, At

(* What a rank knows when it comes back from a collective.                 *)
LEMMA LeaveFacts ==
  ASSUME TypeOK, AgreeInv, NEW r \in Rank, NEW op, Leaves(r, op)
  PROVE  /\ mode[r] = "in" /\ At(r).op = op
         /\ Cur(r) \in 1 .. Len(calls[r]) /\ At(r) \in Call /\ At(r) = calls[r][Cur(r)]
         /\ Passed(r, Cur(r))
         /\ op \in {"hdr", "arg", "allreduce"} => At(r).req \in 1 .. Len(reqs)
<1>0. root \in Rank
  BY NAssumption DEF root, Rank
<1>1. mode[r] = "in" /\ At(r).op = op
  BY DEF Leaves
<1>2. Len(calls[r]) \in Nat /\ Cur(r) = Len(calls[r]) /\ Cur(r) > 0
  BY <1>1 DEF TypeOK, AgreeInv, Serving, Cur
<1>3. Cur(r) \in 1 .. Len(calls[r]) /\ At(r) \in Call /\ At(r) = calls[r][Cur(r)]
  BY <1>2 DEF TypeOK, At
<1>4. Passed(r, Cur(r))
  BY <1>0, <1>1, <1>3 DEF Leaves, Awaited, Passed
<1>5. op \in {"hdr", "arg", "allreduce"} => At(r).req \in 1 .. Len(reqs)
  BY <1>1, <1>3, <1>4, PassedIssued DEF AgreeInv
<1> QED
  BY <1>1, <1>3, <1>4, <1>5

(* Appending an outcome to one rank's log.                                 *)
LEMMA AppendRan ==
  ASSUME ran \in [Rank -> Seq(Outcome)], NEW r \in Rank, NEW o \in Outcome,
         ran' = [ran EXCEPT ![r] = Append(@, o)]
  PROVE  /\ ran' \in [Rank -> Seq(Outcome)]
         /\ Len(ran'[r]) = Len(ran[r]) + 1
         /\ \A s \in Rank \ {r} : ran'[s] = ran[s]
<1>1. ran'[r] = Append(ran[r], o) /\ \A s \in Rank \ {r} : ran'[s] = ran[s]
  OBVIOUS
<1>2. ran[r] \in Seq(Outcome)
  OBVIOUS
<1> QED
  BY <1>1, <1>2

(* The argument's next chunk, or the call of the wrapper, or the end.      *)
LEMMA TakeArgStep ==
  ASSUME TypeOK, AgreeInv, NEW r \in Rank, NEW h \in rpc_header, NEW pos \in Nat,
         mode[r] = "in", Passed(r, Cur(r)), At(r) \in Call, At(r).op \in {"hdr", "arg"},
         At(r).req \in 1 .. Len(reqs), h = reqs[At(r).req],
         NextLabel(r, Cur(r)) = ArgOrVote(At(r).req, pos),
         hdr' \in [Rank -> rpc_header], hdr'[r] = h,
         \A s \in Rank \ {r} : hdr'[s] = hdr[s],
         TakeArg(r, h, pos)
  PROVE  TypeOK' /\ AgreeInv'
<1> DEFINE q == At(r).req
<1>1. Len(ran[r]) = q - 1 /\ q \in Nat \ {0}
  BY DEF AgreeInv, Serving, Call, Called
<1>2. r = root => q = Len(reqs)
  BY DEF AgreeInv, RootTurn
<1>3. CASE pos < h.count
  <2> DEFINE c == [op |-> "arg", req |-> q, pos |-> pos, val |-> 0]
  <2>1. /\ calls' = [calls EXCEPT ![r] = Append(@, c)]
        /\ UNCHANGED <<mode, reqs, ran, failed, left, recv_counts, rleft, replies>>
    BY <1>3 DEF TakeArg, Enter
  <2>2. c \in Call
    BY <1>1 DEF Call, Called
  <2>3. Label(c) = NextLabel(r, Cur(r))
    BY <1>3 DEF Label, ArgOrVote
  <2>4. c.op = "arg" /\ c.req = q
    OBVIOUS
  <2> HIDE DEF c
  <2>a. c.op # "hdr" /\ c.op \in {"hdr", "arg"} /\ c.req = At(r).req
    BY <2>4
  <2>b. c.req <= Len(reqs) /\ hdr'[r] = reqs[c.req] /\ Len(ran'[r]) = c.req - 1
    BY <1>1, <2>1, <2>4
  <2>c. reqs' = reqs /\ mode' = mode /\ ran' = ran
    BY <2>1
  <2>5. AgreeInv'
    BY <2>1, <2>2, <2>3, <2>a, <2>b, <2>c, EnterStep
  <2>6. calls' \in [Rank -> Seq(Call)]
    BY <2>1, <2>2, AppendCalls DEF TypeOK
  <2> QED
    BY <2>1, <2>5, <2>6 DEF TypeOK
<1>4. CASE ~ (pos < h.count) /\ h.type = "finalize_type"
  <2>1. /\ mode' = [mode EXCEPT ![r] = "gone"]
        /\ UNCHANGED <<reqs, calls, ran, failed, left, recv_counts, rleft, replies>>
    BY <1>4 DEF TakeArg, Finalize
  <2>2. /\ CollectivesAgree' /\ Chained' /\ RootCalls'
        /\ \A s \in Rank : Cur(s)' = Cur(s) /\ At(s)' = At(s)
        /\ \A s \in Rank, k \in Nat : Passed(s, k)' = Passed(s, k)
        /\ \A s \in Rank, k \in Nat : NextLabel(s, k)' = NextLabel(s, k)
    BY <2>1, StillStep
  <2>3. mode'[r] = "gone" /\ \A s \in Rank : s # r => mode'[s] = mode[s]
    BY <2>1 DEF TypeOK
  <2>4. Serving'
    BY <2>1, <2>2, <2>3 DEF Serving, AgreeInv
  <2>5. root \in Rank /\ Cur(root) \in Nat
    BY NAssumption DEF root, Rank, Cur, TypeOK
  <2>6. RootTurn'
    BY <2>1, <2>2, <2>3, <2>5 DEF RootTurn, AgreeInv
  <2> QED
    BY <2>1, <2>2, <2>4, <2>6 DEF TypeOK, AgreeInv
<1>5. CASE ~ (pos < h.count) /\ h.type # "finalize_type"
  <2>1. PICK o \in Outcome :
          /\ ran' = [ran EXCEPT ![r] = Append(@, o)]
          /\ Enter(r, "allreduce", q, 0, o.exc)
          /\ UNCHANGED <<mode, reqs, failed, left, recv_counts, rleft, replies>>
    BY <1>5 DEF TakeArg, CallWpt
  <2> DEFINE c == [op |-> "allreduce", req |-> q, pos |-> 0, val |-> o.exc]
  <2>2. calls' = [calls EXCEPT ![r] = Append(@, c)]
    BY <2>1 DEF Enter
  <2>3. c \in Call
    BY <1>1 DEF Call, Called, Outcome
  <2>4. Label(c) = NextLabel(r, Cur(r))
    BY <1>5 DEF Label, ArgOrVote
  <2>5. c.op = "allreduce" /\ c.req = q
    OBVIOUS
  <2> HIDE DEF c
  <2>6. /\ ran' \in [Rank -> Seq(Outcome)]
        /\ Len(ran'[r]) = q
        /\ \A s \in Rank \ {r} : ran'[s] = ran[s]
    BY <1>1, <2>1, AppendRan DEF TypeOK
  <2>7. reqs' = reqs /\ mode' = mode
    BY <2>1
  <2>a. c.op # "hdr" /\ c.op \notin {"hdr", "arg"} /\ c.req = At(r).req
    BY <2>5
  <2>b. c.req <= Len(reqs) /\ hdr'[r] = reqs[c.req] /\ Len(ran'[r]) = c.req
    BY <1>1, <2>5, <2>6
  <2>8. AgreeInv'
    BY <2>2, <2>3, <2>4, <2>6, <2>7, <2>a, <2>b, EnterStep
  <2>9. calls' \in [Rank -> Seq(Call)]
    BY <2>2, <2>3, AppendCalls DEF TypeOK
  <2> QED
    BY <2>1, <2>6, <2>8, <2>9 DEF TypeOK
<1> QED
  BY <1>3, <1>4, <1>5

(* The end of a request, on a worker and at the root.                      *)
LEMMA EndRequestStep ==
  ASSUME TypeOK, AgreeInv, NEW r \in Rank, NEW reply \in Answers,
         mode[r] = "in", Cur(r) \in 1 .. Len(calls[r]), Passed(r, Cur(r)), At(r) \in Call,
         At(r).op \notin {"hdr", "arg"},
         NextLabel(r, Cur(r)) = <<"hdr", At(r).req + 1, 0>>,
         failed' \in [Rank -> BOOLEAN], left' = left, recv_counts' = recv_counts, rleft' = rleft,
         EndRequest(r, reply)
  PROVE  TypeOK' /\ AgreeInv'
<1> DEFINE q == At(r).req
<1>1. Len(ran[r]) = q /\ q \in Nat \ {0}
  BY DEF AgreeInv, Serving, Call, Called
<1>2. reqs' = reqs /\ hdr' = hdr /\ ran' = ran
  BY DEF EndRequest
<1>3. CASE r = root
  <2>1. replies' = Append(replies, reply) /\ mode' = [mode EXCEPT ![root] = "user"] /\ calls' = calls
    BY <1>3 DEF EndRequest
  <2>2. /\ CollectivesAgree' /\ Chained' /\ RootCalls'
        /\ \A s \in Rank : Cur(s)' = Cur(s) /\ At(s)' = At(s)
        /\ \A s \in Rank, k \in Nat : Passed(s, k)' = Passed(s, k)
        /\ \A s \in Rank, k \in Nat : NextLabel(s, k)' = NextLabel(s, k)
    BY <1>2, <2>1, StillStep
  <2>3. mode'[root] = "user" /\ \A s \in Rank : s # root => mode'[s] = mode[s]
    BY <1>3, <2>1 DEF TypeOK
  <2>4. Serving'
    BY <1>2, <2>2, <2>3 DEF Serving, AgreeInv
  <2>5. q = Len(reqs)
    BY <1>3 DEF AgreeInv, RootTurn
  <2>6. Cur(root) \in Nat /\ Cur(root) # 0
    BY <1>3 DEF TypeOK, Cur
  <2>7. Passed(root, Cur(root))' /\ NextLabel(root, Cur(root))' = <<"hdr", Len(reqs) + 1, 0>>
    BY <1>3, <2>2, <2>5, <2>6
  <2>8. RootTurn'
    BY <1>1, <1>2, <1>3, <2>2, <2>3, <2>5, <2>6, <2>7 DEF RootTurn
  <2>9. replies' \in Seq(Answers)
    BY <2>1 DEF TypeOK
  <2> QED
    BY <1>2, <2>1, <2>2, <2>4, <2>8, <2>9 DEF TypeOK, AgreeInv
<1>4. CASE r # root
  <2> DEFINE c == [op |-> "hdr", req |-> q + 1, pos |-> 0, val |-> FinalizeHdr]
  <2>1. calls' = [calls EXCEPT ![r] = Append(@, c)] /\ replies' = replies /\ mode' = mode
    BY <1>4 DEF EndRequest, Enter
  <2>2. c \in Call
    BY <1>1 DEF Call, Called, rpc_header
  <2>3. Label(c) = NextLabel(r, Cur(r)) /\ c.op = "hdr" /\ c.req = q + 1
    BY DEF Label
  <2> HIDE DEF c
  <2>4. Len(ran'[r]) = c.req - 1 /\ c.op \in {"hdr", "arg"}
    BY <1>1, <1>2, <2>3
  <2>5. AgreeInv'
    BY <1>2, <1>4, <2>1, <2>2, <2>3, <2>4, EnterStep
  <2>6. calls' \in [Rank -> Seq(Call)]
    BY <2>1, <2>2, AppendCalls DEF TypeOK
  <2> QED
    BY <1>2, <2>1, <2>5, <2>6 DEF TypeOK
<1> QED
  BY <1>3, <1>4

(* Entering the next step of the same request, past the wrapper's call.    *)
LEMMA SameRequestStep ==
  ASSUME TypeOK, AgreeInv, NEW r \in Rank, NEW op \in {"gather", "gatherv", "done"}, NEW val,
         [op |-> op, req |-> At(r).req, pos |-> 0, val |-> val] \in Call,
         mode[r] = "in", Passed(r, Cur(r)), At(r) \in Call,
         At(r).op \notin {"hdr", "arg"},
         NextLabel(r, Cur(r)) = <<op, At(r).req, 0>>,
         Enter(r, op, At(r).req, 0, val),
         UNCHANGED <<reqs, hdr, ran, mode>>
  PROVE  AgreeInv' /\ calls' \in [Rank -> Seq(Call)]
<1> DEFINE c == [op |-> op, req |-> At(r).req, pos |-> 0, val |-> val]
<1>1. calls' = [calls EXCEPT ![r] = Append(@, c)]
  BY DEF Enter
<1>2. c \in Call
  OBVIOUS
<1>3. Label(c) = NextLabel(r, Cur(r)) /\ c.op = op /\ c.req = At(r).req
  BY DEF Label
<1> HIDE DEF c
<1>4. c.op \notin {"hdr", "arg"}
  BY <1>3
<1>5. At(r).op # "hdr" /\ Len(ran[r]) = c.req /\ c.req <= Len(reqs) /\ hdr[r] = reqs[c.req]
  BY <1>3 DEF AgreeInv, Serving
<1>6. AgreeInv'
  BY <1>1, <1>2, <1>3, <1>4, <1>5, EnterStep
<1> QED
  BY <1>1, <1>2, <1>6, AppendCalls DEF TypeOK

(* The user's program issues a request, the first or a later one.          *)
LEMMA IssueStep ==
  ASSUME TypeOK, AgreeInv, NEW h \in rpc_header, Issue(h)
  PROVE  TypeOK' /\ AgreeInv'
<1> DEFINE c == [op |-> "hdr", req |-> Len(reqs) + 1, pos |-> 0, val |-> h]
<1>0. root \in Rank
  BY NAssumption DEF root, Rank
<1>1. /\ calls' = [calls EXCEPT ![root] = Append(@, c)]
      /\ reqs' = Append(reqs, h) /\ mode' = [mode EXCEPT ![root] = "in"]
      /\ mode[root] = "user"
      /\ UNCHANGED <<hdr, ran, failed, left, recv_counts, rleft, replies>>
  BY DEF Issue, Enter
<1>2. Len(reqs) \in Nat /\ reqs' \in Seq(rpc_header) /\ Len(reqs') = Len(reqs) + 1
      /\ reqs'[Len(reqs) + 1] = h
      /\ \A i \in 1 .. Len(reqs) : reqs'[i] = reqs[i]
  BY <1>1 DEF TypeOK
<1>3. c \in Call
  BY <1>2 DEF Call, Called
<1>4. Label(c) = <<"hdr", Len(reqs) + 1, 0>> /\ c.op = "hdr" /\ c.req = Len(reqs) + 1 /\ c.val = h
  BY DEF Label
<1> HIDE DEF c
<1>5. Adds(root, c)
  BY <1>1, <1>2 DEF Adds
<1>6. Due(root, c)
  BY <1>1, <1>4 DEF Due, AgreeInv, RootTurn
<1>7. CollectivesAgree' /\ Chained'
  BY <1>0, <1>3, <1>5, <1>6, EnterAgrees DEF AgreeInv
<1>8. /\ PastKept /\ Len(calls[root]) \in Nat
      /\ Len(calls'[root]) = Len(calls[root]) + 1
      /\ calls'[root][Len(calls[root]) + 1] = c
      /\ \A s \in Rank : s # root => calls'[s] = calls[s]
  BY <1>0, <1>3, <1>5, AddsFacts
<1>9. RootCalls'
  <2>1. ASSUME NEW k \in 1 .. Len(calls[root])
        PROVE  /\ calls'[root][k].req <= Len(reqs')
               /\ calls'[root][k].op = "hdr" => calls'[root][k].val = reqs'[calls'[root][k].req]
    <3>1. calls'[root][k] = calls[root][k] /\ calls[root][k] \in Call
      BY <1>0, <1>8 DEF PastKept, TypeOK
    <3>2. calls[root][k].req \in 1 .. Len(reqs)
      BY <1>2, <3>1 DEF AgreeInv, RootCalls, Call, Called
    <3> QED
      BY <1>2, <3>1, <3>2 DEF AgreeInv, RootCalls
  <2>2. ASSUME NEW k \in 1 .. Len(calls'[root]), k \notin 1 .. Len(calls[root])
        PROVE  /\ calls'[root][k].req <= Len(reqs')
               /\ calls'[root][k].op = "hdr" => calls'[root][k].val = reqs'[calls'[root][k].req]
    <3>1. k = Len(calls[root]) + 1
      BY <1>8, <2>2
    <3>2. calls'[root][k] = c
      BY <1>8, <3>1
    <3> QED
      BY <1>2, <1>4, <3>2
  <2> QED
    BY <2>1, <2>2 DEF RootCalls
<1>10. Cur(root)' = Len(calls[root]) + 1 /\ At(root)' = c
  BY <1>8 DEF Cur, At
<1>11. \A s \in Rank : s # root => Cur(s)' = Cur(s) /\ At(s)' = At(s)
  BY <1>8 DEF Cur, At
<1>12. mode'[root] = "in" /\ \A s \in Rank : s # root => mode'[s] = mode[s]
  BY <1>0, <1>1 DEF TypeOK
<1>13. Serving'
  <2>1. Len(ran[root]) = Len(reqs)
    BY <1>1 DEF AgreeInv, RootTurn
  <2>2. Cur(root)' > 0 /\ At(root)'.op = "hdr" /\ Len(ran'[root]) = At(root)'.req - 1
    BY <1>1, <1>2, <1>4, <1>8, <1>10, <2>1
  <2>3. ASSUME NEW s \in Rank, s # root, mode[s] = "in"
        PROVE  /\ Cur(s)' > 0
               /\ At(s)'.op # "hdr" => At(s)'.req <= Len(reqs') /\ hdr'[s] = reqs'[At(s)'.req]
               /\ Len(ran'[s]) = IF At(s)'.op \in {"hdr", "arg"}
                                   THEN At(s)'.req - 1 ELSE At(s)'.req
    <3>1. Cur(s)' = Cur(s) /\ At(s)' = At(s)
      BY <1>11, <2>3
    <3>2. Cur(s) > 0 /\ At(s) \in Call
      BY <2>3 DEF AgreeInv, Serving, At, Cur, TypeOK
    <3>3. At(s).op # "hdr" => At(s).req \in 1 .. Len(reqs)
      BY <1>2, <2>3, <3>2 DEF AgreeInv, Serving, Call, Called
    <3> QED
      BY <1>1, <1>2, <2>3, <3>1, <3>2, <3>3 DEF AgreeInv, Serving
  <2> QED
    BY <1>12, <2>2, <2>3 DEF Serving, AgreeInv
<1>14. RootTurn'
  BY <1>2, <1>4, <1>10, <1>12 DEF RootTurn
<1>15. TypeOK'
  <2>1. calls' \in [Rank -> Seq(Call)]
    BY <1>8 DEF PastKept
  <2> QED
    BY <1>0, <1>1, <1>2, <2>1 DEF TypeOK
<1> QED
  BY <1>7, <1>9, <1>13, <1>14, <1>15 DEF AgreeInv

LEMMA LeaveHdrStep ==
  ASSUME TypeOK, AgreeInv, NEW r \in Rank, LeaveHdr(r)
  PROVE  TypeOK' /\ AgreeInv'
<1> DEFINE q == At(r).req
           h == Bcasted(r)
<1>0. root \in Rank
  BY NAssumption DEF root, Rank
<1>1. Leaves(r, "hdr") /\ hdr' = [hdr EXCEPT ![r] = h] /\ TakeArg(r, h, 0)
  BY DEF LeaveHdr
<1>2. /\ mode[r] = "in" /\ At(r).op = "hdr" /\ At(r) = calls[r][Cur(r)]
      /\ Cur(r) \in 1 .. Len(calls[r]) /\ At(r) \in Call
      /\ Passed(r, Cur(r)) /\ q \in 1 .. Len(reqs)
  BY <1>1, LeaveFacts
<1>3. h = reqs[q]
  <2>1. Cur(r) \in 1 .. Len(calls[root])
    BY <1>0, <1>2 DEF Passed, Bcasts, TypeOK
  <2>2. calls[root][Cur(r)].op = "hdr" /\ calls[root][Cur(r)].req = q
    BY <1>0, <1>2, <2>1 DEF AgreeInv, CollectivesAgree, TypeOK
  <2> QED
    BY <2>1, <2>2 DEF AgreeInv, RootCalls, Bcasted
<1>4. h \in rpc_header
  BY <1>2, <1>3 DEF TypeOK
<1>5. NextLabel(r, Cur(r)) = ArgOrVote(q, 0)
  BY <1>2 DEF NextLabel
<1>6. /\ hdr' \in [Rank -> rpc_header] /\ hdr'[r] = h
      /\ \A s \in Rank \ {r} : hdr'[s] = hdr[s]
  BY <1>1, <1>4 DEF TypeOK
<1> HIDE DEF h
<1> QED
  BY <1>1, <1>2, <1>3, <1>4, <1>5, <1>6, TakeArgStep

LEMMA LeaveArgStep ==
  ASSUME TypeOK, AgreeInv, NEW r \in Rank, LeaveArg(r)
  PROVE  TypeOK' /\ AgreeInv'
<1> DEFINE pos == At(r).pos + MaxCount
<1>1. Leaves(r, "arg") /\ hdr' = hdr /\ TakeArg(r, hdr[r], pos)
  BY DEF LeaveArg
<1>2. /\ mode[r] = "in" /\ At(r).op = "arg" /\ At(r) = calls[r][Cur(r)]
      /\ At(r) \in Call /\ Passed(r, Cur(r)) /\ At(r).req \in 1 .. Len(reqs)
  BY <1>1, LeaveFacts
<1>3. hdr[r] = reqs[At(r).req] /\ hdr \in [Rank -> rpc_header]
  BY <1>2 DEF AgreeInv, Serving, TypeOK
<1>4. pos \in Nat
  BY <1>2, MaxCountAssumption DEF Call, Called
<1>5. NextLabel(r, Cur(r)) = ArgOrVote(At(r).req, pos)
  BY <1>2 DEF NextLabel
<1> HIDE DEF pos
<1> QED
  BY <1>1, <1>2, <1>3, <1>4, <1>5, TakeArgStep

LEMMA LeaveAllreduceStep ==
  ASSUME TypeOK, AgreeInv, NEW r \in Rank, LeaveAllreduce(r)
  PROVE  TypeOK' /\ AgreeInv'
<1>1. Leaves(r, "allreduce") /\ failed' = [failed EXCEPT ![r] = Reduced(r)]
  BY DEF LeaveAllreduce
<1>2. /\ mode[r] = "in" /\ At(r).op = "allreduce" /\ At(r) = calls[r][Cur(r)]
      /\ Cur(r) \in 1 .. Len(calls[r]) /\ At(r) \in Call
      /\ Passed(r, Cur(r)) /\ At(r).req \in 1 .. Len(reqs)
  BY <1>1, LeaveFacts
<1>3. failed' \in [Rank -> BOOLEAN]
  BY <1>1 DEF TypeOK, Reduced, AnyVote
<1>4. hdr[r] = reqs[At(r).req] /\ Len(ran[r]) = At(r).req
  BY <1>2 DEF AgreeInv, Serving
<1>5. CASE Reduced(r) \/ hdr[r].type = "bcast_rpc_type"
  <2> DEFINE size == send_data_size(r, Reduced(r))
  <2>1. /\ left' = [left EXCEPT ![r] = size]
        /\ Enter(r, "gather", At(r).req, 0, size)
        /\ UNCHANGED <<reqs, hdr, ran, recv_counts, rleft, replies, mode>>
    BY <1>5 DEF LeaveAllreduce
  <2>2. size \in Nat
    <3>1. ran[r][Len(ran[r])] \in Outcome
      BY <1>2, <1>4 DEF TypeOK, Call, Called
    <3> QED
      BY <3>1, SizesAssumption DEF send_data_size, Outcome
  <2> HIDE DEF size
  <2>3. [op |-> "gather", req |-> At(r).req, pos |-> 0, val |-> size] \in Call
    BY <1>2, <2>2 DEF Call, Called
  <2>4. NextLabel(r, Cur(r)) = <<"gather", At(r).req, 0>>
    BY <1>2, <1>4, <1>5 DEF NextLabel, Reduced
  <2>5. AgreeInv' /\ calls' \in [Rank -> Seq(Call)]
    BY <1>2, <2>1, <2>3, <2>4, SameRequestStep
  <2> QED
    BY <1>3, <2>1, <2>2, <2>5 DEF TypeOK
<1>6. CASE ~ (Reduced(r) \/ hdr[r].type = "bcast_rpc_type")
  <2> DEFINE reply == Answer(FALSE, [s \in Rank |-> 0])
  <2>1. EndRequest(r, reply) /\ UNCHANGED <<left, recv_counts, rleft>>
    BY <1>6 DEF LeaveAllreduce
  <2>2. reply \in Answers
    BY DEF Answer, Answers
  <2> HIDE DEF reply
  <2>3. NextLabel(r, Cur(r)) = <<"hdr", At(r).req + 1, 0>>
    BY <1>2, <1>4, <1>6 DEF NextLabel, Reduced
  <2> QED
    BY <1>2, <1>3, <2>1, <2>2, <2>3, EndRequestStep
<1> QED
  BY <1>5, <1>6

(* local_max_count is a number, so chunks are, and never exceed the rest.  *)
LEMMA ChunkType ==
  ASSUME NEW rest \in Nat
  PROVE  each_count(rest) \in Nat /\ rest - each_count(rest) \in Nat
<1>1. local_max_count \in Nat
  BY NAssumption, MaxCountAssumption DEF local_max_count
<1> QED
  BY <1>1 DEF each_count, Smaller

LEMMA LeaveGatherStep ==
  ASSUME TypeOK, AgreeInv, NEW r \in Rank, LeaveGather(r)
  PROVE  TypeOK' /\ AgreeInv'
<1>1. /\ Leaves(r, "gather") /\ SendChunk(r, left[r])
      /\ IF r = root THEN recv_counts' = Gathered(r) /\ rleft' = Gathered(r)
                     ELSE UNCHANGED <<recv_counts, rleft>>
      /\ UNCHANGED <<reqs, hdr, ran, failed, left, replies, mode>>
  BY DEF LeaveGather
<1>2. /\ mode[r] = "in" /\ At(r).op = "gather" /\ At(r) = calls[r][Cur(r)]
      /\ Cur(r) \in 1 .. Len(calls[r]) /\ At(r) \in Call /\ Passed(r, Cur(r))
  BY <1>1, LeaveFacts
<1> DEFINE val == each_count(left[r])
<1>3. val \in Nat
  BY ChunkType DEF TypeOK
<1>4. Enter(r, "gatherv", At(r).req, 0, val)
  BY <1>1 DEF SendChunk
<1> HIDE DEF val
<1>5. [op |-> "gatherv", req |-> At(r).req, pos |-> 0, val |-> val] \in Call
  BY <1>2, <1>3 DEF Call, Called
<1>6. NextLabel(r, Cur(r)) = <<"gatherv", At(r).req, 0>>
  BY <1>2 DEF NextLabel
<1>7. AgreeInv' /\ calls' \in [Rank -> Seq(Call)]
  BY <1>1, <1>2, <1>4, <1>5, <1>6, SameRequestStep
<1>8. recv_counts' \in [Rank -> Nat] /\ rleft' \in [Rank -> Nat]
  <2>1. CASE r = root
    <3>1. ASSUME NEW s \in Rank
          PROVE  calls[s][Cur(r)].val \in Nat
      <4>1. Cur(r) \in 1 .. Len(calls[s])
        BY <1>1, <1>2, <2>1 DEF Leaves, Awaited, Bcasts, TypeOK
      <4>2. calls[s][Cur(r)] \in Call /\ calls[s][Cur(r)].op = "gather"
        BY <1>2, <4>1 DEF AgreeInv, CollectivesAgree, TypeOK
      <4> QED
        BY <4>2 DEF Call, Called
    <3> QED
      BY <1>1, <2>1, <3>1 DEF Gathered
  <2> QED
    BY <1>1, <2>1 DEF TypeOK
<1> QED
  BY <1>1, <1>7, <1>8 DEF TypeOK

LEMMA LeaveGathervStep ==
  ASSUME TypeOK, AgreeInv, NEW r \in Rank, LeaveGatherv(r)
  PROVE  TypeOK' /\ AgreeInv'
<1> DEFINE rest == [s \in Rank |-> rleft[s] - each_count(rleft[s])]
           val == IF r = root THEN \A s \in Rank : rest[s] = 0 ELSE TRUE
<1>1. /\ Leaves(r, "gatherv")
      /\ left' = [left EXCEPT ![r] = @ - each_count(@)]
      /\ rleft' = IF r = root THEN rest ELSE rleft
      /\ Enter(r, "done", At(r).req, 0, val)
      /\ UNCHANGED <<reqs, hdr, ran, failed, recv_counts, replies, mode>>
  BY DEF LeaveGatherv
<1>2. /\ mode[r] = "in" /\ At(r).op = "gatherv" /\ At(r) = calls[r][Cur(r)]
      /\ Cur(r) \in 1 .. Len(calls[r]) /\ At(r) \in Call /\ Passed(r, Cur(r))
  BY <1>1, LeaveFacts
<1>3. val \in BOOLEAN
  OBVIOUS
<1>4. rest \in [Rank -> Nat]
  BY ChunkType DEF TypeOK
<1> HIDE DEF val, rest
<1>5. [op |-> "done", req |-> At(r).req, pos |-> 0, val |-> val] \in Call
  BY <1>2, <1>3 DEF Call, Called
<1>6. NextLabel(r, Cur(r)) = <<"done", At(r).req, 0>>
  BY <1>2 DEF NextLabel
<1>7. AgreeInv' /\ calls' \in [Rank -> Seq(Call)]
  BY <1>1, <1>2, <1>5, <1>6, SameRequestStep
<1>8. left[r] - each_count(left[r]) \in Nat
  BY ChunkType DEF TypeOK
<1>9. left' \in [Rank -> Nat]
  BY <1>1, <1>8 DEF TypeOK
<1> QED
  BY <1>1, <1>4, <1>7, <1>9 DEF TypeOK

LEMMA LeaveDoneStep ==
  ASSUME TypeOK, AgreeInv, NEW r \in Rank, LeaveDone(r)
  PROVE  TypeOK' /\ AgreeInv'
<1>1. Leaves(r, "done") /\ UNCHANGED <<failed, left, recv_counts, rleft>>
  BY DEF LeaveDone
<1>2. /\ mode[r] = "in" /\ At(r).op = "done" /\ At(r) = calls[r][Cur(r)]
      /\ Cur(r) \in 1 .. Len(calls[r]) /\ At(r) \in Call /\ Passed(r, Cur(r))
  BY <1>1, LeaveFacts
<1>3. CASE Bcasted(r)
  <2> DEFINE reply == Answer(failed[r], recv_counts)
  <2>1. EndRequest(r, reply)
    BY <1>3 DEF LeaveDone
  <2>2. reply \in Answers
    BY DEF Answer, Answers, TypeOK
  <2> HIDE DEF reply
  <2>3. NextLabel(r, Cur(r)) = <<"hdr", At(r).req + 1, 0>>
    BY <1>2, <1>3 DEF NextLabel, Bcasted
  <2>4. failed' \in [Rank -> BOOLEAN]
    BY <1>1 DEF TypeOK
  <2> QED
    BY <1>1, <1>2, <2>1, <2>2, <2>3, <2>4, EndRequestStep
<1>4. CASE ~ Bcasted(r)
  <2> DEFINE val == each_count(left[r])
  <2>1. Enter(r, "gatherv", At(r).req, 0, val) /\ UNCHANGED <<reqs, hdr, ran, replies, mode>>
    BY <1>4 DEF LeaveDone, SendChunk
  <2>2. val \in Nat
    BY ChunkType DEF TypeOK
  <2> HIDE DEF val
  <2>3. [op |-> "gatherv", req |-> At(r).req, pos |-> 0, val |-> val] \in Call
    BY <1>2, <2>2 DEF Call, Called
  <2>4. NextLabel(r, Cur(r)) = <<"gatherv", At(r).req, 0>>
    BY <1>2, <1>4 DEF NextLabel, Bcasted
  <2>5. AgreeInv' /\ calls' \in [Rank -> Seq(Call)]
    BY <1>2, <2>1, <2>3, <2>4, SameRequestStep
  <2> QED
    BY <1>1, <2>1, <2>5 DEF TypeOK
<1> QED
  BY <1>3, <1>4

---------------------------------------------------------------------------
LEMMA InitInv == Init => TypeOK /\ AgreeInv
<1> SUFFICES ASSUME Init PROVE TypeOK /\ AgreeInv
  OBVIOUS
<1>0. root \in Rank
  BY NAssumption DEF root, Rank
<1> DEFINE first == [op |-> "hdr", req |-> 1, pos |-> 0, val |-> FinalizeHdr]
<1>1. first \in Call /\ FinalizeHdr \in rpc_header
  BY DEF Call, Called, rpc_header
<1>2. Label(first) = <<"hdr", 1, 0>> /\ first.op = "hdr" /\ first.req = 1
  BY DEF Label
<1> HIDE DEF first
<1>3. /\ calls[root] = <<>> /\ \A r \in Rank : r # root => calls[r] = <<first>>
      /\ calls = [r \in Rank |-> IF r = root THEN <<>> ELSE <<first>>]
  BY <1>0 DEF Init, first
<1>4. \A r \in Rank : calls[r] \in Seq(Call)
  BY <1>1, <1>3
<1>5. TypeOK
  <2>1. calls \in [Rank -> Seq(Call)]
    BY <1>3, <1>4
  <2> QED
    BY <1>1, <2>1 DEF Init, TypeOK
<1>6. \A r \in Rank : r # root => Len(calls[r]) = 1 /\ calls[r][1] = first
  BY <1>3
<1>7. Len(calls[root]) = 0
  BY <1>3
<1>8. CollectivesAgree
  <2> SUFFICES ASSUME NEW r \in Rank, NEW s \in Rank,
                      NEW k \in DOMAIN calls[r] \cap DOMAIN calls[s]
               PROVE  calls[r][k] = calls[s][k]
    BY DEF CollectivesAgree
  <2> QED
    BY <1>4, <1>6, <1>7
<1>9. Chained
  BY <1>2, <1>6, <1>7 DEF Chained
<1>10. RootCalls
  BY <1>7 DEF RootCalls
<1>11. Serving
  <2>1. \A r \in Rank : mode[r] = IF r = root THEN "user" ELSE "in"
    BY DEF Init
  <2>2. \A r \in Rank : Len(ran[r]) = 0
    BY DEF Init
  <2>3. \A r \in Rank : r # root => Cur(r) = 1 /\ At(r) = first
    BY <1>6 DEF Cur, At
  <2> QED
    BY <1>2, <2>1, <2>2, <2>3 DEF Serving
<1>12. RootTurn
  BY <1>0, <1>7 DEF RootTurn, Init, Cur
<1> QED
  BY <1>5, <1>8, <1>9, <1>10, <1>11, <1>12 DEF AgreeInv

(* One step per action of the specification.                               *)
LEMMA NextInv == TypeOK /\ AgreeInv /\ [Next]_vars => TypeOK' /\ AgreeInv'
<1> SUFFICES ASSUME TypeOK, AgreeInv, [Next]_vars PROVE TypeOK' /\ AgreeInv'
  OBVIOUS
<1>1. ASSUME NEW h \in rpc_header, Issue(h) PROVE TypeOK' /\ AgreeInv'
  BY <1>1, IssueStep
<1>2. ASSUME NEW r \in Rank, LeaveHdr(r) PROVE TypeOK' /\ AgreeInv'
  BY <1>2, LeaveHdrStep
<1>3. ASSUME NEW r \in Rank, LeaveArg(r) PROVE TypeOK' /\ AgreeInv'
  BY <1>3, LeaveArgStep
<1>4. ASSUME NEW r \in Rank, LeaveAllreduce(r) PROVE TypeOK' /\ AgreeInv'
  BY <1>4, LeaveAllreduceStep
<1>5. ASSUME NEW r \in Rank, LeaveGather(r) PROVE TypeOK' /\ AgreeInv'
  BY <1>5, LeaveGatherStep
<1>6. ASSUME NEW r \in Rank, LeaveGatherv(r) PROVE TypeOK' /\ AgreeInv'
  BY <1>6, LeaveGathervStep
<1>7. ASSUME NEW r \in Rank, LeaveDone(r) PROVE TypeOK' /\ AgreeInv'
  BY <1>7, LeaveDoneStep
<1>8. CASE UNCHANGED vars
  <2>1. /\ calls' = calls /\ reqs' = reqs /\ hdr' = hdr /\ ran' = ran /\ failed' = failed
        /\ left' = left /\ recv_counts' = recv_counts /\ rleft' = rleft
        /\ replies' = replies /\ mode' = mode
    BY <1>8 DEF vars
  <2>2. /\ CollectivesAgree' /\ Chained' /\ RootCalls'
        /\ \A s \in Rank : Cur(s)' = Cur(s) /\ At(s)' = At(s)
        /\ \A s \in Rank, k \in Nat : Passed(s, k)' = Passed(s, k)
        /\ \A s \in Rank, k \in Nat : NextLabel(s, k)' = NextLabel(s, k)
    BY <2>1, StillStep
  <2>3. Serving'
    BY <2>1, <2>2 DEF AgreeInv, Serving
  <2>4. root \in Rank /\ Cur(root) \in Nat
    BY NAssumption DEF root, Rank, Cur, TypeOK
  <2>5. RootTurn'
    BY <2>1, <2>2, <2>4 DEF AgreeInv, RootTurn
  <2>6. TypeOK'
    BY <2>1 DEF TypeOK
  <2> QED
    BY <2>2, <2>3, <2>5, <2>6 DEF AgreeInv
<1> QED
  BY <1>1, <1>2, <1>3, <1>4, <1>5, <1>6, <1>7, <1>8 DEF Next, Step, AllExited

(* Every value a process of the engine holds is of the type the code gives *)
(* it (mpi_rpc.cc): in particular what a rank takes out of a collective is *)
(* a header, a vote or a length when it reads it as one.                   *)
THEOREM TypeCorrect == Spec => []TypeOK
<1>1. TypeOK /\ AgreeInv /\ [Next]_vars => (TypeOK /\ AgreeInv)'
  BY NextInv
<1>2. Spec => [](TypeOK /\ AgreeInv)
  BY <1>1, InitInv, PTL DEF Spec
<1> QED
  BY <1>2, PTL

(* handle_one_bcast_req and send_bcast_rpcreq enter the same collectives   *)
(* in the same order, for any number of ranks, any lengths, any outcomes.  *)
THEOREM EngineAgrees == Spec => []CollectivesAgree
<1>1. TypeOK /\ AgreeInv /\ [Next]_vars => (TypeOK /\ AgreeInv)'
  BY NextInv
<1>2. Spec => [](TypeOK /\ AgreeInv)
  BY <1>1, InitInv, PTL DEF Spec
<1>3. AgreeInv => CollectivesAgree
  BY DEF AgreeInv
<1> QED
  BY <1>2, <1>3, PTL
=============================================================================
