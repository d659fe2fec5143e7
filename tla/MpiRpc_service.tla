--------------------------- MODULE MpiRpc_service ---------------------------
(***************************************************************************)
(* What the ranks hand each other through the collectives of MpiRpc, for   *)
(* every number of ranks, chunk size, argument and result length: votes    *)
(* and sizes are those of the request they are taken for, the chunks of    *)
(* large_gatherv fit, no rank leaves owing a request, and the engine       *)
(* implements RpcService.  It rests on AgreeInv of MpiRpc_proofs.          *)
(***************************************************************************)
EXTENDS MpiRpc_proofs

RunByAll(q) == \A t \in Rank : q <= Len(ran[t])
Threw(q) == \E t \in Rank : ran[t][q].exc

(* The bytes rank s has for the gather of request q.                       *)
Sent(q, s) == IF Threw(q) /\ ~ ran[s][q].exc THEN 0 ELSE ran[s][q].size

(* What rank s put into collective c is about the request c belongs to.    *)
Said(s, c) ==
  /\ c.op = "allreduce" => c.req <= Len(ran[s]) /\ c.val = ran[s][c.req].exc
  /\ c.op = "gather" => RunByAll(c.req) /\ c.val = Sent(c.req, s)
Votes == \A s \in Rank : \A k \in 1 .. Len(calls[s]) : Said(s, calls[s][k])

(* A rank past its wrapper's call serves no finalize; past the allreduce,  *)
(* it knows whether anybody threw.                                         *)
Past(s) ==
  mode[s] = "in" /\ At(s).op \notin {"hdr", "arg"} =>
    /\ reqs[At(s).req].type # "finalize_type"
    /\ At(s).op # "allreduce" =>
         /\ RunByAll(At(s).req)
         /\ failed[s] = Threw(At(s).req)
         /\ failed[s] \/ reqs[At(s).req].type = "bcast_rpc_type"
Phase == \A s \in Rank : Past(s)

Received ==
  mode[root] = "in" /\ At(root).op \in {"gatherv", "done"} =>
    \A s \in Rank : recv_counts[s] = Sent(At(root).req, s)

(* The program ends with finalizefrovedis and waits for each reply; no     *)
(* rank is ahead of it.                                                    *)
OnlyLast == \A i \in 1 .. Len(reqs) :
  reqs[i] = FinalizeHdr => i = Len(reqs) /\ mode[root] # "user"
Replied ==
  IF mode[root] = "user" THEN Len(replies) = Len(reqs)
  ELSE Len(reqs) > 0 /\ Len(replies) = Len(reqs) - 1
Pace == \A r \in Rank :
  /\ Len(ran[r]) <= Len(reqs)
  /\ Len(reqs) > 0 /\ Len(ran[r]) = Len(reqs) => reqs[Len(reqs)] # FinalizeHdr

Account == OnlyLast /\ Replied /\ Pace /\ ExitsServed
ServiceInv == Votes /\ Phase /\ Received /\ Account

(* What is left to send, on each side of a gather.  The root is in the     *)
(* round of the gatherv in its history at M; a worker may be a round       *)
(* behind, or one collective ahead.                                        *)
Chunk(s) ==
  /\ At(s).op = "gather" => At(s).val = left[s]
  /\ At(s).op = "gatherv" =>
       /\ At(s).val = each_count(left[s])
       /\ calls[s][Cur(s) - 1].op = "gather" => calls[s][Cur(s) - 1].val = left[s]
  /\ At(s).op = "done" =>
       LET sent == calls[s][Cur(s) - 1].val
       IN  /\ sent = each_count(left[s] + sent)
           /\ calls[s][Cur(s) - 2].op = "gather" => calls[s][Cur(s) - 2].val = left[s] + sent
Chunks == \A s \in Rank : Cur(s) > 0 => Chunk(s)

InRounds ==
  /\ mode[root] = "in"
  /\ At(root).op = "gatherv" \/ (At(root).op = "done" /\ ~ At(root).val)
Round == IF At(root).op = "gatherv" THEN Cur(root) ELSE Cur(root) + 1
Within(s, M) ==
  \/ Cur(s) = M - 2 /\ At(s).op = "gatherv" /\ left[s] - each_count(left[s]) = rleft[s]
  \/ Cur(s) = M - 1 /\ At(s).op \in {"gather", "done"} /\ left[s] = rleft[s]
  \/ Cur(s) = M /\ At(s).op = "gatherv" /\ left[s] = rleft[s]
  \/ /\ Cur(s) = M + 1 /\ At(s).op = "done"
     /\ calls[s][M].val = each_count(rleft[s])
     /\ left[s] = rleft[s] - each_count(rleft[s])
Rounds == InRounds => \A s \in Rank : Within(s, Round)
GatherInv == Chunks /\ Rounds

---------------------------------------------------------------------------
(* Outcomes and requests are only ever added.                              *)
RanKept ==
  /\ ran' \in [Rank -> Seq(Outcome)]
  /\ \A s \in Rank : /\ Len(ran[s]) <= Len(ran'[s])
                     /\ \A i \in 1 .. Len(ran[s]) : ran'[s][i] = ran[s][i]

(* What a request everybody has run came to does not change any more.      *)
LEMMA SentStable ==
  ASSUME TypeOK, RanKept, NEW q \in Nat \ {0}, RunByAll(q)
  PROVE  /\ RunByAll(q)' /\ (Threw(q))' = Threw(q)
         /\ \A s \in Rank : (Sent(q, s))' = Sent(q, s)
<1>1. \A s \in Rank : q \in 1 .. Len(ran[s]) /\ Len(ran[s]) \in Nat /\ Len(ran'[s]) \in Nat
  BY DEF RunByAll, RanKept, TypeOK
<1>2. \A s \in Rank : ran'[s][q] = ran[s][q] /\ q <= Len(ran'[s])
  BY <1>1 DEF RanKept
<1>3. RunByAll(q)' /\ (Threw(q))' = Threw(q)
  BY <1>2 DEF RunByAll, Threw
<1>. QED
  BY <1>2, <1>3 DEF Sent

LEMMA SaidStable ==
  ASSUME TypeOK, RanKept, NEW s \in Rank, NEW c \in Call, Said(s, c)
  PROVE  Said(s, c)'
<1>1. c.req \in Nat \ {0}
  BY DEF Call, Called
<1>2. Len(ran[s]) \in Nat /\ Len(ran'[s]) \in Nat
  BY DEF RanKept, TypeOK
<1>3. c.op = "allreduce" => c.req <= Len(ran'[s]) /\ c.val = ran'[s][c.req].exc
  BY <1>1, <1>2 DEF Said, RanKept
<1>4. c.op = "gather" => RunByAll(c.req)' /\ c.val = (Sent(c.req, s))'
  BY <1>1, SentStable DEF Said
<1>. QED
  BY <1>3, <1>4 DEF Said

LEMMA VotesEnter ==
  ASSUME TypeOK, Votes, RanKept, NEW r \in Rank, NEW c \in Call, Said(r, c)',
         calls' = [calls EXCEPT ![r] = Append(@, c)]
  PROVE  Votes'
<1>1. /\ Len(calls'[r]) = Len(calls[r]) + 1 /\ calls'[r][Len(calls[r]) + 1] = c
      /\ \A s \in Rank : s # r => calls'[s] = calls[s]
      /\ \A s \in Rank : \A k \in 1 .. Len(calls[s]) : calls'[s][k] = calls[s][k]
  BY AppendCalls DEF TypeOK
<1>2. ASSUME NEW s \in Rank, NEW k \in 1 .. Len(calls'[s])
      PROVE  Said(s, calls[s][k])'
  <2>1. CASE k \in 1 .. Len(calls[s])
    <3>1. PICK x \in Call : x = calls[s][k] /\ x = calls'[s][k] /\ Said(s, x)
      BY <1>1, <2>1 DEF TypeOK, Votes
    <3>2. Said(s, x)'
      BY <3>1, SaidStable
    <3>. QED
      BY <3>1, <3>2 DEF Said
  <2>2. CASE k \notin 1 .. Len(calls[s])
    <3>1. Len(calls[r]) \in Nat /\ s = r /\ k = Len(calls[r]) + 1
      BY <1>1, <2>2 DEF TypeOK
    <3>. QED
      BY <1>1, <3>1 DEF Said
  <2>. QED
    BY <2>1, <2>2
<1>. QED
  BY <1>2 DEF Votes

(* Where the ranks are once r has entered c.                               *)
LEMMA AtEnter ==
  ASSUME TypeOK, NEW r \in Rank, NEW c \in Call,
         calls' = [calls EXCEPT ![r] = Append(@, c)]
  PROVE  /\ Cur(r) \in Nat /\ Cur(r)' = Cur(r) + 1 /\ At(r)' = c
         /\ calls'[r][Cur(r) + 1] = c
         /\ \A s \in Rank : s # r => /\ Cur(s)' = Cur(s) /\ At(s)' = At(s)
                                     /\ calls'[s] = calls[s]
         /\ \A s \in Rank : \A k \in 1 .. Cur(s) : calls'[s][k] = calls[s][k]
<1>1. /\ Len(calls'[r]) = Len(calls[r]) + 1 /\ calls'[r][Len(calls[r]) + 1] = c
      /\ \A s \in Rank : s # r => calls'[s] = calls[s]
      /\ \A s \in Rank : \A k \in 1 .. Len(calls[s]) : calls'[s][k] = calls[s][k]
      /\ Len(calls[r]) \in Nat
  BY AppendCalls DEF TypeOK
<1>. QED
  BY <1>1 DEF Cur, At

(* A rank that does nothing keeps what it knows.                           *)
LEMMA PastStable ==
  ASSUME TypeOK, AgreeInv, RanKept, NEW s \in Rank, Past(s),
         mode'[s] = "in" => mode[s] = "in", Cur(s)' = Cur(s), At(s)' = At(s), failed'[s] = failed[s],
         \A i \in 1 .. Len(reqs) : reqs'[i] = reqs[i]
  PROVE  Past(s)'
<1>1. SUFFICES ASSUME mode'[s] = "in", At(s).op \notin {"hdr", "arg"}
               PROVE  /\ reqs'[At(s).req].type # "finalize_type"
                      /\ At(s).op # "allreduce" =>
                           /\ RunByAll(At(s).req)'
                           /\ failed'[s] = (Threw(At(s).req))'
                           /\ failed'[s] \/ reqs'[At(s).req].type = "bcast_rpc_type"
  BY DEF Past, RunByAll, Threw
<1>2. At(s) \in Call /\ At(s).req <= Len(reqs)
  BY <1>1 DEF AgreeInv, Serving, TypeOK, At, Cur
<1>3. At(s).req \in Nat \ {0} /\ Len(reqs) \in Nat
  BY <1>2 DEF TypeOK, Call, Called
<1>4. reqs'[At(s).req] = reqs[At(s).req]
  BY <1>2, <1>3
<1>5. PICK q \in Nat \ {0} : q = At(s).req
  BY <1>3
<1>6. /\ reqs[q].type # "finalize_type"
      /\ At(s).op # "allreduce" =>
           RunByAll(q) /\ failed[s] = Threw(q) /\ (failed[s] \/ reqs[q].type = "bcast_rpc_type")
  BY <1>1, <1>5 DEF Past
<1>7. RunByAll(q) => RunByAll(q)' /\ (Threw(q))' = Threw(q)
  BY SentStable
<1>8. RunByAll(q)' => RunByAll(At(s).req)'
  BY <1>5, <1>1 DEF RunByAll
<1>. QED
  BY <1>4, <1>5, <1>6, <1>7 DEF RunByAll, Threw

(* The root's counts stay right while it does nothing.                     *)
LEMMA ReceivedStable ==
  ASSUME TypeOK, AgreeInv, Phase, RanKept, Received,
         mode'[root] = "in" => mode[root] = "in", Cur(root)' = Cur(root), At(root)' = At(root),
         recv_counts' = recv_counts
  PROVE  Received'
<1>0. root \in Rank
  BY NAssumption DEF root, Rank
<1>1. SUFFICES ASSUME mode'[root] = "in", At(root).op \in {"gatherv", "done"}
               PROVE  \A s \in Rank : recv_counts[s] = (Sent(At(root).req, s))'
  BY DEF Received
<1>2. At(root) \in Call /\ RunByAll(At(root).req)
  <2>1. mode[root] = "in" /\ At(root).op \notin {"hdr", "arg", "allreduce"}
    BY <1>1
  <2>2. At(root) \in Call
    BY <1>0, <2>1 DEF AgreeInv, Serving, TypeOK, At, Cur
  <2>3. Past(root)
    BY <1>0 DEF Phase
  <2>. QED
    BY <2>1, <2>2, <2>3 DEF Past
<1>3. PICK q \in Nat \ {0} : q = At(root).req
  BY <1>2 DEF Call, Called
<1>4. \A s \in Rank : recv_counts[s] = Sent(q, s)
  BY <1>1, <1>3 DEF Received
<1>5. \A s \in Rank : (Sent(q, s))' = Sent(q, s)
  BY <1>2, <1>3, SentStable
<1>. QED
  BY <1>3, <1>4, <1>5 DEF Sent, Threw

(* r enters c inside the engine.                                           *)
LEMMA EnterServes ==
  ASSUME TypeOK, AgreeInv, Votes, Phase, Received, RanKept,
         NEW r \in Rank, NEW c \in Call, calls' = [calls EXCEPT ![r] = Append(@, c)],
         Said(r, c)', Past(r)',
         \A s \in Rank \ {r} : failed'[s] = failed[s],
         reqs' = reqs, mode' = mode,
         r = root => Received',
         r # root => recv_counts' = recv_counts
  PROVE  Votes' /\ Phase' /\ Received'
<1>0. root \in Rank
  BY NAssumption DEF root, Rank
<1>1. Votes'
  BY VotesEnter
<1>2. \A s \in Rank : s # r => Cur(s)' = Cur(s) /\ At(s)' = At(s)
  BY AtEnter
<1>3. Phase'
  <2>1. ASSUME NEW s \in Rank, s # r  PROVE Past(s)'
    BY <1>2, <2>1, PastStable DEF Phase
  <2>. QED
    BY <2>1 DEF Phase
<1>4. Received'
  BY <1>0, <1>2, ReceivedStable
<1>. QED
  BY <1>1, <1>3, <1>4

(* A step of the engine that runs nothing and answers nothing.             *)
LEMMA AccountStill ==
  ASSUME TypeOK, Account, UNCHANGED <<reqs, ran, replies, mode>>
  PROVE  Account' /\ UNCHANGED Service!svars
BY DEF Account, OnlyLast, Replied, Pace, ExitsServed, Service!svars

LEMMA RanStill ==
  ASSUME TypeOK, ran' = ran
  PROVE  RanKept
<1>1. \A s \in Rank : Len(ran[s]) \in Nat
  BY DEF TypeOK
<1>. QED
  BY <1>1 DEF RanKept, TypeOK

(* The requests that are not the closing one.                              *)
LEMMA WorkFacts ==
  ASSUME TypeOK, OnlyLast
  PROVE  /\ Service!Closed <=> Len(reqs) > 0 /\ reqs[Len(reqs)] = FinalizeHdr
         /\ \A i \in 1 .. Len(reqs) : reqs[i].type = "finalize_type" <=> reqs[i] = FinalizeHdr
         /\ Service!Work = IF Len(reqs) > 0 /\ reqs[Len(reqs)] = FinalizeHdr
                           THEN Len(reqs) - 1 ELSE Len(reqs)
<1>1. reqs \in Seq(rpc_header) /\ Len(reqs) \in Nat /\ DOMAIN reqs = 1 .. Len(reqs)
  BY DEF TypeOK
<1>2. \A h \in rpc_header : h.type = "finalize_type" <=> h = FinalizeHdr
  BY DEF rpc_header, WorkHdr, FinalizeHdr, rpc_type
<1>3. \A i \in 1 .. Len(reqs) : reqs[i].type = "finalize_type" <=> reqs[i] = FinalizeHdr
  BY <1>1, <1>2
<1>4. Service!Closed <=> Len(reqs) > 0 /\ reqs[Len(reqs)] = FinalizeHdr
  BY <1>1, <1>3 DEF Service!Closed, Service!Closing, OnlyLast
<1>. QED
  BY <1>3, <1>4 DEF Service!Work

---------------------------------------------------------------------------
(* Each action keeps ServiceInv, and is a step of the service or none.     *)

LEMMA IssueServes ==
  ASSUME TypeOK, AgreeInv, ServiceInv, NEW h \in rpc_header, Issue(h)
  PROVE  ServiceInv' /\ Service!Issue(h)
<1>. DEFINE c == [op |-> "hdr", req |-> Len(reqs) + 1, pos |-> 0, val |-> h]
<1>0. root \in Rank
  BY NAssumption DEF root, Rank
<1>1. /\ calls' = [calls EXCEPT ![root] = Append(@, c)]
      /\ reqs' = Append(reqs, h) /\ mode' = [mode EXCEPT ![root] = "in"]
      /\ mode[root] = "user"
      /\ UNCHANGED <<hdr, ran, failed, left, recv_counts, rleft, replies>>
  BY DEF Issue, Enter
<1>2. Len(reqs) \in Nat /\ Len(reqs') = Len(reqs) + 1 /\ reqs'[Len(reqs) + 1] = h
      /\ \A i \in 1 .. Len(reqs) : reqs'[i] = reqs[i]
  BY <1>1 DEF TypeOK
<1>3. c \in Call /\ c.op = "hdr"
  BY <1>2 DEF Call, Called
<1>. HIDE DEF c
<1>4. RanKept
  BY <1>1, RanStill
<1>5. At(root)' = c /\ \A s \in Rank : s # root => Cur(s)' = Cur(s) /\ At(s)' = At(s)
  BY <1>0, <1>1, <1>3, AtEnter
<1>6. mode'[root] = "in" /\ \A s \in Rank : s # root => mode'[s] = mode[s]
  BY <1>0, <1>1 DEF TypeOK
<1>7. Votes'
  BY <1>0, <1>1, <1>3, <1>4, VotesEnter DEF ServiceInv, Said
<1>8. Phase'
  <2>1. ASSUME NEW s \in Rank, s # root  PROVE Past(s)'
    BY <1>1, <1>2, <1>4, <1>5, <1>6, <2>1, PastStable DEF ServiceInv, Phase
  <2>2. Past(root)'
    BY <1>3, <1>5 DEF Past
  <2>. QED
    BY <2>1, <2>2 DEF Phase
<1>9. Received'
  BY <1>3, <1>5 DEF Received
<1>10. /\ \A i \in 1 .. Len(reqs) : reqs[i] # FinalizeHdr
       /\ Len(replies) = Len(reqs)
       /\ \A r \in Rank : Len(ran[r]) \in Nat /\ Len(ran[r]) <= Len(reqs)
  BY <1>1 DEF ServiceInv, Account, OnlyLast, Replied, Pace, TypeOK
<1>11. \A r \in Rank : mode[r] # "gone"
  <2>1. ASSUME NEW r \in Rank, mode[r] = "gone"  PROVE FALSE
    <3>1. Len(ran[r]) = Len(reqs) - 1 /\ reqs[Len(reqs)] = FinalizeHdr
      BY <2>1 DEF ServiceInv, Account, ExitsServed
    <3>. QED
      BY <1>2, <1>10, <3>1
  <2>. QED
    BY <2>1
<1>12. Account'
  <2>1. OnlyLast'
    BY <1>2, <1>6, <1>10 DEF OnlyLast
  <2>2. Replied'
    BY <1>1, <1>2, <1>6, <1>10 DEF Replied
  <2>3. Pace'
    BY <1>1, <1>2, <1>10 DEF Pace
  <2>4. ExitsServed'
    BY <1>6, <1>11 DEF ExitsServed
  <2>. QED
    BY <2>1, <2>2, <2>3, <2>4 DEF Account
<1>13. ~ Service!Closed /\ Service!Work = Len(reqs)
  BY <1>2, <1>10, WorkFacts DEF ServiceInv, Account
<1>14. {r \in Rank : mode'[r] = "gone"} = {r \in Rank : mode[r] = "gone"}
  BY <1>6, <1>11
<1>15. Service!Issue(h)
  BY <1>1, <1>10, <1>13, <1>14 DEF Service!Issue, Service!Waiting
<1>. QED
  BY <1>7, <1>8, <1>9, <1>12, <1>15 DEF ServiceInv

(* Finalize, reached by a rank whose request is the closing one.           *)
LEMMA FinalizeServes ==
  ASSUME TypeOK, AgreeInv, ServiceInv, NEW r \in Rank,
         mode[r] = "in", At(r).op \in {"hdr", "arg"}, At(r).req \in 1 .. Len(reqs),
         reqs[At(r).req].type = "finalize_type", Finalize(r)
  PROVE  ServiceInv' /\ Service!Leave(r)
<1>0. root \in Rank
  BY NAssumption DEF root, Rank
<1>1. /\ mode' = [mode EXCEPT ![r] = "gone"]
      /\ UNCHANGED <<reqs, calls, ran, failed, left, recv_counts, rleft, replies>>
  BY DEF Finalize
<1>2. mode'[r] = "gone" /\ \A s \in Rank : s # r => mode'[s] = mode[s]
  BY <1>1 DEF TypeOK
<1>3. RanKept
  BY <1>1, RanStill
<1>4. \A s \in Rank : Cur(s)' = Cur(s) /\ At(s)' = At(s)
  BY <1>1 DEF Cur, At
<1>5. Votes'
  BY <1>1 DEF ServiceInv, Votes, Said, RunByAll, Sent, Threw
<1>6. Phase'
  <2>1. ASSUME NEW s \in Rank  PROVE Past(s)'
    BY <1>1, <1>2, <1>3, <1>4, PastStable DEF ServiceInv, Phase
  <2>. QED
    BY <2>1 DEF Phase
<1>7. Received'
  BY <1>0, <1>1, <1>2, <1>3, <1>4, ReceivedStable DEF ServiceInv
<1>8. /\ reqs[At(r).req] = FinalizeHdr /\ At(r).req = Len(reqs)
      /\ mode[root] # "user"
      /\ Len(reqs) \in Nat /\ Len(reqs) > 0
  BY WorkFacts DEF ServiceInv, Account, OnlyLast, TypeOK
<1>9. Len(ran[r]) = Len(reqs) - 1
  BY <1>8 DEF AgreeInv, Serving
<1>10. Len(replies) = Len(reqs) - 1
  BY <1>8 DEF ServiceInv, Account, Replied
<1>11. Account'
  <2>1. mode'[root] # "user"
    BY <1>0, <1>2, <1>8
  <2>2. OnlyLast'
    BY <1>1, <2>1 DEF ServiceInv, Account, OnlyLast
  <2>3. Replied'
    BY <1>1, <1>8, <1>10, <2>1 DEF Replied
  <2>4. Pace'
    BY <1>1 DEF ServiceInv, Account, Pace
  <2>5. ExitsServed'
    BY <1>1, <1>2, <1>8, <1>9, <1>10 DEF ServiceInv, Account, ExitsServed
  <2>. QED
    BY <2>2, <2>3, <2>4, <2>5 DEF Account
<1>12. Service!Closed /\ Service!Work = Len(reqs) - 1
  BY <1>8, WorkFacts DEF ServiceInv, Account
<1>13. {s \in Rank : mode'[s] = "gone"} = {s \in Rank : mode[s] = "gone"} \cup {r}
  BY <1>2
<1>14. Service!Leave(r)
  BY <1>1, <1>9, <1>12, <1>13 DEF Service!Leave
<1>. QED
  BY <1>5, <1>6, <1>7, <1>11, <1>14 DEF ServiceInv

LEMMA CallWptServes ==
  ASSUME TypeOK, AgreeInv, ServiceInv, NEW r \in Rank,
         mode[r] = "in", At(r) \in Call, At(r).op \in {"hdr", "arg"},
         At(r).req \in 1 .. Len(reqs), reqs[At(r).req].type # "finalize_type",
         failed' = failed, recv_counts' = recv_counts, CallWpt(r)
  PROVE  ServiceInv' /\ \E o \in Outcome : Service!Run(r, o)
<1>0. PICK q \in 1 .. Len(reqs) : q = At(r).req
  OBVIOUS
<1>1. PICK o \in Outcome :
        /\ ran' = [ran EXCEPT ![r] = Append(@, o)]
        /\ Enter(r, "allreduce", q, 0, o.exc)
        /\ UNCHANGED <<mode, reqs, failed, left, recv_counts, rleft, replies>>
  BY <1>0 DEF CallWpt
<1>. DEFINE c == [op |-> "allreduce", req |-> q, pos |-> 0, val |-> o.exc]
<1>2. calls' = [calls EXCEPT ![r] = Append(@, c)]
  BY <1>1 DEF Enter
<1>4. Len(ran[r]) = q - 1 /\ q \in Nat \ {0} /\ reqs[q].type # "finalize_type"
  BY <1>0 DEF AgreeInv, Serving, Call, Called
<1>3. c \in Call /\ c.op = "allreduce" /\ c.req = q /\ c.val = o.exc
  BY <1>4 DEF Call, Called, Outcome
<1>. HIDE DEF c
<1>5. /\ ran' \in [Rank -> Seq(Outcome)] /\ Len(ran'[r]) = q /\ ran'[r][q] = o
      /\ \A s \in Rank \ {r} : ran'[s] = ran[s]
      /\ \A i \in 1 .. Len(ran[r]) : ran'[r][i] = ran[r][i]
  <2>1. ran \in [Rank -> Seq(Outcome)] /\ ran[r] \in Seq(Outcome)
    BY DEF TypeOK
  <2>2. /\ ran' \in [Rank -> Seq(Outcome)] /\ Len(ran'[r]) = Len(ran[r]) + 1
        /\ \A s \in Rank \ {r} : ran'[s] = ran[s]
    BY <1>1, <2>1, AppendRan
  <2>3. ran'[r] = Append(ran[r], o)
    BY <1>1, <2>1
  <2>. QED
    BY <1>4, <2>1, <2>2, <2>3
<1>6. RanKept
  <2>1. \A s \in Rank : Len(ran[s]) \in Nat
    BY DEF TypeOK
  <2>2. \A s \in Rank : Len(ran[s]) <= Len(ran'[s])
    BY <1>4, <1>5, <2>1
  <2>3. \A s \in Rank : \A i \in 1 .. Len(ran[s]) : ran'[s][i] = ran[s][i]
    BY <1>5
  <2>. QED
    BY <1>5, <2>2, <2>3 DEF RanKept
<1>7. At(r)' = c
  BY <1>2, <1>3, AtEnter
<1>8. Said(r, c)'
  BY <1>3, <1>4, <1>5 DEF Said
<1>9. Past(r)'
  BY <1>1, <1>3, <1>4, <1>7 DEF Past
<1>10. r = root => Received'
  BY <1>3, <1>7 DEF Received
<1>11. Votes' /\ Phase' /\ Received'
  BY <1>1, <1>2, <1>3, <1>6, <1>8, <1>9, <1>10, EnterServes DEF ServiceInv
<1>12. /\ reqs[q] # FinalizeHdr /\ Len(reqs) \in Nat
       /\ Service!Work = IF reqs[Len(reqs)] = FinalizeHdr THEN Len(reqs) - 1 ELSE Len(reqs)
  <2>1. Len(reqs) \in Nat /\ OnlyLast /\ Len(reqs) > 0
    BY <1>4 DEF ServiceInv, Account, TypeOK
  <2>. QED
    BY <1>4, <2>1, WorkFacts
<1>13. q <= Service!Work
  BY <1>4, <1>12
<1>14. Account'
  <2>1. OnlyLast' /\ Replied'
    BY <1>1 DEF ServiceInv, Account, OnlyLast, Replied
  <2>2. Pace'
    BY <1>1, <1>4, <1>5, <1>12 DEF ServiceInv, Account, Pace
  <2>3. ExitsServed'
    BY <1>1, <1>5 DEF ServiceInv, Account, ExitsServed
  <2>. QED
    BY <2>1, <2>2, <2>3 DEF Account
<1>15. Service!Run(r, o)
  BY <1>1, <1>4, <1>12, <1>13 DEF Service!Run
<1>. QED
  BY <1>11, <1>14, <1>15 DEF ServiceInv

(* What the reduction of the votes says to a rank that has left it.        *)
LEMMA VoteFacts ==
  ASSUME TypeOK, AgreeInv, Votes, NEW r \in Rank, Leaves(r, "allreduce")
  PROVE  /\ RunByAll(At(r).req) /\ Reduced(r) = Threw(At(r).req)
         /\ Len(ran[r]) = At(r).req
<1>1. /\ mode[r] = "in" /\ At(r).op = "allreduce" /\ At(r) = calls[r][Cur(r)]
      /\ Cur(r) \in 1 .. Len(calls[r]) /\ At(r) \in Call
      /\ Passed(r, Cur(r)) /\ At(r).req \in 1 .. Len(reqs)
  BY LeaveFacts
<1>2. ASSUME NEW t \in Rank
      PROVE  /\ At(r).req <= Len(ran[t])
             /\ calls[t][Cur(r)].val = ran[t][At(r).req].exc
  <2>1. Cur(r) \in 1 .. Len(calls[t])
    BY <1>1 DEF Passed, TypeOK
  <2>2. calls[t][Cur(r)].op = "allreduce" /\ calls[t][Cur(r)].req = At(r).req
    BY <1>1, <2>1 DEF AgreeInv, CollectivesAgree, TypeOK
  <2>. QED
    BY <2>1, <2>2 DEF Votes, Said
<1>. QED
  BY <1>1, <1>2 DEF RunByAll, Reduced, AnyVote, Threw, AgreeInv, Serving

(* r goes on to the next collective of its request; nothing is run.        *)
LEMMA OnServes ==
  ASSUME TypeOK, AgreeInv, ServiceInv, NEW r \in Rank, NEW c \in Call,
         calls' = [calls EXCEPT ![r] = Append(@, c)],
         UNCHANGED <<reqs, ran, replies, mode>>,
         \A s \in Rank \ {r} : failed'[s] = failed[s],
         Said(r, c), c.op \notin {"hdr", "arg"} => Past(r)',
         r = root /\ c.op \in {"gatherv", "done"} =>
           \A s \in Rank : recv_counts'[s] = Sent(c.req, s),
         r # root => recv_counts' = recv_counts
  PROVE  ServiceInv' /\ UNCHANGED Service!svars
<1>1. RanKept
  BY RanStill
<1>2. At(r)' = c
  BY AtEnter
<1>3. Said(r, c)'
  BY DEF Said, RunByAll, Sent, Threw
<1>4. Past(r)'
  BY <1>2 DEF Past
<1>5. r = root => Received'
  BY <1>2 DEF Received, Sent, Threw
<1>6. Votes' /\ Phase' /\ Received'
  BY <1>1, <1>3, <1>4, <1>5, EnterServes DEF ServiceInv
<1>7. Account' /\ UNCHANGED Service!svars
  BY AccountStill DEF ServiceInv
<1>. QED
  BY <1>6, <1>7 DEF ServiceInv

(* The root hands the caller the reply to the request all ranks have run.  *)
LEMMA EndServesRoot ==
  ASSUME TypeOK, AgreeInv, ServiceInv, NEW reply, NEW q \in 1 .. Len(reqs),
         mode[root] = "in", q = At(root).req, At(root).op \notin {"hdr", "arg"},
         RunByAll(q), \A s \in Rank \ {root} : failed'[s] = failed[s],
         EndRequest(root, reply),
         reply = Service!Reply(reqs[q], [t \in Rank |-> ran[t][q]])
  PROVE  ServiceInv' /\ Service!Return
<1>0. root \in Rank
  BY NAssumption DEF root, Rank
<1>1. /\ replies' = Append(replies, reply) /\ mode' = [mode EXCEPT ![root] = "user"]
      /\ UNCHANGED <<calls, reqs, ran>>
  BY DEF EndRequest
<1>2. mode'[root] = "user" /\ \A s \in Rank : s # root => mode'[s] = mode[s]
  BY <1>0, <1>1 DEF TypeOK
<1>3. RanKept
  BY <1>1, RanStill
<1>4. \A s \in Rank : Cur(s)' = Cur(s) /\ At(s)' = At(s)
  BY <1>1 DEF Cur, At
<1>5. Votes'
  BY <1>1 DEF ServiceInv, Votes, Said, RunByAll, Sent, Threw
<1>6. Phase'
  <2>1. ASSUME NEW s \in Rank, s # root  PROVE Past(s)'
    BY <1>1, <1>2, <1>3, <1>4, <2>1, PastStable DEF ServiceInv, Phase
  <2>2. Past(root)'
    BY <1>2 DEF Past
  <2>. QED
    BY <2>1, <2>2 DEF Phase
<1>7. Received'
  BY <1>2 DEF Received
<1>8. /\ reqs[q].type # "finalize_type" /\ q = Len(reqs)
      /\ Len(reqs) \in Nat /\ Len(reqs) > 0
  BY <1>0 DEF ServiceInv, Phase, Past, AgreeInv, RootTurn, TypeOK
<1>9. /\ \A i \in 1 .. Len(reqs) : reqs[i] # FinalizeHdr
      /\ Service!Work = Len(reqs) /\ OnlyLast
  BY <1>8, WorkFacts DEF ServiceInv, Account, OnlyLast
<1>10. \A s \in Rank : mode[s] # "gone"
  BY <1>8, <1>9 DEF ServiceInv, Account, ExitsServed
<1>11. /\ Len(replies) = Len(reqs) - 1 /\ Len(replies') = Len(reqs)
  BY <1>1, <1>8 DEF ServiceInv, Account, Replied, TypeOK
<1>12. Account'
  <2>1. OnlyLast'
    BY <1>1, <1>9 DEF OnlyLast
  <2>2. Replied'
    BY <1>1, <1>2, <1>11 DEF Replied
  <2>3. Pace'
    BY <1>1 DEF ServiceInv, Account, Pace
  <2>4. ExitsServed'
    BY <1>2, <1>10 DEF ExitsServed
  <2>. QED
    BY <2>1, <2>2, <2>3, <2>4 DEF Account
<1>13. \A t \in Rank : Len(ran[t]) = Len(reqs)
  BY <1>8 DEF RunByAll, ServiceInv, Account, Pace, TypeOK
<1>14. {s \in Rank : mode'[s] = "gone"} = {s \in Rank : mode[s] = "gone"}
  BY <1>2, <1>10
<1>15. Service!Return
  BY <1>1, <1>8, <1>9, <1>11, <1>13, <1>14 DEF Service!Return, Service!Waiting
<1>. QED
  BY <1>5, <1>6, <1>7, <1>12, <1>15 DEF ServiceInv

(* A worker goes round to the next header.                                 *)
LEMMA EndServesWorker ==
  ASSUME TypeOK, AgreeInv, ServiceInv, NEW reply, NEW r \in Rank, r # root,
         mode[r] = "in", At(r) \in Call, recv_counts' = recv_counts,
         \A s \in Rank \ {r} : failed'[s] = failed[s], EndRequest(r, reply)
  PROVE  ServiceInv' /\ UNCHANGED Service!svars
<1>. DEFINE c == [op |-> "hdr", req |-> At(r).req + 1, pos |-> 0, val |-> FinalizeHdr]
<1>1. /\ calls' = [calls EXCEPT ![r] = Append(@, c)]
      /\ UNCHANGED <<reqs, ran, replies, mode>>
  BY DEF EndRequest, Enter
<1>2. c \in Call /\ c.op = "hdr"
  BY DEF Call, Called, rpc_header
<1>. HIDE DEF c
<1>3. Said(r, c)
  BY <1>2 DEF Said
<1>. QED
  BY <1>1, <1>2, <1>3, OnServes

(* What the engine does at the end of a request everybody has run.         *)
LEMMA EndServes ==
  ASSUME TypeOK, AgreeInv, ServiceInv, NEW reply, NEW r \in Rank, NEW q \in 1 .. Len(reqs),
         mode[r] = "in", q = At(r).req, At(r) \in Call, At(r).op \notin {"hdr", "arg"},
         RunByAll(q), \A s \in Rank \ {r} : failed'[s] = failed[s],
         recv_counts' = recv_counts, EndRequest(r, reply),
         r = root => reply = Service!Reply(reqs[q], [t \in Rank |-> ran[t][q]])
  PROVE  ServiceInv' /\ (Service!Return \/ UNCHANGED Service!svars)
BY EndServesRoot, EndServesWorker

Serves == ServiceInv' /\ (Service!Next \/ UNCHANGED Service!svars)

(* The argument's next chunk, or the call of the wrapper, or the end.      *)
LEMMA TakeArgServes ==
  ASSUME TypeOK, AgreeInv, ServiceInv, NEW r \in Rank, NEW h \in rpc_header, NEW pos \in Nat,
         mode[r] = "in", At(r) \in Call, At(r).op \in {"hdr", "arg"},
         At(r).req \in 1 .. Len(reqs), h = reqs[At(r).req], TakeArg(r, h, pos)
  PROVE  Serves
<1>1. CASE pos < h.count
  <2>. DEFINE c == [op |-> "arg", req |-> At(r).req, pos |-> pos, val |-> 0]
  <2>1. /\ calls' = [calls EXCEPT ![r] = Append(@, c)]
        /\ UNCHANGED <<mode, reqs, ran, failed, left, recv_counts, rleft, replies>>
    BY <1>1 DEF TakeArg, Enter
  <2>2. c \in Call /\ c.op = "arg"
    BY DEF Call, Called
  <2>. HIDE DEF c
  <2>3. Said(r, c)
    BY <2>2 DEF Said
  <2>. QED
    BY <2>1, <2>2, <2>3, OnServes DEF Serves
<1>2. CASE ~ (pos < h.count) /\ h.type = "finalize_type"
  <2>1. Finalize(r)
    BY <1>2 DEF TakeArg
  <2>. QED
    BY <1>2, <2>1, FinalizeServes DEF Serves, Service!Next
<1>3. CASE ~ (pos < h.count) /\ h.type # "finalize_type"
  <2>1. CallWpt(r) /\ failed' = failed /\ recv_counts' = recv_counts
    BY <1>3 DEF TakeArg, CallWpt
  <2>. QED
    BY <1>3, <2>1, CallWptServes DEF Serves, Service!Next
<1>. QED
  BY <1>1, <1>2, <1>3

LEMMA LeaveHdrServes ==
  ASSUME TypeOK, AgreeInv, ServiceInv, NEW r \in Rank, LeaveHdr(r)
  PROVE  Serves
<1>0. root \in Rank
  BY NAssumption DEF root, Rank
<1>1. Leaves(r, "hdr") /\ TakeArg(r, Bcasted(r), 0)
  BY DEF LeaveHdr
<1>2. /\ mode[r] = "in" /\ At(r).op = "hdr" /\ At(r) = calls[r][Cur(r)]
      /\ Cur(r) \in 1 .. Len(calls[r]) /\ At(r) \in Call
      /\ Passed(r, Cur(r)) /\ At(r).req \in 1 .. Len(reqs)
  BY <1>1, LeaveFacts
<1>3. Bcasted(r) = reqs[At(r).req]
  <2>1. Cur(r) \in 1 .. Len(calls[root])
    BY <1>0, <1>2 DEF Passed, Bcasts, TypeOK
  <2>2. calls[root][Cur(r)].op = "hdr" /\ calls[root][Cur(r)].req = At(r).req
    BY <1>0, <1>2, <2>1 DEF AgreeInv, CollectivesAgree, TypeOK
  <2>. QED
    BY <2>1, <2>2 DEF AgreeInv, RootCalls, Bcasted
<1>4. PICK h \in rpc_header : h = Bcasted(r)
  BY <1>2, <1>3 DEF TypeOK
<1>5. TakeArg(r, h, 0) /\ h = reqs[At(r).req]
  BY <1>1, <1>3, <1>4
<1>. QED
  BY <1>2, <1>5, TakeArgServes

LEMMA LeaveArgServes ==
  ASSUME TypeOK, AgreeInv, ServiceInv, NEW r \in Rank, LeaveArg(r)
  PROVE  Serves
<1>1. Leaves(r, "arg") /\ TakeArg(r, hdr[r], At(r).pos + MaxCount)
  BY DEF LeaveArg
<1>2. mode[r] = "in" /\ At(r).op = "arg" /\ At(r) \in Call /\ At(r).req \in 1 .. Len(reqs)
  BY <1>1, LeaveFacts
<1>3. hdr[r] = reqs[At(r).req] /\ hdr[r] \in rpc_header
  BY <1>2 DEF AgreeInv, Serving, TypeOK
<1>4. PICK pos \in Nat : pos = At(r).pos + MaxCount
  BY <1>2, MaxCountAssumption DEF Call, Called
<1>. QED
  BY <1>1, <1>2, <1>3, <1>4, TakeArgServes

(* The votes are in: r learns whether anybody threw.                       *)
LEMMA LeaveAllreduceServes ==
  ASSUME TypeOK, AgreeInv, ServiceInv, NEW r \in Rank, LeaveAllreduce(r)
  PROVE  Serves
<1>1. Leaves(r, "allreduce") /\ failed' = [failed EXCEPT ![r] = Reduced(r)]
  BY DEF LeaveAllreduce
<1>2. mode[r] = "in" /\ At(r).op = "allreduce" /\ At(r) \in Call /\ At(r).req \in 1 .. Len(reqs)
  BY <1>1, LeaveFacts
<1>3. PICK q \in 1 .. Len(reqs) : q = At(r).req
  BY <1>2
<1>4. RunByAll(q) /\ Reduced(r) = Threw(q) /\ Len(ran[r]) = q
  BY <1>1, <1>3, VoteFacts DEF ServiceInv
<1>5. hdr[r] = reqs[q] /\ reqs[q].type # "finalize_type" /\ q \in Nat \ {0}
  BY <1>2, <1>3 DEF AgreeInv, Serving, ServiceInv, Phase, Past, TypeOK
<1>6. /\ failed'[r] = Threw(q) /\ \A s \in Rank \ {r} : failed'[s] = failed[s]
  BY <1>1, <1>4 DEF TypeOK
<1>7. CASE Threw(q) \/ reqs[q].type = "bcast_rpc_type"
  <2>1. send_data_size(r, Reduced(r)) = Sent(q, r)
    BY <1>4 DEF send_data_size, Sent
  <2>2. /\ Enter(r, "gather", q, 0, Sent(q, r))
        /\ UNCHANGED <<reqs, hdr, ran, recv_counts, rleft, replies, mode>>
    BY <1>3, <1>4, <1>5, <1>7, <2>1 DEF LeaveAllreduce
  <2>3. ran[r][q] \in Outcome
    BY <1>4, <1>5 DEF TypeOK
  <2>4. PICK size \in Nat : size = Sent(q, r)
    BY <2>3, SizesAssumption DEF Sent, Outcome
  <2>. DEFINE c == [op |-> "gather", req |-> q, pos |-> 0, val |-> size]
  <2>5. calls' = [calls EXCEPT ![r] = Append(@, c)]
    BY <2>2, <2>4 DEF Enter
  <2>6. c \in Call /\ c.op = "gather" /\ c.req = q /\ c.val = size
    BY <1>5 DEF Call, Called
  <2>. HIDE DEF c
  <2>7. Said(r, c)
    BY <1>4, <2>4, <2>6 DEF Said
  <2>8. At(r)' = c
    BY <2>5, <2>6, AtEnter
  <2>9. Past(r)'
    BY <1>4, <1>5, <1>6, <1>7, <2>2, <2>6, <2>8 DEF Past, RunByAll, Threw
  <2>. QED
    BY <1>6, <2>2, <2>5, <2>6, <2>7, <2>9, OnServes DEF Serves
<1>8. CASE ~ (Threw(q) \/ reqs[q].type = "bcast_rpc_type")
  <2>1. PICK reply : reply = Answer(FALSE, [s \in Rank |-> 0])
    OBVIOUS
  <2>2. EndRequest(r, reply) /\ recv_counts' = recv_counts
    BY <1>4, <1>5, <1>8, <2>1 DEF LeaveAllreduce
  <2>3. reply = Service!Reply(reqs[q], [t \in Rank |-> ran[t][q]])
    BY <1>8, <2>1 DEF Answer, Threw, Service!Reply
  <2>. QED
    BY <1>2, <1>3, <1>4, <1>6, <2>2, <2>3, EndServes DEF Serves, Service!Next
<1>. QED
  BY <1>7, <1>8

(* The sizes are in.                                                       *)
LEMMA LeaveGatherServes ==
  ASSUME TypeOK, AgreeInv, ServiceInv, NEW r \in Rank, LeaveGather(r)
  PROVE  Serves
<1>1. /\ Leaves(r, "gather") /\ SendChunk(r, left[r])
      /\ IF r = root THEN recv_counts' = Gathered(r) ELSE recv_counts' = recv_counts
      /\ UNCHANGED <<reqs, ran, failed, replies, mode>>
  BY DEF LeaveGather
<1>2. /\ mode[r] = "in" /\ At(r).op = "gather" /\ At(r) \in Call /\ At(r) = calls[r][Cur(r)]
      /\ Cur(r) \in 1 .. Len(calls[r])
  BY <1>1, LeaveFacts
<1>3. PICK val \in Nat : val = each_count(left[r])
  BY ChunkType DEF TypeOK
<1>4. PICK q \in Nat \ {0} : q = At(r).req
  BY <1>2 DEF Call, Called
<1>. DEFINE c == [op |-> "gatherv", req |-> q, pos |-> 0, val |-> val]
<1>5. calls' = [calls EXCEPT ![r] = Append(@, c)]
  BY <1>1, <1>3, <1>4 DEF SendChunk, Enter
<1>6. c \in Call /\ c.op = "gatherv" /\ c.req = q
  BY DEF Call, Called
<1>. HIDE DEF c
<1>7. Said(r, c)
  BY <1>6 DEF Said
<1>8. At(r)' = c
  BY <1>5, <1>6, AtEnter
<1>9. Past(r)'
  BY <1>1, <1>2, <1>4, <1>6, <1>8 DEF ServiceInv, Phase, Past, RunByAll, Threw
<1>10. ASSUME r = root, NEW s \in Rank
       PROVE  recv_counts'[s] = Sent(q, s)
  <2>1. Cur(root) \in 1 .. Len(calls[s])
    BY <1>1, <1>2, <1>10 DEF Leaves, Awaited, Bcasts, TypeOK
  <2>2. calls[s][Cur(root)].op = "gather" /\ calls[s][Cur(root)].req = q
    BY <1>2, <1>4, <1>10, <2>1 DEF AgreeInv, CollectivesAgree, TypeOK
  <2>3. calls[s][Cur(root)].val = Sent(q, s)
    BY <2>1, <2>2 DEF ServiceInv, Votes, Said
  <2>. QED
    BY <1>1, <1>10, <2>3 DEF Gathered
<1>. QED
  BY <1>1, <1>5, <1>6, <1>7, <1>9, <1>10, OnServes DEF Serves

LEMMA LeaveGathervServes ==
  ASSUME TypeOK, AgreeInv, ServiceInv, NEW r \in Rank, LeaveGatherv(r)
  PROVE  Serves
<1>1. Leaves(r, "gatherv") /\ UNCHANGED <<reqs, ran, failed, recv_counts, replies, mode>>
  BY DEF LeaveGatherv
<1>2. mode[r] = "in" /\ At(r).op = "gatherv" /\ At(r) \in Call
  BY <1>1, LeaveFacts
<1>3. PICK q \in Nat \ {0} : q = At(r).req
  BY <1>2 DEF Call, Called
<1>4. PICK val \in BOOLEAN : Enter(r, "done", q, 0, val)
  BY <1>3 DEF LeaveGatherv
<1>. DEFINE c == [op |-> "done", req |-> q, pos |-> 0, val |-> val]
<1>5. calls' = [calls EXCEPT ![r] = Append(@, c)]
  BY <1>4 DEF Enter
<1>6. c \in Call /\ c.op = "done" /\ c.req = q
  BY DEF Call, Called
<1>. HIDE DEF c
<1>7. Said(r, c)
  BY <1>6 DEF Said
<1>8. At(r)' = c
  BY <1>5, <1>6, AtEnter
<1>9. Past(r)'
  BY <1>1, <1>2, <1>3, <1>6, <1>8 DEF ServiceInv, Phase, Past, RunByAll, Threw
<1>10. r = root => \A s \in Rank : recv_counts'[s] = Sent(q, s)
  BY <1>1, <1>2, <1>3 DEF ServiceInv, Received
<1>. QED
  BY <1>1, <1>5, <1>6, <1>7, <1>9, <1>10, OnServes DEF Serves

(* The last round is over, or another one begins.                          *)
LEMMA LeaveDoneServes ==
  ASSUME TypeOK, AgreeInv, ServiceInv, NEW r \in Rank, LeaveDone(r)
  PROVE  Serves
<1>1. Leaves(r, "done") /\ UNCHANGED <<failed, left, recv_counts, rleft>>
  BY DEF LeaveDone
<1>2. mode[r] = "in" /\ At(r).op = "done" /\ At(r) \in Call
  BY <1>1, LeaveFacts
<1>3. PICK q \in Nat \ {0} : q = At(r).req
  BY <1>2 DEF Call, Called
<1>4. /\ q \in 1 .. Len(reqs) /\ RunByAll(q) /\ failed[r] = Threw(q)
      /\ failed[r] \/ reqs[q].type = "bcast_rpc_type"
  BY <1>2, <1>3 DEF AgreeInv, Serving, ServiceInv, Phase, Past, TypeOK
<1>5. CASE Bcasted(r)
  <2>1. PICK reply : reply = Answer(failed[r], recv_counts)
    OBVIOUS
  <2>2. EndRequest(r, reply)
    BY <1>5, <2>1 DEF LeaveDone
  <2>3. ASSUME r = root
        PROVE  reply = Service!Reply(reqs[q], [t \in Rank |-> ran[t][q]])
    <3>1. \A s \in Rank : recv_counts[s] = Sent(q, s) /\ ran[s][q] \in Outcome
      BY <1>2, <1>3, <1>4, <2>3 DEF ServiceInv, Received, RunByAll, TypeOK
    <3>2. recv_counts = [s \in Rank |-> Sent(q, s)]
      BY <3>1 DEF TypeOK
    <3>3. CASE Threw(q)
      <4>1. {s \in Rank : recv_counts[s] > 0} = {s \in Rank : ran[s][q].exc /\ ran[s][q].size > 0}
        BY <3>1, <3>3, SizesAssumption DEF Sent, Outcome
      <4>. QED
        BY <1>4, <2>1, <3>3, <4>1 DEF Answer, Threw, Service!Reply
    <3>4. CASE ~ Threw(q)
      <4>1. recv_counts = [s \in Rank |-> ran[s][q].size]
        BY <3>2, <3>4 DEF Sent
      <4>. QED
        BY <1>4, <2>1, <3>4, <4>1 DEF Answer, Threw, Service!Reply
    <3>. QED
      BY <3>3, <3>4
  <2>. QED
    BY <1>1, <1>2, <1>3, <1>4, <2>2, <2>3, EndServes DEF Serves, Service!Next
<1>6. CASE ~ Bcasted(r)
  <2>1. SendChunk(r, left[r]) /\ UNCHANGED <<reqs, ran, replies, mode>>
    BY <1>6 DEF LeaveDone
  <2>2. PICK val \in Nat : val = each_count(left[r])
    BY ChunkType DEF TypeOK
  <2>. DEFINE c == [op |-> "gatherv", req |-> q, pos |-> 0, val |-> val]
  <2>3. calls' = [calls EXCEPT ![r] = Append(@, c)]
    BY <1>3, <2>1, <2>2 DEF SendChunk, Enter
  <2>4. c \in Call /\ c.op = "gatherv" /\ c.req = q
    BY DEF Call, Called
  <2>. HIDE DEF c
  <2>5. Said(r, c)
    BY <2>4 DEF Said
  <2>6. At(r)' = c
    BY <2>3, <2>4, AtEnter
  <2>7. Past(r)'
    BY <1>1, <1>2, <1>3, <2>1, <2>4, <2>6 DEF ServiceInv, Phase, Past, RunByAll, Threw
  <2>8. r = root => \A s \in Rank : recv_counts'[s] = Sent(q, s)
    BY <1>1, <1>2, <1>3 DEF ServiceInv, Received
  <2>. QED
    BY <1>1, <2>1, <2>3, <2>4, <2>5, <2>7, <2>8, OnServes DEF Serves
<1>. QED
  BY <1>5, <1>6

---------------------------------------------------------------------------
LEMMA InitServes == Init => ServiceInv /\ Service!Init
<1>. SUFFICES ASSUME Init  PROVE ServiceInv /\ Service!Init
  OBVIOUS
<1>1. /\ \A r \in Rank : r # root => Len(calls[r]) = 1 /\ calls[r][1].op = "hdr"
      /\ \A r \in Rank : r # root => At(r).op = "hdr"
      /\ root \in Rank /\ Len(calls[root]) = 0
      /\ mode[root] = "user" /\ \A r \in Rank : mode[r] # "gone"
      /\ Len(reqs) = 0 /\ Len(replies) = 0 /\ \A r \in Rank : Len(ran[r]) = 0
  BY NAssumption DEF Init, At, Cur, root, Rank
<1>2. Votes
  BY <1>1 DEF Votes, Said
<1>3. Phase /\ Received
  BY <1>1 DEF Phase, Past, Received
<1>4. Account
  BY <1>1 DEF Account, OnlyLast, Replied, Pace, ExitsServed
<1>5. {r \in Rank : mode[r] = "gone"} = {}
  BY <1>1
<1>6. Service!Init
  BY <1>5 DEF Init, Service!Init
<1>. QED
  BY <1>2, <1>3, <1>4, <1>6 DEF ServiceInv

LEMMA NextServes ==
  TypeOK /\ AgreeInv /\ ServiceInv /\ [Next]_vars => Serves
<1>. SUFFICES ASSUME TypeOK, AgreeInv, ServiceInv, [Next]_vars  PROVE Serves
  OBVIOUS
<1>1. ASSUME NEW h \in rpc_header, Issue(h)  PROVE Serves
  BY <1>1, IssueServes DEF Serves, Service!Next
<1>2. ASSUME NEW r \in Rank, Step(r)  PROVE Serves
  BY <1>2, LeaveHdrServes, LeaveArgServes, LeaveAllreduceServes, LeaveGatherServes,
     LeaveGathervServes, LeaveDoneServes DEF Step
<1>3. CASE UNCHANGED vars
  <2>1. UNCHANGED <<reqs, calls, hdr, ran, failed, left, recv_counts, rleft, replies, mode>>
    BY <1>3 DEF vars
  <2>2. Votes'
    BY <2>1 DEF ServiceInv, Votes, Said, RunByAll, Sent, Threw
  <2>3. Phase' /\ Received'
    BY <2>1 DEF ServiceInv, Phase, Past, Received, At, Cur, RunByAll, Sent, Threw
  <2>4. Account' /\ UNCHANGED Service!svars
    BY <2>1, AccountStill DEF ServiceInv
  <2>. QED
    BY <2>2, <2>3, <2>4 DEF ServiceInv, Serves
<1>. QED
  BY <1>1, <1>2, <1>3 DEF Next, AllExited

(* No process reaches MPI_Finalize owing anything: whatever the ranks      *)
(* throw, a rank that has left ran every request the program issued, and   *)
(* the program has had every reply (handle_req, finalizefrovedis).         *)
THEOREM RanksLeaveServed == Spec => []ExitsServed
<1>1. Init => TypeOK /\ AgreeInv /\ ServiceInv
  BY InitInv, InitServes
<1>2. TypeOK /\ AgreeInv /\ ServiceInv /\ [Next]_vars => (TypeOK /\ AgreeInv /\ ServiceInv)'
  BY NextInv, NextServes DEF Serves
<1>3. ServiceInv => ExitsServed
  BY DEF ServiceInv, Account
<1>. QED
  BY <1>1, <1>2, <1>3, PTL DEF Spec

(* bcast_rpc and bcast_rpc_oneway implement the service their callers      *)
(* count on: each request is run once by every rank, in order, before the  *)
(* call comes back with the outcomes of that very request, or with the     *)
(* names of the ranks that threw in it.                                    *)
THEOREM EngineImplementsService == Spec => ImplementsService
<1>1. Init => TypeOK /\ AgreeInv /\ ServiceInv /\ Service!Init
  BY InitInv, InitServes
<1>2. TypeOK /\ AgreeInv /\ ServiceInv /\ [Next]_vars
        => (TypeOK /\ AgreeInv /\ ServiceInv)' /\ [Service!Next]_(Service!svars)
  BY NextInv, NextServes DEF Serves
<1>. QED
  BY <1>1, <1>2, PTL DEF Spec, ImplementsService, Service!Spec

---------------------------------------------------------------------------
(* large_gatherv: the two sides stay in step.                              *)

LEMMA EnterChunk ==
  ASSUME TypeOK, Chunks, NEW r \in Rank, NEW c \in Call,
         calls' = [calls EXCEPT ![r] = Append(@, c)],
         \A s \in Rank \ {r} : left'[s] = left[s],
         c.op = "gather" => c.val = left'[r],
         c.op = "gatherv" =>
           /\ Cur(r) > 0 /\ c.val = each_count(left'[r])
           /\ At(r).op = "gather" => At(r).val = left'[r],
         c.op = "done" =>
           /\ Cur(r) > 1 /\ At(r).val = each_count(left'[r] + At(r).val)
           /\ calls[r][Cur(r) - 1].op = "gather" =>
                calls[r][Cur(r) - 1].val = left'[r] + At(r).val
  PROVE  Chunks'
<1>1. /\ Cur(r) \in Nat /\ Cur(r)' = Cur(r) + 1 /\ At(r)' = c
      /\ \A s \in Rank : s # r => /\ Cur(s)' = Cur(s) /\ At(s)' = At(s)
                                  /\ calls'[s] = calls[s]
      /\ \A k \in 1 .. Cur(r) : calls'[r][k] = calls[r][k]
  BY AtEnter
<1>2. ASSUME NEW s \in Rank, s # r, Cur(s)' > 0  PROVE Chunk(s)'
  <2>1. Cur(s)' = Cur(s) /\ At(s)' = At(s) /\ calls'[s] = calls[s] /\ left'[s] = left[s]
    BY <1>1, <1>2
  <2>2. Chunk(s)
    BY <1>2, <2>1 DEF Chunks
  <2>. QED
    BY <2>1, <2>2 DEF Chunk, each_count, Smaller, local_max_count
<1>3. Chunk(r)'
  <2>1. PICK K \in Nat : K = Cur(r)
    BY <1>1
  <2>2. PICK x : x = At(r) /\ x = calls[r][K]
    BY <2>1 DEF At
  <2>3. Cur(r)' = K + 1 /\ At(r)' = c /\ \A k \in 1 .. K : calls'[r][k] = calls[r][k]
    BY <1>1, <2>1
  <2>4. CASE c.op = "gather"
    BY <2>3, <2>4 DEF Chunk
  <2>5. CASE c.op = "gatherv"
    <3>1. K > 0 /\ c.val = each_count(left'[r]) /\ (x.op = "gather" => x.val = left'[r])
      BY <2>1, <2>2, <2>5
    <3>2. Cur(r)' - 1 = K /\ K \in 1 .. K
      BY <2>1, <2>3, <3>1
    <3>3. calls'[r][K] = x
      BY <2>2, <2>3, <3>2
    <3>4. calls'[r][Cur(r)' - 1] = x
      BY <3>2, <3>3
    <3>. QED
      BY <2>3, <2>5, <3>1, <3>4 DEF Chunk, each_count, Smaller, local_max_count
  <2>6. CASE c.op = "done"
    <3>1. PICK y : y = calls[r][K - 1]
      OBVIOUS
    <3>2. /\ K > 1 /\ x.val = each_count(left'[r] + x.val)
          /\ y.op = "gather" => y.val = left'[r] + x.val
      BY <2>1, <2>2, <2>6, <3>1
    <3>3. Cur(r)' - 1 = K /\ Cur(r)' - 2 = K - 1 /\ K \in 1 .. K /\ K - 1 \in 1 .. K
      BY <2>1, <2>3, <3>2
    <3>4. calls'[r][K] = x /\ calls'[r][K - 1] = y
      BY <2>2, <2>3, <3>1, <3>3
    <3>5. calls'[r][Cur(r)' - 1] = x /\ calls'[r][Cur(r)' - 2] = y
      BY <3>3, <3>4
    <3>. QED
      BY <2>3, <2>6, <3>2, <3>5 DEF Chunk
  <2>7. CASE c.op \notin {"gather", "gatherv", "done"}
    BY <2>3, <2>7 DEF Chunk
  <2>. QED
    BY <2>4, <2>5, <2>6, <2>7
<1>. QED
  BY <1>2, <1>3 DEF Chunks

LEMMA WithinKept ==
  ASSUME NEW s \in Rank, NEW M \in Nat, Within(s, M),
         calls'[s] = calls[s], left'[s] = left[s], rleft'[s] = rleft[s]
  PROVE  Within(s, M)'
BY DEF Within, At, Cur, each_count, Smaller, local_max_count

(* A rank that is past the header has its header before it.                *)
LEMMA HeaderBefore ==
  ASSUME TypeOK, AgreeInv, NEW r \in Rank, mode[r] = "in",
         At(r).op \notin {"hdr"}
  PROVE  Cur(r) > 1 /\ Cur(r) \in Nat
<1>1. Cur(r) \in Nat /\ Cur(r) > 0 /\ Cur(r) = Len(calls[r])
  BY DEF AgreeInv, Serving, TypeOK, Cur
<1>2. Label(calls[r][1]) = <<"hdr", 1, 0>>
  BY <1>1 DEF AgreeInv, Chained
<1>. QED
  BY <1>1, <1>2 DEF Label, At

LEMMA TakeArgChunks ==
  ASSUME TypeOK, Chunks, NEW r \in Rank, At(r) \in Call, NEW h, NEW pos \in Nat,
         TakeArg(r, h, pos)
  PROVE  Chunks' /\ (r = root => ~ InRounds')
<1>1. CASE calls' = calls /\ left' = left /\ mode' = [mode EXCEPT ![r] = "gone"]
  <2>1. Chunks'
    BY <1>1 DEF Chunks, Chunk, At, Cur, each_count, Smaller, local_max_count
  <2>2. mode'[r] = "gone"
    BY <1>1 DEF TypeOK
  <2>. QED
    BY <2>1, <2>2 DEF InRounds
<1>2. CASE \E c \in Call : /\ c.op \in {"arg", "allreduce"} /\ left' = left
                           /\ calls' = [calls EXCEPT ![r] = Append(@, c)]
  <2>1. PICK c \in Call : /\ c.op \in {"arg", "allreduce"} /\ left' = left
                          /\ calls' = [calls EXCEPT ![r] = Append(@, c)]
    BY <1>2
  <2>2. Chunks'
    BY <2>1, EnterChunk
  <2>3. At(r)' = c
    BY <2>1, AtEnter
  <2>. QED
    BY <2>1, <2>2, <2>3 DEF InRounds
<1>3. PICK q \in Nat \ {0} : q = At(r).req
  BY DEF Call, Called
<1>4. CASE pos < h.count
  <2>1. [op |-> "arg", req |-> q, pos |-> pos, val |-> 0] \in Call
    BY DEF Call, Called
  <2>2. left' = left /\ Enter(r, "arg", q, pos, 0)
    BY <1>3, <1>4 DEF TakeArg
  <2>. QED
    BY <1>2, <2>1, <2>2 DEF Enter
<1>5. CASE ~ (pos < h.count) /\ h.type = "finalize_type"
  BY <1>1, <1>5 DEF TakeArg, Finalize
<1>6. CASE ~ (pos < h.count) /\ h.type # "finalize_type"
  <2>1. PICK o \in Outcome : left' = left /\ Enter(r, "allreduce", q, 0, o.exc)
    BY <1>3, <1>6 DEF TakeArg, CallWpt
  <2>2. [op |-> "allreduce", req |-> q, pos |-> 0, val |-> o.exc] \in Call
    BY DEF Call, Called, Outcome
  <2>. QED
    BY <1>2, <2>1, <2>2 DEF Enter
<1>. QED
  BY <1>4, <1>5, <1>6

LEMMA EndChunks ==
  ASSUME TypeOK, Chunks, NEW r \in Rank, At(r) \in Call, NEW reply,
         EndRequest(r, reply), left'[r] = left[r] \/ r # root,
         \A s \in Rank \ {r} : left'[s] = left[s]
  PROVE  Chunks' /\ (r = root => ~ InRounds')
<1>1. CASE r = root
  <2>1. calls' = calls /\ mode' = [mode EXCEPT ![root] = "user"] /\ \A s \in Rank : left'[s] = left[s]
    BY <1>1 DEF EndRequest
  <2>2. Chunks'
    BY <2>1 DEF Chunks, Chunk, At, Cur, each_count, Smaller, local_max_count
  <2>3. mode'[root] = "user"
    BY <1>1, <2>1 DEF TypeOK
  <2>. QED
    BY <2>2, <2>3 DEF InRounds
<1>2. CASE r # root
  <2>. DEFINE c == [op |-> "hdr", req |-> At(r).req + 1, pos |-> 0, val |-> FinalizeHdr]
  <2>1. calls' = [calls EXCEPT ![r] = Append(@, c)]
    BY <1>2 DEF EndRequest, Enter
  <2>2. c \in Call /\ c.op = "hdr"
    BY DEF Call, Called, rpc_header
  <2>. HIDE DEF c
  <2>. QED
    BY <1>2, <2>1, <2>2, EnterChunk
<1>. QED
  BY <1>1, <1>2

LEMMA LeaveAllreduceChunks ==
  ASSUME TypeOK, AgreeInv, Chunks, NEW r \in Rank, LeaveAllreduce(r)
  PROVE  Chunks' /\ (r = root => ~ InRounds')
<1>1. mode[r] = "in" /\ At(r).op = "allreduce" /\ At(r) \in Call /\ At(r).req \in 1 .. Len(reqs)
  BY LeaveFacts DEF LeaveAllreduce
<1>2. CASE Reduced(r) \/ hdr[r].type = "bcast_rpc_type"
  <2>1. ran[r][Len(ran[r])] \in Outcome
    <3>1. Len(ran[r]) = At(r).req /\ At(r).req \in Nat \ {0}
      BY <1>1 DEF AgreeInv, Serving, Call, Called
    <3>. QED
      BY <3>1 DEF TypeOK
  <2>2. PICK size \in Nat : size = send_data_size(r, Reduced(r))
    BY <2>1, SizesAssumption DEF send_data_size, Outcome
  <2>3. PICK q \in Nat \ {0} : q = At(r).req
    BY <1>1 DEF Call, Called
  <2>. DEFINE c == [op |-> "gather", req |-> q, pos |-> 0, val |-> size]
  <2>4. /\ left' = [left EXCEPT ![r] = size]
        /\ calls' = [calls EXCEPT ![r] = Append(@, c)]
    BY <1>2, <2>2, <2>3 DEF LeaveAllreduce, Enter
  <2>5. c \in Call /\ c.op = "gather" /\ c.val = size
    BY DEF Call, Called
  <2>. HIDE DEF c
  <2>6. left'[r] = size /\ \A s \in Rank \ {r} : left'[s] = left[s]
    BY <2>4 DEF TypeOK
  <2>7. Chunks'
    BY <2>4, <2>5, <2>6, EnterChunk
  <2>8. At(r)' = c
    BY <2>4, <2>5, AtEnter
  <2>. QED
    BY <2>5, <2>7, <2>8 DEF InRounds
<1>3. CASE ~ (Reduced(r) \/ hdr[r].type = "bcast_rpc_type")
  <2>1. PICK reply : EndRequest(r, reply) /\ left' = left
    BY <1>3 DEF LeaveAllreduce
  <2>. QED
    BY <1>1, <2>1, EndChunks
<1>. QED
  BY <1>2, <1>3

(* A round of large_gatherv begins with the next chunk.                    *)
LEMMA SendChunkChunks ==
  ASSUME TypeOK, AgreeInv, Chunks, NEW r \in Rank, mode[r] = "in", At(r) \in Call,
         At(r).op \in {"gather", "done"}, SendChunk(r, left[r]), left' = left
  PROVE  /\ Chunks' /\ Cur(r)' = Cur(r) + 1 /\ At(r)'.op = "gatherv"
         /\ \A k \in 1 .. Cur(r) : calls'[r][k] = calls[r][k]
<1>1. PICK val \in Nat : val = each_count(left[r])
  BY ChunkType DEF TypeOK
<1>2. PICK q \in Nat \ {0} : q = At(r).req
  BY DEF Call, Called
<1>. DEFINE c == [op |-> "gatherv", req |-> q, pos |-> 0, val |-> val]
<1>3. calls' = [calls EXCEPT ![r] = Append(@, c)]
  BY <1>1, <1>2 DEF SendChunk, Enter
<1>4. c \in Call /\ c.op = "gatherv" /\ c.val = val
  BY DEF Call, Called
<1>. HIDE DEF c
<1>5. Cur(r) > 1 /\ Cur(r) \in Nat
  BY HeaderBefore
<1>6. At(r).op = "gather" => At(r).val = left[r]
  BY <1>5 DEF Chunks, Chunk
<1>7. /\ \A s \in Rank \ {r} : left'[s] = left[s]
      /\ Cur(r) > 0 /\ c.val = each_count(left'[r])
      /\ At(r).op = "gather" => At(r).val = left'[r]
  BY <1>1, <1>4, <1>5, <1>6
<1>8. c.op # "gather" /\ c.op # "done"
  BY <1>4
<1>9. Chunks'
  BY <1>3, <1>4, <1>7, <1>8, EnterChunk
<1>. QED
  BY <1>3, <1>4, <1>9, AtEnter

(* ... and goes on to done with that much less to send.                    *)
LEMMA LeaveGathervChunks ==
  ASSUME TypeOK, AgreeInv, Chunks, NEW r \in Rank, LeaveGatherv(r)
  PROVE  /\ Chunks' /\ Cur(r) \in Nat /\ Cur(r)' = Cur(r) + 1 /\ At(r)'.op = "done"
         /\ r = root => At(r)'.val = \A s \in Rank : rleft'[s] = 0
         /\ left'[r] = left[r] - each_count(left[r])
         /\ \A k \in 1 .. Cur(r) : calls'[r][k] = calls[r][k]
<1>1. mode[r] = "in" /\ At(r).op = "gatherv" /\ At(r) \in Call
  BY LeaveFacts DEF LeaveGatherv
<1>2. Cur(r) > 1 /\ Cur(r) \in Nat
  BY <1>1, HeaderBefore
<1>3. PICK q \in Nat \ {0} : q = At(r).req
  BY <1>1 DEF Call, Called
<1>4. PICK val \in BOOLEAN :
        Enter(r, "done", q, 0, val) /\ (r = root => val = \A s \in Rank : rleft'[s] = 0)
  BY <1>3 DEF LeaveGatherv
<1>. DEFINE c == [op |-> "done", req |-> q, pos |-> 0, val |-> val]
<1>5. calls' = [calls EXCEPT ![r] = Append(@, c)]
  BY <1>4 DEF Enter
<1>6. c \in Call /\ c.op = "done" /\ c.val = val
  BY DEF Call, Called
<1>. HIDE DEF c
<1>7. PICK n \in Nat : n = each_count(left[r]) /\ left[r] - n \in Nat
  BY ChunkType DEF TypeOK
<1>8. left'[r] = left[r] - n /\ \A s \in Rank \ {r} : left'[s] = left[s] /\ left[r] \in Nat
  BY <1>7 DEF LeaveGatherv, TypeOK
<1>9. /\ At(r).val = n
      /\ calls[r][Cur(r) - 1].op = "gather" => calls[r][Cur(r) - 1].val = left[r]
  BY <1>1, <1>2, <1>7 DEF Chunks, Chunk
<1>10. left'[r] + At(r).val = left[r]
  BY <1>7, <1>8, <1>9 DEF TypeOK
<1>11. Chunks'
  BY <1>2, <1>5, <1>6, <1>7, <1>8, <1>9, <1>10, EnterChunk
<1>. QED
  BY <1>2, <1>4, <1>5, <1>6, <1>7, <1>8, <1>11, AtEnter

(* A rank moves alone; only the root touches rleft.                        *)
LEMMA StepFrame ==
  ASSUME TypeOK, NEW r \in Rank, Step(r)
  PROVE  /\ \A s \in Rank \ {r} : calls'[s] = calls[s] /\ left'[s] = left[s] /\ mode'[s] = mode[s]
         /\ r # root => rleft' = rleft
<1>1. /\ calls \in [Rank -> Seq(Call)] /\ left \in [Rank -> Nat]
      /\ mode \in [Rank -> {"user", "in", "gone"}]
  BY DEF TypeOK
<1>2. \A op, q, pos, val : Enter(r, op, q, pos, val) => \A s \in Rank \ {r} : calls'[s] = calls[s]
  BY <1>1 DEF Enter
<1>3. ASSUME NEW h, NEW pos, TakeArg(r, h, pos)
      PROVE  /\ \A s \in Rank \ {r} : calls'[s] = calls[s] /\ mode'[s] = mode[s]
             /\ left' = left /\ rleft' = rleft
  BY <1>1, <1>2, <1>3 DEF TakeArg, Finalize, CallWpt
<1>4. ASSUME NEW reply, EndRequest(r, reply)
      PROVE  \A s \in Rank \ {r} : calls'[s] = calls[s] /\ mode'[s] = mode[s]
  BY <1>1, <1>2, <1>4 DEF EndRequest
<1>5. CASE LeaveHdr(r)
  BY <1>3, <1>5 DEF LeaveHdr
<1>6. CASE LeaveArg(r)
  BY <1>3, <1>6 DEF LeaveArg
<1>7. CASE LeaveAllreduce(r)
  BY <1>1, <1>2, <1>4, <1>7 DEF LeaveAllreduce
<1>8. CASE LeaveGather(r)
  BY <1>1, <1>2, <1>8 DEF LeaveGather, SendChunk
<1>9. CASE LeaveGatherv(r)
  BY <1>1, <1>2, <1>9 DEF LeaveGatherv
<1>10. CASE LeaveDone(r)
  BY <1>1, <1>2, <1>4, <1>10 DEF LeaveDone, SendChunk
<1>. QED
  BY <1>5, <1>6, <1>7, <1>8, <1>9, <1>10 DEF Step

(* Between the rounds of a gather the root's done says FALSE.              *)
LEMMA RoundFacts ==
  ASSUME TypeOK, AgreeInv, InRounds
  PROVE  /\ root \in Rank /\ Round \in Nat /\ Round > 2 /\ Cur(root) \in Nat /\ Cur(root) <= Round
         /\ \A s \in Rank : Cur(s) \in Nat /\ Cur(s) = Round - 1 /\ At(s).op = "done"
                              => ~ calls[root][Round - 1].val
<1>1. root \in Rank
  BY NAssumption DEF root, Rank
<1>2. Cur(root) > 1 /\ Cur(root) \in Nat
  BY <1>1, HeaderBefore DEF InRounds
<1>3. CASE At(root).op = "gatherv"
  <2>1. PICK K \in Nat : K = Cur(root) /\ K > 1
    BY <1>2
  <2>2. /\ Passed(root, K - 1) /\ Label(calls[root][K]) = NextLabel(root, K - 1)
        /\ calls[root][K - 1] \in Call /\ K - 1 \in 1 .. Len(calls[root])
    <3>1. K - 1 \in 1 .. Len(calls[root]) - 1 /\ Len(calls[root]) = K
      BY <2>1 DEF Cur
    <3>2. Label(calls[root][K - 1 + 1]) = NextLabel(root, K - 1) /\ Passed(root, K - 1)
      BY <1>1, <3>1 DEF AgreeInv, Chained
    <3>. QED
      BY <1>1, <2>1, <3>1, <3>2 DEF TypeOK
  <2>3. calls[root][K].op = "gatherv"
    BY <1>3, <2>1 DEF At
  <2>4. calls[root][K - 1].op \in {"gather", "done"}
    BY <2>2, <2>3 DEF Label, NextLabel, ArgOrVote, Call, Called
  <2>5. K # 2
    <3>1. Label(calls[root][1]) = <<"hdr", 1, 0>>
      BY <1>1, <2>1 DEF AgreeInv, Chained, Cur
    <3>. QED
      BY <2>4, <3>1 DEF Label
  <2>6. calls[root][K - 1].op = "done" => ~ calls[root][K - 1].val
    BY <2>2, <2>3 DEF Label, NextLabel
  <2>7. ASSUME NEW s \in Rank, Cur(s) = K - 1, At(s).op = "done"
        PROVE  calls[root][K - 1].op = "done"
    <3>1. K - 1 \in DOMAIN calls[s] /\ K - 1 \in DOMAIN calls[root] /\ calls[s][K - 1].op = "done"
      BY <1>1, <2>1, <2>2, <2>7 DEF Cur, At, TypeOK
    <3>. QED
      BY <1>1, <3>1 DEF AgreeInv, CollectivesAgree
  <2>. QED
    BY <1>1, <1>3, <2>1, <2>5, <2>6, <2>7 DEF Round
<1>4. CASE At(root).op # "gatherv"
  BY <1>1, <1>2, <1>4 DEF InRounds, Round, At
<1>. QED
  BY <1>3, <1>4

(* A worker stays in the round, while the root waits.                      *)
LEMMA WorkerRounds ==
  ASSUME TypeOK, AgreeInv, GatherInv, NEW r \in Rank, r # root, Step(r)
  PROVE  Rounds'
<1>0. root \in Rank
  BY NAssumption DEF root, Rank
<1>1. /\ \A s \in Rank \ {r} : calls'[s] = calls[s] /\ left'[s] = left[s] /\ mode'[s] = mode[s]
      /\ rleft' = rleft
  BY StepFrame
<1>2. InRounds' = InRounds /\ Round' = Round
  BY <1>0, <1>1 DEF InRounds, Round, At, Cur
<1>3. SUFFICES ASSUME InRounds  PROVE \A s \in Rank : Within(s, Round)'
  BY <1>2 DEF Rounds
<1>4. PICK M \in Nat : M = Round /\ M > 2 /\ Cur(root) <= M
  BY <1>3, RoundFacts
<1>5. \A s \in Rank : Within(s, M)
  BY <1>3, <1>4 DEF GatherInv, Rounds
<1>6. \A s \in Rank \ {r} : Within(s, M)'
  BY <1>1, <1>5, WithinKept
<1>7. Cur(r) \in Nat /\ left[r] \in Nat /\ rleft[r] \in Nat
  BY DEF Cur, TypeOK
<1>8. At(r).op \in {"gather", "gatherv", "done"}
  BY <1>5 DEF Within
<1>9. CASE LeaveGather(r)
  <2>1. Leaves(r, "gather") /\ SendChunk(r, left[r]) /\ left' = left
    BY <1>9 DEF LeaveGather
  <2>2. mode[r] = "in" /\ At(r).op = "gather" /\ At(r) \in Call
    BY <2>1, LeaveFacts
  <2>3. Cur(r)' = Cur(r) + 1 /\ At(r)'.op = "gatherv"
    BY <2>1, <2>2, SendChunkChunks DEF GatherInv
  <2>4. Cur(r) = M - 1 /\ left[r] = rleft[r]
    BY <1>4, <1>5, <2>2 DEF Within
  <2>5. Cur(r)' = M
    BY <1>4, <2>3, <2>4
  <2>. QED
    BY <1>1, <1>4, <1>2, <1>6, <2>1, <2>3, <2>4, <2>5 DEF Within
<1>10. CASE LeaveDone(r)
  <2>1. Leaves(r, "done") /\ left' = left
    BY <1>10 DEF LeaveDone
  <2>2. mode[r] = "in" /\ At(r).op = "done" /\ At(r) \in Call
    BY <2>1, LeaveFacts
  <2>3. Cur(r) <= Cur(root)
    BY <1>0, <2>1, <2>2 DEF Leaves, Awaited, Bcasts, Cur
  <2>4. Cur(r) = M - 1 /\ left[r] = rleft[r]
    BY <1>0, <1>3, <1>4, <1>5, <1>7, <2>2, <2>3, RoundFacts DEF Within
  <2>5. ~ calls[root][M - 1].val
    BY <1>3, <1>4, <1>7, <2>2, <2>4, RoundFacts
  <2>6. SendChunk(r, left[r])
    BY <1>10, <2>4, <2>5 DEF LeaveDone, Bcasted
  <2>7. Cur(r)' = Cur(r) + 1 /\ At(r)'.op = "gatherv"
    BY <2>1, <2>2, <2>6, SendChunkChunks DEF GatherInv
  <2>8. Cur(r)' = M
    BY <1>4, <2>4, <2>7
  <2>. QED
    BY <1>1, <1>4, <1>2, <1>6, <2>1, <2>4, <2>7, <2>8 DEF Within
<1>11. CASE LeaveGatherv(r)
  <2>1. mode[r] = "in" /\ At(r).op = "gatherv" /\ At(r) \in Call
    BY <1>11, LeaveFacts DEF LeaveGatherv
  <2>2. /\ Cur(r)' = Cur(r) + 1 /\ At(r)'.op = "done"
        /\ left'[r] = left[r] - each_count(left[r])
        /\ \A k \in 1 .. Cur(r) : calls'[r][k] = calls[r][k]
    BY <1>11, LeaveGathervChunks DEF GatherInv
  <2>3. CASE Cur(r) = M - 2 /\ left[r] - each_count(left[r]) = rleft[r]
    <3>1. Cur(r)' = M - 1 /\ left'[r] = rleft'[r]
      BY <1>1, <1>4, <2>2, <2>3
    <3>. QED
      BY <1>2, <1>4, <1>6, <2>2, <3>1 DEF Within
  <2>4. CASE Cur(r) = M /\ left[r] = rleft[r]
    <3>1. Cur(r)' = M + 1 /\ M \in 1 .. Cur(r)
      BY <1>4, <2>2, <2>4
    <3>2. calls[r][M].val = each_count(left[r])
      BY <1>4, <2>1, <2>4 DEF GatherInv, Chunks, Chunk, At
    <3>3. /\ calls'[r][M].val = each_count(rleft'[r])
          /\ left'[r] = rleft'[r] - each_count(rleft'[r])
      BY <1>1, <2>2, <2>4, <3>1, <3>2
    <3>. QED
      BY <1>2, <1>4, <1>6, <2>2, <3>1, <3>3 DEF Within
  <2>. QED
    BY <1>5, <2>1, <2>3, <2>4 DEF Within
<1>. QED
  BY <1>8, <1>9, <1>10, <1>11 DEF Step, LeaveHdr, LeaveArg, LeaveAllreduce, Leaves

(* How far a rank can be once the root may leave its gather at K.          *)
LEMMA AheadOfGather ==
  ASSUME TypeOK, AgreeInv, Chunks, NEW s \in Rank, NEW K \in Nat,
         root \in Rank, Cur(root) = K, calls[root][K].op = "gather", K > 1, K <= Cur(s)
  PROVE  LET sent == calls[s][K].val
         IN  \/ Cur(s) = K /\ At(s).op = "gather" /\ left[s] = sent
             \/ Cur(s) = K + 1 /\ At(s).op = "gatherv" /\ left[s] = sent
             \/ /\ Cur(s) = K + 2 /\ At(s).op = "done"
                /\ calls[s][K + 1].val = each_count(sent) /\ left[s] = sent - each_count(sent)
<1>1. /\ Len(calls[s]) \in Nat /\ Len(calls[root]) = K /\ Cur(s) = Len(calls[s])
      /\ K \in DOMAIN calls[s] /\ K \in DOMAIN calls[root] /\ calls[s] \in Seq(Call)
  BY DEF Cur, TypeOK
<1>2. calls[s][K].op = "gather"
  BY <1>1 DEF AgreeInv, CollectivesAgree
<1>3. Chunk(s)
  BY <1>1 DEF Chunks
<1>4. \A k \in 1 .. Len(calls[s]) - 1 : Passed(s, k) /\ Label(calls[s][k + 1]) = NextLabel(s, k)
  BY DEF AgreeInv, Chained
<1>5. CASE Cur(s) = K
  BY <1>2, <1>3, <1>5 DEF Chunk, At
<1>6. ASSUME Cur(s) > K  PROVE calls[s][K + 1].op = "gatherv"
  <2>1. Label(calls[s][K + 1]) = NextLabel(s, K)
    BY <1>1, <1>4, <1>6
  <2>. QED
    BY <1>2, <2>1 DEF Label, NextLabel
<1>7. ASSUME Cur(s) > K + 1  PROVE calls[s][K + 2].op = "done"
  <2>1. K + 1 \in 1 .. Len(calls[s]) - 1 /\ K + 1 + 1 = K + 2
    BY <1>1, <1>7
  <2>2. Label(calls[s][K + 2]) = NextLabel(s, K + 1)
    BY <1>4, <2>1
  <2>. QED
    BY <1>1, <1>6, <1>7, <2>2 DEF Label, NextLabel
<1>8. CASE Cur(s) = K + 1
  <2>1. At(s).op = "gatherv" /\ Cur(s) - 1 = K
    BY <1>1, <1>6, <1>8 DEF At
  <2>. QED
    BY <1>2, <1>3, <1>8, <2>1 DEF Chunk
<1>9. CASE Cur(s) = K + 2
  <2>1. At(s).op = "done" /\ Cur(s) - 1 = K + 1 /\ Cur(s) - 2 = K
    BY <1>1, <1>7, <1>9 DEF At
  <2>2. PICK n : n = calls[s][K + 1].val
    OBVIOUS
  <2>3. n = each_count(left[s] + n) /\ calls[s][K].val = left[s] + n
    BY <1>2, <1>3, <2>1, <2>2 DEF Chunk
  <2>4. n \in Nat /\ left[s] \in Nat
    <3>1. K + 1 \in 1 .. Len(calls[s])
      BY <1>1, <1>9
    <3>2. calls[s][K + 1] \in Call
      BY <1>1, <3>1
    <3>3. calls[s][K + 1].op = "gatherv"
      BY <1>1, <1>6, <1>9
    <3>. QED
      BY <2>2, <3>2, <3>3 DEF Call, Called, TypeOK
  <2>5. left[s] = calls[s][K].val - n
    BY <2>3, <2>4
  <2>. QED
    BY <1>9, <2>1, <2>2, <2>3, <2>5
<1>10. ~ (Cur(s) > K + 2)
  <2>1. SUFFICES ASSUME Cur(s) > K + 2  PROVE FALSE
    OBVIOUS
  <2>2. K + 2 \in 1 .. Len(calls[s]) - 1 /\ calls[s][K + 2].op = "done"
    BY <1>1, <1>7, <2>1
  <2>3. K + 2 <= Len(calls[root])
    BY <1>4, <2>2 DEF Passed, Bcasts
  <2>. QED
    BY <1>1, <2>3
<1>11. Cur(s) \in Nat
  BY <1>1
<1>. QED
  BY <1>5, <1>8, <1>9, <1>10, <1>11

(* The root has the sizes: the rounds begin.                               *)
LEMMA RootGather ==
  ASSUME TypeOK, AgreeInv, GatherInv, root \in Rank, LeaveGather(root)
  PROVE  Rounds'
<1>1. /\ Leaves(root, "gather") /\ SendChunk(root, left[root]) /\ left' = left /\ mode' = mode
      /\ rleft' = [s \in Rank |-> calls[s][Cur(root)].val]
  BY DEF LeaveGather, Gathered
<1>2. mode[root] = "in" /\ At(root).op = "gather" /\ At(root) \in Call
  BY <1>1, LeaveFacts
<1>3. PICK K \in Nat : K = Cur(root) /\ K > 1
  BY <1>2, HeaderBefore
<1>4. /\ Cur(root)' = K + 1 /\ At(root)'.op = "gatherv"
      /\ \A k \in 1 .. K : calls'[root][k] = calls[root][k]
  BY <1>1, <1>2, <1>3, SendChunkChunks DEF GatherInv
<1>5. \A s \in Rank \ {root} : calls'[s] = calls[s]
  BY StepFrame DEF Step
<1>6. Round' = K + 1
  BY <1>4 DEF Round
<1>7. calls[root][K].op = "gather" /\ \A s \in Rank : K <= Cur(s)
  BY <1>1, <1>2, <1>3 DEF At, Cur, Leaves, Awaited, Bcasts
<1>8. ASSUME NEW s \in Rank, s # root  PROVE Within(s, K + 1)'
  <2>1. PICK x : x = calls[s][K].val
    OBVIOUS
  <2>2. Cur(s)' = Cur(s) /\ At(s)' = At(s) /\ calls'[s] = calls[s] /\ rleft'[s] = x /\ left'[s] = left[s]
    BY <1>1, <1>3, <1>5, <1>8, <2>1 DEF Cur, At
  <2>3. \/ Cur(s) = K /\ At(s).op = "gather" /\ left[s] = x
        \/ Cur(s) = K + 1 /\ At(s).op = "gatherv" /\ left[s] = x
        \/ /\ Cur(s) = K + 2 /\ At(s).op = "done"
           /\ calls[s][K + 1].val = each_count(x) /\ left[s] = x - each_count(x)
    BY <1>3, <1>7, <2>1, AheadOfGather DEF GatherInv
  <2>4. K + 1 - 1 = K /\ K + 1 + 1 = K + 2
    OBVIOUS
  <2>. QED
    BY <2>2, <2>3, <2>4 DEF Within
<1>9. Within(root, K + 1)'
  <2>1. left'[root] = rleft'[root]
    BY <1>1, <1>2, <1>3, <1>7 DEF GatherInv, Chunks, Chunk, At
  <2>. QED
    BY <1>4, <2>1 DEF Within
<1>. QED
  BY <1>6, <1>8, <1>9 DEF Rounds

(* The root has a chunk of everybody: everybody has sent it.               *)
LEMMA RootGatherv ==
  ASSUME TypeOK, AgreeInv, GatherInv, root \in Rank, LeaveGatherv(root)
  PROVE  Rounds'
<1>1. /\ Leaves(root, "gatherv") /\ mode' = mode
      /\ rleft' = [s \in Rank |-> rleft[s] - each_count(rleft[s])]
  BY DEF LeaveGatherv
<1>2. mode[root] = "in" /\ At(root).op = "gatherv"
  BY <1>1, LeaveFacts
<1>3. InRounds /\ Round = Cur(root)
  BY <1>2 DEF InRounds, Round
<1>4. PICK M \in Nat : M = Cur(root) /\ M > 2
  BY <1>3, RoundFacts
<1>5. /\ Cur(root)' = M + 1 /\ At(root)'.op = "done"
      /\ left'[root] = left[root] - each_count(left[root])
  BY <1>4, LeaveGathervChunks DEF GatherInv
<1>6. \A s \in Rank \ {root} : calls'[s] = calls[s] /\ left'[s] = left[s]
  BY StepFrame DEF Step
<1>7. Round' = M + 2
  BY <1>5 DEF Round
<1>8. \A s \in Rank : M <= Cur(s)
  BY <1>1, <1>2, <1>4 DEF Cur, Leaves, Awaited, Bcasts
<1>9. ASSUME NEW s \in Rank
      PROVE  \/ Cur(s) = M /\ At(s).op = "gatherv" /\ left[s] = rleft[s]
             \/ /\ Cur(s) = M + 1 /\ At(s).op = "done"
                /\ left[s] = rleft[s] - each_count(rleft[s])
  <2>1. Within(s, M)
    BY <1>3, <1>4 DEF GatherInv, Rounds
  <2>2. M <= Cur(s) /\ Cur(s) # M - 1 /\ Cur(s) # M - 2
    BY <1>8
  <2>. QED
    BY <2>1, <2>2 DEF Within
<1>10. \A s \in Rank : rleft'[s] = rleft[s] - each_count(rleft[s])
  BY <1>1
<1>11. M + 2 - 2 = M /\ M + 2 - 1 = M + 1
  OBVIOUS
<1>12. ASSUME NEW s \in Rank, s # root  PROVE Within(s, M + 2)'
  <2>1. Cur(s)' = Cur(s) /\ At(s)' = At(s) /\ left'[s] = left[s]
    BY <1>6, <1>12 DEF Cur, At
  <2>. QED
    BY <1>9, <1>10, <1>11, <2>1 DEF Within
<1>13. Within(root, M + 2)'
  <2>1. left[root] = rleft[root]
    BY <1>2, <1>4, <1>9
  <2>. QED
    BY <1>5, <1>10, <1>11, <2>1 DEF Within
<1>. QED
  BY <1>7, <1>12, <1>13 DEF Rounds

(* ... and it goes into another round.                                     *)
LEMMA RootDone ==
  ASSUME TypeOK, AgreeInv, GatherInv, root \in Rank, LeaveDone(root)
  PROVE  Rounds'
<1>1. Leaves(root, "done") /\ left' = left /\ rleft' = rleft
  BY DEF LeaveDone
<1>2. mode[root] = "in" /\ At(root).op = "done" /\ At(root) \in Call
  BY <1>1, LeaveFacts
<1>3. CASE Bcasted(root)
  <2>1. PICK reply : EndRequest(root, reply)
    BY <1>3 DEF LeaveDone
  <2>2. ~ InRounds'
    BY <1>1, <1>2, <2>1, EndChunks DEF GatherInv
  <2>. QED
    BY <2>2 DEF Rounds
<1>4. CASE ~ Bcasted(root)
  <2>1. InRounds /\ Round = Cur(root) + 1
    BY <1>2, <1>4 DEF InRounds, Round, Bcasted, At
  <2>2. PICK M \in Nat : M = Cur(root) + 1 /\ Cur(root) \in Nat
    BY <2>1, RoundFacts
  <2>3. SendChunk(root, left[root])
    BY <1>4 DEF LeaveDone
  <2>4. Cur(root)' = M /\ At(root)'.op = "gatherv"
    BY <1>1, <1>2, <2>2, <2>3, SendChunkChunks DEF GatherInv
  <2>5. Round' = M
    BY <2>4 DEF Round
  <2>6. \A s \in Rank : Within(s, M)
    BY <2>1, <2>2 DEF GatherInv, Rounds
  <2>7. \A s \in Rank \ {root} : Within(s, M)'
    BY <1>1, <2>6, StepFrame, WithinKept DEF Step
  <2>8. Within(root, M)'
    <3>1. left[root] = rleft[root]
      BY <1>2, <2>2, <2>6 DEF Within
    <3>. QED
      BY <1>1, <2>4, <3>1 DEF Within
  <2>. QED
    BY <2>5, <2>7, <2>8 DEF Rounds
<1>. QED
  BY <1>3, <1>4

LEMMA NextGather ==
  TypeOK /\ AgreeInv /\ GatherInv /\ [Next]_vars => GatherInv'
<1>. SUFFICES ASSUME TypeOK, AgreeInv, GatherInv, [Next]_vars  PROVE GatherInv'
  OBVIOUS
<1>0. root \in Rank
  BY NAssumption DEF root, Rank
<1>1. ASSUME NEW h \in rpc_header, Issue(h)  PROVE GatherInv'
  <2>. DEFINE c == [op |-> "hdr", req |-> Len(reqs) + 1, pos |-> 0, val |-> h]
  <2>1. calls' = [calls EXCEPT ![root] = Append(@, c)] /\ left' = left
    BY <1>1 DEF Issue, Enter
  <2>2. c \in Call /\ c.op = "hdr"
    BY DEF Call, Called, TypeOK
  <2>. HIDE DEF c
  <2>3. Chunks'
    BY <1>0, <2>1, <2>2, EnterChunk DEF GatherInv
  <2>4. At(root)' = c
    BY <1>0, <2>1, <2>2, AtEnter
  <2>. QED
    BY <2>2, <2>3, <2>4 DEF GatherInv, Rounds, InRounds
<1>2. ASSUME NEW r \in Rank, Step(r)  PROVE GatherInv'
  <2>1. CASE LeaveHdr(r) \/ LeaveArg(r)
    <3>1. PICK op \in {"hdr", "arg"} : Leaves(r, op)
      BY <2>1 DEF LeaveHdr, LeaveArg
    <3>2. At(r) \in Call
      BY <3>1, LeaveFacts
    <3>3. \E h : \E pos \in Nat : TakeArg(r, h, pos)
      BY <2>1, <3>2, MaxCountAssumption DEF LeaveHdr, LeaveArg, Call, Called
    <3>. QED
      BY <1>2, <3>2, <3>3, TakeArgChunks, WorkerRounds DEF GatherInv, Rounds
  <2>2. CASE LeaveAllreduce(r)
    BY <1>2, <2>2, LeaveAllreduceChunks, WorkerRounds DEF GatherInv, Rounds
  <2>3. CASE LeaveGather(r)
    <3>1. Leaves(r, "gather") /\ SendChunk(r, left[r]) /\ left' = left
      BY <2>3 DEF LeaveGather
    <3>2. mode[r] = "in" /\ At(r).op = "gather" /\ At(r) \in Call
      BY <3>1, LeaveFacts
    <3>3. Chunks'
      BY <3>1, <3>2, SendChunkChunks DEF GatherInv
    <3>4. Rounds'
      BY <1>2, <2>3, RootGather, WorkerRounds
    <3>. QED
      BY <3>3, <3>4 DEF GatherInv
  <2>4. CASE LeaveGatherv(r)
    BY <1>2, <2>4, LeaveGathervChunks, RootGatherv, WorkerRounds DEF GatherInv
  <2>5. CASE LeaveDone(r)
    <3>1. Leaves(r, "done") /\ left' = left
      BY <2>5 DEF LeaveDone
    <3>2. mode[r] = "in" /\ At(r).op = "done" /\ At(r) \in Call
      BY <3>1, LeaveFacts
    <3>3. SendChunk(r, left[r]) \/ \E reply : EndRequest(r, reply)
      BY <2>5 DEF LeaveDone
    <3>4. Chunks'
      BY <3>1, <3>2, <3>3, SendChunkChunks, EndChunks DEF GatherInv
    <3>5. Rounds'
      BY <1>2, <2>5, RootDone, WorkerRounds
    <3>. QED
      BY <3>4, <3>5 DEF GatherInv
  <2>. QED
    BY <1>2, <2>1, <2>2, <2>3, <2>4, <2>5 DEF Step
<1>3. CASE UNCHANGED vars
  <2>1. calls' = calls /\ left' = left /\ rleft' = rleft /\ mode' = mode
    BY <1>3 DEF vars
  <2>2. Chunks'
    BY <2>1 DEF GatherInv, Chunks, Chunk, At, Cur, each_count, Smaller, local_max_count
  <2>3. InRounds' = InRounds /\ Round' = Round
    BY <2>1 DEF InRounds, Round, At, Cur
  <2>4. ASSUME InRounds, NEW s \in Rank  PROVE Within(s, Round)'
    <3>1. PICK M \in Nat : M = Round
      BY <2>4, RoundFacts
    <3>2. Within(s, M)
      BY <2>4, <3>1 DEF GatherInv, Rounds
    <3>3. Within(s, M)'
      BY <2>1, <3>2, WithinKept
    <3>. QED
      BY <2>3, <3>1, <3>3
  <2>. QED
    BY <2>2, <2>3, <2>4 DEF GatherInv, Rounds
<1>. QED
  BY <1>1, <1>2, <1>3 DEF Next, AllExited

LEMMA InitGather == Init => GatherInv
<1>. SUFFICES ASSUME Init  PROVE GatherInv
  OBVIOUS
<1>1. /\ \A r \in Rank : Cur(r) > 0 => At(r).op = "hdr"
      /\ mode[root] # "in"
  BY NAssumption DEF Init, Cur, At, root, Rank
<1>. QED
  BY <1>1 DEF GatherInv, Chunks, Chunk, Rounds, InRounds

(* MPI_Gatherv is never given counts that disagree: in every round of      *)
(* large_gatherv a rank sends what the root expects of it, for any lengths *)
(* and any mpi_max_count not below the number of ranks.                    *)
THEOREM ChunksMatch == Spec => []GatherCountsMatch
<1>1. Init => TypeOK /\ AgreeInv /\ GatherInv
  BY InitInv, InitGather
<1>2. TypeOK /\ AgreeInv /\ GatherInv /\ [Next]_vars => (TypeOK /\ AgreeInv /\ GatherInv)'
  BY NextInv, NextGather
<1>3. TypeOK /\ AgreeInv /\ GatherInv => GatherCountsMatch
  <2>. SUFFICES ASSUME TypeOK, GatherInv, AgreeInv, mode[root] = "in", At(root).op = "gatherv",
                       NEW s \in Rank, Cur(root) \in DOMAIN calls[s]
                PROVE  calls[s][Cur(root)].val = each_count(rleft[s])
    BY DEF GatherCountsMatch
  <2>1. InRounds /\ Round = Cur(root)
    BY DEF InRounds, Round
  <2>2. PICK M \in Nat : M = Cur(root) /\ M > 2
    BY <2>1, RoundFacts
  <2>3. Within(s, M)
    BY <2>1, <2>2 DEF GatherInv, Rounds
  <2>4. M <= Cur(s) /\ Cur(s) \in Nat
    BY <2>2 DEF Cur, TypeOK
  <2>5. CASE Cur(s) = M
    BY <2>2, <2>3, <2>4, <2>5 DEF Within, GatherInv, Chunks, Chunk, At
  <2>6. CASE Cur(s) # M
    BY <2>2, <2>3, <2>4, <2>6 DEF Within
  <2>. QED
    BY <2>5, <2>6
<1>. QED
  BY <1>1, <1>2, <1>3, PTL DEF Spec
=============================================================================
