------------------------------ MODULE MpiRpc ------------------------------
(***************************************************************************)
(* The broadcast RPC engine of frovedis (src/frovedis/core/mpi_rpc.cc):    *)
(* rank 0 runs the user's program and calls send_bcast_rpcreq, every other *)
(* rank loops in handle_req over handle_one_bcast_req.  The two sides are  *)
(* separate code paths that must walk through the same MPI collectives in  *)
(* the same order, although which collective comes next depends on the     *)
(* request's type, on the length of its argument, on whether ANY rank      *)
(* threw, and on how many rounds large_gatherv needs.                      *)
(*                                                                         *)
(* MPI matches the k-th collective a rank enters on a communicator with    *)
(* the k-th of every other rank, whatever they are.  So the model keeps    *)
(* calls[r], the collectives rank r has entered, and nothing else is       *)
(* shared: a step of r leaves its last collective, runs the local code     *)
(* behind it and enters the next one.                                      *)
(*                                                                         *)
(* An operator Name_how is Name with a slip in it; no specification uses   *)
(* it.  With it in the place of Name, some property below must fail.       *)
(***************************************************************************)
EXTENDS Naturals, Sequences

CONSTANTS
  N,          \* number of MPI ranks
  MaxCount,   \* mpi_max_count, the largest count handed to one MPI call
  ArgCounts,  \* lengths a serialized argument can have
  OutSizes,   \* lengths a result or an exception text can have
  MaxReqs     \* bound on the requests the user's program issues

ASSUME NAssumption == N \in Nat \ {0}
ASSUME MaxCountAssumption == MaxCount \in Nat /\ MaxCount >= N
ASSUME SizesAssumption == ArgCounts \subseteq Nat /\ OutSizes \subseteq Nat
ASSUME MaxReqsAssumption == MaxReqs \in Nat

Rank == 0 .. N - 1
root == 0

rpc_type == {"bcast_rpc_type", "bcast_rpc_oneway_type"}
WorkHdr == [type : rpc_type, count : ArgCounts]
FinalizeHdr == [type |-> "finalize_type", count |-> 0]
rpc_header == WorkHdr \cup {FinalizeHdr}

(* How a call of the wrapper wpt ends on one rank: exc tells whether it    *)
(* threw, size is the length of its result, or of what() if it threw.      *)
Outcome == [exc : BOOLEAN, size : OutSizes]

Bcasts == {"hdr", "arg", "done"}

VARIABLES
  reqs,        \* the headers the user's program issued, oldest first
  calls,       \* calls[r]: the collectives rank r entered, oldest first
  hdr,         \* hdr[r]: the header of the request r is serving
  ran,         \* ran[r]: how each wpt call of rank r ended, oldest first
  failed,      \* failed[r]: all_exception_caught on r
  left,        \* left[r]: sendcount - spos of large_gatherv on r
  recv_counts, \* what the size gather gave the root
  rleft,       \* rleft[s]: recvcounts[s] - rpos[s] of large_gatherv at root
  replies,     \* what send_bcast_rpcreq gave back, one per request
  mode         \* "user" code, "in" the engine, or "gone" after MPI_Finalize

vars == <<reqs, calls, hdr, ran, failed, left, recv_counts, rleft, replies, mode>>

Smaller(a, b) == IF a <= b THEN a ELSE b

(* large_gatherv's local_max_count, and the size of its next chunk.        *)
local_max_count == MaxCount \div N
each_count_no_min(rest) == local_max_count
each_count(rest) == Smaller(rest, local_max_count)

---------------------------------------------------------------------------
(* MPI: the k-th collective of each rank on the communicator is one event. *)

Cur(r) == Len(calls[r])
At(r) == calls[r][Cur(r)]

(* The ranks that must be in r's collective before r can come back from    *)
(* it: everyone for an allreduce and, at the root, for a gather; the root  *)
(* for a broadcast.                                                        *)
Awaited(r) ==
  IF At(r).op = "allreduce" \/ (r = root /\ At(r).op \notin Bcasts)
    THEN Rank
    ELSE {s \in {root} : At(r).op \in Bcasts}

Leaves(r, op) ==
  /\ mode[r] = "in"
  /\ At(r).op = op
  /\ \A s \in Awaited(r) : Cur(r) <= Len(calls[s])

Bcasted(r) == calls[root][Cur(r)].val
AnyVote(k) == \E s \in Rank : calls[s][k].val
Reduced_own_vote(r) == At(r).val
Reduced(r) == AnyVote(Cur(r))
Gathered(r) == [s \in Rank |-> calls[s][Cur(r)].val]

Enter(r, op, req, pos, val) ==
  calls' = [calls EXCEPT ![r] =
    Append(@, [op |-> op, req |-> req, pos |-> pos, val |-> val])]

---------------------------------------------------------------------------
Init ==
  /\ reqs = <<>>
  /\ calls = [r \in Rank |-> IF r = root THEN <<>>
                ELSE <<[op |-> "hdr", req |-> 1, pos |-> 0, val |-> FinalizeHdr]>>]
  /\ hdr = [r \in Rank |-> FinalizeHdr]
  /\ ran = [r \in Rank |-> <<>>]
  /\ failed = [r \in Rank |-> FALSE]
  /\ left = [r \in Rank |-> 0]
  /\ recv_counts = [r \in Rank |-> 0]
  /\ rleft = [r \in Rank |-> 0]
  /\ replies = <<>>
  /\ mode = [r \in Rank |-> IF r = root THEN "user" ELSE "in"]

(* The user's program calls bcast_rpc, bcast_rpc_oneway or                 *)
(* finalizefrovedis: the root enters the broadcast of the header.          *)
Issue(h) ==
  /\ mode[root] = "user"
  /\ h # FinalizeHdr => Len(reqs) < MaxReqs
  /\ reqs' = Append(reqs, h)
  /\ mode' = [mode EXCEPT ![root] = "in"]
  /\ Enter(root, "hdr", Len(reqs) + 1, 0, h)
  /\ UNCHANGED <<hdr, ran, failed, left, recv_counts, rleft, replies>>

CallWpt_uncaught(r) == \E o \in Outcome :
  /\ ran' = [ran EXCEPT ![r] = Append(@, o)]
  /\ IF o.exc /\ r # root
       THEN mode' = [mode EXCEPT ![r] = "gone"] /\ UNCHANGED calls
       ELSE Enter(r, "allreduce", At(r).req, 0, o.exc) /\ UNCHANGED mode
  /\ UNCHANGED <<reqs, failed, left, recv_counts, rleft, replies>>

(* The wrapper is called inside try; its outcome goes into the allreduce.  *)
CallWpt(r) == \E o \in Outcome :
  /\ ran' = [ran EXCEPT ![r] = Append(@, o)]
  /\ Enter(r, "allreduce", At(r).req, 0, o.exc)
  /\ UNCHANGED <<mode, reqs, failed, left, recv_counts, rleft, replies>>

Finalize_loops_on(r) ==
  /\ IF r = root THEN mode' = [mode EXCEPT ![r] = "gone"] /\ UNCHANGED calls
       ELSE Enter(r, "hdr", At(r).req + 1, 0, FinalizeHdr) /\ UNCHANGED mode
  /\ UNCHANGED <<reqs, ran, failed, left, recv_counts, rleft, replies>>

(* finalize_type: handle_one_bcast_req returns false, the root returns;    *)
(* either way the process goes on to MPI_Finalize and exit.                *)
Finalize(r) ==
  /\ mode' = [mode EXCEPT ![r] = "gone"]
  /\ UNCHANGED <<reqs, calls, ran, failed, left, recv_counts, rleft, replies>>

TakeArg_ends_on_empty(r, h, pos) ==
  IF pos < h.count
    THEN /\ Enter(r, "arg", At(r).req, pos, 0)
         /\ UNCHANGED <<mode, reqs, ran, failed, left, recv_counts, rleft, replies>>
    ELSE IF h.count = 0 THEN Finalize(r) ELSE CallWpt(r)

(* large_bcast of the argument from pos on, then the request itself.       *)
TakeArg(r, h, pos) ==
  IF pos < h.count
    THEN /\ Enter(r, "arg", At(r).req, pos, 0)
         /\ UNCHANGED <<mode, reqs, ran, failed, left, recv_counts, rleft, replies>>
    ELSE IF h.type = "finalize_type" THEN Finalize(r) ELSE CallWpt(r)

LeaveHdr(r) ==
  /\ Leaves(r, "hdr")
  /\ hdr' = [hdr EXCEPT ![r] = Bcasted(r)]
  /\ TakeArg(r, Bcasted(r), 0)

LeaveArg(r) ==
  /\ Leaves(r, "arg")
  /\ TakeArg(r, hdr[r], At(r).pos + MaxCount)
  /\ UNCHANGED hdr

(* What the root's send_bcast_rpcreq returns, or the exception it throws.  *)
Answer(threw, counts) ==
  IF threw THEN [ok |-> FALSE, named |-> {r \in Rank : counts[r] > 0}]
            ELSE [ok |-> TRUE, sizes |-> counts]

(* The end of a request: the root hands back the reply to the user's       *)
(* program, a worker goes round handle_req's loop to the next header.      *)
EndRequest(r, reply) ==
  /\ IF r = root
       THEN /\ replies' = Append(replies, reply)
            /\ mode' = [mode EXCEPT ![root] = "user"]
            /\ UNCHANGED calls
       ELSE /\ Enter(r, "hdr", At(r).req + 1, 0, FinalizeHdr)
            /\ UNCHANGED <<replies, mode>>
  /\ UNCHANGED <<reqs, hdr, ran>>

send_data_size_kept(r, threw) == ran[r][Len(ran[r])].size

(* The bytes a rank has for the gather: its result, or its what(), which   *)
(* is empty on a rank that did not throw.                                  *)
send_data_size(r, threw) ==
  LET o == ran[r][Len(ran[r])] IN IF threw /\ ~ o.exc THEN 0 ELSE o.size

LeaveAllreduce(r) ==
  /\ Leaves(r, "allreduce")
  /\ failed' = [failed EXCEPT ![r] = Reduced(r)]
  /\ IF Reduced(r) \/ hdr[r].type = "bcast_rpc_type"
       THEN LET size == send_data_size(r, Reduced(r)) IN
            /\ left' = [left EXCEPT ![r] = size]
            /\ Enter(r, "gather", At(r).req, 0, size)
            /\ UNCHANGED <<reqs, hdr, ran, recv_counts, rleft, replies, mode>>
       ELSE /\ EndRequest(r, Answer(FALSE, [s \in Rank |-> 0]))
            /\ UNCHANGED <<left, recv_counts, rleft>>

(* A round of large_gatherv: MPI_Gatherv of one chunk, then the root's     *)
(* broadcast of done.                                                      *)
SendChunk(r, rest) == Enter(r, "gatherv", At(r).req, 0, each_count(rest))

LeaveGather(r) ==
  /\ Leaves(r, "gather")
  /\ SendChunk(r, left[r])
  /\ IF r = root THEN recv_counts' = Gathered(r) /\ rleft' = Gathered(r)
                 ELSE UNCHANGED <<recv_counts, rleft>>
  /\ UNCHANGED <<reqs, hdr, ran, failed, left, replies, mode>>

LeaveGatherv_resends(r) ==
  /\ Leaves(r, "gatherv")
  /\ IF r = root
       THEN LET rest == [s \in Rank |-> rleft[s] - each_count(rleft[s])] IN
            /\ rleft' = rest
            /\ left' = [left EXCEPT ![r] = @ - each_count(@)]
            /\ Enter(r, "done", At(r).req, 0, \A s \in Rank : rest[s] = 0)
       ELSE /\ Enter(r, "done", At(r).req, 0, TRUE)
            /\ UNCHANGED <<rleft, left>>
  /\ UNCHANGED <<reqs, hdr, ran, failed, recv_counts, replies, mode>>

LeaveGatherv(r) ==
  /\ Leaves(r, "gatherv")
  /\ left' = [left EXCEPT ![r] = @ - each_count(@)]
  /\ IF r = root
       THEN LET rest == [s \in Rank |-> rleft[s] - each_count(rleft[s])] IN
            /\ rleft' = rest
            /\ Enter(r, "done", At(r).req, 0, \A s \in Rank : rest[s] = 0)
       ELSE /\ Enter(r, "done", At(r).req, 0, TRUE)
            /\ UNCHANGED rleft
  /\ UNCHANGED <<reqs, hdr, ran, failed, recv_counts, replies, mode>>

LeaveDone(r) ==
  /\ Leaves(r, "done")
  /\ IF Bcasted(r)
       THEN EndRequest(r, Answer(failed[r], recv_counts))
       ELSE /\ SendChunk(r, left[r])
            /\ UNCHANGED <<reqs, hdr, ran, replies, mode>>
  /\ UNCHANGED <<failed, left, recv_counts, rleft>>

Step(r) ==
  \/ LeaveHdr(r) \/ LeaveArg(r) \/ LeaveAllreduce(r)
  \/ LeaveGather(r) \/ LeaveGatherv(r) \/ LeaveDone(r)

Gone == \A r \in Rank : mode[r] = "gone"
AllExited == Gone /\ UNCHANGED vars

Next ==
  \/ \E h \in rpc_header : Issue(h)
  \/ \E r \in Rank : Step(r)
  \/ AllExited

Spec == Init /\ [][Next]_vars

(* Every process runs on, and wpt ends; the user's program may take as     *)
(* long as it likes between two requests, and need not end.  MPI owes r    *)
(* the end of a collective only once all ranks are in it: it may let r go  *)
(* before (Awaited), and may not.                                          *)
AllIn(r) == \A s \in Rank : Cur(r) <= Len(calls[s])
Fairness == \A r \in Rank : WF_vars(Step(r) /\ AllIn(r))
FairSpec == Spec /\ Fairness

---------------------------------------------------------------------------
Called(ops, vals) == [op : ops, req : Nat \ {0}, pos : Nat, val : vals]
Call ==
  Called({"hdr"}, rpc_header) \cup Called({"allreduce", "done"}, BOOLEAN)
    \cup Called({"arg", "gather", "gatherv"}, Nat)
Answers == [ok : {FALSE}, named : SUBSET Rank] \cup [ok : {TRUE}, sizes : [Rank -> Nat]]

TypeOK ==
  /\ reqs \in Seq(rpc_header)
  /\ calls \in [Rank -> Seq(Call)]
  /\ hdr \in [Rank -> rpc_header]
  /\ ran \in [Rank -> Seq(Outcome)]
  /\ failed \in [Rank -> BOOLEAN]
  /\ left \in [Rank -> Nat]
  /\ recv_counts \in [Rank -> Nat]
  /\ rleft \in [Rank -> Nat]
  /\ replies \in Seq(Answers)
  /\ mode \in [Rank -> {"user", "in", "gone"}]

(* Worker and root code never drift apart: the k-th collective any two     *)
(* ranks enter is the same step of the same request, down to the position  *)
(* in the argument, so MPI never pairs a header with an argument, or a     *)
(* vote with a size.  (handle_one_bcast_req and send_bcast_rpcreq)         *)
CollectivesAgree ==
  \A r, s \in Rank : \A k \in DOMAIN calls[r] \cap DOMAIN calls[s] :
    /\ calls[r][k].op = calls[s][k].op
    /\ calls[r][k].req = calls[s][k].req
    /\ calls[r][k].pos = calls[s][k].pos

(* MPI_Gatherv is given matching counts: the chunk a rank sends in a round *)
(* of large_gatherv is the chunk the root, from the sizes it gathered,     *)
(* expects of that rank in that round.                                     *)
GatherCountsMatch ==
  (mode[root] = "in" /\ At(root).op = "gatherv") =>
    \A s \in Rank : Cur(root) \in DOMAIN calls[s] =>
      calls[s][Cur(root)].val = each_count(rleft[s])

(* No process reaches MPI_Finalize owing anything: a rank that has left    *)
(* has run every request ever issued, and the root is issuing no more.     *)
ExitsServed ==
  \A r \in Rank : mode[r] = "gone" =>
    /\ reqs[Len(reqs)] = FinalizeHdr
    /\ Len(ran[r]) = Len(reqs) - 1
    /\ Len(replies) = Len(reqs) - 1

(* What the caller gets is an RpcService: each request is run once by      *)
(* every rank, in order, before the call returns, and the reply is made of *)
(* the outcomes of that very request.                                      *)
Service == INSTANCE RpcService WITH
  Request <- rpc_header,
  gone <- {r \in Rank : mode[r] = "gone"}

ImplementsService == Service!Spec

(* A call of bcast_rpc comes back, and finalizefrovedis brings every rank  *)
(* down, whatever the ranks throw and however MPI delays them.             *)
CallsReturn == mode[root] = "in" ~> mode[root] # "in"
FinalizeEndsAll == mode[root] = "gone" ~> Gone

---------------------------------------------------------------------------
(* Why CollectivesAgree holds: what a rank enters after its k-th           *)
(* collective is a function of data every rank sees alike, once that       *)
(* collective is over for one of them.                                     *)

Label(c) == <<c.op, c.req, c.pos>>

ArgOrVote(q, pos) ==
  IF pos < reqs[q].count THEN <<"arg", q, pos>> ELSE <<"allreduce", q, 0>>

(* The label that must come after the k-th collective of rank s.           *)
NextLabel(s, k) ==
  LET c == calls[s][k] IN
     IF c.op = "hdr" THEN ArgOrVote(c.req, 0)
     ELSE IF c.op = "arg" THEN ArgOrVote(c.req, c.pos + MaxCount)
     ELSE IF c.op = "allreduce"
       THEN IF AnyVote(k) \/ reqs[c.req].type = "bcast_rpc_type"
              THEN <<"gather", c.req, 0>> ELSE <<"hdr", c.req + 1, 0>>
     ELSE IF c.op = "gather" THEN <<"gatherv", c.req, 0>>
     ELSE IF c.op = "gatherv" THEN <<"done", c.req, 0>>
     ELSE IF calls[root][k].val THEN <<"hdr", c.req + 1, 0>>
                                ELSE <<"gatherv", c.req, 0>>

(* Rank s has seen the end of its k-th collective.                         *)
Passed(s, k) ==
  /\ calls[s][k].op \in Bcasts => k <= Len(calls[root])
  /\ calls[s][k].op = "allreduce" => \A t \in Rank : k <= Len(calls[t])

Chained ==
  \A s \in Rank :
    /\ Len(calls[s]) > 0 => Label(calls[s][1]) = <<"hdr", 1, 0>>
    /\ \A k \in 1 .. Len(calls[s]) - 1 :
         Passed(s, k) /\ Label(calls[s][k + 1]) = NextLabel(s, k)

RootCalls ==
  \A k \in 1 .. Len(calls[root]) :
    /\ calls[root][k].req <= Len(reqs)
    /\ calls[root][k].op = "hdr" => calls[root][k].val = reqs[calls[root][k].req]

Serving ==
  \A r \in Rank :
    /\ mode[r] = "user" => r = root
    /\ mode[r] = "in" =>
         /\ Cur(r) > 0
         /\ At(r).op # "hdr" => /\ At(r).req <= Len(reqs)
                                /\ hdr[r] = reqs[At(r).req]
         /\ Len(ran[r]) = IF At(r).op \in {"hdr", "arg"} THEN At(r).req - 1 ELSE At(r).req

RootTurn ==
  /\ mode[root] = "in" => At(root).req = Len(reqs)
  /\ mode[root] = "user" =>
       /\ Len(ran[root]) = Len(reqs)
       /\ IF Cur(root) = 0 THEN Len(reqs) = 0
            ELSE /\ Passed(root, Cur(root))
                 /\ NextLabel(root, Cur(root)) = <<"hdr", Len(reqs) + 1, 0>>

(* CollectivesAgree strengthened until every step preserves it.            *)
AgreeInv == CollectivesAgree /\ Chained /\ RootCalls /\ Serving /\ RootTurn
===========================================================================
