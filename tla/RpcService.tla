---------------------------- MODULE RpcService ----------------------------
(***************************************************************************)
(* What a caller of bcast_rpc / bcast_rpc_oneway may rely on, with no word *)
(* about how ranks talk to each other: the caller on rank 0 issues one     *)
(* request at a time, every rank runs it exactly once and in the order of  *)
(* issue, the call comes back after the last rank has run it, and it comes *)
(* back with every rank's result, or, if any rank threw, with an exception *)
(* that names the ranks that had something to say.                         *)
(***************************************************************************)
EXTENDS Naturals, Sequences

CONSTANTS
  Rank,       \* the processes
  Request,    \* what can be asked, records with a field type
  Outcome     \* what one run can end in: [exc : BOOLEAN, size : Nat]

VARIABLES
  reqs,       \* the requests issued, oldest first
  ran,        \* ran[r]: the outcomes of the requests rank r ran, in order
  replies,    \* what the caller got back for each request
  gone        \* the ranks that left the service

svars == <<reqs, ran, replies, gone>>

Closing(q) == q.type = "finalize_type"

(* The number of requests to be run: all but the closing one, the last.    *)
Closed == \E i \in DOMAIN reqs : Closing(reqs[i])
Work == IF Closed THEN Len(reqs) - 1 ELSE Len(reqs)

(* What the caller of request q gets when the ranks end in outcome[r].     *)
Reply(q, outcome) ==
  IF \E r \in Rank : outcome[r].exc
    THEN [ok |-> FALSE, named |-> {r \in Rank : outcome[r].exc /\ outcome[r].size > 0}]
    ELSE [ok |-> TRUE, sizes |-> [r \in Rank |->
            IF q.type = "bcast_rpc_type" THEN outcome[r].size ELSE 0]]

Init ==
  /\ reqs = <<>>
  /\ ran = [r \in Rank |-> <<>>]
  /\ replies = <<>>
  /\ gone = {}

Waiting == Len(replies) < Work

Issue(q) ==
  /\ ~ Waiting /\ ~ Closed
  /\ reqs' = Append(reqs, q)
  /\ UNCHANGED <<ran, replies, gone>>

Run(r, o) ==
  /\ Len(ran[r]) < Work
  /\ r \notin gone
  /\ ran' = [ran EXCEPT ![r] = Append(@, o)]
  /\ UNCHANGED <<reqs, replies, gone>>

Return ==
  /\ Waiting
  /\ \A r \in Rank : Len(ran[r]) = Work
  /\ replies' = Append(replies, Reply(reqs[Work], [r \in Rank |-> ran[r][Work]]))
  /\ UNCHANGED <<reqs, ran, gone>>

Leave(r) ==
  /\ Closed
  /\ Len(ran[r]) = Work
  /\ gone' = gone \cup {r}
  /\ UNCHANGED <<reqs, ran, replies>>

Next ==
  \/ \E q \in Request : Issue(q)
  \/ \E r \in Rank, o \in Outcome : Run(r, o)
  \/ Return
  \/ \E r \in Rank : Leave(r)

Spec == Init /\ [][Next]_svars
===========================================================================
