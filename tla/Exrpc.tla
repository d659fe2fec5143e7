------------------------------- MODULE Exrpc -------------------------------
(***************************************************************************)
(* The RPC of client programs to frovedis servers over pooled TCP          *)
(* connections (src/foreign_if/exrpc): exrpc.cc, exrpc_result.hpp,         *)
(* exrpc_oneway.cc and exrpc_oneway_noexcept.cc.                           *)
(*                                                                         *)
(* The threads of a client process share one connection per server node.   *)
(* A call takes the connection's mutex, writes a request, and the mutex is *)
(* given back by whatever reads the reply.  A server node serves one       *)
(* request at a time.  Requests and replies carry no number: a reply is    *)
(* whatever stands in the stream when somebody reads.                      *)
(*                                                                         *)
(* A reply is kept as the parts a reader takes one after the other: the    *)
(* flag caught_exception, and the counted body.  `by' and `nth' are not in *)
(* the code; they say which call a part belongs to.                        *)
(*                                                                         *)
(* An operator Name_how is Name with a slip in it; no specification uses   *)
(* it.  With it in the place of Name, some property below must fail.       *)
(***************************************************************************)
EXTENDS Naturals, Sequences, FiniteSets

CONSTANTS
  Thread,     \* threads of the client processes
  Proc,       \* client processes
  Node,       \* server nodes
  ProcOf,     \* the process a thread belongs to
  Calls,      \* the calls made: what is asked, and what becomes of it
  MaxCalls,   \* bound on the calls each thread makes
  none        \* no connection

Types == {"async", "oneway", "oneway_noexcept", "rawsend", "rawrecv", "finalize"}
Runs == {"value", "exception", "not_exposed"}

ASSUME ProcAssumption == ProcOf \in [Thread -> Proc]
ASSUME CallsAssumption == Calls \subseteq [type : Types, run : Runs]
ASSUME MaxCallsAssumption == MaxCalls \in [Thread -> Nat]
ASSUME NodeAssumption == Node # {}
ASSUME NoneAssumption == none \notin Proc \X Node

Conn == Proc \X Node
Request == [by : Thread, nth : Nat, type : Types, run : Runs]
Part == [by : Thread, nth : Nat, part : {"flag", "exception_flag", "body", "ack"}]

VARIABLES
  pc,       \* pc[t]: where thread t is
  req,      \* req[t]: its call, the last one if it is idle
  node,     \* node[t]: the server node it is made to
  got,      \* got[t]: what it has read as the reply
  managing, \* send_management_lock of each process: held or not
  pool,     \* send_connection_pool, of all processes
  locked,   \* the connections whose mutex is held
  up,       \* up[c]: requests written and not read by the server
  down,     \* down[c]: parts of replies written and not read by the client
  backlog,  \* backlog[n]: connections node n has not accepted
  accepted, \* recv_connection_pool of each node: connections, oldest first
  serving,  \* serving[n]: the connection n reads a request from, or none
  alive,    \* the server processes that run
  log       \* log[n]: the requests node n has handled, oldest first

vars == <<pc, req, node, got, managing, pool, locked, up, down, backlog, accepted, serving,
          alive, log>>
client == <<pc, req, node, got, managing, pool, locked>>
server == <<backlog, accepted, serving, alive, log>>

conn(t) == <<ProcOf[t], node[t]>>
Goes(t, place) == pc' = [pc EXCEPT ![t] = place]

Init ==
  /\ pc = [t \in Thread |-> "idle"]
  /\ req = [t \in Thread |-> [by |-> t, nth |-> 0, type |-> "finalize", run |-> "value"]]
  /\ node = [t \in Thread |-> CHOOSE n \in Node : TRUE]
  /\ got = [t \in Thread |-> <<>>]
  /\ managing = [p \in Proc |-> FALSE]
  /\ pool = {}
  /\ locked = {}
  /\ up = [c \in Conn |-> <<>>]
  /\ down = [c \in Conn |-> <<>>]
  /\ backlog = [n \in Node |-> {}]
  /\ accepted = [n \in Node |-> <<>>]
  /\ serving = [n \in Node |-> none]
  /\ alive = Node
  /\ log = [n \in Node |-> <<>>]

---------------------------------------------------------------------------
(* The client.                                                             *)

Call(t) ==
  /\ pc[t] = "idle" /\ req[t].nth < MaxCalls[t]
  /\ \E q \in Calls, n \in Node :
       /\ req' = [req EXCEPT ![t] = [by |-> t, nth |-> @.nth + 1, type |-> q.type, run |-> q.run]]
       /\ node' = [node EXCEPT ![t] = n]
  /\ got' = [got EXCEPT ![t] = <<>>]
  /\ Goes(t, "connect")
  /\ UNCHANGED <<managing, pool, locked, up, down, server>>

(* handle_exrpc_connect_pooled, up to the connection's mutex.  An          *)
(* exception out of handle_exrpc_connect leaves send_management_lock held. *)
Connect(t) ==
  /\ pc[t] = "connect" /\ ~ managing[ProcOf[t]]
  /\ \/ conn(t) \in pool /\ Goes(t, "lock") /\ UNCHANGED <<pool, managing, backlog>>
     \/ /\ conn(t) \notin pool /\ node[t] \in alive
        /\ pool' = pool \cup {conn(t)}
        /\ backlog' = [backlog EXCEPT ![node[t]] = @ \cup {conn(t)}]
        /\ Goes(t, "lock")
        /\ UNCHANGED managing
     \/ /\ conn(t) \notin pool /\ node[t] \notin alive
        /\ managing' = [managing EXCEPT ![ProcOf[t]] = TRUE]
        /\ Goes(t, "idle")
        /\ UNCHANGED <<pool, backlog>>
  /\ UNCHANGED <<req, node, got, locked, up, down, accepted, serving, alive, log>>

AfterSend_oneway_leaves(type) ==
  CASE type \in {"oneway", "oneway_noexcept", "finalize"} -> "idle"
    [] type = "async" -> "holding"
    [] OTHER -> "reading"

(* send_exrpcreq, and what each kind of call does next.  Writing to a      *)
(* server that is gone throws or, if the other end is not known to be      *)
(* closed yet, does not; the exception leaves the mutex held.              *)
AfterSend(type) ==
  CASE type \in {"oneway_noexcept", "finalize"} -> "idle"
    [] type = "async" -> "holding"
    [] OTHER -> "reading"

Send(t) ==
  /\ pc[t] = "lock" /\ conn(t) \notin locked
  /\ \/ /\ Goes(t, AfterSend(req[t].type))
        /\ locked' = IF AfterSend(req[t].type) = "idle" THEN locked ELSE locked \cup {conn(t)}
        /\ up' = [up EXCEPT ![conn(t)] = Append(@, req[t])]
     \/ /\ node[t] \notin alive
        /\ Goes(t, "idle")
        /\ locked' = locked \cup {conn(t)}
        /\ UNCHANGED up
  /\ UNCHANGED <<req, node, got, managing, pool, down, server>>

(* exrpc_result::get, called some time after exrpc_async.                  *)
Get(t) ==
  /\ pc[t] = "holding"
  /\ Goes(t, "reading")
  /\ UNCHANGED <<req, node, got, managing, pool, locked, up, down, server>>

Complete_flag_only(type, parts) == Len(parts) = IF type = "async" THEN 2 ELSE 1

(* Has the reader of a call all it asks for?  A oneway call reads a body   *)
(* only after a flag that says exception; raw calls read an ack or data.   *)
Complete(type, parts) ==
  CASE type = "async" -> Len(parts) = 2
    [] type = "oneway" -> Len(parts) = 2 \/ (Len(parts) = 1 /\ parts[1].part = "flag")
    [] OTHER -> Len(parts) = 1

Read_unlocks_early(t) ==
  /\ pc[t] = "reading" /\ down[conn(t)] # <<>>
  /\ got' = [got EXCEPT ![t] = Append(@, Head(down[conn(t)]))]
  /\ down' = [down EXCEPT ![conn(t)] = Tail(@)]
  /\ locked' = locked \ {conn(t)}
  /\ IF Complete(req[t].type, got'[t]) THEN Goes(t, "idle") ELSE UNCHANGED pc
  /\ UNCHANGED <<req, node, managing, pool, up, server>>

Read_keeps_lock(t) ==
  /\ pc[t] = "reading" /\ down[conn(t)] # <<>>
  /\ got' = [got EXCEPT ![t] = Append(@, Head(down[conn(t)]))]
  /\ down' = [down EXCEPT ![conn(t)] = Tail(@)]
  /\ IF Complete(req[t].type, got'[t])
       THEN /\ Goes(t, "idle")
            /\ locked' = IF got'[t][1].part = "exception_flag" THEN locked ELSE locked \ {conn(t)}
       ELSE UNCHANGED <<pc, locked>>
  /\ UNCHANGED <<req, node, managing, pool, up, server>>

Read(t) ==
  /\ pc[t] = "reading" /\ down[conn(t)] # <<>>
  /\ got' = [got EXCEPT ![t] = Append(@, Head(down[conn(t)]))]
  /\ down' = [down EXCEPT ![conn(t)] = Tail(@)]
  /\ IF Complete(req[t].type, got'[t])
       THEN Goes(t, "idle") /\ locked' = locked \ {conn(t)}
       ELSE UNCHANGED <<pc, locked>>
  /\ UNCHANGED <<req, node, managing, pool, up, server>>

(* myread throws "peer connection closed", and the mutex stays held.       *)
ReadFails(t) ==
  /\ pc[t] = "reading" /\ down[conn(t)] = <<>> /\ node[t] \notin alive
  /\ Goes(t, "idle")
  /\ UNCHANGED <<req, node, got, managing, pool, locked, up, down, server>>

---------------------------------------------------------------------------
(* The server: handle_exrpc_accept_pooled, then handle_exrpc_process.      *)

Accept_returns_sockfd(n) ==
  /\ n \in alive /\ serving[n] = none
  /\ \E c \in backlog[n] :
       /\ serving' = [serving EXCEPT ![n] = n]
       /\ backlog' = [backlog EXCEPT ![n] = @ \ {c}]
       /\ accepted' = [accepted EXCEPT ![n] = Append(@, c)]
  /\ UNCHANGED <<client, up, down, alive, log>>

(* A new connection goes first, and is read from at once.  On the node     *)
(* that is rank 0 select also ends the server once the launching client is *)
(* gone; here clients do not end.                                          *)
Accept(n) ==
  /\ n \in alive /\ serving[n] = none
  /\ \E c \in backlog[n] :
       /\ serving' = [serving EXCEPT ![n] = c]
       /\ backlog' = [backlog EXCEPT ![n] = @ \ {c}]
       /\ accepted' = [accepted EXCEPT ![n] = Append(@, c)]
  /\ UNCHANGED <<client, up, down, alive, log>>

(* Of the connections that have something to read, the oldest.             *)
Select(n) ==
  /\ n \in alive /\ serving[n] = none /\ backlog[n] = {}
  /\ \E i \in DOMAIN accepted[n] :
       /\ up[accepted[n][i]] # <<>>
       /\ \A j \in 1 .. i - 1 : up[accepted[n][j]] = <<>>
       /\ serving' = [serving EXCEPT ![n] = accepted[n][i]]
  /\ UNCHANGED <<client, up, down, backlog, accepted, alive, log>>

(* What the server writes for a request.  inform_no_exposed_function is    *)
(* called whatever the kind of request.                                    *)
Reply(q) ==
  LET part(p) == [by |-> q.by, nth |-> q.nth, part |-> p]
      failed == <<part("exception_flag"), part("body")>>
  IN CASE q.type = "rawsend" -> <<part("ack")>>
       [] q.type = "rawrecv" -> <<part("body")>>
       [] q.type = "finalize" -> <<>>
       [] q.type = "oneway_noexcept" -> IF q.run = "not_exposed" THEN failed ELSE <<>>
       [] q.type = "oneway" -> IF q.run = "value" THEN <<part("flag")>> ELSE failed
       [] q.type = "async" ->
            IF q.run = "value" THEN <<part("flag"), part("body")>> ELSE failed

(* The server's loop ends on a finalize request; an exception out of a     *)
(* oneway_noexcept function is not caught and ends the process.            *)
Ends(q) == q.type = "finalize" \/ (q.type = "oneway_noexcept" /\ q.run = "exception")

Process_leaves_argument(n) ==
  LET c == serving[n] IN
  /\ n \in alive /\ c # none
  /\ up[c] # <<>>
  /\ up' = IF Head(up[c]).run = "not_exposed" THEN up ELSE [up EXCEPT ![c] = Tail(@)]
  /\ down' = [down EXCEPT ![c] = @ \o Reply(Head(up[c]))]
  /\ alive' = IF Ends(Head(up[c])) THEN alive \ {n} ELSE alive
  /\ log' = [log EXCEPT ![n] = Append(@, Head(up[c]))]
  /\ serving' = [serving EXCEPT ![n] = none]
  /\ UNCHANGED <<client, backlog, accepted>>

Process(n) ==
  LET c == serving[n] IN
  /\ n \in alive /\ c # none
  /\ up[c] # <<>>
  /\ up' = [up EXCEPT ![c] = Tail(@)]
  /\ down' = [down EXCEPT ![c] = @ \o Reply(Head(up[c]))]
  /\ alive' = IF Ends(Head(up[c])) THEN alive \ {n} ELSE alive
  /\ log' = [log EXCEPT ![n] = Append(@, Head(up[c]))]
  /\ serving' = [serving EXCEPT ![n] = none]
  /\ UNCHANGED <<client, backlog, accepted>>

Client(t) == Connect(t) \/ Send(t) \/ Get(t) \/ Read(t) \/ ReadFails(t)
Server(n) == Accept(n) \/ Select(n) \/ Process(n)

Next ==
  \/ \E t \in Thread : Call(t) \/ Client(t)
  \/ \E n \in Node : Server(n)

Spec == Init /\ [][Next]_vars

(* Threads and servers run on; a mutex is given to every thread that keeps *)
(* asking; the program calls get() on every result, makes no other call to *)
(* that node before it does, and need not make any call at all.            *)
Fairness ==
  /\ \A t \in Thread : SF_vars(Send(t)) /\ WF_vars(Client(t))
  /\ \A n \in Node : WF_vars(Server(n))
FairSpec == Spec /\ Fairness

---------------------------------------------------------------------------
Places == {"idle", "connect", "lock", "holding", "reading"}

TypeOK ==
  /\ pc \in [Thread -> Places]
  /\ req \in [Thread -> Request]
  /\ node \in [Thread -> Node]
  /\ got \in [Thread -> Seq(Part)]
  /\ managing \in [Proc -> BOOLEAN]
  /\ pool \subseteq Conn
  /\ locked \subseteq Conn
  /\ up \in [Conn -> Seq(Request)]
  /\ down \in [Conn -> Seq(Part)]
  /\ backlog \in [Node -> SUBSET Conn]
  /\ accepted \in [Node -> Seq(Conn)]
  /\ serving \in [Node -> Conn \cup {none}]
  /\ alive \subseteq Node
  /\ log \in [Node -> Seq(Request)]

(* What t has read is the beginning of the reply to its call.              *)
Matches(t) ==
  \A i \in 1 .. Len(got[t]) : i <= Len(Reply(req[t])) /\ got[t][i] = Reply(req[t])[i]

(* A call never reads what was written for another one: the parts a caller *)
(* takes from the shared stream are those of its own reply, from the       *)
(* first.                                                                  *)
RepliesMatch == \A t \in Thread : Matches(t)

InCall(t) == pc[t] \in {"holding", "reading"}

(* One call at a time has a connection, from its request to its reply:     *)
(* the mutex is taken in handle_exrpc_connect_pooled and given back in the *)
(* functions that read replies, by other code in other files.              *)
OneCallPerConnection ==
  \A t, u \in Thread : InCall(t) /\ InCall(u) /\ conn(t) = conn(u) => t = u

Clean(c) ==
  /\ down[c] = <<>>
  /\ \A i \in 1 .. Len(up[c]) : Reply(up[c][i]) = <<>>

(* A free connection is clean: nothing is left to read, and what the       *)
(* server has still to handle will not be answered.                        *)
CleanWhenFree == \A c \in Conn \ locked : Clean(c)

(* A thread's calls to one node are handled once each and in the order it  *)
(* made them, also those it did not wait for (wait_parallel_exrpc relies   *)
(* on it).                                                                 *)
HandledInOrder ==
  \A n \in Node : \A i, j \in DOMAIN log[n] :
    i < j /\ log[n][i].by = log[n][j].by => log[n][i].nth < log[n][j].nth

(* Every call comes to an end as long as the servers run.                  *)
CallsEnd == \A t \in Thread : pc[t] # "idle" ~> pc[t] = "idle"

(* Whatever mix of calls was made, and whether their functions threw, once *)
(* no call is under way no mutex is held: each kind of call has its own    *)
(* code to give it back.  (A server that ends leaves mutexes held.)        *)
LocksReleased ==
  (\A t \in Thread : pc[t] = "idle") => locked = {} /\ \A p \in Proc : ~ managing[p]

---------------------------------------------------------------------------
(* Why RepliesMatch holds, as long as no function is called without        *)
(* waiting that the server does not know: between taking the mutex and     *)
(* giving it back a call is alone on its two streams.                      *)

Known(q) == ~ (q.type = "oneway_noexcept" /\ q.run = "not_exposed")
OnlyKnown == \A q \in Calls : Known(q)

(* The request is the last one on its way, nothing is on the way back ...  *)
Asked(t) ==
  LET sent == up[conn(t)] IN
  /\ sent # <<>> /\ sent[Len(sent)] = req[t]
  /\ \A i \in 1 .. Len(sent) - 1 : Reply(sent[i]) = <<>>
  /\ down[conn(t)] = <<>> /\ got[t] = <<>>

(* ... or what is on the way back is what is left to read of the reply.    *)
Answered(t) ==
  LET rest == down[conn(t)] IN
  /\ up[conn(t)] = <<>>
  /\ Len(got[t]) + Len(rest) = Len(Reply(req[t]))
  /\ \A i \in 1 .. Len(rest) : rest[i] = Reply(req[t])[Len(got[t]) + i]

OnItsWay(t) ==
  /\ Known(req[t])
  /\ pc[t] \in {"connect", "lock"} => got[t] = <<>>
  /\ InCall(t) =>
       /\ conn(t) \in locked
       /\ AfterSend(req[t].type) # "idle"
       /\ Asked(t) \/ Answered(t)

(* RepliesMatch strengthened until every step preserves it.                *)
StreamInv ==
  /\ OneCallPerConnection
  /\ \A t \in Thread : OnItsWay(t)
  /\ CleanWhenFree
  /\ RepliesMatch
=============================================================================
