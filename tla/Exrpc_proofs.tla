--------------------------- MODULE Exrpc_proofs ---------------------------
(***************************************************************************)
(* Theorems about Exrpc, for any number of client processes, threads and   *)
(* server nodes, and for calls of every kind.                              *)
(***************************************************************************)
EXTENDS Exrpc, SequenceTheorems, TLAPS

(* What a server writes for a request is a sequence of parts.              *)
LEMMA ReplyType == ASSUME NEW q \in Request PROVE Reply(q) \in Seq(Part)
<1> DEFINE part(p) == [by |-> q.by, nth |-> q.nth, part |-> p]
<1>1. \A p \in {"flag", "exception_flag", "body", "ack"} : part(p) \in Part
  BY DEF Request, Part
<1> QED BY <1>1 DEF Reply, Request, Types

LEMMA InitTypeOK == Init => TypeOK
<1> SUFFICES ASSUME Init PROVE TypeOK
  OBVIOUS
<1>1. (CHOOSE n \in Node : TRUE) \in Node
  BY NodeAssumption
<1>2. req \in [Thread -> Request]
  BY DEF Init, Request, Types, Runs
<1>3. /\ pc \in [Thread -> Places] /\ node \in [Thread -> Node]
      /\ managing \in [Proc -> BOOLEAN] /\ pool \subseteq Conn /\ locked \subseteq Conn
      /\ backlog \in [Node -> SUBSET Conn] /\ serving \in [Node -> Conn \cup {none}]
      /\ alive \subseteq Node
  BY <1>1 DEF Init, Places
<1>4. /\ got \in [Thread -> Seq(Part)] /\ up \in [Conn -> Seq(Request)]
      /\ down \in [Conn -> Seq(Part)] /\ accepted \in [Node -> Seq(Conn)]
      /\ log \in [Node -> Seq(Request)]
  BY DEF Init
<1> QED BY <1>2, <1>3, <1>4 DEF TypeOK

LEMMA ConnType == ASSUME TypeOK, NEW t \in Thread PROVE conn(t) \in Conn
  BY ProcAssumption DEF TypeOK, conn, Conn

LEMMA NextTypeOK == TypeOK /\ [Next]_vars => TypeOK'
<1> SUFFICES ASSUME TypeOK, [Next]_vars PROVE TypeOK'
  OBVIOUS
<1>1. CASE UNCHANGED vars
  BY <1>1 DEF TypeOK, vars
<1>2. ASSUME NEW t \in Thread, Call(t) PROVE TypeOK'
  <2>1. req' \in [Thread -> Request] /\ node' \in [Thread -> Node]
    BY <1>2, CallsAssumption DEF Call, TypeOK, Request
  <2>2. pc' \in [Thread -> Places] /\ got' \in [Thread -> Seq(Part)]
    BY <1>2 DEF Call, Goes, TypeOK, Places
  <2> QED BY <1>2, <2>1, <2>2 DEF Call, TypeOK, server
<1>3. ASSUME NEW t \in Thread, Connect(t) PROVE TypeOK'
  <2>0. conn(t) \in Conn
    BY ConnType
  <2>1. pc' \in [Thread -> Places] /\ managing' \in [Proc -> BOOLEAN]
    BY <1>3 DEF Connect, Goes, TypeOK, Places
  <2>2. pool' \subseteq Conn /\ backlog' \in [Node -> SUBSET Conn]
    <3>1. pool' = pool \/ pool' = pool \cup {conn(t)}
      BY <1>3 DEF Connect
    <3>2. backlog' = backlog \/ backlog' = [backlog EXCEPT ![node[t]] = @ \cup {conn(t)}]
      BY <1>3 DEF Connect
    <3>3. pool' \subseteq Conn
      BY <2>0, <3>1 DEF TypeOK
    <3>4. backlog' \in [Node -> SUBSET Conn]
      <4>1. node[t] \in Node /\ backlog \in [Node -> SUBSET Conn]
        BY DEF TypeOK
      <4>2. backlog[node[t]] \cup {conn(t)} \in SUBSET Conn
        BY <2>0, <4>1
      <4> QED BY <3>2, <4>1, <4>2
    <3> QED BY <3>3, <3>4
  <2> QED BY <1>3, <2>1, <2>2 DEF Connect, TypeOK
<1>4. ASSUME NEW t \in Thread, Send(t) PROVE TypeOK'
  <2>0. conn(t) \in Conn
    BY ConnType
  <2>1. pc' \in [Thread -> Places]
    BY <1>4 DEF Send, Goes, AfterSend, TypeOK, Places
  <2>2. locked' \subseteq Conn /\ up' \in [Conn -> Seq(Request)]
    <3>1. locked' = locked \/ locked' = locked \cup {conn(t)}
      BY <1>4 DEF Send
    <3>2. up' = up \/ up' = [up EXCEPT ![conn(t)] = Append(@, req[t])]
      BY <1>4 DEF Send
    <3>3. locked' \subseteq Conn
      BY <2>0, <3>1 DEF TypeOK
    <3>4. up' \in [Conn -> Seq(Request)]
      <4>1. up \in [Conn -> Seq(Request)] /\ req[t] \in Request
        BY DEF TypeOK
      <4>2. Append(up[conn(t)], req[t]) \in Seq(Request)
        BY <2>0, <4>1
      <4> QED BY <2>0, <3>2, <4>1, <4>2
    <3> QED BY <3>3, <3>4
  <2> QED BY <1>4, <2>1, <2>2 DEF Send, TypeOK, server
<1>5. ASSUME NEW t \in Thread, Get(t) PROVE TypeOK'
  BY <1>5 DEF Get, Goes, TypeOK, Places, server
<1>6. ASSUME NEW t \in Thread, Read(t) PROVE TypeOK'
  <2>0. conn(t) \in Conn
    BY ConnType
  <2>1. Head(down[conn(t)]) \in Part /\ Tail(down[conn(t)]) \in Seq(Part)
    BY <1>6, <2>0 DEF Read, TypeOK
  <2>2. got' \in [Thread -> Seq(Part)] /\ down' \in [Conn -> Seq(Part)]
    <3>1. got \in [Thread -> Seq(Part)] /\ down \in [Conn -> Seq(Part)]
      BY DEF TypeOK
    <3>2. Append(got[t], Head(down[conn(t)])) \in Seq(Part)
      BY <2>1, <3>1
    <3>3. /\ got' = [got EXCEPT ![t] = Append(@, Head(down[conn(t)]))]
          /\ down' = [down EXCEPT ![conn(t)] = Tail(@)]
      BY <1>6 DEF Read
    <3> QED BY <2>0, <2>1, <3>1, <3>2, <3>3
  <2>3. pc' \in [Thread -> Places] /\ locked' \subseteq Conn
    BY <1>6 DEF Read, Goes, TypeOK, Places
  <2> QED BY <1>6, <2>2, <2>3 DEF Read, TypeOK, server
<1>7. ASSUME NEW t \in Thread, ReadFails(t) PROVE TypeOK'
  BY <1>7 DEF ReadFails, Goes, TypeOK, Places, server
<1>8. ASSUME NEW n \in Node, Accept(n) PROVE TypeOK'
  <2>1. PICK c \in backlog[n] :
          /\ serving' = [serving EXCEPT ![n] = c]
          /\ backlog' = [backlog EXCEPT ![n] = @ \ {c}]
          /\ accepted' = [accepted EXCEPT ![n] = Append(@, c)]
    BY <1>8 DEF Accept
  <2>2. c \in Conn
    BY DEF TypeOK
  <2> QED BY <1>8, <2>1, <2>2 DEF Accept, TypeOK, client
<1>9. ASSUME NEW n \in Node, Select(n) PROVE TypeOK'
  BY <1>9 DEF Select, TypeOK, client
<1>10. ASSUME NEW n \in Node, Process(n) PROVE TypeOK'
  <2> DEFINE c == serving[n]
             q == Head(up[c])
  <2>1. c \in Conn
    BY <1>10 DEF Process, TypeOK
  <2>2. q \in Request /\ Tail(up[c]) \in Seq(Request)
    BY <1>10, <2>1 DEF Process, TypeOK
  <2>3. Reply(q) \in Seq(Part)
    BY <2>2, ReplyType
  <2>4. up' \in [Conn -> Seq(Request)] /\ log' \in [Node -> Seq(Request)]
    BY <1>10, <2>1, <2>2 DEF Process, TypeOK
  <2>5. down' \in [Conn -> Seq(Part)]
    BY <1>10, <2>1, <2>3 DEF Process, TypeOK
  <2>6. alive' \subseteq Node /\ serving' \in [Node -> Conn \cup {none}]
    BY <1>10 DEF Process, TypeOK
  <2> QED BY <1>10, <2>4, <2>5, <2>6 DEF Process, TypeOK, client
<1> QED BY <1>1, <1>2, <1>3, <1>4, <1>5, <1>6, <1>7, <1>8, <1>9, <1>10
        DEF Next, Client, Server

(* Every variable keeps its type: in particular a stream carries requests  *)
(* one way and parts of replies the other, whatever is interleaved.        *)
THEOREM TypeCorrect == Spec => []TypeOK
  BY InitTypeOK, NextTypeOK, PTL DEF Spec

---------------------------------------------------------------------------
(* A call that does not wait gets no reply, and one that waits reads all   *)
(* of it.                                                                  *)
LEMMA NoReply ==
  ASSUME NEW q \in Request, Known(q), AfterSend(q.type) = "idle"
  PROVE  Reply(q) = <<>>
<1>1. q.type \in {"oneway_noexcept", "finalize"}
  BY DEF Request, Types, AfterSend
<1>2. CASE q.type = "oneway_noexcept"
  BY <1>2 DEF Known, Reply
<1>3. CASE q.type = "finalize"
  BY <1>3 DEF Reply
<1> QED BY <1>1, <1>2, <1>3

LEMMA ReadsAll ==
  ASSUME NEW q \in Request, AfterSend(q.type) # "idle",
         NEW parts \in Seq(Part), Len(parts) <= Len(Reply(q)),
         \A i \in 1 .. Len(parts) : parts[i] = Reply(q)[i],
         Complete(q.type, parts)
  PROVE  Len(parts) = Len(Reply(q))
<1> DEFINE part(p) == [by |-> q.by, nth |-> q.nth, part |-> p]
<1>1. q.type \in {"async", "oneway", "rawsend", "rawrecv"}
  BY DEF Request, Types, AfterSend
<1>2. CASE q.type = "async"
  <2>1. Len(Reply(q)) = 2
    BY <1>2 DEF Reply
  <2> QED BY <1>2, <2>1 DEF Complete
<1>3. CASE q.type = "oneway"
  <2>1. CASE q.run # "value"
    <3>1. Reply(q) = <<part("exception_flag"), part("body")>>
      BY <1>3, <2>1 DEF Reply
    <3>2. Len(parts) = 1 => parts[1] = part("exception_flag")
      BY <3>1
    <3> QED BY <1>3, <3>1, <3>2 DEF Complete
  <2>2. CASE q.run = "value"
    <3>1. Reply(q) = <<part("flag")>>
      BY <1>3, <2>2 DEF Reply
    <3>2. Len(Reply(q)) = 1
      BY <3>1
    <3> QED BY <1>3, <3>2 DEF Complete
  <2> QED BY <2>1, <2>2
<1>4. CASE q.type \in {"rawsend", "rawrecv"}
  <2>1. Len(Reply(q)) = 1
    BY <1>4 DEF Reply
  <2> QED BY <1>4, <2>1 DEF Complete
<1> QED BY <1>1, <1>2, <1>3, <1>4

(* What a step leaves alone stays as it should be: a thread that does not  *)
(* move, with the streams it waits on, and a connection nobody writes to.  *)
LEMMA ThreadKept ==
  ASSUME NEW u \in Thread, OnItsWay(u), Matches(u),
         pc'[u] = pc[u], req'[u] = req[u], node'[u] = node[u], got'[u] = got[u],
         InCall(u) => /\ conn(u) \in locked'
                      /\ up'[conn(u)] = up[conn(u)]
                      /\ down'[conn(u)] = down[conn(u)]
  PROVE  OnItsWay(u)' /\ Matches(u)' /\ conn(u)' = conn(u) /\ (InCall(u)' <=> InCall(u))
<1>1. conn(u)' = conn(u) /\ (InCall(u)' <=> InCall(u))
  BY DEF conn, InCall
<1>2. Matches(u)'
  BY DEF Matches
<1>3. InCall(u) /\ Asked(u) => Asked(u)'
  BY <1>1 DEF Asked
<1>4. InCall(u) /\ Answered(u) => Answered(u)'
  BY <1>1 DEF Answered
<1>5. InCall(u)' => conn(u)' \in locked' /\ (Asked(u)' \/ Answered(u)')
  BY <1>1, <1>3, <1>4 DEF OnItsWay
<1>6. OnItsWay(u)'
  BY <1>1, <1>5 DEF OnItsWay, Known, AfterSend
<1> QED BY <1>1, <1>2, <1>6

LEMMA CleanKept ==
  ASSUME NEW c, Clean(c), up'[c] = up[c], down'[c] = down[c]
  PROVE  Clean(c)'
  BY DEF Clean

LEMMA InitStreamInv == Init => StreamInv
<1> SUFFICES ASSUME Init PROVE StreamInv
  OBVIOUS
<1>1. \A t \in Thread : ~ InCall(t) /\ got[t] = <<>> /\ Known(req[t])
  BY DEF Init, InCall, Known
<1>2. \A t \in Thread : OnItsWay(t) /\ Matches(t)
  BY <1>1 DEF OnItsWay, Matches
<1>3. CleanWhenFree
  BY DEF Init, CleanWhenFree, Clean
<1> QED BY <1>1, <1>2, <1>3 DEF StreamInv, OneCallPerConnection, RepliesMatch

(* A step that moves one thread t and leaves the streams and mutexes alone *)
(* need only be looked at for t.                                           *)
LEMMA ThreadStep ==
  ASSUME StreamInv, TypeOK, NEW t \in Thread,
         \A u \in Thread \ {t} : /\ pc'[u] = pc[u] /\ req'[u] = req[u]
                                 /\ node'[u] = node[u] /\ got'[u] = got[u],
         UNCHANGED <<up, down, locked>>,
         OnItsWay(t)', Matches(t)',
         InCall(t)' => InCall(t) /\ conn(t)' = conn(t)
  PROVE  StreamInv'
<1>1. \A u \in Thread \ {t} :
        OnItsWay(u)' /\ Matches(u)' /\ conn(u)' = conn(u) /\ (InCall(u)' <=> InCall(u))
  <2> TAKE u \in Thread \ {t}
  <2>1. OnItsWay(u) /\ Matches(u)
    BY DEF StreamInv, RepliesMatch
  <2>2. InCall(u) => conn(u) \in locked
    BY <2>1 DEF OnItsWay
  <2> QED BY <2>1, <2>2, ThreadKept
<1>2. OneCallPerConnection'
  BY <1>1 DEF StreamInv, OneCallPerConnection
<1>3. CleanWhenFree'
  <2> SUFFICES ASSUME NEW c \in Conn, c \notin locked' PROVE Clean(c)'
    BY DEF CleanWhenFree
  <2>1. Clean(c)
    BY DEF StreamInv, CleanWhenFree
  <2> QED BY <2>1, CleanKept
<1>4. \A u \in Thread : OnItsWay(u)' /\ Matches(u)'
  BY <1>1
<1> QED BY <1>2, <1>3, <1>4 DEF StreamInv, RepliesMatch

LEMMA CallKeeps == ASSUME StreamInv, TypeOK, OnlyKnown, NEW t \in Thread, Call(t) PROVE StreamInv'
<1>1. /\ pc'[t] = "connect" /\ got'[t] = <<>>
      /\ \A u \in Thread \ {t} : /\ pc'[u] = pc[u] /\ req'[u] = req[u]
                                /\ node'[u] = node[u] /\ got'[u] = got[u]
  BY DEF Call, Goes, TypeOK
<1>2. Known(req'[t])
  BY DEF Call, TypeOK, OnlyKnown, Known
<1>3. ~ InCall(t)'
  BY <1>1 DEF InCall
<1>4. OnItsWay(t)' /\ Matches(t)'
  BY <1>1, <1>2, <1>3 DEF OnItsWay, Matches, Known
<1> QED BY <1>1, <1>3, <1>4, ThreadStep DEF Call

LEMMA ConnectKeeps == ASSUME StreamInv, TypeOK, NEW t \in Thread, Connect(t) PROVE StreamInv'
<1>1. /\ pc'[t] \in {"lock", "idle"} /\ pc[t] = "connect" /\ UNCHANGED <<req, node, got>>
      /\ \A u \in Thread \ {t} : pc'[u] = pc[u]
  BY DEF Connect, Goes, TypeOK
<1>2. ~ InCall(t)'
  BY <1>1 DEF InCall
<1>3. OnItsWay(t) /\ Matches(t)
  BY DEF StreamInv, RepliesMatch
<1>4. OnItsWay(t)' /\ Matches(t)'
  BY <1>1, <1>2, <1>3 DEF OnItsWay, Matches, Known
<1> QED BY <1>1, <1>2, <1>4, ThreadStep DEF Connect

LEMMA GetKeeps == ASSUME StreamInv, TypeOK, NEW t \in Thread, Get(t) PROVE StreamInv'
<1>1. /\ pc'[t] = "reading" /\ pc[t] = "holding"
      /\ UNCHANGED <<req, node, got, up, down, locked>>
      /\ \A u \in Thread \ {t} : pc'[u] = pc[u]
  BY DEF Get, Goes, TypeOK
<1>2. InCall(t) /\ conn(t)' = conn(t)
  BY <1>1 DEF InCall, conn
<1>3. OnItsWay(t) /\ Matches(t)
  BY DEF StreamInv, RepliesMatch
<1>4. Matches(t)' /\ (Asked(t) => Asked(t)') /\ (Answered(t) => Answered(t)')
  <2>1. Matches(t)'
    BY <1>1, <1>3 DEF Matches
  <2>2. Asked(t) => Asked(t)'
    BY <1>1, <1>2 DEF Asked
  <2>3. Answered(t) => Answered(t)'
    BY <1>1, <1>2 DEF Answered
  <2> QED BY <2>1, <2>2, <2>3
<1>5. conn(t)' \in locked' /\ (Asked(t)' \/ Answered(t)')
  <2>1. conn(t) \in locked /\ (Asked(t) \/ Answered(t))
    BY <1>2, <1>3 DEF OnItsWay
  <2> QED BY <1>1, <1>2, <1>4, <2>1
<1>6. OnItsWay(t)'
  BY <1>1, <1>2, <1>3, <1>5 DEF OnItsWay, Known, AfterSend
<1> QED BY <1>1, <1>2, <1>4, <1>6, ThreadStep

LEMMA ReadFailsKeeps ==
  ASSUME StreamInv, TypeOK, NEW t \in Thread, ReadFails(t) PROVE StreamInv'
<1>1. /\ pc'[t] = "idle" /\ UNCHANGED <<req, node, got, up, down, locked>>
      /\ \A u \in Thread \ {t} : pc'[u] = pc[u]
  BY DEF ReadFails, Goes, TypeOK
<1>2. ~ InCall(t)'
  BY <1>1 DEF InCall
<1>3. OnItsWay(t) /\ Matches(t)
  BY DEF StreamInv, RepliesMatch
<1>4. OnItsWay(t)' /\ Matches(t)'
  BY <1>1, <1>2, <1>3 DEF OnItsWay, Matches, Known
<1> QED BY <1>1, <1>2, <1>4, ThreadStep

(* Sending takes a clean connection and leaves the request last on it.     *)
LEMMA SendKeeps == ASSUME StreamInv, TypeOK, NEW t \in Thread, Send(t) PROVE StreamInv'
<1>0. PICK c \in Conn : c = conn(t)
  BY ConnType
<1>1. /\ c = conn(t) /\ c \notin locked /\ ~ InCall(t) /\ conn(t)' = c
      /\ UNCHANGED <<req, node, got, down>> /\ got[t] = <<>> /\ Known(req[t])
      /\ req[t] \in Request /\ up[c] \in Seq(Request) /\ down[c] \in Seq(Part)
      /\ \A u \in Thread \ {t} : pc'[u] = pc[u]
  BY <1>0 DEF Send, InCall, conn, Goes, TypeOK, StreamInv, OnItsWay
<1>2. Clean(c) /\ Matches(t)
  BY <1>1 DEF StreamInv, CleanWhenFree, RepliesMatch
<1>3. /\ locked \subseteq locked' /\ locked' \subseteq locked \cup {c}
      /\ \A d \in Conn \ {c} : up'[d] = up[d]
  BY <1>1 DEF Send, TypeOK
<1>4. \A u \in Thread \ {t} :
        /\ OnItsWay(u)' /\ Matches(u)' /\ conn(u)' = conn(u) /\ (InCall(u)' <=> InCall(u))
        /\ InCall(u) => conn(u) # c
  <2> TAKE u \in Thread \ {t}
  <2>1. OnItsWay(u) /\ Matches(u)
    BY DEF StreamInv, RepliesMatch
  <2>2. InCall(u) => conn(u) \in locked /\ conn(u) # c /\ conn(u) \in Conn
    BY <1>1, <2>1, ConnType DEF OnItsWay
  <2>3. InCall(u) => conn(u) \in locked' /\ up'[conn(u)] = up[conn(u)]
    BY <1>3, <2>2
  <2> QED BY <1>1, <2>1, <2>2, <2>3, ThreadKept
<1>5. Matches(t)'
  BY <1>1, <1>2 DEF Matches
<1>6. \A d \in Conn \ locked' : d # c => Clean(d)'
  <2> TAKE d \in Conn \ locked'
  <2>1. Clean(d)
    BY <1>3 DEF StreamInv, CleanWhenFree
  <2> QED BY <1>1, <1>3, <2>1, CleanKept
<1>7. ASSUME InCall(t)' PROVE c \in locked' /\ Asked(t)' /\ AfterSend(req[t].type) # "idle"
  <2>1. /\ AfterSend(req[t].type) # "idle" /\ c \in locked'
        /\ up' = [up EXCEPT ![c] = Append(@, req[t])]
    BY <1>1, <1>7 DEF Send, Goes, InCall, TypeOK
  <2>2. up'[c] = Append(up[c], req[t])
    BY <1>1, <2>1 DEF TypeOK
  <2>3. /\ Len(up'[c]) = Len(up[c]) + 1 /\ up'[c][Len(up'[c])] = req[t] /\ up'[c] # <<>>
        /\ \A i \in 1 .. Len(up[c]) : up'[c][i] = up[c][i]
    <3> DEFINE s == Append(up[c], req[t])
    <3>1. /\ Len(s) = Len(up[c]) + 1 /\ s[Len(up[c]) + 1] = req[t] /\ s # <<>>
          /\ \A i \in 1 .. Len(up[c]) : s[i] = up[c][i]
      BY <1>1, AppendProperties
    <3> QED BY <2>2, <3>1
  <2>4. \A i \in 1 .. Len(up'[c]) - 1 : Reply(up'[c][i]) = <<>>
    BY <1>1, <1>2, <2>3 DEF Clean
  <2>5. Asked(t)'
    <3>1. down'[c] = <<>>
      BY <1>1, <1>2 DEF Clean
    <3> QED BY <1>1, <2>3, <2>4, <3>1 DEF Asked
  <2> QED BY <2>1, <2>5
<1>8. c \notin locked' => Clean(c)'
  <2> SUFFICES ASSUME c \notin locked' PROVE Clean(c)'
    OBVIOUS
  <2>1. AfterSend(req[t].type) = "idle" /\ up' = [up EXCEPT ![c] = Append(@, req[t])]
    BY <1>0 DEF Send
  <2>2. up'[c] = Append(up[c], req[t]) /\ Reply(req[t]) = <<>>
    BY <1>1, <2>1, NoReply DEF TypeOK
  <2>3. \A i \in 1 .. Len(up'[c]) : Reply(up'[c][i]) = <<>>
    <3>1. /\ Len(up'[c]) = Len(up[c]) + 1 /\ up'[c][Len(up[c]) + 1] = req[t]
          /\ \A i \in 1 .. Len(up[c]) : up'[c][i] = up[c][i]
      BY <1>1, <2>2, AppendProperties
    <3>2. \A i \in 1 .. Len(up[c]) : Reply(up[c][i]) = <<>>
      BY <1>2 DEF Clean
    <3> QED BY <1>1, <2>2, <3>1, <3>2
  <2> QED BY <1>1, <1>2, <2>3 DEF Clean
<1>9. OnItsWay(t)'
  <2>1. pc'[t] \notin {"connect", "lock"}
    BY DEF Send, Goes, AfterSend, TypeOK
  <2> QED BY <1>1, <1>7, <2>1 DEF OnItsWay, Known, AfterSend
<1>10. OneCallPerConnection'
  BY <1>1, <1>4 DEF StreamInv, OneCallPerConnection
<1>11. CleanWhenFree' /\ RepliesMatch'
  <2>1. \A d \in Conn \ locked' : Clean(d)'
    <3> TAKE d \in Conn \ locked'
    <3>1. CASE d = c
      BY <1>8, <3>1
    <3> QED BY <1>6, <3>1
  <2>2. \A u \in Thread : Matches(u)'
    BY <1>4, <1>5
  <2> QED BY <2>1, <2>2 DEF CleanWhenFree, RepliesMatch
<1> QED BY <1>4, <1>9, <1>10, <1>11 DEF StreamInv

(* The parts of a reply are those read, then those still to be read.       *)
Splits(reply, g, r) ==
  /\ Len(g) + Len(r) = Len(reply)
  /\ \A i \in 1 .. Len(g) : g[i] = reply[i]
  /\ \A i \in 1 .. Len(r) : r[i] = reply[Len(g) + i]

LEMMA TakePart ==
  ASSUME NEW S, NEW reply \in Seq(S), NEW g \in Seq(S), NEW r \in Seq(S), r # <<>>,
         Splits(reply, g, r)
  PROVE  /\ Append(g, Head(r)) \in Seq(S) /\ Tail(r) \in Seq(S)
         /\ Splits(reply, Append(g, Head(r)), Tail(r))
<1> DEFINE g2 == Append(g, Head(r))
           r2 == Tail(r)
<1>1. Len(g) \in Nat /\ Len(r) \in Nat /\ Len(r) > 0 /\ Len(reply) \in Nat
  BY EmptySeq
<1>2. Head(r) \in S /\ Head(r) = r[1]
  BY HeadTailProperties
<1>3. /\ g2 \in Seq(S) /\ Len(g2) = Len(g) + 1 /\ g2[Len(g) + 1] = r[1]
      /\ \A i \in 1 .. Len(g) : g2[i] = g[i]
  BY <1>2, AppendProperties
<1>4. /\ r2 \in Seq(S) /\ Len(r2) = Len(r) - 1
      /\ \A i \in 1 .. Len(r2) : r2[i] = r[i + 1]
  BY HeadTailProperties
<1> HIDE DEF g2, r2
<1>5. Len(g2) + Len(r2) = Len(reply)
  BY <1>1, <1>3, <1>4 DEF Splits
<1>6. ASSUME NEW i \in 1 .. Len(g2) PROVE g2[i] = reply[i]
  <2>1. CASE i \in 1 .. Len(g)
    BY <1>3, <2>1 DEF Splits
  <2>2. CASE i = Len(g) + 1
    BY <1>1, <1>3, <2>2 DEF Splits
  <2> QED BY <1>1, <1>3, <2>1, <2>2
<1>7. ASSUME NEW i \in 1 .. Len(r2) PROVE r2[i] = reply[Len(g2) + i]
  <2>1. i + 1 \in 1 .. Len(r) /\ Len(g) + (i + 1) = Len(g2) + i
    BY <1>1, <1>3, <1>4
  <2> QED BY <1>4, <2>1 DEF Splits
<1>8. Splits(reply, g2, r2)
  BY <1>5, <1>6, <1>7 DEF Splits
<1> QED BY <1>3, <1>4, <1>8 DEF g2, r2

LEMMA SplitsEnd ==
  ASSUME NEW S, NEW reply \in Seq(S), NEW g \in Seq(S), NEW r \in Seq(S),
         Splits(reply, g, r)
  PROVE  /\ Len(g) <= Len(reply)
         /\ \A i \in 1 .. Len(g) : i <= Len(reply)
         /\ Len(g) = Len(reply) => r = <<>>
<1>1. Len(g) \in Nat /\ Len(r) \in Nat /\ Len(reply) \in Nat
  BY EmptySeq
<1> QED BY <1>1, EmptySeq DEF Splits

(* Reading takes the next part of the reply; the last part leaves the      *)
(* connection clean, and only then is it free.                             *)
LEMMA ReadKeeps == ASSUME StreamInv, TypeOK, NEW t \in Thread, Read(t) PROVE StreamInv'
<1>0. PICK c \in Conn : c = conn(t)
  BY ConnType
<1> DEFINE rest == down[c]
           reply == Reply(req[t])
<1>1. /\ c = conn(t) /\ conn(t)' = c /\ InCall(t) /\ rest # <<>>
      /\ UNCHANGED <<req, node, up>>
      /\ req[t] \in Request /\ got[t] \in Seq(Part) /\ rest \in Seq(Part)
      /\ reply \in Seq(Part)
      /\ got'[t] = Append(got[t], Head(rest)) /\ down'[c] = Tail(rest)
      /\ \A d \in Conn \ {c} : down'[d] = down[d]
      /\ \A u \in Thread \ {t} : pc'[u] = pc[u] /\ got'[u] = got[u]
  BY <1>0, ReplyType DEF Read, InCall, conn, Goes, TypeOK
<1>2. OnItsWay(t) /\ Matches(t)
  BY DEF StreamInv, RepliesMatch
<1>3. Answered(t) /\ AfterSend(req[t].type) # "idle" /\ c \in locked
  BY <1>1, <1>2 DEF OnItsWay, Asked
<1>4. Splits(reply, got[t], rest) /\ up[c] = <<>>
  BY <1>1, <1>2, <1>3 DEF Answered, Matches, Splits
<1>5. got'[t] \in Seq(Part) /\ down'[c] \in Seq(Part) /\ Splits(reply, got'[t], down'[c])
  BY <1>1, <1>4, TakePart
<1>6. Matches(t)'
  <2>1. \A i \in 1 .. Len(got'[t]) : i <= Len(reply)
    BY <1>1, <1>5, SplitsEnd
  <2> QED BY <1>1, <1>5, <2>1 DEF Matches, Splits
<1>7. Answered(t)'
  BY <1>1, <1>4, <1>5 DEF Answered, Splits
<1>8. CASE Complete(req[t].type, got'[t])
  <2>1. pc'[t] = "idle" /\ locked' = locked \ {c}
    <3>1. Goes(t, "idle") /\ locked' = locked \ {conn(t)}
      BY <1>8 DEF Read
    <3> QED BY <1>0, <3>1 DEF Goes, TypeOK
  <2>2. Len(got'[t]) = Len(reply)
    <3>1. /\ Len(got'[t]) <= Len(reply)
          /\ \A i \in 1 .. Len(got'[t]) : got'[t][i] = reply[i]
      BY <1>1, <1>5, SplitsEnd DEF Splits
    <3> QED BY <1>1, <1>3, <1>5, <1>8, <3>1, ReadsAll
  <2>3. down'[c] = <<>>
    BY <1>1, <1>5, <2>2, SplitsEnd
  <2>4. Clean(c)'
    <3>1. up'[c] = <<>>
      BY <1>1, <1>4
    <3> QED BY <2>3, <3>1 DEF Clean
  <2>5. ~ InCall(t)'
    BY <2>1 DEF InCall
  <2> QED
    <3>1. \A u \in Thread \ {t} :
            OnItsWay(u)' /\ Matches(u)' /\ conn(u)' = conn(u) /\ (InCall(u)' <=> InCall(u))
      <4> TAKE u \in Thread \ {t}
      <4>1. OnItsWay(u) /\ Matches(u)
        BY DEF StreamInv, RepliesMatch
      <4>2. InCall(u) => conn(u) \in Conn \ {c} /\ conn(u) \in locked
        BY <1>1, <4>1, ConnType DEF StreamInv, OneCallPerConnection, OnItsWay
      <4>3. InCall(u) => conn(u) \in locked' /\ down'[conn(u)] = down[conn(u)]
        BY <1>1, <2>1, <4>2
      <4> QED BY <1>1, <4>1, <4>3, ThreadKept
    <3>2. OnItsWay(t)'
      BY <1>1, <1>2, <2>1, <2>5 DEF OnItsWay, Known
    <3>3. OneCallPerConnection'
      BY <2>5, <3>1 DEF StreamInv, OneCallPerConnection
    <3>4. \A d \in Conn \ locked' : Clean(d)'
      <4> TAKE d \in Conn \ locked'
      <4>1. CASE d = c
        BY <2>4, <4>1
      <4>2. CASE d # c
        <5>1. Clean(d)
          BY <2>1, <4>2 DEF StreamInv, CleanWhenFree
        <5> QED BY <1>1, <4>2, <5>1, CleanKept
      <4> QED BY <4>1, <4>2
    <3>5. \A u \in Thread : OnItsWay(u)' /\ Matches(u)'
      BY <1>6, <3>1, <3>2
    <3> QED BY <3>3, <3>4, <3>5 DEF StreamInv, CleanWhenFree, RepliesMatch
<1>9. CASE ~ Complete(req[t].type, got'[t])
  <2>1. UNCHANGED <<pc, locked>>
    BY <1>9 DEF Read
  <2>2. InCall(t)' /\ c \in locked'
    BY <1>1, <1>3, <2>1 DEF InCall
  <2> QED
    <3>1. \A u \in Thread \ {t} :
            OnItsWay(u)' /\ Matches(u)' /\ conn(u)' = conn(u) /\ (InCall(u)' <=> InCall(u))
      <4> TAKE u \in Thread \ {t}
      <4>1. OnItsWay(u) /\ Matches(u)
        BY DEF StreamInv, RepliesMatch
      <4>2. InCall(u) => conn(u) \in Conn \ {c} /\ conn(u) \in locked
        BY <1>1, <4>1, ConnType DEF StreamInv, OneCallPerConnection, OnItsWay
      <4>3. InCall(u) => conn(u) \in locked' /\ down'[conn(u)] = down[conn(u)]
        BY <1>1, <2>1, <4>2
      <4> QED BY <1>1, <4>1, <4>3, ThreadKept
    <3>2. OnItsWay(t)'
      BY <1>1, <1>2, <1>3, <1>7, <2>1, <2>2 DEF OnItsWay, Known, AfterSend, InCall
    <3>3. OneCallPerConnection'
      BY <1>1, <3>1 DEF StreamInv, OneCallPerConnection
    <3>4. \A d \in Conn \ locked' : Clean(d)'
      <4> TAKE d \in Conn \ locked'
      <4>1. Clean(d) /\ d # c
        BY <1>3, <2>1 DEF StreamInv, CleanWhenFree
      <4> QED BY <1>1, <4>1, CleanKept
    <3>5. \A u \in Thread : OnItsWay(u)' /\ Matches(u)'
      BY <1>6, <3>1, <3>2
    <3> QED BY <3>3, <3>4, <3>5 DEF StreamInv, CleanWhenFree, RepliesMatch
<1> QED BY <1>8, <1>9

LEMMA HeadThenTail ==
  ASSUME NEW S, NEW s \in Seq(S), s # <<>>
  PROVE  /\ Head(s) = s[1] /\ 1 \in 1 .. Len(s) /\ Tail(s) \in Seq(S)
         /\ \A i \in 1 .. Len(Tail(s)) : i + 1 \in 1 .. Len(s) /\ Tail(s)[i] = s[i + 1]
         /\ Len(s) = 1 => Tail(s) = <<>>
         /\ Len(s) # 1 => /\ Tail(s) # <<>> /\ Tail(s)[Len(Tail(s))] = s[Len(s)]
                         /\ 1 \in 1 .. Len(s) - 1
                         /\ \A i \in 1 .. Len(Tail(s)) - 1 :
                              i + 1 \in 1 .. Len(s) - 1 /\ Tail(s)[i] = s[i + 1]
<1> DEFINE r == Tail(s)
<1>1. Len(s) \in Nat /\ Len(s) > 0
  BY EmptySeq
<1>2. /\ r \in Seq(S) /\ Len(r) = Len(s) - 1
      /\ \A i \in 1 .. Len(r) : r[i] = s[i + 1]
  BY HeadTailProperties
<1>3. Head(s) = s[1]
  BY HeadTailProperties
<1> HIDE DEF r
<1>4. \A i \in 1 .. Len(r) : i + 1 \in 1 .. Len(s) /\ r[i] = s[i + 1]
  BY <1>1, <1>2
<1>5. Len(s) = 1 => r = <<>>
  BY <1>2, EmptySeq
<1>6. Len(s) # 1 => Len(r) > 0 /\ Len(r) \in 1 .. Len(r) /\ Len(r) + 1 = Len(s)
  BY <1>1, <1>2
<1>7. Len(s) # 1 => r # <<>> /\ r[Len(r)] = s[Len(s)] /\ 1 \in 1 .. Len(s) - 1
  <2>1. r = <<>> => Len(r) = 0
    BY EmptySeq
  <2> QED BY <1>1, <1>2, <1>6, <2>1
<1>8. \A i \in 1 .. Len(r) - 1 : i + 1 \in 1 .. Len(s) - 1 /\ r[i] = s[i + 1]
  BY <1>1, <1>2
<1> QED BY <1>1, <1>2, <1>3, <1>4, <1>5, <1>7, <1>8 DEF r

(* The server answers the oldest request; if a call waits on the           *)
(* connection, that is either its own or one that gets no answer.          *)
LEMMA ProcessKeeps == ASSUME StreamInv, TypeOK, NEW n \in Node, Process(n) PROVE StreamInv'
<1>0. PICK c \in Conn : c = serving[n]
  BY DEF Process, TypeOK
<1> DEFINE sent == up[c]
           answer == Reply(Head(sent))
<1>1. /\ sent # <<>> /\ sent \in Seq(Request) /\ answer \in Seq(Part)
      /\ down[c] \in Seq(Part)
  <2>1. sent # <<>> /\ sent \in Seq(Request) /\ down[c] \in Seq(Part)
    BY <1>0 DEF Process, TypeOK
  <2> QED BY <2>1, HeadTailProperties, ReplyType
<1>2. /\ up'[c] = Tail(sent) /\ down'[c] = down[c] \o answer
      /\ \A d \in Conn \ {c} : up'[d] = up[d] /\ down'[d] = down[d]
  BY <1>0 DEF Process, TypeOK
<1>3. UNCHANGED <<pc, req, node, got, locked>>
  BY DEF Process, client
<1>4. ASSUME down[c] = <<>> PROVE down'[c] = answer
  BY <1>1, <1>2, <1>4, ConcatEmptySeq
<1>5. ASSUME NEW u \in Thread
      PROVE  /\ OnItsWay(u)' /\ Matches(u)'
             /\ conn(u)' = conn(u) /\ (InCall(u)' <=> InCall(u))
  <2>1. OnItsWay(u) /\ Matches(u) /\ req[u] \in Request
    BY DEF StreamInv, RepliesMatch, TypeOK
  <2>2. conn(u)' = conn(u) /\ (InCall(u)' <=> InCall(u)) /\ conn(u) \in Conn
    BY <1>3, ConnType DEF conn, InCall
  <2>3. Matches(u)'
    BY <1>3, <2>1 DEF Matches
  <2>4. CASE InCall(u) /\ conn(u) = c
    <3>1. Asked(u) /\ c \in locked
      BY <1>1, <2>1, <2>4 DEF OnItsWay, Answered
    <3>2. /\ sent[Len(sent)] = req[u] /\ down[c] = <<>> /\ got[u] = <<>>
          /\ \A i \in 1 .. Len(sent) - 1 : Reply(sent[i]) = <<>>
      BY <2>4, <3>1 DEF Asked
    <3>3. CASE Len(sent) = 1
      <4>1. up'[c] = <<>> /\ down'[c] = Reply(req[u])
        BY <1>1, <1>2, <1>4, <3>2, <3>3, HeadThenTail
      <4>2. Len(Reply(req[u])) \in Nat
        BY <2>1, ReplyType, EmptySeq
      <4>3. got'[u] = <<>> /\ Len(<<>>) = 0
        BY <1>3, <3>2
      <4>4. Len(got'[u]) + Len(down'[c]) = Len(Reply(req[u]))
        BY <4>1, <4>2, <4>3
      <4>5. Answered(u)'
        <5>1. \A i \in 1 .. Len(down'[c]) : down'[c][i] = Reply(req[u])[Len(got'[u]) + i]
          <6> TAKE i \in 1 .. Len(down'[c])
          <6>1. Len(got'[u]) + i = i
            BY <4>3
          <6> QED BY <4>1, <6>1
        <5> QED BY <1>3, <2>2, <2>4, <4>1, <4>4, <5>1 DEF Answered
      <4> QED BY <1>3, <2>1, <2>2, <2>3, <2>4, <3>1, <4>5 DEF OnItsWay, Known, AfterSend
    <3>4. CASE Len(sent) # 1
      <4>1. /\ up'[c] # <<>> /\ up'[c][Len(up'[c])] = req[u]
            /\ \A i \in 1 .. Len(up'[c]) - 1 : Reply(up'[c][i]) = <<>>
        BY <1>1, <1>2, <3>2, <3>4, HeadThenTail
      <4>2. down'[c] = <<>>
        BY <1>1, <1>4, <3>2, <3>4, HeadThenTail
      <4>3. Asked(u)'
        BY <1>3, <2>2, <2>4, <3>2, <4>1, <4>2 DEF Asked
      <4> QED BY <1>3, <2>1, <2>2, <2>3, <2>4, <3>1, <4>3 DEF OnItsWay, Known, AfterSend
    <3> QED BY <3>3, <3>4
  <2>5. CASE ~ (InCall(u) /\ conn(u) = c)
    <3>1. InCall(u) => /\ conn(u) \in locked' /\ up'[conn(u)] = up[conn(u)]
                       /\ down'[conn(u)] = down[conn(u)]
      BY <1>2, <1>3, <2>1, <2>2, <2>5 DEF OnItsWay
    <3> QED BY <1>3, <2>1, <3>1, ThreadKept
  <2> QED BY <2>4, <2>5
<1>6. ASSUME NEW d \in Conn, d \notin locked' PROVE Clean(d)'
  <2>1. Clean(d)
    BY <1>3, <1>6 DEF StreamInv, CleanWhenFree
  <2>2. CASE d = c
    <3>1. down[c] = <<>> /\ \A i \in 1 .. Len(sent) : Reply(sent[i]) = <<>>
      BY <2>1, <2>2 DEF Clean
    <3>2. down'[c] = <<>>
      BY <1>1, <1>4, <3>1, HeadThenTail
    <3>3. \A i \in 1 .. Len(up'[c]) : Reply(up'[c][i]) = <<>>
      BY <1>1, <1>2, <3>1, HeadThenTail
    <3> QED BY <2>2, <3>2, <3>3 DEF Clean
  <2> QED BY <1>2, <2>1, <2>2, CleanKept
<1>7. OneCallPerConnection'
  BY <1>5 DEF StreamInv, OneCallPerConnection
<1> QED BY <1>5, <1>6, <1>7 DEF StreamInv, CleanWhenFree, RepliesMatch

LEMMA NextStreamInv == ASSUME OnlyKnown PROVE StreamInv /\ TypeOK /\ [Next]_vars => StreamInv'
<1> SUFFICES ASSUME StreamInv, TypeOK, [Next]_vars PROVE StreamInv'
  OBVIOUS
<1> DEFINE still == UNCHANGED <<pc, req, node, got, locked, up, down>>
<1>1. ASSUME still PROVE StreamInv'
  <2>1. ASSUME NEW u \in Thread
        PROVE  /\ OnItsWay(u)' /\ Matches(u)'
               /\ conn(u)' = conn(u) /\ (InCall(u)' <=> InCall(u))
    <3>1. OnItsWay(u) /\ Matches(u)
      BY DEF StreamInv, RepliesMatch
    <3>2. InCall(u) => conn(u) \in locked
      BY <3>1 DEF OnItsWay
    <3> QED BY <1>1, <3>1, <3>2, ThreadKept
  <2>2. ASSUME NEW d \in Conn, d \notin locked' PROVE Clean(d)'
    <3>1. Clean(d)
      BY <1>1, <2>2 DEF StreamInv, CleanWhenFree
    <3> QED BY <1>1, <3>1, CleanKept
  <2>3. OneCallPerConnection'
    BY <2>1 DEF StreamInv, OneCallPerConnection
  <2> QED BY <2>1, <2>2, <2>3 DEF StreamInv, CleanWhenFree, RepliesMatch
<1>2. CASE UNCHANGED vars
  BY <1>1, <1>2 DEF vars
<1>3. ASSUME NEW t \in Thread, Call(t) \/ Client(t) PROVE StreamInv'
  BY <1>3, CallKeeps, ConnectKeeps, SendKeeps, GetKeeps, ReadKeeps, ReadFailsKeeps DEF Client
<1>4. ASSUME NEW n \in Node, Accept(n) \/ Select(n) PROVE StreamInv'
  <2>1. still
    BY <1>4 DEF Accept, Select, client
  <2> QED BY <1>1, <2>1
<1>5. ASSUME NEW n \in Node, Process(n) PROVE StreamInv'
  BY <1>5, ProcessKeeps
<1> QED BY <1>2, <1>3, <1>4, <1>5 DEF Next, Server

(* Between the request and the last part of the reply a call is alone on   *)
(* the connection and its two streams, or every other part of StreamInv    *)
(* would break at once.                                                    *)
THEOREM StreamsOwned == ASSUME OnlyKnown PROVE Spec => []StreamInv
<1>1. StreamInv /\ TypeOK /\ [Next]_vars => StreamInv'
  BY NextStreamInv
<1> QED BY InitStreamInv, <1>1, TypeCorrect, PTL DEF Spec

(* No caller ever reads what was written for another call, with any number *)
(* of threads, processes and servers and although servers may end at any   *)
(* time, provided that what is called without waiting is exposed.  Without *)
(* that proviso it is false.                                               *)
THEOREM NoStaleReply == ASSUME OnlyKnown PROVE Spec => []RepliesMatch
<1>1. StreamInv => RepliesMatch
  BY DEF StreamInv
<1> QED BY <1>1, StreamsOwned, PTL

(* A mutex nobody holds guards a stream nobody has left anything in.       *)
THEOREM FreeIsClean == ASSUME OnlyKnown PROVE Spec => []CleanWhenFree
<1>1. StreamInv => CleanWhenFree
  BY DEF StreamInv
<1> QED BY <1>1, StreamsOwned, PTL

(* Two calls are never in progress on one connection.                      *)
THEOREM Exclusive == ASSUME OnlyKnown PROVE Spec => []OneCallPerConnection
<1>1. StreamInv => OneCallPerConnection
  BY DEF StreamInv
<1> QED BY <1>1, StreamsOwned, PTL

---------------------------------------------------------------------------
(* Why HandledInOrder holds: a thread has at most one request it has not   *)
(* sent, newer than all it sent, and requests stay in line on their way.   *)

Old(q) ==
  /\ q.nth <= req[q.by].nth
  /\ pc[q.by] \in {"connect", "lock"} => q.nth < req[q.by].nth
Before(q, p) == q.by = p.by => q.nth < p.nth

Numbered ==
  /\ \A t \in Thread : req[t].by = t
  /\ \A c \in Conn : \A i \in 1 .. Len(up[c]) : Old(up[c][i])
  /\ \A n \in Node : \A i \in 1 .. Len(log[n]) : Old(log[n][i])

(* A thread's requests to a node all go through one connection.            *)
Routed ==
  /\ \A c \in Conn : \A i \in 1 .. Len(up[c]) : ProcOf[up[c][i].by] = c[1]
  /\ \A n \in Node : /\ serving[n] = none \/ serving[n][2] = n
                     /\ \A c \in backlog[n] : c[2] = n
                     /\ \A i \in 1 .. Len(accepted[n]) : accepted[n][i][2] = n

InLine ==
  /\ \A c \in Conn : \A i, j \in 1 .. Len(up[c]) : i < j => Before(up[c][i], up[c][j])
  /\ \A c \in Conn : \A i \in 1 .. Len(log[c[2]]), j \in 1 .. Len(up[c]) :
       Before(log[c[2]][i], up[c][j])
  /\ \A n \in Node : \A i, j \in 1 .. Len(log[n]) : i < j => Before(log[n][i], log[n][j])

OrderInv == Numbered /\ Routed /\ InLine

(* Why LocksReleased holds, as long as no call ends the server.            *)
NoneEnds == \A q \in Calls : ~ Ends(q)

LocksInv ==
  /\ alive = Node
  /\ \A p \in Proc : ~ managing[p]
  /\ \A c \in locked : \E t \in Thread : InCall(t) /\ conn(t) = c
  /\ \A t \in Thread : pc[t] # "idle" => ~ Ends(req[t])
  /\ \A c \in Conn : \A i \in 1 .. Len(up[c]) : ~ Ends(up[c][i])

LEMMA InitOrder == Init => OrderInv
<1> SUFFICES ASSUME Init PROVE OrderInv
  OBVIOUS
<1>1. /\ \A t \in Thread : req[t].by = t
      /\ \A c \in Conn : Len(up[c]) = 0
      /\ \A n \in Node : Len(log[n]) = 0 /\ Len(accepted[n]) = 0 /\ backlog[n] = {} /\ serving[n] = none
  BY DEF Init
<1>2. \A c \in Conn : c[2] \in Node
  BY DEF Conn
<1>3. Numbered /\ Routed
  BY <1>1 DEF Numbered, Routed
<1>4. InLine
  BY <1>1, <1>2 DEF InLine
<1> QED BY <1>3, <1>4 DEF OrderInv

(* Nothing new on its way and nothing handled.                             *)
LEMMA OrderStill ==
  ASSUME TypeOK, OrderInv, up' = up, log' = log,
         \A q \in Request : Old(q) => Old(q)',
         \A t \in Thread : req'[t].by = t, Routed'
  PROVE  OrderInv'
<1>1. \A c \in Conn : \A i \in 1 .. Len(up[c]) : up[c][i] \in Request
  BY DEF TypeOK
<1>2. \A n \in Node : \A i \in 1 .. Len(log[n]) : log[n][i] \in Request
  BY DEF TypeOK
<1>3. Numbered'
  BY <1>1, <1>2 DEF OrderInv, Numbered
<1>4. InLine'
  BY DEF OrderInv, InLine, Before
<1> QED BY <1>3, <1>4 DEF OrderInv

LEMMA OldStable ==
  ASSUME NEW q \in Request, Old(q), req' = req,
         pc'[q.by] \in {"connect", "lock"} => pc[q.by] \in {"connect", "lock"}
  PROVE  Old(q)'
BY DEF Old

LEMMA CallOrder == ASSUME TypeOK, OrderInv, NEW t \in Thread, Call(t) PROVE OrderInv'
<1>1. PICK q \in Calls :
        req' = [req EXCEPT ![t] = [by |-> t, nth |-> @.nth + 1, type |-> q.type, run |-> q.run]]
  BY DEF Call
<1>2. /\ req'[t].by = t /\ req'[t].nth = req[t].nth + 1 /\ req[t].nth \in Nat
      /\ \A u \in Thread \ {t} : req'[u] = req[u] /\ pc'[u] = pc[u]
      /\ UNCHANGED <<up, log, serving, backlog, accepted>>
  BY <1>1 DEF Call, Goes, TypeOK, Request, server
<1>3. ASSUME NEW p \in Request, Old(p) PROVE Old(p)'
  <2>1. p.by \in Thread /\ p.nth \in Nat
    BY DEF Request
  <2> QED BY <1>2, <1>3, <2>1 DEF Old
<1>4. Routed'
  BY <1>2 DEF OrderInv, Routed
<1>5. \A u \in Thread : req'[u].by = u
  BY <1>2 DEF OrderInv, Numbered
<1> QED BY <1>2, <1>3, <1>4, <1>5, OrderStill

LEMMA SendOrder == ASSUME TypeOK, OrderInv, NEW t \in Thread, Send(t) PROVE OrderInv'
<1>0. PICK c \in Conn : c = conn(t) /\ c[1] = ProcOf[t] /\ c[2] \in Node
  BY ConnType DEF conn, Conn
<1>1. /\ pc[t] = "lock" /\ pc'[t] \in {"idle", "holding", "reading"}
      /\ \A u \in Thread \ {t} : pc'[u] = pc[u]
      /\ UNCHANGED <<req, log, serving, backlog, accepted>>
  BY DEF Send, Goes, TypeOK, AfterSend, server
<1>2. \A q \in Request : Old(q) => Old(q)'
  <2>1. \A q \in Request : q.by \in Thread
    BY DEF Request
  <2> QED BY <1>1, <2>1, OldStable
<1>3. CASE up' = up
  BY <1>1, <1>2, <1>3, OrderStill DEF OrderInv, Routed, Numbered
<1>4. CASE up' = [up EXCEPT ![c] = Append(@, req[t])]
  <2>1. PICK q \in Request : q = req[t]
    BY DEF TypeOK
  <2>2. q.by = t /\ q.nth \in Nat
    BY <2>1 DEF OrderInv, Numbered, Request
  <2>3. /\ Len(up[c]) \in Nat /\ Len(up'[c]) = Len(up[c]) + 1 /\ up'[c][Len(up[c]) + 1] = q
        /\ \A i \in 1 .. Len(up[c]) : up'[c][i] = up[c][i]
        /\ \A d \in Conn \ {c} : up'[d] = up[d]
    BY <1>4, <2>1 DEF TypeOK
  <2>4. \A i \in 1 .. Len(up'[c]) : i \in 1 .. Len(up[c]) \/ i = Len(up[c]) + 1
    BY <2>3
  <2>5. Numbered'
    <3>1. Old(q)'
      BY <1>1, <2>1, <2>2 DEF Old
    <3>2. \A d \in Conn : \A i \in 1 .. Len(up[d]) : Old(up[d][i]) /\ up[d][i] \in Request
      BY DEF OrderInv, Numbered, TypeOK
    <3>3. ASSUME NEW d \in Conn, NEW i \in 1 .. Len(up'[d])
          PROVE  \E x \in Request : x = up'[d][i] /\ Old(x)'
      <4>1. CASE d = c /\ i = Len(up[c]) + 1
        BY <2>3, <3>1, <4>1
      <4>2. CASE ~ (d = c /\ i = Len(up[c]) + 1)
        <5>1. i \in 1 .. Len(up[d]) /\ up'[d][i] = up[d][i]
          BY <2>3, <2>4, <4>2
        <5> QED BY <1>2, <3>2, <5>1 DEF Old
      <4> QED BY <4>1, <4>2
    <3>4. ASSUME NEW d \in Conn, NEW i \in 1 .. Len(up'[d]) PROVE Old(up[d][i])'
      BY <3>3 DEF Old
    <3>5. \A n \in Node : \A i \in 1 .. Len(log[n]) : Old(log[n][i]) /\ log[n][i] \in Request
      BY DEF OrderInv, Numbered, TypeOK
    <3>6. ASSUME NEW n \in Node, NEW i \in 1 .. Len(log'[n]) PROVE Old(log[n][i])'
      <4>1. PICK x \in Request : x = log[n][i] /\ Old(x)
        BY <1>1, <3>5, <3>6
      <4> QED BY <1>1, <1>2, <4>1 DEF Old
    <3>7. \A u \in Thread : req'[u].by = u
      BY <1>1 DEF OrderInv, Numbered
    <3> QED BY <3>4, <3>6, <3>7 DEF Numbered
  <2>6. Routed'
    <3>1. ASSUME NEW d \in Conn, NEW i \in 1 .. Len(up'[d]) PROVE ProcOf[up'[d][i].by] = d[1]
      <4>1. CASE d = c /\ i = Len(up[c]) + 1
        BY <1>0, <2>2, <2>3, <4>1
      <4>2. CASE ~ (d = c /\ i = Len(up[c]) + 1)
        <5>1. i \in 1 .. Len(up[d]) /\ up'[d][i] = up[d][i]
          BY <2>3, <2>4, <4>2
        <5> QED BY <5>1 DEF OrderInv, Routed
      <4> QED BY <4>1, <4>2
    <3> QED BY <1>1, <3>1 DEF OrderInv, Routed
  <2>7. InLine'
    <3>1. \A i \in 1 .. Len(up[c]) : Before(up[c][i], q)
      BY <1>1, <2>1, <2>2 DEF OrderInv, Numbered, Old, Before
    <3>2. \A i \in 1 .. Len(log[c[2]]) : Before(log[c[2]][i], q)
      BY <1>0, <1>1, <2>1, <2>2 DEF OrderInv, Numbered, Old, Before
    <3>3. \A d \in Conn : \A i, j \in 1 .. Len(up'[d]) : i < j => Before(up'[d][i], up'[d][j])
      BY <2>3, <2>4, <3>1 DEF OrderInv, InLine
    <3>4. \A d \in Conn : \A i \in 1 .. Len(log[d[2]]), j \in 1 .. Len(up'[d]) :
            Before(log[d[2]][i], up'[d][j])
      BY <2>3, <2>4, <3>2 DEF OrderInv, InLine
    <3> QED BY <1>1, <3>3, <3>4 DEF OrderInv, InLine, Before
  <2> QED BY <2>5, <2>6, <2>7 DEF OrderInv
<1>5. up' = up \/ up' = [up EXCEPT ![c] = Append(@, req[t])]
  BY <1>0 DEF Send
<1> QED BY <1>3, <1>4, <1>5

LEMMA ProcessOrder == ASSUME TypeOK, OrderInv, NEW n \in Node, Process(n) PROVE OrderInv'
<1>0. PICK c \in Conn : c = serving[n] /\ c[2] = n
  BY DEF Process, TypeOK, OrderInv, Routed
<1>1. /\ up[c] # <<>> /\ up' = [up EXCEPT ![c] = Tail(@)]
      /\ log' = [log EXCEPT ![n] = Append(@, Head(up[c]))]
      /\ serving' = [serving EXCEPT ![n] = none]
      /\ UNCHANGED <<pc, req, backlog, accepted>>
  BY <1>0 DEF Process, client
<1>2. /\ up[c] \in Seq(Request) /\ Head(up[c]) = up[c][1] /\ 1 \in 1 .. Len(up[c])
      /\ \A i \in 1 .. Len(Tail(up[c])) : i + 1 \in 1 .. Len(up[c]) /\ Tail(up[c])[i] = up[c][i + 1]
  BY <1>1, HeadThenTail DEF TypeOK
<1>3. PICK h \in Request : h = up[c][1]
  BY <1>2
<1>4. /\ \A i \in 1 .. Len(up'[c]) : i + 1 \in 1 .. Len(up[c]) /\ up'[c][i] = up[c][i + 1]
      /\ \A d \in Conn \ {c} : up'[d] = up[d]
      /\ Len(up'[c]) \in Nat
  BY <1>1, <1>2 DEF TypeOK
<1>5. /\ Len(log[n]) \in Nat /\ Len(log'[n]) = Len(log[n]) + 1 /\ log'[n][Len(log[n]) + 1] = h
      /\ \A i \in 1 .. Len(log[n]) : log'[n][i] = log[n][i]
      /\ \A m \in Node \ {n} : log'[m] = log[m]
  BY <1>1, <1>2, <1>3 DEF TypeOK
<1>6. \A i \in 1 .. Len(log'[n]) : i \in 1 .. Len(log[n]) \/ i = Len(log[n]) + 1
  BY <1>5
<1>7. Numbered'
  <2>1. ASSUME NEW d \in Conn, NEW i \in 1 .. Len(up'[d]) PROVE Old(up'[d][i])
    BY <1>4 DEF OrderInv, Numbered
  <2>2. ASSUME NEW m \in Node, NEW i \in 1 .. Len(log'[m]) PROVE Old(log'[m][i])
    <3>1. Old(h) /\ \A k \in 1 .. Len(log[m]) : Old(log[m][k])
      BY <1>2, <1>3 DEF OrderInv, Numbered
    <3>2. CASE m = n /\ i = Len(log[n]) + 1
      BY <1>5, <3>1, <3>2
    <3>3. CASE ~ (m = n /\ i = Len(log[n]) + 1)
      <4>1. i \in 1 .. Len(log[m]) /\ log'[m][i] = log[m][i]
        BY <1>5, <1>6, <2>2, <3>3
      <4> QED BY <3>1, <4>1
    <3> QED BY <3>2, <3>3
  <2> QED BY <1>1, <2>1, <2>2 DEF OrderInv, Numbered, Old
<1>8. Routed'
  <2>1. \A d \in Conn : \A i \in 1 .. Len(up'[d]) : ProcOf[up'[d][i].by] = d[1]
    BY <1>4 DEF OrderInv, Routed
  <2>2. \A m \in Node : serving'[m] = none \/ serving'[m][2] = m
    BY <1>1 DEF OrderInv, Routed, TypeOK
  <2> QED BY <1>1, <2>1, <2>2 DEF OrderInv, Routed
<1>9. \A i \in 1 .. Len(up'[c]) : Before(h, up'[c][i])
  BY <1>2, <1>3, <1>4 DEF OrderInv, InLine
<1>10. ASSUME NEW d \in Conn, d # c, d[2] = n, NEW i \in 1 .. Len(up[d]) PROVE Before(h, up[d][i])
  <2>1. ProcOf[h.by] = c[1] /\ ProcOf[up[d][i].by] = d[1]
    BY <1>2, <1>3 DEF OrderInv, Routed
  <2>2. c[1] # d[1]
    BY <1>0, <1>10 DEF Conn
  <2> QED BY <2>1, <2>2 DEF Before
<1>11. \A d \in Conn : \A i, j \in 1 .. Len(up'[d]) : i < j => Before(up'[d][i], up'[d][j])
  <2>1. ASSUME NEW i \in 1 .. Len(up'[c]), NEW j \in 1 .. Len(up'[c]), i < j
        PROVE  Before(up'[c][i], up'[c][j])
    <3>1. i + 1 < j + 1
      BY <2>1
    <3> QED BY <1>4, <3>1 DEF OrderInv, InLine
  <2> QED BY <1>4, <2>1 DEF OrderInv, InLine
<1>12. ASSUME NEW d \in Conn, NEW i \in 1 .. Len(log'[d[2]]), NEW j \in 1 .. Len(up'[d])
       PROVE  Before(log'[d[2]][i], up'[d][j])
  <2>0. d[2] \in Node
    BY DEF Conn
  <2>1. PICK k \in 1 .. Len(up[d]) : up'[d][j] = up[d][k]
    BY <1>4
  <2>2. CASE d[2] = n /\ i = Len(log[n]) + 1
    BY <1>5, <1>9, <1>10, <1>4, <2>2
  <2>3. CASE ~ (d[2] = n /\ i = Len(log[n]) + 1)
    <3>1. i \in 1 .. Len(log[d[2]]) /\ log'[d[2]][i] = log[d[2]][i]
      BY <1>5, <1>6, <2>0, <2>3
    <3> QED BY <2>1, <3>1 DEF OrderInv, InLine
  <2> QED BY <2>2, <2>3
<1>13. ASSUME NEW m \in Node, NEW i \in 1 .. Len(log'[m]), NEW j \in 1 .. Len(log'[m]), i < j
       PROVE  Before(log'[m][i], log'[m][j])
  <2>1. CASE m = n /\ j = Len(log[n]) + 1
    <3>1. i \in 1 .. Len(log[n]) /\ log'[n][i] = log[n][i] /\ log'[n][j] = h
      BY <1>5, <1>6, <1>13, <2>1
    <3>2. \A k \in 1 .. Len(up[c]) : Before(log[c[2]][i], up[c][k])
      BY <1>0, <3>1 DEF OrderInv, InLine
    <3> QED BY <1>0, <1>2, <1>3, <2>1, <3>1, <3>2
  <2>2. CASE ~ (m = n /\ j = Len(log[n]) + 1)
    <3>1. /\ i \in 1 .. Len(log[m]) /\ log'[m][i] = log[m][i]
          /\ j \in 1 .. Len(log[m]) /\ log'[m][j] = log[m][j]
      BY <1>5, <1>6, <1>13, <2>2
    <3> QED BY <1>13, <3>1 DEF OrderInv, InLine
  <2> QED BY <2>1, <2>2
<1>14. InLine'
  BY <1>11, <1>12, <1>13 DEF InLine, Before
<1> QED BY <1>7, <1>8, <1>14 DEF OrderInv

LEMMA NextOrder == TypeOK /\ OrderInv /\ [Next]_vars => OrderInv'
<1> SUFFICES ASSUME TypeOK, OrderInv, [Next]_vars PROVE OrderInv'
  OBVIOUS
<1>1. ASSUME UNCHANGED <<up, log, req>>, Routed',
             \A t \in Thread : pc'[t] \in {"connect", "lock"} => pc[t] \in {"connect", "lock"}
      PROVE  OrderInv'
  <2>1. \A q \in Request : q.by \in Thread
    BY DEF Request
  <2>2. \A q \in Request : Old(q) => Old(q)'
    BY <1>1, <2>1, OldStable
  <2> QED BY <1>1, <2>2, OrderStill DEF OrderInv, Numbered
<1>2. CASE UNCHANGED vars
  BY <1>1, <1>2 DEF vars, OrderInv, Routed
<1>3. ASSUME NEW t \in Thread, Connect(t) PROVE OrderInv'
  <2>1. /\ UNCHANGED <<up, log, req, serving, accepted>> /\ pc[t] = "connect"
        /\ \A u \in Thread \ {t} : pc'[u] = pc[u]
        /\ backlog' = backlog \/ backlog' = [backlog EXCEPT ![node[t]] = @ \cup {conn(t)}]
    BY <1>3 DEF Connect, Goes, TypeOK
  <2>2. conn(t)[2] = node[t]
    BY DEF conn
  <2>3. \A n \in Node : \A c \in backlog'[n] : c[2] = n
    <3>1. \A n \in Node : \A c \in backlog[n] : c[2] = n
      BY DEF OrderInv, Routed
    <3>2. CASE backlog' = backlog
      BY <3>1, <3>2
    <3>3. CASE backlog' = [backlog EXCEPT ![node[t]] = @ \cup {conn(t)}]
      <4>1. PICK d : d = conn(t) /\ d[2] = node[t]
        BY <2>2
      <4>2. \A n \in Node : backlog'[n] = IF n = node[t] THEN backlog[n] \cup {d} ELSE backlog[n]
        BY <3>3, <4>1 DEF TypeOK
      <4> QED BY <3>1, <4>1, <4>2
    <3> QED BY <2>1, <3>2, <3>3
  <2>4. Routed'
    BY <2>1, <2>3 DEF OrderInv, Routed
  <2> QED BY <1>1, <2>1, <2>4
<1>4. ASSUME NEW t \in Thread, Get(t) \/ Read(t) \/ ReadFails(t) PROVE OrderInv'
  <2>1. /\ UNCHANGED <<up, log, req, serving, accepted, backlog>>
        /\ \A u \in Thread \ {t} : pc'[u] = pc[u]
        /\ pc[t] \in {"holding", "reading"} /\ pc'[t] \in {pc[t], "reading", "idle"}
    BY <1>4 DEF Get, Read, ReadFails, Goes, TypeOK, server
  <2>2. Routed'
    BY <2>1 DEF OrderInv, Routed
  <2> QED BY <1>1, <2>1, <2>2
<1>5. ASSUME NEW n \in Node, Accept(n) PROVE OrderInv'
  <2>1. PICK c \in backlog[n] :
          /\ serving' = [serving EXCEPT ![n] = c]
          /\ backlog' = [backlog EXCEPT ![n] = @ \ {c}]
          /\ accepted' = [accepted EXCEPT ![n] = Append(@, c)]
          /\ UNCHANGED <<up, log, req, pc>>
    BY <1>5 DEF Accept, client
  <2>2. c[2] = n /\ c \in Conn /\ backlog[n] \subseteq Conn
    BY DEF OrderInv, Routed, TypeOK
  <2>3. \A m \in Node : serving'[m] = none \/ serving'[m][2] = m
    BY <2>1, <2>2 DEF OrderInv, Routed, TypeOK
  <2>4. \A m \in Node : \A d \in backlog'[m] : d[2] = m
    BY <2>1 DEF OrderInv, Routed, TypeOK
  <2>5. \A m \in Node : \A i \in 1 .. Len(accepted'[m]) : accepted'[m][i][2] = m
    <3>1. /\ accepted[n] \in Seq(Conn) /\ accepted'[n] = Append(accepted[n], c)
          /\ \A m \in Node \ {n} : accepted'[m] = accepted[m]
      BY <2>1 DEF TypeOK
    <3>2. \A i \in 1 .. Len(accepted'[n]) : accepted'[n][i][2] = n
      BY <2>2, <3>1 DEF OrderInv, Routed
    <3> QED BY <3>1, <3>2 DEF OrderInv, Routed
  <2>6. Routed'
    BY <2>1, <2>3, <2>4, <2>5 DEF OrderInv, Routed
  <2> QED BY <1>1, <2>1, <2>6
<1>6. ASSUME NEW n \in Node, Select(n) PROVE OrderInv'
  <2>1. /\ UNCHANGED <<up, log, req, pc, backlog, accepted>>
        /\ \E i \in DOMAIN accepted[n] : serving' = [serving EXCEPT ![n] = accepted[n][i]]
    BY <1>6 DEF Select, client
  <2>2. \A i \in DOMAIN accepted[n] : accepted[n][i][2] = n
    BY DEF OrderInv, Routed, TypeOK
  <2>3. \A m \in Node : serving'[m] = none \/ serving'[m][2] = m
    BY <2>1, <2>2 DEF OrderInv, Routed, TypeOK
  <2>4. Routed'
    BY <2>1, <2>3 DEF OrderInv, Routed
  <2> QED BY <1>1, <2>1, <2>4
<1> QED BY <1>2, <1>3, <1>4, <1>5, <1>6, CallOrder, SendOrder, ProcessOrder DEF Next, Client, Server

(* The requests a thread sends to a node are handled in the order it sent  *)
(* them and once each, whether it waits for answers or not, whichever      *)
(* threads share the connection and whenever servers end (exrpc.cc,        *)
(* handle_exrpc_process).                                                  *)
THEOREM InOrder == Spec => []HandledInOrder
<1>1. TypeOK /\ OrderInv /\ [Next]_vars => (TypeOK /\ OrderInv)'
  BY NextTypeOK, NextOrder
<1>2. TypeOK /\ OrderInv => HandledInOrder
  <2> SUFFICES ASSUME TypeOK, OrderInv,
                      NEW n \in Node, NEW i \in DOMAIN log[n], NEW j \in DOMAIN log[n], i < j
               PROVE  Before(log[n][i], log[n][j])
    BY DEF HandledInOrder, Before
  <2>1. i \in 1 .. Len(log[n]) /\ j \in 1 .. Len(log[n])
    BY DEF TypeOK
  <2> QED BY <2>1 DEF OrderInv, InLine
<1> QED BY InitTypeOK, InitOrder, <1>1, <1>2, PTL DEF Spec

---------------------------------------------------------------------------
LEMMA InitLocks == Init => LocksInv
<1> SUFFICES ASSUME Init PROVE LocksInv
  OBVIOUS
<1>1. /\ alive = Node /\ locked = {} /\ \A p \in Proc : ~ managing[p]
      /\ \A t \in Thread : pc[t] = "idle" /\ \A c \in Conn : Len(up[c]) = 0
  BY DEF Init
<1>2. \A c \in Conn : Len(up[c]) = 0
  BY DEF Init
<1> QED BY <1>1, <1>2 DEF LocksInv

(* A connection somebody else holds stays held.                            *)
LEMMA HoldersKept ==
  ASSUME LocksInv, NEW t \in Thread, NEW c \in locked, conn(t) # c \/ ~ InCall(t),
         \A u \in Thread \ {t} : pc'[u] = pc[u] /\ node'[u] = node[u]
  PROVE  \E u \in Thread : InCall(u)' /\ conn(u)' = c
<1>1. PICK u \in Thread : InCall(u) /\ conn(u) = c
  BY DEF LocksInv
<1> QED BY <1>1 DEF InCall, conn

LEMMA NextLocks == ASSUME NoneEnds PROVE TypeOK /\ LocksInv /\ [Next]_vars => LocksInv'
<1> SUFFICES ASSUME TypeOK, LocksInv, [Next]_vars PROVE LocksInv'
  OBVIOUS
<1>1. /\ alive = Node /\ \A p \in Proc : ~ managing[p]
      /\ \A c \in locked : \E t \in Thread : InCall(t) /\ conn(t) = c
      /\ \A t \in Thread : pc[t] # "idle" => ~ Ends(req[t])
      /\ \A c \in Conn : \A i \in 1 .. Len(up[c]) : ~ Ends(up[c][i])
  BY DEF LocksInv
<1>2. ASSUME UNCHANGED <<pc, req, node, managing, locked, up, alive>> PROVE LocksInv'
  BY <1>1, <1>2 DEF LocksInv, InCall, conn, Ends
<1>3. ASSUME NEW t \in Thread, Call(t) PROVE LocksInv'
  <2>1. PICK q \in Calls, n \in Node :
          /\ req' = [req EXCEPT ![t] = [by |-> t, nth |-> @.nth + 1, type |-> q.type, run |-> q.run]]
          /\ node' = [node EXCEPT ![t] = n]
    BY <1>3 DEF Call
  <2>2. /\ pc[t] = "idle" /\ \A u \in Thread \ {t} : pc'[u] = pc[u] /\ node'[u] = node[u] /\ req'[u] = req[u]
        /\ req'[t].type = q.type /\ req'[t].run = q.run
        /\ UNCHANGED <<managing, locked, up, alive>>
    BY <1>3, <2>1 DEF Call, Goes, TypeOK, server
  <2>3. ~ Ends(req'[t])
    BY <2>2 DEF NoneEnds, Ends
  <2>4. \A c \in locked' : \E u \in Thread : InCall(u)' /\ conn(u)' = c
    BY <2>2, HoldersKept DEF InCall
  <2> QED BY <1>1, <2>2, <2>3, <2>4 DEF LocksInv, Ends
<1>4. ASSUME NEW t \in Thread, Connect(t) PROVE LocksInv'
  <2>1. node[t] \in alive
    BY <1>1 DEF TypeOK
  <2>2. /\ pc[t] = "connect" /\ \A u \in Thread \ {t} : pc'[u] = pc[u]
        /\ UNCHANGED <<req, node, managing, locked, up, alive>>
    BY <1>4, <2>1 DEF Connect, Goes, TypeOK
  <2>3. \A c \in locked' : \E u \in Thread : InCall(u)' /\ conn(u)' = c
    BY <2>2, HoldersKept DEF InCall
  <2>4. \A u \in Thread : pc'[u] # "idle" => ~ Ends(req[u])
    BY <1>1, <2>2
  <2> QED BY <1>1, <2>2, <2>3, <2>4 DEF LocksInv, Ends
<1>5. ASSUME NEW t \in Thread, Send(t) PROVE LocksInv'
  <2>0. PICK c \in Conn : c = conn(t)
    BY ConnType
  <2>1. /\ pc[t] = "lock" /\ pc'[t] = AfterSend(req[t].type)
        /\ \A u \in Thread \ {t} : pc'[u] = pc[u]
        /\ UNCHANGED <<req, node, managing, alive>>
        /\ locked' = IF AfterSend(req[t].type) = "idle" THEN locked ELSE locked \cup {c}
        /\ up' = [up EXCEPT ![c] = Append(@, req[t])]
    BY <1>1, <1>5, <2>0 DEF Send, Goes, TypeOK, server
  <2>2. ~ Ends(req[t])
    BY <1>1, <2>1
  <2>3. \A d \in locked : \E u \in Thread : InCall(u)' /\ conn(u)' = d
    BY <2>1, HoldersKept DEF InCall
  <2>4. AfterSend(req[t].type) # "idle" => InCall(t)' /\ conn(t)' = c
    BY <2>0, <2>1 DEF AfterSend, InCall, conn
  <2>5. \A u \in Thread : pc'[u] # "idle" => ~ Ends(req[u])
    BY <1>1, <2>1, <2>2
  <2>6. ASSUME NEW d \in Conn, NEW i \in 1 .. Len(up'[d]) PROVE ~ Ends(up'[d][i])
    <3>1. up[c] \in Seq(Request) /\ up'[c] = Append(up[c], req[t]) /\ req[t] \in Request
      BY <2>1 DEF TypeOK
    <3>2. CASE d = c /\ i = Len(up[c]) + 1
      BY <2>2, <3>1, <3>2
    <3>3. CASE d = c /\ i # Len(up[c]) + 1
      <4>1. i \in 1 .. Len(up[c]) /\ up'[c][i] = up[c][i]
        BY <3>1, <3>3
      <4> QED BY <1>1, <3>3, <4>1
    <3>4. CASE d # c
      BY <1>1, <2>1, <3>4 DEF TypeOK
    <3> QED BY <3>2, <3>3, <3>4
  <2> QED BY <1>1, <2>1, <2>3, <2>4, <2>5, <2>6 DEF LocksInv, Ends
<1>6. ASSUME NEW t \in Thread, Get(t) PROVE LocksInv'
  <2>1. /\ pc[t] = "holding" /\ pc'[t] = "reading" /\ \A u \in Thread \ {t} : pc'[u] = pc[u]
        /\ UNCHANGED <<req, node, managing, locked, up, alive>>
    BY <1>6 DEF Get, Goes, TypeOK, server
  <2>2. \A u \in Thread : InCall(u)' = InCall(u) /\ conn(u)' = conn(u)
    BY <2>1 DEF InCall, conn
  <2> QED BY <1>1, <2>1, <2>2 DEF LocksInv, Ends
<1>7. ASSUME NEW t \in Thread, Read(t) PROVE LocksInv'
  <2>1. /\ pc[t] = "reading" /\ \A u \in Thread \ {t} : pc'[u] = pc[u]
        /\ UNCHANGED <<req, node, managing, up, alive>>
        /\ (pc'[t] = "idle" /\ locked' = locked \ {conn(t)}) \/ UNCHANGED <<pc, locked>>
    BY <1>7 DEF Read, Goes, TypeOK, server
  <2>2. CASE UNCHANGED <<pc, locked>>
    BY <1>2, <2>1, <2>2
  <2>3. CASE pc'[t] = "idle" /\ locked' = locked \ {conn(t)}
    <3>1. \A c \in locked' : \E u \in Thread : InCall(u)' /\ conn(u)' = c
      BY <2>1, <2>3, HoldersKept
    <3>2. \A u \in Thread : pc'[u] # "idle" => ~ Ends(req[u])
      BY <1>1, <2>1
    <3> QED BY <1>1, <2>1, <3>1, <3>2 DEF LocksInv, Ends
  <2> QED BY <2>1, <2>2, <2>3
<1>8. ASSUME NEW t \in Thread, ReadFails(t) PROVE LocksInv'
  BY <1>1, <1>8 DEF ReadFails, TypeOK
<1>9. ASSUME NEW n \in Node, Process(n) PROVE LocksInv'
  <2>1. PICK c \in Conn : /\ up[c] # <<>> /\ up' = [up EXCEPT ![c] = Tail(@)]
                          /\ alive' = IF Ends(Head(up[c])) THEN alive \ {n} ELSE alive
                          /\ UNCHANGED <<pc, req, node, managing, locked>>
    BY <1>9 DEF Process, TypeOK, client
  <2>2. /\ up[c] \in Seq(Request) /\ Head(up[c]) = up[c][1] /\ 1 \in 1 .. Len(up[c])
        /\ \A i \in 1 .. Len(Tail(up[c])) : i + 1 \in 1 .. Len(up[c]) /\ Tail(up[c])[i] = up[c][i + 1]
    BY <2>1, HeadThenTail DEF TypeOK
  <2>3. alive' = alive
    BY <1>1, <2>1, <2>2
  <2>4. \A d \in Conn : \A i \in 1 .. Len(up'[d]) : \E k \in 1 .. Len(up[d]) : up'[d][i] = up[d][k]
    BY <2>1, <2>2 DEF TypeOK
  <2>5. \A d \in Conn : \A i \in 1 .. Len(up'[d]) : ~ Ends(up'[d][i])
    BY <1>1, <2>4
  <2>6. \A u \in Thread : InCall(u)' = InCall(u) /\ conn(u)' = conn(u)
    BY <2>1 DEF InCall, conn
  <2> QED BY <1>1, <2>1, <2>3, <2>5, <2>6 DEF LocksInv, Ends
<1>10. ASSUME NEW n \in Node, Accept(n) \/ Select(n) PROVE LocksInv'
  BY <1>2, <1>10 DEF Accept, Select, client
<1>11. CASE UNCHANGED vars
  BY <1>2, <1>11 DEF vars
<1> QED BY <1>3, <1>4, <1>5, <1>6, <1>7, <1>8, <1>9, <1>10, <1>11 DEF Next, Client, Server

(* Each kind of call gives back the mutex it took, whether its function    *)
(* returned or threw, and whatever the other threads do: with no call      *)
(* under way nothing is held, provided that no call ends a server.         *)
(* A server that ends does leave mutexes held, so the proviso is needed.   *)
THEOREM NothingHeld == ASSUME NoneEnds PROVE Spec => []LocksReleased
<1>1. TypeOK /\ LocksInv /\ [Next]_vars => (TypeOK /\ LocksInv)'
  BY NextTypeOK, NextLocks
<1>2. TypeOK /\ LocksInv => LocksReleased
  BY DEF LocksInv, LocksReleased, InCall
<1> QED BY InitTypeOK, InitLocks, <1>1, <1>2, PTL DEF Spec
=============================================================================
