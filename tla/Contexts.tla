----------------------------- MODULE Contexts -----------------------------
(***************************************************************************)
(* Nested contexts (src/frovedis/core/split_context.{hpp,cc}).  A request  *)
(* on the current communicator makes every rank split that communicator by *)
(* its colour and start a second RPC engine on its part: the lowest rank   *)
(* of a colour runs the function f as the root of the group, the others    *)
(* loop in handle_one_bcast_req, until f ends or throws, the root sends    *)
(* finalize_type, and all of them fall back into the request of the outer  *)
(* engine.  The communicator, the table of variables and the next id are   *)
(* process globals, saved on stacks by push_context and put back by        *)
(* pop_context; each rank does so at its own time.                         *)
(*                                                                         *)
(* The engine is reduced to what its two sides share, the broadcast of the *)
(* header and the vote on exceptions (MpiRpc has the rest).  A collective  *)
(* is a position in the log of a communicator: the k-th that each of its   *)
(* ranks enters.  The colour, which the code scatters in a request of its  *)
(* own and looks up by id, rides with the request here.                    *)
(*                                                                         *)
(* An operator Name_how is Name with a slip in it; no specification uses   *)
(* it.  With it in the place of Name, some property below must fail.       *)
(***************************************************************************)
EXTENDS Naturals, Sequences, FiniteSets, SequencesExt

CONSTANTS
  N,        \* number of MPI ranks
  Budget,   \* Budget[d]: bound on the work requests of a context at depth d
  MaxOwn,   \* bound on the variables a context's program holds at a time
  Faulty    \* the ranks whose functions may throw

ASSUME NAssumption == N \in Nat \ {0}
ASSUME BudgetAssumption == Budget \in Seq(Nat) /\ Len(Budget) > 0
ASSUME FaultyAssumption == Faulty \subseteq 0 .. N - 1

Rank == 0 .. N - 1

(* A communicator: the colours it came by, and its ranks, which keep the   *)
(* order they had in the outermost one (MPI_Comm_split with key 0).        *)
World == [id |-> <<>>, ranks |-> Rank]
Members(c) == c.ranks
RootOf(c) == Min(c.ranks)
Place(c, r) == Cardinality({s \in c.ranks : s <= r})

VARIABLES
  ctx,    \* ctx[r]: the globals of r, its communicator, dvid_table, current_dvid
  saved,  \* saved[r]: the stacks of push_context, oldest first
  act,    \* act[r]: the engines r is inside of, outermost first
  log,    \* log[c]: the collectives entered on communicator c
  has     \* has[r]: the variables whose payload of a broadcast is on r

vars == <<ctx, saved, act, log, has>>

NoReq == [op |-> "none"]
Depth(r) == Len(act[r])
Top(r) == act[r][Depth(r)]
comm(r) == ctx[r].comm
IsRoot(r) == r = RootOf(comm(r))

(* What an engine starts with: its program's place, the request served,    *)
(* the variables the program owns, the views it was given, whether an      *)
(* exception is on its way, and whether one ended the last context made    *)
(* from here, how many requests it made, and how the last one went.        *)
Engine(at, f, views) ==
  [at |-> at, f |-> f, req |-> NoReq, own |-> {}, views |-> views,
   exc |-> FALSE, inner |-> FALSE, n |-> 0, last |-> NoReq]

---------------------------------------------------------------------------
(* Collectives of one communicator.                                        *)

(* The position of r: the last entry r is in, 0 if it is in none.          *)
Cur(r, c) == Cardinality({k \in DOMAIN log[c] : r \in log[c][k].in})
Here(r) == log[comm(r)][Cur(r, comm(r))]

Ballot(exc) == [op |-> "ballot", exc |-> exc]

(* Rank r enters its next collective on c with its contribution; an entry  *)
(* everyone has gone past is forgotten.                                    *)
Enter(lg, r, c, op, val) ==
  LET k == Cardinality({j \in DOMAIN lg[c] : r \in lg[c][j].in}) + 1
      mine == [ops |-> {op}, in |-> {r}, val |-> [s \in {r} |-> val]]
      joined(e) == [ops |-> e.ops \cup {op}, in |-> e.in \cup {r},
                    val |-> [s \in e.in \cup {r} |-> IF s = r THEN val ELSE e.val[s]]]
      seq == IF k > Len(lg[c]) THEN Append(lg[c], mine)
                               ELSE [lg[c] EXCEPT ![k] = joined(@)]
  IN  [lg EXCEPT ![c] =
         IF Len(seq) > 1 /\ Members(c) = seq[2].in THEN Tail(seq) ELSE seq]

(* A broadcast waits for the root, any other collective for everyone.      *)
Leaves(r, op) ==
  /\ Top(r).at = op
  /\ IF op = "hdr" THEN RootOf(comm(r)) \in Here(r).in
                   ELSE Members(comm(r)) \subseteq Here(r).in

Voted(r) == \E s \in Members(comm(r)) : Here(r).val[s].exc

SetTop(r, e) == [act EXCEPT ![r] = [@ EXCEPT ![Len(@)] = e]]

---------------------------------------------------------------------------
(* Colours, by rank of the communicator.                                   *)

(* make_color(size): equal blocks, what is left over goes to the last.     *)
make_color(n, size) ==
  [i \in 1 .. n |->
    LET block == (i - 1) \div (n \div size) IN IF block < size THEN block ELSE size - 1]

(* A colouring of the user's own, which no order of the ranks explains.    *)
striped(n) == [i \in 1 .. n |-> i % 2]

(* What split_context_broadcast gets from the stable sort of the colours:  *)
(* 0 for the first rank of each colour, 1 for the others.                  *)
heads_color_unsorted(color) ==
  [i \in DOMAIN color |->
    IF \E c \in ToSet(color) : i = Cardinality({j \in DOMAIN color : color[j] < c}) + 1
      THEN 0 ELSE 1]
heads_color(color) ==
  [i \in DOMAIN color |-> IF \E j \in DOMAIN color : j < i /\ color[j] = color[i]
                            THEN 1 ELSE 0]

(* MPI_Comm_split: the ranks of one colour.                                *)
SubComm(c, color, r) ==
  LET mine == color[Place(c, r)]
  IN  [id |-> Append(c.id, mine), ranks |-> {s \in c.ranks : color[Place(c, s)] = mine}]

---------------------------------------------------------------------------
push_context_keeps_ids(g) == [g EXCEPT !.table = <<>>]
push_context_from_zero(g) == [g EXCEPT !.table = <<>>, !.current_dvid = 0]
push_context(g) == [g EXCEPT !.table = <<>>, !.current_dvid = 1]

pop_context(r) == saved[r][Len(saved[r])]

with_entry(g, id, obj) ==
  [g EXCEPT !.table = [i \in DOMAIN @ \cup {id} |-> IF i = id THEN obj ELSE @[i]]]
without_entry(g, id) == [g EXCEPT !.table = [i \in DOMAIN @ \ {id} |-> @[i]]]

(* The engines of r once the innermost is over.                            *)
Resumed(r) ==
  LET d == Depth(r) - 1
  IN  [Front(act[r]) EXCEPT ![d].at = "vote", ![d].inner = Top(r).exc]

---------------------------------------------------------------------------
Init ==
  /\ ctx = [r \in Rank |-> [comm |-> World, table |-> <<>>, current_dvid |-> 1]]
  /\ saved = [r \in Rank |-> <<>>]
  /\ act = [r \in Rank |-> <<Engine(IF r = 0 THEN "user" ELSE "hdr", "user", {})>>]
  /\ log = [c \in {World} |->
             <<[ops |-> {"hdr"}, in |-> Rank \ {0}, val |-> [s \in Rank \ {0} |-> NoReq]]>>]
  /\ has = [r \in Rank |-> {}]

(* The root of a context sends request q: it enters the broadcast of the   *)
(* header, with e what becomes of its program.                             *)
Send(r, q, e) ==
  /\ act' = SetTop(r, [e EXCEPT !.at = "hdr", !.last = NoReq])
  /\ log' = Enter(log, r, comm(r), "hdr", q)
  /\ UNCHANGED saved

InProgram(r, f) == IsRoot(r) /\ Top(r).at = "user" /\ Top(r).f = f
MayAsk(r) == ~ Top(r).exc /\ Top(r).n < Budget[Depth(r)]
Counted(e) == [e EXCEPT !.n = @ + 1]

(* make_node_local_allocate, and what else makes a variable.               *)
Make(r) ==
  LET v == [id |-> ctx[r].current_dvid, obj |-> <<comm(r).id, Top(r).n>>]
      e == [Counted(Top(r)) EXCEPT !.own = @ \cup {v}]
  IN  /\ Send(r, [op |-> "make", v |-> v], e)
      /\ ctx' = [ctx EXCEPT ![r].current_dvid = @ + 1]
      /\ UNCHANGED has

(* A call that works on a variable on every rank: map, mapv, put...        *)
Use(r, v) == Send(r, [op |-> "use", v |-> v], Counted(Top(r))) /\ UNCHANGED <<ctx, has>>

(* The destructor of a variable that is no view.                           *)
Drop(r, v) ==
  /\ Send(r, [op |-> "drop", v |-> v], [Top(r) EXCEPT !.own = @ \ {v}])
  /\ UNCHANGED <<ctx, has>>

Split(r, color, f, args, of) ==
  Send(r, [op |-> "split", color |-> color, f |-> f, args |-> args, of |-> of],
       Counted(Top(r)))

(* split_context_execution(color, f, args...).                             *)
SplitUser(r, color) ==
  /\ Split(r, color, "user", SetToSeq(Top(r).own \cup Top(r).views), color)
  /\ UNCHANGED <<ctx, has>>

(* split_context_broadcast(color, arg): nl.put(0, arg), then a context of  *)
(* the first ranks of the colours.                                         *)
SplitBroadcast(r, color, v) ==
  /\ Split(r, heads_color(color), "bcast", <<v>>, color)
  /\ has' = [has EXCEPT ![r] = @ \cup {v.obj}]
  /\ UNCHANGED ctx

UserAsks(r) ==
  /\ InProgram(r, "user") /\ MayAsk(r)
  /\ LET n == Cardinality(Members(comm(r)))
         colors == {make_color(n, 2), striped(n)}
     IN \/ Cardinality(Top(r).own) < MaxOwn /\ Make(r)
        \/ \E v \in Top(r).own \cup Top(r).views : Use(r, v)
        \/ /\ Depth(r) < Len(Budget) /\ n > 1
           /\ \E color \in colors :
                \/ SplitUser(r, color)
                \/ \E v \in Top(r).own : SplitBroadcast(r, color, v)

UserDrops(r) == InProgram(r, "user") /\ \E v \in Top(r).own : Drop(r, v)

(* split_context_broadcast_helper: a variable broadcast in the context,    *)
(* swapped into nl, and destroyed.  Only the group whose root is rank 0 of *)
(* the outermost communicator acts (get_split_rank_stack()[0] == 0).       *)
HelperAsks(r) ==
  /\ InProgram(r, "bcast") /\ r = 0
  /\ \/ Top(r).n = 0 /\ Make(r)
     \/ /\ Top(r).n = 1
        /\ \E v \in Top(r).views : Send(r, [op |-> "move", v |-> v], Counted(Top(r)))
        /\ UNCHANGED <<ctx, has>>
     \/ Top(r).n = 2 /\ \E v \in Top(r).own : Drop(r, v)

(* f throws on its own account.                                            *)
UserThrows(r) ==
  /\ InProgram(r, "user") /\ r \in Faulty /\ Depth(r) > 1 /\ ~ Top(r).exc
  /\ act' = SetTop(r, [Top(r) EXCEPT !.exc = TRUE])
  /\ UNCHANGED <<ctx, saved, log, has>>

(* The program of a context is over, by return or by exception, and its    *)
(* variables are destroyed: finalize_split_context_execution, or           *)
(* finalizefrovedis for the outermost one.                                 *)
UserEnds_unwinds(r) ==
  /\ IsRoot(r) /\ Top(r).at = "user" /\ Top(r).own = {}
  /\ (Top(r).f = "bcast" /\ r = 0) => Top(r).n = 2
  /\ IF Top(r).exc
       THEN /\ act' = [act EXCEPT ![r] = Resumed(r)]
            /\ log' = Enter(log, r, comm(r), "vote", Ballot(TRUE))
            /\ UNCHANGED saved
       ELSE Send(r, [op |-> "finalize"], Top(r))
  /\ UNCHANGED <<ctx, has>>

UserEnds(r) ==
  /\ IsRoot(r) /\ Top(r).at = "user" /\ Top(r).own = {}
  /\ (Top(r).f = "bcast" /\ r = 0) => Top(r).n = 2
  /\ Send(r, [op |-> "finalize"], Top(r))
  /\ UNCHANGED <<ctx, has>>

---------------------------------------------------------------------------
(* The wrapper has ended on r, with or without an exception.               *)
Vote(r, exc) ==
  /\ log' = Enter(log, r, comm(r), "vote", Ballot(exc))
  /\ UNCHANGED saved

Freed_never(r, c) == log

(* MPI_Comm_free: the communicator ends with the last rank that frees it.  *)
Freed(r, c) ==
  IF \A s \in Members(c) \ {r} :
       /\ Cur(s, c) > 0
       /\ ctx[s].comm # c /\ \A i \in DOMAIN saved[s] : saved[s][i].comm # c
    THEN [d \in DOMAIN log \ {c} |-> log[d]] ELSE log

(* Out of the inner engine, into the vote of the request that made it.     *)
EndContext_swallows(r) ==
  /\ ctx' = [ctx EXCEPT ![r] = pop_context(r)]
  /\ saved' = [saved EXCEPT ![r] = Front(@)]
  /\ act' = [act EXCEPT ![r] = Resumed(r)]
  /\ log' = Enter(Freed(r, comm(r)), r, pop_context(r).comm, "vote", Ballot(FALSE))

EndContext(r) ==
  /\ ctx' = [ctx EXCEPT ![r] = pop_context(r)]
  /\ saved' = [saved EXCEPT ![r] = Front(@)]
  /\ act' = [act EXCEPT ![r] = Resumed(r)]
  /\ log' = Enter(Freed(r, comm(r)), r, pop_context(r).comm, "vote", Ballot(Top(r).exc))

Pending(r) == Here(r).val[RootOf(comm(r))]

(* The request of a header is served: by the program's function, by        *)
(* split_context_execution_helper, or by leaving the loop.                 *)
LeaveHdr(r) ==
  /\ Leaves(r, "hdr")
  /\ LET q == Pending(r)
         serving(at) == SetTop(r, [Top(r) EXCEPT !.at = at, !.req = q, !.inner = FALSE])
         known == IF q.op = "split" THEN \A i \in DOMAIN q.args : q.args[i].id \in DOMAIN ctx[r].table
                  ELSE q.op \in {"use", "move", "drop"} => q.v.id \in DOMAIN ctx[r].table
     IN \/ /\ q.op = "finalize" /\ Depth(r) = 1
           /\ act' = SetTop(r, [Top(r) EXCEPT !.at = "gone"])
           /\ UNCHANGED <<ctx, saved, log, has>>
        \/ /\ q.op = "finalize" /\ Depth(r) > 1
           /\ EndContext(r)
           /\ UNCHANGED has
        \/ /\ q.op # "finalize" /\ ~ known    \* get_data(): invalid dvid
           /\ act' = serving("vote") /\ Vote(r, TRUE)
           /\ UNCHANGED <<ctx, has>>
        \/ /\ q.op = "make"
           /\ ctx' = [ctx EXCEPT ![r] = with_entry(@, q.v.id, q.v.obj)]
           /\ act' = serving("vote") /\ Vote(r, FALSE)
           /\ UNCHANGED has
        \/ /\ q.op = "use" /\ known
           /\ \E exc \in {FALSE} \cup {TRUE : s \in Faulty \cap {r}} : Vote(r, exc)
           /\ act' = serving("vote")
           /\ UNCHANGED <<ctx, has>>
        \/ /\ q.op = "move" /\ known
           /\ has' = [has EXCEPT ![r] = @ \cup {ctx[r].table[q.v.id]}]
           /\ act' = serving("vote") /\ Vote(r, FALSE)
           /\ UNCHANGED ctx
        \/ /\ q.op = "drop" /\ known
           /\ ctx' = [ctx EXCEPT ![r] = without_entry(@, q.v.id)]
           /\ has' = [has EXCEPT ![r] = @ \ {ctx[r].table[q.v.id]}]
           /\ act' = serving("vote") /\ Vote(r, FALSE)
        \/ /\ q.op = "split" /\ known         \* init_split_context_execution
           /\ saved' = [saved EXCEPT ![r] = Append(@, ctx[r])]
           /\ ctx' = [ctx EXCEPT ![r] = push_context(@)]
           /\ act' = serving("split")
           /\ log' = Enter(log, r, comm(r), "split", NoReq)
           /\ UNCHANGED has

(* MPI_Comm_split is over on r: it has a communicator of its colour, and   *)
(* gives the arguments new ids in the new table, each rank by itself.      *)
LeaveSplit(r) ==
  /\ Leaves(r, "split")
  /\ LET q == Top(r).req
         c == SubComm(comm(r), q.color, r)
         first == ctx[r].current_dvid
         ids == [i \in DOMAIN q.args |-> first + i - 1]
         old == saved[r][Len(saved[r])].table
         g == [ctx[r] EXCEPT !.comm = c, !.current_dvid = first + Len(q.args),
                 !.table = [id \in DOMAIN @ \cup ToSet(ids) |->
                   IF id \in ToSet(ids) THEN old[q.args[id - first + 1].id] ELSE @[id]]]
         views == {[id |-> ids[i], obj |-> q.args[i].obj] : i \in DOMAIN q.args}
         lg == [d \in DOMAIN log \cup {c} |-> IF d \in DOMAIN log THEN log[d] ELSE <<>>]
     IN /\ ctx' = [ctx EXCEPT ![r] = g]
        /\ act' = [act EXCEPT ![r] =
             Append(@, Engine(IF r = RootOf(c) THEN "user" ELSE "hdr", q.f, views))]
        /\ log' = IF r = RootOf(c) THEN lg ELSE Enter(lg, r, c, "hdr", NoReq)
  /\ UNCHANGED <<saved, has>>

(* The vote is over: a worker goes on to the next header; the root's call  *)
(* returns, or throws, and its program may catch that (local_fit does).    *)
LeaveVote(r) ==
  /\ Leaves(r, "vote")
  /\ IF IsRoot(r)
       THEN /\ \E caught \in {Depth(r) = 1, Top(r).f = "user"} :
                 act' = SetTop(r, [Top(r) EXCEPT !.at = "user",
                          !.exc = @ \/ (Voted(r) /\ ~ caught),
                          !.req = NoReq, !.last = [req |-> Top(r).req, ok |-> ~ Voted(r)]])
            /\ UNCHANGED log
       ELSE /\ act' = SetTop(r, [Top(r) EXCEPT !.at = "hdr", !.req = NoReq])
            /\ log' = Enter(log, r, comm(r), "hdr", NoReq)
  /\ UNCHANGED <<ctx, saved, has>>

Step(r) == LeaveHdr(r) \/ LeaveSplit(r) \/ LeaveVote(r)
Program(r) == UserAsks(r) \/ UserDrops(r) \/ HelperAsks(r) \/ UserThrows(r) \/ UserEnds(r)

AllGone == \A r \in Rank : Top(r).at = "gone"
Exited == AllGone /\ UNCHANGED vars

Next == (\E r \in Rank : Step(r) \/ Program(r)) \/ Exited

Spec == Init /\ [][Next]_vars

(* Every process runs on; a function run in a context ends, and so does    *)
(* the helper of split_context_broadcast.  The outermost program need not. *)
Fairness ==
  \A r \in Rank : WF_vars(Step(r) \/ (Depth(r) > 1 /\ Program(r)))
FairSpec == Spec /\ Fairness

---------------------------------------------------------------------------
(* The globals keep their types, ids are positive, a rank is a member of   *)
(* its communicator, and the stacks of push_context are as deep as the     *)
(* engines it is inside of.                                                *)
TypeOK ==
  \A r \in Rank :
    /\ comm(r) \in DOMAIN log /\ r \in Members(comm(r))
    /\ ctx[r].current_dvid \in Nat \ {0}
    /\ DOMAIN ctx[r].table \subseteq Nat \ {0}
    /\ Top(r).at \in {"user", "hdr", "split", "vote", "gone"}
    /\ Top(r).exc \in BOOLEAN
    /\ Len(saved[r]) = Depth(r) - 1 + (IF Top(r).at = "split" THEN 1 ELSE 0)

(* Ranks inside, outside and on their way in or out of a context never     *)
(* meet in the wrong collective: whatever communicator it is called on,    *)
(* the k-th collective of a communicator is the same call on all its ranks.*)
(* (frovedis_comm_rpc is swapped under running engines)                    *)
CollectivesPair ==
  \A c \in DOMAIN log : \A k \in DOMAIN log[c] :
    /\ Cardinality(log[c][k].ops) = 1
    /\ log[c][k].in \subseteq Members(c)

(* An id means one variable: when a rank serves a request, its own table   *)
(* has the id of the request for the very variable the caller means, and   *)
(* an id about to be given is free, in an inner context and, after it, in  *)
(* the outer one.  (get_new_dvid runs on every rank for the arguments of a *)
(* context, on the root alone for everything else)                         *)
IdsMeanOneVariable ==
  \A r \in Rank :
    (Depth(r) > 0 /\ Top(r).at = "hdr" /\ Leaves(r, "hdr")) =>
      LET q == Pending(r)
          means(v) == v.id \in DOMAIN ctx[r].table /\ ctx[r].table[v.id] = v.obj
      IN  /\ q.op \in {"use", "move", "drop"} => means(q.v)
          /\ q.op = "split" => \A i \in DOMAIN q.args : means(q.args[i])
          /\ q.op = "make" => q.v.id \notin DOMAIN ctx[r].table

(* A split_context_broadcast of the outermost program that returns has     *)
(* brought its argument to the rank that will be the root of each colour.  *)
BroadcastReachesRoots ==
  LET l == Top(0).last IN
    (/\ Depth(0) = 1 /\ Top(0).at = "user" /\ l # NoReq
     /\ l.ok /\ l.req.op = "split" /\ l.req.f = "bcast") =>
        \A r \in Rank : l.req.args[1].obj \in has[RootOf(SubComm(World, l.req.of, r))]

(* The exception of a function run in a context is an exception of the     *)
(* call that made the context: a split_context_execution that returns has  *)
(* ended without one in every group, of every rank.                        *)
ExceptionsSurface ==
  \A r \in Rank :
    LET l == Top(r).last IN
      (/\ IsRoot(r) /\ Top(r).at = "user" /\ l # NoReq
       /\ l.ok /\ l.req.op = "split") =>
          \A s \in Members(comm(r)) : ~ act[s][Depth(r)].inner

(* When all processes are gone every communicator but the first has been   *)
(* freed, every stack is empty and every variable has been deleted.        *)
NothingLeftOver ==
  AllGone => /\ DOMAIN log = {World}
             /\ \A r \in Rank : saved[r] = <<>> /\ ctx[r].table = <<>>

(* A call of split_context_execution comes back to the outermost program,  *)
(* whatever the groups do and whoever throws.                              *)
SplitReturns == (Top(0).at # "user" \/ Depth(0) > 1) ~> (Depth(0) = 1 /\ Top(0).at \in {"user", "gone"})
===========================================================================
