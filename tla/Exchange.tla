----------------------------- MODULE Exchange -----------------------------
(***************************************************************************)
(* The data of a dvector on its way between ranks: make_dvector_scatter,   *)
(* align_as, sort, put, head and tail of src/frovedis/core/dvector.hpp,    *)
(* with large_alltoallv and large_scatterv of mpihelper.cc below them.     *)
(*                                                                         *)
(* MPI counts and displacements are ints, so what goes from one rank to    *)
(* another travels in rounds of at most mpi_max_count / ranks bytes, which *)
(* may end in the middle of an element.  Each side computes from the       *)
(* layouts alone how much of every round is whose; a vote after each round *)
(* tells whether all are done.  Ranks go through the rounds at their own   *)
(* speed.  Calls on all ranks are over when they return (RpcService), so   *)
(* what an operation does before and after its exchange is one step.       *)
(* sizes() answers right here, which is CacheFresh of DVector; no helper   *)
(* throws in the middle of an exchange.                                    *)
(*                                                                         *)
(* An operator Name_how is Name with a slip in it; no specification uses   *)
(* it.  With it in the place of Name, some property below must fail.       *)
(***************************************************************************)
EXTENDS Integers, Sequences, SequencesExt, Functions, Layouts, Sorting

CONSTANTS
  Value,         \* the elements, natural numbers
  MaxTotal,      \* bound on the elements of the vector
  ElementSize,   \* sizeof(T)
  mpi_max_count

ASSUME ValueAssumption == Value \subseteq Nat
ASSUME SizesAssumption == ElementSize \in Nat \ {0} /\ MaxTotal \in Nat
ASSUME MaxCountAssumption == mpi_max_count \in Nat /\ mpi_max_count >= N

VARIABLES
  data,  \* data[r]: the elements rank r holds under the id of the dvector
  op,    \* what rank 0 is in the middle of
  dst,   \* dst[r]: under the id of the result, once r is through, else Waiting
  log,   \* log[r]: what r brought to each of the collectives it entered
  spos,  \* spos[r][i]: bytes r has brought for i
  rbuf   \* rbuf[r][i]: bytes r has from i

vars == <<data, op, dst, log, spos, rbuf>>

Idle == [name |-> "none"]
Waiting == <<-1>>
Global(d) == FlattenSeq([k \in 1 .. N |-> d[k - 1]])
LayoutOf(d) == [r \in Rank |-> Len(d[r])]
LayoutsOf(n) == {v \in [Rank -> 0 .. n] : Total(v) = n}
Empty == [r \in Rank |-> <<>>]
NoBytes == [r \in Rank |-> [i \in Rank |-> <<>>]]
NoCounts == [r \in Rank |-> [i \in Rank |-> 0]]

---------------------------------------------------------------------------
(* Elements and bytes.                                                     *)

Bytes(s) ==
  [k \in 1 .. Len(s) * ElementSize |->
     <<s[((k - 1) \div ElementSize) + 1], (k - 1) % ElementSize>>]
Elements(b) == [k \in 1 .. Len(b) \div ElementSize |-> b[(k - 1) * ElementSize + 1][1]]

---------------------------------------------------------------------------
(* sort: what happens before the exchange, and after it.                   *)

ceil_div(a, b) == (a + b - 1) \div b
Every(v) ==
  LET each == ceil_div(Len(v), N) IN
  {k \in 1 .. Len(v) : (k - 1) % each = 0}

(* sort_local_sort offers every each-th element, or those of them that     *)
(* drand48 picks: the places a rank may offer, and what it offers.         *)
Offered(v, picked) ==
  LET places == Sorted(SetToSeq(picked)) IN [k \in DOMAIN places |-> v[places[k]]]

(* The partitioners taken from the offers of all ranks, merged.            *)
partitioners(cand) ==
  LET each == ceil_div(Len(cand), N) IN
  [k \in 1 .. (IF cand = <<>> THEN 0 ELSE (Len(cand) - 1) \div each) |-> cand[k * each + 1]]

lower_bound(v, x) == Cardinality({k \in DOMAIN v : v[k] < x})

(* sort_part: how many elements of the sorted v are for rank i.            *)
part_size(v, part, i) ==
  LET cut(k) == IF k = 0 THEN 0
                ELSE IF k <= Len(part) THEN lower_bound(v, part[k]) ELSE Len(v)
  IN cut(i + 1) - cut(i)

(* sort_multimerge: again and again the least of the heads of the pieces.  *)
multimerge_unmerged(pieces) == Global(pieces)
multimerge(pieces) ==
  LET merged[idx \in [Rank -> 0 .. MaxTotal]] ==
        LET left == {i \in Rank : idx[i] < Len(pieces[i])} IN
        IF left = {} THEN <<>>
        ELSE LET from == CHOOSE i \in left : \A j \in left :
                           pieces[i][idx[i] + 1] <= pieces[j][idx[j] + 1]
             IN <<pieces[from][idx[from] + 1]>> \o merged[[idx EXCEPT ![from] = @ + 1]]
  IN merged[[i \in Rank |-> 0]]

---------------------------------------------------------------------------
(* Who sends how much to whom, from what buffer, in bytes.                 *)

Scattering == op.name = "scatter"
SendCount(s, i) ==
  ElementSize *
    (CASE op.name = "scatter" -> IF s = 0 THEN op.sizes[i] ELSE 0
       [] op.name = "align" -> alltoall_size(op.old, op.sizes, s, i)
       [] op.name = "sort" -> part_size(data[s], op.part, i))
sendbuf(s) == IF Scattering THEN Bytes(op.src) ELSE Bytes(data[s])
sdispl(s, i) == SumFunctionOnSet([j \in Rank |-> SendCount(s, j)], 0 .. i - 1)
RecvCount_from_row(r, i) == SendCount(r, i)
RecvCount(r, i) == SendCount(i, r)

local_max_count_undivided == mpi_max_count
local_max_count == mpi_max_count \div N
each_count(count, pos) == Smaller(count - pos, local_max_count)

(* What r brings to its next round when pos[i] bytes for i went before.    *)
Round(r, pos) ==
  [i \in Rank |-> SubSeq(sendbuf(r), sdispl(r, i) + pos[i] + 1,
                         sdispl(r, i) + pos[i] + each_count(SendCount(r, i), pos[i]))]

(* The collective r is in: rounds and votes take turns.  An Alltoallv and  *)
(* the Allreduce after it are left when all have entered, a Scatterv and   *)
(* the Bcast after it when rank 0 has.                                     *)
Begun(r) == log[r] # <<>>
InRound(r) == Len(log[r]) % 2 = 1
Awaited(r) == IF Scattering THEN {0} ELSE Rank
MayLeave(r) == \A q \in Awaited(r) : Len(log[q]) >= Len(log[r])
Now(q, r) == log[q][Len(log[r])]

---------------------------------------------------------------------------
Init ==
  /\ data = Empty /\ op = Idle /\ dst = [r \in Rank |-> Waiting]
  /\ log = Empty /\ spos = NoCounts /\ rbuf = NoBytes

Start(o) ==
  /\ op' = o
  /\ UNCHANGED <<dst, log, spos, rbuf>>

(* make_dvector_scatter(src, sizes), for a vector that has nothing yet.    *)
Scatter ==
  /\ op = Idle /\ data = Empty
  /\ \E src \in BoundedSeq(Value, MaxTotal) : \E sizes \in LayoutsOf(Len(src)) :
       Start([name |-> "scatter", src |-> src, sizes |-> sizes])
  /\ UNCHANGED data

(* align_as, or align_block; nothing is sent when the layout is the same.  *)
Align ==
  /\ op = Idle
  /\ \E sizes \in LayoutsOf(Total(LayoutOf(data))) :
       /\ sizes # LayoutOf(data)
       /\ Start([name |-> "align", old |-> LayoutOf(data), sizes |-> sizes])
  /\ UNCHANGED data

(* Every rank sorts what it has in place and offers candidates.            *)
Sort ==
  /\ op = Idle
  /\ data' = [r \in Rank |-> Sorted(data[r])]
  /\ \E picked \in SUBSET UNION {{r} \X Every(data'[r]) : r \in Rank} :
       LET offers == [r \in Rank |-> Offered(data'[r], {p[2] : p \in {q \in picked : q[1] = r}})]
       IN Start([name |-> "sort", part |-> partitioners(Sorted(Global(offers)))])

(* Operations without an exchange.                                         *)
Local(d) == data' = d /\ UNCHANGED <<op, dst, log, spos, rbuf>>

put ==
  /\ op = Idle
  /\ \E pos \in 0 .. Total(LayoutOf(data)) - 1, x \in Value :
       LET at == locate(LayoutOf(data), pos)
       IN Local([data EXCEPT ![at[1]][at[2] + 1] = x])

(* v = v.head(n), v = v.tail(n).                                           *)
head ==
  /\ op = Idle
  /\ \E n \in 0 .. MaxTotal + 1 :
       LET take == head_sizes(LayoutOf(data), n)
       IN Local([r \in Rank |-> SubSeq(data[r], 1, take[r])])
tail ==
  /\ op = Idle
  /\ \E n \in 0 .. MaxTotal + 1 :
       LET take == tail_sizes(LayoutOf(data), n)
       IN Local([r \in Rank |-> SubSeq(data[r], Len(data[r]) - take[r] + 1, Len(data[r]))])
clear == op = Idle /\ Local(Empty)

---------------------------------------------------------------------------
(* Rounds.                                                                 *)

EnterRound(r, pos) ==
  /\ log' = [log EXCEPT ![r] = Append(@, Round(r, pos))]
  /\ spos' = [spos EXCEPT ![r] = [i \in Rank |-> pos[i] + each_count(SendCount(r, i), pos[i])]]

Begin(r) ==
  /\ op # Idle /\ ~Begun(r) /\ dst[r] = Waiting
  /\ EnterRound(r, spos[r])
  /\ UNCHANGED <<data, op, dst, rbuf>>

(* Out of the Alltoallv with a piece from everyone, and into the vote: is  *)
(* r done with all it sends and all it receives?  In large_scatterv rank 0 *)
(* alone counts, what it sends.                                            *)
LeaveRound(r) ==
  /\ Begun(r) /\ InRound(r) /\ MayLeave(r)
  /\ rbuf' = [rbuf EXCEPT ![r] =
       [i \in Rank |-> IF i \in Awaited(r) THEN @[i] \o Now(i, r)[r] ELSE @[i]]]
  /\ LET done == \A i \in Rank : SendCount(r, i) = spos[r][i]
                   /\ (Scattering \/ RecvCount(r, i) = Len(rbuf'[r][i]))
     IN log' = [log EXCEPT ![r] = Append(@, done)]
  /\ UNCHANGED <<data, op, dst, spos>>

(* What r makes of the bytes that arrived.                                 *)
Arrived(r) ==
  IF op.name = "sort" THEN multimerge([i \in Rank |-> Elements(rbuf[r][i])])
  ELSE Elements(Global(rbuf[r]))

(* Out of the vote: another round, or the end.                             *)
LeaveVote_alone(r) ==
  /\ Begun(r) /\ ~InRound(r) /\ MayLeave(r) /\ dst[r] = Waiting
  /\ LET done_all == Now(IF Scattering THEN 0 ELSE r, r)
     IN \/ /\ done_all
           /\ dst' = [dst EXCEPT ![r] = Arrived(r)]
           /\ UNCHANGED <<log, spos>>
        \/ /\ ~done_all
           /\ EnterRound(r, spos[r])
           /\ UNCHANGED dst
  /\ UNCHANGED <<data, op, rbuf>>
LeaveVote(r) ==
  /\ Begun(r) /\ ~InRound(r) /\ MayLeave(r) /\ dst[r] = Waiting
  /\ LET done_all == \A q \in Awaited(r) : Now(q, r)
     IN \/ /\ done_all
           /\ dst' = [dst EXCEPT ![r] = Arrived(r)]
           /\ UNCHANGED <<log, spos>>
        \/ /\ ~done_all
           /\ EnterRound(r, spos[r])
           /\ UNCHANGED dst
  /\ UNCHANGED <<data, op, rbuf>>

(* All ranks are through: the dvector takes the id of the result.          *)
Finish ==
  /\ op # Idle /\ \A r \in Rank : dst[r] # Waiting
  /\ data' = dst
  /\ op' = Idle /\ dst' = [r \in Rank |-> Waiting]
  /\ log' = Empty /\ spos' = NoCounts /\ rbuf' = NoBytes

Step(r) == Begin(r) \/ LeaveRound(r) \/ LeaveVote(r)
Next ==
  \/ Scatter \/ Align \/ Sort \/ put \/ head \/ tail \/ clear
  \/ \E r \in Rank : Step(r)
  \/ Finish

Spec == Init /\ [][Next]_vars

(* MPI comes back from a collective that all have entered, and processes   *)
(* go on between collectives.                                              *)
Fairness == (\A r \in Rank : WF_vars(Step(r))) /\ WF_vars(Finish)
FairSpec == Spec /\ Fairness

---------------------------------------------------------------------------
(* The variables keep their types; what a rank holds are whole elements.   *)
TypeOK ==
  /\ \A r \in Rank : data[r] \in Seq(Value) /\ Len(data[r]) <= MaxTotal
  /\ op.name \in {"none", "scatter", "align", "sort"}
  /\ \A r \in Rank : dst[r] = Waiting \/ dst[r] \in Seq(Value)
  /\ \A r, i \in Rank : op # Idle => spos[r][i] \in 0 .. SendCount(r, i)
  /\ \A r \in Rank : dst[r] # Waiting /\ op.name # "sort" =>
       Bytes(dst[r]) = Global(rbuf[r])

(* In every Alltoallv and Scatterv a rank receives from each rank exactly  *)
(* as much as it expects: the two sides, which count on their own, never   *)
(* disagree about a round.                                                 *)
CountsMatch ==
  \A r \in Rank : Begun(r) /\ InRound(r) /\ MayLeave(r) =>
    \A i \in Awaited(r) :
      Len(Now(i, r)[r]) = each_count(RecvCount(r, i), Len(rbuf[r][i]))

(* What a rank brings to a round, and what it takes out of it, fits the    *)
(* ints MPI counts displacements with.                                     *)
DisplsFit ==
  \A r \in Rank : Begun(r) /\ InRound(r) =>
    /\ SumFunction([i \in Rank |-> Len(log[r][Len(log[r])][i])]) <= mpi_max_count
    /\ MayLeave(r) =>
         SumFunctionOnSet([i \in Rank |-> IF i \in Awaited(r) THEN Len(Now(i, r)[r]) ELSE 0],
                          Rank) <= mpi_max_count

(* After scatter and align_as the ranks hold what the caller asked for.    *)
LaidOutAsAsked ==
  [][op' = Idle /\ op.name \in {"scatter", "align"} => LayoutOf(data') = op.sizes]_vars

(* Whatever the layouts, the chunks, the partitioners and the speed of the *)
(* ranks, a dvector is a vector: scatter fills it, align_as leaves it, sort*)
(* sorts it (from the moment it starts to move elements), put, head and    *)
(* tail do to it what they say.                                            *)
ToTheUser == IF op.name = "sort" THEN Sorted(Global(data)) ELSE Global(data)
AsVector == INSTANCE GlobalVector WITH value <- ToTheUser
ImplementsVector == AsVector!Spec

(* Every exchange ends, on all ranks.                                      *)
ExchangesEnd == op # Idle ~> op = Idle
===========================================================================
