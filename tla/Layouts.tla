------------------------------ MODULE Layouts ------------------------------
(***************************************************************************)
(* How a dvector lies on the ranks, and what its operations compute from   *)
(* that on rank 0: where an element is, how much head and tail take from   *)
(* each rank, who sends how much to whom when the layout changes           *)
(* (src/frovedis/core/dvector.hpp, dvector.cc).  A layout is the number of *)
(* elements of every rank; the vector is their data in the order of ranks. *)
(*                                                                         *)
(* An operator Name_how is Name with a slip in it; no specification uses   *)
(* it.  With it in the place of Name, a property of a module that extends  *)
(* this one must fail.                                                     *)
(***************************************************************************)
EXTENDS Integers, Functions

CONSTANT N  \* number of ranks
ASSUME NAssumption == N \in Nat \ {0}

Rank == 0 .. N - 1

Smaller(a, b) == IF a <= b THEN a ELSE b
Total(len) == SumFunction(len)
Before(len, r) == SumFunctionOnSet(len, 0 .. r - 1)

(* The loop of put and get: the rank, and the place there, of element pos. *)
locate(v, pos) ==
  LET rest[r \in Rank] == IF r = 0 THEN pos ELSE rest[r - 1] - v[r - 1]
      found == CHOOSE r \in Rank : rest[r] < v[r] /\ \A q \in 0 .. r - 1 : rest[q] >= v[q]
  IN <<found, rest[found]>>

(* How many of n elements head (tail) takes from each rank: the loops over *)
(* to_trunc_size.                                                          *)
head_sizes(v, n) ==
  LET rest[r \in Rank] == IF r = 0 THEN n
        ELSE IF rest[r - 1] > v[r - 1] THEN rest[r - 1] - v[r - 1] ELSE 0
  IN [r \in Rank |-> Smaller(rest[r], v[r])]
tail_sizes(v, n) ==
  LET back == head_sizes([r \in Rank |-> v[N - 1 - r]], n) IN [r \in Rank |-> back[N - 1 - r]]

(* align_as_calc_alltoall_sizes: how many elements rank s sends to rank i  *)
(* when the layout changes from src to dst.                                *)
internal_error == -1

alltoall_size_unguarded(src, dst, s, i) ==
  LET start == Before(src, s)
      end == start + src[s]
      dst_start == Before(dst, i)
      dst_end == dst_start + dst[i]
  IN CASE dst_start < start /\ dst_end < end -> dst_end - start
       [] dst_start < start /\ dst_end >= end -> end - start
       [] dst_start >= start /\ dst_start < end /\ dst_end < end -> dst_end - dst_start
       [] dst_start >= start /\ dst_start < end /\ dst_end >= end -> end - dst_start
       [] OTHER -> 0

alltoall_size_uncovered(src, dst, s, i) ==
  LET start == Before(src, s)
      end == start + src[s]
      dst_start == Before(dst, i)
      dst_end == dst_start + dst[i]
  IN CASE dst_start < start /\ dst_end >= start /\ dst_end < end -> dst_end - start
       [] dst_start >= start /\ dst_start < end /\ dst_end < end -> dst_end - dst_start
       [] dst_start >= start /\ dst_start < end /\ dst_end >= end -> end - dst_start
       [] OTHER -> 0

alltoall_size(src, dst, s, i) ==
  LET start == Before(src, s)
      end == start + src[s]
      dst_start == Before(dst, i)
      dst_end == dst_start + dst[i]
  IN CASE dst_start < start /\ dst_end < start -> 0
       [] dst_start < start /\ dst_end >= start /\ dst_end < end -> dst_end - start
       [] dst_start < start /\ dst_end >= start /\ dst_end >= end -> end - start
       [] dst_start >= start /\ dst_start < end /\ dst_end < end -> dst_end - dst_start
       [] dst_start >= start /\ dst_start < end /\ dst_end >= end -> end - dst_start
       [] dst_start >= end /\ dst_end >= end -> 0
       [] OTHER -> internal_error

(* align_block's block_size for sz elements.                               *)
block_size(sz) ==
  LET each == (sz + N - 1) \div N IN
  [r \in Rank |-> IF sz < each * r THEN 0 ELSE Smaller(each, sz - each * r)]
============================================================================
