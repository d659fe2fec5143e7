----------------------------- MODULE Sorting -----------------------------
(***************************************************************************)
(* What sorting numbers comes to: the same numbers, each as often as       *)
(* before, in ascending order.                                             *)
(***************************************************************************)
EXTENDS Integers, FiniteSets, Functions

Times(s, x) == Cardinality({i \in DOMAIN s : s[i] = x})

Sorted(s) ==
  CHOOSE t \in [DOMAIN s -> Range(s)] :
    /\ \A i, j \in DOMAIN s : i < j => t[i] <= t[j]
    /\ \A x \in Range(s) : Times(t, x) = Times(s, x)
==========================================================================
