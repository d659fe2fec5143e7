------------------------------ MODULE MCModels ------------------------------
(* Small instances of Models.  Rules are interchangeable, and so are the   *)
(* types of elements.                                                      *)
EXTENDS Models, TLC

Symmetry == Permutations(RuleObj) \cup Permutations(LR)
=============================================================================
