--------------------------- MODULE GlobalVector ---------------------------
(***************************************************************************)
(* What a dvector is to its user: one vector, with no word about ranks.    *)
(***************************************************************************)
EXTENDS Integers, Sequences, SequencesExt, Sorting

CONSTANTS
  Value,     \* the elements, ordered by <
  MaxTotal   \* bound on the length

VARIABLE value

Smallest(a, b) == IF a < b THEN a ELSE b

Make == value = <<>> /\ value' \in BoundedSeq(Value, MaxTotal)
Clear == value' = <<>>
Put == \E i \in DOMAIN value, x \in Value : value' = [value EXCEPT ![i] = x]
TakeHead == \E n \in 0 .. MaxTotal + 1 :
  value' = SubSeq(value, 1, Smallest(n, Len(value)))
TakeTail == \E n \in 0 .. MaxTotal + 1 :
  value' = SubSeq(value, Len(value) - Smallest(n, Len(value)) + 1, Len(value))
Sort == value' = Sorted(value)

Init == value = <<>>
Next == Make \/ Clear \/ Put \/ TakeHead \/ TakeTail \/ Sort
Spec == Init /\ [][Next]_value
===========================================================================
