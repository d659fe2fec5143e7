----------------------------- MODULE DistValues -----------------------------
(***************************************************************************)
(* What the manual promises of dvector and node_local: they behave like    *)
(* std::vector.  An object holds a value of its own, spread over the       *)
(* ranks; copying duplicates it, moving hands it over, and an operation on *)
(* one object never shows in another.  The value is abstracted to how many *)
(* elements each rank holds.                                               *)
(***************************************************************************)
EXTENDS Integers, Functions

CONSTANTS
  N,       \* number of ranks
  Obj,     \* the objects of the user's program
  MaxLen,  \* bound on the elements a rank holds
  Edits    \* the objects whose value the program may replace where it is

VARIABLE vals   \* vals[o]: what object o holds

Rank == 0 .. N - 1
Lens == [Rank -> 0 .. MaxLen]

Out == [is |-> "out of scope"]
Empty == [is |-> "empty"]
Moved == [is |-> "moved from"]
Data(len) == [is |-> "data", len |-> len]

Total(len) == SumFunction(len)

Scoped(o) == vals[o] # Out
HasData(o) == vals[o].is = "data"
Becomes(o, v) == vals' = [vals EXCEPT ![o] = v]

Init == vals = [o \in Obj |-> Out]

Construct(o) == ~ Scoped(o) /\ \E v \in {Empty} \cup {Data(len) : len \in Lens} : Becomes(o, v)

Copy(o, s) == vals[s] \notin {Out, Moved} /\ Becomes(o, vals[s])

Move(o, s) ==
  /\ o # s /\ vals[s] \notin {Out, Moved}
  /\ vals' = [vals EXCEPT ![o] = vals[s], ![s] = Moved]

(* Filtering or clearing in place takes elements away where they are.      *)
Remove(o) == HasData(o) /\ \E len \in Lens :
  /\ \A r \in Rank : len[r] <= vals[o].len[r]
  /\ Becomes(o, Data(len))

(* Aligning moves elements between ranks and loses none.                   *)
Realign(o) == HasData(o) /\ \E len \in Lens :
  /\ Total(len) = Total(vals[o].len)
  /\ Becomes(o, Data(len))

Edit(o) == o \in Edits /\ HasData(o) /\ \E len \in Lens : Becomes(o, Data(len))

Drop(o) == Scoped(o) /\ Becomes(o, Out)

Next == \E o \in Obj :
  \/ Construct(o) \/ Remove(o) \/ Realign(o) \/ Edit(o) \/ Drop(o)
  \/ \E s \in Obj : Copy(o, s) \/ Move(o, s)

Spec == Init /\ [][Next]_vals
=============================================================================
