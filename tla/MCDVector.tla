------------------------------ MODULE MCDVector ------------------------------
(* Small instances of DVector.                                             *)
EXTENDS DVector

(* Sizes that are not valid are not read again: every operation fetches    *)
(* new ones, or hands on the flag with them.  States that differ only in   *)
(* such sizes count as one.                                                *)
View ==
  <<[o \in Obj |-> IF objs[o].is_sizevec_valid THEN objs[o]
                   ELSE [objs[o] EXCEPT !.sizevec = NoSizes]],
    table, current_dvid, process>>
=============================================================================
