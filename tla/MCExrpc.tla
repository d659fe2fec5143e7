------------------------------ MODULE MCExrpc ------------------------------
(* Small instances of Exrpc: two client processes, t3 a thread of the one, *)
(* all other threads of the other.                                         *)
EXTENDS Exrpc

CONSTANTS t1, t2, t3, p1, p2

MCProcOf == [t \in Thread |-> IF t = t3 THEN p2 ELSE p1]

(* t1 makes two calls, the others one.                                     *)
MCMaxCalls == [t \in Thread |-> IF t = t1 THEN 2 ELSE 1]
Twice == [t \in Thread |-> 2]

call(type, run) == [type |-> type, run |-> run]

(* Calls after which the server still runs, to functions that are exposed  *)
(* when nobody waits for the answer.                                       *)
Lasting ==
  {call("async", "value"), call("async", "exception"), call("oneway", "value"),
   call("oneway", "not_exposed"), call("oneway_noexcept", "value"),
   call("rawsend", "value"), call("rawrecv", "value")}

(* With those that end the server: its shutdown, or an exception nobody    *)
(* catches.                                                                *)
Ending == {call("finalize", "value"), call("oneway_noexcept", "exception")}
WithEnding == Lasting \cup Ending

(* With a function the server does not know, called without waiting.       *)
WithUnknown == Lasting \cup {call("oneway_noexcept", "not_exposed")}
=============================================================================
