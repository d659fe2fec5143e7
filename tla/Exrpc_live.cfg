SPECIFICATION FairSpec
CONSTANTS
  t1 = t1
  t2 = t2
  t3 = t3
  p1 = p1
  p2 = p2
  none = none
  Thread = {t1, t2}
  Proc = {p1, p2}
  ProcOf <- MCProcOf
  Node = {n1, n2}
  Calls <- Lasting
  MaxCalls <- MCMaxCalls
INVARIANTS LocksReleased
PROPERTIES CallsEnd
CHECK_DEADLOCK FALSE
