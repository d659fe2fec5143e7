SPECIFICATION Spec
CONSTANTS
  t1 = t1
  t2 = t2
  t3 = t3
  p1 = p1
  p2 = p2
  none = none
  Thread = {t1}
  Proc = {p1, p2}
  ProcOf <- MCProcOf
  Node = {n1}
  Calls <- WithUnknown
  MaxCalls <- MCMaxCalls
INVARIANTS RepliesMatch
CHECK_DEADLOCK FALSE
