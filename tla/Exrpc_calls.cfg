SPECIFICATION Spec
CONSTANTS
  t1 = t1
  t2 = t2
  t3 = t3
  p1 = p1
  p2 = p2
  none = none
  Thread = {t1, t2, t3}
  Proc = {p1, p2}
  ProcOf <- MCProcOf
  Node = {n1}
  Calls <- WithEnding
  MaxCalls <- MCMaxCalls
INVARIANTS TypeOK RepliesMatch CleanWhenFree HandledInOrder StreamInv
CHECK_DEADLOCK FALSE
