SPECIFICATION Spec
CONSTANTS
  N = 2
  MaxCount = 2
  ArgCounts = {0, 3}
  OutSizes = {0, 1, 2}
  MaxReqs = 2
INVARIANTS TypeOK GatherCountsMatch ExitsServed
