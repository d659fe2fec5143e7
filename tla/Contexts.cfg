SPECIFICATION FairSpec
CONSTANTS
  N = 4
  Budget <- BudgetDef
  MaxOwn = 1
  Faulty = {2}
INVARIANTS TypeOK CollectivesPair IdsMeanOneVariable BroadcastReachesRoots ExceptionsSurface NothingLeftOver
PROPERTIES SplitReturns
