SPECIFICATION FairSpec
CONSTANTS
  N = 3
  MaxCount = 3
  ArgCounts = {0, 4}
  OutSizes = {0, 2}
  MaxReqs = 1
INVARIANTS CollectivesAgree
PROPERTIES ImplementsService CallsReturn FinalizeEndsAll
