SPECIFICATION Spec
CONSTANTS
  N = 2
  Obj = {a, b}
  MaxLen = 2
  MaxDvid = 4
  absent = absent
  Faults = FALSE
  WithViews = FALSE
  WithSort = TRUE
  SelfAssign = FALSE
  Resized = {}
  SizedToo = FALSE
INVARIANTS CacheFresh
