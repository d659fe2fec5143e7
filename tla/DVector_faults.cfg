SPECIFICATION Spec
CONSTANTS
  N = 2
  Obj = {a, b}
  MaxLen = 1
  MaxDvid = 4
  absent = absent
  Faults = TRUE
  WithViews = TRUE
  WithSort = TRUE
  SelfAssign = TRUE
  Resized = {a, b}
  SizedToo = TRUE
INVARIANTS SingleOwner OwnedAlike
PROPERTIES NamesNeverRebound
CHECK_DEADLOCK FALSE
