SPECIFICATION Spec
CONSTANTS
  N = 2
  Obj = {a, b}
  MaxLen = 2
  MaxDvid = 5
  absent = absent
  Faults = FALSE
  WithViews = FALSE
  WithSort = FALSE
  SelfAssign = FALSE
  Resized = {b}
  SizedToo = FALSE
INVARIANTS TypeOK CacheFresh NoLeak DestructorsSafe
PROPERTIES BehavesAsValues
VIEW View
