SPECIFICATION Spec
CONSTANTS
  Requests = {r1, r2, r3}
  NoOne = NoOne
  MaxPages = 2
  RecycleAfter = 2
  Threshold = 2
  Profile = TRUE
  ManagedDisplay = FALSE
  MaxCrashes = 0
  MaxWedges = 1
INVARIANT
  TearsDownItsOwn
SYMMETRY Symmetry
CHECK_DEADLOCK FALSE
