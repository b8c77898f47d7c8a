SPECIFICATION Spec
CONSTANTS
  Requests = {r1, r2, r3}
  NoOne = NoOne
  MaxPages = 2
  RecycleAfter = 2
  Threshold = 2
  Profile = TRUE
  ManagedDisplay = TRUE
  MaxCrashes = 2
  MaxWedges = 1
INVARIANTS
  TypeOK
  OneBrowser
  RecycleBound
  RetryGetsAnotherBrowser
  OneCreation
SYMMETRY Symmetry
CHECK_DEADLOCK FALSE
