SPECIFICATION OrderedSpec
CONSTANTS
  Requests = {1, 2, 3}
  NoOne = 0
  MaxPages = 2
  RecycleAfter = 2
  Threshold = 2
  Profile = FALSE
  ManagedDisplay = FALSE
  MaxCrashes = 1
  MaxWedges = 0
PROPERTY
  EveryRequestAnswered
CHECK_DEADLOCK FALSE
