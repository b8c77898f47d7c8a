\* A large request does all a small one does, and more: both are large here.
SPECIFICATION Spec
CONSTANTS
  Calls = {"large", "huge"}
  Daemons = {"first", "second"}
  Nobody = "nobody"
  Large = {"large", "huge"}
  Oversized = {"huge"}
INVARIANTS
  RunsOnce
  Reachable
PROPERTIES
  EveryCallEnds
CHECK_DEADLOCK FALSE
