SPECIFICATION Spec
CONSTANTS
  Pages = {"one", "two"}
  Sites = {"forum"}
  Site <- MCSite
  Nobody = "nobody"
  SolveTurnstile = TRUE
  ManualSolve = TRUE
  ClearOnWall = TRUE
INVARIANTS
  PageHasOneOwner
  ClearsOncePerCooldown
PROPERTIES
  EveryPageCloses
CHECK_DEADLOCK FALSE
