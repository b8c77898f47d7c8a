SPECIFICATION Spec
CONSTANTS
  Pages = {"one", "two"}
  Sites = {"forum"}
  Site <- MCSite
  Nobody = "nobody"
  SolveTurnstile = TRUE
  ManualSolve = TRUE
  ClearOnWall = TRUE
INVARIANTS
  NoPageLeft
CHECK_DEADLOCK FALSE
