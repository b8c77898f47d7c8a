SPECIFICATION Spec
CONSTANTS
  Calls = {"small", "large"}
  Daemons = {"first", "second"}
  Nobody = "nobody"
  Large = {"large"}
  Oversized = {}
INVARIANTS
  DropsAreCaught
CHECK_DEADLOCK FALSE
