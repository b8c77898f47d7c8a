SPECIFICATION Spec
CONSTANTS
  Calls = {"small", "large"}
  Daemons = {"first", "second"}
  Nobody = "nobody"
  Large = {"large"}
  Oversized = {}
PROPERTIES
  NeverKept
CHECK_DEADLOCK FALSE
