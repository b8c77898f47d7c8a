SPECIFICATION Spec
CONSTANTS
  Callers = {"one", "other"}
  NoOne = NoOne
  Workers = 1
  Urls = {"page", "listing", "product", "bad"}
  Shape <- MCShape
  Mixes <- MCMixes
  GuardOn = TRUE
  Outages = 1
PROPERTIES
  DownIsNoError
CHECK_DEADLOCK FALSE
